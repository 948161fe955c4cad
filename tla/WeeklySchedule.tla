--------------------------- MODULE WeeklySchedule ---------------------------
(***************************************************************************)
(* What the opening hours of a store promise: a request replaces the whole *)
(* week at one instant or leaves it alone, and a request that is told it   *)
(* did has done so.  A request told of an error may have replaced the week *)
(* all the same.                                                           *)
(***************************************************************************)
CONSTANTS
  Replaces,  \* requests to replace the week
  None

VARIABLES
  week,      \* the request whose week is shown, None before the first
  outcome    \* [Replaces -> "open" | "replaced" | "told" | "error"]

scheduleVars == <<week, outcome>>

Init ==
  /\ week = None
  /\ outcome = [r \in Replaces |-> "open"]

Replace(r) ==
  /\ outcome[r] = "open"
  /\ week' = r
  /\ \E o \in {"replaced", "error"} : outcome' = [outcome EXCEPT ![r] = o]

Refuse(r) ==
  /\ outcome[r] = "open"
  /\ outcome' = [outcome EXCEPT ![r] = "error"]
  /\ UNCHANGED week

Answer(r) ==
  /\ outcome[r] = "replaced"
  /\ \E o \in {"told", "error"} : outcome' = [outcome EXCEPT ![r] = o]
  /\ UNCHANGED week

Next == \E r \in Replaces : Replace(r) \/ Refuse(r) \/ Answer(r)

Spec == Init /\ [][Next]_scheduleVars
=============================================================================
