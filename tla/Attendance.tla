----------------------------- MODULE Attendance -----------------------------
(***************************************************************************)
(* The clock of a store (internal/modules/attendance).  A Clock request    *)
(* checks who asks, reads the member's PIN, reads his last event and then  *)
(* inserts the opposite one, a statement each; the staff may change        *)
(* between any two.                                                        *)
(***************************************************************************)
EXTENDS StoreStaff, Sequences, SequencesExt

CONSTANTS
  MaxEvents  \* clock events of the store (bound)

VARIABLES
  clocked,    \* [Staff -> Seq([type, read, excused])], store_attendance_events; history: read
              \* is how many events the request had read past, excused whether the member
              \* still had the PIN that was checked or the staff had changed since
  clocking    \* [Calls -> [at, staff, pin, type, read, overtaken]], Clock requests under
              \* way; overtaken (history) since the staff changed after the PIN was read

attendanceVars == <<staff, clocked, clocking>>

NoClocking == [at |-> "idle", staff |-> None, pin |-> None, type |-> None, read |-> 0, overtaken |-> FALSE]

AttendanceInit ==
  /\ StaffInit
  /\ clocked = [s \in Staff |-> <<>>]
  /\ clocking = [c \in Calls |-> NoClocking]

-----------------------------------------------------------------------------

\* The vendor and administrators, who need no row, any manager, and who clocks himself.
MayClock(a, s) ==
  a \in {None} \cup {m \in Staff : staff[m].role = "MANAGER" \/ (m = s /\ staff[m] # NoMember)}

\* Who asks is not read again.
Clock(c, a, s) ==
  /\ clocking[c] = NoClocking
  /\ MayClock(a, s)
  /\ clocking' = [clocking EXCEPT ![c].at = "allowed", ![c].staff = s]
  /\ UNCHANGED <<staff, clocked>>

Known(c) ==
  /\ clocking[c].at = "allowed"
  /\ clocking' = [clocking EXCEPT ![c].at = "known", ![c].pin = staff[clocking[c].staff].pin]
  /\ UNCHANGED <<staff, clocked>>

BugGetPINHashOfNobody(c) == Known(c)

\* No row, no PIN or another PIN is an error.
GetPINHash(c) == Known(c) /\ staff[clocking[c].staff].pin # None

BugNextEventTypeStuck(s) == "CLOCK_IN"

NextEventType(s) ==
  IF clocked[s] # <<>> /\ Last(clocked[s]).type = "CLOCK_IN" THEN "CLOCK_OUT" ELSE "CLOCK_IN"

GetLastEventType(c) ==
  LET s == clocking[c].staff IN
  /\ clocking[c].at = "known"
  /\ clocking' = [clocking EXCEPT ![c].at = "insert",
       ![c].type = NextEventType(s), ![c].read = Len(clocked[s])]
  /\ UNCHANGED <<staff, clocked>>

\* The event refers to the user and the store, not to the row of the member.
CreateEvent(c) ==
  LET me == clocking[c] s == me.staff IN
  /\ me.at = "insert"
  /\ MapThenSumSet(LAMBDA t : Len(clocked[t]), Staff) < MaxEvents
  /\ clocked' = [clocked EXCEPT ![s] = Append(@, [type |-> me.type, read |-> me.read,
       excused |-> me.overtaken \/ (me.pin # None /\ staff[s].pin = me.pin)])]
  /\ clocking' = [clocking EXCEPT ![c] = NoClocking]
  /\ UNCHANGED staff

\* The request is refused, or dropped before it inserts.
ClockDropped(c) ==
  /\ clocking[c] # NoClocking
  /\ clocking' = [clocking EXCEPT ![c] = NoClocking]
  /\ UNCHANGED <<staff, clocked>>

\* A change of the staff overtakes the requests under way.
StaffChanges ==
  /\ StaffNext
  /\ clocking' = [c \in Calls |-> [clocking[c] EXCEPT !.overtaken = @ \/ clocking[c].at \in {"known", "insert"}]]
  /\ UNCHANGED clocked

AttendanceNext ==
  \/ \E c \in Calls :
       \/ \E a \in Staff \cup {None}, s \in Staff : Clock(c, a, s)
       \/ GetPINHash(c) \/ GetLastEventType(c) \/ CreateEvent(c) \/ ClockDropped(c)
  \/ StaffChanges

AttendanceSpec == AttendanceInit /\ [][AttendanceNext]_attendanceVars

-----------------------------------------------------------------------------

\* Clocking alternates: the same event twice in a row comes only from a request that
\* had not read the first of the two.
RepeatsAreRaces ==
  \A s \in Staff : \A i \in 2..Len(clocked[s]) :
    clocked[s][i].type = clocked[s][i - 1].type => clocked[s][i].read < i - 1

\* Who is clocked is a member with the PIN that was typed: an event of anybody else
\* comes from a request that a change of the staff overtook after it read the PIN.
LateClocksAreOvertaken == \A s \in Staff : \A i \in DOMAIN clocked[s] : clocked[s][i].excused
=============================================================================
