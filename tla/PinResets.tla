----------------------------- MODULE PinResets ------------------------------
(***************************************************************************)
(* The links that reset the PIN of the one store owner (internal/modules/  *)
(* attendance): a new link is two statements, consuming one a transaction. *)
(***************************************************************************)
EXTENDS StoreStaff

CONSTANTS
  Resets    \* reset links (bound)

VARIABLES
  reset,    \* [Resets -> "none" | "asked" | "open" | "used" | "lapsed"]
  rivals    \* history: [Resets -> requests under way when this one used up the open links]

resetVars == <<staff, reset, rivals>>

ResetsInit ==
  /\ StaffInit
  /\ reset = [r \in Resets |-> "none"]
  /\ rivals = [r \in Resets |-> {}]

-----------------------------------------------------------------------------

UnderWay == {r \in Resets : reset[r] = "asked"}

\* RequestOwnerPINReset: the links that are not used yet are marked used ...
UseUpResets(r) ==
  /\ reset[r] = "none"
  /\ reset' = [q \in Resets |-> CASE q = r -> "asked"
                                  [] reset[q] \in {"open", "lapsed"} -> "used"
                                  [] OTHER -> reset[q]]
  /\ rivals' = [rivals EXCEPT ![r] = UnderWay]
  /\ UNCHANGED staff

\* ... and the new one is inserted, to be mailed, whether the mail goes out or not.
InsertReset(r) ==
  /\ reset[r] = "asked"
  /\ reset' = [reset EXCEPT ![r] = "open"]
  /\ UNCHANGED <<staff, rivals>>

\* The second statement fails, or never comes.
InsertResetFails(r) ==
  /\ reset[r] = "asked"
  /\ reset' = [reset EXCEPT ![r] = "used"]
  /\ UNCHANGED <<staff, rivals>>

\* ConsumePINResetAndSetOwnerPIN, one transaction: FOR UPDATE lets one of two
\* requests with the same link find it unused.  An owner who is no member any more
\* is told so and the link stays open.
ConfirmOwnerPINReset(r, pin) ==
  /\ reset[r] = "open"
  /\ SetPIN(Owner, pin)
  /\ reset' = [reset EXCEPT ![r] = "used"]
  /\ UNCHANGED rivals

\* Fifteen minutes pass.
ResetLapses(r) ==
  /\ reset[r] = "open"
  /\ reset' = [reset EXCEPT ![r] = "lapsed"]
  /\ UNCHANGED <<staff, rivals>>

ResetsNext ==
  \/ \E r \in Resets : \/ UseUpResets(r) \/ InsertReset(r) \/ InsertResetFails(r) \/ ResetLapses(r)
                       \/ \E pin \in Pins : ConfirmOwnerPINReset(r, pin)
  \/ StaffNext /\ UNCHANGED <<reset, rivals>>

ResetsSpec == ResetsInit /\ [][ResetsNext]_resetVars

-----------------------------------------------------------------------------

\* A new link replaces the last: two links work at once only if their requests
\* overlapped.
OpenLinksAreRivals ==
  \A q, r \in Resets :
    q # r /\ reset[q] = "open" /\ reset[r] = "open" => q \in rivals[r] \/ r \in rivals[q]
=============================================================================
