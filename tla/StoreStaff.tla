----------------------------- MODULE StoreStaff -----------------------------
(***************************************************************************)
(* The staff of one store (internal/modules/inventory, store_staff): a row *)
(* per member with a role and the PIN of the attendance module.  Every     *)
(* change is one statement on the row of a member.                         *)
(***************************************************************************)
EXTENDS RequestBase, Naturals

CONSTANTS
  Staff,
  Owner,  \* the vendor's owner, a member by the trigger of the store's creation
  Pins    \* hashes (bound)

ASSUME StaffAssumption == Owner \in Staff /\ None \notin Pins

VARIABLE
  staff  \* [Staff -> [role, pin]], role "NONE" without a row

\* A CASHIER is STAFF to the clock.
StaffRole == {"STAFF", "MANAGER"}
NoMember == [role |-> "NONE", pin |-> None]

StaffInit ==
  staff = [s \in Staff |-> IF s = Owner THEN [role |-> "MANAGER", pin |-> None] ELSE NoMember]

-----------------------------------------------------------------------------

SetMember(s, row) == staff' = [staff EXCEPT ![s] = row]

\* By user id or by e-mail; a second row of a member is refused.
AddStaff(s, role) == staff[s] = NoMember /\ SetMember(s, [role |-> role, pin |-> None])

UpdateStaffRole(s, role) == staff[s] # NoMember /\ SetMember(s, [staff[s] EXCEPT !.role = role])

\* The row goes, and its PIN.
RemoveStaff(s) == SetMember(s, NoMember)

\* An UPDATE that finds no row is an error.
SetPIN(s, pin) == staff[s] # NoMember /\ SetMember(s, [staff[s] EXCEPT !.pin = pin])

StaffNext ==
  \E s \in Staff :
    \/ \E role \in StaffRole : AddStaff(s, role) \/ UpdateStaffRole(s, role)
    \/ RemoveStaff(s)
    \/ \E pin \in Pins : SetPIN(s, pin)
=============================================================================
