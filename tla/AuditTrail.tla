----------------------------- MODULE AuditTrail -----------------------------
(***************************************************************************)
(* An account that administrators turn on and off, and the audit log of it *)
(* (internal/modules/admin): an UPDATE, a read of the row and an INSERT    *)
(* whose error is dropped, a statement each.  UpdateUser, DeactivateUser   *)
(* and UpdateAdministratorStatus differ in their checks only, which        *)
(* Accounts.tla has.                                                       *)
(***************************************************************************)
EXTENDS RequestBase, Naturals, Sequences, SequencesExt

CONSTANTS
  MaxAudits  \* rows of the log (bound)

VARIABLES
  standing,  \* users.is_active, "on" or "off"
  auditing,  \* [Calls -> the value whose row is still to be written, or None]
  trail,     \* Seq of values, the account's rows of admin_audit_logs by created_at
  muddled    \* history: the last UPDATE overlapped another request, or its row was lost

auditVars == <<standing, auditing, trail, muddled>>

Standing == {"on", "off"}

ASSUME AuditAssumption == None \notin Standing

AuditInit ==
  /\ standing = "on"
  /\ auditing = [c \in Calls |-> None]
  /\ trail = <<>>
  /\ muddled = FALSE

Auditing == {c \in Calls : auditing[c] # None}

-----------------------------------------------------------------------------

\* Either value over either: the row that was read decides nothing but the refusals.
UpdateUser(c, active) ==
  /\ auditing[c] = None
  /\ standing' = active
  /\ auditing' = [auditing EXCEPT ![c] = active]
  /\ muddled' = (Auditing # {})
  /\ UNCHANGED trail

BugCreateAuditLogOfTheRow(c) ==
  /\ auditing[c] # None /\ Len(trail) < MaxAudits
  /\ trail' = Append(trail, IF trail = <<>> THEN "on" ELSE Last(trail))
  /\ auditing' = [auditing EXCEPT ![c] = None]
  /\ UNCHANGED <<standing, muddled>>

\* The account was read again, and the row of the log says what was asked for.
CreateAuditLog(c) ==
  /\ auditing[c] # None /\ Len(trail) < MaxAudits
  /\ trail' = Append(trail, auditing[c])
  /\ auditing' = [auditing EXCEPT ![c] = None]
  /\ UNCHANGED <<standing, muddled>>

\* The account cannot be read, which is an error, or the row not written, which is not.
AuditLost(c) ==
  /\ auditing[c] # None
  /\ auditing' = [auditing EXCEPT ![c] = None]
  /\ muddled' = TRUE
  /\ UNCHANGED <<standing, trail>>

AuditNext ==
  \E c \in Calls :
    \/ \E active \in Standing : UpdateUser(c, active)
    \/ CreateAuditLog(c) \/ AuditLost(c)

AuditSpec == AuditInit /\ [][AuditNext]_auditVars

-----------------------------------------------------------------------------

\* The log ends with the status the account has, unless requests overlapped, one is
\* under way or the last row was lost.
AuditTellsTheStatus ==
  Auditing = {} /\ ~muddled => standing = IF trail = <<>> THEN "on" ELSE Last(trail)
=============================================================================
