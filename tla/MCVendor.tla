------------------------------ MODULE MCVendor ------------------------------
(***************************************************************************)
(* What a vendor, his staff and his administrators do.  The parts share no *)
(* table as modelled here, but for the staff: billing reaches              *)
(* OperatingStatus as its own, smaller account.  A behaviour works on one. *)
(***************************************************************************)
EXTENDS VendorBilling, OperatingStatus, VendorOnboarding, Attendance, PinResets, AuditTrail,
        NotificationInbox

CONSTANTS v1, v2, t1, t2, i1, i2, c1, c2, p1, p2, x1, x2, x3, n1, n2, n3,
          Parts  \* the parts to explore

VARIABLE part

MCSymmetry == UNION {Permutations({c1, c2}), Permutations({i1, i2}), Permutations({n1, n2})}

clockVars == <<clocked, clocking>>
linkVars == <<reset, rivals>>

MCInit ==
  /\ part \in Parts
  /\ BillingInit /\ OperatingInit /\ OnboardingInit /\ AttendanceInit /\ ResetsInit
  /\ AuditInit /\ InboxInit

\* The rest of the state while a behaviour works on one part of a group.
atWork == <<billingVars, operatingVars, onboardingVars>>
atStore == <<staff, clockVars, linkVars>>
atDesk == <<auditVars, inboxVars>>

MCNext ==
  /\ \/ /\ UNCHANGED <<atStore, atDesk>>
        /\ \/ part = "billing"    /\ BillingNext    /\ UNCHANGED <<operatingVars, onboardingVars>>
           \/ part = "operating"  /\ OperatingNext  /\ UNCHANGED <<billingVars, onboardingVars>>
           \/ part = "onboarding" /\ OnboardingNext /\ UNCHANGED <<billingVars, operatingVars>>
     \/ /\ UNCHANGED <<atWork, atDesk>>
        /\ \/ part = "clock"  /\ AttendanceNext /\ UNCHANGED linkVars
           \/ part = "resets" /\ ResetsNext     /\ UNCHANGED clockVars
     \/ /\ UNCHANGED <<atWork, atStore>>
        /\ \/ part = "audit" /\ AuditNext /\ UNCHANGED inboxVars
           \/ part = "inbox" /\ InboxNext /\ UNCHANGED auditVars
  /\ UNCHANGED part

MCSpec == MCInit /\ [][MCNext]_<<part, atWork, atStore, atDesk>>

\* Shape of the state of the largest parts.
VendorTypeOK == BillingTypeOK /\ OperatingTypeOK /\ InboxTypeOK

\* A vendor becomes one with every policy accepted, and has one first store however
\* often it is asked for.
OnboardedOnceWithConsent == FirstStoreIsIdempotent /\ VendorsHaveConsented

\* The clock, the links of a PIN, the audit log and the pages of the inbox go wrong only
\* where two requests overlap, or where one was overtaken or lost.
OnlyOverlapsSurprise ==
  /\ RepeatsAreRaces /\ LateClocksAreOvertaken /\ OpenLinksAreRivals
  /\ AuditTellsTheStatus /\ PagesMissNothing
=============================================================================
