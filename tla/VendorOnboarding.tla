-------------------------- MODULE VendorOnboarding --------------------------
(***************************************************************************)
(* How an account becomes a vendor (internal/modules/vendor): it accepts   *)
(* the published policies (internal/modules/policyconsent), the handler    *)
(* checks that it has, and the vendor is created by one of two paths: the  *)
(* profile alone, by a lookup and an INSERT, or with its first store, in a *)
(* transaction under an advisory lock.  The consents are then attached.    *)
(***************************************************************************)
EXTENDS VendorBase

CONSTANTS
  Owners,
  Rows,      \* vendor ids (bound)
  Slugs,     \* of the required policies
  LastVersion, \* versions of a policy are 1..LastVersion (bound)
  Requests   \* concurrent onboarding requests (bound)

ASSUME OnboardingAssumption == None \notin Rows

VARIABLES
  published,  \* [Slugs -> version], 0 while only a draft exists
  consent,    \* set of [owner, slug, version, vendor], vendor_policy_consents
  vendor,     \* set of [id, owner, required, with]; required and with are history: the
              \* policies its request checked, and the path that created it
  store,      \* [Rows -> BOOLEAN], has a first store
  onboarding, \* [Requests -> where an onboarding request is]
  accepting   \* [Owners -> policies an acceptance has read], {} when there is none
              \* (bound: an owner's acceptances come one after the other)

onboardingVars == <<published, consent, vendor, store, onboarding, accepting>>

Policy == [slug : Slugs, version : 1..LastVersion]
Path == {"profile", "store"}

NoOnboarding == [at |-> "idle", owner |-> None, path |-> "profile", required |-> {}, found |-> None]

OnboardingInit ==
  /\ published = [s \in Slugs |-> 0]
  /\ consent = {} /\ vendor = {}
  /\ store = [v \in Rows |-> FALSE]
  /\ onboarding = [r \in Requests |-> NoOnboarding]
  /\ accepting = [o \in Owners |-> {}]

\* ListPublishedVendorPolicies.
PublishedPolicies == {p \in Policy : published[p.slug] = p.version}

\* ListAcceptedPolicyIDs.
AcceptedPolicies(o) == {[slug |-> c.slug, version |-> c.version] : c \in {d \in consent : d.owner = o}}

\* The publication process: a new version replaces the one that is published.
Publish(s) ==
  /\ published[s] < LastVersion
  /\ published' = [published EXCEPT ![s] = @ + 1]
  /\ UNCHANGED <<consent, vendor, store, onboarding, accepting>>

-----------------------------------------------------------------------------
(* Accept: what is published is read and compared with the request, ... *)

ReadToAccept(o) ==
  /\ accepting[o] = {}
  /\ PublishedPolicies # {}
  /\ accepting' = [accepting EXCEPT ![o] = PublishedPolicies]
  /\ UNCHANGED <<published, consent, vendor, store, onboarding>>

\* ... and then recorded in one transaction, over the rows there are.  The handler
\* knows no vendor: a consent accepted again is attached to none.
Accept(o) ==
  LET again == {c \in consent : c.owner = o /\ [slug |-> c.slug, version |-> c.version] \in accepting[o]} IN
  /\ accepting[o] # {}
  /\ consent' = (consent \ again)
                \cup {[owner |-> o, slug |-> p.slug, version |-> p.version, vendor |-> None] : p \in accepting[o]}
  /\ accepting' = [accepting EXCEPT ![o] = {}]
  /\ UNCHANGED <<published, vendor, store, onboarding>>

\* A conflict of two transactions, or a dropped request.
AcceptFails(o) ==
  /\ accepting[o] # {}
  /\ accepting' = [accepting EXCEPT ![o] = {}]
  /\ UNCHANGED <<published, consent, vendor, store, onboarding>>

-----------------------------------------------------------------------------
(* Onboarding. *)

Step(r, new) == onboarding' = [onboarding EXCEPT ![r] = new]

\* HasRequiredAcceptance reads what is published, ...
ReadRequired(r, o, path) ==
  /\ onboarding[r] = NoOnboarding
  /\ Step(r, [at |-> "required", owner |-> o, path |-> path, required |-> PublishedPolicies, found |-> None])
  /\ UNCHANGED <<published, consent, vendor, store, accepting>>

BugCheckAcceptedNothing(r) ==
  /\ onboarding[r].at = "required"
  /\ Step(r, [onboarding[r] EXCEPT !.at = "accepted"])
  /\ UNCHANGED <<published, consent, vendor, store, accepting>>

\* ... and then what the owner accepted.
CheckAccepted(r) ==
  /\ onboarding[r].at = "required"
  /\ Step(r, IF onboarding[r].required \subseteq AcceptedPolicies(onboarding[r].owner)
             THEN [onboarding[r] EXCEPT !.at = "accepted"] ELSE NoOnboarding)
  /\ UNCHANGED <<published, consent, vendor, store, accepting>>

Profiles(o) == {v \in vendor : v.owner = o}

\* Who holds the owner's advisory lock is between its lookup and its commit.
BugLockIsFree(o) == TRUE

LockIsFree(o) ==
  \A q \in Requests : ~ (onboarding[q].at = "looked" /\ onboarding[q].path = "store" /\ onboarding[q].owner = o)

\* The vendor is looked up by its owner; of two, any.  The store path does so under the lock.
LookupVendor(r) ==
  LET me == onboarding[r] IN
  /\ me.at = "accepted"
  /\ me.path = "store" => LockIsFree(me.owner)
  /\ \E found \in IF Profiles(me.owner) = {} THEN {None} ELSE {v.id : v \in Profiles(me.owner)} :
       Step(r, [me EXCEPT !.at = "looked", !.found = found])
  /\ UNCHANGED <<published, consent, vendor, store, accepting>>

Unused(v) == \A w \in vendor : w.id # v

\* The INSERT of the profile path, or the commit of the other: the vendor if none
\* was found, and its store if it has none.  Owners are not unique.
CreateVendor(r, v) ==
  LET me == onboarding[r] IN
  /\ me.at = "looked"
  /\ IF me.found = None
     THEN /\ Unused(v)
          /\ vendor' = vendor \cup {[id |-> v, owner |-> me.owner, required |-> me.required, with |-> me.path]}
     ELSE v = me.found /\ UNCHANGED vendor
  /\ store' = IF me.path = "store" THEN [store EXCEPT ![v] = TRUE] ELSE store
  /\ Step(r, [me EXCEPT !.at = "created", !.found = v])
  /\ UNCHANGED <<published, consent, accepting>>

\* AttachAcceptedPoliciesToVendor, one transaction; the answer is 201.
AttachToVendor(r) ==
  LET me == onboarding[r] IN
  /\ me.at = "created"
  /\ consent' = {IF c.owner = me.owner THEN [c EXCEPT !.vendor = me.found] ELSE c : c \in consent}
  /\ Step(r, NoOnboarding)
  /\ UNCHANGED <<published, vendor, store, accepting>>

\* A statement fails, the transaction conflicts or the request is dropped: what is
\* committed stays, and the client may retry.
OnboardingFails(r) ==
  /\ onboarding[r] # NoOnboarding
  /\ Step(r, NoOnboarding)
  /\ UNCHANGED <<published, consent, vendor, store, accepting>>

OnboardingNext ==
  \/ \E s \in Slugs : Publish(s)
  \/ \E o \in Owners : ReadToAccept(o) \/ Accept(o) \/ AcceptFails(o)
  \/ \E r \in Requests :
       \/ \E o \in Owners, path \in Path : ReadRequired(r, o, path)
       \/ CheckAccepted(r) \/ LookupVendor(r)
       \/ \E v \in Rows : CreateVendor(r, v)
       \/ AttachToVendor(r) \/ OnboardingFails(r)

OnboardingSpec == OnboardingInit /\ [][OnboardingNext]_onboardingVars

-----------------------------------------------------------------------------

\* "Idempotent for retried onboarding requests": requests with a first store, at once
\* and retried after any failure, create one vendor per owner, and never a vendor
\* without its store.
FirstStoreIsIdempotent ==
  \A v, w \in {u \in vendor : u.with = "store"} :
    store[v.id] /\ (v.owner = w.owner => v = w)

\* A vendor's owner has accepted every policy its request found published, whatever
\* is published, accepted again or retried meanwhile.
VendorsHaveConsented == \A v \in vendor : v.required \subseteq AcceptedPolicies(v.owner)
=============================================================================
