---------------------------- MODULE VendorProofs ----------------------------
(***************************************************************************)
(* Proofs about subscriptions, onboarding, the clock, the links of a PIN,  *)
(* the audit log and the inbox, for any vendors, staff and times and any   *)
(* number of concurrent requests, and about all of them and the operating  *)
(* status together.                                                        *)
(***************************************************************************)
EXTENDS MCVendor, OperatingProofs, FiniteSetTheorems, SequenceTheorems, TLAPS

-----------------------------------------------------------------------------
(* Subscriptions and invoices. *)

USE BillingAssumption

\* A request that is about to write has what it writes; one that settles an invoice
\* has read it.
BillingCallIsSound(k) ==
  /\ k.at \in {"subscribe", "tier", "status", "generate"} => k.vendor \in Vendors
  /\ k.at \in {"subscribe", "tier"} => k.to \in Tiers
  /\ k.at = "status" => k.to \in SubscriptionStatus
  /\ k.at = "generate" => k.invoice \in Invoices /\ k.to \in Tiers \cup {None}
  /\ k.at \in {"pay", "void"} => k.invoice \in Invoices /\ invoice[k.invoice].status # "NONE"

BillingInv ==
  /\ BillingTypeOK
  /\ OneInvoicePerKey
  /\ \A c \in Calls : BillingCallIsSound(call[c])

BillingCallType ==
  [at : {"idle", "subscribe", "tier", "status", "generate", "pay", "void"},
   vendor : Vendors \cup {None}, invoice : Invoices \cup {None},
   key : Keys \cup {NoKey}, to : Tiers \cup SubscriptionStatus \cup {None}]

SubType == [status : SubscriptionStatus \cup {"NONE"}, tier : Tiers \cup {None}, cancelledAt : BOOLEAN]

InvoiceType == [status : {"NONE", "OPEN", "PAID", "VOID"}, vendor : Vendors \cup {None},
                key : Keys \cup {NoKey}, tier : Tiers \cup {None}]

\* At first there is no subscription and no invoice.
LEMMA BillingInvInit == BillingInit => BillingInv
<1> SUFFICES ASSUME BillingInit PROVE BillingInv
  OBVIOUS
<1> USE DEF BillingInit, BillingIdle
<1>1. BillingTypeOK
  BY DEF BillingTypeOK, SubscriptionStatus
<1>2. OneInvoicePerKey
  BY DEF OneInvoicePerKey
<1>3. \A c \in Calls : BillingCallIsSound(call[c])
  BY DEF BillingCallIsSound
<1> QED BY <1>1, <1>2, <1>3 DEF BillingInv

\* What BillingTypeOK says of each part.
LEMMA BillingTypes ==
  BillingTypeOK <=> /\ sub \in [Vendors -> SubType] /\ invoice \in [Invoices -> InvoiceType]
                    /\ call \in [Calls -> BillingCallType] /\ refused \in BOOLEAN
                    /\ \A v \in Vendors : sub[v].status = "CANCELLED" => sub[v].cancelledAt
BY DEF BillingTypeOK, SubType, InvoiceType, BillingCallType

\* Requests move to what they know, or end, while rows that exist stay.
LEMMA BillingCallsMove ==
  ASSUME BillingInv, NEW c \in Calls, NEW k \in BillingCallType, call' = [call EXCEPT ![c] = k] \/ UNCHANGED call,
         BillingCallIsSound(k), \A i \in Invoices : invoice[i].status # "NONE" => invoice'[i].status # "NONE"
  PROVE  call' \in [Calls -> BillingCallType] /\ \A d \in Calls : BillingCallIsSound(call[d])'
<1>1. /\ call' \in [Calls -> BillingCallType]
      /\ \A d \in Calls : call'[d] = call[d] \/ call'[d] = k
  BY BillingTypes DEF BillingInv
<1>2. ASSUME NEW d \in Calls PROVE BillingCallIsSound(call[d])'
  BY <1>1 DEF BillingInv, BillingCallIsSound
<1> QED BY <1>1, <1>2

\* A request may end at any time.
LEMMA BillingIdleIsSound == BillingIdle \in BillingCallType /\ BillingCallIsSound(BillingIdle)
BY DEF BillingIdle, BillingCallType, BillingCallIsSound

\* A step that moves a request only.
LEMMA BillingCallKeeps ==
  ASSUME BillingInv, NEW c \in Calls, NEW k \in BillingCallType, call' = [call EXCEPT ![c] = k],
         BillingCallIsSound(k), UNCHANGED <<sub, invoice, refused>>
  PROVE  BillingInv'
<1>1. call' \in [Calls -> BillingCallType] /\ \A d \in Calls : BillingCallIsSound(call[d])'
  BY BillingCallsMove
<1>2. BillingTypeOK'
  BY <1>1 DEF BillingInv, BillingTypeOK, BillingCallType
<1>3. OneInvoicePerKey'
  BY DEF BillingInv, OneInvoicePerKey
<1> QED BY <1>1, <1>2, <1>3 DEF BillingInv

\* A request that has passed its checks.
LEMMA BillingAboutKeeps ==
  ASSUME BillingInv, NEW c \in Calls, NEW at, NEW v, NEW i, NEW k, NEW to, About(c, at, v, i, k, to),
         [at |-> at, vendor |-> v, invoice |-> i, key |-> k, to |-> to] \in BillingCallType,
         BillingCallIsSound([at |-> at, vendor |-> v, invoice |-> i, key |-> k, to |-> to])
  PROVE  BillingInv'
BY BillingCallKeeps DEF About

\* A step that writes the subscription of one vendor and ends request c.
LEMMA SubscriptionKeeps ==
  ASSUME BillingInv, NEW c \in Calls, NEW v \in Vendors, NEW s \in SubType,
         sub' = [sub EXCEPT ![v] = s], s.status = "CANCELLED" => s.cancelledAt,
         BillingReturn(c), UNCHANGED <<invoice, refused>>
  PROVE  BillingInv'
<1>1. call' \in [Calls -> BillingCallType] /\ \A d \in Calls : BillingCallIsSound(call[d])'
  BY BillingIdleIsSound, BillingCallsMove DEF BillingReturn
<1>2. sub' \in [Vendors -> SubType] /\ \A w \in Vendors : sub'[w] = IF w = v THEN s ELSE sub[w]
  BY BillingTypes DEF BillingInv
<1>3. BillingTypeOK'
  BY <1>1, <1>2 DEF BillingInv, BillingTypeOK, BillingCallType, SubType
<1>4. OneInvoicePerKey'
  BY DEF BillingInv, OneInvoicePerKey
<1> QED BY <1>1, <1>3, <1>4 DEF BillingInv

\* A row of the invoices is written: one with a key of its own, or one there is already
\* with its key.
LEMMA InvoiceKeeps ==
  ASSUME BillingInv, NEW c \in Calls, NEW i \in Invoices, NEW n \in InvoiceType,
         invoice' = [invoice EXCEPT ![i] = n], n.status # "NONE",
         ~KeyIsUsed(n.key) \/ (invoice[i].status # "NONE" /\ n.key = invoice[i].key),
         BillingReturn(c) \/ UNCHANGED call, refused' = refused,
         sub' \in [Vendors -> SubType], \A v \in Vendors : sub'[v].status = "CANCELLED" => sub'[v].cancelledAt
  PROVE  BillingInv'
<1>1. /\ invoice' \in [Invoices -> InvoiceType]
      /\ \A j \in Invoices : invoice'[j] = IF j = i THEN n ELSE invoice[j]
  BY BillingTypes DEF BillingInv
<1>2. call' \in [Calls -> BillingCallType] /\ \A d \in Calls : BillingCallIsSound(call[d])'
  BY <1>1, BillingIdleIsSound, BillingCallsMove DEF BillingReturn
<1>3. BillingTypeOK'
  BY <1>1, <1>2 DEF BillingInv, BillingTypeOK, BillingCallType, SubType, InvoiceType
<1>4. OneInvoicePerKey'
  BY <1>1 DEF BillingInv, OneInvoicePerKey, KeyIsUsed
<1> QED BY <1>2, <1>3, <1>4 DEF BillingInv

\* The requests that read, check and go on to their statement.
LEMMA BillingChecksKeep ==
  ASSUME BillingInv, NEW c \in Calls,
         \/ \E v \in Vendors, t \in Tiers : CreateSubscription(c, v, t) \/ ChangeTier(c, v, t)
         \/ \E v \in Vendors, s \in SubscriptionStatus \cup {"OTHER"} : UpdateStatus(c, v, s)
         \/ \E v \in Vendors, i \in Invoices, k \in Keys \cup {NoKey} : GenerateInvoice(c, v, i, k)
         \/ \E i \in Invoices : MarkInvoicePaid(c, i) \/ VoidInvoice(c, i)
  PROVE  BillingInv'
<1>1. ASSUME NEW v \in Vendors, NEW t \in Tiers, CreateSubscription(c, v, t) \/ ChangeTier(c, v, t)
      PROVE  BillingInv'
  BY <1>1, BillingAboutKeeps DEF CreateSubscription, ChangeTier, BillingCallType, BillingCallIsSound
<1>2. ASSUME NEW v \in Vendors, NEW s, UpdateStatus(c, v, s) PROVE BillingInv'
  <2>1. s \in SubscriptionStatus
    BY <1>2 DEF UpdateStatus, CanTransitionSub, validSubTransitions, SubscriptionStatus
  <2> QED BY <1>2, <2>1, BillingAboutKeeps DEF UpdateStatus, BillingCallType, BillingCallIsSound
<1>3. ASSUME NEW v \in Vendors, NEW i \in Invoices, NEW k \in Keys \cup {NoKey}, GenerateInvoice(c, v, i, k)
      PROVE  BillingInv'
  <2>1. sub[v].tier \in Tiers \cup {None}
    BY BillingTypes DEF BillingInv, SubType
  <2> QED BY <1>3, <2>1, BillingAboutKeeps DEF GenerateInvoice, BillingCallType, BillingCallIsSound
<1>4. ASSUME NEW i \in Invoices, MarkInvoicePaid(c, i) \/ VoidInvoice(c, i) PROVE BillingInv'
  BY <1>4, BillingAboutKeeps DEF MarkInvoicePaid, VoidInvoice, BillingCallType, BillingCallIsSound
<1> QED BY <1>1, <1>2, <1>3, <1>4

\* The request that loses the race for the row of the vendor changes nothing.
LEMMA InsertSubscriptionKeeps ==
  ASSUME BillingInv, NEW c \in Calls, InsertSubscription(c)
  PROVE  BillingInv'
<1>0. PICK v, t : v = call[c].vendor /\ t = call[c].to
  OBVIOUS
<1>1. v \in Vendors /\ t \in Tiers
  BY <1>0 DEF InsertSubscription, BillingInv, BillingCallIsSound
<1>2. ASSUME NEW s \in {"TRIAL", "ACTIVE"},
             sub' = [sub EXCEPT ![v] = [status |-> s, tier |-> t, cancelledAt |-> FALSE]]
      PROVE  BillingInv'
  BY <1>1, <1>2, SubscriptionKeeps DEF InsertSubscription, SubType, SubscriptionStatus
<1>3. CASE UNCHANGED sub
  BY <1>3, BillingIdleIsSound, BillingCallKeeps DEF InsertSubscription, BillingReturn
<1> QED BY <1>0, <1>2, <1>3 DEF InsertSubscription

\* A status or a tier is written over what there is now.
LEMMA UpdateSubscriptionKeeps ==
  ASSUME BillingInv, NEW c \in Calls, UpdateSubscriptionTier(c) \/ UpdateSubscriptionStatus(c)
  PROVE  BillingInv'
<1>0. PICK v, t : v = call[c].vendor /\ t = call[c].to
  OBVIOUS
<1>1. v \in Vendors /\ sub[v] \in SubType /\ (sub[v].status = "CANCELLED" => sub[v].cancelledAt)
  BY <1>0, BillingTypes DEF UpdateSubscriptionTier, UpdateSubscriptionStatus, BillingInv, BillingCallIsSound
<1>2. CASE UpdateSubscriptionTier(c)
  <2>1. PICK s : s = [sub[v] EXCEPT !.tier = t]
    OBVIOUS
  <2>2. s \in SubType /\ s.status = sub[v].status /\ s.cancelledAt = sub[v].cancelledAt
    BY <1>0, <1>1, <1>2, <2>1 DEF UpdateSubscriptionTier, BillingInv, BillingCallIsSound, SubType
  <2>3. sub' = [sub EXCEPT ![v] = s]
    BY <1>0, <1>2, <2>1 DEF UpdateSubscriptionTier
  <2> QED BY <1>1, <1>2, <2>2, <2>3, SubscriptionKeeps DEF UpdateSubscriptionTier
<1>3. CASE UpdateSubscriptionStatus(c)
  <2>1. PICK s : s = [sub[v] EXCEPT !.status = t, !.cancelledAt = @ \/ t = "CANCELLED"]
    OBVIOUS
  <2>2. t \in SubscriptionStatus
    BY <1>0, <1>3 DEF UpdateSubscriptionStatus, BillingInv, BillingCallIsSound
  <2>3. s \in SubType /\ s.status = t /\ s.cancelledAt = (sub[v].cancelledAt \/ t = "CANCELLED")
    BY <1>1, <2>1, <2>2 DEF SubType
  <2>4. sub' = [sub EXCEPT ![v] = s]
    BY <1>0, <1>1, <1>3, <2>1, BillingTypes DEF UpdateSubscriptionStatus, BillingInv, SubType
  <2> QED BY <1>1, <1>3, <2>3, <2>4, SubscriptionKeeps DEF UpdateSubscriptionStatus
<1> QED BY <1>2, <1>3

\* The unique index decides whose invoice it is.
LEMMA CreateInvoiceKeeps ==
  ASSUME BillingInv, NEW c \in Calls, CreateInvoice(c)
  PROVE  BillingInv'
<1>0. PICK k : k = call[c]
  OBVIOUS
<1>1. k \in BillingCallType /\ k.at = "generate" /\ k.invoice \in Invoices /\ k.vendor \in Vendors
      /\ k.to \in Tiers \cup {None}
  BY <1>0, BillingTypes DEF CreateInvoice, CreateInvoiceIf, BillingInv, BillingCallIsSound
<1>2. CASE ~KeyIsUsed(k.key)
  <2>1. PICK n : n = [status |-> "OPEN", vendor |-> k.vendor, key |-> k.key, tier |-> k.to]
    OBVIOUS
  <2>2. n \in InvoiceType /\ n.status # "NONE" /\ n.key = k.key
    BY <1>1, <2>1 DEF InvoiceType, BillingCallType
  <2>3. /\ invoice' = [invoice EXCEPT ![k.invoice] = n] /\ BillingReturn(c) /\ UNCHANGED <<sub, refused>>
    BY <1>0, <1>2, <2>1 DEF CreateInvoice, CreateInvoiceIf
  <2>4. sub' \in [Vendors -> SubType] /\ \A v \in Vendors : sub'[v].status = "CANCELLED" => sub'[v].cancelledAt
    BY <2>3, BillingTypes DEF BillingInv
  <2> QED BY <1>1, <1>2, <2>2, <2>3, <2>4, InvoiceKeeps
<1>3. CASE KeyIsUsed(k.key)
  <2>1. UNCHANGED <<sub, invoice>> /\ refused' \in BOOLEAN /\ BillingReturn(c)
    BY <1>0, <1>3 DEF CreateInvoice, CreateInvoiceIf, BillingInv, BillingTypeOK
  <2>2. call' \in [Calls -> BillingCallType] /\ \A d \in Calls : BillingCallIsSound(call[d])'
    BY <2>1, BillingIdleIsSound, BillingCallsMove DEF BillingReturn
  <2>3. BillingTypeOK'
    BY <2>1, <2>2 DEF BillingInv, BillingTypeOK, BillingCallType
  <2>4. OneInvoicePerKey'
    BY <2>1 DEF BillingInv, OneInvoicePerKey
  <2> QED BY <2>2, <2>3, <2>4 DEF BillingInv
<1> QED BY <1>2, <1>3

\* A status is written on an invoice there is.
LEMMA SetInvoiceStatusKeeps ==
  ASSUME BillingInv, NEW c \in Calls, SetInvoiceStatus(c)
  PROVE  BillingInv'
<1>0. PICK i, s : i = call[c].invoice /\ s = (IF call[c].at = "pay" THEN "PAID" ELSE "VOID")
  OBVIOUS
<1>1. i \in Invoices /\ invoice[i] \in InvoiceType /\ invoice[i].status # "NONE" /\ s \in {"PAID", "VOID"}
  BY <1>0, BillingTypes DEF SetInvoiceStatus, BillingInv, BillingCallIsSound
<1>2. PICK n : n = [invoice[i] EXCEPT !.status = s]
  OBVIOUS
<1>3. n \in InvoiceType /\ n.status = s /\ n.key = invoice[i].key
  BY <1>1, <1>2 DEF InvoiceType
<1>4. invoice' = [invoice EXCEPT ![i] = n] /\ BillingReturn(c) /\ UNCHANGED <<sub, refused>>
  BY <1>0, <1>2 DEF SetInvoiceStatus
<1>5. sub' \in [Vendors -> SubType] /\ \A v \in Vendors : sub'[v].status = "CANCELLED" => sub'[v].cancelledAt
  BY <1>4, BillingTypes DEF BillingInv
<1> QED BY <1>1, <1>3, <1>4, <1>5, InvoiceKeeps

\* A paid checkout.
LEMMA ActivateCheckoutKeeps ==
  ASSUME BillingInv, NEW v \in Vendors, NEW t \in Tiers, NEW i \in Invoices, NEW k \in Keys,
         ActivateCheckout(v, t, i, k)
  PROVE  BillingInv'
<1>1. PICK n, s : /\ n = [status |-> "PAID", vendor |-> v, key |-> k, tier |-> t]
                  /\ s = [status |-> "ACTIVE", tier |-> t, cancelledAt |-> FALSE]
  OBVIOUS
<1>2. /\ n \in InvoiceType /\ n.status # "NONE" /\ n.key = k
      /\ s \in SubType /\ s.status # "CANCELLED"
  BY <1>1 DEF InvoiceType, SubType, SubscriptionStatus
<1>3. /\ sub' = [sub EXCEPT ![v] = s]
      /\ \/ UNCHANGED invoice
         \/ /\ invoice' = [invoice EXCEPT ![i] = n] /\ ~KeyIsUsed(k)
            /\ invoice[i].status = "NONE" /\ \A d \in Calls : call[d].invoice # i
      /\ UNCHANGED <<call, refused>>
  BY <1>1 DEF ActivateCheckout
<1>4. sub' \in [Vendors -> SubType] /\ \A w \in Vendors : sub'[w].status = "CANCELLED" => sub'[w].cancelledAt
  BY <1>2, <1>3, BillingTypes DEF BillingInv
<1>5. CASE UNCHANGED invoice
  <2>1. BillingTypeOK'
    BY <1>3, <1>4, <1>5 DEF BillingInv, BillingTypeOK, SubType
  <2>2. OneInvoicePerKey' /\ \A c \in Calls : BillingCallIsSound(call[c])'
    BY <1>3, <1>5 DEF BillingInv, OneInvoicePerKey, BillingCallIsSound
  <2> QED BY <2>1, <2>2 DEF BillingInv
<1>6. CASE invoice' = [invoice EXCEPT ![i] = n] /\ ~KeyIsUsed(k)
  <2>1. /\ invoice' \in [Invoices -> InvoiceType]
        /\ \A j \in Invoices : invoice'[j] = IF j = i THEN n ELSE invoice[j]
    BY <1>2, <1>6, BillingTypes DEF BillingInv
  <2>2. BillingTypeOK'
    BY <1>3, <1>4, <2>1 DEF BillingInv, BillingTypeOK, SubType, InvoiceType
  <2>3. OneInvoicePerKey'
    BY <1>2, <1>6, <2>1 DEF BillingInv, OneInvoicePerKey, KeyIsUsed
  <2>4. \A c \in Calls : BillingCallIsSound(call[c])'
    BY <1>2, <1>3, <2>1 DEF BillingInv, BillingCallIsSound
  <2> QED BY <2>2, <2>3, <2>4 DEF BillingInv
<1> QED BY <1>3, <1>5, <1>6

\* Every step keeps the invariant.
LEMMA BillingInvNext == BillingInv /\ [BillingNext]_billingVars => BillingInv'
<1> SUFFICES ASSUME BillingInv, [BillingNext]_billingVars PROVE BillingInv'
  OBVIOUS
<1>1. CASE UNCHANGED billingVars
  BY <1>1 DEF billingVars, BillingInv, BillingTypeOK, OneInvoicePerKey, BillingCallIsSound
<1>2. ASSUME NEW c \in Calls,
             \/ \E v \in Vendors, t \in Tiers : CreateSubscription(c, v, t) \/ ChangeTier(c, v, t)
             \/ \E v \in Vendors, s \in SubscriptionStatus \cup {"OTHER"} : UpdateStatus(c, v, s)
             \/ \E v \in Vendors, i \in Invoices, k \in Keys \cup {NoKey} : GenerateInvoice(c, v, i, k)
             \/ \E i \in Invoices : MarkInvoicePaid(c, i) \/ VoidInvoice(c, i)
      PROVE  BillingInv'
  BY <1>2, BillingChecksKeep
<1>3. ASSUME NEW c \in Calls, InsertSubscription(c) PROVE BillingInv'
  BY <1>3, InsertSubscriptionKeeps
<1>4. ASSUME NEW c \in Calls, UpdateSubscriptionTier(c) \/ UpdateSubscriptionStatus(c) PROVE BillingInv'
  BY <1>4, UpdateSubscriptionKeeps
<1>5. ASSUME NEW c \in Calls, CreateInvoice(c) PROVE BillingInv'
  BY <1>5, CreateInvoiceKeeps
<1>6. ASSUME NEW c \in Calls, SetInvoiceStatus(c) PROVE BillingInv'
  BY <1>6, SetInvoiceStatusKeeps
<1>7. ASSUME NEW c \in Calls, BillingCrash(c) PROVE BillingInv'
  BY <1>7, BillingIdleIsSound, BillingCallKeeps DEF BillingCrash, BillingReturn
<1>8. ASSUME NEW v \in Vendors, NEW t \in Tiers, NEW i \in Invoices, NEW k \in Keys, ActivateCheckout(v, t, i, k)
      PROVE  BillingInv'
  BY <1>8, ActivateCheckoutKeeps
<1> QED BY <1>1, <1>2, <1>3, <1>4, <1>5, <1>6, <1>7, <1>8 DEF BillingNext

\* The invariant of billing holds in every reachable state.
LEMMA BillingInvariance == BillingSpec => []BillingInv
BY BillingInvInit, BillingInvNext, PTL DEF BillingSpec

\* A key makes one invoice, and the shape.
THEOREM InvoiceKeysAreUnique == BillingSpec => [](BillingTypeOK /\ OneInvoicePerKey)
<1>1. BillingInv => BillingTypeOK /\ OneInvoicePerKey
  BY DEF BillingInv
<1> QED BY <1>1, BillingInvariance, PTL

HIDE BillingAssumption

-----------------------------------------------------------------------------
(* Onboarding. *)

USE OnboardingAssumption

OnboardingType ==
  [at : {"idle", "required", "accepted", "looked", "created"}, owner : Owners \cup {None}, path : Path,
   required : SUBSET Policy, found : Rows \cup {None}]

ConsentType == [owner : Owners, slug : Slugs, version : 1..LastVersion, vendor : Rows \cup {None}]

VendorRow == [id : Rows, owner : Owners, required : SUBSET Policy, with : Path]

OnboardingTypeOK ==
  /\ consent \subseteq ConsentType
  /\ vendor \subseteq VendorRow
  /\ store \in [Rows -> BOOLEAN]
  /\ onboarding \in [Requests -> OnboardingType]
  /\ accepting \in [Owners -> SUBSET Policy]

\* A request that holds its owner's advisory lock.
Locks(r) == onboarding[r].at = "looked" /\ onboarding[r].path = "store"

LockIsExclusive ==
  \A q, r \in Requests : Locks(q) /\ Locks(r) /\ onboarding[q].owner = onboarding[r].owner => q = r

\* Whoever found no vendor under the lock is still right about those with a first store.
NoneIsStillNone ==
  \A r \in Requests, v \in vendor :
    Locks(r) /\ onboarding[r].found = None /\ v.owner = onboarding[r].owner => v.with # "store"

RequestHasConsent(k) ==
  /\ k.at # "idle" => k.owner \in Owners
  /\ k.at \in {"accepted", "looked", "created"} => k.required \subseteq AcceptedPolicies(k.owner)
  /\ k.at = "created" => k.found \in Rows

OnboardingInv ==
  /\ OnboardingTypeOK
  /\ \A v, w \in vendor : v.id = w.id => v = w
  /\ LockIsExclusive /\ NoneIsStillNone
  /\ \A r \in Requests : RequestHasConsent(onboarding[r])
  /\ FirstStoreIsIdempotent /\ VendorsHaveConsented

\* At first there is no vendor.
LEMMA OnboardingInvInit == OnboardingInit => OnboardingInv
<1> SUFFICES ASSUME OnboardingInit PROVE OnboardingInv
  OBVIOUS
<1> USE DEF OnboardingInit, NoOnboarding
<1>1. OnboardingTypeOK
  BY DEF OnboardingTypeOK, OnboardingType, Path
<1>2. LockIsExclusive /\ NoneIsStillNone /\ \A r \in Requests : RequestHasConsent(onboarding[r])
  BY DEF LockIsExclusive, NoneIsStillNone, Locks, RequestHasConsent
<1> QED BY <1>1, <1>2 DEF OnboardingInv, FirstStoreIsIdempotent, VendorsHaveConsented

\* Consents are not withdrawn.
ConsentsGrow == \A o \in Owners : AcceptedPolicies(o) \subseteq AcceptedPolicies(o)'

\* Steps of acceptance touch no vendor and no request.
LEMMA ConsentsKeep ==
  ASSUME OnboardingInv, UNCHANGED <<vendor, store, onboarding>>, ConsentsGrow,
         consent' \subseteq ConsentType, accepting' \in [Owners -> SUBSET Policy]
  PROVE  OnboardingInv'
<1>1. OnboardingTypeOK'
  BY DEF OnboardingInv, OnboardingTypeOK
<1>2. \A v, w \in vendor' : v.id = w.id => v = w
  BY DEF OnboardingInv
<1>3. LockIsExclusive' /\ NoneIsStillNone' /\ FirstStoreIsIdempotent'
  BY DEF OnboardingInv, LockIsExclusive, NoneIsStillNone, Locks, FirstStoreIsIdempotent
<1>4. \A r \in Requests : RequestHasConsent(onboarding[r])'
  BY DEF OnboardingInv, RequestHasConsent, ConsentsGrow
<1>5. VendorsHaveConsented'
  BY DEF OnboardingInv, OnboardingTypeOK, VendorRow, VendorsHaveConsented, ConsentsGrow
<1> QED BY <1>1, <1>2, <1>3, <1>4, <1>5 DEF OnboardingInv

\* What is published is read.
LEMMA ReadToAcceptKeeps ==
  ASSUME OnboardingInv, NEW o \in Owners, ReadToAccept(o) \/ AcceptFails(o)
  PROVE  OnboardingInv'
<1>1. PICK p \in SUBSET Policy : accepting' = [accepting EXCEPT ![o] = p]
  BY DEF ReadToAccept, AcceptFails, PublishedPolicies
<1>2. accepting' \in [Owners -> SUBSET Policy]
  BY <1>1 DEF OnboardingInv, OnboardingTypeOK
<1>3. UNCHANGED <<vendor, store, onboarding, consent>>
  BY DEF ReadToAccept, AcceptFails
<1>4. ConsentsGrow /\ consent' \subseteq ConsentType
  BY <1>3 DEF ConsentsGrow, AcceptedPolicies, OnboardingInv, OnboardingTypeOK
<1> QED BY <1>2, <1>3, <1>4, ConsentsKeep

\* What was accepted before is recorded again.
LEMMA AcceptKeeps ==
  ASSUME OnboardingInv, NEW o \in Owners, Accept(o)
  PROVE  OnboardingInv'
<1>1. PICK again : again = {c \in consent : c.owner = o /\ [slug |-> c.slug, version |-> c.version] \in accepting[o]}
  OBVIOUS
<1>2. PICK fresh : fresh = {[owner |-> o, slug |-> p.slug, version |-> p.version, vendor |-> None] : p \in accepting[o]}
  OBVIOUS
<1>3. /\ consent' = (consent \ again) \cup fresh
      /\ accepting' = [accepting EXCEPT ![o] = {}]
      /\ UNCHANGED <<vendor, store, onboarding>>
  BY <1>1, <1>2 DEF Accept
<1>4. accepting' \in [Owners -> SUBSET Policy] /\ accepting[o] \in SUBSET Policy /\ consent \subseteq ConsentType
  BY <1>3 DEF OnboardingInv, OnboardingTypeOK
<1>5. consent' \subseteq ConsentType
  <2>1. fresh \subseteq ConsentType
    BY <1>2, <1>4 DEF ConsentType, Policy
  <2> QED BY <1>3, <1>4, <2>1
<1>6. ConsentsGrow
  <2> SUFFICES ASSUME NEW u \in Owners, NEW c \in consent, c.owner = u
               PROVE  \E d \in consent' : d.owner = u /\ d.slug = c.slug /\ d.version = c.version
    BY DEF ConsentsGrow, AcceptedPolicies
  <2>1. CASE c \notin again
    BY <1>3, <2>1
  <2>2. CASE c \in again
    <3>1. PICK p \in accepting[o] : p = [slug |-> c.slug, version |-> c.version]
      BY <1>1, <2>2
    <3>2. PICK d : d = [owner |-> o, slug |-> p.slug, version |-> p.version, vendor |-> None]
      OBVIOUS
    <3>3. d \in consent'
      BY <1>2, <1>3, <3>2
    <3>4. u = o
      BY <1>1, <2>2
    <3> QED BY <3>1, <3>2, <3>3, <3>4
  <2> QED BY <2>1, <2>2
<1> QED BY <1>3, <1>4, <1>5, <1>6, ConsentsKeep

\* Request r moves to k, which does not take the lock and creates nothing.
LEMMA OnboardingMoves ==
  ASSUME OnboardingInv, NEW r \in Requests, NEW k \in OnboardingType, Step(r, k), k.at # "looked" \/ k.path # "store",
         RequestHasConsent(k)', ConsentsGrow,
         UNCHANGED <<vendor, store, accepting>>, consent' \subseteq ConsentType
  PROVE  OnboardingInv'
<1>1. /\ onboarding' \in [Requests -> OnboardingType] /\ onboarding'[r] = k
      /\ \A q \in Requests \ {r} : onboarding'[q] = onboarding[q]
  BY DEF Step, OnboardingInv, OnboardingTypeOK
<1>2. OnboardingTypeOK'
  BY <1>1 DEF OnboardingInv, OnboardingTypeOK
<1>3. \A q \in Requests : Locks(q)' => q # r /\ onboarding'[q] = onboarding[q] /\ Locks(q)
  BY <1>1 DEF Locks
<1>4. LockIsExclusive' /\ NoneIsStillNone'
  BY <1>3 DEF OnboardingInv, LockIsExclusive, NoneIsStillNone
<1>5. \A q \in Requests : RequestHasConsent(onboarding[q])'
  <2> SUFFICES ASSUME NEW q \in Requests PROVE RequestHasConsent(onboarding[q])'
    OBVIOUS
  <2>1. CASE q = r
    BY <1>1, <2>1 DEF RequestHasConsent
  <2>2. CASE q # r
    <3>1. RequestHasConsent(onboarding[q]) /\ onboarding'[q] = onboarding[q]
      BY <1>1, <2>2 DEF OnboardingInv
    <3> QED BY <3>1 DEF RequestHasConsent, ConsentsGrow
  <2> QED BY <2>1, <2>2
<1>6. VendorsHaveConsented' /\ FirstStoreIsIdempotent' /\ \A v, w \in vendor' : v.id = w.id => v = w
  BY DEF OnboardingInv, OnboardingTypeOK, VendorRow, VendorsHaveConsented, ConsentsGrow, FirstStoreIsIdempotent
<1> QED BY <1>2, <1>4, <1>5, <1>6 DEF OnboardingInv

\* No consent changes.
LEMMA ConsentsStay ==
  ASSUME OnboardingInv, UNCHANGED consent
  PROVE  ConsentsGrow /\ consent' \subseteq ConsentType /\ \A k : RequestHasConsent(k) => RequestHasConsent(k)'
BY DEF OnboardingInv, OnboardingTypeOK, ConsentsGrow, AcceptedPolicies, RequestHasConsent

\* A request that is over needs no consent.
LEMMA NoOnboardingIsSound == NoOnboarding \in OnboardingType /\ NoOnboarding.at = "idle" /\ RequestHasConsent(NoOnboarding)
BY DEF NoOnboarding, OnboardingType, Path, RequestHasConsent

\* The required policies are read, ...
LEMMA ReadRequiredKeeps ==
  ASSUME OnboardingInv, NEW r \in Requests, NEW o \in Owners, NEW path \in Path, ReadRequired(r, o, path)
  PROVE  OnboardingInv'
<1>1. PICK k : k = [at |-> "required", owner |-> o, path |-> path, required |-> PublishedPolicies, found |-> None]
  OBVIOUS
<1>2. k \in OnboardingType /\ k.at = "required" /\ RequestHasConsent(k)
  BY <1>1 DEF OnboardingType, PublishedPolicies, RequestHasConsent
<1>3. Step(r, k) /\ UNCHANGED <<consent, vendor, store, accepting>>
  BY <1>1 DEF ReadRequired
<1> QED BY <1>2, <1>3, ConsentsStay, OnboardingMoves

\* ... and compared with what was accepted.
LEMMA CheckAcceptedKeeps ==
  ASSUME OnboardingInv, NEW r \in Requests, CheckAccepted(r)
  PROVE  OnboardingInv'
<1>1. /\ onboarding[r].at = "required" /\ UNCHANGED <<consent, vendor, store, accepting>>
      /\ onboarding[r] \in OnboardingType /\ RequestHasConsent(onboarding[r])
  BY DEF CheckAccepted, OnboardingInv, OnboardingTypeOK
<1>2. CASE ~(onboarding[r].required \subseteq AcceptedPolicies(onboarding[r].owner))
  <2>1. Step(r, NoOnboarding)
    BY <1>2 DEF CheckAccepted
  <2> QED BY <1>1, <2>1, ConsentsStay, OnboardingMoves, NoOnboardingIsSound
<1>3. CASE onboarding[r].required \subseteq AcceptedPolicies(onboarding[r].owner)
  <2>1. PICK k : k = [onboarding[r] EXCEPT !.at = "accepted"]
    OBVIOUS
  <2>2. k \in OnboardingType /\ k.at = "accepted" /\ k.owner = onboarding[r].owner /\ k.required = onboarding[r].required
    BY <1>1, <2>1 DEF OnboardingType
  <2>3. RequestHasConsent(k)
    BY <1>1, <1>3, <2>2 DEF RequestHasConsent
  <2>4. Step(r, k)
    BY <1>3, <2>1 DEF CheckAccepted
  <2> QED BY <1>1, <2>2, <2>3, <2>4, ConsentsStay, OnboardingMoves
<1> QED BY <1>2, <1>3

\* The lookup takes the lock when nobody holds it.
LEMMA LookupVendorKeeps ==
  ASSUME OnboardingInv, NEW r \in Requests, LookupVendor(r)
  PROVE  OnboardingInv'
<1>1. PICK me : me = onboarding[r]
  OBVIOUS
<1>2. /\ me.at = "accepted" /\ me \in OnboardingType /\ RequestHasConsent(me)
      /\ UNCHANGED <<consent, vendor, store, accepting>>
      /\ me.path = "store" => LockIsFree(me.owner)
  BY <1>1 DEF LookupVendor, OnboardingInv, OnboardingTypeOK
<1>3. PICK found \in IF Profiles(me.owner) = {} THEN {None} ELSE {v.id : v \in Profiles(me.owner)} :
        Step(r, [me EXCEPT !.at = "looked", !.found = found])
  BY <1>1 DEF LookupVendor
<1>4. PICK k : k = [me EXCEPT !.at = "looked", !.found = found]
  OBVIOUS
<1>5. found \in Rows \cup {None} /\ (found = None => Profiles(me.owner) = {})
  BY <1>3 DEF OnboardingInv, OnboardingTypeOK, VendorRow, Profiles
<1>6. /\ k \in OnboardingType /\ k.at = "looked" /\ k.owner = me.owner /\ k.required = me.required
      /\ k.path = me.path /\ k.found = found
  BY <1>2, <1>4, <1>5 DEF OnboardingType
<1>7. RequestHasConsent(k)
  BY <1>2, <1>6 DEF RequestHasConsent
<1>8. CASE me.path # "store"
  BY <1>2, <1>3, <1>4, <1>6, <1>7, <1>8, ConsentsStay, OnboardingMoves
<1>9. CASE me.path = "store"
  <2>1. /\ onboarding' \in [Requests -> OnboardingType] /\ onboarding'[r] = k
        /\ \A q \in Requests \ {r} : onboarding'[q] = onboarding[q]
    BY <1>3, <1>4, <1>6 DEF Step, OnboardingInv, OnboardingTypeOK
  <2>2. \A q \in Requests : Locks(q) => onboarding[q].owner # me.owner
    BY <1>2, <1>9 DEF LockIsFree, Locks
  <2>3. LockIsExclusive'
    BY <1>6, <2>1, <2>2 DEF OnboardingInv, LockIsExclusive, Locks
  <2>4. NoneIsStillNone'
    <3> SUFFICES ASSUME NEW q \in Requests, NEW v \in vendor, Locks(q)', onboarding'[q].found = None,
                        v.owner = onboarding'[q].owner
                 PROVE  v.with # "store"
      BY <1>2 DEF NoneIsStillNone
    <3>1. CASE q = r
      BY <1>5, <1>6, <2>1, <3>1 DEF Profiles
    <3>2. CASE q # r
      BY <2>1, <3>2 DEF OnboardingInv, NoneIsStillNone, Locks
    <3> QED BY <3>1, <3>2
  <2>5. \A q \in Requests : RequestHasConsent(onboarding[q])'
    <3> SUFFICES ASSUME NEW q \in Requests PROVE RequestHasConsent(onboarding[q])'
      OBVIOUS
    <3>1. RequestHasConsent(k)' /\ RequestHasConsent(onboarding[q])
      BY <1>2, <1>7, ConsentsStay DEF OnboardingInv
    <3> QED BY <1>2, <2>1, <3>1, ConsentsStay DEF RequestHasConsent
  <2>6. OnboardingTypeOK' /\ VendorsHaveConsented' /\ FirstStoreIsIdempotent' /\ \A v, w \in vendor' : v.id = w.id => v = w
    BY <1>2, <2>1 DEF OnboardingInv, OnboardingTypeOK, VendorsHaveConsented, AcceptedPolicies, FirstStoreIsIdempotent
  <2> QED BY <2>3, <2>4, <2>5, <2>6 DEF OnboardingInv
<1> QED BY <1>8, <1>9

\* The INSERT, or the commit, with which the lock goes.
LEMMA CreateVendorKeeps ==
  ASSUME OnboardingInv, NEW r \in Requests, NEW v \in Rows, CreateVendor(r, v)
  PROVE  OnboardingInv'
<1>1. PICK me : me = onboarding[r]
  OBVIOUS
<1>2. PICK new : new = [id |-> v, owner |-> me.owner, required |-> me.required, with |-> me.path]
  OBVIOUS
<1>3. PICK k : k = [me EXCEPT !.at = "created", !.found = v]
  OBVIOUS
<1>4. /\ me.at = "looked" /\ me \in OnboardingType /\ RequestHasConsent(me)
      /\ UNCHANGED <<consent, accepting>> /\ Step(r, k)
      /\ store' = IF me.path = "store" THEN [store EXCEPT ![v] = TRUE] ELSE store
      /\ \/ me.found = None /\ Unused(v) /\ vendor' = vendor \cup {new}
         \/ me.found # None /\ vendor' = vendor
  BY <1>1, <1>2, <1>3 DEF CreateVendor, OnboardingInv, OnboardingTypeOK
<1>5. /\ k \in OnboardingType /\ k.at = "created" /\ k.owner = me.owner /\ k.required = me.required /\ k.found = v
  BY <1>3, <1>4 DEF OnboardingType
<1>6. /\ onboarding' \in [Requests -> OnboardingType] /\ onboarding'[r] = k
      /\ \A q \in Requests \ {r} : onboarding'[q] = onboarding[q]
  BY <1>4, <1>5 DEF Step, OnboardingInv, OnboardingTypeOK
<1>7. /\ new \in VendorRow /\ new.id = v /\ new.owner = me.owner /\ new.required = me.required /\ new.with = me.path
      /\ me.owner \in Owners /\ me.required \subseteq AcceptedPolicies(me.owner)
  BY <1>2, <1>4 DEF VendorRow, OnboardingType, RequestHasConsent
<1>8. /\ store' \in [Rows -> BOOLEAN] /\ \A w \in Rows : store[w] => store'[w]
      /\ me.path = "store" => store'[v]
  BY <1>4 DEF OnboardingInv, OnboardingTypeOK
<1>9. /\ vendor' \subseteq VendorRow /\ \A w \in vendor' : w \in vendor \/ w = new
  BY <1>4, <1>7 DEF OnboardingInv, OnboardingTypeOK
<1>10. OnboardingTypeOK'
  BY <1>4, <1>6, <1>8, <1>9 DEF OnboardingInv, OnboardingTypeOK
<1>11. \A w, x \in vendor' : w.id = x.id => w = x
  BY <1>4, <1>7 DEF OnboardingInv, Unused
<1>12. LockIsExclusive'
  BY <1>5, <1>6 DEF OnboardingInv, LockIsExclusive, Locks
<1>13. NoneIsStillNone'
  <2> SUFFICES ASSUME NEW q \in Requests, NEW w \in vendor', Locks(q)', onboarding'[q].found = None,
                      w.owner = onboarding'[q].owner, w.with = "store"
               PROVE  FALSE
    BY DEF NoneIsStillNone
  <2>1. q # r /\ onboarding'[q] = onboarding[q] /\ Locks(q)
    BY <1>5, <1>6 DEF Locks
  <2>2. w \notin vendor
    BY <2>1 DEF OnboardingInv, NoneIsStillNone
  <2>3. w = new /\ Locks(r)
    BY <1>1, <1>4, <1>7, <1>9, <2>2 DEF Locks
  <2> QED BY <1>1, <1>7, <2>1, <2>3 DEF OnboardingInv, LockIsExclusive
<1>14. \A q \in Requests : RequestHasConsent(onboarding[q])'
  <2> SUFFICES ASSUME NEW q \in Requests PROVE RequestHasConsent(onboarding[q])'
    OBVIOUS
  <2>1. RequestHasConsent(k) /\ RequestHasConsent(onboarding[q])
    BY <1>4, <1>5, <1>7 DEF RequestHasConsent, OnboardingInv
  <2> QED BY <1>4, <1>6, <2>1, ConsentsStay DEF RequestHasConsent
<1>15. FirstStoreIsIdempotent'
  <2> SUFFICES ASSUME NEW w \in vendor', NEW x \in vendor', w.with = "store", x.with = "store"
               PROVE  store'[w.id] /\ (w.owner = x.owner => w = x)
    BY DEF FirstStoreIsIdempotent
  <2>1. store'[w.id]
    <3>1. CASE w \in vendor
      BY <1>8, <3>1 DEF OnboardingInv, OnboardingTypeOK, VendorRow, FirstStoreIsIdempotent
    <3>2. CASE w = new
      BY <1>7, <1>8, <3>2
    <3> QED BY <1>9, <3>1, <3>2
  <2>2. new \in vendor' /\ new \notin vendor /\ new.with = "store" =>
          \A y \in vendor : y.with = "store" => y.owner # new.owner
    <3>1. new \in vendor' /\ new \notin vendor /\ new.with = "store" => Locks(r) /\ me.found = None
      BY <1>1, <1>4, <1>7 DEF Locks
    <3> QED BY <1>1, <1>7, <3>1 DEF OnboardingInv, NoneIsStillNone
  <2>3. w.owner = x.owner => w = x
    BY <1>9, <2>2 DEF OnboardingInv, FirstStoreIsIdempotent
  <2> QED BY <2>1, <2>3
<1>16. VendorsHaveConsented'
  <2>1. \A o : AcceptedPolicies(o)' = AcceptedPolicies(o)
    BY <1>4 DEF AcceptedPolicies
  <2> QED BY <1>7, <1>9, <2>1 DEF OnboardingInv, VendorsHaveConsented
<1> QED BY <1>10, <1>11, <1>12, <1>13, <1>14, <1>15, <1>16 DEF OnboardingInv

\* Consents are attached, not withdrawn.
LEMMA AttachToVendorKeeps ==
  ASSUME OnboardingInv, NEW r \in Requests, AttachToVendor(r)
  PROVE  OnboardingInv'
<1>1. PICK me : me = onboarding[r]
  OBVIOUS
<1>2. /\ me.at = "created" /\ me \in OnboardingType /\ RequestHasConsent(me) /\ Step(r, NoOnboarding)
      /\ consent' = {IF c.owner = me.owner THEN [c EXCEPT !.vendor = me.found] ELSE c : c \in consent}
      /\ UNCHANGED <<vendor, store, accepting>>
  BY <1>1 DEF AttachToVendor, OnboardingInv, OnboardingTypeOK
<1>3. me.found \in Rows
  BY <1>2 DEF RequestHasConsent
<1>4. consent \subseteq ConsentType
  BY DEF OnboardingInv, OnboardingTypeOK
<1>5. PICK f : f = [c \in consent |-> IF c.owner = me.owner THEN [c EXCEPT !.vendor = me.found] ELSE c]
  OBVIOUS
<1>6. \A c \in consent : /\ f[c] \in ConsentType
                         /\ f[c].owner = c.owner /\ f[c].slug = c.slug /\ f[c].version = c.version
  <2> SUFFICES ASSUME NEW c \in consent
               PROVE  f[c] \in ConsentType /\ f[c].owner = c.owner /\ f[c].slug = c.slug /\ f[c].version = c.version
    OBVIOUS
  <2>1. CASE c.owner = me.owner
    <3>1. f[c] = [c EXCEPT !.vendor = me.found] /\ c \in ConsentType
      BY <1>4, <1>5, <2>1
    <3> QED BY <1>3, <3>1 DEF ConsentType
  <2>2. CASE c.owner # me.owner
    BY <1>4, <1>5, <2>2
  <2> QED BY <2>1, <2>2
<1>7. consent' = {f[c] : c \in consent}
  BY <1>2, <1>5
<1>8. consent' \subseteq ConsentType
  BY <1>6, <1>7
<1>9. ConsentsGrow
  BY <1>6, <1>7 DEF ConsentsGrow, AcceptedPolicies
<1>10. RequestHasConsent(NoOnboarding)'
  BY DEF RequestHasConsent, NoOnboarding
<1> QED BY <1>2, <1>8, <1>9, <1>10, NoOnboardingIsSound, OnboardingMoves

\* A request that fails leaves what is committed.
LEMMA OnboardingFailsKeeps ==
  ASSUME OnboardingInv, NEW r \in Requests, OnboardingFails(r)
  PROVE  OnboardingInv'
<1>1. RequestHasConsent(NoOnboarding)'
  BY DEF RequestHasConsent, NoOnboarding
<1> QED BY <1>1, ConsentsStay, NoOnboardingIsSound, OnboardingMoves DEF OnboardingFails

\* Every step keeps the invariant.
LEMMA OnboardingInvNext == OnboardingInv /\ [OnboardingNext]_onboardingVars => OnboardingInv'
<1> SUFFICES ASSUME OnboardingInv, [OnboardingNext]_onboardingVars PROVE OnboardingInv'
  OBVIOUS
<1>1. CASE UNCHANGED <<consent, vendor, store, onboarding, accepting>>
  BY <1>1, ConsentsStay, ConsentsKeep DEF OnboardingInv, OnboardingTypeOK
<1>2. ASSUME NEW o \in Owners, ReadToAccept(o) \/ Accept(o) \/ AcceptFails(o) PROVE OnboardingInv'
  BY <1>2, ReadToAcceptKeeps, AcceptKeeps
<1>3. ASSUME NEW r \in Requests, NEW o \in Owners, NEW path \in Path, ReadRequired(r, o, path) PROVE OnboardingInv'
  BY <1>3, ReadRequiredKeeps
<1>4. ASSUME NEW r \in Requests, CheckAccepted(r) \/ LookupVendor(r) PROVE OnboardingInv'
  BY <1>4, CheckAcceptedKeeps, LookupVendorKeeps
<1>5. ASSUME NEW r \in Requests, NEW v \in Rows, CreateVendor(r, v) PROVE OnboardingInv'
  BY <1>5, CreateVendorKeeps
<1>6. ASSUME NEW r \in Requests, AttachToVendor(r) \/ OnboardingFails(r) PROVE OnboardingInv'
  BY <1>6, AttachToVendorKeeps, OnboardingFailsKeeps
<1>7. (\E s \in Slugs : Publish(s)) \/ UNCHANGED onboardingVars => UNCHANGED <<consent, vendor, store, onboarding, accepting>>
  BY DEF Publish, onboardingVars
<1> QED BY <1>1, <1>2, <1>3, <1>4, <1>5, <1>6, <1>7 DEF OnboardingNext

\* The invariant of onboarding holds in every reachable state.
LEMMA OnboardingInvariance == OnboardingSpec => []OnboardingInv
BY OnboardingInvInit, OnboardingInvNext, PTL DEF OnboardingSpec

\* Onboarding with a first store makes one vendor an owner, which has its store, however
\* often it is retried or asked for at once; and nobody becomes a vendor without having
\* accepted what his request found required (internal/modules/vendor, policyconsent).
THEOREM OnboardingIsOnceWithConsent == OnboardingSpec => [](FirstStoreIsIdempotent /\ VendorsHaveConsented)
<1>1. OnboardingInv => FirstStoreIsIdempotent /\ VendorsHaveConsented
  BY DEF OnboardingInv
<1> QED BY <1>1, OnboardingInvariance, PTL

HIDE OnboardingAssumption

-----------------------------------------------------------------------------
(* The clock. *)

USE StaffAssumption

EventType == [type : {"CLOCK_IN", "CLOCK_OUT"}, read : Nat, excused : BOOLEAN]

ClockingType ==
  [at : {"idle", "allowed", "known", "insert"}, staff : Staff \cup {None}, pin : Pins \cup {None},
   type : {"CLOCK_IN", "CLOCK_OUT", None}, read : Nat, overtaken : BOOLEAN]

StaffTypeOK == staff \in [Staff -> [role : StaffRole \cup {"NONE"}, pin : Pins \cup {None}]]

\* What a request k knows: the PIN that was typed, unless the staff changed since, and
\* an event that does not repeat the last one it read.
ClockingIsSound(k) ==
  /\ k.at # "idle" => k.staff \in Staff
  /\ k.at \in {"known", "insert"} => k.overtaken \/ (k.pin # None /\ staff[k.staff].pin = k.pin)
  /\ k.at = "insert" => /\ k.type \in {"CLOCK_IN", "CLOCK_OUT"}
                        /\ k.read <= Len(clocked[k.staff])
                        /\ k.read > 0 => clocked[k.staff][k.read].type # k.type

AttendanceInv ==
  /\ StaffTypeOK
  /\ clocked \in [Staff -> Seq(EventType)]
  /\ clocking \in [Calls -> ClockingType]
  /\ \A c \in Calls : ClockingIsSound(clocking[c])
  /\ RepeatsAreRaces /\ LateClocksAreOvertaken

\* At first nobody is clocked.
LEMMA AttendanceInvInit == AttendanceInit => AttendanceInv
<1> SUFFICES ASSUME AttendanceInit PROVE AttendanceInv
  OBVIOUS
<1>1. StaffTypeOK
  BY DEF AttendanceInit, StaffInit, StaffTypeOK, NoMember, StaffRole
<1>2. clocked \in [Staff -> Seq(EventType)] /\ RepeatsAreRaces /\ LateClocksAreOvertaken
  BY DEF AttendanceInit, RepeatsAreRaces, LateClocksAreOvertaken
<1>3. clocking \in [Calls -> ClockingType] /\ \A c \in Calls : ClockingIsSound(clocking[c])
  BY DEF AttendanceInit, NoClocking, ClockingType, ClockingIsSound
<1> QED BY <1>1, <1>2, <1>3 DEF AttendanceInv

\* Every change of the staff keeps the shape of a member.
LEMMA StaffKeepsShape ==
  ASSUME StaffTypeOK, StaffNext
  PROVE  StaffTypeOK'
<1>1. PICK s \in Staff :
        \/ \E role \in StaffRole : AddStaff(s, role) \/ UpdateStaffRole(s, role)
        \/ RemoveStaff(s)
        \/ \E pin \in Pins : SetPIN(s, pin)
  BY DEF StaffNext
<1>2. PICK row \in [role : StaffRole \cup {"NONE"}, pin : Pins \cup {None}] : staff' = [staff EXCEPT ![s] = row]
  BY <1>1 DEF StaffTypeOK, AddStaff, UpdateStaffRole, RemoveStaff, SetPIN, SetMember, NoMember, StaffRole
<1> QED BY <1>2 DEF StaffTypeOK

\* Only request c moves, to k.
LEMMA ClockingMoves ==
  ASSUME AttendanceInv, NEW c \in Calls, NEW k \in ClockingType, clocking' = [clocking EXCEPT ![c] = k],
         ClockingIsSound(k), UNCHANGED <<staff, clocked>>
  PROVE  AttendanceInv'
<1>1. clocking' \in [Calls -> ClockingType] /\ \A d \in Calls : clocking'[d] = clocking[d] \/ clocking'[d] = k
  BY DEF AttendanceInv
<1>2. \A d \in Calls : ClockingIsSound(clocking[d])'
  BY <1>1 DEF AttendanceInv, ClockingIsSound
<1> QED BY <1>1, <1>2 DEF AttendanceInv, StaffTypeOK, RepeatsAreRaces, LateClocksAreOvertaken

\* A request begins.
LEMMA ClockKeeps ==
  ASSUME AttendanceInv, NEW c \in Calls, NEW a, NEW s \in Staff, Clock(c, a, s)
  PROVE  AttendanceInv'
<1>1. PICK k : k = [NoClocking EXCEPT !.at = "allowed", !.staff = s]
  OBVIOUS
<1>2. k \in ClockingType /\ k.at = "allowed" /\ k.staff = s
  BY <1>1 DEF NoClocking, ClockingType
<1>3. clocking' = [clocking EXCEPT ![c] = k] /\ UNCHANGED <<staff, clocked>>
  BY <1>1 DEF Clock, AttendanceInv
<1> QED BY <1>2, <1>3, ClockingMoves DEF ClockingIsSound

\* The PIN is compared.
LEMMA GetPINHashKeeps ==
  ASSUME AttendanceInv, NEW c \in Calls, GetPINHash(c)
  PROVE  AttendanceInv'
<1>1. PICK me : me = clocking[c]
  OBVIOUS
<1>2. /\ me.at = "allowed" /\ me \in ClockingType /\ me.staff \in Staff /\ staff[me.staff].pin # None
      /\ staff[me.staff].pin \in Pins \cup {None} /\ UNCHANGED <<staff, clocked>>
  BY <1>1 DEF GetPINHash, Known, AttendanceInv, ClockingIsSound, StaffTypeOK
<1>3. PICK k : k = [me EXCEPT !.at = "known", !.pin = staff[me.staff].pin]
  OBVIOUS
<1>4. k \in ClockingType /\ k.at = "known" /\ k.staff = me.staff /\ k.pin = staff[me.staff].pin
  BY <1>2, <1>3 DEF ClockingType
<1>5. clocking' = [clocking EXCEPT ![c] = k]
  BY <1>1, <1>3 DEF GetPINHash, Known, AttendanceInv
<1> QED BY <1>2, <1>4, <1>5, ClockingMoves DEF ClockingIsSound

\* The next event is not the one that was read.
LEMMA GetLastEventTypeKeeps ==
  ASSUME AttendanceInv, NEW c \in Calls, GetLastEventType(c)
  PROVE  AttendanceInv'
<1>1. PICK me : me = clocking[c]
  OBVIOUS
<1>2. PICK s : s = me.staff
  OBVIOUS
<1>3. /\ me.at = "known" /\ me \in ClockingType /\ s \in Staff /\ UNCHANGED <<staff, clocked>>
      /\ me.overtaken \/ (me.pin # None /\ staff[s].pin = me.pin)
      /\ clocked[s] \in Seq(EventType)
  BY <1>1, <1>2 DEF GetLastEventType, AttendanceInv, ClockingIsSound
<1>4. PICK type, read : type = NextEventType(s) /\ read = Len(clocked[s])
  OBVIOUS
<1>5. PICK k : k = [me EXCEPT !.at = "insert", !.type = type, !.read = read]
  OBVIOUS
<1>6. type \in {"CLOCK_IN", "CLOCK_OUT"} /\ read \in Nat
  BY <1>3, <1>4 DEF NextEventType
<1>7. /\ k \in ClockingType /\ k.at = "insert" /\ k.staff = s /\ k.type = type /\ k.read = read
      /\ k.pin = me.pin /\ k.overtaken = me.overtaken
  BY <1>2, <1>3, <1>5, <1>6 DEF ClockingType
<1>8. clocking' = [clocking EXCEPT ![c] = k]
  BY <1>1, <1>2, <1>4, <1>5 DEF GetLastEventType, AttendanceInv
<1>9. read > 0 => clocked[s][read].type # type
  <2> SUFFICES ASSUME read > 0 PROVE clocked[s][read].type # type
    OBVIOUS
  <2>1. clocked[s] # <<>> /\ Last(clocked[s]) = clocked[s][read] /\ read \in 1..Len(clocked[s])
    BY <1>3, <1>4, <1>6 DEF Last
  <2> QED BY <1>4, <2>1 DEF NextEventType
<1>10. ClockingIsSound(k)
  BY <1>3, <1>4, <1>6, <1>7, <1>9 DEF ClockingIsSound
<1> QED BY <1>3, <1>7, <1>8, <1>10, ClockingMoves

\* The event is appended to whatever came in between.
LEMMA CreateEventKeeps ==
  ASSUME AttendanceInv, NEW c \in Calls, CreateEvent(c)
  PROVE  AttendanceInv'
<1>1. PICK me : me = clocking[c]
  OBVIOUS
<1>2. PICK s : s = me.staff
  OBVIOUS
<1>3. PICK event : event = [type |-> me.type, read |-> me.read,
                            excused |-> me.overtaken \/ (me.pin # None /\ staff[s].pin = me.pin)]
  OBVIOUS
<1>4. PICK log : log = clocked[s]
  OBVIOUS
<1>5. /\ me.at = "insert" /\ me \in ClockingType /\ s \in Staff /\ UNCHANGED staff
      /\ clocked' = [clocked EXCEPT ![s] = Append(log, event)]
      /\ clocking' = [clocking EXCEPT ![c] = NoClocking]
      /\ me.overtaken \/ (me.pin # None /\ staff[s].pin = me.pin)
      /\ me.type \in {"CLOCK_IN", "CLOCK_OUT"} /\ me.read \in Nat /\ me.read <= Len(log)
      /\ me.read > 0 => log[me.read].type # me.type
      /\ log \in Seq(EventType)
  BY <1>1, <1>2, <1>3, <1>4 DEF CreateEvent, AttendanceInv, ClockingIsSound, ClockingType
<1>6. event \in EventType /\ event.type = me.type /\ event.read = me.read /\ event.excused
  BY <1>3, <1>5 DEF EventType
<1>7. /\ Append(log, event) \in Seq(EventType) /\ Len(Append(log, event)) = Len(log) + 1 /\ Len(log) \in Nat
      /\ \A i \in 1..Len(log) : Append(log, event)[i] = log[i]
      /\ Append(log, event)[Len(log) + 1] = event
  BY <1>5, <1>6, AppendProperties
<1>8. PICK longer : longer = Append(log, event)
  OBVIOUS
<1>9. /\ longer \in Seq(EventType) /\ Len(longer) = Len(log) + 1 /\ Len(log) \in Nat
      /\ \A i \in 1..Len(log) : longer[i] = log[i]
      /\ longer[Len(log) + 1] = event
      /\ clocked' = [clocked EXCEPT ![s] = longer]
  BY <1>5, <1>7, <1>8
<1>10. /\ clocked' \in [Staff -> Seq(EventType)] /\ clocked'[s] = longer
       /\ \A t \in Staff \ {s} : clocked'[t] = clocked[t]
  BY <1>5, <1>9 DEF AttendanceInv
<1>11. /\ NoClocking \in ClockingType /\ NoClocking.at = "idle"
       /\ clocking' \in [Calls -> ClockingType] /\ \A d \in Calls : clocking'[d] = clocking[d] \/ clocking'[d] = NoClocking
  BY <1>5 DEF AttendanceInv, NoClocking, ClockingType
<1>12. \A d \in Calls : ClockingIsSound(clocking[d])'
  <2> SUFFICES ASSUME NEW d \in Calls, clocking'[d] = clocking[d], clocking[d].at # "idle"
               PROVE  ClockingIsSound(clocking[d])'
    BY <1>11 DEF ClockingIsSound
  <2>1. ClockingIsSound(clocking[d]) /\ clocking[d].staff \in Staff /\ clocking[d].read \in Nat
    BY DEF AttendanceInv, ClockingIsSound, ClockingType
  <2>2. CASE clocking[d].staff # s
    BY <1>5, <1>10, <2>1, <2>2 DEF ClockingIsSound
  <2>3. CASE clocking[d].staff = s
    <3>1. clocking[d].at = "insert" =>
            /\ clocking[d].read <= Len(longer)
            /\ clocking[d].read > 0 => longer[clocking[d].read].type # clocking[d].type
      BY <1>4, <1>9, <2>1, <2>3 DEF ClockingIsSound
    <3> QED BY <1>5, <1>10, <2>1, <2>3, <3>1 DEF ClockingIsSound
  <2> QED BY <2>2, <2>3
<1>13. RepeatsAreRaces'
  <2> SUFFICES ASSUME NEW t \in Staff, NEW i \in 2..Len(clocked'[t]), clocked'[t][i].type = clocked'[t][i - 1].type
               PROVE  clocked'[t][i].read < i - 1
    BY DEF RepeatsAreRaces
  <2>1. CASE t # s
    BY <1>10, <2>1 DEF AttendanceInv, RepeatsAreRaces
  <2>2. CASE t = s /\ i <= Len(log)
    <3>1. i \in 2..Len(log) /\ longer[i] = log[i] /\ longer[i - 1] = log[i - 1]
      BY <1>9, <1>10, <2>2
    <3> QED BY <1>4, <1>5, <1>10, <2>2, <3>1 DEF AttendanceInv, RepeatsAreRaces
  <2>3. CASE t = s /\ i > Len(log)
    <3>1. i = Len(log) + 1 /\ i - 1 = Len(log) /\ Len(log) \in 1..Len(log)
      BY <1>9, <1>10, <2>3
    <3>2. longer[i] = event /\ longer[i - 1] = log[Len(log)]
      BY <1>9, <3>1
    <3>3. log[Len(log)].type = me.type
      BY <1>6, <1>10, <2>3, <3>2
    <3> QED BY <1>5, <1>6, <1>9, <1>10, <2>3, <3>1, <3>2, <3>3
  <2> QED BY <1>9, <1>10, <2>1, <2>2, <2>3
<1>14. LateClocksAreOvertaken'
  <2> SUFFICES ASSUME NEW t \in Staff, NEW i \in DOMAIN clocked'[t] PROVE clocked'[t][i].excused
    BY DEF LateClocksAreOvertaken
  <2>1. CASE t # s
    BY <1>10, <2>1 DEF AttendanceInv, LateClocksAreOvertaken
  <2>2. CASE t = s
    <3>1. i \in 1..Len(longer) /\ (i \in 1..Len(log) \/ i = Len(log) + 1)
      BY <1>9, <1>10, <2>2
    <3>2. \A j \in 1..Len(log) : log[j].excused
      BY <1>4, <1>5 DEF AttendanceInv, LateClocksAreOvertaken
    <3> QED BY <1>6, <1>9, <1>10, <2>2, <3>1, <3>2
  <2> QED BY <2>1, <2>2
<1>15. StaffTypeOK'
  BY <1>5 DEF AttendanceInv, StaffTypeOK
<1> QED BY <1>10, <1>11, <1>12, <1>13, <1>14, <1>15 DEF AttendanceInv

\* A change of the staff overtakes whoever relies on a PIN.
LEMMA StaffChangesKeep ==
  ASSUME AttendanceInv, StaffChanges
  PROVE  AttendanceInv'
<1>1. StaffTypeOK'
  BY StaffKeepsShape DEF StaffChanges, AttendanceInv
<1>2. \A c \in Calls :
        /\ clocking'[c] = [clocking[c] EXCEPT !.overtaken = @ \/ clocking[c].at \in {"known", "insert"}]
        /\ clocking[c] \in ClockingType
  BY DEF StaffChanges, AttendanceInv
<1>3. UNCHANGED clocked /\ clocking' = [c \in Calls |-> clocking'[c]]
  BY DEF StaffChanges
<1>4. \A c \in Calls :
        /\ clocking'[c] \in ClockingType
        /\ clocking'[c].at = clocking[c].at /\ clocking'[c].staff = clocking[c].staff
        /\ clocking'[c].pin = clocking[c].pin /\ clocking'[c].type = clocking[c].type /\ clocking'[c].read = clocking[c].read
        /\ clocking[c].at \in {"known", "insert"} => clocking'[c].overtaken
  <2> SUFFICES ASSUME NEW c \in Calls, NEW k, k = clocking[c], NEW n, n = clocking'[c]
               PROVE  /\ n \in ClockingType /\ n.at = k.at /\ n.staff = k.staff /\ n.pin = k.pin
                      /\ n.type = k.type /\ n.read = k.read
                      /\ k.at \in {"known", "insert"} => n.overtaken
    OBVIOUS
  <2>1. PICK o \in BOOLEAN : o = (k.overtaken \/ k.at \in {"known", "insert"})
    OBVIOUS
  <2>2. n = [k EXCEPT !.overtaken = o] /\ k \in ClockingType
    BY <1>2, <2>1
  <2>3. n \in ClockingType /\ n.overtaken = o
    BY <2>2 DEF ClockingType
  <2>4. n.at = k.at /\ n.staff = k.staff /\ n.pin = k.pin /\ n.type = k.type /\ n.read = k.read
    BY <2>2 DEF ClockingType
  <2> QED BY <2>1, <2>3, <2>4
<1>5. clocking' \in [Calls -> ClockingType]
  BY <1>3, <1>4
<1>6. \A c \in Calls : ClockingIsSound(clocking[c])'
  BY <1>3, <1>4 DEF AttendanceInv, ClockingIsSound
<1> QED BY <1>1, <1>3, <1>5, <1>6 DEF AttendanceInv, RepeatsAreRaces, LateClocksAreOvertaken

\* Every step keeps the invariant.
LEMMA AttendanceInvNext == AttendanceInv /\ [AttendanceNext]_attendanceVars => AttendanceInv'
<1> SUFFICES ASSUME AttendanceInv, [AttendanceNext]_attendanceVars PROVE AttendanceInv'
  OBVIOUS
<1>1. CASE UNCHANGED attendanceVars
  BY <1>1 DEF attendanceVars, AttendanceInv, StaffTypeOK, ClockingIsSound, RepeatsAreRaces, LateClocksAreOvertaken
<1>2. ASSUME NEW c \in Calls, NEW a, NEW s \in Staff, Clock(c, a, s) PROVE AttendanceInv'
  BY <1>2, ClockKeeps
<1>3. ASSUME NEW c \in Calls, GetPINHash(c) \/ GetLastEventType(c) \/ CreateEvent(c) PROVE AttendanceInv'
  BY <1>3, GetPINHashKeeps, GetLastEventTypeKeeps, CreateEventKeeps
<1>4. ASSUME NEW c \in Calls, ClockDropped(c) PROVE AttendanceInv'
  <2>1. NoClocking \in ClockingType /\ ClockingIsSound(NoClocking)
    BY DEF NoClocking, ClockingType, ClockingIsSound
  <2> QED BY <1>4, <2>1, ClockingMoves DEF ClockDropped
<1>5. CASE StaffChanges
  BY <1>5, StaffChangesKeep
<1> QED BY <1>1, <1>2, <1>3, <1>4, <1>5 DEF AttendanceNext

\* The invariant of the clock holds in every reachable state.
LEMMA AttendanceInvariance == AttendanceSpec => []AttendanceInv
BY AttendanceInvInit, AttendanceInvNext, PTL DEF AttendanceSpec

\* Clocking alternates but for races, and whoever is clocked typed the PIN he has, unless
\* the staff changed after it was read (internal/modules/attendance).
THEOREM ClockIsWrongOnlyWhenOvertaken == AttendanceSpec => [](RepeatsAreRaces /\ LateClocksAreOvertaken)
<1>1. AttendanceInv => RepeatsAreRaces /\ LateClocksAreOvertaken
  BY DEF AttendanceInv
<1> QED BY <1>1, AttendanceInvariance, PTL

HIDE StaffAssumption

-----------------------------------------------------------------------------
(* Links that reset a PIN. *)

\* Two links that may work, now or when they are inserted, overlapped.
ResetsInv ==
  /\ reset \in [Resets -> {"none", "asked", "open", "used", "lapsed"}]
  /\ rivals \in [Resets -> SUBSET Resets]
  /\ \A q, r \in Resets :
       q # r /\ reset[q] \in {"asked", "open"} /\ reset[r] \in {"asked", "open"} =>
         q \in rivals[r] \/ r \in rivals[q]

\* Every step keeps the invariant.
LEMMA ResetsInvNext == ResetsInv /\ [ResetsNext]_resetVars => ResetsInv'
<1> SUFFICES ASSUME ResetsInv, [ResetsNext]_resetVars PROVE ResetsInv'
  OBVIOUS
<1>1. CASE UNCHANGED <<reset, rivals>>
  BY <1>1 DEF ResetsInv
<1>2. ASSUME NEW r \in Resets, UseUpResets(r) PROVE ResetsInv'
  <2>1. /\ reset[r] = "none"
        /\ reset' = [q \in Resets |-> CASE q = r -> "asked"
                                        [] reset[q] \in {"open", "lapsed"} -> "used"
                                        [] OTHER -> reset[q]]
        /\ rivals' = [rivals EXCEPT ![r] = UnderWay]
    BY <1>2 DEF UseUpResets
  <2>2. /\ reset'[r] = "asked"
        /\ \A q \in Resets \ {r} : reset'[q] = IF reset[q] \in {"open", "lapsed"} THEN "used" ELSE reset[q]
    BY <2>1
  <2>3. /\ reset' \in [Resets -> {"none", "asked", "open", "used", "lapsed"}]
    <3>1. \A q \in Resets : reset'[q] \in {"none", "asked", "open", "used", "lapsed"}
      BY <2>2 DEF ResetsInv
    <3>2. reset' = [q \in Resets |-> reset'[q]]
      BY <2>1
    <3> QED BY <3>1, <3>2
  <2>4. rivals' \in [Resets -> SUBSET Resets] /\ rivals'[r] = UnderWay /\ \A q \in Resets \ {r} : rivals'[q] = rivals[q]
    BY <2>1 DEF ResetsInv, UnderWay
  <2>5. \A q \in Resets \ {r} : reset'[q] \in {"asked", "open"} => reset[q] = "asked" /\ q \in UnderWay
    BY <2>2 DEF UnderWay, ResetsInv
  <2> QED BY <2>3, <2>4, <2>5 DEF ResetsInv
<1>3. ASSUME NEW r \in Resets, NEW to \in {"open", "used", "lapsed"}, reset[r] \in {"asked", "open"},
             reset' = [reset EXCEPT ![r] = to], UNCHANGED rivals
      PROVE  ResetsInv'
  BY <1>3 DEF ResetsInv
<1>4. ASSUME NEW r \in Resets, InsertReset(r) \/ InsertResetFails(r) \/ ResetLapses(r) PROVE ResetsInv'
  BY <1>3, <1>4 DEF InsertReset, InsertResetFails, ResetLapses
<1>5. ASSUME NEW r \in Resets, NEW pin \in Pins, ConfirmOwnerPINReset(r, pin) PROVE ResetsInv'
  BY <1>3, <1>5 DEF ConfirmOwnerPINReset
<1> QED BY <1>1, <1>2, <1>4, <1>5 DEF ResetsNext, resetVars

\* The invariant of the links holds in every reachable state.
LEMMA ResetsInvariance == ResetsSpec => []ResetsInv
<1>1. ResetsInit => ResetsInv
  BY DEF ResetsInit, ResetsInv
<1> QED BY <1>1, ResetsInvNext, PTL DEF ResetsSpec

\* Two links to one PIN work at once only if their requests overlapped: a new one uses up
\* the last (internal/modules/attendance).
THEOREM NewLinksReplaceOld == ResetsSpec => []OpenLinksAreRivals
<1>1. ResetsInv => OpenLinksAreRivals
  BY DEF ResetsInv, OpenLinksAreRivals
<1> QED BY <1>1, ResetsInvariance, PTL

-----------------------------------------------------------------------------
(* The audit log of an account's status. *)

USE AuditAssumption

\* What the log ends with, before its first row the status an account begins with.
Logged == IF trail = <<>> THEN "on" ELSE Last(trail)

\* Unless something was muddled, one row at most is to be written, and says what holds.
AuditInv ==
  /\ standing \in Standing
  /\ trail \in Seq(Standing)
  /\ auditing \in [Calls -> Standing \cup {None}]
  /\ ~muddled => /\ \A c \in Auditing : auditing[c] = standing
                 /\ \A c, d \in Auditing : c = d
                 /\ Auditing = {} => standing = Logged

\* Every step keeps the invariant.
LEMMA AuditInvNext == AuditInv /\ [AuditNext]_auditVars => AuditInv'
<1> SUFFICES ASSUME AuditInv, [AuditNext]_auditVars PROVE AuditInv'
  OBVIOUS
<1>1. CASE UNCHANGED auditVars
  BY <1>1 DEF auditVars, AuditInv, Auditing, Logged
<1>2. ASSUME NEW c \in Calls, NEW status \in Standing, UpdateUser(c, status) PROVE AuditInv'
  <2>1. /\ standing' = status /\ auditing' = [auditing EXCEPT ![c] = status]
        /\ muddled' = (Auditing # {}) /\ trail' = trail
    BY <1>2 DEF UpdateUser
  <2>2. /\ auditing' \in [Calls -> Standing \cup {None}] /\ auditing'[c] = status
        /\ \A d \in Calls \ {c} : auditing'[d] = auditing[d]
    BY <2>1 DEF AuditInv
  <2>3. ~muddled' => Auditing' = {c}
    BY <2>1, <2>2 DEF Auditing
  <2> QED BY <2>1, <2>2, <2>3 DEF AuditInv
<1>3. ASSUME NEW c \in Calls, CreateAuditLog(c) PROVE AuditInv'
  <2>1. /\ c \in Auditing /\ trail' = Append(trail, auditing[c]) /\ auditing' = [auditing EXCEPT ![c] = None]
        /\ UNCHANGED <<standing, muddled>>
    BY <1>3 DEF CreateAuditLog, Auditing
  <2>2. auditing[c] \in Standing
    BY <2>1 DEF Auditing, AuditInv
  <2>3. auditing' \in [Calls -> Standing \cup {None}] /\ Auditing' = Auditing \ {c}
    BY <2>1 DEF AuditInv, Auditing
  <2>4. trail' \in Seq(Standing) /\ Logged' = auditing[c]
    <3>1. /\ trail' \in Seq(Standing) /\ Len(trail') = Len(trail) + 1 /\ Len(trail) \in Nat
          /\ trail'[Len(trail) + 1] = auditing[c]
      BY <2>1, <2>2, AppendProperties DEF AuditInv
    <3>2. trail' # <<>>
      BY <3>1
    <3> QED BY <3>1, <3>2 DEF Logged, Last
  <2> QED BY <2>1, <2>3, <2>4 DEF AuditInv
<1>4. ASSUME NEW c \in Calls, AuditLost(c) PROVE AuditInv'
  BY <1>4 DEF AuditLost, AuditInv
<1> QED BY <1>1, <1>2, <1>3, <1>4 DEF AuditNext

\* At first nothing was logged.
LEMMA AuditInvInit == AuditInit => AuditInv
BY DEF AuditInit, AuditInv, Standing, Auditing, Logged

\* The invariant of the log holds in every reachable state.
LEMMA AuditInvariance == AuditSpec => []AuditInv
BY AuditInvInit, AuditInvNext, PTL DEF AuditSpec

\* The log ends with the status an account has, unless requests overlapped, one is under way
\* or the last row was lost (internal/modules/admin).
THEOREM AuditIsTrueAlone == AuditSpec => []AuditTellsTheStatus
<1>1. AuditInv => AuditTellsTheStatus
  BY DEF AuditInv, AuditTellsTheStatus, Logged
<1> QED BY <1>1, AuditInvariance, PTL

HIDE AuditAssumption

-----------------------------------------------------------------------------
(* The pages of the inbox. *)

USE InboxAssumption

NoticeRow == [status : NoticeStatus \cup {"NONE"}, place : Places \cup {0}]

Filter == NoticeStatus \cup {NoFilter}

WalkType ==
  [at : {"idle", "counted", "paged", "done"}, filter : Filter, offset : Nat, total : 0..Cardinality(Notices),
   shown : SUBSET Notices, stayed : SUBSET Notices, came : BOOLEAN, left : BOOLEAN]

\* How many rows stand before n in the list of the walk, whatever the order of ties.
Rank(n) == Cardinality(Ahead(walk.filter, n))

\* Of what stayed, the walk has shown what stands before its offset.
ShownToOffset == \A n \in walk.stayed : n \in walk.shown \/ Rank(n) >= walk.offset

InboxInv ==
  /\ notice \in [Notices -> NoticeRow]
  /\ \A n \in Notices : notice[n].status = "NONE" => notice[n] = NoNotice
  /\ walk \in WalkType
  /\ walk.stayed \subseteq Alone(walk.filter)
  /\ walk.at \in {"counted", "paged"} /\ ~walk.left /\ ~walk.came => ShownToOffset
  /\ walk.at = "counted" /\ ~walk.left /\ ~walk.came => walk.total = Total(walk.filter)
  /\ PagesMissNothing

\* Parts of the list are finite, and no longer than it.
LEMMA ListIsFinite ==
  ASSUME NEW filter, NEW S \in SUBSET Matching(filter)
  PROVE  /\ IsFiniteSet(S) /\ Cardinality(S) \in Nat
         /\ Cardinality(S) <= Cardinality(Matching(filter)) /\ Cardinality(Matching(filter)) \in 0..Cardinality(Notices)
         /\ IsFiniteSet(Matching(filter))
<1>1. Matching(filter) \subseteq Notices
  BY DEF Matching
<1>2. /\ IsFiniteSet(Matching(filter)) /\ Cardinality(Matching(filter)) <= Cardinality(Notices)
  BY <1>1, FS_Subset
<1>3. /\ IsFiniteSet(S) /\ Cardinality(S) <= Cardinality(Matching(filter))
  BY <1>2, FS_Subset
<1>4. Cardinality(S) \in Nat /\ Cardinality(Matching(filter)) \in Nat /\ Cardinality(Notices) \in Nat
  BY <1>2, <1>3, FS_CardinalityType
<1> QED BY <1>2, <1>3, <1>4

\* At first there is nothing to list.
LEMMA InboxInvInit == InboxInit => InboxInv
<1> SUFFICES ASSUME InboxInit PROVE InboxInv
  OBVIOUS
<1>1. notice \in [Notices -> NoticeRow] /\ \A n \in Notices : notice[n].status = "NONE" => notice[n] = NoNotice
  BY DEF InboxInit, NoNotice, NoticeRow
<1>2. Cardinality(Notices) \in Nat
  BY FS_CardinalityType
<1>3. /\ walk \in WalkType /\ walk.at = "idle" /\ walk.stayed = {}
  BY <1>2 DEF InboxInit, NoWalk, WalkType, Filter
<1> QED BY <1>1, <1>3 DEF InboxInv, PagesMissNothing

\* Whatever changes the rows, what stays in the list keeps its place, and the walk
\* notes what came and what left.
LEMMA OvertakenKeeps ==
  ASSUME InboxInv, Overtaken, notice' \in [Notices -> NoticeRow],
         \A n \in Notices : notice'[n].status = "NONE" => notice'[n] = NoNotice,
         \A n \in Notices : notice[n] # NoNotice /\ notice'[n] # NoNotice => notice'[n].place = notice[n].place
  PROVE  InboxInv'
<1>1. PICK f \in Filter : f = walk.filter
  BY DEF InboxInv, WalkType
<1>2. PICK M : M = Matching(f)
  OBVIOUS
<1>3. PICK N, A : N = Matching(f)' /\ A = Alone(f)'
  OBVIOUS
<1>4. PICK came \in BOOLEAN, left \in BOOLEAN :
        /\ came = (walk.came \/ (walk.at = "counted" /\ ~(N \subseteq M)))
        /\ left = (walk.left \/ ~(M \subseteq N))
  BY DEF InboxInv, WalkType
<1>5. walk' = [walk EXCEPT !.stayed = walk.stayed \cap A, !.came = came, !.left = left]
  BY <1>1, <1>2, <1>3, <1>4 DEF Overtaken, Filter
<1>6. walk \in WalkType /\ walk.stayed \cap A \in SUBSET Notices
  BY DEF InboxInv, WalkType
<1>7. /\ walk' \in WalkType /\ walk'.at = walk.at /\ walk'.filter = f /\ walk'.offset = walk.offset
      /\ walk'.total = walk.total /\ walk'.shown = walk.shown /\ walk'.stayed = walk.stayed \cap A
      /\ walk'.came = came /\ walk'.left = left
  BY <1>1, <1>5, <1>6 DEF WalkType
<1>8. walk'.stayed \subseteq Alone(walk.filter)'
  BY <1>3, <1>7 DEF Alone, Ties, Matching
<1>9. PagesMissNothing'
  BY <1>4, <1>7 DEF InboxInv, PagesMissNothing
<1>10. ASSUME ~left, ~came, walk.at \in {"counted", "paged"} PROVE ShownToOffset'
  <2>1. M \subseteq N /\ ShownToOffset
    BY <1>4, <1>10 DEF InboxInv
  <2>2. SUFFICES ASSUME NEW n \in walk.stayed, n \notin walk.shown PROVE Rank(n)' >= walk.offset
    BY <1>7 DEF ShownToOffset
  <2>3. Rank(n) >= walk.offset /\ n \in M
    BY <1>1, <1>2, <2>1, <2>2 DEF ShownToOffset, InboxInv, Alone
  <2>4. \A m \in M : m \in N /\ notice'[m].place = notice[m].place
    BY <1>2, <1>3, <2>1 DEF Matching
  <2> DEFINE before == {m \in M : notice[m].place < notice[n].place}
             after == {m \in N : notice'[m].place < notice'[n].place}
  <2>5. before = Ahead(walk.filter, n) /\ after = Ahead(walk.filter, n)'
    BY <1>1, <1>2, <1>3, <1>7 DEF Ahead, Matching
  <2>6. before \subseteq after
    BY <2>3, <2>4
  <2>7. IsFiniteSet(after) /\ Cardinality(after) \in Nat
    <3>1. N \subseteq Notices
      BY <1>3 DEF Matching
    <3>2. IsFiniteSet(after)
      BY <3>1, FS_Subset
    <3> QED BY <3>2, FS_CardinalityType
  <2>8. Cardinality(before) <= Cardinality(after) /\ IsFiniteSet(before)
    BY <2>6, <2>7, FS_Subset
  <2>9. Cardinality(before) \in Nat /\ walk.offset \in Nat
    BY <1>6, <2>8, FS_CardinalityType DEF WalkType
  <2>10. Cardinality(before) >= walk.offset
    BY <2>3, <2>5 DEF Rank
  <2> HIDE DEF before, after
  <2>11. Cardinality(after) >= walk.offset
    BY <2>7, <2>8, <2>9, <2>10
  <2>12. Rank(n)' = Cardinality(after)
    BY <2>5 DEF Rank
  <2> QED BY <2>11, <2>12
<1>11. ASSUME ~left, ~came, walk.at = "counted" PROVE walk'.total = Total(walk.filter)'
  <2>1. N = M /\ walk.total = Cardinality(M)
    BY <1>1, <1>2, <1>4, <1>11 DEF InboxInv, Total
  <2> QED BY <1>3, <1>7, <2>1 DEF Total, Matching
<1> QED BY <1>7, <1>8, <1>9, <1>10, <1>11 DEF InboxInv

\* One row changes.
LEMMA RewriteKeeps ==
  ASSUME InboxInv, NEW n \in Notices, NEW row \in NoticeRow, Rewrite(n, row),
         row.status = "NONE" => row = NoNotice,
         notice[n] # NoNotice /\ row # NoNotice => row.place = notice[n].place
  PROVE  InboxInv'
<1>1. /\ notice' \in [Notices -> NoticeRow] /\ notice'[n] = row
      /\ \A m \in Notices \ {n} : notice'[m] = notice[m]
  BY DEF Rewrite, InboxInv
<1>2. /\ \A m \in Notices : notice'[m].status = "NONE" => notice'[m] = NoNotice
      /\ \A m \in Notices : notice[m] # NoNotice /\ notice'[m] # NoNotice => notice'[m].place = notice[m].place
  BY <1>1 DEF InboxInv
<1> QED BY <1>1, <1>2, OvertakenKeeps DEF Rewrite

\* A row that is there takes another status.
LEMMA StatusKeeps ==
  ASSUME InboxInv, NEW n \in Notices, NEW status \in NoticeStatus, notice[n] # NoNotice,
         Rewrite(n, [notice[n] EXCEPT !.status = status])
  PROVE  InboxInv'
<1>1. PICK row : row = [notice[n] EXCEPT !.status = status]
  OBVIOUS
<1>2. notice[n] \in NoticeRow
  BY DEF InboxInv
<1>3. row \in NoticeRow /\ row.status = status /\ row.place = notice[n].place
  BY <1>1, <1>2 DEF NoticeRow
<1>4. row.status # "NONE"
  BY <1>3 DEF NoticeStatus
<1> QED BY <1>1, <1>3, <1>4, RewriteKeeps

\* Rows are made, and all the unread ones are read.
LEMMA BulkKeeps ==
  ASSUME InboxInv, Overtaken, NEW some \in SUBSET Notices, NEW f, \A n \in some : f[n] \in NoticeRow /\ f[n].status # "NONE",
         \A n \in some : notice[n] # NoNotice => f[n].place = notice[n].place,
         notice' = [n \in Notices |-> IF n \in some THEN f[n] ELSE notice[n]]
  PROVE  InboxInv'
<1>1. \A n \in Notices : notice'[n] = IF n \in some THEN f[n] ELSE notice[n]
  OBVIOUS
<1>2. notice' \in [Notices -> NoticeRow]
  BY DEF InboxInv
<1>3. /\ \A m \in Notices : notice'[m].status = "NONE" => notice'[m] = NoNotice
      /\ \A m \in Notices : notice[m] # NoNotice /\ notice'[m] # NoNotice => notice'[m].place = notice[m].place
  BY <1>1 DEF InboxInv
<1> QED BY <1>2, <1>3, OvertakenKeeps

\* The changes of the rows.
LEMMA NoticesKeep ==
  ASSUME InboxInv,
         \/ \E n \in Notices : MarkRead(n) \/ Dismiss(n) \/ DeleteNotice(n)
         \/ \E p \in Places : \/ \E n \in Notices : CreateNotice(n, p)
                              \/ \E some \in SUBSET Notices : BulkCreate(some, p)
         \/ MarkAllRead
  PROVE  InboxInv'
<1>1. ASSUME NEW n \in Notices, NEW p \in Places, CreateNotice(n, p) PROVE InboxInv'
  <2>1. PICK row : row = Unread(p)
    OBVIOUS
  <2>2. row \in NoticeRow /\ row.status # "NONE" /\ notice[n] = NoNotice /\ Rewrite(n, row)
    BY <1>1, <2>1 DEF CreateNotice, NoticeRow, NoticeStatus, Unread
  <2> QED BY <2>2, RewriteKeeps
<1>2. ASSUME NEW n \in Notices, MarkRead(n) PROVE InboxInv'
  <2>1. notice[n] # NoNotice /\ Rewrite(n, [notice[n] EXCEPT !.status = "READ"])
    BY <1>2 DEF MarkRead, NoNotice
  <2> QED BY <2>1, StatusKeeps DEF NoticeStatus
<1>3. ASSUME NEW n \in Notices, Dismiss(n) PROVE InboxInv'
  BY <1>3, StatusKeeps DEF Dismiss, NoticeStatus
<1>4. ASSUME NEW n \in Notices, DeleteNotice(n) PROVE InboxInv'
  <2>1. NoNotice \in NoticeRow
    BY DEF NoNotice, NoticeRow
  <2> QED BY <1>4, <2>1, RewriteKeeps DEF DeleteNotice
<1>5. ASSUME NEW some \in SUBSET Notices, NEW p \in Places, BulkCreate(some, p) PROVE InboxInv'
  <2>1. PICK f : f = [n \in Notices |-> Unread(p)]
    OBVIOUS
  <2>2. \A n \in Notices : f[n] \in NoticeRow /\ f[n].status # "NONE"
    BY <2>1 DEF NoticeRow, NoticeStatus, Unread
  <2>3. notice' = [n \in Notices |-> IF n \in some THEN f[n] ELSE notice[n]] /\ Overtaken
    BY <1>5, <2>1 DEF BulkCreate
  <2>4. \A n \in some : notice[n] # NoNotice => f[n].place = notice[n].place
    BY <1>5 DEF BulkCreate
  <2>5. \A n \in some : f[n] \in NoticeRow /\ f[n].status # "NONE"
    BY <2>2
  <2> QED BY <2>3, <2>4, <2>5, BulkKeeps
<1>6. ASSUME MarkAllRead PROVE InboxInv'
  <2>1. PICK some \in SUBSET Notices : some = {n \in Notices : notice[n].status = "UNREAD"}
    OBVIOUS
  <2>2. PICK f : f = [n \in Notices |-> [notice[n] EXCEPT !.status = "READ"]]
    OBVIOUS
  <2>3. \A n \in Notices : f[n] \in NoticeRow /\ f[n].status # "NONE" /\ f[n].place = notice[n].place
    <3> SUFFICES ASSUME NEW n \in Notices
                 PROVE  f[n] \in NoticeRow /\ f[n].status # "NONE" /\ f[n].place = notice[n].place
      OBVIOUS
    <3>1. f[n] = [notice[n] EXCEPT !.status = "READ"] /\ notice[n] \in NoticeRow
      BY <2>2 DEF InboxInv
    <3> QED BY <3>1 DEF NoticeRow, NoticeStatus
  <2>4. notice' = [n \in Notices |-> IF n \in some THEN f[n] ELSE notice[n]] /\ Overtaken
    BY <1>6, <2>1, <2>2 DEF MarkAllRead
  <2>5. \A n \in some : f[n] \in NoticeRow /\ f[n].status # "NONE"
    BY <2>3
  <2>6. \A n \in some : notice[n] # NoNotice => f[n].place = notice[n].place
    BY <2>3
  <2> QED BY <2>4, <2>5, <2>6, BulkKeeps
<1> QED BY <1>1, <1>2, <1>3, <1>4, <1>5, <1>6

\* The list is counted, and all of it is still to be shown.
LEMMA StartWalkKeeps ==
  ASSUME InboxInv, NEW filter \in Filter, StartWalk(filter)
  PROVE  InboxInv'
<1>1. PICK total, list : total = Total(filter) /\ list = Alone(filter)
  OBVIOUS
<1>2. total \in 0..Cardinality(Notices) /\ list \subseteq Notices
  BY <1>1, ListIsFinite DEF Total, Matching, Alone
<1>3. walk' = [NoWalk EXCEPT !.at = "counted", !.filter = filter, !.total = total, !.stayed = list]
      /\ notice' = notice
  BY <1>1 DEF StartWalk
<1>4. walk' = [at |-> "counted", filter |-> filter, offset |-> 0, total |-> total,
               shown |-> {}, stayed |-> list, came |-> FALSE, left |-> FALSE]
  BY <1>3 DEF NoWalk
<1>5. walk' \in WalkType
  BY <1>2, <1>4 DEF WalkType
<1>6. /\ walk'.at = "counted" /\ walk'.filter = filter /\ walk'.offset = 0 /\ walk'.total = total
      /\ walk'.stayed = list
  BY <1>4
<1>7. \A f : Matching(f)' = Matching(f) /\ Alone(f)' = Alone(f)
  BY <1>3 DEF Matching, Alone, Ties
<1>8. ShownToOffset'
  <2> SUFFICES ASSUME NEW n PROVE Rank(n)' >= 0
    BY <1>6 DEF ShownToOffset
  <2>1. Ahead(filter, n)' \subseteq Matching(filter)
    BY <1>7 DEF Ahead
  <2>2. Rank(n)' = Cardinality(Ahead(filter, n)')
    BY <1>6 DEF Rank, Ahead, Matching
  <2>3. Cardinality(Ahead(filter, n)') \in Nat
    BY <2>1, ListIsFinite
  <2> QED BY <2>2, <2>3
<1> QED BY <1>1, <1>3, <1>5, <1>6, <1>7, <1>8 DEF InboxInv, PagesMissNothing, Total

\* The next page begins with another COUNT.
LEMMA CountAgainKeeps ==
  ASSUME InboxInv, CountAgain
  PROVE  InboxInv'
<1>1. PICK total : total = Total(walk.filter)
  OBVIOUS
<1>2. total \in 0..Cardinality(Notices) /\ walk \in WalkType /\ walk.at = "paged"
  BY <1>1, ListIsFinite DEF Total, InboxInv, CountAgain
<1>3. walk' = [walk EXCEPT !.at = "counted", !.total = total] /\ notice' = notice
  BY <1>1 DEF CountAgain
<1>4. /\ walk' \in WalkType /\ walk'.at = "counted" /\ walk'.filter = walk.filter /\ walk'.offset = walk.offset
      /\ walk'.total = total /\ walk'.shown = walk.shown /\ walk'.stayed = walk.stayed
      /\ walk'.came = walk.came /\ walk'.left = walk.left
  BY <1>2, <1>3 DEF WalkType
<1>5. \A f : Matching(f)' = Matching(f) /\ Alone(f)' = Alone(f)
  BY <1>3 DEF Matching, Alone, Ties
<1>6. \A n : Rank(n)' = Rank(n)
  BY <1>3, <1>4 DEF Rank, Ahead, Matching
<1>7. ShownToOffset => ShownToOffset'
  BY <1>4, <1>6 DEF ShownToOffset
<1> QED BY <1>1, <1>2, <1>3, <1>4, <1>5, <1>7 DEF InboxInv, PagesMissNothing, Total

\* A row stands before the end of its list.
LEMMA RankIsInside ==
  ASSUME InboxInv, NEW n \in Matching(walk.filter)
  PROVE  Rank(n) \in Nat /\ Rank(n) < Total(walk.filter) /\ Total(walk.filter) \in Nat
<1>1. PICK M, before : M = Matching(walk.filter) /\ before = Ahead(walk.filter, n)
  OBVIOUS
<1>2. IsFiniteSet(M) /\ n \in M
  BY <1>1, ListIsFinite
<1>3. before \subseteq M \ {n}
  <2>1. notice[n].place \in Nat
    <3>1. notice[n].place \in Places \cup {0}
      BY DEF InboxInv, Matching, NoticeRow
    <3>2. \A q \in Places \cup {0} : q \in Nat
      <4>1. Places \subseteq Nat
        BY InboxAssumption
      <4> QED BY <4>1
    <3> QED BY <3>1, <3>2
  <2> QED BY <1>1, <2>1 DEF Ahead
<1>4. IsFiniteSet(M \ {n}) /\ Cardinality(M \ {n}) = Cardinality(M) - 1
  BY <1>2, FS_RemoveElement
<1>5. IsFiniteSet(before) /\ Cardinality(before) <= Cardinality(M \ {n})
  BY <1>3, <1>4, FS_Subset
<1>6. Cardinality(before) \in Nat /\ Cardinality(M) \in Nat
  BY <1>2, <1>5, FS_CardinalityType
<1>7. PICK b, k : b = Cardinality(before) /\ k = Cardinality(M)
  OBVIOUS
<1>8. b \in Nat /\ k \in Nat /\ b <= k - 1
  BY <1>4, <1>5, <1>6, <1>7
<1>9. b < k
  BY <1>8
<1> QED BY <1>1, <1>7, <1>8, <1>9 DEF Rank, Total

\* A row that ties with no other stands on the page its rank falls on.
LEMMA AloneIsShown ==
  ASSUME NEW filter, NEW offset \in Nat, NEW page \in Pages(filter, offset), NEW n \in Alone(filter),
         Cardinality(Ahead(filter, n)) \in Nat,
         Cardinality(Ahead(filter, n)) >= offset, Cardinality(Ahead(filter, n)) < offset + PageLimit
  PROVE  n \in page
<1>1. PICK first : first = Cardinality(Ahead(filter, n))
  OBVIOUS
<1>2. n \in Matching(filter) /\ Ties(filter, n) = {n} /\ Cardinality({n}) = 1
  BY FS_Singleton DEF Alone
<1>3. PICK on : on = {i \in first..(first + 1 - 1) : i \in offset..(offset + PageLimit - 1)}
  OBVIOUS
<1>4. Cardinality(page \cap {n}) = Cardinality(on)
  BY <1>1, <1>2, <1>3 DEF Pages
<1>5. first \in Nat /\ first >= offset /\ first < offset + PageLimit
  BY <1>1
<1>6. on = {first}
  <2>1. first + 1 - 1 = first
    BY <1>5
  <2>2. \A i : i \in first..first <=> i = first
    BY <1>5
  <2>3. first \in offset..(offset + PageLimit - 1)
    BY <1>5
  <2> QED BY <1>3, <2>1, <2>2, <2>3
<1>7. Cardinality(page \cap {n}) = 1
  BY <1>4, <1>6, FS_Singleton
<1>8. SUFFICES ASSUME n \notin page PROVE FALSE
  OBVIOUS
<1>9. page \cap {n} = {}
  BY <1>8
<1> QED BY <1>7, <1>9, FS_EmptySet

\* A page shows what stands from the offset on, to the next.
LEMMA ReadPageKeeps ==
  ASSUME InboxInv, ReadPage
  PROVE  InboxInv'
<1>1. PICK page, at, offset, shown :
        /\ page \in Pages(walk.filter, walk.offset)
        /\ at = IF walk.offset + PageLimit < walk.total THEN "paged" ELSE "done"
        /\ offset = walk.offset + PageLimit
        /\ shown = walk.shown \cup page
        /\ walk' = [walk EXCEPT !.at = at, !.offset = offset, !.shown = shown] /\ notice' = notice
  BY DEF ReadPage
<1>3. /\ walk \in WalkType /\ walk.at = "counted" /\ offset \in Nat /\ at \in {"paged", "done"}
      /\ shown \in SUBSET Notices /\ walk.offset \in Nat /\ PageLimit \in Nat /\ walk.total \in Nat
  BY <1>1, FS_CardinalityType DEF InboxInv, WalkType, ReadPage, Pages, Matching
<1>4. /\ walk' \in WalkType /\ walk'.at = at /\ walk'.filter = walk.filter /\ walk'.offset = offset
      /\ walk'.total = walk.total /\ walk'.shown = shown /\ walk'.stayed = walk.stayed
      /\ walk'.came = walk.came /\ walk'.left = walk.left
  BY <1>1, <1>3 DEF WalkType
<1>6. \A n : Rank(n)' = Rank(n)
  BY <1>1, <1>4 DEF Rank, Ahead, Matching
<1>7. ASSUME ~walk.left, ~walk.came PROVE \A n \in walk.stayed : n \in shown \/ Rank(n) >= offset
  <2> SUFFICES ASSUME NEW n \in walk.stayed, n \notin shown PROVE Rank(n) >= offset
    OBVIOUS
  <2>1. Rank(n) >= walk.offset /\ n \in Alone(walk.filter) /\ n \in Matching(walk.filter)
    BY <1>1, <1>3, <1>7 DEF InboxInv, ShownToOffset, Alone
  <2>2. Rank(n) \in Nat
    BY <2>1, RankIsInside
  <2>3. ~ (Rank(n) < walk.offset + PageLimit)
    BY <1>1, <1>3, <2>1, <2>2, AloneIsShown DEF Rank
  <2> QED BY <1>1, <1>3, <2>2, <2>3
<1>8. ~walk.left /\ ~walk.came => ShownToOffset'
  BY <1>4, <1>6, <1>7 DEF ShownToOffset
<1>9. ASSUME at = "done", ~walk.left, ~walk.came PROVE walk.stayed \subseteq shown
  <2> SUFFICES ASSUME NEW n \in walk.stayed, n \notin shown PROVE FALSE
    OBVIOUS
  <2>1. Rank(n) >= offset /\ n \in Matching(walk.filter) /\ walk.total = Total(walk.filter) /\ offset >= walk.total
    BY <1>1, <1>3, <1>7, <1>9 DEF InboxInv, Alone
  <2>2. Rank(n) \in Nat /\ Rank(n) < Total(walk.filter) /\ Total(walk.filter) \in Nat
    BY <2>1, RankIsInside
  <2> QED BY <1>3, <2>1, <2>2
<1>10. PagesMissNothing'
  BY <1>4, <1>9 DEF PagesMissNothing
<1>11. walk'.stayed \subseteq Alone(walk.filter)'
  BY <1>1, <1>4 DEF InboxInv, Alone, Ties, Matching
<1>12. walk'.at # "counted"
  BY <1>3, <1>4
<1> QED BY <1>1, <1>4, <1>8, <1>10, <1>11, <1>12 DEF InboxInv

\* Every step keeps the invariant.
LEMMA InboxInvNext == InboxInv /\ [InboxNext]_inboxVars => InboxInv'
<1> SUFFICES ASSUME InboxInv, [InboxNext]_inboxVars PROVE InboxInv'
  OBVIOUS
<1>1. CASE UNCHANGED inboxVars
  BY <1>1 DEF inboxVars, InboxInv, Matching, Alone, Ties, ShownToOffset, Rank, Ahead, Total, PagesMissNothing
<1>2. ASSUME NEW filter \in NoticeStatus \cup {NoFilter}, StartWalk(filter) PROVE InboxInv'
  BY <1>2, StartWalkKeeps DEF Filter
<1>3. CASE CountAgain \/ ReadPage
  BY <1>3, CountAgainKeeps, ReadPageKeeps
<1> QED BY <1>1, <1>2, <1>3, NoticesKeep DEF InboxNext

\* The invariant of the inbox holds in every reachable state.
LEMMA InboxInvariance == InboxSpec => []InboxInv
BY InboxInvInit, InboxInvNext, PTL DEF InboxSpec

\* Whoever walks to the total he is told has seen all that was listed all the while and
\* tied with nothing, in whatever order rows that tie are listed, unless something left the
\* list or came between a COUNT and its page (internal/modules/notification).
THEOREM PagesShowWhatStays == InboxSpec => [](InboxTypeOK /\ PagesMissNothing)
<1>1. InboxInv => InboxTypeOK /\ PagesMissNothing
  BY DEF InboxInv, InboxTypeOK, NoticeRow, WalkType
<1> QED BY <1>1, InboxInvariance, PTL

HIDE InboxAssumption

-----------------------------------------------------------------------------
(* All of them together: a behaviour works on one part. *)

\* The parts keep their invariants; nobody clocks while the links are worked on.
VendorInv ==
  /\ BillingInv /\ OperatingInv /\ OnboardingInv
  /\ AttendanceInv /\ ResetsInv
  /\ AuditInv /\ InboxInv
  /\ part # "clock" => \A c \in Calls : clocking[c].at = "idle"

\* Every part begins well.
LEMMA VendorInvInit == MCInit => VendorInv
<1> SUFFICES ASSUME MCInit PROVE VendorInv
  OBVIOUS
<1>1. BillingInv /\ OperatingInv /\ OnboardingInv /\ AttendanceInv /\ InboxInv
  BY BillingInvInit, OperatingInvInit, OnboardingInvInit, AttendanceInvInit, InboxInvInit DEF MCInit
<1>2. ResetsInv
  BY DEF MCInit, ResetsInit, ResetsInv
<1>3. AuditInv
  BY AuditInvInit DEF MCInit
<1>4. \A c \in Calls : clocking[c].at = "idle"
  BY DEF MCInit, AttendanceInit, NoClocking
<1> QED BY <1>1, <1>2, <1>3, <1>4 DEF VendorInv

\* A PIN that is reset leaves the shape of the staff, and nobody relies on it.
LEMMA ResetsKeepAttendance ==
  ASSUME AttendanceInv, \A c \in Calls : clocking[c].at = "idle", ResetsNext, UNCHANGED clockVars
  PROVE  AttendanceInv'
<1>1. UNCHANGED <<clocked, clocking>>
  BY DEF clockVars
<1>2. StaffTypeOK'
  <2>1. UNCHANGED staff \/ StaffNext
    BY StaffAssumption DEF ResetsNext, UseUpResets, InsertReset, InsertResetFails, ConfirmOwnerPINReset, ResetLapses, StaffNext
  <2>2. CASE UNCHANGED staff
    BY <2>2 DEF AttendanceInv, StaffTypeOK
  <2>3. CASE StaffNext
    BY <2>3, StaffKeepsShape DEF AttendanceInv
  <2> QED BY <2>1, <2>2, <2>3
<1>3. \A c \in Calls : ClockingIsSound(clocking[c])'
  BY <1>1 DEF ClockingIsSound
<1> QED BY <1>1, <1>2, <1>3 DEF AttendanceInv, RepeatsAreRaces, LateClocksAreOvertaken

\* Every step is one of a part, and leaves the others alone.
LEMMA VendorInvNext == VendorInv /\ [MCNext]_<<part, atWork, atStore, atDesk>> => VendorInv'
<1> SUFFICES ASSUME VendorInv, [MCNext]_<<part, atWork, atStore, atDesk>> PROVE VendorInv'
  OBVIOUS
<1>1. /\ [BillingNext]_billingVars /\ [OperatingNext]_operatingVars /\ [OnboardingNext]_onboardingVars
      /\ [AuditNext]_auditVars /\ [InboxNext]_inboxVars /\ part' = part
  BY DEF MCNext, atWork, atStore, atDesk
<1>2. BillingInv' /\ OperatingInv' /\ OnboardingInv' /\ AuditInv' /\ InboxInv'
  BY <1>1, BillingInvNext, OperatingInvNext, OnboardingInvNext, AuditInvNext, InboxInvNext DEF VendorInv
<1>3. \/ part = "clock" /\ AttendanceNext /\ UNCHANGED linkVars
      \/ part = "resets" /\ ResetsNext /\ UNCHANGED clockVars
      \/ UNCHANGED atStore
  BY DEF MCNext, atWork, atStore, atDesk
<1>4. CASE part = "clock" /\ AttendanceNext /\ UNCHANGED linkVars
  <2>1. AttendanceInv' /\ ResetsInv'
    BY <1>4, AttendanceInvNext DEF VendorInv, ResetsInv, linkVars
  <2> QED BY <1>1, <1>2, <1>4, <2>1 DEF VendorInv
<1>5. CASE part = "resets" /\ ResetsNext /\ UNCHANGED clockVars
  <2>1. AttendanceInv' /\ ResetsInv'
    BY <1>5, ResetsKeepAttendance, ResetsInvNext DEF VendorInv
  <2> QED BY <1>1, <1>2, <1>5, <2>1 DEF VendorInv, clockVars
<1>6. CASE UNCHANGED atStore
  <2>1. [AttendanceNext]_attendanceVars /\ [ResetsNext]_resetVars /\ UNCHANGED clocking
    BY <1>6 DEF atStore, clockVars, linkVars, attendanceVars, resetVars
  <2>2. AttendanceInv' /\ ResetsInv'
    BY <2>1, AttendanceInvNext, ResetsInvNext DEF VendorInv
  <2> QED BY <1>1, <1>2, <2>1, <2>2 DEF VendorInv
<1> QED BY <1>3, <1>4, <1>5, <1>6

\* The invariants of the parts hold in every reachable state.
LEMMA VendorInvariance == MCSpec => []VendorInv
BY VendorInvInit, VendorInvNext, PTL DEF MCSpec

\* The parts keep their shape, invoices their keys and credit its bound.
THEOREM VendorIsBilledAndTyped == MCSpec => [](VendorTypeOK /\ OneInvoicePerKey /\ GraceIsAllTheCredit)
<1>1. VendorInv => VendorTypeOK /\ OneInvoicePerKey /\ GraceIsAllTheCredit
  BY CreditIsBounded
     DEF VendorInv, VendorTypeOK, BillingInv, OperatingInv, InboxInv, InboxTypeOK, NoticeRow, WalkType
<1> QED BY <1>1, VendorInvariance, PTL

\* A vendor is made once with its first store, and with consent, whatever the rest does.
THEOREM VendorIsOnboardedOnce == MCSpec => []OnboardedOnceWithConsent
<1>1. VendorInv => OnboardedOnceWithConsent
  BY DEF VendorInv, OnboardedOnceWithConsent, OnboardingInv
<1> QED BY <1>1, VendorInvariance, PTL

\* What goes wrong with the clock, the links of a PIN, the audit log and the pages of the
\* inbox, goes wrong by overlapping requests alone.
THEOREM OnlyOverlapsSurpriseVendors == MCSpec => []OnlyOverlapsSurprise
<1>1. VendorInv => OnlyOverlapsSurprise
  BY DEF VendorInv, OnlyOverlapsSurprise, AttendanceInv, ResetsInv, OpenLinksAreRivals,
         AuditInv, AuditTellsTheStatus, Logged, InboxInv
<1> QED BY <1>1, VendorInvariance, PTL

=============================================================================
