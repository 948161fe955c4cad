------------------------ MODULE SubscriptionCheckout ------------------------
(***************************************************************************)
(* A vendor buys a month of a subscription tier with a mobile-money        *)
(* collection: billing/service.go and billing/postgres.go, with the        *)
(* webhook of lenco/handler.go that starts a verification in a goroutine.  *)
(* Requests run concurrently; each database statement, each transaction    *)
(* and each provider call is one step, and a request may be abandoned      *)
(* between any two (the client leaves, the API restarts, a call fails).    *)
(* The same row of vendor_subscriptions is also written by hand, by the    *)
(* requests that create a subscription without a checkout and change its   *)
(* tier or status: each looks it up in one statement and writes in the     *)
(* next.  The provider is external.                                        *)
(***************************************************************************)
EXTENDS Naturals, FiniteSets

CONSTANTS
  Checkouts,   \* identities of checkouts ever created (bound)
  Vendors,
  Tiers,
  Owner,       \* [Checkouts -> Vendors], who asks for the checkout
  Plan,        \* [Checkouts -> Tiers], the tier it buys
  Requests,    \* concurrent HTTP requests and webhook goroutines (bound)
  Hands,       \* concurrent requests that write a subscription by hand (bound)
  Manual,      \* the period of a subscription created by hand
  None         \* no checkout

ASSUME CheckoutAssumption ==
  /\ Owner \in [Checkouts -> Vendors]
  /\ Plan \in [Checkouts -> Tiers]
  /\ None \notin Checkouts /\ Manual \notin Checkouts /\ None # Manual

VARIABLES
  status,        \* [Checkouts -> CheckoutStatus], "ABSENT" before the INSERT
  expired,       \* [Checkouts -> BOOLEAN], expires_at has passed
  recorded,      \* [Checkouts -> BOOLEAN], provider_collection_id is set
  invoice,       \* [Checkouts -> BOOLEAN], a PAID invoice with the checkout's key
  subscription,  \* [Vendors -> Row], the vendor's one row of vendor_subscriptions
  hand,          \* [Hands -> HandWork], the statement a manual request has decided on
  collection,    \* provider: [Checkouts -> CollectionStatus]
  webhooks,      \* SUBSET Checkouts, references in lenco_webhook_events
  at,            \* [Requests -> Point], next statement of the request
  co,            \* [Requests -> Checkouts or None], the checkout it works on
  goal,          \* [Requests -> Goal]
  answer,        \* [Requests -> CollectionStatus], what Initiate was told
  late,          \* [Requests -> BOOLEAN], expires_at had passed at completedAt
  granted,       \* history: [Checkouts -> Nat], times the checkout was activated
  byHand         \* history: SUBSET Vendors, written by hand since the last activation

purchase == <<status, recorded, invoice, subscription, granted, byHand>>
request == <<at, co, goal, answer, late>>
vars == <<purchase, expired, collection, webhooks, request, hand>>

\* EXPIRED is declared too, but its only UPDATE is always rolled back: an
\* expired checkout is FAILED or stays PENDING.
Terminal == {"SUCCESSFUL", "FAILED"}
CheckoutStatus == {"ABSENT", "PENDING"} \cup Terminal

\* "short" is a successful collection of another amount or currency; "pending"
\* stands for pay-offline and 3ds-auth-required too.
CollectionStatus == {"none", "pending", "successful", "short", "failed"}
Goal == {"create", "initiate", "verify"}
Point == {"idle", "insert", "read", "markExpired", "collect", "record",
          "query", "markFailed", "activate"}

\* period: the checkout whose month the row holds, Manual, or None without a row.
\* Not active stands for TRIAL, PAST_DUE, SUSPENDED and CANCELLED.
Row == [period : Checkouts \cup {None, Manual}, tier : Tiers \cup {None}, active : BOOLEAN]

HandWork == [do : {"nothing"}]
       \cup [do : {"insert", "setTier"}, vendor : Vendors, tier : Tiers]
       \cup [do : {"setStatus"}, vendor : Vendors, active : BOOLEAN]
Idle == [do |-> "nothing"]

Init ==
  /\ status = [c \in Checkouts |-> "ABSENT"]
  /\ expired = [c \in Checkouts |-> FALSE]
  /\ recorded = [c \in Checkouts |-> FALSE]
  /\ invoice = [c \in Checkouts |-> FALSE]
  /\ subscription = [v \in Vendors |-> [period |-> None, tier |-> None, active |-> FALSE]]
  /\ hand = [h \in Hands |-> Idle]
  /\ collection = [c \in Checkouts |-> "none"]
  /\ webhooks = {}
  /\ at = [r \in Requests |-> "idle"]
  /\ co = [r \in Requests |-> None]
  /\ goal = [r \in Requests |-> "verify"]
  /\ answer = [r \in Requests |-> "none"]
  /\ late = [r \in Requests |-> FALSE]
  /\ granted = [c \in Checkouts |-> 0]
  /\ byHand = {}

-----------------------------------------------------------------------------

\* Request r starts at point p of an operation on c.
Begin(r, c, g, p) ==
  /\ at[r] = "idle"
  /\ at' = [at EXCEPT ![r] = p]
  /\ co' = [co EXCEPT ![r] = c]
  /\ goal' = [goal EXCEPT ![r] = g]
  /\ UNCHANGED <<answer, late>>

Goto(r, p) ==
  /\ at' = [at EXCEPT ![r] = p]
  /\ UNCHANGED <<co, goal, answer, late>>

Return(r) ==
  /\ at' = [at EXCEPT ![r] = "idle"]
  /\ co' = [co EXCEPT ![r] = None]
  /\ goal' = [goal EXCEPT ![r] = "verify"]
  /\ answer' = [answer EXCEPT ![r] = "none"]
  /\ late' = [late EXCEPT ![r] = FALSE]

\* GetReusablePendingCheckout of the vendor and tier that c is for.
Reusable(c) ==
  {d \in Checkouts : /\ Owner[d] = Owner[c] /\ Plan[d] = Plan[c]
                     /\ status[d] = "PENDING" /\ ~ expired[d]}

\* CreateSubscriptionCheckout finds nothing to reuse; the INSERT is another statement.
StartCreate(r, c) ==
  /\ status[c] = "ABSENT"
  /\ \A s \in Requests : co[s] # c
  /\ Reusable(c) = {}
  /\ Begin(r, c, "create", "insert")
  /\ UNCHANGED <<purchase, expired, collection, webhooks, hand>>

CreateCheckout(r) ==
  /\ at[r] = "insert"
  /\ status' = [status EXCEPT ![co[r]] = "PENDING"]
  /\ Return(r)
  /\ UNCHANGED <<expired, recorded, invoice, subscription, granted, byHand, collection, webhooks, hand>>

\* Thirty minutes pass.
Expire(c) ==
  /\ status[c] # "ABSENT" /\ ~ expired[c]
  /\ expired' = [expired EXCEPT ![c] = TRUE]
  /\ UNCHANGED <<purchase, collection, webhooks, request, hand>>

StartInitiate(r, c) ==
  /\ status[c] # "ABSENT"
  /\ Begin(r, c, "initiate", "read")
  /\ UNCHANGED <<purchase, expired, collection, webhooks, hand>>

StartVerify(r, c) ==
  /\ status[c] # "ABSENT"
  /\ Begin(r, c, "verify", "read")
  /\ UNCHANGED <<purchase, expired, collection, webhooks, hand>>

\* A signed event about a settled collection, possibly a repeated one, is
\* stored once and always starts a verification in the background.
Receive(r, c) ==
  /\ status[c] # "ABSENT"
  /\ collection[c] \in {"successful", "short", "failed"}
  /\ webhooks' = webhooks \cup {c}
  /\ Begin(r, c, "verify", "read")
  /\ UNCHANGED <<purchase, expired, collection, hand>>

\* The first read of InitiateSubscriptionMobileMoneyCollection and of
\* VerifySubscriptionCheckout; every later step relies on this snapshot.
Read(r) ==
  LET c == co[r] IN
  /\ at[r] = "read"
  /\ CASE status[c] # "PENDING"                     -> Return(r)
       [] status[c] = "PENDING" /\ expired[c]       -> Goto(r, "markExpired")
       [] OTHER -> IF goal[r] = "verify" THEN Goto(r, "query")
                   ELSE IF recorded[c] THEN Return(r) ELSE Goto(r, "collect")
  /\ UNCHANGED <<purchase, expired, collection, webhooks, hand>>

\* The provider knows a reference once: a repeated call reports what it has.
Collect(r, outcome) ==
  LET c == co[r] IN
  /\ at[r] = "collect"
  /\ collection[c] = "none" => outcome \in CollectionStatus \ {"none"}
  /\ collection[c] # "none" => outcome = collection[c]
  /\ collection' = [collection EXCEPT ![c] = outcome]
  /\ IF outcome = "short" THEN Return(r)   \* did not match checkout
     ELSE /\ at' = [at EXCEPT ![r] = "record"]
          /\ answer' = [answer EXCEPT ![r] = outcome]
          /\ UNCHANGED <<co, goal, late>>
  /\ UNCHANGED <<purchase, expired, webhooks, hand>>

\* The call reaches the provider and its answer is lost: Initiate returns the
\* error and records nothing.
CollectUnanswered(r, outcome) ==
  LET c == co[r] IN
  /\ at[r] = "collect"
  /\ collection[c] = "none" /\ outcome \in CollectionStatus \ {"none"}
  /\ collection' = [collection EXCEPT ![c] = outcome]
  /\ Return(r)
  /\ UNCHANGED <<purchase, expired, webhooks, hand>>

\* RecordCheckoutCollection; a settled collection is verified at once.
Record(r) ==
  LET c == co[r] IN
  /\ at[r] = "record"
  /\ recorded' = [recorded EXCEPT ![c] = @ \/ status[c] = "PENDING"]
  /\ IF answer[r] \in {"successful", "failed"}
     THEN /\ at' = [at EXCEPT ![r] = "read"]
          /\ goal' = [goal EXCEPT ![r] = "verify"]
          /\ answer' = [answer EXCEPT ![r] = "none"]
          /\ UNCHANGED <<co, late>>
     ELSE Return(r)
  /\ UNCHANGED <<status, invoice, subscription, granted, byHand, expired, collection, webhooks, hand>>

\* The payer approves on the phone, declines, or pays another amount.
ProviderSettles(c, outcome) ==
  /\ collection[c] = "pending"
  /\ outcome \in {"successful", "short", "failed"}
  /\ collection' = [collection EXCEPT ![c] = outcome]
  /\ UNCHANGED <<purchase, expired, webhooks, request, hand>>

ToActivate(r) ==
  /\ at' = [at EXCEPT ![r] = "activate"]
  /\ late' = [late EXCEPT ![r] = expired[co[r]]]
  /\ UNCHANGED <<co, goal, answer>>

BugQueryIgnoresAmount(r) ==
  /\ at[r] = "query"
  /\ CASE collection[co[r]] \in {"successful", "short"} -> ToActivate(r)
       [] collection[co[r]] = "failed"                  -> Goto(r, "markFailed")
       [] OTHER                                         -> Return(r)
  /\ UNCHANGED <<purchase, expired, collection, webhooks, hand>>

\* VerifyCollection and the comparison of reference, amount and currency.
Query(r) ==
  /\ at[r] = "query"
  /\ CASE collection[co[r]] = "successful" -> ToActivate(r)
       [] collection[co[r]] = "failed"     -> Goto(r, "markFailed")
       [] OTHER                            -> Return(r)
  /\ UNCHANGED <<purchase, expired, collection, webhooks, hand>>

BugMarkCheckoutFailedUnguarded(r) ==
  /\ at[r] \in {"markExpired", "markFailed"}
  /\ status' = [status EXCEPT ![co[r]] = "FAILED"]
  /\ Return(r)
  /\ UNCHANGED <<expired, recorded, invoice, subscription, granted, byHand, collection, webhooks, hand>>

\* One UPDATE ... WHERE status='PENDING' for both an expired and a failed checkout.
MarkCheckoutFailed(r) ==
  /\ at[r] \in {"markExpired", "markFailed"}
  /\ status' = [status EXCEPT ![co[r]] = IF @ = "PENDING" THEN "FAILED" ELSE @]
  /\ Return(r)
  /\ UNCHANGED <<expired, recorded, invoice, subscription, granted, byHand, collection, webhooks, hand>>

\* The writes of the activation transaction: the row is inserted or, whatever it
\* held, overwritten.  No other request is assumed to use a checkout's invoice key;
\* VendorBilling.tla has the case that one does.
Grant(c) ==
  /\ status' = [status EXCEPT ![c] = "SUCCESSFUL"]
  /\ recorded' = [recorded EXCEPT ![c] = TRUE]
  /\ invoice' = [invoice EXCEPT ![c] = TRUE]
  /\ subscription' = [subscription EXCEPT ![Owner[c]] =
                        [period |-> c, tier |-> Plan[c], active |-> TRUE]]
  /\ byHand' = byHand \ {Owner[c]}
  /\ granted' = [granted EXCEPT ![c] = @ + 1]

BugActivateWithoutLock(r) ==
  /\ at[r] = "activate"
  /\ IF ~ late[r] THEN Grant(co[r]) ELSE UNCHANGED purchase
  /\ Return(r)
  /\ UNCHANGED <<expired, collection, webhooks, hand>>

BugActivateCommitsExpired(r) ==
  LET c == co[r] IN
  /\ at[r] = "activate"
  /\ IF status[c] = "PENDING" /\ late[r]
     THEN /\ status' = [status EXCEPT ![c] = "EXPIRED"]
          /\ UNCHANGED <<recorded, invoice, subscription, granted, byHand>>
     ELSE IF status[c] = "PENDING" THEN Grant(c) ELSE UNCHANGED purchase
  /\ Return(r)
  /\ UNCHANGED <<expired, collection, webhooks, hand>>

\* ActivateCheckout: SELECT ... FOR UPDATE re-reads the status under the row
\* lock; a late one writes EXPIRED and rolls it back with everything else.
ActivateCheckout(r) ==
  /\ at[r] = "activate"
  /\ IF status[co[r]] = "PENDING" /\ ~ late[r] THEN Grant(co[r]) ELSE UNCHANGED purchase
  /\ Return(r)
  /\ UNCHANGED <<expired, collection, webhooks, hand>>

\* The request ends early: its client leaves, a statement or a call fails, the
\* API restarts.  A transaction that had not committed leaves nothing.
Abandon(r) ==
  /\ at[r] # "idle"
  /\ Return(r)
  /\ UNCHANGED <<purchase, expired, collection, webhooks, hand>>

-----------------------------------------------------------------------------
(* The writers of vendor_subscriptions that no checkout pays for. *)

Decide(h, work) ==
  /\ hand[h] = Idle
  /\ hand' = [hand EXCEPT ![h] = work]
  /\ UNCHANGED <<purchase, expired, collection, webhooks, request>>

\* CreateSubscription finds no row of the vendor.
CreateSubscription(h, v, t) ==
  /\ subscription[v].period = None
  /\ Decide(h, [do |-> "insert", vendor |-> v, tier |-> t])

\* ChangeTier; a CANCELLED or SUSPENDED row is refused, any other is changed.
ChangeTier(h, v, t) ==
  /\ subscription[v].period # None /\ subscription[v].tier # t
  /\ Decide(h, [do |-> "setTier", vendor |-> v, tier |-> t])

\* CancelSubscription and UpdateStatus; ACTIVE is no successor of itself.
UpdateStatus(h, v, active) ==
  /\ subscription[v].period # None
  /\ subscription[v].active => ~ active
  /\ Decide(h, [do |-> "setStatus", vendor |-> v, active |-> active])

Wrote(h, v) ==
  /\ byHand' = byHand \cup {v}
  /\ hand' = [hand EXCEPT ![h] = Idle]
  /\ UNCHANGED <<status, recorded, invoice, granted, expired, collection, webhooks, request>>

BugInsertSubscriptionReplaces(h) ==
  /\ hand[h].do = "insert"
  /\ \E active \in BOOLEAN :
       subscription' = [subscription EXCEPT ![hand[h].vendor] =
                          [period |-> Manual, tier |-> hand[h].tier, active |-> active]]
  /\ Wrote(h, hand[h].vendor)

\* A plain INSERT, ACTIVE or TRIAL; vendor_id is unique, so a row that appeared
\* since the lookup refuses it (HandGivesUp).
InsertSubscription(h) ==
  /\ hand[h].do = "insert"
  /\ subscription[hand[h].vendor].period = None
  /\ \E active \in BOOLEAN :
       subscription' = [subscription EXCEPT ![hand[h].vendor] =
                          [period |-> Manual, tier |-> hand[h].tier, active |-> active]]
  /\ Wrote(h, hand[h].vendor)

UpdateSubscriptionTier(h) ==
  /\ hand[h].do = "setTier"
  /\ subscription' = [subscription EXCEPT ![hand[h].vendor].tier = hand[h].tier]
  /\ Wrote(h, hand[h].vendor)

UpdateSubscriptionStatus(h) ==
  /\ hand[h].do = "setStatus"
  /\ subscription' = [subscription EXCEPT ![hand[h].vendor].active = hand[h].active]
  /\ Wrote(h, hand[h].vendor)

\* The statement is refused or never sent.
HandGivesUp(h) ==
  /\ hand[h] # Idle
  /\ hand' = [hand EXCEPT ![h] = Idle]
  /\ UNCHANGED <<purchase, expired, collection, webhooks, request>>

-----------------------------------------------------------------------------

ByHand ==
  \E h \in Hands :
    \/ \E v \in Vendors, t \in Tiers : CreateSubscription(h, v, t) \/ ChangeTier(h, v, t)
    \/ \E v \in Vendors, active \in BOOLEAN : UpdateStatus(h, v, active)
    \/ InsertSubscription(h) \/ UpdateSubscriptionTier(h) \/ UpdateSubscriptionStatus(h)
    \/ HandGivesUp(h)

Next ==
  \/ \E r \in Requests, c \in Checkouts :
       StartCreate(r, c) \/ StartInitiate(r, c) \/ StartVerify(r, c) \/ Receive(r, c)
  \/ \E r \in Requests :
       \/ CreateCheckout(r) \/ Read(r) \/ Record(r) \/ Query(r)
       \/ MarkCheckoutFailed(r) \/ ActivateCheckout(r) \/ Abandon(r)
       \/ \E outcome \in CollectionStatus : Collect(r, outcome) \/ CollectUnanswered(r, outcome)
  \/ \E c \in Checkouts :
       Expire(c) \/ \E outcome \in CollectionStatus : ProviderSettles(c, outcome)
  \/ ByHand

Spec == Init /\ [][Next]_vars

-----------------------------------------------------------------------------

\* Shape of the state.
TypeOK ==
  /\ status \in [Checkouts -> CheckoutStatus]
  /\ expired \in [Checkouts -> BOOLEAN]
  /\ recorded \in [Checkouts -> BOOLEAN]
  /\ invoice \in [Checkouts -> BOOLEAN]
  /\ subscription \in [Vendors -> Row]
  /\ hand \in [Hands -> HandWork]
  /\ collection \in [Checkouts -> CollectionStatus]
  /\ webhooks \in SUBSET Checkouts
  /\ at \in [Requests -> Point]
  /\ co \in [Requests -> Checkouts \cup {None}]
  /\ \A r \in Requests : at[r] = "idle" <=> co[r] = None
  /\ goal \in [Requests -> Goal]
  /\ answer \in [Requests -> CollectionStatus]
  /\ late \in [Requests -> BOOLEAN]
  /\ granted \in [Checkouts -> Nat]
  /\ byHand \in SUBSET Vendors

\* docs/lenco-subscription-checkout-design-notes.md:18-20: only a successful
\* collection of the locked amount pays for a checkout, however many requests
\* and callbacks verify it at once and whatever the provider reports meanwhile.
OnlyCollectedIsSuccessful ==
  \A c \in Checkouts : status[c] = "SUCCESSFUL" => collection[c] = "successful"

\* A payment is turned into value exactly once: concurrent verifications, a
\* repeated webhook and a retry after a crash neither grant a checkout twice
\* nor leave a SUCCESSFUL one without its grant and its invoice.
GrantedExactlyOnce ==
  \A c \in Checkouts :
    /\ granted[c] = IF status[c] = "SUCCESSFUL" THEN 1 ELSE 0
    /\ invoice[c] <=> status[c] = "SUCCESSFUL"

\* What a vendor pays for it has.  A subscription can be made by hand, without
\* payment, and its tier and status changed by hand; but once a checkout of the
\* vendor has succeeded, its row holds the month of one of its own SUCCESSFUL and
\* invoiced checkouts, although CreateSubscription may have found no row before
\* the activation, and it is ACTIVE on the bought tier unless changed since.
PaidMonthIsHeld ==
  \A v \in Vendors :
    LET row == subscription[v]
        c == row.period IN
    /\ c \in Checkouts =>
         /\ Owner[c] = v /\ status[c] = "SUCCESSFUL" /\ invoice[c]
         /\ v \notin byHand => row.active /\ row.tier = Plan[c]
    /\ (\E d \in Checkouts : Owner[d] = v /\ status[d] = "SUCCESSFUL") => c \in Checkouts

\* The verdict on a checkout is final: an expiry, a failed collection and an
\* activation that race for it, each on a stale read, cannot overrule each other.
VerdictIsFinal ==
  [][\A c \in Checkouts : status[c] \in Terminal => status'[c] = status[c]]_vars
=============================================================================
