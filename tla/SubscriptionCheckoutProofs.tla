--------------------- MODULE SubscriptionCheckoutProofs ---------------------
(***************************************************************************)
(* Proofs about SubscriptionCheckout.tla, for any number of checkouts,     *)
(* vendors, tiers and concurrent requests.                                 *)
(***************************************************************************)
EXTENDS SubscriptionCheckout, TLAPS

\* A request about to activate has seen its collection succeed, and a success
\* is never taken back by the provider.
ActivationIsBacked ==
  \A r \in Requests : at[r] = "activate" => collection[co[r]] = "successful"

\* The checkout a request is about to insert is in no table and no other hand.
InsertIsFresh ==
  \A r \in Requests : at[r] = "insert" =>
    status[co[r]] = "ABSENT" /\ \A s \in Requests \ {r} : co[s] # co[r]

IndInv ==
  /\ TypeOK
  /\ ActivationIsBacked
  /\ InsertIsFresh
  /\ OnlyCollectedIsSuccessful
  /\ GrantedExactlyOnce
  /\ PaidMonthIsHeld

USE CheckoutAssumption

-----------------------------------------------------------------------------
(* What the pieces of an action do to the program counters of the requests. *)

RequestOK ==
  /\ at \in [Requests -> Point]
  /\ co \in [Requests -> Checkouts \cup {None}]
  /\ \A r \in Requests : at[r] = "idle" <=> co[r] = None
  /\ goal \in [Requests -> Goal]
  /\ answer \in [Requests -> CollectionStatus]
  /\ late \in [Requests -> BOOLEAN]

\* A request other than r stays where it is, and r is not left at "activate".
Elsewhere(r) ==
  /\ at'[r] # "activate"
  /\ \A s \in Requests \ {r} : at'[s] = at[s] /\ co'[s] = co[s]

\* A request that returns is a typed request.
LEMMA ReturnOK ==
  ASSUME RequestOK, NEW r \in Requests, Return(r)
  PROVE  RequestOK' /\ Elsewhere(r)
BY DEF RequestOK, Return, Elsewhere, Point, Goal, CollectionStatus

\* A request that moves to one of its steps is a typed request.
LEMMA GotoOK ==
  ASSUME RequestOK, NEW r \in Requests, NEW p \in Point \ {"idle", "activate"},
         at[r] # "idle", Goto(r, p)
  PROVE  RequestOK' /\ Elsewhere(r)
BY DEF RequestOK, Goto, Elsewhere, Point

\* A request that takes up a checkout is a typed request.
LEMMA BeginOK ==
  ASSUME RequestOK, NEW r \in Requests, NEW c \in Checkouts, NEW g \in Goal,
         NEW p \in {"insert", "read"}, Begin(r, c, g, p)
  PROVE  RequestOK' /\ Elsewhere(r)
BY DEF RequestOK, Begin, Elsewhere, Point

\* A request that is somewhere works on a checkout.
LEMMA WorksOnCheckout ==
  ASSUME RequestOK, NEW r \in Requests, at[r] # "idle"
  PROVE  co[r] \in Checkouts
BY DEF RequestOK

-----------------------------------------------------------------------------

TableOK ==
  /\ status \in [Checkouts -> CheckoutStatus]
  /\ expired \in [Checkouts -> BOOLEAN]
  /\ recorded \in [Checkouts -> BOOLEAN]
  /\ invoice \in [Checkouts -> BOOLEAN]
  /\ subscription \in [Vendors -> Row]
  /\ hand \in [Hands -> HandWork]
  /\ collection \in [Checkouts -> CollectionStatus]
  /\ webhooks \in SUBSET Checkouts
  /\ granted \in [Checkouts -> Nat]
  /\ byHand \in SUBSET Vendors

\* Type correctness is that of the tables and that of the requests.
LEMMA TypeParts == TypeOK <=> TableOK /\ RequestOK
BY DEF TypeOK, TableOK, RequestOK

\* The same of the next state.
LEMMA TypePartsNext == TableOK' /\ RequestOK' => TypeOK'
BY DEF TypeOK, TableOK, RequestOK

\* The invariant apart from the program counters.
Ledger == TableOK /\ OnlyCollectedIsSuccessful /\ GrantedExactlyOnce /\ PaidMonthIsHeld

\* What PaidMonthIsHeld says of one vendor.
HeldBy(v) ==
  LET row == subscription[v]
      c == row.period IN
  /\ c \in Checkouts =>
       /\ Owner[c] = v /\ status[c] = "SUCCESSFUL" /\ invoice[c]
       /\ v \notin byHand => row.active /\ row.tier = Plan[c]
  /\ (\E d \in Checkouts : Owner[d] = v /\ status[d] = "SUCCESSFUL") => c \in Checkouts

\* A step that leaves the purchase tables alone and takes back no success keeps the ledger.
LEMMA LedgerKept ==
  ASSUME Ledger, UNCHANGED purchase, TableOK',
         \A c \in Checkouts : collection[c] = "successful" => collection'[c] = "successful"
  PROVE  Ledger'
<1>0. UNCHANGED <<status, invoice, subscription, granted, byHand>>
  BY DEF purchase
<1>1. OnlyCollectedIsSuccessful'
  BY <1>0 DEF Ledger, OnlyCollectedIsSuccessful
<1>2. GrantedExactlyOnce' /\ PaidMonthIsHeld'
  BY <1>0 DEF Ledger, GrantedExactlyOnce, PaidMonthIsHeld
<1> QED BY <1>1, <1>2 DEF Ledger

\* A status that moves, but to or from no success, keeps the ledger.
LEMMA LedgerKeptByStatus ==
  ASSUME Ledger, TableOK', UNCHANGED <<invoice, subscription, granted, byHand, collection>>,
         \A c \in Checkouts : status[c] = "SUCCESSFUL" <=> status'[c] = "SUCCESSFUL"
  PROVE  Ledger'
<1>1. OnlyCollectedIsSuccessful'
  BY DEF Ledger, OnlyCollectedIsSuccessful
<1>2. GrantedExactlyOnce'
  BY DEF Ledger, GrantedExactlyOnce
<1>3. PaidMonthIsHeld'
  BY DEF Ledger, PaidMonthIsHeld, TableOK
<1> QED BY <1>1, <1>2, <1>3 DEF Ledger

\* Granting a collected, pending checkout keeps the ledger.
LEMMA LedgerGrant ==
  ASSUME Ledger, NEW c \in Checkouts, status[c] = "PENDING", collection[c] = "successful",
         Grant(c), UNCHANGED <<expired, collection, webhooks, hand>>
  PROVE  Ledger'
<1> USE DEF Ledger, TableOK
<1>0. Owner[c] \in Vendors
  OBVIOUS
<1>1. granted[c] = 0
  BY DEF GrantedExactlyOnce
<1>2. TableOK'
  BY DEF Grant, CheckoutStatus, Terminal, Row
<1>3. OnlyCollectedIsSuccessful'
  BY DEF Grant, OnlyCollectedIsSuccessful
<1>4. GrantedExactlyOnce'
  BY <1>1 DEF Grant, GrantedExactlyOnce
<1>5. PaidMonthIsHeld'
  <2> SUFFICES ASSUME NEW v \in Vendors PROVE HeldBy(v)'
    BY DEF PaidMonthIsHeld, HeldBy
  <2>1. CASE v = Owner[c]
    BY <2>1, <1>0 DEF Grant, HeldBy
  <2>2. CASE v # Owner[c]
    <3>1. UNCHANGED <<subscription[v], v \in byHand>>
      BY <2>2, <1>0 DEF Grant
    <3>2. \A d \in Checkouts : Owner[d] = v => status'[d] = status[d] /\ invoice'[d] = invoice[d]
      BY <2>2 DEF Grant
    <3> QED BY <3>1, <3>2 DEF PaidMonthIsHeld, HeldBy
  <2> QED BY <2>1, <2>2
<1> QED BY <1>2, <1>3, <1>4, <1>5

\* Requests that move elsewhere stay backed as long as no success is taken back.
LEMMA BackingKept ==
  ASSUME ActivationIsBacked, RequestOK, NEW r \in Requests, Elsewhere(r),
         \A c \in Checkouts : collection[c] = "successful" => collection'[c] = "successful"
  PROVE  ActivationIsBacked'
<1> SUFFICES ASSUME NEW s \in Requests, at'[s] = "activate"
             PROVE  collection'[co'[s]] = "successful"
  BY DEF ActivationIsBacked
<1>1. s # r /\ at[s] = "activate" /\ co'[s] = co[s]
  BY DEF Elsewhere
<1> QED BY <1>1, WorksOnCheckout DEF ActivationIsBacked

-----------------------------------------------------------------------------

\* Rows are created only by the request that brought them, so a row that is
\* about to be inserted stays absent while another request moves on.
LEMMA FreshKept ==
  ASSUME InsertIsFresh, RequestOK, RequestOK', NEW r \in Requests, Elsewhere(r),
         at'[r] # "insert",
         co'[r] \in {co[r], None} \/ status[co'[r]] # "ABSENT",
         \A c \in Checkouts : status[c] = "ABSENT" =>
            status'[c] = "ABSENT" \/ (at[r] = "insert" /\ c = co[r])
  PROVE  InsertIsFresh'
<1> SUFFICES ASSUME NEW s \in Requests, at'[s] = "insert"
             PROVE  status'[co'[s]] = "ABSENT" /\ \A u \in Requests \ {s} : co'[u] # co'[s]
  BY DEF InsertIsFresh
<1>1. s # r /\ at[s] = "insert" /\ co'[s] = co[s]
  BY DEF Elsewhere
<1>2. co[s] \in Checkouts /\ status[co[s]] = "ABSENT" /\ co[s] # co[r]
  BY <1>1, WorksOnCheckout DEF InsertIsFresh
<1>3. status'[co'[s]] = "ABSENT"
  BY <1>1, <1>2 DEF InsertIsFresh
<1>4. co'[r] # co'[s]
  BY <1>1, <1>2
<1>5. \A u \in Requests \ {s} : co'[u] # co'[s]
  BY <1>1, <1>4 DEF InsertIsFresh, Elsewhere
<1> QED BY <1>3, <1>5

\* The inductive invariant by its parts, so that a step needs to treat only those it disturbs.
LEMMA IndInvParts == IndInv <=> Ledger /\ RequestOK /\ ActivationIsBacked /\ InsertIsFresh
BY TypeParts DEF IndInv, Ledger

\* The same of the next state.
LEMMA IndInvPartsNext == Ledger' /\ RequestOK' /\ ActivationIsBacked' /\ InsertIsFresh' => IndInv'
BY TypePartsNext DEF IndInv, Ledger

\* The inductive invariant holds before any checkout exists.
LEMMA IndInvInit == Init => IndInv
<1> SUFFICES ASSUME Init PROVE IndInv
  OBVIOUS
<1>1. TypeOK
  BY DEF Init, TypeOK, CheckoutStatus, CollectionStatus, Point, Goal, Row, HandWork, Idle
<1>2. /\ ActivationIsBacked /\ InsertIsFresh /\ OnlyCollectedIsSuccessful
      /\ GrantedExactlyOnce /\ PaidMonthIsHeld
  BY DEF Init, ActivationIsBacked, InsertIsFresh, OnlyCollectedIsSuccessful, GrantedExactlyOnce, PaidMonthIsHeld
<1> QED BY <1>1, <1>2 DEF IndInv

\* Steps that touch neither the purchase tables nor the provider.
LEMMA QuietStep ==
  ASSUME IndInv, NEW r \in Requests, RequestOK', Elsewhere(r), InsertIsFresh',
         UNCHANGED <<purchase, expired, collection, hand>>, webhooks' \in SUBSET Checkouts
  PROVE  IndInv'
<1>1. Ledger /\ RequestOK /\ ActivationIsBacked
  BY IndInvParts
<1>2. TableOK'
  BY <1>1 DEF TableOK, Ledger, purchase
<1>3. Ledger'
  BY <1>1, <1>2, LedgerKept
<1>4. ActivationIsBacked'
  BY <1>1, BackingKept
<1> QED BY <1>3, <1>4, IndInvPartsNext

\* A request takes up an existing checkout.
LEMMA BeginStep ==
  ASSUME IndInv, NEW r \in Requests, NEW c \in Checkouts, status[c] # "ABSENT",
         NEW g \in Goal, Begin(r, c, g, "read"),
         UNCHANGED <<purchase, expired, collection, hand>>, webhooks' \in SUBSET Checkouts
  PROVE  IndInv'
<1>1. RequestOK /\ InsertIsFresh
  BY IndInvParts
<1>2. RequestOK' /\ Elsewhere(r)
  BY <1>1, BeginOK
<1>3. at'[r] = "read" /\ co'[r] = c
  BY <1>1 DEF Begin, RequestOK
<1>4. InsertIsFresh'
  BY <1>1, <1>2, <1>3, FreshKept DEF purchase
<1> QED BY <1>2, <1>4, QuietStep

\* A request that is somewhere returns, or goes to another statement, and
\* leaves the tables and the provider alone.
LEMMA MoveStep ==
  ASSUME IndInv, NEW r \in Requests, at[r] \notin {"idle", "insert"} \/ Return(r),
         Return(r) \/ \E p \in Point \ {"idle", "activate", "insert"} : Goto(r, p),
         UNCHANGED <<purchase, expired, collection, webhooks, hand>>
  PROVE  IndInv'
<1>1. RequestOK /\ InsertIsFresh /\ webhooks \in SUBSET Checkouts
  BY IndInvParts DEF Ledger, TableOK
<1>2. CASE Return(r)
  <2>1. RequestOK' /\ Elsewhere(r)
    BY <1>1, <1>2, ReturnOK
  <2>2. at'[r] = "idle" /\ co'[r] = None
    BY <1>1, <1>2 DEF Return, RequestOK
  <2>3. InsertIsFresh'
    BY <1>1, <2>1, <2>2, FreshKept DEF purchase
  <2> QED BY <1>1, <2>1, <2>3, QuietStep
<1>3. CASE ~ Return(r)
  <2>1. PICK p \in Point \ {"idle", "activate", "insert"} : Goto(r, p)
    BY <1>3
  <2>2. RequestOK' /\ Elsewhere(r)
    BY <1>1, <1>3, <2>1, GotoOK
  <2>3. at'[r] = p /\ co'[r] = co[r]
    BY <1>1, <2>1 DEF Goto, RequestOK
  <2>4. InsertIsFresh'
    BY <1>1, <2>2, <2>3, FreshKept DEF purchase
  <2> QED BY <1>1, <2>2, <2>4, QuietStep
<1> QED BY <1>2, <1>3

\* The provider moves a collection it has not seen succeed.
LEMMA ProviderStep ==
  ASSUME IndInv, NEW c \in Checkouts, NEW outcome \in CollectionStatus,
         collection[c] = "successful" => outcome = "successful",
         collection' = [collection EXCEPT ![c] = outcome],
         UNCHANGED <<purchase, expired, webhooks, hand>>
  PROVE  /\ Ledger'
         /\ \A d \in Checkouts : collection[d] = "successful" => collection'[d] = "successful"
<1>1. Ledger
  BY IndInvParts
<1>2. TableOK'
  BY <1>1 DEF TableOK, Ledger, purchase
<1>3. \A d \in Checkouts : collection[d] = "successful" => collection'[d] = "successful"
  BY <1>1 DEF TableOK, Ledger
<1> QED BY <1>1, <1>2, <1>3, LedgerKept

\* The purchase tables move by one statement of a request, which returns.
LEMMA WriteStep ==
  ASSUME IndInv, NEW r \in Requests, Return(r), Ledger', UNCHANGED collection,
         \A c \in Checkouts : status[c] = "ABSENT" =>
            status'[c] = "ABSENT" \/ (at[r] = "insert" /\ c = co[r])
  PROVE  IndInv'
<1>1. RequestOK /\ InsertIsFresh /\ ActivationIsBacked
  BY IndInvParts
<1>2. RequestOK' /\ Elsewhere(r)
  BY <1>1, ReturnOK
<1>3. at'[r] = "idle" /\ co'[r] = None
  BY <1>1 DEF Return, RequestOK
<1>4. InsertIsFresh'
  BY <1>1, <1>2, <1>3, FreshKept
<1>5. ActivationIsBacked'
  BY <1>1, <1>2, BackingKept
<1> QED BY <1>2, <1>4, <1>5, IndInvPartsNext

\* A subscription written by hand keeps the ledger: made where no checkout of the
\* vendor has succeeded, or changed in its tier and status alone.
LEMMA HandStep ==
  ASSUME IndInv, NEW h \in Hands,
         InsertSubscription(h) \/ UpdateSubscriptionTier(h) \/ UpdateSubscriptionStatus(h)
  PROVE  IndInv'
<1>0. Ledger /\ TableOK /\ RequestOK /\ ActivationIsBacked /\ InsertIsFresh
  BY IndInvParts DEF Ledger
<1> DEFINE v == hand[h].vendor
<1>1. hand[h] \in HandWork /\ v \in Vendors
  BY <1>0 DEF TableOK, HandWork, InsertSubscription, UpdateSubscriptionTier, UpdateSubscriptionStatus
<1>2. Wrote(h, v)
  BY DEF InsertSubscription, UpdateSubscriptionTier, UpdateSubscriptionStatus
<1>3. /\ UNCHANGED <<status, recorded, invoice, granted, expired, collection, webhooks>>
      /\ UNCHANGED <<at, co, goal, answer, late>>
      /\ byHand' = byHand \cup {v}
  BY <1>2 DEF Wrote, request
<1>4. PICK row \in Row : /\ subscription' = [subscription EXCEPT ![v] = row]
                         /\ \/ row.period = subscription[v].period
                            \/ row.period = Manual /\ subscription[v].period = None
  <2>0. subscription[v] \in Row
    BY <1>0, <1>1 DEF TableOK
  <2>1. CASE InsertSubscription(h)
    <3>1. PICK active \in BOOLEAN : subscription' = [subscription EXCEPT ![v] =
                          [period |-> Manual, tier |-> hand[h].tier, active |-> active]]
      BY <2>1 DEF InsertSubscription
    <3> DEFINE made == [period |-> Manual, tier |-> hand[h].tier, active |-> active]
    <3>2. hand[h].tier \in Tiers
      BY <1>1, <2>1 DEF HandWork, InsertSubscription
    <3>3. made \in Row /\ made.period = Manual
      BY <3>2 DEF Row
    <3>4. subscription[v].period = None
      BY <2>1 DEF InsertSubscription
    <3>5. subscription' = [subscription EXCEPT ![v] = made]
      BY <3>1
    <3> HIDE DEF made
    <3> QED BY <3>3, <3>4, <3>5
  <2>2. CASE UpdateSubscriptionTier(h)
    <3> DEFINE made == [subscription[v] EXCEPT !.tier = hand[h].tier]
    <3>1. hand[h].tier \in Tiers
      BY <1>1, <2>2 DEF HandWork, UpdateSubscriptionTier
    <3>2. made \in Row /\ made.period = subscription[v].period
      BY <2>0, <3>1 DEF Row
    <3>3. subscription' = [subscription EXCEPT ![v] = made]
      BY <2>2 DEF UpdateSubscriptionTier
    <3> HIDE DEF made
    <3> QED BY <3>2, <3>3
  <2>3. CASE UpdateSubscriptionStatus(h)
    <3> DEFINE made == [subscription[v] EXCEPT !.active = hand[h].active]
    <3>1. hand[h].active \in BOOLEAN
      BY <1>1, <2>3 DEF HandWork, UpdateSubscriptionStatus
    <3>2. made \in Row /\ made.period = subscription[v].period
      BY <2>0, <3>1 DEF Row
    <3>3. subscription' = [subscription EXCEPT ![v] = made]
      BY <2>3 DEF UpdateSubscriptionStatus
    <3> HIDE DEF made
    <3> QED BY <3>2, <3>3
  <2> QED BY <2>1, <2>2, <2>3
<1>5. TableOK'
  <2>1. hand' \in [Hands -> HandWork]
    BY <1>0, <1>2 DEF Wrote, TableOK, HandWork, Idle
  <2>2. subscription' \in [Vendors -> Row] /\ byHand' \in SUBSET Vendors
    BY <1>0, <1>1, <1>3, <1>4 DEF TableOK
  <2> QED BY <1>0, <1>3, <2>1, <2>2 DEF TableOK
<1>6. PaidMonthIsHeld'
  <2> SUFFICES ASSUME NEW u \in Vendors PROVE HeldBy(u)'
    BY DEF PaidMonthIsHeld, HeldBy
  <2>0. HeldBy(u)
    BY <1>0 DEF Ledger, PaidMonthIsHeld, HeldBy
  <2>1. CASE u # v
    <3>1. UNCHANGED <<subscription[u], u \in byHand>>
      BY <1>0, <1>3, <1>4, <2>1 DEF TableOK
    <3> QED BY <1>3, <2>0, <3>1 DEF HeldBy
  <2>2. CASE u = v
    <3>1. subscription'[u] = row /\ u \in byHand'
      BY <1>0, <1>3, <1>4, <2>2 DEF TableOK
    <3> QED BY <1>3, <1>4, <2>0, <2>2, <3>1 DEF HeldBy
  <2> QED BY <2>1, <2>2
<1>7. Ledger'
  BY <1>0, <1>3, <1>5, <1>6 DEF Ledger, OnlyCollectedIsSuccessful, GrantedExactlyOnce
<1>8. RequestOK' /\ ActivationIsBacked' /\ InsertIsFresh'
  BY <1>0, <1>3 DEF RequestOK, ActivationIsBacked, InsertIsFresh
<1> QED BY <1>7, <1>8, IndInvPartsNext

\* Deciding on a statement, and giving it up, writes nothing.
LEMMA HandMoves ==
  ASSUME IndInv, UNCHANGED <<purchase, expired, collection, webhooks, request>>,
         hand' \in [Hands -> HandWork]
  PROVE  IndInv'
<1>0. Ledger /\ TableOK /\ RequestOK /\ ActivationIsBacked /\ InsertIsFresh
  BY IndInvParts DEF Ledger
<1>1. TableOK'
  BY <1>0 DEF TableOK, purchase
<1>2. Ledger'
  BY <1>0, <1>1, LedgerKept
<1>3. RequestOK' /\ ActivationIsBacked' /\ InsertIsFresh'
  BY <1>0 DEF RequestOK, ActivationIsBacked, InsertIsFresh, purchase, request
<1> QED BY <1>2, <1>3, IndInvPartsNext

\* The inductive invariant is preserved by every step of a request and of the provider.
LEMMA IndInvNext == IndInv /\ [Next]_vars => IndInv'
<1> SUFFICES ASSUME IndInv, [Next]_vars PROVE IndInv'
  OBVIOUS
<1>0. Ledger /\ TableOK /\ RequestOK /\ ActivationIsBacked /\ InsertIsFresh
  BY IndInvParts DEF Ledger
<1>1. ASSUME NEW r \in Requests, NEW c \in Checkouts, StartCreate(r, c) PROVE IndInv'
  <2>1. RequestOK' /\ Elsewhere(r)
    BY <1>0, <1>1, BeginOK DEF StartCreate, Goal
  <2>2. InsertIsFresh'
    <3> SUFFICES ASSUME NEW s \in Requests, at'[s] = "insert"
                 PROVE  status'[co'[s]] = "ABSENT" /\ \A u \in Requests \ {s} : co'[u] # co'[s]
      BY DEF InsertIsFresh
    <3>1. co'[r] = c /\ status' = status
      BY <1>0, <1>1 DEF StartCreate, Begin, RequestOK, purchase
    <3>2. CASE s = r
      BY <3>1, <3>2, <2>1, <1>1 DEF StartCreate, Elsewhere
    <3>3. CASE s # r
      BY <3>1, <3>3, <2>1, <1>0, <1>1 DEF StartCreate, Elsewhere, InsertIsFresh
    <3> QED BY <3>2, <3>3
  <2> QED BY <1>0, <1>1, <2>1, <2>2, QuietStep DEF StartCreate, TableOK
<1>2. ASSUME NEW r \in Requests, NEW c \in Checkouts,
             StartInitiate(r, c) \/ StartVerify(r, c) PROVE IndInv'
  BY <1>0, <1>2, BeginStep DEF StartInitiate, StartVerify, Goal, TableOK
<1>3. ASSUME NEW r \in Requests, NEW c \in Checkouts, Receive(r, c) PROVE IndInv'
  <2>1. webhooks' \in SUBSET Checkouts
    BY <1>0, <1>3 DEF Receive, TableOK
  <2> QED BY <1>3, <2>1, BeginStep DEF Receive, Goal
<1>4. ASSUME NEW r \in Requests, CreateCheckout(r) PROVE IndInv'
  <2>1. co[r] \in Checkouts /\ status[co[r]] = "ABSENT"
    BY <1>0, <1>4, WorksOnCheckout DEF CreateCheckout, InsertIsFresh
  <2>2. status' = [status EXCEPT ![co[r]] = "PENDING"]
    BY <1>4 DEF CreateCheckout
  <2>3. TableOK'
    BY <1>0, <1>4, <2>1, <2>2 DEF TableOK, CheckoutStatus, CreateCheckout
  <2>4. Ledger'
    BY <1>0, <1>4, <2>1, <2>2, <2>3, LedgerKeptByStatus DEF CreateCheckout, TableOK
  <2>5. \A c \in Checkouts : status[c] = "ABSENT" => status'[c] = "ABSENT" \/ c = co[r]
    BY <1>0, <2>2 DEF TableOK
  <2> QED BY <1>4, <2>4, <2>5, WriteStep DEF CreateCheckout
<1>5. ASSUME NEW r \in Requests, Read(r) PROVE IndInv'
  <2>1. Return(r) \/ \E p \in Point \ {"idle", "activate", "insert"} : Goto(r, p)
    BY <1>5 DEF Read, Point
  <2> QED BY <1>5, <2>1, MoveStep DEF Read
<1>6. ASSUME NEW r \in Requests, NEW outcome \in CollectionStatus, Collect(r, outcome)
      PROVE  IndInv'
  <2>1. co[r] \in Checkouts
    BY <1>0, <1>6, WorksOnCheckout DEF Collect
  <2>2. /\ Ledger'
        /\ \A d \in Checkouts : collection[d] = "successful" => collection'[d] = "successful"
    BY <1>6, <2>1, ProviderStep DEF Collect
  <2>3. RequestOK' /\ Elsewhere(r) /\ at'[r] # "insert" /\ co'[r] \in {co[r], None}
    <3>1. CASE Return(r)
      BY <1>0, <3>1, ReturnOK DEF Return, RequestOK
    <3>2. CASE ~ Return(r)
      BY <1>0, <1>6, <2>1, <3>2 DEF Collect, RequestOK, Elsewhere, Point
    <3> QED BY <3>1, <3>2
  <2>4. ActivationIsBacked'
    BY <1>0, <2>2, <2>3, BackingKept
  <2>5. InsertIsFresh'
    BY <1>0, <1>6, <2>3, FreshKept DEF Collect, purchase
  <2> QED BY <2>2, <2>3, <2>4, <2>5, IndInvPartsNext
<1>7. ASSUME NEW r \in Requests, NEW outcome \in CollectionStatus, CollectUnanswered(r, outcome)
      PROVE  IndInv'
  <2>1. co[r] \in Checkouts
    BY <1>0, <1>7, WorksOnCheckout DEF CollectUnanswered
  <2>2. /\ Ledger'
        /\ \A d \in Checkouts : collection[d] = "successful" => collection'[d] = "successful"
    BY <1>7, <2>1, ProviderStep DEF CollectUnanswered
  <2>3. RequestOK' /\ Elsewhere(r) /\ at'[r] # "insert" /\ co'[r] = None
    BY <1>0, <1>7, ReturnOK DEF CollectUnanswered, Return, RequestOK
  <2>4. ActivationIsBacked'
    BY <1>0, <2>2, <2>3, BackingKept
  <2>5. InsertIsFresh'
    BY <1>0, <1>7, <2>3, FreshKept DEF CollectUnanswered, purchase
  <2> QED BY <2>2, <2>3, <2>4, <2>5, IndInvPartsNext
<1>8. ASSUME NEW r \in Requests, Record(r) PROVE IndInv'
  <2>1. co[r] \in Checkouts
    BY <1>0, <1>8, WorksOnCheckout DEF Record
  <2>2. TableOK'
    BY <1>0, <1>8, <2>1 DEF Record, TableOK
  <2>3. Ledger'
    BY <1>0, <1>8, <2>2, LedgerKeptByStatus DEF Record
  <2>4. RequestOK' /\ Elsewhere(r) /\ at'[r] # "insert" /\ co'[r] \in {co[r], None}
    <3>1. CASE Return(r)
      BY <1>0, <3>1, ReturnOK DEF Return, RequestOK
    <3>2. CASE ~ Return(r)
      BY <1>0, <1>8, <2>1, <3>2 DEF Record, RequestOK, Elsewhere, Point, Goal, CollectionStatus
    <3> QED BY <3>1, <3>2
  <2>5. ActivationIsBacked'
    BY <1>0, <1>8, <2>4, BackingKept DEF Record
  <2>6. InsertIsFresh'
    BY <1>0, <1>8, <2>4, FreshKept DEF Record
  <2> QED BY <2>3, <2>4, <2>5, <2>6, IndInvPartsNext
<1>9. ASSUME NEW r \in Requests, Query(r) PROVE IndInv'
  <2>1. CASE ToActivate(r)
    <3>1. co[r] \in Checkouts /\ collection[co[r]] = "successful"
      BY <1>0, <1>9, <2>1, WorksOnCheckout DEF Query, ToActivate, Return, Goto, RequestOK, Point
    <3>2. RequestOK'
      BY <1>0, <1>9, <2>1, <3>1 DEF Query, ToActivate, RequestOK, Point, TableOK
    <3>3. ActivationIsBacked'
      BY <1>0, <1>9, <2>1, <3>1 DEF Query, ToActivate, ActivationIsBacked, RequestOK
    <3>4. InsertIsFresh'
      BY <1>0, <1>9, <2>1 DEF Query, ToActivate, InsertIsFresh, RequestOK, purchase
    <3>5. TableOK'
      BY <1>0, <1>9 DEF Query, TableOK, purchase
    <3>6. Ledger'
      BY <1>0, <1>9, <3>5, LedgerKept DEF Query
    <3> QED BY <3>2, <3>3, <3>4, <3>6, IndInvPartsNext
  <2>2. CASE ~ ToActivate(r)
    <3>1. Return(r) \/ \E p \in Point \ {"idle", "activate", "insert"} : Goto(r, p)
      BY <1>9, <2>2 DEF Query, Point
    <3> QED BY <1>9, <3>1, MoveStep DEF Query
  <2> QED BY <2>1, <2>2
<1>10. ASSUME NEW r \in Requests, MarkCheckoutFailed(r) PROVE IndInv'
  <2>1. co[r] \in Checkouts
    BY <1>0, <1>10, WorksOnCheckout DEF MarkCheckoutFailed
  <2>2. status' = [status EXCEPT ![co[r]] = IF @ = "PENDING" THEN "FAILED" ELSE @]
    BY <1>10 DEF MarkCheckoutFailed
  <2>3. TableOK'
    BY <1>0, <1>10, <2>1, <2>2 DEF TableOK, CheckoutStatus, Terminal, MarkCheckoutFailed
  <2>4. Ledger'
    BY <1>0, <1>10, <2>1, <2>2, <2>3, LedgerKeptByStatus DEF MarkCheckoutFailed, TableOK
  <2>5. \A c \in Checkouts : status[c] = "ABSENT" => status'[c] = "ABSENT"
    BY <1>0, <2>2 DEF TableOK
  <2> QED BY <1>10, <2>4, <2>5, WriteStep DEF MarkCheckoutFailed
<1>11. ASSUME NEW r \in Requests, ActivateCheckout(r) PROVE IndInv'
  <2>1. co[r] \in Checkouts /\ collection[co[r]] = "successful"
    BY <1>0, <1>11, WorksOnCheckout DEF ActivateCheckout, ActivationIsBacked
  <2>2. CASE status[co[r]] = "PENDING" /\ Grant(co[r])
    <3>1. Ledger'
      BY <1>0, <1>11, <2>1, <2>2, LedgerGrant DEF ActivateCheckout
    <3>2. \A c \in Checkouts : status[c] = "ABSENT" => status'[c] = "ABSENT"
      BY <1>0, <2>2 DEF TableOK, Grant
    <3> QED BY <1>11, <3>1, <3>2, WriteStep DEF ActivateCheckout
  <2>3. CASE UNCHANGED purchase
    BY <1>11, <2>3, MoveStep DEF ActivateCheckout
  <2> QED BY <1>11, <2>2, <2>3 DEF ActivateCheckout
<1>12. ASSUME NEW r \in Requests, Abandon(r) PROVE IndInv'
  BY <1>12, MoveStep DEF Abandon
<1>13. ASSUME NEW c \in Checkouts, Expire(c) PROVE IndInv'
  <2>1. TableOK'
    BY <1>0, <1>13 DEF Expire, TableOK, purchase
  <2>2. Ledger'
    BY <1>0, <1>13, <2>1, LedgerKept DEF Expire
  <2>3. RequestOK' /\ ActivationIsBacked' /\ InsertIsFresh'
    BY <1>0, <1>13 DEF Expire, RequestOK, ActivationIsBacked, InsertIsFresh, purchase, request
  <2> QED BY <2>2, <2>3, IndInvPartsNext
<1>14. ASSUME NEW c \in Checkouts, NEW outcome \in CollectionStatus, ProviderSettles(c, outcome)
       PROVE  IndInv'
  <2>1. /\ Ledger'
        /\ \A d \in Checkouts : collection[d] = "successful" => collection'[d] = "successful"
    BY <1>14, ProviderStep DEF ProviderSettles
  <2>2. UNCHANGED <<status, at, co, goal, answer, late>>
    BY <1>14 DEF ProviderSettles, purchase, request
  <2>3. RequestOK' /\ InsertIsFresh'
    BY <1>0, <2>2 DEF RequestOK, InsertIsFresh
  <2>4. ActivationIsBacked'
    BY <1>0, <2>1, <2>2, WorksOnCheckout DEF ActivationIsBacked
  <2> QED BY <2>1, <2>3, <2>4, IndInvPartsNext
<1>15. CASE ByHand
  <2>0. PICK h \in Hands :
    \/ \E v \in Vendors, t \in Tiers : CreateSubscription(h, v, t) \/ ChangeTier(h, v, t)
    \/ \E v \in Vendors, active \in BOOLEAN : UpdateStatus(h, v, active)
    \/ InsertSubscription(h) \/ UpdateSubscriptionTier(h) \/ UpdateSubscriptionStatus(h)
    \/ HandGivesUp(h)
    BY <1>15 DEF ByHand
  <2>1. ASSUME NEW work \in HandWork, Decide(h, work) PROVE IndInv'
    <3>1. hand' \in [Hands -> HandWork]
      BY <1>0, <2>1 DEF Decide, TableOK
    <3> QED BY <2>1, <3>1, HandMoves DEF Decide
  <2>2. ASSUME NEW v \in Vendors, NEW t \in Tiers, CreateSubscription(h, v, t) \/ ChangeTier(h, v, t)
        PROVE  IndInv'
    <3>1. \A do \in {"insert", "setTier"} : [do |-> do, vendor |-> v, tier |-> t] \in HandWork
      BY DEF HandWork
    <3> QED BY <2>1, <2>2, <3>1 DEF CreateSubscription, ChangeTier
  <2>3. ASSUME NEW v \in Vendors, NEW active \in BOOLEAN, UpdateStatus(h, v, active) PROVE IndInv'
    <3>1. [do |-> "setStatus", vendor |-> v, active |-> active] \in HandWork
      BY DEF HandWork
    <3> QED BY <2>1, <2>3, <3>1 DEF UpdateStatus
  <2>4. CASE HandGivesUp(h)
    <3>1. hand' \in [Hands -> HandWork]
      BY <1>0, <2>4 DEF HandGivesUp, TableOK, HandWork, Idle
    <3> QED BY <2>4, <3>1, HandMoves DEF HandGivesUp
  <2> QED BY <2>0, <2>2, <2>3, <2>4, HandStep
<1>16. CASE UNCHANGED vars
  BY <1>16 DEF vars, purchase, request, IndInv, TypeOK, ActivationIsBacked, InsertIsFresh,
               OnlyCollectedIsSuccessful, GrantedExactlyOnce, PaidMonthIsHeld
<1> QED
  BY <1>1, <1>2, <1>3, <1>4, <1>5, <1>6, <1>7, <1>8, <1>9, <1>10, <1>11, <1>12, <1>13, <1>14, <1>15, <1>16
  DEF Next

\* The inductive invariant holds in every reachable state.
LEMMA Invariance == Spec => []IndInv
BY IndInvInit, IndInvNext, PTL DEF Spec

-----------------------------------------------------------------------------

\* Type correctness of the checkout tables, requests and collections.
THEOREM TypeCorrect == Spec => []TypeOK
<1>1. IndInv => TypeOK
  BY DEF IndInv
<1> QED BY Invariance, <1>1, PTL

\* Only a successful collection of the locked amount makes a checkout SUCCESSFUL.
THEOREM CollectedOnly == Spec => []OnlyCollectedIsSuccessful
<1>1. IndInv => OnlyCollectedIsSuccessful
  BY DEF IndInv
<1> QED BY Invariance, <1>1, PTL

\* However many requests and callbacks activate a checkout, it is granted once
\* if it is SUCCESSFUL, and otherwise not at all.
THEOREM GrantedOnce == Spec => []GrantedExactlyOnce
<1>1. IndInv => GrantedExactlyOnce
  BY DEF IndInv
<1> QED BY Invariance, <1>1, PTL

\* A vendor with a SUCCESSFUL checkout holds the month of one of its own, paid
\* and invoiced, whoever creates or changes its subscription by hand meanwhile.
THEOREM PaidMonthHeld == Spec => []PaidMonthIsHeld
<1>1. IndInv => PaidMonthIsHeld
  BY DEF IndInv
<1> QED BY Invariance, <1>1, PTL

\* A step that changes no terminal status.
VerdictStep == \A c \in Checkouts : status[c] \in Terminal => status'[c] = status[c]

\* SUCCESSFUL and FAILED are final.
THEOREM VerdictStays == Spec => VerdictIsFinal
<1>1. IndInv /\ [Next]_vars => [VerdictStep]_vars
  <2> SUFFICES ASSUME IndInv, Next, NEW c \in Checkouts, status[c] \in Terminal
               PROVE  status'[c] = status[c]
    BY DEF VerdictStep
  <2>0. RequestOK /\ TableOK /\ InsertIsFresh /\ status[c] \notin {"ABSENT", "PENDING"}
    BY IndInvParts DEF Ledger, Terminal
  <2>1. CASE status' = status
    BY <2>1
  <2>2. ASSUME NEW r \in Requests, CreateCheckout(r) PROVE status'[c] = status[c]
    BY <2>0, <2>2 DEF CreateCheckout, InsertIsFresh, TableOK
  <2>3. ASSUME NEW r \in Requests, MarkCheckoutFailed(r) PROVE status'[c] = status[c]
    BY <2>0, <2>3 DEF MarkCheckoutFailed, TableOK
  <2>4. ASSUME NEW r \in Requests, ActivateCheckout(r) PROVE status'[c] = status[c]
    BY <2>0, <2>4 DEF ActivateCheckout, Grant, TableOK, purchase
  <2> QED
    BY <2>1, <2>2, <2>3, <2>4
    DEF Next, StartCreate, StartInitiate, StartVerify, Receive, Read, Record, Query, Abandon,
        Collect, CollectUnanswered, Expire, ProviderSettles, purchase,
        ByHand, CreateSubscription, ChangeTier, UpdateStatus, Decide, Wrote, HandGivesUp,
        InsertSubscription, UpdateSubscriptionTier, UpdateSubscriptionStatus
<1> QED BY Invariance, <1>1, PTL DEF Spec, VerdictIsFinal, VerdictStep
=============================================================================
