----------------------------- MODULE StoreProofs -----------------------------
(***************************************************************************)
(* Proofs about orders, counter payments, production jobs, accounts,       *)
(* addresses, routing and opening hours, for any of them and any number of *)
(* concurrent requests.                                                    *)
(***************************************************************************)
EXTENDS MCStore, OperatingHours, FiniteSetTheorems, SequenceTheorems, WellFoundedInduction, TLAPS

-----------------------------------------------------------------------------
(* Orders. *)

USE OrderAssumption

\* The stages that come before s are in the past of an order.
Preceded(s, past) ==
  /\ s = "DELIVERED" => "READY" \in past
  /\ s = "READY" => "IN_PRODUCTION" \in past
  /\ s = "IN_PRODUCTION" => "CONFIRMED" \in past

\* The status of an order is the last of those it has been in.
HistoryIsKept ==
  \A o \in Orders : IF order[o].status = "NONE" THEN been[o] = {} ELSE order[o].status \in been[o]

\* No two requests insert one order, which is new.
OneInserter ==
  \A c, d \in Calls :
    orderCall[c].at = "insert" /\ orderCall[d].at = "insert" /\ orderCall[c].order = orderCall[d].order => c = d

\* What a request k knows of its order between its statements.
OrderCallIsSound(k) ==
  /\ k.at # "idle" => k.order \in Orders
  /\ k.at = "insert" => order[k.order].status = "NONE"
  /\ k.at = "status" => /\ order[k.order].status # "NONE" /\ k.to \in StatusSet
                        /\ Preceded(k.to, been[k.order])

\* A key names one order.
OneOrderPerKey ==
  \A o, p \in Orders :
    order[o].status # "NONE" /\ order[p].status # "NONE" /\ order[o].key = order[p].key
      /\ order[o].key # NoKey => o = p

\* Customers are told of orders that exist, theirs, with the key they sent.
AnswersAreTrue ==
  \A t \in told : /\ order[t[3]].status # "NONE" /\ order[t[3]].key = t[2]
                  /\ t[1] # NoCustomer => order[t[3]].customer = t[1]

OrderInv ==
  /\ OrderTypeOK
  /\ HistoryIsKept
  /\ OneInserter
  /\ \A c \in Calls : OrderCallIsSound(orderCall[c])
  /\ OneOrderPerKey
  /\ AnswersAreTrue
  /\ StagesAreNotSkipped

\* Before any request there is no order, and nobody was told of one.
LEMMA OrderInvInit == OrderInit => OrderInv
<1> SUFFICES ASSUME OrderInit PROVE OrderInv
  OBVIOUS
<1> USE DEF OrderInit, OrderIdle
<1>1. OrderTypeOK
  BY DEF OrderTypeOK
<1>2. HistoryIsKept /\ OneInserter /\ OneOrderPerKey /\ AnswersAreTrue
  BY DEF HistoryIsKept, OneInserter, OneOrderPerKey, AnswersAreTrue
<1>3. \A c \in Calls : OrderCallIsSound(orderCall[c])
  BY DEF OrderCallIsSound
<1>4. StagesAreNotSkipped
  BY DEF StagesAreNotSkipped
<1> QED BY <1>1, <1>2, <1>3, <1>4 DEF OrderInv

\* The shape of a request.
OrderCallType == [at : {"idle", "insert", "status"}, order : Orders \cup {None},
                  customer : Customers \cup {NoCustomer}, key : Keys \cup {NoKey},
                  to : StatusSet \cup {"NONE"}]

\* Only one request moves, and perhaps an answer is given.
LEMMA OrderCallMoves ==
  ASSUME OrderInv, UNCHANGED <<order, been>>, NEW c \in Calls, NEW k \in OrderCallType,
         orderCall' = [orderCall EXCEPT ![c] = k], OrderCallIsSound(k),
         k.at = "insert" => \A d \in Calls : orderCall[d].order # k.order
  PROVE  /\ orderCall' \in [Calls -> OrderCallType]
         /\ OneInserter' /\ \A d \in Calls : OrderCallIsSound(orderCall[d])'
<1>0. /\ orderCall'[c] = k
      /\ \A d \in Calls \ {c} : orderCall'[d] = orderCall[d]
  BY DEF OrderInv, OrderTypeOK
<1>1. orderCall' \in [Calls -> OrderCallType]
  BY DEF OrderInv, OrderTypeOK, OrderCallType
<1>2. OneInserter'
  BY <1>0 DEF OrderInv, OneInserter
<1>3. ASSUME NEW d \in Calls PROVE OrderCallIsSound(orderCall[d])'
  BY <1>0 DEF OrderInv, OrderCallIsSound
<1> QED BY <1>1, <1>2, <1>3

\* A request ends.
LEMMA OrderCallEnds ==
  ASSUME OrderInv, NEW c \in Calls, OrderReturn(c)
  PROVE  /\ orderCall' \in [Calls -> OrderCallType]
         /\ orderCall'[c] = OrderIdle
         /\ \A d \in Calls \ {c} : orderCall'[d] = orderCall[d]
         /\ OneInserter'
<1>1. /\ orderCall'[c] = OrderIdle
      /\ \A d \in Calls \ {c} : orderCall'[d] = orderCall[d]
  BY DEF OrderReturn, OrderInv, OrderTypeOK
<1>2. orderCall' \in [Calls -> OrderCallType]
  BY DEF OrderReturn, OrderInv, OrderTypeOK, OrderCallType, OrderIdle
<1>3. OneInserter'
  BY <1>1 DEF OrderInv, OneInserter, OrderIdle
<1> QED BY <1>1, <1>2, <1>3

\* The answer to a customer u with the key k is true, and is all that changes.
LEMMA AnswerIsTrue ==
  ASSUME OrderInv, UNCHANGED <<order, been>>, NEW u \in Customers \cup {NoCustomer},
         NEW k \in Keys \cup {NoKey}, Answer(u, k)
  PROVE  told' \in SUBSET ((Customers \cup {NoCustomer}) \X (Keys \cup {NoKey}) \X Orders) /\ AnswersAreTrue'
<1>1. PICK o \in WithKey(k) :
        told' = IF u \in {NoCustomer, order[o].customer} THEN told \cup {<<u, k, o>>} ELSE told
  BY DEF Answer
<1>2. o \in Orders /\ order[o].status # "NONE" /\ order[o].key = k
  BY DEF WithKey
<1>3. told \in SUBSET ((Customers \cup {NoCustomer}) \X (Keys \cup {NoKey}) \X Orders)
  BY DEF OrderInv, OrderTypeOK
<1>4. \A t \in told' : t \in told \/ (t = <<u, k, o>> /\ u \in {NoCustomer, order[o].customer})
  BY <1>1
<1> QED BY <1>2, <1>3, <1>4 DEF OrderInv, AnswersAreTrue

\* What does not depend on the requests stays when the orders do.
LEMMA OrdersStay ==
  ASSUME OrderInv, UNCHANGED <<order, been>>, orderCall' \in [Calls -> OrderCallType], OneInserter',
         \A d \in Calls : OrderCallIsSound(orderCall[d])',
         told' \in SUBSET ((Customers \cup {NoCustomer}) \X (Keys \cup {NoKey}) \X Orders), AnswersAreTrue'
  PROVE  OrderInv'
BY DEF OrderInv, OrderTypeOK, OrderCallType, HistoryIsKept, OneOrderPerKey, StagesAreNotSkipped

\* The request of a new order is answered, or comes to its INSERT.
LEMMA PlaceOrderKeeps ==
  ASSUME OrderInv, NEW c \in Calls, NEW o \in Orders, NEW u \in Customers \cup {NoCustomer},
         NEW k \in Keys \cup {NoKey}, PlaceOrder(c, o, u, k)
  PROVE  OrderInv'
<1>0. UNCHANGED <<order, been>>
  BY DEF PlaceOrder
<1>1. CASE Answer(u, k) /\ UNCHANGED orderCall
  <2>1. /\ orderCall' \in [Calls -> OrderCallType] /\ OneInserter'
        /\ \A d \in Calls : OrderCallIsSound(orderCall[d])'
    BY <1>0, <1>1 DEF OrderInv, OrderTypeOK, OrderCallType, OneInserter, OrderCallIsSound
  <2> QED BY <1>0, <1>1, <2>1, AnswerIsTrue, OrdersStay
<1>2. CASE ~(Answer(u, k) /\ UNCHANGED orderCall)
  <2> DEFINE new == [at |-> "insert", order |-> o, customer |-> u, key |-> k, to |-> "PENDING"]
  <2>1. /\ order[o].status = "NONE" /\ \A d \in Calls : orderCall[d].order # o
        /\ orderCall' = [orderCall EXCEPT ![c] = new]
        /\ UNCHANGED told
    BY <1>2 DEF PlaceOrder
  <2>2. new \in OrderCallType /\ OrderCallIsSound(new) /\ new.order = o
    BY <2>1 DEF OrderCallType, OrderCallIsSound, StatusSet
  <2> HIDE DEF new
  <2>3. /\ orderCall' \in [Calls -> OrderCallType] /\ OneInserter'
        /\ \A d \in Calls : OrderCallIsSound(orderCall[d])'
    BY <1>0, <2>1, <2>2, OrderCallMoves
  <2>4. /\ told' \in SUBSET ((Customers \cup {NoCustomer}) \X (Keys \cup {NoKey}) \X Orders)
        /\ AnswersAreTrue'
    BY <1>0, <2>1 DEF OrderInv, OrderTypeOK, AnswersAreTrue
  <2> QED BY <1>0, <2>3, <2>4, OrdersStay
<1> QED BY <1>1, <1>2

\* A lost race for a key is answered with the order of the winner.
LEMMA CreateOrderKeeps ==
  ASSUME OrderInv, NEW c \in Calls, CreateOrder(c)
  PROVE  OrderInv'
<1> DEFINE new == orderCall[c]
<1>1. /\ new \in OrderCallType /\ new.at = "insert" /\ new.order \in Orders
      /\ order[new.order].status = "NONE" /\ been[new.order] = {}
  BY DEF CreateOrder, InsertIf, OrderInv, OrderTypeOK, OrderCallType, OrderCallIsSound, HistoryIsKept
<1>2. /\ orderCall' \in [Calls -> OrderCallType] /\ orderCall'[c] = OrderIdle
      /\ \A d \in Calls \ {c} : orderCall'[d] = orderCall[d]
      /\ OneInserter'
  BY OrderCallEnds DEF CreateOrder, InsertIf
<1>3. CASE /\ WithKey(new.key) = {}
           /\ order' = [order EXCEPT ![new.order] =
                [status |-> "PENDING", customer |-> new.customer, key |-> new.key]]
           /\ been' = [been EXCEPT ![new.order] = {"PENDING"}]
           /\ told' = told \cup {<<new.customer, new.key, new.order>>}
  <2>0. PICK o \in Orders : o = new.order
    BY <1>1
  <2>1. /\ order'[o] = [status |-> "PENDING", customer |-> new.customer, key |-> new.key]
        /\ been'[o] = {"PENDING"}
        /\ \A p \in Orders \ {o} : order'[p] = order[p] /\ been'[p] = been[p]
    BY <1>3, <2>0 DEF OrderInv, OrderTypeOK
  <2>2. OrderTypeOK'
    BY <1>1, <1>2, <1>3, <2>0 DEF OrderInv, OrderTypeOK, OrderCallType, StatusSet
  <2>3. HistoryIsKept'
    BY <2>1 DEF OrderInv, HistoryIsKept
  <2>4. ASSUME NEW d \in Calls PROVE OrderCallIsSound(orderCall[d])'
    <3>1. CASE d = c
      BY <1>2, <3>1 DEF OrderCallIsSound, OrderIdle
    <3>2. CASE d # c
      <4>1. orderCall'[d] = orderCall[d] /\ OrderCallIsSound(orderCall[d]) /\ (orderCall[d].at # "idle" => orderCall[d].order # o)
        BY <1>1, <1>2, <2>0, <3>2 DEF OrderInv, OneInserter, OrderCallIsSound, OrderTypeOK
      <4> QED BY <2>1, <4>1 DEF OrderCallIsSound
    <3> QED BY <3>1, <3>2
  <2>5. OneOrderPerKey'
    <3>1. \A p \in Orders : order[p].status # "NONE" /\ new.key # NoKey => order[p].key # new.key
      BY <1>3 DEF WithKey
    <3> QED BY <2>1, <3>1 DEF OrderInv, OneOrderPerKey
  <2>6. AnswersAreTrue'
    <3>1. \A t \in told : t[3] \in Orders \ {o}
      BY <1>1, <2>0 DEF OrderInv, OrderTypeOK, AnswersAreTrue
    <3>2. \A t \in told' : t \in told \/ t = <<new.customer, new.key, o>>
      BY <1>3, <2>0
    <3> QED BY <2>1, <3>1, <3>2 DEF OrderInv, AnswersAreTrue
  <2>7. StagesAreNotSkipped'
    BY <2>1 DEF OrderInv, StagesAreNotSkipped
  <2> QED BY <1>2, <2>2, <2>3, <2>4, <2>5, <2>6, <2>7 DEF OrderInv
<1>4. CASE Answer(new.customer, new.key) /\ UNCHANGED <<order, been>>
  <2>1. ASSUME NEW d \in Calls PROVE OrderCallIsSound(orderCall[d])'
    <3>1. OrderCallIsSound(orderCall[d])
      BY DEF OrderInv
    <3> QED BY <1>2, <1>4, <3>1 DEF OrderCallIsSound, OrderIdle
  <2>2. new.customer \in Customers \cup {NoCustomer} /\ new.key \in Keys \cup {NoKey}
    BY <1>1 DEF OrderCallType
  <2>3. /\ told' \in SUBSET ((Customers \cup {NoCustomer}) \X (Keys \cup {NoKey}) \X Orders)
        /\ AnswersAreTrue'
    BY <1>4, <2>2, AnswerIsTrue
  <2> QED BY <1>2, <1>4, <2>1, <2>3, OrdersStay
<1> QED BY <1>3, <1>4 DEF CreateOrder, InsertIf

\* A request that may change the status of its order to s, or that ends.
LEMMA ToStatusKeeps ==
  ASSUME OrderInv, NEW c \in Calls, NEW o \in Orders, NEW s \in StatusSet,
         order[o].status # "NONE", Preceded(s, been[o]), ToStatus(c, o, s)
  PROVE  OrderInv'
<1> DEFINE new == [OrderIdle EXCEPT !.at = "status", !.order = o, !.to = s]
<1>1. /\ new \in OrderCallType /\ new.at = "status" /\ new.order = o /\ new.to = s
      /\ UNCHANGED <<order, been, told>>
      /\ orderCall' = [orderCall EXCEPT ![c] = new]
  BY DEF OrderIdle, OrderCallType, ToStatus
<1> HIDE DEF new
<1>2. OrderCallIsSound(new)
  BY <1>1 DEF OrderCallIsSound
<1>3. /\ orderCall' \in [Calls -> OrderCallType] /\ OneInserter'
      /\ \A d \in Calls : OrderCallIsSound(orderCall[d])'
  BY <1>1, <1>2, OrderCallMoves
<1>4. /\ told' \in SUBSET ((Customers \cup {NoCustomer}) \X (Keys \cup {NoKey}) \X Orders)
      /\ AnswersAreTrue'
  BY <1>1 DEF OrderInv, OrderTypeOK, AnswersAreTrue
<1> QED BY <1>1, <1>3, <1>4, OrdersStay

\* The table leads through every stage.
LEMMA UpdateOrderStatusKeeps ==
  ASSUME OrderInv, NEW c \in Calls, NEW o \in Orders, NEW s, UpdateOrderStatus(c, o, s)
  PROVE  OrderInv'
<1>1. order[o].status \in StatusSet /\ s \in orderTransitions[order[o].status]
  BY DEF UpdateOrderStatus
<1>2. order[o].status \in been[o] /\ order[o].status # "NONE"
  BY <1>1 DEF OrderInv, HistoryIsKept, StatusSet
<1>3. s \in StatusSet
  BY <1>1 DEF orderTransitions, StatusSet
<1>4. Preceded(s, been[o])
  BY <1>1, <1>2 DEF orderTransitions, StatusSet, Preceded
<1> QED BY <1>2, <1>3, <1>4, ToStatusKeeps DEF UpdateOrderStatus

\* Only an order that exists is cancelled.
LEMMA CancelOrderKeeps ==
  ASSUME OrderInv, NEW c \in Calls, NEW o \in Orders, CancelOrder(c, o)
  PROVE  OrderInv'
<1>1. order[o].status # "NONE" /\ Preceded("CANCELLED", been[o]) /\ "CANCELLED" \in StatusSet
  BY DEF CancelOrder, Preceded, StatusSet
<1> QED BY <1>1, ToStatusKeeps DEF CancelOrder

\* The UPDATE adds a stage whose predecessors the order has been in.
LEMMA WriteOrderStatusKeeps ==
  ASSUME OrderInv, NEW c \in Calls, WriteOrderStatus(c)
  PROVE  OrderInv'
<1>0. PICK o, s : o = orderCall[c].order /\ s = orderCall[c].to
  OBVIOUS
<1>1. /\ o \in Orders /\ order[o].status # "NONE" /\ s \in StatusSet /\ Preceded(s, been[o])
      /\ order' = [order EXCEPT ![o].status = s] /\ been' = [been EXCEPT ![o] = @ \cup {s}]
      /\ UNCHANGED told
  BY <1>0 DEF WriteOrderStatus, OrderInv, OrderCallIsSound
<1>2. /\ order'[o].status = s /\ order'[o].customer = order[o].customer /\ order'[o].key = order[o].key
      /\ been'[o] = been[o] \cup {s}
      /\ \A p \in Orders \ {o} : order'[p] = order[p] /\ been'[p] = been[p]
  BY <1>1 DEF OrderInv, OrderTypeOK
<1>3. /\ orderCall' \in [Calls -> OrderCallType] /\ orderCall'[c] = OrderIdle
      /\ \A d \in Calls \ {c} : orderCall'[d] = orderCall[d]
      /\ OneInserter'
  BY OrderCallEnds DEF WriteOrderStatus
<1>4. OrderTypeOK'
  BY <1>1, <1>3 DEF OrderInv, OrderTypeOK, OrderCallType
<1>5. HistoryIsKept'
  BY <1>1, <1>2 DEF OrderInv, HistoryIsKept, StatusSet
<1>6. ASSUME NEW d \in Calls PROVE OrderCallIsSound(orderCall[d])'
  <2>1. CASE d = c
    BY <1>3, <2>1 DEF OrderCallIsSound, OrderIdle
  <2>2. CASE d # c
    <3>1. orderCall'[d] = orderCall[d] /\ OrderCallIsSound(orderCall[d])
      BY <1>3, <2>2 DEF OrderInv
    <3>2. \A p \in Orders : /\ been[p] \subseteq been'[p]
                            /\ order[p].status = "NONE" => order'[p].status = "NONE"
                            /\ order[p].status # "NONE" => order'[p].status # "NONE"
      BY <1>1, <1>2 DEF StatusSet
    <3> QED BY <3>1, <3>2 DEF OrderCallIsSound, Preceded
  <2> QED BY <2>1, <2>2
<1>7. OneOrderPerKey' /\ AnswersAreTrue'
  BY <1>1, <1>2 DEF OrderInv, OrderTypeOK, OneOrderPerKey, AnswersAreTrue, StatusSet
<1>8. StagesAreNotSkipped'
  BY <1>1, <1>2 DEF OrderInv, StagesAreNotSkipped, Preceded
<1> QED BY <1>3, <1>4, <1>5, <1>6, <1>7, <1>8 DEF OrderInv

\* A request that dies leaves the orders alone.
LEMMA OrderCrashKeeps ==
  ASSUME OrderInv, NEW c \in Calls, OrderCrash(c)
  PROVE  OrderInv'
<1>1. /\ OrderIdle \in OrderCallType /\ OrderCallIsSound(OrderIdle) /\ OrderIdle.at = "idle"
      /\ orderCall' = [orderCall EXCEPT ![c] = OrderIdle]
      /\ UNCHANGED <<order, been, told>>
  BY DEF OrderIdle, OrderCallType, OrderCallIsSound, OrderCrash, OrderReturn
<1>2. /\ orderCall' \in [Calls -> OrderCallType] /\ OneInserter'
      /\ \A d \in Calls : OrderCallIsSound(orderCall[d])'
  BY <1>1, OrderCallMoves
<1>3. /\ told' \in SUBSET ((Customers \cup {NoCustomer}) \X (Keys \cup {NoKey}) \X Orders)
      /\ AnswersAreTrue'
  BY <1>1 DEF OrderInv, OrderTypeOK, AnswersAreTrue
<1> QED BY <1>1, <1>2, <1>3, OrdersStay

\* Every step keeps the invariant.
LEMMA OrderInvNext == OrderInv /\ [OrderNext]_orderVars => OrderInv'
<1> SUFFICES ASSUME OrderInv, [OrderNext]_orderVars PROVE OrderInv'
  OBVIOUS
<1>1. CASE UNCHANGED orderVars
  BY <1>1 DEF orderVars, OrderInv, OrderTypeOK, HistoryIsKept, OneInserter, OrderCallIsSound, OneOrderPerKey,
              AnswersAreTrue, StagesAreNotSkipped
<1>2. ASSUME NEW c \in Calls, NEW o \in Orders, NEW u \in Customers \cup {NoCustomer},
             NEW k \in Keys \cup {NoKey}, PlaceOrder(c, o, u, k)
      PROVE  OrderInv'
  BY <1>2, PlaceOrderKeeps
<1>3. ASSUME NEW c \in Calls, CreateOrder(c) PROVE OrderInv'
  BY <1>3, CreateOrderKeeps
<1>4. ASSUME NEW c \in Calls, NEW o \in Orders, NEW s \in StatusSet \cup {"OTHER"}, UpdateOrderStatus(c, o, s)
      PROVE  OrderInv'
  BY <1>4, UpdateOrderStatusKeeps
<1>5. ASSUME NEW c \in Calls, NEW o \in Orders, CancelOrder(c, o) PROVE OrderInv'
  BY <1>5, CancelOrderKeeps
<1>6. ASSUME NEW c \in Calls, WriteOrderStatus(c) PROVE OrderInv'
  BY <1>6, WriteOrderStatusKeeps
<1>7. ASSUME NEW c \in Calls, OrderCrash(c) PROVE OrderInv'
  BY <1>7, OrderCrashKeeps
<1> QED BY <1>1, <1>2, <1>3, <1>4, <1>5, <1>6, <1>7 DEF OrderNext

\* The invariant of orders holds in every reachable state.
LEMMA OrderInvariance == OrderSpec => []OrderInv
BY OrderInvInit, OrderInvNext, PTL DEF OrderSpec

\* The rows of orders and what their requests carry keep their shape (internal/modules/order).
THEOREM OrdersAreTyped == OrderSpec => []OrderTypeOK
<1>1. OrderInv => OrderTypeOK
  BY DEF OrderInv
<1> QED BY <1>1, OrderInvariance, PTL

\* Whoever places an order again with the same key is answered with the order that key
\* made for them, lost races for the key included (order service and repository).
THEOREM RetriesFindTheirOrder == OrderSpec => []RetriesGetTheirOrder
<1>1. OrderInv => RetriesGetTheirOrder
  BY DEF OrderInv, OneOrderPerKey, AnswersAreTrue, RetriesGetTheirOrder, WithKey
<1> QED BY <1>1, OrderInvariance, PTL

\* An order has been in every stage that its status comes after, although the UPDATE of
\* a status does not look at the status it overwrites (order/service_impl.go).
THEOREM StagesFollow == OrderSpec => []StagesAreNotSkipped
<1>1. OrderInv => StagesAreNotSkipped
  BY DEF OrderInv
<1> QED BY <1>1, OrderInvariance, PTL

-----------------------------------------------------------------------------
(* Counter payments. *)

HIDE OrderAssumption
USE PointOfSaleAssumption

\* What a cashier's request k knows of its row.
TillIsSound(k) ==
  /\ k.at = "idle" => k = TillIdle
  /\ k.at # "idle" => k.order \in Orders
  /\ k.at # "idle" /\ k.row # 0 => k.row \in DOMAIN txs[k.order]
  /\ k.at = "create" /\ k.row # 0 => txs[k.order][k.row] = "unseen"
  /\ k.at = "refund" => k.row # 0 /\ txs[k.order][k.row] \in {"COMPLETED", "REFUNDED"}
  /\ k.at = "refunded" => k.row # 0 /\ txs[k.order][k.row] = "REFUNDED"

\* An INSERT under way has a row of its own.
OwnRows ==
  \A c, d \in Calls :
    till[c].at = "create" /\ till[d].at = "create" /\ till[c].row # 0
      /\ till[c].order = till[d].order /\ till[c].row = till[d].row => c = d

\* Money was handed back for rows that are refunded.
MoneyBackIsRefunded ==
  \A o \in Orders : \A i \in 1..MaxRows :
    paid[o][i] > 0 => i \in DOMAIN txs[o] /\ txs[o][i] = "REFUNDED"

\* The partial unique index.
CompletedIsUnique ==
  \A o \in Orders : \A i, j \in DOMAIN txs[o] : txs[o][i] = "COMPLETED" /\ txs[o][j] = "COMPLETED" => i = j

TillType == [at : TillSteps, order : Orders \cup {None}, row : 0..MaxRows]

PosInv ==
  /\ txs \in [Orders -> Seq(RowStatus)]
  /\ till \in [Calls -> TillType]
  /\ paid \in [Orders -> [1..MaxRows -> Nat]]
  /\ \A o \in Orders : DOMAIN txs[o] \subseteq 1..MaxRows
  /\ \A c \in Calls : TillIsSound(till[c])
  /\ OwnRows
  /\ MoneyBackIsRefunded
  /\ CompletedIsUnique

\* At first there is no transaction.
LEMMA PosInvInit == PosInit => PosInv
<1> SUFFICES ASSUME PosInit PROVE PosInv
  OBVIOUS
<1> USE DEF PosInit, TillIdle
<1>1. txs \in [Orders -> Seq(RowStatus)] /\ \A o \in Orders : DOMAIN txs[o] = {}
  <2>1. <<>> \in Seq(RowStatus) /\ DOMAIN <<>> = {}
    OBVIOUS
  <2> QED BY <2>1
<1>2. till \in [Calls -> TillType] /\ paid \in [Orders -> [1..MaxRows -> Nat]]
  BY DEF TillType, TillSteps
<1>3. (\A c \in Calls : TillIsSound(till[c])) /\ OwnRows
  BY DEF TillIsSound, OwnRows
<1>4. MoneyBackIsRefunded /\ CompletedIsUnique
  BY <1>1 DEF MoneyBackIsRefunded, CompletedIsUnique
<1> QED BY <1>1, <1>2, <1>3, <1>4 DEF PosInv

\* Only one request moves.
LEMMA TillMoves ==
  ASSUME PosInv, NEW c \in Calls, NEW k \in TillType, till' = [till EXCEPT ![c] = k], UNCHANGED txs,
         TillIsSound(k),
         k.at = "create" /\ k.row # 0 => till[c].at = "create" /\ till[c].order = k.order /\ till[c].row = k.row
  PROVE  till' \in [Calls -> TillType] /\ (\A d \in Calls : TillIsSound(till[d])') /\ OwnRows'
<1>0. till'[c] = k /\ \A d \in Calls \ {c} : till'[d] = till[d]
  BY DEF PosInv
<1>1. till' \in [Calls -> TillType]
  BY DEF PosInv
<1>2. ASSUME NEW d \in Calls PROVE TillIsSound(till[d])'
  BY <1>0 DEF PosInv, TillIsSound
<1>3. OwnRows'
  BY <1>0 DEF PosInv, OwnRows
<1> QED BY <1>1, <1>2, <1>3

\* What does not depend on the requests stays when the rows do.
LEMMA RowsStay ==
  ASSUME PosInv, UNCHANGED <<txs, paid>>, till' \in [Calls -> TillType],
         \A d \in Calls : TillIsSound(till[d])', OwnRows'
  PROVE  PosInv'
BY DEF PosInv, MoneyBackIsRefunded, CompletedIsUnique

\* One row of one order changes.
LEMMA RowChanges ==
  ASSUME PosInv, NEW o \in Orders, NEW i \in DOMAIN txs[o], NEW s \in RowStatus,
         txs' = [txs EXCEPT ![o][i] = s]
  PROVE  /\ txs' \in [Orders -> Seq(RowStatus)]
         /\ \A p \in Orders : DOMAIN txs'[p] = DOMAIN txs[p]
         /\ txs'[o][i] = s
         /\ \A p \in Orders : \A j \in DOMAIN txs[p] : <<p, j>> # <<o, i>> => txs'[p][j] = txs[p][j]
<1>1. txs[o] \in Seq(RowStatus)
  BY DEF PosInv
<1>2. PICK new : new = [txs[o] EXCEPT ![i] = s]
  OBVIOUS
<1>3. /\ new \in Seq(RowStatus) /\ DOMAIN new = DOMAIN txs[o] /\ new[i] = s
      /\ \A j \in DOMAIN txs[o] : j # i => new[j] = txs[o][j]
  BY <1>1, <1>2, ExceptSeq
<1>4. txs' = [txs EXCEPT ![o] = new]
  BY <1>2
<1> QED BY <1>3, <1>4 DEF PosInv

\* Request c leaves the unseen row i it has inserted with a status, and ends.
LEMMA InsertSettles ==
  ASSUME PosInv, NEW c \in Calls, NEW s \in RowStatus,
         till[c].at = "create", till[c].row # 0,
         txs' = [txs EXCEPT ![till[c].order][till[c].row] = s],
         till' = [till EXCEPT ![c] = TillIdle], UNCHANGED paid,
         s = "COMPLETED" => Completed(till[c].order) = {}
  PROVE  /\ PosInv'
         /\ \A o \in Orders : \A i \in DOMAIN txs[o] : txs[o][i] = "REFUNDED" => txs'[o][i] = "REFUNDED"
<1>0. PICK o, i : o = till[c].order /\ i = till[c].row
  OBVIOUS
<1>1. o \in Orders /\ i \in DOMAIN txs[o] /\ txs[o][i] = "unseen"
  BY <1>0 DEF PosInv, TillIsSound
<1>2. /\ txs' \in [Orders -> Seq(RowStatus)]
      /\ \A p \in Orders : DOMAIN txs'[p] = DOMAIN txs[p]
      /\ txs'[o][i] = s
      /\ \A p \in Orders : \A j \in DOMAIN txs[p] : <<p, j>> # <<o, i>> => txs'[p][j] = txs[p][j]
  BY <1>0, <1>1, RowChanges
<1>3. till'[c] = TillIdle /\ \A d \in Calls \ {c} : till'[d] = till[d]
  BY DEF PosInv
<1>4. till' \in [Calls -> TillType]
  BY DEF PosInv, TillType, TillIdle, TillSteps
<1>5. ASSUME NEW d \in Calls PROVE TillIsSound(till[d])'
  <2>1. CASE d = c
    BY <1>3, <2>1 DEF TillIsSound, TillIdle
  <2>2. CASE d # c
    <3>1. TillIsSound(till[d]) /\ till'[d] = till[d]
      BY <1>3, <2>2 DEF PosInv
    <3>2. till[d].at = "create" /\ till[d].row # 0 => <<till[d].order, till[d].row>> # <<o, i>>
      BY <1>0, <2>2 DEF PosInv, OwnRows
    <3>3. till[d].at \in {"refund", "refunded"} => <<till[d].order, till[d].row>> # <<o, i>>
      BY <1>1, <3>1 DEF TillIsSound
    <3> QED BY <1>2, <3>1, <3>2, <3>3 DEF TillIsSound
  <2> QED BY <2>1, <2>2
<1>6. OwnRows'
  BY <1>3 DEF PosInv, OwnRows, TillIdle
<1>7. \A p \in Orders : \A j \in DOMAIN txs[p] : txs[p][j] = "REFUNDED" => txs'[p][j] = "REFUNDED"
  BY <1>1, <1>2
<1>8. MoneyBackIsRefunded'
  BY <1>2, <1>7 DEF PosInv, MoneyBackIsRefunded
<1>9. CompletedIsUnique'
  <2>1. s = "COMPLETED" => \A j \in DOMAIN txs[o] : txs[o][j] # "COMPLETED"
    BY <1>0 DEF Completed, Visible
  <2>2. \A p \in Orders : \A j \in DOMAIN txs[p] :
          txs'[p][j] = "COMPLETED" => txs[p][j] = "COMPLETED" \/ (s = "COMPLETED" /\ p = o /\ j = i)
    BY <1>1, <1>2
  <2> QED BY <1>1, <1>2, <2>1, <2>2 DEF PosInv, CompletedIsUnique
<1> QED BY <1>2, <1>4, <1>5, <1>6, <1>7, <1>8, <1>9 DEF PosInv

\* What a step does to rows that are refunded, or whose money is handed back.
RefundsStay ==
  \A o \in Orders : \A i \in Visible(o) :
    txs[o][i] = "REFUNDED" \/ paid'[o][i] > 0 => txs'[o][i] = "REFUNDED"

\* A step that hands no money back and keeps refunded rows refunded.
LEMMA NoMoneyBack ==
  ASSUME PosInv, UNCHANGED paid,
         \A o \in Orders : \A i \in DOMAIN txs[o] : txs[o][i] = "REFUNDED" => txs'[o][i] = "REFUNDED"
  PROVE  RefundsStay
<1> SUFFICES ASSUME NEW o \in Orders, NEW i \in Visible(o), txs[o][i] = "REFUNDED" \/ paid[o][i] > 0
             PROVE  txs'[o][i] = "REFUNDED"
  BY DEF RefundsStay
<1>1. i \in DOMAIN txs[o] /\ i \in 1..MaxRows
  BY DEF Visible, PosInv
<1> QED BY <1>1 DEF PosInv, MoneyBackIsRefunded

\* A request k of c that starts on what it has read.
LEMMA RequestStarts ==
  ASSUME PosInv, NEW c \in Calls, NEW k \in TillType, till' = [till EXCEPT ![c] = k],
         UNCHANGED <<txs, paid>>, TillIsSound(k), k.at = "create" => k.row = 0
  PROVE  PosInv' /\ RefundsStay
<1>1. till' \in [Calls -> TillType] /\ (\A d \in Calls : TillIsSound(till[d])') /\ OwnRows'
  BY TillMoves
<1> QED BY <1>1, RowsStay, NoMoneyBack

\* A lookup that finds nothing starts a payment.
LEMMA RecordPaymentKeeps ==
  ASSUME PosInv, NEW c \in Calls, NEW o \in Orders, RecordPayment(c, o)
  PROVE  PosInv' /\ RefundsStay
<1>1. PICK k : k = [at |-> "create", order |-> o, row |-> 0]
  OBVIOUS
<1>2. k \in TillType /\ TillIsSound(k) /\ k.row = 0
  BY <1>1 DEF TillType, TillSteps, TillIsSound
<1> QED BY <1>1, <1>2, RequestStarts DEF RecordPayment

\* A refund starts on a row that is completed.
LEMMA RefundTransactionKeeps ==
  ASSUME PosInv, NEW c \in Calls, NEW o \in Orders, NEW i \in 1..MaxRows, RefundTransaction(c, o, i)
  PROVE  PosInv' /\ RefundsStay
<1>1. PICK k : k = [at |-> "refund", order |-> o, row |-> i]
  OBVIOUS
<1>2. k \in TillType
  BY <1>1 DEF TillType, TillSteps
<1>3. TillIsSound(k) /\ k.at # "create"
  BY <1>1 DEF RefundTransaction, Completed, Visible, TillIsSound
<1> QED BY <1>1, <1>2, <1>3, RequestStarts DEF RefundTransaction

\* An INSERT takes the next place in the order of created_at.
LEMMA CreatePaymentStartsKeeps ==
  ASSUME PosInv, NEW c \in Calls, CreatePaymentStarts(c)
  PROVE  PosInv' /\ RefundsStay
<1>0. PICK o, n : o = till[c].order /\ n = Len(txs[o]) + 1
  OBVIOUS
<1>1. /\ till[c].at = "create" /\ till[c].row = 0 /\ o \in Orders /\ n \in 1..MaxRows
      /\ txs' = [txs EXCEPT ![o] = Append(txs[o], "unseen")]
      /\ till' = [till EXCEPT ![c].row = n] /\ UNCHANGED paid
      /\ txs[o] \in Seq(RowStatus)
  BY <1>0 DEF CreatePaymentStarts, PosInv, TillIsSound
<1>2. /\ txs' \in [Orders -> Seq(RowStatus)]
      /\ DOMAIN txs[o] = 1..(n - 1) /\ DOMAIN txs'[o] = 1..n /\ txs'[o][n] = "unseen"
      /\ \A i \in DOMAIN txs[o] : txs'[o][i] = txs[o][i]
      /\ \A p \in Orders \ {o} : txs'[p] = txs[p]
  <2>1. Append(txs[o], "unseen") \in Seq(RowStatus)
    BY <1>1 DEF RowStatus
  <2> QED BY <1>0, <1>1, <2>1 DEF PosInv
<1>3. PICK k : k = [till[c] EXCEPT !.row = n]
  OBVIOUS
<1>4. till' = [till EXCEPT ![c] = k]
  BY <1>1, <1>3
<1>5. k \in TillType /\ k.at = "create" /\ k.order = o /\ k.row = n
  <2>1. till[c] \in TillType /\ n \in 0..MaxRows
    BY <1>1 DEF PosInv
  <2> QED BY <1>0, <1>1, <1>3, <2>1 DEF TillType
<1>6. till' \in [Calls -> TillType] /\ \A d \in Calls \ {c} : till'[d] = till[d]
  BY <1>4, <1>5 DEF PosInv
<1>7. till'[c].at = "create" /\ till'[c].order = o /\ till'[c].row = n
  BY <1>4, <1>5 DEF PosInv
<1>8. ASSUME NEW d \in Calls PROVE TillIsSound(till[d])'
  <2>1. CASE d = c
    BY <1>1, <1>2, <1>7, <2>1 DEF TillIsSound
  <2>2. CASE d # c
    <3>1. TillIsSound(till[d]) /\ till'[d] = till[d]
      BY <1>6, <2>2 DEF PosInv
    <3>2. \A p \in Orders : \A i \in DOMAIN txs[p] : i \in DOMAIN txs'[p] /\ txs'[p][i] = txs[p][i]
      BY <1>1, <1>2
    <3> QED BY <3>1, <3>2 DEF TillIsSound
  <2> QED BY <2>1, <2>2
<1>9. OwnRows'
  <2>1. \A d \in Calls \ {c} : till[d].at = "create" /\ till[d].row # 0 /\ till[d].order = o => till[d].row # n
    BY <1>2 DEF PosInv, TillIsSound
  <2> QED BY <1>1, <1>6, <1>7, <2>1 DEF PosInv, OwnRows
<1>10. MoneyBackIsRefunded' /\ CompletedIsUnique' /\ \A p \in Orders : DOMAIN txs'[p] \subseteq 1..MaxRows
  BY <1>1, <1>2 DEF PosInv, MoneyBackIsRefunded, CompletedIsUnique
<1>11. RefundsStay
  BY <1>1, <1>2, NoMoneyBack
<1> QED BY <1>1, <1>2, <1>6, <1>8, <1>9, <1>10, <1>11 DEF PosInv

\* The UPDATE of a refund, whatever happened to the row since it was read.
LEMMA MarkRefundedKeeps ==
  ASSUME PosInv, NEW c \in Calls, MarkRefunded(c)
  PROVE  PosInv' /\ RefundsStay
<1>0. PICK o, i : o = till[c].order /\ i = till[c].row
  OBVIOUS
<1>1. /\ o \in Orders /\ i \in DOMAIN txs[o] /\ i # 0 /\ txs[o][i] \in {"COMPLETED", "REFUNDED"}
      /\ txs' = [txs EXCEPT ![o][i] = "REFUNDED"]
      /\ till' = [till EXCEPT ![c].at = "refunded"] /\ UNCHANGED paid
  BY <1>0 DEF MarkRefunded, PosInv, TillIsSound
<1>2. /\ txs' \in [Orders -> Seq(RowStatus)]
      /\ \A p \in Orders : DOMAIN txs'[p] = DOMAIN txs[p]
      /\ txs'[o][i] = "REFUNDED"
      /\ \A p \in Orders : \A j \in DOMAIN txs[p] : <<p, j>> # <<o, i>> => txs'[p][j] = txs[p][j]
  BY <1>1, RowChanges DEF RowStatus
<1>3. /\ till' \in [Calls -> TillType]
      /\ till'[c].at = "refunded" /\ till'[c].order = o /\ till'[c].row = i
      /\ \A d \in Calls \ {c} : till'[d] = till[d]
  BY <1>0, <1>1 DEF PosInv, TillType, TillSteps
<1>4. ASSUME NEW d \in Calls PROVE TillIsSound(till[d])'
  <2>1. CASE d = c
    BY <1>1, <1>2, <1>3, <2>1 DEF TillIsSound
  <2>2. CASE d # c
    <3>1. TillIsSound(till[d]) /\ till'[d] = till[d]
      BY <1>3, <2>2 DEF PosInv
    <3>2. \A p \in Orders : \A j \in DOMAIN txs[p] :
            /\ txs[p][j] = "unseen" => txs'[p][j] = "unseen"
            /\ txs[p][j] \in {"COMPLETED", "REFUNDED"} => txs'[p][j] \in {"COMPLETED", "REFUNDED"}
            /\ txs[p][j] = "REFUNDED" => txs'[p][j] = "REFUNDED"
      BY <1>1, <1>2
    <3> QED BY <1>2, <3>1, <3>2 DEF TillIsSound
  <2> QED BY <2>1, <2>2
<1>5. OwnRows'
  BY <1>3 DEF PosInv, OwnRows
<1>6. MoneyBackIsRefunded' /\ CompletedIsUnique' /\ \A p \in Orders : DOMAIN txs'[p] \subseteq 1..MaxRows
  BY <1>1, <1>2 DEF PosInv, MoneyBackIsRefunded, CompletedIsUnique
<1>7. RefundsStay
  BY <1>1, <1>2, NoMoneyBack
<1> QED BY <1>1, <1>2, <1>3, <1>4, <1>5, <1>6, <1>7 DEF PosInv

\* The money is handed back for a row that is refunded by now.
LEMMA AnswerRefundKeeps ==
  ASSUME PosInv, NEW c \in Calls, AnswerRefund(c)
  PROVE  PosInv' /\ RefundsStay
<1>0. PICK o, i : o = till[c].order /\ i = till[c].row
  OBVIOUS
<1>1. /\ o \in Orders /\ i \in DOMAIN txs[o] /\ i \in 1..MaxRows /\ txs[o][i] = "REFUNDED"
      /\ paid' = [paid EXCEPT ![o][i] = @ + 1]
      /\ till' = [till EXCEPT ![c] = TillIdle] /\ UNCHANGED txs
  BY <1>0 DEF AnswerRefund, PosInv, TillIsSound
<1>2. TillIdle \in TillType /\ TillIsSound(TillIdle) /\ TillIdle.at = "idle"
  BY DEF TillType, TillSteps, TillIdle, TillIsSound
<1>3. till' \in [Calls -> TillType] /\ (\A d \in Calls : TillIsSound(till[d])') /\ OwnRows'
  BY <1>1, <1>2, TillMoves
<1>4. /\ paid' \in [Orders -> [1..MaxRows -> Nat]]
      /\ \A p \in Orders : \A j \in 1..MaxRows : paid'[p][j] = paid[p][j] \/ (p = o /\ j = i)
  BY <1>1 DEF PosInv
<1>5. MoneyBackIsRefunded' /\ CompletedIsUnique'
  BY <1>1, <1>4 DEF PosInv, MoneyBackIsRefunded, CompletedIsUnique
<1>6. RefundsStay
  <2> SUFFICES ASSUME NEW p \in Orders, NEW j \in Visible(p), txs[p][j] = "REFUNDED" \/ paid'[p][j] > 0
               PROVE  txs'[p][j] = "REFUNDED"
    BY DEF RefundsStay
  <2>1. j \in DOMAIN txs[p] /\ j \in 1..MaxRows
    BY DEF Visible, PosInv
  <2> QED BY <1>1, <1>4, <2>1 DEF PosInv, MoneyBackIsRefunded
<1> QED BY <1>1, <1>3, <1>4, <1>5, <1>6 DEF PosInv

\* A request that dies takes its INSERT with it.
LEMMA PosCrashKeeps ==
  ASSUME PosInv, NEW c \in Calls, PosCrash(c)
  PROVE  PosInv' /\ RefundsStay
<1>1. till' = [till EXCEPT ![c] = TillIdle] /\ UNCHANGED paid
  BY DEF PosCrash
<1>2. CASE till[c].at = "create" /\ till[c].row # 0
  BY <1>1, <1>2, InsertSettles, NoMoneyBack DEF PosCrash, RowStatus
<1>3. CASE ~(till[c].at = "create" /\ till[c].row # 0)
  <2>1. UNCHANGED txs
    BY <1>3 DEF PosCrash
  <2>2. TillIdle \in TillType /\ TillIsSound(TillIdle) /\ TillIdle.at = "idle"
    BY DEF TillType, TillSteps, TillIdle, TillIsSound
  <2>3. till' \in [Calls -> TillType] /\ (\A d \in Calls : TillIsSound(till[d])') /\ OwnRows'
    BY <1>1, <2>1, <2>2, TillMoves
  <2> QED BY <1>1, <2>1, <2>3, RowsStay, NoMoneyBack
<1> QED BY <1>2, <1>3

\* Every step keeps the invariant, and every refunded row.
LEMMA PosInvNext == PosInv /\ [PosNext]_posVars => PosInv' /\ RefundsStay
<1> SUFFICES ASSUME PosInv, [PosNext]_posVars PROVE PosInv' /\ RefundsStay
  OBVIOUS
<1>1. CASE UNCHANGED posVars
  <2>1. UNCHANGED <<txs, till, paid>>
    BY <1>1 DEF posVars
  <2>2. PosInv'
    BY <2>1 DEF PosInv, TillIsSound, OwnRows, MoneyBackIsRefunded, CompletedIsUnique
  <2> QED BY <2>1, <2>2, NoMoneyBack
<1>2. ASSUME NEW c \in Calls, NEW o \in Orders, RecordPayment(c, o) PROVE PosInv' /\ RefundsStay
  BY <1>2, RecordPaymentKeeps
<1>8. ASSUME NEW c \in Calls, NEW o \in Orders, NEW i \in 1..MaxRows, RefundTransaction(c, o, i)
      PROVE  PosInv' /\ RefundsStay
  BY <1>8, RefundTransactionKeeps
<1>3. ASSUME NEW c \in Calls, CreatePaymentStarts(c) PROVE PosInv' /\ RefundsStay
  BY <1>3, CreatePaymentStartsKeeps
<1>4. ASSUME NEW c \in Calls, CreatePayment(c) PROVE PosInv' /\ RefundsStay
  <2>1. PICK s : s = IF Completed(till[c].order) = {} THEN "COMPLETED" ELSE "refused"
    OBVIOUS
  <2>2. /\ s \in RowStatus /\ (s = "COMPLETED" => Completed(till[c].order) = {})
        /\ till[c].at = "create" /\ till[c].row # 0
        /\ txs' = [txs EXCEPT ![till[c].order][till[c].row] = s]
        /\ till' = [till EXCEPT ![c] = TillIdle] /\ UNCHANGED paid
    BY <1>4, <2>1 DEF CreatePayment, CreatePaymentIf, RowStatus
  <2> QED BY <2>2, InsertSettles, NoMoneyBack
<1>5. ASSUME NEW c \in Calls, MarkRefunded(c) PROVE PosInv' /\ RefundsStay
  BY <1>5, MarkRefundedKeeps
<1>6. ASSUME NEW c \in Calls, AnswerRefund(c) PROVE PosInv' /\ RefundsStay
  BY <1>6, AnswerRefundKeeps
<1>7. ASSUME NEW c \in Calls, PosCrash(c) PROVE PosInv' /\ RefundsStay
  BY <1>7, PosCrashKeeps
<1> QED BY <1>1, <1>2, <1>3, <1>4, <1>5, <1>6, <1>7, <1>8 DEF PosNext, posVars, ReturnExisting

\* The invariant of the point of sale holds in every reachable state.
LEMMA PosInvariance == PosSpec => []PosInv
BY PosInvInit, PosInvNext, PTL DEF PosSpec

\* The unique index, counted.
LEMMA CompletedIsOne == PosInv => OneCompletedPerOrder
<1> SUFFICES ASSUME PosInv, NEW o \in Orders PROVE Cardinality(Completed(o)) <= 1
  BY DEF OneCompletedPerOrder
<1>1. CASE Completed(o) = {}
  BY <1>1, FS_EmptySet
<1>2. CASE Completed(o) # {}
  <2>1. PICK i \in Completed(o) : TRUE
    BY <1>2
  <2>2. Completed(o) = {i}
    BY <2>1 DEF Completed, Visible, PosInv, CompletedIsUnique
  <2> QED BY <2>2, FS_Singleton
<1> QED BY <1>1, <1>2

\* The shape of the rows is part of their invariant.
LEMMA RowsAreTyped == PosInv => PosTypeOK
BY DEF PosInv, PosTypeOK, TillType, TillIsSound, TillIdle, Visible

\* The rows of pos_transactions and their requests keep their shape, one COMPLETED row an order.
THEOREM TillIsTyped == PosSpec => []PosTypeOK
BY RowsAreTyped, PosInvariance, PTL

\* An order is paid once, money is handed back once a payment at most, and a refunded row
\* stays refunded (internal/modules/pos), whatever two refunds read before they wrote.
THEOREM RefundsAreForGood == PosSpec => PaidOnceRefundedForGood
<1>1. PosInv /\ PosInv' /\ [PosNext]_posVars
        => [/\ OneCompletedPerOrder'
            /\ \A o \in Orders : \A i \in Visible(o) :
                 txs[o][i] = "REFUNDED" \/ paid'[o][i] > 0 => txs'[o][i] = "REFUNDED"]_posVars
  <2> SUFFICES ASSUME PosInv, PosInv', [PosNext]_posVars
               PROVE  OneCompletedPerOrder' /\ RefundsStay
    BY DEF RefundsStay
  <2>1. OneCompletedPerOrder'
    BY CompletedIsOne, PTL
  <2> QED BY <2>1, PosInvNext
<1> QED BY <1>1, PosInvariance, PTL DEF PosSpec, PaidOnceRefundedForGood

-----------------------------------------------------------------------------
(* Production jobs. *)

HIDE PointOfSaleAssumption
USE QueueAssumption

JobCallType == [at : {"idle", "status"}, job : Jobs \cup {None}, to : JobStatus \cup {"NONE"}]

\* A request that is about to put a job on hold, or to complete it, has read a job
\* that was started.
JobCallIsSound(k) ==
  k.at = "status" => /\ k.job \in Jobs /\ k.to \in JobStatus
                     /\ k.to \in {"ON_HOLD", "COMPLETED"} => job[k.job].started

JobInv == JobTypeOK /\ \A c \in Calls : JobCallIsSound(jobCall[c])

\* At first there is no job.
LEMMA JobInvInit == JobInit => JobInv
BY DEF JobInit, JobInv, JobTypeOK, JobIdle, JobCallIsSound, JobStatus

\* Only one request moves.
LEMMA JobCallMoves ==
  ASSUME JobInv, UNCHANGED job, NEW c \in Calls, NEW k \in JobCallType,
         jobCall' = [jobCall EXCEPT ![c] = k], JobCallIsSound(k)
  PROVE  JobInv'
<1>1. jobCall'[c] = k /\ \A d \in Calls \ {c} : jobCall'[d] = jobCall[d]
  BY DEF JobInv, JobTypeOK
<1>2. JobTypeOK'
  BY DEF JobInv, JobTypeOK, JobCallType
<1>3. ASSUME NEW d \in Calls PROVE JobCallIsSound(jobCall[d])'
  BY <1>1 DEF JobInv, JobCallIsSound
<1> QED BY <1>2, <1>3 DEF JobInv

\* One job changes, and stays started if it was; request c may end with it.
LEMMA JobMoves ==
  ASSUME JobInv, NEW j \in Jobs,
         NEW k \in [status : JobStatus, started : BOOLEAN, completed : BOOLEAN, assignee : Staff \cup {None}],
         job' = [job EXCEPT ![j] = k], job[j].started => k.started,
         k.status \in {"IN_PROGRESS", "ON_HOLD", "COMPLETED"} => k.started,
         k.completed => k.started, k.status = "COMPLETED" => k.completed,
         UNCHANGED jobCall \/ \E c \in Calls : jobCall' = [jobCall EXCEPT ![c] = JobIdle]
  PROVE  JobInv'
<1>1. job'[j] = k /\ \A i \in Jobs \ {j} : job'[i] = job[i]
  BY DEF JobInv, JobTypeOK
<1>2. /\ jobCall' \in [Calls -> JobCallType]
      /\ \A d \in Calls : jobCall'[d] = jobCall[d] \/ jobCall'[d] = JobIdle
  <2>1. JobIdle \in JobCallType
    BY DEF JobIdle, JobCallType
  <2> QED BY <2>1 DEF JobInv, JobTypeOK, JobCallType
<1>3. job' \in [Jobs -> [status : JobStatus \cup {"NONE"}, started : BOOLEAN, completed : BOOLEAN,
                         assignee : Staff \cup {None}]]
  BY DEF JobInv, JobTypeOK
<1>4. JobTypeOK'
  BY <1>1, <1>2, <1>3 DEF JobInv, JobTypeOK, JobCallType
<1>5. \A i \in Jobs : job[i].started => job'[i].started
  BY <1>1
<1>6. ASSUME NEW d \in Calls PROVE JobCallIsSound(jobCall[d])'
  BY <1>2, <1>5 DEF JobInv, JobCallIsSound, JobIdle
<1> QED BY <1>4, <1>6 DEF JobInv

\* Every step keeps the invariant.
LEMMA JobInvNext == JobInv /\ [JobNext]_jobVars => JobInv'
<1> SUFFICES ASSUME JobInv, [JobNext]_jobVars PROVE JobInv'
  OBVIOUS
<1> DEFINE JobType == [status : JobStatus, started : BOOLEAN, completed : BOOLEAN, assignee : Staff \cup {None}]
<1>1. CASE UNCHANGED jobVars
  BY <1>1 DEF jobVars, JobInv, JobTypeOK, JobCallIsSound
<1>2. ASSUME NEW j \in Jobs, NEW s \in Staff \cup {None}, CreateJob(j, s) PROVE JobInv'
  <2>1. PICK k : k = [job[j] EXCEPT !.status = "QUEUED", !.assignee = s]
    OBVIOUS
  <2>2. k \in JobType /\ k.status = "QUEUED" /\ k.started = job[j].started /\ k.completed = job[j].completed
    BY <2>1 DEF JobInv, JobTypeOK, JobStatus
  <2>3. k.completed => k.started
    BY <2>2 DEF JobInv, JobTypeOK
  <2>4. job' = [job EXCEPT ![j] = k] /\ UNCHANGED jobCall
    BY <1>2, <2>1 DEF CreateJob
  <2> QED BY <2>2, <2>3, <2>4, JobMoves
<1>3. ASSUME NEW j \in Jobs, NEW s \in Staff, AssignJob(j, s) PROVE JobInv'
  <2>1. PICK k : k = [job[j] EXCEPT !.assignee = s]
    OBVIOUS
  <2>2. /\ k \in JobType /\ k.status = job[j].status
        /\ k.started = job[j].started /\ k.completed = job[j].completed
    BY <1>3, <2>1 DEF AssignJob, JobInv, JobTypeOK
  <2>3. job' = [job EXCEPT ![j] = k] /\ UNCHANGED jobCall
    BY <1>3, <2>1 DEF AssignJob
  <2>4. /\ k.status \in {"IN_PROGRESS", "ON_HOLD", "COMPLETED"} => k.started
        /\ k.completed => k.started
        /\ k.status = "COMPLETED" => k.completed
    BY <2>2 DEF JobInv, JobTypeOK
  <2> QED BY <2>2, <2>3, <2>4, JobMoves
<1>4. ASSUME NEW c \in Calls, NEW j \in Jobs, NEW t \in JobStatus \cup {"OTHER"}, UpdateJobStatus(c, j, t)
      PROVE  JobInv'
  <2>1. PICK k : k = [at |-> "status", job |-> j, to |-> t]
    OBVIOUS
  <2>2. t \in JobStatus
    BY <1>4 DEF UpdateJobStatus, CanTransition, jobTransitions, JobStatus
  <2>3. k \in JobCallType
    BY <2>1, <2>2 DEF JobCallType
  <2>4. t \in {"ON_HOLD", "COMPLETED"} => job[j].status = "IN_PROGRESS"
    BY <1>4 DEF UpdateJobStatus, CanTransition, jobTransitions, JobStatus
  <2>5. JobCallIsSound(k)
    BY <2>1, <2>2, <2>4 DEF JobCallIsSound, JobInv, JobTypeOK
  <2> QED BY <1>4, <2>1, <2>3, <2>5, JobCallMoves DEF UpdateJobStatus
<1>5. ASSUME NEW c \in Calls, WriteJobStatus(c) PROVE JobInv'
  <2>1. PICK j, t : j = jobCall[c].job /\ t = jobCall[c].to
    OBVIOUS
  <2>2. j \in Jobs /\ t \in JobStatus /\ (t \in {"ON_HOLD", "COMPLETED"} => job[j].started)
    BY <1>5, <2>1 DEF WriteJobStatus, JobInv, JobCallIsSound
  <2>3. PICK k : k = [job[j] EXCEPT !.status = t, !.started = @ \/ t = "IN_PROGRESS", !.completed = @ \/ t = "COMPLETED"]
    OBVIOUS
  <2>4. /\ k \in JobType /\ k.status = t /\ k.started = (job[j].started \/ t = "IN_PROGRESS")
        /\ k.completed = (job[j].completed \/ t = "COMPLETED")
    BY <2>2, <2>3 DEF JobInv, JobTypeOK
  <2>5. /\ job' = [job EXCEPT ![j] = k] 
        /\ jobCall' = [jobCall EXCEPT ![c] = JobIdle]
    BY <1>5, <2>1, <2>2, <2>3 DEF WriteJobStatus, JobInv, JobTypeOK
  <2>6. job[j].completed => job[j].started
    BY <2>2 DEF JobInv, JobTypeOK
  <2>7. /\ job[j].started => k.started
        /\ k.status \in {"IN_PROGRESS", "ON_HOLD", "COMPLETED"} => k.started
        /\ k.completed => k.started
        /\ k.status = "COMPLETED" => k.completed
    BY <2>2, <2>4, <2>6
  <2> QED BY <2>2, <2>4, <2>5, <2>7, JobMoves
<1>6. ASSUME NEW c \in Calls, JobCrash(c) PROVE JobInv'
  <2>1. JobIdle \in JobCallType /\ JobCallIsSound(JobIdle)
    BY DEF JobIdle, JobCallType, JobCallIsSound
  <2> QED BY <1>6, <2>1, JobCallMoves DEF JobCrash
<1> QED BY <1>1, <1>2, <1>3, <1>4, <1>5, <1>6 DEF JobNext

\* The invariant of the production queue holds in every reachable state.
LEMMA JobInvariance == JobSpec => []JobInv
BY JobInvInit, JobInvNext, PTL DEF JobSpec

\* A job keeps its shape, and none is finished that was never started (internal/modules/production).
THEOREM JobsAreStartedFirst == JobSpec => []JobTypeOK
<1>1. JobInv => JobTypeOK
  BY DEF JobInv
<1> QED BY <1>1, JobInvariance, PTL

-----------------------------------------------------------------------------
(* Accounts. *)

HIDE QueueAssumption
USE AccountsAssumption, TicketAssumption

RequestType ==
  [at : {"idle", "identity", "email", "create", "known", "found", "link", "answer", "signup", "login",
         "consume", "count", "status"},
   email : Emails \cup {None}, role : Roles, seen : Roles, on : BOOLEAN, sub : Subs \cup {None},
   mode : Modes, ticket : Tickets \cup {None}]

\* The role a request has read is the one of the account, or was before it became a vendor.
Names(r) ==
  /\ Known(r.email)
  /\ user[r.email].role = r.seen \/ (r.seen = "CUSTOMER" /\ user[r.email].role = "VENDOR")

\* What a request knows between its statements.
RequestIsSound(r) ==
  /\ r.at # "idle" => r.email \in Emails
  /\ r.at \in {"identity", "email", "create", "found", "link"} => r.sub \in Subs
  /\ r.at \in {"identity", "email", "create", "signup"} => r.role \in Public
  /\ r.at \in {"login", "signup", "consume"} => r.ticket \in Tickets
  /\ r.at \in {"known", "found", "link", "answer", "consume"} => Names(r)
  /\ r.at \in {"login", "count", "status"} => Known(r.email)

\* A login code was sent to an account.
TicketIsSound(x) == x \in Challenge /\ x.purpose = "login" => Known(x.email)

AccountsInv ==
  /\ AccountsTypeOK
  /\ request \in [Calls -> RequestType]
  /\ ticket \in [Tickets -> {None, Used} \cup Intent \cup Challenge]
  /\ \A t \in Tickets : TicketIsSound(ticket[t])
  /\ \A c \in Calls : RequestIsSound(request[c])

\* At first there are the seeded administrators.
LEMMA AccountsInvInit == AccountsInit => AccountsInv
<1> SUFFICES ASSUME AccountsInit PROVE AccountsInv
  OBVIOUS
<1>1. AccountsTypeOK
  BY DEF AccountsInit, AccountsTypeOK, Roles, Public
<1>2. request \in [Calls -> RequestType] /\ ticket \in [Tickets -> {None, Used} \cup Intent \cup Challenge]
  BY DEF AccountsInit, NoRequest, RequestType, Roles, Modes
<1>3. \A t \in Tickets : TicketIsSound(ticket[t])
  BY DEF AccountsInit, TicketIsSound
<1>4. \A c \in Calls : RequestIsSound(request[c])
  BY DEF AccountsInit, RequestIsSound, NoRequest
<1> QED BY <1>1, <1>2, <1>3, <1>4 DEF AccountsInv

\* What a step may do to the accounts: customers become vendors, and new ones are made.
UsersAreStable ==
  /\ user' \in [Emails -> [role : Roles, active : BOOLEAN]]
  /\ \A e \in Emails : Known(e) => \/ user'[e].role = user[e].role
                                   \/ user[e].role = "CUSTOMER" /\ user'[e].role = "VENDOR"

\* No account is touched.
LEMMA UsersStay ==
  ASSUME AccountsInv, UNCHANGED user
  PROVE  UsersAreStable
BY DEF AccountsInv, AccountsTypeOK, UsersAreStable

\* An account is made.
LEMMA InsertIsStable ==
  ASSUME AccountsInv, NEW e \in Emails, NEW role \in Roles \ {"NONE"}, ~Known(e), Insert(e, role)
  PROVE  UsersAreStable /\ user'[e].role = role
BY DEF AccountsInv, AccountsTypeOK, UsersAreStable, Insert, Known

\* What is known of an account stays known.
LEMMA KnownStays ==
  ASSUME AccountsInv, UsersAreStable, NEW e \in Emails, Known(e)
  PROVE  Known(e)'
BY DEF UsersAreStable, Known

\* What a request knows stays so.
LEMMA RequestStaysSound ==
  ASSUME AccountsInv, UsersAreStable, NEW r \in RequestType, RequestIsSound(r)
  PROVE  RequestIsSound(r)'
<1>1. r.at # "idle" /\ Known(r.email) => Known(r.email)'
  BY KnownStays DEF RequestIsSound
<1>2. r.at # "idle" /\ Names(r) => Names(r)'
  BY <1>1 DEF RequestIsSound, Names, UsersAreStable
<1> QED BY <1>1, <1>2 DEF RequestIsSound

\* What a code stands for stays so.
LEMMA TicketStaysSound ==
  ASSUME AccountsInv, UsersAreStable, NEW x, TicketIsSound(x)
  PROVE  TicketIsSound(x)'
<1>1. x \in Challenge => x.email \in Emails
  BY DEF Challenge
<1> QED BY <1>1, KnownStays DEF TicketIsSound

\* Only one request moves, with what it does to the accounts.
LEMMA RequestMoves ==
  ASSUME AccountsInv, UsersAreStable, NEW c \in Calls, NEW r \in RequestType, Becomes(c, r),
         RequestIsSound(r)'
  PROVE  request' \in [Calls -> RequestType] /\ \A d \in Calls : RequestIsSound(request[d])'
<1>1. request'[c] = r /\ \A d \in Calls \ {c} : request'[d] = request[d]
  BY DEF Becomes, AccountsInv
<1>2. request' \in [Calls -> RequestType]
  BY DEF Becomes, AccountsInv
<1>3. ASSUME NEW d \in Calls PROVE RequestIsSound(request[d])'
  <2>1. CASE d = c
    BY <1>1, <2>1 DEF RequestIsSound, Names, Known
  <2>2. CASE d # c
    <3>1. request[d] \in RequestType /\ RequestIsSound(request[d])
      BY DEF AccountsInv
    <3>2. PICK s : s = request[d]
      OBVIOUS
    <3>3. RequestIsSound(s)'
      BY <3>1, <3>2, RequestStaysSound
    <3>4. request'[d] = s
      BY <1>1, <2>2, <3>2
    <3> QED BY <3>3, <3>4 DEF RequestIsSound, Names, Known
  <2> QED BY <2>1, <2>2
<1> QED BY <1>2, <1>3

\* The requests stay as they are.
LEMMA RequestsStay ==
  ASSUME AccountsInv, UsersAreStable, UNCHANGED request
  PROVE  request' \in [Calls -> RequestType] /\ \A d \in Calls : RequestIsSound(request[d])'
<1>1. ASSUME NEW d \in Calls PROVE RequestIsSound(request[d])'
  <2>1. request[d] \in RequestType /\ RequestIsSound(request[d])
    BY DEF AccountsInv
  <2>2. PICK s : s = request[d]
    OBVIOUS
  <2>3. RequestIsSound(s)'
    BY <2>1, <2>2, RequestStaysSound
  <2>4. request'[d] = s
    BY <2>2
  <2> QED BY <2>3, <2>4 DEF RequestIsSound, Names, Known
<1> QED BY <1>1 DEF AccountsInv

\* Of the codes at most one changes, to x.
LEMMA TicketsMove ==
  ASSUME AccountsInv, UsersAreStable, NEW x \in {None, Used} \cup Intent \cup Challenge, TicketIsSound(x),
         UNCHANGED ticket \/ \E t \in Tickets : ticket' = [ticket EXCEPT ![t] = x]
  PROVE  /\ ticket' \in [Tickets -> {None, Used} \cup Intent \cup Challenge]
         /\ \A t \in Tickets : TicketIsSound(ticket[t])'
<1>1. ticket' \in [Tickets -> {None, Used} \cup Intent \cup Challenge]
  BY DEF AccountsInv
<1>2. ASSUME NEW t \in Tickets PROVE TicketIsSound(ticket[t])'
  <2>1. ticket'[t] = ticket[t] \/ ticket'[t] = x
    BY DEF AccountsInv
  <2>2. PICK y : y = ticket'[t]
    OBVIOUS
  <2>3. TicketIsSound(y)
    BY <2>1, <2>2 DEF AccountsInv
  <2>4. TicketIsSound(y)'
    BY <2>3, TicketStaysSound
  <2> QED BY <2>2, <2>4 DEF TicketIsSound, Known
<1> QED BY <1>1, <1>2

\* The identities: those that are linked stay linked, to accounts that exist.
LinksAreStable ==
  /\ identity' \in [Subs -> {e \in Emails : Known(e)'} \cup {None}]
  /\ \A g \in Subs : identity[g] # None => identity'[g] = identity[g]

\* No identity is linked.
LEMMA LinksStay ==
  ASSUME AccountsInv, UsersAreStable, UNCHANGED identity
  PROVE  LinksAreStable
<1>1. \A e \in Emails : Known(e) => Known(e)'
  BY KnownStays
<1> QED BY <1>1 DEF AccountsInv, AccountsTypeOK, LinksAreStable

\* The parts of a step put together.
LEMMA AccountsMove ==
  ASSUME AccountsInv, UsersAreStable, LinksAreStable, gmail' \in [Subs -> Emails],
         request' \in [Calls -> RequestType], \A d \in Calls : RequestIsSound(request[d])',
         ticket' \in [Tickets -> {None, Used} \cup Intent \cup Challenge],
         \A t \in Tickets : TicketIsSound(ticket[t])'
  PROVE  AccountsInv'
<1>1. AccountsTypeOK'
  BY DEF AccountsTypeOK, UsersAreStable, LinksAreStable, Known
<1> QED BY <1>1 DEF AccountsInv

\* A step that only moves request c, and perhaps consumes a ticket.
LEMMA OnlyRequestMoves ==
  ASSUME AccountsInv, NEW c \in Calls, NEW r \in RequestType, Becomes(c, r), RequestIsSound(r),
         UNCHANGED <<user, identity, gmail>>,
         UNCHANGED ticket \/ \E t \in Tickets : ticket' = [ticket EXCEPT ![t] = Used]
  PROVE  AccountsInv' /\ UsersAreStable /\ LinksAreStable
<1>1. UsersAreStable
  BY UsersStay
<1>2. LinksAreStable
  BY <1>1, LinksStay
<1>3. RequestIsSound(r)'
  BY <1>1, RequestStaysSound
<1>4. request' \in [Calls -> RequestType] /\ \A d \in Calls : RequestIsSound(request[d])'
  BY <1>1, <1>3, RequestMoves
<1>5. TicketIsSound(Used)
  BY DEF TicketIsSound
<1>6. /\ ticket' \in [Tickets -> {None, Used} \cup Intent \cup Challenge]
      /\ \A t \in Tickets : TicketIsSound(ticket[t])'
  BY <1>1, <1>5, TicketsMove
<1>7. gmail' \in [Subs -> Emails]
  BY DEF AccountsInv, AccountsTypeOK
<1> QED BY <1>1, <1>2, <1>4, <1>6, <1>7, AccountsMove

\* A step that moves request c and touches an account.
LEMMA RequestMovesAccount ==
  ASSUME AccountsInv, UsersAreStable, NEW c \in Calls, NEW r \in RequestType, Becomes(c, r),
         RequestIsSound(r)', UNCHANGED <<identity, gmail, ticket>>
  PROVE  AccountsInv' /\ UsersAreStable /\ LinksAreStable
<1>2. LinksAreStable
  BY LinksStay
<1>4. request' \in [Calls -> RequestType] /\ \A d \in Calls : RequestIsSound(request[d])'
  BY RequestMoves
<1>5. TicketIsSound(Used)
  BY DEF TicketIsSound
<1>6. /\ ticket' \in [Tickets -> {None, Used} \cup Intent \cup Challenge]
      /\ \A t \in Tickets : TicketIsSound(ticket[t])'
  BY <1>5, TicketsMove
<1>7. gmail' \in [Subs -> Emails]
  BY DEF AccountsInv, AccountsTypeOK
<1> QED BY <1>2, <1>4, <1>6, <1>7, AccountsMove

\* A step of one statement, which moves no request.
LEMMA NoRequestMoves ==
  ASSUME AccountsInv, UsersAreStable, gmail' \in [Subs -> Emails], UNCHANGED <<identity, request>>,
         NEW x \in {None, Used} \cup Intent \cup Challenge, TicketIsSound(x),
         UNCHANGED ticket \/ \E t \in Tickets : ticket' = [ticket EXCEPT ![t] = x]
  PROVE  AccountsInv' /\ UsersAreStable /\ LinksAreStable
<1>1. LinksAreStable
  BY LinksStay
<1>2. request' \in [Calls -> RequestType] /\ \A d \in Calls : RequestIsSound(request[d])'
  BY RequestsStay
<1>3. /\ ticket' \in [Tickets -> {None, Used} \cup Intent \cup Challenge]
      /\ \A t \in Tickets : TicketIsSound(ticket[t])'
  BY TicketsMove
<1> QED BY <1>1, <1>2, <1>3, AccountsMove

\* A request may end at any time.
LEMMA NoRequestIsSound == NoRequest \in RequestType /\ RequestIsSound(NoRequest) /\ NoRequest.at = "idle"
BY DEF NoRequest, RequestType, RequestIsSound, Roles, Modes

\* Registration, one's own or by an administrator.
LEMMA RegistrationKeeps ==
  ASSUME AccountsInv, NEW e \in Emails, NEW role \in Roles \ {"NONE"}, ~Known(e), Insert(e, role),
         UNCHANGED <<identity, gmail, ticket, request>>
  PROVE  AccountsInv' /\ UsersAreStable /\ LinksAreStable
<1>1. UsersAreStable
  BY InsertIsStable
<1>2. gmail' \in [Subs -> Emails] /\ TicketIsSound(Used)
  BY DEF AccountsInv, AccountsTypeOK, TicketIsSound
<1> QED BY <1>1, <1>2, NoRequestMoves

\* An OAuth state is no code.
LEMMA GoogleAuthURLKeeps ==
  ASSUME AccountsInv, NEW t \in Tickets, NEW intent \in Intent, GoogleAuthURL(t, intent)
  PROVE  AccountsInv' /\ UsersAreStable /\ LinksAreStable
<1>1. UsersAreStable
  BY UsersStay DEF GoogleAuthURL
<1>2. gmail' \in [Subs -> Emails] /\ UNCHANGED <<identity, request>>
  BY DEF GoogleAuthURL, AccountsInv, AccountsTypeOK
<1>3. DOMAIN intent = {"role", "mode"} /\ \A x \in Challenge : DOMAIN x = {"purpose", "email", "role"}
  BY DEF Intent, Challenge
<1>4. "purpose" \in {"purpose", "email", "role"} /\ "purpose" \notin {"role", "mode"}
  OBVIOUS
<1>5. TicketIsSound(intent)
  BY <1>3, <1>4 DEF TicketIsSound
<1> QED BY <1>1, <1>2, <1>5, NoRequestMoves DEF GoogleAuthURL

\* A login code goes to an account.
LEMMA RequestOTPKeeps ==
  ASSUME AccountsInv, NEW t \in Tickets, NEW asked \in Challenge, RequestOTP(t, asked)
  PROVE  AccountsInv' /\ UsersAreStable /\ LinksAreStable
<1>1. UsersAreStable
  BY UsersStay DEF RequestOTP
<1>2. gmail' \in [Subs -> Emails] /\ UNCHANGED <<identity, request>>
  BY DEF RequestOTP, AccountsInv, AccountsTypeOK
<1>3. TicketIsSound(asked)
  BY DEF TicketIsSound, RequestOTP
<1> QED BY <1>1, <1>2, <1>3, NoRequestMoves DEF RequestOTP

\* The callback takes over what the OAuth state asked for.
LEMMA HandleGoogleCallbackKeeps ==
  ASSUME AccountsInv, NEW c \in Calls, NEW t \in Tickets, NEW g \in Subs, HandleGoogleCallback(c, t, g)
  PROVE  AccountsInv' /\ UsersAreStable /\ LinksAreStable
<1>1. PICK r : r = [NoRequest EXCEPT !.at = "identity", !.sub = g, !.email = gmail[g],
                                     !.role = ticket[t].role, !.mode = ticket[t].mode]
  OBVIOUS
<1>2. ticket[t].role \in Public /\ ticket[t].mode \in Modes /\ gmail[g] \in Emails
  BY DEF HandleGoogleCallback, Intent, AccountsInv, AccountsTypeOK
<1>3. r \in RequestType /\ r.at = "identity" /\ r.sub = g /\ r.email = gmail[g] /\ r.role \in Public
  BY <1>1, <1>2 DEF NoRequest, RequestType, Roles
<1>4. RequestIsSound(r)
  BY <1>2, <1>3 DEF RequestIsSound
<1> QED BY <1>1, <1>3, <1>4, OnlyRequestMoves DEF HandleGoogleCallback

\* A read of the account e, which exists, by request r that goes on at a step.
LEMMA ReadIsSound ==
  ASSUME AccountsInv, NEW r \in RequestType, NEW e \in Emails, Known(e),
         NEW at \in {"known", "found", "consume"}, 
         at # "consume" => r.sub \in Subs, at = "consume" => r.ticket \in Tickets
  PROVE  Read(r, e, at) \in RequestType /\ RequestIsSound(Read(r, e, at))
<1>1. PICK k : k = Read(r, e, at)
  OBVIOUS
<1>2. user[e].role \in Roles /\ user[e].active \in BOOLEAN
  BY DEF AccountsInv, AccountsTypeOK
<1>3. k \in RequestType
  BY <1>1, <1>2 DEF Read, RequestType
<1>4. /\ k.at = at /\ k.email = e /\ k.seen = user[e].role /\ k.sub = r.sub /\ k.role = r.role
      /\ k.ticket = r.ticket
  BY <1>1 DEF Read, RequestType
<1>5. RequestIsSound(k)
  BY <1>2, <1>4 DEF RequestIsSound, Names
<1> QED BY <1>1, <1>3, <1>5

\* A request goes on at a step, with all it knows.
LEMMA StepIsSound ==
  ASSUME AccountsInv, NEW r \in RequestType, RequestIsSound(r),
         NEW at \in {"email", "create", "answer", "status"},
         at = "email" => r.at = "identity", at = "create" => r.at = "email",
         at = "answer" => r.at = "link", at = "status" => r.at = "count"
  PROVE  [r EXCEPT !.at = at] \in RequestType /\ RequestIsSound([r EXCEPT !.at = at])
<1>1. PICK k : k = [r EXCEPT !.at = at]
  OBVIOUS
<1>2. k \in RequestType
  BY <1>1 DEF RequestType
<1>3. /\ k.at = at /\ k.email = r.email /\ k.seen = r.seen /\ k.sub = r.sub /\ k.role = r.role
      /\ k.ticket = r.ticket
  BY <1>1 DEF RequestType
<1>4. RequestIsSound(k)
  BY <1>3 DEF RequestIsSound, Names
<1> QED BY <1>1, <1>2, <1>4

\* The account a Google identity is linked to is the one its request goes on with.
LEMMA GetUserByIdentityKeeps ==
  ASSUME AccountsInv, NEW c \in Calls, GetUserByIdentity(c)
  PROVE  AccountsInv' /\ UsersAreStable /\ LinksAreStable
<1>0. /\ request[c] \in RequestType /\ RequestIsSound(request[c]) /\ request[c].at = "identity"
      /\ request[c].sub \in Subs /\ UNCHANGED <<user, identity, gmail, ticket>>
  BY DEF GetUserByIdentity, At, AccountsInv, RequestIsSound
<1>1. PICK e : e = identity[request[c].sub]
  OBVIOUS
<1>2. CASE e # None
  <2>1. e \in Emails /\ Known(e)
    BY <1>0, <1>1, <1>2 DEF AccountsInv, AccountsTypeOK
  <2>2. Read(request[c], e, "known") \in RequestType /\ RequestIsSound(Read(request[c], e, "known"))
    BY <1>0, <2>1, ReadIsSound
  <2>3. Becomes(c, Read(request[c], e, "known"))
    BY <1>1, <1>2 DEF GetUserByIdentity
  <2> QED BY <1>0, <2>2, <2>3, OnlyRequestMoves
<1>3. CASE e = None
  <2>1. [request[c] EXCEPT !.at = "email"] \in RequestType /\ RequestIsSound([request[c] EXCEPT !.at = "email"])
    BY <1>0, StepIsSound
  <2>2. Becomes(c, [request[c] EXCEPT !.at = "email"])
    BY <1>1, <1>3 DEF GetUserByIdentity
  <2> QED BY <1>0, <2>1, <2>2, OnlyRequestMoves
<1> QED BY <1>2, <1>3

\* So is the account of the address, when the identity is linked to none.
LEMMA GetUserByEmailKeeps ==
  ASSUME AccountsInv, NEW c \in Calls, GetUserByEmail(c)
  PROVE  AccountsInv' /\ UsersAreStable /\ LinksAreStable
<1>0. PICK r, e : r = request[c] /\ e = request[c].email
  OBVIOUS
<1>1. /\ r \in RequestType /\ RequestIsSound(r) /\ r.at = "email" /\ r.sub \in Subs /\ e \in Emails
      /\ UNCHANGED <<user, identity, gmail, ticket>>
      /\ Becomes(c, CASE Known(e) -> Read(r, e, "found")
                      [] ~Known(e) /\ r.mode = "signup" -> [r EXCEPT !.at = "create"]
                      [] OTHER -> NoRequest)
  BY <1>0 DEF GetUserByEmail, At, AccountsInv, RequestIsSound
<1>2. CASE Known(e)
  <2>1. Read(r, e, "found") \in RequestType /\ RequestIsSound(Read(r, e, "found"))
    BY <1>1, <1>2, ReadIsSound
  <2>2. Becomes(c, Read(r, e, "found"))
    BY <1>1, <1>2
  <2> QED BY <1>1, <2>1, <2>2, OnlyRequestMoves
<1>3. CASE ~Known(e) /\ r.mode = "signup"
  <2>1. [r EXCEPT !.at = "create"] \in RequestType /\ RequestIsSound([r EXCEPT !.at = "create"])
    BY <1>1, StepIsSound
  <2>2. Becomes(c, [r EXCEPT !.at = "create"])
    BY <1>1, <1>3
  <2> QED BY <1>1, <2>1, <2>2, OnlyRequestMoves
<1>4. CASE ~Known(e) /\ r.mode # "signup"
  <2>1. Becomes(c, NoRequest)
    BY <1>1, <1>4
  <2> QED BY <1>1, <2>1, NoRequestIsSound, OnlyRequestMoves
<1> QED BY <1>2, <1>3, <1>4

\* The end of a request.
LEMMA DoneKeeps ==
  ASSUME AccountsInv, NEW c \in Calls, Done(c), UNCHANGED <<user, identity, gmail>>,
         UNCHANGED ticket \/ \E t \in Tickets : ticket' = [ticket EXCEPT ![t] = Used]
  PROVE  AccountsInv' /\ UsersAreStable /\ LinksAreStable
BY NoRequestIsSound, OnlyRequestMoves DEF Done

\* An account made for an identity has the role its request asked for.
LEMMA CreateOAuthUserKeeps ==
  ASSUME AccountsInv, NEW c \in Calls, CreateOAuthUser(c)
  PROVE  AccountsInv' /\ UsersAreStable /\ LinksAreStable
<1>0. PICK new : new = request[c]
  OBVIOUS
<1>1. /\ new \in RequestType /\ RequestIsSound(new) /\ new.at = "create" /\ new.sub \in Subs
      /\ new.email \in Emails /\ new.role \in Public /\ UNCHANGED <<identity, gmail, ticket>>
  BY <1>0 DEF CreateOAuthUser, At, AccountsInv, RequestIsSound
<1>2. CASE Known(new.email) /\ Done(c) /\ UNCHANGED user
  BY <1>1, <1>2, DoneKeeps
<1>3. CASE /\ ~Known(new.email)
           /\ Insert(new.email, new.role)
           /\ Becomes(c, [new EXCEPT !.at = "link", !.seen = new.role, !.on = TRUE])
  <2>1. PICK k : k = [new EXCEPT !.at = "link", !.seen = new.role, !.on = TRUE]
    OBVIOUS
  <2>2. new.role \in Roles \ {"NONE"}
    BY <1>1 DEF Roles, Public
  <2>3. UsersAreStable /\ user'[new.email].role = new.role
    BY <1>1, <1>3, <2>2, InsertIsStable
  <2>4. /\ k \in RequestType
        /\ k.at = "link" /\ k.email = new.email /\ k.seen = new.role /\ k.sub = new.sub
    BY <1>1, <2>1, <2>2 DEF RequestType
  <2>5. RequestIsSound(k)'
    BY <1>1, <2>2, <2>3, <2>4 DEF RequestIsSound, Names, Known
  <2> QED BY <1>1, <1>3, <2>1, <2>3, <2>4, <2>5, RequestMovesAccount
<1> QED BY <1>0, <1>2, <1>3 DEF CreateOAuthUser

\* A sign-up makes its account, or finds that somebody made it meanwhile.
LEMMA SignUpKeeps ==
  ASSUME AccountsInv, NEW c \in Calls, SignUp(c)
  PROVE  AccountsInv' /\ UsersAreStable /\ LinksAreStable
<1>0. PICK new : new = request[c]
  OBVIOUS
<1>1. /\ new \in RequestType /\ RequestIsSound(new) /\ new.at = "signup" /\ new.ticket \in Tickets
      /\ new.email \in Emails /\ new.role \in Public /\ UNCHANGED <<identity, gmail, ticket>>
  BY <1>0 DEF SignUp, At, AccountsInv, RequestIsSound
<1>2. CASE Known(new.email) /\ Done(c) /\ UNCHANGED user
  BY <1>1, <1>2, DoneKeeps
<1>3. CASE /\ ~Known(new.email)
           /\ Insert(new.email, new.role)
           /\ Becomes(c, [new EXCEPT !.at = "consume", !.seen = new.role])
  <2>1. PICK k : k = [new EXCEPT !.at = "consume", !.seen = new.role]
    OBVIOUS
  <2>2. new.role \in Roles \ {"NONE"}
    BY <1>1 DEF Roles, Public
  <2>3. UsersAreStable /\ user'[new.email].role = new.role
    BY <1>1, <1>3, <2>2, InsertIsStable
  <2>4. /\ k \in RequestType
        /\ k.at = "consume" /\ k.email = new.email /\ k.seen = new.role /\ k.ticket = new.ticket
    BY <1>1, <2>1, <2>2 DEF RequestType
  <2>5. RequestIsSound(k)'
    BY <1>1, <2>2, <2>3, <2>4 DEF RequestIsSound, Names, Known
  <2> QED BY <1>1, <1>3, <2>1, <2>3, <2>4, <2>5, RequestMovesAccount
<1> QED BY <1>0, <1>2, <1>3 DEF SignUp

\* A vendor's intent promotes a customer, and nobody else.
LEMMA PromoteUserRoleKeeps ==
  ASSUME AccountsInv, NEW c \in Calls, PromoteUserRole(c)
  PROVE  AccountsInv' /\ UsersAreStable /\ LinksAreStable
<1>0. PICK r, next, e : r = request[c] /\ next = (IF r.at = "known" THEN "answer" ELSE "link") /\ e = r.email
  OBVIOUS
<1>1. /\ r \in RequestType /\ RequestIsSound(r) /\ r.at \in {"known", "found"} /\ e \in Emails /\ Names(r)
      /\ r.at = "found" => r.sub \in Subs
      /\ UNCHANGED <<identity, gmail, ticket>>
  BY <1>0 DEF PromoteUserRole, AccountsInv, RequestIsSound
<1>2. PICK k : k = [r EXCEPT !.at = next, !.seen = IF Promotes(r) THEN "VENDOR" ELSE @]
  OBVIOUS
<1>3. /\ Becomes(c, k)
      /\ user' = IF Promotes(r) /\ user[e].role = "CUSTOMER" THEN [user EXCEPT ![e].role = "VENDOR"] ELSE user
  BY <1>0, <1>2 DEF PromoteUserRole
<1>4. /\ k \in RequestType /\ k.at = next /\ k.email = e /\ k.sub = r.sub
      /\ k.seen = IF Promotes(r) THEN "VENDOR" ELSE r.seen
  <2>1. next \in {"answer", "link"} /\ "VENDOR" \in Roles
    BY <1>0 DEF Roles, Public
  <2> QED BY <1>0, <1>1, <1>2, <2>1 DEF RequestType
<1>5. user' \in [Emails -> [role : Roles, active : BOOLEAN]]
  BY <1>1, <1>3 DEF AccountsInv, AccountsTypeOK, Roles, Public
<1>6. /\ user'[e].role = IF Promotes(r) /\ user[e].role = "CUSTOMER" THEN "VENDOR" ELSE user[e].role
      /\ \A f \in Emails \ {e} : user'[f] = user[f]
  BY <1>1, <1>3 DEF AccountsInv, AccountsTypeOK
<1>7. UsersAreStable
  BY <1>5, <1>6 DEF UsersAreStable
<1>8. RequestIsSound(k)'
  <2>1. user[e].role # "NONE" /\ (user[e].role = r.seen \/ (r.seen = "CUSTOMER" /\ user[e].role = "VENDOR"))
    BY <1>0, <1>1 DEF Names, Known
  <2>2. Known(k.email)' /\ (user'[e].role = k.seen \/ (k.seen = "CUSTOMER" /\ user'[e].role = "VENDOR"))
    BY <1>4, <1>6, <2>1 DEF Known, Promotes
  <2>3. Names(k)'
    BY <1>4, <2>2 DEF Names
  <2> QED BY <1>0, <1>1, <1>4, <2>3 DEF RequestIsSound
<1> QED BY <1>1, <1>3, <1>4, <1>7, <1>8, RequestMovesAccount

\* An identity is linked once.
LEMMA LinkIdentityKeeps ==
  ASSUME AccountsInv, NEW c \in Calls, LinkIdentity(c)
  PROVE  AccountsInv' /\ UsersAreStable /\ LinksAreStable
<1>0. PICK r, g : r = request[c] /\ g = r.sub
  OBVIOUS
<1>1. /\ r \in RequestType /\ RequestIsSound(r) /\ r.at = "link" /\ g \in Subs /\ r.email \in Emails
      /\ Known(r.email) /\ UNCHANGED <<user, gmail, ticket>>
      /\ identity' = [identity EXCEPT ![g] = IF @ = None THEN r.email ELSE @]
      /\ Becomes(c, [r EXCEPT !.at = "answer"])
  BY <1>0 DEF LinkIdentity, At, AccountsInv, RequestIsSound, Names
<1>2. [r EXCEPT !.at = "answer"] \in RequestType /\ RequestIsSound([r EXCEPT !.at = "answer"])
  BY <1>1, StepIsSound
<1>3. UsersAreStable
  BY <1>1, UsersStay
<1>4. LinksAreStable
  <2>1. \A e \in Emails : Known(e) => Known(e)'
    BY <1>3, KnownStays
  <2>2. identity \in [Subs -> {e \in Emails : Known(e)} \cup {None}]
    BY DEF AccountsInv, AccountsTypeOK
  <2> QED BY <1>1, <2>1, <2>2 DEF LinksAreStable
<1>5. PICK k : k = [r EXCEPT !.at = "answer"]
  OBVIOUS
<1>6. RequestIsSound(k)'
  BY <1>2, <1>3, <1>5, RequestStaysSound
<1>7. request' \in [Calls -> RequestType] /\ \A d \in Calls : RequestIsSound(request[d])'
  BY <1>1, <1>2, <1>3, <1>5, <1>6, RequestMoves
<1>8. TicketIsSound(Used)
  BY DEF TicketIsSound
<1>9. /\ ticket' \in [Tickets -> {None, Used} \cup Intent \cup Challenge]
      /\ \A t \in Tickets : TicketIsSound(ticket[t])'
  BY <1>1, <1>3, <1>8, TicketsMove
<1>10. gmail' \in [Subs -> Emails]
  BY <1>1 DEF AccountsInv, AccountsTypeOK
<1> QED BY <1>3, <1>4, <1>7, <1>9, <1>10, AccountsMove

\* A code opens the sign-up or the login it was sent for.
LEMMA VerifyOTPKeeps ==
  ASSUME AccountsInv, NEW c \in Calls, NEW t \in Tickets, VerifyOTP(c, t)
  PROVE  AccountsInv' /\ UsersAreStable /\ LinksAreStable
<1>1. PICK x : x = ticket[t]
  OBVIOUS
<1>2. x \in Challenge /\ TicketIsSound(x)
  BY <1>1 DEF VerifyOTP, AccountsInv
<1>3. /\ x.purpose \in {"login", "signup"} /\ x.email \in Emails /\ x.role \in Public \cup {"NONE"}
      /\ x.purpose = "signup" => x.role \in Public
      /\ x.purpose = "login" => Known(x.email)
  BY <1>2 DEF Challenge, TicketIsSound
<1>4. PICK k : k = [NoRequest EXCEPT !.at = x.purpose, !.email = x.email, !.role = x.role, !.ticket = t]
  OBVIOUS
<1>5. k \in RequestType /\ k.at = x.purpose /\ k.email = x.email /\ k.role = x.role /\ k.ticket = t
  BY <1>3, <1>4 DEF NoRequest, RequestType, Roles, Modes
<1>6. RequestIsSound(k)
  BY <1>3, <1>5 DEF RequestIsSound
<1> QED BY <1>1, <1>4, <1>5, <1>6, OnlyRequestMoves DEF VerifyOTP

\* A login is given the token of the account it has read.
LEMMA SignInKeeps ==
  ASSUME AccountsInv, NEW c \in Calls, SignIn(c)
  PROVE  AccountsInv' /\ UsersAreStable /\ LinksAreStable
<1>0. PICK r, e : r = request[c] /\ e = r.email
  OBVIOUS
<1>1. /\ r \in RequestType /\ r.at = "login" /\ e \in Emails /\ Known(e) /\ r.ticket \in Tickets
      /\ UNCHANGED <<user, identity, gmail, ticket>> /\ Becomes(c, Read(r, e, "consume"))
  BY <1>0 DEF SignIn, At, AccountsInv, RequestIsSound
<1>2. Read(r, e, "consume") \in RequestType /\ RequestIsSound(Read(r, e, "consume"))
  BY <1>1, ReadIsSound
<1> QED BY <1>1, <1>2, OnlyRequestMoves

\* A request that has used its code ends, or goes on with what it read.
LEMMA ConsumeKeeps ==
  ASSUME AccountsInv, NEW c \in Calls, Consume(c)
  PROVE  AccountsInv' /\ UsersAreStable /\ LinksAreStable
<1>1. request[c].ticket \in Tickets
  BY DEF Consume, At, AccountsInv, RequestIsSound
<1> QED BY <1>1, DoneKeeps DEF Consume

\* A change of status, of a user or of an administrator, is asked for.
LEMMA ToSwitchKeeps ==
  ASSUME AccountsInv, NEW c \in Calls, NEW e \in Emails, NEW on \in BOOLEAN, NEW at \in {"count", "status"},
         Known(e), Becomes(c, ToSwitch(e, on, at)), UNCHANGED <<user, identity, gmail, ticket>>
  PROVE  AccountsInv' /\ UsersAreStable /\ LinksAreStable
<1>1. PICK k : k = ToSwitch(e, on, at)
  OBVIOUS
<1>2. k \in RequestType /\ k.at = at /\ k.email = e
  BY <1>1 DEF ToSwitch, NoRequest, RequestType, Roles, Modes
<1>3. RequestIsSound(k)
  BY <1>2 DEF RequestIsSound
<1> QED BY <1>1, <1>2, <1>3, OnlyRequestMoves

\* A count that leaves somebody else takes a request on to its UPDATE.
LEMMA CountKeeps ==
  ASSUME AccountsInv, NEW c \in Calls, CountActiveAdministrators(c)
  PROVE  AccountsInv' /\ UsersAreStable /\ LinksAreStable
<1>1. request[c] \in RequestType /\ RequestIsSound(request[c]) /\ request[c].at = "count"
  BY DEF CountActiveAdministrators, At, AccountsInv
<1>2. /\ [request[c] EXCEPT !.at = "status"] \in RequestType
      /\ RequestIsSound([request[c] EXCEPT !.at = "status"])
  BY <1>1, StepIsSound
<1>3. CASE Cardinality(Active) <= 1
  BY <1>3, NoRequestIsSound, OnlyRequestMoves DEF CountActiveAdministrators
<1>4. CASE ~(Cardinality(Active) <= 1)
  BY <1>2, <1>4, OnlyRequestMoves DEF CountActiveAdministrators
<1> QED BY <1>3, <1>4

\* The UPDATE leaves every role as it is.
LEMMA WriteStatusKeeps ==
  ASSUME AccountsInv, NEW c \in Calls, WriteStatus(c)
  PROVE  AccountsInv' /\ UsersAreStable /\ LinksAreStable
<1>1. request[c].email \in Emails /\ request[c].on \in BOOLEAN
  BY DEF WriteStatus, At, AccountsInv, RequestIsSound, RequestType
<1>2. UsersAreStable
  BY <1>1 DEF WriteStatus, UsersAreStable, AccountsInv, AccountsTypeOK
<1>3. RequestIsSound(NoRequest)'
  BY <1>2, NoRequestIsSound, RequestStaysSound
<1> QED BY <1>2, <1>3, NoRequestIsSound, RequestMovesAccount DEF WriteStatus, Done

\* Every step keeps the invariant, the accounts and the links.
LEMMA AccountsInvNext ==
  AccountsInv /\ [AccountsNext]_accountVars => AccountsInv' /\ UsersAreStable /\ LinksAreStable
<1> SUFFICES ASSUME AccountsInv, [AccountsNext]_accountVars
             PROVE  AccountsInv' /\ UsersAreStable /\ LinksAreStable
  OBVIOUS
<1> DEFINE Goal == AccountsInv' /\ UsersAreStable /\ LinksAreStable
<1>1. CASE UNCHANGED accountVars
  <2>1. UNCHANGED <<user, identity, gmail, ticket, request>>
    BY <1>1 DEF accountVars
  <2>2. UsersAreStable
    BY <2>1, UsersStay
  <2>3. gmail' \in [Subs -> Emails] /\ TicketIsSound(Used)
    BY <2>1 DEF AccountsInv, AccountsTypeOK, TicketIsSound
  <2> QED BY <2>1, <2>2, <2>3, NoRequestMoves
<1>2. ASSUME NEW e \in Emails, NEW role \in Public, RegisterUser(e, role) PROVE Goal
  BY <1>2, RegistrationKeeps DEF RegisterUser, Roles, Public
<1>3. ASSUME NEW e \in Emails, CreateAdministrator(e) PROVE Goal
  BY <1>3, RegistrationKeeps DEF CreateAdministrator, Roles, Public
<1>4. ASSUME NEW e \in Emails, NEW g \in Subs, RenameGoogle(g, e) PROVE Goal
  <2>1. gmail' \in [Subs -> Emails] /\ UNCHANGED <<user, identity, ticket, request>> /\ TicketIsSound(Used)
    BY <1>4 DEF RenameGoogle, AccountsInv, AccountsTypeOK, TicketIsSound
  <2> QED BY <2>1, UsersStay, NoRequestMoves
<1>5. ASSUME NEW t \in Tickets, NEW intent \in Intent, GoogleAuthURL(t, intent) PROVE Goal
  BY <1>5, GoogleAuthURLKeeps
<1>6. ASSUME NEW t \in Tickets, NEW asked \in Challenge, RequestOTP(t, asked) PROVE Goal
  BY <1>6, RequestOTPKeeps
<1>7. ASSUME NEW c \in Calls, NEW t \in Tickets, NEW g \in Subs, HandleGoogleCallback(c, t, g) PROVE Goal
  BY <1>7, HandleGoogleCallbackKeeps
<1>8. ASSUME NEW c \in Calls, GetUserByIdentity(c) PROVE Goal
  BY <1>8, GetUserByIdentityKeeps
<1>9. ASSUME NEW c \in Calls, GetUserByEmail(c) PROVE Goal
  BY <1>9, GetUserByEmailKeeps
<1>10. ASSUME NEW c \in Calls, CreateOAuthUser(c) PROVE Goal
  BY <1>10, CreateOAuthUserKeeps
<1>11. ASSUME NEW c \in Calls, PromoteUserRole(c) PROVE Goal
  BY <1>11, PromoteUserRoleKeeps
<1>12. ASSUME NEW c \in Calls, LinkIdentity(c) PROVE Goal
  BY <1>12, LinkIdentityKeeps
<1>13. ASSUME NEW c \in Calls, AnswerCallback(c) PROVE Goal
  BY <1>13, DoneKeeps DEF AnswerCallback
<1>14. ASSUME NEW c \in Calls, NEW t \in Tickets, VerifyOTP(c, t) PROVE Goal
  BY <1>14, VerifyOTPKeeps
<1>15. ASSUME NEW c \in Calls, SignUp(c) PROVE Goal
  BY <1>15, SignUpKeeps
<1>16. ASSUME NEW c \in Calls, SignIn(c) PROVE Goal
  BY <1>16, SignInKeeps
<1>17. ASSUME NEW c \in Calls, Consume(c) PROVE Goal
  BY <1>17, ConsumeKeeps
<1>18. ASSUME NEW c \in Calls, NEW e \in Emails, NEW on \in BOOLEAN, UpdateUser(c, e, on) PROVE Goal
  BY <1>18, ToSwitchKeeps DEF UpdateUser
<1>19. ASSUME NEW c \in Calls, NEW e \in Emails, NEW on \in BOOLEAN, NEW by \in Emails,
              UpdateAdministratorStatus(c, by, e, on)
       PROVE  Goal
  <2>1. PICK at : at = IF ~on /\ user[e].active THEN "count" ELSE "status"
    OBVIOUS
  <2>2. at \in {"count", "status"} /\ Known(e) /\ Becomes(c, ToSwitch(e, on, at))
    BY <1>19, <2>1 DEF UpdateAdministratorStatus, Known
  <2> QED BY <1>19, <2>2, ToSwitchKeeps DEF UpdateAdministratorStatus
<1>20. ASSUME NEW c \in Calls, CountActiveAdministrators(c) PROVE Goal
  BY <1>20, CountKeeps
<1>21. ASSUME NEW c \in Calls, WriteStatus(c) PROVE Goal
  BY <1>21, WriteStatusKeeps
<1>22. ASSUME NEW c \in Calls, RequestDies(c) PROVE Goal
  BY <1>22, DoneKeeps DEF RequestDies
<1> QED
  BY <1>1, <1>2, <1>3, <1>4, <1>5, <1>6, <1>7, <1>8, <1>9, <1>10, <1>11, <1>12, <1>13, <1>14, <1>15, <1>16,
     <1>17, <1>18, <1>19, <1>20, <1>21, <1>22
  DEF AccountsNext

\* The invariant of accounts holds in every reachable state.
LEMMA AccountsInvariance == AccountsSpec => []AccountsInv
BY AccountsInvInit, AccountsInvNext, PTL DEF AccountsSpec

\* Accounts, links, codes and requests keep their shape (internal/modules/auth and user).
THEOREM AccountsAreTyped == AccountsSpec => []AccountsTypeOK
<1>1. AccountsInv => AccountsTypeOK
  BY DEF AccountsInv
<1> QED BY <1>1, AccountsInvariance, PTL

\* Every token handed out names the role its account has, although the role was read
\* before other requests promoted, linked or created accounts (auth/service_impl.go).
THEOREM TokensAreTrue == AccountsSpec => []TokensNameTheRole
<1>1. AccountsInv => TokensNameTheRole
  BY DEF AccountsInv, RequestIsSound, Names, TokensNameTheRole
<1> QED BY <1>1, AccountsInvariance, PTL

\* No step deletes an account, moves an identity to another account, or turns anybody but
\* a customer into something else.
THEOREM AccountsStayStable == AccountsSpec => AccountsAreStable
<1>1. AccountsInv /\ [AccountsNext]_accountVars
        => [/\ \A e \in Emails : Known(e) => \/ user'[e].role = user[e].role
                                             \/ user[e].role = "CUSTOMER" /\ user'[e].role = "VENDOR"
            /\ \A g \in Subs : identity[g] # None => identity'[g] = identity[g]]_accountVars
  BY AccountsInvNext DEF UsersAreStable, LinksAreStable
<1> QED BY <1>1, AccountsInvariance, PTL DEF AccountsSpec, AccountsAreStable

-----------------------------------------------------------------------------
(* The last administrator. *)

\* Request c is about to change the status of an administrator.
Switches(c) == request[c].at \in {"count", "status"} /\ user[request[c].email].role = "ADMIN"

\* Unless two of them overlapped, an administrator is active, and another one stays
\* active when one is about to be turned off.
AdminInv ==
  raced \/ /\ Active # {}
           /\ \A c, d \in Calls : Switches(c) /\ Switches(d) => c = d
           /\ \A c \in Calls : request[c].at = "status" /\ Switches(c) /\ ~request[c].on
                => Active \ {request[c].email} # {}

\* A step that has to do with no administrator's status.
Quiet ==
  /\ raced' = raced
  /\ \A e \in Emails : user[e].role = "ADMIN" => user'[e] = user[e]
  /\ \A c \in Calls : request'[c] = request[c] \/ request'[c].at \notin {"count", "status"}

\* An administrator that a request is about to switch was one before the step.
LEMMA SwitchesBefore ==
  ASSUME AccountsInv, UsersAreStable, NEW c \in Calls, request'[c] = request[c], Switches(c)'
  PROVE  Switches(c)
<1>1. request[c].at \in {"count", "status"} /\ user'[request[c].email].role = "ADMIN"
  BY DEF Switches
<1>2. request[c].email \in Emails /\ Known(request[c].email)
  BY <1>1 DEF AccountsInv, RequestIsSound
<1> QED BY <1>1, <1>2 DEF UsersAreStable, Switches

\* A step that changes no administrator keeps at least one of them.
LEMMA QuietKeeps ==
  ASSUME AccountsInv, UsersAreStable, AdminInv, Quiet
  PROVE  AdminInv'
<1>1. Active \subseteq Active'
  BY DEF Active, Quiet
<1>2. \A c \in Calls : Switches(c)' => request'[c] = request[c] /\ Switches(c)
  <2>1. \A c \in Calls : Switches(c)' => request'[c] = request[c]
    BY DEF Quiet, Switches
  <2> QED BY <2>1, SwitchesBefore
<1>3. raced' = raced
  BY DEF Quiet
<1> QED BY <1>1, <1>2, <1>3 DEF AdminInv

\* A request that becomes one without a status to change.
LEMMA BecomesQuiet ==
  ASSUME AccountsInv, NEW c \in Calls, NEW r, Becomes(c, r), r.at \notin {"count", "status"}
  PROVE  \A d \in Calls : request'[d] = request[d] \/ request'[d].at \notin {"count", "status"}
BY DEF AccountsInv, Becomes

\* An account that is made was no administrator's.
LEMMA InsertIsQuiet ==
  ASSUME AccountsInv, NEW e \in Emails, NEW role, ~Known(e), Insert(e, role)
  PROVE  \A f \in Emails : user[f].role = "ADMIN" => user'[f] = user[f]
BY DEF AccountsInv, AccountsTypeOK, Insert, Known

\* Every step but those that change a status is quiet.
LEMMA Callbacks ==
  ASSUME AccountsInv, NEW c \in Calls,
         \/ \E t \in Tickets, g \in Subs : HandleGoogleCallback(c, t, g)
         \/ GetUserByIdentity(c) \/ GetUserByEmail(c) \/ CreateOAuthUser(c)
         \/ PromoteUserRole(c) \/ LinkIdentity(c) \/ AnswerCallback(c)
         \/ \E t \in Tickets : VerifyOTP(c, t)
         \/ SignUp(c) \/ SignIn(c) \/ Consume(c) \/ RequestDies(c)
  PROVE  Quiet
<1>0. raced' = raced /\ request[c] \in RequestType
  BY DEF HandleGoogleCallback, GetUserByIdentity, GetUserByEmail, CreateOAuthUser, PromoteUserRole, LinkIdentity,
         AnswerCallback, VerifyOTP, SignUp, SignIn, Consume, RequestDies, AccountsInv
<1>1. \A e \in Emails : user[e].role = "ADMIN" => user'[e] = user[e]
  <2>1. CASE UNCHANGED user
    BY <2>1
  <2>2. CASE \E role : ~Known(request[c].email) /\ request[c].email \in Emails /\ Insert(request[c].email, role)
    BY <2>2, InsertIsQuiet
  <2>3. CASE /\ user[request[c].email].role = "CUSTOMER" 
             /\ user' = [user EXCEPT ![request[c].email].role = "VENDOR"]
    BY <2>3 DEF AccountsInv, AccountsTypeOK
  <2>4. CreateOAuthUser(c) \/ SignUp(c) => request[c].email \in Emails
    BY DEF CreateOAuthUser, SignUp, At, AccountsInv, RequestIsSound
  <2> QED
    BY <2>1, <2>2, <2>3, <2>4
    DEF HandleGoogleCallback, GetUserByIdentity, GetUserByEmail, CreateOAuthUser, PromoteUserRole, LinkIdentity,
        AnswerCallback, VerifyOTP, SignUp, SignIn, Consume, RequestDies
<1>2. \E r : Becomes(c, r) /\ r.at \notin {"count", "status"}
  <2>0. NoRequest.at = "idle"
    BY NoRequestIsSound
  <2>1. ASSUME NEW t \in Tickets, NEW g \in Subs, HandleGoogleCallback(c, t, g)
        PROVE  \E r : Becomes(c, r) /\ r.at \notin {"count", "status"}
    <3>1. PICK r : r = [NoRequest EXCEPT !.at = "identity", !.sub = g, !.email = gmail[g],
                                         !.role = ticket[t].role, !.mode = ticket[t].mode]
      OBVIOUS
    <3>2. r.at = "identity"
      BY <3>1 DEF NoRequest
    <3> QED BY <2>1, <3>1, <3>2 DEF HandleGoogleCallback
  <2>2. ASSUME NEW e, NEW at \in {"known", "found", "consume"}, Becomes(c, Read(request[c], e, at))
        PROVE  \E r : Becomes(c, r) /\ r.at \notin {"count", "status"}
    <3>1. PICK r : r = Read(request[c], e, at)
      OBVIOUS
    <3>2. r.at = at
      BY <1>0, <3>1 DEF Read, RequestType
    <3> QED BY <2>2, <3>1, <3>2
  <2>3. ASSUME NEW at \in {"email", "create", "answer"}, Becomes(c, [request[c] EXCEPT !.at = at])
        PROVE  \E r : Becomes(c, r) /\ r.at \notin {"count", "status"}
    <3>1. PICK r : r = [request[c] EXCEPT !.at = at]
      OBVIOUS
    <3>2. r.at = at
      BY <1>0, <3>1 DEF RequestType
    <3> QED BY <2>3, <3>1, <3>2
  <2>4. ASSUME Done(c) PROVE \E r : Becomes(c, r) /\ r.at \notin {"count", "status"}
    BY <2>0, <2>4 DEF Done
  <2>5. CASE GetUserByIdentity(c)
    BY <2>2, <2>3, <2>5 DEF GetUserByIdentity
  <2>6. CASE GetUserByEmail(c)
    <3>1. PICK r : r = request[c]
      OBVIOUS
    <3>2. Becomes(c, CASE Known(r.email) -> Read(r, r.email, "found")
                       [] ~Known(r.email) /\ r.mode = "signup" -> [r EXCEPT !.at = "create"]
                       [] OTHER -> NoRequest)
      BY <2>6, <3>1 DEF GetUserByEmail
    <3> QED BY <2>0, <2>2, <2>3, <3>1, <3>2
  <2>7. CASE CreateOAuthUser(c) \/ SignUp(c)
    <3>1. ASSUME NEW at \in {"link", "consume"}, NEW seen, NEW on,
                 \/ Becomes(c, [request[c] EXCEPT !.at = at, !.seen = seen, !.on = on])
                 \/ Becomes(c, [request[c] EXCEPT !.at = at, !.seen = seen])
          PROVE  \E r : Becomes(c, r) /\ r.at \notin {"count", "status"}
      <4>1. PICK r, s : r = [request[c] EXCEPT !.at = at, !.seen = seen, !.on = on]
                        /\ s = [request[c] EXCEPT !.at = at, !.seen = seen]
        OBVIOUS
      <4>2. r.at = at /\ s.at = at
        BY <1>0, <4>1 DEF RequestType
      <4> QED BY <3>1, <4>1, <4>2
    <3> QED BY <2>4, <2>7, <3>1 DEF CreateOAuthUser, SignUp
  <2>8. CASE PromoteUserRole(c)
    <3>1. PICK r : r = [request[c] EXCEPT !.at = IF request[c].at = "known" THEN "answer" ELSE "link",
                                          !.seen = IF Promotes(request[c]) THEN "VENDOR" ELSE @]
      OBVIOUS
    <3>2. r.at \in {"answer", "link"}
      BY <1>0, <3>1 DEF RequestType
    <3> QED BY <2>8, <3>1, <3>2 DEF PromoteUserRole
  <2>9. ASSUME NEW t \in Tickets, VerifyOTP(c, t)
        PROVE  \E r : Becomes(c, r) /\ r.at \notin {"count", "status"}
    <3>1. PICK r : r = [NoRequest EXCEPT !.at = ticket[t].purpose, !.email = ticket[t].email,
                                         !.role = ticket[t].role, !.ticket = t]
      OBVIOUS
    <3>2. r.at \in {"login", "signup"}
      BY <2>9, <3>1 DEF NoRequest, VerifyOTP, Challenge
    <3> QED BY <2>9, <3>1, <3>2 DEF VerifyOTP
  <2> QED BY <2>1, <2>2, <2>3, <2>4, <2>5, <2>6, <2>7, <2>8, <2>9
          DEF LinkIdentity, AnswerCallback, SignIn, Consume, RequestDies
<1> QED BY <1>0, <1>1, <1>2, BecomesQuiet DEF Quiet

\* A user whose status is about to change is no administrator.
LEMMA UpdateUserKeepsAdmins ==
  ASSUME AccountsInv, UsersAreStable, AdminInv, NEW c \in Calls, NEW e \in Emails, NEW on \in BOOLEAN,
         UpdateUser(c, e, on)
  PROVE  AdminInv'
<1>1. PICK k : k = ToSwitch(e, on, "status")
  OBVIOUS
<1>2. k.email = e /\ user[e].role # "ADMIN"
  BY <1>1 DEF ToSwitch, NoRequest, UpdateUser
<1>3. request'[c] = k /\ \A d \in Calls \ {c} : request'[d] = request[d]
  BY <1>1 DEF UpdateUser, Becomes, AccountsInv
<1>4. UNCHANGED <<user, raced>>
  BY DEF UpdateUser
<1>5. Active' = Active /\ ~Switches(c)'
  BY <1>2, <1>3, <1>4 DEF Active, Switches
<1>6. \A d \in Calls \ {c} : Switches(d)' => Switches(d)
  BY <1>3, <1>4 DEF Switches
<1> QED BY <1>3, <1>4, <1>5, <1>6 DEF AdminInv

\* An administrator is switched on, or off one that is off already, or the others are counted.
LEMMA UpdateAdministratorStatusKeepsAdmins ==
  ASSUME AccountsInv, UsersAreStable, AdminInv, NEW c \in Calls, NEW by \in Emails, NEW e \in Emails,
         NEW on \in BOOLEAN, UpdateAdministratorStatus(c, by, e, on)
  PROVE  AdminInv'
<1>1. PICK k : k = ToSwitch(e, on, IF ~on /\ user[e].active THEN "count" ELSE "status")
  OBVIOUS
<1>2. k.email = e /\ k.on = on /\ k.at = IF ~on /\ user[e].active THEN "count" ELSE "status"
  BY <1>1 DEF ToSwitch, NoRequest
<1>3. request'[c] = k /\ \A d \in Calls \ {c} : request'[d] = request[d]
  BY <1>1 DEF UpdateAdministratorStatus, Becomes, AccountsInv
<1>4. UNCHANGED user /\ raced' = (raced \/ \E d \in Calls \ {c} : request[d].at \in {"count", "status"})
  BY DEF UpdateAdministratorStatus
<1>5. Active' = Active
  BY <1>4 DEF Active
<1>6. SUFFICES ASSUME ~raced, \A d \in Calls \ {c} : request[d].at \notin {"count", "status"}
               PROVE  AdminInv'
  BY <1>4 DEF AdminInv
<1>7. \A d \in Calls : Switches(d)' => d = c
  BY <1>3, <1>6 DEF Switches
<1>8. request'[c].at = "status" /\ ~request'[c].on => Active' \ {request'[c].email} # {}
  BY <1>2, <1>3, <1>5, <1>6 DEF AdminInv, Active
<1> QED BY <1>5, <1>6, <1>7, <1>8 DEF AdminInv

\* More than one is counted.
LEMMA CountKeepsAdmins ==
  ASSUME AccountsInv, UsersAreStable, AdminInv, NEW c \in Calls, CountActiveAdministrators(c)
  PROVE  AdminInv'
<1>1. UNCHANGED <<user, raced>> /\ Active' = Active /\ request[c] \in RequestType /\ request[c].at = "count"
  BY DEF CountActiveAdministrators, At, Active, AccountsInv
<1>2. CASE Cardinality(Active) <= 1
  <2>1. Becomes(c, NoRequest)
    BY <1>2 DEF CountActiveAdministrators
  <2>2. Quiet
    BY <1>1, <2>1, BecomesQuiet, NoRequestIsSound DEF Quiet
  <2> QED BY <2>2, QuietKeeps
<1>3. CASE ~(Cardinality(Active) <= 1)
  <2>1. PICK k : k = [request[c] EXCEPT !.at = "status"]
    OBVIOUS
  <2>2. k.email = request[c].email /\ k.at = "status"
    BY <1>1, <2>1 DEF RequestType
  <2>3. request'[c] = k /\ \A d \in Calls \ {c} : request'[d] = request[d]
    BY <1>3, <2>1 DEF CountActiveAdministrators, Becomes, AccountsInv
  <2>4. \A e : Active \ {e} # {}
    <3>1. SUFFICES ASSUME NEW e, Active \ {e} = {} PROVE FALSE
      OBVIOUS
    <3>2. CASE Active = {}
      <4>1. Cardinality(Active) = 0
        BY <3>2, FS_EmptySet
      <4> QED BY <1>3, <4>1
    <3>3. CASE Active = {e}
      <4>1. Cardinality(Active) = 1
        BY <3>3, FS_Singleton
      <4> QED BY <1>3, <4>1
    <3> QED BY <3>1, <3>2, <3>3
  <2>5. \A d \in Calls : Switches(d)' => Switches(d)
    BY <1>1, <2>2, <2>3 DEF Switches
  <2> QED BY <1>1, <2>3, <2>4, <2>5 DEF AdminInv
<1> QED BY <1>2, <1>3

\* The others stay as they are when one is turned off.
LEMMA WriteStatusKeepsAdmins ==
  ASSUME AccountsInv, UsersAreStable, AdminInv, NEW c \in Calls, WriteStatus(c)
  PROVE  AdminInv'
<1>0. PICK e, on : e = request[c].email /\ on = request[c].on
  OBVIOUS
<1>1. /\ e \in Emails /\ on \in BOOLEAN /\ request[c].at = "status"
      /\ user' = [user EXCEPT ![e].active = on] /\ raced' = raced
      /\ Becomes(c, NoRequest)
  BY <1>0 DEF WriteStatus, Done, At, AccountsInv, RequestIsSound, RequestType
<1>2. /\ user'[e].role = user[e].role /\ user'[e].active = on
      /\ \A f \in Emails \ {e} : user'[f] = user[f]
  BY <1>1 DEF AccountsInv, AccountsTypeOK
<1>3. \A d \in Calls : request'[d] = request[d] \/ request'[d].at \notin {"count", "status"}
  BY <1>1, NoRequestIsSound, BecomesQuiet
<1>4. CASE user[e].role # "ADMIN"
  <2>1. Quiet
    BY <1>1, <1>2, <1>3, <1>4 DEF Quiet
  <2> QED BY <2>1, QuietKeeps
<1>5. CASE user[e].role = "ADMIN" /\ ~raced
  <2>1. Switches(c)
    BY <1>0, <1>1, <1>5 DEF Switches
  <2>2. \A d \in Calls : ~Switches(d)'
    <3>1. request'[c] = NoRequest
      BY <1>1 DEF Becomes, AccountsInv
    <3>2. ~Switches(c)'
      BY <3>1, NoRequestIsSound DEF Switches
    <3>3. \A d \in Calls : Switches(d)' => request'[d] = request[d]
      BY <1>3 DEF Switches
    <3>4. \A d \in Calls : Switches(d)' => Switches(d)
      BY <3>3, SwitchesBefore
    <3> QED BY <1>5, <2>1, <3>2, <3>4 DEF AdminInv
  <2>3. Active' # {}
    <3>1. CASE on
      BY <1>1, <1>2, <1>5, <3>1 DEF Active
    <3>2. CASE ~on
      <4>1. Active \ {e} # {}
        BY <1>0, <1>1, <1>5, <2>1, <3>2 DEF AdminInv
      <4> QED BY <1>2, <4>1 DEF Active
    <3> QED BY <1>1, <3>1, <3>2
  <2> QED BY <2>2, <2>3 DEF AdminInv
<1> QED BY <1>1, <1>4, <1>5 DEF AdminInv

\* Every step keeps an administrator who is not about to be switched off, races apart.
LEMMA AdminInvNext ==
  AccountsInv /\ AdminInv /\ [AccountsNext]_accountVars => AdminInv'
<1> SUFFICES ASSUME AccountsInv, AdminInv, [AccountsNext]_accountVars PROVE AdminInv'
  OBVIOUS
<1>0. UsersAreStable
  BY AccountsInvNext
<1>1. CASE UNCHANGED accountVars
  BY <1>0, <1>1, QuietKeeps DEF Quiet, accountVars
<1>2. ASSUME NEW e \in Emails, NEW role \in Public, RegisterUser(e, role) PROVE AdminInv'
  BY <1>0, <1>2, InsertIsQuiet, QuietKeeps DEF RegisterUser, Quiet
<1>3. ASSUME NEW e \in Emails, CreateAdministrator(e) PROVE AdminInv'
  BY <1>0, <1>3, InsertIsQuiet, QuietKeeps DEF CreateAdministrator, Quiet
<1>4. ASSUME NEW e \in Emails, NEW g \in Subs, RenameGoogle(g, e) PROVE AdminInv'
  BY <1>0, <1>4, QuietKeeps DEF RenameGoogle, Quiet
<1>5. ASSUME NEW t \in Tickets, NEW intent, GoogleAuthURL(t, intent) \/ RequestOTP(t, intent) PROVE AdminInv'
  BY <1>0, <1>5, QuietKeeps DEF GoogleAuthURL, RequestOTP, Quiet
<1>6. ASSUME NEW c \in Calls, NEW e \in Emails, NEW on \in BOOLEAN, UpdateUser(c, e, on) PROVE AdminInv'
  BY <1>0, <1>6, UpdateUserKeepsAdmins
<1>7. ASSUME NEW c \in Calls, NEW e \in Emails, NEW on \in BOOLEAN, NEW by \in Emails,
             UpdateAdministratorStatus(c, by, e, on)
      PROVE  AdminInv'
  BY <1>0, <1>7, UpdateAdministratorStatusKeepsAdmins
<1>8. ASSUME NEW c \in Calls, CountActiveAdministrators(c) PROVE AdminInv'
  BY <1>0, <1>8, CountKeepsAdmins
<1>9. ASSUME NEW c \in Calls, WriteStatus(c) PROVE AdminInv'
  BY <1>0, <1>9, WriteStatusKeepsAdmins
<1>10. ASSUME NEW c \in Calls,
              \/ \E t \in Tickets, g \in Subs : HandleGoogleCallback(c, t, g)
              \/ GetUserByIdentity(c) \/ GetUserByEmail(c) \/ CreateOAuthUser(c)
              \/ PromoteUserRole(c) \/ LinkIdentity(c) \/ AnswerCallback(c)
              \/ \E t \in Tickets : VerifyOTP(c, t)
              \/ SignUp(c) \/ SignIn(c) \/ Consume(c) \/ RequestDies(c)
       PROVE  AdminInv'
  BY <1>0, <1>10, Callbacks, QuietKeeps
<1> QED BY <1>1, <1>2, <1>3, <1>4, <1>5, <1>6, <1>7, <1>8, <1>9, <1>10 DEF AccountsNext

\* An administrator is seeded, and no request switches one off yet.
LEMMA AdminInvInit == Seeded # {} /\ AccountsInit => AdminInv
<1> SUFFICES ASSUME Seeded # {}, AccountsInit PROVE AdminInv
  OBVIOUS
<1>1. Active # {}
  <2>1. PICK e : e \in Seeded
    OBVIOUS
  <2>2. e \in Emails
    BY <2>1
  <2>3. user[e] = [role |-> "ADMIN", active |-> TRUE]
    BY <2>1, <2>2 DEF AccountsInit
  <2> QED BY <2>2, <2>3 DEF Active
<1>2. \A c \in Calls : ~Switches(c)
  BY DEF AccountsInit, NoRequest, Switches
<1> QED BY <1>1, <1>2 DEF AdminInv

\* Whoever switches administrators off, one at a time, one that is active remains: the count
\* before the UPDATE is enough unless two such requests overlap (admin/service_impl.go).
\* There must be one to begin with, which the deployment seeds.
THEOREM AnAdministratorRemains == Seeded # {} /\ AccountsSpec => []AdministratorRemains
<1>1. AdminInv => AdministratorRemains
  BY DEF AdminInv, AdministratorRemains
<1> QED BY <1>1, AdminInvInit, AdminInvNext, AccountsInvariance, PTL DEF AccountsSpec

-----------------------------------------------------------------------------
HIDE TicketAssumption
HIDE AccountsAssumption

-----------------------------------------------------------------------------
(* Numbers. *)

\* A set of natural numbers that is not empty has a least element.
LEMMA Least == ASSUME NEW T, T \subseteq Nat, T # {} PROVE \E n \in T : \A m \in T : n <= m
<1>1. PICK k \in T : TRUE
  OBVIOUS
<1> DEFINE S == 1..k
           X == {1..j : j \in {i \in T : i <= k}}
<1>2. IsFiniteSet(S)
  BY <1>1, FS_Interval
<1>3. IsWellFoundedOn(StrictSubsetOrdering(S), SUBSET S)
  BY <1>2, FS_StrictSubsetOrderingWellFounded, FS_FiniteSubsetsOfFinite
<1>4. X \subseteq SUBSET S
  BY <1>1
<1>5. X # {}
  BY <1>1
<1> HIDE DEF S
<1>6. PICK x \in X : \A y \in X : ~ (<<y, x>> \in StrictSubsetOrdering(S))
  BY <1>3, <1>4, <1>5, WFMin
<1>7. PICK j \in T : j <= k /\ x = 1..j
  BY <1>6
<1>8. ASSUME NEW m \in T, m < j PROVE FALSE
  <2>1. 1..m \in X
    BY <1>7, <1>8, <1>1
  <2>2. 1..m \in SUBSET S /\ 1..j \in SUBSET S
    BY <2>1, <1>4, <1>6, <1>7
  <2>3. 1..m \subseteq 1..j /\ j \in 1..j /\ j \notin 1..m
    BY <1>8, <1>7
  <2>4. <<1..m, 1..j>> \in StrictSubsetOrdering(S)
    BY <2>2, <2>3 DEF StrictSubsetOrdering
  <2> QED BY <2>1, <2>4, <1>6, <1>7
<1> QED BY <1>7, <1>8

-----------------------------------------------------------------------------
(* Addresses. *)

USE LocationAssumption

\* A row that is removed from a list leaves the others in their order.
LEMMA RemovesOne ==
  ASSUME NEW S, NEW s \in Seq(S), IsInjective(s), NEW l
  PROVE  /\ RemoveFirst(s, l) \in Seq(S)
         /\ IsInjective(RemoveFirst(s, l))
         /\ \A k : Contains(RemoveFirst(s, l), k) <=> Contains(s, k) /\ k # l
<1>1. CASE ~\E i \in 1..Len(s) : s[i] = l
  BY <1>1 DEF RemoveFirst, Contains
<1>2. CASE \E i \in 1..Len(s) : s[i] = l
  <2> DEFINE at == {i \in 1..Len(s) : s[i] = l}
  <2>1. at # {} /\ at \subseteq Nat /\ RemoveFirst(s, l) = RemoveAt(s, Min(at))
    BY <1>2 DEF RemoveFirst, SelectInSeq
  <2>2. PICK n \in at : n = Min(at)
    <3>1. \E n \in at : \A m \in at : n <= m
      BY <2>1, Least
    <3> QED BY <3>1 DEF Min
  <2>3. n \in 1..Len(s) /\ s[n] = l /\ Len(s) \in Nat /\ DOMAIN s = 1..Len(s)
    BY <2>2
  <2> DEFINE r == SubSeq(s, 1, n - 1) \o SubSeq(s, n + 1, Len(s))
  <2>4. RemoveFirst(s, l) = r
    BY <2>1, <2>2 DEF RemoveAt
  <2> HIDE DEF at
  <2>5. /\ r \in Seq(S) /\ Len(r) = Len(s) - 1
        /\ \A i \in 1..Len(r) : r[i] = IF i < n THEN s[i] ELSE s[i + 1]
    <3> DEFINE p == SubSeq(s, 1, n - 1)
               q == SubSeq(s, n + 1, Len(s))
    <3>1. p \in Seq(S) /\ Len(p) = n - 1 /\ \A i \in 1..(n - 1) : p[i] = s[i]
      BY <2>3
    <3>2. q \in Seq(S) /\ Len(q) = Len(s) - n /\ \A i \in 1..(Len(s) - n) : q[i] = s[i + n]
      <4>1. \A i \in (n + 1)..Len(s) : s[i] \in S
        BY <2>3
      <4>2. /\ q \in Seq(S)
            /\ Len(q) = IF n + 1 <= Len(s) THEN Len(s) - (n + 1) + 1 ELSE 0
            /\ \A i \in 1..(Len(s) - (n + 1) + 1) : q[i] = s[(n + 1) + i - 1]
        BY <2>3, <4>1, SubSeqProperties
      <4> HIDE DEF q
      <4>3. Len(q) = Len(s) - n
        <5>1. n \in Nat /\ Len(s) \in Nat /\ n <= Len(s)
          BY <2>3
        <5>2. CASE n + 1 <= Len(s)
          <6>1. Len(q) = Len(s) - (n + 1) + 1
            BY <4>2, <5>2
          <6> QED BY <5>1, <6>1
        <5>3. CASE ~(n + 1 <= Len(s))
          <6>1. Len(q) = 0
            BY <4>2, <5>3
          <6> QED BY <5>1, <5>3, <6>1
        <5> QED BY <5>2, <5>3
      <4>4. ASSUME NEW i \in 1..(Len(s) - n) PROVE q[i] = s[i + n]
        <5>1. (n + 1) + i - 1 = i + n /\ i \in 1..(Len(s) - (n + 1) + 1)
          BY <2>3
        <5> QED BY <4>2, <5>1
      <4> QED BY <4>2, <4>3, <4>4
    <3> HIDE DEF p, q
    <3>3. p \o q \in Seq(S) /\ Len(p \o q) = Len(s) - 1
      <4>1. p \o q \in Seq(S) /\ Len(p \o q) = Len(p) + Len(q)
        BY <3>1, <3>2, ConcatProperties
      <4> QED BY <2>3, <3>1, <3>2, <4>1
    <3>4. \A i \in 1..Len(p \o q) : (p \o q)[i] = IF i < n THEN s[i] ELSE s[i + 1]
      <4> SUFFICES ASSUME NEW i \in 1..Len(p \o q) PROVE (p \o q)[i] = IF i < n THEN s[i] ELSE s[i + 1]
        OBVIOUS
      <4>1. CASE i < n
        BY <2>3, <3>1, <3>2, <3>3, <4>1
      <4>2. CASE ~(i < n)
        <5>1. i - (n - 1) \in 1..Len(q) /\ (i - (n - 1)) + n = i + 1
          BY <2>3, <3>2, <3>3, <4>2
        <5>2. (p \o q)[i] = q[i - (n - 1)]
          BY <2>3, <3>1, <3>2, <3>3, <4>2
        <5> QED BY <3>2, <4>2, <5>1, <5>2
      <4> QED BY <4>1, <4>2
    <3> QED BY <3>3, <3>4 DEF p, q
  <2>6. IsInjective(r)
    <3>1. DOMAIN r = 1..Len(r)
      BY <2>5
    <3> HIDE DEF r
    <3>2. ASSUME NEW i \in 1..Len(r), NEW j \in 1..Len(r), r[i] = r[j] PROVE i = j
      <4>1. PICK x, y : /\ x = (IF i < n THEN i ELSE i + 1) /\ y = (IF j < n THEN j ELSE j + 1)
        OBVIOUS
      <4>2. x \in 1..Len(s) /\ y \in 1..Len(s) /\ r[i] = s[x] /\ r[j] = s[y]
        BY <2>3, <2>5, <4>1
      <4>3. x = y
        BY <2>3, <3>2, <4>2 DEF IsInjective
      <4> QED BY <2>3, <2>5, <4>1, <4>3
    <3> QED BY <3>1, <3>2 DEF IsInjective
  <2>7. ASSUME NEW k PROVE Contains(r, k) <=> Contains(s, k) /\ k # l
    <3> HIDE DEF r
    <3>1. ASSUME NEW i \in 1..Len(s), s[i] = k, k # l PROVE \E j \in 1..Len(r) : r[j] = k
      <4>1. CASE i < n
        BY <2>3, <2>5, <3>1, <4>1
      <4>2. CASE i > n
        <5>1. i - 1 \in 1..Len(r) /\ ~(i - 1 < n) /\ (i - 1) + 1 = i
          BY <2>3, <2>5, <4>2
        <5> QED BY <2>5, <3>1, <5>1
      <4> QED BY <2>3, <3>1, <4>1, <4>2
    <3>2. ASSUME NEW j \in 1..Len(r), r[j] = k PROVE k # l /\ \E i \in 1..Len(s) : s[i] = k
      BY <2>3, <2>5, <3>2 DEF IsInjective
    <3> QED BY <3>1, <3>2 DEF Contains
  <2> QED BY <2>4, <2>5, <2>6, <2>7
<1> QED BY <1>1, <1>2

DeliveryCalls == [at : {"idle", "create", "update", "choose"} \cup Deleting,
                  location : Locations \cup {None}, chosen : BOOLEAN]

\* A location is created by one request, before anybody knows it.
CreationsAreAlone ==
  \A c \in Calls : About(c, "create") =>
    ~Stored(call[c].location) /\ \A d \in Calls \ {c} : call[d].location # call[c].location

\* Who deletes is alone and knows whether the address is the default.
DeletionsAreAlone ==
  \A c \in Calls : call[c].at \in Deleting =>
    /\ \A d \in Calls \ {c} : About(d, "idle")
    /\ About(c, "delete") => Stored(call[c].location) /\ (call[c].chosen <=> call[c].location = default)

\* Somebody is about to choose a default.
WillChoose(c) == (About(c, "choose") /\ Stored(call[c].location)) \/ About(c, "promote")

\* While there is no default, somebody will choose one, or the first address is still to come.
DefaultComes ==
  /\ stored = <<>> => \A c \in Calls : About(c, "create") => call[c].chosen
  /\ stored # <<>> /\ default = None => \E c \in Calls : WillChoose(c)

DeliveryInv ==
  /\ stored \in Seq(Locations) /\ IsInjective(stored)
  /\ default = None \/ Stored(default)
  /\ call \in [Calls -> DeliveryCalls]
  /\ \A c \in Calls : call[c].location = None <=> About(c, "idle")
  /\ CreationsAreAlone
  /\ disturbed \in BOOLEAN
  /\ disturbed \/ (DeletionsAreAlone /\ DefaultComes)

\* A call is changed alone.
LEMMA GoesAlone ==
  ASSUME call \in [Calls -> DeliveryCalls], NEW c \in Calls, NEW r, Goes(c, r)
  PROVE  call'[c] = r /\ \A d \in Calls \ {c} : call'[d] = call[d]
BY DEF Goes

\* A request that begins keeps the invariant.
LEMMA LocationStartKeeps ==
  ASSUME DeliveryInv, NEW c \in Calls, NEW l \in Locations, NEW chosen \in BOOLEAN,
         NEW at \in {"create", "update", "choose", "delete"}, Starts(c, at, l, chosen),
         at = "create" => /\ ~Stored(l) /\ \A d \in Calls : call[d].location # l
                          /\ stored = <<>> => chosen,
         at # "create" => Stored(l),
         at = "delete" => (chosen <=> l = default)
  PROVE  DeliveryInv'
<1>1. PICK r : r = [at |-> at, location |-> l, chosen |-> chosen]
  OBVIOUS
<1>2. r \in DeliveryCalls /\ r.at = at /\ r.location = l /\ r.chosen = chosen
  BY <1>1 DEF DeliveryCalls, Deleting
<1>3. call'[c] = r /\ \A d \in Calls \ {c} : call'[d] = call[d]
  BY <1>1, GoesAlone DEF Starts, DeliveryInv
<1>4. UNCHANGED <<stored, default>>
  BY DEF Starts
<1>5. call' \in [Calls -> DeliveryCalls]
  BY <1>1, <1>2 DEF Starts, Goes, DeliveryInv
<1>6. \A d \in Calls : call'[d].location = None <=> About(d, "idle")'
  BY <1>2, <1>3 DEF DeliveryInv, About
<1>7. CreationsAreAlone'
  <2> SUFFICES ASSUME NEW d \in Calls, About(d, "create")'
               PROVE  (~Stored(call[d].location) /\ \A e \in Calls \ {d} : call[e].location # call[d].location)'
    BY DEF CreationsAreAlone
  <2>1. CASE d = c
    BY <1>2, <1>3, <1>4, <2>1 DEF About, Stored
  <2>2. CASE d # c
    <3>1. About(d, "create") /\ call'[d] = call[d] /\ ~Stored(call[d].location)
      BY <1>3, <2>2 DEF About, DeliveryInv, CreationsAreAlone
    <3>2. call[d].location # l
      BY <3>1
    <3> QED BY <1>2, <1>3, <1>4, <2>2, <3>1, <3>2 DEF DeliveryInv, CreationsAreAlone, Stored
  <2> QED BY <2>1, <2>2
<1>8. disturbed' \in BOOLEAN
  BY DEF Starts
<1>9. disturbed' \/ (DeletionsAreAlone' /\ DefaultComes')
  <2> SUFFICES ASSUME ~disturbed' PROVE DeletionsAreAlone' /\ DefaultComes'
    OBVIOUS
  <2>1. /\ ~disturbed /\ DeletionsAreAlone /\ DefaultComes
        /\ \A d \in Calls \ {c} : About(d, "idle") \/ (at # "delete" /\ call[d].at \notin Deleting)
    BY DEF Starts, DeliveryInv, About
  <2>2. DeletionsAreAlone'
    BY <1>2, <1>3, <1>4, <2>1 DEF DeletionsAreAlone, About, Stored, Deleting
  <2>3. DefaultComes'
    <3>1. ASSUME NEW d \in Calls, WillChoose(d) PROVE WillChoose(d)'
      <4>1. d # c
        BY <3>1 DEF Starts, WillChoose, About
      <4> QED BY <1>3, <1>4, <3>1, <4>1 DEF WillChoose, About, Stored
    <3>2. stored = <<>> => \A d \in Calls : About(d, "create")' => call'[d].chosen
      BY <1>2, <1>3, <2>1 DEF DefaultComes, About
    <3> QED BY <1>4, <2>1, <3>1, <3>2 DEF DefaultComes
  <2> QED BY <2>2, <2>3
<1> QED BY <1>4, <1>5, <1>6, <1>7, <1>8, <1>9 DEF DeliveryInv, Stored

\* An address that is stored will be chosen, or is the default already.
LEMMA LocationInsertKeeps ==
  ASSUME DeliveryInv, NEW c \in Calls, InsertLocation(c)
  PROVE  DeliveryInv'
<1>1. PICK l, r : l = call[c].location /\ r = IF call[c].chosen THEN [call[c] EXCEPT !.at = "choose"] ELSE NoCall
  OBVIOUS
<1>2. /\ l \in Locations /\ ~Stored(l) /\ About(c, "create") /\ call[c] \in DeliveryCalls
      /\ \A d \in Calls \ {c} : call[d].location # l
  BY <1>1 DEF InsertLocation, DeliveryInv, CreationsAreAlone, About, DeliveryCalls
<1>3. /\ r \in DeliveryCalls /\ (r.location = None <=> r.at = "idle") /\ r.at \in {"idle", "choose"}
      /\ call[c].chosen => r.at = "choose" /\ r.location = l
  BY <1>1, <1>2 DEF DeliveryCalls, NoCall, Deleting
<1>4. Goes(c, r) /\ UNCHANGED <<default, disturbed>> /\ stored' = Append(stored, l)
  BY <1>1 DEF InsertLocation
<1>5. call'[c] = r /\ \A d \in Calls \ {c} : call'[d] = call[d]
  BY <1>4, GoesAlone DEF DeliveryInv
<1>6. call' \in [Calls -> DeliveryCalls]
  BY <1>3, <1>4 DEF Goes, DeliveryInv
<1>7. /\ stored' \in Seq(Locations) /\ IsInjective(stored')
      /\ \A k : Stored(k)' <=> Stored(k) \/ k = l
  <2>1. stored \in Seq(Locations) /\ IsInjective(stored) /\ \A i \in 1..Len(stored) : stored[i] # l
    BY <1>2 DEF DeliveryInv, Stored, Contains
  <2>2. /\ stored' \in Seq(Locations) /\ Len(stored') = Len(stored) + 1 /\ Len(stored) \in Nat
        /\ \A i \in 1..Len(stored) : stored'[i] = stored[i]
        /\ stored'[Len(stored) + 1] = l
    BY <1>2, <1>4, <2>1
  <2>3. DOMAIN stored = 1..Len(stored) /\ DOMAIN stored' = 1..Len(stored')
    BY <2>1, <2>2
  <2>4. \A i \in 1..Len(stored') : i \in 1..Len(stored) \/ i = Len(stored) + 1
    BY <2>2
  <2>5. IsInjective(stored')
    BY <2>1, <2>2, <2>3, <2>4 DEF IsInjective
  <2>6. ASSUME NEW k PROVE Stored(k)' <=> Stored(k) \/ k = l
    <3>1. Len(stored) + 1 \in 1..Len(stored') /\ \A i \in 1..Len(stored) : i \in 1..Len(stored')
      BY <2>2
    <3> QED BY <2>2, <2>4, <3>1 DEF Stored, Contains
  <2> QED BY <2>2, <2>5, <2>6
<1>8. stored' # <<>>
  BY <1>2, <1>4, <1>7 DEF DeliveryInv, Stored, Contains
<1>9. default' = None \/ Stored(default)'
  BY <1>4, <1>7 DEF DeliveryInv, Stored
<1>10. \A d \in Calls : call'[d].location = None <=> About(d, "idle")'
  BY <1>3, <1>5 DEF DeliveryInv, About
<1>11. CreationsAreAlone'
  <2> SUFFICES ASSUME NEW d \in Calls, About(d, "create")'
               PROVE  (~Stored(call[d].location) /\ \A e \in Calls \ {d} : call[e].location # call[d].location)'
    BY DEF CreationsAreAlone
  <2>1. d # c /\ About(d, "create") /\ call'[d] = call[d]
    BY <1>3, <1>5 DEF About
  <2>2. call[d].location # None
    BY <2>1 DEF DeliveryInv, About
  <2>3. (~Stored(call[d].location))'
    BY <1>2, <1>7, <2>1 DEF DeliveryInv, CreationsAreAlone
  <2>4. call'[c].location # call[d].location
    <3>1. r.location \in {l, None}
      BY <1>1, <1>2, <1>3 DEF DeliveryCalls, NoCall
    <3> QED BY <1>2, <1>5, <2>1, <2>2, <3>1
  <2> QED BY <1>5, <2>1, <2>3, <2>4 DEF DeliveryInv, CreationsAreAlone
<1>12. ASSUME ~disturbed' PROVE DeletionsAreAlone' /\ DefaultComes'
  <2>1. DeletionsAreAlone /\ DefaultComes
    BY <1>4, <1>12 DEF DeliveryInv
  <2>2. \A d \in Calls : call[d].at \notin Deleting
    BY <1>2, <2>1 DEF DeletionsAreAlone, About, Deleting
  <2>3. DeletionsAreAlone'
    BY <1>3, <1>5, <2>2 DEF DeletionsAreAlone, Deleting
  <2>4. ASSUME default' = None PROVE \E d \in Calls : WillChoose(d)'
    <3>1. CASE stored = <<>>
      <4>1. r.at = "choose" /\ r.location = l
        BY <1>2, <1>3, <2>1, <3>1 DEF DefaultComes
      <4> QED BY <1>5, <1>7, <4>1 DEF WillChoose, About, Stored
    <3>2. CASE stored # <<>>
      <4>1. PICK d \in Calls : WillChoose(d)
        BY <1>4, <2>1, <2>4, <3>2 DEF DefaultComes
      <4>2. d # c
        BY <1>2, <4>1 DEF WillChoose, About
      <4> QED BY <1>5, <1>7, <4>1, <4>2 DEF WillChoose, About, Stored
    <3> QED BY <3>1, <3>2
  <2> QED BY <1>8, <2>3, <2>4 DEF DefaultComes
<1> QED BY <1>4, <1>6, <1>7, <1>9, <1>10, <1>11, <1>12 DEF DeliveryInv

\* A request that ends, or goes on to choose a default, keeps the invariant unless it was
\* the one to choose.
LEMMA LocationMoveKeeps ==
  ASSUME DeliveryInv, NEW c \in Calls, NEW r \in DeliveryCalls, Goes(c, r), UNCHANGED stored, ~About(c, "idle"),
         default' = default \/ Stored(default'),
         \/ r = NoCall
         \/ About(c, "update") /\ r.at = "choose" /\ r.location = call[c].location,
         disturbed' \in BOOLEAN, disturbed => disturbed',
         ~disturbed' /\ default' = None => default = None /\ (stored = <<>> \/ ~WillChoose(c))
  PROVE  DeliveryInv'
<1>1. call'[c] = r /\ \A d \in Calls \ {c} : call'[d] = call[d]
  BY GoesAlone DEF DeliveryInv
<1>2. call' \in [Calls -> DeliveryCalls]
  BY DEF Goes, DeliveryInv
<1>3. default' = None \/ Stored(default)'
  BY DEF DeliveryInv, Stored
<1>4. r.at \in {"idle", "choose"} /\ (r.location = None <=> r.at = "idle") /\ r.location \in {None, call[c].location}
  BY DEF NoCall, DeliveryInv, About
<1>5. \A d \in Calls : call'[d].location = None <=> About(d, "idle")'
  BY <1>1, <1>4 DEF DeliveryInv, About
<1>6. CreationsAreAlone'
  <2> SUFFICES ASSUME NEW d \in Calls, About(d, "create")'
               PROVE  (~Stored(call[d].location) /\ \A e \in Calls \ {d} : call[e].location # call[d].location)'
    BY DEF CreationsAreAlone
  <2>1. d # c /\ About(d, "create") /\ call'[d] = call[d]
    BY <1>1, <1>4 DEF About
  <2>2. call[d].location # None /\ ~Stored(call[d].location)
        /\ \A e \in Calls \ {d} : call[e].location # call[d].location
    BY <2>1 DEF DeliveryInv, About, CreationsAreAlone
  <2>3. (~Stored(call[d].location))'
    BY <2>1, <2>2 DEF Stored
  <2> QED BY <1>1, <1>4, <2>1, <2>2, <2>3
<1>7. ASSUME ~disturbed' PROVE DeletionsAreAlone' /\ DefaultComes'
  <2>1. DeletionsAreAlone /\ DefaultComes
    BY <1>7 DEF DeliveryInv
  <2>2. \A d \in Calls \ {c} : call[d].at \notin Deleting
    BY <2>1 DEF DeletionsAreAlone
  <2>3. DeletionsAreAlone'
    BY <1>1, <1>4, <2>2 DEF DeletionsAreAlone, Deleting
  <2>4. ASSUME stored # <<>>, default' = None PROVE \E d \in Calls : WillChoose(d)'
    <3>1. PICK d \in Calls : WillChoose(d)
      BY <1>7, <2>1, <2>4 DEF DefaultComes
    <3>2. d # c
      BY <1>7, <2>4, <3>1
    <3> QED BY <1>1, <3>1, <3>2 DEF WillChoose, About, Stored
  <2>5. stored = <<>> => \A d \in Calls : About(d, "create")' => call'[d].chosen
    BY <1>1, <1>4, <2>1 DEF DefaultComes, About
  <2> QED BY <2>3, <2>4, <2>5 DEF DefaultComes
<1> QED BY <1>2, <1>3, <1>5, <1>6, <1>7 DEF DeliveryInv

\* A request about nothing is typed.
LEMMA NoCallIsTyped == NoCall \in DeliveryCalls
BY DEF NoCall, DeliveryCalls

\* An address goes, and with it perhaps the default; then somebody promotes another.
LEMMA LocationDeleteKeeps ==
  ASSUME DeliveryInv, NEW c \in Calls, DeleteRow(c)
  PROVE  DeliveryInv'
<1>1. PICK l, r : l = call[c].location
                  /\ r = IF Stored(l) /\ call[c].chosen THEN [call[c] EXCEPT !.at = "promote"] ELSE NoCall
  OBVIOUS
<1>2. About(c, "delete") /\ call[c] \in DeliveryCalls /\ l \in Locations
  BY <1>1 DEF DeleteRow, DeliveryInv, About, DeliveryCalls
<1>3. /\ r \in DeliveryCalls /\ (r.location = None <=> r.at = "idle") /\ r.at \in {"idle", "promote"}
      /\ Stored(l) /\ call[c].chosen => r.at = "promote"
      /\ r.location \in {None, l}
  BY <1>1, <1>2 DEF DeliveryCalls, NoCall, Deleting
<1>4. Goes(c, r) /\ UNCHANGED disturbed /\ stored' = RemoveFirst(stored, l)
      /\ default' = IF default = l THEN None ELSE default
  BY <1>1 DEF DeleteRow
<1>5. call'[c] = r /\ \A d \in Calls \ {c} : call'[d] = call[d]
  BY <1>4, GoesAlone DEF DeliveryInv
<1>6. call' \in [Calls -> DeliveryCalls]
  BY <1>3, <1>4 DEF Goes, DeliveryInv
<1>7. /\ stored' \in Seq(Locations) /\ IsInjective(stored')
      /\ \A k : Contains(stored', k) <=> Contains(stored, k) /\ k # l
  BY <1>4, RemovesOne DEF DeliveryInv
<1>8. default' = None \/ Stored(default)'
  BY <1>4, <1>7 DEF DeliveryInv, Stored
<1>9. \A d \in Calls : call'[d].location = None <=> About(d, "idle")'
  BY <1>3, <1>5 DEF DeliveryInv, About
<1>10. CreationsAreAlone'
  <2> SUFFICES ASSUME NEW d \in Calls, About(d, "create")'
               PROVE  (~Stored(call[d].location) /\ \A e \in Calls \ {d} : call[e].location # call[d].location)'
    BY DEF CreationsAreAlone
  <2>1. d # c /\ About(d, "create") /\ call'[d] = call[d]
    BY <1>3, <1>5 DEF About
  <2>2. call[d].location # None /\ ~Stored(call[d].location)
        /\ \A e \in Calls \ {d} : call[e].location # call[d].location
    BY <2>1 DEF DeliveryInv, About, CreationsAreAlone
  <2>3. (~Stored(call[d].location))'
    BY <1>7, <2>1, <2>2 DEF Stored
  <2> QED BY <1>1, <1>3, <1>5, <2>1, <2>2, <2>3
<1>11. ASSUME ~disturbed' PROVE DeletionsAreAlone' /\ DefaultComes'
  <2>1. /\ DefaultComes /\ \A d \in Calls \ {c} : About(d, "idle")
        /\ Stored(l) /\ (call[c].chosen <=> l = default)
    BY <1>1, <1>2, <1>4, <1>11 DEF DeliveryInv, DeletionsAreAlone, About, Deleting
  <2>2. \A d \in Calls \ {c} : About(d, "idle")'
    BY <1>5, <2>1 DEF About
  <2>3. DeletionsAreAlone'
    BY <1>3, <1>5, <2>2 DEF DeletionsAreAlone, About, Deleting
  <2>4. ASSUME default' = None PROVE WillChoose(c)'
    <3>1. stored # <<>>
      BY <2>1 DEF Stored, Contains
    <3>2. default # None
      <4>1. \A d \in Calls : ~WillChoose(d)
        BY <1>2, <2>1 DEF WillChoose, About
      <4> QED BY <2>1, <3>1, <4>1 DEF DefaultComes
    <3>3. r.at = "promote"
      BY <1>3, <1>4, <2>1, <2>4, <3>2
    <3> QED BY <1>5, <3>3 DEF WillChoose, About
  <2>5. \A d \in Calls : ~About(d, "create")'
    BY <1>3, <1>5, <2>2 DEF About
  <2> QED BY <2>3, <2>4, <2>5 DEF DefaultComes
<1> QED BY <1>4, <1>6, <1>7, <1>8, <1>9, <1>10, <1>11 DEF DeliveryInv

\* The invariant is inductive.
LEMMA DeliveryInvNext == DeliveryInv /\ [DeliveryNext]_deliveryVars => DeliveryInv'
<1> SUFFICES ASSUME DeliveryInv, [DeliveryNext]_deliveryVars PROVE DeliveryInv'
  OBVIOUS
<1>1. CASE UNCHANGED deliveryVars
  BY <1>1
  DEF deliveryVars, DeliveryInv, Stored, About, CreationsAreAlone, DeletionsAreAlone, DefaultComes, WillChoose
<1>2. ASSUME NEW c \in Calls, NEW l \in Locations, NEW asked \in BOOLEAN, CreateLocation(c, l, asked)
      PROVE  DeliveryInv'
  <2>1. (asked \/ stored = <<>>) \in BOOLEAN
    OBVIOUS
  <2> QED BY <1>2, <2>1, LocationStartKeeps DEF CreateLocation
<1>3. ASSUME NEW c \in Calls, NEW l \in Locations, SetDefaultLocation(c, l) PROVE DeliveryInv'
  BY <1>3, LocationStartKeeps DEF SetDefaultLocation
<1>4. ASSUME NEW c \in Calls, NEW l \in Locations, UpdateLocation(c, l) PROVE DeliveryInv'
  BY <1>4, LocationStartKeeps DEF UpdateLocation
<1>5. ASSUME NEW c \in Calls, NEW l \in Locations, DeleteLocation(c, l) PROVE DeliveryInv'
  <2>1. (l = default) \in BOOLEAN
    OBVIOUS
  <2> QED BY <1>5, <2>1, LocationStartKeeps DEF DeleteLocation
<1>6. ASSUME NEW c \in Calls, RewriteLocation(c) PROVE DeliveryInv'
  <2>1. call[c] \in DeliveryCalls /\ About(c, "update")
    BY <1>6 DEF DeliveryInv, RewriteLocation
  <2>2. PICK r : r = IF Stored(call[c].location) THEN [call[c] EXCEPT !.at = "choose"] ELSE NoCall
    OBVIOUS
  <2>3. r \in DeliveryCalls /\ (r = NoCall \/ (r.at = "choose" /\ r.location = call[c].location))
    BY <2>1, <2>2, NoCallIsTyped DEF DeliveryCalls
  <2>4. Goes(c, r) /\ UNCHANGED <<stored, default, disturbed>>
    BY <1>6, <2>2 DEF RewriteLocation
  <2>5. ~WillChoose(c) /\ ~About(c, "idle")
    BY <2>1 DEF WillChoose, About
  <2>6. disturbed' \in BOOLEAN
    BY <2>4 DEF DeliveryInv
  <2> QED BY <2>1, <2>3, <2>4, <2>5, <2>6, LocationMoveKeeps
<1>7. ASSUME NEW c \in Calls, SetDefault(c) PROVE DeliveryInv'
  <2>1. Goes(c, NoCall) /\ UNCHANGED <<stored, disturbed>> /\ About(c, "choose") /\ disturbed' \in BOOLEAN
    BY <1>7 DEF SetDefault, DeliveryInv
  <2>2. \/ Stored(call[c].location) /\ default' = call[c].location
        \/ (~Stored(call[c].location) \/ default \notin {None, call[c].location}) /\ UNCHANGED default
    BY <1>7 DEF SetDefault
  <2>3. default' = None => default = None /\ ~WillChoose(c)
    BY <2>1, <2>2 DEF WillChoose, About, DeliveryInv
  <2>4. default' = default \/ Stored(default')
    BY <2>2
  <2>5. ~About(c, "idle")
    BY <2>1 DEF About
  <2> QED BY <2>1, <2>3, <2>4, <2>5, NoCallIsTyped, LocationMoveKeeps
<1>8. ASSUME NEW c \in Calls, PromoteEarliestAsDefault(c) PROVE DeliveryInv'
  <2>1. Goes(c, NoCall) /\ UNCHANGED <<stored, disturbed>> /\ ~About(c, "idle") /\ disturbed' \in BOOLEAN
    BY <1>8 DEF PromoteEarliestAsDefault, About, DeliveryInv
  <2>2. default' = IF default = None /\ stored # <<>> THEN Head(stored) ELSE default
    BY <1>8 DEF PromoteEarliestAsDefault
  <2>3. stored # <<>> => Head(stored) \in Locations /\ Stored(Head(stored))
    BY DEF DeliveryInv, Stored, Contains
  <2>4. default' = default \/ Stored(default')
    BY <2>2, <2>3
  <2>5. default' = None => default = None /\ stored = <<>>
    BY <2>2, <2>3
  <2> QED BY <2>1, <2>4, <2>5, NoCallIsTyped, LocationMoveKeeps
<1>9. ASSUME NEW c \in Calls, CallDies(c) PROVE DeliveryInv'
  <2>1. Goes(c, NoCall) /\ UNCHANGED <<stored, default>> /\ ~About(c, "idle")
        /\ disturbed' = (disturbed \/ (default = None /\ call[c].at \in {"choose", "promote"}))
    BY <1>9 DEF CallDies
  <2>2. disturbed' \in BOOLEAN
    BY <2>1
  <2>3. ~disturbed' /\ default' = None => default = None /\ ~WillChoose(c)
    BY <2>1 DEF WillChoose, About
  <2> QED BY <2>1, <2>2, <2>3, NoCallIsTyped, LocationMoveKeeps
<1> QED BY <1>1, <1>2, <1>3, <1>4, <1>5, <1>6, <1>7, <1>8, <1>9, LocationInsertKeeps, LocationDeleteKeeps DEF DeliveryNext

\* At first there is no address, and no request is about one.
LEMMA DeliveryInvInit == DeliveryInit => DeliveryInv
<1> SUFFICES ASSUME DeliveryInit PROVE DeliveryInv
  OBVIOUS
<1>1. stored = <<>> /\ default = None /\ disturbed = FALSE /\ call = [c \in Calls |-> NoCall]
  BY DEF DeliveryInit
<1>2. \A c \in Calls : call[c] = NoCall
  BY <1>1
<1>3. stored \in Seq(Locations) /\ IsInjective(stored)
  BY <1>1 DEF IsInjective
<1> QED BY <1>1, <1>2, <1>3, NoCallIsTyped
        DEF DeliveryInv, NoCall, CreationsAreAlone, DeletionsAreAlone, DefaultComes, About, Deleting

\* The invariant holds in every reachable state.
LEMMA DeliveryInvariance == DeliverySpec => []DeliveryInv
BY DeliveryInvInit, DeliveryInvNext, PTL DEF DeliverySpec

\* Addresses are listed once, and the default is one of them.
THEOREM AddressesAreTyped == DeliverySpec => []DeliveryTypeOK
<1>1. DeliveryInv => DeliveryTypeOK
  BY DEF DeliveryInv, DeliveryTypeOK, DeliveryCalls
<1> QED BY <1>1, DeliveryInvariance, PTL

\* Whatever creations and choices overlap, a customer with addresses has a default when no
\* request is under way; only deletions that overlap others, or deaths, take it.
THEOREM ADefaultRemains == DeliverySpec => []DefaultRemains
<1>1. DeliveryInv => DefaultRemains
  BY DEF DeliveryInv, DefaultRemains, DefaultComes, WillChoose, About
<1> QED BY <1>1, DeliveryInvariance, PTL

HIDE LocationAssumption

-----------------------------------------------------------------------------
(* Routing. *)

Decisions == [store : Shops, status : {"ASSIGNED", "OVERRIDDEN"}]

Errands == [at : {"idle", "rules", "mark", "create"}, store : Shops \cup {None},
            rule : RuleIds \cup {None}, last : Nat, manual : BOOLEAN]

\* What a request has decided: a store, and an override marks a decision there is.
ErrandIsSound(e) ==
  /\ e.at \in {"mark", "create"} => e.store \in Shops
  /\ e.at = "mark" => e.manual /\ e.last \in 1..Len(decision)

RoutingInv ==
  /\ rule \in [RuleIds -> RuleForms \cup {None}]
  /\ decision \in Seq(Decisions)
  /\ errand \in [Calls -> Errands]
  /\ \A c \in Calls : ErrandIsSound(errand[c])
  /\ halted \in BOOLEAN
  /\ DecisionRemains

\* A request that is about nothing is sound.
LEMMA NoErrandIsSound == NoErrand \in Errands /\ NoErrand.at = "idle" /\ NoErrand.manual = FALSE
BY DEF NoErrand, Errands

\* What a request that starts again may carry.
LEMMA ErrandsAre ==
  ASSUME NEW at \in {"idle", "rules", "mark", "create"}, NEW store \in Shops \cup {None},
         NEW id \in RuleIds \cup {None}, NEW last \in Nat, NEW manual \in BOOLEAN,
         NEW e, e = [at |-> at, store |-> store, rule |-> id, last |-> last, manual |-> manual]
  PROVE  e \in Errands
BY DEF Errands

\* One request goes on; no decision is added or marked.
LEMMA ErrandGoesOn ==
  ASSUME RoutingInv, NEW c \in Calls, NEW e \in Errands, ErrandIsSound(e), Proceeds(c, e),
         UNCHANGED decision, rule' \in [RuleIds -> RuleForms \cup {None}],
         halted' \in BOOLEAN, halted => halted',
         halted' \/ (Runs(c, "create") /\ errand[c].manual => e.at = "create" /\ e.manual)
  PROVE  RoutingInv'
<1>1. /\ errand'[c] = e /\ \A d \in Calls \ {c} : errand'[d] = errand[d]
      /\ errand' \in [Calls -> Errands]
  BY DEF Proceeds, RoutingInv
<1>2. \A d \in Calls : ErrandIsSound(errand[d])'
  BY <1>1 DEF RoutingInv, ErrandIsSound
<1>3. DecisionRemains'
  <2> SUFFICES ASSUME ~halted', decision # <<>>, Last(decision).status # "ASSIGNED"
               PROVE  \E d \in Calls : (Runs(d, "create") /\ errand[d].manual)'
    BY DEF DecisionRemains, Last
  <2>1. PICK d \in Calls : Runs(d, "create") /\ errand[d].manual
    BY DEF RoutingInv, DecisionRemains
  <2>2. CASE d = c
    BY <1>1, <2>1, <2>2 DEF Runs
  <2>3. CASE d # c
    BY <1>1, <2>1, <2>3 DEF Runs
  <2> QED BY <2>2, <2>3
<1> QED BY <1>1, <1>2, <1>3 DEF RoutingInv

\* The invariant is inductive.
LEMMA RoutingInvNext == RoutingInv /\ [RoutingNext]_routingVars => RoutingInv'
<1> SUFFICES ASSUME RoutingInv, [RoutingNext]_routingVars PROVE RoutingInv'
  OBVIOUS
<1>0. /\ errand \in [Calls -> Errands] /\ \A c \in Calls : ErrandIsSound(errand[c])
      /\ rule \in [RuleIds -> RuleForms \cup {None}] /\ decision \in Seq(Decisions) /\ halted \in BOOLEAN
  BY DEF RoutingInv
<1>1. CASE UNCHANGED routingVars
  BY <1>1 DEF routingVars, RoutingInv, ErrandIsSound, DecisionRemains, Runs
<1>2. ASSUME NEW r \in RuleIds, NEW form \in RuleForms \cup {None}, WriteRule(r, form) PROVE RoutingInv'
  BY <1>2 DEF WriteRule, RoutingInv, ErrandIsSound, DecisionRemains, Runs
<1>3. ASSUME NEW c \in Calls, GetStoreCandidates(c) PROVE RoutingInv'
  <2>1. PICK e : e = [NoErrand EXCEPT !.at = "rules"]
    OBVIOUS
  <2>2. e \in Errands /\ e.at = "rules"
    BY <2>1 DEF NoErrand, Errands
  <2>3. ErrandIsSound(e)
    BY <2>2 DEF ErrandIsSound
  <2>4. Proceeds(c, e) /\ UNCHANGED <<rule, decision, halted>> /\ ~Runs(c, "create")
    BY <1>3, <2>1 DEF GetStoreCandidates, Runs
  <2> QED BY <1>0, <2>2, <2>3, <2>4, ErrandGoesOn
<1>4. ASSUME NEW c \in Calls, ListActiveRules(c) PROVE RoutingInv'
  <2>1. PICK r \in RuleIds \cup {None} : Proceeds(c, [NoErrand EXCEPT !.at = "create", !.store = Home, !.rule = r])
    BY <1>4 DEF ListActiveRules, Targeting
  <2>2. PICK e : e = [NoErrand EXCEPT !.at = "create", !.store = Home, !.rule = r]
    OBVIOUS
  <2>3. e = [at |-> "create", store |-> Home, rule |-> r, last |-> 0, manual |-> FALSE]
    BY <2>2 DEF NoErrand
  <2>4. e \in Errands /\ ErrandIsSound(e)
    BY <2>3, RoutingAssumption DEF Errands, ErrandIsSound
  <2>5. Proceeds(c, e) /\ UNCHANGED <<rule, decision, halted>> /\ ~Runs(c, "create")
    BY <1>4, <2>1, <2>2 DEF ListActiveRules, Runs
  <2> QED BY <1>0, <2>4, <2>5, ErrandGoesOn
<1>5. ASSUME NEW c \in Calls, NEW s \in Shops, OverrideRoute(c, s) PROVE RoutingInv'
  <2>1. PICK e : e = [NoErrand EXCEPT !.at = IF decision = <<>> THEN "create" ELSE "mark",
                        !.store = s, !.last = Len(decision), !.manual = TRUE]
    OBVIOUS
  <2>2. /\ e \in Errands /\ e.at = (IF decision = <<>> THEN "create" ELSE "mark")
        /\ e.store = s /\ e.last = Len(decision) /\ e.manual
    <3>1. PICK at \in {"create", "mark"} : at = IF decision = <<>> THEN "create" ELSE "mark"
      OBVIOUS
    <3>2. e = [at |-> at, store |-> s, rule |-> None, last |-> Len(decision), manual |-> TRUE]
      BY <2>1, <3>1 DEF NoErrand
    <3>3. Len(decision) \in Nat
      BY <1>0
    <3>4. e \in Errands
      BY <3>2, <3>3, ErrandsAre
    <3> QED BY <3>1, <3>2, <3>4
  <2>3. ErrandIsSound(e)
    BY <1>0, <2>2 DEF ErrandIsSound
  <2>4. Proceeds(c, e) /\ UNCHANGED <<rule, decision, halted>> /\ ~Runs(c, "create")
    BY <1>5, <2>1 DEF OverrideRoute, Runs
  <2> QED BY <1>0, <2>2, <2>3, <2>4, ErrandGoesOn
<1>6. ASSUME NEW c \in Calls, MarkOverridden(c) PROVE RoutingInv'
  <2>1. PICK e : e = [errand[c] EXCEPT !.at = "create", !.last = 0]
    OBVIOUS
  <2>2. /\ errand[c] \in Errands /\ errand[c].at = "mark" /\ errand[c].manual /\ errand[c].store \in Shops
        /\ errand[c].last \in 1..Len(decision)
    BY <1>0, <1>6 DEF MarkOverridden, Runs, ErrandIsSound
  <2>3. e \in Errands /\ e.at = "create" /\ e.manual /\ e.store \in Shops
    BY <2>1, <2>2 DEF Errands
  <2>4. /\ errand'[c] = e /\ \A d \in Calls \ {c} : errand'[d] = errand[d]
        /\ errand' \in [Calls -> Errands] /\ UNCHANGED <<rule, halted>>
    BY <1>0, <1>6, <2>1, <2>3 DEF MarkOverridden, Proceeds
  <2>5. decision' \in Seq(Decisions) /\ Len(decision') = Len(decision)
    <3>1. CASE decision' = decision
      BY <1>0, <3>1
    <3>2. CASE decision' = [decision EXCEPT ![errand[c].last].status = "OVERRIDDEN"]
      <4>1. PICK x : x = [decision[errand[c].last] EXCEPT !.status = "OVERRIDDEN"]
        OBVIOUS
      <4>2. x \in Decisions
        <5>1. decision[errand[c].last] \in Decisions
          BY <1>0, <2>2
        <5>2. PICK d \in Decisions : x = [d EXCEPT !.status = "OVERRIDDEN"]
          BY <4>1, <5>1
        <5> QED BY <5>2 DEF Decisions
      <4>3. decision' = [decision EXCEPT ![errand[c].last] = x]
        BY <3>2, <4>1
      <4> QED BY <1>0, <2>2, <4>2, <4>3
    <3> QED BY <1>6, <3>1, <3>2 DEF MarkOverridden
  <2>6. \A d \in Calls : ErrandIsSound(errand[d])'
    BY <1>0, <2>3, <2>4, <2>5 DEF ErrandIsSound
  <2>7. (Runs(c, "create") /\ errand[c].manual)'
    BY <2>3, <2>4 DEF Runs
  <2>8. DecisionRemains'
    BY <2>7 DEF DecisionRemains
  <2> QED BY <1>0, <2>4, <2>5, <2>6, <2>8 DEF RoutingInv
<1>7. ASSUME NEW c \in Calls, CreateDecision(c) PROVE RoutingInv'
  <2>1. /\ errand'[c] = NoErrand /\ \A d \in Calls \ {c} : errand'[d] = errand[d]
        /\ errand' \in [Calls -> Errands] /\ UNCHANGED <<rule, halted>>
    BY <1>0, <1>7, NoErrandIsSound DEF CreateDecision, Proceeds
  <2>2. PICK x : x = [store |-> errand[c].store, status |-> "ASSIGNED"]
    OBVIOUS
  <2>3. x \in Decisions /\ x.status = "ASSIGNED" /\ decision' = Append(decision, x)
    <3>1. errand[c].store \in Shops
      BY <1>0, <1>7 DEF CreateDecision, Runs, ErrandIsSound
    <3>2. x \in Decisions
      <4>1. \A s \in Shops : [store |-> s, status |-> "ASSIGNED"] \in Decisions
        BY DEF Decisions
      <4> QED BY <2>2, <3>1, <4>1
    <3> QED BY <1>7, <2>2, <3>2 DEF CreateDecision
  <2>4. decision' \in Seq(Decisions) /\ Len(decision') = Len(decision) + 1 /\ decision'[Len(decision')] = x
    BY <1>0, <2>3
  <2>5. \A d \in Calls : ErrandIsSound(errand[d])'
    <3> SUFFICES ASSUME NEW d \in Calls PROVE ErrandIsSound(errand[d])'
      OBVIOUS
    <3>1. CASE d = c
      BY <2>1, <3>1, NoErrandIsSound DEF ErrandIsSound
    <3>2. CASE d # c
      <4>1. 1..Len(decision) \subseteq 1..Len(decision')
        BY <1>0, <2>4
      <4> QED BY <1>0, <2>1, <3>2, <4>1 DEF ErrandIsSound
    <3> QED BY <3>1, <3>2
  <2>6. DecisionRemains'
    BY <2>3, <2>4 DEF DecisionRemains, Last
  <2> QED BY <1>0, <2>1, <2>4, <2>5, <2>6 DEF RoutingInv
<1>8. ASSUME NEW c \in Calls, ErrandDies(c) PROVE RoutingInv'
  <2>1. Proceeds(c, NoErrand) /\ UNCHANGED <<rule, decision>>
        /\ halted' = (halted \/ (Runs(c, "create") /\ errand[c].manual))
    BY <1>8 DEF ErrandDies
  <2>2. ErrandIsSound(NoErrand)
    BY NoErrandIsSound DEF ErrandIsSound
  <2>3. errand[c].manual \in BOOLEAN
    BY <1>0 DEF Errands
  <2>4. halted' \in BOOLEAN /\ (halted => halted') /\ (halted' \/ ~(Runs(c, "create") /\ errand[c].manual))
    BY <1>0, <2>1, <2>3 DEF Runs
  <2> QED BY <1>0, <2>1, <2>2, <2>4, NoErrandIsSound, ErrandGoesOn
<1> QED BY <1>1, <1>2, <1>3, <1>4, <1>5, <1>6, <1>7, <1>8 DEF RoutingNext, DeleteRule

\* At first there is no rule and no decision.
LEMMA RoutingInvInit == RoutingInit => RoutingInv
<1> SUFFICES ASSUME RoutingInit PROVE RoutingInv
  OBVIOUS
<1>1. rule = [r \in RuleIds |-> None] /\ decision = <<>> /\ errand = [c \in Calls |-> NoErrand] /\ halted = FALSE
  BY DEF RoutingInit
<1>2. errand \in [Calls -> Errands] /\ \A c \in Calls : ErrandIsSound(errand[c])
  BY <1>1, NoErrandIsSound DEF ErrandIsSound
<1>3. rule \in [RuleIds -> RuleForms \cup {None}] /\ decision \in Seq(Decisions) /\ halted \in BOOLEAN
  <2>1. <<>> \in Seq(Decisions)
    OBVIOUS
  <2>2. halted = FALSE /\ decision = <<>> /\ rule = [r \in RuleIds |-> None]
    BY <1>1
  <2>3. rule \in [RuleIds -> RuleForms \cup {None}]
    BY <2>2
  <2> QED BY <2>1, <2>2, <2>3
<1>4. DecisionRemains
  BY <1>1 DEF DecisionRemains
<1> QED BY <1>2, <1>3, <1>4 DEF RoutingInv

\* The invariant holds in every reachable state.
LEMMA RoutingInvariance == RoutingSpec => []RoutingInv
BY RoutingInvInit, RoutingInvNext, PTL DEF RoutingSpec

\* Rules and decisions are well-typed: a decision is about a store.
THEOREM RoutingIsTyped == RoutingSpec => []RoutingTypeOK
<1>1. RoutingInv => RoutingTypeOK
  BY DEF RoutingInv, RoutingTypeOK, Decisions, Errands
<1> QED BY <1>1, RoutingInvariance, PTL

\* However requests that route and override an order overlap, the last decision stands,
\* unless an override died between its two statements.
THEOREM ADecisionRemains == RoutingSpec => []DecisionRemains
<1>1. RoutingInv => DecisionRemains
  BY DEF RoutingInv
<1> QED BY <1>1, RoutingInvariance, PTL

-----------------------------------------------------------------------------
(* The parts of a store together. *)

\* The parts have no state in common, so their invariants hold side by side.
StoreInv == OrderInv /\ PosInv /\ JobInv /\ AccountsInv /\ DeliveryInv /\ RoutingInv

\* Every part begins well.
LEMMA StoreInvInit == MCInit => StoreInv
BY OrderInvInit, PosInvInit, JobInvInit, AccountsInvInit, DeliveryInvInit, RoutingInvInit DEF MCInit, StoreInv

\* A step is one of a part, and a stutter of the others.
LEMMA PartsStep ==
  [MCNext]_<<part, orderVars, posVars, jobVars, accountVars, deliveryVars, routingVars>> =>
    /\ [OrderNext]_orderVars /\ [PosNext]_posVars /\ [JobNext]_jobVars
    /\ [AccountsNext]_accountVars /\ [DeliveryNext]_deliveryVars /\ [RoutingNext]_routingVars
BY DEF MCNext

\* Every step keeps the invariant of its part, and the others.
LEMMA StoreInvNext ==
  StoreInv /\ [MCNext]_<<part, orderVars, posVars, jobVars, accountVars, deliveryVars, routingVars>> => StoreInv'
BY PartsStep, OrderInvNext, PosInvNext, JobInvNext, AccountsInvNext, DeliveryInvNext, RoutingInvNext DEF StoreInv

\* The invariants of the parts hold in every reachable state.
LEMMA StoreInvariance == MCSpec => []StoreInv
BY StoreInvInit, StoreInvNext, PTL DEF MCSpec

\* The rows and requests of every part keep their shape, whatever the other parts do.
THEOREM StoreIsTyped == MCSpec => []StoreTypeOK
<1>1. StoreInv => StoreTypeOK
  <2> SUFFICES ASSUME StoreInv PROVE StoreTypeOK
    OBVIOUS
  <2>1. OrderTypeOK /\ JobTypeOK /\ AccountsTypeOK
    BY DEF StoreInv, OrderInv, JobInv, AccountsInv
  <2>2. PosTypeOK
    BY RowsAreTyped DEF StoreInv
  <2>3. DeliveryTypeOK
    BY DEF StoreInv, DeliveryInv, DeliveryTypeOK, DeliveryCalls
  <2>4. RoutingTypeOK
    BY DEF StoreInv, RoutingInv, RoutingTypeOK, Decisions, Errands
  <2> QED BY <2>1, <2>2, <2>3, <2>4 DEF StoreTypeOK
<1> QED BY <1>1, StoreInvariance, PTL

\* The last administrator, the default address and the store of a routed order are lost to
\* requests that overlap, or to a crash, only; an administrator must have been seeded.
THEOREM OnlyOverlapsLose == Seeded # {} /\ MCSpec => []OnlyOverlapsLoseTheLast
<1>1. Seeded # {} /\ MCInit => AdminInv
  BY AdminInvInit DEF MCInit
<1>2. StoreInv /\ AdminInv /\ [MCNext]_<<part, orderVars, posVars, jobVars, accountVars, deliveryVars, routingVars>>
        => AdminInv'
  BY PartsStep, AdminInvNext DEF StoreInv
<1>3. StoreInv /\ AdminInv => OnlyOverlapsLoseTheLast
  <2> SUFFICES ASSUME StoreInv, AdminInv PROVE OnlyOverlapsLoseTheLast
    OBVIOUS
  <2>1. AdministratorRemains
    BY DEF AdminInv, AdministratorRemains
  <2>2. DefaultRemains
    BY DEF StoreInv, DeliveryInv, DefaultRemains, DefaultComes, WillChoose, About
  <2>3. DecisionRemains
    BY DEF StoreInv, RoutingInv
  <2> QED BY <2>1, <2>2, <2>3 DEF OnlyOverlapsLoseTheLast
<1> QED BY <1>1, <1>2, <1>3, StoreInvariance, PTL DEF MCSpec

-----------------------------------------------------------------------------
(* Opening hours: the requests' transactions never hold a row together, so that the one
   that commits replaces the whole week. *)

Ats == {"new", "delete", "insert", "committed", "told", "error"}

Requests ==
  [at : Ats, body : Weeks \cup {<<>>}, saw : [Days -> Calls \cup {None}], gone : SUBSET Days, put : Nat]

\* What is written, and by whom.
HoursShape ==
  /\ hours \in [Days -> Calls \cup {None}]
  /\ replace \in [Calls -> Requests]

\* A transaction works on a whole week, and only one past its DELETE holds rows.
OpenIsValid ==
  \A r \in Calls :
    /\ replace[r].at \in {"delete", "insert"} => validateHours(replace[r].body)
    /\ replace[r].at # "insert" => replace[r].gone = {} /\ replace[r].put = 0
    /\ replace[r].put <= Len(replace[r].body)

\* The committed rows are one request's week.
WeekIsWhole == hours = NoHours \/ \E r \in Calls : hours = [d \in Days |-> r]

\* No row is held by two transactions: this is what the locks are for.
RowsAreHeldOnce == \A q, r \in Calls : q # r => Holds(q) \cap Holds(r) = {}

\* Who has inserted a row found none committed there, or has deleted it.
InsertsFoundRoom ==
  \A r \in Calls : \A d \in Inserted(r) : hours[d] = None \/ d \in replace[r].gone

HoursInv == HoursShape /\ OpenIsValid /\ WeekIsWhole /\ RowsAreHeldOnce /\ InsertsFoundRoom

-----------------------------------------------------------------------------

\* Bodies are sequences.
LEMMA BodiesAreSequences ==
  ASSUME NEW body \in Weeks \cup {<<>>}
  PROVE  Len(body) \in Nat /\ DOMAIN body = 1..Len(body)
<1>1. CASE body \in Weeks
  BY <1>1, HoursAssumption
<1>2. CASE body = <<>>
  BY <1>2
<1> QED BY <1>1, <1>2

\* A body that validates has an entry for every day (service.go): its entries name
\* different days, and there are as many as days.
LEMMA ValidBodiesAreWeeks ==
  ASSUME NEW body \in Weeks \cup {<<>>}, validateHours(body)
  PROVE  {body[i].day : i \in 1..Len(body)} = Days
<1> DEFINE N == 1..Len(body)
           f == [i \in N |-> body[i].day]
<1>1. Len(body) \in Nat /\ DOMAIN body = N
  BY BodiesAreSequences
<1>2. IsFiniteSet(Days)
  BY HoursAssumption
<1>3. Cardinality(Days) = Len(body)
  BY DEF validateHours
<1>4. IsFiniteSet(N) /\ Cardinality(N) = Len(body)
  <2>1. /\ IsFiniteSet(1..Len(body))
        /\ Cardinality(1..Len(body)) = IF 1 > Len(body) THEN 0 ELSE Len(body) - 1 + 1
    BY <1>1, FS_Interval
  <2> QED BY <1>1, <2>1
<1>5. f \in [N -> Days]
  BY <1>1 DEF validateHours
<1>6. \A i \in N : \A j \in 1..(i - 1) : body[j].day # body[i].day
  BY <1>1 DEF validateHours
<1>7. ASSUME NEW i \in N, NEW j \in N, f[i] = f[j] PROVE i = j
  <2>1. i \in Nat /\ j \in Nat /\ i >= 1 /\ j >= 1
    BY <1>1
  <2>2. i > j => j \in 1..(i - 1)
    BY <2>1
  <2>3. j > i => i \in 1..(j - 1)
    BY <2>1
  <2> QED BY <1>6, <1>7, <2>1, <2>2, <2>3
<1> HIDE DEF f
<1>8. f \in Injection(N, Days)
  BY <1>5, <1>7 DEF Injection, IsInjective
<1>9. f \in Surjection(N, Days)
  BY <1>2, <1>3, <1>4, <1>8, FS_Injection
<1>10. \A d \in Days : \E i \in N : f[i] = d
  BY <1>9 DEF Surjection
<1> QED BY <1>5, <1>10 DEF f

\* A transaction whose entries are all inserted holds every row.
LEMMA TheLastHoldsAll ==
  ASSUME HoursInv, NEW r \in Calls, replace[r].at = "insert", ~ToInsert(r)
  PROVE  Inserted(r) = Days
<1>1. replace[r].body \in Weeks \cup {<<>>} /\ replace[r].put \in Nat
  BY DEF HoursInv, HoursShape, Requests
<1>2. validateHours(replace[r].body) /\ replace[r].put <= Len(replace[r].body)
  BY DEF HoursInv, OpenIsValid
<1>3. Len(replace[r].body) \in Nat
  BY <1>1, BodiesAreSequences
<1>4. replace[r].put = Len(replace[r].body)
  BY <1>1, <1>2, <1>3 DEF ToInsert
<1> QED BY <1>1, <1>2, <1>4, ValidBodiesAreWeeks DEF Inserted

-----------------------------------------------------------------------------

\* What a step that gives r's rows back, or lets it take some, leaves to the others.
LEMMA OthersHoldTheSame ==
  ASSUME NEW r \in Calls, NEW k, replace' = [replace EXCEPT ![r] = k], HoursShape
  PROVE  \A q \in Calls \ {r} :
           replace'[q] = replace[q] /\ Holds(q)' = Holds(q) /\ Inserted(q)' = Inserted(q)
<1> SUFFICES ASSUME NEW q \in Calls \ {r}
             PROVE  replace'[q] = replace[q] /\ Holds(q)' = Holds(q) /\ Inserted(q)' = Inserted(q)
  OBVIOUS
<1>1. replace'[q] = replace[q]
  BY DEF HoursShape
<1>2. Inserted(q)' = Inserted(q)
  BY <1>1 DEF Inserted
<1> QED BY <1>1, <1>2 DEF Holds

\* A step of r that leaves the week alone keeps the invariant if r is then still as it
\* should be and holds no row of another.
LEMMA OneMoves ==
  ASSUME HoursInv, NEW r \in Calls, NEW k \in Requests,
         replace' = [replace EXCEPT ![r] = k], UNCHANGED hours,
         k.at \in {"delete", "insert"} => validateHours(k.body),
         k.at # "insert" => k.gone = {} /\ k.put = 0,
         k.put <= Len(k.body),
         \A q \in Calls \ {r} : Holds(r)' \cap Holds(q) = {},
         \A d \in Inserted(r)' : hours[d] = None \/ d \in k.gone
  PROVE  HoursInv'
<1> USE DEF HoursInv
<1>0. replace \in [Calls -> Requests]
  BY DEF HoursShape
<1>1. replace'[r] = k
  BY <1>0
<1>2. \A q \in Calls \ {r} :
        replace'[q] = replace[q] /\ Holds(q)' = Holds(q) /\ Inserted(q)' = Inserted(q)
  BY OthersHoldTheSame
<1>3. HoursShape'
  BY <1>0 DEF HoursShape
<1>4. OpenIsValid'
  <2> SUFFICES ASSUME NEW q \in Calls
               PROVE  /\ replace'[q].at \in {"delete", "insert"} => validateHours(replace'[q].body)
                      /\ replace'[q].at # "insert" => replace'[q].gone = {} /\ replace'[q].put = 0
                      /\ replace'[q].put <= Len(replace'[q].body)
    BY DEF OpenIsValid, validateHours, RowAllowed
  <2>1. CASE q = r
    BY <1>1, <2>1
  <2>2. CASE q # r
    BY <1>2, <2>2 DEF OpenIsValid
  <2> QED BY <2>1, <2>2
<1>5. WeekIsWhole'
  BY DEF WeekIsWhole, NoHours
<1>6. RowsAreHeldOnce'
  BY <1>2 DEF RowsAreHeldOnce
<1>7. InsertsFoundRoom'
  BY <1>1, <1>2 DEF InsertsFoundRoom
<1> QED BY <1>3, <1>4, <1>5, <1>6, <1>7

\* A request begins its transaction, or its body is refused.
LEMMA BeginKeeps ==
  ASSUME HoursInv, NEW r \in Calls, NEW body \in Weeks, Begin(r, body)
  PROVE  HoursInv'
<1>0. replace \in [Calls -> Requests] /\ hours \in [Days -> Calls \cup {None}]
  BY DEF HoursInv, HoursShape
<1>1. replace[r].at = "new" /\ UNCHANGED hours
  BY DEF Begin
<1>2. replace[r].gone = {} /\ replace[r].put = 0 /\ replace[r].put <= Len(replace[r].body)
  BY <1>1 DEF HoursInv, OpenIsValid
<1>3. CASE validateHours(body)
  <2>0. PICK k : k = [replace[r] EXCEPT !.at = "delete", !.body = body, !.saw = hours]
    OBVIOUS
  <2>1. /\ k \in Requests /\ k.at = "delete" /\ k.body = body
        /\ k.gone = replace[r].gone /\ k.put = replace[r].put
    BY <1>0, <2>0 DEF Requests, Ats
  <2>3. replace' = [replace EXCEPT ![r] = k]
    BY <1>3, <2>0 DEF Begin
  <2>4. k.gone = {} /\ k.put = 0
    BY <1>2, <2>1
  <2>5. replace'[r] = k
    BY <1>0, <2>3
  <2>6. Holds(r)' = {} /\ Inserted(r)' = {}
    BY <2>4, <2>5 DEF Holds, Inserted
  <2>7. \A q \in Calls \ {r} : Holds(r)' \cap Holds(q) = {}
    BY <2>6
  <2>8. \A d \in Inserted(r)' : hours[d] = None \/ d \in k.gone
    BY <2>6
  <2>9. Len(body) \in Nat
    BY BodiesAreSequences
  <2>10. /\ k.at \in {"delete", "insert"} => validateHours(k.body)
         /\ k.at # "insert" => k.gone = {} /\ k.put = 0
         /\ k.put <= Len(k.body)
    BY <1>3, <2>1, <2>4, <2>9
  <2> QED BY <1>1, <2>1, <2>3, <2>7, <2>8, <2>10, OneMoves
<1>4. CASE ~validateHours(body)
  <2>1. PICK k : k = [replace[r] EXCEPT !.at = "error"]
    OBVIOUS
  <2>2. replace' = [replace EXCEPT ![r] = k]
    BY <1>4, <2>1 DEF Begin
  <2>3. k \in Requests /\ k.at = "error" /\ k.gone = {} /\ k.put = 0 /\ k.body = replace[r].body
    BY <1>0, <1>2, <2>1 DEF Requests, Ats
  <2>5. replace'[r] = k
    BY <1>0, <2>2
  <2>6. Holds(r)' = {} /\ Inserted(r)' = {}
    BY <2>3, <2>5 DEF Holds, Inserted
  <2> QED BY <1>1, <1>2, <2>2, <2>3, <2>6, OneMoves
<1> QED BY <1>3, <1>4

\* The record of a transaction that has ended.
LEMMA EndedRequest ==
  ASSUME NEW r \in Calls, NEW at \in Ats, HoursShape, End(r, at)
  PROVE  LET k == [at |-> at, body |-> replace[r].body, saw |-> replace[r].saw, gone |-> {}, put |-> 0] IN
         k \in Requests /\ replace' = [replace EXCEPT ![r] = k]
<1> DEFINE k == [at |-> at, body |-> replace[r].body, saw |-> replace[r].saw, gone |-> {}, put |-> 0]
<1>1. replace \in [Calls -> Requests]
  BY DEF HoursShape
<1>2. k \in Requests
  BY <1>1 DEF Requests
<1>3. replace' = [q \in Calls |-> replace'[q]] /\ [replace EXCEPT ![r] = k] = [q \in Calls |-> IF q = r THEN k ELSE replace[q]]
  BY <1>1 DEF End
<1>4. \A q \in Calls \ {r} : replace'[q] = replace[q]
  BY <1>1 DEF End
<1>5. replace'[r] = k
  <2>1. replace'[r] \in Requests
    BY <1>1 DEF End, Requests
  <2>2. /\ replace'[r].at = at /\ replace'[r].body = replace[r].body /\ replace'[r].saw = replace[r].saw
        /\ replace'[r].gone = {} /\ replace'[r].put = 0
    BY <1>1 DEF End, Requests
  <2> QED BY <2>1, <2>2 DEF Requests
<1>6. \A q \in Calls : replace'[q] = IF q = r THEN k ELSE replace[q]
  BY <1>4, <1>5
<1> HIDE DEF k
<1>7. replace' = [replace EXCEPT ![r] = k]
  BY <1>3, <1>6
<1> QED BY <1>2, <1>7 DEF k

\* A transaction that ends without its week gives its rows back.
LEMMA RollbackKeeps ==
  ASSUME HoursInv, NEW r \in Calls, End(r, "error"), UNCHANGED hours
  PROVE  HoursInv'
<1>0. replace \in [Calls -> Requests]
  BY DEF HoursInv, HoursShape
<1>1. PICK k : k = [at |-> "error", body |-> replace[r].body, saw |-> replace[r].saw, gone |-> {}, put |-> 0]
  OBVIOUS
<1>2. k.at = "error" /\ k.gone = {} /\ k.put = 0
  BY <1>1
<1>3. k \in Requests /\ replace' = [replace EXCEPT ![r] = k]
  BY <1>1, EndedRequest DEF HoursInv, Ats
<1>4. replace'[r] = k
  BY <1>0, <1>3
<1>5. Holds(r)' = {} /\ Inserted(r)' = {}
  BY <1>2, <1>4 DEF Holds, Inserted
<1>6. Len(k.body) \in Nat
  BY <1>3, BodiesAreSequences DEF Requests
<1>7. \A q \in Calls \ {r} : Holds(r)' \cap Holds(q) = {}
  BY <1>5
<1>8. \A d \in Inserted(r)' : hours[d] = None \/ d \in k.gone
  BY <1>5
<1>9. /\ k.at \in {"delete", "insert"} => validateHours(k.body)
      /\ k.at # "insert" => k.gone = {} /\ k.put = 0
      /\ k.put <= Len(k.body)
  BY <1>2, <1>6
<1> QED BY <1>3, <1>7, <1>8, <1>9, OneMoves

\* A DELETE waits for whoever has deleted its rows, and a row that another inserted is
\* committed only if he deleted it.
LEMMA DeleteKeeps ==
  ASSUME HoursInv, NEW r \in Calls, Delete(r)
  PROVE  HoursInv'
<1>0. replace \in [Calls -> Requests]
  BY DEF HoursInv, HoursShape
<1>1. replace[r].at = "delete" /\ Free(r) /\ UNCHANGED hours
  BY DEF Delete
<1>2. PICK k : k = [replace[r] EXCEPT !.at = "insert", !.gone = ToDelete(r)]
  OBVIOUS
<1>3. replace[r].put = 0 /\ validateHours(replace[r].body) /\ replace[r].put <= Len(replace[r].body)
  BY <1>1 DEF HoursInv, OpenIsValid
<1>4. ToDelete(r) \in SUBSET Days
  BY DEF ToDelete
<1>5. /\ k \in Requests /\ k.at = "insert" /\ k.gone = ToDelete(r) /\ k.put = 0
      /\ k.body = replace[r].body
  BY <1>0, <1>2, <1>3, <1>4 DEF Requests, Ats
<1>6. replace' = [replace EXCEPT ![r] = k]
  <2>1. replace' = [replace EXCEPT ![r] = [replace[r] EXCEPT !.at = "insert", !.gone = ToDelete(r)]]
    BY <1>0 DEF Delete
  <2> QED BY <1>2, <2>1
<1>7. replace'[r] = k
  BY <1>0, <1>6
<1>8. Inserted(r)' = {} /\ Holds(r)' = ToDelete(r)
  BY <1>5, <1>7 DEF Holds, Inserted
<1>9. ASSUME NEW q \in Calls \ {r} PROVE Holds(r)' \cap Holds(q) = {}
  <2>1. ToDelete(r) \cap replace[q].gone = {}
    BY <1>1 DEF Free, WaitsFor
  <2>2. \A d \in Inserted(q) : hours[d] = None \/ d \in replace[q].gone
    BY DEF HoursInv, InsertsFoundRoom
  <2>3. \A d \in ToDelete(r) : hours[d] # None
    BY DEF ToDelete
  <2> QED BY <1>8, <2>1, <2>2, <2>3 DEF Holds
<1> QED BY <1>1, <1>3, <1>5, <1>6, <1>8, <1>9, OneMoves

\* An INSERT waits for whoever holds its row, and fails where a row is committed.
LEMMA InsertKeeps ==
  ASSUME HoursInv, NEW r \in Calls, InsertEntry(r)
  PROVE  HoursInv'
<1>0. replace \in [Calls -> Requests]
  BY DEF HoursInv, HoursShape
<1> DEFINE d0 == NextEntry(r).day
<1>1. ToInsert(r) /\ Free(r) /\ UNCHANGED hours
  BY DEF InsertEntry
<1>2. CASE End(r, "error")
  BY <1>1, <1>2, RollbackKeeps
<1>3. CASE /\ hours[d0] = None \/ d0 \in replace[r].gone
           /\ replace' = [replace EXCEPT ![r].put = @ + 1]
  <2>1. PICK k : k = [replace[r] EXCEPT !.put = @ + 1]
    OBVIOUS
  <2>2. /\ replace[r].at = "insert" /\ replace[r].put < Len(replace[r].body)
        /\ replace[r].put \in Nat /\ replace[r].body \in Weeks \cup {<<>>}
    BY <1>0, <1>1 DEF ToInsert, Requests
  <2>3. /\ k \in Requests /\ k.at = "insert" /\ k.gone = replace[r].gone
        /\ k.put = replace[r].put + 1 /\ k.body = replace[r].body
    <3>1. PICK q \in Requests : q = replace[r]
      BY <1>0
    <3>2. k = [at |-> q.at, body |-> q.body, saw |-> q.saw, gone |-> q.gone, put |-> q.put + 1]
      BY <2>1, <3>1 DEF Requests
    <3>3. q.put + 1 \in Nat
      BY <2>2, <3>1
    <3>4. k \in Requests
      BY <3>1, <3>2, <3>3 DEF Requests
    <3> QED BY <2>2, <3>1, <3>2, <3>4
  <2>4. replace' = [replace EXCEPT ![r] = k]
    BY <1>3, <2>1
  <2>5. replace'[r] = k
    BY <1>0, <2>4
  <2>6. Inserted(r)' = Inserted(r) \cup {d0}
    <3>1. 1..(replace[r].put + 1) = (1..replace[r].put) \cup {replace[r].put + 1}
      BY <2>2
    <3> QED BY <2>3, <2>5, <3>1 DEF Inserted, NextEntry
  <2>7. Holds(r)' = Holds(r) \cup {d0}
    BY <2>3, <2>5, <2>6 DEF Holds
  <2>8. ASSUME NEW q \in Calls \ {r} PROVE Holds(r)' \cap Holds(q) = {}
    <3>1. d0 \notin Holds(q)
      BY <1>1 DEF Free, WaitsFor
    <3>2. Holds(r) \cap Holds(q) = {}
      BY DEF HoursInv, RowsAreHeldOnce
    <3> QED BY <2>7, <3>1, <3>2
  <2>9. \A d \in Inserted(r)' : hours[d] = None \/ d \in k.gone
    BY <1>3, <2>3, <2>6 DEF HoursInv, InsertsFoundRoom
  <2>10. k.put <= Len(k.body) /\ validateHours(k.body)
    <3>1. Len(replace[r].body) \in Nat
      BY <2>2, BodiesAreSequences
    <3>2. validateHours(replace[r].body)
      BY <2>2 DEF HoursInv, OpenIsValid
    <3> QED BY <2>2, <2>3, <3>1, <3>2
  <2> QED BY <1>1, <2>3, <2>4, <2>8, <2>9, <2>10, OneMoves
<1> QED BY <1>2, <1>3 DEF InsertEntry

\* What COMMIT writes: the whole week, since all its rows are inserted.
LEMMA CommitWritesTheWeek ==
  ASSUME HoursInv, NEW r \in Calls, Commit(r)
  PROVE  hours' = [d \in Days |-> r]
<1>1. Inserted(r) = Days
  BY TheLastHoldsAll DEF Commit
<1>2. hours' = [d \in Days |-> hours'[d]]
  BY DEF Commit
<1>3. \A d \in Days : hours'[d] = r
  BY <1>1 DEF Commit
<1> QED BY <1>2, <1>3

\* Nobody else holds a row when a transaction commits.
LEMMA CommitKeeps ==
  ASSUME HoursInv, NEW r \in Calls, Commit(r)
  PROVE  HoursInv'
<1>0. replace \in [Calls -> Requests]
  BY DEF HoursInv, HoursShape
<1>1. PICK at \in {"committed", "error"} : End(r, at)
  BY DEF Commit
<1>2. PICK k : k = [at |-> at, body |-> replace[r].body, saw |-> replace[r].saw, gone |-> {}, put |-> 0]
  OBVIOUS
<1>4. k \in Requests /\ replace' = [replace EXCEPT ![r] = k]
  BY <1>1, <1>2, EndedRequest DEF HoursInv, Ats
<1>3. /\ k \in Requests /\ k.at \in {"committed", "error"} /\ k.gone = {} /\ k.put = 0
      /\ k.body = replace[r].body
  BY <1>2, <1>4
<1>5. replace'[r] = k
  BY <1>0, <1>4
<1>6. Holds(r)' = {} /\ Inserted(r)' = {}
  BY <1>3, <1>5 DEF Holds, Inserted
<1>7. \A q \in Calls \ {r} :
        replace'[q] = replace[q] /\ Holds(q)' = Holds(q) /\ Inserted(q)' = Inserted(q)
  BY <1>4, OthersHoldTheSame DEF HoursInv
<1>8. hours' = [d \in Days |-> r]
  BY CommitWritesTheWeek
<1>9. HoursShape'
  BY <1>0, <1>3, <1>4, <1>8 DEF HoursShape
<1>10. OpenIsValid'
  <2> SUFFICES ASSUME NEW q \in Calls
               PROVE  /\ replace'[q].at \in {"delete", "insert"} => validateHours(replace'[q].body)
                      /\ replace'[q].at # "insert" => replace'[q].gone = {} /\ replace'[q].put = 0
                      /\ replace'[q].put <= Len(replace'[q].body)
    BY DEF OpenIsValid, validateHours, RowAllowed
  <2>1. CASE q = r
    <3>1. Len(k.body) \in Nat
      BY <1>3, BodiesAreSequences DEF Requests
    <3> QED BY <1>3, <1>5, <2>1, <3>1
  <2>2. CASE q # r
    BY <1>7, <2>2 DEF HoursInv, OpenIsValid
  <2> QED BY <2>1, <2>2
<1>11. WeekIsWhole'
  BY <1>8 DEF WeekIsWhole
<1>12. RowsAreHeldOnce'
  BY <1>6, <1>7 DEF HoursInv, RowsAreHeldOnce
<1>13. InsertsFoundRoom'
  <2> SUFFICES ASSUME NEW q \in Calls, q # r PROVE Inserted(q) = {}
    BY <1>6, <1>7 DEF InsertsFoundRoom
  <2>1. Days \cap Holds(q) = {}
    <3>1. Inserted(r) = Days
      BY TheLastHoldsAll DEF Commit
    <3>2. Holds(r) \cap Holds(q) = {}
      BY DEF HoursInv, RowsAreHeldOnce
    <3> QED BY <3>1, <3>2 DEF Holds
  <2>2. Inserted(q) \subseteq Days
    <3>1. replace[q].put \in Nat /\ replace[q].body \in Weeks \cup {<<>>}
      BY <1>0 DEF Requests
    <3>2. Len(replace[q].body) \in Nat /\ DOMAIN replace[q].body = 1..Len(replace[q].body)
      BY <3>1, BodiesAreSequences
    <3>3. replace[q].put <= Len(replace[q].body)
      BY DEF HoursInv, OpenIsValid
    <3>4. CASE replace[q].at = "insert"
      <4>1. validateHours(replace[q].body)
        BY <3>4 DEF HoursInv, OpenIsValid
      <4> QED BY <3>1, <3>2, <3>3, <4>1 DEF Inserted, validateHours
    <3>5. CASE replace[q].at # "insert"
      BY <3>5 DEF HoursInv, OpenIsValid, Inserted
    <3> QED BY <3>4, <3>5
  <2> QED BY <2>1, <2>2 DEF Holds
<1> QED BY <1>9, <1>10, <1>11, <1>12, <1>13 DEF HoursInv

\* The caller is answered.
LEMMA ListHoursKeeps ==
  ASSUME HoursInv, NEW r \in Calls, ListHours(r)
  PROVE  HoursInv'
<1>0. replace \in [Calls -> Requests]
  BY DEF HoursInv, HoursShape
<1>1. PICK at \in {"told", "error"} : replace' = [replace EXCEPT ![r].at = at]
  BY DEF ListHours
<1>2. replace[r].at = "committed" /\ UNCHANGED hours
  BY DEF ListHours
<1>3. replace[r].gone = {} /\ replace[r].put = 0 /\ replace[r].put <= Len(replace[r].body)
  BY <1>2 DEF HoursInv, OpenIsValid
<1>4. PICK k : k = [replace[r] EXCEPT !.at = at]
  OBVIOUS
<1>5. k \in Requests /\ k.at \in {"told", "error"} /\ k.gone = {} /\ k.put = 0 /\ k.body = replace[r].body
  BY <1>0, <1>3, <1>4 DEF Requests, Ats
<1>6. replace' = [replace EXCEPT ![r] = k]
  BY <1>1, <1>4
<1>7. replace'[r] = k
  BY <1>0, <1>6
<1>8. Holds(r)' = {} /\ Inserted(r)' = {}
  BY <1>5, <1>7 DEF Holds, Inserted
<1> QED BY <1>2, <1>3, <1>5, <1>6, <1>8, OneMoves

\* The invariant is inductive.
LEMMA HoursInvNext == HoursInv /\ [HoursNext]_hoursVars => HoursInv'
<1> SUFFICES ASSUME HoursInv, [HoursNext]_hoursVars PROVE HoursInv'
  OBVIOUS
<1>1. ASSUME NEW r \in Calls, NEW body \in Weeks, Begin(r, body) PROVE HoursInv'
  BY <1>1, BeginKeeps
<1>2. ASSUME NEW r \in Calls, Delete(r) PROVE HoursInv'
  BY <1>2, DeleteKeeps
<1>3. ASSUME NEW r \in Calls, InsertEntry(r) PROVE HoursInv'
  BY <1>3, InsertKeeps
<1>4. ASSUME NEW r \in Calls, Commit(r) PROVE HoursInv'
  BY <1>4, CommitKeeps
<1>5. ASSUME NEW r \in Calls, Deadlock(r) \/ ReplaceFails(r) PROVE HoursInv'
  BY <1>5, RollbackKeeps DEF Deadlock, ReplaceFails
<1>6. ASSUME NEW r \in Calls, ListHours(r) PROVE HoursInv'
  BY <1>6, ListHoursKeeps
<1>7. CASE UNCHANGED hoursVars
  <2>1. hours' = hours /\ replace' = replace
    BY <1>7 DEF hoursVars
  <2> QED BY <2>1 DEF HoursInv, HoursShape, OpenIsValid, validateHours, RowAllowed, WeekIsWhole, NoHours,
                      RowsAreHeldOnce, Holds, Inserted, InsertsFoundRoom
<1> QED BY <1>1, <1>2, <1>3, <1>4, <1>5, <1>6, <1>7 DEF HoursNext, ReplaceStep

\* It holds of a store that has no hours yet.
LEMMA HoursInvInit == HoursInit => HoursInv
<1> SUFFICES ASSUME HoursInit PROVE HoursInv
  OBVIOUS
<1>1. HoursShape
  BY DEF HoursInit, HoursShape, NoHours, Requests, Ats
<1>2. \A r \in Calls : replace[r].at = "new" /\ replace[r].gone = {} /\ replace[r].put = 0 /\ replace[r].body = <<>>
  BY DEF HoursInit
<1>3. \A r \in Calls : Inserted(r) = {} /\ Holds(r) = {}
  <2> SUFFICES ASSUME NEW r \in Calls PROVE Inserted(r) = {} /\ Holds(r) = {}
    OBVIOUS
  <2>1. replace[r].gone = {} /\ replace[r].put = 0
    BY <1>2
  <2>2. Inserted(r) = {}
    BY <2>1 DEF Inserted
  <2> QED BY <2>1, <2>2 DEF Holds
<1>4. OpenIsValid
  <2>1. Len(<<>>) = 0
    OBVIOUS
  <2>2. ASSUME NEW r \in Calls PROVE replace[r].put <= Len(replace[r].body)
    <3>1. replace[r].put = 0 /\ replace[r].body = <<>>
      BY <1>2
    <3>2. Len(replace[r].body) \in Nat
      BY <3>1, BodiesAreSequences
    <3> QED BY <3>1, <3>2
  <2> QED BY <1>2, <2>2 DEF OpenIsValid
<1>5. WeekIsWhole
  BY DEF HoursInit, WeekIsWhole
<1>6. RowsAreHeldOnce /\ InsertsFoundRoom
  BY <1>3 DEF RowsAreHeldOnce, InsertsFoundRoom
<1> QED BY <1>1, <1>4, <1>5, <1>6 DEF HoursInv

\* It holds of every state of the opening hours.
LEMMA HoursInvariance == HoursSpec => []HoursInv
BY HoursInvInit, HoursInvNext, PTL DEF HoursSpec

\* What is written has its shape, and a transaction that has ended holds no row.
THEOREM HoursAreTyped == HoursSpec => []HoursTypeOK
<1>1. HoursInv => HoursTypeOK
  <2> SUFFICES ASSUME HoursInv PROVE HoursTypeOK
    OBVIOUS
  <2>1. hours \in [Days -> Calls \cup {None}] /\ replace \in [Calls -> Requests]
    BY DEF HoursInv, HoursShape
  <2>2. ASSUME NEW r \in Calls PROVE replace[r].put \in 0..Len(replace[r].body)
    <3>1. replace[r].put \in Nat /\ replace[r].body \in Weeks \cup {<<>>}
      BY <2>1 DEF Requests
    <3>2. Len(replace[r].body) \in Nat
      BY <3>1, BodiesAreSequences
    <3>3. replace[r].put <= Len(replace[r].body)
      BY DEF HoursInv, OpenIsValid
    <3> QED BY <3>1, <3>2, <3>3
  <2>3. ASSUME NEW r \in Calls, replace[r].at \notin {"delete", "insert"} PROVE Holds(r) = {}
    <3>1. replace[r].gone = {} /\ replace[r].put = 0
      BY <2>3 DEF HoursInv, OpenIsValid
    <3> QED BY <3>1 DEF Holds, Inserted
  <2> QED BY <2>1, <2>2, <2>3 DEF HoursTypeOK, Requests, Ats
<1> QED BY <1>1, HoursInvariance, PTL

\* No two transactions hold the row of a day, whatever the order of the entries in
\* their bodies, so that whoever has inserted a whole week is alone.
THEOREM RowsAreExclusive == HoursSpec => []RowsAreHeldOnce
<1>1. HoursInv => RowsAreHeldOnce
  BY DEF HoursInv
<1> QED BY <1>1, HoursInvariance, PTL

-----------------------------------------------------------------------------

\* The week of WeeklySchedule, read off the rows that a step writes.
LEMMA WeekOf ==
  ASSUME NEW r \in Calls, hours' = [d \in Days |-> r]
  PROVE  Shown' = r
<1>1. PICK d0 : d0 \in Days
  BY HoursAssumption
<1>2. r # None
  BY HoursAssumption
<1>3. hours' # NoHours
  <2>1. hours'[d0] = r /\ NoHours[d0] = None
    BY <1>1 DEF NoHours
  <2> QED BY <1>2, <2>1
<1>4. (CHOOSE d \in Days : TRUE) \in Days
  BY <1>1
<1>5. Shown' = hours'[CHOOSE d \in Days : TRUE]
  BY <1>3 DEF Shown, NoHours
<1> QED BY <1>4, <1>5

\* Every statement of a transaction is a step of the weekly schedule or none.
LEMMA HoursStepRefines == HoursInv /\ [HoursNext]_hoursVars => [Schedule!Next]_Schedule!scheduleVars
<1> SUFFICES ASSUME HoursInv, [HoursNext]_hoursVars PROVE [Schedule!Next]_Schedule!scheduleVars
  OBVIOUS
<1> DEFINE answers == [r \in Calls |-> Outcome(replace[r].at)]
<1>0. replace \in [Calls -> Requests]
  BY DEF HoursInv, HoursShape
<1>s. ASSUME UNCHANGED hours PROVE Shown' = Shown
  BY <1>s DEF Shown, NoHours
<1>o. ASSUME NEW r \in Calls, NEW at,
             \A q \in Calls : replace'[q].at = IF q = r THEN at ELSE replace[q].at
      PROVE  answers' = [answers EXCEPT ![r] = Outcome(at)]
  BY <1>o DEF Outcome
<1> HIDE DEF answers
<1> USE DEF Schedule!Next, Schedule!scheduleVars, answers
<1>1. ASSUME NEW r \in Calls, UNCHANGED hours, Outcome(replace[r].at) = "open",
             \A q \in Calls : replace'[q].at = IF q = r THEN "error" ELSE replace[q].at
      PROVE  [Schedule!Next]_Schedule!scheduleVars
  <2>1. answers' = [answers EXCEPT ![r] = "error"]
    BY <1>o, <1>1 DEF Outcome
  <2>2. Schedule!Refuse(r)
    BY <1>s, <1>1, <2>1 DEF Schedule!Refuse
  <2> QED BY <2>2
<1>2. ASSUME UNCHANGED hours, \A q \in Calls : Outcome(replace'[q].at) = Outcome(replace[q].at)
      PROVE  [Schedule!Next]_Schedule!scheduleVars
  <2>1. answers' = answers
    BY <1>2
  <2> QED BY <1>s, <1>2, <2>1
<1>3. ASSUME NEW r \in Calls, NEW body \in Weeks, Begin(r, body) PROVE [Schedule!Next]_Schedule!scheduleVars
  <2>1. CASE validateHours(body)
    <3>1. \A q \in Calls : replace'[q].at = IF q = r THEN "delete" ELSE replace[q].at
      BY <1>0, <1>3, <2>1 DEF Begin, Requests
    <3> QED BY <1>2, <1>3, <3>1 DEF Begin, Outcome
  <2>2. CASE ~validateHours(body)
    <3>1. \A q \in Calls : replace'[q].at = IF q = r THEN "error" ELSE replace[q].at
      BY <1>0, <1>3, <2>2 DEF Begin, Requests
    <3> QED BY <1>1, <1>3, <3>1 DEF Begin, Outcome
  <2> QED BY <2>1, <2>2
<1>4. ASSUME NEW r \in Calls, replace[r].at \in {"delete", "insert"}, End(r, "error"), UNCHANGED hours
      PROVE  [Schedule!Next]_Schedule!scheduleVars
  <2>1. \A q \in Calls : replace'[q].at = IF q = r THEN "error" ELSE replace[q].at
    BY <1>0, <1>4 DEF End, Requests
  <2> QED BY <1>1, <1>4, <2>1 DEF Outcome
<1>5. ASSUME NEW r \in Calls, Delete(r) PROVE [Schedule!Next]_Schedule!scheduleVars
  <2>1. \A q \in Calls : replace'[q].at = IF q = r THEN "insert" ELSE replace[q].at
    BY <1>0, <1>5 DEF Delete, Requests
  <2>2. \A q \in Calls : Outcome(replace'[q].at) = Outcome(replace[q].at)
    <3>1. Outcome("insert") = "open" /\ Outcome("delete") = "open"
      BY DEF Outcome
    <3>2. replace[r].at = "delete"
      BY <1>5 DEF Delete
    <3> QED BY <2>1, <3>1, <3>2
  <2> QED BY <1>2, <1>5, <2>2 DEF Delete
<1>6. ASSUME NEW r \in Calls, InsertEntry(r) PROVE [Schedule!Next]_Schedule!scheduleVars
  <2>1. CASE End(r, "error")
    BY <1>4, <1>6, <2>1 DEF InsertEntry, ToInsert
  <2>2. CASE replace' = [replace EXCEPT ![r].put = @ + 1]
    <3>1. \A q \in Calls : replace'[q].at = replace[q].at
      BY <1>0, <2>2 DEF Requests
    <3> QED BY <1>2, <1>6, <3>1 DEF InsertEntry
  <2> QED BY <1>6, <2>1, <2>2 DEF InsertEntry
<1>7. ASSUME NEW r \in Calls, Commit(r) PROVE [Schedule!Next]_Schedule!scheduleVars
  <2>1. PICK at \in {"committed", "error"} : End(r, at)
    BY <1>7 DEF Commit
  <2>2. \A q \in Calls : replace'[q].at = IF q = r THEN at ELSE replace[q].at
    BY <1>0, <2>1 DEF End, Requests
  <2>3. answers' = [answers EXCEPT ![r] = Outcome(at)]
    BY <1>o, <2>2
  <2>4. Outcome(at) \in {"replaced", "error"}
    BY <2>1 DEF Outcome
  <2>5. answers[r] = "open"
    BY <1>7 DEF Commit, Outcome
  <2>6. Shown' = r
    <3>1. hours' = [d \in Days |-> r]
      BY <1>7, CommitWritesTheWeek
    <3> QED BY <3>1, WeekOf
  <2>7. Schedule!Replace(r)
    BY <2>3, <2>4, <2>5, <2>6 DEF Schedule!Replace
  <2> QED BY <2>7
<1>8. ASSUME NEW r \in Calls, Deadlock(r) PROVE [Schedule!Next]_Schedule!scheduleVars
  <2>1. replace[r].at \in {"delete", "insert"}
    BY <1>8 DEF Deadlock, Deadlocked, WaitsFor, ToInsert
  <2> QED BY <1>4, <1>8, <2>1 DEF Deadlock
<1>9. ASSUME NEW r \in Calls, ReplaceFails(r) PROVE [Schedule!Next]_Schedule!scheduleVars
  BY <1>4, <1>9 DEF ReplaceFails
<1>10. ASSUME NEW r \in Calls, ListHours(r) PROVE [Schedule!Next]_Schedule!scheduleVars
  <2>1. PICK at \in {"told", "error"} : replace' = [replace EXCEPT ![r].at = at]
    BY <1>10 DEF ListHours
  <2>2. \A q \in Calls : replace'[q].at = IF q = r THEN at ELSE replace[q].at
    BY <1>0, <2>1 DEF Requests
  <2>3. answers' = [answers EXCEPT ![r] = at]
    BY <1>o, <2>1, <2>2 DEF Outcome
  <2>4. Schedule!Answer(r)
    BY <1>s, <1>10, <2>1, <2>3 DEF Schedule!Answer, ListHours, Outcome
  <2> QED BY <2>4
<1>11. CASE UNCHANGED hoursVars
  BY <1>2, <1>11 DEF hoursVars
<1> QED BY <1>3, <1>5, <1>6, <1>7, <1>8, <1>9, <1>10, <1>11 DEF HoursNext, ReplaceStep

\* The statements of any number of requests, interleaved, failed, waiting or deadlocked,
\* implement requests that replace the whole week at one instant (repository.go).
THEOREM TheWeekChangesAtOnce == HoursSpec => WeekIsReplacedAtOnce
<1>1. HoursInit => Schedule!Init
  BY DEF HoursInit, Schedule!Init, Shown, Outcome
<1> QED BY <1>1, HoursInvariance, HoursStepRefines, PTL DEF HoursSpec, WeekIsReplacedAtOnce, Schedule!Spec

=============================================================================
