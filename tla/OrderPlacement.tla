--------------------------- MODULE OrderPlacement ---------------------------
(***************************************************************************)
(* Orders (internal/modules/order, migrations 000008 and 000026): placing  *)
(* with an idempotency key, and the status machine.  A request reads the   *)
(* order, checks it and updates it unconditionally.                        *)
(***************************************************************************)
EXTENDS StoreBase, Naturals, FiniteSets

CONSTANTS
  Customers,
  NoCustomer, \* a walk-in order placed by staff
  Keys,       \* Idempotency-Key headers
  NoKey       \* no header: stored as NULL

StatusSet == {"PENDING", "CONFIRMED", "IN_PRODUCTION", "READY", "DELIVERED", "CANCELLED"}

orderTransitions ==
  [s \in StatusSet |->
     CASE s = "PENDING"       -> {"CONFIRMED", "CANCELLED"}
       [] s = "CONFIRMED"     -> {"IN_PRODUCTION", "CANCELLED"}
       [] s = "IN_PRODUCTION" -> {"READY"}
       [] s = "READY"         -> {"DELIVERED"}
       [] OTHER               -> {}]

ASSUME OrderAssumption == NoKey \notin Keys /\ NoCustomer \notin Customers /\ None \notin Orders

VARIABLES
  order,  \* [Orders -> [status, customer, key]], status "NONE" without a row
  orderCall,   \* [Calls -> [at, order, customer, key, to]]
  been,   \* history: [Orders -> SUBSET StatusSet]
  told    \* history: {<<customer, key, order>>}, what callers of PlaceOrder were answered

orderVars == <<order, orderCall, been, told>>

OrderIdle == [at |-> "idle", order |-> None, customer |-> NoCustomer, key |-> NoKey, to |-> "NONE"]

OrderInit ==
  /\ order = [o \in Orders |-> [status |-> "NONE", customer |-> NoCustomer, key |-> NoKey]]
  /\ orderCall = [c \in Calls |-> OrderIdle]
  /\ been = [o \in Orders |-> {}]
  /\ told = {}

-----------------------------------------------------------------------------

OrderReturn(c) == orderCall' = [orderCall EXCEPT ![c] = OrderIdle]

WithKey(k) == {o \in Orders : order[o].status # "NONE" /\ k # NoKey /\ order[o].key = k}

\* The order of the key is returned, unless the caller is another customer.
Answer(u, k) ==
  \E o \in WithKey(k) :
    told' = IF u \in {NoCustomer, order[o].customer} THEN told \cup {<<u, k, o>>} ELSE told

\* Up to the lookup of the key: a hit is the answer.
PlaceOrder(c, o, u, k) ==
  /\ orderCall[c] = OrderIdle
  /\ \/ /\ WithKey(k) # {}
        /\ Answer(u, k)
        /\ UNCHANGED orderCall
     \/ /\ WithKey(k) = {}
        /\ order[o].status = "NONE" /\ \A d \in Calls : orderCall[d].order # o
        /\ orderCall' = [orderCall EXCEPT ![c] = [at |-> "insert", order |-> o, customer |-> u, key |-> k, to |-> "PENDING"]]
        /\ UNCHANGED told
  /\ UNCHANGED <<order, been>>

InsertIf(c, free) ==
  LET new == orderCall[c] IN
  /\ new.at = "insert"
  /\ \/ /\ free
        /\ order' = [order EXCEPT ![new.order] =
             [status |-> "PENDING", customer |-> new.customer, key |-> new.key]]
        /\ been' = [been EXCEPT ![new.order] = {"PENDING"}]
        /\ told' = told \cup {<<new.customer, new.key, new.order>>}
     \/ /\ WithKey(new.key) # {}
        /\ Answer(new.customer, new.key)
        /\ UNCHANGED <<order, been>>
  /\ OrderReturn(c)

BugCreateOrderWithoutUniqueKey(c) == InsertIf(c, TRUE)

\* Order and items in one transaction.  A key taken meanwhile is looked up again.
CreateOrder(c) == InsertIf(c, WithKey(orderCall[c].key) = {})

-----------------------------------------------------------------------------

ToStatus(c, o, s) ==
  /\ orderCall[c] = OrderIdle
  /\ orderCall' = [orderCall EXCEPT ![c] = [OrderIdle EXCEPT !.at = "status", !.order = o, !.to = s]]
  /\ UNCHANGED <<order, been, told>>

BugUpdateOrderStatusForward(c, o, s) ==
  order[o].status \in StatusSet /\ s \in StatusSet /\ s # "PENDING" /\ ToStatus(c, o, s)

\* s is any word of the request.
UpdateOrderStatus(c, o, s) ==
  order[o].status \in StatusSet /\ s \in orderTransitions[order[o].status] /\ ToStatus(c, o, s)

CancelOrder(c, o) ==
  order[o].status \in {"PENDING", "CONFIRMED"} /\ ToStatus(c, o, "CANCELLED")

\* The UPDATE of either.
WriteOrderStatus(c) ==
  LET o == orderCall[c].order IN
  /\ orderCall[c].at = "status"
  /\ order' = [order EXCEPT ![o].status = orderCall[c].to]
  /\ been' = [been EXCEPT ![o] = @ \cup {orderCall[c].to}]
  /\ OrderReturn(c)
  /\ UNCHANGED told

\* A statement fails, or the request dies before it.
OrderCrash(c) ==
  /\ orderCall[c] # OrderIdle
  /\ OrderReturn(c)
  /\ UNCHANGED <<order, been, told>>

OrderNext ==
  \E c \in Calls :
    \/ \E o \in Orders, u \in Customers \cup {NoCustomer}, k \in Keys \cup {NoKey} : PlaceOrder(c, o, u, k)
    \/ CreateOrder(c)
    \/ \E o \in Orders, s \in StatusSet \cup {"OTHER"} : UpdateOrderStatus(c, o, s)
    \/ \E o \in Orders : CancelOrder(c, o)
    \/ WriteOrderStatus(c)
    \/ OrderCrash(c)

OrderSpec == OrderInit /\ [][OrderNext]_orderVars

-----------------------------------------------------------------------------

OrderTypeOK ==
  /\ order \in [Orders -> [status : StatusSet \cup {"NONE"}, customer : Customers \cup {NoCustomer},
                           key : Keys \cup {NoKey}]]
  /\ orderCall \in [Calls -> [at : {"idle", "insert", "status"}, order : Orders \cup {None},
                         customer : Customers \cup {NoCustomer}, key : Keys \cup {NoKey},
                         to : StatusSet \cup {"NONE"}]]
  /\ been \in [Orders -> SUBSET StatusSet]
  /\ told \in SUBSET ((Customers \cup {NoCustomer}) \X (Keys \cup {NoKey}) \X Orders)

\* Retrying a request with its key, one after another or at once, makes one order,
\* and a customer is only ever answered with that order, and with its own.
RetriesGetTheirOrder ==
  /\ \A k \in Keys : \A o, p \in WithKey(k) : o = p
  /\ \A t \in told : /\ order[t[3]].key = t[2]
                     /\ t[1] # NoCustomer => order[t[3]].customer = t[1]

\* No stage is skipped, even by requests that decide on stale reads: what is
\* delivered was ready, in production and confirmed before.
StagesAreNotSkipped ==
  \A o \in Orders :
    /\ "DELIVERED" \in been[o] => "READY" \in been[o]
    /\ "READY" \in been[o] => "IN_PRODUCTION" \in been[o]
    /\ "IN_PRODUCTION" \in been[o] => "CONFIRMED" \in been[o]

\* The status of an order changes along the table only.
OrderStatusFollowsTable ==
  [][\A o \in Orders : order[o].status \in StatusSet =>
       order'[o].status \in {order[o].status} \cup orderTransitions[order[o].status]]_orderVars
=============================================================================
