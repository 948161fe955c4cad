-------------------------- MODULE CustomerCheckout --------------------------
(***************************************************************************)
(* A customer's order from the handler to the INSERT (internal/modules/    *)
(* order): the checks of the handler, the lookup of the idempotency key,   *)
(* the price of every item and the transaction are statements of their     *)
(* own, between which the store, its zones and products and the saved      *)
(* location of Storefront change.  Placing itself is OrderPlacement's.     *)
(* The check of a design asset is left out: nothing ever marks an asset    *)
(* deleted.                                                                *)
(***************************************************************************)
EXTENDS Storefront, OrderPlacement, Sequences

CONSTANTS
  Baskets,  \* bodies: [delivered, items], items a sequence of products
  MaxOpen   \* requests of the customer at once (bound)

ASSUME CheckoutAssumption ==
  /\ Calls \cap Orders = {} /\ None \notin Baskets
  /\ \A b \in Baskets : b.delivered \in BOOLEAN /\ b.items \in Seq(Products)

VARIABLES
  checkout,  \* [Calls -> [at, listed, basket, customer, key, city, prices]]: what the request
             \* has read; listed are the products the customer was shown before
  placed,    \* history: [Orders -> the basket of the request that made it, or None]
  changed,   \* history: [Calls \cup Orders -> SUBSET Kind], what has changed since a
             \* request, or the request that made an order, began
  groundless \* history: something has gone wrong for the customer without such a change

checkoutVars == <<factVars, orderVars, checkout, placed, changed, groundless>>

NoCheckout == [at |-> "idle", listed |-> {}, basket |-> None, customer |-> NoCustomer,
               key |-> NoKey, city |-> None, prices |-> <<>>]

CheckoutInit ==
  /\ checkout = [c \in Calls |-> NoCheckout]
  /\ placed = [o \in Orders |-> None]
  /\ changed = [x \in Calls \cup Orders |-> {}]
  /\ groundless = FALSE

-----------------------------------------------------------------------------

ReachesAs(c, r) == checkout' = [checkout EXCEPT ![c] = r]
Reaches(c, at) == ReachesAs(c, [checkout[c] EXCEPT !.at = at])

Leaves(c) ==
  /\ ReachesAs(c, NoCheckout)
  /\ changed' = [changed EXCEPT ![c] = {}]

FewAreOpen(c) == Cardinality({d \in Calls \ {c} : checkout[d] # NoCheckout}) < MaxOpen

\* One customer buys: the saved location is his.
IsTheCustomer(u) ==
  /\ \A d \in Calls : checkout[d].customer \in {NoCustomer, u}
  /\ \A o \in Orders : order[o].customer \in {NoCustomer, u}

\* The orders this very request has made before.
MadeBefore(c) ==
  {o \in WithKey(checkout[c].key) :
     order[o].customer = checkout[c].customer /\ placed[o] = checkout[c].basket}

\* since: the requests that had relied on what this one is refused for, and may overlap it.
RefusesSince(c, kinds, since) ==
  /\ Leaves(c)
  /\ groundless' = (groundless \/ \E x \in since : (changed[x] \cup changed[c]) \cap kinds = {})

Refuses(c, kinds) == RefusesSince(c, kinds, MadeBefore(c))

\* The customer looks at the store ...
ListStorefrontProducts(c) ==
  /\ checkout[c] = NoCheckout
  /\ FewAreOpen(c)
  /\ ReachesAs(c, [NoCheckout EXCEPT !.at = "shown", !.listed = {p \in Products : Listed(p)}])
  /\ UNCHANGED <<factVars, orderVars, placed, changed, groundless>>

\* ... and orders, or orders without looking.  The location is read before anything
\* else is (handler.go:131).
CustomerOrder(c, u, k, basket) ==
  /\ checkout[c].at \in {"idle", "shown"}
  /\ FewAreOpen(c)
  /\ IsTheCustomer(u)
  /\ ReachesAs(c, [checkout[c] EXCEPT !.at = IF basket.delivered THEN "location" ELSE "lookup",
                                     !.basket = basket, !.customer = u, !.key = k])
  /\ UNCHANGED <<factVars, orderVars, placed, changed, groundless>>

ReadLocation(c) ==
  /\ checkout[c].at = "location"
  /\ IF location = None
     THEN Refuses(c, {"location"})
     ELSE /\ ReachesAs(c, [checkout[c] EXCEPT !.at = "zone", !.city = location])
          /\ UNCHANGED <<changed, groundless>>
  /\ UNCHANGED <<factVars, orderVars, placed>>

CheckZone(c) ==
  /\ checkout[c].at = "zone"
  /\ IF Covers(checkout[c].city)
     THEN Reaches(c, "lookup") /\ UNCHANGED <<changed, groundless>>
     ELSE Refuses(c, {"location", "zone"})
  /\ UNCHANGED <<factVars, orderVars, placed>>

\* A hit is the answer, whatever the body asks for.
LookupKey(c, o) ==
  /\ checkout[c].at = "lookup"
  /\ PlaceOrder(c, o, checkout[c].customer, checkout[c].key)
  /\ IF orderCall' = orderCall THEN Leaves(c) ELSE Reaches(c, "prices") /\ UNCHANGED changed
  /\ UNCHANGED <<factVars, placed, groundless>>

ItemsLeft(c) == Len(checkout[c].prices) < Len(checkout[c].basket.items)

BugCanBeOrderedAnyway(p) == product[p].price # None

\* Neither the stock nor the store is looked at.
CanBeOrdered(p) == product[p].price # None /\ product[p].available

GetProductPrice(c) ==
  LET p == checkout[c].basket.items[Len(checkout[c].prices) + 1] IN
  /\ checkout[c].at = "prices" /\ ItemsLeft(c)
  /\ IF CanBeOrdered(p)
     THEN /\ ReachesAs(c, [checkout[c] EXCEPT !.prices = Append(@, product[p].price)])
          /\ UNCHANGED <<orderVars, changed, groundless>>
     ELSE /\ RefusesSince(c, {"product"}, MadeBefore(c) \cup {d \in {c} : p \in checkout[c].listed})
          /\ OrderReturn(c)
          /\ UNCHANGED <<order, been, told>>
  /\ UNCHANGED <<factVars, placed>>

\* What an order that is inserted now shows and is not so.
Stale(c) ==
  LET me == checkout[c] IN
     {k \in {"location"} : me.basket.delivered /\ location # me.city}
  \cup {k \in {"zone"} : me.basket.delivered
                         /\ ~\E z \in Zones : zone[z] = [city |-> me.city, active |-> TRUE]}
  \cup {k \in {"product"} : \E i \in DOMAIN me.prices :
          LET p == me.basket.items[i] IN product[p].price # me.prices[i] \/ ~product[p].available}

\* The order, its items and the address in one transaction, or the answer of the key.
InsertOrder(c) ==
  LET o == orderCall[c].order IN
  /\ checkout[c].at = "prices" /\ ~ItemsLeft(c)
  /\ CreateOrder(c)
  /\ ReachesAs(c, NoCheckout)
  /\ IF order' = order
     THEN /\ changed' = [changed EXCEPT ![c] = {}]
          /\ UNCHANGED <<placed, groundless>>
     ELSE /\ changed' = [changed EXCEPT ![c] = {}, ![o] = changed[c]]
          /\ placed' = [placed EXCEPT ![o] = checkout[c].basket]
          /\ groundless' = (groundless \/ ~(Stale(c) \subseteq changed[c]))
  /\ UNCHANGED factVars

\* A statement fails, or the request is given up.
CheckoutDropped(c) ==
  /\ checkout[c] # NoCheckout
  /\ Leaves(c)
  /\ IF orderCall[c] # OrderIdle THEN OrderCrash(c) ELSE UNCHANGED orderVars
  /\ UNCHANGED <<factVars, placed, groundless>>

-----------------------------------------------------------------------------

Came == {c \in Calls : checkout[c] # NoCheckout} \cup {o \in Orders : order[o].status # "NONE"}

ChangedKinds ==
       {k \in {"product"} : \E p \in Products : product'[p].price # product[p].price
                                               \/ product'[p].available # product[p].available}
  \cup {k \in {"zone"} : zone' # zone} \cup {k \in {"location"} : location' # location}

FactsChange ==
  /\ FactsNext
  /\ changed' = [x \in DOMAIN changed |-> IF x \in Came THEN changed[x] \cup ChangedKinds ELSE {}]
  /\ UNCHANGED <<orderVars, checkout, placed, groundless>>

CheckoutNext ==
  \/ FactsChange
  \/ \E c \in Calls :
       \/ \E u \in Customers, k \in Keys \cup {NoKey}, basket \in Baskets : CustomerOrder(c, u, k, basket)
       \/ ListStorefrontProducts(c)
       \/ ReadLocation(c) \/ CheckZone(c) \/ (\E o \in Orders : LookupKey(c, o))
       \/ GetProductPrice(c) \/ InsertOrder(c) \/ CheckoutDropped(c)

CheckoutSpec == StorefrontInit /\ OrderInit /\ CheckoutInit /\ [][CheckoutNext]_checkoutVars

-----------------------------------------------------------------------------

CheckoutTypeOK ==
  /\ \A c \in Calls : /\ checkout[c].at \in {"idle", "shown", "location", "zone", "lookup", "prices"}
                      /\ checkout[c].listed \subseteq Products
                      /\ checkout[c].basket \in Baskets \cup {None}
  /\ placed \in [Orders -> Baskets \cup {None}]
  /\ changed \in [Calls \cup Orders -> SUBSET Kind]
  /\ groundless \in BOOLEAN

\* What an order says of its address, coverage and prices is so when it is placed,
\* a retry gets the order it has made, and what a customer was shown can be ordered,
\* unless the very thing that is wrong, or refused for, has changed since that
\* order's request or the retry began, or since he was shown it.
OrdersRestOnFacts == ~groundless
=============================================================================
