------------------------------ MODULE MCStore ------------------------------
(***************************************************************************)
(* Orders, counter payments, production jobs, accounts, addresses and      *)
(* routing have no state in common and no handler touches two of them: an  *)
(* interleaving of the six shows nothing that each alone does not.  A      *)
(* behaviour works on one.                                                 *)
(***************************************************************************)
EXTENDS OrderPlacement, PointOfSale, ProductionQueue, Accounts, DeliveryLocations, Routing, TLC

CONSTANTS o1, o2, u1, u2, c1, c2, j1, j2, t1, t2,
          Parts  \* the parts to explore

VARIABLE part

\* Rules that target the store of the order, one before the other, and another store.
MCRuleForms ==
  {[priority |-> 100, target |-> "s1"], [priority |-> 150, target |-> "s1"], [priority |-> 100, target |-> "s2"]}

MCSymmetry ==
  UNION {Permutations({o1, o2}), Permutations({u1, u2}), Permutations({c1, c2}),
         Permutations({j1, j2}), Permutations({t1, t2})}

MCInit ==
  /\ part \in Parts
  /\ OrderInit /\ PosInit /\ JobInit /\ AccountsInit /\ DeliveryInit /\ RoutingInit
  /\ gmail = [g \in Subs |-> "a"]  \* RenameGoogle reaches the other addresses

MCNext ==
  /\ \/ part = "orders"       /\ OrderNext    /\ UNCHANGED <<posVars, jobVars, accountVars, deliveryVars, routingVars>>
     \/ part = "pos"          /\ PosNext      /\ UNCHANGED <<orderVars, jobVars, accountVars, deliveryVars, routingVars>>
     \/ part = "production"   /\ JobNext      /\ UNCHANGED <<orderVars, posVars, accountVars, deliveryVars, routingVars>>
     \/ part = "accounts"     /\ AccountsNext /\ UNCHANGED <<orderVars, posVars, jobVars, deliveryVars, routingVars>>
     \/ part = "addresses"    /\ DeliveryNext /\ UNCHANGED <<orderVars, posVars, jobVars, accountVars, routingVars>>
     \/ part = "routing"      /\ RoutingNext  /\ UNCHANGED <<orderVars, posVars, jobVars, accountVars, deliveryVars>>
  /\ UNCHANGED part

MCSpec == MCInit /\ [][MCNext]_<<part, orderVars, posVars, jobVars, accountVars, deliveryVars, routingVars>>

\* Shape of the state of every part.
StoreTypeOK == OrderTypeOK /\ PosTypeOK /\ JobTypeOK /\ AccountsTypeOK /\ DeliveryTypeOK /\ RoutingTypeOK

\* One active administrator, the default among a customer's addresses, an assigned
\* store of a routed order: what must always be there is lost to requests that
\* overlap, or to a crash, only.
OnlyOverlapsLoseTheLast == AdministratorRemains /\ DefaultRemains /\ DecisionRemains
=============================================================================
