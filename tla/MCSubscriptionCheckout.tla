----------------------- MODULE MCSubscriptionCheckout -----------------------
(* One vendor asks for the same tier twice, which two concurrent requests, or
   an expiry in between, turn into two checkouts; another tier and a third
   request are at hand to write its subscription without a checkout. *)
EXTENDS SubscriptionCheckout, TLC

CONSTANTS c1, c2, v1, basic, pro, r1, r2, h1

MCOwner == (c1 :> v1) @@ (c2 :> v1)
MCPlan == (c1 :> basic) @@ (c2 :> basic)
MCSymmetry == Permutations({r1, r2}) \cup Permutations({c1, c2})
=============================================================================
