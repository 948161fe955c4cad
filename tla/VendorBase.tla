----------------------------- MODULE VendorBase -----------------------------
(* What the modules about a vendor share: who, and the life of a subscription. *)
EXTENDS RequestBase, Naturals, FiniteSets

CONSTANTS
  Vendors

SubscriptionStatus == {"TRIAL", "ACTIVE", "PAST_DUE", "SUSPENDED", "CANCELLED"}

validSubTransitions ==
  [s \in SubscriptionStatus |->
     CASE s = "TRIAL"     -> {"ACTIVE", "CANCELLED"}
       [] s = "ACTIVE"    -> {"PAST_DUE", "CANCELLED"}
       [] s = "PAST_DUE"  -> {"ACTIVE", "SUSPENDED", "CANCELLED"}
       [] s = "SUSPENDED" -> {"ACTIVE", "CANCELLED"}
       [] s = "CANCELLED" -> {}]

CanTransitionSub(s, t) == s \in SubscriptionStatus /\ t \in validSubTransitions[s]
=============================================================================
