----------------------------- MODULE MCCustomer -----------------------------
(***************************************************************************)
(* What a customer meets: the storefront, the checkout of an order, its    *)
(* payments and the messages about it.  Checkout and storefront share      *)
(* their tables and are explored with and without the coverage lookup; a   *)
(* behaviour works on one of the four.                                     *)
(***************************************************************************)
EXTENDS MCPayment, CustomerCheckout, OrderConversation

CONSTANTS o1, u1, l1, l2, m1, m2,
          Parts  \* the parts to explore

VARIABLE part

\* One product, delivered or picked up.
MCBaskets == {[delivered |-> d, items |-> <<"p">>] : d \in BOOLEAN}

\* What the checkout adds to the storefront.
atCheckout == <<orderVars, checkout, placed, changed, groundless>>

MCInit ==
  /\ part \in Parts
  /\ Init /\ StorefrontInit /\ OrderInit /\ CheckoutInit /\ ConversationInit

MCNext ==
  /\ \/ part = "payments"     /\ Next             /\ UNCHANGED <<storefrontVars, atCheckout, conversationVars>>
     \/ part = "storefront"   /\ StorefrontNext   /\ UNCHANGED <<vars, atCheckout, conversationVars>>
     \/ part = "checkout"     /\ CheckoutNext     /\ UNCHANGED <<vars, inquiry, conversationVars>>
     \/ part = "conversation" /\ ConversationNext /\ UNCHANGED <<vars, storefrontVars, atCheckout>>
  /\ UNCHANGED part

MCSpec == MCInit /\ [][MCNext]_<<part, vars, storefrontVars, atCheckout, conversationVars>>

\* Shape of the state of every part.
CustomerTypeOK ==
  TypeOK /\ StorefrontTypeOK /\ OrderTypeOK /\ CheckoutTypeOK /\ ConversationTypeOK

\* What a customer is answered rests on what was so when it was read, and goes wrong
\* only where that very thing has changed since; so does what a message says of having
\* been read.
AnswersRestOnFacts == CoverageWasTrue /\ OrdersRestOnFacts /\ ReadMeansShown
=============================================================================
