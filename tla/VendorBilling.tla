--------------------------- MODULE VendorBilling ---------------------------
(***************************************************************************)
(* The subscriptions and invoices of internal/modules/billing, as changed  *)
(* by hand (vendors and administrators) and by a paid checkout, which is   *)
(* SubscriptionCheckout.tla's Grant seen from these two tables.  A manual  *)
(* request reads a row, checks it and updates it unconditionally: another  *)
(* request may run in between.                                             *)
(***************************************************************************)
EXTENDS VendorBase

CONSTANTS
  Tiers,
  Keys,      \* Idempotency-Key headers
  NoKey,     \* the header is absent: stored as the empty string, not NULL
  Invoices   \* invoice ids (bound)

ASSUME BillingAssumption == NoKey \notin Keys /\ None \notin Tiers \cup Vendors \cup Invoices

VARIABLES
  sub,     \* [Vendors -> [status, tier, cancelledAt]], status "NONE" without a row
  invoice, \* [Invoices -> [status, vendor, key, tier]], status "NONE" without a row
  call,    \* [Calls -> [at, vendor, invoice, key, to]], what a request is about to write
  refused  \* history: a request without a key was refused as a duplicate

billingVars == <<sub, invoice, call, refused>>

BillingIdle == [at |-> "idle", vendor |-> None, invoice |-> None, key |-> NoKey, to |-> None]

BillingInit ==
  /\ sub = [v \in Vendors |-> [status |-> "NONE", tier |-> None, cancelledAt |-> FALSE]]
  /\ invoice = [i \in Invoices |-> [status |-> "NONE", vendor |-> None, key |-> NoKey, tier |-> None]]
  /\ call = [c \in Calls |-> BillingIdle]
  /\ refused = FALSE

-----------------------------------------------------------------------------
(* The reads and checks of each request. *)

\* A request that passed its checks is about to write.
About(c, at, v, i, k, to) ==
  /\ call[c] = BillingIdle
  /\ call' = [call EXCEPT ![c] = [at |-> at, vendor |-> v, invoice |-> i, key |-> k, to |-> to]]
  /\ UNCHANGED <<sub, invoice, refused>>

CreateSubscription(c, v, t) ==
  sub[v].status = "NONE" /\ About(c, "subscribe", v, None, NoKey, t)

ChangeTier(c, v, t) ==
  /\ sub[v].status \notin {"NONE", "CANCELLED", "SUSPENDED"}
  /\ sub[v].tier # t
  /\ About(c, "tier", v, None, NoKey, t)

\* UpdateStatus, for any word s, and CancelSubscription with s = "CANCELLED".
UpdateStatus(c, v, s) ==
  CanTransitionSub(sub[v].status, s) /\ About(c, "status", v, None, NoKey, s)

KeyIsUsed(k) == \E i \in Invoices : invoice[i].status # "NONE" /\ invoice[i].key = k

\* A key that is used returns its invoice, which changes nothing; a lookup that
\* fails counts as not found.  The tier is read with the subscription.
GenerateInvoice(c, v, i, k) ==
  /\ sub[v].status \notin {"NONE", "CANCELLED"}
  /\ invoice[i].status = "NONE" /\ \A d \in Calls : call[d].invoice # i
  /\ About(c, "generate", v, i, k, sub[v].tier)

MarkInvoicePaid(c, i) ==
  invoice[i].status \notin {"NONE", "PAID", "VOID"} /\ About(c, "pay", None, i, NoKey, None)

VoidInvoice(c, i) ==
  invoice[i].status \notin {"NONE", "PAID", "VOID"} /\ About(c, "void", None, i, NoKey, None)

-----------------------------------------------------------------------------
(* The statements that follow.  Every one ends its request. *)

BillingReturn(c) == call' = [call EXCEPT ![c] = BillingIdle]

\* One row per vendor: the slower of two requests is refused.
InsertSubscription(c) ==
  LET v == call[c].vendor IN
  /\ call[c].at = "subscribe"
  /\ \/ /\ sub[v].status = "NONE"
        /\ \E s \in {"TRIAL", "ACTIVE"} :
             sub' = [sub EXCEPT ![v] = [status |-> s, tier |-> call[c].to, cancelledAt |-> FALSE]]
     \/ sub[v].status # "NONE" /\ UNCHANGED sub
  /\ BillingReturn(c)
  /\ UNCHANGED <<invoice, refused>>

UpdateSubscriptionTier(c) ==
  /\ call[c].at = "tier"
  /\ sub' = [sub EXCEPT ![call[c].vendor].tier = call[c].to]
  /\ BillingReturn(c)
  /\ UNCHANGED <<invoice, refused>>

UpdateSubscriptionStatus(c) ==
  /\ call[c].at = "status"
  /\ sub' = [sub EXCEPT ![call[c].vendor].status = call[c].to,
                        ![call[c].vendor].cancelledAt = @ \/ call[c].to = "CANCELLED"]
  /\ BillingReturn(c)
  /\ UNCHANGED <<invoice, refused>>

CreateInvoiceIf(c, free) ==
  /\ call[c].at = "generate"
  /\ IF free
     THEN /\ invoice' = [invoice EXCEPT ![call[c].invoice] =
               [status |-> "OPEN", vendor |-> call[c].vendor, key |-> call[c].key, tier |-> call[c].to]]
          /\ UNCHANGED refused
     ELSE /\ refused' = (refused \/ call[c].key = NoKey)
          /\ UNCHANGED invoice
  /\ BillingReturn(c)
  /\ UNCHANGED sub

BugCreateInvoiceWithoutUniqueKey(c) == CreateInvoiceIf(c, TRUE)

\* The keys are unique, the empty one too.
CreateInvoice(c) == CreateInvoiceIf(c, ~KeyIsUsed(call[c].key))

SetInvoiceStatus(c) ==
  /\ call[c].at \in {"pay", "void"}
  /\ invoice' = [invoice EXCEPT ![call[c].invoice].status = IF call[c].at = "pay" THEN "PAID" ELSE "VOID"]
  /\ BillingReturn(c)
  /\ UNCHANGED <<sub, refused>>

\* ActivateCheckout, in one transaction: the subscription is created or overwritten,
\* whatever its status, and a paid invoice of the checkout's own key is inserted,
\* unless the key is used: then that invoice is the checkout's, as it is.
ActivateCheckout(v, t, i, k) ==
  /\ sub' = [sub EXCEPT ![v] = [status |-> "ACTIVE", tier |-> t, cancelledAt |-> FALSE]]
  /\ \/ KeyIsUsed(k) /\ UNCHANGED invoice
     \/ /\ ~KeyIsUsed(k)
        /\ invoice[i].status = "NONE" /\ \A d \in Calls : call[d].invoice # i
        /\ invoice' = [invoice EXCEPT ![i] = [status |-> "PAID", vendor |-> v, key |-> k, tier |-> t]]
  /\ UNCHANGED <<call, refused>>

\* The request dies before its statement.
BillingCrash(c) ==
  /\ call[c] # BillingIdle
  /\ BillingReturn(c)
  /\ UNCHANGED <<sub, invoice, refused>>

BillingNext ==
  \/ \E c \in Calls :
       \/ \E v \in Vendors, t \in Tiers : CreateSubscription(c, v, t) \/ ChangeTier(c, v, t)
       \/ \E v \in Vendors, s \in SubscriptionStatus \cup {"OTHER"} : UpdateStatus(c, v, s)
       \/ \E v \in Vendors, i \in Invoices, k \in Keys \cup {NoKey} : GenerateInvoice(c, v, i, k)
       \/ \E i \in Invoices : MarkInvoicePaid(c, i) \/ VoidInvoice(c, i)
       \/ InsertSubscription(c) \/ UpdateSubscriptionTier(c) \/ UpdateSubscriptionStatus(c)
       \/ CreateInvoice(c) \/ SetInvoiceStatus(c)
       \/ BillingCrash(c)
  \/ \E v \in Vendors, t \in Tiers, i \in Invoices, k \in Keys : ActivateCheckout(v, t, i, k)

BillingSpec == BillingInit /\ [][BillingNext]_billingVars

-----------------------------------------------------------------------------

\* Shape of the state.  A cancelled subscription carries the date of its
\* cancellation, however requests and checkouts interleave.
BillingTypeOK ==
  /\ sub \in [Vendors -> [status : SubscriptionStatus \cup {"NONE"}, tier : Tiers \cup {None},
                          cancelledAt : BOOLEAN]]
  /\ invoice \in [Invoices -> [status : {"NONE", "OPEN", "PAID", "VOID"}, vendor : Vendors \cup {None},
                               key : Keys \cup {NoKey}, tier : Tiers \cup {None}]]
  /\ call \in [Calls -> [at : {"idle", "subscribe", "tier", "status", "generate", "pay", "void"},
                         vendor : Vendors \cup {None}, invoice : Invoices \cup {None},
                         key : Keys \cup {NoKey}, to : Tiers \cup SubscriptionStatus \cup {None}]]
  /\ refused \in BOOLEAN
  /\ \A v \in Vendors : sub[v].status = "CANCELLED" => sub[v].cancelledAt

\* A retried request with a key, also at once and also beside a checkout, makes one invoice.
OneInvoicePerKey ==
  \A i, j \in Invoices :
    "NONE" \notin {invoice[i].status, invoice[j].status} /\ invoice[i].key = invoice[j].key => i = j

\* The key is optional: a request without one is not taken for a repetition.
KeylessIsNotRefused == ~refused
=============================================================================
