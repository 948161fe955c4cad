------------------------------ MODULE Payment ------------------------------
(***************************************************************************)
(* Payment transactions (internal/modules/payment, migration 000016):      *)
(* initiation, verification by polling, provider webhooks and refunds.     *)
(* The gateways are the adapters of gateway.go, stubs that call nobody: a  *)
(* refund and a verification always succeed, whatever became of the        *)
(* payment.  What a provider really did with a collection is only what its *)
(* webhooks say of it.  Each request is a goroutine; between two of its    *)
(* statements any other request may run, and it may die.  Every UPDATE of  *)
(* a status is unconditional.                                              *)
(***************************************************************************)
EXTENDS RequestBase, Naturals, FiniteSets

CONSTANTS
  Payments,   \* ids that Initiate draws, one for each request (bound)
  Provider,   \* [Payments -> STRING], what each is paid with
  Key,        \* [Payments -> keys or None], Idempotency-Key of its request
  Ref,        \* [Payments -> references], what its adapter draws: a second and four digits
  MaxRefunds  \* refunds of one payment (bound)

Mobile == {"MTN_MOMO", "AIRTEL_MONEY"}
Counter == {"CASH", "CARD"}

TxStatus == {"PENDING", "PROCESSING", "COMPLETED", "FAILED", "CANCELLED", "REFUNDED"}

ASSUME PaymentAssumption == None \notin Payments /\ MaxRefunds \in Nat

VARIABLES
  row,      \* [Payments -> [status, ref]], status "NONE" before the INSERT, ref: provider_ref is set
  call,     \* [Calls -> [at, tx, status]], a request: its next step and what it read
  charge,   \* [Payments -> "none", or the adapter "refused" it, or "pending", "paid", "failed"]
  refunded, \* [Payments -> 0..MaxRefunds], how often an adapter gave the money back
  polled,   \* history: payments that Verify asked the adapter about
  suspect  \* history: payments of which a refund overlapped another, or whose REFUNDED got lost

vars == <<row, call, charge, refunded, polled, suspect>>

Idle == [at |-> "idle", tx |-> None, status |-> "NONE"]

Init ==
  /\ row = [p \in Payments |-> [status |-> "NONE", ref |-> FALSE]]
  /\ call = [c \in Calls |-> Idle]
  /\ charge = [p \in Payments |-> "none"]
  /\ refunded = [p \in Payments |-> 0]
  /\ polled = {} /\ suspect = {}

-----------------------------------------------------------------------------

Goto(c, at) == call' = [call EXCEPT ![c].at = at]
Return(c) == call' = [call EXCEPT ![c] = Idle]

\* UpdateStatus: the row is overwritten, whatever it holds.
SetStatus(p, status) == row' = [row EXCEPT ![p].status = status]

\* The error of an UPDATE is dropped: the request goes on either way.
Try(update) == update \/ UNCHANGED row

KeyIsUsed(p) == Key[p] # None /\ \E q \in Payments : Key[q] = Key[p] /\ row[q].status # "NONE"

BugNormaliseToCancelled(provider, answer) ==
  CASE answer = "paid" -> "COMPLETED"
    [] answer = "failed" -> "CANCELLED"
    [] OTHER -> "PROCESSING"

\* NormaliseStatus of what is said of a collection.
Normalise(provider, answer) ==
  CASE answer = "paid" -> "COMPLETED"
    [] answer = "failed" -> "FAILED"
    [] answer = "pending" /\ provider = "MTN_MOMO" -> "PENDING"
    [] OTHER -> "PROCESSING"

\* Two payments one webhook may find: nothing keeps two references apart.
SameRef(p, q) == Provider[p] = Provider[q] /\ Ref[p] = Ref[q]

-----------------------------------------------------------------------------
(* Initiate *)

BugInitiateBeforeCreate(c, p) ==
  /\ call[c] = Idle
  /\ row[p].status = "NONE" /\ \A d \in Calls : call[d].tx # p
  /\ Provider[p] \in Mobile
  /\ charge' = [charge EXCEPT ![p] = "pending"]
  /\ call' = [call EXCEPT ![c] = [Idle EXCEPT !.at = "create", !.tx = p]]
  /\ UNCHANGED <<row, refunded, polled>>

\* A key found in the table returns its transaction, which changes nothing; a
\* lookup that fails counts as not found.
Initiate(c, p) ==
  /\ call[c] = Idle
  /\ row[p].status = "NONE" /\ \A d \in Calls : call[d].tx # p
  /\ call' = [call EXCEPT ![c] = [Idle EXCEPT !.at = "create", !.tx = p]]
  /\ UNCHANGED <<row, charge, refunded, polled>>

CreateIf(c, free) ==
  LET p == call[c].tx IN
  /\ call[c].at = "create"
  /\ \/ /\ free
        /\ SetStatus(p, IF Provider[p] \in Counter THEN "COMPLETED" ELSE "PENDING")
        /\ IF Provider[p] \in Counter THEN Return(c) ELSE Goto(c, "gateway")
     \/ /\ ~free
        /\ Return(c) /\ UNCHANGED row
  /\ UNCHANGED <<charge, refunded, polled>>

BugCreateWithoutUniqueKey(c) == CreateIf(c, TRUE)

\* The INSERT, refused by the unique key if another request was faster.
Create(c) == CreateIf(c, ~KeyIsUsed(call[c].tx))

\* An adapter takes the collection or, without a phone number, refuses it; a provider
\* without a gateway ends like a refusal.
CallGateway(c) ==
  LET p == call[c].tx IN
  /\ call[c].at = "gateway"
  /\ \/ Provider[p] \in Mobile /\ charge' = [charge EXCEPT ![p] = "pending"] /\ Goto(c, "reference")
     \/ charge' = [charge EXCEPT ![p] = "refused"] /\ Goto(c, "failed")
  /\ UNCHANGED <<row, refunded, polled>>

MarkFailed(c) ==
  /\ call[c].at = "failed"
  /\ Try(SetStatus(call[c].tx, "FAILED"))
  /\ Return(c)
  /\ UNCHANGED <<charge, refunded, polled>>

UpdateProviderRef(c) ==
  /\ call[c].at = "reference"
  /\ Try(row' = [row EXCEPT ![call[c].tx].ref = TRUE])
  /\ Goto(c, "processing")
  /\ UNCHANGED <<charge, refunded, polled>>

MarkProcessing(c) ==
  /\ call[c].at = "processing"
  /\ Try(SetStatus(call[c].tx, "PROCESSING"))
  /\ Return(c)
  /\ UNCHANGED <<charge, refunded, polled>>

-----------------------------------------------------------------------------
(* Verify and HandleWebhook *)

\* Whatever reference an adapter is asked about, also none, it answers with success.
GatewayVerify == "paid"

\* The read of Verify and the adapter's answer; its terminal states leave out CANCELLED.
Verify(c, p) ==
  /\ call[c] = Idle
  /\ row[p].status \in {"PENDING", "PROCESSING", "CANCELLED"}
  /\ Provider[p] \in Mobile
  /\ call' = [call EXCEPT ![c] = [at |-> "apply", tx |-> p, status |-> Normalise(Provider[p], GatewayVerify)]]
  /\ polled' = polled \cup {p}
  /\ UNCHANGED <<row, charge, refunded>>

ReceiveAs(c, p, q, status) ==
  /\ call[c] = Idle
  /\ charge[q] \in {"pending", "paid", "failed"}
  /\ row[p].ref /\ SameRef(p, q)
  /\ row[p].status \notin {"COMPLETED", "FAILED", "REFUNDED", "CANCELLED"}
  /\ call' = [call EXCEPT ![c] = [at |-> "apply", tx |-> p, status |-> status]]
  /\ UNCHANGED <<row, charge, refunded, polled>>

BugHandleWebhookTrustsArrival(c, p, q) == ReceiveAs(c, p, q, "COMPLETED")

\* A webhook says of collection q what was once so, late, repeated or out of order, or
\* a status nobody knows; the row p it finds is any with the reference.
HandleWebhook(c, p, q) ==
  \E answer \in {"pending", "other", charge[q]} : ReceiveAs(c, p, q, Normalise(Provider[p], answer))

\* The UPDATE of either.
Apply(c) ==
  /\ call[c].at = "apply"
  /\ Try(SetStatus(call[c].tx, call[c].status))
  /\ Return(c)
  /\ UNCHANGED <<charge, refunded, polled>>

-----------------------------------------------------------------------------
(* Refund *)

RefundIf(c, p, allowed) ==
  /\ call[c] = Idle
  /\ allowed
  /\ Provider[p] # "CARD"
  /\ call' = [call EXCEPT ![c] =
       [Idle EXCEPT !.at = IF Provider[p] = "CASH" THEN "refunded" ELSE "refund", !.tx = p]]
  /\ UNCHANGED <<row, charge, refunded, polled>>

BugRefundUnguarded(c, p) == RefundIf(c, p, row[p].status # "NONE" /\ Provider[p] \in Mobile \cup Counter)

\* A CARD payment has no gateway to refund it.
Refund(c, p) == RefundIf(c, p, row[p].status = "COMPLETED")

\* The adapter, which never refuses.
CallRefund(c) ==
  LET p == call[c].tx IN
  /\ call[c].at = "refund"
  /\ refunded[p] < MaxRefunds
  /\ refunded' = [refunded EXCEPT ![p] = @ + 1]
  /\ Goto(c, "refunded")
  /\ UNCHANGED <<row, charge, polled>>

MarkRefunded(c) ==
  /\ call[c].at = "refunded"
  /\ Try(SetStatus(call[c].tx, "REFUNDED"))
  /\ Return(c)
  /\ UNCHANGED <<charge, refunded, polled>>

-----------------------------------------------------------------------------

\* The process dies, or the client goes away and its context is cancelled.
Crash(c) ==
  /\ call[c] # Idle
  /\ Return(c)
  /\ UNCHANGED <<row, charge, refunded, polled>>

\* The payer approves the collection, or not.
Settle(p) ==
  /\ charge[p] = "pending"
  /\ \E outcome \in {"paid", "failed"} : charge' = [charge EXCEPT ![p] = outcome]
  /\ UNCHANGED <<row, call, refunded, polled>>

Refunding(k, p) == k.tx = p /\ k.at \in {"refund", "refunded"}

\* Money was given back, and REFUNDED is overwritten or is not written, or another refund
\* is under way.
Doubted ==
  {p \in Payments :
     /\ refunded'[p] > 0
     /\ \/ row[p].status = "REFUNDED" /\ row'[p].status # "REFUNDED"
        \/ \E c \in Calls : /\ call[c].tx = p /\ call[c].at = "refunded" /\ call'[c] = Idle
                             /\ row'[p].status # "REFUNDED"
        \/ \E c, d \in Calls : c # d /\ Refunding(call'[c], p) /\ Refunding(call'[d], p)}

Next ==
  /\ \/ \E c \in Calls :
          \/ \E p \in Payments :
               \/ Initiate(c, p) \/ Verify(c, p) \/ Refund(c, p)
               \/ \E q \in Payments : HandleWebhook(c, p, q)
          \/ Create(c) \/ CallGateway(c) \/ MarkFailed(c) \/ UpdateProviderRef(c) \/ MarkProcessing(c)
          \/ Apply(c)
          \/ CallRefund(c) \/ MarkRefunded(c)
          \/ Crash(c)
     \/ \E p \in Payments : Settle(p)
  /\ suspect' = suspect \cup Doubted

Spec == Init /\ [][Next]_vars

-----------------------------------------------------------------------------

\* Shape of the state: in particular no code ever stores CANCELLED.
TypeOK ==
  /\ row \in [Payments -> [status : (TxStatus \ {"CANCELLED"}) \cup {"NONE"}, ref : BOOLEAN]]
  /\ call \in [Calls -> [at : {"idle", "create", "gateway", "reference", "failed", "processing",
                               "apply", "refund", "refunded"},
                         tx : Payments \cup {None}, status : TxStatus \cup {"NONE"}]]
  /\ charge \in [Payments -> {"none", "refused", "pending", "paid", "failed"}]
  /\ refunded \in [Payments -> 0..MaxRefunds]
  /\ polled \subseteq Payments /\ suspect \subseteq Payments

\* An adapter took the collection.
Taken(p) == charge[p] \in {"pending", "paid", "failed"}

\* A client that retries a payment with its key, also at once, is not charged twice,
\* and a collection that was taken is always recorded, whatever dies and when.
OneRecordedChargePerKey ==
  \A p, q \in Payments : Taken(p) =>
    /\ row[p].status # "NONE"
    /\ Key[p] = Key[q] /\ Key[p] # None /\ Taken(q) => p = q

\* It was said of p, or of a payment with its reference, that it ended so.
Heard(p, outcome) == \E q \in Payments : SameRef(p, q) /\ charge[q] = outcome

\* A verdict on a mobile-money payment has a cause: it was completed because somebody
\* polled, which always completes it, or a provider collected under its reference; it
\* failed because the adapter refused it or a provider could not collect.  Delayed and
\* repeated webhooks, lost updates and dying requests make up none.
VerdictHasCause ==
  \A p \in Payments : Provider[p] \in Mobile =>
    /\ row[p].status \in {"COMPLETED", "REFUNDED"} => p \in polled \/ Heard(p, "paid")
    /\ row[p].status = "FAILED" => charge[p] = "refused" \/ Heard(p, "failed")

\* What was never completed is not given back, what is marked as refunded was, and the
\* money is given back twice only where two refunds overlapped or a REFUNDED got lost.
RefundsAreBacked ==
  \A p \in Payments : Provider[p] \in Mobile =>
    /\ refunded[p] > 0 => p \in polled \/ Heard(p, "paid")
    /\ row[p].status = "REFUNDED" => refunded[p] > 0
    /\ refunded[p] > 1 => p \in suspect

\* What Verify calls terminal is terminal, but for the refund of a completed payment.
TerminalIsFinal ==
  [][\A p \in Payments : row[p].status \in {"COMPLETED", "FAILED", "REFUNDED"} =>
       row'[p].status \in {row[p].status} \cup (IF row[p].status = "COMPLETED" THEN {"REFUNDED"} ELSE {})]_vars
=============================================================================
