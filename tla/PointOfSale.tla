---------------------------- MODULE PointOfSale ----------------------------
(***************************************************************************)
(* Counter payments (internal/modules/pos, migrations 000013 and 000030).  *)
(* A cashier's request looks up the latest transaction of the order and    *)
(* then inserts one; a refund reads a transaction and then updates it.     *)
(* A partial unique index allows one COMPLETED row per order.              *)
(*                                                                         *)
(* created_at is the time the INSERT starts, not the time it commits: a    *)
(* statement takes its place in the order of created_at when it starts     *)
(* (status "unseen") and is settled later.                                 *)
(***************************************************************************)
EXTENDS StoreBase, Naturals, Sequences, FiniteSets

CONSTANTS
  MaxRows  \* INSERTs per order (bound)

ASSUME PointOfSaleAssumption == MaxRows \in Nat \ {0} /\ None \notin Orders

VARIABLES
  txs,   \* [Orders -> Seq(TxStatus and "unseen", "refused")] in the order of created_at
  till,  \* [Calls -> [at, order, row]]
  paid   \* [Orders -> [1..MaxRows -> Nat]], refunds answered with success: the
         \* cashier hands the money back on each

posVars == <<txs, till, paid>>

TillIdle == [at |-> "idle", order |-> None, row |-> 0]

PosInit ==
  /\ txs = [o \in Orders |-> <<>>]
  /\ till = [c \in Calls |-> TillIdle]
  /\ paid = [o \in Orders |-> [i \in 1..MaxRows |-> 0]]

Visible(o) == {i \in DOMAIN txs[o] : txs[o][i] \in {"COMPLETED", "REFUNDED"}}
Completed(o) == {i \in Visible(o) : txs[o][i] = "COMPLETED"}

\* GetByOrderID: ORDER BY created_at DESC LIMIT 1.
IsLatest(o, i) == i \in Visible(o) /\ \A k \in Visible(o) : k <= i

FoundPaid(o) == \E i \in Completed(o) : IsLatest(o, i)

-----------------------------------------------------------------------------

\* RecordPayment answers with the payment it finds ...
ReturnExisting(c, o) ==
  /\ till[c] = TillIdle
  /\ FoundPaid(o)
  /\ UNCHANGED posVars

\* ... or else comes to its INSERT, on what the lookup showed.
RecordPayment(c, o) ==
  /\ till[c] = TillIdle
  /\ ~FoundPaid(o)
  /\ till' = [till EXCEPT ![c] = [at |-> "create", order |-> o, row |-> 0]]
  /\ UNCHANGED <<txs, paid>>

CreatePaymentStarts(c) ==
  LET o == till[c].order IN
  /\ till[c].at = "create" /\ till[c].row = 0
  /\ Len(txs[o]) < MaxRows
  /\ txs' = [txs EXCEPT ![o] = Append(@, "unseen")]
  /\ till' = [till EXCEPT ![c].row = Len(txs[o]) + 1]
  /\ UNCHANGED paid

CreatePaymentIf(c, kept) ==
  LET o == till[c].order IN
  /\ till[c].at = "create" /\ till[c].row # 0
  /\ txs' = [txs EXCEPT ![o][till[c].row] = IF kept THEN "COMPLETED" ELSE "refused"]
  /\ till' = [till EXCEPT ![c] = TillIdle]
  /\ UNCHANGED paid

BugCreatePaymentAlways(c) == CreatePaymentIf(c, TRUE)

\* As an upsert that revives the latest row of the order.
BugCreatePaymentRevives(c) ==
  LET o == till[c].order IN
  /\ till[c].at = "create" /\ till[c].row # 0
  /\ txs' = [txs EXCEPT ![o] = [i \in DOMAIN txs[o] |->
       IF (Visible(o) = {} /\ i = till[c].row) \/ IsLatest(o, i) THEN "COMPLETED"
       ELSE IF i = till[c].row THEN "refused" ELSE txs[o][i]]]
  /\ till' = [till EXCEPT ![c] = TillIdle]
  /\ UNCHANGED paid

\* The partial unique index decides.
CreatePayment(c) == CreatePaymentIf(c, Completed(till[c].order) = {})

RefundTransaction(c, o, i) ==
  /\ till[c] = TillIdle
  /\ i \in Completed(o)
  /\ till' = [till EXCEPT ![c] = [at |-> "refund", order |-> o, row |-> i]]
  /\ UNCHANGED <<txs, paid>>

\* UPDATE ... WHERE id, with no condition on the status.
MarkRefunded(c) ==
  /\ till[c].at = "refund"
  /\ txs' = [txs EXCEPT ![till[c].order][till[c].row] = "REFUNDED"]
  /\ till' = [till EXCEPT ![c].at = "refunded"]
  /\ UNCHANGED paid

AnswerRefund(c) ==
  /\ till[c].at = "refunded"
  /\ paid' = [paid EXCEPT ![till[c].order][till[c].row] = @ + 1]
  /\ till' = [till EXCEPT ![c] = TillIdle]
  /\ UNCHANGED txs

\* The request dies; an INSERT that has started is rolled back.
PosCrash(c) ==
  /\ till[c] # TillIdle
  /\ till' = [till EXCEPT ![c] = TillIdle]
  /\ txs' = IF till[c].at = "create" /\ till[c].row # 0
              THEN [txs EXCEPT ![till[c].order][till[c].row] = "refused"]
              ELSE txs
  /\ UNCHANGED paid

PosNext ==
  \E c \in Calls :
    \/ \E o \in Orders : \/ ReturnExisting(c, o)
                         \/ RecordPayment(c, o)
                         \/ \E i \in 1..MaxRows : RefundTransaction(c, o, i)
    \/ CreatePaymentStarts(c)
    \/ CreatePayment(c)
    \/ MarkRefunded(c)
    \/ AnswerRefund(c)
    \/ PosCrash(c)

PosSpec == PosInit /\ [][PosNext]_posVars

-----------------------------------------------------------------------------

TillSteps == {"idle", "create", "refund", "refunded"}
RowStatus == {"unseen", "refused", "COMPLETED", "REFUNDED"}

\* A request that is about to update a transaction has read one that exists.
PosTypeOK ==
  /\ txs \in [Orders -> Seq(RowStatus)]
  /\ till \in [Calls -> [at : TillSteps, order : Orders \cup {None}, row : 0..MaxRows]]
  /\ paid \in [Orders -> [1..MaxRows -> Nat]]
  /\ \A c \in Calls :
       /\ till[c].at = "idle" <=> till[c].order = None
       /\ till[c].at = "create" /\ till[c].row # 0 => txs[till[c].order][till[c].row] = "unseen"
       /\ till[c].at \in {"refund", "refunded"} => till[c].row \in Visible(till[c].order)

\* An order holds one COMPLETED payment.
OneCompletedPerOrder == \A o \in Orders : Cardinality(Completed(o)) <= 1

\* No races of cashiers charge an order that is paid (migration 000030,
\* postgres.go:17).  Money is handed back only for a payment that is REFUNDED, and a
\* REFUNDED payment is never counted as takings again, whatever INSERT or refund is
\* under way (service.go:97-108, postgres.go:17-26, 62-66).
PaidOnceRefundedForGood ==
  [][/\ OneCompletedPerOrder'
     /\ \A o \in Orders : \A i \in Visible(o) :
          txs[o][i] = "REFUNDED" \/ paid'[o][i] > 0 => txs'[o][i] = "REFUNDED"]_posVars
=============================================================================
