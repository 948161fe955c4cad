--------------------------- MODULE CustomerProofs ---------------------------
(***************************************************************************)
(* Proofs about what a customer meets, for any payments, providers and     *)
(* keys, any products, zones, cities and baskets, and any number of        *)
(* concurrent requests: Payment.tla, Storefront.tla, CustomerCheckout.tla, *)
(* OrderConversation.tla, and the four together (MCCustomer.tla).          *)
(***************************************************************************)
EXTENDS MCCustomer, FiniteSetTheorems, SequenceTheorems, TLAPS

USE PaymentAssumption

-----------------------------------------------------------------------------
(* The payments: the inductive invariant. *)

Initiating == {"create", "gateway", "reference", "failed", "processing"}

\* No two requests initiate one payment.
OneInitiator ==
  \A c, d \in Calls :
    call[c].at \in Initiating /\ call[d].at \in Initiating /\ call[c].tx = call[d].tx => c = d

\* A key has one row.
OneRowPerKey ==
  \A p, q \in Payments :
    row[p].status # "NONE" /\ row[q].status # "NONE" /\ Key[p] = Key[q] /\ Key[p] # None => p = q

\* The two causes of a verdict.
WasPaid(p) == p \in polled \/ Heard(p, "paid")
WasFailed(p) == charge[p] = "refused" \/ Heard(p, "failed")

\* What is so of a payment between any two statements.
RowIsSound(p) ==
  /\ row[p].status = "NONE" => charge[p] = "none" /\ ~row[p].ref
  /\ Provider[p] \in Mobile =>
       /\ row[p].status \in {"COMPLETED", "REFUNDED"} => WasPaid(p)
       /\ row[p].status = "FAILED" => WasFailed(p)
       /\ row[p].status = "REFUNDED" => refunded[p] > 0
       /\ refunded[p] > 0 => WasPaid(p)

\* What a request knows of its payment p at each of its steps.
KnowsOf(k, p) ==
  /\ k.at = "create" <=> k.at # "idle" /\ row[p].status = "NONE"
  /\ k.at = "gateway" => charge[p] = "none"
  /\ k.at = "failed" => charge[p] = "refused"
  /\ k.at = "apply" =>
       /\ k.status \in {"PENDING", "PROCESSING", "COMPLETED", "FAILED"}
       /\ k.status = "COMPLETED" => WasPaid(p)
       /\ k.status = "FAILED" => WasFailed(p)
  /\ k.at = "refund" /\ Provider[p] \in Mobile => WasPaid(p)
  /\ k.at = "refunded" /\ Provider[p] \in Mobile => refunded[p] > 0

IsKnown(k) == k.at # "idle" => k.tx \in Payments /\ KnowsOf(k, k.tx)

CallIsSound(c) == IsKnown(call[c])

\* A payment nobody doubts is refunded once: when it was, nobody else is about to, and
\* it is marked or about to be.
RefundedOnce(p) ==
  p \notin suspect /\ Provider[p] \in Mobile =>
    /\ refunded[p] <= 1
    /\ refunded[p] = 1 =>
         /\ \A c \in Calls : ~(call[c].tx = p /\ call[c].at = "refund")
         /\ \/ row[p].status = "REFUNDED"
            \/ \E c \in Calls : call[c].tx = p /\ call[c].at = "refunded"

Sound ==
  /\ TypeOK
  /\ OneInitiator
  /\ OneRowPerKey
  /\ \A p \in Payments : RowIsSound(p)
  /\ \A c \in Calls : CallIsSound(c)

IndInv == Sound /\ \A p \in Payments : RefundedOnce(p)

-----------------------------------------------------------------------------

\* Before any request nothing is stored, asked for or known.
LEMMA IndInvInit == Init => IndInv
<1> SUFFICES ASSUME Init PROVE IndInv
  OBVIOUS
<1> USE DEF Init, Idle
<1>1. TypeOK
  BY DEF TypeOK, TxStatus
<1>2. OneInitiator /\ OneRowPerKey
  BY DEF OneInitiator, Initiating, OneRowPerKey
<1>3. \A p \in Payments : RowIsSound(p) /\ RefundedOnce(p)
  BY DEF RowIsSound, RefundedOnce
<1>4. \A c \in Calls : CallIsSound(c)
  BY DEF CallIsSound, IsKnown
<1> QED BY <1>1, <1>2, <1>3, <1>4 DEF IndInv, Sound

\* The shape of a request and of a row.
CallType == [at : {"idle"} \cup Initiating \cup {"apply", "refund", "refunded"},
             tx : Payments \cup {None}, status : TxStatus \cup {"NONE"}]

RowType == [status : (TxStatus \ {"CANCELLED"}) \cup {"NONE"}, ref : BOOLEAN]

\* A request under way has its shape, and what it knows of its payment is so.
LEMMA CallsTyped ==
  ASSUME Sound, NEW c \in Calls
  PROVE  /\ call[c] \in CallType
         /\ call[c].at # "idle" => call[c].tx \in Payments /\ KnowsOf(call[c], call[c].tx)
BY DEF Sound, TypeOK, CallType, CallIsSound, IsKnown, Initiating

\* A row has its shape.
LEMMA RowsTyped ==
  ASSUME Sound, NEW p \in Payments
  PROVE  row[p] \in RowType /\ refunded[p] \in 0..MaxRefunds /\ RowIsSound(p)
         /\ charge[p] \in {"none", "refused", "pending", "paid", "failed"}
BY DEF Sound, TypeOK, RowType

\* What was said and done stays said and done.
Grows ==
  /\ polled \subseteq polled'
  /\ \A p \in Payments : charge[p] \in {"refused", "paid", "failed"} => charge'[p] = charge[p]
  /\ \A p \in Payments : refunded[p] > 0 => refunded'[p] > 0

LEMMA CausesStay ==
  ASSUME Grows, NEW p \in Payments
  PROVE  /\ WasPaid(p) => WasPaid(p)'
         /\ WasFailed(p) => WasFailed(p)'
BY DEF Grows, WasPaid, WasFailed, Heard, SameRef

\* Nobody but c initiates what c would as k.
NobodyElse(c, k) == k.at \in Initiating => \A d \in Calls \ {c} : call[d].at \in Initiating => call[d].tx # k.tx

\* Payment p may change as it does by request c.
MayChange(c, p) ==
  /\ row[p].status # "NONE" => row'[p].status # "NONE"
  /\ row[p].status = "NONE" /\ row'[p].status # "NONE" => ~KeyIsUsed(p)
  /\ (row[p].status = "NONE" /\ row'[p].status # "NONE") \/ charge'[p] # charge[p]
       => call[c].at \in Initiating /\ call[c].tx = p

\* Request c goes on as k, and at most payment p changes: its row is inserted or its
\* collection is decided upon only by the one who initiates it.
LEMMA SoundMoves ==
  ASSUME Sound, Grows, NEW c \in Calls, NEW k \in CallType, call' = [call EXCEPT ![c] = k],
         row' \in [Payments -> RowType], charge' \in [Payments -> {"none", "refused", "pending", "paid", "failed"}],
         refunded' \in [Payments -> 0..MaxRefunds], polled' \subseteq Payments, suspect' \subseteq Payments,
         NEW p,
         \A q \in Payments \ {p} : row'[q] = row[q] /\ charge'[q] = charge[q] /\ refunded'[q] = refunded[q],
         p \in Payments => RowIsSound(p)' /\ MayChange(c, p), IsKnown(k)', NobodyElse(c, k)
  PROVE  Sound'
<1>1. call'[c] = k /\ \A d \in Calls \ {c} : call'[d] = call[d]
  BY DEF Sound, TypeOK
<1>2. TypeOK'
  BY DEF Sound, TypeOK, CallType, RowType, Initiating
<1>3. OneInitiator'
  BY <1>1 DEF Sound, OneInitiator, NobodyElse
<1>4. OneRowPerKey'
  <2> SUFFICES ASSUME NEW q \in Payments, NEW r \in Payments, row'[q].status # "NONE", row'[r].status # "NONE",
                      Key[q] = Key[r], Key[q] # None, q # r
               PROVE  FALSE
    BY DEF OneRowPerKey
  <2>1. CASE row[q].status # "NONE" /\ row[r].status # "NONE"
    BY <2>1 DEF Sound, OneRowPerKey
  <2>2. CASE row[q].status = "NONE"
    BY <2>2 DEF KeyIsUsed, MayChange
  <2>3. CASE row[r].status = "NONE"
    BY <2>3 DEF KeyIsUsed, MayChange
  <2> QED BY <2>1, <2>2, <2>3
<1>5. ASSUME NEW q \in Payments PROVE RowIsSound(q)'
  <2>1. CASE q = p
    BY <2>1
  <2>2. CASE q # p
    BY <2>2, CausesStay DEF Sound, RowIsSound
  <2> QED BY <2>1, <2>2
<1>6. ASSUME NEW d \in Calls PROVE CallIsSound(d)'
  <2>1. CASE d = c
    BY <1>1, <2>1 DEF CallIsSound, IsKnown, KnowsOf, WasPaid, WasFailed, Heard, SameRef
  <2>2. CASE d # c
    <3> SUFFICES ASSUME NEW q \in Payments, NEW s \in CallType, q = call[d].tx, s = call[d], s.at # "idle", KnowsOf(s, q)
                 PROVE  KnowsOf(s, q)'
      BY <1>1, <2>2, CallsTyped DEF CallIsSound, IsKnown
    <3>1. /\ s.at = "create" <=> row'[q].status = "NONE"
          /\ s.at = "gateway" => charge'[q] = "none"
      <4>1. CASE q # p
        BY <4>1 DEF KnowsOf
      <4>2. CASE q = p
        <5>1. s.at \in Initiating => ~(call[c].at \in Initiating /\ call[c].tx = p)
          BY <2>2, <4>2 DEF Sound, OneInitiator
        <5>2. s.at = "create" => charge[q] = "none"
          BY RowsTyped DEF KnowsOf, RowIsSound
        <5> QED BY <4>2, <5>1, <5>2 DEF KnowsOf, Initiating, MayChange
      <4> QED BY <4>1, <4>2
    <3> QED BY <3>1, CausesStay DEF KnowsOf, Grows
  <2> QED BY <2>1, <2>2
<1> QED BY <1>2, <1>3, <1>4, <1>5, <1>6 DEF Sound


-----------------------------------------------------------------------------
(* Every step of a request. *)

\* Request c goes on as k and nothing else changes, but that it may poll.
LEMMA CallMoves ==
  ASSUME Sound, NEW c \in Calls, NEW k \in CallType, call' = [call EXCEPT ![c] = k],
         UNCHANGED <<row, charge, refunded>>, polled \subseteq polled', polled' \subseteq Payments, suspect' \subseteq Payments,
         IsKnown(k)', NobodyElse(c, k)
  PROVE  Sound'
<1>1. Grows
  BY DEF Grows
<1>2. /\ row' \in [Payments -> RowType] /\ charge' \in [Payments -> {"none", "refused", "pending", "paid", "failed"}]
      /\ refunded' \in [Payments -> 0..MaxRefunds]
  BY DEF Sound, TypeOK, RowType
<1>3. None \notin Payments
  OBVIOUS
<1> QED BY <1>1, <1>2, <1>3, SoundMoves

\* A request returns, or dies, and leaves every row as it is.
LEMMA RequestEnds ==
  ASSUME Sound, NEW c \in Calls, Return(c), UNCHANGED <<row, charge, refunded, polled>>, suspect' \subseteq Payments
  PROVE  Sound'
<1>1. Idle \in CallType /\ Idle.at = "idle"
  BY DEF Idle, CallType, TxStatus
<1>2. IsKnown(Idle)' /\ NobodyElse(c, Idle)
  BY <1>1 DEF IsKnown, NobodyElse, Initiating
<1> QED BY <1>1, <1>2, CallMoves DEF Return, Sound, TypeOK

\* Initiate of an id whose row does not exist.
LEMMA InitiateKeeps ==
  ASSUME Sound, NEW c \in Calls, NEW p \in Payments, Initiate(c, p), suspect' \subseteq Payments
  PROVE  Sound'
<1>1. PICK k : k = [Idle EXCEPT !.at = "create", !.tx = p]
  OBVIOUS
<1>2. k \in CallType /\ k.at = "create" /\ k.tx = p
  BY <1>1 DEF Idle, CallType, Initiating
<1>3. KnowsOf(k, p)'
  BY <1>2 DEF Initiate, KnowsOf
<1>4. IsKnown(k)' /\ NobodyElse(c, k)
  BY <1>2, <1>3 DEF IsKnown, NobodyElse, Initiate, Initiating
<1> QED BY <1>1, <1>2, <1>4, CallMoves DEF Initiate, Sound, TypeOK

\* What Verify reads, and what it is told.
LEMMA VerifyKeeps ==
  ASSUME Sound, NEW c \in Calls, NEW p \in Payments, Verify(c, p), suspect' \subseteq Payments
  PROVE  Sound'
<1>1. PICK k : k = [at |-> "apply", tx |-> p, status |-> "COMPLETED"]
  OBVIOUS
<1>2. call' = [call EXCEPT ![c] = k] /\ k \in CallType /\ k.at = "apply" /\ k.tx = p /\ k.status = "COMPLETED"
  BY <1>1 DEF Verify, Normalise, GatewayVerify, CallType, TxStatus
<1>3. KnowsOf(k, p)'
  BY <1>2 DEF Verify, KnowsOf, WasPaid
<1>4. polled \subseteq polled' /\ polled' \subseteq Payments
  BY DEF Verify, Sound, TypeOK
<1>5. IsKnown(k)' /\ NobodyElse(c, k)
  BY <1>2, <1>3 DEF IsKnown, NobodyElse, Initiating
<1> QED BY <1>2, <1>4, <1>5, CallMoves DEF Verify

\* A webhook, however old, carries what the provider said of the reference.
LEMMA HandleWebhookKeeps ==
  ASSUME Sound, NEW c \in Calls, NEW p \in Payments, NEW q \in Payments, HandleWebhook(c, p, q), suspect' \subseteq Payments
  PROVE  Sound'
<1>1. PICK answer \in {"pending", "other", charge[q]} : ReceiveAs(c, p, q, Normalise(Provider[p], answer))
  BY DEF HandleWebhook
<1>2. PICK s : s = Normalise(Provider[p], answer)
  OBVIOUS
<1>3. s \in {"PENDING", "PROCESSING", "COMPLETED", "FAILED"}
  BY <1>1, <1>2 DEF Normalise
<1>4. /\ s = "COMPLETED" => answer = "paid"
      /\ s = "FAILED" => answer = "failed"
  BY <1>1, <1>2 DEF Normalise
<1>5. /\ s = "COMPLETED" => WasPaid(p)
      /\ s = "FAILED" => WasFailed(p)
  BY <1>1, <1>4 DEF ReceiveAs, WasPaid, WasFailed, Heard
<1>6. PICK k : k = [at |-> "apply", tx |-> p, status |-> s]
  OBVIOUS
<1>7. call' = [call EXCEPT ![c] = k] /\ k \in CallType /\ k.at = "apply" /\ k.tx = p /\ k.status = s
  BY <1>1, <1>2, <1>3, <1>6 DEF ReceiveAs, CallType, TxStatus
<1>8. row[p].status # "NONE"
  BY <1>1, RowsTyped DEF ReceiveAs, RowIsSound
<1>9. KnowsOf(k, p)'
  BY <1>1, <1>3, <1>5, <1>7, <1>8 DEF ReceiveAs, KnowsOf, WasPaid, WasFailed, Heard, SameRef
<1>10. IsKnown(k)' /\ NobodyElse(c, k)
  BY <1>7, <1>9 DEF IsKnown, NobodyElse, Initiating
<1> QED BY <1>1, <1>7, <1>10, CallMoves DEF ReceiveAs, Sound, TypeOK

\* Refund starts from a COMPLETED row.
LEMMA RefundKeeps ==
  ASSUME Sound, NEW c \in Calls, NEW p \in Payments, Refund(c, p), suspect' \subseteq Payments
  PROVE  Sound'
<1>1. PICK at : at = IF Provider[p] = "CASH" THEN "refunded" ELSE "refund"
  OBVIOUS
<1>2. PICK k : k = [Idle EXCEPT !.at = at, !.tx = p]
  OBVIOUS
<1>3. call' = [call EXCEPT ![c] = k] /\ k \in CallType /\ k.at = at /\ k.tx = p
  BY <1>1, <1>2 DEF Refund, RefundIf, Idle, CallType, Initiating
<1>4. KnowsOf(k, p)
  BY <1>1, <1>3, RowsTyped DEF Refund, RefundIf, KnowsOf, RowIsSound, Mobile
<1>5. KnowsOf(k, p)'
  BY <1>4 DEF Refund, RefundIf, KnowsOf, WasPaid, WasFailed, Heard, SameRef
<1>6. IsKnown(k)' /\ NobodyElse(c, k)
  BY <1>1, <1>3, <1>5 DEF IsKnown, NobodyElse, Initiating
<1> QED BY <1>3, <1>6, CallMoves DEF Refund, RefundIf, Sound, TypeOK

\* Status s of payment p has its cause.
HasCause(p, s) ==
  Provider[p] \in Mobile =>
    /\ s \in {"COMPLETED", "REFUNDED"} => WasPaid(p)
    /\ s = "FAILED" => WasFailed(p)
    /\ s = "REFUNDED" => refunded[p] > 0

\* Request c writes row v of its payment p and goes on as k.
LEMMA RowMoves ==
  ASSUME Sound, NEW c \in Calls, NEW k \in CallType, call' = [call EXCEPT ![c] = k],
         NEW p \in Payments, NEW v \in RowType, row' = [row EXCEPT ![p] = v],
         UNCHANGED <<charge, refunded, polled>>, suspect' \subseteq Payments,
         v.status # "NONE",
         row[p].status = "NONE" => ~KeyIsUsed(p) /\ call[c].at \in Initiating /\ call[c].tx = p,
         HasCause(p, v.status),
         IsKnown(k)', NobodyElse(c, k)
  PROVE  Sound'
<1>1. row'[p] = v /\ \A q \in Payments \ {p} : row'[q] = row[q]
  BY DEF Sound, TypeOK
<1>2. Grows
  BY DEF Grows
<1>3. RowIsSound(p)'
  BY <1>1, RowsTyped, CausesStay, <1>2 DEF RowIsSound, HasCause
<1>4. /\ row' \in [Payments -> RowType] /\ charge' \in [Payments -> {"none", "refused", "pending", "paid", "failed"}]
      /\ refunded' \in [Payments -> 0..MaxRefunds] /\ polled' \subseteq Payments
  BY DEF Sound, TypeOK, RowType
<1>5. MayChange(c, p)
  BY <1>1 DEF MayChange
<1>6. \A q \in Payments \ {p} : row'[q] = row[q] /\ charge'[q] = charge[q] /\ refunded'[q] = refunded[q]
  BY <1>1
<1> QED BY <1>2, <1>3, <1>4, <1>5, <1>6, SoundMoves

\* The INSERT of Initiate, and its refusal by the unique key.
LEMMA CreateKeeps ==
  ASSUME Sound, NEW c \in Calls, Create(c), suspect' \subseteq Payments
  PROVE  Sound'
<1>1. CASE Return(c) /\ UNCHANGED row
  BY <1>1, RequestEnds DEF Create, CreateIf
<1>2. CASE ~(Return(c) /\ UNCHANGED row)
  <2>1. PICK p \in Payments : p = call[c].tx /\ KnowsOf(call[c], p)
    BY CallsTyped DEF Create, CreateIf
  <2>2. PICK s : s = IF Provider[p] \in Counter THEN "COMPLETED" ELSE "PENDING"
    OBVIOUS
  <2>3. PICK k : k = IF Provider[p] \in Counter THEN Idle ELSE [call[c] EXCEPT !.at = "gateway"]
    OBVIOUS
  <2>4. /\ row[p].status = "NONE" /\ ~row[p].ref /\ charge[p] = "none"
        /\ call[c] \in CallType /\ call[c].at = "create" /\ row[p] \in RowType
    BY <2>1, CallsTyped, RowsTyped DEF Create, CreateIf, KnowsOf, RowIsSound
  <2>5. PICK v : v = [row[p] EXCEPT !.status = s]
    OBVIOUS
  <2>6. /\ ~KeyIsUsed(p) /\ row' = [row EXCEPT ![p] = v]
        /\ v \in RowType /\ v.status = s /\ s # "NONE"
    BY <1>2, <2>1, <2>2, <2>4, <2>5 DEF Create, CreateIf, SetStatus, RowType, TxStatus
  <2>7. row'[p].status = s /\ UNCHANGED <<charge, refunded, polled>>
    BY <2>6 DEF Create, CreateIf, Sound, TypeOK
  <2>8. call' = [call EXCEPT ![c] = k]
    BY <1>2, <2>1, <2>3 DEF Create, CreateIf, Return, Goto
  <2>9. k \in CallType /\ (k.at # "idle" => k.at = "gateway" /\ k.tx = p)
    BY <2>1, <2>3, <2>4 DEF CallType, Idle, Initiating
  <2>10. IsKnown(k)'
    BY <2>2, <2>4, <2>6, <2>7, <2>9 DEF KnowsOf, IsKnown
  <2>11. NobodyElse(c, k)
    BY <2>1, <2>4, <2>9 DEF Sound, OneInitiator, Initiating, NobodyElse
  <2>12. HasCause(p, v.status)
    BY <2>2, <2>6 DEF Mobile, Counter, HasCause
  <2>13. /\ v.status # "NONE" /\ row' = [row EXCEPT ![p] = v] /\ v \in RowType
         /\ row[p].status = "NONE" => ~KeyIsUsed(p) /\ call[c].at \in Initiating /\ call[c].tx = p
    BY <2>1, <2>4, <2>6 DEF Initiating
  <2> QED BY <2>7, <2>8, <2>9, <2>10, <2>11, <2>12, <2>13, RowMoves
<1> QED BY <1>1, <1>2

\* A request ends with an UPDATE of the status of its payment, or with its error.
LEMMA StatusWritten ==
  ASSUME Sound, NEW c \in Calls, NEW p \in Payments, NEW s \in TxStatus \ {"CANCELLED"},
         Try(SetStatus(p, s)), Return(c), UNCHANGED <<charge, refunded, polled>>, suspect' \subseteq Payments,
         row[p].status # "NONE", HasCause(p, s)
  PROVE  Sound'
<1>1. CASE UNCHANGED row
  BY <1>1, RequestEnds
<1>2. CASE SetStatus(p, s)
  <2>1. PICK v : v = [row[p] EXCEPT !.status = s]
    OBVIOUS
  <2>2. row' = [row EXCEPT ![p] = v] /\ v \in RowType /\ v.status = s /\ s # "NONE"
    BY <1>2, <2>1, RowsTyped DEF SetStatus, RowType, TxStatus
  <2>3. Idle \in CallType /\ Idle.at = "idle"
    BY DEF Idle, CallType, TxStatus
  <2>4. IsKnown(Idle)' /\ NobodyElse(c, Idle)
    BY <2>3 DEF IsKnown, NobodyElse, Initiating
  <2>5. v.status # "NONE" /\ HasCause(p, v.status) /\ call' = [call EXCEPT ![c] = Idle]
    BY <2>2 DEF Return
  <2> QED BY <2>2, <2>3, <2>4, <2>5, RowMoves
<1> QED BY <1>1, <1>2 DEF Try

\* FAILED is written after the adapter refused.
LEMMA MarkFailedKeeps ==
  ASSUME Sound, NEW c \in Calls, MarkFailed(c), suspect' \subseteq Payments
  PROVE  Sound'
BY CallsTyped, StatusWritten DEF MarkFailed, KnowsOf, WasFailed, TxStatus, HasCause

\* PROCESSING is written over whatever the row holds, but never over no row.
LEMMA MarkProcessingKeeps ==
  ASSUME Sound, NEW c \in Calls, MarkProcessing(c), suspect' \subseteq Payments
  PROVE  Sound'
BY CallsTyped, StatusWritten DEF MarkProcessing, KnowsOf, TxStatus, HasCause

\* The UPDATE of Verify or of a webhook, over whatever the row has become.
LEMMA ApplyKeeps ==
  ASSUME Sound, NEW c \in Calls, Apply(c), suspect' \subseteq Payments
  PROVE  Sound'
BY CallsTyped, StatusWritten DEF Apply, KnowsOf, TxStatus, HasCause

\* REFUNDED is written after the adapter gave the money back, or for cash.
LEMMA MarkRefundedKeeps ==
  ASSUME Sound, NEW c \in Calls, MarkRefunded(c), suspect' \subseteq Payments
  PROVE  Sound'
<1>1. PICK p \in Payments : p = call[c].tx /\ KnowsOf(call[c], p) /\ call[c].at = "refunded"
  BY CallsTyped DEF MarkRefunded
<1>2. /\ row[p].status # "NONE"
      /\ Provider[p] \in Mobile => refunded[p] > 0 /\ WasPaid(p)
  BY <1>1, RowsTyped DEF KnowsOf, RowIsSound
<1> QED BY <1>1, <1>2, StatusWritten DEF MarkRefunded, TxStatus, HasCause

\* The reference reaches the row, or the UPDATE fails and the request goes on.
LEMMA UpdateProviderRefKeeps ==
  ASSUME Sound, NEW c \in Calls, UpdateProviderRef(c), suspect' \subseteq Payments
  PROVE  Sound'
<1>1. PICK p \in Payments : p = call[c].tx /\ KnowsOf(call[c], p) /\ call[c].at = "reference" /\ call[c] \in CallType
  BY CallsTyped DEF UpdateProviderRef
<1>2. PICK k : k = [call[c] EXCEPT !.at = "processing"]
  OBVIOUS
<1>3. call' = [call EXCEPT ![c] = k] /\ k \in CallType /\ k.at = "processing" /\ k.tx = p
  BY <1>1, <1>2 DEF UpdateProviderRef, Goto, CallType, Initiating
<1>4. row[p].status # "NONE" /\ row[p] \in RowType /\ RowIsSound(p) /\ UNCHANGED <<charge, refunded, polled>>
  BY <1>1, RowsTyped DEF KnowsOf, UpdateProviderRef
<1>5. NobodyElse(c, k)
  BY <1>1, <1>3 DEF Sound, OneInitiator, Initiating, NobodyElse
<1>6. CASE UNCHANGED row
  <2>1. IsKnown(k)'
    BY <1>3, <1>4, <1>6 DEF KnowsOf, IsKnown
  <2> QED BY <1>3, <1>4, <1>5, <1>6, <2>1, CallMoves DEF Sound, TypeOK
<1>7. CASE row' = [row EXCEPT ![call[c].tx].ref = TRUE]
  <2>1. PICK v : v = [row[p] EXCEPT !.ref = TRUE]
    OBVIOUS
  <2>2. row' = [row EXCEPT ![p] = v] /\ v \in RowType /\ v.status = row[p].status
    BY <1>1, <1>4, <1>7, <2>1 DEF RowType
  <2>3. row'[p].status # "NONE"
    BY <1>4, <2>2 DEF Sound, TypeOK
  <2>4. IsKnown(k)'
    BY <1>3, <2>3 DEF KnowsOf, IsKnown
  <2>5. v.status # "NONE" /\ HasCause(p, v.status)
    BY <1>4, <2>2 DEF RowIsSound, HasCause
  <2> QED BY <1>3, <1>4, <1>5, <2>2, <2>4, <2>5, RowMoves
<1> QED BY <1>6, <1>7 DEF UpdateProviderRef, Try

\* An adapter takes the collection or refuses it.
LEMMA CallGatewayKeeps ==
  ASSUME Sound, NEW c \in Calls, CallGateway(c), suspect' \subseteq Payments
  PROVE  Sound'
<1>1. PICK p \in Payments : p = call[c].tx /\ KnowsOf(call[c], p) /\ call[c].at = "gateway" /\ call[c] \in CallType
  BY CallsTyped DEF CallGateway
<1>2. PICK at, said : /\ <<at, said>> \in {<<"reference", "pending">>, <<"failed", "refused">>}
                      /\ Goto(c, at) /\ charge' = [charge EXCEPT ![p] = said] /\ UNCHANGED <<row, refunded, polled>>
  BY <1>1 DEF CallGateway
<1>3. PICK k : k = [call[c] EXCEPT !.at = at]
  OBVIOUS
<1>4. at \in Initiating \ {"create", "gateway"} /\ at \in {"reference", "failed"} /\ (at = "failed" => said = "refused")
      /\ said \in {"pending", "refused"}
  BY <1>2 DEF Initiating
<1>5. call' = [call EXCEPT ![c] = k] /\ k \in CallType /\ k.at = at /\ k.tx = p
  BY <1>1, <1>2, <1>3, <1>4 DEF Goto, CallType
<1>6. /\ charge'[p] = said /\ charge[p] = "none" /\ row[p].status # "NONE" /\ RowIsSound(p)
      /\ \A q \in Payments \ {p} : charge'[q] = charge[q]
  BY <1>1, <1>2, RowsTyped DEF KnowsOf, Sound, TypeOK
<1>7. Grows
  BY <1>2, <1>6 DEF Grows
<1>8. RowIsSound(p)'
  BY <1>2, <1>6, <1>7, CausesStay DEF RowIsSound
<1>9. IsKnown(k)'
  BY <1>2, <1>4, <1>5, <1>6 DEF KnowsOf, IsKnown
<1>10. /\ row' \in [Payments -> RowType] /\ charge' \in [Payments -> {"none", "refused", "pending", "paid", "failed"}]
       /\ refunded' \in [Payments -> 0..MaxRefunds] /\ polled' \subseteq Payments
  BY <1>2, <1>4 DEF Sound, TypeOK, RowType
<1>11. NobodyElse(c, k)
  BY <1>1, <1>5 DEF Sound, OneInitiator, Initiating, NobodyElse
<1>12. MayChange(c, p)
  BY <1>1, <1>2, <1>6 DEF Initiating, MayChange
<1>13. \A q \in Payments \ {p} : row'[q] = row[q] /\ charge'[q] = charge[q] /\ refunded'[q] = refunded[q]
  BY <1>2, <1>6
<1> QED BY <1>5, <1>7, <1>8, <1>9, <1>10, <1>11, <1>12, <1>13, SoundMoves

\* An adapter gives the money back.
LEMMA CallRefundKeeps ==
  ASSUME Sound, NEW c \in Calls, CallRefund(c), suspect' \subseteq Payments
  PROVE  Sound'
<1>1. PICK p \in Payments : p = call[c].tx /\ KnowsOf(call[c], p) /\ call[c].at = "refund" /\ call[c] \in CallType
  BY CallsTyped DEF CallRefund
<1>2. PICK k : k = [call[c] EXCEPT !.at = "refunded"]
  OBVIOUS
<1>3. call' = [call EXCEPT ![c] = k] /\ k \in CallType /\ k.at = "refunded" /\ k.tx = p /\ UNCHANGED <<row, charge, polled>>
  BY <1>1, <1>2 DEF CallRefund, Goto, CallType
<1>4. /\ refunded[p] \in Nat /\ MaxRefunds \in Nat /\ refunded[p] < MaxRefunds
      /\ refunded' = [refunded EXCEPT ![p] = refunded[p] + 1]
      /\ refunded \in [Payments -> 0..MaxRefunds]
  BY <1>1, RowsTyped DEF CallRefund, Sound, TypeOK
<1>5. /\ refunded'[p] = refunded[p] + 1 /\ refunded'[p] > 0
      /\ \A q \in Payments \ {p} : refunded'[q] = refunded[q]
      /\ refunded' \in [Payments -> 0..MaxRefunds]
  BY <1>4
<1>6. Grows
  BY <1>3, <1>5 DEF Grows
<1>7. RowIsSound(p) /\ (Provider[p] \in Mobile => WasPaid(p)) /\ row[p].status # "NONE"
  BY <1>1, RowsTyped DEF KnowsOf
<1>8. RowIsSound(p)'
  BY <1>3, <1>5, <1>6, <1>7, CausesStay DEF RowIsSound
<1>9. IsKnown(k)' /\ NobodyElse(c, k)
  BY <1>3, <1>5, <1>7 DEF KnowsOf, IsKnown, NobodyElse, Initiating
<1>10. /\ row' \in [Payments -> RowType] /\ charge' \in [Payments -> {"none", "refused", "pending", "paid", "failed"}]
       /\ polled' \subseteq Payments
  BY <1>3 DEF Sound, TypeOK, RowType
<1>11. MayChange(c, p)
  BY <1>3 DEF MayChange
<1>12. \A q \in Payments \ {p} : row'[q] = row[q] /\ charge'[q] = charge[q] /\ refunded'[q] = refunded[q]
  BY <1>3, <1>5
<1> QED BY <1>3, <1>5, <1>6, <1>8, <1>9, <1>10, <1>11, <1>12, SoundMoves

\* What a provider decides of a collection, nobody's row or request denies.
LEMMA SettleKeeps ==
  ASSUME Sound, NEW p \in Payments, Settle(p), suspect' \subseteq Payments
  PROVE  Sound'
<1>1. PICK outcome \in {"paid", "failed"} : charge' = [charge EXCEPT ![p] = outcome]
  BY DEF Settle
<1>2. /\ charge[p] = "pending" /\ charge'[p] = outcome /\ \A q \in Payments \ {p} : charge'[q] = charge[q]
      /\ UNCHANGED <<row, call, refunded, polled>>
  BY <1>1 DEF Settle, Sound, TypeOK
<1>3. Grows
  BY <1>2 DEF Grows
<1>4. TypeOK'
  BY <1>1, <1>2 DEF Sound, TypeOK
<1>5. OneInitiator' /\ OneRowPerKey'
  BY <1>2 DEF Sound, OneInitiator, OneRowPerKey
<1>6. ASSUME NEW q \in Payments PROVE RowIsSound(q)'
  BY <1>2, <1>3, RowsTyped, CausesStay DEF RowIsSound
<1>7. ASSUME NEW c \in Calls PROVE CallIsSound(c)'
  BY <1>2, <1>3, CallsTyped, CausesStay DEF CallIsSound, IsKnown, KnowsOf
<1> QED BY <1>4, <1>5, <1>6, <1>7 DEF Sound


-----------------------------------------------------------------------------
(* A payment is refunded once. *)

\* No refund begins and no money is given back: those that gave it back remain or end.
LEMMA RefundsStay ==
  ASSUME IndInv, Sound', suspect' = suspect \cup Doubted, UNCHANGED refunded,
         \A c \in Calls : call'[c].at = "refund" => call'[c] = call[c],
         \A c \in Calls : call[c].at = "refunded" => call'[c] = call[c] \/ call'[c] = Idle
  PROVE  \A p \in Payments : RefundedOnce(p)'
<1> SUFFICES ASSUME NEW p \in Payments, p \notin suspect', Provider[p] \in Mobile
             PROVE  /\ refunded[p] <= 1
                    /\ refunded[p] = 1 =>
                         /\ \A c \in Calls : ~(call'[c].tx = p /\ call'[c].at = "refund")
                         /\ \/ row'[p].status = "REFUNDED"
                            \/ \E c \in Calls : call'[c].tx = p /\ call'[c].at = "refunded"
  BY DEF RefundedOnce
<1>1. RefundedOnce(p) /\ p \notin suspect /\ p \notin Doubted
  BY DEF IndInv
<1>2. refunded[p] <= 1
  BY <1>1 DEF RefundedOnce
<1>3. ASSUME refunded[p] = 1
      PROVE  /\ \A c \in Calls : ~(call'[c].tx = p /\ call'[c].at = "refund")
             /\ \/ row'[p].status = "REFUNDED"
                \/ \E c \in Calls : call'[c].tx = p /\ call'[c].at = "refunded"
  <2>1. \A c \in Calls : ~(call'[c].tx = p /\ call'[c].at = "refund")
    BY <1>1, <1>3 DEF RefundedOnce
  <2>2. refunded'[p] > 0
    BY <1>3
  <2>3. CASE row[p].status = "REFUNDED"
    BY <1>1, <2>1, <2>2, <2>3 DEF Doubted
  <2>4. CASE \E c \in Calls : call[c].tx = p /\ call[c].at = "refunded"
    <3>1. PICK c \in Calls : call[c].tx = p /\ call[c].at = "refunded"
      BY <2>4
    <3>2. CASE call'[c] = call[c]
      BY <2>1, <3>1, <3>2
    <3>3. CASE call'[c] = Idle
      BY <1>1, <2>1, <2>2, <3>1, <3>3 DEF Doubted
    <3> QED BY <3>1, <3>2, <3>3
  <2> QED BY <1>1, <1>3, <2>1, <2>3, <2>4 DEF RefundedOnce
<1> QED BY <1>2, <1>3

\* A second refund that begins while the first is not marked is doubted.
LEMMA RefundBegins ==
  ASSUME IndInv, Sound', suspect' = suspect \cup Doubted, NEW c \in Calls, NEW p \in Payments, Refund(c, p)
  PROVE  \A q \in Payments : RefundedOnce(q)'
<1>1. PICK k : /\ call' = [call EXCEPT ![c] = k] /\ k.tx = p /\ k.at \in {"refund", "refunded"}
               /\ Provider[p] \in Mobile => k.at = "refund"
  <2>1. PICK at : at = IF Provider[p] = "CASH" THEN "refunded" ELSE "refund"
    OBVIOUS
  <2>2. PICK k : k = [Idle EXCEPT !.at = at, !.tx = p]
    OBVIOUS
  <2>3. k.at = at /\ k.tx = p /\ call' = [call EXCEPT ![c] = k]
    BY <2>1, <2>2 DEF Refund, RefundIf, Idle
  <2> QED BY <2>1, <2>3 DEF Mobile
<1>2. call'[c] = k /\ \A d \in Calls \ {c} : call'[d] = call[d]
  BY <1>1 DEF IndInv, Sound, TypeOK
<1>3. UNCHANGED <<row, refunded>> /\ row[p].status = "COMPLETED" /\ call[c].at = "idle"
  BY DEF Refund, RefundIf, Idle
<1> SUFFICES ASSUME NEW q \in Payments, q \notin suspect', Provider[q] \in Mobile
             PROVE  /\ refunded[q] <= 1
                    /\ refunded[q] = 1 =>
                         /\ \A d \in Calls : ~(call'[d].tx = q /\ call'[d].at = "refund")
                         /\ \/ row[q].status = "REFUNDED"
                            \/ \E d \in Calls : call'[d].tx = q /\ call'[d].at = "refunded"
  BY <1>3 DEF RefundedOnce
<1>4. RefundedOnce(q) /\ q \notin suspect /\ q \notin Doubted
  BY DEF IndInv
<1>5. CASE q # p
  BY <1>1, <1>2, <1>3, <1>4, <1>5 DEF RefundedOnce
<1>6. CASE q = p
  <2>1. ASSUME refunded[q] = 1 PROVE FALSE
    <3>1. PICK d \in Calls : call[d].tx = p /\ call[d].at = "refunded"
      BY <1>3, <1>4, <1>6, <2>1 DEF RefundedOnce
    <3>2. d # c /\ refunded'[p] > 0
      BY <1>3, <1>6, <2>1, <3>1
    <3>3. Refunding(call'[c], p) /\ Refunding(call'[d], p)
      BY <1>1, <1>2, <3>1, <3>2 DEF Refunding
    <3> QED BY <1>4, <1>6, <3>2, <3>3 DEF Doubted
  <2> QED BY <1>4, <2>1 DEF RefundedOnce
<1> QED BY <1>5, <1>6

\* Whoever gives the money back while another is about to, or again, is doubted.
LEMMA RefundGoesOut ==
  ASSUME IndInv, Sound', suspect' = suspect \cup Doubted, NEW c \in Calls, CallRefund(c)
  PROVE  \A q \in Payments : RefundedOnce(q)'
<1>1. PICK p \in Payments : p = call[c].tx /\ call[c].at = "refund" /\ call[c] \in CallType
  BY CallsTyped DEF IndInv, CallRefund
<1>2. PICK k : k = [call[c] EXCEPT !.at = "refunded"]
  OBVIOUS
<1>3. k.at = "refunded" /\ k.tx = p /\ call'[c] = k /\ \A d \in Calls \ {c} : call'[d] = call[d]
  BY <1>1, <1>2 DEF CallRefund, Goto, IndInv, Sound, TypeOK, CallType
<1>4. /\ refunded[p] \in Nat /\ refunded'[p] = refunded[p] + 1
      /\ \A q \in Payments \ {p} : refunded'[q] = refunded[q]
  BY <1>1 DEF CallRefund, IndInv, Sound, TypeOK
<1>5. UNCHANGED row
  BY DEF CallRefund
<1> SUFFICES ASSUME NEW q \in Payments, q \notin suspect', Provider[q] \in Mobile
             PROVE  /\ refunded'[q] <= 1
                    /\ refunded'[q] = 1 =>
                         /\ \A d \in Calls : ~(call'[d].tx = q /\ call'[d].at = "refund")
                         /\ \/ row[q].status = "REFUNDED"
                            \/ \E d \in Calls : call'[d].tx = q /\ call'[d].at = "refunded"
  BY <1>5 DEF RefundedOnce
<1>6. RefundedOnce(q) /\ q \notin suspect /\ q \notin Doubted
  BY DEF IndInv
<1>7. CASE q # p
  BY <1>1, <1>3, <1>4, <1>6, <1>7 DEF RefundedOnce
<1>8. CASE q = p
  <2>1. refunded'[q] = 1
    BY <1>1, <1>4, <1>6, <1>8 DEF RefundedOnce
  <2>2. ASSUME NEW d \in Calls, call'[d].tx = q, call'[d].at = "refund" PROVE FALSE
    <3>1. d # c /\ refunded'[p] > 0
      BY <1>3, <1>8, <2>1, <2>2
    <3>2. Refunding(call'[c], p) /\ Refunding(call'[d], p)
      BY <1>3, <1>8, <2>2 DEF Refunding
    <3> QED BY <1>6, <1>8, <3>1, <3>2 DEF Doubted
  <2> QED BY <1>3, <1>8, <2>1, <2>2
<1> QED BY <1>7, <1>8

-----------------------------------------------------------------------------

\* Every step of a request but the two of a refund only goes on, or ends, with what it had.
LEMMA OthersRefundNothing ==
  ASSUME IndInv, NEW c \in Calls,
         \/ \E p \in Payments : Initiate(c, p) \/ Verify(c, p) \/ \E q \in Payments : HandleWebhook(c, p, q)
         \/ Create(c) \/ CallGateway(c) \/ MarkFailed(c) \/ UpdateProviderRef(c) \/ MarkProcessing(c)
         \/ Apply(c) \/ MarkRefunded(c) \/ Crash(c)
  PROVE  /\ UNCHANGED refunded
         /\ \A d \in Calls : call'[d].at = "refund" => call'[d] = call[d]
         /\ \A d \in Calls : call[d].at = "refunded" => call'[d] = call[d] \/ call'[d] = Idle
<1>1. ASSUME NEW k, call' = [call EXCEPT ![c] = k], k.at # "refund", call[c].at # "refunded" \/ k = Idle
      PROVE  /\ \A d \in Calls : call'[d].at = "refund" => call'[d] = call[d]
             /\ \A d \in Calls : call[d].at = "refunded" => call'[d] = call[d] \/ call'[d] = Idle
  <2>1. call'[c] = k /\ \A d \in Calls \ {c} : call'[d] = call[d]
    BY <1>1 DEF IndInv, Sound, TypeOK
  <2> QED BY <1>1, <2>1
<1>2. ASSUME Return(c) PROVE call' = [call EXCEPT ![c] = Idle] /\ Idle.at # "refund"
  BY <1>2 DEF Return, Idle
<1>3. ASSUME NEW at, Goto(c, at)
      PROVE  \E k : call' = [call EXCEPT ![c] = k] /\ k.at = at
  <2>1. PICK k : k = [call[c] EXCEPT !.at = at]
    OBVIOUS
  <2>2. k.at = at
    BY <2>1
  <2> QED BY <1>3, <2>1, <2>2 DEF Goto
<1>4. CASE \E p \in Payments : Initiate(c, p)
  <2>1. PICK p, k : k = [Idle EXCEPT !.at = "create", !.tx = p] /\ call' = [call EXCEPT ![c] = k]
    BY <1>4 DEF Initiate
  <2>2. k.at = "create"
    BY <2>1 DEF Idle
  <2>3. UNCHANGED refunded /\ call[c] = Idle
    BY <1>4 DEF Initiate
  <2>4. Idle.at = "idle"
    BY DEF Idle
  <2> QED BY <1>1, <2>1, <2>2, <2>3, <2>4
<1>5. CASE \E p \in Payments : Verify(c, p) \/ \E q \in Payments : HandleWebhook(c, p, q)
  <2>1. /\ call[c] = Idle /\ UNCHANGED refunded
        /\ \E p, s : call' = [call EXCEPT ![c] = [at |-> "apply", tx |-> p, status |-> s]]
    BY <1>5 DEF Verify, HandleWebhook, ReceiveAs
  <2> QED BY <1>1, <2>1 DEF Idle
<1>6. CASE Create(c)
  BY <1>1, <1>2, <1>3, <1>6 DEF Create, CreateIf
<1>7. CASE CallGateway(c) \/ UpdateProviderRef(c)
  BY <1>1, <1>3, <1>7 DEF CallGateway, UpdateProviderRef
<1>8. CASE MarkFailed(c) \/ MarkProcessing(c) \/ Apply(c) \/ MarkRefunded(c) \/ Crash(c)
  BY <1>1, <1>2, <1>8 DEF MarkFailed, MarkProcessing, Apply, MarkRefunded, Crash
<1> QED BY <1>4, <1>5, <1>6, <1>7, <1>8

\* Every step of Next keeps the invariant.
LEMMA IndInvNext == IndInv /\ [Next]_vars => IndInv'
<1> SUFFICES ASSUME IndInv, [Next]_vars PROVE IndInv'
  OBVIOUS
<1>1. CASE UNCHANGED vars
  BY <1>1 DEF vars, IndInv, Sound, TypeOK, OneInitiator, OneRowPerKey, RowIsSound, CallIsSound, IsKnown,
              KnowsOf, WasPaid, WasFailed, Heard, SameRef, RefundedOnce
<1>2. CASE Next
  <2>0. suspect' = suspect \cup Doubted /\ suspect' \subseteq Payments /\ Sound
    BY <1>2 DEF Next, Doubted, IndInv, Sound, TypeOK
  <2>1. ASSUME NEW c \in Calls, NEW p \in Payments, Refund(c, p) PROVE IndInv'
    BY <2>0, <2>1, RefundKeeps, RefundBegins DEF IndInv
  <2>2. ASSUME NEW c \in Calls, CallRefund(c) PROVE IndInv'
    BY <2>0, <2>2, CallRefundKeeps, RefundGoesOut DEF IndInv
  <2>3. ASSUME NEW p \in Payments, Settle(p) PROVE IndInv'
    BY <2>0, <2>3, SettleKeeps, RefundsStay DEF IndInv, Settle
  <2>4. ASSUME NEW c \in Calls,
               \/ \E p \in Payments : Initiate(c, p) \/ Verify(c, p) \/ \E q \in Payments : HandleWebhook(c, p, q)
               \/ Create(c) \/ CallGateway(c) \/ MarkFailed(c) \/ UpdateProviderRef(c) \/ MarkProcessing(c)
               \/ Apply(c) \/ MarkRefunded(c) \/ Crash(c)
        PROVE  IndInv'
    <3>1. CASE \E p \in Payments : Initiate(c, p) \/ Verify(c, p) \/ \E q \in Payments : HandleWebhook(c, p, q)
      <4>1. Sound'
        BY <2>0, <3>1, InitiateKeeps, VerifyKeeps, HandleWebhookKeeps
      <4> QED BY <2>0, <2>4, <4>1, OthersRefundNothing, RefundsStay DEF IndInv
    <3>2. CASE Create(c) \/ CallGateway(c) \/ MarkFailed(c) \/ UpdateProviderRef(c) \/ MarkProcessing(c)
      <4>1. Sound'
        BY <2>0, <3>2, CreateKeeps, CallGatewayKeeps, MarkFailedKeeps, UpdateProviderRefKeeps, MarkProcessingKeeps
      <4> QED BY <2>0, <2>4, <4>1, OthersRefundNothing, RefundsStay DEF IndInv
    <3>3. CASE Apply(c) \/ MarkRefunded(c) \/ Crash(c)
      <4>1. Sound'
        BY <2>0, <3>3, ApplyKeeps, MarkRefundedKeeps, RequestEnds DEF Crash
      <4> QED BY <2>0, <2>4, <4>1, OthersRefundNothing, RefundsStay DEF IndInv
    <3> QED BY <2>4, <3>1, <3>2, <3>3
  <2> QED BY <1>2, <2>1, <2>2, <2>3, <2>4 DEF Next
<1> QED BY <1>1, <1>2

\* The inductive invariant holds in every reachable state.
LEMMA Invariance == Spec => []IndInv
BY IndInvInit, IndInvNext, PTL DEF Spec

-----------------------------------------------------------------------------

\* The shape of rows, requests and of what the provider says is kept by every statement,
\* gateway call and crash; no code stores CANCELLED.
THEOREM TypeCorrect == Spec => []TypeOK
<1>1. IndInv => TypeOK
  BY DEF IndInv, Sound
<1> QED BY <1>1, Invariance, PTL

\* However many requests carry one Idempotency-Key, and wherever they die, one
\* collection is asked for, for a transaction that is in the table.
THEOREM ChargedOnceAndRecorded == Spec => []OneRecordedChargePerKey
<1>1. IndInv => OneRecordedChargePerKey
  BY DEF IndInv, Sound, OneRowPerKey, RowIsSound, OneRecordedChargePerKey, Taken
<1> QED BY <1>1, Invariance, PTL

\* Whatever overlaps, is lost, repeated or reordered, a payment is completed only by a poll
\* or by what was said of its reference, and fails only by a refusal or by what was said.
THEOREM VerdictsHaveCauses == Spec => []VerdictHasCause
<1>1. IndInv => VerdictHasCause
  BY DEF IndInv, Sound, RowIsSound, VerdictHasCause, WasPaid, WasFailed
<1> QED BY <1>1, Invariance, PTL

\* Money goes back only of a payment that was completed with cause, REFUNDED is written
\* only after it did, and it goes back twice only where refunds overlapped or their mark
\* was lost or overwritten.
THEOREM RefundsBacked == Spec => []RefundsAreBacked
<1>1. ASSUME IndInv PROVE RefundsAreBacked
  <2> SUFFICES ASSUME NEW p \in Payments, Provider[p] \in Mobile
               PROVE  /\ refunded[p] > 0 => p \in polled \/ Heard(p, "paid")
                      /\ row[p].status = "REFUNDED" => refunded[p] > 0
                      /\ refunded[p] > 1 => p \in suspect
    BY DEF RefundsAreBacked
  <2>1. RowIsSound(p) /\ RefundedOnce(p) /\ refunded[p] \in Nat
    BY <1>1 DEF IndInv, Sound, TypeOK
  <2> QED BY <2>1 DEF RowIsSound, RefundedOnce, WasPaid
<1> QED BY <1>1, Invariance, PTL

HIDE PaymentAssumption

-----------------------------------------------------------------------------
(* The coverage lookup. *)

\* What the zones say of a city, whatever has become of the store.
ZonesSay(city) ==
  IF \E z \in Zones : zone[z] = [city |-> city, active |-> TRUE] THEN "COVERED"
  ELSE IF zone = [z \in Zones |-> NoZone] THEN "NOT_CONFIGURED"
  ELSE "CITY_NOT_COVERED"

ProductRows == [price : Prices \cup {None}, stock : Quantities, available : BOOLEAN]

Facts ==
  /\ shop \in {"none", "open", "closed"}
  /\ product \in [Products -> ProductRows]
  /\ zone \in [Zones -> [city : Cities \cup {None}, active : BOOLEAN]]
  /\ location \in Cities \cup {None}
  /\ \A p \in Products : product[p] = NoProduct \/ product[p].price \in Prices

Inquiries == [at : {"idle", "found", "no zone", "NOT_FOUND", "COVERED", "NOT_CONFIGURED", "CITY_NOT_COVERED"},
              city : Cities \cup {None}, truths : SUBSET {"NOT_FOUND", "COVERED", "NOT_CONFIGURED", "CITY_NOT_COVERED"},
              changed : BOOLEAN]

\* While the lookup runs, what is so now is among its truths, and as long as no zone has
\* changed so is what the zones say, which is what it will find.
LookupIsSound ==
  inquiry.at \in {"found", "no zone"} =>
    /\ inquiry.city \in Cities
    /\ ~inquiry.changed => ZonesSay(inquiry.city) \in inquiry.truths
    /\ ~inquiry.changed /\ inquiry.at = "no zone" => ZonesSay(inquiry.city) # "COVERED"

StorefrontInv == Facts /\ inquiry \in Inquiries /\ LookupIsSound /\ CoverageWasTrue

\* A zone that covers a city is there and active.
LEMMA CoversIs == ASSUME Facts, NEW city \in Cities PROVE Covers(city) <=> ZonesSay(city) = "COVERED"
<1>1. \A z \in Zones : zone[z].city = city /\ zone[z].active <=> zone[z] = [city |-> city, active |-> TRUE]
  BY DEF Facts
<1> QED BY <1>1 DEF Covers, ZonesSay

\* Without a zone nothing is configured.
LEMMA AnyIs ==
  ASSUME Facts, NEW city, ZonesSay(city) # "COVERED"
  PROVE  ZonesSay(city) = IF HasAnyForStore THEN "CITY_NOT_COVERED" ELSE "NOT_CONFIGURED"
<1>1. HasAnyForStore <=> zone # [z \in Zones |-> NoZone]
  BY DEF Facts, HasAnyForStore
<1> QED BY <1>1 DEF ZonesSay

\* In an open store what is so is what the zones say.
LEMMA CoverageIs ==
  ASSUME NEW city
  PROVE  /\ shop = "open" => Coverage(city) = ZonesSay(city)
         /\ shop # "open" => Coverage(city) = "NOT_FOUND"
         /\ Coverage(city) \in {"NOT_FOUND", "COVERED", "NOT_CONFIGURED", "CITY_NOT_COVERED"}
BY DEF Coverage, ZonesSay

\* One product is written.
LEMMA SetProductKeeps ==
  ASSUME Facts, NEW p \in Products, NEW r \in ProductRows, r = NoProduct \/ r.price \in Prices, SetProduct(p, r)
  PROVE  Facts'
BY DEF Facts, SetProduct

\* One zone is written.
LEMMA SetZoneKeeps ==
  ASSUME Facts, NEW z \in Zones, NEW r \in [city : Cities \cup {None}, active : BOOLEAN], SetZone(z, r)
  PROVE  Facts'
BY DEF Facts, SetZone

\* The owner and the customer keep the facts well-formed: what is listed has a price.
LEMMA FactsKeep == Facts /\ FactsNext => Facts'
<1> SUFFICES ASSUME Facts, FactsNext PROVE Facts'
  OBVIOUS
<1> USE StorefrontAssumption
<1>1. CASE CreateStore \/ DeactivateStore
  BY <1>1 DEF Facts, CreateStore, DeactivateStore
<1>2. ASSUME NEW p \in Products, NEW price \in Prices, UpdateVendorPrice(p, price) PROVE Facts'
  <2>1. PICK r : r = [product[p] EXCEPT !.price = price]
    OBVIOUS
  <2>2. r \in ProductRows /\ r.price \in Prices
    BY <2>1 DEF Facts, ProductRows
  <2> QED BY <1>2, <2>1, <2>2, SetProductKeeps DEF UpdateVendorPrice
<1>3. ASSUME NEW p \in Products, NEW price \in Prices, NEW q \in Quantities, AddProduct(p, price, q) PROVE Facts'
  <2>1. PICK r : r = [price |-> price, stock |-> q, available |-> TRUE]
    OBVIOUS
  <2>2. r \in ProductRows /\ r.price \in Prices
    BY <2>1 DEF ProductRows
  <2> QED BY <1>3, <2>1, <2>2, SetProductKeeps DEF AddProduct
<1>4. ASSUME NEW p \in Products, NEW q \in Quantities, UpdateStock(p, q) PROVE Facts'
  <2>1. PICK r : r = [product[p] EXCEPT !.stock = q]
    OBVIOUS
  <2>2. r \in ProductRows /\ r.price \in Prices
    BY <1>4, <2>1 DEF Facts, ProductRows, UpdateStock
  <2> QED BY <1>4, <2>1, <2>2, SetProductKeeps DEF UpdateStock
<1>5. ASSUME NEW p \in Products, NEW available \in BOOLEAN, SetAvailability(p, available) PROVE Facts'
  <2>1. PICK r : r = [product[p] EXCEPT !.available = available]
    OBVIOUS
  <2>2. r \in ProductRows /\ r.price \in Prices
    BY <1>5, <2>1 DEF Facts, ProductRows, SetAvailability
  <2> QED BY <1>5, <2>1, <2>2, SetProductKeeps DEF SetAvailability
<1>6. ASSUME NEW z \in Zones, NEW city \in Cities, NEW active \in BOOLEAN,
             CreateZone(z, city, active) \/ UpdateZone(z, city, active)
      PROVE  Facts'
  BY <1>6, SetZoneKeeps DEF CreateZone, UpdateZone
<1>7. ASSUME NEW z \in Zones, DeleteZone(z) PROVE Facts'
  BY <1>7, SetZoneKeeps DEF DeleteZone, NoZone
<1>8. ASSUME NEW city \in Cities \cup {None}, SetLocation(city) PROVE Facts'
  BY <1>8 DEF Facts, SetLocation
<1> QED BY <1>1, <1>2, <1>3, <1>4, <1>5, <1>6, <1>7, <1>8 DEF FactsNext

\* The owner goes on while a lookup runs.
LEMMA OvertakenKeeps ==
  ASSUME StorefrontInv, FactsNext, InquiryOvertaken PROVE StorefrontInv'
<1>1. Facts'
  BY FactsKeep DEF StorefrontInv
<1>2. CASE inquiry.at \notin {"found", "no zone"}
  <2>1. UNCHANGED inquiry
    BY <1>2 DEF InquiryOvertaken
  <2> QED BY <1>1, <1>2, <2>1 DEF StorefrontInv, LookupIsSound, CoverageWasTrue
<1>3. CASE inquiry.at \in {"found", "no zone"}
  <2>1. PICK city \in Cities :
          /\ city = inquiry.city
          /\ inquiry' = [inquiry EXCEPT !.truths = @ \cup {Coverage(city)'}, !.changed = @ \/ zone' # zone]
    BY <1>3 DEF InquiryOvertaken
  <2>2. Coverage(city)' \in {"NOT_FOUND", "COVERED", "NOT_CONFIGURED", "CITY_NOT_COVERED"}
    BY DEF Coverage
  <2>3. /\ inquiry' \in Inquiries /\ inquiry'.at = inquiry.at /\ inquiry'.city = city
        /\ inquiry.truths \subseteq inquiry'.truths
        /\ ~inquiry'.changed => ~inquiry.changed /\ zone' = zone
    BY <2>1, <2>2 DEF StorefrontInv, Inquiries
  <2>4. zone' = zone => ZonesSay(city)' = ZonesSay(city)
    BY DEF ZonesSay
  <2>5. LookupIsSound'
    <3>1. ~inquiry'.changed => ZonesSay(city)' \in inquiry'.truths
      BY <1>3, <2>1, <2>3, <2>4 DEF StorefrontInv, LookupIsSound
    <3>2. ~inquiry'.changed /\ inquiry'.at = "no zone" => ZonesSay(city)' # "COVERED"
      BY <1>3, <2>1, <2>3, <2>4 DEF StorefrontInv, LookupIsSound
    <3>3. ZonesSay(inquiry.city)' = ZonesSay(city)'
      BY <2>3 DEF ZonesSay
    <3> QED BY <2>1, <2>3, <3>1, <3>2, <3>3 DEF LookupIsSound
  <2>6. CoverageWasTrue'
    BY <1>3, <2>3 DEF CoverageWasTrue
  <2> QED BY <1>1, <2>3, <2>5, <2>6 DEF StorefrontInv
<1> QED BY <1>2, <1>3

\* The lookup goes a statement on.
LEMMA LookupMoves ==
  ASSUME StorefrontInv, UNCHANGED factVars, inquiry' \in Inquiries, LookupIsSound', CoverageWasTrue'
  PROVE  StorefrontInv'
BY DEF StorefrontInv, Facts, factVars

\* The invariant is inductive.
LEMMA StorefrontInvNext == StorefrontInv /\ [StorefrontNext]_storefrontVars => StorefrontInv'
<1> SUFFICES ASSUME StorefrontInv, [StorefrontNext]_storefrontVars PROVE StorefrontInv'
  OBVIOUS
<1>0. Facts /\ inquiry \in Inquiries
  BY DEF StorefrontInv
<1>1. CASE UNCHANGED storefrontVars
  BY <1>1 DEF storefrontVars, factVars, StorefrontInv, Facts, LookupIsSound, ZonesSay, CoverageWasTrue
<1>2. ASSUME NEW city \in Cities, CheckEligibility(city) PROVE StorefrontInv'
  <2>1. PICK k : k = [at |-> IF shop = "open" THEN "found" ELSE "NOT_FOUND", city |-> city,
                      truths |-> {Coverage(city)}, changed |-> FALSE]
    OBVIOUS
  <2>2. k \in Inquiries
    BY <2>1, CoverageIs DEF Inquiries
  <2>3. inquiry' = k /\ UNCHANGED factVars
    BY <1>2, <2>1 DEF CheckEligibility
  <2>4. CASE shop = "open"
    <3>1. k.at = "found" /\ k.city = city /\ ZonesSay(city) \in k.truths
      BY <2>1, <2>4, CoverageIs
    <3>2. ZonesSay(city)' = ZonesSay(city)
      BY <2>3 DEF ZonesSay, factVars
    <3>3. LookupIsSound' /\ CoverageWasTrue'
      BY <2>3, <3>1, <3>2 DEF LookupIsSound, CoverageWasTrue, ZonesSay
    <3> QED BY <2>2, <2>3, <3>3, LookupMoves
  <2>5. CASE shop # "open"
    <3>1. k.at = "NOT_FOUND" /\ "NOT_FOUND" \in k.truths
      BY <2>1, <2>5, CoverageIs
    <3>2. LookupIsSound' /\ CoverageWasTrue'
      BY <2>3, <3>1 DEF LookupIsSound, CoverageWasTrue
    <3> QED BY <2>2, <2>3, <3>2, LookupMoves
  <2> QED BY <2>4, <2>5
<1>3. CASE FindActiveByStoreCity
  <2>1. inquiry.at = "found" /\ inquiry.city \in Cities
        /\ (~inquiry.changed => ZonesSay(inquiry.city) \in inquiry.truths)
    BY <1>3 DEF FindActiveByStoreCity, StorefrontInv, LookupIsSound
  <2>2. PICK at \in {"COVERED", "no zone"} : at = IF Covers(inquiry.city) THEN "COVERED" ELSE "no zone"
    OBVIOUS
  <2>3. inquiry' = [inquiry EXCEPT !.at = at] /\ UNCHANGED factVars
    BY <1>3, <2>2 DEF FindActiveByStoreCity
  <2>4. /\ inquiry' \in Inquiries /\ inquiry'.at = at /\ inquiry'.city = inquiry.city
        /\ inquiry'.truths = inquiry.truths /\ inquiry'.changed = inquiry.changed
    BY <1>0, <2>3 DEF Inquiries
  <2>5. at = "COVERED" <=> ZonesSay(inquiry.city) = "COVERED"
    BY <1>0, <2>1, <2>2, CoversIs
  <2>6. ZonesSay(inquiry.city)' = ZonesSay(inquiry.city)
    BY <2>3, <2>4 DEF ZonesSay, factVars
  <2>7. LookupIsSound'
    BY <2>1, <2>2, <2>4, <2>5, <2>6 DEF LookupIsSound
  <2>8. CoverageWasTrue'
    BY <2>1, <2>2, <2>4, <2>5 DEF CoverageWasTrue
  <2> QED BY <2>3, <2>4, <2>7, <2>8, LookupMoves
<1>4. CASE AnyZones
  <2>1. /\ inquiry.at = "no zone" /\ inquiry.city \in Cities
        /\ ~inquiry.changed => ZonesSay(inquiry.city) \in inquiry.truths /\ ZonesSay(inquiry.city) # "COVERED"
    BY <1>4 DEF AnyZones, StorefrontInv, LookupIsSound
  <2>2. PICK at \in {"CITY_NOT_COVERED", "NOT_CONFIGURED"} :
          at = IF HasAnyForStore THEN "CITY_NOT_COVERED" ELSE "NOT_CONFIGURED"
    OBVIOUS
  <2>3. inquiry' = [inquiry EXCEPT !.at = at] /\ UNCHANGED factVars
    BY <1>4, <2>2 DEF AnyZones
  <2>4. /\ inquiry' \in Inquiries /\ inquiry'.at = at
        /\ inquiry'.truths = inquiry.truths /\ inquiry'.changed = inquiry.changed
    BY <1>0, <2>3 DEF Inquiries
  <2>5. ~inquiry.changed => at \in inquiry.truths
    BY <1>0, <2>1, <2>2, AnyIs
  <2>6. LookupIsSound' /\ CoverageWasTrue'
    BY <2>2, <2>4, <2>5 DEF LookupIsSound, CoverageWasTrue
  <2> QED BY <2>3, <2>4, <2>6, LookupMoves
<1>5. CASE InquiryEnds
  BY <1>5, LookupMoves DEF InquiryEnds, NoInquiry, Inquiries, LookupIsSound, CoverageWasTrue
<1> QED BY <1>1, <1>2, <1>3, <1>4, <1>5, OvertakenKeeps DEF StorefrontNext

\* At first there is no store.
LEMMA StorefrontInvInit == StorefrontInit => StorefrontInv
<1> SUFFICES ASSUME StorefrontInit PROVE StorefrontInv
  OBVIOUS
<1>1. Facts
  BY DEF StorefrontInit, Facts, NoProduct, NoZone, ProductRows, Quantities
<1>2. inquiry \in Inquiries /\ inquiry.at = "idle"
  BY DEF StorefrontInit, NoInquiry, Inquiries
<1> QED BY <1>1, <1>2 DEF StorefrontInv, LookupIsSound, CoverageWasTrue

-----------------------------------------------------------------------------
(* The messages about an order. *)

Listings == [at : {"idle", "selected", "marked"}, reader : People \cup {None}, selected : SUBSET Messages]

\* What a list under way has selected is there, and what it has not came since; what it has
\* marked is read.
ListsAreSound ==
  \A c \in Lists :
    /\ listing[c].selected \subseteq Sent
    /\ listing[c].at # "idle" => Sent \ listing[c].selected \subseteq doubtful
    /\ listing[c].at = "marked" =>
         \A m \in listing[c].selected : listing[c].reader # message[m].sender => message[m].read

\* Nobody has seen what was not sent.
UnsentIsUnseen == \A m \in Messages \ Sent : ~message[m].read /\ shown[m] = {}

\* A list under way is somebody's.
ReaderIsThere == \A c \in Lists : listing[c].at # "idle" => listing[c].reader \in People

ConversationInv == ConversationTypeOK /\ ReaderIsThere /\ ListsAreSound /\ UnsentIsUnseen /\ ReadMeansShown

\* Before any message there is nothing to be read.
LEMMA ConversationInvInit == ConversationInit => ConversationInv
<1> SUFFICES ASSUME ConversationInit PROVE ConversationInv
  OBVIOUS
<1>1. Sent = {}
  BY DEF ConversationInit, Sent
<1>2. ConversationTypeOK
  BY DEF ConversationInit, ConversationTypeOK, NoListing
<1>3. ReaderIsThere /\ ListsAreSound /\ UnsentIsUnseen /\ ReadMeansShown
  BY <1>1 DEF ConversationInit, ReaderIsThere, ListsAreSound, UnsentIsUnseen, ReadMeansShown, NoListing
<1> QED BY <1>2, <1>3 DEF ConversationInv

\* One list goes on.
LEMMA ListMoves ==
  ASSUME ConversationInv, NEW c \in Lists, NEW l \in Listings, listing' = [listing EXCEPT ![c] = l]
  PROVE  /\ listing' \in [Lists -> Listings] /\ listing'[c] = l
         /\ \A d \in Lists \ {c} : listing'[d] = listing[d]
BY DEF ConversationInv, ConversationTypeOK, Listings

\* A message is sent: whoever is listing may not have it.
LEMMA SendKeeps ==
  ASSUME ConversationInv, NEW n \in Messages, NEW p \in People, Send(n, p) PROVE ConversationInv'
<1>1. /\ n \notin Sent /\ UNCHANGED <<listing, shown>> /\ doubtful \subseteq doubtful' /\ doubtful' \subseteq Messages
      /\ (\E c \in Lists : listing[c].at # "idle") => n \in doubtful'
  BY DEF Send, ConversationInv, ConversationTypeOK
<1>2. PICK r : r = [message[n] EXCEPT !.sender = p]
  OBVIOUS
<1>3. message' = [message EXCEPT ![n] = r]
  BY <1>2 DEF Send
<1>4. r \in [sender : People \cup {None}, read : BOOLEAN] /\ r.read = message[n].read
  BY <1>2 DEF ConversationInv, ConversationTypeOK
<1>5. /\ message' \in [Messages -> [sender : People \cup {None}, read : BOOLEAN]]
      /\ \A m \in Messages \ {n} : message'[m] = message[m]
      /\ message'[n].read = FALSE /\ shown[n] = {}
  BY <1>1, <1>3, <1>4 DEF ConversationInv, ConversationTypeOK, UnsentIsUnseen
<1>6. Sent \subseteq Sent' /\ Sent' \subseteq Sent \cup {n}
  BY <1>1, <1>5 DEF Sent
<1>7. ConversationTypeOK'
  BY <1>1, <1>5 DEF ConversationInv, ConversationTypeOK
<1>8. ListsAreSound'
  <2> SUFFICES ASSUME NEW c \in Lists
               PROVE  /\ listing[c].selected \subseteq Sent'
                      /\ listing[c].at # "idle" => Sent' \ listing[c].selected \subseteq doubtful'
                      /\ listing[c].at = "marked" =>
                           \A m \in listing[c].selected : listing[c].reader # message'[m].sender => message'[m].read
    BY <1>1 DEF ListsAreSound
  <2>1. \A m \in listing[c].selected : m \in Messages \ {n}
    BY <1>1 DEF ConversationInv, ListsAreSound, Sent
  <2> QED BY <1>1, <1>5, <1>6, <2>1 DEF ConversationInv, ListsAreSound
<1>9. UnsentIsUnseen'
  BY <1>1, <1>5, <1>6 DEF ConversationInv, UnsentIsUnseen
<1>10. ReadMeansShown'
  BY <1>1, <1>5, <1>6 DEF ConversationInv, ReadMeansShown, Sent
<1>r. ReaderIsThere'
  BY <1>1 DEF ConversationInv, ReaderIsThere
<1> QED BY <1>r, <1>7, <1>8, <1>9, <1>10 DEF ConversationInv

\* Messages are selected.
LEMMA ListByOrderKeeps ==
  ASSUME ConversationInv, NEW c \in Lists, NEW p \in People, ListByOrder(c, p) PROVE ConversationInv'
<1>1. PICK l : l = [at |-> "selected", reader |-> p, selected |-> Sent]
  OBVIOUS
<1>2. l \in Listings /\ l.at = "selected" /\ l.selected = Sent /\ listing[c] = NoListing
      /\ listing' = [listing EXCEPT ![c] = l] /\ UNCHANGED <<message, shown, doubtful>>
  BY <1>1 DEF ListByOrder, Listings, Sent
<1>3. /\ listing' \in [Lists -> Listings] /\ listing'[c] = l
      /\ \A d \in Lists \ {c} : listing'[d] = listing[d]
  BY <1>2, ListMoves
<1>4. Sent' = Sent
  BY <1>2 DEF Sent
<1>5. ConversationTypeOK'
  BY <1>2, <1>3 DEF ConversationInv, ConversationTypeOK, Listings
<1>6. ListsAreSound'
  BY <1>2, <1>3, <1>4 DEF ConversationInv, ListsAreSound
<1>7. UnsentIsUnseen'
  BY <1>2, <1>4 DEF ConversationInv, UnsentIsUnseen
<1>8. ReadMeansShown'
  <2>1. \A d \in Lists : listing[d].at = "marked" => d # c
    BY <1>2 DEF NoListing
  <2> QED BY <1>2, <1>3, <1>4, <2>1 DEF ConversationInv, ReadMeansShown
<1>r. ReaderIsThere'
  BY <1>1, <1>3 DEF ConversationInv, ReaderIsThere
<1> QED BY <1>r, <1>5, <1>6, <1>7, <1>8 DEF ConversationInv

\* Every message of others is marked, also those that came after the messages were selected.
LEMMA MarkReadKeeps ==
  ASSUME ConversationInv, NEW c \in Lists, MarkReadByOrder(c) PROVE ConversationInv'
<1> DEFINE which == {m \in Sent : message[m].sender # listing[c].reader}
<1>1. PICK l : l = [listing[c] EXCEPT !.at = "marked"]
  OBVIOUS
<1>2. /\ l \in Listings /\ l.at = "marked" /\ l.reader = listing[c].reader /\ l.selected = listing[c].selected
      /\ listing[c].at = "selected"
      /\ listing' = [listing EXCEPT ![c] = l] /\ UNCHANGED <<shown, doubtful>>
  BY <1>1 DEF MarkReadByOrder, Marks, Listings, ConversationInv, ConversationTypeOK
<1>3. /\ listing' \in [Lists -> Listings] /\ listing'[c] = l
      /\ \A d \in Lists \ {c} : listing'[d] = listing[d]
  BY <1>2, ListMoves
<1>4. message' = [m \in Messages |-> [message[m] EXCEPT !.read = @ \/ m \in which]]
  BY DEF MarkReadByOrder, Marks
<1>5. \A m \in Messages :
        /\ message'[m] \in [sender : People \cup {None}, read : BOOLEAN]
        /\ message'[m].sender = message[m].sender
        /\ message'[m].read = (message[m].read \/ m \in which)
  <2> SUFFICES ASSUME NEW m \in Messages
               PROVE  /\ message'[m] \in [sender : People \cup {None}, read : BOOLEAN]
                      /\ message'[m].sender = message[m].sender
                      /\ message'[m].read = (message[m].read \/ m \in which)
    OBVIOUS
  <2>1. PICK marked \in BOOLEAN : marked = (message[m].read \/ m \in which)
    OBVIOUS
  <2>2. message'[m] = [message[m] EXCEPT !.read = marked]
    BY <1>4, <2>1
  <2> HIDE DEF which
  <2> QED BY <2>1, <2>2 DEF ConversationInv, ConversationTypeOK
<1>6. Sent' = Sent
  BY <1>5 DEF Sent
<1>7. ConversationTypeOK'
  BY <1>2, <1>3, <1>4, <1>5 DEF ConversationInv, ConversationTypeOK, Listings
<1>8. Sent \subseteq Messages
  BY DEF Sent
<1>9. ListsAreSound'
  <2> SUFFICES ASSUME NEW d \in Lists
               PROVE  /\ listing'[d].selected \subseteq Sent
                      /\ listing'[d].at # "idle" => Sent \ listing'[d].selected \subseteq doubtful
                      /\ listing'[d].at = "marked" =>
                           \A m \in listing'[d].selected : listing'[d].reader # message'[m].sender => message'[m].read
    BY <1>2, <1>6 DEF ListsAreSound
  <2>1. CASE d = c
    BY <1>2, <1>3, <1>5, <1>8, <2>1 DEF ConversationInv, ListsAreSound
  <2>2. CASE d # c
    BY <1>3, <1>5, <1>8, <2>2 DEF ConversationInv, ListsAreSound
  <2> QED BY <2>1, <2>2
<1>10. UnsentIsUnseen'
  BY <1>2, <1>5, <1>6 DEF ConversationInv, UnsentIsUnseen
<1>11. ReadMeansShown'
  <2> SUFFICES ASSUME NEW m \in Sent
               PROVE  /\ shown[m] \ {message[m].sender} # {} => message'[m].read
                      /\ message'[m].read =>
                           \/ shown[m] \ {message[m].sender} # {}
                           \/ \E d \in Lists : /\ listing'[d].at = "marked" /\ m \in listing'[d].selected
                                             /\ listing'[d].reader # message[m].sender
                           \/ m \in doubtful
    BY <1>2, <1>5, <1>6, <1>8 DEF ReadMeansShown
  <2>1. CASE m \in which
    <3>1. m \in doubtful \/ m \in l.selected
      BY <1>2 DEF ConversationInv, ListsAreSound
    <3> QED BY <1>2, <1>3, <1>5, <1>8, <2>1, <3>1
  <2>2. CASE m \notin which
    <3>1. message'[m].read = message[m].read
      BY <1>5, <1>8, <2>2 DEF ConversationInv, ConversationTypeOK
    <3>2. \A d \in Lists : listing[d].at = "marked" => d # c
      BY <1>2
    <3> HIDE DEF which
    <3> QED BY <1>3, <3>1, <3>2 DEF ConversationInv, ReadMeansShown
  <2> QED BY <2>1, <2>2
<1>r. ReaderIsThere'
  BY <1>2, <1>3 DEF ConversationInv, ReaderIsThere
<1> QED BY <1>r, <1>7, <1>9, <1>10, <1>11 DEF ConversationInv

\* The list is answered with what it has selected, which is marked.
LEMMA AnswerListKeeps ==
  ASSUME ConversationInv, NEW c \in Lists, AnswerList(c) PROVE ConversationInv'
<1>1. /\ NoListing \in Listings /\ NoListing.at = "idle" /\ NoListing.selected = {}
      /\ listing[c].at = "marked" /\ listing' = [listing EXCEPT ![c] = NoListing] /\ UNCHANGED <<message, doubtful>>
  BY DEF AnswerList, NoListing, Listings
<1>2. /\ listing' \in [Lists -> Listings] /\ listing'[c] = NoListing
      /\ \A d \in Lists \ {c} : listing'[d] = listing[d]
  BY <1>1, ListMoves
<1>3. Sent' = Sent /\ Sent \subseteq Messages
  BY <1>1 DEF Sent
<1>4. /\ shown' \in [Messages -> SUBSET (People \cup {None})]
      /\ \A m \in Messages : shown'[m] =
           IF m \in listing[c].selected THEN shown[m] \cup {listing[c].reader} ELSE shown[m]
  BY DEF AnswerList, ConversationInv, ConversationTypeOK
<1>5. ConversationTypeOK'
  <2>1. listing[c].reader \in People
    BY <1>1 DEF ConversationInv, ReaderIsThere
  <2>2. shown' \in [Messages -> SUBSET People]
    BY <2>1 DEF AnswerList, ConversationInv, ConversationTypeOK
  <2> QED BY <1>1, <1>2, <2>2 DEF ConversationInv, ConversationTypeOK, Listings
<1>6. ListsAreSound'
  <2> SUFFICES ASSUME NEW d \in Lists
               PROVE  /\ listing'[d].selected \subseteq Sent
                      /\ listing'[d].at # "idle" => Sent \ listing'[d].selected \subseteq doubtful
                      /\ listing'[d].at = "marked" =>
                           \A m \in listing'[d].selected : listing'[d].reader # message[m].sender => message[m].read
    BY <1>1, <1>3 DEF ListsAreSound
  <2>1. CASE d = c
    BY <1>1, <1>2, <2>1
  <2>2. CASE d # c
    BY <1>2, <2>2 DEF ConversationInv, ListsAreSound
  <2> QED BY <2>1, <2>2
<1>7. UnsentIsUnseen'
  BY <1>1, <1>3, <1>4 DEF ConversationInv, UnsentIsUnseen, ListsAreSound
<1>8. ReadMeansShown'
  <2> SUFFICES ASSUME NEW m \in Sent
               PROVE  /\ shown'[m] \ {message[m].sender} # {} => message[m].read
                      /\ message[m].read =>
                           \/ shown'[m] \ {message[m].sender} # {}
                           \/ \E d \in Lists : /\ listing'[d].at = "marked" /\ m \in listing'[d].selected
                                             /\ listing'[d].reader # message[m].sender
                           \/ m \in doubtful
    BY <1>1, <1>3 DEF ReadMeansShown
  <2>1. /\ m \in Messages /\ shown[m] \subseteq shown'[m]
        /\ shown'[m] \subseteq shown[m] \cup {listing[c].reader}
        /\ m \notin listing[c].selected => shown'[m] = shown[m]
        /\ m \in listing[c].selected => listing[c].reader \in shown'[m]
    BY <1>3, <1>4
  <2>2. shown'[m] \ {message[m].sender} # {} => message[m].read
    BY <1>1, <2>1 DEF ConversationInv, ReadMeansShown, ListsAreSound
  <2>3. ASSUME message[m].read, m \notin doubtful, shown'[m] \ {message[m].sender} = {}
        PROVE  \E d \in Lists : /\ listing'[d].at = "marked" /\ m \in listing'[d].selected
                              /\ listing'[d].reader # message[m].sender
    <3>1. PICK d \in Lists : /\ listing[d].at = "marked" /\ m \in listing[d].selected
                            /\ listing[d].reader # message[m].sender
      BY <2>1, <2>3 DEF ConversationInv, ReadMeansShown
    <3>2. d # c
      BY <2>1, <2>3, <3>1
    <3> QED BY <1>2, <3>1, <3>2
  <2> QED BY <2>2, <2>3
<1>r. ReaderIsThere'
  BY <1>1, <1>2 DEF ConversationInv, ReaderIsThere
<1> QED BY <1>r, <1>5, <1>6, <1>7, <1>8 DEF ConversationInv

\* A list fails: what it had selected may have been marked for nobody.
LEMMA ListFailsKeeps ==
  ASSUME ConversationInv, NEW c \in Lists, ListFails(c) PROVE ConversationInv'
<1>1. /\ NoListing \in Listings /\ NoListing.at = "idle" /\ NoListing.selected = {}
      /\ listing' = [listing EXCEPT ![c] = NoListing] /\ UNCHANGED <<message, shown>>
      /\ doubtful' = doubtful \cup listing[c].selected
  BY DEF ListFails, NoListing, Listings
<1>2. /\ listing' \in [Lists -> Listings] /\ listing'[c] = NoListing
      /\ \A d \in Lists \ {c} : listing'[d] = listing[d]
  BY <1>1, ListMoves
<1>3. Sent' = Sent
  BY <1>1 DEF Sent
<1>4. ConversationTypeOK'
  BY <1>1, <1>2 DEF ConversationInv, ConversationTypeOK, Listings
<1>5. ListsAreSound'
  <2> SUFFICES ASSUME NEW d \in Lists
               PROVE  /\ listing'[d].selected \subseteq Sent
                      /\ listing'[d].at # "idle" => Sent \ listing'[d].selected \subseteq doubtful'
                      /\ listing'[d].at = "marked" =>
                           \A m \in listing'[d].selected : listing'[d].reader # message[m].sender => message[m].read
    BY <1>1, <1>3 DEF ListsAreSound
  <2>1. CASE d = c
    BY <1>1, <1>2, <2>1
  <2>2. CASE d # c
    BY <1>1, <1>2, <2>2 DEF ConversationInv, ListsAreSound
  <2> QED BY <2>1, <2>2
<1>6. UnsentIsUnseen'
  BY <1>1, <1>3 DEF ConversationInv, UnsentIsUnseen
<1>7. ReadMeansShown'
  <2> SUFFICES ASSUME NEW m \in Sent
               PROVE  /\ shown[m] \ {message[m].sender} # {} => message[m].read
                      /\ message[m].read =>
                           \/ shown[m] \ {message[m].sender} # {}
                           \/ \E d \in Lists : /\ listing'[d].at = "marked" /\ m \in listing'[d].selected
                                             /\ listing'[d].reader # message[m].sender
                           \/ m \in doubtful'
    BY <1>1, <1>3 DEF ReadMeansShown
  <2>1. CASE m \in listing[c].selected
    BY <1>1, <2>1 DEF ConversationInv, ReadMeansShown
  <2>2. CASE m \notin listing[c].selected
    BY <1>1, <1>2, <2>2 DEF ConversationInv, ReadMeansShown
  <2> QED BY <2>1, <2>2
<1>r. ReaderIsThere'
  BY <1>1, <1>2 DEF ConversationInv, ReaderIsThere
<1> QED BY <1>r, <1>4, <1>5, <1>6, <1>7 DEF ConversationInv

\* The invariant is inductive.
LEMMA ConversationInvNext == ConversationInv /\ [ConversationNext]_conversationVars => ConversationInv'
<1> SUFFICES ASSUME ConversationInv, [ConversationNext]_conversationVars PROVE ConversationInv'
  OBVIOUS
<1>1. CASE UNCHANGED conversationVars
  BY <1>1 DEF conversationVars, ConversationInv, ConversationTypeOK, ReaderIsThere, ListsAreSound, UnsentIsUnseen, ReadMeansShown, Sent
<1> QED BY <1>1, SendKeeps, ListByOrderKeeps, MarkReadKeeps, AnswerListKeeps, ListFailsKeeps DEF ConversationNext

-----------------------------------------------------------------------------
(* The checkout. *)

Requests == [at : {"idle", "shown", "location", "zone", "lookup", "prices"}, listed : SUBSET Products,
             basket : Baskets \cup {None}, customer : Customers \cup {NoCustomer}, key : Keys \cup {NoKey},
             city : Cities \cup {None}, prices : Seq(Prices)]

CityIsServed(city) == \E z \in Zones : zone[z] = [city |-> city, active |-> TRUE]

\* What a request has read is so, or one of the changes since, ch, explains that it is not.
ShownIsOrderable(r, ch) == \A p \in r.listed : CanBeOrdered(p) \/ "product" \in ch

CityIsHis(r, ch) ==
  r.at \in {"zone", "lookup", "prices"} /\ r.basket.delivered =>
    r.city \in Cities /\ (location = r.city \/ "location" \in ch)

CityIsCovered(r, ch) ==
  r.at \in {"lookup", "prices"} /\ r.basket.delivered => CityIsServed(r.city) \/ "zone" \in ch

PricesAreRight(r, ch) ==
  r.at = "prices" =>
    /\ Len(r.prices) <= Len(r.basket.items)
    /\ "product" \in ch \/ \A i \in 1..Len(r.prices) :
         product[r.basket.items[i]].price = r.prices[i] /\ product[r.basket.items[i]].available

RequestIsGrounded(r, ch) ==
  /\ r.at \in {"location", "zone", "lookup", "prices"} => r.basket \in Baskets
  /\ r.at \in {"location", "zone"} => r.basket.delivered
  /\ r.at # "prices" => r.prices = <<>>
  /\ ShownIsOrderable(r, ch) /\ CityIsHis(r, ch) /\ CityIsCovered(r, ch) /\ PricesAreRight(r, ch)

\* An order can be made again, or one of the changes since, ch, explains that it cannot.
AddressIsThere(b, ch) ==
  b.delivered /\ "location" \notin ch => location \in Cities /\ ("zone" \in ch \/ CityIsServed(location))

ItemsAreOrderable(b, ch) == "product" \in ch \/ \A i \in 1..Len(b.items) : CanBeOrdered(b.items[i])

OrderIsGrounded(b, ch) == b # None => AddressIsThere(b, ch) /\ ItemsAreOrderable(b, ch)

RequestsAreGrounded == \A c \in Calls : RequestIsGrounded(checkout[c], changed[c])

OrdersAreGrounded == \A o \in Orders : order[o].status # "NONE" => OrderIsGrounded(placed[o], changed[o])

InsertsHaveAnId == \A c \in Calls : orderCall[c].at = "insert" => orderCall[c].order \in Orders

OrderShape == OrderTypeOK /\ InsertsHaveAnId

CheckoutShape ==
  /\ checkout \in [Calls -> Requests]
  /\ placed \in [Orders -> Baskets \cup {None}]
  /\ changed \in [Calls \cup Orders -> SUBSET Kind]

CheckoutInv ==
  /\ Facts /\ OrderShape /\ CheckoutShape
  /\ RequestsAreGrounded /\ OrdersAreGrounded /\ groundless = FALSE

\* At first nobody has come.
LEMMA CheckoutInvInit == StorefrontInit /\ OrderInit /\ CheckoutInit => CheckoutInv
<1> SUFFICES ASSUME StorefrontInit, OrderInit, CheckoutInit PROVE CheckoutInv
  OBVIOUS
<1>1. Facts
  BY StorefrontInvInit DEF StorefrontInv
<1>2. OrderShape
  BY DEF OrderInit, OrderIdle, OrderShape, OrderTypeOK, InsertsHaveAnId, StatusSet
<1>3. <<>> \in Seq(Prices)
  OBVIOUS
<1>4. NoCheckout \in Requests
  BY <1>3 DEF NoCheckout, Requests
<1>5. CheckoutShape
  BY <1>4 DEF CheckoutInit, CheckoutShape
<1>6. RequestsAreGrounded
  BY DEF CheckoutInit, NoCheckout, RequestsAreGrounded, RequestIsGrounded, ShownIsOrderable, CityIsHis,
         CityIsCovered, PricesAreRight
<1>7. OrdersAreGrounded
  BY DEF OrderInit, OrdersAreGrounded
<1> QED BY <1>1, <1>2, <1>5, <1>6, <1>7 DEF CheckoutInit, CheckoutInv

\* A zone serves a city exactly where the handler finds it covered.
LEMMA CoversIsServed == ASSUME Facts, NEW city \in Cities PROVE Covers(city) <=> CityIsServed(city)
<1>1. \A z \in Zones : zone[z].city = city /\ zone[z].active <=> zone[z] = [city |-> city, active |-> TRUE]
  BY DEF Facts
<1> QED BY <1>1 DEF Covers, CityIsServed

\* More changes explain more.
LEMMA MoreExplainsMore ==
  ASSUME NEW ch \in SUBSET Kind, NEW more \in SUBSET Kind, ch \subseteq more,
         (\E p \in Products : product'[p].price # product[p].price \/ product'[p].available # product[p].available)
           => "product" \in more,
         zone' # zone => "zone" \in more, location' # location => "location" \in more
  PROVE  /\ \A r \in Requests : RequestIsGrounded(r, ch) => RequestIsGrounded(r, more)'
         /\ \A b \in Baskets \cup {None} : OrderIsGrounded(b, ch) => OrderIsGrounded(b, more)'
<1>1. "product" \notin more => \A p \in Products : product'[p].price = product[p].price /\ product'[p].available = product[p].available
  OBVIOUS
<1>2. ASSUME NEW r \in Requests, RequestIsGrounded(r, ch) PROVE RequestIsGrounded(r, more)'
  <2>1. ShownIsOrderable(r, more)'
    BY <1>1, <1>2 DEF RequestIsGrounded, ShownIsOrderable, CanBeOrdered, Requests
  <2>2. CityIsHis(r, more)'
    BY <1>2 DEF RequestIsGrounded, CityIsHis
  <2>3. CityIsCovered(r, more)'
    BY <1>2 DEF RequestIsGrounded, CityIsCovered, CityIsServed
  <2>4. PricesAreRight(r, more)'
    <3> SUFFICES ASSUME r.at = "prices"
                 PROVE  /\ Len(r.prices) <= Len(r.basket.items)
                        /\ "product" \in more \/ \A i \in 1..Len(r.prices) :
                             product'[r.basket.items[i]].price = r.prices[i] /\ product'[r.basket.items[i]].available
      BY DEF PricesAreRight
    <3>1. r.basket.items \in Seq(Products) /\ Len(r.prices) <= Len(r.basket.items) /\ r.prices \in Seq(Prices)
      BY <1>2, CheckoutAssumption DEF RequestIsGrounded, PricesAreRight, Requests
    <3>2. \A i \in 1..Len(r.prices) : r.basket.items[i] \in Products
      BY <3>1, LenProperties, ElementOfSeq
    <3> QED BY <1>1, <1>2, <3>1, <3>2 DEF RequestIsGrounded, PricesAreRight
  <2> QED BY <1>2, <2>1, <2>2, <2>3, <2>4 DEF RequestIsGrounded
<1>3. ASSUME NEW b \in Baskets \cup {None}, OrderIsGrounded(b, ch) PROVE OrderIsGrounded(b, more)'
  <2> SUFFICES ASSUME b # None PROVE (AddressIsThere(b, more) /\ ItemsAreOrderable(b, more))'
    BY DEF OrderIsGrounded
  <2>1. AddressIsThere(b, more)'
    BY <1>3 DEF OrderIsGrounded, AddressIsThere, CityIsServed
  <2>2. b.items \in Seq(Products)
    BY CheckoutAssumption
  <2>3. \A i \in 1..Len(b.items) : b.items[i] \in Products
    BY <2>2, ElementOfSeq
  <2>4. ItemsAreOrderable(b, more)'
    BY <1>1, <1>3, <2>3 DEF OrderIsGrounded, ItemsAreOrderable, CanBeOrdered
  <2> QED BY <2>1, <2>4
<1> QED BY <1>2, <1>3

\* The owner and the customer go on: whoever is there has the change counted.
LEMMA FactsChangeKeeps == ASSUME CheckoutInv, FactsChange PROVE CheckoutInv'
<1>1. Facts'
  BY FactsKeep DEF FactsChange, CheckoutInv
<1>2. UNCHANGED <<order, orderCall, been, told, checkout, placed, groundless>>
  BY DEF FactsChange, orderVars
<1>3. OrderShape'
  BY <1>2 DEF CheckoutInv, OrderShape, OrderTypeOK, InsertsHaveAnId, WithKey
<1>4. ChangedKinds \in SUBSET Kind
  BY DEF ChangedKinds, Kind
<1>5. changed' = [x \in DOMAIN changed |-> IF x \in Came THEN changed[x] \cup ChangedKinds ELSE {}]
  BY DEF FactsChange
<1>6. /\ changed' \in [Calls \cup Orders -> SUBSET Kind]
      /\ \A x \in Calls \cup Orders : x \in Came => changed[x] \in SUBSET Kind /\ changed'[x] = changed[x] \cup ChangedKinds
  BY <1>4, <1>5 DEF CheckoutInv, CheckoutShape
<1>7. \A x \in Came \cap (Calls \cup Orders) :
        /\ \A r \in Requests : RequestIsGrounded(r, changed[x]) => RequestIsGrounded(r, changed[x])'
        /\ \A b \in Baskets \cup {None} : OrderIsGrounded(b, changed[x]) => OrderIsGrounded(b, changed[x])'
  <2> SUFFICES ASSUME NEW x \in Came \cap (Calls \cup Orders)
               PROVE  /\ \A r \in Requests : RequestIsGrounded(r, changed[x]) => RequestIsGrounded(r, changed[x])'
                      /\ \A b \in Baskets \cup {None} : OrderIsGrounded(b, changed[x]) => OrderIsGrounded(b, changed[x])'
    OBVIOUS
  <2>1. PICK ch, more : ch = changed[x] /\ more = changed'[x]
    OBVIOUS
  <2>2. ch \in SUBSET Kind /\ more \in SUBSET Kind /\ more = ch \cup ChangedKinds
    BY <1>6, <2>1 DEF CheckoutInv, CheckoutShape
  <2>3. /\ (\E p \in Products : product'[p].price # product[p].price \/ product'[p].available # product[p].available)
             => "product" \in more
        /\ zone' # zone => "zone" \in more
        /\ location' # location => "location" \in more
    BY <2>2 DEF ChangedKinds
  <2>4. /\ \A r \in Requests : RequestIsGrounded(r, ch) => RequestIsGrounded(r, more)'
        /\ \A b \in Baskets \cup {None} : OrderIsGrounded(b, ch) => OrderIsGrounded(b, more)'
    BY <2>2, <2>3, MoreExplainsMore
  <2>5. \A r \in Requests : RequestIsGrounded(r, more)' => RequestIsGrounded(r, changed[x])'
    BY <2>1 DEF RequestIsGrounded, ShownIsOrderable, CityIsHis, CityIsCovered, PricesAreRight
  <2>6. \A b \in Baskets \cup {None} : OrderIsGrounded(b, more)' => OrderIsGrounded(b, changed[x])'
    BY <2>1 DEF OrderIsGrounded, AddressIsThere, ItemsAreOrderable
  <2> QED BY <2>1, <2>4, <2>5, <2>6
<1>8. RequestsAreGrounded'
  <2> SUFFICES ASSUME NEW c \in Calls PROVE RequestIsGrounded(checkout[c], changed[c])'
    BY DEF RequestsAreGrounded
  <2>1. PICK r : r = checkout[c]
    OBVIOUS
  <2>2. r \in Requests /\ r = checkout'[c] /\ RequestIsGrounded(r, changed[c])
    BY <1>2, <2>1 DEF CheckoutInv, CheckoutShape, RequestsAreGrounded
  <2>3. CASE c \in Came
    <3>1. RequestIsGrounded(r, changed[c])'
      BY <1>7, <2>2, <2>3
    <3> QED BY <2>2, <3>1
  <2>4. CASE c \notin Came
    <3>1. r = NoCheckout
      BY <2>1, <2>4 DEF Came
    <3> QED BY <2>2, <3>1 DEF NoCheckout, RequestIsGrounded, ShownIsOrderable, CityIsHis, CityIsCovered, PricesAreRight
  <2> QED BY <2>3, <2>4
<1>9. OrdersAreGrounded'
  <2> SUFFICES ASSUME NEW o \in Orders, order[o].status # "NONE" PROVE OrderIsGrounded(placed[o], changed[o])'
    BY <1>2 DEF OrdersAreGrounded
  <2>1. PICK b : b = placed[o]
    OBVIOUS
  <2>2. b \in Baskets \cup {None} /\ b = placed'[o] /\ OrderIsGrounded(b, changed[o])
    BY <1>2, <2>1 DEF CheckoutInv, CheckoutShape, OrdersAreGrounded
  <2>3. OrderIsGrounded(b, changed[o])'
    BY <1>7, <2>2 DEF Came
  <2> QED BY <2>2, <2>3
<1> QED BY <1>1, <1>2, <1>3, <1>6, <1>8, <1>9 DEF CheckoutInv, CheckoutShape

\* The initial request asks for nothing.
LEMMA NoCheckoutIsGrounded ==
  ASSUME NEW ch \in SUBSET Kind
  PROVE  NoCheckout \in Requests /\ RequestIsGrounded(NoCheckout, ch)
<1>1. <<>> \in Seq(Prices)
  OBVIOUS
<1>2. NoCheckout \in Requests
  BY <1>1 DEF NoCheckout, Requests
<1> QED BY <1>2 DEF NoCheckout, RequestIsGrounded, ShownIsOrderable, CityIsHis, CityIsCovered, PricesAreRight

\* A request takes a step.
LEMMA RequestMoves ==
  ASSUME CheckoutInv, NEW c \in Calls, NEW r \in Requests, NEW ch \in SUBSET Kind, UNCHANGED factVars,
         checkout' = [checkout EXCEPT ![c] = r],
         changed' \in [Calls \cup Orders -> SUBSET Kind], changed'[c] = ch,
         \A d \in Calls \ {c} : changed'[d] = changed[d],
         RequestIsGrounded(r, ch)
  PROVE  checkout' \in [Calls -> Requests] /\ RequestsAreGrounded'
<1>1. checkout' \in [Calls -> Requests] /\ checkout'[c] = r /\ \A d \in Calls \ {c} : checkout'[d] = checkout[d]
  BY DEF CheckoutInv, CheckoutShape
<1>2. ASSUME NEW d \in Calls PROVE RequestIsGrounded(checkout[d], changed[d])'
  <2>1. PICK s, k : s = checkout'[d] /\ k = changed'[d]
    OBVIOUS
  <2>2. RequestIsGrounded(s, k)
    BY <1>1, <2>1 DEF CheckoutInv, RequestsAreGrounded
  <2>3. RequestIsGrounded(s, k)'
    BY <2>2 DEF RequestIsGrounded, ShownIsOrderable, CityIsHis, CityIsCovered, PricesAreRight, CanBeOrdered,
                CityIsServed, factVars
  <2> QED BY <2>1, <2>3 DEF RequestIsGrounded, ShownIsOrderable, CityIsHis, CityIsCovered, PricesAreRight
<1> QED BY <1>1, <1>2 DEF RequestsAreGrounded

\* Nothing is ordered meanwhile.
LEMMA OrdersStayGrounded ==
  ASSUME CheckoutInv, UNCHANGED <<factVars, order, placed>>, \A o \in Orders : changed'[o] = changed[o]
  PROVE  OrdersAreGrounded'
BY DEF CheckoutInv, OrdersAreGrounded, OrderIsGrounded, AddressIsThere, ItemsAreOrderable, CanBeOrdered,
       CityIsServed, factVars

\* A request goes on and leaves the orders alone.
LEMMA RequestGoesOn ==
  ASSUME CheckoutInv, NEW c \in Calls, NEW r \in Requests, RequestIsGrounded(r, changed[c]),
         checkout' = [checkout EXCEPT ![c] = r], UNCHANGED <<factVars, order, placed, changed, groundless>>,
         OrderShape'
  PROVE  CheckoutInv'
<1>1. PICK ch : ch = changed[c]
  OBVIOUS
<1>2. ch \in SUBSET Kind /\ RequestIsGrounded(r, ch)
  BY <1>1 DEF CheckoutInv, CheckoutShape, RequestIsGrounded, ShownIsOrderable, CityIsHis, CityIsCovered, PricesAreRight
<1>3. checkout' \in [Calls -> Requests] /\ RequestsAreGrounded'
  BY <1>1, <1>2, RequestMoves DEF CheckoutInv, CheckoutShape
<1>4. OrdersAreGrounded'
  BY OrdersStayGrounded
<1>5. Facts'
  BY DEF CheckoutInv, Facts, factVars
<1> QED BY <1>3, <1>4, <1>5 DEF CheckoutInv, CheckoutShape

\* A request ends.
LEMMA RequestLeaves ==
  ASSUME CheckoutInv, NEW c \in Calls, Leaves(c), UNCHANGED <<factVars, order, placed, groundless>>, OrderShape'
  PROVE  CheckoutInv'
<1>1. PICK r : r = NoCheckout
  OBVIOUS
<1>2. /\ checkout' = [checkout EXCEPT ![c] = r] /\ changed' = [changed EXCEPT ![c] = {}]
      /\ {} \in SUBSET Kind /\ r \in Requests /\ RequestIsGrounded(r, {})
  BY <1>1, NoCheckoutIsGrounded DEF Leaves, ReachesAs
<1>3. /\ changed' \in [Calls \cup Orders -> SUBSET Kind] /\ changed'[c] = {}
      /\ \A x \in (Calls \cup Orders) \ {c} : changed'[x] = changed[x]
  BY <1>2 DEF CheckoutInv, CheckoutShape
<1>4. checkout' \in [Calls -> Requests] /\ RequestsAreGrounded'
  BY <1>2, <1>3, RequestMoves
<1>5. OrdersAreGrounded'
  <2>1. \A o \in Orders : changed'[o] = changed[o]
    BY <1>3, CheckoutAssumption
  <2> QED BY <2>1, OrdersStayGrounded
<1>6. Facts'
  BY DEF CheckoutInv, Facts, factVars
<1> QED BY <1>3, <1>4, <1>5, <1>6 DEF CheckoutInv, CheckoutShape

\* A request is refused for something that has changed.
LEMMA RefusesKeeps ==
  ASSUME CheckoutInv, NEW c \in Calls, NEW kinds, NEW since, RefusesSince(c, kinds, since),
         \A x \in since : (changed[x] \cup changed[c]) \cap kinds # {},
         UNCHANGED <<factVars, order, placed>>, OrderShape'
  PROVE  CheckoutInv'
<1>1. Leaves(c) /\ UNCHANGED groundless
  BY DEF RefusesSince, CheckoutInv
<1> QED BY <1>1, RequestLeaves

\* The shape of the orders is kept where no statement of theirs runs ...
LEMMA OrdersShapeRests == ASSUME OrderShape, UNCHANGED orderVars PROVE OrderShape'
BY DEF OrderShape, OrderTypeOK, InsertsHaveAnId, orderVars

\* ... and where a request ends.
LEMMA OrderReturnKeeps ==
  ASSUME OrderShape, NEW c \in Calls, OrderReturn(c), UNCHANGED <<order, been, told>>
  PROVE  OrderShape'
<1>1. PICK k : k = OrderIdle
  OBVIOUS
<1>2. k.at = "idle" /\ k \in [at : {"idle", "insert", "status"}, order : Orders \cup {None},
        customer : Customers \cup {NoCustomer}, key : Keys \cup {NoKey}, to : StatusSet \cup {"NONE"}]
  BY <1>1 DEF OrderIdle
<1>3. orderCall' = [orderCall EXCEPT ![c] = k]
  BY <1>1 DEF OrderReturn
<1> QED BY <1>2, <1>3 DEF OrderShape, OrderTypeOK, InsertsHaveAnId

\* The answer of a key names its order.
LEMMA AnswersAreTyped ==
  ASSUME OrderShape, NEW u \in Customers \cup {NoCustomer}, NEW k \in Keys \cup {NoKey}, Answer(u, k)
  PROVE  told' \in SUBSET ((Customers \cup {NoCustomer}) \X (Keys \cup {NoKey}) \X Orders)
BY DEF Answer, WithKey, OrderShape, OrderTypeOK

\* The key is looked up.
LEMMA PlaceOrderKeepsShape ==
  ASSUME OrderShape, NEW c \in Calls, NEW o \in Orders, NEW u \in Customers \cup {NoCustomer},
         NEW k \in Keys \cup {NoKey}, PlaceOrder(c, o, u, k)
  PROVE  OrderShape' /\ UNCHANGED <<order, been>>
<1>1. UNCHANGED <<order, been>>
  BY DEF PlaceOrder
<1>2. CASE Answer(u, k) /\ UNCHANGED orderCall
  BY <1>1, <1>2, AnswersAreTyped DEF OrderShape, OrderTypeOK, InsertsHaveAnId
<1>3. CASE /\ orderCall' = [orderCall EXCEPT ![c] =
                [at |-> "insert", order |-> o, customer |-> u, key |-> k, to |-> "PENDING"]]
           /\ UNCHANGED told
  <2>1. PICK r : r = [at |-> "insert", order |-> o, customer |-> u, key |-> k, to |-> "PENDING"]
    OBVIOUS
  <2>2. r.order \in Orders /\ r \in [at : {"idle", "insert", "status"}, order : Orders \cup {None},
          customer : Customers \cup {NoCustomer}, key : Keys \cup {NoKey}, to : StatusSet \cup {"NONE"}]
    BY <2>1 DEF StatusSet
  <2>3. orderCall' = [orderCall EXCEPT ![c] = r]
    BY <1>3, <2>1
  <2> QED BY <1>1, <1>3, <2>2, <2>3 DEF OrderShape, OrderTypeOK, InsertsHaveAnId
<1> QED BY <1>1, <1>2, <1>3 DEF PlaceOrder

\* The order is inserted, or the answer of its key is looked up.
LEMMA CreateOrderKeepsShape ==
  ASSUME OrderShape, NEW c \in Calls, CreateOrder(c)
  PROVE  /\ OrderShape' /\ orderCall[c].order \in Orders
         /\ \A o \in Orders \ {orderCall[c].order} : order'[o] = order[o]
<1>1. /\ orderCall[c].at = "insert" /\ orderCall[c].order \in Orders
      /\ orderCall[c].customer \in Customers \cup {NoCustomer} /\ orderCall[c].key \in Keys \cup {NoKey}
  BY DEF CreateOrder, InsertIf, OrderShape, OrderTypeOK, InsertsHaveAnId
<1>2. OrderReturn(c)
  BY DEF CreateOrder, InsertIf
<1>3. /\ InsertsHaveAnId'
      /\ orderCall' \in [Calls -> [at : {"idle", "insert", "status"}, order : Orders \cup {None},
           customer : Customers \cup {NoCustomer}, key : Keys \cup {NoKey}, to : StatusSet \cup {"NONE"}]]
  <2>1. PICK k : k = OrderIdle
    OBVIOUS
  <2>2. k.at = "idle" /\ k \in [at : {"idle", "insert", "status"}, order : Orders \cup {None},
          customer : Customers \cup {NoCustomer}, key : Keys \cup {NoKey}, to : StatusSet \cup {"NONE"}]
    BY <2>1 DEF OrderIdle
  <2>3. orderCall' = [orderCall EXCEPT ![c] = k]
    BY <1>2, <2>1 DEF OrderReturn
  <2> QED BY <2>2, <2>3 DEF OrderShape, OrderTypeOK, InsertsHaveAnId
<1>4. CASE UNCHANGED <<order, been>> /\ Answer(orderCall[c].customer, orderCall[c].key)
  BY <1>1, <1>3, <1>4, AnswersAreTyped DEF OrderShape, OrderTypeOK
<1>5. CASE /\ order' = [order EXCEPT ![orderCall[c].order] =
                [status |-> "PENDING", customer |-> orderCall[c].customer, key |-> orderCall[c].key]]
           /\ been' = [been EXCEPT ![orderCall[c].order] = {"PENDING"}]
           /\ told' = told \cup {<<orderCall[c].customer, orderCall[c].key, orderCall[c].order>>}
  <2>1. PICK r : r = [status |-> "PENDING", customer |-> orderCall[c].customer, key |-> orderCall[c].key]
    OBVIOUS
  <2>2. r \in [status : StatusSet \cup {"NONE"}, customer : Customers \cup {NoCustomer}, key : Keys \cup {NoKey}]
    BY <1>1, <2>1 DEF StatusSet
  <2>3. order' = [order EXCEPT ![orderCall[c].order] = r]
    BY <1>5, <2>1
  <2>4. "PENDING" \in StatusSet
    BY DEF StatusSet
  <2> QED BY <1>1, <1>3, <1>5, <2>2, <2>3, <2>4 DEF OrderShape, OrderTypeOK
<1> QED BY <1>1, <1>4, <1>5 DEF CreateOrder, InsertIf

\* What is listed has a price.
LEMMA ListStorefrontKeeps ==
  ASSUME CheckoutInv, NEW c \in Calls, ListStorefrontProducts(c) PROVE CheckoutInv'
<1>1. PICK r : r = [NoCheckout EXCEPT !.at = "shown", !.listed = {p \in Products : Listed(p)}]
  OBVIOUS
<1>2. \A p \in Products : Listed(p) => CanBeOrdered(p)
  BY StorefrontAssumption DEF Listed, CanBeOrdered, CheckoutInv, Facts, NoProduct
<1>3. <<>> \in Seq(Prices)
  OBVIOUS
<1>4. r \in Requests /\ r.at = "shown" /\ r.prices = <<>> /\ r.listed = {p \in Products : Listed(p)}
  BY <1>1, <1>3 DEF NoCheckout, Requests
<1>5. RequestIsGrounded(r, changed[c])
  BY <1>2, <1>4 DEF RequestIsGrounded, ShownIsOrderable, CityIsHis, CityIsCovered, PricesAreRight
<1>6. checkout' = [checkout EXCEPT ![c] = r] /\ UNCHANGED <<factVars, orderVars, placed, changed, groundless>>
  BY <1>1 DEF ListStorefrontProducts, ReachesAs
<1>7. OrderShape'
  BY <1>6, OrdersShapeRests DEF CheckoutInv
<1> QED BY <1>4, <1>5, <1>6, <1>7, RequestGoesOn DEF orderVars

\* A request comes with its basket.
LEMMA CustomerOrderKeeps ==
  ASSUME CheckoutInv, NEW c \in Calls, NEW u \in Customers, NEW k \in Keys \cup {NoKey}, NEW b \in Baskets,
         CustomerOrder(c, u, k, b)
  PROVE  CheckoutInv'
<1>1. PICK at \in {"location", "lookup"} : at = IF b.delivered THEN "location" ELSE "lookup"
  OBVIOUS
<1>2. PICK r : r = [checkout[c] EXCEPT !.at = at, !.basket = b, !.customer = u, !.key = k]
  OBVIOUS
<1>3. checkout[c] \in Requests /\ RequestIsGrounded(checkout[c], changed[c]) /\ checkout[c].at \in {"idle", "shown"}
  BY DEF CheckoutInv, CheckoutShape, RequestsAreGrounded, CustomerOrder
<1>4. /\ r \in Requests /\ r.at = at /\ r.basket = b /\ r.listed = checkout[c].listed /\ r.prices = checkout[c].prices
      /\ r.prices = <<>>
  BY <1>2, <1>3 DEF Requests, RequestIsGrounded
<1>5. RequestIsGrounded(r, changed[c])
  BY <1>1, <1>3, <1>4 DEF RequestIsGrounded, ShownIsOrderable, CityIsHis, CityIsCovered, PricesAreRight
<1>6. checkout' = [checkout EXCEPT ![c] = r] /\ UNCHANGED <<factVars, orderVars, placed, changed, groundless>>
  BY <1>1, <1>2 DEF CustomerOrder, ReachesAs
<1>7. OrderShape'
  BY <1>6, OrdersShapeRests DEF CheckoutInv
<1> QED BY <1>4, <1>5, <1>6, <1>7, RequestGoesOn DEF orderVars

\* What is there of a request that has come.
LEMMA TheRequest ==
  ASSUME CheckoutInv, NEW c \in Calls, checkout[c].at \in {"location", "zone", "lookup", "prices"}
  PROVE  /\ checkout[c] \in Requests /\ RequestIsGrounded(checkout[c], changed[c])
         /\ checkout[c].basket \in Baskets /\ checkout[c].basket # None
         /\ checkout[c].basket.items \in Seq(Products) /\ checkout[c].basket.delivered \in BOOLEAN
BY CheckoutAssumption DEF CheckoutInv, CheckoutShape, RequestsAreGrounded, RequestIsGrounded

\* The orders a request has made before are grounded in what it asks for again.
LEMMA MadeBeforeIsGrounded ==
  ASSUME CheckoutInv, NEW c \in Calls, checkout[c].at \in {"location", "zone", "lookup", "prices"},
         NEW o \in MadeBefore(c)
  PROVE  o \in Orders /\ AddressIsThere(checkout[c].basket, changed[o]) /\ ItemsAreOrderable(checkout[c].basket, changed[o])
<1>1. o \in Orders /\ order[o].status # "NONE" /\ placed[o] = checkout[c].basket
  BY DEF MadeBefore, WithKey
<1>2. OrderIsGrounded(placed[o], changed[o])
  BY <1>1 DEF CheckoutInv, OrdersAreGrounded
<1> QED BY <1>1, <1>2, TheRequest DEF OrderIsGrounded

\* The location is read, or there is none.
LEMMA ReadLocationKeeps == ASSUME CheckoutInv, NEW c \in Calls, ReadLocation(c) PROVE CheckoutInv'
<1>1. /\ checkout[c].at = "location" /\ UNCHANGED <<factVars, orderVars, placed>>
      /\ checkout[c] \in Requests /\ RequestIsGrounded(checkout[c], changed[c]) /\ checkout[c].basket.delivered
  BY TheRequest DEF ReadLocation, RequestIsGrounded
<1>2. OrderShape'
  BY <1>1, OrdersShapeRests DEF CheckoutInv
<1>3. CASE location = None
  <2>1. Refuses(c, {"location"})
    BY <1>3 DEF ReadLocation
  <2>2. \A o \in MadeBefore(c) : "location" \in changed[o]
    BY <1>1, <1>3, MadeBeforeIsGrounded, StorefrontAssumption DEF AddressIsThere
  <2> QED BY <1>1, <1>2, <2>1, <2>2, RefusesKeeps DEF Refuses, orderVars
<1>4. CASE location # None
  <2>1. PICK r : r = [checkout[c] EXCEPT !.at = "zone", !.city = location]
    OBVIOUS
  <2>2. location \in Cities
    BY <1>4 DEF CheckoutInv, Facts
  <2>3. /\ r \in Requests /\ r.at = "zone" /\ r.city = location /\ r.basket = checkout[c].basket
        /\ r.listed = checkout[c].listed /\ r.prices = checkout[c].prices
    BY <1>1, <2>1, <2>2 DEF Requests
  <2>4. RequestIsGrounded(r, changed[c])
    BY <1>1, <2>2, <2>3 DEF RequestIsGrounded, ShownIsOrderable, CityIsHis, CityIsCovered, PricesAreRight
  <2>5. checkout' = [checkout EXCEPT ![c] = r] /\ UNCHANGED <<changed, groundless>>
    BY <1>4, <2>1 DEF ReadLocation, ReachesAs
  <2> QED BY <1>1, <1>2, <2>3, <2>4, <2>5, RequestGoesOn DEF orderVars
<1> QED BY <1>3, <1>4

\* A zone covers the city that was read, or none does.
LEMMA CheckZoneKeeps == ASSUME CheckoutInv, NEW c \in Calls, CheckZone(c) PROVE CheckoutInv'
<1>1. /\ checkout[c].at = "zone" /\ UNCHANGED <<factVars, orderVars, placed>>
      /\ checkout[c] \in Requests /\ RequestIsGrounded(checkout[c], changed[c]) /\ checkout[c].basket.delivered
  BY TheRequest DEF CheckZone, RequestIsGrounded
<1>2. OrderShape'
  BY <1>1, OrdersShapeRests DEF CheckoutInv
<1>3. checkout[c].city \in Cities /\ (location = checkout[c].city \/ "location" \in changed[c])
  BY <1>1 DEF RequestIsGrounded, CityIsHis
<1>4. Covers(checkout[c].city) <=> CityIsServed(checkout[c].city)
  BY <1>3, CoversIsServed DEF CheckoutInv
<1>5. CASE ~Covers(checkout[c].city)
  <2>1. RefusesSince(c, {"location", "zone"}, MadeBefore(c))
    BY <1>5 DEF CheckZone, Refuses
  <2>2. ASSUME NEW o \in MadeBefore(c) PROVE (changed[o] \cup changed[c]) \cap {"location", "zone"} # {}
    <3>1. AddressIsThere(checkout[c].basket, changed[o])
      BY <1>1, MadeBeforeIsGrounded
    <3> QED BY <1>1, <1>3, <1>4, <1>5, <3>1 DEF AddressIsThere
  <2> QED BY <1>1, <1>2, <2>1, <2>2, RefusesKeeps DEF orderVars
<1>6. CASE Covers(checkout[c].city)
  <2>1. PICK r : r = [checkout[c] EXCEPT !.at = "lookup"]
    OBVIOUS
  <2>2. /\ r \in Requests /\ r.at = "lookup" /\ r.city = checkout[c].city /\ r.basket = checkout[c].basket
        /\ r.listed = checkout[c].listed /\ r.prices = checkout[c].prices
    BY <1>1, <2>1 DEF Requests
  <2>3. RequestIsGrounded(r, changed[c])
    BY <1>1, <1>3, <1>4, <1>6, <2>2 DEF RequestIsGrounded, ShownIsOrderable, CityIsHis, CityIsCovered, PricesAreRight
  <2>4. checkout' = [checkout EXCEPT ![c] = r] /\ UNCHANGED <<changed, groundless>>
    BY <1>6, <2>1 DEF CheckZone, Reaches, ReachesAs
  <2> QED BY <1>1, <1>2, <2>2, <2>3, <2>4, RequestGoesOn DEF orderVars
<1> QED BY <1>5, <1>6

\* The key is looked up: a hit is the answer.
LEMMA LookupKeyKeeps == ASSUME CheckoutInv, NEW c \in Calls, NEW o \in Orders, LookupKey(c, o) PROVE CheckoutInv'
<1>1. /\ checkout[c].at = "lookup" /\ UNCHANGED <<factVars, placed, groundless>>
      /\ checkout[c] \in Requests /\ RequestIsGrounded(checkout[c], changed[c])
  BY TheRequest DEF LookupKey
<1>2. PlaceOrder(c, o, checkout[c].customer, checkout[c].key)
  BY DEF LookupKey
<1>3. OrderShape' /\ UNCHANGED <<order, been>>
  BY <1>1, <1>2, PlaceOrderKeepsShape DEF CheckoutInv, Requests
<1>4. CASE Leaves(c)
  BY <1>1, <1>3, <1>4, RequestLeaves
<1>5. CASE Reaches(c, "prices") /\ UNCHANGED changed
  <2>1. PICK r : r = [checkout[c] EXCEPT !.at = "prices"]
    OBVIOUS
  <2>2. /\ r \in Requests /\ r.at = "prices" /\ r.city = checkout[c].city /\ r.basket = checkout[c].basket
        /\ r.listed = checkout[c].listed /\ r.prices = <<>>
    BY <1>1, <2>1 DEF Requests, RequestIsGrounded
  <2>3. r.basket.items \in Seq(Products)
    BY <1>1, <2>2, TheRequest
  <2>4. PricesAreRight(r, changed[c])
    BY <2>2, <2>3, LenProperties DEF PricesAreRight
  <2>5. RequestIsGrounded(r, changed[c])
    BY <1>1, <2>2, <2>4 DEF RequestIsGrounded, ShownIsOrderable, CityIsHis, CityIsCovered
  <2>6. checkout' = [checkout EXCEPT ![c] = r]
    BY <1>5, <2>1 DEF Reaches, ReachesAs
  <2> QED BY <1>1, <1>3, <1>5, <2>2, <2>5, <2>6, RequestGoesOn
<1> QED BY <1>4, <1>5 DEF LookupKey

\* The next item has its price, or cannot be ordered.
LEMMA GetProductPriceKeeps == ASSUME CheckoutInv, NEW c \in Calls, GetProductPrice(c) PROVE CheckoutInv'
<1>1. /\ checkout[c].at = "prices" /\ UNCHANGED <<factVars, placed>> /\ ItemsLeft(c)
      /\ checkout[c] \in Requests /\ RequestIsGrounded(checkout[c], changed[c])
      /\ checkout[c].basket.items \in Seq(Products)
  BY TheRequest DEF GetProductPrice
<1>2. PICK n \in Nat : n = Len(checkout[c].prices)
  BY <1>1, LenProperties DEF Requests
<1>3. n + 1 \in 1..Len(checkout[c].basket.items)
  BY <1>1, <1>2, LenProperties DEF ItemsLeft
<1>4. PICK p \in Products : p = checkout[c].basket.items[n + 1]
  BY <1>1, <1>3, ElementOfSeq
<1>5. CASE CanBeOrdered(p)
  <2>1. PICK price \in Prices : price = product[p].price
    BY <1>4, <1>5 DEF CanBeOrdered, CheckoutInv, Facts, ProductRows
  <2>2. PICK s \in Seq(Prices) : s = Append(checkout[c].prices, price)
    BY <1>1, AppendProperties DEF Requests
  <2>3. Len(s) = n + 1 /\ s[n + 1] = price /\ \A i \in 1..n : s[i] = checkout[c].prices[i]
    BY <1>1, <1>2, <2>2, AppendProperties DEF Requests
  <2>4. PICK r : r = [checkout[c] EXCEPT !.prices = s]
    OBVIOUS
  <2>5. /\ r \in Requests /\ r.at = "prices" /\ r.city = checkout[c].city /\ r.basket = checkout[c].basket
        /\ r.listed = checkout[c].listed /\ r.prices = s
    BY <1>1, <2>4 DEF Requests
  <2>6. PricesAreRight(r, changed[c])
    <3>1. Len(s) <= Len(r.basket.items)
      BY <1>1, <1>3, <2>3, <2>5, LenProperties
    <3>2. ASSUME "product" \notin changed[c], NEW i \in 1..Len(s)
          PROVE  product[r.basket.items[i]].price = s[i] /\ product[r.basket.items[i]].available
      <4>1. CASE i = n + 1
        BY <1>4, <1>5, <2>1, <2>3, <2>5, <4>1 DEF CanBeOrdered
      <4>2. CASE i # n + 1
        BY <1>1, <1>2, <2>3, <2>5, <3>2, <4>2 DEF RequestIsGrounded, PricesAreRight
      <4> QED BY <4>1, <4>2
    <3> QED BY <2>5, <3>1, <3>2 DEF PricesAreRight
  <2>7. RequestIsGrounded(r, changed[c])
    BY <1>1, <2>5, <2>6 DEF RequestIsGrounded, ShownIsOrderable, CityIsHis, CityIsCovered
  <2>8. checkout' = [checkout EXCEPT ![c] = r] /\ UNCHANGED <<orderVars, changed, groundless>>
    BY <1>2, <1>4, <1>5, <2>1, <2>2, <2>4 DEF GetProductPrice, ReachesAs
  <2>9. OrderShape'
    BY <2>8, OrdersShapeRests DEF CheckoutInv
  <2> QED BY <1>1, <2>5, <2>7, <2>8, <2>9, RequestGoesOn DEF orderVars
<1>6. CASE ~CanBeOrdered(p)
  <2>1. /\ RefusesSince(c, {"product"}, MadeBefore(c) \cup {d \in {c} : p \in checkout[c].listed})
        /\ OrderReturn(c) /\ UNCHANGED <<order, been, told>>
    BY <1>2, <1>4, <1>6 DEF GetProductPrice
  <2>2. OrderShape'
    BY <2>1, OrderReturnKeeps DEF CheckoutInv
  <2>3. ASSUME NEW o \in MadeBefore(c) PROVE "product" \in changed[o]
    BY <1>1, <1>3, <1>4, <1>6, MadeBeforeIsGrounded DEF ItemsAreOrderable
  <2>4. p \in checkout[c].listed => "product" \in changed[c]
    BY <1>1, <1>6 DEF RequestIsGrounded, ShownIsOrderable
  <2> QED BY <1>1, <2>1, <2>2, <2>3, <2>4, RefusesKeeps
<1> QED BY <1>5, <1>6

\* The order rests on what the request has read.
LEMMA InsertOrderKeeps == ASSUME CheckoutInv, NEW c \in Calls, InsertOrder(c) PROVE CheckoutInv'
<1> DEFINE o == orderCall[c].order
           b == checkout[c].basket
<1>1. /\ checkout[c].at = "prices" /\ UNCHANGED factVars /\ ~ItemsLeft(c) /\ CreateOrder(c)
      /\ checkout' = [checkout EXCEPT ![c] = NoCheckout]
      /\ checkout[c] \in Requests /\ RequestIsGrounded(checkout[c], changed[c])
      /\ b \in Baskets /\ b # None /\ b.items \in Seq(Products) /\ b.delivered \in BOOLEAN
  BY TheRequest DEF InsertOrder, ReachesAs
<1>2. OrderShape' /\ o \in Orders /\ \A x \in Orders \ {o} : order'[x] = order[x]
  BY <1>1, CreateOrderKeepsShape DEF CheckoutInv
<1>3. CASE order' = order
  <2>1. Leaves(c) /\ UNCHANGED <<placed, groundless>>
    BY <1>1, <1>3 DEF InsertOrder, Leaves, ReachesAs
  <2> QED BY <1>1, <1>2, <1>3, <2>1, RequestLeaves
<1>4. CASE order' # order
  <2>1. /\ changed' = [changed EXCEPT ![c] = {}, ![o] = changed[c]]
        /\ placed' = [placed EXCEPT ![o] = b]
        /\ groundless' = (groundless \/ ~(Stale(c) \subseteq changed[c]))
    BY <1>4 DEF InsertOrder
  <2>2. c \notin Orders /\ o \notin Calls
    BY <1>2, CheckoutAssumption
  <2>3. /\ changed' \in [Calls \cup Orders -> SUBSET Kind] /\ changed'[c] = {} /\ changed'[o] = changed[c]
        /\ \A x \in (Calls \cup Orders) \ {c, o} : changed'[x] = changed[x]
        /\ placed' \in [Orders -> Baskets \cup {None}] /\ placed'[o] = b
        /\ \A x \in Orders \ {o} : placed'[x] = placed[x]
    BY <1>1, <1>2, <2>1, <2>2 DEF CheckoutInv, CheckoutShape
  <2>4. \A i \in 1..Len(b.items) : i \in 1..Len(checkout[c].prices)
    BY <1>1, LenProperties DEF ItemsLeft, Requests
  <2>5. "product" \in changed[c] \/ \A i \in 1..Len(checkout[c].prices) :
          /\ product[b.items[i]].price = checkout[c].prices[i] /\ product[b.items[i]].available
          /\ checkout[c].prices[i] \in Prices
    BY <1>1, ElementOfSeq DEF RequestIsGrounded, PricesAreRight, Requests
  <2>6. b.delivered => /\ checkout[c].city \in Cities
                       /\ location = checkout[c].city \/ "location" \in changed[c]
                       /\ CityIsServed(checkout[c].city) \/ "zone" \in changed[c]
    BY <1>1 DEF RequestIsGrounded, CityIsHis, CityIsCovered
  <2>7. groundless' = FALSE
    <3>1. DOMAIN checkout[c].prices = 1..Len(checkout[c].prices)
      BY <1>1, LenProperties DEF Requests
    <3>2. Stale(c) \subseteq changed[c]
      BY <2>5, <2>6, <3>1 DEF Stale, CityIsServed
    <3> QED BY <2>1, <3>2 DEF CheckoutInv
  <2>8. OrdersAreGrounded'
    <3>1. AddressIsThere(b, changed[c])
      BY <2>6 DEF AddressIsThere
    <3>2. ItemsAreOrderable(b, changed[c])
      BY <2>4, <2>5, StorefrontAssumption DEF ItemsAreOrderable, CanBeOrdered
    <3>3. PICK basket, ch : basket = b /\ ch = changed[c]
      OBVIOUS
    <3>4. OrderIsGrounded(basket, ch)
      BY <3>1, <3>2, <3>3 DEF OrderIsGrounded
    <3>5. basket = placed'[o] /\ ch = changed'[o]
      BY <2>3, <3>3
    <3> HIDE DEF b, o
    <3>6. OrderIsGrounded(basket, ch)'
      BY <1>1, <3>4 DEF OrderIsGrounded, AddressIsThere, ItemsAreOrderable, CanBeOrdered, CityIsServed, factVars
    <3>7. ASSUME NEW x \in Orders, order'[x].status # "NONE" PROVE OrderIsGrounded(placed[x], changed[x])'
      <4>1. CASE x = o
        BY <3>5, <3>6, <4>1 DEF OrderIsGrounded, AddressIsThere, ItemsAreOrderable
      <4>2. CASE x # o
        <5>1. x # c /\ order'[x] = order[x] /\ placed'[x] = placed[x] /\ changed'[x] = changed[x]
          BY <1>2, <2>2, <2>3, <3>7, <4>2
        <5>2. OrderIsGrounded(placed[x], changed[x])
          BY <3>7, <5>1 DEF CheckoutInv, OrdersAreGrounded
        <5> QED BY <1>1, <5>1, <5>2 DEF OrderIsGrounded, AddressIsThere, ItemsAreOrderable, CanBeOrdered,
                                       CityIsServed, factVars
      <4> QED BY <4>1, <4>2
    <3> QED BY <3>7 DEF OrdersAreGrounded
  <2>9. checkout' \in [Calls -> Requests] /\ RequestsAreGrounded'
    <3>1. PICK r : r = NoCheckout
      OBVIOUS
    <3>2. r \in Requests /\ RequestIsGrounded(r, {}) /\ {} \in SUBSET Kind
      BY <3>1, NoCheckoutIsGrounded
    <3>3. checkout' = [checkout EXCEPT ![c] = r]
      BY <1>1, <3>1
    <3>4. \A d \in Calls \ {c} : changed'[d] = changed[d]
      BY <2>2, <2>3
    <3> QED BY <1>1, <2>3, <3>2, <3>3, <3>4, RequestMoves
  <2>10. Facts'
    BY <1>1 DEF CheckoutInv, Facts, factVars
  <2> QED BY <1>2, <2>3, <2>7, <2>8, <2>9, <2>10 DEF CheckoutInv, CheckoutShape
<1> QED BY <1>3, <1>4

\* A request that fails leaves nothing behind.
LEMMA CheckoutDroppedKeeps == ASSUME CheckoutInv, NEW c \in Calls, CheckoutDropped(c) PROVE CheckoutInv'
<1>1. Leaves(c) /\ UNCHANGED <<factVars, placed, groundless>>
  BY DEF CheckoutDropped
<1>2. OrderShape' /\ UNCHANGED order
  BY OrderReturnKeeps, OrdersShapeRests DEF CheckoutDropped, OrderCrash, CheckoutInv, orderVars
<1> QED BY <1>1, <1>2, RequestLeaves

\* The invariant is inductive.
LEMMA CheckoutInvNext == CheckoutInv /\ [CheckoutNext]_checkoutVars => CheckoutInv'
<1> SUFFICES ASSUME CheckoutInv, [CheckoutNext]_checkoutVars PROVE CheckoutInv'
  OBVIOUS
<1>1. CASE UNCHANGED checkoutVars
  <2>1. UNCHANGED <<factVars, orderVars, checkout, placed, changed, groundless>>
    BY <1>1 DEF checkoutVars
  <2>2. Facts' /\ OrderShape' /\ CheckoutShape'
    BY <2>1, OrdersShapeRests DEF CheckoutInv, Facts, factVars, CheckoutShape
  <2>3. RequestsAreGrounded'
    BY <2>1 DEF CheckoutInv, RequestsAreGrounded, RequestIsGrounded, ShownIsOrderable, CityIsHis, CityIsCovered,
                PricesAreRight, CanBeOrdered, CityIsServed, factVars
  <2>4. OrdersAreGrounded'
    BY <2>1, OrdersStayGrounded DEF orderVars
  <2> QED BY <2>1, <2>2, <2>3, <2>4 DEF CheckoutInv
<1> QED BY <1>1, FactsChangeKeeps, CustomerOrderKeeps, ListStorefrontKeeps, ReadLocationKeeps, CheckZoneKeeps,
           LookupKeyKeeps, GetProductPriceKeeps, InsertOrderKeeps, CheckoutDroppedKeeps
        DEF CheckoutNext

-----------------------------------------------------------------------------
(* What a customer meets, as a whole. *)

allVars == <<part, vars, storefrontVars, atCheckout, conversationVars>>

\* A behaviour works on one of the four; what the others keep is as it was at first.
NothingElseBegan ==
  /\ part # "storefront" => inquiry = NoInquiry
  /\ part # "checkout" => /\ \A c \in Calls : checkout[c] = NoCheckout
                          /\ \A o \in Orders : order[o].status = "NONE"

CustomerInv == IndInv /\ StorefrontInv /\ CheckoutInv /\ ConversationInv /\ NothingElseBegan

LEMMA CustomerInvInit == MCInit => CustomerInv
<1> SUFFICES ASSUME MCInit PROVE CustomerInv
  OBVIOUS
<1>1. IndInv /\ StorefrontInv /\ CheckoutInv /\ ConversationInv
  BY IndInvInit, StorefrontInvInit, CheckoutInvInit, ConversationInvInit DEF MCInit
<1>2. NothingElseBegan
  BY DEF MCInit, StorefrontInit, OrderInit, CheckoutInit, NothingElseBegan
<1> QED BY <1>1, <1>2 DEF CustomerInv

\* Where nobody has come, the store may change as it likes.
LEMMA NobodyIsThere ==
  ASSUME CheckoutInv, Facts', UNCHANGED atCheckout,
         \A c \in Calls : checkout[c] = NoCheckout, \A o \in Orders : order[o].status = "NONE"
  PROVE  CheckoutInv'
<1>1. UNCHANGED <<orderVars, order, checkout, placed, changed, groundless>>
  BY DEF atCheckout, orderVars
<1>2. OrderShape' /\ CheckoutShape'
  BY <1>1, OrdersShapeRests DEF CheckoutInv, CheckoutShape
<1>3. RequestsAreGrounded'
  BY <1>1 DEF RequestsAreGrounded, RequestIsGrounded, NoCheckout, ShownIsOrderable, CityIsHis, CityIsCovered,
              PricesAreRight
<1>4. OrdersAreGrounded'
  BY <1>1 DEF OrdersAreGrounded
<1> QED BY <1>1, <1>2, <1>3, <1>4 DEF CheckoutInv

\* A coverage lookup that has not begun holds while the store changes.
LEMMA NobodyAsks == ASSUME StorefrontInv, Facts', inquiry = NoInquiry, UNCHANGED inquiry PROVE StorefrontInv'
BY DEF StorefrontInv, NoInquiry, LookupIsSound, CoverageWasTrue

\* The invariant is inductive.
LEMMA CustomerInvNext == CustomerInv /\ [MCNext]_allVars => CustomerInv'
<1> SUFFICES ASSUME CustomerInv, [MCNext]_allVars PROVE CustomerInv'
  OBVIOUS
<1>0. IndInv /\ StorefrontInv /\ CheckoutInv /\ ConversationInv /\ NothingElseBegan /\ UNCHANGED part
  BY DEF CustomerInv, MCNext, allVars
<1>1. UNCHANGED vars => IndInv'
  BY <1>0, IndInvNext
<1>2. UNCHANGED storefrontVars => StorefrontInv'
  BY <1>0, StorefrontInvNext
<1>3. UNCHANGED <<factVars, atCheckout>> => CheckoutInv'
  BY <1>0, CheckoutInvNext DEF checkoutVars, atCheckout
<1>4. UNCHANGED conversationVars => ConversationInv'
  BY <1>0, ConversationInvNext
<1>5. CASE UNCHANGED <<storefrontVars, atCheckout>> /\ IndInv' /\ ConversationInv'
  <2>1. UNCHANGED factVars /\ UNCHANGED inquiry /\ UNCHANGED <<checkout, order>>
    BY <1>5 DEF storefrontVars, atCheckout, orderVars
  <2>2. NothingElseBegan'
    BY <1>0, <2>1 DEF NothingElseBegan
  <2> QED BY <1>2, <1>3, <1>5, <2>1, <2>2 DEF CustomerInv
<1>6. CASE part = "storefront" /\ StorefrontNext /\ UNCHANGED <<vars, atCheckout, conversationVars>>
  <2>1. StorefrontInv' /\ Facts'
    BY <1>0, <1>6, StorefrontInvNext DEF StorefrontInv
  <2>2. CheckoutInv'
    BY <1>0, <1>6, <2>1, NobodyIsThere DEF NothingElseBegan
  <2>3. NothingElseBegan'
    BY <1>0, <1>6 DEF NothingElseBegan, atCheckout, orderVars
  <2> QED BY <1>1, <1>4, <1>6, <2>1, <2>2, <2>3 DEF CustomerInv
<1>7. CASE part = "checkout" /\ CheckoutNext /\ UNCHANGED <<vars, inquiry, conversationVars>>
  <2>1. CheckoutInv' /\ Facts'
    BY <1>0, <1>7, CheckoutInvNext DEF CheckoutInv
  <2>2. inquiry = NoInquiry
    BY <1>0, <1>7 DEF NothingElseBegan
  <2>3. StorefrontInv'
    BY <1>0, <1>7, <2>1, <2>2, NobodyAsks
  <2>4. NothingElseBegan'
    BY <1>0, <1>7, <2>2 DEF NothingElseBegan
  <2> QED BY <1>1, <1>4, <1>7, <2>1, <2>3, <2>4 DEF CustomerInv
<1>8. CASE MCNext
  <2>1. CASE part = "payments" /\ Next /\ UNCHANGED <<storefrontVars, atCheckout, conversationVars>>
    BY <1>0, <1>4, <1>5, <2>1, IndInvNext
  <2>2. CASE part = "conversation" /\ ConversationNext /\ UNCHANGED <<vars, storefrontVars, atCheckout>>
    BY <1>0, <1>1, <1>5, <2>2, ConversationInvNext
  <2> QED BY <1>6, <1>7, <1>8, <2>1, <2>2 DEF MCNext
<1>9. CASE UNCHANGED allVars
  BY <1>1, <1>4, <1>5, <1>9 DEF allVars
<1> QED BY <1>8, <1>9

LEMMA CustomerInvariance == MCSpec => []CustomerInv
<1>1. MCSpec => MCInit /\ [][MCNext]_allVars
  BY DEF MCSpec, allVars
<1> QED BY <1>1, CustomerInvInit, CustomerInvNext, PTL

\* The shape of the payments, the store, the orders and their requests and of the
\* messages is kept by every statement of every part.
THEOREM CustomerIsTyped == MCSpec => []CustomerTypeOK
<1>1. ASSUME CustomerInv PROVE CustomerTypeOK
  <2>1. TypeOK /\ OrderTypeOK /\ ConversationTypeOK
    BY <1>1 DEF CustomerInv, IndInv, Sound, CheckoutInv, OrderShape, ConversationInv
  <2>2. StorefrontTypeOK
    BY <1>1 DEF CustomerInv, StorefrontInv, Facts, ProductRows, Inquiries, StorefrontTypeOK
  <2>3. CheckoutTypeOK
    BY <1>1 DEF CustomerInv, CheckoutInv, CheckoutShape, Requests, CheckoutTypeOK
  <2> QED BY <2>1, <2>2, <2>3 DEF CustomerTypeOK
<1> QED BY <1>1, CustomerInvariance, PTL

\* A coverage lookup, a checkout and a list of messages each read in several statements
\* while the owner and others write: what the customer is told, refused or charged for,
\* and what a sender is shown as read, was so, unless that very thing changed meanwhile.
THEOREM AnswersAreGrounded == MCSpec => []AnswersRestOnFacts
<1>1. CustomerInv => AnswersRestOnFacts
  BY DEF CustomerInv, StorefrontInv, CheckoutInv, ConversationInv, AnswersRestOnFacts, OrdersRestOnFacts
<1> QED BY <1>1, CustomerInvariance, PTL
=============================================================================
