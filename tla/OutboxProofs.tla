---------------------------- MODULE OutboxProofs ----------------------------
(***************************************************************************)
(* Proofs about Outbox.tla, for any number of events and workers and any   *)
(* attempt limit, lease and batch size.                                    *)
(***************************************************************************)
EXTENDS Outbox, FiniteSetTheorems, TLAPS

\* A worker that goes on to MarkDelivered has its event's handler behind it.
OkIsBacked ==
  \A w \in Workers : ok[w] => step[w] = "settling" /\ handled[current[w].event]

\* What a worker holds was claimed: its attempt number was counted in the row.
HeldWasClaimed ==
  \A w \in Workers : \A c \in InHand(w) : 1 <= c.attempt /\ c.attempt <= attempts[c.event]

IndInv ==
  /\ TypeOK
  /\ OkIsBacked
  /\ DeliveredWasHandled
  /\ DeadLetterIsExhausted
  /\ HeldWasClaimed
  /\ ClaimsAreUnique

USE OutboxAssumption DEF Events

\* The backoff of a retry is a natural number of seconds, whatever the attempt.
LEMMA RetryDelayType == ASSUME NEW n \in Nat PROVE retryDelay(n) \in Nat
<1>1. CASE n <= 1 BY <1>1 DEF retryDelay, Backoff
<1>2. CASE n = 2 BY <1>2 DEF retryDelay, Backoff
<1>3. CASE n = 3 BY <1>3 DEF retryDelay, Backoff
<1>4. CASE n = 4 BY <1>4 DEF retryDelay, Backoff
<1>5. CASE n = 5 BY <1>5 DEF retryDelay, Backoff
<1>6. CASE n = 6 BY <1>6 DEF retryDelay, Backoff
<1>7. CASE n = 7 BY <1>7 DEF retryDelay, Backoff
<1>8. CASE n = 8 BY <1>8 DEF retryDelay, Backoff
<1>9. CASE n >= 9 BY <1>9 DEF retryDelay, Backoff
<1> QED BY <1>1, <1>2, <1>3, <1>4, <1>5, <1>6, <1>7, <1>8, <1>9

\* Only ready events are claimed.
LEMMA OldestIsSubset == ASSUME NEW rows PROVE Oldest(rows) \subseteq rows
BY DEF Oldest

\* A claim names an event, which the empty hand does not.
LEMMA NoClaimIsNone == NoClaim \notin Claims
BY DEF NoClaim, Claims

\* What Claim puts in the batch are claims.
LEMMA NewClaims ==
  ASSUME TypeOK, NEW S \in SUBSET Events
  PROVE  {[event |-> e, attempt |-> attempts[e] + 1] : e \in S} \in SUBSET Claims
<1>1. \A e \in S : [event |-> e, attempt |-> attempts[e] + 1] \in Claims
  BY DEF TypeOK, Claims
<1> QED BY <1>1

\* The empty table and the idle workers are well-typed.
LEMMA TypeInit == Init => TypeOK
BY NoClaimIsNone DEF Init, TypeOK, Status, Step

\* Every action keeps the outbox well-typed.
LEMMA TypeNext == TypeOK /\ [Next]_vars => TypeOK'
<1> SUFFICES ASSUME TypeOK, [Next]_vars PROVE TypeOK'
  OBVIOUS
<1> USE NoClaimIsNone DEF TypeOK, Status, Final, Step
<1>1. ASSUME NEW e \in Events, Enqueue(e) PROVE TypeOK'
  BY <1>1 DEF Enqueue
<1>2. ASSUME NEW w \in Workers, Claim(w) PROVE TypeOK'
  <2>1. PICK skipped \in SUBSET (Ready \cap Locked(w)) :
          LET claimed == Oldest(Ready \ skipped) IN
          /\ status' = [e \in Events |-> IF e \in claimed THEN "PROCESSING" ELSE status[e]]
          /\ attempts' = [e \in Events |-> IF e \in claimed THEN attempts[e] + 1 ELSE attempts[e]]
          /\ lease' = [e \in Events |-> IF e \in claimed THEN LeaseFor ELSE lease[e]]
          /\ batch' = [batch EXCEPT ![w] = {[event |-> e, attempt |-> attempts[e] + 1] : e \in claimed}]
    BY <1>2 DEF Claim
  <2> DEFINE claimed == Oldest(Ready \ skipped)
             fresh == {[event |-> e, attempt |-> attempts[e] + 1] : e \in claimed}
  <2>2. claimed \in SUBSET Events
    BY OldestIsSubset DEF Ready
  <2>3. fresh \in SUBSET Claims
    BY <2>2, NewClaims
  <2>4. batch' = [batch EXCEPT ![w] = fresh]
    BY <2>1
  <2> HIDE DEF fresh
  <2>5. batch' \in [Workers -> SUBSET Claims]
    BY <2>3, <2>4
  <2>6. status' \in [Events -> Status] /\ attempts' \in [Events -> Nat] /\ lease' \in [Events -> 0..LeaseFor]
    BY <2>1
  <2> QED BY <1>2, <2>5, <2>6 DEF Claim
<1>3. ASSUME NEW w \in Workers, TakeUp(w) PROVE TypeOK'
  <2>1. PICK c \in batch[w] : /\ current' = [current EXCEPT ![w] = c]
                              /\ batch' = [batch EXCEPT ![w] = @ \ {c}]
                              /\ step' = [step EXCEPT ![w] = IF c.event \in Registered THEN "handling" ELSE "settling"]
    BY <1>3 DEF TakeUp
  <2>2. c \in Claims /\ c # NoClaim
    OBVIOUS
  <2> QED BY <1>3, <2>1, <2>2 DEF TakeUp
<1>4. ASSUME NEW w \in Workers, NEW nil \in BOOLEAN, HandlerReturns(w, nil) PROVE TypeOK'
  <2>1. current[w].event \in Events
    BY <1>4 DEF HandlerReturns, Claims
  <2> QED BY <1>4, <2>1 DEF HandlerReturns
<1>5. ASSUME NEW w \in Workers, Settle(w) PROVE TypeOK'
  <2>1. current[w].event \in Events /\ current[w].attempt \in Nat
    BY <1>5 DEF Settle, Claims
  <2>2. retryDelay(current[w].attempt) \in Nat
    BY <2>1, RetryDelayType
  <2>3. /\ status' \in [Events -> Status] /\ attempts' = attempts
        /\ wait' \in [Events -> Nat] /\ lease' \in [Events -> 0..LeaseFor]
    <3> DEFINE e == current[w].event
    <3>1. 0 \in 0..LeaseFor
      OBVIOUS
    <3>2. CASE MarkDelivered(e)
      BY <3>1, <3>2, <2>1 DEF MarkDelivered
    <3>3. CASE FailTo(e, MaxAttempts, retryDelay(current[w].attempt))
      BY <3>1, <3>3, <2>1, <2>2 DEF FailTo
    <3>4. CASE UNCHANGED table
      BY <3>4 DEF table
    <3> QED BY <1>5, <3>2, <3>3, <3>4 DEF Settle, MarkFailed
  <2> QED BY <1>5, <2>3 DEF Settle
<1>6. ASSUME NEW w \in Workers, SettleFails(w) PROVE TypeOK'
  BY <1>6 DEF SettleFails
<1>7. ASSUME NEW w \in Workers, Crash(w) PROVE TypeOK'
  BY <1>7 DEF Crash
<1>8. CASE Tick
  <2>1. \A e \in Events : Minus1(wait[e]) \in Nat /\ Minus1(lease[e]) \in 0..LeaseFor
    BY DEF Minus1
  <2> QED BY <1>8, <2>1 DEF Tick
<1>9. CASE UNCHANGED vars
  BY <1>9 DEF vars
<1> QED BY <1>1, <1>2, <1>3, <1>4, <1>5, <1>6, <1>7, <1>8, <1>9 DEF Next

\* Type correctness of the outbox.
THEOREM TypeCorrect == Safe => []TypeOK
BY TypeInit, TypeNext, PTL DEF Safe

-----------------------------------------------------------------------------

\* The inductive invariant holds of the empty table.
LEMMA IndInvInit == Init => IndInv
<1> SUFFICES ASSUME Init PROVE IndInv
  OBVIOUS
<1>1. TypeOK
  BY TypeInit
<1>2. \A w \in Workers : InHand(w) = {}
  BY DEF Init, InHand
<1>3. OkIsBacked /\ DeliveredWasHandled /\ DeadLetterIsExhausted
  BY DEF Init, OkIsBacked, DeliveredWasHandled, DeadLetterIsExhausted
<1>4. HeldWasClaimed
  BY <1>2 DEF HeldWasClaimed
<1>5. ClaimsAreUnique
  BY <1>2 DEF ClaimsAreUnique, Init
<1> QED BY <1>1, <1>3, <1>4, <1>5 DEF IndInv

\* A step that hands out nothing new and keeps the attempt counts keeps what is
\* known of the hands: each worker holds what it held, or less.
LEMMA HandsShrink ==
  ASSUME TypeOK, HeldWasClaimed, ClaimsAreUnique, attempts' = attempts,
         \A w \in Workers : InHand(w)' \subseteq InHand(w),
         \A w \in Workers : current'[w] \notin batch'[w]
  PROVE  HeldWasClaimed' /\ ClaimsAreUnique'
BY DEF HeldWasClaimed, ClaimsAreUnique

\* A worker that drops what it has in hand, and perhaps its batch, keeps the rest.
LEMMA HandDropped ==
  ASSUME IndInv, attempts' = attempts, NEW w \in Workers,
         current' = [current EXCEPT ![w] = NoClaim],
         batch' = batch \/ batch' = [batch EXCEPT ![w] = {}]
  PROVE  HeldWasClaimed' /\ ClaimsAreUnique'
<1>1. \A v \in Workers : batch'[v] \subseteq batch[v] /\ current'[v] \in {current[v], NoClaim}
  BY DEF IndInv, TypeOK
<1>2. \A v \in Workers : NoClaim \notin batch[v] /\ current[v] \notin batch[v]
  BY NoClaimIsNone DEF IndInv, TypeOK, ClaimsAreUnique
<1>3. \A v \in Workers : InHand(v)' \subseteq InHand(v)
  BY <1>1 DEF InHand
<1>4. \A v \in Workers : current'[v] \notin batch'[v]
  BY <1>1, <1>2
<1> QED BY <1>3, <1>4, HandsShrink DEF IndInv

\* Claim gives w the ready events under attempt numbers no hand holds yet.
LEMMA ClaimKeepsHands ==
  ASSUME IndInv, TypeOK', NEW w \in Workers, Claim(w)
  PROVE  HeldWasClaimed' /\ ClaimsAreUnique'
<1> DEFINE fresh(S) == {[event |-> e, attempt |-> attempts[e] + 1] : e \in S}
<1>1. PICK S \in SUBSET Events :
        /\ batch' = [batch EXCEPT ![w] = fresh(S)]
        /\ attempts' = [e \in Events |-> IF e \in S THEN attempts[e] + 1 ELSE attempts[e]]
  <2>1. PICK skipped \in SUBSET (Ready \cap Locked(w)) :
          LET claimed == Oldest(Ready \ skipped) IN
          /\ attempts' = [e \in Events |-> IF e \in claimed THEN attempts[e] + 1 ELSE attempts[e]]
          /\ batch' = [batch EXCEPT ![w] = {[event |-> e, attempt |-> attempts[e] + 1] : e \in claimed}]
    BY DEF Claim
  <2>2. Oldest(Ready \ skipped) \in SUBSET Events
    BY OldestIsSubset DEF Ready
  <2> QED BY <2>1, <2>2
<1>2. /\ InHand(w) = {} /\ InHand(w)' = fresh(S)
      /\ \A v \in Workers \ {w} : InHand(v)' = InHand(v)
      /\ current' = current /\ current[w] = NoClaim
  BY <1>1 DEF Claim, InHand, IndInv, TypeOK
<1>3. \A c \in fresh(S) : /\ c \in Claims
                          /\ c.attempt = attempts[c.event] + 1
                          /\ c.attempt = attempts'[c.event]
  <2> SUFFICES ASSUME NEW e \in S
               PROVE  LET c == [event |-> e, attempt |-> attempts[e] + 1] IN
                      /\ c \in Claims /\ c.attempt = attempts[c.event] + 1
                      /\ c.attempt = attempts'[c.event]
    OBVIOUS
  <2> QED BY <1>1 DEF IndInv, TypeOK, Claims
<1>4. \A e \in Events : attempts[e] \in Nat /\ attempts'[e] \in Nat /\ attempts[e] <= attempts'[e]
  <2> SUFFICES ASSUME NEW e \in Events
               PROVE  attempts[e] \in Nat /\ attempts'[e] \in Nat /\ attempts[e] <= attempts'[e]
    OBVIOUS
  <2>1. attempts[e] \in Nat
    BY DEF IndInv, TypeOK
  <2>2. attempts'[e] = attempts[e] + 1 \/ attempts'[e] = attempts[e]
    BY <1>1
  <2> QED BY <2>1, <2>2
<1>5. \A v \in Workers : InHand(v) \subseteq Claims
  BY DEF IndInv, TypeOK, InHand
<1> HIDE DEF fresh
<1>6. HeldWasClaimed'
  <2> SUFFICES ASSUME NEW v \in Workers, NEW c \in InHand(v)'
               PROVE  1 <= c.attempt /\ c.attempt <= attempts'[c.event]
    BY DEF HeldWasClaimed
  <2>1. CASE v = w
    <3>1. c \in fresh(S)
      BY <2>1, <1>2
    <3> QED BY <3>1, <1>3, <1>4 DEF Claims
  <2>2. CASE v # w
    <3>1. c \in InHand(v)
      BY <2>2, <1>2
    <3>2. 1 <= c.attempt /\ c.attempt <= attempts[c.event] /\ c.event \in Events /\ c.attempt \in Nat
      BY <3>1, <1>5 DEF IndInv, HeldWasClaimed, Claims
    <3> QED BY <3>2, <1>4
  <2> QED BY <2>1, <2>2
<1>7. \A v \in Workers \ {w} : InHand(v) \cap fresh(S) = {}
  <2> SUFFICES ASSUME NEW v \in Workers \ {w}, NEW c \in InHand(v), c \in fresh(S) PROVE FALSE
    OBVIOUS
  <2>1. c.attempt <= attempts[c.event] /\ c.event \in Events /\ c.attempt \in Nat
    BY <1>5 DEF IndInv, HeldWasClaimed, Claims
  <2> QED BY <2>1, <1>3, <1>4
<1>8. ClaimsAreUnique'
  <2> SUFFICES ASSUME NEW u \in Workers
               PROVE  /\ current'[u] \notin batch'[u]
                      /\ \A v \in Workers \ {u} : InHand(u)' \cap InHand(v)' = {}
    BY DEF ClaimsAreUnique
  <2>1. current'[u] \notin batch'[u]
    <3>1. CASE u = w
      BY <3>1, <1>1, <1>2, <1>3, NoClaimIsNone DEF IndInv, TypeOK
    <3>2. CASE u # w
      BY <3>2, <1>1, <1>2 DEF IndInv, TypeOK, ClaimsAreUnique
    <3> QED BY <3>1, <3>2
  <2>2. ASSUME NEW v \in Workers \ {u} PROVE InHand(u)' \cap InHand(v)' = {}
    BY <1>2, <1>7 DEF IndInv, ClaimsAreUnique
  <2> QED BY <2>1, <2>2
<1> QED BY <1>6, <1>8

\* The inductive invariant is preserved by every action: hands shrink, or Claim fills one with new claims.
LEMMA IndInvNext == IndInv /\ [Next]_vars => IndInv'
<1> SUFFICES ASSUME IndInv, [Next]_vars PROVE IndInv'
  OBVIOUS
<1>0. TypeOK /\ TypeOK'
  BY TypeNext DEF IndInv
<1>1. ASSUME NEW e \in Events, Enqueue(e) PROVE IndInv'
  <2>1. HeldWasClaimed' /\ ClaimsAreUnique'
    BY <1>0, <1>1, HandsShrink DEF IndInv, Enqueue, InHand, ClaimsAreUnique
  <2>2. OkIsBacked' /\ DeliveredWasHandled' /\ DeadLetterIsExhausted'
    BY <1>0, <1>1 DEF IndInv, Enqueue, OkIsBacked, DeliveredWasHandled, DeadLetterIsExhausted, TypeOK
  <2> QED BY <1>0, <2>1, <2>2 DEF IndInv
<1>2. ASSUME NEW w \in Workers, Claim(w) PROVE IndInv'
  <2>1. HeldWasClaimed' /\ ClaimsAreUnique'
    BY <1>0, <1>2, ClaimKeepsHands
  <2>2. OkIsBacked'
    BY <1>0, <1>2 DEF IndInv, Claim, OkIsBacked
  <2>3. PICK S \in SUBSET Ready :
          /\ status' = [e \in Events |-> IF e \in S THEN "PROCESSING" ELSE status[e]]
          /\ attempts' = [e \in Events |-> IF e \in S THEN attempts[e] + 1 ELSE attempts[e]]
    <3>1. PICK skipped \in SUBSET (Ready \cap Locked(w)) :
            LET claimed == Oldest(Ready \ skipped) IN
            /\ status' = [e \in Events |-> IF e \in claimed THEN "PROCESSING" ELSE status[e]]
            /\ attempts' = [e \in Events |-> IF e \in claimed THEN attempts[e] + 1 ELSE attempts[e]]
      BY <1>2 DEF Claim
    <3> QED BY <3>1, OldestIsSubset
  <2>4. DeliveredWasHandled' /\ DeadLetterIsExhausted'
    BY <1>0, <1>2, <2>3 DEF IndInv, Claim, DeliveredWasHandled, DeadLetterIsExhausted, TypeOK
  <2> QED BY <1>0, <2>1, <2>2, <2>4 DEF IndInv
<1>3. ASSUME NEW w \in Workers, TakeUp(w) PROVE IndInv'
  <2>1. PICK c \in batch[w] : /\ current' = [current EXCEPT ![w] = c]
                              /\ batch' = [batch EXCEPT ![w] = @ \ {c}]
    BY <1>3 DEF TakeUp
  <2>2. \A v \in Workers : InHand(v)' \subseteq InHand(v) /\ current'[v] \notin batch'[v]
    BY <1>0, <1>3, <2>1, NoClaimIsNone DEF TypeOK, InHand, IndInv, ClaimsAreUnique
  <2>3. HeldWasClaimed' /\ ClaimsAreUnique'
    BY <1>0, <1>3, <2>2, HandsShrink DEF IndInv, TakeUp
  <2>4. OkIsBacked'
    BY <1>0, <1>3, <2>1 DEF IndInv, TakeUp, OkIsBacked, TypeOK
  <2>5. DeliveredWasHandled' /\ DeadLetterIsExhausted'
    BY <1>3 DEF IndInv, TakeUp, DeliveredWasHandled, DeadLetterIsExhausted
  <2> QED BY <1>0, <2>3, <2>4, <2>5 DEF IndInv
<1>4. ASSUME NEW w \in Workers, NEW nil \in BOOLEAN, HandlerReturns(w, nil) PROVE IndInv'
  <2>1. HeldWasClaimed' /\ ClaimsAreUnique'
    BY <1>0, <1>4, HandsShrink DEF IndInv, HandlerReturns, InHand, ClaimsAreUnique
  <2>2. current[w].event \in Events /\ \A e \in Events : handled[e] => handled'[e]
    BY <1>0, <1>4 DEF HandlerReturns, TypeOK, Claims, Step
  <2>3. OkIsBacked'
    BY <1>0, <1>4, <2>2 DEF IndInv, HandlerReturns, OkIsBacked, TypeOK, Claims, Step
  <2>4. DeliveredWasHandled' /\ DeadLetterIsExhausted'
    BY <1>4, <2>2 DEF IndInv, HandlerReturns, DeliveredWasHandled, DeadLetterIsExhausted
  <2> QED BY <1>0, <2>1, <2>3, <2>4 DEF IndInv
<1>5. ASSUME NEW w \in Workers, Settle(w) PROVE IndInv'
  <2> DEFINE e == current[w].event
  <2>1. e \in Events
    BY <1>0, <1>5 DEF Settle, TypeOK, Claims
  <2>2. attempts' = attempts
    BY <1>5 DEF Settle, MarkDelivered, MarkFailed, FailTo, table
  <2>3. HeldWasClaimed' /\ ClaimsAreUnique'
    BY <1>5, <2>2, HandDropped DEF Settle
  <2>4. OkIsBacked'
    BY <1>0, <1>5 DEF IndInv, Settle, OkIsBacked, TypeOK
  <2>5. ok[w] => handled[e]
    BY DEF IndInv, OkIsBacked
  <2>6. DeliveredWasHandled' /\ DeadLetterIsExhausted'
    <3> USE <2>1, <2>2, <2>5 DEF IndInv, DeliveredWasHandled, DeadLetterIsExhausted, TypeOK
    <3>0. handled' = handled
      BY <1>5 DEF Settle
    <3>1. CASE ok[w] /\ MarkDelivered(e)
      BY <3>0, <3>1 DEF MarkDelivered
    <3>2. CASE FailTo(e, MaxAttempts, retryDelay(current[w].attempt))
      BY <3>0, <3>2 DEF FailTo
    <3>3. CASE UNCHANGED table
      BY <3>0, <3>3 DEF table
    <3> QED BY <1>5, <3>1, <3>2, <3>3 DEF Settle, MarkFailed
  <2> QED BY <1>0, <2>3, <2>4, <2>6 DEF IndInv
<1>6. ASSUME NEW w \in Workers, SettleFails(w) PROVE IndInv'
  <2>1. HeldWasClaimed' /\ ClaimsAreUnique'
    BY <1>6, HandDropped DEF SettleFails
  <2>2. OkIsBacked' /\ DeliveredWasHandled' /\ DeadLetterIsExhausted'
    BY <1>0, <1>6 DEF IndInv, SettleFails, OkIsBacked, DeliveredWasHandled, DeadLetterIsExhausted, TypeOK
  <2> QED BY <1>0, <2>1, <2>2 DEF IndInv
<1>7. ASSUME NEW w \in Workers, Crash(w) PROVE IndInv'
  <2>1. HeldWasClaimed' /\ ClaimsAreUnique'
    BY <1>7, HandDropped DEF Crash
  <2>2. OkIsBacked' /\ DeliveredWasHandled' /\ DeadLetterIsExhausted'
    BY <1>0, <1>7 DEF IndInv, Crash, OkIsBacked, DeliveredWasHandled, DeadLetterIsExhausted, TypeOK
  <2> QED BY <1>0, <2>1, <2>2 DEF IndInv
<1>8. CASE Tick \/ UNCHANGED vars
  <2>1. HeldWasClaimed' /\ ClaimsAreUnique'
    BY <1>0, <1>8, HandsShrink DEF IndInv, Tick, vars, InHand, ClaimsAreUnique
  <2>2. OkIsBacked' /\ DeliveredWasHandled' /\ DeadLetterIsExhausted'
    BY <1>8 DEF IndInv, Tick, vars, OkIsBacked, DeliveredWasHandled, DeadLetterIsExhausted
  <2> QED BY <1>0, <2>1, <2>2 DEF IndInv
<1> QED BY <1>1, <1>2, <1>3, <1>4, <1>5, <1>6, <1>7, <1>8 DEF Next

\* The inductive invariant holds in every reachable state.
LEMMA Invariance == Safe => []IndInv
BY IndInvInit, IndInvNext, PTL DEF Safe

\* No event is DELIVERED unless a handler call for it returned nil, and none is
\* dead-lettered before its attempts are used up.
THEOREM SettledHasCause == Safe => []SettledForCause
<1>1. IndInv => SettledForCause
  BY DEF IndInv, SettledForCause
<1> QED BY Invariance, <1>1, PTL

\* No two hands hold the same claim.
THEOREM ClaimsUnique == Safe => []ClaimsAreUnique
<1>1. IndInv => ClaimsAreUnique
  BY DEF IndInv
<1> QED BY Invariance, <1>1, PTL

-----------------------------------------------------------------------------

\* DELIVERED and DEAD_LETTER are never left.
THEOREM SettledStays == Safe => SettledIsFinal
<1>1. TypeOK /\ [Next]_vars => [\A e \in Events : status[e] \in Final => status'[e] = status[e]]_vars
  <2> SUFFICES ASSUME TypeOK, Next, NEW e \in Events, status[e] \in Final
               PROVE  status'[e] = status[e]
    BY DEF vars
  <2> USE DEF TypeOK, Final
  <2>1. ASSUME NEW d \in Events, Enqueue(d) PROVE status'[e] = status[e]
    BY <2>1 DEF Enqueue
  <2>2. ASSUME NEW w \in Workers, Claim(w) PROVE status'[e] = status[e]
    <3>1. PICK skipped \in SUBSET (Ready \cap Locked(w)) :
            status' = [d \in Events |-> IF d \in Oldest(Ready \ skipped) THEN "PROCESSING" ELSE status[d]]
      BY <2>2 DEF Claim
    <3>2. e \notin Oldest(Ready \ skipped)
      BY OldestIsSubset DEF Ready
    <3> QED BY <3>1, <3>2
  <2>3. ASSUME NEW w \in Workers, Settle(w) PROVE status'[e] = status[e]
    BY <2>3 DEF Settle, MarkDelivered, MarkFailed, FailTo, table
  <2>4. CASE UNCHANGED status
    BY <2>4
  <2> QED BY <2>1, <2>2, <2>3, <2>4 DEF Next, TakeUp, HandlerReturns, SettleFails, Crash, Tick
<1> QED BY <1>1, TypeCorrect, PTL DEF Safe, SettledIsFinal

-----------------------------------------------------------------------------

\* The workers that hold a claim of e.
Holders(e) == {w \in Workers : \E c \in InHand(w) : c.event = e}

\* An event that waits has an attempt left; of one in process, every attempt from the
\* maximum on is in the hand of a worker or lost to a fault.
AttemptsInv ==
  \A e \in Events :
    /\ status[e] \in {"ABSENT", "PENDING", "FAILED"} => attempts[e] <= MaxAttempts - 1
    /\ status[e] = "PROCESSING" => attempts[e] <= MaxAttempts - 1 + faults + Cardinality(Holders(e))
    /\ attempts[e] <= MaxAttempts - 1 + faults + Cardinality(Workers)

\* The counts that the bound is about are natural numbers.
LEMMA HoldersAreCounted ==
  ASSUME IsFiniteSet(Workers), NEW e
  PROVE  /\ IsFiniteSet(Holders(e)) /\ Cardinality(Holders(e)) \in Nat
         /\ Cardinality(Workers) \in Nat /\ Cardinality(Holders(e)) <= Cardinality(Workers)
<1>1. Holders(e) \in SUBSET Workers
  BY DEF Holders
<1>2. IsFiniteSet(Holders(e)) /\ Cardinality(Holders(e)) <= Cardinality(Workers)
  BY <1>1, FS_Subset
<1> QED BY <1>2, FS_CardinalityType

\* They are so after a step, too.
LEMMA HoldersAreCountedNext ==
  ASSUME IsFiniteSet(Workers), NEW e
  PROVE  /\ IsFiniteSet(Holders(e)') /\ Cardinality(Holders(e)') \in Nat
         /\ Cardinality(Holders(e)') <= Cardinality(Workers)
<1>1. Holders(e)' \in SUBSET Workers
  BY DEF Holders
<1>2. IsFiniteSet(Holders(e)') /\ Cardinality(Holders(e)') <= Cardinality(Workers)
  BY <1>1, FS_Subset
<1> QED BY <1>2, FS_CardinalityType

\* A step that leaves the counts and the hands alone keeps the bound of an event that
\* stays as it is or is given up, and of one that fails with an attempt left.
LEMMA BoundStays ==
  ASSUME TypeOK, IsFiniteSet(Workers), AttemptsInv, UNCHANGED <<attempts, faults>>, NEW e \in Events,
         \/ status'[e] = status[e] /\ Holders(e) \subseteq Holders(e)'
         \/ status[e] = "ABSENT" /\ status'[e] = "PENDING"
         \/ status'[e] = "FAILED" /\ attempts[e] < MaxAttempts
         \/ status'[e] \in Final
  PROVE  /\ status'[e] \in {"ABSENT", "PENDING", "FAILED"} => attempts'[e] <= MaxAttempts - 1
         /\ status'[e] = "PROCESSING" => attempts'[e] <= MaxAttempts - 1 + faults' + Cardinality(Holders(e)')
         /\ attempts'[e] <= MaxAttempts - 1 + faults' + Cardinality(Workers)
<1> DEFINE H == Cardinality(Holders(e))
           G == Cardinality(Holders(e)')
           W == Cardinality(Workers)
<1>1. H \in Nat /\ G \in Nat /\ W \in Nat /\ IsFiniteSet(Holders(e)')
  BY HoldersAreCounted, HoldersAreCountedNext
<1>2. Holders(e) \subseteq Holders(e)' => H <= G
  BY <1>1, FS_Subset
<1>3. attempts[e] \in Nat /\ faults \in Nat
  BY DEF TypeOK
<1>4. /\ status[e] \in {"ABSENT", "PENDING", "FAILED"} => attempts[e] <= MaxAttempts - 1
      /\ status[e] = "PROCESSING" => attempts[e] <= MaxAttempts - 1 + faults + H
      /\ attempts[e] <= MaxAttempts - 1 + faults + W
  BY DEF AttemptsInv
<1> HIDE DEF H, G, W
<1>5. /\ status'[e] \in {"ABSENT", "PENDING", "FAILED"} => attempts[e] <= MaxAttempts - 1
      /\ status'[e] = "PROCESSING" => attempts[e] <= MaxAttempts - 1 + faults + G
  <2>1. CASE status'[e] = status[e] /\ Holders(e) \subseteq Holders(e)'
    BY <1>1, <1>2, <1>3, <1>4, <2>1
  <2>2. CASE status[e] = "ABSENT" /\ status'[e] = "PENDING"
    BY <1>4, <2>2
  <2>3. CASE status'[e] = "FAILED" /\ attempts[e] < MaxAttempts
    BY <1>3, <2>3
  <2>4. CASE status'[e] \in Final
    BY <2>4 DEF Final
  <2> QED BY <2>1, <2>2, <2>3, <2>4
<1> QED BY <1>4, <1>5 DEF G, W

\* A fault takes a claim of an event from one worker at most.
LEMMA BoundPaysFaults ==
  ASSUME TypeOK, IsFiniteSet(Workers), AttemptsInv, UNCHANGED <<status, attempts>>, faults' = faults + 1,
         NEW w \in Workers, NEW e \in Events, Holders(e) \subseteq Holders(e)' \cup {w}
  PROVE  /\ status'[e] \in {"ABSENT", "PENDING", "FAILED"} => attempts'[e] <= MaxAttempts - 1
         /\ status'[e] = "PROCESSING" => attempts'[e] <= MaxAttempts - 1 + faults' + Cardinality(Holders(e)')
         /\ attempts'[e] <= MaxAttempts - 1 + faults' + Cardinality(Workers)
<1> DEFINE H == Cardinality(Holders(e))
           G == Cardinality(Holders(e)')
           W == Cardinality(Workers)
<1>1. H \in Nat /\ G \in Nat /\ W \in Nat /\ IsFiniteSet(Holders(e)')
  BY HoldersAreCounted, HoldersAreCountedNext
<1>2. H <= G + 1
  <2>1. /\ IsFiniteSet(Holders(e)' \cup {w})
        /\ Cardinality(Holders(e)' \cup {w}) = IF w \in Holders(e)' THEN G ELSE G + 1
    BY <1>1, FS_AddElement
  <2>2. H <= Cardinality(Holders(e)' \cup {w})
    BY <2>1, FS_Subset
  <2> QED BY <1>1, <2>1, <2>2
<1>3. attempts[e] \in Nat /\ faults \in Nat
  BY DEF TypeOK
<1>4. /\ status[e] \in {"ABSENT", "PENDING", "FAILED"} => attempts[e] <= MaxAttempts - 1
      /\ status[e] = "PROCESSING" => attempts[e] <= MaxAttempts - 1 + faults + H
      /\ attempts[e] <= MaxAttempts - 1 + faults + W
  BY DEF AttemptsInv
<1> HIDE DEF H, G, W
<1>5. MaxAttempts \in Nat
  OBVIOUS
<1>6. faults + H <= faults' + G /\ faults + W <= faults' + W
  BY <1>1, <1>2, <1>3
<1>7. faults' \in Nat
  BY <1>3
<1>8. \A n, f, h, g, m \in Nat : f <= g /\ n <= m - 1 + f + h => n <= m - 1 + g + h
  OBVIOUS
<1> QED BY <1>1, <1>2, <1>3, <1>4, <1>5 DEF G, W

\* A claim of an event that waits is an attempt it has left, and one of an event whose
\* lease has run out is a hand more.
LEMMA ClaimKeepsBound ==
  ASSUME IndInv, IsFiniteSet(Workers), AttemptsInv, NEW w \in Workers, Claim(w)
  PROVE  AttemptsInv'
<1> SUFFICES ASSUME NEW e \in Events
             PROVE  /\ status'[e] \in {"ABSENT", "PENDING", "FAILED"} => attempts'[e] <= MaxAttempts - 1
                    /\ status'[e] = "PROCESSING" => attempts'[e] <= MaxAttempts - 1 + faults' + Cardinality(Holders(e)')
                    /\ attempts'[e] <= MaxAttempts - 1 + faults' + Cardinality(Workers)
  BY DEF AttemptsInv
<1> DEFINE fresh(S) == {[event |-> d, attempt |-> attempts[d] + 1] : d \in S}
<1>0. TypeOK
  BY DEF IndInv
<1>1. PICK S \in SUBSET Ready :
        /\ status' = [d \in Events |-> IF d \in S THEN "PROCESSING" ELSE status[d]]
        /\ attempts' = [d \in Events |-> IF d \in S THEN attempts[d] + 1 ELSE attempts[d]]
        /\ batch' = [batch EXCEPT ![w] = fresh(S)]
  <2>1. PICK skipped \in SUBSET (Ready \cap Locked(w)) :
          LET claimed == Oldest(Ready \ skipped) IN
          /\ status' = [d \in Events |-> IF d \in claimed THEN "PROCESSING" ELSE status[d]]
          /\ attempts' = [d \in Events |-> IF d \in claimed THEN attempts[d] + 1 ELSE attempts[d]]
          /\ batch' = [batch EXCEPT ![w] = {[event |-> d, attempt |-> attempts[d] + 1] : d \in claimed}]
    BY DEF Claim
  <2>2. Oldest(Ready \ skipped) \in SUBSET Ready
    BY OldestIsSubset
  <2> QED BY <2>1, <2>2
<1>2. /\ InHand(w) = {} /\ InHand(w)' = fresh(S)
      /\ \A v \in Workers \ {w} : InHand(v)' = InHand(v)
      /\ faults' = faults
  BY <1>0, <1>1 DEF Claim, InHand, TypeOK
<1>3. Holders(e)' = IF e \in S THEN Holders(e) \cup {w} ELSE Holders(e)
  <2>1. (\E c \in fresh(S) : c.event = e) <=> e \in S
    <3>1. \A d : [event |-> d, attempt |-> attempts[d] + 1].event = d
      OBVIOUS
    <3>2. \A c : c \in fresh(S) <=> \E d \in S : c = [event |-> d, attempt |-> attempts[d] + 1]
      OBVIOUS
    <3> HIDE DEF fresh
    <3> QED BY <3>1, <3>2
  <2> HIDE DEF fresh
  <2> QED BY <1>2, <2>1 DEF Holders
<1>4. w \notin Holders(e)
  BY <1>2 DEF Holders
<1> DEFINE H == Cardinality(Holders(e))
           G == Cardinality(Holders(e)')
           W == Cardinality(Workers)
<1>5. H \in Nat /\ G \in Nat /\ W \in Nat /\ G <= W
  BY HoldersAreCounted, HoldersAreCountedNext
<1>6. attempts[e] \in Nat /\ faults \in Nat
  BY <1>0 DEF TypeOK
<1>7. /\ status[e] \in {"ABSENT", "PENDING", "FAILED"} => attempts[e] <= MaxAttempts - 1
      /\ status[e] = "PROCESSING" => attempts[e] <= MaxAttempts - 1 + faults + H
      /\ attempts[e] <= MaxAttempts - 1 + faults + W
  BY DEF AttemptsInv
<1>8. CASE e \in S
  <2>1. status'[e] = "PROCESSING" /\ attempts'[e] = attempts[e] + 1
    BY <1>1, <1>8
  <2>2. G = H + 1
    BY <1>3, <1>4, <1>8, HoldersAreCounted, FS_AddElement
  <2>3. status[e] \in {"PENDING", "FAILED", "PROCESSING"}
    BY <1>8 DEF Ready
  <2> HIDE DEF H, G, W
  <2>4. attempts[e] <= MaxAttempts - 1 + faults + H
    BY <1>5, <1>6, <1>7, <2>3
  <2>5. attempts'[e] <= MaxAttempts - 1 + faults + G
    BY <1>5, <1>6, <2>1, <2>2, <2>4
  <2>6. attempts'[e] <= MaxAttempts - 1 + faults + W
    BY <1>5, <1>6, <2>1, <2>5
  <2> QED BY <1>2, <2>1, <2>5, <2>6 DEF G, W
<1>9. CASE e \notin S
  <2>1. status'[e] = status[e] /\ attempts'[e] = attempts[e] /\ Holders(e)' = Holders(e)
    BY <1>1, <1>3, <1>9
  <2> QED BY <1>2, <1>7, <2>1
<1> QED BY <1>8, <1>9

\* The settling worker takes its event out of process, if it is.
LEMMA SettleKeepsBound ==
  ASSUME IndInv, IsFiniteSet(Workers), AttemptsInv, NEW w \in Workers, Settle(w)
  PROVE  AttemptsInv'
<1>0. TypeOK
  BY DEF IndInv
<1> DEFINE e == current[w].event
<1>1. e \in Events /\ current[w] # NoClaim
  BY <1>0 DEF Settle, TypeOK, Claims, Step
<1>2. UNCHANGED <<attempts, faults>>
  BY DEF Settle, MarkDelivered, MarkFailed, FailTo, table
<1>3. \A d \in Events \ {e} : status'[d] = status[d]
  <2>1. CASE MarkDelivered(e)
    BY <1>0, <2>1 DEF MarkDelivered, TypeOK
  <2>2. CASE FailTo(e, MaxAttempts, retryDelay(current[w].attempt))
    BY <1>0, <2>2 DEF FailTo, TypeOK
  <2>3. CASE UNCHANGED table
    BY <2>3 DEF table
  <2> QED BY <2>1, <2>2, <2>3 DEF Settle, MarkFailed
<1>4. \/ status'[e] = status[e] /\ status[e] # "PROCESSING"
      \/ status'[e] = "FAILED" /\ attempts[e] < MaxAttempts
      \/ status'[e] \in Final
  <2>0. attempts[e] \in Nat
    BY <1>0, <1>1 DEF TypeOK
  <2>1. CASE MarkDelivered(e)
    BY <1>0, <1>1, <2>1 DEF MarkDelivered, TypeOK, Final
  <2>2. CASE FailTo(e, MaxAttempts, retryDelay(current[w].attempt))
    BY <1>0, <1>1, <2>0, <2>2 DEF FailTo, TypeOK, Final
  <2>3. CASE status[e] # "PROCESSING" /\ UNCHANGED table
    BY <2>3 DEF table
  <2> QED BY <2>1, <2>2, <2>3 DEF Settle, MarkFailed
<1>5. \A d \in Events \ {e} : Holders(d) \subseteq Holders(d)'
  <2>1. batch' = batch /\ current' = [current EXCEPT ![w] = NoClaim]
    BY DEF Settle
  <2>2. \A v \in Workers : \A c \in InHand(v) : c.event # e => c \in InHand(v)'
    BY <1>0, <2>1 DEF InHand, TypeOK
  <2> QED BY <2>2 DEF Holders
<1> HIDE DEF e
<1> SUFFICES ASSUME NEW d \in Events
             PROVE  /\ status'[d] \in {"ABSENT", "PENDING", "FAILED"} => attempts'[d] <= MaxAttempts - 1
                    /\ status'[d] = "PROCESSING" => attempts'[d] <= MaxAttempts - 1 + faults' + Cardinality(Holders(d)')
                    /\ attempts'[d] <= MaxAttempts - 1 + faults' + Cardinality(Workers)
  BY DEF AttemptsInv
<1>6. CASE d # e
  BY <1>0, <1>2, <1>3, <1>5, <1>6, BoundStays
<1>7. CASE d = e /\ status'[e] # status[e]
  BY <1>0, <1>1, <1>2, <1>4, <1>7, BoundStays
<1>8. CASE d = e /\ status'[e] = status[e] /\ status[e] # "PROCESSING"
  BY <1>1, <1>2, <1>8 DEF AttemptsInv
<1>9. CASE d = e /\ status'[e] = status[e] /\ status[e] = "PROCESSING"
  BY <1>4, <1>9 DEF Final
<1> QED BY <1>6, <1>7, <1>8, <1>9

\* The bound is inductive.
LEMMA AttemptsInvNext == IsFiniteSet(Workers) /\ IndInv /\ AttemptsInv /\ [Next]_vars => AttemptsInv'
<1> SUFFICES ASSUME IsFiniteSet(Workers), IndInv, AttemptsInv, [Next]_vars PROVE AttemptsInv'
  OBVIOUS
<1>0. TypeOK
  BY DEF IndInv
<1> DEFINE Bound(e) == /\ status[e] \in {"ABSENT", "PENDING", "FAILED"} => attempts[e] <= MaxAttempts - 1
                       /\ status[e] = "PROCESSING" => attempts[e] <= MaxAttempts - 1 + faults + Cardinality(Holders(e))
                       /\ attempts[e] <= MaxAttempts - 1 + faults + Cardinality(Workers)
<1>1. ASSUME UNCHANGED <<attempts, faults>>,
             \A e \in Events : status'[e] = status[e] \/ (status[e] = "ABSENT" /\ status'[e] = "PENDING"),
             \A v \in Workers : InHand(v) \subseteq InHand(v)'
      PROVE  AttemptsInv'
  <2> SUFFICES ASSUME NEW e \in Events PROVE Bound(e)'
    BY DEF AttemptsInv
  <2>1. Holders(e) \subseteq Holders(e)'
    BY <1>1 DEF Holders
  <2> QED BY <1>0, <1>1, <2>1, BoundStays
<1>2. ASSUME NEW w \in Workers, UNCHANGED <<status, attempts>>, faults' = faults + 1,
             \A v \in Workers \ {w} : InHand(v) \subseteq InHand(v)'
      PROVE  AttemptsInv'
  <2> SUFFICES ASSUME NEW e \in Events PROVE Bound(e)'
    BY DEF AttemptsInv
  <2>1. Holders(e) \subseteq Holders(e)' \cup {w}
    BY <1>2 DEF Holders
  <2> QED BY <1>0, <1>2, <2>1, BoundPaysFaults
<1> HIDE DEF Bound
<1>3. ASSUME NEW e \in Events, Enqueue(e) PROVE AttemptsInv'
  <2>1. \A d \in Events : status'[d] = status[d] \/ (status[d] = "ABSENT" /\ status'[d] = "PENDING")
    BY <1>0, <1>3 DEF Enqueue, TypeOK
  <2> QED BY <1>1, <1>3, <2>1 DEF Enqueue, InHand
<1>4. ASSUME NEW w \in Workers, TakeUp(w) PROVE AttemptsInv'
  <2>1. PICK c \in batch[w] : /\ current' = [current EXCEPT ![w] = c]
                              /\ batch' = [batch EXCEPT ![w] = @ \ {c}]
    BY <1>4 DEF TakeUp
  <2>2. c # NoClaim /\ current[w] = NoClaim
    BY <1>0, <1>4, NoClaimIsNone DEF TypeOK, TakeUp
  <2>3. \A v \in Workers : InHand(v) \subseteq InHand(v)'
    BY <1>0, <2>1, <2>2 DEF TypeOK, InHand
  <2> QED BY <1>1, <1>4, <2>3 DEF TakeUp
<1>5. ASSUME NEW w \in Workers, NEW nil \in BOOLEAN, HandlerReturns(w, nil) PROVE AttemptsInv'
  BY <1>1, <1>5 DEF HandlerReturns, InHand
<1>6. ASSUME NEW w \in Workers, SettleFails(w) \/ Crash(w) PROVE AttemptsInv'
  <2>1. \A v \in Workers \ {w} : batch'[v] = batch[v] /\ current'[v] = current[v]
    BY <1>0, <1>6 DEF SettleFails, Crash, TypeOK
  <2> QED BY <1>2, <1>6, <2>1 DEF SettleFails, Crash, InHand
<1>7. CASE Tick \/ UNCHANGED vars
  BY <1>1, <1>7 DEF Tick, vars, InHand
<1> QED BY <1>3, <1>4, <1>5, <1>6, <1>7, ClaimKeepsBound, SettleKeepsBound DEF Next

\* Lost claims and overtaken workers included, an event is claimed at most as often as
\* its attempts allow, once more for every fault and for every other worker.
THEOREM AttemptsStayBounded == IsFiniteSet(Workers) => (Safe => []AttemptsAreBounded)
<1> SUFFICES ASSUME IsFiniteSet(Workers) PROVE Safe => []AttemptsAreBounded
  OBVIOUS
<1>0. Cardinality(Workers) \in Nat
  BY FS_CardinalityType
<1>1. Init => AttemptsInv
  <2> SUFFICES ASSUME Init, NEW e \in Events
               PROVE  /\ status[e] \notin {"PROCESSING"} /\ attempts[e] <= MaxAttempts - 1
                      /\ attempts[e] <= MaxAttempts - 1 + faults + Cardinality(Workers)
    BY DEF AttemptsInv
  <2>1. status[e] = "ABSENT" /\ attempts[e] = 0 /\ faults = 0
    BY DEF Init
  <2> QED BY <1>0, <2>1
<1>2. IndInv /\ AttemptsInv => AttemptsAreBounded
  <2> SUFFICES ASSUME IndInv, AttemptsInv, NEW e \in Events
               PROVE  attempts[e] <= MaxAttempts + faults + Cardinality(Workers) - 1
    BY DEF AttemptsAreBounded
  <2>1. attempts[e] \in Nat /\ faults \in Nat
    BY DEF IndInv, TypeOK
  <2>2. attempts[e] <= MaxAttempts - 1 + faults + Cardinality(Workers)
    BY DEF AttemptsInv
  <2> QED BY <1>0, <2>1, <2>2
<1>3. IndInv /\ AttemptsInv /\ [Next]_vars => AttemptsInv'
  BY AttemptsInvNext
<1> QED BY <1>1, <1>2, <1>3, Invariance, PTL DEF Safe

-----------------------------------------------------------------------------

\* The abstract job of an event, read off its row.
LEMMA JobOf ==
  ASSUME NEW e \in Events, TypeOK
  PROVE  /\ status[e] = "ABSENT" <=> AbstractJob[e] = "absent"
         /\ status[e] = "DELIVERED" <=> AbstractJob[e] = "delivered"
         /\ status[e] = "DEAD_LETTER" <=> AbstractJob[e] = "abandoned"
         /\ status[e] \in {"PENDING", "PROCESSING", "FAILED"} <=> AbstractJob[e] = "open"
BY DEF AbstractJob, TypeOK, Status, Final

\* Every step of the outbox is a step of at-least-once delivery or a stutter.
LEMMA StepRefines == IndInv /\ TypeOK' /\ [Next]_vars => [ALO!Next]_ALO!vars
<1> SUFFICES ASSUME IndInv, TypeOK', [Next]_vars PROVE [ALO!Next]_ALO!vars
  OBVIOUS
<1>0. TypeOK
  BY DEF IndInv
<1> USE DEF ALO!Next, ALO!vars
<1>s. ASSUME UNCHANGED <<status, attempts, handled>> PROVE UNCHANGED ALO!vars
  BY <1>s DEF AbstractJob
<1>1. ASSUME NEW e \in Events, Enqueue(e) PROVE [ALO!Next]_ALO!vars
  <2>1. ALO!Submit(e)
    BY <1>0, <1>1 DEF Enqueue, ALO!Submit, AbstractJob, TypeOK
  <2> QED BY <2>1
<1>2. ASSUME NEW w \in Workers, Claim(w) PROVE [ALO!Next]_ALO!vars
  <2>1. PICK skipped \in SUBSET (Ready \cap Locked(w)) :
          LET claimed == Oldest(Ready \ skipped) IN
          /\ status' = [e \in Events |-> IF e \in claimed THEN "PROCESSING" ELSE status[e]]
          /\ attempts' = [e \in Events |-> IF e \in claimed THEN attempts[e] + 1 ELSE attempts[e]]
    BY <1>2 DEF Claim
  <2> DEFINE claimed == Oldest(Ready \ skipped)
  <2>2. claimed \subseteq Ready
    BY OldestIsSubset
  <2> HIDE DEF claimed
  <2>3. claimed \in SUBSET Events
    BY <2>2 DEF Ready
  <2>4. \A e \in claimed : status[e] \in {"PENDING", "PROCESSING", "FAILED"}
    BY <2>2 DEF Ready
  <2>5. status' = [e \in Events |-> IF e \in claimed THEN "PROCESSING" ELSE status[e]]
    BY <2>1 DEF claimed
  <2>6. \A e \in claimed : AbstractJob[e] = "open"
    BY <1>0, <2>3, <2>4, JobOf
  <2>7. \A e \in Events : AbstractJob'[e] = AbstractJob[e]
    BY <2>3, <2>4, <2>5 DEF AbstractJob
  <2>8. AbstractJob' = AbstractJob
    BY <2>7 DEF AbstractJob
  <2>9. ALO!Try(claimed)
    BY <1>2, <2>1, <2>6, <2>8 DEF ALO!Try, Claim, claimed
  <2> QED BY <2>3, <2>9
<1>3. ASSUME NEW w \in Workers, NEW nil \in BOOLEAN, HandlerReturns(w, nil) PROVE [ALO!Next]_ALO!vars
  <2> DEFINE e == current[w].event
  <2>1. e \in Events /\ current[w] \in InHand(w) /\ current[w].attempt \in Nat
    BY <1>0, <1>3, NoClaimIsNone DEF HandlerReturns, TypeOK, Claims, InHand, Step
  <2>2. attempts[e] > 0 /\ attempts[e] \in Nat
    <3>1. 1 <= current[w].attempt /\ current[w].attempt <= attempts[e]
      BY <2>1 DEF IndInv, HeldWasClaimed
    <3>2. attempts[e] \in Nat
      BY <1>0, <2>1 DEF TypeOK
    <3> QED BY <2>1, <3>1, <3>2
  <2>3. AbstractJob' = AbstractJob
    BY <1>3 DEF HandlerReturns, AbstractJob
  <2>4. CASE nil
    <3>1. ALO!Perform(e)
      BY <1>0, <1>3, <2>1, <2>2, <2>3, <2>4 DEF HandlerReturns, ALO!Perform, TypeOK
    <3> QED BY <2>1, <3>1
  <2>5. CASE ~ nil
    <3>1. handled' = handled
      BY <1>0, <1>3, <2>1, <2>5 DEF HandlerReturns, TypeOK
    <3> QED BY <1>3, <2>3, <3>1 DEF HandlerReturns
  <2> QED BY <2>4, <2>5
<1>4. ASSUME NEW w \in Workers, Settle(w) PROVE [ALO!Next]_ALO!vars
  <2> DEFINE e == current[w].event
  <2>1. e \in Events
    BY <1>0, <1>4 DEF Settle, TypeOK, Claims
  <2>2. handled' = handled /\ attempts' = attempts
    BY <1>4 DEF Settle, MarkDelivered, MarkFailed, FailTo, table
  <2>3. CASE status' = status
    BY <1>s, <2>2, <2>3
  <2>4. CASE status[e] = "PROCESSING" /\ ok[w] /\ status' = [status EXCEPT ![e] = "DELIVERED"]
    <3>1. handled[e]
      BY <2>4 DEF IndInv, OkIsBacked
    <3>2. AbstractJob[e] = "open" /\ AbstractJob' = [AbstractJob EXCEPT ![e] = "delivered"]
      BY <1>0, <2>1, <2>4 DEF AbstractJob, TypeOK
    <3>3. ALO!Deliver(e)
      BY <2>2, <3>1, <3>2 DEF ALO!Deliver
    <3> QED BY <2>1, <3>3
  <2>5. CASE /\ status[e] = "PROCESSING" /\ attempts[e] >= MaxAttempts
             /\ status' = [status EXCEPT ![e] = "DEAD_LETTER"]
    <3>1. AbstractJob[e] = "open" /\ AbstractJob' = [AbstractJob EXCEPT ![e] = "abandoned"]
      BY <1>0, <2>1, <2>5 DEF AbstractJob, TypeOK
    <3>2. ALO!Abandon(e)
      BY <2>2, <2>5, <3>1 DEF ALO!Abandon
    <3> QED BY <2>1, <3>2
  <2>6. CASE status[e] = "PROCESSING" /\ status' = [status EXCEPT ![e] = "FAILED"]
    <3>1. AbstractJob' = AbstractJob
      BY <1>0, <2>1, <2>6 DEF AbstractJob, TypeOK
    <3> QED BY <2>2, <3>1
  <2>7. \/ status' = status
        \/ status[e] = "PROCESSING" /\ ok[w] /\ status' = [status EXCEPT ![e] = "DELIVERED"]
        \/ status[e] = "PROCESSING" /\ attempts[e] >= MaxAttempts /\ status' = [status EXCEPT ![e] = "DEAD_LETTER"]
        \/ status[e] = "PROCESSING" /\ status' = [status EXCEPT ![e] = "FAILED"]
    <3> DEFINE later == retryDelay(current[w].attempt)
    <3>0. status = [status EXCEPT ![e] = status[e]]
      BY <1>0 DEF TypeOK
    <3>1. CASE ok[w] /\ MarkDelivered(e)
      BY <3>0, <3>1 DEF MarkDelivered
    <3>2. CASE status[e] = "PROCESSING" /\ FailTo(e, MaxAttempts, later)
      BY <3>2 DEF FailTo
    <3>3. CASE UNCHANGED table
      BY <3>3 DEF table
    <3> QED BY <1>4, <3>1, <3>2, <3>3 DEF Settle, MarkFailed
  <2> QED BY <2>3, <2>4, <2>5, <2>6, <2>7
<1>5. ASSUME NEW w \in Workers, TakeUp(w) \/ SettleFails(w) \/ Crash(w) PROVE [ALO!Next]_ALO!vars
  BY <1>s, <1>5 DEF TakeUp, SettleFails, Crash
<1>6. CASE Tick \/ UNCHANGED vars
  BY <1>s, <1>6 DEF Tick, vars
<1> QED BY <1>1, <1>2, <1>3, <1>4, <1>5, <1>6 DEF Next

\* The outbox with its leases and workers implements at-least-once delivery.
THEOREM ImplementsAtLeastOnce == Safe => AtLeastOnceSpec
<1>1. Init => ALO!Init
  BY DEF Init, ALO!Init, AbstractJob
<1>2. IndInv => TypeOK
  BY DEF IndInv
<1>3. IndInv' => TypeOK'
  BY DEF IndInv
<1> QED BY <1>1, <1>2, <1>3, Invariance, StepRefines, PTL DEF Safe, AtLeastOnceSpec, ALO!Spec

=============================================================================
