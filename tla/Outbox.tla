------------------------------- MODULE Outbox -------------------------------
(***************************************************************************)
(* The durable outbox: the table outbox_events, the repository statements  *)
(* that enqueue, claim and settle an event (internal/outbox/outbox.go),    *)
(* and the workers that process claimed batches (internal/outbox/worker.go,*)
(* cmd/worker/main.go).  Each statement is atomic in PostgreSQL; a worker  *)
(* is suspended between any two of them, may crash, and may be outlived by *)
(* its lease.                                                              *)
(*                                                                         *)
(* Time is kept as the ticks left until an event is available (wait) and   *)
(* until its lease runs out (lease), which is what the code compares       *)
(* available_at and locked_at with NOW() for; one tick is one second of    *)
(* retryDelay.                                                             *)
(***************************************************************************)
EXTENDS Integers, FiniteSets

CONSTANTS
  NumEvents,    \* how many events are ever enqueued (bound)
  Registered,   \* the events whose type has a handler
  Workers,      \* worker processes sharing the table
  MaxAttempts,  \* OUTBOX_MAX_ATTEMPTS
  LeaseFor,     \* OUTBOX_LEASE_DURATION, in ticks
  BatchSize,    \* OUTBOX_BATCH_SIZE
  MaxFaults     \* how many crashes and failed statements a behaviour has (bound)

\* Events are named by their rank in created_at.
Events == 1..NumEvents

ASSUME OutboxAssumption ==
  /\ NumEvents \in Nat
  /\ Registered \subseteq Events
  /\ MaxAttempts \in Nat \ {0}
  /\ LeaseFor \in Nat \ {0}
  /\ BatchSize \in Nat \ {0}
  /\ MaxFaults \in Nat

VARIABLES
  status,    \* [Events -> Status], "ABSENT" before the INSERT
  attempts,  \* [Events -> Nat]
  wait,      \* [Events -> Nat], ticks until available_at
  lease,     \* [Events -> Nat], ticks until locked_at + LeaseFor
  batch,     \* [Workers -> SUBSET Claims], claimed and not yet taken up
  step,      \* [Workers -> Step], where the worker's loop stands
  current,   \* [Workers -> Claims or NoClaim], the event in hand
  ok,        \* [Workers -> BOOLEAN], what the handler returned
  handled,   \* history: [Events -> BOOLEAN], a handler call returned nil
  faults     \* crashes and failed statements so far

table == <<status, attempts, wait, lease>>
vars == <<status, attempts, wait, lease, batch, step, current, ok, handled, faults>>

Final == {"DELIVERED", "DEAD_LETTER"}
Status == {"ABSENT", "PENDING", "PROCESSING", "FAILED"} \cup Final
Step == {"free", "handling", "settling"}

\* What ClaimPending returns of a row: the event and its new attempt count.
Claims == [event : Events, attempt : Nat]
NoClaim == [event |-> 0, attempt |-> 0]

Init ==
  /\ status = [e \in Events |-> "ABSENT"]
  /\ attempts = [e \in Events |-> 0]
  /\ wait = [e \in Events |-> 0]
  /\ lease = [e \in Events |-> 0]
  /\ batch = [w \in Workers |-> {}]
  /\ step = [w \in Workers |-> "free"]
  /\ current = [w \in Workers |-> NoClaim]
  /\ ok = [w \in Workers |-> FALSE]
  /\ handled = [e \in Events |-> FALSE]
  /\ faults = 0

-----------------------------------------------------------------------------

\* 1 << min(attempt - 1, 8) seconds, at most five minutes.
Backoff == <<1, 2, 4, 8, 16, 32, 64, 128, 256>>

retryDelay(attempt) ==
  LET delay == Backoff[IF attempt < 1 THEN 1 ELSE IF attempt > 9 THEN 9 ELSE attempt]
  IN  IF delay > 300 THEN 300 ELSE delay

\* The INSERT of Enqueue, or of CreateWithOutbox in the notification's transaction.
Enqueue(e) ==
  /\ status[e] = "ABSENT"
  /\ \A d \in Events : d < e => status[d] # "ABSENT"
  /\ status' = [status EXCEPT ![e] = "PENDING"]
  /\ UNCHANGED <<attempts, wait, lease, batch, step, current, ok, handled, faults>>

BugReadyIgnoresExpiredLeases ==
  {e \in Events : status[e] \in {"PENDING", "FAILED"} /\ wait[e] = 0}

Ready ==
  {e \in Events : \/ status[e] \in {"PENDING", "FAILED"} /\ wait[e] = 0
                  \/ status[e] = "PROCESSING" /\ lease[e] = 0}

\* Rows another worker's settling statement may hold locked at this moment.
Locked(w) ==
  {e \in Events : \E v \in Workers \ {w} : step[v] = "settling" /\ current[v].event = e}

\* ORDER BY created_at LIMIT BatchSize.
Oldest(rows) == {e \in rows : Cardinality({d \in rows : d < e}) < BatchSize}

BugClaimKeepsAttempts(w) ==
  /\ step[w] = "free"
  /\ batch[w] = {}
  /\ LET claimed == Oldest(Ready) IN
     /\ claimed # {}
     /\ status' = [e \in Events |-> IF e \in claimed THEN "PROCESSING" ELSE status[e]]
     /\ lease' = [e \in Events |-> IF e \in claimed THEN LeaseFor ELSE lease[e]]
     /\ batch' = [batch EXCEPT ![w] = {[event |-> e, attempt |-> attempts[e]] : e \in claimed}]
  /\ UNCHANGED <<attempts, wait, step, current, ok, handled, faults>>

Claim(w) ==
  /\ step[w] = "free"
  /\ batch[w] = {}
  /\ \E skipped \in SUBSET (Ready \cap Locked(w)) :
       LET claimed == Oldest(Ready \ skipped) IN
       /\ claimed # {}
       /\ status' = [e \in Events |-> IF e \in claimed THEN "PROCESSING" ELSE status[e]]
       /\ attempts' = [e \in Events |-> IF e \in claimed THEN attempts[e] + 1 ELSE attempts[e]]
       /\ lease' = [e \in Events |-> IF e \in claimed THEN LeaseFor ELSE lease[e]]
       /\ batch' = [batch EXCEPT ![w] = {[event |-> e, attempt |-> attempts[e] + 1] : e \in claimed}]
  /\ UNCHANGED <<wait, step, current, ok, handled, faults>>

\* processEvent looks the handler up; an event without one goes straight to MarkFailed.
TakeUp(w) ==
  /\ step[w] = "free"
  /\ \E c \in batch[w] :
       /\ current' = [current EXCEPT ![w] = c]
       /\ batch' = [batch EXCEPT ![w] = @ \ {c}]
       /\ step' = [step EXCEPT ![w] = IF c.event \in Registered THEN "handling" ELSE "settling"]
  /\ UNCHANGED <<status, attempts, wait, lease, ok, handled, faults>>

HandlerReturns(w, nil) ==
  /\ step[w] = "handling"
  /\ step' = [step EXCEPT ![w] = "settling"]
  /\ ok' = [ok EXCEPT ![w] = nil]
  /\ handled' = [handled EXCEPT ![current[w].event] = @ \/ nil]
  /\ UNCHANGED <<status, attempts, wait, lease, batch, current, faults>>

BugMarkDeliveredUnguarded(e) ==
  /\ status' = [status EXCEPT ![e] = "DELIVERED"]
  /\ lease' = [lease EXCEPT ![e] = 0]
  /\ UNCHANGED <<attempts, wait>>

BugMarkDeliveredOutsideCheck(e) ==
  /\ status' = [status EXCEPT ![e] = IF @ = "PROCESSING" THEN "PROCESSED" ELSE @]
  /\ lease' = [lease EXCEPT ![e] = 0]
  /\ UNCHANGED <<attempts, wait>>

\* UPDATE ... WHERE id=$1 AND status='PROCESSING': no row when another worker settled it.
MarkDelivered(e) ==
  /\ status' = [status EXCEPT ![e] = IF @ = "PROCESSING" THEN "DELIVERED" ELSE @]
  /\ lease' = [lease EXCEPT ![e] = IF status[e] = "PROCESSING" THEN 0 ELSE @]
  /\ UNCHANGED <<attempts, wait>>

FailTo(e, limit, retryAfter) ==
  /\ status' = [status EXCEPT ![e] = IF attempts[e] >= limit THEN "DEAD_LETTER" ELSE "FAILED"]
  /\ wait' = [wait EXCEPT ![e] = IF attempts[e] >= limit THEN @ ELSE retryAfter]
  /\ lease' = [lease EXCEPT ![e] = 0]
  /\ UNCHANGED attempts

BugMarkFailedEarly(e, retryAfter) ==
  IF status[e] = "PROCESSING" THEN FailTo(e, MaxAttempts - 1, retryAfter) ELSE UNCHANGED table

BugMarkFailedLate(e, retryAfter) ==
  IF status[e] = "PROCESSING" THEN FailTo(e, MaxAttempts + 1, retryAfter) ELSE UNCHANGED table

MarkFailed(e, retryAfter) ==
  IF status[e] = "PROCESSING" THEN FailTo(e, MaxAttempts, retryAfter) ELSE UNCHANGED table

Settle(w) ==
  /\ step[w] = "settling"
  /\ IF ok[w] THEN MarkDelivered(current[w].event)
              ELSE MarkFailed(current[w].event, retryDelay(current[w].attempt))
  /\ step' = [step EXCEPT ![w] = "free"]
  /\ current' = [current EXCEPT ![w] = NoClaim]
  /\ ok' = [ok EXCEPT ![w] = FALSE]
  /\ UNCHANGED <<batch, handled, faults>>

\* The settling statement fails; ProcessOnce logs it and goes on with the batch.
SettleFails(w) ==
  /\ step[w] = "settling"
  /\ faults < MaxFaults
  /\ faults' = faults + 1
  /\ step' = [step EXCEPT ![w] = "free"]
  /\ current' = [current EXCEPT ![w] = NoClaim]
  /\ ok' = [ok EXCEPT ![w] = FALSE]
  /\ UNCHANGED <<status, attempts, wait, lease, batch, handled>>

\* The process dies, or SIGTERM cancels the context every statement runs
\* under; the supervisor starts it again with nothing in hand.
Crash(w) ==
  /\ step[w] # "free" \/ batch[w] # {}
  /\ faults < MaxFaults
  /\ faults' = faults + 1
  /\ step' = [step EXCEPT ![w] = "free"]
  /\ batch' = [batch EXCEPT ![w] = {}]
  /\ current' = [current EXCEPT ![w] = NoClaim]
  /\ ok' = [ok EXCEPT ![w] = FALSE]
  /\ UNCHANGED <<status, attempts, wait, lease, handled>>

Minus1(n) == IF n > 0 THEN n - 1 ELSE 0

Tick ==
  /\ \E e \in Events : wait[e] > 0 \/ lease[e] > 0
  /\ wait' = [e \in Events |-> Minus1(wait[e])]
  /\ lease' = [e \in Events |-> Minus1(lease[e])]
  /\ UNCHANGED <<status, attempts, batch, step, current, ok, handled, faults>>

Next ==
  \/ \E e \in Events : Enqueue(e)
  \/ \E w \in Workers : \/ Claim(w)
                        \/ TakeUp(w)
                        \/ \E nil \in BOOLEAN : HandlerReturns(w, nil)
                        \/ Settle(w)
                        \/ SettleFails(w)
                        \/ Crash(w)
  \/ Tick

\* systemd restarts a worker, Run polls for ever, and the clock advances.  A handler
\* need not return: the HTTP client and the dials of comms/adapter.go have no timeout,
\* and the context of cmd/worker has no deadline.
Fairness ==
  /\ WF_vars(Tick)
  /\ \A w \in Workers : WF_vars(Claim(w)) /\ WF_vars(TakeUp(w)) /\ WF_vars(Settle(w))

Safe == Init /\ [][Next]_vars
Spec == Safe /\ Fairness

-----------------------------------------------------------------------------

\* Shape of the state.
TypeOK ==
  /\ status \in [Events -> Status]
  /\ attempts \in [Events -> Nat]
  /\ wait \in [Events -> Nat]
  /\ lease \in [Events -> 0..LeaseFor]
  /\ batch \in [Workers -> SUBSET Claims]
  /\ step \in [Workers -> Step]
  /\ current \in [Workers -> Claims \cup {NoClaim}]
  /\ \A w \in Workers : step[w] = "free" <=> current[w] = NoClaim
  /\ ok \in [Workers -> BOOLEAN]
  /\ handled \in [Events -> BOOLEAN]
  /\ faults \in 0..MaxFaults

\* An event is DELIVERED only if some handler call for it returned nil, however
\* leases expire and workers overtake each other between handler and MarkDelivered.
DeliveredWasHandled == \A e \in Events : status[e] = "DELIVERED" => handled[e]

\* No event is given up before its configured attempts are used: a dead letter
\* was claimed at least MaxAttempts times, whoever marked it failed.
DeadLetterIsExhausted ==
  \A e \in Events : status[e] = "DEAD_LETTER" => attempts[e] >= MaxAttempts

\* Nothing is settled without its cause, whoever settles it and however late.
SettledForCause == DeliveredWasHandled /\ DeadLetterIsExhausted

InHand(w) == batch[w] \cup ({current[w]} \ {NoClaim})

\* The attempt number a claim returned identifies it: no two workers, and no
\* batch and event in hand, ever hold the same (event, attempt).
ClaimsAreUnique ==
  \A w \in Workers :
    /\ current[w] \notin batch[w]
    /\ \A v \in Workers \ {w} : InHand(w) \cap InHand(v) = {}

\* A crash costs at most one attempt over the maximum, and so does a worker
\* outlived by its lease; nothing else lets an event be claimed again.
AttemptsAreBounded ==
  \A e \in Events : attempts[e] <= MaxAttempts + faults + Cardinality(Workers) - 1

\* DELIVERED and DEAD_LETTER are final: a worker that settles late, after its
\* lease was taken over and the event settled by another, changes nothing.
SettledIsFinal ==
  [][\A e \in Events : status[e] \in Final => status'[e] = status[e]]_vars

\* Worker w is lost to a handler call that never returns.
HangsForever(w) == <>[](step[w] = "handling")

\* Unless every worker ends up in a call that hangs, every enqueued event is delivered
\* or dead-lettered, also when the worker that held it or its batch died or hangs:
\* the lease expires and the claim of another recovers it.
EventuallySettled ==
  \/ \A w \in Workers : HangsForever(w)
  \/ \A e \in Events : status[e] = "PENDING" ~> status[e] \in Final

AbstractJob ==
  [e \in Events |-> CASE status[e] = "ABSENT" -> "absent"
                      [] status[e] = "DELIVERED" -> "delivered"
                      [] status[e] = "DEAD_LETTER" -> "abandoned"
                      [] OTHER -> "open"]

ALO == INSTANCE AtLeastOnce WITH
  Jobs <- Events, tries <- attempts, performed <- handled, job <- AbstractJob

\* The outbox, its leases and its overtaken workers included, implements
\* at-least-once delivery: no step loses an event, settles it without cause or
\* reopens it.
AtLeastOnceSpec == ALO!Spec
=============================================================================
