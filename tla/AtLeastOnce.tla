---------------------------- MODULE AtLeastOnce ----------------------------
(***************************************************************************)
(* What the durable outbox promises the module that enqueues an event, in  *)
(* terms of the event alone: no lease, no worker, no clock.  A submitted   *)
(* job is tried one or more times; it is delivered only after its side     *)
(* effect was performed and given up only when its tries are used up, and  *)
(* either is final.  Outbox.tla is shown to implement it.                  *)
(***************************************************************************)
EXTENDS Naturals

CONSTANTS Jobs, MaxAttempts

VARIABLES
  job,        \* [Jobs -> JobState]
  tries,      \* [Jobs -> Nat], how often the job was handed to a worker
  performed   \* [Jobs -> BOOLEAN], whether the side effect ever completed

vars == <<job, tries, performed>>

JobState == {"absent", "open", "delivered", "abandoned"}

Init ==
  /\ job = [j \in Jobs |-> "absent"]
  /\ tries = [j \in Jobs |-> 0]
  /\ performed = [j \in Jobs |-> FALSE]

Submit(j) ==
  /\ job[j] = "absent"
  /\ job' = [job EXCEPT ![j] = "open"]
  /\ UNCHANGED <<tries, performed>>

\* One claim hands a batch of open jobs to a worker.
Try(batch) ==
  /\ \A j \in batch : job[j] = "open"
  /\ tries' = [j \in Jobs |-> IF j \in batch THEN tries[j] + 1 ELSE tries[j]]
  /\ UNCHANGED <<job, performed>>

\* A worker that was given the job may complete the side effect late, after
\* another worker has already settled the job.
Perform(j) ==
  /\ tries[j] > 0
  /\ performed' = [performed EXCEPT ![j] = TRUE]
  /\ UNCHANGED <<job, tries>>

Deliver(j) ==
  /\ job[j] = "open"
  /\ performed[j]
  /\ job' = [job EXCEPT ![j] = "delivered"]
  /\ UNCHANGED <<tries, performed>>

Abandon(j) ==
  /\ job[j] = "open"
  /\ tries[j] >= MaxAttempts
  /\ job' = [job EXCEPT ![j] = "abandoned"]
  /\ UNCHANGED <<tries, performed>>

Next ==
  \/ \E j \in Jobs : Submit(j) \/ Perform(j) \/ Deliver(j) \/ Abandon(j)
  \/ \E batch \in SUBSET Jobs : Try(batch)

Spec == Init /\ [][Next]_vars
=============================================================================
