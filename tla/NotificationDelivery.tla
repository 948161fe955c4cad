------------------------ MODULE NotificationDelivery ------------------------
(***************************************************************************)
(* Outbox.tla composed with what its one registered handler does: the      *)
(* notificationDispatchHandler of cmd/worker/main.go calls the             *)
(* communications service, whose SendEvent logs, sends and records one     *)
(* message per channel (internal/modules/comms).  The provider behind an   *)
(* adapter is external: it accepts a message, refuses it, or accepts it    *)
(* and its answer is lost.  Not every adapter tells a refusal.             *)
(***************************************************************************)
EXTENDS Outbox, Sequences, SequencesExt

CONSTANTS
  Priority,   \* [Events -> PriorityLevel] of the notification
  Contacts    \* [Events -> SUBSET Channel] with contact metadata

PriorityLevel == {"URGENT", "HIGH", "NORMAL", "LOW"}
Channel == {"SMS", "PUSH", "EMAIL"}
LogStatus == {"PENDING", "SENT", "FAILED"}

ASSUME DeliveryAssumption ==
  /\ Priority \in [Events -> PriorityLevel]
  /\ Contacts \in [Events -> SUBSET Channel]

VARIABLES
  todo,    \* [Workers -> Seq(Channel)], channels SendEvent has yet to serve
  stage,   \* [Workers -> {"none", "logged", "answered"}] within Send
  answer,  \* [Workers -> BOOLEAN], what the adapter returned
  logs,    \* [Events -> [Channel -> [LogStatus -> Nat]]], comms_delivery_logs rows
  sent,    \* history: [Events -> [Channel -> Nat]], messages the provider accepted
  told     \* history: [Events -> SUBSET Channel], the adapter once returned nil

comms == <<todo, stage, answer, logs, sent, told>>
allVars == <<vars, comms>>

DeliveryInit ==
  /\ Init
  /\ todo = [w \in Workers |-> <<>>]
  /\ stage = [w \in Workers |-> "none"]
  /\ answer = [w \in Workers |-> FALSE]
  /\ logs = [e \in Events |-> [c \in Channel |-> [s \in LogStatus |-> 0]]]
  /\ sent = [e \in Events |-> [c \in Channel |-> 0]]
  /\ told = [e \in Events |-> {}]

-----------------------------------------------------------------------------
(* SendEvent, run by the worker that handles the event. *)

resolveChannels(e) ==
  IF Priority[e] = "URGENT" THEN {"SMS", "PUSH", "EMAIL"}
  ELSE IF Priority[e] = "HIGH" THEN {"PUSH", "EMAIL"}
  ELSE {"PUSH"}

\* The channels, which every policy names in this order; one without contact metadata
\* is skipped silently.
Recipients(e) ==
  LET to(c) == IF c \in resolveChannels(e) \cap Contacts[e] THEN <<c>> ELSE <<>> IN
  to("SMS") \o to("PUSH") \o to("EMAIL")

DeliveryTakeUp(w) ==
  /\ TakeUp(w)
  /\ todo' = [todo EXCEPT ![w] = IF current'[w].event \in Registered
                                 THEN Recipients(current'[w].event) ELSE <<>>]
  /\ UNCHANGED <<stage, answer, logs, sent, told>>

Serving(w) == step[w] = "handling" /\ todo[w] # <<>>

\* Send: no idempotency key, so no lookup; a PENDING row is inserted.
CreateLog(w) ==
  /\ Serving(w) /\ stage[w] = "none"
  /\ logs' = [logs EXCEPT ![current[w].event][Head(todo[w])]["PENDING"] = @ + 1]
  /\ stage' = [stage EXCEPT ![w] = "logged"]
  /\ UNCHANGED <<vars, todo, answer, sent, told>>

\* The insert fails: SendEvent returns the error.
CreateLogFails(w) ==
  /\ Serving(w) /\ stage[w] = "none"
  /\ faults < MaxFaults
  /\ faults' = faults + 1
  /\ step' = [step EXCEPT ![w] = "settling"]
  /\ todo' = [todo EXCEPT ![w] = <<>>]
  /\ UNCHANGED <<table, batch, current, ok, handled, stage, answer, logs, sent, told>>

\* Adapters that turn every refusal into an error.  Firebase's and Twilio's answers
\* are decoded whatever their status, Africa's Talking's recipients are not looked at.
ReadsRefusals == {"EMAIL"}

\* The provider, external: accepted says whether the message goes out, nil
\* whether the adapter returns no error.
AdapterSend(w, accepted, nil) ==
  /\ Serving(w) /\ stage[w] = "logged"
  /\ nil /\ Head(todo[w]) \in ReadsRefusals => accepted
  /\ sent' = [sent EXCEPT ![current[w].event][Head(todo[w])] = IF accepted THEN @ + 1 ELSE @]
  /\ told' = [told EXCEPT ![current[w].event] = IF nil THEN @ \cup {Head(todo[w])} ELSE @]
  /\ answer' = [answer EXCEPT ![w] = nil]
  /\ stage' = [stage EXCEPT ![w] = "answered"]
  /\ UNCHANGED <<vars, todo, logs>>

\* A row of one channel's log goes from PENDING to another status.
Moved(rows, to) ==
  [s \in LogStatus |-> CASE s = "PENDING" -> rows[s] - 1
                         [] s = to -> rows[s] + 1
                         [] OTHER -> rows[s]]

\* UpdateStatus moves the row of the message in hand out of PENDING; SendEvent
\* ignores its failure.
UpdateStatus(w, stored, to) ==
  logs' = IF stored THEN [logs EXCEPT ![current[w].event][Head(todo[w])] = Moved(@, to)] ELSE logs

Answered(w) ==
  /\ Serving(w) /\ stage[w] = "answered"
  /\ stage' = [stage EXCEPT ![w] = "none"]
  /\ answer' = [answer EXCEPT ![w] = FALSE]
  /\ UNCHANGED <<sent, told>>

NextChannel(w) ==
  /\ todo' = [todo EXCEPT ![w] = Tail(@)]
  /\ UNCHANGED vars

GiveUp(w) ==
  /\ todo' = [todo EXCEPT ![w] = <<>>]
  /\ HandlerReturns(w, FALSE)

Outcome(w) == IF answer[w] THEN "SENT" ELSE "FAILED"

BugRecordRetriesInPlace(w, stored) ==
  /\ Answered(w)
  /\ UpdateStatus(w, stored, Outcome(w))
  /\ IF answer[w] THEN NextChannel(w) ELSE UNCHANGED <<vars, todo>>

BugRecordIgnoresFailure(w, stored) ==
  /\ Answered(w)
  /\ UpdateStatus(w, stored, Outcome(w))
  /\ NextChannel(w)

\* The first failed channel ends the call with an error.
RecordStatus(w, stored) ==
  /\ Answered(w)
  /\ UpdateStatus(w, stored, Outcome(w))
  /\ IF answer[w] THEN NextChannel(w) ELSE GiveUp(w)

SendEventReturns(w) ==
  /\ todo[w] = <<>>
  /\ HandlerReturns(w, TRUE)
  /\ UNCHANGED comms

DeliveryCrash(w) ==
  /\ Crash(w)
  /\ todo' = [todo EXCEPT ![w] = <<>>]
  /\ stage' = [stage EXCEPT ![w] = "none"]
  /\ answer' = [answer EXCEPT ![w] = FALSE]
  /\ UNCHANGED <<logs, sent, told>>

-----------------------------------------------------------------------------

DeliveryNext ==
  \/ \E e \in Events : Enqueue(e) /\ UNCHANGED comms
  \/ \E w \in Workers :
       \/ Claim(w) /\ UNCHANGED comms
       \/ DeliveryTakeUp(w)
       \/ CreateLog(w)
       \/ CreateLogFails(w)
       \/ \E accepted, nil \in BOOLEAN : AdapterSend(w, accepted, nil)
       \/ \E stored \in BOOLEAN : RecordStatus(w, stored)
       \/ SendEventReturns(w)
       \/ Settle(w) /\ UNCHANGED comms
       \/ SettleFails(w) /\ UNCHANGED comms
       \/ DeliveryCrash(w)
  \/ Tick /\ UNCHANGED comms

DeliverySpec == DeliveryInit /\ [][DeliveryNext]_allVars

-----------------------------------------------------------------------------

\* An event is acknowledged only when every channel the policy names and the
\* recipient has an address for was answered without an error, and its mail accepted,
\* over all the attempts made.
DeliveredOnEveryChannel ==
  \A e \in Events : status[e] = "DELIVERED" =>
    \A c \in Range(Recipients(e)) :
      c \in told[e] /\ (c \in ReadsRefusals => sent[e][c] > 0)

\* The audit log neither invents nor misses a message: rows marked SENT were
\* answered without an error, mails among them accepted, and every accepted message
\* has a row, whatever crash or lost update came between; and a recipient gets at
\* most one message per channel and claim of the event, so duplicates come from a
\* new attempt only.
MessagesAreAccountedFor ==
  \A e \in Events, c \in Channel :
    LET rows == logs[e][c] IN
    /\ rows["SENT"] > 0 => c \in told[e]
    /\ c \in ReadsRefusals => rows["SENT"] <= sent[e][c]
    /\ sent[e][c] <= rows["PENDING"] + rows["SENT"] + rows["FAILED"]
    /\ sent[e][c] <= attempts[e]

\* internal/outbox/outbox.go:122, "finalizes a leased event after its side effect
\* succeeds": what is delivered went out on every channel.
DeliveredMeansAccepted ==
  \A e \in Events : status[e] = "DELIVERED" => \A c \in Range(Recipients(e)) : sent[e][c] > 0

\* docs/OUTBOX_WORKER_OPERATIONS.md:22, "Uses existing per-channel idempotent
\* delivery logging": no channel gets the same notification twice.
AtMostOneMessagePerChannel == \A e \in Events, c \in Channel : sent[e][c] <= 1
=============================================================================
