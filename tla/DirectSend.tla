----------------------------- MODULE DirectSend -----------------------------
(***************************************************************************)
(* POST /api/v1/comms/send: Send of internal/modules/comms with the key of *)
(* the body or the Idempotency-Key header.  A request is its log row: it   *)
(* looks its key up, inserts the row, calls the adapter of the channel and *)
(* records the answer, one statement after the other.  The provider is     *)
(* external, as in NotificationDelivery.                                   *)
(***************************************************************************)
EXTENDS Naturals, FiniteSets

CONSTANTS
  Sends,     \* requests, each of which may insert one row (bound)
  SendKeys,  \* idempotency keys
  NoKey      \* no key: NULL in the table

ASSUME DirectSendAssumption == NoKey \notin SendKeys

VARIABLES
  post,  \* [Sends -> [at, key, channel, nil, result]]
  row,   \* [Sends -> status of its comms_delivery_logs row], "NONE" without one
  out    \* history: requests whose message the provider accepted

directVars == <<post, row, out>>

\* A channel whose adapter reads refusals, one whose adapter does not, one without.
DirectChannel == {"EMAIL", "PUSH", "IN_APP"}

Unsent == [at |-> "unsent", key |-> NoKey, channel |-> "EMAIL", nil |-> FALSE, result |-> "NONE"]

DirectInit ==
  /\ post = [s \in Sends |-> Unsent]
  /\ row = [s \in Sends |-> "NONE"]
  /\ out = {}

-----------------------------------------------------------------------------

RowsOf(k) == {s \in Sends : k # NoKey /\ post[s].key = k /\ row[s] # "NONE"}

Answer(s, status) == post' = [post EXCEPT ![s].at = "answered", ![s].result = status]

\* A row of the key is the answer, whatever it says and whatever this request asks
\* for; a lookup that fails counts as not found.
Lookup(s, k, c) ==
  /\ post[s] = Unsent
  /\ \/ post' = [post EXCEPT ![s] = [Unsent EXCEPT !.at = "create", !.key = k, !.channel = c]]
     \/ \E r \in RowsOf(k) :
          post' = [post EXCEPT ![s] = [Unsent EXCEPT !.at = "answered", !.key = k, !.result = row[r]]]
  /\ UNCHANGED <<row, out>>

BugCreateKeyedTwice(s) ==
  /\ post[s].at = "create"
  /\ row' = [row EXCEPT ![s] = "PENDING"]
  /\ post' = [post EXCEPT ![s].at = "send"]
  /\ UNCHANGED out

\* The key is unique: the slower of two requests is answered with the error.
CreateDirectLog(s) ==
  /\ post[s].at = "create"
  /\ IF RowsOf(post[s].key) = {}
     THEN /\ row' = [row EXCEPT ![s] = "PENDING"]
          /\ post' = [post EXCEPT ![s].at = "send"]
     ELSE Answer(s, "ERROR") /\ UNCHANGED row
  /\ UNCHANGED out

\* The provider accepts or not, the adapter returns nil or an error; a channel
\* without an adapter is a failure of its own.
CallAdapter(s, accepted, nil) ==
  /\ post[s].at = "send"
  /\ post[s].channel = "EMAIL" => (nil => accepted)
  /\ post[s].channel = "IN_APP" => ~accepted /\ ~nil
  /\ out' = IF accepted THEN out \cup {s} ELSE out
  /\ post' = [post EXCEPT ![s].at = "record", ![s].nil = nil]
  /\ UNCHANGED row

\* The failure of UpdateStatus is ignored: the answer is the adapter's.
RecordDirect(s, stored) ==
  LET status == IF post[s].nil THEN "SENT" ELSE "FAILED" IN
  /\ post[s].at = "record"
  /\ row' = IF stored THEN [row EXCEPT ![s] = status] ELSE row
  /\ Answer(s, status)
  /\ UNCHANGED out

\* The client leaves or the process dies between two statements.
SendDies(s) ==
  /\ post[s].at \in {"create", "send", "record"}
  /\ Answer(s, "LOST")
  /\ UNCHANGED <<row, out>>

DirectNext ==
  \E s \in Sends :
    \/ \E k \in SendKeys \cup {NoKey}, c \in DirectChannel : Lookup(s, k, c)
    \/ CreateDirectLog(s)
    \/ \E accepted, nil \in BOOLEAN : CallAdapter(s, accepted, nil)
    \/ \E stored \in BOOLEAN : RecordDirect(s, stored)
    \/ SendDies(s)

DirectSpec == DirectInit /\ [][DirectNext]_directVars

-----------------------------------------------------------------------------

\* However requests repeat a key, at once or after a lost answer, one message of the
\* key goes out at most, whatever channels they name; who is told SENT finds a
\* request of the key whose adapter returned nil, and whose mail was accepted.
OneMessagePerKey ==
  \A k \in SendKeys :
    LET asked == {s \in Sends : post[s].key = k} IN
    /\ Cardinality(asked \cap out) <= 1
    /\ (\E s \in asked : post[s].result = "SENT") =>
         \E s \in asked : post[s].nil /\ (post[s].channel = "EMAIL" => s \in out)
=============================================================================
