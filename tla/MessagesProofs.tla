--------------------------- MODULE MessagesProofs ---------------------------
(***************************************************************************)
(* Proofs about the messages that leave the system: direct sends, the      *)
(* daily reminders and the notifications the outbox delivers, for any      *)
(* number of requests, runs, vendors, workers and events.                  *)
(***************************************************************************)
EXTENDS MCMessages, OutboxProofs, OperatingProofs, FiniteSetTheorems, SequenceTheorems, TLAPS

-----------------------------------------------------------------------------
(* Direct sends *)

\* An open request of Posts, and what its at says of it.
Posts ==
  [at : {"unsent", "create", "send", "record", "answered"}, key : SendKeys \cup {NoKey},
   channel : DirectChannel, nil : BOOLEAN, result : {"NONE", "PENDING", "SENT", "FAILED", "ERROR", "LOST"}]

DirectShape ==
  /\ post \in [Sends -> Posts]
  /\ row \in [Sends -> {"NONE", "PENDING", "SENT", "FAILED"}]
  /\ out \subseteq Sends

\* A request that has not called its adapter has sent nothing, and one without a row
\* never will have.
SentAfterItsRow ==
  \A s \in Sends :
    /\ post[s].at # "answered" => post[s].result = "NONE"
    /\ post[s].at \in {"unsent", "create"} => row[s] = "NONE"
    /\ post[s].at \in {"unsent", "create", "send"} => s \notin out /\ ~post[s].nil
    /\ row[s] = "NONE" => s \notin out /\ post[s].at \notin {"send", "record"}

\* A key is in one row.
OneRowPerKey ==
  \A s, t \in Sends :
    row[s] # "NONE" /\ row[t] # "NONE" /\ post[s].key = post[t].key /\ post[s].key # NoKey => s = t

\* Nil is the answer to a mail that was accepted, and SENT in a row the adapter's nil.
NilIsSound ==
  \A s \in Sends :
    /\ post[s].nil /\ post[s].channel = "EMAIL" => s \in out
    /\ row[s] = "SENT" => post[s].nil

\* Who is told SENT under a key has a request of the key behind it.
ToldHasCause ==
  \A s \in Sends : post[s].result = "SENT" /\ post[s].key # NoKey =>
    \E t \in Sends : post[t].key = post[s].key /\ post[t].nil

DirectInv == DirectShape /\ SentAfterItsRow /\ OneRowPerKey /\ NilIsSound /\ ToldHasCause

\* A request is Unsent only before its lookup.
LEMMA UnsentIsUnsent == Unsent \in Posts /\ Unsent.at = "unsent" /\ Unsent.key = NoKey /\ Unsent.result = "NONE" /\ Unsent.nil = FALSE
BY DEF Unsent, Posts, DirectChannel

\* A step of request s alone, after which it is k, keeps what it says of the others.
LEMMA PostMoves ==
  ASSUME DirectInv, NEW s \in Sends, NEW k \in Posts, post' = [post EXCEPT ![s] = k]
  PROVE  /\ post' \in [Sends -> Posts] /\ post'[s] = k
         /\ \A t \in Sends \ {s} : post'[t] = post[t]
BY DEF DirectInv, DirectShape

\* The key is looked up: the row of another is the answer, or there is none.
LEMMA LookupKeeps ==
  ASSUME DirectInv, NEW s \in Sends, NEW k \in SendKeys \cup {NoKey}, NEW c \in DirectChannel, Lookup(s, k, c)
  PROVE  DirectInv'
<1>0. UNCHANGED <<row, out>> /\ post[s] = Unsent
  BY DEF Lookup
<1>1. row[s] = "NONE" /\ s \notin out
  BY <1>0, UnsentIsUnsent DEF DirectInv, SentAfterItsRow
<1>2. PICK k1 \in Posts :
        /\ post' = [post EXCEPT ![s] = k1]
        /\ k1.key = k /\ ~k1.nil
        /\ \/ k1.at = "create" /\ k1.result = "NONE"
           \/ k1.at = "answered" /\ \E r \in RowsOf(k) : k1.result = row[r]
  <2>1. CASE post' = [post EXCEPT ![s] = [Unsent EXCEPT !.at = "create", !.key = k, !.channel = c]]
    <3>1. PICK k1 : k1 = [Unsent EXCEPT !.at = "create", !.key = k, !.channel = c]
      OBVIOUS
    <3>2. k1 = [at |-> "create", key |-> k, channel |-> c, nil |-> FALSE, result |-> "NONE"]
      BY <3>1 DEF Unsent
    <3>3. k1 \in Posts /\ k1.key = k /\ ~k1.nil /\ k1.at = "create" /\ k1.result = "NONE"
      BY <3>2 DEF Posts
    <3> QED BY <2>1, <3>1, <3>3
  <2>2. ASSUME NEW r \in RowsOf(k),
               post' = [post EXCEPT ![s] = [Unsent EXCEPT !.at = "answered", !.key = k, !.result = row[r]]]
        PROVE  \E k1 \in Posts :
                 /\ post' = [post EXCEPT ![s] = k1]
                 /\ k1.key = k /\ ~k1.nil
                 /\ k1.at = "answered" /\ k1.result = row[r]
    <3>1. PICK k1 : k1 = [Unsent EXCEPT !.at = "answered", !.key = k, !.result = row[r]]
      OBVIOUS
    <3>2. k1 = [at |-> "answered", key |-> k, channel |-> "EMAIL", nil |-> FALSE, result |-> row[r]]
      BY <3>1 DEF Unsent
    <3>3. row[r] \in {"NONE", "PENDING", "SENT", "FAILED"}
      BY DEF RowsOf, DirectInv, DirectShape
    <3>4. k1 \in Posts /\ k1.key = k /\ ~k1.nil /\ k1.at = "answered" /\ k1.result = row[r]
      BY <3>2, <3>3 DEF Posts, DirectChannel
    <3> QED BY <2>2, <3>1, <3>4
  <2>3. CASE \E r \in RowsOf(k) :
               post' = [post EXCEPT ![s] = [Unsent EXCEPT !.at = "answered", !.key = k, !.result = row[r]]]
    <3>1. PICK r \in RowsOf(k) :
            post' = [post EXCEPT ![s] = [Unsent EXCEPT !.at = "answered", !.key = k, !.result = row[r]]]
      BY <2>3
    <3>2. PICK k1 \in Posts :
            /\ post' = [post EXCEPT ![s] = k1]
            /\ k1.key = k /\ ~k1.nil
            /\ k1.at = "answered" /\ k1.result = row[r]
      BY <2>2, <3>1
    <3> QED BY <3>2
  <2> QED BY <2>1, <2>3 DEF Lookup
<1>3. post' \in [Sends -> Posts] /\ post'[s] = k1 /\ \A t \in Sends \ {s} : post'[t] = post[t]
  BY <1>2, PostMoves
<1>4. DirectShape'
  BY <1>0, <1>3 DEF DirectInv, DirectShape
<1>5. SentAfterItsRow'
  BY <1>0, <1>1, <1>2, <1>3 DEF DirectInv, SentAfterItsRow
<1>6. OneRowPerKey'
  BY <1>0, <1>1, <1>3 DEF DirectInv, OneRowPerKey
<1>7. NilIsSound'
  BY <1>0, <1>1, <1>2, <1>3 DEF DirectInv, NilIsSound
<1>8. ToldHasCause'
  <2> SUFFICES ASSUME NEW t \in Sends, post'[t].result = "SENT", post'[t].key # NoKey
               PROVE  \E q \in Sends : post'[q].key = post'[t].key /\ post'[q].nil
    BY DEF ToldHasCause
  <2>0. ~post[s].nil
    BY <1>0, UnsentIsUnsent
  <2>1. CASE t # s
    <3>1. PICK q \in Sends : post[q].key = post[t].key /\ post[q].nil
      BY <1>3, <2>1 DEF DirectInv, ToldHasCause
    <3>2. q # s
      BY <2>0, <3>1
    <3> QED BY <1>3, <2>1, <3>1, <3>2
  <2>2. CASE t = s
    <3>1. PICK r \in RowsOf(k) : row[r] = "SENT"
      BY <1>2, <1>3, <2>2
    <3>2. r \in Sends /\ post[r].key = k /\ post[r].nil
      BY <3>1 DEF RowsOf, DirectInv, NilIsSound
    <3>3. r # s
      BY <2>0, <3>2
    <3> QED BY <1>2, <1>3, <2>2, <3>2, <3>3
  <2> QED BY <2>1, <2>2
<1> QED BY <1>4, <1>5, <1>6, <1>7, <1>8 DEF DirectInv

\* A request that is past its lookup goes on under its key: what it may change.
LEMMA RequestGoesOn ==
  ASSUME DirectInv, NEW s \in Sends, NEW k \in Posts, post' = [post EXCEPT ![s] = k],
         k.key = post[s].key, post[s].nil => k.nil, k.channel = post[s].channel, k.at # "unsent",
         k.result = "SENT" => k.nil, k.at # "answered" => k.result = "NONE",
         NEW sent1, row' = [row EXCEPT ![s] = sent1], sent1 \in {"NONE", "PENDING", "SENT", "FAILED"},
         out' = out \/ out' = out \cup {s},
         k.at = "create" => sent1 = "NONE",
         k.at \in {"create", "send"} => s \notin out' /\ ~k.nil,
         sent1 = "NONE" => s \notin out' /\ row[s] = "NONE" /\ k.at \notin {"send", "record"},
         row[s] = "NONE" /\ sent1 # "NONE" => RowsOf(post[s].key) = {},
         k.nil /\ k.channel = "EMAIL" => s \in out',
         sent1 = "SENT" => k.nil
  PROVE  DirectInv'
<1>1. post' \in [Sends -> Posts] /\ post'[s] = k /\ \A t \in Sends \ {s} : post'[t] = post[t]
  BY PostMoves
<1>2. row' \in [Sends -> {"NONE", "PENDING", "SENT", "FAILED"}] /\ row'[s] = sent1
      /\ \A t \in Sends \ {s} : row'[t] = row[t] /\ (t \in out' <=> t \in out)
  BY DEF DirectInv, DirectShape
<1>3. DirectShape'
  BY <1>1, <1>2 DEF DirectInv, DirectShape
<1>4. SentAfterItsRow'
  <2> SUFFICES ASSUME NEW t \in Sends
               PROVE  /\ post'[t].at # "answered" => post'[t].result = "NONE"
                      /\ post'[t].at \in {"unsent", "create"} => row'[t] = "NONE"
                      /\ post'[t].at \in {"unsent", "create", "send"} => t \notin out' /\ ~post'[t].nil
                      /\ row'[t] = "NONE" => t \notin out' /\ post'[t].at \notin {"send", "record"}
    BY DEF SentAfterItsRow
  <2>1. CASE t = s
    BY <1>1, <1>2, <2>1
  <2>2. CASE t # s
    BY <1>1, <1>2, <2>2 DEF DirectInv, SentAfterItsRow
  <2> QED BY <2>1, <2>2
<1>5. OneRowPerKey'
  <2> SUFFICES ASSUME NEW p \in Sends, NEW q \in Sends, row'[p] # "NONE", row'[q] # "NONE",
                      post'[p].key = post'[q].key, post'[p].key # NoKey, p # q
               PROVE  FALSE
    BY DEF OneRowPerKey
  <2>1. \A t \in Sends : post'[t].key = post[t].key
    BY <1>1
  <2>2. CASE row[s] # "NONE" \/ sent1 = "NONE"
    <3>1. \A t \in Sends : row'[t] # "NONE" => row[t] # "NONE"
      BY <1>2, <2>2
    <3> QED BY <2>1, <3>1 DEF DirectInv, OneRowPerKey
  <2>3. CASE row[s] = "NONE" /\ sent1 # "NONE"
    <3>1. \A t \in Sends : post[t].key = post[s].key /\ post[s].key # NoKey => row[t] = "NONE"
      BY <2>3 DEF RowsOf
    <3> QED BY <1>2, <2>1, <3>1 DEF DirectInv, OneRowPerKey
  <2> QED BY <2>2, <2>3
<1>6. NilIsSound'
  <2> SUFFICES ASSUME NEW t \in Sends
               PROVE  /\ post'[t].nil /\ post'[t].channel = "EMAIL" => t \in out'
                      /\ row'[t] = "SENT" => post'[t].nil
    BY DEF NilIsSound
  <2>1. CASE t = s
    BY <1>1, <1>2, <2>1
  <2>2. CASE t # s
    BY <1>1, <1>2, <2>2 DEF DirectInv, NilIsSound
  <2> QED BY <2>1, <2>2
<1>7. ToldHasCause'
  <2> SUFFICES ASSUME NEW t \in Sends, post'[t].result = "SENT", post'[t].key # NoKey
               PROVE  \E q \in Sends : post'[q].key = post'[t].key /\ post'[q].nil
    BY DEF ToldHasCause
  <2>1. CASE t = s
    BY <1>1, <2>1
  <2>2. CASE t # s
    <3>1. PICK q \in Sends : post[q].key = post[t].key /\ post[q].nil
      BY <1>1, <2>2 DEF DirectInv, ToldHasCause
    <3>2. post'[q].key = post[q].key /\ post'[q].nil
      BY <1>1, <3>1
    <3> QED BY <1>1, <2>2, <3>1, <3>2
  <2> QED BY <2>1, <2>2
<1> QED BY <1>3, <1>4, <1>5, <1>6, <1>7 DEF DirectInv

\* The row as a step that does not touch it leaves it.
LEMMA RowStays ==
  ASSUME DirectInv, NEW s \in Sends, UNCHANGED row
  PROVE  row' = [row EXCEPT ![s] = row[s]] /\ row[s] \in {"NONE", "PENDING", "SENT", "FAILED"}
BY DEF DirectInv, DirectShape

\* An answered request is as it was but for its answer.
LEMMA AnswerOf ==
  ASSUME DirectInv, NEW s \in Sends, NEW word \in {"SENT", "FAILED", "ERROR", "LOST"}, Answer(s, word)
  PROVE  \E k \in Posts :
           /\ post' = [post EXCEPT ![s] = k]
           /\ k.at = "answered" /\ k.result = word
           /\ k.key = post[s].key /\ k.nil = post[s].nil /\ k.channel = post[s].channel
<1>1. post \in [Sends -> Posts]
  BY DEF DirectInv, DirectShape
<1>2. PICK k : k = [post[s] EXCEPT !.at = "answered", !.result = word]
  OBVIOUS
<1>3. /\ k \in Posts /\ k.at = "answered" /\ k.result = word
      /\ k.key = post[s].key /\ k.nil = post[s].nil /\ k.channel = post[s].channel
  BY <1>1, <1>2 DEF Posts
<1>4. post' = [post EXCEPT ![s] = k]
  BY <1>1, <1>2 DEF Answer
<1> QED BY <1>3, <1>4

\* A request that ends with an answer but SENT changes nothing else.
LEMMA AnswerKeeps ==
  ASSUME DirectInv, NEW s \in Sends, NEW word \in {"FAILED", "ERROR", "LOST"}, Answer(s, word), UNCHANGED <<row, out>>
  PROVE  DirectInv'
<1>1. PICK k \in Posts :
        /\ post' = [post EXCEPT ![s] = k]
        /\ k.at = "answered" /\ k.result = word
        /\ k.key = post[s].key /\ k.nil = post[s].nil /\ k.channel = post[s].channel
  BY AnswerOf
<1>2. row' = [row EXCEPT ![s] = row[s]] /\ row[s] \in {"NONE", "PENDING", "SENT", "FAILED"}
  BY RowStays
<1>3. /\ row[s] = "NONE" => s \notin out
      /\ post[s].nil /\ post[s].channel = "EMAIL" => s \in out
      /\ row[s] = "SENT" => post[s].nil
  BY DEF DirectInv, SentAfterItsRow, NilIsSound
<1> QED BY <1>1, <1>2, <1>3, RequestGoesOn

\* The key is unique: the row is inserted, or the request refused.
LEMMA CreateDirectLogKeeps ==
  ASSUME DirectInv, NEW s \in Sends, CreateDirectLog(s)
  PROVE  DirectInv'
<1>0. post \in [Sends -> Posts] /\ post[s].at = "create" /\ UNCHANGED out
  BY DEF DirectInv, DirectShape, CreateDirectLog
<1>1. CASE RowsOf(post[s].key) = {}
  <2>1. PICK k : k = [post[s] EXCEPT !.at = "send"]
    OBVIOUS
  <2>2. /\ k \in Posts /\ k.at = "send" /\ k.result = post[s].result
        /\ k.key = post[s].key /\ k.nil = post[s].nil /\ k.channel = post[s].channel
    BY <1>0, <2>1 DEF Posts
  <2>3. post' = [post EXCEPT ![s] = k] /\ row' = [row EXCEPT ![s] = "PENDING"]
    BY <1>0, <1>1, <2>1 DEF CreateDirectLog
  <2>4. s \notin out /\ ~post[s].nil /\ post[s].result = "NONE"
    BY <1>0 DEF DirectInv, SentAfterItsRow
  <2> QED BY <1>0, <1>1, <2>2, <2>3, <2>4, RequestGoesOn
<1>2. CASE RowsOf(post[s].key) # {}
  BY <1>2, AnswerKeeps DEF CreateDirectLog
<1> QED BY <1>1, <1>2

\* The adapter is called once, by the request that has the row.
LEMMA CallAdapterKeeps ==
  ASSUME DirectInv, NEW s \in Sends, NEW accepted \in BOOLEAN, NEW nil \in BOOLEAN, CallAdapter(s, accepted, nil)
  PROVE  DirectInv'
<1>0. post \in [Sends -> Posts] /\ post[s].at = "send" /\ UNCHANGED row
  BY DEF DirectInv, DirectShape, CallAdapter
<1>1. PICK k : k = [post[s] EXCEPT !.at = "record", !.nil = nil]
  OBVIOUS
<1>2. /\ k \in Posts /\ k.at = "record" /\ k.result = post[s].result
      /\ k.key = post[s].key /\ k.nil = nil /\ k.channel = post[s].channel
  BY <1>0, <1>1 DEF Posts
<1>3. post' = [post EXCEPT ![s] = k]
  BY <1>0, <1>1 DEF CallAdapter
<1>4. row' = [row EXCEPT ![s] = row[s]] /\ row[s] \in {"NONE", "PENDING", "SENT", "FAILED"}
  BY <1>0, RowStays
<1>5. row[s] # "NONE" /\ row[s] # "SENT" /\ ~post[s].nil
  BY <1>0 DEF DirectInv, SentAfterItsRow, NilIsSound
<1>6. post[s].result = "NONE"
  BY <1>0 DEF DirectInv, SentAfterItsRow
<1>7. nil /\ k.channel = "EMAIL" => s \in out'
  BY <1>2 DEF CallAdapter
<1>8. out' = out \/ out' = out \cup {s}
  BY DEF CallAdapter
<1> QED BY <1>2, <1>3, <1>4, <1>5, <1>6, <1>7, <1>8, RequestGoesOn

\* The answer is recorded, or not, and told.
LEMMA RecordDirectKeeps ==
  ASSUME DirectInv, NEW s \in Sends, NEW stored \in BOOLEAN, RecordDirect(s, stored)
  PROVE  DirectInv'
<1> DEFINE word == IF post[s].nil THEN "SENT" ELSE "FAILED"
<1>0. /\ post \in [Sends -> Posts] /\ post[s].at = "record" /\ UNCHANGED out /\ Answer(s, word)
      /\ row' = IF stored THEN [row EXCEPT ![s] = word] ELSE row
  BY DEF DirectInv, DirectShape, RecordDirect
<1>1. PICK k \in Posts :
        /\ post' = [post EXCEPT ![s] = k]
        /\ k.at = "answered" /\ k.result = word
        /\ k.key = post[s].key /\ k.nil = post[s].nil /\ k.channel = post[s].channel
  BY <1>0, AnswerOf
<1>2. PICK sent1 \in {word, row[s]} : row' = [row EXCEPT ![s] = sent1]
  BY <1>0, RowStays
<1>3. /\ row[s] # "NONE"
      /\ post[s].nil /\ post[s].channel = "EMAIL" => s \in out
      /\ row[s] = "SENT" => post[s].nil
      /\ row[s] \in {"NONE", "PENDING", "SENT", "FAILED"}
  BY <1>0 DEF DirectInv, DirectShape, SentAfterItsRow, NilIsSound
<1>4. /\ sent1 \in {"NONE", "PENDING", "SENT", "FAILED"} /\ sent1 # "NONE"
      /\ sent1 = "SENT" => post[s].nil
      /\ word = "SENT" => post[s].nil
  BY <1>2, <1>3
<1>5. /\ k.at = "answered" /\ k.nil = post[s].nil /\ k.channel = post[s].channel /\ k.key = post[s].key
      /\ k.result = "SENT" => k.nil
      /\ sent1 = "SENT" => k.nil
      /\ k.nil /\ k.channel = "EMAIL" => s \in out'
  BY <1>0, <1>1, <1>3, <1>4
<1> HIDE DEF word
<1> QED BY <1>0, <1>1, <1>2, <1>3, <1>4, <1>5, RequestGoesOn

\* The invariant is inductive.
LEMMA DirectInvNext == DirectInv /\ [DirectNext]_directVars => DirectInv'
<1> SUFFICES ASSUME DirectInv, [DirectNext]_directVars PROVE DirectInv'
  OBVIOUS
<1>1. ASSUME NEW s \in Sends, SendDies(s) PROVE DirectInv'
  BY <1>1, AnswerKeeps DEF SendDies
<1>2. CASE UNCHANGED directVars
  BY <1>2 DEF directVars, DirectInv, DirectShape, SentAfterItsRow, OneRowPerKey, NilIsSound, ToldHasCause
<1> QED BY <1>1, <1>2, LookupKeeps, CreateDirectLogKeeps, CallAdapterKeeps, RecordDirectKeeps DEF DirectNext

\* Nothing has been asked at first.
LEMMA DirectInvInit == DirectInit => DirectInv
BY UnsentIsUnsent DEF DirectInit, DirectInv, DirectShape, SentAfterItsRow, OneRowPerKey, NilIsSound, ToldHasCause

\* One request of a key has the row, and no other calls an adapter.
LEMMA OneMessage == DirectInv => OneMessagePerKey
<1> SUFFICES ASSUME DirectInv, NEW k \in SendKeys
             PROVE  LET asked == {s \in Sends : post[s].key = k} IN
                    /\ Cardinality(asked \cap out) <= 1
                    /\ (\E s \in asked : post[s].result = "SENT") =>
                         \E s \in asked : post[s].nil /\ (post[s].channel = "EMAIL" => s \in out)
  BY DEF OneMessagePerKey
<1> DEFINE asked == {s \in Sends : post[s].key = k}
<1>0. k # NoKey
  BY DirectSendAssumption
<1>1. \A s, t \in asked \cap out : s = t
  BY <1>0 DEF DirectInv, SentAfterItsRow, OneRowPerKey
<1>2. Cardinality(asked \cap out) <= 1
  <2> HIDE DEF asked
  <2>1. CASE asked \cap out = {}
    BY <2>1, FS_EmptySet
  <2>2. CASE asked \cap out # {}
    <3>1. PICK s : s \in asked \cap out
      BY <2>2
    <3>2. asked \cap out = {s}
      BY <1>1, <3>1
    <3>3. Cardinality({s}) = 1
      BY FS_Singleton
    <3> QED BY <3>2, <3>3
  <2> QED BY <2>1, <2>2
<1>3. ASSUME NEW s \in asked, post[s].result = "SENT"
      PROVE  \E t \in asked : post[t].nil /\ (post[t].channel = "EMAIL" => t \in out)
  BY <1>0, <1>3 DEF DirectInv, ToldHasCause, NilIsSound
<1> QED BY <1>2, <1>3

\* It holds of every state of direct sends.
LEMMA DirectInvariance == DirectSpec => []DirectInv
BY DirectInvInit, DirectInvNext, PTL DEF DirectSpec

\* Under a key at most one message goes out, whoever repeats it and whenever, and who is
\* told SENT has a request of the key behind it whose adapter returned nil (comms.Send).
THEOREM DirectSendsAreOnce == DirectSpec => []OneMessagePerKey
BY OneMessage, DirectInvariance, PTL

-----------------------------------------------------------------------------
(* Reminders *)

USE OperatingAssumption

ReminderJob ==
  [at : {"off", "next", "lookup", "create", "send", "log", "mark"}, now : Instant, todo : SUBSET Key,
   key : Key \cup {None}, ok : BOOLEAN]

ReminderShape ==
  /\ job \in [Runs -> ReminderJob]
  /\ reminder \subseteq Key /\ marked \subseteq Key
  /\ mailLog \in [Key -> {"NONE", "PENDING", "SENT", "FAILED"}]
  /\ mails \in [Key -> Nat]

\* What a run knows of the reminder it is at.
JobIsSound(r) ==
  /\ job[r].at \in {"lookup", "create", "send", "log", "mark"} => job[r].key \in reminder
  /\ At(r, "send") => mailLog[job[r].key] = "PENDING" /\ mails[job[r].key] = 0
  /\ At(r, "log") => mailLog[job[r].key] # "NONE" /\ (job[r].ok => mails[job[r].key] = 1)
  /\ At(r, "mark") => mails[job[r].key] = 1

Mailing(r) == At(r, "send") \/ At(r, "log")

\* The run that inserted the log of a mail is the only one to send it.
OneRunMails == \A r, q \in Runs : Mailing(r) /\ Mailing(q) /\ job[r].key = job[q].key => r = q

\* What the log and the row of a reminder say of its mail.
MailIsSound(k) ==
  /\ mails[k] <= 1
  /\ mailLog[k] = "NONE" => mails[k] = 0
  /\ mailLog[k] = "SENT" => mails[k] = 1
  /\ mails[k] > 0 => k \in reminder
  /\ k \in marked => k \in reminder /\ mails[k] = 1

MailInv ==
  /\ ReminderShape
  /\ \A r \in Runs : JobIsSound(r)
  /\ OneRunMails
  /\ \A k \in Key : MailIsSound(k)

\* Nothing is running at first.
LEMMA NoJobIsNone ==
  ASSUME OperatingTypeOK
  PROVE  NoJob \in ReminderJob /\ NoJob.at = "off" /\ NoJob.todo = {}
BY DEF NoJob, ReminderJob, OperatingTypeOK, Instant

\* Instants of one day are less than a day apart.
LEMMA DaysAreShort ==
  ASSUME NEW i \in Nat, NEW j \in Nat, DayOf(i) = DayOf(j)
  PROVE  i - j < DayLength
<1>1. i \div DayLength \in Int /\ i % DayLength \in 0..(DayLength - 1) /\ i = DayLength * (i \div DayLength) + (i % DayLength)
  BY ReminderAssumption
<1>2. j \div DayLength \in Int /\ j % DayLength \in 0..(DayLength - 1) /\ j = DayLength * (j \div DayLength) + (j % DayLength)
  BY ReminderAssumption
<1>3. i \div DayLength = j \div DayLength
  BY DEF DayOf
<1> QED BY <1>1, <1>2, <1>3, ReminderAssumption

\* The clock names a day of the calendar.
LEMMA DaysAreDays ==
  ASSUME OperatingTypeOK
  PROVE  DayOf(present) \in 0..DayOf(LastInstant)
<1>1. present \in Nat /\ LastInstant \in Nat /\ present <= LastInstant /\ DayLength \in Nat \ {0}
  BY ReminderAssumption DEF OperatingTypeOK, Instant, OperatingAssumption
<1>2. present \div DayLength \in Nat /\ LastInstant \div DayLength \in Nat /\ present \div DayLength <= LastInstant \div DayLength
  BY <1>1
<1> QED BY <1>2 DEF DayOf

\* What is listed are reminders of the day, of one type for a vendor.
LEMMA ListedAreKeys ==
  ASSUME OperatingTypeOK
  PROVE  /\ DueReminders(present) \subseteq Key
         /\ \A k \in DueReminders(present) : k.type \in chooseReminder(k.vendor, present)
<1>1. \A v \in Vendors : chooseReminder(v, present) \subseteq ReminderType
  BY DEF chooseReminder, ReminderType
<1>2. ASSUME NEW k \in DueReminders(present)
      PROVE  k \in Key /\ k.type \in chooseReminder(k.vendor, present)
  <2>1. PICK v \in Vendors : \E t \in chooseReminder(v, present) : k = [vendor |-> v, type |-> t, day |-> DayOf(present)]
    BY DEF DueReminders
  <2>2. PICK t \in chooseReminder(v, present) : k = [vendor |-> v, type |-> t, day |-> DayOf(present)]
    BY <2>1
  <2>3. t \in ReminderType /\ DayOf(present) \in 0..DayOf(LastInstant)
    BY <1>1, DaysAreDays
  <2> QED BY <2>2, <2>3 DEF Key
<1> QED BY <1>2

\* A step of run r alone, which is n afterwards.
LEMMA JobMoves ==
  ASSUME MailInv, NEW r \in Runs, NEW n \in ReminderJob, job' = [job EXCEPT ![r] = n]
  PROVE  /\ job' \in [Runs -> ReminderJob] /\ job'[r] = n
         /\ \A q \in Runs \ {r} : job'[q] = job[q]
BY DEF MailInv, ReminderShape

\* The runs that do not mail afterwards keep the invariant, if what they know is so.
LEMMA JobKeeps ==
  ASSUME MailInv, NEW r \in Runs, NEW n \in ReminderJob, job' = [job EXCEPT ![r] = n], n.at \notin {"send", "log"},
         reminder \subseteq reminder', reminder' \subseteq Key, UNCHANGED <<marked, mailLog, mails>>,
         n.at \in {"lookup", "create", "mark"} => n.key \in reminder',
         n.at = "mark" => mails[n.key] = 1
  PROVE  MailInv'
<1>1. /\ job' \in [Runs -> ReminderJob] /\ job'[r] = n
      /\ \A q \in Runs \ {r} : job'[q] = job[q]
  BY JobMoves
<1>2. ReminderShape'
  BY <1>1 DEF MailInv, ReminderShape
<1>3. \A q \in Runs : JobIsSound(q)'
  <2> SUFFICES ASSUME NEW q \in Runs PROVE JobIsSound(q)'
    OBVIOUS
  <2>1. CASE q = r
    BY <1>1, <2>1 DEF JobIsSound, At
  <2>2. CASE q # r
    BY <1>1, <2>2 DEF MailInv, JobIsSound, At
  <2> QED BY <2>1, <2>2
<1>4. OneRunMails'
  <2>1. \A q \in Runs : Mailing(q)' => q # r /\ Mailing(q) /\ job'[q].key = job[q].key
    BY <1>1 DEF Mailing, At
  <2> QED BY <2>1 DEF MailInv, OneRunMails
<1>5. \A k \in Key : MailIsSound(k)'
  BY DEF MailInv, MailIsSound
<1> QED BY <1>2, <1>3, <1>4, <1>5 DEF MailInv

\* A run begins with the list of the day, or ends.
LEMMA StartAndEndKeep ==
  ASSUME OperatingTypeOK, MailInv, NEW r \in Runs, StartRun(r) \/ EndRun(r)
  PROVE  MailInv'
<1>1. CASE StartRun(r)
  <2>1. PICK n : n = [NoJob EXCEPT !.at = "next", !.now = present, !.todo = DueReminders(present)]
    OBVIOUS
  <2>2. n \in ReminderJob /\ n.at = "next"
    BY <2>1, NoJobIsNone, ListedAreKeys DEF ReminderJob, OperatingTypeOK
  <2>3. job' = [job EXCEPT ![r] = n] /\ UNCHANGED <<reminder, marked, mailLog, mails>>
    BY <1>1, <2>1 DEF StartRun
  <2>4. reminder \subseteq Key
    BY DEF MailInv, ReminderShape
  <2> QED BY <2>2, <2>3, <2>4, JobKeeps
<1>2. CASE EndRun(r)
  <2>1. job' = [job EXCEPT ![r] = NoJob] /\ UNCHANGED <<reminder, marked, mailLog, mails>>
    BY <1>2 DEF EndRun
  <2>2. reminder \subseteq Key
    BY DEF MailInv, ReminderShape
  <2> QED BY <2>1, <2>2, NoJobIsNone, JobKeeps
<1> QED BY <1>1, <1>2

\* What a run becomes when it goes on to another statement.
LEMMA GoesOn ==
  ASSUME MailInv, NEW r \in Runs, NEW at \in {"next", "lookup", "create", "send", "log", "mark"}, Go(r, at)
  PROVE  \E n \in ReminderJob : /\ job' = [job EXCEPT ![r] = n] /\ n.at = at
                                /\ n.key = job[r].key /\ n.ok = job[r].ok /\ n.todo = job[r].todo
                                /\ n.now = job[r].now
<1>1. PICK old \in ReminderJob : old = job[r]
  BY DEF MailInv, ReminderShape
<1>2. PICK n : n = [old EXCEPT !.at = at]
  OBVIOUS
<1>3. n \in ReminderJob /\ n.at = at /\ n.key = old.key /\ n.ok = old.ok /\ n.todo = old.todo /\ n.now = old.now
  BY <1>2 DEF ReminderJob
<1>4. job' = [job EXCEPT ![r] = n]
  BY <1>1, <1>2 DEF Go
<1> QED BY <1>1, <1>3, <1>4

\* A reminder is reserved before its mail is looked up.
LEMMA ReserveMoves ==
  ASSUME MailInv, NEW r \in Runs, reserveReminder(r)
  PROVE  \E n \in ReminderJob, k \in job[r].todo :
           /\ job' = [job EXCEPT ![r] = n] /\ n.at \in {"next", "lookup"} /\ n.key = k
           /\ n.todo = job[r].todo \ {k} /\ reminder' = reminder \cup {k} /\ k \in Key
           /\ n.now = job[r].now
<1>1. PICK old \in ReminderJob : old = job[r]
  BY DEF MailInv, ReminderShape
<1>2. PICK k \in old.todo :
        /\ reminder' = reminder \cup {k}
        /\ job' = [job EXCEPT ![r].todo = @ \ {k}, ![r].key = k, ![r].at = IF k \in marked THEN "next" ELSE "lookup"]
  BY <1>1 DEF reserveReminder
<1>3. PICK n : n = [old EXCEPT !.todo = @ \ {k}, !.key = k, !.at = IF k \in marked THEN "next" ELSE "lookup"]
  OBVIOUS
<1>4. old.todo \subseteq Key
  BY DEF ReminderJob
<1>5. n \in ReminderJob /\ n.at \in {"next", "lookup"} /\ n.key = k /\ n.todo = old.todo \ {k} /\ n.now = old.now
  BY <1>3, <1>4 DEF ReminderJob
<1>6. job' = [job EXCEPT ![r] = n]
  BY <1>1, <1>2, <1>3
<1> QED BY <1>1, <1>2, <1>4, <1>5, <1>6

\* The statements around the mail keep the invariant.
LEMMA ReserveAndLookupKeep ==
  ASSUME MailInv, NEW r \in Runs, reserveReminder(r) \/ LookupLog(r) \/ MarkSent(r)
  PROVE  MailInv'
<1>0. reminder \subseteq Key /\ job[r] \in ReminderJob
  BY DEF MailInv, ReminderShape
<1>1. CASE reserveReminder(r)
  <2>1. PICK n \in ReminderJob, k \in job[r].todo :
           /\ job' = [job EXCEPT ![r] = n] /\ n.at \in {"next", "lookup"} /\ n.key = k
           /\ reminder' = reminder \cup {k} /\ k \in Key
    BY <1>1, ReserveMoves
  <2>2. UNCHANGED <<marked, mailLog, mails>>
    BY <1>1 DEF reserveReminder
  <2> QED BY <1>0, <2>1, <2>2, JobKeeps
<1>2. CASE LookupLog(r)
  <2>1. job[r].key \in reminder /\ At(r, "lookup") /\ UNCHANGED <<reminder, marked, mailLog, mails>>
    BY <1>2 DEF MailInv, JobIsSound, LookupLog, At
  <2>2. PICK at \in {"create", "mark", "next"} : Go(r, at) /\ (at = "mark" => mailLog[job[r].key] = "SENT")
    <3>1. CASE mailLog[job[r].key] = "NONE"
      BY <1>2, <3>1 DEF LookupLog
    <3>2. CASE mailLog[job[r].key] = "SENT"
      BY <1>2, <3>2 DEF LookupLog
    <3>3. CASE mailLog[job[r].key] \notin {"NONE", "SENT"}
      BY <1>2, <3>3 DEF LookupLog
    <3> QED BY <3>1, <3>2, <3>3
  <2>3. at = "mark" => mails[job[r].key] = 1
    BY <1>0, <2>1, <2>2 DEF MailInv, MailIsSound
  <2>4. PICK n \in ReminderJob : job' = [job EXCEPT ![r] = n] /\ n.at = at /\ n.key = job[r].key
    BY <2>2, GoesOn
  <2> QED BY <1>0, <2>1, <2>2, <2>3, <2>4, JobKeeps
<1>3. CASE MarkSent(r)
  <2>1. job[r].key \in reminder /\ mails[job[r].key] = 1 /\ UNCHANGED <<reminder, mailLog, mails>>
        /\ marked' = marked \cup {job[r].key} /\ Go(r, "next")
    BY <1>3 DEF MailInv, JobIsSound, MarkSent, At
  <2>2. PICK n \in ReminderJob : job' = [job EXCEPT ![r] = n] /\ n.at = "next"
    BY <2>1, GoesOn
  <2>3. /\ job' \in [Runs -> ReminderJob] /\ job'[r] = n
        /\ \A q \in Runs \ {r} : job'[q] = job[q]
    BY <2>2, JobMoves
  <2>4. ReminderShape'
    BY <1>0, <2>1, <2>3 DEF MailInv, ReminderShape
  <2>5. \A q \in Runs : JobIsSound(q)' /\ (Mailing(q)' => Mailing(q) /\ job'[q].key = job[q].key)
    <3> SUFFICES ASSUME NEW q \in Runs PROVE JobIsSound(q)' /\ (Mailing(q)' => Mailing(q) /\ job'[q].key = job[q].key)
      OBVIOUS
    <3>1. CASE q = r
      BY <2>2, <2>3, <3>1 DEF JobIsSound, At, Mailing
    <3>2. CASE q # r
      BY <2>1, <2>3, <3>2 DEF MailInv, JobIsSound, At, Mailing
    <3> QED BY <3>1, <3>2
  <2>6. OneRunMails'
    BY <2>5 DEF MailInv, OneRunMails
  <2>7. \A k \in Key : MailIsSound(k)'
    BY <2>1 DEF MailInv, MailIsSound
  <2> QED BY <2>4, <2>5, <2>6, <2>7 DEF MailInv
<1> QED BY <1>1, <1>2, <1>3

\* The run that inserts the log is alone with the key.
LEMMA CreateMailLogKeeps ==
  ASSUME MailInv, NEW r \in Runs, CreateMailLog(r)
  PROVE  MailInv'
<1>0. reminder \subseteq Key /\ job[r].key \in reminder /\ UNCHANGED <<reminder, marked, mails>>
  BY DEF MailInv, ReminderShape, JobIsSound, CreateMailLog, At
<1>1. CASE mailLog[job[r].key] # "NONE"
  <2>1. UNCHANGED mailLog /\ Go(r, "next")
    BY <1>1 DEF CreateMailLog
  <2>2. PICK n \in ReminderJob : job' = [job EXCEPT ![r] = n] /\ n.at = "next"
    BY <2>1, GoesOn
  <2> QED BY <1>0, <2>1, <2>2, JobKeeps
<1>2. CASE mailLog[job[r].key] = "NONE"
  <2>1. mailLog' = [mailLog EXCEPT ![job[r].key] = "PENDING"] /\ Go(r, "send")
    BY <1>2 DEF CreateMailLog
  <2>2. PICK n \in ReminderJob : job' = [job EXCEPT ![r] = n] /\ n.at = "send" /\ n.key = job[r].key
    BY <2>1, GoesOn
  <2>3. /\ job' \in [Runs -> ReminderJob] /\ job'[r] = n
        /\ \A q \in Runs \ {r} : job'[q] = job[q]
    BY <2>2, JobMoves
  <2>4. ReminderShape'
    BY <1>0, <2>1, <2>3 DEF MailInv, ReminderShape
  <2>5. /\ mailLog'[job[r].key] = "PENDING" /\ mails[job[r].key] = 0
        /\ \A k \in Key : k # job[r].key => mailLog'[k] = mailLog[k]
    BY <1>0, <1>2, <2>1 DEF MailInv, ReminderShape, MailIsSound
  <2>6. \A q \in Runs \ {r} : Mailing(q) => job[q].key # job[r].key
    BY <1>2 DEF MailInv, JobIsSound, Mailing, At
  <2>7. \A q \in Runs : JobIsSound(q)'
    <3> SUFFICES ASSUME NEW q \in Runs PROVE JobIsSound(q)'
      OBVIOUS
    <3>1. CASE q = r
      BY <1>0, <2>2, <2>3, <2>5, <3>1 DEF JobIsSound, At
    <3>2. CASE q # r
      <4>1. job'[q] = job[q] /\ JobIsSound(q)
        BY <2>3, <3>2 DEF MailInv
      <4>2. Mailing(q) => job[q].key \in Key /\ mailLog'[job[q].key] = mailLog[job[q].key]
        BY <1>0, <2>5, <2>6, <3>2, <4>1 DEF JobIsSound, Mailing, At
      <4> QED BY <1>0, <4>1, <4>2 DEF JobIsSound, Mailing, At
    <3> QED BY <3>1, <3>2
  <2>8. OneRunMails'
    BY <2>2, <2>3, <2>6 DEF MailInv, OneRunMails, Mailing, At
  <2>9. \A k \in Key : MailIsSound(k)'
    BY <1>0, <2>5 DEF MailInv, MailIsSound
  <2> QED BY <2>4, <2>7, <2>8, <2>9 DEF MailInv
<1> QED BY <1>1, <1>2

\* Only the run at send mails, and it mails once.
LEMMA SendMailKeeps ==
  ASSUME MailInv, NEW r \in Runs, NEW accepted \in BOOLEAN, NEW nil \in BOOLEAN, SendMail(r, accepted, nil)
  PROVE  MailInv'
<1>0. /\ reminder \subseteq Key /\ job[r].key \in reminder /\ UNCHANGED <<reminder, marked, mailLog>>
      /\ Mailing(r) /\ At(r, "send") /\ mailLog[job[r].key] = "PENDING" /\ mails[job[r].key] = 0 /\ (nil => accepted)
      /\ mails' = [mails EXCEPT ![job[r].key] = IF accepted THEN @ + 1 ELSE @]
      /\ job' = [job EXCEPT ![r].at = "log", ![r].ok = nil]
  BY DEF MailInv, ReminderShape, JobIsSound, SendMail, At, Mailing
<1>1. PICK old \in ReminderJob : old = job[r]
  BY DEF MailInv, ReminderShape
<1>2. PICK n : n = [old EXCEPT !.at = "log", !.ok = nil]
  OBVIOUS
<1>3. n \in ReminderJob /\ n.at = "log" /\ n.key = old.key /\ n.ok = nil
  BY <1>2 DEF ReminderJob
<1>4. job' = [job EXCEPT ![r] = n]
  BY <1>0, <1>1, <1>2
<1>5. /\ job' \in [Runs -> ReminderJob] /\ job'[r] = n
      /\ \A q \in Runs \ {r} : job'[q] = job[q]
  BY <1>3, <1>4, JobMoves
<1>6. mails' \in [Key -> Nat] /\ (\A k \in Key : k # job[r].key => mails'[k] = mails[k])
      /\ mails'[job[r].key] = IF accepted THEN 1 ELSE 0
  BY <1>0 DEF MailInv, ReminderShape
<1>7. ReminderShape'
  BY <1>0, <1>5, <1>6 DEF MailInv, ReminderShape
<1>8. \A q \in Runs : JobIsSound(q)'
  <2> SUFFICES ASSUME NEW q \in Runs PROVE JobIsSound(q)'
    OBVIOUS
  <2>1. CASE q = r
    BY <1>0, <1>1, <1>3, <1>5, <1>6, <2>1 DEF JobIsSound, At
  <2>2. CASE q # r
    <3>1. job'[q] = job[q] /\ JobIsSound(q)
      BY <1>5, <2>2 DEF MailInv
    <3>2. Mailing(q) \/ At(q, "mark") => job[q].key # job[r].key
      BY <1>0, <2>2, <3>1 DEF MailInv, OneRunMails, Mailing, JobIsSound
    <3>3. Mailing(q) \/ At(q, "mark") => job[q].key \in Key /\ mails'[job[q].key] = mails[job[q].key]
      BY <1>0, <1>6, <3>1, <3>2 DEF JobIsSound, Mailing, At
    <3>4. /\ job[q].at \in {"lookup", "create", "send", "log", "mark"} => job[q].key \in reminder
          /\ job[q].at = "send" => mailLog[job[q].key] = "PENDING" /\ mails'[job[q].key] = 0
          /\ job[q].at = "log" => mailLog[job[q].key] # "NONE" /\ (job[q].ok => mails'[job[q].key] = 1)
          /\ job[q].at = "mark" => mails'[job[q].key] = 1
      BY <3>1, <3>3 DEF JobIsSound, Mailing, At
    <3>5. UNCHANGED <<reminder, mailLog, job[q]>>
      BY <1>0, <3>1
    <3>6. /\ job'[q].at \in {"lookup", "create", "send", "log", "mark"} => job'[q].key \in reminder'
          /\ job'[q].at = "send" => mailLog'[job'[q].key] = "PENDING" /\ mails'[job'[q].key] = 0
          /\ job'[q].at = "log" => mailLog'[job'[q].key] # "NONE" /\ (job'[q].ok => mails'[job'[q].key] = 1)
          /\ job'[q].at = "mark" => mails'[job'[q].key] = 1
      BY <3>4, <3>5
    <3> QED BY <3>6 DEF JobIsSound, At
  <2> QED BY <2>1, <2>2
<1>9. OneRunMails'
  <2>1. \A q \in Runs : Mailing(q)' => Mailing(q) /\ job'[q].key = job[q].key
    BY <1>0, <1>1, <1>3, <1>5 DEF Mailing, At
  <2> QED BY <2>1 DEF MailInv, OneRunMails
<1>10. \A k \in Key : MailIsSound(k)'
  <2> SUFFICES ASSUME NEW k \in Key PROVE MailIsSound(k)'
    OBVIOUS
  <2>1. CASE k = job[r].key
    BY <1>0, <1>6, <2>1 DEF MailInv, MailIsSound
  <2>2. CASE k # job[r].key
    BY <1>0, <1>6, <2>2 DEF MailInv, MailIsSound
  <2> QED BY <2>1, <2>2
<1> QED BY <1>7, <1>8, <1>9, <1>10 DEF MailInv

\* The log says SENT of a mail that went out.
LEMMA LogMailKeeps ==
  ASSUME MailInv, NEW r \in Runs, NEW stored \in BOOLEAN, LogMail(r, stored)
  PROVE  MailInv'
<1>0. /\ reminder \subseteq Key /\ job[r].key \in reminder /\ UNCHANGED <<reminder, marked, mails>>
      /\ Mailing(r) /\ At(r, "log") /\ (job[r].ok => mails[job[r].key] = 1)
      /\ Go(r, IF job[r].ok THEN "mark" ELSE "next")
  BY DEF MailInv, ReminderShape, JobIsSound, LogMail, At, Mailing
<1>1. PICK n \in ReminderJob :
        job' = [job EXCEPT ![r] = n] /\ n.at = (IF job[r].ok THEN "mark" ELSE "next") /\ n.key = job[r].key
  BY <1>0, GoesOn
<1>2. /\ job' \in [Runs -> ReminderJob] /\ job'[r] = n
      /\ \A q \in Runs \ {r} : job'[q] = job[q]
  BY <1>1, JobMoves
<1>3. mailLog' \in [Key -> {"NONE", "PENDING", "SENT", "FAILED"}] /\ (\A k \in Key : k # job[r].key => mailLog'[k] = mailLog[k])
      /\ (mailLog'[job[r].key] = mailLog[job[r].key] \/ mailLog'[job[r].key] = IF job[r].ok THEN "SENT" ELSE "FAILED")
  BY <1>0 DEF MailInv, ReminderShape, LogMail
<1>4. ReminderShape'
  BY <1>0, <1>2, <1>3 DEF MailInv, ReminderShape
<1>5. \A q \in Runs : JobIsSound(q)'
  <2> SUFFICES ASSUME NEW q \in Runs PROVE JobIsSound(q)'
    OBVIOUS
  <2>1. CASE q = r
    BY <1>0, <1>1, <1>2, <2>1 DEF JobIsSound, At
  <2>2. CASE q # r
    <3>1. job'[q] = job[q] /\ JobIsSound(q)
      BY <1>2, <2>2 DEF MailInv
    <3>2. Mailing(q) => job[q].key # job[r].key
      BY <1>0, <2>2 DEF MailInv, OneRunMails
    <3>3. Mailing(q) => job[q].key \in Key /\ mailLog'[job[q].key] = mailLog[job[q].key]
      BY <1>0, <1>3, <3>1, <3>2 DEF JobIsSound, Mailing, At
    <3> QED BY <1>0, <3>1, <3>3 DEF JobIsSound, Mailing, At
  <2> QED BY <2>1, <2>2
<1>6. OneRunMails'
  <2>1. \A q \in Runs : Mailing(q)' => Mailing(q) /\ job'[q].key = job[q].key
    BY <1>1, <1>2 DEF Mailing, At
  <2> QED BY <2>1 DEF MailInv, OneRunMails
<1>7. \A k \in Key : MailIsSound(k)'
  <2> SUFFICES ASSUME NEW k \in Key PROVE MailIsSound(k)'
    OBVIOUS
  <2>1. mailLog'[k] = mailLog[k] \/ mailLog'[k] = "FAILED" \/ (mailLog'[k] = "SENT" /\ mails[k] = 1)
    BY <1>0, <1>3
  <2> QED BY <1>0, <2>1 DEF MailInv, MailIsSound
<1> QED BY <1>4, <1>5, <1>6, <1>7 DEF MailInv

\* Every step keeps the invariant of the mails.
LEMMA MailInvNext == OperatingTypeOK /\ MailInv /\ [ReminderNext]_remindersAll => MailInv'
<1> SUFFICES ASSUME OperatingTypeOK, MailInv, [ReminderNext]_remindersAll PROVE MailInv'
  OBVIOUS
<1>1. UNCHANGED reminderVars => MailInv'
  BY DEF reminderVars, MailInv, ReminderShape, JobIsSound, OneRunMails, Mailing, MailIsSound, At
<1>2. ASSUME NEW r \in Runs, StartRun(r) \/ EndRun(r) PROVE MailInv'
  BY <1>2, StartAndEndKeep
<1>3. ASSUME NEW r \in Runs, reserveReminder(r) \/ LookupLog(r) \/ MarkSent(r) PROVE MailInv'
  BY <1>3, ReserveAndLookupKeep
<1>4. ASSUME NEW r \in Runs, CreateMailLog(r) PROVE MailInv'
  BY <1>4, CreateMailLogKeeps
<1>5. ASSUME NEW r \in Runs, NEW accepted \in BOOLEAN, NEW nil \in BOOLEAN, SendMail(r, accepted, nil) PROVE MailInv'
  BY <1>5, SendMailKeeps
<1>6. ASSUME NEW r \in Runs, NEW stored \in BOOLEAN, LogMail(r, stored) PROVE MailInv'
  BY <1>6, LogMailKeeps
<1> QED BY <1>1, <1>2, <1>3, <1>4, <1>5, <1>6 DEF ReminderNext, remindersAll

\* Nothing is mailed at first.
LEMMA MailInvInit == ReminderInit => OperatingInv /\ MailInv
<1> SUFFICES ASSUME ReminderInit PROVE OperatingInv /\ MailInv
  OBVIOUS
<1>1. OperatingInv
  BY OperatingInvInit DEF ReminderInit
<1>2. \A r \in Runs : job[r] = NoJob /\ job[r].at = "off"
  BY <1>1, NoJobIsNone DEF ReminderInit, OperatingInv
<1>3. ReminderShape
  BY <1>1, NoJobIsNone DEF ReminderInit, ReminderShape, OperatingInv
<1>4. \A r \in Runs : JobIsSound(r) /\ ~Mailing(r)
  BY <1>2 DEF JobIsSound, At, Mailing
<1>5. \A k \in Key : MailIsSound(k)
  BY DEF ReminderInit, MailIsSound
<1> QED BY <1>1, <1>3, <1>4, <1>5 DEF MailInv, OneRunMails

\* The tables of the operating status change as they do without the reminders.
LEMMA RemindersOperate == [ReminderNext]_remindersAll => [OperatingNext]_operatingVars
<1> SUFFICES ASSUME ReminderNext PROVE [OperatingNext]_operatingVars
  BY DEF remindersAll
<1>1. ASSUME NEW v \in Vendors, Billing(v) \/ \E c \in Calls : GetCompliance(c, v, "grace")
      PROVE  OperatingNext
  BY <1>1 DEF Billing, SubscriptionStatus, OperatingNext
<1>2. ASSUME NEW c \in Calls, GetSubscription(c) \/ RequestGrace(c) PROVE OperatingNext
  BY <1>2 DEF OperatingNext
<1>3. ClockAdvances => OperatingNext
  BY DEF OperatingNext
<1>4. ASSUME NEW r \in Runs,
             \/ StartRun(r) \/ reserveReminder(r) \/ LookupLog(r) \/ CreateMailLog(r)
             \/ \E accepted, nil \in BOOLEAN : SendMail(r, accepted, nil)
             \/ \E stored \in BOOLEAN : LogMail(r, stored)
             \/ MarkSent(r) \/ EndRun(r)
      PROVE  UNCHANGED operatingVars
  BY <1>4 DEF StartRun, reserveReminder, LookupLog, CreateMailLog, SendMail, LogMail, MarkSent, EndRun
<1> QED BY <1>1, <1>2, <1>3, <1>4 DEF ReminderNext

\* The invariants of the reminders hold in every reachable state.
LEMMA MailInvariance == ReminderSpec => [](OperatingInv /\ MailInv)
<1>1. OperatingInv => OperatingTypeOK
  BY DEF OperatingInv
<1> QED BY <1>1, MailInvInit, MailInvNext, RemindersOperate, OperatingInvNext, PTL DEF ReminderSpec

\* A reminder is mailed at most once, and exactly once when it is marked sent, however
\* many runs of cmd/vendor-reminders overlap, die or lose an answer.
THEOREM RemindersAreMailedOnce == ReminderSpec => []OneMailPerReminder
<1>1. MailInv => OneMailPerReminder
  BY DEF MailInv, MailIsSound, OneMailPerReminder
<1> QED BY <1>1, MailInvariance, PTL

-----------------------------------------------------------------------------

\* What run r may still say: of its list, and of the reminder it is at.
Sayable(r) ==
  {[vendor |-> k.vendor, type |-> k.type, at |-> job[r].now] : k \in job[r].todo \cup ({job[r].key} \ {None})}

\* What vendors were told, or may be by the runs under way.
Heard == stories \cup UNION {Sayable(r) : r \in Runs}

\* Who hears that a grace period is about to end had one that ended within a day; and who
\* hears that payment is due had none, but one that was over or one granted later.
StoryInv ==
  \A s \in Heard :
    /\ s.at \in Nat /\ s.at <= present
    /\ s.type = "GRACE_EXPIRING" =>
         \E g \in grace : g.vendor = s.vendor /\ s.at < g.ends /\ g.ends - s.at <= DayLength
    /\ s.type = "SUBSCRIPTION_DUE" =>
         \A g \in grace : g.vendor = s.vendor => g.ends <= s.at \/ g.ends >= s.at + GraceLength - 1

\* Nothing new is heard, and the clock and the grace periods stay.
LEMMA StoryStays ==
  ASSUME StoryInv, Heard' \subseteq Heard, UNCHANGED <<present, grace>>
  PROVE  StoryInv'
BY DEF StoryInv

\* A run that draws nothing up says what it could have said before.
LEMMA HeardMoves ==
  ASSUME MailInv, NEW r \in Runs, NEW n \in ReminderJob, job' = [job EXCEPT ![r] = n],
         NEW D, stories' \subseteq Heard,
         \A k \in n.todo \cup ({n.key} \ {None}) : [vendor |-> k.vendor, type |-> k.type, at |-> n.now] \in Sayable(r) \cup D
  PROVE  Heard' \subseteq Heard \cup D
<1>1. /\ job'[r] = n /\ \A q \in Runs \ {r} : job'[q] = job[q]
  BY JobMoves
<1>2. \A q \in Runs \ {r} : Sayable(q)' = Sayable(q)
  BY <1>1 DEF Sayable
<1>3. Sayable(r)' \subseteq Sayable(r) \cup D
  <2> SUFFICES ASSUME NEW s \in Sayable(r)' PROVE s \in Sayable(r) \cup D
    OBVIOUS
  <2>1. PICK k \in n.todo \cup ({n.key} \ {None}) : s = [vendor |-> k.vendor, type |-> k.type, at |-> n.now]
    BY <1>1 DEF Sayable
  <2> QED BY <2>1
<1> HIDE DEF Sayable
<1> QED BY <1>2, <1>3 DEF Heard

\* A run that works its list off says what was on it.
LEMMA WorkSaysNothingNew ==
  ASSUME OperatingTypeOK, MailInv, NEW r \in Runs,
         \/ reserveReminder(r) \/ LookupLog(r) \/ CreateMailLog(r)
         \/ (\E accepted, nil \in BOOLEAN : SendMail(r, accepted, nil))
         \/ (\E stored \in BOOLEAN : LogMail(r, stored))
         \/ MarkSent(r) \/ EndRun(r)
  PROVE  Heard' \subseteq Heard /\ UNCHANGED <<present, grace>>
<1>0. stories \subseteq Heard /\ Sayable(r) \subseteq Heard /\ job[r] \in ReminderJob
  BY DEF Heard, MailInv, ReminderShape
<1>1. ASSUME NEW n \in ReminderJob, job' = [job EXCEPT ![r] = n], stories' \subseteq Heard,
             n.todo \cup ({n.key} \ {None}) \subseteq job[r].todo \cup ({job[r].key} \ {None}), n.now = job[r].now
      PROVE  Heard' \subseteq Heard
  <2>1. \A k \in n.todo \cup ({n.key} \ {None}) : [vendor |-> k.vendor, type |-> k.type, at |-> n.now] \in Sayable(r) \cup {}
    BY <1>1 DEF Sayable
  <2> QED BY <1>1, <2>1, HeardMoves
<1>2. CASE reserveReminder(r)
  <2>1. PICK n \in ReminderJob, k \in job[r].todo :
           job' = [job EXCEPT ![r] = n] /\ n.key = k /\ n.todo = job[r].todo \ {k} /\ n.now = job[r].now
    BY <1>2, ReserveMoves
  <2>2. UNCHANGED <<stories, present, grace>>
    BY <1>2 DEF reserveReminder, operatingVars
  <2>3. n.todo \cup ({n.key} \ {None}) \subseteq job[r].todo \cup ({job[r].key} \ {None})
    BY <2>1
  <2> QED BY <1>0, <1>1, <2>1, <2>2, <2>3
<1>3. CASE \E at \in {"next", "lookup", "create", "send", "log", "mark"} : Go(r, at) /\ UNCHANGED <<operatingVars, stories>>
  <2>1. PICK n \in ReminderJob :
           job' = [job EXCEPT ![r] = n] /\ n.todo = job[r].todo /\ n.key = job[r].key /\ n.now = job[r].now
    BY <1>3, GoesOn
  <2> QED BY <1>0, <1>1, <1>3, <2>1 DEF operatingVars
<1>4. ASSUME NEW accepted \in BOOLEAN, NEW nil \in BOOLEAN, SendMail(r, accepted, nil)
      PROVE  Heard' \subseteq Heard /\ UNCHANGED <<present, grace>>
  <2>1. PICK n : n = [job[r] EXCEPT !.at = "log", !.ok = nil]
    OBVIOUS
  <2>2. n \in ReminderJob /\ n.todo = job[r].todo /\ n.key = job[r].key /\ n.now = job[r].now
    BY <1>0, <2>1 DEF ReminderJob
  <2>3. job' = [job EXCEPT ![r] = n] /\ UNCHANGED <<present, grace>> /\ stories' \subseteq stories \cup {Said(r)}
    BY <1>4, <2>1 DEF SendMail, operatingVars
  <2>4. Said(r) \in Sayable(r)
    <3>1. job[r].key \in Key
      BY <1>4 DEF MailInv, ReminderShape, JobIsSound, SendMail, At
    <3>2. job[r].key # None
      BY <3>1, ReminderAssumption
    <3> QED BY <3>1, <3>2 DEF Said, Sayable
  <2> QED BY <1>0, <1>1, <2>2, <2>3, <2>4
<1>5. CASE EndRun(r)
  <2>1. job' = [job EXCEPT ![r] = NoJob] /\ UNCHANGED <<present, grace, stories>>
    BY <1>5 DEF EndRun, operatingVars
  <2>2. NoJob \in ReminderJob /\ NoJob.todo = {} /\ NoJob.key = None
    BY NoJobIsNone DEF NoJob
  <2>3. \A k \in NoJob.todo \cup ({NoJob.key} \ {None}) :
          [vendor |-> k.vendor, type |-> k.type, at |-> NoJob.now] \in Sayable(r) \cup {}
    BY <2>2
  <2>4. Heard' \subseteq Heard \cup {}
    BY <1>0, <2>1, <2>2, <2>3, HeardMoves
  <2> QED BY <2>1, <2>4
<1>6. LookupLog(r) \/ CreateMailLog(r) \/ MarkSent(r) \/ (\E stored \in BOOLEAN : LogMail(r, stored)) =>
        \E at \in {"next", "lookup", "create", "send", "log", "mark"} : Go(r, at) /\ UNCHANGED <<operatingVars, stories>>
  <2>1. CASE LookupLog(r)
    <3>1. CASE mailLog[job[r].key] = "NONE"
      BY <2>1, <3>1 DEF LookupLog
    <3>2. CASE mailLog[job[r].key] = "SENT"
      BY <2>1, <3>2 DEF LookupLog
    <3>3. CASE mailLog[job[r].key] \notin {"NONE", "SENT"}
      BY <2>1, <3>3 DEF LookupLog
    <3> QED BY <3>1, <3>2, <3>3
  <2>2. CASE CreateMailLog(r)
    BY <2>2 DEF CreateMailLog
  <2>3. CASE MarkSent(r)
    BY <2>3 DEF MarkSent
  <2>4. CASE \E stored \in BOOLEAN : LogMail(r, stored)
    BY <2>4 DEF LogMail
  <2> QED BY <2>1, <2>2, <2>3, <2>4
<1> QED BY <1>2, <1>3, <1>4, <1>5, <1>6

\* A list says of each vendor what the grace periods of its instant are.
LEMMA ListIsTrue ==
  ASSUME OperatingInv, MailInv, StoryInv, NEW r \in Runs, StartRun(r)
  PROVE  StoryInv'
<1> DEFINE Due == {[vendor |-> k.vendor, type |-> k.type, at |-> present] : k \in DueReminders(present)}
<1>0. OperatingTypeOK
  BY DEF OperatingInv
<1>1. PICK n : n = [NoJob EXCEPT !.at = "next", !.now = present, !.todo = DueReminders(present)]
  OBVIOUS
<1>2. n \in ReminderJob /\ n.todo = DueReminders(present) /\ n.key = None /\ n.now = present
  BY <1>0, <1>1, NoJobIsNone, ListedAreKeys DEF ReminderJob, OperatingTypeOK, NoJob
<1>3. job' = [job EXCEPT ![r] = n] /\ UNCHANGED <<stories, present, grace>>
  BY <1>1 DEF StartRun, operatingVars
<1>4. Heard' \subseteq Heard \cup Due
  <2>1. \A k \in n.todo \cup ({n.key} \ {None}) : [vendor |-> k.vendor, type |-> k.type, at |-> n.now] \in Sayable(r) \cup Due
    BY <1>2
  <2>2. stories' \subseteq Heard
    BY <1>3 DEF Heard
  <2> HIDE DEF Due
  <2> QED BY <1>2, <1>3, <2>1, <2>2, HeardMoves
<1>5. present \in Nat /\ GraceLength \in Nat /\ \A g \in grace : g.ends \in Nat /\ g.status \in {"ACTIVE", "EXPIRED"}
  BY OperatingTypes DEF OperatingAssumption
<1>6. \A g \in grace : g.status = "EXPIRED" => g.ends <= present
  BY DEF OperatingInv, RowsAreSound
<1>7. ASSUME NEW v, NEW t \in chooseReminder(v, present)
      PROVE  /\ t = "GRACE_EXPIRING" =>
                  \E g \in grace : g.vendor = v /\ present < g.ends /\ g.ends - present <= DayLength
             /\ t = "SUBSCRIPTION_DUE" => \A g \in grace : g.vendor = v => g.ends <= present
  <2> DEFINE rows == {g \in grace : IsActive(g, v, present)}
  <2>1. CASE rows # {}
    <3>1. t \in {"GRACE_EXPIRING" : g \in {h \in rows : h.ends - present <= DayLength}}
      BY <1>7, <2>1 DEF chooseReminder
    <3>2. PICK g \in rows : t = "GRACE_EXPIRING" /\ g.ends - present <= DayLength
      BY <3>1
    <3>3. g \in grace /\ g.vendor = v /\ g.ends > present
      BY <3>2 DEF IsActive
    <3> QED BY <1>5, <3>2, <3>3
  <2>2. CASE rows = {}
    <3>1. t = "SUBSCRIPTION_DUE"
      BY <1>7, <2>2 DEF chooseReminder
    <3>2. ASSUME NEW g \in grace, g.vendor = v PROVE g.ends <= present
      <4>1. ~IsActive(g, v, present)
        BY <2>2
      <4> QED BY <1>5, <1>6, <3>2, <4>1 DEF IsActive
    <3> QED BY <3>1, <3>2
  <2> QED BY <2>1, <2>2
<1>8. ASSUME NEW s \in Heard'
      PROVE  /\ s.at \in Nat /\ s.at <= present
             /\ s.type = "GRACE_EXPIRING" =>
                  \E g \in grace : g.vendor = s.vendor /\ s.at < g.ends /\ g.ends - s.at <= DayLength
             /\ s.type = "SUBSCRIPTION_DUE" =>
                  \A g \in grace : g.vendor = s.vendor => g.ends <= s.at \/ g.ends >= s.at + GraceLength - 1
  <2>1. CASE s \in Heard
    BY <2>1 DEF StoryInv
  <2>2. CASE s \in Due
    <3>1. PICK k \in DueReminders(present) : s = [vendor |-> k.vendor, type |-> k.type, at |-> present]
      BY <2>2
    <3>2. s.type \in chooseReminder(s.vendor, present) /\ s.at = present
      BY <1>0, <3>1, ListedAreKeys
    <3> QED BY <1>5, <1>7, <3>2
  <2> QED BY <1>4, <2>1, <2>2
<1> QED BY <1>3, <1>8 DEF StoryInv

\* The clock contradicts nothing that was said.
LEMMA ClockKeepsTheStory ==
  ASSUME OperatingTypeOK, StoryInv, ClockAdvances, UNCHANGED reminderVars
  PROVE  StoryInv'
<1>1. Heard' = Heard /\ present' = present + 1 /\ present \in Nat /\ grace' = grace
  BY DEF ClockAdvances, Heard, Sayable, reminderVars, OperatingTypeOK, Instant
<1>2. \A s \in Heard : s.at \in Nat /\ s.at <= present + 1
  BY <1>1 DEF StoryInv
<1> QED BY <1>1, <1>2 DEF StoryInv

\* A request for grace took its instant no earlier than one before any run that has
\* begun, so that the period it grants lasts nearly GraceLength beyond that run.
LEMMA GrantKeepsTheStory ==
  ASSUME OperatingInv, MailInv, StoryInv, NEW c \in Calls, RequestGrace(c), UNCHANGED reminderVars
  PROVE  StoryInv'
<1>1. PICK ask : ask = visit[c]
  OBVIOUS
<1>2. Heard' = Heard /\ UNCHANGED present /\ Asks(c) /\ grace' = CreateGrace(ask)
  BY <1>1 DEF RequestGrace, Heard, Sayable, reminderVars, Asks
<1>3. /\ present \in Nat /\ ask.now \in Nat /\ present <= ask.now + 1 /\ GraceLength \in Nat
      /\ \A g \in grace : g.ends \in Nat
  BY <1>1, <1>2, OperatingTypes DEF OperatingAssumption
<1>4. /\ \A g \in grace : \E h \in grace' : SameTerm(g, h)
      /\ \A h \in grace' : h = NewGrace(ask) \/ \E g \in grace : SameTerm(g, h)
  BY <1>1, <1>2, CreateGraceRows
<1>5. ASSUME NEW s \in Heard
      PROVE  /\ s.at \in Nat /\ s.at <= present
             /\ s.type = "GRACE_EXPIRING" =>
                  \E g \in grace' : g.vendor = s.vendor /\ s.at < g.ends /\ g.ends - s.at <= DayLength
             /\ s.type = "SUBSCRIPTION_DUE" =>
                  \A g \in grace' : g.vendor = s.vendor => g.ends <= s.at \/ g.ends >= s.at + GraceLength - 1
  <2>1. s.at \in Nat /\ s.at <= present
    BY DEF StoryInv
  <2>2. ASSUME s.type = "GRACE_EXPIRING"
        PROVE  \E g \in grace' : g.vendor = s.vendor /\ s.at < g.ends /\ g.ends - s.at <= DayLength
    <3>1. PICK g \in grace : g.vendor = s.vendor /\ s.at < g.ends /\ g.ends - s.at <= DayLength
      BY <2>2 DEF StoryInv
    <3> QED BY <1>4, <3>1 DEF SameTerm
  <2>3. ASSUME s.type = "SUBSCRIPTION_DUE", NEW h \in grace', h.vendor = s.vendor
        PROVE  h.ends <= s.at \/ h.ends >= s.at + GraceLength - 1
    <3>1. CASE h = NewGrace(ask)
      <4>1. h.ends = ask.now + GraceLength
        BY <3>1 DEF NewGrace
      <4> QED BY <1>3, <2>1, <4>1
    <3>2. CASE \E g \in grace : SameTerm(g, h)
      BY <2>3, <3>2 DEF StoryInv, SameTerm
    <3> QED BY <1>4, <3>1, <3>2
  <2> QED BY <2>1, <2>2, <2>3
<1> QED BY <1>2, <1>5 DEF StoryInv

\* Every step keeps the stories true.
LEMMA StoryInvNext ==
  OperatingInv /\ MailInv /\ StoryInv /\ [ReminderNext]_remindersAll => StoryInv'
<1> SUFFICES ASSUME OperatingInv, MailInv, StoryInv, [ReminderNext]_remindersAll PROVE StoryInv'
  OBVIOUS
<1>0. OperatingTypeOK
  BY DEF OperatingInv
<1>1. ASSUME UNCHANGED <<present, grace, stories, job>> PROVE StoryInv'
  <2>1. Heard' = Heard
    BY <1>1 DEF Heard, Sayable
  <2> QED BY <1>1, <2>1, StoryStays
<1>2. ASSUME NEW v \in Vendors, Billing(v) \/ (\E c \in Calls : GetCompliance(c, v, "grace")), UNCHANGED reminderVars
      PROVE  StoryInv'
  BY <1>1, <1>2 DEF Billing, Subscribe, ChangeStatus, PayCheckout, Bill, GetCompliance, reminderVars
<1>3. ASSUME NEW c \in Calls, GetSubscription(c), UNCHANGED reminderVars PROVE StoryInv'
  BY <1>1, <1>3 DEF GetSubscription, reminderVars
<1>4. ASSUME NEW c \in Calls, RequestGrace(c), UNCHANGED reminderVars PROVE StoryInv'
  BY <1>4, GrantKeepsTheStory
<1>5. ClockAdvances /\ UNCHANGED reminderVars => StoryInv'
  BY <1>0, ClockKeepsTheStory
<1>6. ASSUME NEW r \in Runs, StartRun(r) PROVE StoryInv'
  BY <1>6, ListIsTrue
<1>7. ASSUME NEW r \in Runs,
             \/ reserveReminder(r) \/ LookupLog(r) \/ CreateMailLog(r)
             \/ (\E accepted, nil \in BOOLEAN : SendMail(r, accepted, nil))
             \/ (\E stored \in BOOLEAN : LogMail(r, stored))
             \/ MarkSent(r) \/ EndRun(r)
      PROVE  StoryInv'
  BY <1>0, <1>7, WorkSaysNothingNew, StoryStays
<1>8. UNCHANGED remindersAll => StoryInv'
  BY <1>1 DEF remindersAll, operatingVars, reminderVars
<1> QED BY <1>2, <1>3, <1>4, <1>5, <1>6, <1>7, <1>8 DEF ReminderNext

\* Nothing is said at first.
LEMMA StoryInvInit == ReminderInit => StoryInv
<1> SUFFICES ASSUME ReminderInit PROVE StoryInv
  OBVIOUS
<1>1. \A r \in Runs : Sayable(r) = {}
  BY DEF ReminderInit, NoJob, Sayable
<1> QED BY <1>1 DEF StoryInv, Heard, ReminderInit

\* Two stories of one day that differ are told by two runs, one before the end of a grace
\* period and one after, if a grace period is longer than two days: the code's is five.
THEOREM StoriesFollowGrace == GraceLength > 2 * DayLength => (ReminderSpec => []StoryFollowsGrace)
<1> SUFFICES ASSUME GraceLength > 2 * DayLength PROVE ReminderSpec => []StoryFollowsGrace
  OBVIOUS
<1>1. OperatingInv /\ StoryInv => StoryFollowsGrace
  <2> SUFFICES ASSUME OperatingInv, StoryInv, NEW s \in stories, NEW t \in stories, s.vendor = t.vendor, DayOf(s.at) = DayOf(t.at),
                      s.type = "GRACE_EXPIRING", t.type = "SUBSCRIPTION_DUE"
               PROVE  \E g \in grace : g.vendor = s.vendor /\ s.at < g.ends /\ g.ends <= t.at
    BY DEF StoryFollowsGrace
  <2>1. s \in Heard /\ t \in Heard
    BY DEF Heard
  <2>2. PICK g \in grace : g.vendor = s.vendor /\ s.at < g.ends /\ g.ends - s.at <= DayLength
    BY <2>1 DEF StoryInv
  <2>3. g.ends <= t.at \/ g.ends >= t.at + GraceLength - 1
    BY <2>1, <2>2 DEF StoryInv
  <2>4. s.at \in Nat /\ t.at \in Nat /\ g.ends \in Nat /\ GraceLength \in Nat /\ DayLength \in Nat
    BY <2>1, OperatingTypes, ReminderAssumption DEF StoryInv, OperatingAssumption
  <2>5. s.at - t.at < DayLength
    BY <2>4, DaysAreShort
  <2>6. g.ends <= t.at
    BY <2>2, <2>3, <2>4, <2>5
  <2> QED BY <2>2, <2>6
<1>2. OperatingInv /\ MailInv /\ StoryInv /\ [ReminderNext]_remindersAll => StoryInv'
  BY StoryInvNext
<1> QED BY <1>1, <1>2, MailInvariance, StoryInvInit, PTL DEF ReminderSpec

HIDE OperatingAssumption

-----------------------------------------------------------------------------
(* Notifications *)

USE OutboxAssumption DEF Events

\* The channels of a sequence are different.
Different(s) == \A i, j \in DOMAIN s : s[i] = s[j] => i = j

\* Two sequences of different channels that share none, one after the other.
LEMMA DifferentTogether ==
  ASSUME NEW s \in Seq(Channel), NEW t \in Seq(Channel), Different(s), Different(t),
         \A i \in DOMAIN s, j \in DOMAIN t : s[i] # t[j]
  PROVE  s \o t \in Seq(Channel) /\ Different(s \o t)
<1>1. /\ Len(s) \in Nat /\ Len(t) \in Nat /\ DOMAIN s = 1..Len(s) /\ DOMAIN t = 1..Len(t)
      /\ s \o t \in Seq(Channel) /\ Len(s \o t) = Len(s) + Len(t) /\ DOMAIN (s \o t) = 1..(Len(s) + Len(t))
  OBVIOUS
<1>2. \A i \in 1..(Len(s) + Len(t)) :
        \/ i \in 1..Len(s) /\ (s \o t)[i] = s[i]
        \/ i > Len(s) /\ i - Len(s) \in 1..Len(t) /\ (s \o t)[i] = t[i - Len(s)]
  BY <1>1
<1>3. ASSUME NEW i \in 1..(Len(s) + Len(t)), NEW j \in 1..(Len(s) + Len(t)), (s \o t)[i] = (s \o t)[j]
      PROVE  i = j
  <2>1. CASE i \in 1..Len(s) /\ (s \o t)[i] = s[i] /\ j \in 1..Len(s) /\ (s \o t)[j] = s[j]
    BY <1>1, <1>3, <2>1 DEF Different
  <2>2. CASE i \in 1..Len(s) /\ (s \o t)[i] = s[i] /\ j - Len(s) \in 1..Len(t) /\ (s \o t)[j] = t[j - Len(s)]
    BY <1>1, <1>3, <2>2
  <2>3. CASE i - Len(s) \in 1..Len(t) /\ (s \o t)[i] = t[i - Len(s)] /\ j \in 1..Len(s) /\ (s \o t)[j] = s[j]
    BY <1>1, <1>3, <2>3
  <2>4. CASE i - Len(s) \in 1..Len(t) /\ (s \o t)[i] = t[i - Len(s)] /\ j - Len(s) \in 1..Len(t) /\ (s \o t)[j] = t[j - Len(s)]
    <3>1. i - Len(s) = j - Len(s)
      BY <1>1, <1>3, <2>4 DEF Different
    <3> QED BY <1>1, <3>1
  <2> QED BY <1>2, <2>1, <2>2, <2>3, <2>4
<1> QED BY <1>1, <1>3 DEF Different

\* The recipients of an event are channels, each named once.
LEMMA RecipientsAreChannels ==
  ASSUME NEW e
  PROVE  Recipients(e) \in Seq(Channel) /\ Different(Recipients(e))
<1> DEFINE To(c) == IF c \in resolveChannels(e) \cap Contacts[e] THEN <<c>> ELSE <<>>
<1>0. Recipients(e) = To("SMS") \o To("PUSH") \o To("EMAIL")
  BY DEF Recipients
<1>1. \A c \in Channel : To(c) \in Seq(Channel) /\ Different(To(c)) /\ \A i \in DOMAIN To(c) : To(c)[i] = c
  <2> SUFFICES ASSUME NEW c \in Channel PROVE To(c) \in Seq(Channel) /\ Different(To(c)) /\ \A i \in DOMAIN To(c) : To(c)[i] = c
    OBVIOUS
  <2>1. CASE To(c) = <<c>>
    BY <2>1 DEF Different
  <2>2. CASE To(c) = <<>>
    <3>1. <<>> \in Seq(Channel) /\ DOMAIN <<>> = {}
      OBVIOUS
    <3> HIDE DEF To
    <3> QED BY <2>2, <3>1 DEF Different
  <2> QED BY <2>1, <2>2
<1> HIDE DEF To
<1>2. "SMS" \in Channel /\ "PUSH" \in Channel /\ "EMAIL" \in Channel
  BY DEF Channel
<1> DEFINE both == To("SMS") \o To("PUSH")
<1>3. both \in Seq(Channel) /\ Different(both)
  BY <1>1, <1>2, DifferentTogether
<1>4. \A i \in DOMAIN both : both[i] # "EMAIL"
  BY <1>1, <1>2
<1> HIDE DEF both
<1>5. both \o To("EMAIL") \in Seq(Channel) /\ Different(both \o To("EMAIL"))
  BY <1>1, <1>2, <1>3, <1>4, DifferentTogether
<1> QED BY <1>0, <1>5 DEF both

\* The first of a sequence of different channels, and the rest.
LEMMA HeadAndTail ==
  ASSUME NEW s \in Seq(Channel), s # <<>>, Different(s)
  PROVE  /\ Head(s) \in Channel /\ Tail(s) \in Seq(Channel) /\ Different(Tail(s))
         /\ Range(s) = {Head(s)} \cup Range(Tail(s)) /\ Head(s) \notin Range(Tail(s))
<1>1. /\ Len(s) \in Nat /\ Len(s) >= 1 /\ DOMAIN s = 1..Len(s) /\ Head(s) = s[1] /\ Head(s) \in Channel
      /\ Tail(s) \in Seq(Channel) /\ DOMAIN Tail(s) = 1..(Len(s) - 1)
      /\ \A i \in 1..(Len(s) - 1) : Tail(s)[i] = s[i + 1]
  OBVIOUS
<1>2. Different(Tail(s))
  BY <1>1 DEF Different
<1>3. \A i \in 1..Len(s) : i = 1 \/ (i - 1 \in 1..(Len(s) - 1) /\ s[i] = Tail(s)[i - 1])
  BY <1>1
<1>4. Range(s) = {Head(s)} \cup Range(Tail(s))
  <2>1. \A i \in 1..Len(s) : s[i] \in {Head(s)} \cup Range(Tail(s))
    BY <1>1, <1>3 DEF Range
  <2>2. \A i \in 1..(Len(s) - 1) : i + 1 \in 1..Len(s) /\ Tail(s)[i] = s[i + 1]
    BY <1>1
  <2>3. 1 \in 1..Len(s)
    BY <1>1
  <2> QED BY <1>1, <2>1, <2>2, <2>3 DEF Range
<1>5. Head(s) \notin Range(Tail(s))
  <2> SUFFICES ASSUME NEW i \in 1..(Len(s) - 1), Tail(s)[i] = s[1] PROVE FALSE
    BY <1>1 DEF Range
  <2> QED BY <1>1 DEF Different
<1> QED BY <1>1, <1>2, <1>4, <1>5

\* The rows of logs and what is counted of messages.
DeliveryShape ==
  /\ todo \in [Workers -> Seq(Channel)]
  /\ stage \in [Workers -> {"none", "logged", "answered"}]
  /\ answer \in [Workers -> BOOLEAN]
  /\ logs \in [Events -> [Channel -> [LogStatus -> Int]]]
  /\ sent \in [Events -> [Channel -> Nat]]
  /\ told \in [Events -> SUBSET Channel]

\* What a worker knows of the event it has in hand: every channel that is not to do any
\* more was answered with nil.
WorkerIsSound(w) ==
  /\ Different(todo[w])
  /\ stage[w] # "none" => Serving(w)
  /\ step[w] = "handling" => Range(Recipients(current[w].event)) \subseteq told[current[w].event] \cup Range(todo[w])
  /\ ok[w] => Range(Recipients(current[w].event)) \subseteq told[current[w].event]
  /\ stage[w] = "answered" /\ answer[w] => Head(todo[w]) \in told[current[w].event]

ToldIsSound ==
  \A e \in Events :
    /\ status[e] = "DELIVERED" => Range(Recipients(e)) \subseteq told[e]
    /\ \A c \in told[e] \cap ReadsRefusals : sent[e][c] > 0

\* Worker w is at channel c of event e.
Serves(w, e, c) == Serving(w) /\ current[w].event = e /\ Head(todo[w]) = c

\* The workers whose row is inserted and whose message is not sent, and those whose
\* message was answered with nil and whose row is not updated.
LoggedBy(e, c) == {w \in Workers : Serves(w, e, c) /\ stage[w] = "logged"}
AnsweredBy(e, c) == {w \in Workers : Serves(w, e, c) /\ stage[w] = "answered" /\ answer[w]}

\* The channels for which worker w has still to call the adapter.
Unserved(w) == IF stage[w] = "answered" THEN Range(Tail(todo[w])) ELSE Range(todo[w])

\* Attempt a of event e, in the hands of w, may still send on c.
MaySend(w, e, a, c) ==
  \/ [event |-> e, attempt |-> a] \in batch[w]
  \/ /\ current[w] = [event |-> e, attempt |-> a] /\ step[w] = "handling"
     /\ c \in Unserved(w)

Pending(e, c) == {a \in 1..attempts[e] : \E w \in Workers : MaySend(w, e, a, c)}

Rows(e, c) == logs[e][c]["PENDING"] + logs[e][c]["SENT"] + logs[e][c]["FAILED"]

CountIsSound(e, c) ==
  /\ logs[e][c]["SENT"] > 0 => c \in told[e]
  /\ sent[e][c] + Cardinality(LoggedBy(e, c)) <= Rows(e, c)
  /\ c \in ReadsRefusals => logs[e][c]["SENT"] + Cardinality(AnsweredBy(e, c)) <= sent[e][c]
  /\ sent[e][c] + Cardinality(Pending(e, c)) <= attempts[e]

CountsAreSound == \A e \in Events, c \in Channel : CountIsSound(e, c)

DeliveryInv == IndInv /\ DeliveryShape /\ (\A w \in Workers : WorkerIsSound(w)) /\ ToldIsSound

-----------------------------------------------------------------------------

\* The sets that are counted are finite.
LEMMA CountsAreFinite ==
  ASSUME IsFiniteSet(Workers), TypeOK, NEW e \in Events, NEW c
  PROVE  IsFiniteSet(LoggedBy(e, c)) /\ IsFiniteSet(AnsweredBy(e, c)) /\ IsFiniteSet(Pending(e, c))
<1>1. LoggedBy(e, c) \in SUBSET Workers /\ AnsweredBy(e, c) \in SUBSET Workers
  BY DEF LoggedBy, AnsweredBy
<1>2. Pending(e, c) \in SUBSET (1..attempts[e])
  BY DEF Pending
<1>3. IsFiniteSet(1..attempts[e])
  BY FS_Interval DEF TypeOK
<1> QED BY <1>1, <1>2, <1>3, FS_Subset

\* A set that loses an element, or gains one at most.
LEMMA Counted ==
  ASSUME NEW S, IsFiniteSet(S), NEW T
  PROVE  /\ Cardinality(S) \in Nat
         /\ T \subseteq S => Cardinality(T) \in Nat /\ Cardinality(T) <= Cardinality(S)
         /\ \A x : T \subseteq S \cup {x} => Cardinality(T) \in Nat /\ Cardinality(T) <= Cardinality(S) + 1
         /\ \A x \in S : T \subseteq S \ {x} => Cardinality(T) \in Nat /\ Cardinality(T) + 1 <= Cardinality(S)
<1>1. Cardinality(S) \in Nat
  BY FS_CardinalityType
<1>2. ASSUME T \subseteq S PROVE Cardinality(T) \in Nat /\ Cardinality(T) <= Cardinality(S)
  BY <1>2, FS_Subset, FS_CardinalityType
<1>3. ASSUME NEW x, T \subseteq S \cup {x}
      PROVE  Cardinality(T) \in Nat /\ Cardinality(T) <= Cardinality(S) + 1
  <2>1. IsFiniteSet(S \cup {x}) /\ Cardinality(S \cup {x}) = IF x \in S THEN Cardinality(S) ELSE Cardinality(S) + 1
    BY FS_AddElement
  <2>2. Cardinality(T) \in Nat /\ Cardinality(T) <= Cardinality(S \cup {x})
    BY <1>3, <2>1, FS_Subset, FS_CardinalityType
  <2> QED BY <1>1, <2>1, <2>2
<1>4. ASSUME NEW x \in S, T \subseteq S \ {x}
      PROVE  Cardinality(T) \in Nat /\ Cardinality(T) + 1 <= Cardinality(S)
  <2>1. IsFiniteSet(S \ {x}) /\ Cardinality(S \ {x}) = IF x \in S THEN Cardinality(S) - 1 ELSE Cardinality(S)
    BY FS_RemoveElement
  <2>2. Cardinality(T) \in Nat /\ Cardinality(T) <= Cardinality(S \ {x})
    BY <1>4, <2>1, FS_Subset, FS_CardinalityType
  <2> QED BY <1>1, <1>4, <2>1, <2>2
<1> QED BY <1>1, <1>2, <1>3, <1>4

\* A log row that cannot be inserted costs a fault and ends the call: as far as the outbox
\* is concerned, the handler returns an error.
LEMMA CreateLogFailsKeeps ==
  ASSUME IndInv, NEW w \in Workers, CreateLogFails(w)
  PROVE  IndInv'
<1>0. TypeOK
  BY DEF IndInv
<1>1. /\ UNCHANGED <<status, attempts, wait, lease, batch, current, ok, handled>> /\ faults' = faults + 1
      /\ faults < MaxFaults /\ step' = [step EXCEPT ![w] = "settling"] /\ step[w] = "handling"
  BY DEF CreateLogFails, Serving, table
<1>2. TypeOK'
  BY <1>0, <1>1 DEF TypeOK, Step
<1>3. ~ok[w]
  BY <1>1 DEF IndInv, OkIsBacked
<1>4. OkIsBacked'
  BY <1>0, <1>1, <1>3 DEF IndInv, OkIsBacked, TypeOK
<1>5. HeldWasClaimed' /\ ClaimsAreUnique'
  BY <1>0, <1>1, HandsShrink DEF IndInv, InHand, ClaimsAreUnique
<1>6. DeliveredWasHandled' /\ DeadLetterIsExhausted'
  BY <1>1 DEF IndInv, DeliveredWasHandled, DeadLetterIsExhausted
<1> QED BY <1>2, <1>4, <1>5, <1>6 DEF IndInv

\* A step of the delivery is one of the outbox, but for that.
LEMMA DeliveryIsOutbox == IndInv /\ [DeliveryNext]_allVars => IndInv'
<1> SUFFICES ASSUME IndInv, [DeliveryNext]_allVars PROVE IndInv'
  OBVIOUS
<1>1. ASSUME NEW w \in Workers, CreateLogFails(w) PROVE IndInv'
  BY <1>1, CreateLogFailsKeeps
<1>2. ASSUME NEW w \in Workers,
             \/ DeliveryTakeUp(w) \/ CreateLog(w)
             \/ \E accepted, nil \in BOOLEAN : AdapterSend(w, accepted, nil)
             \/ \E stored \in BOOLEAN : RecordStatus(w, stored)
             \/ SendEventReturns(w) \/ DeliveryCrash(w)
      PROVE  [Next]_vars
  BY <1>2 DEF DeliveryTakeUp, CreateLog, AdapterSend, RecordStatus, NextChannel, GiveUp, SendEventReturns, DeliveryCrash, Next
<1>3. ASSUME NEW w \in Workers, Claim(w) \/ Settle(w) \/ SettleFails(w) PROVE Next
  BY <1>3 DEF Next
<1>4. ASSUME NEW e \in Events, Enqueue(e) PROVE Next
  BY <1>4 DEF Next
<1>5. Tick => Next
  BY DEF Next
<1>6. UNCHANGED allVars => UNCHANGED vars
  BY DEF allVars
<1> QED BY <1>1, <1>2, <1>3, <1>4, <1>5, <1>6, IndInvNext DEF DeliveryNext

-----------------------------------------------------------------------------

\* What a step of worker w leaves to the others.
OthersStay(w) ==
  \A v \in Workers \ {w} :
    /\ batch'[v] = batch[v] /\ current'[v] = current[v] /\ step'[v] = step[v] /\ ok'[v] = ok[v]
    /\ todo'[v] = todo[v] /\ stage'[v] = stage[v] /\ answer'[v] = answer[v]

\* The others stay sound if channels told of stay so, and count as before.
LEMMA OthersCount ==
  ASSUME NEW w \in Workers, OthersStay(w), \A e \in Events : told[e] \subseteq told'[e], IndInv,
         \A v \in Workers : WorkerIsSound(v)
  PROVE  /\ \A v \in Workers \ {w} : WorkerIsSound(v)'
         /\ \A v \in Workers \ {w}, e \in Events, c \in Channel :
              /\ (v \in LoggedBy(e, c)' <=> v \in LoggedBy(e, c))
              /\ (v \in AnsweredBy(e, c)' <=> v \in AnsweredBy(e, c))
              /\ \A a \in Nat : MaySend(v, e, a, c)' <=> MaySend(v, e, a, c)
<1>1. ASSUME NEW v \in Workers \ {w} PROVE WorkerIsSound(v)'
  <2>1. WorkerIsSound(v)
    OBVIOUS
  <2>2. /\ batch'[v] = batch[v] /\ current'[v] = current[v] /\ step'[v] = step[v] /\ ok'[v] = ok[v]
        /\ todo'[v] = todo[v] /\ stage'[v] = stage[v] /\ answer'[v] = answer[v]
    BY DEF OthersStay
  <2>3. Serving(v)' <=> Serving(v)
    BY <2>2 DEF Serving
  <2>4. Recipients(current[v].event)' = Recipients(current[v].event)
    BY <2>2 DEF Recipients, resolveChannels
  <2>5. stage[v] # "none" \/ step[v] = "handling" \/ ok[v] => told[current[v].event] \subseteq told'[current[v].event]
    <3>1. stage[v] # "none" \/ step[v] = "handling" \/ ok[v] => step[v] # "free"
      BY <2>1 DEF WorkerIsSound, Serving, IndInv, OkIsBacked
    <3>2. step[v] # "free" => current[v].event \in Events
      BY DEF IndInv, TypeOK, Claims
    <3> QED BY <3>1, <3>2
  <2> QED BY <2>1, <2>2, <2>3, <2>4, <2>5 DEF WorkerIsSound
<1>2. ASSUME NEW v \in Workers \ {w}, NEW e \in Events, NEW c \in Channel
      PROVE  /\ (v \in LoggedBy(e, c)' <=> v \in LoggedBy(e, c))
             /\ (v \in AnsweredBy(e, c)' <=> v \in AnsweredBy(e, c))
             /\ \A a \in Nat : MaySend(v, e, a, c)' <=> MaySend(v, e, a, c)
  BY DEF OthersStay, LoggedBy, AnsweredBy, Serves, Serving, MaySend, Unserved
<1> QED BY <1>1, <1>2

\* A worker that serves an event has it in hand, and has not returned yet.
LEMMA InHandling ==
  ASSUME IndInv, DeliveryShape, NEW w \in Workers, step[w] = "handling"
  PROVE  /\ current[w] \in Claims /\ current[w].event \in Events /\ current[w].attempt \in Nat
         /\ current[w] # NoClaim /\ ~ok[w]
         /\ current[w] = [event |-> current[w].event, attempt |-> current[w].attempt]
         /\ todo[w] \in Seq(Channel) /\ (todo[w] # <<>> => Head(todo[w]) \in Channel)
<1>1. current[w] \in Claims /\ current[w] # NoClaim
  BY DEF IndInv, TypeOK
<1>2. /\ current[w].event \in Events /\ current[w].attempt \in Nat
      /\ current[w] = [event |-> current[w].event, attempt |-> current[w].attempt]
  BY <1>1 DEF Claims
<1>3. ~ok[w]
  BY DEF IndInv, OkIsBacked
<1>4. todo[w] \in Seq(Channel) /\ (todo[w] # <<>> => Head(todo[w]) \in Channel)
  BY DEF DeliveryShape
<1> QED BY <1>1, <1>2, <1>3, <1>4

\* The log row a worker is at is counted up, and the others stay.
LEMMA RowIsAdded ==
  ASSUME IndInv, DeliveryShape, NEW w \in Workers, CreateLog(w)
  PROVE  /\ logs' \in [Events -> [Channel -> [LogStatus -> Int]]]
         /\ \A e \in Events, c \in Channel :
              /\ ~Serves(w, e, c) => logs'[e][c] = logs[e][c]
              /\ Serves(w, e, c) => /\ logs'[e][c]["PENDING"] = logs[e][c]["PENDING"] + 1
                                    /\ logs'[e][c]["SENT"] = logs[e][c]["SENT"]
                                    /\ logs'[e][c]["FAILED"] = logs[e][c]["FAILED"]
<1>1. Serving(w) /\ step[w] = "handling" /\ current[w].event \in Events /\ Head(todo[w]) \in Channel
  BY InHandling DEF CreateLog, Serving
<1>2. PICK d \in Events, b \in Channel : d = current[w].event /\ b = Head(todo[w])
  BY <1>1
<1>3. logs' = [logs EXCEPT ![d][b]["PENDING"] = @ + 1]
  BY <1>2 DEF CreateLog
<1>4. logs \in [Events -> [Channel -> [LogStatus -> Int]]] /\ {"PENDING", "SENT", "FAILED"} = LogStatus
  BY DEF DeliveryShape, LogStatus
<1>5. logs[d][b]["PENDING"] + 1 \in Int
  BY <1>4
<1>6. logs' \in [Events -> [Channel -> [LogStatus -> Int]]]
  BY <1>3, <1>4, <1>5
<1>7. \A e \in Events, c \in Channel : (e # d \/ c # b) => logs'[e][c] = logs[e][c]
  BY <1>3, <1>4
<1>8. /\ logs'[d][b]["PENDING"] = logs[d][b]["PENDING"] + 1 /\ logs'[d][b]["SENT"] = logs[d][b]["SENT"]
      /\ logs'[d][b]["FAILED"] = logs[d][b]["FAILED"]
  BY <1>3, <1>4
<1> QED BY <1>1, <1>2, <1>6, <1>7, <1>8 DEF Serves

\* The log row a worker is at is moved from pending to the outcome, or stays.
LEMMA RowIsMoved ==
  ASSUME IndInv, DeliveryShape, NEW w \in Workers, NEW stored \in BOOLEAN, RecordStatus(w, stored)
  PROVE  /\ logs' \in [Events -> [Channel -> [LogStatus -> Int]]]
         /\ \A e \in Events, c \in Channel :
              /\ ~Serves(w, e, c) => logs'[e][c] = logs[e][c]
              /\ Serves(w, e, c) =>
                   \/ logs'[e][c] = logs[e][c]
                   \/ /\ logs'[e][c]["PENDING"] = logs[e][c]["PENDING"] - 1
                      /\ \/ /\ answer[w]
                            /\ logs'[e][c]["SENT"] = logs[e][c]["SENT"] + 1
                            /\ logs'[e][c]["FAILED"] = logs[e][c]["FAILED"]
                         \/ /\ logs'[e][c]["SENT"] = logs[e][c]["SENT"]
                            /\ logs'[e][c]["FAILED"] = logs[e][c]["FAILED"] + 1
<1>1. Serving(w) /\ step[w] = "handling" /\ current[w].event \in Events /\ Head(todo[w]) \in Channel
  BY InHandling DEF RecordStatus, Answered, Serving
<1>2. PICK d \in Events, b \in Channel : d = current[w].event /\ b = Head(todo[w])
  BY <1>1
<1>3. PICK to : to = Outcome(w)
  OBVIOUS
<1>4. (to = "SENT" /\ answer[w]) \/ to = "FAILED"
  BY <1>3 DEF Outcome
<1>5. logs' = IF stored THEN [logs EXCEPT ![d][b] = Moved(logs[d][b], to)] ELSE logs
  BY <1>2, <1>3 DEF RecordStatus, UpdateStatus
<1>6. logs \in [Events -> [Channel -> [LogStatus -> Int]]] /\ {"PENDING", "SENT", "FAILED"} = LogStatus
  BY DEF DeliveryShape, LogStatus
<1>7. CASE ~stored
  <2>1. logs' = logs
    BY <1>5, <1>7
  <2> QED BY <1>6, <2>1
<1>8. CASE stored
  <2>1. PICK new : new = Moved(logs[d][b], to)
    OBVIOUS
  <2>2. logs' = [logs EXCEPT ![d][b] = new]
    BY <1>5, <1>8, <2>1
  <2>3. logs[d][b] \in [LogStatus -> Int] /\ to \in {"SENT", "FAILED"}
    BY <1>4, <1>6
  <2>4. /\ new \in [LogStatus -> Int] /\ new["PENDING"] = logs[d][b]["PENDING"] - 1
        /\ \/ to = "SENT" /\ new["SENT"] = logs[d][b]["SENT"] + 1 /\ new["FAILED"] = logs[d][b]["FAILED"]
           \/ to = "FAILED" /\ new["SENT"] = logs[d][b]["SENT"] /\ new["FAILED"] = logs[d][b]["FAILED"] + 1
    BY <1>6, <2>1, <2>3 DEF Moved
  <2>5. logs' \in [Events -> [Channel -> [LogStatus -> Int]]]
    BY <1>6, <2>2, <2>4
  <2>6. \A e \in Events, c \in Channel : (e # d \/ c # b) => logs'[e][c] = logs[e][c]
    BY <1>6, <2>2
  <2>7. logs'[d][b] = new
    BY <1>6, <2>2
  <2> QED BY <1>1, <1>2, <1>4, <2>4, <2>5, <2>6, <2>7 DEF Serves
<1> QED BY <1>7, <1>8

\* The counts and what was told keep their shape.
LEMMA DeliveryShapeNext == IndInv /\ DeliveryShape /\ [DeliveryNext]_allVars => DeliveryShape'
<1> SUFFICES ASSUME IndInv, DeliveryShape, [DeliveryNext]_allVars PROVE DeliveryShape'
  OBVIOUS
<1> DEFINE Quiet == UNCHANGED <<stage, answer, logs, sent, told>>
<1>0. <<>> \in Seq(Channel)
  OBVIOUS
<1>1. ASSUME NEW w \in Workers, DeliveryTakeUp(w) PROVE DeliveryShape'
  BY <1>0, <1>1, RecipientsAreChannels DEF DeliveryTakeUp, DeliveryShape
<1>2. ASSUME NEW w \in Workers, CreateLog(w) PROVE DeliveryShape'
  BY <1>2, RowIsAdded DEF CreateLog, DeliveryShape
<1>3. ASSUME NEW w \in Workers, CreateLogFails(w) PROVE DeliveryShape'
  BY <1>0, <1>3 DEF CreateLogFails, DeliveryShape
<1>4. ASSUME NEW w \in Workers, NEW accepted \in BOOLEAN, NEW nil \in BOOLEAN, AdapterSend(w, accepted, nil)
      PROVE  DeliveryShape'
  <2>1. current[w].event \in Events /\ Head(todo[w]) \in Channel
    BY <1>4, InHandling DEF AdapterSend, Serving
  <2>2. PICK d \in Events, b \in Channel : d = current[w].event /\ b = Head(todo[w])
    BY <2>1
  <2>3. /\ sent' = [sent EXCEPT ![d][b] = IF accepted THEN @ + 1 ELSE @]
        /\ told' = [told EXCEPT ![d] = IF nil THEN @ \cup {b} ELSE @]
    BY <1>4, <2>2 DEF AdapterSend
  <2>4. sent' \in [Events -> [Channel -> Nat]]
    BY <2>3 DEF DeliveryShape
  <2>5. told' \in [Events -> SUBSET Channel]
    BY <2>3 DEF DeliveryShape
  <2> QED BY <1>4, <2>4, <2>5 DEF AdapterSend, DeliveryShape
<1>5. ASSUME NEW w \in Workers, NEW stored \in BOOLEAN, RecordStatus(w, stored) PROVE DeliveryShape'
  <2>1. logs' \in [Events -> [Channel -> [LogStatus -> Int]]]
    BY <1>5, RowIsMoved
  <2>2. todo[w] \in Seq(Channel) /\ todo[w] # <<>> /\ Tail(todo[w]) \in Seq(Channel)
    BY <1>5 DEF RecordStatus, Answered, Serving, DeliveryShape
  <2>3. todo' \in [Workers -> Seq(Channel)]
    BY <1>0, <1>5, <2>2 DEF RecordStatus, NextChannel, GiveUp, DeliveryShape
  <2> QED BY <1>5, <2>1, <2>3 DEF RecordStatus, Answered, DeliveryShape
<1>6. ASSUME NEW w \in Workers, DeliveryCrash(w) PROVE DeliveryShape'
  BY <1>0, <1>6 DEF DeliveryCrash, DeliveryShape
<1>7. UNCHANGED comms => DeliveryShape'
  BY DEF comms, DeliveryShape
<1> QED BY <1>1, <1>2, <1>3, <1>4, <1>5, <1>6, <1>7 DEF DeliveryNext, SendEventReturns, allVars

-----------------------------------------------------------------------------

\* Only a worker that serves has a message on its way.
LEMMA StageIsServing ==
  ASSUME DeliveryInv, NEW w \in Workers, step[w] # "handling" \/ todo[w] = <<>>
  PROVE  stage[w] = "none"
BY DEF DeliveryInv, WorkerIsSound, Serving

\* Counts stay sound where nothing is added to what they count.
LEMMA CountsStay ==
  ASSUME IndInv, DeliveryShape, IsFiniteSet(Workers), NEW e \in Events, NEW c \in Channel, CountIsSound(e, c),
         UNCHANGED <<sent[e][c], logs[e][c]>>, told[e] \subseteq told'[e], attempts[e] <= attempts'[e], attempts'[e] \in Nat,
         LoggedBy(e, c)' \subseteq LoggedBy(e, c), AnsweredBy(e, c)' \subseteq AnsweredBy(e, c),
         Cardinality(Pending(e, c)') \in Nat,
         Cardinality(Pending(e, c)') <= Cardinality(Pending(e, c)) + attempts'[e] - attempts[e]
  PROVE  CountIsSound(e, c)'
<1>0. TypeOK
  BY DEF IndInv
<1> DEFINE L == Cardinality(LoggedBy(e, c))
           M == Cardinality(LoggedBy(e, c)')
           A == Cardinality(AnsweredBy(e, c))
           B == Cardinality(AnsweredBy(e, c)')
           P == Cardinality(Pending(e, c))
           Q == Cardinality(Pending(e, c)')
           R == Rows(e, c)
<1>1. L \in Nat /\ M \in Nat /\ M <= L /\ A \in Nat /\ B \in Nat /\ B <= A /\ P \in Nat
  BY <1>0, CountsAreFinite, Counted
<1>2. Rows(e, c)' = R /\ R \in Int /\ logs[e][c]["SENT"] \in Int /\ sent[e][c] \in Nat
  BY DEF Rows, DeliveryShape, LogStatus
<1>3. attempts[e] \in Nat
  BY <1>0 DEF TypeOK
<1>4. /\ logs[e][c]["SENT"] > 0 => c \in told[e]
      /\ sent[e][c] + L <= R
      /\ c \in ReadsRefusals => logs[e][c]["SENT"] + A <= sent[e][c]
      /\ sent[e][c] + P <= attempts[e]
  BY DEF CountIsSound
<1>5. Q \in Nat /\ Q <= P + attempts'[e] - attempts[e]
  OBVIOUS
<1>6. sent'[e][c] = sent[e][c] /\ logs'[e][c] = logs[e][c]
  OBVIOUS
<1> HIDE DEF L, M, A, B, P, Q, R
<1>7. /\ logs'[e][c]["SENT"] > 0 => c \in told'[e]
      /\ sent'[e][c] + M <= R
      /\ c \in ReadsRefusals => logs'[e][c]["SENT"] + B <= sent'[e][c]
      /\ sent'[e][c] + Q <= attempts'[e]
  BY <1>1, <1>2, <1>3, <1>4, <1>5, <1>6
<1> QED BY <1>2, <1>7 DEF CountIsSound, M, B, Q, ReadsRefusals

\* Nothing is told of, sent or logged, and worker w keeps what it has to do or drops it.
LEMMA SoundWithoutNews ==
  ASSUME DeliveryInv, IndInv', DeliveryShape', NEW w \in Workers, OthersStay(w),
         UNCHANGED <<sent, told>>, stage'[w] = "none", Different(todo'[w]),
         step'[w] = "handling" => Range(Recipients(current'[w].event)) \subseteq told[current'[w].event] \cup Range(todo'[w]),
         ok'[w] => Range(Recipients(current'[w].event)) \subseteq told[current'[w].event],
         \A e \in Events : status'[e] = "DELIVERED" => status[e] = "DELIVERED" \/ Range(Recipients(e)) \subseteq told[e]
  PROVE  DeliveryInv'
<1>1. \A v \in Workers \ {w} : WorkerIsSound(v)'
  BY OthersCount DEF DeliveryInv
<1>2. WorkerIsSound(w)'
  BY DEF WorkerIsSound, Recipients, resolveChannels
<1>3. ToldIsSound'
  BY DEF DeliveryInv, ToldIsSound, Recipients, resolveChannels
<1> QED BY <1>1, <1>2, <1>3 DEF DeliveryInv

\* Worker w has no message on its way afterwards, and no attempt it did not have.
LEMMA CountsWithoutNews ==
  ASSUME DeliveryInv, IndInv', DeliveryShape', IsFiniteSet(Workers), CountsAreSound, NEW w \in Workers, OthersStay(w),
         UNCHANGED <<sent, told, logs, attempts>>, stage'[w] = "none",
         \A e \in Events, c \in Channel, a \in Nat : MaySend(w, e, a, c)' => MaySend(w, e, a, c)
  PROVE  CountsAreSound'
<1> SUFFICES ASSUME NEW e \in Events, NEW c \in Channel PROVE CountIsSound(e, c)'
  BY DEF CountsAreSound
<1>1. \A v \in Workers \ {w} :
        /\ (v \in LoggedBy(e, c)' <=> v \in LoggedBy(e, c)) /\ (v \in AnsweredBy(e, c)' <=> v \in AnsweredBy(e, c))
        /\ \A a \in Nat : MaySend(v, e, a, c)' <=> MaySend(v, e, a, c)
  BY OthersCount DEF DeliveryInv
<1>2. w \notin LoggedBy(e, c)' /\ w \notin AnsweredBy(e, c)'
  BY DEF LoggedBy, AnsweredBy
<1>3. LoggedBy(e, c)' \subseteq LoggedBy(e, c) /\ AnsweredBy(e, c)' \subseteq AnsweredBy(e, c)
  BY <1>1, <1>2 DEF LoggedBy, AnsweredBy
<1>4. attempts[e] \in Nat /\ attempts'[e] = attempts[e]
  BY DEF DeliveryInv, IndInv, TypeOK
<1>5. Pending(e, c)' \subseteq Pending(e, c)
  BY <1>1, <1>4 DEF Pending
<1>6. CountIsSound(e, c) /\ UNCHANGED <<sent[e][c], logs[e][c], told[e]>>
  BY DEF CountsAreSound
<1>7. /\ Cardinality(Pending(e, c)') \in Nat /\ Cardinality(Pending(e, c)) \in Nat
      /\ Cardinality(Pending(e, c)') <= Cardinality(Pending(e, c))
  BY <1>5, CountsAreFinite, Counted DEF DeliveryInv, IndInv
<1>8. Cardinality(Pending(e, c)') <= Cardinality(Pending(e, c)) + attempts'[e] - attempts[e]
  BY <1>4, <1>7
<1> QED BY <1>3, <1>4, <1>6, <1>7, <1>8, CountsStay DEF DeliveryInv

\* Enqueue, a tick of the clock and a stutter touch no worker.
LEMMA QuietKeeps ==
  ASSUME DeliveryInv, IndInv', UNCHANGED <<comms, attempts, batch, step, current, ok>>,
         \A e \in Events : status'[e] = "DELIVERED" => status[e] = "DELIVERED"
  PROVE  DeliveryInv' /\ (IsFiniteSet(Workers) /\ CountsAreSound => CountsAreSound')
<1>0. DeliveryShape'
  BY DEF DeliveryInv, DeliveryShape, comms
<1>1. \A v \in Workers : WorkerIsSound(v)'
  BY DEF DeliveryInv, WorkerIsSound, Serving, Recipients, resolveChannels, comms
<1>2. ToldIsSound'
  BY DEF DeliveryInv, ToldIsSound, Recipients, resolveChannels, comms
<1>3. ASSUME NEW e \in Events, NEW c \in Channel, CountIsSound(e, c) PROVE CountIsSound(e, c)'
  <2>1. LoggedBy(e, c)' = LoggedBy(e, c) /\ AnsweredBy(e, c)' = AnsweredBy(e, c)
    BY DEF LoggedBy, AnsweredBy, Serves, Serving, comms
  <2>2. Pending(e, c)' = Pending(e, c)
    BY DEF Pending, MaySend, Unserved, comms
  <2> QED BY <1>3, <2>1, <2>2 DEF CountIsSound, Rows, ReadsRefusals, comms
<1> QED BY <1>0, <1>1, <1>2, <1>3 DEF DeliveryInv, CountsAreSound

\* A worker that takes an event up has all its recipients to serve.
LEMMA TakeUpKeeps ==
  ASSUME DeliveryInv, IndInv', DeliveryShape', NEW w \in Workers, DeliveryTakeUp(w)
  PROVE  DeliveryInv' /\ (IsFiniteSet(Workers) /\ CountsAreSound => CountsAreSound')
<1>0. TypeOK /\ DeliveryShape /\ TypeOK'
  BY DEF DeliveryInv, IndInv
<1>1. PICK d \in batch[w] :
        /\ current' = [current EXCEPT ![w] = d] /\ batch' = [batch EXCEPT ![w] = @ \ {d}]
        /\ step' = [step EXCEPT ![w] = IF d.event \in Registered THEN "handling" ELSE "settling"]
  BY DEF DeliveryTakeUp, TakeUp
<1>2. /\ step[w] = "free" /\ UNCHANGED <<status, attempts, ok, stage, answer, logs, sent, told>>
      /\ todo' = [todo EXCEPT ![w] = IF current'[w].event \in Registered THEN Recipients(current'[w].event) ELSE <<>>]
  BY DEF DeliveryTakeUp, TakeUp
<1>3. d = [event |-> d.event, attempt |-> d.attempt] /\ d.event \in Events
  <2>1. d \in Claims
    BY <1>0 DEF TypeOK
  <2> QED BY <2>1 DEF Claims
<1>4. /\ current'[w] = d /\ batch'[w] = batch[w] \ {d}
      /\ step'[w] = IF d.event \in Registered THEN "handling" ELSE "settling"
      /\ todo'[w] = IF d.event \in Registered THEN Recipients(d.event) ELSE <<>>
  BY <1>0, <1>1, <1>2 DEF TypeOK, DeliveryShape
<1>5. OthersStay(w)
  BY <1>0, <1>1, <1>2 DEF OthersStay, TypeOK, DeliveryShape
<1>6. stage'[w] = "none" /\ ~ok'[w]
  BY <1>2, StageIsServing DEF DeliveryInv, IndInv, OkIsBacked
<1>7. Different(todo'[w])
  <2>1. Different(<<>>)
    BY DEF Different
  <2> QED BY <1>4, <2>1, RecipientsAreChannels
<1>8. step'[w] = "handling" => todo'[w] = Recipients(current'[w].event)
  BY <1>4
<1>9. DeliveryInv'
  BY <1>2, <1>5, <1>6, <1>7, <1>8, SoundWithoutNews
<1>10. \A e \in Events, c \in Channel, a \in Nat : MaySend(w, e, a, c)' => MaySend(w, e, a, c)
  BY <1>4 DEF MaySend
<1> QED BY <1>2, <1>5, <1>6, <1>9, <1>10, CountsWithoutNews

\* A handler that ends without success, a settled event and a crash leave nothing to do.
LEMMA DropKeeps ==
  ASSUME DeliveryInv, IndInv', DeliveryShape', NEW w \in Workers, OthersStay(w),
         UNCHANGED <<sent, told>>, step'[w] \in {"free", "settling"}, stage'[w] = "none",
         todo'[w] \in {todo[w], <<>>}, ~ok'[w], batch'[w] \subseteq batch[w],
         \A e \in Events : status'[e] = "DELIVERED" => status[e] = "DELIVERED" \/ Range(Recipients(e)) \subseteq told[e]
  PROVE  /\ DeliveryInv'
         /\ IsFiniteSet(Workers) /\ CountsAreSound /\ UNCHANGED <<logs, attempts>> => CountsAreSound'
<1>1. Different(todo'[w])
  BY DEF Different, DeliveryInv, WorkerIsSound
<1>2. DeliveryInv'
  BY <1>1, SoundWithoutNews
<1>3. \A e \in Events, c \in Channel, a \in Nat : MaySend(w, e, a, c)' => MaySend(w, e, a, c)
  BY DEF MaySend
<1> QED BY <1>2, <1>3, CountsWithoutNews

\* The row of a log that cannot be inserted, a settlement that fails and a crash.
LEMMA FaultKeeps ==
  ASSUME DeliveryInv, IndInv', DeliveryShape', NEW w \in Workers,
         \/ CreateLogFails(w) \/ (SettleFails(w) /\ UNCHANGED comms) \/ DeliveryCrash(w)
  PROVE  DeliveryInv' /\ (IsFiniteSet(Workers) /\ CountsAreSound => CountsAreSound')
<1>0. TypeOK /\ DeliveryShape
  BY DEF DeliveryInv, IndInv
<1>1. CASE CreateLogFails(w)
  <2>1. /\ UNCHANGED <<status, attempts, batch, current, ok, stage, answer, logs, sent, told>>
        /\ step' = [step EXCEPT ![w] = "settling"] /\ todo' = [todo EXCEPT ![w] = <<>>]
        /\ stage[w] = "none" /\ step[w] = "handling"
    BY <1>1 DEF CreateLogFails, Serving, table
  <2>2. OthersStay(w) /\ step'[w] = "settling" /\ todo'[w] = <<>>
    BY <1>0, <2>1 DEF OthersStay, TypeOK, DeliveryShape
  <2>3. ~ok'[w]
    BY <2>1, InHandling DEF DeliveryInv
  <2> QED BY <2>1, <2>2, <2>3, DropKeeps
<1>2. CASE SettleFails(w) /\ UNCHANGED comms
  <2>1. /\ UNCHANGED <<status, attempts, batch, todo, stage, answer, logs, sent, told>> /\ step[w] = "settling"
        /\ step' = [step EXCEPT ![w] = "free"] /\ current' = [current EXCEPT ![w] = NoClaim] /\ ok' = [ok EXCEPT ![w] = FALSE]
    BY <1>2 DEF SettleFails, comms
  <2>2. OthersStay(w) /\ step'[w] = "free" /\ ~ok'[w]
    BY <1>0, <2>1 DEF OthersStay, TypeOK, DeliveryShape
  <2>3. stage[w] = "none"
    BY <2>1, StageIsServing
  <2> QED BY <2>1, <2>2, <2>3, DropKeeps
<1>3. CASE DeliveryCrash(w)
  <2>1. /\ UNCHANGED <<status, attempts, logs, sent, told>> /\ batch' = [batch EXCEPT ![w] = {}]
        /\ step' = [step EXCEPT ![w] = "free"] /\ current' = [current EXCEPT ![w] = NoClaim] /\ ok' = [ok EXCEPT ![w] = FALSE]
        /\ todo' = [todo EXCEPT ![w] = <<>>] /\ stage' = [stage EXCEPT ![w] = "none"] /\ answer' = [answer EXCEPT ![w] = FALSE]
    BY <1>3 DEF DeliveryCrash, Crash
  <2>2. OthersStay(w) /\ step'[w] = "free" /\ ~ok'[w] /\ todo'[w] = <<>> /\ stage'[w] = "none" /\ batch'[w] = {}
    BY <1>0, <2>1 DEF OthersStay, TypeOK, DeliveryShape
  <2> QED BY <2>1, <2>2, DropKeeps
<1> QED BY <1>1, <1>2, <1>3

\* A settled event is delivered when the worker was answered on every channel.
LEMMA SettleDelivers ==
  ASSUME DeliveryInv, IndInv', DeliveryShape', NEW w \in Workers, Settle(w), UNCHANGED comms
  PROVE  DeliveryInv' /\ (IsFiniteSet(Workers) /\ CountsAreSound => CountsAreSound')
<1>0. TypeOK /\ DeliveryShape
  BY DEF DeliveryInv, IndInv
<1>1. /\ UNCHANGED <<attempts, batch, todo, stage, answer, logs, sent, told>> /\ step[w] = "settling"
      /\ step' = [step EXCEPT ![w] = "free"] /\ current' = [current EXCEPT ![w] = NoClaim] /\ ok' = [ok EXCEPT ![w] = FALSE]
  BY DEF Settle, MarkDelivered, MarkFailed, FailTo, table, comms
<1>2. OthersStay(w) /\ step'[w] = "free" /\ ~ok'[w]
  BY <1>0, <1>1 DEF OthersStay, TypeOK, DeliveryShape
<1>3. stage[w] = "none"
  BY <1>1, StageIsServing
<1>4. ASSUME NEW e \in Events, status'[e] = "DELIVERED"
      PROVE  status[e] = "DELIVERED" \/ Range(Recipients(e)) \subseteq told[e]
  <2>1. CASE ok[w] /\ MarkDelivered(current[w].event)
    <3>1. status'[e] = status[e] \/ e = current[w].event
      BY <1>0, <2>1 DEF MarkDelivered, TypeOK
    <3> QED BY <1>4, <2>1, <3>1 DEF DeliveryInv, WorkerIsSound
  <2>2. CASE FailTo(current[w].event, MaxAttempts, retryDelay(current[w].attempt))
    <3>1. status'[e] = status[e] \/ status'[e] \in {"DEAD_LETTER", "FAILED"}
      BY <1>0, <2>2 DEF FailTo, TypeOK
    <3> QED BY <1>4, <3>1
  <2>3. CASE UNCHANGED table
    BY <1>4, <2>3 DEF table
  <2> QED BY <2>1, <2>2, <2>3 DEF Settle, MarkFailed
<1> QED BY <1>1, <1>2, <1>3, <1>4, DropKeeps

\* SendEvent returns nil when every channel was answered with nil.
LEMMA ReturnKeeps ==
  ASSUME DeliveryInv, IndInv', DeliveryShape', NEW w \in Workers, SendEventReturns(w)
  PROVE  DeliveryInv' /\ (IsFiniteSet(Workers) /\ CountsAreSound => CountsAreSound')
<1>0. TypeOK /\ DeliveryShape
  BY DEF DeliveryInv, IndInv
<1>1. /\ UNCHANGED <<status, attempts, batch, current, todo, stage, answer, logs, sent, told>>
      /\ todo[w] = <<>> /\ step[w] = "handling" /\ step' = [step EXCEPT ![w] = "settling"]
      /\ ok' = [ok EXCEPT ![w] = TRUE]
  BY DEF SendEventReturns, HandlerReturns, comms
<1>2. OthersStay(w) /\ step'[w] = "settling"
  BY <1>0, <1>1 DEF OthersStay, TypeOK, DeliveryShape
<1>3. stage[w] = "none" /\ Different(todo[w])
  BY <1>1, StageIsServing DEF DeliveryInv, WorkerIsSound
<1>4. Range(Recipients(current[w].event)) \subseteq told[current[w].event]
  <2>1. Range(<<>>) = {}
    BY DEF Range
  <2> QED BY <1>1, <2>1 DEF DeliveryInv, WorkerIsSound
<1>5. DeliveryInv'
  BY <1>1, <1>2, <1>3, <1>4, SoundWithoutNews
<1>6. \A e \in Events, c \in Channel, a \in Nat : MaySend(w, e, a, c)' => MaySend(w, e, a, c)
  BY <1>1, <1>2 DEF MaySend
<1> QED BY <1>1, <1>2, <1>3, <1>5, <1>6, CountsWithoutNews

\* A claim adds one attempt to what may be sent, and to the attempts.
LEMMA ClaimKeeps ==
  ASSUME DeliveryInv, IndInv', DeliveryShape', NEW w \in Workers, Claim(w), UNCHANGED comms
  PROVE  DeliveryInv' /\ (IsFiniteSet(Workers) /\ CountsAreSound => CountsAreSound')
<1>0. TypeOK /\ DeliveryShape /\ TypeOK'
  BY DEF DeliveryInv, IndInv
<1> DEFINE fresh(S) == {[event |-> e, attempt |-> attempts[e] + 1] : e \in S}
<1>1. PICK S \in SUBSET Ready :
        /\ status' = [e \in Events |-> IF e \in S THEN "PROCESSING" ELSE status[e]]
        /\ attempts' = [e \in Events |-> IF e \in S THEN attempts[e] + 1 ELSE attempts[e]]
        /\ batch' = [batch EXCEPT ![w] = fresh(S)]
  <2>1. PICK skipped \in SUBSET (Ready \cap Locked(w)) :
          LET claimed == Oldest(Ready \ skipped) IN
          /\ status' = [d \in Events |-> IF d \in claimed THEN "PROCESSING" ELSE status[d]]
          /\ attempts' = [d \in Events |-> IF d \in claimed THEN attempts[d] + 1 ELSE attempts[d]]
          /\ batch' = [batch EXCEPT ![w] = {[event |-> d, attempt |-> attempts[d] + 1] : d \in claimed}]
    BY DEF Claim
  <2>2. Oldest(Ready \ skipped) \in SUBSET Ready
    BY OldestIsSubset
  <2> QED BY <2>1, <2>2
<1>2. UNCHANGED <<step, current, ok, todo, stage, answer, logs, sent, told>> /\ step[w] = "free"
  BY DEF Claim, comms
<1>3. OthersStay(w)
  BY <1>0, <1>1, <1>2 DEF OthersStay, TypeOK
<1>4. stage[w] = "none" /\ Different(todo[w]) /\ ~ok[w]
  BY <1>2, StageIsServing DEF DeliveryInv, WorkerIsSound, IndInv, OkIsBacked
<1>5. \A e \in Events : status'[e] = "DELIVERED" => status[e] = "DELIVERED"
  BY <1>1
<1>6. DeliveryInv'
  BY <1>2, <1>3, <1>4, <1>5, SoundWithoutNews
<1>7. ASSUME IsFiniteSet(Workers), NEW e \in Events, NEW c \in Channel, CountIsSound(e, c)
      PROVE  CountIsSound(e, c)'
  <2>1. \A v \in Workers \ {w} :
          /\ (v \in LoggedBy(e, c)' <=> v \in LoggedBy(e, c)) /\ (v \in AnsweredBy(e, c)' <=> v \in AnsweredBy(e, c))
          /\ \A a \in Nat : MaySend(v, e, a, c)' <=> MaySend(v, e, a, c)
    BY <1>2, <1>3, OthersCount DEF DeliveryInv
  <2>2. w \notin LoggedBy(e, c)' /\ w \notin AnsweredBy(e, c)'
    BY <1>2, <1>4 DEF LoggedBy, AnsweredBy
  <2>3. LoggedBy(e, c)' \subseteq LoggedBy(e, c) /\ AnsweredBy(e, c)' \subseteq AnsweredBy(e, c)
    BY <2>1, <2>2 DEF LoggedBy, AnsweredBy
  <2>4. attempts[e] \in Nat /\ attempts'[e] = IF e \in S THEN attempts[e] + 1 ELSE attempts[e]
    BY <1>0, <1>1 DEF TypeOK
  <2>5. \A a \in Nat : MaySend(w, e, a, c)' => e \in S /\ a = attempts[e] + 1
    <3> SUFFICES ASSUME NEW a \in Nat, MaySend(w, e, a, c)' PROVE e \in S /\ a = attempts[e] + 1
      OBVIOUS
    <3>1. [event |-> e, attempt |-> a] \in fresh(S)
      BY <1>0, <1>1, <1>2 DEF MaySend, TypeOK
    <3>2. PICK d \in S : [event |-> e, attempt |-> a] = [event |-> d, attempt |-> attempts[d] + 1]
      BY <3>1
    <3> QED BY <3>2
  <2> DEFINE P == Cardinality(Pending(e, c))
             Q == Cardinality(Pending(e, c)')
  <2>6. CASE e \in S
    <3>1. Pending(e, c)' \subseteq Pending(e, c) \cup {attempts[e] + 1}
      BY <2>1, <2>4, <2>5, <2>6 DEF Pending
    <3>2. Q \in Nat /\ P \in Nat /\ Q <= P + 1
      <4>1. IsFiniteSet(Pending(e, c))
        BY <1>0, <1>7, CountsAreFinite
      <4> HIDE DEF P, Q
      <4>2. Cardinality(Pending(e, c)) \in Nat
        BY <4>1, Counted
      <4>3. /\ Cardinality(Pending(e, c)') \in Nat
            /\ Cardinality(Pending(e, c)') <= Cardinality(Pending(e, c)) + 1
        BY <3>1, <4>1, Counted
      <4> QED BY <4>2, <4>3 DEF P, Q
    <3> HIDE DEF P, Q
    <3>3. Q \in Nat /\ Q <= P + attempts'[e] - attempts[e] /\ attempts[e] <= attempts'[e] /\ attempts'[e] \in Nat
      BY <2>4, <2>6, <3>2
    <3>4. UNCHANGED <<sent[e][c], logs[e][c]>> /\ told[e] \subseteq told'[e] /\ IndInv /\ DeliveryShape
      BY <1>2 DEF DeliveryInv
    <3> QED BY <1>7, <2>3, <3>3, <3>4, CountsStay DEF P, Q
  <2>7. CASE e \notin S
    <3>1. Pending(e, c)' \subseteq Pending(e, c)
      BY <2>1, <2>4, <2>5, <2>7 DEF Pending
    <3>2. Q \in Nat /\ P \in Nat /\ Q <= P
      BY <1>0, <1>7, <3>1, CountsAreFinite, Counted
    <3> HIDE DEF P, Q
    <3>3. Q \in Nat /\ Q <= P + attempts'[e] - attempts[e] /\ attempts[e] <= attempts'[e] /\ attempts'[e] \in Nat
      BY <2>4, <2>7, <3>2
    <3>4. UNCHANGED <<sent[e][c], logs[e][c]>> /\ told[e] \subseteq told'[e] /\ IndInv /\ DeliveryShape
      BY <1>2 DEF DeliveryInv
    <3> QED BY <1>7, <2>3, <3>3, <3>4, CountsStay DEF P, Q
  <2> QED BY <2>6, <2>7
<1> QED BY <1>6, <1>7 DEF CountsAreSound

\* A row is there before the message it is about.
LEMMA CreateLogKeeps ==
  ASSUME DeliveryInv, IndInv', DeliveryShape', NEW w \in Workers, CreateLog(w)
  PROVE  DeliveryInv' /\ (IsFiniteSet(Workers) /\ CountsAreSound => CountsAreSound')
<1>0. TypeOK /\ DeliveryShape /\ IndInv
  BY DEF DeliveryInv, IndInv
<1>1. /\ UNCHANGED <<status, attempts, batch, step, current, ok, todo, answer, sent, told>>
      /\ stage' = [stage EXCEPT ![w] = "logged"] /\ Serving(w) /\ stage[w] = "none"
  BY DEF CreateLog, vars
<1>2. OthersStay(w) /\ stage'[w] = "logged"
  BY <1>0, <1>1 DEF OthersStay, DeliveryShape
<1>3. \A v \in Workers \ {w} : WorkerIsSound(v)'
  BY <1>0, <1>1, <1>2, OthersCount DEF DeliveryInv
<1>4. WorkerIsSound(w)'
  BY <1>1, <1>2 DEF DeliveryInv, WorkerIsSound, Serving, Recipients, resolveChannels
<1>5. ToldIsSound'
  BY <1>1 DEF DeliveryInv, ToldIsSound, Recipients, resolveChannels
<1>6. ASSUME IsFiniteSet(Workers), NEW e \in Events, NEW c \in Channel, CountIsSound(e, c)
      PROVE  CountIsSound(e, c)'
  <2>1. \A v \in Workers \ {w} :
          /\ (v \in LoggedBy(e, c)' <=> v \in LoggedBy(e, c)) /\ (v \in AnsweredBy(e, c)' <=> v \in AnsweredBy(e, c))
          /\ \A a \in Nat : MaySend(v, e, a, c)' <=> MaySend(v, e, a, c)
    BY <1>0, <1>1, <1>2, OthersCount DEF DeliveryInv
  <2>2. w \notin AnsweredBy(e, c)' /\ (w \in LoggedBy(e, c)' => Serves(w, e, c))
    BY <1>1, <1>2 DEF LoggedBy, AnsweredBy, Serves, Serving
  <2>3. AnsweredBy(e, c)' \subseteq AnsweredBy(e, c)
    BY <2>1, <2>2 DEF AnsweredBy
  <2>4. \A a \in Nat : MaySend(w, e, a, c)' <=> MaySend(w, e, a, c)
    BY <1>1, <1>2 DEF MaySend, Unserved
  <2>5. attempts[e] \in Nat /\ attempts' = attempts
    BY <1>0, <1>1 DEF TypeOK
  <2>6. Pending(e, c)' = Pending(e, c)
    BY <2>1, <2>4, <2>5 DEF Pending
  <2> DEFINE P == Cardinality(Pending(e, c))
  <2>7. P \in Nat /\ Cardinality(Pending(e, c)') = P
    BY <1>0, <1>6, <2>6, CountsAreFinite, Counted
  <2>8. CASE ~Serves(w, e, c)
    <3>1. LoggedBy(e, c)' \subseteq LoggedBy(e, c)
      BY <2>1, <2>2, <2>8 DEF LoggedBy
    <3>2. UNCHANGED <<sent[e][c], logs[e][c]>> /\ told[e] \subseteq told'[e] /\ attempts[e] <= attempts'[e] /\ attempts'[e] \in Nat
      BY <1>0, <1>1, <2>5, <2>8, RowIsAdded
    <3> HIDE DEF P
    <3>3. P <= P + attempts'[e] - attempts[e]
      BY <2>5, <2>7
    <3> QED BY <1>0, <1>6, <2>3, <2>7, <3>1, <3>2, <3>3, CountsStay DEF P
  <2>9. CASE Serves(w, e, c)
    <3> DEFINE L == Cardinality(LoggedBy(e, c))
               M == Cardinality(LoggedBy(e, c)')
               A == Cardinality(AnsweredBy(e, c))
               B == Cardinality(AnsweredBy(e, c)')
    <3>1. LoggedBy(e, c)' \subseteq LoggedBy(e, c) \cup {w}
      BY <2>1 DEF LoggedBy
    <3>2. L \in Nat /\ M \in Nat /\ M <= L + 1 /\ A \in Nat /\ B \in Nat /\ B <= A
      BY <1>0, <1>6, <2>3, <3>1, CountsAreFinite, Counted
    <3>3. /\ logs'[e][c]["PENDING"] = logs[e][c]["PENDING"] + 1 /\ logs'[e][c]["SENT"] = logs[e][c]["SENT"]
          /\ logs'[e][c]["FAILED"] = logs[e][c]["FAILED"] /\ sent'[e][c] = sent[e][c] /\ told'[e] = told[e]
      BY <1>0, <1>1, <2>9, RowIsAdded
    <3>4. /\ logs[e][c]["PENDING"] \in Int /\ logs[e][c]["SENT"] \in Int /\ logs[e][c]["FAILED"] \in Int /\ sent[e][c] \in Nat
      BY <1>0 DEF DeliveryShape, LogStatus
    <3>5. /\ logs[e][c]["SENT"] > 0 => c \in told[e]
          /\ sent[e][c] + L <= Rows(e, c)
          /\ c \in ReadsRefusals => logs[e][c]["SENT"] + A <= sent[e][c]
          /\ sent[e][c] + P <= attempts[e]
      BY <1>6 DEF CountIsSound
    <3>6. Rows(e, c)' = Rows(e, c) + 1 /\ Rows(e, c) \in Int
      BY <3>3, <3>4 DEF Rows
    <3> HIDE DEF L, M, A, B, P
    <3>7. /\ logs'[e][c]["SENT"] > 0 => c \in told'[e]
          /\ sent'[e][c] + M <= Rows(e, c)'
          /\ c \in ReadsRefusals => logs'[e][c]["SENT"] + B <= sent'[e][c]
          /\ sent'[e][c] + P <= attempts'[e]
      BY <2>5, <2>7, <3>2, <3>3, <3>4, <3>5, <3>6
    <3> QED BY <2>7, <3>7 DEF CountIsSound, M, B, P, ReadsRefusals
  <2> QED BY <2>8, <2>9
<1> QED BY <1>0, <1>3, <1>4, <1>5, <1>6 DEF DeliveryInv, CountsAreSound

\* What the adapter's answer changes.
LEMMA AnswerIsRecorded ==
  ASSUME DeliveryInv, NEW w \in Workers, NEW accepted \in BOOLEAN, NEW nil \in BOOLEAN, AdapterSend(w, accepted, nil)
  PROVE  /\ UNCHANGED <<status, attempts, batch, step, current, ok, todo, logs>>
         /\ Serving(w) /\ stage[w] = "logged" /\ stage'[w] = "answered" /\ answer'[w] = nil /\ OthersStay(w)
         /\ \A e \in Events : /\ told[e] \subseteq told'[e]
                             /\ told'[e] \subseteq told[e] \cup {c \in Channel : Serves(w, e, c) /\ nil}
         /\ \A e \in Events, c \in Channel :
              /\ sent'[e][c] = IF Serves(w, e, c) /\ accepted THEN sent[e][c] + 1 ELSE sent[e][c]
              /\ Serves(w, e, c) /\ nil => c \in told'[e] /\ (c \in ReadsRefusals => accepted)
<1>0. TypeOK /\ DeliveryShape /\ IndInv
  BY DEF DeliveryInv, IndInv
<1>1. Serving(w) /\ step[w] = "handling" /\ current[w].event \in Events /\ Head(todo[w]) \in Channel
  BY <1>0, InHandling DEF AdapterSend, Serving
<1>2. PICK d \in Events, b \in Channel : d = current[w].event /\ b = Head(todo[w])
  BY <1>1
<1>3. /\ sent' = [sent EXCEPT ![d][b] = IF accepted THEN @ + 1 ELSE @]
      /\ told' = [told EXCEPT ![d] = IF nil THEN @ \cup {b} ELSE @]
      /\ answer' = [answer EXCEPT ![w] = nil] /\ stage' = [stage EXCEPT ![w] = "answered"]
      /\ UNCHANGED <<vars, todo, logs>> /\ stage[w] = "logged"
      /\ nil /\ b \in ReadsRefusals => accepted
  BY <1>2 DEF AdapterSend
<1>4. \A e \in Events, c \in Channel : Serves(w, e, c) <=> e = d /\ c = b
  BY <1>1, <1>2 DEF Serves
<1>5. \A e \in Events, c \in Channel :
        sent'[e][c] = IF e = d /\ c = b /\ accepted THEN sent[e][c] + 1 ELSE sent[e][c]
  BY <1>0, <1>3 DEF DeliveryShape
<1>6. \A e \in Events : told'[e] = IF e = d /\ nil THEN told[e] \cup {b} ELSE told[e]
  BY <1>0, <1>3 DEF DeliveryShape
<1>7. /\ \A e \in Events : /\ told[e] \subseteq told'[e]
                          /\ told'[e] \subseteq told[e] \cup {c \in Channel : Serves(w, e, c) /\ nil}
      /\ \A e \in Events, c \in Channel : Serves(w, e, c) /\ nil => c \in told'[e]
  BY <1>4, <1>6
<1>8. OthersStay(w) /\ stage'[w] = "answered" /\ answer'[w] = nil
  BY <1>0, <1>3 DEF OthersStay, DeliveryShape, vars
<1>9. UNCHANGED <<status, attempts, batch, step, current, ok>>
  BY <1>3 DEF vars
<1> QED BY <1>1, <1>3, <1>4, <1>5, <1>7, <1>8, <1>9

\* A channel answered with nil is told of, its mail accepted.
LEMMA AdapterSendKeeps ==
  ASSUME DeliveryInv, IndInv', DeliveryShape', NEW w \in Workers, NEW accepted \in BOOLEAN, NEW nil \in BOOLEAN,
         AdapterSend(w, accepted, nil)
  PROVE  DeliveryInv'
<1>0. TypeOK /\ DeliveryShape /\ IndInv
  BY DEF DeliveryInv, IndInv
<1>1. /\ UNCHANGED <<status, attempts, batch, step, current, ok, todo, logs>>
      /\ Serving(w) /\ stage[w] = "logged" /\ stage'[w] = "answered" /\ answer'[w] = nil /\ OthersStay(w)
  BY AnswerIsRecorded
<1>2. \A e \in Events : /\ told[e] \subseteq told'[e]
                      /\ told'[e] \subseteq told[e] \cup {c \in Channel : Serves(w, e, c) /\ nil}
  BY AnswerIsRecorded
<1>3. \A e \in Events, c \in Channel :
        /\ sent'[e][c] = IF Serves(w, e, c) /\ accepted THEN sent[e][c] + 1 ELSE sent[e][c]
        /\ Serves(w, e, c) /\ nil => c \in told'[e] /\ (c \in ReadsRefusals => accepted)
  BY AnswerIsRecorded
<1>4. \A v \in Workers \ {w} : WorkerIsSound(v)'
  BY <1>0, <1>1, <1>2, OthersCount DEF DeliveryInv
<1>5. WorkerIsSound(w)'
  <2>1. /\ current[w].event \in Events /\ Head(todo[w]) \in Channel /\ ~ok[w] /\ step[w] = "handling"
    BY <1>0, <1>1, InHandling DEF Serving
  <2>2. Serves(w, current[w].event, Head(todo[w]))
    BY <1>1 DEF Serves
  <2>3. nil => Head(todo[w]) \in told'[current[w].event]
    BY <1>3, <2>1, <2>2
  <2>4. WorkerIsSound(w) /\ told[current[w].event] \subseteq told'[current[w].event]
    BY <1>2, <2>1 DEF DeliveryInv
  <2> QED BY <1>1, <2>1, <2>3, <2>4 DEF WorkerIsSound, Serving, Recipients, resolveChannels
<1>6. ToldIsSound'
  <2> SUFFICES ASSUME NEW e \in Events
               PROVE  /\ status[e] = "DELIVERED" => Range(Recipients(e)) \subseteq told'[e]
                      /\ \A c \in told'[e] \cap ReadsRefusals : sent'[e][c] > 0
    BY <1>1 DEF ToldIsSound, Recipients, resolveChannels, ReadsRefusals
  <2>1. status[e] = "DELIVERED" => Range(Recipients(e)) \subseteq told'[e]
    BY <1>2 DEF DeliveryInv, ToldIsSound
  <2>2. ASSUME NEW c \in told'[e] \cap ReadsRefusals PROVE sent'[e][c] > 0
    <3>0. c \in Channel /\ sent[e][c] \in Nat
      BY <1>0, <2>2 DEF DeliveryShape, ReadsRefusals, Channel
    <3>1. CASE c \in told[e]
      <4>1. sent[e][c] > 0
        BY <2>2, <3>1 DEF DeliveryInv, ToldIsSound
      <4> QED BY <1>3, <3>0, <4>1
    <3>2. CASE c \notin told[e]
      <4>1. Serves(w, e, c) /\ nil
        BY <1>2, <2>2, <3>2
      <4> QED BY <1>3, <2>2, <3>0, <4>1
    <3> QED BY <3>1, <3>2
  <2> QED BY <2>1, <2>2
<1> QED BY <1>4, <1>5, <1>6 DEF DeliveryInv

\* A message sent is covered by its row, and takes its attempt off what may be sent.
LEMMA AdapterSendCounts ==
  ASSUME DeliveryInv, IsFiniteSet(Workers), NEW w \in Workers, NEW accepted \in BOOLEAN, NEW nil \in BOOLEAN,
         AdapterSend(w, accepted, nil), NEW e \in Events, NEW c \in Channel, CountIsSound(e, c)
  PROVE  CountIsSound(e, c)'
<1>0. TypeOK /\ DeliveryShape /\ IndInv
  BY DEF DeliveryInv, IndInv
<1>1. /\ UNCHANGED <<status, attempts, batch, step, current, ok, todo, logs>>
      /\ Serving(w) /\ stage[w] = "logged" /\ stage'[w] = "answered" /\ answer'[w] = nil /\ OthersStay(w)
  BY AnswerIsRecorded
<1>2. \A d \in Events : told[d] \subseteq told'[d]
  BY AnswerIsRecorded
<1>3. /\ sent'[e][c] = IF Serves(w, e, c) /\ accepted THEN sent[e][c] + 1 ELSE sent[e][c]
      /\ Serves(w, e, c) /\ nil => (c \in ReadsRefusals => accepted)
  BY AnswerIsRecorded
<1>4. \A v \in Workers \ {w} :
        /\ (v \in LoggedBy(e, c)' <=> v \in LoggedBy(e, c)) /\ (v \in AnsweredBy(e, c)' <=> v \in AnsweredBy(e, c))
        /\ \A a \in Nat : MaySend(v, e, a, c)' <=> MaySend(v, e, a, c)
  BY <1>0, <1>1, <1>2, OthersCount DEF DeliveryInv
<1>5. /\ w \notin LoggedBy(e, c)' /\ (w \in LoggedBy(e, c) <=> Serves(w, e, c))
      /\ w \notin AnsweredBy(e, c) /\ (w \in AnsweredBy(e, c)' => Serves(w, e, c) /\ nil)
  BY <1>1 DEF LoggedBy, AnsweredBy, Serves, Serving
<1>6. /\ current[w].event \in Events /\ current[w].attempt \in Nat /\ ~ok[w] /\ step[w] = "handling"
      /\ current[w] # NoClaim /\ current[w] = [event |-> current[w].event, attempt |-> current[w].attempt]
  BY <1>0, <1>1, InHandling DEF Serving
<1>7. todo[w] \in Seq(Channel) /\ todo[w] # <<>> /\ Different(todo[w])
  BY <1>0, <1>1 DEF DeliveryShape, Serving, DeliveryInv, WorkerIsSound
<1>8. Range(todo[w]) = {Head(todo[w])} \cup Range(Tail(todo[w])) /\ Head(todo[w]) \notin Range(Tail(todo[w]))
  BY <1>7, HeadAndTail
<1>9. Unserved(w) = Range(todo[w]) /\ Unserved(w)' = Range(Tail(todo[w]))
  BY <1>1 DEF Unserved
<1>10. \A a \in Nat : MaySend(w, e, a, c)' => MaySend(w, e, a, c)
  BY <1>1, <1>8, <1>9 DEF MaySend
<1>11. attempts[e] \in Nat /\ attempts' = attempts
  BY <1>0, <1>1 DEF TypeOK
<1>12. Pending(e, c)' \subseteq Pending(e, c)
  BY <1>4, <1>10, <1>11 DEF Pending
<1>13. AnsweredBy(e, c)' \subseteq AnsweredBy(e, c) \cup {w} /\ LoggedBy(e, c)' \subseteq LoggedBy(e, c)
  BY <1>4, <1>5 DEF LoggedBy, AnsweredBy
<1> DEFINE L == Cardinality(LoggedBy(e, c))
           M == Cardinality(LoggedBy(e, c)')
           A == Cardinality(AnsweredBy(e, c))
           B == Cardinality(AnsweredBy(e, c)')
           P == Cardinality(Pending(e, c))
           Q == Cardinality(Pending(e, c)')
<1>14. IsFiniteSet(LoggedBy(e, c)) /\ IsFiniteSet(AnsweredBy(e, c)) /\ IsFiniteSet(Pending(e, c))
  BY <1>0, CountsAreFinite
<1>15. L \in Nat /\ M \in Nat /\ M <= L
  BY <1>13, <1>14, Counted
<1>16. A \in Nat /\ B \in Nat /\ B <= A + 1
  BY <1>13, <1>14, Counted
<1>17. P \in Nat /\ Q \in Nat /\ Q <= P
  BY <1>12, <1>14, Counted
<1>18. CASE ~Serves(w, e, c)
  <2>1. AnsweredBy(e, c)' \subseteq AnsweredBy(e, c)
    BY <1>4, <1>5, <1>18 DEF AnsweredBy
  <2>2. UNCHANGED <<sent[e][c], logs[e][c]>> /\ told[e] \subseteq told'[e] /\ attempts[e] <= attempts'[e] /\ attempts'[e] \in Nat
    BY <1>1, <1>2, <1>3, <1>11, <1>18
  <2> HIDE DEF P, Q
  <2>3. Q <= P + attempts'[e] - attempts[e]
    BY <1>11, <1>17
  <2> QED BY <1>0, <1>13, <1>17, <2>1, <2>2, <2>3, CountsStay DEF P, Q
<1>19. CASE Serves(w, e, c)
  <2>1. current[w].event = e /\ Head(todo[w]) = c
    BY <1>19 DEF Serves
  <2>2. M + 1 <= L
    <3>1. w \in LoggedBy(e, c) /\ LoggedBy(e, c)' \subseteq LoggedBy(e, c) \ {w}
      BY <1>5, <1>13, <1>19
    <3> QED BY <1>14, <3>1, Counted
  <2>3. Q + 1 <= P
    <3>1. PICK a \in Nat : current[w] = [event |-> e, attempt |-> a] /\ a = current[w].attempt
      BY <1>6, <2>1
    <3>2. 1 <= a /\ a <= attempts[e] /\ current[w] \in InHand(w)
      BY <1>0, <1>6, <2>1, <3>1 DEF IndInv, HeldWasClaimed, InHand
    <3>3. MaySend(w, e, a, c)
      BY <1>6, <1>8, <1>9, <2>1, <3>1 DEF MaySend
    <3>4. a \in Pending(e, c)
      BY <1>11, <3>2, <3>3 DEF Pending
    <3>5. ~MaySend(w, e, a, c)'
      <4>1. current[w] \notin batch[w]
        BY <1>0 DEF IndInv, ClaimsAreUnique
      <4> QED BY <1>1, <1>8, <1>9, <2>1, <3>1, <4>1 DEF MaySend
    <3>6. \A v \in Workers \ {w} : ~MaySend(v, e, a, c)
      <4> SUFFICES ASSUME NEW v \in Workers \ {w}, MaySend(v, e, a, c) PROVE FALSE
        OBVIOUS
      <4>1. current[w] \in InHand(v)
        BY <1>6, <3>1 DEF MaySend, InHand
      <4>2. InHand(w) \cap InHand(v) = {}
        BY <1>0 DEF IndInv, ClaimsAreUnique
      <4> QED BY <3>2, <4>1, <4>2
    <3>7. a \notin Pending(e, c)'
      BY <1>4, <3>5, <3>6 DEF Pending
    <3>8. Pending(e, c)' \subseteq Pending(e, c) \ {a}
      BY <1>12, <3>7
    <3> QED BY <1>14, <3>4, <3>8, Counted
  <2>4. ~nil => B <= A
    <3>1. ~nil => AnsweredBy(e, c)' \subseteq AnsweredBy(e, c)
      BY <1>4, <1>5 DEF AnsweredBy
    <3> QED BY <1>14, <3>1, Counted
  <2>5. Rows(e, c) \in Int /\ Rows(e, c)' = Rows(e, c) /\ logs[e][c]["SENT"] \in Int /\ sent[e][c] \in Nat
        /\ logs'[e][c]["SENT"] = logs[e][c]["SENT"]
    BY <1>0, <1>1 DEF Rows, DeliveryShape, LogStatus
  <2>6. /\ logs[e][c]["SENT"] > 0 => c \in told'[e]
        /\ sent[e][c] + L <= Rows(e, c)
        /\ c \in ReadsRefusals => logs[e][c]["SENT"] + A <= sent[e][c]
        /\ sent[e][c] + P <= attempts[e]
    BY <1>2 DEF CountIsSound
  <2>7. /\ accepted => sent'[e][c] = sent[e][c] + 1
        /\ ~accepted => sent'[e][c] = sent[e][c]
        /\ nil /\ c \in ReadsRefusals => accepted
    BY <1>3, <1>19
  <2> HIDE DEF L, M, A, B, P, Q
  <2>8. /\ logs'[e][c]["SENT"] > 0 => c \in told'[e]
        /\ sent'[e][c] + M <= Rows(e, c)'
        /\ sent'[e][c] + Q <= attempts'[e]
    BY <1>11, <1>15, <1>17, <2>2, <2>3, <2>5, <2>6, <2>7
  <2>9. c \in ReadsRefusals => logs'[e][c]["SENT"] + B <= sent'[e][c]
    BY <1>16, <2>4, <2>5, <2>6, <2>7
  <2> QED BY <2>8, <2>9 DEF CountIsSound, M, B, Q, ReadsRefusals
<1> QED BY <1>18, <1>19

\* What recording the outcome changes: the channel is done, or the call is over.
LEMMA OutcomeIsRecorded ==
  ASSUME DeliveryInv, NEW w \in Workers, NEW stored \in BOOLEAN, RecordStatus(w, stored)
  PROVE  /\ UNCHANGED <<status, attempts, batch, current, sent, told>>
         /\ Serving(w) /\ stage[w] = "answered" /\ stage'[w] = "none" /\ OthersStay(w)
         /\ \/ answer[w] /\ step'[w] = "handling" /\ ~ok'[w] /\ todo'[w] = Tail(todo[w])
            \/ ~answer[w] /\ step'[w] = "settling" /\ ~ok'[w] /\ todo'[w] = <<>>
<1>0. TypeOK /\ DeliveryShape /\ IndInv
  BY DEF DeliveryInv, IndInv
<1>1. /\ Serving(w) /\ stage[w] = "answered" /\ stage' = [stage EXCEPT ![w] = "none"]
      /\ answer' = [answer EXCEPT ![w] = FALSE] /\ UNCHANGED <<sent, told>>
  BY DEF RecordStatus, Answered
<1>2. step[w] = "handling" /\ ~ok[w]
  BY <1>0, <1>1, InHandling DEF Serving
<1>3. CASE answer[w]
  <2>1. todo' = [todo EXCEPT ![w] = Tail(@)] /\ UNCHANGED vars
    BY <1>3 DEF RecordStatus, NextChannel
  <2>2. UNCHANGED <<status, attempts, batch, step, current, ok>>
    BY <2>1 DEF vars
  <2>3. OthersStay(w) /\ stage'[w] = "none" /\ todo'[w] = Tail(todo[w])
    BY <1>0, <1>1, <2>1, <2>2 DEF OthersStay, DeliveryShape
  <2> QED BY <1>1, <1>2, <1>3, <2>2, <2>3
<1>4. CASE ~answer[w]
  <2>1. /\ todo' = [todo EXCEPT ![w] = <<>>] /\ step' = [step EXCEPT ![w] = "settling"]
        /\ ok' = [ok EXCEPT ![w] = FALSE] /\ UNCHANGED <<status, attempts, batch, current>>
    BY <1>4 DEF RecordStatus, GiveUp, HandlerReturns
  <2>2. /\ OthersStay(w) /\ stage'[w] = "none" /\ todo'[w] = <<>>
        /\ step'[w] = "settling" /\ ~ok'[w]
    BY <1>0, <1>1, <2>1 DEF OthersStay, DeliveryShape, TypeOK
  <2> QED BY <1>1, <1>4, <2>1, <2>2
<1> QED BY <1>3, <1>4

\* The recipients left are the ones not told of yet.
LEMMA RecordStatusKeeps ==
  ASSUME DeliveryInv, IndInv', DeliveryShape', NEW w \in Workers, NEW stored \in BOOLEAN, RecordStatus(w, stored)
  PROVE  DeliveryInv'
<1>0. DeliveryShape /\ IndInv
  BY DEF DeliveryInv
<1>1. /\ UNCHANGED <<status, attempts, batch, current, sent, told>>
      /\ Serving(w) /\ stage[w] = "answered" /\ stage'[w] = "none" /\ OthersStay(w) /\ ~ok'[w]
  BY OutcomeIsRecorded
<1>2. \/ answer[w] /\ step'[w] = "handling" /\ todo'[w] = Tail(todo[w])
      \/ ~answer[w] /\ step'[w] = "settling" /\ todo'[w] = <<>>
  BY OutcomeIsRecorded
<1>3. todo[w] \in Seq(Channel) /\ todo[w] # <<>> /\ Different(todo[w])
  BY <1>0, <1>1 DEF DeliveryShape, Serving, DeliveryInv, WorkerIsSound
<1>4. Range(todo[w]) = {Head(todo[w])} \cup Range(Tail(todo[w])) /\ Different(Tail(todo[w]))
  BY <1>3, HeadAndTail
<1>5. CASE answer[w] /\ step'[w] = "handling" /\ todo'[w] = Tail(todo[w])
  <2>1. /\ Range(Recipients(current[w].event)) \subseteq told[current[w].event] \cup Range(todo[w])
        /\ Head(todo[w]) \in told[current[w].event]
    BY <1>1, <1>5 DEF DeliveryInv, WorkerIsSound, Serving
  <2>2. Range(Recipients(current'[w].event)) \subseteq told[current'[w].event] \cup Range(todo'[w])
    BY <1>1, <1>4, <1>5, <2>1
  <2> QED BY <1>1, <1>4, <1>5, <2>2, SoundWithoutNews
<1>6. CASE ~answer[w] /\ step'[w] = "settling" /\ todo'[w] = <<>>
  BY <1>1, <1>6, DropKeeps
<1> QED BY <1>2, <1>5, <1>6

\* A row says SENT for a message answered with nil, once for each answer.
LEMMA RecordStatusCounts ==
  ASSUME DeliveryInv, IsFiniteSet(Workers), NEW w \in Workers, NEW stored \in BOOLEAN, RecordStatus(w, stored),
         NEW e \in Events, NEW c \in Channel, CountIsSound(e, c)
  PROVE  CountIsSound(e, c)'
<1>0. TypeOK /\ DeliveryShape /\ IndInv
  BY DEF DeliveryInv, IndInv
<1>1. /\ UNCHANGED <<status, attempts, batch, current, sent, told>>
      /\ Serving(w) /\ stage[w] = "answered" /\ stage'[w] = "none" /\ OthersStay(w) /\ ~ok'[w]
  BY OutcomeIsRecorded
<1>2. \/ answer[w] /\ step'[w] = "handling" /\ todo'[w] = Tail(todo[w])
      \/ ~answer[w] /\ step'[w] = "settling" /\ todo'[w] = <<>>
  BY OutcomeIsRecorded
<1>3. \A v \in Workers \ {w} :
        /\ (v \in LoggedBy(e, c)' <=> v \in LoggedBy(e, c)) /\ (v \in AnsweredBy(e, c)' <=> v \in AnsweredBy(e, c))
        /\ \A a \in Nat : MaySend(v, e, a, c)' <=> MaySend(v, e, a, c)
  BY <1>0, <1>1, OthersCount DEF DeliveryInv
<1>4. /\ w \notin LoggedBy(e, c)' /\ w \notin AnsweredBy(e, c)'
      /\ (w \in AnsweredBy(e, c) <=> Serves(w, e, c) /\ answer[w])
  BY <1>1 DEF LoggedBy, AnsweredBy
<1>5. LoggedBy(e, c)' \subseteq LoggedBy(e, c) /\ AnsweredBy(e, c)' \subseteq AnsweredBy(e, c) \ {w}
  BY <1>3, <1>4 DEF LoggedBy, AnsweredBy
<1>6. \A a \in Nat : MaySend(w, e, a, c)' => MaySend(w, e, a, c)
  <2>1. Unserved(w) = Range(Tail(todo[w])) /\ Unserved(w)' = Range(todo'[w])
    BY <1>1 DEF Unserved
  <2>2. step[w] = "handling" /\ step'[w] = "handling" => Unserved(w)' = Unserved(w)
    BY <1>2, <2>1
  <2>3. step[w] = "handling"
    BY <1>1 DEF Serving
  <2> QED BY <1>1, <2>2, <2>3 DEF MaySend
<1>7. attempts[e] \in Nat /\ attempts' = attempts
  BY <1>0, <1>1 DEF TypeOK
<1>8. Pending(e, c)' \subseteq Pending(e, c)
  BY <1>3, <1>6, <1>7 DEF Pending
<1> DEFINE L == Cardinality(LoggedBy(e, c))
           M == Cardinality(LoggedBy(e, c)')
           A == Cardinality(AnsweredBy(e, c))
           B == Cardinality(AnsweredBy(e, c)')
           P == Cardinality(Pending(e, c))
           Q == Cardinality(Pending(e, c)')
<1>9. IsFiniteSet(LoggedBy(e, c)) /\ IsFiniteSet(AnsweredBy(e, c)) /\ IsFiniteSet(Pending(e, c))
  BY <1>0, CountsAreFinite
<1>10. L \in Nat /\ M \in Nat /\ M <= L
  BY <1>5, <1>9, Counted
<1>11. A \in Nat /\ B \in Nat /\ B <= A
  BY <1>5, <1>9, Counted
<1>12. Serves(w, e, c) /\ answer[w] => B + 1 <= A
  BY <1>4, <1>5, <1>9, Counted
<1>13. P \in Nat /\ Q \in Nat /\ Q <= P
  BY <1>8, <1>9, Counted
<1>14. UNCHANGED <<sent[e][c], told[e]>> /\ sent[e][c] \in Nat
  BY <1>0, <1>1 DEF DeliveryShape
<1>15. CASE logs'[e][c] = logs[e][c]
  <2>1. UNCHANGED <<sent[e][c], logs[e][c]>> /\ told[e] \subseteq told'[e] /\ attempts[e] <= attempts'[e] /\ attempts'[e] \in Nat
    BY <1>7, <1>14, <1>15
  <2>2. AnsweredBy(e, c)' \subseteq AnsweredBy(e, c)
    BY <1>5
  <2> HIDE DEF P, Q
  <2>3. Q <= P + attempts'[e] - attempts[e]
    BY <1>7, <1>13
  <2> QED BY <1>0, <1>5, <1>13, <2>1, <2>2, <2>3, CountsStay DEF P, Q
<1>16. CASE logs'[e][c] # logs[e][c]
  <2>1. Serves(w, e, c)
    BY <1>0, <1>16, RowIsMoved
  <2>2. /\ logs'[e][c]["PENDING"] = logs[e][c]["PENDING"] - 1
        /\ \/ /\ answer[w]
              /\ logs'[e][c]["SENT"] = logs[e][c]["SENT"] + 1
              /\ logs'[e][c]["FAILED"] = logs[e][c]["FAILED"]
           \/ /\ logs'[e][c]["SENT"] = logs[e][c]["SENT"]
              /\ logs'[e][c]["FAILED"] = logs[e][c]["FAILED"] + 1
    BY <1>0, <1>16, <2>1, RowIsMoved
  <2>3. logs[e][c]["PENDING"] \in Int /\ logs[e][c]["SENT"] \in Int /\ logs[e][c]["FAILED"] \in Int
    BY <1>0 DEF DeliveryShape, LogStatus
  <2>4. Rows(e, c) \in Int /\ Rows(e, c)' = Rows(e, c)
    BY <2>2, <2>3 DEF Rows
  <2>5. answer[w] => c \in told[e]
    <3>1. current[w].event = e /\ Head(todo[w]) = c
      BY <2>1 DEF Serves
    <3> QED BY <1>1, <3>1 DEF DeliveryInv, WorkerIsSound
  <2>6. /\ logs[e][c]["SENT"] > 0 => c \in told[e]
        /\ sent[e][c] + L <= Rows(e, c)
        /\ c \in ReadsRefusals => logs[e][c]["SENT"] + A <= sent[e][c]
        /\ sent[e][c] + P <= attempts[e]
    BY DEF CountIsSound
  <2> HIDE DEF L, M, A, B, P, Q
  <2>7. /\ logs'[e][c]["SENT"] > 0 => c \in told'[e]
        /\ sent'[e][c] + M <= Rows(e, c)'
        /\ sent'[e][c] + Q <= attempts'[e]
    BY <1>7, <1>10, <1>13, <1>14, <2>2, <2>3, <2>4, <2>5, <2>6
  <2>8. c \in ReadsRefusals => logs'[e][c]["SENT"] + B <= sent'[e][c]
    BY <1>11, <1>12, <1>14, <2>1, <2>2, <2>3, <2>6
  <2> QED BY <2>7, <2>8 DEF CountIsSound, M, B, Q, ReadsRefusals
<1> QED BY <1>15, <1>16

-----------------------------------------------------------------------------

\* Every step keeps the invariant, and the counts if the workers are finitely many.
LEMMA DeliveryInvNext ==
  DeliveryInv /\ [DeliveryNext]_allVars => DeliveryInv' /\ (IsFiniteSet(Workers) /\ CountsAreSound => CountsAreSound')
<1> SUFFICES ASSUME DeliveryInv, [DeliveryNext]_allVars
             PROVE  DeliveryInv' /\ (IsFiniteSet(Workers) /\ CountsAreSound => CountsAreSound')
  OBVIOUS
<1> DEFINE Goal == DeliveryInv' /\ (IsFiniteSet(Workers) /\ CountsAreSound => CountsAreSound')
<1>0. IndInv' /\ DeliveryShape' /\ TypeOK
  BY DeliveryIsOutbox, DeliveryShapeNext DEF DeliveryInv, IndInv
<1>1. ASSUME NEW e \in Events, Enqueue(e), UNCHANGED comms PROVE Goal
  <2>1. \A d \in Events : status'[d] = "DELIVERED" => status[d] = "DELIVERED"
    BY <1>0, <1>1 DEF Enqueue, TypeOK
  <2> QED BY <1>0, <1>1, <2>1, QuietKeeps DEF Enqueue
<1>2. ASSUME NEW w \in Workers, Claim(w), UNCHANGED comms PROVE Goal
  BY <1>0, <1>2, ClaimKeeps
<1>3. ASSUME NEW w \in Workers, DeliveryTakeUp(w) PROVE Goal
  BY <1>0, <1>3, TakeUpKeeps
<1>4. ASSUME NEW w \in Workers, CreateLog(w) PROVE Goal
  BY <1>0, <1>4, CreateLogKeeps
<1>5. ASSUME NEW w \in Workers, NEW accepted \in BOOLEAN, NEW nil \in BOOLEAN, AdapterSend(w, accepted, nil) PROVE Goal
  BY <1>0, <1>5, AdapterSendKeeps, AdapterSendCounts DEF CountsAreSound
<1>6. ASSUME NEW w \in Workers, NEW stored \in BOOLEAN, RecordStatus(w, stored) PROVE Goal
  BY <1>0, <1>6, RecordStatusKeeps, RecordStatusCounts DEF CountsAreSound
<1>7. ASSUME NEW w \in Workers, SendEventReturns(w) PROVE Goal
  BY <1>0, <1>7, ReturnKeeps
<1>8. ASSUME NEW w \in Workers, Settle(w), UNCHANGED comms PROVE Goal
  BY <1>0, <1>8, SettleDelivers
<1>9. ASSUME NEW w \in Workers, CreateLogFails(w) \/ (SettleFails(w) /\ UNCHANGED comms) \/ DeliveryCrash(w) PROVE Goal
  BY <1>0, <1>9, FaultKeeps
<1>10. CASE (Tick /\ UNCHANGED comms) \/ UNCHANGED allVars
  <2>1. UNCHANGED <<comms, status, attempts, batch, step, current, ok>>
    BY <1>10 DEF Tick, allVars, vars
  <2> QED BY <1>0, <2>1, QuietKeeps
<1> QED BY <1>1, <1>2, <1>3, <1>4, <1>5, <1>6, <1>7, <1>8, <1>9, <1>10 DEF DeliveryNext

\* The invariant holds before anything is enqueued.
LEMMA DeliveryInvInit == DeliveryInit => DeliveryInv /\ CountsAreSound
<1> SUFFICES ASSUME DeliveryInit PROVE DeliveryInv /\ CountsAreSound
  OBVIOUS
<1>1. Init
  BY DEF DeliveryInit
<1>2. IndInv
  BY <1>1, IndInvInit
<1>3. <<>> \in Seq(Channel) /\ Different(<<>>)
  BY DEF Different
<1>4. DeliveryShape
  BY <1>3 DEF DeliveryInit, DeliveryShape
<1>5. ASSUME NEW w \in Workers PROVE WorkerIsSound(w)
  BY <1>1, <1>3, <1>5 DEF DeliveryInit, Init, WorkerIsSound
<1>6. ToldIsSound
  BY <1>1 DEF DeliveryInit, Init, ToldIsSound
<1>7. ASSUME NEW e \in Events, NEW c \in Channel PROVE CountIsSound(e, c)
  <2>1. LoggedBy(e, c) = {} /\ AnsweredBy(e, c) = {} /\ Pending(e, c) = {}
    BY <1>1 DEF LoggedBy, AnsweredBy, Pending, DeliveryInit, Init
  <2>2. Cardinality({}) = 0
    BY FS_EmptySet
  <2>3. Rows(e, c) = 0 /\ logs[e][c]["SENT"] = 0 /\ sent[e][c] = 0 /\ attempts[e] = 0
    BY <1>1 DEF Rows, DeliveryInit, Init, LogStatus
  <2> QED BY <2>1, <2>2, <2>3 DEF CountIsSound
<1> QED BY <1>2, <1>4, <1>5, <1>6, <1>7 DEF DeliveryInv, CountsAreSound

\* The invariant of the delivery holds in every reachable state.
LEMMA DeliveryInvariance == DeliverySpec => []DeliveryInv
BY DeliveryInvInit, DeliveryInvNext, PTL DEF DeliverySpec

\* The invariant says what DeliveredOnEveryChannel does.
LEMMA InvDelivers == DeliveryInv => DeliveredOnEveryChannel
BY DEF DeliveryInv, ToldIsSound, DeliveredOnEveryChannel

\* The counts say what MessagesAreAccountedFor does.
LEMMA CountsAccount == IsFiniteSet(Workers) /\ DeliveryInv /\ CountsAreSound => MessagesAreAccountedFor
<1> SUFFICES ASSUME IsFiniteSet(Workers), DeliveryInv, CountsAreSound, NEW e \in Events, NEW c \in Channel
             PROVE  /\ logs[e][c]["SENT"] > 0 => c \in told[e]
                    /\ c \in ReadsRefusals => logs[e][c]["SENT"] <= sent[e][c]
                    /\ sent[e][c] <= logs[e][c]["PENDING"] + logs[e][c]["SENT"] + logs[e][c]["FAILED"]
                    /\ sent[e][c] <= attempts[e]
  BY DEF MessagesAreAccountedFor
<1>1. IsFiniteSet(LoggedBy(e, c)) /\ IsFiniteSet(AnsweredBy(e, c)) /\ IsFiniteSet(Pending(e, c))
  BY CountsAreFinite DEF DeliveryInv, IndInv
<1>2. Cardinality(LoggedBy(e, c)) \in Nat /\ Cardinality(AnsweredBy(e, c)) \in Nat /\ Cardinality(Pending(e, c)) \in Nat
  BY <1>1, FS_CardinalityType
<1>3. logs[e][c]["PENDING"] \in Int /\ logs[e][c]["SENT"] \in Int /\ logs[e][c]["FAILED"] \in Int
      /\ sent[e][c] \in Nat /\ attempts[e] \in Nat
  BY DEF DeliveryInv, DeliveryShape, LogStatus, IndInv, TypeOK
<1>4. CountIsSound(e, c)
  BY DEF CountsAreSound
<1> QED BY <1>2, <1>3, <1>4 DEF CountIsSound, Rows

\* An acknowledged notification was answered with nil on every channel its policy names,
\* and its mail accepted (SendEvent of internal/modules/comms, run by cmd/worker).
THEOREM AcknowledgedIsDelivered == DeliverySpec => []DeliveredOnEveryChannel
BY DeliveryInvariance, InvDelivers, PTL

\* The delivery log neither invents nor misses a message, and duplicates come from new
\* attempts only, whatever crashes, retries and lost updates come between.
THEOREM EveryMessageIsAccountedFor == IsFiniteSet(Workers) => (DeliverySpec => []MessagesAreAccountedFor)
<1> SUFFICES ASSUME IsFiniteSet(Workers) PROVE DeliverySpec => []MessagesAreAccountedFor
  OBVIOUS
<1>1. DeliveryInit => DeliveryInv /\ CountsAreSound
  BY DeliveryInvInit
<1>2. DeliveryInv /\ CountsAreSound /\ [DeliveryNext]_allVars => DeliveryInv' /\ CountsAreSound'
  BY DeliveryInvNext
<1>3. DeliveryInv /\ CountsAreSound => MessagesAreAccountedFor
  BY CountsAccount
<1> QED BY <1>1, <1>2, <1>3, PTL DEF DeliverySpec

HIDE OutboxAssumption

-----------------------------------------------------------------------------

\* Composed: what has a key goes out once, whichever part a behaviour works on.
THEOREM KeyedGoOutOnce == GraceLength > 2 * DayLength => (MCSpec => []OnceWhereKeyed)
<1> SUFFICES ASSUME GraceLength > 2 * DayLength PROVE MCSpec => []OnceWhereKeyed
  OBVIOUS
<1>1. MCInit => ReminderInit /\ DirectInit
  BY DEF MCInit
<1>2. [MCNext]_<<part, allVars, remindersAll, directVars>> => [ReminderNext]_remindersAll /\ [DirectNext]_directVars
  BY DEF MCNext
<1>3. ReminderSpec => []StoryFollowsGrace
  BY StoriesFollowGrace
<1>4. OneMailPerReminder /\ StoryFollowsGrace /\ OneMessagePerKey => OnceWhereKeyed
  BY DEF OnceWhereKeyed
<1> QED BY <1>1, <1>2, <1>3, <1>4, RemindersAreMailedOnce, DirectSendsAreOnce, PTL
        DEF MCSpec, ReminderSpec, DirectSpec
=============================================================================
