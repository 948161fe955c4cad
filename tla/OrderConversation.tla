------------------------- MODULE OrderConversation -------------------------
(***************************************************************************)
(* The messages about one order (internal/modules/conversation).  Sending  *)
(* is one transaction.  Listing selects the messages, marks those of       *)
(* others read with a second statement, and then answers; messages arrive, *)
(* and others list, in between.  Who may take part, and what is said or    *)
(* attached, is left out.                                                  *)
(***************************************************************************)
EXTENDS RequestBase

CONSTANTS
  Lists,     \* concurrent requests for the messages (bound)
  Messages,  \* message ids (bound)
  People     \* the customer, the vendor and the staff of the store

VARIABLES
  message,  \* [Messages -> [sender, read]], sender None without a row
  listing,  \* [Lists -> [at, reader, selected]], lists under way
  shown,    \* history: [Messages -> SUBSET People], whose list has answered with it
  doubtful  \* history: messages that came while somebody's list was under way, or that a
            \* list had selected when it failed

conversationVars == <<message, listing, shown, doubtful>>

NoListing == [at |-> "idle", reader |-> None, selected |-> {}]

ConversationInit ==
  /\ message = [m \in Messages |-> [sender |-> None, read |-> FALSE]]
  /\ listing = [c \in Lists |-> NoListing]
  /\ shown = [m \in Messages |-> {}]
  /\ doubtful = {}

Sent == {m \in Messages : message[m].sender # None}

-----------------------------------------------------------------------------

\* Message and attachments in one transaction.  The answer may be an error though the
\* message is there (handler.go:83), and the sender send it again: that is another one.
Send(m, p) ==
  /\ m \notin Sent
  /\ message' = [message EXCEPT ![m].sender = p]
  /\ doubtful' = doubtful \cup {n \in {m} : \E c \in Lists : listing[c].at # "idle"}
  /\ UNCHANGED <<listing, shown>>

ListByOrder(c, p) ==
  /\ listing[c] = NoListing
  /\ listing' = [listing EXCEPT ![c] = [at |-> "selected", reader |-> p, selected |-> Sent]]
  /\ UNCHANGED <<message, shown, doubtful>>

Marks(c, which) ==
  /\ listing[c].at = "selected"
  /\ message' = [m \in Messages |-> [message[m] EXCEPT !.read = @ \/ m \in which]]
  /\ listing' = [listing EXCEPT ![c].at = "marked"]
  /\ UNCHANGED <<shown, doubtful>>

BugMarkReadByOrderOwnToo(c) == Marks(c, Sent)

\* Every message of others, selected or not.
MarkReadByOrder(c) == Marks(c, {m \in Sent : message[m].sender # listing[c].reader})

AnswerList(c) ==
  /\ listing[c].at = "marked"
  /\ shown' = [m \in Messages |->
       IF m \in listing[c].selected THEN shown[m] \cup {listing[c].reader} ELSE shown[m]]
  /\ listing' = [listing EXCEPT ![c] = NoListing]
  /\ UNCHANGED <<message, doubtful>>

\* A statement fails, or the answer is lost.
ListFails(c) ==
  /\ listing[c] # NoListing
  /\ doubtful' = doubtful \cup listing[c].selected
  /\ listing' = [listing EXCEPT ![c] = NoListing]
  /\ UNCHANGED <<message, shown>>

ConversationNext ==
  \/ \E m \in Messages, p \in People : Send(m, p)
  \/ \E c \in Lists :
       \/ \E p \in People : ListByOrder(c, p)
       \/ MarkReadByOrder(c) \/ AnswerList(c) \/ ListFails(c)

ConversationSpec == ConversationInit /\ [][ConversationNext]_conversationVars

-----------------------------------------------------------------------------

ConversationTypeOK ==
  /\ message \in [Messages -> [sender : People \cup {None}, read : BOOLEAN]]
  /\ listing \in [Lists -> [at : {"idle", "selected", "marked"}, reader : People \cup {None},
                            selected : SUBSET Messages]]
  /\ shown \in [Messages -> SUBSET People]
  /\ doubtful \subseteq Messages

\* A message that somebody else has been shown is marked read, and one that is marked
\* read has been shown to somebody other than its sender, or is about to be, unless it
\* came during a list or a list that had it failed.
ReadMeansShown ==
  \A m \in Sent :
    LET others == shown[m] \ {message[m].sender}
        AboutToBe == \E c \in Lists : listing[c].at = "marked" /\ m \in listing[c].selected
                                      /\ listing[c].reader # message[m].sender IN
    /\ others # {} => message[m].read
    /\ message[m].read => others # {} \/ AboutToBe \/ m \in doubtful
=============================================================================
