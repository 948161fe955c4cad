------------------------- MODULE NotificationInbox -------------------------
(***************************************************************************)
(* The notifications of one recipient (internal/modules/notification), one *)
(* statement a change, and a reader who walks through the list page by     *)
(* page.  A page is a COUNT and a SELECT with LIMIT and OFFSET; rows come, *)
(* change and go between any two statements.  The list is ordered by       *)
(* priority and created_at, which is set before a row is inserted, so that *)
(* rows come in any order of the two; the rows of a bulk share both, and   *)
(* nothing orders two rows that tie.                                       *)
(***************************************************************************)
EXTENDS Naturals, FiniteSets

CONSTANTS
  Notices,   \* ids (bound)
  Places,    \* the key a list is ordered by: priority, then created_at the later first (bound)
  PageLimit  \* rows of a page

NoticeStatus == {"UNREAD", "READ", "DISMISSED"}
NoFilter == "ANY"

ASSUME InboxAssumption ==
  IsFiniteSet(Notices) /\ Places \subseteq Nat \ {0} /\ PageLimit \in Nat \ {0}

VARIABLES
  notice,  \* [Notices -> [status, place]], status "NONE" without a row
  walk     \* [at, filter, offset, total, shown, stayed, came, left]: stayed (history) is what the
           \* filter has listed all along, and beside no row that ties with it; came
           \* whether anything came between a COUNT and its page, left whether anything
           \* has left the list

inboxVars == <<notice, walk>>

NoNotice == [status |-> "NONE", place |-> 0]
Unread(p) == [status |-> "UNREAD", place |-> p]
NoWalk == [at |-> "idle", filter |-> NoFilter, offset |-> 0, total |-> 0,
           shown |-> {}, stayed |-> {}, came |-> FALSE, left |-> FALSE]

InboxInit ==
  /\ notice = [n \in Notices |-> NoNotice]
  /\ walk = NoWalk

Matching(filter) ==
  {n \in Notices : /\ notice[n] # NoNotice
                   /\ filter \in {NoFilter, notice[n].status}}

\* Rows of n's priority and created_at, n among them.
Ties(filter, n) == {m \in Matching(filter) : notice[m].place = notice[n].place}

Alone(filter) == {n \in Matching(filter) : Ties(filter, n) = {n}}

-----------------------------------------------------------------------------
(* The changes. *)

\* The walk that is under way, overtaken by a change.
Overtaken ==
  \E filter \in NoticeStatus \cup {NoFilter} :
    /\ filter = walk.filter
    /\ walk' = [walk EXCEPT
         !.stayed = @ \cap Alone(filter)',
         !.came = @ \/ (walk.at = "counted" /\ ~(Matching(filter)' \subseteq Matching(filter))),
         !.left = @ \/ ~(Matching(filter) \subseteq Matching(filter)')]

Rewrite(n, row) ==
  /\ notice' = [notice EXCEPT ![n] = row]
  /\ Overtaken

\* Create, and CreateWithOutbox with its event.
CreateNotice(n, p) ==
  /\ notice[n] = NoNotice
  /\ Rewrite(n, Unread(p))

\* BulkCreate: all or none, at one time and of one priority.  A recipient may be named more than once.
BulkCreate(some, p) ==
  /\ some # {} /\ \A n \in some : notice[n] = NoNotice
  /\ notice' = [n \in Notices |-> IF n \in some THEN Unread(p) ELSE notice[n]]
  /\ Overtaken

MarkRead(n) == notice[n].status = "UNREAD" /\ Rewrite(n, [notice[n] EXCEPT !.status = "READ"])

MarkAllRead ==
  /\ notice' = [n \in Notices |->
       IF notice[n].status = "UNREAD" THEN [notice[n] EXCEPT !.status = "READ"] ELSE notice[n]]
  /\ Overtaken

Dismiss(n) == notice[n] # NoNotice /\ Rewrite(n, [notice[n] EXCEPT !.status = "DISMISSED"])

DeleteNotice(n) == notice[n] # NoNotice /\ Rewrite(n, NoNotice)

-----------------------------------------------------------------------------
(* The list. *)

BugTotalUnread(filter) == Cardinality(Matching("UNREAD"))

Total(filter) == Cardinality(Matching(filter))

Ahead(filter, n) == {m \in Matching(filter) : notice[m].place < notice[n].place}

\* LIMIT PageLimit OFFSET offset: of the rows that tie, any that fill their places on the page.
Pages(filter, offset) ==
  {page \in SUBSET Matching(filter) : \A n \in Matching(filter) :
     LET first == Cardinality(Ahead(filter, n))
         ties == Ties(filter, n)
         places == first..(first + Cardinality(ties) - 1)
     IN  Cardinality(page \cap ties) =
           Cardinality({i \in places : i \in offset..(offset + PageLimit - 1)})}

\* The first COUNT, and what the list holds then.
StartWalk(filter) ==
  /\ walk.at \in {"idle", "done"}
  /\ walk' = [NoWalk EXCEPT !.at = "counted", !.filter = filter, !.total = Total(filter),
                            !.stayed = Alone(filter)]
  /\ UNCHANGED notice

CountAgain ==
  /\ walk.at = "paged"
  /\ walk' = [walk EXCEPT !.at = "counted", !.total = Total(walk.filter)]
  /\ UNCHANGED notice

\* The reader goes on until the total he is told.
ReadPage ==
  /\ walk.at = "counted"
  /\ \E page \in Pages(walk.filter, walk.offset) :
       walk' = [walk EXCEPT
         !.at = IF walk.offset + PageLimit < walk.total THEN "paged" ELSE "done",
         !.offset = @ + PageLimit,
         !.shown = @ \cup page]
  /\ UNCHANGED notice

InboxNext ==
  \/ \E n \in Notices : MarkRead(n) \/ Dismiss(n) \/ DeleteNotice(n)
  \/ \E p \in Places :
       \/ \E n \in Notices : CreateNotice(n, p)
       \/ \E some \in SUBSET Notices : BulkCreate(some, p)
  \/ MarkAllRead
  \/ \E filter \in NoticeStatus \cup {NoFilter} : StartWalk(filter)
  \/ CountAgain \/ ReadPage

InboxSpec == InboxInit /\ [][InboxNext]_inboxVars

-----------------------------------------------------------------------------

InboxTypeOK ==
  /\ notice \in [Notices -> [status : NoticeStatus \cup {"NONE"}, place : Places \cup {0}]]
  /\ walk.at \in {"idle", "counted", "paged", "done"}
  /\ walk.shown \subseteq Notices /\ walk.stayed \subseteq Notices
  /\ walk.total \in 0..Cardinality(Notices)

\* Who has walked to the total he was told has seen everything that was listed all the
\* while and tied with nothing, whatever else tied, unless something left the list
\* before it, or came between a COUNT and its page.
PagesMissNothing ==
  walk.at = "done" /\ ~walk.left /\ ~walk.came => walk.stayed \subseteq walk.shown
=============================================================================
