--------------------------- MODULE OperatingHours ---------------------------
(***************************************************************************)
(* The opening hours of one store (internal/modules/operatinghours,        *)
(* migration 000033): a row per weekday, replaced by one transaction that  *)
(* deletes the rows and inserts the request's, one statement each, at READ *)
(* COMMITTED.  What PostgreSQL does between the statements of two such     *)
(* transactions is modelled: a DELETE sees the rows of its start and waits *)
(* for whoever deletes one of them first, an INSERT waits for whoever      *)
(* deletes or inserts the row of its day, and a cycle of waits is broken   *)
(* by ending one of its transactions.  Access, and the clock times         *)
(* themselves, are left out.                                               *)
(***************************************************************************)
EXTENDS RequestBase, Naturals, Sequences, FiniteSets

\* Each of Calls is one PUT request here; None is no request, or no time.
CONSTANTS
  Days,  \* the weekdays, seven in the code
  Weeks  \* bodies of requests: Seq([day, open, from, to]); a time that is not
         \* there, or no time of day, is None

ASSUME HoursAssumption ==
  /\ IsFiniteSet(Days) /\ Days # {}
  /\ None \notin Calls
  /\ \A body \in Weeks : body \in Seq({body[i] : i \in DOMAIN body})

VARIABLES
  hours,     \* [Days -> the request whose row is committed, or None]
  replace    \* [Calls -> [at, body, saw, gone, put]]: saw are the rows its DELETE
             \* started from, gone the days it deleted, put how many entries it inserted

hoursVars == <<hours, replace>>

NoHours == [d \in Days |-> None]

HoursInit ==
  /\ hours = NoHours
  /\ replace = [r \in Calls |-> [at |-> "new", body |-> <<>>, saw |-> NoHours, gone |-> {}, put |-> 0]]

-----------------------------------------------------------------------------
(* One entry, and the week. *)

\* The CHECK of the table; the code repeats it with times that parse.
RowAllowed(e) ==
  IF e.open THEN e.from # None /\ e.to # None /\ e.from < e.to
            ELSE e.from = None /\ e.to = None

BugValidateHoursAnyNumber(body) == \A i \in DOMAIN body : body[i].day \in Days /\ RowAllowed(body[i])

validateHours(body) ==
  /\ Len(body) = Cardinality(Days)
  /\ \A i \in DOMAIN body :
       /\ body[i].day \in Days
       /\ \A j \in 1..(i - 1) : body[j].day # body[i].day
       /\ RowAllowed(body[i])

-----------------------------------------------------------------------------
(* Locks. *)

NextEntry(r) == replace[r].body[replace[r].put + 1]

ToInsert(r) == replace[r].at = "insert" /\ replace[r].put < Len(replace[r].body)

\* Days of the rows r holds until it ends.
Inserted(r) == {replace[r].body[i].day : i \in 1..replace[r].put}
Holds(r) == replace[r].gone \cup Inserted(r)

\* The rows r's DELETE has still to delete.
ToDelete(r) == {d \in Days : hours[d] # None /\ replace[r].saw[d] = hours[d]}

WaitsFor(r, q) ==
  /\ q # r
  /\ \/ replace[r].at = "delete" /\ ToDelete(r) \cap replace[q].gone # {}
     \/ ToInsert(r) /\ NextEntry(r).day \in Holds(q)

Free(r) == \A q \in Calls : ~WaitsFor(r, q)

\* r is on a cycle of transactions that wait for each other.
Deadlocked(r) ==
  \E S \in SUBSET Calls :
    /\ r \in S
    /\ \A q \in S : (\E p \in S : WaitsFor(q, p)) /\ (\E p \in S : WaitsFor(p, q))

BugEndKeepsLocks(r, at) == replace' = [replace EXCEPT ![r].at = at]

\* Commit or the deferred Rollback: either gives the locks back.
End(r, at) == replace' = [replace EXCEPT ![r].at = at, ![r].gone = {}, ![r].put = 0]

-----------------------------------------------------------------------------
(* Replace. *)

\* The body is checked, the transaction begins and its DELETE starts.
Begin(r, body) ==
  /\ replace[r].at = "new"
  /\ replace' = [replace EXCEPT ![r] =
       IF validateHours(body) THEN [@ EXCEPT !.at = "delete", !.body = body, !.saw = hours]
                              ELSE [@ EXCEPT !.at = "error"]]
  /\ UNCHANGED hours

\* The DELETE ends: rows that another transaction deleted meanwhile are skipped.
Delete(r) ==
  /\ replace[r].at = "delete" /\ Free(r)
  /\ replace' = [replace EXCEPT ![r].at = "insert", ![r].gone = ToDelete(r)]
  /\ UNCHANGED hours

\* The next entry, unless a committed row of its day is in the way.
InsertEntry(r) ==
  /\ ToInsert(r) /\ Free(r)
  /\ IF /\ RowAllowed(NextEntry(r))
        /\ hours[NextEntry(r).day] = None \/ NextEntry(r).day \in replace[r].gone
        /\ NextEntry(r).day \notin Inserted(r)
     THEN replace' = [replace EXCEPT ![r].put = @ + 1]
     ELSE End(r, "error")
  /\ UNCHANGED hours

\* The answer of the COMMIT may be lost.
Commit(r) ==
  /\ replace[r].at = "insert" /\ ~ToInsert(r)
  /\ hours' = [d \in Days |-> CASE d \in Inserted(r) -> r
                                [] d \in replace[r].gone \ Inserted(r) -> None
                                [] OTHER -> hours[d]]
  /\ \E at \in {"committed", "error"} : End(r, at)

Deadlock(r) ==
  /\ Deadlocked(r)
  /\ End(r, "error")
  /\ UNCHANGED hours

\* A statement fails, the request is given up, or the process dies.
ReplaceFails(r) ==
  /\ replace[r].at \in {"delete", "insert"}
  /\ End(r, "error")
  /\ UNCHANGED hours

\* The caller is told the hours, read once more, unless they cannot be read.
ListHours(r) ==
  /\ replace[r].at = "committed"
  /\ \E at \in {"told", "error"} : replace' = [replace EXCEPT ![r].at = at]
  /\ UNCHANGED hours

ReplaceStep(r) == Delete(r) \/ InsertEntry(r) \/ Commit(r) \/ Deadlock(r) \/ ListHours(r)

HoursNext ==
  \E r \in Calls : (\E body \in Weeks : Begin(r, body)) \/ ReplaceStep(r) \/ ReplaceFails(r)

\* A request that was begun runs on, and the database ends deadlocks.
HoursFairness == \A r \in Calls : WF_hoursVars(ReplaceStep(r))

HoursSpec == HoursInit /\ [][HoursNext]_hoursVars /\ HoursFairness

-----------------------------------------------------------------------------

\* Shape of the state; a transaction that has ended holds no row.
HoursTypeOK ==
  /\ hours \in [Days -> Calls \cup {None}]
  /\ \A r \in Calls :
       /\ replace[r].at \in {"new", "delete", "insert", "committed", "told", "error"}
       /\ replace[r].body \in Weeks \cup {<<>>}
       /\ replace[r].saw \in [Days -> Calls \cup {None}]
       /\ replace[r].gone \subseteq Days
       /\ replace[r].put \in 0..Len(replace[r].body)
       /\ replace[r].at \notin {"delete", "insert"} => Holds(r) = {}

\* The rows are a whole week of one request, or there are none.
Shown ==
  IF hours = NoHours THEN None
  ELSE IF \E r \in Calls : \A d \in Days : hours[d] = r THEN hours[CHOOSE d \in Days : TRUE]
  ELSE "mixed"

Outcome(at) == CASE at \in {"new", "delete", "insert"} -> "open" [] at = "committed" -> "replaced" [] OTHER -> at

Schedule == INSTANCE WeeklySchedule WITH
  Replaces <- Calls,
  week <- Shown,
  outcome <- [r \in Calls |-> Outcome(replace[r].at)]

\* However the statements of several requests interleave, fail or deadlock, the
\* store's week changes as a whole and at one instant, to the week of a request that
\* was not refused before, and who is told so has replaced it (service.go:31).
WeekIsReplacedAtOnce == Schedule!Spec

\* No request waits for ever for the rows of another.
ReplacesEnd == \A r \in Calls : replace[r].at # "new" ~> replace[r].at \in {"told", "error"}
=============================================================================
