----------------------------- MODULE MCProgress -----------------------------
(***************************************************************************)
(* The two places where one actor waits for another and the code lets him  *)
(* end his wait: workers that share the outbox wait for leases, requests   *)
(* that replace the opening hours of a store for row locks.  They share no *)
(* table; a behaviour works on one.                                        *)
(***************************************************************************)
EXTENDS Outbox, OperatingHours

CONSTANTS w1, w2, r1, r2, r3,
          Parts  \* the parts to explore

VARIABLE part

\* Two workers; of the events only the first has a handler.
MCWorkers == {w1, w2}
MCRegistered == {1}

\* Two weeks, in either order of the days, and three bodies that are no week: a day is
\* missing, comes twice, or closes before it opens.
MCWeeks ==
  LET on(d) == [day |-> d, open |-> TRUE, from |-> 8, to |-> 17]
      off(d) == [day |-> d, open |-> FALSE, from |-> None, to |-> None] IN
  {<<on("mon"), off("tue")>>, <<off("tue"), on("mon")>>, <<on("mon")>>, <<on("mon"), on("mon")>>,
   <<on("mon"), [on("tue") EXCEPT !.from = 17, !.to = 8]>>}

MCInit ==
  /\ part \in Parts
  /\ Init /\ HoursInit

MCNext ==
  /\ \/ part = "outbox" /\ Next      /\ UNCHANGED hoursVars
     \/ part = "hours"  /\ HoursNext /\ UNCHANGED vars
  /\ UNCHANGED part

\* Fairness and HoursFairness, each of the part that is explored.
MCFairness ==
  /\ WF_vars(part = "outbox" /\ Tick)
  /\ \A w \in Workers :
       /\ WF_vars(part = "outbox" /\ Claim(w))
       /\ WF_vars(part = "outbox" /\ TakeUp(w))
       /\ WF_vars(part = "outbox" /\ Settle(w))
  /\ \A r \in Calls : WF_hoursVars(part = "hours" /\ ReplaceStep(r))

MCSpec == MCInit /\ [][MCNext]_<<part, vars, hoursVars>> /\ MCFairness
=============================================================================
