------------------------------ MODULE Routing ------------------------------
(***************************************************************************)
(* The decisions on which store makes an order (internal/modules/routing), *)
(* of one order, which is routed and overridden by requests of several     *)
(* statements.  The candidates of an order are the stores of its products, *)
(* and it is only placed with products of its own store, so that store is  *)
(* the only candidate: its score, which is stored and read by nobody, is   *)
(* left out, and a rule only explains the decision.  decided_at is the     *)
(* order of the INSERTs.                                                   *)
(***************************************************************************)
EXTENDS StoreBase, Integers, Sequences, SequencesExt

CONSTANTS
  Shops,         \* stores
  Home,          \* the store of the order
  RuleIds,       \* ids of routing rules (bound)
  RuleForms,     \* [priority, target]: what a rule may say, target is a store or None
  MaxDecisions   \* decisions for the order (bound)

ASSUME RoutingAssumption ==
  /\ None \notin Shops \cup RuleIds /\ Home \in Shops
  /\ \A f \in RuleForms : f.priority \in Nat /\ f.target \in Shops \cup {None}

-----------------------------------------------------------------------------

VARIABLES
  rule,      \* [RuleIds -> RuleForms or None], routing_rules
  decision,  \* Seq([store, status]), routing_decisions of the order
  errand,    \* [Calls -> what a request has decided]
  halted     \* history: an override died before its decision was recorded

routingVars == <<rule, decision, errand, halted>>

NoErrand == [at |-> "idle", store |-> None, rule |-> None, last |-> 0, manual |-> FALSE]

RoutingInit ==
  /\ rule = [r \in RuleIds |-> None]
  /\ decision = <<>>
  /\ errand = [c \in Calls |-> NoErrand]
  /\ halted = FALSE

Runs(c, at) == errand[c].at = at
Proceeds(c, e) == errand' = [errand EXCEPT ![c] = e]

\* CreateRule, and UpdateRule, which overlays the row that it read.
WriteRule(r, form) ==
  /\ rule' = [rule EXCEPT ![r] = form]
  /\ UNCHANGED <<decision, errand, halted>>

DeleteRule(r) == rule[r] # None /\ WriteRule(r, None)

-----------------------------------------------------------------------------
(* RouteOrder. *)

\* An order none of whose products is available has no candidate, which fails at once.
GetStoreCandidates(c) ==
  /\ Runs(c, "idle")
  /\ Proceeds(c, [NoErrand EXCEPT !.at = "rules"])
  /\ UNCHANGED <<rule, decision, halted>>

Targeting == {r \in RuleIds : rule[r] # None /\ rule[r].target = Home}

\* The decision names the first rule, by priority, that targets the store.
ListActiveRules(c) ==
  /\ Runs(c, "rules")
  /\ \E r \in IF Targeting = {} THEN {None} ELSE Targeting :
       /\ \A t \in Targeting : rule[r].priority <= rule[t].priority
       /\ Proceeds(c, [NoErrand EXCEPT !.at = "create", !.store = Home, !.rule = r])
  /\ UNCHANGED <<rule, decision, halted>>

-----------------------------------------------------------------------------
(* OverrideRoute. *)

\* The latest decision is read; without one there is nothing to mark.
OverrideRoute(c, s) ==
  /\ Runs(c, "idle")
  /\ Proceeds(c, [NoErrand EXCEPT !.at = IF decision = <<>> THEN "create" ELSE "mark",
                    !.store = s, !.last = Len(decision), !.manual = TRUE])
  /\ UNCHANGED <<rule, decision, halted>>

\* An error of the UPDATE is dropped.
MarkOverridden(c) ==
  /\ Runs(c, "mark")
  /\ decision' \in {decision, [decision EXCEPT ![errand[c].last].status = "OVERRIDDEN"]}
  /\ Proceeds(c, [errand[c] EXCEPT !.at = "create", !.last = 0])
  /\ UNCHANGED <<rule, halted>>

BugCreateDecisionInherits(c) ==
  /\ Runs(c, "create") /\ Len(decision) < MaxDecisions
  /\ decision' = Append(decision, [store |-> errand[c].store,
                   status |-> IF decision = <<>> THEN "ASSIGNED" ELSE Last(decision).status])
  /\ Proceeds(c, NoErrand)
  /\ UNCHANGED <<rule, halted>>

\* For both; the foreign key refuses a rule that was deleted meanwhile.
CreateDecision(c) ==
  /\ Runs(c, "create") /\ Len(decision) < MaxDecisions
  /\ errand[c].rule \in {None} \cup {r \in RuleIds : rule[r] # None}
  /\ decision' = Append(decision, [store |-> errand[c].store, status |-> "ASSIGNED"])
  /\ Proceeds(c, NoErrand)
  /\ UNCHANGED <<rule, halted>>

\* A statement fails, or the request dies.
ErrandDies(c) ==
  /\ ~Runs(c, "idle")
  /\ Proceeds(c, NoErrand)
  /\ halted' = (halted \/ (Runs(c, "create") /\ errand[c].manual))
  /\ UNCHANGED <<rule, decision>>

RoutingNext ==
  \/ \E r \in RuleIds : DeleteRule(r) \/ \E form \in RuleForms : WriteRule(r, form)
  \/ \E c \in Calls : \/ \E s \in Shops : OverrideRoute(c, s)
                      \/ GetStoreCandidates(c) \/ ListActiveRules(c) \/ MarkOverridden(c) \/ CreateDecision(c) \/ ErrandDies(c)

RoutingSpec == RoutingInit /\ [][RoutingNext]_routingVars

-----------------------------------------------------------------------------

\* Shape of the state.
RoutingTypeOK ==
  /\ rule \in [RuleIds -> RuleForms \cup {None}]
  /\ decision \in Seq([store : Shops, status : {"ASSIGNED", "OVERRIDDEN"}])
  /\ \A c \in Calls : errand[c].at \in {"idle", "rules", "mark", "create"}

\* The latest decision on an order stands: requests that route and override it at once
\* leave it ASSIGNED, and only an override that dies between its statements does not.
DecisionRemains ==
  \/ halted \/ decision = <<>> \/ Last(decision).status = "ASSIGNED"
  \/ \E c \in Calls : Runs(c, "create") /\ errand[c].manual
=============================================================================
