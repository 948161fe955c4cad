-------------------------- MODULE DeliveryLocations --------------------------
(***************************************************************************)
(* The addresses of one customer and the default among them (internal/     *)
(* modules/delivery).  Creating or deleting an address and choosing the    *)
(* default are separate statements; only the choice is a transaction, and  *)
(* a partial unique index keeps a second default out.  Customers share no  *)
(* row, and the other columns of an address are left out.                  *)
(***************************************************************************)
EXTENDS RequestBase, Sequences, SequencesExt

CONSTANTS
  Locations  \* location ids (bound)

ASSUME LocationAssumption == None \notin Locations

VARIABLES
  stored,     \* customer_delivery_locations: ids by created_at
  default,    \* the one with is_default, or None
  call,       \* [Calls -> what a request is about to do, and to which location]
  disturbed   \* history: a deletion overlapped another request, or a request that
              \* was to set the missing default died

deliveryVars == <<stored, default, call, disturbed>>

NoCall == [at |-> "idle", location |-> None, chosen |-> FALSE]

DeliveryInit ==
  /\ stored = <<>>
  /\ default = None
  /\ call = [c \in Calls |-> NoCall]
  /\ disturbed = FALSE

Stored(l) == Contains(stored, l)
About(c, at) == call[c].at = at
Goes(c, r) == call' = [call EXCEPT ![c] = r]
Deleting == {"delete", "promote"}

\* A request starts with what it reads.
Starts(c, at, l, chosen) ==
  /\ About(c, "idle")
  /\ Goes(c, [at |-> at, location |-> l, chosen |-> chosen])
  /\ disturbed' = (disturbed \/ \E d \in Calls \ {c} :
                     call[d].at # "idle" /\ (at = "delete" \/ call[d].at \in Deleting))
  /\ UNCHANGED <<stored, default>>

-----------------------------------------------------------------------------

BugCreateLocationNeverFirst(c, l, asked) ==
  ~Stored(l) /\ (\A d \in Calls : call[d].location # l) /\ Starts(c, "create", l, asked)

\* The first address becomes the default unasked.
CreateLocation(c, l, asked) ==
  /\ ~Stored(l) /\ \A d \in Calls : call[d].location # l
  /\ Starts(c, "create", l, asked \/ stored = <<>>)

InsertLocation(c) ==
  /\ About(c, "create")
  /\ stored' = Append(stored, call[c].location)
  /\ Goes(c, IF call[c].chosen THEN [call[c] EXCEPT !.at = "choose"] ELSE NoCall)
  /\ UNCHANGED <<default, disturbed>>

SetDefaultLocation(c, l) == Stored(l) /\ Starts(c, "choose", l, TRUE)

\* With is_default set; without it nothing here changes.
UpdateLocation(c, l) == Stored(l) /\ Starts(c, "update", l, TRUE)

RewriteLocation(c) ==
  /\ About(c, "update")
  /\ Goes(c, IF Stored(call[c].location) THEN [call[c] EXCEPT !.at = "choose"] ELSE NoCall)
  /\ UNCHANGED <<stored, default, disturbed>>

\* One transaction clears the old default and sets the new one; it is rolled back if
\* the address is gone, or if another request set a default that its first UPDATE did
\* not see.
SetDefault(c) ==
  LET l == call[c].location IN
  /\ About(c, "choose")
  /\ \/ Stored(l) /\ default' = l
     \/ (~Stored(l) \/ default \notin {None, l}) /\ UNCHANGED default
  /\ Goes(c, NoCall)
  /\ UNCHANGED <<stored, disturbed>>

\* Whether the address is the default is what the request read before it deletes.
DeleteLocation(c, l) == Stored(l) /\ Starts(c, "delete", l, l = default)

DeleteRow(c) ==
  LET l == call[c].location IN
  /\ About(c, "delete")
  /\ stored' = RemoveFirst(stored, l)
  /\ default' = IF default = l THEN None ELSE default
  /\ Goes(c, IF Stored(l) /\ call[c].chosen THEN [call[c] EXCEPT !.at = "promote"] ELSE NoCall)
  /\ UNCHANGED disturbed

\* The unique index refuses the earliest address if another one is the default.
PromoteEarliestAsDefault(c) ==
  /\ About(c, "promote")
  /\ default' = IF default = None /\ stored # <<>> THEN Head(stored) ELSE default
  /\ Goes(c, NoCall)
  /\ UNCHANGED <<stored, disturbed>>

\* A statement fails, or the request dies.
CallDies(c) ==
  /\ ~About(c, "idle")
  /\ Goes(c, NoCall)
  /\ disturbed' = (disturbed \/ (default = None /\ call[c].at \in {"choose", "promote"}))
  /\ UNCHANGED <<stored, default>>

DeliveryNext ==
  \E c \in Calls :
    \/ \E l \in Locations : \/ \E asked \in BOOLEAN : CreateLocation(c, l, asked)
                            \/ SetDefaultLocation(c, l) \/ UpdateLocation(c, l) \/ DeleteLocation(c, l)
    \/ InsertLocation(c) \/ RewriteLocation(c) \/ SetDefault(c)
    \/ DeleteRow(c) \/ PromoteEarliestAsDefault(c) \/ CallDies(c)

DeliverySpec == DeliveryInit /\ [][DeliveryNext]_deliveryVars

-----------------------------------------------------------------------------

\* Shape of the state.  The default is an address the customer has.
DeliveryTypeOK ==
  /\ stored \in Seq(Locations) /\ IsInjective(stored)
  /\ default = None \/ Stored(default)
  /\ \A c \in Calls : call[c].at \in {"idle", "create", "update", "choose"} \cup Deleting

\* A customer with addresses has a default among them whenever no request is under
\* way, even if creations and choices of a default overlapped: only a deletion that
\* overlaps another request, or the death of a request that was to set the default, leaves none.
DefaultRemains ==
  disturbed \/ (\E c \in Calls : ~About(c, "idle")) \/ stored = <<>> \/ default # None
=============================================================================
