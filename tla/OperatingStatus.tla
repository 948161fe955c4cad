-------------------------- MODULE OperatingStatus --------------------------
(***************************************************************************)
(* When a vendor may operate (internal/modules/operatingstatus): the gate  *)
(* in front of every vendor request, and the one grace period an overdue   *)
(* vendor may claim per unpaid period.  A request reads the compliance     *)
(* review, the subscription and the grace period one after the other, at   *)
(* one instant it took before; the subscription is changed under it by     *)
(* internal/modules/billing.  Time is a clock of instants of any fineness, *)
(* and every instant the code takes or compares is one of the clock's.     *)
(***************************************************************************)
EXTENDS VendorBase

CONSTANTS
  LastInstant,   \* bound on the clock
  PeriodLength,  \* a billing period, in instants
  GraceLength    \* a grace period, in instants: five days in the code

ASSUME OperatingAssumption ==
  /\ {LastInstant, PeriodLength, GraceLength} \subseteq Nat \ {0}
  /\ None \notin Vendors

Instant == 0..LastInstant

VARIABLES
  present,
  account,  \* [Vendors -> [status, end]], vendor_subscriptions; status "NONE" without a row
  review,   \* [Vendors -> status], vendor_compliance_reviews
  grace,    \* set of vendor_subscription_grace_periods rows
  visit,    \* [Calls -> what a request has read]
  served    \* history: instants the gate let through on credit, but for requests that had
            \* taken their instant before the grace period they found was granted

operatingVars == <<present, account, review, grace, visit, served>>

NoAccount == [status |-> "NONE", end |-> 0]

NoVisit == [at |-> "idle", for |-> "gate", vendor |-> None, now |-> 0, account |-> NoAccount]

OperatingInit ==
  /\ present = 0
  /\ account = [v \in Vendors |-> NoAccount]
  /\ review = [v \in Vendors |-> "PENDING"]
  /\ grace = {}
  /\ visit = [c \in Calls |-> NoVisit]
  /\ served = {}

-----------------------------------------------------------------------------
(* The subscription, as billing changes it.  A trial ends with its period. *)

Bill(v, status, end) ==
  /\ account' = [account EXCEPT ![v] = [status |-> status, end |-> end]]
  /\ UNCHANGED <<present, review, grace, visit, served>>

Subscribe(v) ==
  /\ account[v].status = "NONE"
  /\ \E s \in {"ACTIVE", "TRIAL"} : Bill(v, s, present + PeriodLength)

ChangeStatus(v, s) ==
  CanTransitionSub(account[v].status, s) /\ Bill(v, s, account[v].end)

BugPayCheckoutStacks(v) == Bill(v, "ACTIVE", account[v].end + PeriodLength)

PayCheckout(v) == Bill(v, "ACTIVE", present + PeriodLength)

-----------------------------------------------------------------------------

DecideCompliance(v, s) ==
  /\ review' = [review EXCEPT ![v] = s]
  /\ UNCHANGED <<present, account, grace, visit, served>>

\* A request may see the clock advance, but only once.
ClockAdvances ==
  /\ present < LastInstant
  /\ \A c \in Calls : visit[c] = NoVisit \/ visit[c].now = present
  /\ present' = present + 1
  /\ UNCHANGED <<account, review, grace, visit, served>>

subscriptionIsCurrent(sub, now) == sub.status \in {"ACTIVE", "TRIAL"} /\ sub.end > now

IsActive(g, v, now) == g.vendor = v /\ g.status = "ACTIVE" /\ g.ends > now

\* getStatusAt, first read: of the compliance review, at an instant of its own.  The
\* gate turns away whoever is not approved, whatever it reads next; a request for
\* grace makes no use of the review.
GetCompliance(c, v, for) ==
  /\ visit[c] = NoVisit
  /\ for = "gate" => review[v] = "APPROVED"
  /\ visit' = [visit EXCEPT ![c] = [NoVisit EXCEPT !.at = "reviewed", !.for = for, !.vendor = v, !.now = present]]
  /\ UNCHANGED <<present, account, review, grace, served>>

BugEligibleTooSoon(sub, now) == sub.status = "PAST_DUE" /\ now >= sub.end

Eligible(sub, now) == sub.status = "PAST_DUE" /\ now > sub.end

\* Second read: of the subscription.  The answer hangs on the grace period when the
\* subscription is not current, whatever its status, and grace is for the overdue.
Undecided(for, sub, now) ==
  IF for = "gate" THEN sub.status # "NONE" /\ ~subscriptionIsCurrent(sub, now) ELSE Eligible(sub, now)

GetSubscription(c) ==
  LET sub == account[visit[c].vendor] IN
  /\ visit[c].at = "reviewed"
  /\ visit' = [visit EXCEPT ![c] =
       IF Undecided(@.for, sub, @.now)
       THEN [@ EXCEPT !.at = "billed", !.account = IF visit[c].for = "gate" THEN NoAccount ELSE sub]
       ELSE NoVisit]
  /\ UNCHANGED <<present, account, review, grace, served>>

\* The last read, and RequireOperationalVendor's answer.
Gate(c) ==
  LET seen == visit[c] IN
  /\ seen.at = "billed" /\ seen.for = "gate"
  /\ served' = served \cup {[grace |-> g, at |-> seen.now] :
                               g \in {r \in grace : IsActive(r, seen.vendor, seen.now) /\ seen.now >= r.granted}}
  /\ visit' = [visit EXCEPT ![c] = NoVisit]
  /\ UNCHANGED <<present, account, review, grace>>

-----------------------------------------------------------------------------
(* RequestGrace, with the subscription and the instant it has read. *)

\* Rows whose time is over, as the transaction marks them.
Expired(v, now) ==
  {IF g.vendor = v /\ g.status = "ACTIVE" /\ g.ends <= now THEN [g EXCEPT !.status = "EXPIRED"] ELSE g
     : g \in grace}

HasPeriod(rows, v, period) == \E g \in rows : g.vendor = v /\ g.period = period
HasActive(rows, v) == \E g \in rows : g.vendor = v /\ g.status = "ACTIVE"

NewGrace(seen) ==
  [vendor |-> seen.vendor, period |-> seen.account.end, granted |-> seen.now,
   ends |-> seen.now + GraceLength, status |-> "ACTIVE"]

\* The rows after CreateGraceIfEligible.  A row for the period is returned as it is;
\* a second ACTIVE row is refused by its index, and the transaction rolls back.
CreateGrace(seen) ==
  LET rows == Expired(seen.vendor, seen.now) IN
  CASE HasPeriod(rows, seen.vendor, seen.account.end) -> rows
    [] ~HasPeriod(rows, seen.vendor, seen.account.end) /\ HasActive(rows, seen.vendor) -> grace
    [] OTHER -> rows \cup {NewGrace(seen)}

RequestGrace(c) ==
  /\ visit[c].at = "billed" /\ visit[c].for = "grace"
  /\ grace' = CreateGrace(visit[c])
  /\ visit' = [visit EXCEPT ![c] = NoVisit]
  /\ UNCHANGED <<present, account, review, served>>

OperatingNext ==
  \/ \E v \in Vendors :
       \/ Subscribe(v)
       \/ \E s \in SubscriptionStatus : ChangeStatus(v, s)
       \/ PayCheckout(v)
       \/ \E s \in {"APPROVED", "REJECTED"} : DecideCompliance(v, s)
  \/ \E c \in Calls :
       \/ \E v \in Vendors, for \in {"gate", "grace"} : GetCompliance(c, v, for)
       \/ GetSubscription(c) \/ Gate(c) \/ RequestGrace(c)
  \/ ClockAdvances

OperatingSpec == OperatingInit /\ [][OperatingNext]_operatingVars

-----------------------------------------------------------------------------

Account == [status : SubscriptionStatus \cup {"NONE"}, end : 0..(LastInstant + PeriodLength)]

GraceRow == [vendor : Vendors, period : 0..(LastInstant + PeriodLength), granted : Instant,
             ends : 0..(LastInstant + GraceLength), status : {"ACTIVE", "EXPIRED"}]

\* Shape of the state.
OperatingTypeOK ==
  /\ present \in Instant
  /\ account \in [Vendors -> Account]
  /\ review \in [Vendors -> {"PENDING", "APPROVED", "REJECTED"}]
  /\ grace \subseteq GraceRow
  /\ visit \in [Calls -> [at : {"idle", "reviewed", "billed"}, for : {"gate", "grace"},
                          vendor : Vendors \cup {None}, now : Instant, account : Account]]
  /\ served \subseteq [grace : GraceRow, at : Instant]

\* "One automatic five-day grace period": for one unpaid period a vendor works on
\* credit for at most GraceLength, all later than the period's end, and no instant is
\* credited to two periods, however often the vendor asks, pays, lapses or is asked
\* twice at once, and whatever comes between the reads and the grant.
GraceIsAllTheCredit ==
  /\ \A v \in Vendors, period \in 0..(LastInstant + PeriodLength) :
       LET credit == {s.at : s \in {t \in served : t.grace.vendor = v /\ t.grace.period = period}} IN
       Cardinality(credit) <= GraceLength /\ \A i \in credit : i > period
  /\ \A s, t \in served :
       s.grace.vendor = t.grace.vendor /\ s.at = t.at => s.grace.period = t.grace.period
=============================================================================
