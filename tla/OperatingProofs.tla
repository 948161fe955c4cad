-------------------------- MODULE OperatingProofs --------------------------
(***************************************************************************)
(* Proofs about the operating status of vendors and the credit they are    *)
(* granted, for any number of vendors, instants and concurrent requests.   *)
(***************************************************************************)
EXTENDS OperatingStatus, FiniteSetTheorems, TLAPS

USE OperatingAssumption

VisitType ==
  [at : {"idle", "reviewed", "billed"}, for : {"gate", "grace"}, vendor : Vendors \cup {None},
   now : Instant, account : Account]

\* A request for grace that is about to write.
Asks(c) == visit[c].at = "billed" /\ visit[c].for = "grace"

\* The clock advances at most once during a request.
VisitsAreFresh ==
  \A c \in Calls : visit[c] = NoVisit \/ /\ visit[c].vendor \in Vendors
                                         /\ visit[c].now <= present /\ present <= visit[c].now + 1

EndsAreNear == \A v \in Vendors : account[v].end <= present + PeriodLength

\* The period a request found unpaid is still the account's, or has been followed by one
\* that is not over when the request was made.
AsksWhenOverdue ==
  \A c \in Calls : Asks(c) =>
    LET end == account[visit[c].vendor].end IN
    /\ visit[c].account.end < visit[c].now
    /\ end = visit[c].account.end \/ end >= visit[c].now + 1

\* Two requests of a vendor found the same period unpaid.
OneUnpaidPeriod ==
  \A c, d \in Calls : Asks(c) /\ Asks(d) /\ visit[c].vendor = visit[d].vendor =>
    visit[c].account.end = visit[d].account.end

RowsAreSound ==
  \A g \in grace :
    /\ g.granted > g.period /\ g.granted <= present /\ g.ends = g.granted + GraceLength
    /\ g.period <= account[g.vendor].end
    /\ g.status = "EXPIRED" => g.ends <= present

OneRowPerPeriod ==
  \A g, h \in grace : g.vendor = h.vendor /\ g.period = h.period => g = h

\* A grace period begins after that of any earlier period.
GraceFollowsGrace ==
  \A g, h \in grace : g.vendor = h.vendor /\ g.period < h.period => h.granted >= g.ends

\* No row is for a period later than the one a request found unpaid.
RowsPrecedeAsks ==
  \A g \in grace, c \in Calls : Asks(c) /\ visit[c].vendor = g.vendor => g.period <= visit[c].account.end

\* A row is marked before its time, as seen by a request, only if that request finds its
\* period taken.
MarkedBeforeAsked ==
  \A g \in grace, c \in Calls : Asks(c) /\ visit[c].vendor = g.vendor /\ g.status = "EXPIRED" =>
    HasPeriod(grace, g.vendor, visit[c].account.end) \/ g.ends <= visit[c].now

\* Likewise for a request that is still to read the subscription.
MarkedBeforeNow ==
  \A g \in grace : g.status = "EXPIRED" =>
    \/ g.ends < present
    \/ account[g.vendor].end >= present
    \/ HasPeriod(grace, g.vendor, account[g.vendor].end)

SameTerm(g, h) == g.vendor = h.vendor /\ g.period = h.period /\ g.granted = h.granted /\ g.ends = h.ends

\* Instants on credit lie within a grace period that is still on record.
CreditIsOnRecord ==
  \A s \in served : \E g \in grace : SameTerm(g, s.grace) /\ s.at >= g.granted /\ s.at < g.ends

OperatingInv ==
  /\ OperatingTypeOK /\ VisitsAreFresh /\ EndsAreNear
  /\ AsksWhenOverdue /\ OneUnpaidPeriod
  /\ RowsAreSound /\ OneRowPerPeriod /\ GraceFollowsGrace
  /\ RowsPrecedeAsks /\ MarkedBeforeAsked /\ MarkedBeforeNow
  /\ CreditIsOnRecord

\* At first nobody has a subscription, and nothing was granted.
LEMMA OperatingInvInit == OperatingInit => OperatingInv
<1> SUFFICES ASSUME OperatingInit PROVE OperatingInv
  OBVIOUS
<1> USE DEF OperatingInit, NoAccount, NoVisit
<1>1. OperatingTypeOK
  BY DEF OperatingTypeOK, Account, Instant
<1>2. \A c \in Calls : ~Asks(c)
  BY DEF Asks
<1>3. VisitsAreFresh /\ EndsAreNear
  BY DEF VisitsAreFresh, EndsAreNear
<1> QED BY <1>1, <1>2, <1>3 DEF OperatingInv, AsksWhenOverdue, OneUnpaidPeriod, RowsAreSound, OneRowPerPeriod,
           GraceFollowsGrace, RowsPrecedeAsks, MarkedBeforeAsked, MarkedBeforeNow, CreditIsOnRecord

\* What the invariant says of a request that asks, of an account and of a row.
LEMMA OperatingTypes ==
  ASSUME OperatingInv
  PROVE  /\ present \in Nat /\ present <= LastInstant
         /\ visit \in [Calls -> VisitType] /\ account \in [Vendors -> Account] /\ grace \subseteq GraceRow
         /\ \A v \in Vendors : account[v].end \in Nat
         /\ \A g \in grace : /\ g.vendor \in Vendors /\ g.period \in Nat /\ g.granted \in Nat /\ g.ends \in Nat
                             /\ g.status \in {"ACTIVE", "EXPIRED"}
         /\ \A c \in Calls : visit[c].now \in Nat /\ visit[c].account.end \in Nat
         /\ \A c \in Calls : visit[c] # NoVisit =>
              visit[c].vendor \in Vendors /\ visit[c].now <= present /\ present <= visit[c].now + 1
         /\ \A c \in Calls : Asks(c) => visit[c] # NoVisit
BY DEF OperatingInv, OperatingTypeOK, VisitsAreFresh, Account, GraceRow, VisitType, Instant, Asks, NoVisit

\* A subscription ends no earlier than before.
LEMMA BillKeeps ==
  ASSUME OperatingInv, NEW v \in Vendors, NEW s \in SubscriptionStatus, NEW end,
         Bill(v, s, end), end = account[v].end \/ end = present + PeriodLength
  PROVE  OperatingInv'
<1>1. /\ account' = [account EXCEPT ![v] = [status |-> s, end |-> end]]
      /\ UNCHANGED <<present, review, grace, visit, served>>
  BY DEF Bill
<1>2. /\ account[v] \in Account /\ account[v].end \in Nat /\ account[v].end <= present + PeriodLength
      /\ end \in Nat /\ end >= account[v].end /\ end <= present + PeriodLength /\ end <= LastInstant + PeriodLength
  BY OperatingTypes DEF OperatingInv, EndsAreNear
<1>3. /\ account'[v].end = end /\ \A w \in Vendors \ {v} : account'[w] = account[w]
      /\ account' \in [Vendors -> Account]
  BY <1>1, <1>2, OperatingTypes DEF Account
<1>4. OperatingTypeOK'
  BY <1>1, <1>3 DEF OperatingInv, OperatingTypeOK
<1>5. VisitsAreFresh' /\ EndsAreNear'
  BY <1>1, <1>2, <1>3 DEF OperatingInv, VisitsAreFresh, EndsAreNear
<1>6. AsksWhenOverdue'
  <2> SUFFICES ASSUME NEW c \in Calls, Asks(c)
               PROVE  /\ visit[c].account.end < visit[c].now
                      /\ \/ account'[visit[c].vendor].end = visit[c].account.end
                         \/ account'[visit[c].vendor].end >= visit[c].now + 1
    BY <1>1 DEF AsksWhenOverdue, Asks
  <2>1. /\ visit[c].account.end < visit[c].now /\ visit[c].vendor \in Vendors
        /\ \/ account[visit[c].vendor].end = visit[c].account.end
           \/ account[visit[c].vendor].end >= visit[c].now + 1
        /\ visit[c].now <= present /\ visit[c].now \in Nat
    BY OperatingTypes DEF OperatingInv, AsksWhenOverdue
  <2>2. CASE visit[c].vendor = v /\ end = present + PeriodLength
    <3>1. account'[visit[c].vendor].end = present + PeriodLength
      BY <1>3, <2>2
    <3>2. PeriodLength \in Nat /\ PeriodLength >= 1 /\ present \in Nat
      BY OperatingTypes
    <3> QED BY <2>1, <3>1, <3>2
  <2>3. CASE visit[c].vendor # v \/ end = account[v].end
    BY <1>2, <1>3, <2>1, <2>3
  <2> QED BY <1>2, <2>2, <2>3
<1>7. OneUnpaidPeriod'
  BY <1>1 DEF OperatingInv, OneUnpaidPeriod, Asks
<1>8. RowsAreSound'
  <2> SUFFICES ASSUME NEW g \in grace PROVE g.period <= account'[g.vendor].end
    BY <1>1 DEF RowsAreSound, OperatingInv
  <2>1. g.vendor \in Vendors /\ g.period <= account[g.vendor].end /\ g.period \in Nat
    BY OperatingTypes DEF OperatingInv, RowsAreSound
  <2> QED BY <1>2, <1>3, <2>1
<1>9. OneRowPerPeriod' /\ GraceFollowsGrace' /\ RowsPrecedeAsks' /\ CreditIsOnRecord'
  BY <1>1 DEF OperatingInv, OneRowPerPeriod, GraceFollowsGrace, RowsPrecedeAsks, CreditIsOnRecord, Asks
<1>10. MarkedBeforeAsked'
  BY <1>1 DEF OperatingInv, MarkedBeforeAsked, HasPeriod, Asks
<1>11. MarkedBeforeNow'
  <2> SUFFICES ASSUME NEW g \in grace, g.status = "EXPIRED"
               PROVE  \/ g.ends < present \/ account'[g.vendor].end >= present
                      \/ HasPeriod(grace, g.vendor, account'[g.vendor].end)
    BY <1>1 DEF MarkedBeforeNow, HasPeriod
  <2>1. /\ g.vendor \in Vendors
        /\ \/ g.ends < present \/ account[g.vendor].end >= present
           \/ HasPeriod(grace, g.vendor, account[g.vendor].end)
    BY OperatingTypes DEF OperatingInv, MarkedBeforeNow
  <2>2. CASE g.vendor = v /\ end = present + PeriodLength
    BY <1>3, <2>2, OperatingTypes
  <2>3. CASE g.vendor # v \/ end = account[v].end
    BY <1>3, <2>1, <2>3
  <2> QED BY <2>2, <2>3
<1> QED BY <1>4, <1>5, <1>6, <1>7, <1>8, <1>9, <1>10, <1>11 DEF OperatingInv

\* A compliance review decides nothing about credit.
LEMMA DecideKeeps ==
  ASSUME OperatingInv, NEW v \in Vendors, NEW s \in {"APPROVED", "REJECTED"}, DecideCompliance(v, s)
  PROVE  OperatingInv'
<1>1. OperatingTypeOK'
  BY DEF DecideCompliance, OperatingInv, OperatingTypeOK
<1> QED
  BY <1>1 DEF DecideCompliance, OperatingInv, VisitsAreFresh, EndsAreNear, AsksWhenOverdue, OneUnpaidPeriod,
     RowsAreSound, OneRowPerPeriod, GraceFollowsGrace, RowsPrecedeAsks, MarkedBeforeAsked, MarkedBeforeNow,
     CreditIsOnRecord, Asks, HasPeriod

\* The clock advances when every request under way has taken its present instant.
LEMMA ClockAdvancesKeeps ==
  ASSUME OperatingInv, ClockAdvances
  PROVE  OperatingInv'
<1>1. /\ present' = present + 1 /\ present < LastInstant /\ UNCHANGED <<account, review, grace, visit, served>>
      /\ \A c \in Calls : visit[c] = NoVisit \/ visit[c].now = present
  BY DEF ClockAdvances
<1>2. present' \in Instant
  BY <1>1, OperatingTypes DEF Instant
<1>3. OperatingTypeOK'
  BY <1>1, <1>2 DEF OperatingInv, OperatingTypeOK
<1>4. VisitsAreFresh' /\ EndsAreNear'
  BY <1>1, OperatingTypes DEF OperatingInv, VisitsAreFresh, EndsAreNear
<1>5. AsksWhenOverdue' /\ OneUnpaidPeriod' /\ OneRowPerPeriod' /\ GraceFollowsGrace' /\ RowsPrecedeAsks'
      /\ CreditIsOnRecord' /\ MarkedBeforeAsked'
  BY <1>1 DEF OperatingInv, AsksWhenOverdue, OneUnpaidPeriod, OneRowPerPeriod, GraceFollowsGrace, RowsPrecedeAsks,
     MarkedBeforeAsked, CreditIsOnRecord, Asks, HasPeriod
<1>6. RowsAreSound' /\ MarkedBeforeNow'
  BY <1>1, OperatingTypes DEF OperatingInv, RowsAreSound, MarkedBeforeNow
<1> QED BY <1>3, <1>4, <1>5, <1>6 DEF OperatingInv

\* Only request c moves, to k: a read that does not ask, or the end.
LEMMA VisitMoves ==
  ASSUME OperatingInv, NEW c \in Calls, NEW k \in VisitType, visit' = [visit EXCEPT ![c] = k],
         k = NoVisit \/ (k.vendor \in Vendors /\ k.now <= present /\ present <= k.now + 1),
         k.at # "billed" \/ k.for # "grace",
         UNCHANGED <<present, account, review, grace>>,
         served' \subseteq [grace : GraceRow, at : Instant], CreditIsOnRecord'
  PROVE  OperatingInv'
<1>1. /\ visit' \in [Calls -> VisitType] /\ visit'[c] = k /\ \A d \in Calls \ {c} : visit'[d] = visit[d]
  BY OperatingTypes
<1>2. \A d \in Calls : Asks(d)' => d # c /\ visit'[d] = visit[d] /\ Asks(d)
  BY <1>1 DEF Asks
<1>3. OperatingTypeOK'
  BY <1>1 DEF OperatingInv, OperatingTypeOK, VisitType
<1>4. VisitsAreFresh' /\ EndsAreNear'
  BY <1>1 DEF OperatingInv, VisitsAreFresh, EndsAreNear
<1>5. AsksWhenOverdue' /\ OneUnpaidPeriod'
  BY <1>2 DEF OperatingInv, AsksWhenOverdue, OneUnpaidPeriod
<1>6. RowsAreSound' /\ OneRowPerPeriod' /\ GraceFollowsGrace' /\ MarkedBeforeNow'
  BY DEF OperatingInv, RowsAreSound, OneRowPerPeriod, GraceFollowsGrace, MarkedBeforeNow, HasPeriod
<1>7. RowsPrecedeAsks' /\ MarkedBeforeAsked'
  BY <1>2 DEF OperatingInv, RowsPrecedeAsks, MarkedBeforeAsked, HasPeriod
<1> QED BY <1>3, <1>4, <1>5, <1>6, <1>7 DEF OperatingInv

\* Credit stays on record while the rows do.
LEMMA CreditStays ==
  ASSUME OperatingInv, UNCHANGED <<grace, served>>
  PROVE  served' \subseteq [grace : GraceRow, at : Instant] /\ CreditIsOnRecord'
BY DEF OperatingInv, OperatingTypeOK, CreditIsOnRecord

\* A request that is over has nothing to do with grace.
LEMMA NoVisitIsVisit == NoVisit \in VisitType /\ NoVisit.at = "idle"
BY DEF NoVisit, VisitType, NoAccount, Account, Instant

\* The first read.
LEMMA GetComplianceKeeps ==
  ASSUME OperatingInv, NEW c \in Calls, NEW v \in Vendors, NEW for \in {"gate", "grace"}, GetCompliance(c, v, for)
  PROVE  OperatingInv'
<1>1. PICK k : k = [NoVisit EXCEPT !.at = "reviewed", !.for = for, !.vendor = v, !.now = present]
  OBVIOUS
<1>2. k \in VisitType /\ k.at = "reviewed" /\ k.vendor = v /\ k.now = present
  <2>1. present \in Instant
    BY DEF OperatingInv, OperatingTypeOK
  <2>2. k = [at |-> "reviewed", for |-> for, vendor |-> v, now |-> present, account |-> NoAccount]
    BY <1>1 DEF NoVisit
  <2>3. NoAccount \in Account
    BY DEF NoAccount, Account
  <2> QED BY <2>1, <2>2, <2>3 DEF VisitType
<1>3. visit' = [visit EXCEPT ![c] = k] /\ UNCHANGED <<present, account, review, grace, served>>
  BY <1>1 DEF GetCompliance
<1>4. k.vendor \in Vendors /\ k.now <= present /\ present <= k.now + 1
  BY <1>2, OperatingTypes
<1>5. k.at # "billed" \/ k.for # "grace"
  BY <1>2
<1> QED BY <1>2, <1>3, <1>4, <1>5, VisitMoves, CreditStays

\* The second read: a request that asks does so of the period it finds unpaid.
LEMMA GetSubscriptionKeeps ==
  ASSUME OperatingInv, NEW c \in Calls, GetSubscription(c)
  PROVE  OperatingInv'
<1>1. PICK v : v = visit[c].vendor
  OBVIOUS
<1>2. PICK seen : seen = account[v]
  OBVIOUS
<1>3. visit[c].at = "reviewed" /\ UNCHANGED <<present, account, review, grace, served>>
  BY DEF GetSubscription
<1>4. /\ v \in Vendors /\ visit[c].now <= present /\ present <= visit[c].now + 1 /\ visit[c] \in VisitType
      /\ seen \in Account /\ seen.end \in Nat
  BY <1>1, <1>2, <1>3, OperatingTypes DEF NoVisit
<1>5. CASE ~Undecided(visit[c].for, seen, visit[c].now)
  <2>1. visit' = [visit EXCEPT ![c] = NoVisit]
    BY <1>1, <1>2, <1>4, <1>5, OperatingTypes DEF GetSubscription
  <2> QED BY <1>3, <2>1, VisitMoves, CreditStays, NoVisitIsVisit
<1>6. CASE Undecided(visit[c].for, seen, visit[c].now)
  <2>1. PICK a : a = IF visit[c].for = "gate" THEN NoAccount ELSE seen
    OBVIOUS
  <2>2. PICK k : k = [visit[c] EXCEPT !.at = "billed", !.account = a]
    OBVIOUS
  <2>3. visit' = [visit EXCEPT ![c] = k]
    BY <1>1, <1>2, <1>4, <1>6, <2>1, <2>2, OperatingTypes DEF GetSubscription
  <2>4. a \in Account
    BY <1>4, <2>1 DEF NoAccount, Account
  <2>5. /\ k \in VisitType /\ k.at = "billed" /\ k.for = visit[c].for /\ k.vendor = v
        /\ k.now = visit[c].now /\ k.account = a
    BY <1>1, <1>4, <2>2, <2>4 DEF VisitType
  <2>6. CASE visit[c].for # "grace"
    BY <1>3, <1>4, <2>3, <2>5, <2>6, VisitMoves, CreditStays
  <2>7. CASE visit[c].for = "grace"
    <3>1. a = seen /\ seen.end < k.now /\ k.now \in Nat
      BY <1>4, <1>6, <2>1, <2>5, <2>7, OperatingTypes DEF Undecided, Eligible
    <3>2. /\ visit' \in [Calls -> VisitType] /\ visit'[c] = k /\ \A d \in Calls \ {c} : visit'[d] = visit[d]
      BY <2>3, <2>5, OperatingTypes
    <3>3. \A d \in Calls : Asks(d)' => \/ d # c /\ visit'[d] = visit[d] /\ Asks(d)
                                       \/ d = c /\ visit'[d] = k
      BY <3>2 DEF Asks
    <3>4. OperatingTypeOK'
      BY <1>3, <3>2 DEF OperatingInv, OperatingTypeOK, VisitType
    <3>5. VisitsAreFresh' /\ EndsAreNear'
      BY <1>3, <1>4, <2>5, <3>2 DEF OperatingInv, VisitsAreFresh, EndsAreNear
    <3>6. AsksWhenOverdue'
      BY <1>2, <1>3, <2>5, <3>1, <3>3 DEF OperatingInv, AsksWhenOverdue
    <3>7. \A d \in Calls : Asks(d) /\ visit[d].vendor = v => visit[d].account.end = seen.end
      <4> SUFFICES ASSUME NEW d \in Calls, Asks(d), visit[d].vendor = v PROVE visit[d].account.end = seen.end
        OBVIOUS
      <4>1. /\ seen.end = visit[d].account.end \/ seen.end >= visit[d].now + 1
            /\ present <= visit[d].now + 1 /\ visit[d].now \in Nat /\ visit[d].account.end \in Nat
        BY <1>2, OperatingTypes DEF OperatingInv, AsksWhenOverdue
      <4>2. seen.end < present
        BY <1>4, <2>5, <3>1, OperatingTypes
      <4> QED BY <1>4, <4>1, <4>2, OperatingTypes
    <3>8. OneUnpaidPeriod'
      BY <2>5, <3>1, <3>3, <3>7 DEF OperatingInv, OneUnpaidPeriod
    <3>9. RowsAreSound' /\ OneRowPerPeriod' /\ GraceFollowsGrace' /\ MarkedBeforeNow' /\ CreditIsOnRecord'
      BY <1>3 DEF OperatingInv, RowsAreSound, OneRowPerPeriod, GraceFollowsGrace, MarkedBeforeNow, HasPeriod,
         CreditIsOnRecord
    <3>10. RowsPrecedeAsks'
      <4>1. \A g \in grace : g.vendor = v => g.period <= seen.end
        BY <1>2 DEF OperatingInv, RowsAreSound
      <4> QED BY <1>3, <2>5, <3>1, <3>3, <4>1 DEF OperatingInv, RowsPrecedeAsks
    <3>11. MarkedBeforeAsked'
      <4>1. \A g \in grace : g.vendor = v /\ g.status = "EXPIRED" =>
              HasPeriod(grace, v, seen.end) \/ g.ends <= k.now
        <5> SUFFICES ASSUME NEW g \in grace, g.vendor = v, g.status = "EXPIRED", ~HasPeriod(grace, v, seen.end)
                     PROVE  g.ends <= k.now
          OBVIOUS
        <5>1. g.ends < present \/ seen.end >= present
          BY <1>2 DEF OperatingInv, MarkedBeforeNow
        <5>2. g.ends \in Nat
          BY OperatingTypes
        <5> QED BY <1>4, <2>5, <3>1, <5>1, <5>2, OperatingTypes
      <4> QED BY <1>3, <2>5, <3>1, <3>3, <4>1 DEF OperatingInv, MarkedBeforeAsked, HasPeriod
    <3> QED BY <3>4, <3>5, <3>6, <3>8, <3>9, <3>10, <3>11 DEF OperatingInv
  <2> QED BY <2>6, <2>7
<1> QED BY <1>5, <1>6

\* The gate lets an instant through on a row that covers it.
LEMMA GateKeeps ==
  ASSUME OperatingInv, NEW c \in Calls, Gate(c)
  PROVE  OperatingInv'
<1>1. /\ visit' = [visit EXCEPT ![c] = NoVisit] /\ UNCHANGED <<present, account, review, grace>>
      /\ \A s \in served' : s \in served \/ \E g \in grace : /\ s = [grace |-> g, at |-> visit[c].now]
                                                             /\ g.ends > visit[c].now /\ visit[c].now >= g.granted
  BY DEF Gate, IsActive
<1>2. visit[c] \in VisitType
  BY OperatingTypes
<1>3. served' \subseteq [grace : GraceRow, at : Instant]
  BY <1>1, <1>2, OperatingTypes DEF OperatingInv, OperatingTypeOK, VisitType
<1>4. CreditIsOnRecord'
  <2> SUFFICES ASSUME NEW s \in served'
               PROVE  \E g \in grace : SameTerm(g, s.grace) /\ s.at >= g.granted /\ s.at < g.ends
    BY <1>1 DEF CreditIsOnRecord
  <2>1. CASE s \in served
    BY <2>1 DEF OperatingInv, CreditIsOnRecord
  <2>2. CASE s \notin served
    <3>1. PICK g \in grace : /\ s = [grace |-> g, at |-> visit[c].now]
                             /\ g.ends > visit[c].now /\ visit[c].now >= g.granted
      BY <1>1, <2>2
    <3> QED BY <3>1, OperatingTypes DEF SameTerm
  <2> QED BY <2>1, <2>2
<1> QED BY <1>1, <1>3, <1>4, VisitMoves, NoVisitIsVisit

\* The term of a row and its period do not change when it is marked.
LEMMA SameTermKeepsPeriod ==
  ASSUME NEW R, NEW g \in R, NEW h, SameTerm(g, h), NEW S, h \in S
  PROVE  HasPeriod(S, g.vendor, g.period)
BY DEF SameTerm, HasPeriod

\* Marking the rows whose time is over keeps their terms; of the vendor's, those that
\* are not marked afterwards last beyond now.
LEMMA ExpiredRows ==
  ASSUME OperatingInv, NEW v \in Vendors, NEW now \in Nat, now <= present, NEW R, R = Expired(v, now)
  PROVE  /\ R \subseteq GraceRow
         /\ \A g \in grace : \E h \in R : SameTerm(g, h)
         /\ \A h \in R : \E g \in grace :
              /\ SameTerm(g, h)
              /\ h = g \/ (h.status = "EXPIRED" /\ g.vendor = v /\ g.ends <= now)
              /\ h.vendor = v /\ h.status = "ACTIVE" => h.ends > now
         /\ \A p : HasPeriod(R, v, p) <=> HasPeriod(grace, v, p)
         /\ \A h, k \in R : h.vendor = k.vendor /\ h.period = k.period => h = k
<1>1. PICK f : f = [g \in grace |->
                      IF g.vendor = v /\ g.status = "ACTIVE" /\ g.ends <= now THEN [g EXCEPT !.status = "EXPIRED"] ELSE g]
  OBVIOUS
<1>2. R = {f[g] : g \in grace}
  BY <1>1 DEF Expired
<1>3. \A g \in grace :
        /\ f[g] \in GraceRow /\ SameTerm(g, f[g])
        /\ f[g] = g \/ (f[g].status = "EXPIRED" /\ g.vendor = v /\ g.ends <= now)
        /\ f[g].vendor = v /\ f[g].status = "ACTIVE" => f[g].ends > now
  <2> SUFFICES ASSUME NEW g \in grace
               PROVE  /\ f[g] \in GraceRow /\ SameTerm(g, f[g])
                      /\ f[g] = g \/ (f[g].status = "EXPIRED" /\ g.vendor = v /\ g.ends <= now)
                      /\ f[g].vendor = v /\ f[g].status = "ACTIVE" => f[g].ends > now
    OBVIOUS
  <2>1. g \in GraceRow /\ g.ends \in Nat
    BY OperatingTypes
  <2>2. CASE g.vendor = v /\ g.status = "ACTIVE" /\ g.ends <= now
    <3>1. f[g] = [g EXCEPT !.status = "EXPIRED"]
      BY <1>1, <2>2
    <3>2. f[g] \in GraceRow /\ SameTerm(g, f[g]) /\ f[g].status = "EXPIRED"
      BY <2>1, <3>1 DEF GraceRow, SameTerm
    <3> QED BY <2>2, <3>2
  <2>3. CASE ~(g.vendor = v /\ g.status = "ACTIVE" /\ g.ends <= now)
    <3>1. f[g] = g
      BY <1>1, <2>3
    <3> QED BY <2>1, <2>3, <3>1 DEF SameTerm
  <2> QED BY <2>2, <2>3
<1>4. \A h \in R : \E g \in grace : h = f[g]
  BY <1>2
<1>5. \A g \in grace : f[g] \in R
  BY <1>2
<1>6. R \subseteq GraceRow /\ \A g \in grace : \E h \in R : SameTerm(g, h)
  BY <1>3, <1>4, <1>5
<1>7. \A h \in R : \E g \in grace :
              /\ SameTerm(g, h)
              /\ h = g \/ (h.status = "EXPIRED" /\ g.vendor = v /\ g.ends <= now)
              /\ h.vendor = v /\ h.status = "ACTIVE" => h.ends > now
  BY <1>3, <1>4
<1>8. \A p : HasPeriod(R, v, p) <=> HasPeriod(grace, v, p)
  BY <1>6, <1>7 DEF HasPeriod, SameTerm
<1>9. \A h, k \in R : h.vendor = k.vendor /\ h.period = k.period => h = k
  <2> SUFFICES ASSUME NEW h \in R, NEW k \in R, h.vendor = k.vendor, h.period = k.period PROVE h = k
    OBVIOUS
  <2>1. PICK g \in grace, i \in grace : h = f[g] /\ k = f[i]
    BY <1>4
  <2>2. g.vendor = i.vendor /\ g.period = i.period
    BY <1>3, <2>1 DEF SameTerm
  <2> QED BY <2>1, <2>2 DEF OperatingInv, OneRowPerPeriod
<1> QED BY <1>6, <1>7, <1>8, <1>9

\* The rows after a request for grace by s: each was there with the same term, or is the
\* new one, which follows every other of the vendor.
LEMMA CreateGraceRows ==
  ASSUME OperatingInv, NEW c \in Calls, Asks(c), NEW s, s = visit[c], grace' = CreateGrace(s)
  PROVE  /\ grace' \subseteq GraceRow
         /\ \A g \in grace : \E h \in grace' : SameTerm(g, h)
         /\ \A h \in grace' :
              \/ \E g \in grace :
                   /\ SameTerm(g, h)
                   /\ h = g \/ (h.status = "EXPIRED" /\ g.vendor = s.vendor /\ g.ends <= s.now
                                /\ HasPeriod(grace', s.vendor, s.account.end))
              \/ /\ h = NewGrace(s)
                 /\ ~HasPeriod(grace, s.vendor, s.account.end)
                 /\ \A g \in grace : g.vendor = s.vendor => g.status = "EXPIRED" \/ g.ends <= s.now
         /\ \A h, k \in grace' : h.vendor = k.vendor /\ h.period = k.period => h = k
<1>1. PICK R : R = Expired(s.vendor, s.now)
  OBVIOUS
<1>2. /\ s.vendor \in Vendors /\ s.now \in Nat /\ s.now <= present /\ s \in VisitType
      /\ s.account.end < s.now /\ s.account.end \in Nat
  BY OperatingTypes DEF OperatingInv, AsksWhenOverdue
<1>3. /\ R \subseteq GraceRow
      /\ \A g \in grace : \E h \in R : SameTerm(g, h)
      /\ \A h \in R : \E g \in grace :
              /\ SameTerm(g, h)
              /\ h = g \/ (h.status = "EXPIRED" /\ g.vendor = s.vendor /\ g.ends <= s.now)
              /\ h.vendor = s.vendor /\ h.status = "ACTIVE" => h.ends > s.now
      /\ \A p : HasPeriod(R, s.vendor, p) <=> HasPeriod(grace, s.vendor, p)
      /\ \A h, k \in R : h.vendor = k.vendor /\ h.period = k.period => h = k
  BY <1>1, <1>2, ExpiredRows
<1>4. CASE HasPeriod(R, s.vendor, s.account.end)
  <2>1. grace' = R
    BY <1>1, <1>4 DEF CreateGrace
  <2> QED BY <1>3, <1>4, <2>1
<1>5. CASE ~HasPeriod(R, s.vendor, s.account.end) /\ HasActive(R, s.vendor)
  <2>1. grace' = grace
    BY <1>1, <1>5 DEF CreateGrace
  <2> QED BY <2>1, OperatingTypes DEF SameTerm, OperatingInv, OneRowPerPeriod
<1>6. CASE ~HasPeriod(R, s.vendor, s.account.end) /\ ~HasActive(R, s.vendor)
  <2>1. grace' = R \cup {NewGrace(s)}
    BY <1>1, <1>6 DEF CreateGrace
  <2>2. NewGrace(s) \in GraceRow
    <3>1. s.account.end \in 0..(LastInstant + PeriodLength) /\ s.now \in Instant
      BY <1>2 DEF VisitType, Account
    <3>2. s.now + GraceLength \in 0..(LastInstant + GraceLength)
      BY <3>1 DEF Instant
    <3> QED BY <1>2, <3>1, <3>2 DEF NewGrace, GraceRow
  <2>3. \A h \in R : h.vendor = s.vendor => h.status = "EXPIRED"
    BY <1>3, <1>6 DEF HasActive, GraceRow
  <2>4. \A g \in grace : g.vendor = s.vendor => g.status = "EXPIRED" \/ g.ends <= s.now
    <3> SUFFICES ASSUME NEW g \in grace, g.vendor = s.vendor, g.status # "EXPIRED", ~(g.ends <= s.now) PROVE FALSE
      OBVIOUS
    <3>1. g.status = "ACTIVE" /\ g.ends \in Nat
      BY OperatingTypes
    <3>2. g \in R
      BY <1>1, <3>1 DEF Expired
    <3> QED BY <2>3, <3>1, <3>2
  <2>5. \A h \in R : \E g \in grace : SameTerm(g, h)
                      /\ (h = g \/ (h.status = "EXPIRED" /\ g.vendor = s.vendor /\ g.ends <= s.now))
    BY <1>3
  <2>6. HasPeriod(grace', s.vendor, s.account.end)
    <3>1. NewGrace(s).vendor = s.vendor /\ NewGrace(s).period = s.account.end
      BY DEF NewGrace
    <3>2. NewGrace(s) \in grace'
      BY <2>1
    <3> QED BY <3>1, <3>2 DEF HasPeriod
  <2>7. grace' \subseteq GraceRow /\ \A g \in grace : \E h \in grace' : SameTerm(g, h)
    BY <1>3, <2>1, <2>2
  <2>8. ~HasPeriod(grace, s.vendor, s.account.end)
    BY <1>3, <1>6
  <2>9. \A h, k \in grace' : h.vendor = k.vendor /\ h.period = k.period => h = k
    BY <1>3, <1>6, <2>1 DEF HasPeriod, NewGrace
  <2> QED BY <2>1, <2>4, <2>5, <2>6, <2>7, <2>8, <2>9
<1> QED BY <1>4, <1>5, <1>6

\* Whoever asks finds the period taken, is refused, or is granted one that follows every
\* other.
LEMMA RequestGraceKeeps ==
  ASSUME OperatingInv, NEW c \in Calls, RequestGrace(c)
  PROVE  OperatingInv'
<1>1. PICK s : s = visit[c]
  OBVIOUS
<1>2. PICK end : end = s.account.end
  OBVIOUS
<1>3. PICK new : new = NewGrace(s)
  OBVIOUS
<1> DEFINE Old(g, h) == /\ SameTerm(g, h)
                        /\ h = g \/ (h.status = "EXPIRED" /\ g.vendor = s.vendor /\ g.ends <= s.now
                                     /\ HasPeriod(grace', s.vendor, end))
           Fresh(h) == /\ h = new
                       /\ ~HasPeriod(grace, s.vendor, end)
                       /\ \A g \in grace : g.vendor = s.vendor => g.status = "EXPIRED" \/ g.ends <= s.now
<1>4. /\ Asks(c) /\ grace' = CreateGrace(s) /\ visit' = [visit EXCEPT ![c] = NoVisit]
      /\ UNCHANGED <<present, account, review, served>>
  BY <1>1 DEF RequestGrace, Asks
<1>5. /\ s.vendor \in Vendors /\ s.now \in Nat /\ s.now <= present /\ present <= s.now + 1
      /\ end < s.now /\ end \in Nat
      /\ account[s.vendor].end = end \/ account[s.vendor].end >= s.now + 1
  BY <1>1, <1>2, <1>4, OperatingTypes DEF OperatingInv, AsksWhenOverdue
<1>6. /\ grace' \subseteq GraceRow
      /\ \A g \in grace : \E h \in grace' : SameTerm(g, h)
      /\ \A h \in grace' : (\E g \in grace : Old(g, h)) \/ Fresh(h)
      /\ \A h, k \in grace' : h.vendor = k.vendor /\ h.period = k.period => h = k
  BY <1>1, <1>2, <1>3, <1>4, CreateGraceRows
<1>7. /\ new.vendor = s.vendor /\ new.period = end /\ new.granted = s.now /\ new.ends = s.now + GraceLength
      /\ new.status = "ACTIVE"
  BY <1>2, <1>3 DEF NewGrace
<1>8. /\ visit' \in [Calls -> VisitType] /\ \A d \in Calls : visit'[d] = visit[d] \/ visit'[d] = NoVisit
      /\ \A d \in Calls : Asks(d)' => visit'[d] = visit[d] /\ Asks(d)
  BY <1>4, NoVisitIsVisit, OperatingTypes DEF Asks
<1>9. \A v, p : HasPeriod(grace, v, p) => HasPeriod(grace', v, p)
  BY <1>6 DEF HasPeriod, SameTerm
<1>10. /\ GraceLength \in Nat /\ present \in Nat /\ \A g \in grace : /\ g.vendor \in Vendors /\ g.period \in Nat
                                                                 /\ g.granted \in Nat /\ g.ends \in Nat
       /\ \A v \in Vendors : account[v].end \in Nat
       /\ \A d \in Calls : visit[d].account.end \in Nat /\ visit[d].now \in Nat
  BY OperatingTypes
<1>11. OperatingTypeOK'
  BY <1>4, <1>6, <1>8 DEF OperatingInv, OperatingTypeOK, VisitType
<1>12. VisitsAreFresh' /\ EndsAreNear' /\ AsksWhenOverdue' /\ OneUnpaidPeriod' /\ OneRowPerPeriod'
  BY <1>4, <1>6, <1>8 DEF OperatingInv, VisitsAreFresh, EndsAreNear, AsksWhenOverdue, OneUnpaidPeriod, OneRowPerPeriod
<1>13. RowsAreSound'
  <2> SUFFICES ASSUME NEW h \in grace'
               PROVE  /\ h.granted > h.period /\ h.granted <= present /\ h.ends = h.granted + GraceLength
                      /\ h.period <= account[h.vendor].end
                      /\ h.status = "EXPIRED" => h.ends <= present
    BY <1>4 DEF RowsAreSound
  <2>1. CASE Fresh(h)
    BY <1>5, <1>7, <1>10, <2>1
  <2>2. CASE \E g \in grace : Old(g, h)
    <3>1. PICK g \in grace : SameTerm(g, h) /\ (h = g \/ g.ends <= s.now)
      BY <2>2
    <3>2. /\ g.granted > g.period /\ g.granted <= present /\ g.ends = g.granted + GraceLength
          /\ g.period <= account[g.vendor].end /\ (g.status = "EXPIRED" => g.ends <= present)
      BY DEF OperatingInv, RowsAreSound
    <3>3. g.vendor = h.vendor /\ g.period = h.period /\ g.granted = h.granted /\ g.ends = h.ends
      BY <3>1 DEF SameTerm
    <3>4. h.status = "EXPIRED" => h.ends <= present
      BY <1>5, <1>10, <3>1, <3>2, <3>3
    <3> QED BY <3>2, <3>3, <3>4
  <2> QED BY <1>6, <2>1, <2>2
<1>14. GraceFollowsGrace'
  <2> SUFFICES ASSUME NEW h \in grace', NEW k \in grace', h.vendor = k.vendor, h.period < k.period
               PROVE  k.granted >= h.ends
    BY DEF GraceFollowsGrace
  <2>1. CASE \E g, i \in grace : Old(g, h) /\ Old(i, k)
    BY <2>1 DEF SameTerm, OperatingInv, GraceFollowsGrace
  <2>2. CASE h = new /\ \E i \in grace : Old(i, k)
    <3>1. PICK i \in grace : SameTerm(i, k)
      BY <2>2
    <3>2. i.vendor = s.vendor /\ end < i.period
      BY <1>7, <2>2, <3>1 DEF SameTerm
    <3>3. i.period <= end
      BY <1>1, <1>2, <1>4, <3>2 DEF OperatingInv, RowsPrecedeAsks
    <3> QED BY <1>5, <1>10, <3>2, <3>3
  <2>3. CASE Fresh(k) /\ \E g \in grace : Old(g, h)
    <3>1. PICK g \in grace : SameTerm(g, h)
      BY <2>3
    <3>2. g.vendor = s.vendor /\ g.ends = h.ends /\ k.granted = s.now
      BY <1>7, <2>3, <3>1 DEF SameTerm
    <3>3. g.ends <= s.now
      BY <1>1, <1>2, <1>4, <2>3, <3>2 DEF OperatingInv, MarkedBeforeAsked
    <3> QED BY <1>5, <1>10, <3>2, <3>3
  <2>4. CASE h = new /\ k = new
    BY <1>5, <1>7, <2>4
  <2> QED BY <1>6, <2>1, <2>2, <2>3, <2>4
<1>15. RowsPrecedeAsks'
  <2> SUFFICES ASSUME NEW h \in grace', NEW d \in Calls, Asks(d), visit[d].vendor = h.vendor
               PROVE  h.period <= visit[d].account.end
    BY <1>8 DEF RowsPrecedeAsks
  <2>1. CASE Fresh(h)
    <3>1. visit[d].account.end = end
      BY <1>1, <1>2, <1>4, <1>7, <2>1 DEF OperatingInv, OneUnpaidPeriod
    <3> QED BY <1>5, <1>7, <2>1, <3>1
  <2>2. CASE \E g \in grace : Old(g, h)
    BY <2>2 DEF OperatingInv, RowsPrecedeAsks, SameTerm
  <2> QED BY <1>6, <2>1, <2>2
<1>16. MarkedBeforeAsked'
  <2> SUFFICES ASSUME NEW h \in grace', NEW d \in Calls, Asks(d), visit[d].vendor = h.vendor, h.status = "EXPIRED"
               PROVE  HasPeriod(grace', h.vendor, visit[d].account.end) \/ h.ends <= visit[d].now
    BY <1>8 DEF MarkedBeforeAsked
  <2>1. PICK g \in grace : Old(g, h)
    BY <1>6, <1>7
  <2>2. g.vendor = h.vendor /\ g.ends = h.ends
    BY <2>1 DEF SameTerm
  <2>3. CASE h = g
    BY <1>9, <2>3 DEF OperatingInv, MarkedBeforeAsked
  <2>4. CASE h # g
    <3>1. h.vendor = s.vendor /\ HasPeriod(grace', s.vendor, end)
      BY <2>1, <2>2, <2>4
    <3>2. visit[d].account.end = end
      BY <1>1, <1>2, <1>4, <3>1 DEF OperatingInv, OneUnpaidPeriod
    <3> QED BY <3>1, <3>2
  <2> QED BY <2>3, <2>4
<1>17. MarkedBeforeNow'
  <2> SUFFICES ASSUME NEW h \in grace', h.status = "EXPIRED"
               PROVE  \/ h.ends < present \/ account[h.vendor].end >= present
                      \/ HasPeriod(grace', h.vendor, account[h.vendor].end)
    BY <1>4 DEF MarkedBeforeNow
  <2>1. PICK g \in grace : Old(g, h)
    BY <1>6, <1>7
  <2>2. g.vendor = h.vendor /\ g.ends = h.ends
    BY <2>1 DEF SameTerm
  <2>3. CASE h = g
    BY <1>9, <2>3 DEF OperatingInv, MarkedBeforeNow
  <2>4. CASE h # g
    <3>1. h.vendor = s.vendor /\ HasPeriod(grace', s.vendor, end)
      BY <2>1, <2>2, <2>4
    <3>2. account[s.vendor].end = end \/ account[s.vendor].end >= present
      BY <1>5, <1>10
    <3> QED BY <3>1, <3>2
  <2> QED BY <2>3, <2>4
<1>18. CreditIsOnRecord'
  <2> SUFFICES ASSUME NEW x \in served
               PROVE  \E h \in grace' : SameTerm(h, x.grace) /\ x.at >= h.granted /\ x.at < h.ends
    BY <1>4 DEF CreditIsOnRecord
  <2>1. PICK g \in grace : SameTerm(g, x.grace) /\ x.at >= g.granted /\ x.at < g.ends
    BY DEF OperatingInv, CreditIsOnRecord
  <2>2. PICK h \in grace' : SameTerm(g, h)
    BY <1>6
  <2> QED BY <2>1, <2>2 DEF SameTerm
<1> QED BY <1>11, <1>12, <1>13, <1>14, <1>15, <1>16, <1>17, <1>18 DEF OperatingInv

\* Every step keeps the invariant.
LEMMA OperatingInvNext == OperatingInv /\ [OperatingNext]_operatingVars => OperatingInv'
<1> SUFFICES ASSUME OperatingInv, [OperatingNext]_operatingVars PROVE OperatingInv'
  OBVIOUS
<1>1. CASE UNCHANGED operatingVars
  BY <1>1 DEF operatingVars, OperatingInv, OperatingTypeOK, VisitsAreFresh, EndsAreNear, AsksWhenOverdue,
     OneUnpaidPeriod, RowsAreSound, OneRowPerPeriod, GraceFollowsGrace, RowsPrecedeAsks, MarkedBeforeAsked,
     MarkedBeforeNow, CreditIsOnRecord, Asks, HasPeriod
<1>2. ASSUME NEW v \in Vendors, Subscribe(v) PROVE OperatingInv'
  BY <1>2, BillKeeps DEF Subscribe, SubscriptionStatus
<1>3. ASSUME NEW v \in Vendors, NEW s \in SubscriptionStatus, ChangeStatus(v, s) PROVE OperatingInv'
  BY <1>3, BillKeeps DEF ChangeStatus
<1>4. ASSUME NEW v \in Vendors, PayCheckout(v) PROVE OperatingInv'
  BY <1>4, BillKeeps DEF PayCheckout, SubscriptionStatus
<1>5. ASSUME NEW v \in Vendors, NEW s \in {"APPROVED", "REJECTED"}, DecideCompliance(v, s) PROVE OperatingInv'
  BY <1>5, DecideKeeps
<1>6. ASSUME NEW c \in Calls, NEW v \in Vendors, NEW for \in {"gate", "grace"}, GetCompliance(c, v, for)
      PROVE  OperatingInv'
  BY <1>6, GetComplianceKeeps
<1>7. ASSUME NEW c \in Calls, GetSubscription(c) \/ Gate(c) \/ RequestGrace(c) PROVE OperatingInv'
  BY <1>7, GetSubscriptionKeeps, GateKeeps, RequestGraceKeeps
<1>8. CASE ClockAdvances
  BY <1>8, ClockAdvancesKeeps
<1> QED BY <1>1, <1>2, <1>3, <1>4, <1>5, <1>6, <1>7, <1>8 DEF OperatingNext

\* The invariant of the operating status holds in every reachable state.
LEMMA OperatingInvariance == OperatingSpec => []OperatingInv
BY OperatingInvInit, OperatingInvNext, PTL DEF OperatingSpec

\* Instants on credit are few, and of one period.
LEMMA CreditIsBounded == OperatingInv => GraceIsAllTheCredit
<1> SUFFICES ASSUME OperatingInv PROVE GraceIsAllTheCredit
  OBVIOUS
<1>1. \A s \in served : \E g \in grace :
        /\ g.vendor = s.grace.vendor /\ g.period = s.grace.period /\ s.at \in Nat
        /\ s.at >= g.granted /\ s.at < g.ends
  <2>1. \A s \in served : s.at \in Nat
    BY DEF OperatingInv, OperatingTypeOK, Instant
  <2> QED BY <2>1 DEF OperatingInv, CreditIsOnRecord, SameTerm
<1>2. ASSUME NEW v \in Vendors, NEW period \in 0..(LastInstant + PeriodLength)
      PROVE  LET credit == {s.at : s \in {t \in served : t.grace.vendor = v /\ t.grace.period = period}} IN
             Cardinality(credit) <= GraceLength /\ \A i \in credit : i > period
  <2>1. PICK credit : credit = {s.at : s \in {t \in served : t.grace.vendor = v /\ t.grace.period = period}}
    OBVIOUS
  <2>2. CASE credit = {}
    <3>1. Cardinality(credit) = 0
      BY <2>2, FS_EmptySet
    <3> QED BY <2>1, <2>2, <3>1
  <2>3. CASE credit # {}
    <3>1. PICK g \in grace : g.vendor = v /\ g.period = period
      BY <1>1, <2>1, <2>3
    <3>2. /\ g.granted \in Nat /\ g.ends \in Nat /\ GraceLength \in Nat /\ GraceLength >= 1
          /\ g.ends = g.granted + GraceLength /\ g.granted > g.period /\ g.period \in Nat
      BY OperatingTypes DEF OperatingInv, RowsAreSound
    <3>3. \A d \in credit : d \in Nat /\ d >= g.granted /\ d < g.ends
      <4> SUFFICES ASSUME NEW d \in credit PROVE d \in Nat /\ d >= g.granted /\ d < g.ends
        OBVIOUS
      <4>1. PICK s \in served : s.at = d /\ s.grace.vendor = v /\ s.grace.period = period
        BY <2>1
      <4>2. PICK h \in grace : /\ h.vendor = v /\ h.period = period /\ d \in Nat /\ d >= h.granted /\ d < h.ends
        BY <1>1, <4>1
      <4>3. h = g
        BY <3>1, <4>2 DEF OperatingInv, OneRowPerPeriod
      <4> QED BY <4>2, <4>3
    <3>4. credit \subseteq g.granted..(g.ends - 1)
      BY <3>2, <3>3
    <3>5. IsFiniteSet(g.granted..(g.ends - 1)) /\ Cardinality(g.granted..(g.ends - 1)) = GraceLength
      <4>1. PICK last : last = g.ends - 1
        OBVIOUS
      <4>2. g.granted \in Int /\ last \in Int /\ ~(g.granted > last) /\ last - g.granted + 1 = GraceLength
        BY <3>2, <4>1
      <4>3. IsFiniteSet(g.granted..last) /\ Cardinality(g.granted..last) = last - g.granted + 1
        BY <4>2, FS_Interval
      <4> QED BY <4>1, <4>2, <4>3
    <3>6. Cardinality(credit) <= GraceLength
      BY <3>4, <3>5, FS_Subset
    <3>7. \A d \in credit : d > period
      BY <3>1, <3>2, <3>3
    <3> QED BY <2>1, <3>6, <3>7
  <2> QED BY <2>2, <2>3
<1>3. ASSUME NEW s \in served, NEW t \in served, s.grace.vendor = t.grace.vendor, s.at = t.at
      PROVE  s.grace.period = t.grace.period
  <2>1. PICK g \in grace : g.vendor = s.grace.vendor /\ g.period = s.grace.period /\ s.at \in Nat
                           /\ s.at >= g.granted /\ s.at < g.ends
    BY <1>1
  <2>2. PICK h \in grace : h.vendor = t.grace.vendor /\ h.period = t.grace.period
                           /\ t.at >= h.granted /\ t.at < h.ends
    BY <1>1
  <2>3. g.period \in Nat /\ h.period \in Nat /\ g.granted \in Nat /\ h.granted \in Nat
        /\ g.ends \in Nat /\ h.ends \in Nat
    BY OperatingTypes
  <2>4. g.period < h.period => h.granted >= g.ends
    BY <1>3, <2>1, <2>2 DEF OperatingInv, GraceFollowsGrace
  <2>5. h.period < g.period => g.granted >= h.ends
    BY <1>3, <2>1, <2>2 DEF OperatingInv, GraceFollowsGrace
  <2> QED BY <1>3, <2>1, <2>2, <2>3, <2>4, <2>5
<1> QED BY <1>2, <1>3 DEF GraceIsAllTheCredit

\* For one unpaid period a vendor works on credit for at most GraceLength, all later
\* than the period, and at no instant for two periods (internal/modules/operatingstatus).
THEOREM CreditIsGraceOnly == OperatingSpec => [](OperatingTypeOK /\ GraceIsAllTheCredit)
<1>1. OperatingInv => OperatingTypeOK
  BY DEF OperatingInv
<1> QED BY <1>1, CreditIsBounded, OperatingInvariance, PTL

=============================================================================
