---------------------------- MODULE WalletProofs ----------------------------
(***************************************************************************)
(* Proofs about Wallet.tla, for any accounts, commands, number of callers  *)
(* and range of amounts.  For the snapshots equal sets of entries having   *)
(* equal sums is enough; that the ledger nets to zero needs what a fold    *)
(* over a finite set is: the order of its lines does not matter, and sums  *)
(* of separate sets add up.                                                *)
(***************************************************************************)
EXTENDS Wallet, FiniteSetTheorems, WellFoundedInduction, TLAPS

\* A transaction reads a past state of an append-only table.
SeenIsBooked == \A c \in Callers : seen[c] \subseteq journals

IndInv ==
  /\ TypeOK
  /\ SeenIsBooked
  /\ SnapshotsMatchLedger
  /\ KeysAreUnique
  /\ ToldIsBooked

USE WalletAssumption

\* The empty ledger is well-typed.
LEMMA TypeInit == Init => TypeOK
<1>1. 0 \in BigInt
  BY DEF BigInt
<1> QED BY <1>1 DEF Init, TypeOK

\* Only the entries of journals that touch an account count for its balance.
LEMMA LinesOfTouching ==
  ASSUME NEW all, NEW js, js \subseteq all, NEW a \in Accounts, NEW l,
         \A q \in all \ js : a \notin Touches(q)
  PROVE  LinesOf(all, a, l) = LinesOf(js, a, l)
<1> SUFFICES ASSUME NEW q \in all \ js, NEW i \in DOMAIN Entries[q]
             PROVE  Entries[q][i].account # a
  BY DEF LinesOf, Lines
<1>1. Entries[q][i] \in Range(Entries[q])
  BY DEF Range
<1> QED BY <1>1 DEF Touches

\* The inductive invariant holds of the empty ledger.
LEMMA IndInvInit == Init => IndInv
<1> SUFFICES ASSUME Init PROVE IndInv
  OBVIOUS
<1>1. \A a, l : LinesOf({}, a, l) = {}
  BY DEF LinesOf, Lines
<1>2. SnapshotsMatchLedger
  BY <1>1 DEF Init, SnapshotsMatchLedger, Total
<1>3. SeenIsBooked /\ KeysAreUnique /\ ToldIsBooked
  BY DEF Init, SeenIsBooked, KeysAreUnique, ToldIsBooked
<1> QED BY <1>2, <1>3, TypeInit DEF IndInv

\* A step that books nothing keeps the invariant.
LEMMA NothingBooked ==
  ASSUME IndInv, UNCHANGED <<journals, snapshot>>, NEW c \in Callers,
         NEW p \in Postings \cup {None}, posting' = [posting EXCEPT ![c] = p],
         NEW s \in SUBSET journals, seen' = [seen EXCEPT ![c] = s],
         told' \in SUBSET Postings, ToldIsBooked'
  PROVE  IndInv'
<1>1. TypeOK'
  BY DEF IndInv, TypeOK
<1>2. SeenIsBooked'
  BY DEF IndInv, SeenIsBooked, TypeOK
<1>3. SnapshotsMatchLedger' /\ KeysAreUnique'
  BY DEF IndInv, SnapshotsMatchLedger, KeysAreUnique
<1> QED BY <1>1, <1>2, <1>3 DEF IndInv

\* What the transaction reads of an account it writes is what is committed.
LEMMA UnopposedReads ==
  ASSUME IndInv, NEW c \in Callers, NEW p \in Postings, posting[c] = p, Unopposed(c),
         NEW a \in Touches(p), a \in Accounts, NEW l
  PROVE  LinesOf(journals \cup {p}, a, l) = LinesOf(seen[c] \cup {p}, a, l)
<1>1. seen[c] \cup {p} \subseteq journals \cup {p}
  BY DEF IndInv, SeenIsBooked
<1>2. \A q \in (journals \cup {p}) \ (seen[c] \cup {p}) : a \notin Touches(q)
  BY DEF Unopposed
<1> QED BY <1>1, <1>2, LinesOfTouching

\* A commit keeps the inductive invariant: what it saw of the accounts it writes is all there is.
LEMMA PostKeeps == ASSUME IndInv, NEW c \in Callers, Post(c) PROVE IndInv'
<1> DEFINE p == posting[c]
<1>0. /\ p \in Postings /\ journals \in SUBSET Postings
      /\ journals' = journals \cup {p} /\ told' = told \cup {p}
      /\ posting' = [posting EXCEPT ![c] = None] /\ seen' = [seen EXCEPT ![c] = {}]
      /\ snapshot' = [a \in Accounts |-> IF a \in Touches(p)
                        THEN Refreshed(a, seen[c] \cup {p}) ELSE snapshot[a]]
  BY DEF Post, Book, BookAs, Close, IndInv, TypeOK
<1>1. Touches(p) \subseteq Accounts
  <2>1. Entries[p] \in Seq(Entry)
    BY <1>0
  <2>2. \A i \in DOMAIN Entries[p] : Entries[p][i] \in Entry
    <3> HIDE DEF p, Entry
    <3> QED BY <2>1
  <2>3. \A e \in Range(Entries[p]) : e.account \in Accounts \cup {Platform}
    BY <2>2 DEF Range, Entry
  <2> QED BY <2>3 DEF Touches
<1> HIDE DEF p
<1>2. snapshot' \in [Accounts -> [VendorLedger -> BigInt]]
  <2>1. \A a \in Touches(p) : Refreshed(a, seen[c] \cup {p}) \in [VendorLedger -> BigInt]
    BY DEF Post, Fits, Refreshed, p
  <2> QED BY <1>0, <2>1 DEF IndInv, TypeOK
<1>3. TypeOK'
  BY <1>0, <1>2 DEF IndInv, TypeOK
<1>4. SeenIsBooked'
  BY <1>0 DEF IndInv, SeenIsBooked, TypeOK
<1>5. SnapshotsMatchLedger'
  <2> SUFFICES ASSUME NEW a \in Accounts, NEW l \in VendorLedger
               PROVE  snapshot'[a][l] = Total(LinesOf(journals', a, l))
    BY DEF SnapshotsMatchLedger
  <2>1. CASE a \in Touches(p)
    <3>1. LinesOf(journals', a, l) = LinesOf(seen[c] \cup {p}, a, l)
      BY <1>0, <2>1, UnopposedReads DEF Post, p
    <3>2. snapshot'[a][l] = Total(LinesOf(seen[c] \cup {p}, a, l))
      BY <1>0, <2>1 DEF Refreshed
    <3> QED BY <3>1, <3>2
  <2>2. CASE a \notin Touches(p)
    <3>1. LinesOf(journals', a, l) = LinesOf(journals, a, l)
      <4>1. \A q \in (journals \cup {p}) \ journals : a \notin Touches(q)
        BY <2>2
      <4>2. LinesOf(journals \cup {p}, a, l) = LinesOf(journals, a, l)
        BY <1>0, <4>1, LinesOfTouching
      <4> QED BY <1>0, <4>2
    <3> QED BY <1>0, <2>2, <3>1 DEF IndInv, SnapshotsMatchLedger
  <2> QED BY <2>1, <2>2
<1>6. KeysAreUnique'
  <2>1. \A q \in journals : Key[q] # Key[p]
    BY <1>0 DEF Post, SameKey, Unopposed, IndInv, SeenIsBooked, p
  <2> QED BY <1>0, <2>1 DEF IndInv, KeysAreUnique
<1>7. ToldIsBooked'
  BY <1>0 DEF IndInv, ToldIsBooked
<1> QED BY <1>3, <1>4, <1>5, <1>6, <1>7 DEF IndInv

\* The inductive invariant is preserved by every step of a caller.
LEMMA IndInvNext == IndInv /\ [Next]_vars => IndInv'
<1> SUFFICES ASSUME IndInv, [Next]_vars PROVE IndInv'
  OBVIOUS
<1>1. ASSUME NEW c \in Callers, NEW p \in Postings, PostInternal(c, p) PROVE IndInv'
  <2>1. ToldIsBooked'
    BY <1>1 DEF IndInv, ToldIsBooked, PostInternal
  <2> QED BY <1>1, <2>1, NothingBooked DEF PostInternal, IndInv, TypeOK
<1>2. ASSUME NEW c \in Callers, Replay(c) PROVE IndInv'
  <2>1. PICK q \in SameKey(posting[c], seen[c]) :
          told' = IF Source[q] = Source[posting[c]] THEN told \cup {posting[c]} ELSE told
    BY <1>2 DEF Replay
  <2>2. posting[c] \in Postings /\ q \in journals /\ Key[q] = Key[posting[c]]
    BY <1>2 DEF Replay, SameKey, IndInv, TypeOK, SeenIsBooked
  <2>3. ToldIsBooked' /\ told' \in SUBSET Postings
    BY <1>2, <2>1, <2>2 DEF Replay, IndInv, ToldIsBooked, TypeOK
  <2> QED BY <1>2, <2>3, NothingBooked DEF Replay, Close
<1>3. ASSUME NEW c \in Callers, Post(c) PROVE IndInv'
  BY <1>3, PostKeeps
<1>4. ASSUME NEW c \in Callers, Rollback(c) PROVE IndInv'
  <2>1. ToldIsBooked' /\ told' \in SUBSET Postings
    BY <1>4 DEF IndInv, ToldIsBooked, TypeOK, Rollback
  <2> QED BY <1>4, <2>1, NothingBooked DEF Rollback, Close
<1>5. CASE UNCHANGED vars
  BY <1>5 DEF vars, IndInv, TypeOK, SeenIsBooked, SnapshotsMatchLedger, KeysAreUnique, ToldIsBooked
<1> QED BY <1>1, <1>2, <1>3, <1>4, <1>5 DEF Next

\* The inductive invariant holds in every reachable state.
LEMMA Invariance == Spec => []IndInv
BY IndInvInit, IndInvNext, PTL DEF Spec

-----------------------------------------------------------------------------

\* Type correctness: in particular every stored balance fits its column.
THEOREM TypeCorrect == Spec => []TypeOK
<1>1. IndInv => TypeOK
  BY DEF IndInv
<1> QED BY Invariance, <1>1, PTL

\* No concurrent posting loses an update of a balance snapshot.
THEOREM SnapshotsExact == Spec => []SnapshotsMatchLedger
<1>1. IndInv => SnapshotsMatchLedger
  BY DEF IndInv
<1> QED BY Invariance, <1>1, PTL

\* An idempotency key is booked at most once.
THEOREM KeysUnique == Spec => []KeysAreUnique
<1>1. IndInv => KeysAreUnique
  BY DEF IndInv
<1> QED BY Invariance, <1>1, PTL

\* A caller that was told so finds its journal.
THEOREM ToldTruth == Spec => []ToldIsBooked
<1>1. IndInv => ToldIsBooked
  BY DEF IndInv
<1> QED BY Invariance, <1>1, PTL

HIDE WalletAssumption

-----------------------------------------------------------------------------
(* Sums over sets of lines. *)

First(s) == CHOOSE x \in s : TRUE

\* g is the table of the sums of the subsets of A.
Sums(g, A) ==
  g = [s \in SUBSET A |-> IF s = {} THEN 0 ELSE Amount(First(s)) + g[s \ {First(s)}]]

Amounts(A) == \A x \in A : Amount(x) \in Int

\* Induction over the subsets of a finite set, for a set of subsets instead of a predicate.
LEMMA SubsetsByInduction ==
  ASSUME NEW A, IsFiniteSet(A), NEW X,
         \A s \in SUBSET A : (\A t \in SUBSET s : t # s => t \in X) => s \in X
  PROVE  SUBSET A \subseteq X
<1> DEFINE Y == {s \in SUBSET A : s \notin X}
<1>1. SUFFICES ASSUME Y # {} PROVE FALSE
  OBVIOUS
<1>2. IsWellFoundedOn(StrictSubsetOrdering(A), SUBSET A)
  BY FS_StrictSubsetOrderingWellFounded, FS_FiniteSubsetsOfFinite
<1>3. Y \subseteq SUBSET A
  OBVIOUS
<1> HIDE DEF Y
<1>4. PICK s \in Y : \A t \in Y : ~ (<<t, s>> \in StrictSubsetOrdering(A))
  BY <1>1, <1>2, <1>3, WFMin
<1>5. \A t \in SUBSET s : t # s => t \notin Y
  BY <1>3, <1>4 DEF StrictSubsetOrdering
<1> QED BY <1>3, <1>4, <1>5 DEF Y

\* The first line of a set is one of it.
LEMMA FirstIsThere == ASSUME NEW s, s # {} PROVE First(s) \in s /\ s \ {First(s)} \in SUBSET s /\ s \ {First(s)} # s
<1>1. First(s) \in s
  BY DEF First
<1> QED BY <1>1

\* What a table of sums says.
LEMMA SumsSay ==
  ASSUME NEW A, NEW g, Sums(g, A), NEW s \in SUBSET A
  PROVE  /\ s = {} => g[s] = 0
         /\ s # {} => g[s] = Amount(First(s)) + g[s \ {First(s)}]
<1>1. g = [t \in SUBSET A |-> IF t = {} THEN 0 ELSE Amount(First(t)) + g[t \ {First(t)}]]
  BY DEF Sums
<1>2. g[s] = IF s = {} THEN 0 ELSE Amount(First(s)) + g[s \ {First(s)}]
  BY ONLY <1>1, s \in SUBSET A
<1> QED BY <1>2

\* Two tables agree where both say something.
LEMMA SumsAgree ==
  ASSUME NEW A, NEW B, NEW g, NEW h, IsFiniteSet(A), Sums(g, A), Sums(h, B), NEW s \in SUBSET A, s \in SUBSET B
  PROVE  g[s] = h[s]
<1> DEFINE X == {t \in SUBSET A : t \in SUBSET B => g[t] = h[t]}
<1>1. ASSUME NEW t \in SUBSET A, \A u \in SUBSET t : u # t => u \in X PROVE t \in X
  <2> SUFFICES ASSUME t \in SUBSET B PROVE g[t] = h[t]
    OBVIOUS
  <2>1. CASE t = {}
    BY <2>1, SumsSay
  <2>2. CASE t # {}
    <3>1. t \ {First(t)} \in X
      BY <1>1, <2>2, FirstIsThere
    <3>2. g[t \ {First(t)}] = h[t \ {First(t)}]
      BY <3>1
    <3> QED BY <2>2, <3>2, SumsSay
  <2> QED BY <2>1, <2>2
<1>2. SUBSET A \subseteq X
  <2> HIDE DEF X
  <2> QED BY <1>1, SubsetsByInduction
<1> QED BY <1>2

\* Sums of integers are integers.
LEMMA SumsAreIntegers ==
  ASSUME NEW A, NEW g, IsFiniteSet(A), Amounts(A), Sums(g, A), NEW s \in SUBSET A
  PROVE  g[s] \in Int
<1> DEFINE X == {t \in SUBSET A : g[t] \in Int}
<1>1. ASSUME NEW t \in SUBSET A, \A u \in SUBSET t : u # t => u \in X PROVE t \in X
  <2>1. CASE t = {}
    <3>1. g[t] = 0
      BY <2>1, SumsSay
    <3> QED BY <3>1
  <2>2. CASE t # {}
    <3>1. t \ {First(t)} \in X /\ First(t) \in A
      BY <1>1, <2>2, FirstIsThere
    <3>2. g[t \ {First(t)}] \in Int /\ Amount(First(t)) \in Int
      BY <3>1 DEF Amounts
    <3>3. g[t] = Amount(First(t)) + g[t \ {First(t)}]
      BY <2>2, SumsSay
    <3> QED BY <3>2, <3>3
  <2> QED BY <2>1, <2>2
<1>2. SUBSET A \subseteq X
  <2> HIDE DEF X
  <2> QED BY <1>1, SubsetsByInduction
<1> QED BY <1>2

\* Every finite set has its table.
LEMMA SumsExist == ASSUME NEW A, IsFiniteSet(A) PROVE \E g : Sums(g, A)
<1> DEFINE X == {t \in SUBSET A : \E g : Sums(g, t)}
<1>1. ASSUME NEW t \in SUBSET A, \A u \in SUBSET t : u # t => u \in X PROVE t \in X
  <2> DEFINE table(u) == CHOOSE g : Sums(g, u)
             sum(u) == table(u)[u]
             all == IF t = {} THEN 0 ELSE Amount(First(t)) + sum(t \ {First(t)})
  <2>1. PICK g : g = [u \in SUBSET t |-> IF u = t THEN all ELSE sum(u)]
    OBVIOUS
  <2>2. \A u \in SUBSET t : u # t => Sums(table(u), u)
    BY <1>1
  <2>3. ASSUME NEW u \in SUBSET t PROVE g[u] = IF u = {} THEN 0 ELSE Amount(First(u)) + g[u \ {First(u)}]
    <3> HIDE DEF table
    <3>1. CASE u = t
      <4>1. CASE u = {}
        BY <2>1, <3>1, <4>1
      <4>2. CASE u # {}
        <5>1. g[u \ {First(u)}] = sum(u \ {First(u)})
          BY <2>1, <3>1, <4>2, FirstIsThere
        <5> QED BY <2>1, <3>1, <4>2, <5>1
      <4> QED BY <4>1, <4>2
    <3>2. CASE u # t
      <4>0. Sums(table(u), u) /\ g[u] = table(u)[u] /\ IsFiniteSet(u)
        BY <2>1, <2>2, <3>2, FS_Subset
      <4>1. CASE u = {}
        BY <4>0, <4>1, SumsSay
      <4>2. CASE u # {}
        <5> DEFINE v == u \ {First(u)}
        <5>1. v \in SUBSET u /\ v \in SUBSET t /\ v # t
          BY <3>2, <4>2, FirstIsThere
        <5> HIDE DEF v
        <5>2. Sums(table(v), v) /\ g[v] = table(v)[v]
          BY <2>1, <2>2, <5>1
        <5>3. table(u)[v] = table(v)[v]
          <6>1. v \in SUBSET v
            OBVIOUS
          <6> QED BY <4>0, <5>1, <5>2, <6>1, SumsAgree
        <5>4. table(u)[u] = Amount(First(u)) + table(u)[v]
          <6>1. u \in SUBSET u
            OBVIOUS
          <6> QED BY <4>0, <4>2, <6>1, SumsSay DEF v
        <5> QED BY <4>0, <4>2, <5>2, <5>3, <5>4 DEF v
      <4> QED BY <4>1, <4>2
    <3> QED BY <3>1, <3>2
  <2>4. g = [u \in SUBSET t |-> IF u = {} THEN 0 ELSE Amount(First(u)) + g[u \ {First(u)}]]
    <3>1. DOMAIN g = SUBSET t /\ g = [u \in SUBSET t |-> g[u]]
      BY <2>1
    <3> HIDE DEF sum, all
    <3> QED BY <2>3, <3>1
  <2>5. Sums(g, t)
    BY <2>4 DEF Sums
  <2> QED BY <2>5
<1>2. SUBSET A \subseteq X
  <2> HIDE DEF X
  <2> QED BY <1>1, SubsetsByInduction
<1>3. A \in X
  <2> HIDE DEF X
  <2> QED BY <1>2
<1> QED BY <1>3

\* Whichever line is taken away first.
LEMMA AnyLineFirst ==
  ASSUME NEW A, NEW g, IsFiniteSet(A), Amounts(A), Sums(g, A), NEW s \in SUBSET A, NEW x \in s
  PROVE  g[s] = Amount(x) + g[s \ {x}]
<1> DEFINE X == {t \in SUBSET A : \A y \in t : g[t] = Amount(y) + g[t \ {y}]}
<1>1. ASSUME NEW t \in SUBSET A, \A u \in SUBSET t : u # t => u \in X PROVE t \in X
  <2> SUFFICES ASSUME NEW y \in t PROVE g[t] = Amount(y) + g[t \ {y}]
    OBVIOUS
  <2>1. PICK f : f = First(t)
    OBVIOUS
  <2>2. f \in t /\ t \ {f} \in SUBSET t /\ t \ {f} # t /\ t # {}
    BY <2>1, FirstIsThere
  <2>3. g[t] = Amount(f) + g[t \ {f}]
    BY <2>1, <2>2, SumsSay
  <2>4. CASE y = f
    BY <2>3, <2>4
  <2>5. CASE y # f
    <3>1. t \ {f} \in X /\ t \ {y} \in X
      BY <1>1, <2>2
    <3>2. y \in t \ {f} /\ f \in t \ {y} /\ (t \ {f}) \ {y} = (t \ {y}) \ {f}
      BY <2>2, <2>5
    <3>3. g[t \ {f}] = Amount(y) + g[(t \ {f}) \ {y}] /\ g[t \ {y}] = Amount(f) + g[(t \ {y}) \ {f}]
      BY <3>1, <3>2
    <3>4. PICK rest : rest = (t \ {f}) \ {y}
      OBVIOUS
    <3>5. rest \in SUBSET A /\ Amount(y) \in Int /\ Amount(f) \in Int
      BY <2>2, <3>4 DEF Amounts
    <3>6. g[rest] \in Int
      BY <3>5, SumsAreIntegers
    <3>7. g[t \ {f}] = Amount(y) + g[rest] /\ g[t \ {y}] = Amount(f) + g[rest]
      BY <3>2, <3>3, <3>4
    <3> QED BY <2>3, <3>5, <3>6, <3>7
  <2> QED BY <2>4, <2>5
<1>2. SUBSET A \subseteq X
  <2> HIDE DEF X
  <2> QED BY <1>1, SubsetsByInduction
<1> QED BY <1>2

\* Sums of separate sets add up.
LEMMA SumsAdd ==
  ASSUME NEW A, NEW g, IsFiniteSet(A), Amounts(A), Sums(g, A), NEW S \in SUBSET A, NEW T \in SUBSET A,
         S \cap T = {}
  PROVE  g[S \cup T] = g[S] + g[T]
<1> DEFINE X == {s \in SUBSET A : s \cap T = {} => g[s \cup T] = g[s] + g[T]}
<1>1. ASSUME NEW s \in SUBSET A, \A u \in SUBSET s : u # s => u \in X PROVE s \in X
  <2> SUFFICES ASSUME s \cap T = {} PROVE g[s \cup T] = g[s] + g[T]
    OBVIOUS
  <2>0. g[T] \in Int
    BY SumsAreIntegers
  <2>1. CASE s = {}
    <3>1. g[s] = 0 /\ s \cup T = T
      BY <2>1, SumsSay
    <3>2. g[s \cup T] = g[T]
      BY <3>1
    <3>3. PICK n \in Int : n = g[T]
      BY <2>0
    <3> QED BY <3>1, <3>2, <3>3
  <2>2. CASE s # {}
    <3>1. PICK x \in s : TRUE
      BY <2>2
    <3>2. PICK r : r = s \ {x}
      OBVIOUS
    <3>3. r \in X /\ r \cap T = {} /\ r \in SUBSET A /\ (s \cup T) \ {x} = r \cup T
          /\ s \cup T \in SUBSET A /\ x \in s \cup T
      BY <1>1, <3>1, <3>2
    <3>4. g[r \cup T] = g[r] + g[T]
      BY <3>3
    <3>5. g[s \cup T] = Amount(x) + g[r \cup T]
      BY <3>3, AnyLineFirst
    <3>6. g[s] = Amount(x) + g[r]
      BY <3>1, <3>2, AnyLineFirst
    <3>7. g[r] \in Int /\ Amount(x) \in Int
      BY <3>1, <3>3, SumsAreIntegers DEF Amounts
    <3> QED BY <2>0, <3>4, <3>5, <3>6, <3>7
  <2> QED BY <2>1, <2>2
<1>2. SUBSET A \subseteq X
  <2> HIDE DEF X
  <2> QED BY <1>1, SubsetsByInduction
<1> QED BY <1>2

\* The fold of the model is the sum a table gives.
LEMMA TotalIsSum ==
  ASSUME NEW A, NEW g, IsFiniteSet(A), Sums(g, A)
  PROVE  Total(A) = g[A]
<1> DEFINE Q(f) == f = [s \in SUBSET A |-> IF s = {} THEN 0 ELSE Amount(First(s)) + f[s \ {First(s)}]]
<1>1. PICK h : h = CHOOSE f : Q(f)
  OBVIOUS
<1>2. Q(g)
  BY DEF Sums
<1>3. MapThenSumSet(Amount, A) = h[A]
  BY <1>1 DEF MapThenSumSet, MapThenFoldSet, First
<1>4. Q(h)
  <2> HIDE DEF Q
  <2> QED BY <1>1, <1>2
<1>5. Sums(h, A)
  BY <1>4 DEF Sums
<1>6. A \in SUBSET A
  OBVIOUS
<1>7. h[A] = g[A]
  BY <1>5, <1>6, SumsAgree
<1>8. A = {} => g[A] = 0
  BY <1>6, SumsSay
<1> QED BY <1>3, <1>7, <1>8 DEF Total

\* Totals of separate sets of lines add up.
LEMMA TotalsAdd ==
  ASSUME NEW S, NEW T, IsFiniteSet(S), IsFiniteSet(T), Amounts(S \cup T), S \cap T = {}
  PROVE  Total(S \cup T) = Total(S) + Total(T)
<1> DEFINE A == S \cup T
<1>1. IsFiniteSet(A)
  BY FS_Union
<1>2. PICK g, h, k : Sums(g, A) /\ Sums(h, S) /\ Sums(k, T)
  BY <1>1, SumsExist
<1>3. Total(A) = g[A] /\ Total(S) = h[S] /\ Total(T) = k[T]
  BY <1>1, <1>2, TotalIsSum
<1>4. g[S] = h[S]
  <2>1. S \in SUBSET A /\ S \in SUBSET S
    OBVIOUS
  <2> HIDE DEF A
  <2> QED BY <1>1, <1>2, <2>1, SumsAgree
<1>5. g[T] = k[T]
  <2>1. T \in SUBSET A /\ T \in SUBSET T
    OBVIOUS
  <2> HIDE DEF A
  <2> QED BY <1>1, <1>2, <2>1, SumsAgree
<1>6. g[A] = g[S] + g[T]
  BY <1>1, <1>2, SumsAdd
<1> QED BY <1>3, <1>4, <1>5, <1>6

-----------------------------------------------------------------------------
(* The ledger as a whole. *)

LedgerInv == IndInv /\ IsFiniteSet(Lines(journals)) /\ JournalsNetToZero

\* The lines of one journal.
LEMMA LinesOfOne ==
  ASSUME NEW p \in Postings
  PROVE  IsFiniteSet(Lines({p})) /\ Amounts(Lines({p}))
<1>1. Entries[p] \in Seq(Entry)
  BY WalletAssumption
<1>2. PICK n \in Nat : n = Len(Entries[p])
  <2> HIDE DEF Entry
  <2> QED BY <1>1
<1>3. DOMAIN Entries[p] = 1..n /\ \A i \in 1..n : Entries[p][i] \in Entry
  <2> HIDE DEF Entry
  <2> QED BY <1>1, <1>2
<1>4. Lines({p}) = {p} \X (1..n)
  BY <1>3 DEF Lines
<1>5. IsFiniteSet({p}) /\ IsFiniteSet(1..n)
  <2>1. IsFiniteSet({p})
    BY FS_Singleton
  <2>2. IsFiniteSet(1..n)
    <3>1. 1 \in Int /\ n \in Int
      BY <1>2
    <3> QED BY <3>1, FS_Interval
  <2> QED BY <2>1, <2>2
<1>6. IsFiniteSet(Lines({p}))
  <2> DEFINE S == {p}
             T == 1..n
  <2>1. IsFiniteSet(S \X T)
    <3>1. IsFiniteSet(S) /\ IsFiniteSet(T)
      BY <1>5
    <3> HIDE DEF S, T
    <3> QED BY <3>1, FS_Product
  <2> QED BY <1>4, <2>1
<1>7. ASSUME NEW x \in Lines({p}) PROVE Amount(x) \in Int
  <2>1. x[1] = p /\ x[2] \in 1..n
    BY <1>4, <1>7
  <2>2. Entries[p][x[2]] \in Entry
    BY <1>3, <2>1
  <2> QED BY <2>1, <2>2 DEF Amount, Entry, BigInt
<1> QED BY <1>6, <1>7 DEF Amounts

\* Every amount of the ledger is an integer.
LEMMA AmountsOfMany == ASSUME NEW js \in SUBSET Postings PROVE Amounts(Lines(js))
<1> SUFFICES ASSUME NEW p \in js, NEW i \in DOMAIN Entries[p] PROVE Amount(<<p, i>>) \in Int
  BY DEF Amounts, Lines
<1>1. <<p, i>> \in Lines({p})
  BY DEF Lines
<1> QED BY <1>1, LinesOfOne DEF Amounts

\* A balanced journal leaves the ledger balanced.
LEMMA BookKeepsBalance ==
  ASSUME NEW js \in SUBSET Postings, NEW p \in Postings, IsFiniteSet(Lines(js)), Total(Lines(js)) = 0,
         JournalBalanced(p)
  PROVE  IsFiniteSet(Lines(js \cup {p})) /\ Total(Lines(js \cup {p})) = 0
<1>1. CASE p \in js
  <2>1. js \cup {p} = js
    BY <1>1
  <2> QED BY <2>1
<1>2. CASE p \notin js
  <2>1. Lines(js \cup {p}) = Lines(js) \cup Lines({p})
    BY DEF Lines
  <2>2. Lines(js) \cap Lines({p}) = {}
    BY <1>2 DEF Lines
  <2>3. IsFiniteSet(Lines({p})) /\ Amounts(Lines(js) \cup Lines({p}))
    BY LinesOfOne, AmountsOfMany DEF Amounts
  <2>4. IsFiniteSet(Lines(js) \cup Lines({p}))
    BY <2>3, FS_Union
  <2>5. Total(Lines(js) \cup Lines({p})) = Total(Lines(js)) + Total(Lines({p}))
    BY <2>2, <2>3, TotalsAdd
  <2>6. Total(Lines(js) \cup Lines({p})) = 0
    <3>1. Total(Lines(js)) = 0 /\ Total(Lines({p})) = 0
      BY DEF JournalBalanced
    <3>2. 0 + 0 = 0
      OBVIOUS
    <3> QED BY ONLY <2>5, <3>1, <3>2
  <2> QED BY ONLY <2>1, <2>4, <2>6
<1> QED BY <1>1, <1>2

\* Only balanced journals are committed.
LEMMA LedgerInvNext == LedgerInv /\ [Next]_vars => LedgerInv'
<1> SUFFICES ASSUME LedgerInv, [Next]_vars PROVE LedgerInv'
  OBVIOUS
<1>1. IndInv'
  BY IndInvNext DEF LedgerInv
<1>2. CASE UNCHANGED journals
  BY <1>1, <1>2 DEF LedgerInv, JournalsNetToZero, Lines
<1>3. ASSUME NEW c \in Callers, Post(c) PROVE LedgerInv'
  <2>1. PICK p \in Postings : p = posting[c]
    BY <1>3 DEF Post, LedgerInv, IndInv, TypeOK
  <2>2. journals' = journals \cup {p} /\ JournalBalanced(p) /\ journals \in SUBSET Postings
    BY <1>3, <2>1 DEF Post, Book, BookAs, LedgerInv, IndInv, TypeOK
  <2>3. IsFiniteSet(Lines(journals \cup {p})) /\ Total(Lines(journals \cup {p})) = 0
    BY <2>2, BookKeepsBalance DEF LedgerInv, JournalsNetToZero
  <2>4. \A q \in journals \cup {p} : Total(Lines({q})) = 0
    BY <2>2 DEF LedgerInv, JournalsNetToZero, JournalBalanced
  <2>5. JournalsNetToZero' /\ IsFiniteSet(Lines(journals))'
    BY <2>2, <2>3, <2>4 DEF JournalsNetToZero
  <2> QED BY <1>1, <2>5 DEF LedgerInv
<1> QED BY <1>2, <1>3 DEF Next, PostInternal, Replay, Rollback, vars

\* Every journal nets to zero over the integers, and so does the ledger, whatever the
\* int64 sums of the service let through.
THEOREM LedgerNetsToZero == Spec => []JournalsNetToZero
<1>1. Init => LedgerInv
  <2> SUFFICES ASSUME Init PROVE LedgerInv
    OBVIOUS
  <2>1. journals = {} /\ Lines({}) = {}
    BY DEF Init, Lines
  <2>2. JournalsNetToZero
    BY <2>1 DEF JournalsNetToZero, Total
  <2>3. IsFiniteSet(Lines(journals))
    BY <2>1, FS_EmptySet
  <2> QED BY <2>2, <2>3, IndInvInit DEF LedgerInv
<1>2. LedgerInv => JournalsNetToZero
  BY DEF LedgerInv
<1> QED BY <1>1, <1>2, LedgerInvNext, PTL DEF Spec
=============================================================================
