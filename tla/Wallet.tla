------------------------------- MODULE Wallet -------------------------------
(***************************************************************************)
(* The vendors' wallet ledger (internal/modules/wallet, migration 000036): *)
(* idempotent double-entry journals and the balance snapshots kept beside  *)
(* them.  Concurrent callers post under SERIALIZABLE isolation: a          *)
(* transaction reads the database as of its first statement, and one that  *)
(* writes a row another transaction wrote since then is rolled back.       *)
(* Sums are exact in SQL (SUM of BIGINT is NUMERIC) and wrap in Go (int64).*)
(***************************************************************************)
EXTENDS Integers, Sequences, FiniteSetsExt, Functions

CONSTANTS
  Postings,   \* the commands callers may issue
  Key,        \* [Postings -> STRING], idempotency key
  Source,     \* [Postings -> ...], source type and reference
  Entries,    \* [Postings -> Seq(Entry)]
  Accounts,   \* vendor wallet accounts
  VendorOf,   \* [Accounts -> vendors], who owns an account
  Platform,   \* stands for no account and no vendor
  None,       \* no posting
  Callers,    \* concurrent calls of PostInternal (bound)
  MaxMinor    \* largest amount (bound: 2^63 - 1 in the code)

VendorLedger == {"VENDOR_AVAILABLE", "VENDOR_PENDING", "VENDOR_HELD"}
PlatformLedger == {"PLATFORM_CLEARING", "PLATFORM_TRANSACTION_CHARGE", "PLATFORM_EXPENSE"}

BigInt == -(MaxMinor + 1) .. MaxMinor

Entry == [account : Accounts \cup {Platform}, vendor : Range(VendorOf) \cup {Platform},
          ledger : VendorLedger \cup PlatformLedger, amount : BigInt]

ASSUME WalletAssumption ==
  /\ MaxMinor \in Nat
  /\ Platform \notin Accounts
  /\ None \notin Postings
  /\ Entries \in [Postings -> Seq(Entry)]

VARIABLES
  journals,   \* SUBSET Postings, the committed journals with their entries
  snapshot,   \* [Accounts -> [VendorLedger -> BigInt]], 0 before the first row
  posting,    \* [Callers -> Postings or None], what its open transaction posts
  seen,       \* [Callers -> SUBSET Postings], the journals it can read
  told        \* history: SUBSET Postings, those a caller was told are booked

vars == <<journals, snapshot, posting, seen, told>>

Init ==
  /\ journals = {}
  /\ snapshot = [a \in Accounts |-> [l \in VendorLedger |-> 0]]
  /\ posting = [c \in Callers |-> None]
  /\ seen = [c \in Callers |-> {}]
  /\ told = {}

-----------------------------------------------------------------------------
(* Sums.  A line is one entry of one journal. *)

Lines(js) == UNION {{p} \X DOMAIN Entries[p] : p \in js}
Amount(line) == Entries[line[1]][line[2]].amount

LinesOf(js, a, l) ==
  {line \in Lines(js) : /\ Entries[line[1]][line[2]].account = a
                        /\ Entries[line[1]][line[2]].ledger = l}

\* COALESCE(SUM(amount_minor), 0)
Total(lines) == IF lines = {} THEN 0 ELSE MapThenSumSet(Amount, lines)

\* int64 addition, which overflows silently.
Wrap(n) == ((n + MaxMinor + 1) % (2 * (MaxMinor + 1))) - (MaxMinor + 1)

Touches(p) == {e.account : e \in Range(Entries[p])} \ {Platform}

-----------------------------------------------------------------------------

\* validatePosting: the Go sum is compared with zero.
validatePosting(p) ==
  /\ Len(Entries[p]) \in 2..20
  /\ \A e \in Range(Entries[p]) :
       /\ e.amount # 0
       /\ e.ledger \in VendorLedger <=> e.account # Platform
       /\ e.ledger \in VendorLedger <=> e.vendor # Platform
  /\ Wrap(Total(Lines({p}))) = 0

\* PostInternal, up to the first statement of Post.
PostInternal(c, p) ==
  /\ posting[c] = None
  /\ validatePosting(p)
  /\ posting' = [posting EXCEPT ![c] = p]
  /\ seen' = [seen EXCEPT ![c] = journals]
  /\ UNCHANGED <<journals, snapshot, told>>

Close(c) ==
  /\ posting' = [posting EXCEPT ![c] = None]
  /\ seen' = [seen EXCEPT ![c] = {}]

SameKey(p, js) == {q \in js : Key[q] = Key[p]}

BugReplayIgnoresSource(c) ==
  /\ posting[c] # None
  /\ SameKey(posting[c], seen[c]) # {}
  /\ told' = told \cup {posting[c]}
  /\ Close(c)
  /\ UNCHANGED <<journals, snapshot>>

\* ON CONFLICT DO NOTHING returned no row: the key is booked already, for this
\* source or, which is an error, for another.
Replay(c) ==
  /\ posting[c] # None
  /\ \E q \in SameKey(posting[c], seen[c]) :
       told' = IF Source[q] = Source[posting[c]] THEN told \cup {posting[c]} ELSE told
  /\ Close(c)
  /\ UNCHANGED <<journals, snapshot>>

\* Every vendor entry names an account of the vendor it names.
OwnsAccounts(p) ==
  \A e \in Range(Entries[p]) : e.account # Platform => VendorOf[e.account] = e.vendor

\* The deferred constraint trigger sums a journal's entries at commit.
JournalBalanced(p) == Total(Lines({p})) = 0

\* refreshBalanceSnapshot sums all the entries the transaction can read.
Refreshed(a, js) == [l \in VendorLedger |-> Total(LinesOf(js, a, l))]

\* A sum that does not fit is an error of the scan into int64.
Fits(p, js) == \A a \in Touches(p), l \in VendorLedger : Refreshed(a, js)[l] \in BigInt

\* First updater wins: no journal of the same key and no snapshot row of the same
\* account was committed by a transaction this one cannot see.
Unopposed(c) ==
  \A q \in journals \ seen[c] :
    Key[q] # Key[posting[c]] /\ Touches(q) \cap Touches(posting[c]) = {}

BookAs(c, p, js) ==
  /\ journals' = journals \cup {p}
  /\ snapshot' = [a \in Accounts |-> IF a \in Touches(p) THEN Refreshed(a, js) ELSE snapshot[a]]
  /\ told' = told \cup {p}
  /\ Close(c)

Book(c) == BookAs(c, posting[c], seen[c] \cup {posting[c]})

BugPostReadCommitted(c) ==
  LET p == posting[c] IN
  /\ posting[c] # None
  /\ SameKey(p, journals) = {} /\ OwnsAccounts(p) /\ JournalBalanced(p)
  /\ Fits(p, seen[c] \cup {p})
  /\ Book(c)

BugPostWithoutUniqueKey(c) ==
  LET p == posting[c] IN
  /\ posting[c] # None
  /\ SameKey(p, seen[c]) = {} /\ OwnsAccounts(p) /\ JournalBalanced(p)
  /\ Fits(p, journals \cup {p})
  /\ BookAs(c, p, journals \cup {p})

BugPostWithoutTrigger(c) ==
  LET p == posting[c] IN
  /\ posting[c] # None
  /\ SameKey(p, seen[c]) = {} /\ OwnsAccounts(p)
  /\ Fits(p, seen[c] \cup {p})
  /\ Unopposed(c)
  /\ Book(c)

BugPostUncheckedSums(c) ==
  LET p == posting[c] IN
  /\ posting[c] # None
  /\ SameKey(p, seen[c]) = {} /\ OwnsAccounts(p) /\ JournalBalanced(p)
  /\ Unopposed(c)
  /\ Book(c)

\* Post: journal, entries, snapshots and COMMIT.
Post(c) ==
  LET p == posting[c] IN
  /\ posting[c] # None
  /\ SameKey(p, seen[c]) = {} /\ OwnsAccounts(p) /\ JournalBalanced(p)
  /\ Fits(p, seen[c] \cup {p})
  /\ Unopposed(c)
  /\ Book(c)

\* Any statement or the COMMIT fails, or the caller goes away.
Rollback(c) ==
  /\ posting[c] # None
  /\ Close(c)
  /\ UNCHANGED <<journals, snapshot, told>>

Next ==
  \E c \in Callers :
    \/ \E p \in Postings : PostInternal(c, p)
    \/ Replay(c)
    \/ Post(c)
    \/ Rollback(c)

Spec == Init /\ [][Next]_vars

-----------------------------------------------------------------------------

\* Shape of the state: balances fit the BIGINT columns they are stored in.
TypeOK ==
  /\ journals \in SUBSET Postings
  /\ snapshot \in [Accounts -> [VendorLedger -> BigInt]]
  /\ posting \in [Callers -> Postings \cup {None}]
  /\ seen \in [Callers -> SUBSET Postings]
  /\ told \in SUBSET Postings

\* A vendor's stored balance is the sum of the ledger, also when postings to
\* the same account overlap: no update of a snapshot is lost.
SnapshotsMatchLedger ==
  \A a \in Accounts, l \in VendorLedger : snapshot[a][l] = Total(LinesOf(journals, a, l))

\* Every journal nets to zero over the integers, and so does the ledger, although
\* the service sums in int64 and lets some unbalanced postings through.
JournalsNetToZero ==
  /\ \A p \in journals : Total(Lines({p})) = 0
  /\ Total(Lines(journals)) = 0

\* An idempotency key is booked at most once, however many callers post it at once.
KeysAreUnique == \A p, q \in journals : Key[p] = Key[q] => p = q

\* A caller told that its posting is booked, as new or as a duplicate, finds a
\* journal of its key and source.
ToldIsBooked ==
  \A p \in told : \E q \in journals : Key[q] = Key[p] /\ Source[q] = Source[p]
=============================================================================
