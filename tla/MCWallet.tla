------------------------------ MODULE MCWallet ------------------------------
(* Two vendors, four-bit amounts and two concurrent callers. *)
EXTENDS Wallet, TLC

CONSTANTS a1, a2, v1, v2, c1, c2

MCVendorOf == (a1 :> v1) @@ (a2 :> v2)

Vendor(a, l, n) == [account |-> a, vendor |-> MCVendorOf[a], ledger |-> l, amount |-> n]
Ours(l, n) == [account |-> Platform, vendor |-> Platform, ledger |-> l, amount |-> n]

\* sale and again are one sale posted twice; stolen reuses its key for another
\* source; hold and refund move its vendor's balance; large overflows it; wrong
\* sums to sixteen, which is zero in four bits; foreign names another's account.
MCEntries ==
  LET clearing == "PLATFORM_CLEARING" available == "VENDOR_AVAILABLE" held == "VENDOR_HELD" IN
  ("sale" :> <<Vendor(a1, available, 5), Ours(clearing, -5)>>) @@
  ("again" :> <<Vendor(a1, available, 5), Ours(clearing, -5)>>) @@
  ("stolen" :> <<Vendor(a2, available, 2), Ours(clearing, -2)>>) @@
  ("hold" :> <<Vendor(a1, available, -3), Vendor(a1, held, 3)>>) @@
  ("large" :> <<Vendor(a1, available, 4), Vendor(a2, "VENDOR_PENDING", 2),
                Ours("PLATFORM_EXPENSE", -6)>>) @@
  ("wrong" :> <<Vendor(a2, available, 7), Ours(clearing, 7), Ours("PLATFORM_TRANSACTION_CHARGE", 2)>>) @@
  ("foreign" :> <<[Vendor(a1, held, 1) EXCEPT !.vendor = v2], Ours(clearing, -1)>>)

MCPostings == DOMAIN MCEntries
MCKey == [p \in MCPostings |-> IF p \in {"again", "stolen"} THEN "sale" ELSE p]
MCSource == [p \in MCPostings |-> IF p = "again" THEN "sale" ELSE p]
MCSymmetry == Permutations({c1, c2})
=============================================================================
