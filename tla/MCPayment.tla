----------------------------- MODULE MCPayment -----------------------------
(* Two requests of one key, and a third without: the adapter drew the same   *)
(* reference each time.                                                      *)
EXTENDS Payment, TLC

CONSTANTS p1, p2, p3, c1, c2, k1

MCProvider == (p1 :> "MTN_MOMO") @@ (p2 :> "MTN_MOMO") @@ (p3 :> "MTN_MOMO")
MCKey == (p1 :> k1) @@ (p2 :> k1) @@ (p3 :> None)
MCRef == (p1 :> 1) @@ (p2 :> 1) @@ (p3 :> 1)
MCSymmetry == Permutations({c1, c2}) \cup Permutations({p1, p2})

\* One Airtel payment, for the runs that look for a race on a single row.
OneProvider == p1 :> "AIRTEL_MONEY"
OneKey == p1 :> k1
OneRef == p1 :> 1
=============================================================================
