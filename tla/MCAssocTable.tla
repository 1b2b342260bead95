----------------------------- MODULE MCAssocTable -----------------------------
(* Four buckets under two item locks, four keys in place and three that come *)
(* and go: with all three the table is too full and grows to eight buckets.  *)
EXTENDS AssocTable, TLC

CONSTANTS k1, k2, k3, k4, k5, k6, k7

\* Two active keys share a bucket of the small table and part in the large
\* one; both have a stripe that differs from the third's.
Hashes == k1 :> 1 @@ k2 :> 5 @@ k3 :> 2 @@ k4 :> 0 @@ k5 :> 3 @@ k6 :> 6 @@ k7 :> 7

WorkerSymmetry == Permutations(Workers)
=============================================================================
