----------------------------- MODULE MCItemCache -----------------------------
(* Small instances of ItemCache. *)
EXTENDS ItemCache, TLC

CONSTANTS k1, k2, l1, l2

\* Two keys on two stripes of the item locks.
TwoStripes == k1 :> l1 @@ k2 :> l2
=============================================================================
