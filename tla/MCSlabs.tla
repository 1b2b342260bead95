------------------------------- MODULE MCSlabs -------------------------------
(* Two classes, of two chunks and of one chunk per page. *)
EXTENDS Slabs, TLC

TwoAndOne == 1 :> 2 @@ 2 :> 1
OneStripe == [k \in Keys |-> CHOOSE l \in Locks : TRUE]

Symmetry == Permutations(Users) \cup Permutations(Keys) \cup Permutations(Pages)
=============================================================================
