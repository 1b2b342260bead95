----------------------------- MODULE MCGraphRead -----------------------------
(* Small instances of GraphRead: three segments of one application thread, or *)
(* one segment of each of two; one stripe of item locks over one bucket, so   *)
(* that the keys collide.                                                     *)
EXTENDS GraphRead, TLC

CONSTANTS c1, c2, c3, k1, k2, only

ThreadPerClient == [c \in {c1, c2} |-> c]
OnlyThreads == {ThreadPerClient}
OneOrTwoThreads == {[c \in {c1, c2, c3} |-> only], ThreadPerClient}

TheReads == [t \in {c1, c2, only} |-> IF t = only THEN Keys ELSE {k1, k2}]

OneBucket == [k \in Keys |-> CHOOSE b \in Buckets : TRUE]
OneStripe == [k \in Keys |-> CHOOSE l \in Locks : TRUE]

\* The threads, and with them the clients, are told apart.
Symmetry == Permutations(Chunks) \cup Permutations({k1, k2})
=============================================================================
