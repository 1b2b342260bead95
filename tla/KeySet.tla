------------------------------- MODULE KeySet -------------------------------
(***************************************************************************)
(* What the hash table promises its users: a set of keys, in which each    *)
(* operation takes effect at once.  That the table grows does not show.    *)
(***************************************************************************)
CONSTANTS Keys, Workers

VARIABLES
    present,   \* the keys in the table
    answer     \* what the last operation of each worker found

vars == <<present, answer>>

Init == present \subseteq Keys /\ answer = [w \in Workers |-> FALSE]

Find(w, k) ==
    /\ answer' = [answer EXCEPT ![w] = k \in present]
    /\ UNCHANGED present

Insert(w, k) ==
    /\ answer' = [answer EXCEPT ![w] = k \in present]
    /\ present' = present \cup {k}

Delete(w, k) ==
    /\ answer' = [answer EXCEPT ![w] = k \in present]
    /\ present' = present \ {k}

Next == \E w \in Workers, k \in Keys : Find(w, k) \/ Insert(w, k) \/ Delete(w, k)

Spec == Init /\ [][Next]_vars
=============================================================================
