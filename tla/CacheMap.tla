------------------------------- MODULE CacheMap -------------------------------
(***************************************************************************)
(* What the item layer promises its clients: a map from keys to items that *)
(* may forget any key at any time, in which a set is atomic, and whose     *)
(* items are the caller's for as long as it holds them.                    *)
(***************************************************************************)
CONSTANTS Clients, Chunks, Keys, None

VARIABLES map,      \* the item a lookup of a key returns, None if none
          held      \* the item each client holds, None if none

vars == <<map, held>>

Init ==
    /\ map = [k \in Keys |-> None]
    /\ held = [c \in Clients |-> None]

Lookup(c, k) ==
    /\ held[c] = None
    /\ map[k] # None
    /\ held' = [held EXCEPT ![c] = map[k]]
    /\ UNCHANGED map

\* A new item is nobody else's: neither held nor stored.
Create(c, i) ==
    /\ held[c] = None
    /\ \A d \in Clients : held[d] # i
    /\ \A k \in Keys : map[k] # i
    /\ held' = [held EXCEPT ![c] = i]
    /\ UNCHANGED map

\* Storing replaces what was there in one step.
Store(c, k) ==
    /\ held[c] # None
    /\ map' = [map EXCEPT ![k] = held[c]]
    /\ UNCHANGED held

\* Deletion or eviction; holders keep the item.
Drop(k) ==
    /\ map[k] # None
    /\ map' = [map EXCEPT ![k] = None]
    /\ UNCHANGED held

Release(c) ==
    /\ held[c] # None
    /\ held' = [held EXCEPT ![c] = None]
    /\ UNCHANGED map

Next ==
    \/ \E c \in Clients, k \in Keys : Lookup(c, k) \/ Store(c, k)
    \/ \E c \in Clients, i \in Chunks : Create(c, i)
    \/ \E k \in Keys : Drop(k)
    \/ \E c \in Clients : Release(c)

Spec == Init /\ [][Next]_vars
=============================================================================
