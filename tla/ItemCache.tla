------------------------------ MODULE ItemCache ------------------------------
(***************************************************************************)
(* The item layer of the embedded memcached (items.c, thread.c, and the    *)
(* parts of assoc.c and slabs.c they call), in the configuration           *)
(* GraphCached runs it in: one slab class, flat LRU (lru_segmented off),   *)
(* eviction on, a clock that never advances, so no item expires and every  *)
(* hit moves the item to the head of its LRU list.                         *)
(*                                                                         *)
(* Clients use the library's locked operations: item_get, item_alloc,      *)
(* store_item (set, add, replace), item_unlink and item_remove.  A client  *)
(* is one outstanding reference: a thread that keeps several items at once *)
(* is several clients.  An action is what a thread does between two points *)
(* at which it may wait for, or give way to, another one: the item locks   *)
(* (striped by hash), the LRU lock.  The slabs lock is a leaf: what is     *)
(* done under it is part of the action.                                    *)
(***************************************************************************)
EXTENDS Integers, Sequences, FiniteSets

CONSTANTS
    Clients,        \* outstanding references, see above
    Chunks,         \* the item-sized chunks the memory limit allows
    Keys,
    Locks,          \* stripes of item_locks
    LockOf,         \* the stripe of a key: hv & hashmask(item_lock_hashpower)
    None,           \* NULL
    PullTries,      \* tail items lru_pull_tail looks at (5 in the code)
    AllocTries      \* rounds of do_item_alloc_pull (10 in the code)

ASSUME LockOfAssumption == LockOf \in [Keys -> Locks]
ASSUME NoneAssumption == None \notin Clients \cup Chunks \cup Keys \cup Locks
ASSUME TriesAssumption == PullTries \in Nat \ {0} /\ AllocTries \in Nat \ {0}
ASSUME FiniteAssumption == IsFiniteSet(Clients)

VARIABLES
    free,       \* chunks on the slab class's free list (ITEM_SLABBED)
    linked,     \* chunks whose ITEM_LINKED flag is set
    table,      \* chunks reachable in the hash table
    lru,        \* the LRU list, head first
    refcount,
    key,        \* the key stored in a chunk; it survives item_free
    item_lock,  \* the owner of each stripe
    lru_lock,   \* the owner of the class's LRU lock
    pc,
    want,       \* the key of the client's operation
    mine,       \* the item the client holds a reference to
    cur,        \* the second reference: old_it of a store, search of a pull
    pos,        \* where lru_pull_tail is in its walk
    round       \* i of do_item_alloc_pull

store == <<free, linked, table, lru, refcount, key>>
locks == <<item_lock, lru_lock>>
local == <<want, mine, cur, pos, round>>
vars == <<store, locks, pc, local>>

AtRest == {"idle", "hold", "filled"}
Steps == AtRest \cup
    {"bump_unlink", "bump_link", "reclaim", "reclaim_walk", "reclaim_done", "alloc",
     "evict", "evict_walk", "evict_done", "unlink_old", "link", "store_done", "unlinking"}

Ran(s) == {s[p] : p \in 1 .. Len(s)}

-----------------------------------------------------------------------------
(* Helpers: the effects of the functions the operations call.              *)

\* assoc_find: the chunks of the table that carry this key.
assoc_find(k) == {i \in table : key[i] = k}

\* do_item_link_q: the item becomes the head.
do_item_link_q(i) == <<i>> \o lru

\* do_item_unlink_q.
do_item_unlink_q(i) ==
    LET p == CHOOSE q \in 1 .. Len(lru) : lru[q] = i
    IN  [q \in 1 .. Len(lru) - 1 |-> IF q < p THEN lru[q] ELSE lru[q + 1]]

Lock(c, k) == item_lock[LockOf[k]] = None /\ item_lock' = [item_lock EXCEPT ![LockOf[k]] = c]
Unlock(c, k) == item_lock' = [item_lock EXCEPT ![LockOf[k]] = None]
Free(k) == item_lock[LockOf[k]] = None

\* Mutant: the item is freed one reference too early.
do_item_remove_early(i) ==
    /\ refcount' = [refcount EXCEPT ![i] = @ - 1]
    /\ free' = IF refcount[i] <= 2 THEN free \cup {i} ELSE free

\* do_item_remove, and item_free with do_slabs_free when it was the last one.
do_item_remove(i) ==
    /\ refcount' = [refcount EXCEPT ![i] = @ - 1]
    /\ free' = IF refcount[i] = 1 THEN free \cup {i} ELSE free

Goto(c, l) == pc' = [pc EXCEPT ![c] = l]

\* The operation is over and its locals are gone.
Return(c) ==
    /\ Goto(c, "idle")
    /\ want' = [want EXCEPT ![c] = None]
    /\ round' = [round EXCEPT ![c] = 0]
-----------------------------------------------------------------------------
Init ==
    /\ free = Chunks /\ linked = {} /\ table = {} /\ lru = <<>>
    /\ refcount = [i \in Chunks |-> 0]
    /\ key = [i \in Chunks |-> None]
    /\ item_lock = [l \in Locks |-> None]
    /\ lru_lock = None
    /\ pc = [c \in Clients |-> "idle"]
    /\ want = [c \in Clients |-> None]
    /\ mine = [c \in Clients |-> None]
    /\ cur = [c \in Clients |-> None]
    /\ pos = [c \in Clients |-> 0]
    /\ round = [c \in Clients |-> 0]

-----------------------------------------------------------------------------
(* item_get: lock, do_item_get, unlock.  A miss changes nothing.           *)

\* assoc_find and refcount_incr under the item lock.
Get(c, k) ==
    /\ pc[c] = "idle"
    /\ Lock(c, k)
    /\ \E i \in assoc_find(k) :
          /\ refcount' = [refcount EXCEPT ![i] = @ + 1]
          /\ mine' = [mine EXCEPT ![c] = i]
    /\ want' = [want EXCEPT ![c] = k]
    /\ Goto(c, "bump_unlink")
    /\ UNCHANGED <<free, linked, table, lru, key, lru_lock, cur, pos, round>>

\* do_item_update relinks at the head in two LRU-locked sections; between
\* them the item is linked but in no list.  It runs for the item item_get
\* found and for the old item of an add.
Bumped(c) == IF cur[c] # None THEN cur[c] ELSE mine[c]

BumpUnlink(c) ==
    /\ pc[c] = "bump_unlink"
    /\ lru_lock = None
    /\ lru' = do_item_unlink_q(Bumped(c))
    /\ Goto(c, "bump_link")
    /\ UNCHANGED <<free, linked, table, refcount, key, locks, local>>

BumpLink(c) ==
    /\ pc[c] = "bump_link"
    /\ lru_lock = None
    /\ lru' = do_item_link_q(Bumped(c))
    /\ IF cur[c] # None
       THEN Goto(c, "store_done") /\ UNCHANGED item_lock
       ELSE Goto(c, "hold") /\ Unlock(c, want[c])
    /\ UNCHANGED <<free, linked, table, refcount, key, lru_lock, local>>

-----------------------------------------------------------------------------
(* item_alloc: no lock is held by the caller.  Up to AllocTries rounds of  *)
(* lru_pull_tail without eviction, slabs_alloc, lru_pull_tail with it.     *)

Alloc(c, k) ==
    /\ pc[c] = "idle"
    /\ want' = [want EXCEPT ![c] = k]
    /\ Goto(c, "reclaim")
    /\ UNCHANGED <<store, locks, mine, cur, pos, round>>

\* lru_pull_tail takes the LRU lock and starts at the tail.
PullBegin(c) ==
    /\ pc[c] \in {"reclaim", "evict"}
    /\ lru_lock = None
    /\ lru_lock' = c
    /\ pos' = [pos EXCEPT ![c] = Len(lru)]
    /\ Goto(c, IF pc[c] = "evict" THEN "evict_walk" ELSE "reclaim_walk")
    /\ UNCHANGED <<store, item_lock, want, mine, cur, round>>

Walking(c) == pc[c] \in {"reclaim_walk", "evict_walk"}
InReach(c) == pos[c] >= 1 /\ pos[c] > Len(lru) - PullTries
Search(c) == lru[pos[c]]

\* item_trylock fails: look at the next one.
PullSkip(c) ==
    /\ Walking(c) /\ InReach(c)
    /\ ~Free(key[Search(c)])
    /\ pos' = [pos EXCEPT ![c] = @ - 1]
    /\ UNCHANGED <<store, locks, pc, want, mine, cur, round>>

\* Mutant: the walk does not take its own reference before it unlinks.
EvictUnreferenced(i) ==
    /\ linked' = linked \ {i}
    /\ table' = table \ {i}
    /\ lru' = do_item_unlink_q(i)
    /\ refcount' = [refcount EXCEPT ![i] = @ - 1]

\* do_item_unlink_nolock on the item found, which has just got a reference
\* from refcount_incr and loses the one of its link.  assoc_delete removes by
\* key, so it takes out the first chunk that carries it.
Evict(i) ==
    IF i \in linked
    THEN /\ linked' = linked \ {i}
         /\ \E j \in assoc_find(key[i]) : table' = table \ {j}
         /\ lru' = do_item_unlink_q(i)
         /\ UNCHANGED refcount
    ELSE /\ refcount' = [refcount EXCEPT ![i] = @ + 1]
         /\ UNCHANGED <<linked, table, lru>>

\* item_trylock succeeds: reference the item, evict it if that is the job,
\* give up the LRU lock and keep the item lock.  An item that others hold is
\* unlinked all the same; its memory is not available yet.
PullTake(c) ==
    /\ Walking(c) /\ InReach(c)
    /\ LET i == Search(c)
       IN  /\ Lock(c, key[i])
           /\ cur' = [cur EXCEPT ![c] = i]
           /\ IF pc[c] = "evict_walk"
              THEN Evict(i) /\ Goto(c, "evict_done")
              ELSE /\ refcount' = [refcount EXCEPT ![i] = @ + 1]
                   /\ Goto(c, "reclaim_done")
                   /\ UNCHANGED <<linked, table, lru>>
    /\ lru_lock' = None
    /\ pos' = [pos EXCEPT ![c] = 0]
    /\ UNCHANGED <<free, key, want, mine, round>>

\* Nothing in reach could be locked: the eviction gives up, and with it the
\* allocation (NULL); the first pull of a round is only an attempt.
PullFail(c) ==
    /\ Walking(c) /\ ~InReach(c)
    /\ lru_lock' = None
    /\ pos' = [pos EXCEPT ![c] = 0]
    /\ IF pc[c] = "evict_walk" THEN Return(c) ELSE Goto(c, "alloc") /\ UNCHANGED <<want, round>>
    /\ UNCHANGED <<store, item_lock, mine, cur>>

\* Mutant: the rounds are not counted.
NextRoundForever(c) == Goto(c, "reclaim") /\ UNCHANGED <<round, want>>

NextRound(c) ==
    IF round[c] + 1 < AllocTries
    THEN Goto(c, "reclaim") /\ round' = [round EXCEPT ![c] = @ + 1] /\ UNCHANGED want
    ELSE Return(c)

\* The end of lru_pull_tail: drop the reference, then the item lock.
PullDone(c) ==
    /\ pc[c] \in {"reclaim_done", "evict_done"}
    /\ do_item_remove(cur[c])
    /\ Unlock(c, key[cur[c]])
    /\ cur' = [cur EXCEPT ![c] = None]
    /\ IF pc[c] = "reclaim_done"
       THEN Goto(c, "alloc") /\ UNCHANGED <<want, round>>
       ELSE NextRound(c)
    /\ UNCHANGED <<linked, table, lru, key, lru_lock, mine, pos>>

\* slabs_alloc pops the free list and seeds the reference count with 1, the
\* rest of do_item_alloc fills in the header.
SlabsAlloc(c) ==
    /\ pc[c] = "alloc"
    /\ \E i \in free :
          /\ free' = free \ {i}
          /\ refcount' = [refcount EXCEPT ![i] = 1]
          /\ key' = [key EXCEPT ![i] = want[c]]
          /\ mine' = [mine EXCEPT ![c] = i]
    /\ round' = [round EXCEPT ![c] = 0]
    /\ Goto(c, "filled")
    /\ UNCHANGED <<linked, table, lru, locks, want, cur, pos>>

SlabsEmpty(c) ==
    /\ pc[c] = "alloc"
    /\ free = {}
    /\ Goto(c, "evict")
    /\ UNCHANGED <<store, locks, local>>

-----------------------------------------------------------------------------
(* store_item: lock, do_store_item, unlock.                                *)

\* Mutant: link without looking the key up first.
StoreBlind(c) ==
    /\ pc[c] = "filled"
    /\ Lock(c, want[c])
    /\ Goto(c, "link")
    /\ UNCHANGED <<store, lru_lock, local>>

\* Nothing stored under the key: set and add link the new item.
StoreFresh(c) ==
    /\ pc[c] = "filled"
    /\ assoc_find(want[c]) = {}
    /\ Lock(c, want[c])
    /\ Goto(c, "link")
    /\ UNCHANGED <<store, lru_lock, local>>

\* ... and replace does not.
StoreRefused(c) ==
    /\ pc[c] = "filled"
    /\ assoc_find(want[c]) = {}
    /\ Free(want[c])
    /\ Goto(c, "hold")
    /\ UNCHANGED <<store, locks, local>>

\* do_item_get found an item: set and replace exchange it for the new one,
\* add leaves it in place and moves it to the head of the LRU.
StoreOver(c, comm) ==
    /\ pc[c] = "filled"
    /\ Lock(c, want[c])
    /\ \E i \in assoc_find(want[c]) :
          /\ refcount' = [refcount EXCEPT ![i] = @ + 1]
          /\ cur' = [cur EXCEPT ![c] = i]
    /\ Goto(c, IF comm = "add" THEN "bump_unlink" ELSE "unlink_old")
    /\ UNCHANGED <<free, linked, table, lru, key, lru_lock, want, mine, pos, round>>

\* do_item_unlink: flag, assoc_delete, item_unlink_q, do_item_remove.
Unlink(i) ==
    IF i \in linked
    THEN /\ linked' = linked \ {i}
         /\ \E j \in assoc_find(key[i]) : table' = table \ {j}
         /\ lru' = do_item_unlink_q(i)
         /\ do_item_remove(i)
    ELSE UNCHANGED <<linked, table, lru, refcount, free>>

\* do_item_replace, first half.
UnlinkOld(c) ==
    /\ pc[c] = "unlink_old"
    /\ lru_lock = None
    /\ Unlink(cur[c])
    /\ Goto(c, "link")
    /\ UNCHANGED <<key, locks, local>>

\* do_item_link: flag, assoc_insert, item_link_q, refcount_incr.
Link(c) ==
    /\ pc[c] = "link"
    /\ lru_lock = None
    /\ linked' = linked \cup {mine[c]}
    /\ table' = table \cup {mine[c]}
    /\ lru' = do_item_link_q(mine[c])
    /\ refcount' = [refcount EXCEPT ![mine[c]] = @ + 1]
    /\ Goto(c, "store_done")
    /\ UNCHANGED <<free, key, locks, local>>

\* Mutant: the reference to the old item is not released.
StoreDoneLeaks(c) ==
    /\ pc[c] = "store_done"
    /\ cur' = [cur EXCEPT ![c] = None]
    /\ Unlock(c, want[c])
    /\ Goto(c, "hold")
    /\ UNCHANGED <<free, linked, table, lru, refcount, key, lru_lock, want, mine, pos, round>>

\* The end of do_store_item releases the reference to the old item.
StoreDone(c) ==
    /\ pc[c] = "store_done"
    /\ IF cur[c] # None THEN do_item_remove(cur[c]) ELSE UNCHANGED <<refcount, free>>
    /\ cur' = [cur EXCEPT ![c] = None]
    /\ Unlock(c, want[c])
    /\ Goto(c, "hold")
    /\ UNCHANGED <<linked, table, lru, key, lru_lock, want, mine, pos, round>>

-----------------------------------------------------------------------------
(* item_unlink of a held item (a delete), and item_remove.                 *)

UnlinkLock(c) ==
    /\ pc[c] = "hold"
    /\ Lock(c, key[mine[c]])
    /\ Goto(c, "unlinking")
    /\ UNCHANGED <<store, lru_lock, local>>

UnlinkHeld(c) ==
    /\ pc[c] = "unlinking"
    /\ lru_lock = None
    /\ Unlink(mine[c])
    /\ Unlock(c, key[mine[c]])
    /\ Goto(c, "hold")
    /\ UNCHANGED <<key, lru_lock, local>>

Release(c) ==
    /\ pc[c] \in {"hold", "filled"}
    /\ Free(key[mine[c]])
    /\ do_item_remove(mine[c])
    /\ mine' = [mine EXCEPT ![c] = None]
    /\ Return(c)
    /\ UNCHANGED <<linked, table, lru, key, locks, cur, pos>>

-----------------------------------------------------------------------------
\* The steps of an operation in progress.
Continue(c) ==
    \/ BumpUnlink(c) \/ BumpLink(c)
    \/ PullBegin(c) \/ PullSkip(c) \/ PullTake(c) \/ PullFail(c) \/ PullDone(c)
    \/ SlabsAlloc(c) \/ SlabsEmpty(c)
    \/ UnlinkOld(c) \/ Link(c) \/ StoreDone(c)
    \/ UnlinkHeld(c)

Begin(c) ==
    \/ \E k \in Keys : Get(c, k) \/ Alloc(c, k)
    \/ StoreFresh(c) \/ StoreRefused(c)
    \/ \E comm \in {"set", "add"} : StoreOver(c, comm)
    \/ UnlinkLock(c)
    \/ Release(c)

Next == \E c \in Clients : Begin(c) \/ Continue(c)

Spec == Init /\ [][Next]_vars

\* Threads keep running, and a thread that waits for a mutex which is
\* released again and again gets it in the end.
Fairness == \A c \in Clients : SF_vars(Continue(c))
FairSpec == Spec /\ Fairness
-----------------------------------------------------------------------------
\* The sets the values stay in; an allocation never starts more rounds than
\* do_item_alloc_pull allows.
TypeOK ==
    /\ free \subseteq Chunks /\ linked \subseteq Chunks /\ table \subseteq Chunks
    /\ lru \in Seq(Chunks)
    /\ refcount \in [Chunks -> Nat]
    /\ key \in [Chunks -> Keys \cup {None}]
    /\ item_lock \in [Locks -> Clients \cup {None}]
    /\ lru_lock \in Clients \cup {None}
    /\ pc \in [Clients -> Steps]
    /\ want \in [Clients -> Keys \cup {None}]
    /\ mine \in [Clients -> Chunks \cup {None}]
    /\ cur \in [Clients -> Chunks \cup {None}]
    /\ pos \in [Clients -> Nat]
    /\ round \in [Clients -> 0 .. AllocTries - 1]

\* An item is the caller's from item_get or item_alloc to item_remove: it is
\* not given back to the slab allocator, and it is not recycled for another
\* key, although it may be evicted, deleted or replaced meanwhile.
HeldIsAlive ==
    \A c \in Clients :
        /\ mine[c] # None => mine[c] \notin free /\ key[mine[c]] = want[c]
        /\ cur[c] # None => cur[c] \notin free

\* The references to an item: by clients, and by being linked.
Holders(i) == {c \in Clients : mine[c] = i}
Users(i) == {c \in Clients : cur[c] = i}

\* The counter maintained by refcount_incr and refcount_decr counts exactly
\* the references there are, so an item is freed when the last one goes and
\* no reference is leaked: whatever is not on the free list is in use.
RefcountExact ==
    \A i \in Chunks :
        /\ refcount[i] = Cardinality(Holders(i)) + Cardinality(Users(i))
                          + (IF i \in linked THEN 1 ELSE 0)
        /\ i \in free <=> refcount[i] = 0

\* "The key must not already exist to call this" (assoc_insert): the table
\* never holds two items with one key, and holds exactly the linked ones, so
\* assoc_delete by key removes the item it is meant to.
UniqueKeys ==
    /\ table = linked
    /\ \A i, j \in table : key[i] = key[j] => i = j

\* The client that is moving an item to the head of the LRU.
Moving(i) == \E c \in Clients : pc[c] = "bump_link" /\ Bumped(c) = i

\* The LRU list holds every linked item once, except while it is on its way
\* to the head, and nothing else: lru_pull_tail never meets a freed item.
LruMatchesLinks ==
    /\ \A p, q \in 1 .. Len(lru) : lru[p] = lru[q] => p = q
    /\ \A i \in Chunks : i \in Ran(lru) <=> i \in linked /\ ~Moving(i)

\* Hash table, LRU list and item flags tell the same story at every step: an
\* evictor that starts at the tail finds the item in the table under its key.
LinksExact == TypeOK /\ UniqueKeys /\ LruMatchesLinks

\* Every operation ends.  Item locks are taken before the LRU lock and
\* lru_pull_tail, which holds the LRU lock, only tries, so nobody waits in a
\* circle; and do_item_alloc_pull gives up although every item of the tail is
\* locked or referenced and other clients take what it frees.
OperationsEnd == \A c \in Clients : pc[c] \notin AtRest ~> pc[c] \in AtRest

\* What a lookup of k would return.  While a client replaces the item of k
\* it holds the item lock, so the old item is what others have last seen.
Current(k) ==
    LET replacing == {c \in Clients : pc[c] = "link" /\ cur[c] # None /\ want[c] = k}
        found == assoc_find(k)
    IN  IF replacing # {} THEN cur[CHOOSE c \in replacing : TRUE]
        ELSE IF found # {} THEN CHOOSE i \in found : TRUE
        ELSE None

Map == INSTANCE CacheMap WITH map <- [k \in Keys |-> Current(k)], held <- mine

\* The item layer implements an atomic map that may forget: whatever the
\* interleaving, a new item is nobody else's and a set is one step.
ImplementsCacheMap == Map!Spec
=============================================================================
