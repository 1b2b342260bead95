-------------------------------- MODULE Slabs --------------------------------
(***************************************************************************)
(* The slab allocator of slabs.c: classes, pages, free lists, the memory   *)
(* limit and the global page pool; and the page mover (slab_reassign) that *)
(* empties a page while its items are read, stored, deleted and freed.     *)
(*                                                                         *)
(* A chunk is <<page, n>>.  Users are threads of the item layer: they take *)
(* item locks and call slabs_alloc and slabs_free under slabs_lock, which  *)
(* is part of a step.  The mover holds slabs_lock, except while it copies  *)
(* or evicts an item, and only tries item locks.  As in GraphCached's      *)
(* settings, all pages have one size, which is item_size_max; the clock    *)
(* stands still, so no item has expired; and items are not chunked.        *)
(***************************************************************************)
EXTENDS Integers, Sequences, FiniteSets

CONSTANTS
    Users, Mover, None,
    Pages,
    Classes,         \* slab classes, from POWER_SMALLEST = 1 to power_largest
    PerSlab,         \* chunks per page of each class
    Keys,
    Locks, LockOf,   \* item_locks stripes
    Limits,          \* values of mem_limit, in pages
    GraphUsers       \* the user is GraphCached's read and release: it allocates
                     \* on a miss, takes the item lock to look up only, deletes
                     \* nothing, and releases what DiskComponent::pitem names

ASSUME ClassesAssumption == Classes \subseteq Nat \ {0} /\ PerSlab \in [Classes -> Nat \ {0}]
\* slabs_init: chunk sizes grow from class to class, so the first class has the
\* most chunks per page.
ASSUME SizesAssumption == \E c \in Classes : \A d \in Classes : PerSlab[d] <= PerSlab[c]
ASSUME FiniteAssumption == IsFiniteSet(Users) /\ IsFiniteSet(Pages)
ASSUME LocksAssumption == LockOf \in [Keys -> Locks]
\* Threads that share items without their locks are the subject of GraphRead.
ASSUME GraphAssumption == GraphUsers \in BOOLEAN /\ (GraphUsers => Cardinality(Users) = 1)
ASSUME LimitsAssumption == Limits \subseteq Nat /\ Limits # {}

SLAB_GLOBAL_PAGE_POOL == 0
MaxPer == CHOOSE n \in {PerSlab[c] : c \in Classes} : \A c \in Classes : PerSlab[c] <= n
Chunks == Pages \X (1 .. MaxPer)

ASSUME NamesAssumption ==
    /\ Mover \notin Users
    /\ None \notin Users \cup {Mover} /\ None \notin Keys \cup Pages /\ None \notin Chunks

VARIABLES
    slab_list,       \* the pages of each class, and of the pool
    slots, sl_curr,  \* free list, head first, and its counter
    mem_limit, mem_malloced,
    flag,            \* "slabbed", "cleared" (SLABBED|FETCHED), "linked", "none"
    refcount, key,
    pitem,           \* DiskComponent::pitem, a pointer inside the item's data
    item_lock,
    pc, want, mine,  \* a user's operation, its key and its item
    signal,          \* slab_rebalance_signal
    s_clsid, d_clsid, slab_start, slab_pos, busy_items, done,
    mpc, new_it,     \* the mover outside slabs_lock, and the copy it makes
    failed           \* an assert of do_item_remove failed

pages == <<slab_list, slots, sl_curr, mem_limit, mem_malloced>>
items == <<flag, refcount, key, pitem>>
user == <<pc, want, mine>>
rebal == <<signal, s_clsid, d_clsid, slab_start, slab_pos, busy_items, done, mpc, new_it>>
vars == <<pages, items, item_lock, user, rebal, failed>>

Set(f, x, v) == [f EXCEPT ![x] = v]
Ran(s) == {s[n] : n \in 1 .. Len(s)}
ChunksOf(p, c) == {<<p, n>> : n \in 1 .. PerSlab[c]}
Find(k) == {i \in Chunks : flag[i] = "linked" /\ key[i] = k}
Free(k) == item_lock[LockOf[k]] = None
Lock(t, k) == Free(k) /\ item_lock' = Set(item_lock, LockOf[k], t)
Unlock(k) == item_lock' = Set(item_lock, LockOf[k], None)
UserFree(k) == GraphUsers \/ Free(k)
UserLock(u, k) == IF GraphUsers THEN UNCHANGED item_lock ELSE Lock(u, k)
UserUnlock(k) == IF GraphUsers THEN UNCHANGED item_lock ELSE Unlock(k)
-----------------------------------------------------------------------------
(* The allocator.                                                          *)

\* The class a chunk's page belongs to (slabs_clsid of the item).
ClassOf(i) == CHOOSE c \in Classes : i[1] \in Ran(slab_list[c])

\* split_slab_page_into_freelist: the last chunk ends up at the head.
Split(p, c) == [n \in 1 .. PerSlab[c] |-> <<p, PerSlab[c] + 1 - n>>] \o slots[c]
SplitFlags(p, c) == [i \in Chunks |-> IF i \in ChunksOf(p, c) THEN "slabbed" ELSE flag[i]]

\* The bytes of a free chunk are not read again before slabs_alloc's caller has
\* written them: the model forgets them.
Forget(i) == key' = Set(key, i, None) /\ pitem' = Set(pitem, i, None)

\* do_slabs_free.
Push(i) ==
    /\ Forget(i)
    /\ slots' = Set(slots, ClassOf(i), <<i>> \o slots[ClassOf(i)])
    /\ sl_curr' = Set(sl_curr, ClassOf(i), sl_curr[ClassOf(i)] + 1)

Pool == slab_list[SLAB_GLOBAL_PAGE_POOL]
Owned == UNION {Ran(slab_list[c]) : c \in DOMAIN slab_list}

\* memory_release: how many of n pooled pages go, for a limit.
Released(n, limit) ==
    LET over == IF mem_malloced > limit THEN mem_malloced - limit ELSE 0
    IN  IF over > n THEN n ELSE over

\* Pages leave the pool from its end.
Shrunk(pool, n) == SubSeq(pool, 1, Len(pool) - n)

Init ==
    /\ slab_list = [c \in Classes \cup {SLAB_GLOBAL_PAGE_POOL} |-> <<>>]
    /\ slots = [c \in Classes |-> <<>>] /\ sl_curr = [c \in Classes |-> 0]
    /\ mem_limit \in Limits /\ mem_malloced = 0
    /\ flag = [i \in Chunks |-> "cleared"] /\ refcount = [i \in Chunks |-> 0]
    /\ key = [i \in Chunks |-> None] /\ pitem = [i \in Chunks |-> None]
    /\ item_lock = [l \in Locks |-> None]
    /\ pc = [u \in Users |-> "idle"] /\ want = [u \in Users |-> None] /\ mine = [u \in Users |-> None]
    /\ signal = 0 /\ s_clsid = 0 /\ d_clsid = 0 /\ slab_start = None /\ slab_pos = 0
    /\ busy_items = 0 /\ done = 0 /\ mpc = "locked" /\ new_it = None
    /\ failed = FALSE

\* What do_slabs_alloc and its caller write into the chunk.
Taken(u, k, i) ==
    /\ refcount' = Set(refcount, i, 1)
    /\ key' = Set(key, i, k)
    /\ pitem' = Set(pitem, i, IF GraphUsers THEN i ELSE None)
    /\ want' = Set(want, u, k) /\ mine' = Set(mine, u, i) /\ pc' = Set(pc, u, "filled")
    /\ UNCHANGED <<mem_limit, item_lock, rebal, failed>>

Wanted(k) == GraphUsers => Find(k) = {}

\* slabs_alloc from the free list.
AllocFree(u, k, c) ==
    /\ pc[u] = "idle" /\ Wanted(k) /\ ~failed
    /\ sl_curr[c] # 0
    /\ slots' = Set(slots, c, Tail(slots[c]))
    /\ sl_curr' = Set(sl_curr, c, sl_curr[c] - 1)
    /\ flag' = Set(flag, Head(slots[c]), "none")
    /\ Taken(u, k, Head(slots[c]))
    /\ UNCHANGED <<slab_list, mem_malloced>>

\* slabs_alloc with do_slabs_newslab: a page of the pool, else from malloc if
\* the limit allows it.
AllocNewPage(u, k, c) ==
    /\ pc[u] = "idle" /\ Wanted(k) /\ ~failed
    /\ sl_curr[c] = 0
    /\ \E p \in Pages :
          /\ IF Pool # <<>>
             THEN /\ p = Pool[Len(Pool)]
                  /\ slab_list' = [slab_list EXCEPT ![SLAB_GLOBAL_PAGE_POOL] = Shrunk(@, 1),
                                                    ![c] = Append(@, p)]
                  /\ UNCHANGED mem_malloced
             ELSE /\ mem_malloced + 1 <= mem_limit
                  /\ p \notin Owned
                  /\ slab_list' = Set(slab_list, c, Append(slab_list[c], p))
                  /\ mem_malloced' = mem_malloced + 1
          /\ slots' = Set(slots, c, Tail(Split(p, c)))
          /\ sl_curr' = Set(sl_curr, c, PerSlab[c] - 1)
          /\ flag' = Set(SplitFlags(p, c), Head(Split(p, c)), "none")
          /\ Taken(u, k, Head(Split(p, c)))

\* slabs_adjust_mem_limit.
AdjustLimit(limit) ==
    /\ limit # mem_limit /\ ~failed
    /\ mem_limit' = limit
    /\ LET n == Released(Len(Pool), limit)
       IN  /\ slab_list' = Set(slab_list, SLAB_GLOBAL_PAGE_POOL, Shrunk(Pool, n))
           /\ mem_malloced' = mem_malloced - n
    /\ UNCHANGED <<slots, sl_curr, items, item_lock, user, rebal, failed>>
-----------------------------------------------------------------------------
(* The users: item_get, store_item, item_unlink, item_remove.              *)

Get(u, k) ==
    /\ pc[u] = "idle" /\ ~failed
    /\ Free(k)
    /\ \E i \in Find(k) :
          /\ refcount' = Set(refcount, i, refcount[i] + 1)
          /\ mine' = Set(mine, u, i)
    /\ want' = Set(want, u, k) /\ pc' = Set(pc, u, "hold")
    /\ UNCHANGED <<pages, flag, key, pitem, item_lock, rebal, failed>>

StoreLock(u) ==
    /\ pc[u] = "filled" /\ ~failed
    /\ UserLock(u, want[u])
    /\ pc' = Set(pc, u, "storing")
    /\ UNCHANGED <<pages, items, want, mine, rebal, failed>>

\* do_item_link, or do_item_replace of the old item with its key.
StoreLink(u) ==
    /\ pc[u] = "storing" /\ ~failed
    /\ LET old == Find(want[u])
           dead == {i \in old : refcount[i] = 1}
       IN  /\ flag' = [i \in Chunks |-> IF i = mine[u] THEN "linked"
                                        ELSE IF i \in dead THEN "slabbed"
                                        ELSE IF i \in old THEN "none" ELSE flag[i]]
           /\ refcount' = [i \in Chunks |-> IF i = mine[u] THEN refcount[i] + 1
                                            ELSE IF i \in old THEN refcount[i] - 1 ELSE refcount[i]]
           /\ IF dead = {} THEN UNCHANGED <<slots, sl_curr, key, pitem>> ELSE Push(CHOOSE i \in dead : TRUE)
    /\ UserUnlock(want[u])
    /\ pc' = Set(pc, u, "hold")
    /\ UNCHANGED <<slab_list, mem_limit, mem_malloced, want, mine, rebal, failed>>

\* item_unlink of the item the user holds.
Delete(u) ==
    /\ pc[u] = "hold" /\ ~GraphUsers /\ ~failed
    /\ Free(want[u])
    /\ flag[mine[u]] = "linked"
    /\ flag' = Set(flag, mine[u], "none")
    /\ refcount' = Set(refcount, mine[u], refcount[mine[u]] - 1)
    /\ UNCHANGED <<pages, key, pitem, item_lock, user, rebal, failed>>

\* What is released: the item, or what the segment in it says its item is.
Target(u) == IF GraphUsers THEN pitem[mine[u]] ELSE mine[u]

\* do_item_remove: its asserts, and refcount_decr.  Between the last one and
\* slabs_free the item is neither linked nor free.
Release(u) ==
    /\ pc[u] \in {"hold"} \cup (IF GraphUsers THEN {} ELSE {"filled"}) /\ ~failed
    /\ UserFree(want[u])
    /\ LET i == Target(u)
       IN  IF flag[i] \in {"slabbed", "cleared"} \/ refcount[i] = 0
           THEN failed' = TRUE /\ UNCHANGED <<refcount, item_lock, user>>
           ELSE /\ refcount' = Set(refcount, i, refcount[i] - 1)
                /\ IF refcount[i] = 1
                   THEN /\ UserLock(u, want[u])
                        /\ mine' = Set(mine, u, i) /\ pc' = Set(pc, u, "freeing")
                        /\ UNCHANGED want
                   ELSE /\ pc' = Set(pc, u, "idle")
                        /\ mine' = Set(mine, u, None) /\ want' = Set(want, u, None)
                        /\ UNCHANGED item_lock
                /\ UNCHANGED failed
    /\ UNCHANGED <<pages, flag, key, pitem, rebal>>

\* item_free, slabs_free, and the item lock is released.
ItemFree(u) ==
    /\ pc[u] = "freeing" /\ ~failed
    /\ flag' = Set(flag, mine[u], "slabbed")
    /\ Push(mine[u])
    /\ UserUnlock(want[u])
    /\ pc' = Set(pc, u, "idle") /\ mine' = Set(mine, u, None) /\ want' = Set(want, u, None)
    /\ UNCHANGED <<slab_list, mem_limit, mem_malloced, refcount, rebal, failed>>
-----------------------------------------------------------------------------
(* The page mover.                                                         *)

\* slabs_reassign; the lock it tries is free while the mover waits.  The
\* choice of src stands for slabs_reassign_pick_any, too.
Reassign(src, dst) ==
    /\ signal = 0 /\ ~failed
    /\ src # dst
    /\ Len(slab_list[src]) >= 2
    /\ s_clsid' = src /\ d_clsid' = dst /\ signal' = 1
    /\ UNCHANGED <<pages, items, item_lock, user, slab_start, slab_pos, busy_items, done, mpc, new_it, failed>>

\* slab_rebalance_start takes the oldest page ...
Start ==
    /\ signal = 1 /\ ~failed
    /\ slab_start' = slab_list[s_clsid][1] /\ slab_pos' = 1
    /\ done' = 0 /\ signal' = 2
    /\ UNCHANGED <<pages, items, item_lock, user, s_clsid, d_clsid, busy_items, mpc, new_it, failed>>

\* ... unless the page list of the destination cannot grow.
StartFails ==
    /\ signal = 1 /\ ~failed
    /\ signal' = 0
    /\ UNCHANGED <<pages, items, item_lock, user, s_clsid, d_clsid, slab_start, slab_pos, busy_items, done, mpc, new_it, failed>>

It == <<slab_start, slab_pos>>

\* The head of slab_rebalance_move, with slabs_lock.
Looks(f) == signal = 2 /\ done = 0 /\ mpc = "locked" /\ flag[It] = f /\ ~failed

\* The end of slab_rebalance_move: the next chunk, the page again if some were
\* busy, or done.
Advance(busy) ==
    IF slab_pos < PerSlab[s_clsid]
    THEN slab_pos' = slab_pos + 1 /\ busy_items' = busy_items + busy /\ UNCHANGED done
    ELSE IF busy_items + busy > 0
    THEN slab_pos' = 1 /\ busy_items' = 0 /\ UNCHANGED done
    ELSE done' = 1 /\ UNCHANGED <<slab_pos, busy_items>>

\* MOVE_PASS: cleared in an earlier lap.
MovePass ==
    /\ Looks("cleared")
    /\ Advance(0)
    /\ UNCHANGED <<pages, items, item_lock, user, signal, s_clsid, d_clsid, slab_start, mpc, new_it, failed>>

\* Mutant: the chunk stays on the free list.
MoveFromSlabKeeps ==
    /\ Looks("slabbed")
    /\ flag' = Set(flag, It, "cleared") /\ refcount' = Set(refcount, It, 0)
    /\ Advance(0)
    /\ UNCHANGED <<pages, key, pitem, item_lock, user, signal, s_clsid, d_clsid, slab_start, mpc, new_it, failed>>

\* slab_rebalance_cut_free: the chunk is taken out of the middle of the list.
Cut(list, i) ==
    LET p == CHOOSE n \in 1 .. Len(list) : list[n] = i
    IN  [n \in 1 .. Len(list) - 1 |-> IF n < p THEN list[n] ELSE list[n + 1]]

\* MOVE_FROM_SLAB.
MoveFromSlab ==
    /\ Looks("slabbed")
    /\ slots' = Set(slots, s_clsid, Cut(slots[s_clsid], It))
    /\ sl_curr' = Set(sl_curr, s_clsid, sl_curr[s_clsid] - 1)
    /\ flag' = Set(flag, It, "cleared") /\ refcount' = Set(refcount, It, 0)
    /\ Advance(0)
    /\ UNCHANGED <<slab_list, mem_limit, mem_malloced, key, pitem, item_lock, user,
                   signal, s_clsid, d_clsid, slab_start, mpc, new_it, failed>>

\* MOVE_LOCKED, and MOVE_BUSY: in use, being filled or being freed.
MoveLater ==
    /\ \/ Looks("none")
       \/ Looks("linked") /\ (~Free(key[It]) \/ refcount[It] # 1)
    /\ Advance(1)
    /\ UNCHANGED <<pages, items, item_lock, user, signal, s_clsid, d_clsid, slab_start, mpc, new_it, failed>>

\* slab_rebalance_alloc: the leading chunks of the free list that lie in the
\* page are cleared on the way to one that does not.
InPage(i) == i[1] = slab_start
Leading(list) == CHOOSE n \in 0 .. Len(list) :
                    /\ \A m \in 1 .. n : InPage(list[m])
                    /\ n < Len(list) => ~InPage(list[n + 1])

\* Mutant: busy items are moved, too.
MoveFromLruBusy ==
    /\ Looks("linked")
    /\ Lock(Mover, key[It])
    /\ refcount' = Set(refcount, It, refcount[It] + 1)
    /\ new_it' = None /\ mpc' = "unlocked"
    /\ UNCHANGED <<pages, flag, key, pitem, user, signal, s_clsid, d_clsid, slab_start, slab_pos, busy_items, done, failed>>

\* MOVE_FROM_LRU, first part: linked and not busy.  A chunk for the copy, if
\* there is one, and slabs_lock is released.
MoveFromLru ==
    /\ Looks("linked")
    /\ Lock(Mover, key[It])
    /\ refcount[It] = 1
    /\ LET list == slots[s_clsid]
           n == Leading(list)
           found == n < Len(list)
           rest == IF found THEN n + 2 ELSE n + 1
       IN  /\ new_it' = IF found THEN list[n + 1] ELSE None
           /\ slots' = Set(slots, s_clsid, SubSeq(list, rest, Len(list)))
           /\ sl_curr' = Set(sl_curr, s_clsid, sl_curr[s_clsid] - rest + 1)
           /\ flag' = [i \in Chunks |-> IF \E m \in 1 .. n : list[m] = i THEN "cleared"
                                        ELSE IF found /\ i = list[n + 1] THEN "none" ELSE flag[i]]
           /\ refcount' = [i \in Chunks |-> IF i = It THEN 2
                                            ELSE IF \E m \in 1 .. n : list[m] = i THEN 0
                                            ELSE IF found /\ i = list[n + 1] THEN 1 ELSE refcount[i]]
    /\ mpc' = "unlocked"
    /\ UNCHANGED <<slab_list, mem_limit, mem_malloced, key, pitem, user,
                   signal, s_clsid, d_clsid, slab_start, slab_pos, busy_items, done, failed>>

\* Mutant: the reference count is copied with the item.
RescueCopiesCount ==
    /\ mpc = "unlocked" /\ new_it # None /\ ~failed
    /\ flag' = [flag EXCEPT ![new_it] = "linked", ![It] = "cleared"]
    /\ refcount' = [refcount EXCEPT ![new_it] = refcount[It] + 1, ![It] = 0]
    /\ key' = [key EXCEPT ![new_it] = key[It], ![It] = None]
    /\ pitem' = [pitem EXCEPT ![new_it] = pitem[It], ![It] = None]
    /\ Unlock(key[It])
    /\ mpc' = "locked" /\ new_it' = None
    /\ Advance(0)
    /\ UNCHANGED <<pages, user, signal, s_clsid, d_clsid, slab_start, failed>>

\* Mutant: the copy is not linked.
RescueUnlinked ==
    /\ mpc = "unlocked" /\ new_it # None /\ ~failed
    /\ flag' = Set(flag, It, "cleared")
    /\ refcount' = Set(refcount, It, 0)
    /\ Unlock(key[It])
    /\ mpc' = "locked" /\ new_it' = None
    /\ Advance(0)
    /\ UNCHANGED <<pages, key, pitem, user, signal, s_clsid, d_clsid, slab_start, failed>>

\* Second part: memcpy, and do_item_replace by the copy ...
Rescue ==
    /\ mpc = "unlocked" /\ new_it # None /\ ~failed
    /\ flag' = [flag EXCEPT ![new_it] = "linked", ![It] = "cleared"]
    /\ refcount' = [refcount EXCEPT ![new_it] = 1, ![It] = 0]
    /\ key' = [key EXCEPT ![new_it] = key[It], ![It] = None]
    /\ pitem' = [pitem EXCEPT ![new_it] = pitem[It], ![It] = None]
    /\ Unlock(key[It])
    /\ mpc' = "locked" /\ new_it' = None
    /\ Advance(0)
    /\ UNCHANGED <<pages, user, signal, s_clsid, d_clsid, slab_start, failed>>

\* ... or no memory for one: do_item_unlink and slabs_free.  The reference of
\* the mover is not taken back; slabs_alloc will set the count.
EvictNoMem ==
    /\ mpc = "unlocked" /\ new_it = None /\ ~failed
    /\ flag' = Set(flag, It, "slabbed")
    /\ refcount' = Set(refcount, It, refcount[It] - 1)
    /\ Push(It)
    /\ Unlock(key[It])
    /\ mpc' = "locked"
    /\ Advance(1)
    /\ UNCHANGED <<slab_list, mem_limit, mem_malloced, user,
                   signal, s_clsid, d_clsid, slab_start, new_it, failed>>

\* slab_rebalance_finish: the page changes class, or goes to the pool and, over
\* the limit, back to malloc.
Finish ==
    /\ done = 1 /\ ~failed
    /\ IF d_clsid # SLAB_GLOBAL_PAGE_POOL
       THEN /\ slab_list' = [slab_list EXCEPT ![s_clsid] = Tail(@), ![d_clsid] = Append(@, slab_start)]
            /\ slots' = Set(slots, d_clsid, Split(slab_start, d_clsid))
            /\ sl_curr' = Set(sl_curr, d_clsid, sl_curr[d_clsid] + PerSlab[d_clsid])
            /\ flag' = SplitFlags(slab_start, d_clsid)
            /\ UNCHANGED mem_malloced
       ELSE LET pool == Append(Pool, slab_start)
                n == Released(Len(pool), mem_limit)
            IN  /\ slab_list' = [slab_list EXCEPT ![s_clsid] = Tail(@),
                                                  ![SLAB_GLOBAL_PAGE_POOL] = Shrunk(pool, n)]
                /\ mem_malloced' = mem_malloced - n
                /\ UNCHANGED <<slots, sl_curr, flag>>
    /\ done' = 0 /\ s_clsid' = 0 /\ d_clsid' = 0 /\ slab_start' = None /\ slab_pos' = 0 /\ signal' = 0
    /\ UNCHANGED <<mem_limit, refcount, key, pitem, item_lock, user, busy_items, mpc, new_it, failed>>

Move == MovePass \/ MoveFromSlab \/ MoveLater \/ MoveFromLru \/ Rescue \/ EvictNoMem

Use(u) ==
    \/ \E k \in Keys : Get(u, k) \/ \E c \in Classes : AllocFree(u, k, c) \/ AllocNewPage(u, k, c)
    \/ StoreLock(u) \/ StoreLink(u) \/ Delete(u) \/ Release(u) \/ ItemFree(u)

Next ==
    \/ \E u \in Users : Use(u)
    \/ \E src \in Classes, dst \in Classes \cup {SLAB_GLOBAL_PAGE_POOL} : Reassign(src, dst)
    \/ Start \/ StartFails \/ Move \/ Finish
    \/ \E limit \in Limits : AdjustLimit(limit)

Spec == Init /\ [][Next]_vars
-----------------------------------------------------------------------------
\* The sets the values stay in.
TypeOK ==
    /\ slab_list \in [Classes \cup {SLAB_GLOBAL_PAGE_POOL} -> Seq(Pages)]
    /\ slots \in [Classes -> Seq(Chunks)] /\ sl_curr \in [Classes -> Nat]
    /\ mem_limit \in Limits /\ mem_malloced \in Nat
    /\ flag \in [Chunks -> {"slabbed", "cleared", "linked", "none"}]
    /\ refcount \in [Chunks -> Nat]
    /\ key \in [Chunks -> Keys \cup {None}] /\ pitem \in [Chunks -> Chunks \cup {None}]
    /\ item_lock \in [Locks -> Users \cup {Mover, None}]
    /\ pc \in [Users -> {"idle", "filled", "storing", "hold", "freeing"}]
    /\ want \in [Users -> Keys \cup {None}] /\ mine \in [Users -> Chunks \cup {None}]
    /\ signal \in 0 .. 2 /\ done \in 0 .. 1
    /\ s_clsid \in Classes \cup {0} /\ d_clsid \in Classes \cup {0}
    /\ slab_start \in Pages \cup {None}
    /\ slab_pos \in 0 .. (IF signal = 2 THEN PerSlab[s_clsid] ELSE 0)
    /\ busy_items \in Nat
    /\ mpc \in {"locked", "unlocked"} /\ new_it \in Chunks \cup {None}
    /\ failed \in BOOLEAN

Live(i) == flag[i] \in {"linked", "none"}

\* An item that somebody holds keeps its memory and its key: its page is
\* neither given away nor split for another class, and the mover does not copy
\* it to another place.
HeldStaysInPlace ==
    \A u \in Users : mine[u] # None =>
        /\ Live(mine[u]) /\ key[mine[u]] = want[u]
        /\ \E c \in Classes : \E p \in Ran(slab_list[c]) : mine[u] \in ChunksOf(p, c)

\* The free list of a class is the free chunks of its pages, each once, and
\* sl_curr, by which do_slabs_alloc decides, is its length: the mover, which
\* takes chunks out of the middle, leaves no way to one it has cleared.
FreeListExact ==
    \A c \in Classes :
        /\ sl_curr[c] = Len(slots[c])
        /\ Cardinality(Ran(slots[c])) = Len(slots[c])
        /\ Ran(slots[c]) = {i \in Chunks : flag[i] = "slabbed" /\ i[1] \in Ran(slab_list[c])}

\* "If the algorithm is broken, live items can sneak in" (slab_rebalance_finish):
\* when the mover is through with a page, every chunk of it is cleared.
ClearWhenDone == done = 1 => \A i \in ChunksOf(slab_start, s_clsid) : flag[i] = "cleared"

\* Every page is in one list, mem_malloced counts them, and the pool keeps no
\* page while the memory is over its limit.
PagesAccounted ==
    /\ mem_malloced = Cardinality(Owned)
    /\ \A c, d \in DOMAIN slab_list : c # d => Ran(slab_list[c]) \cap Ran(slab_list[d]) = {}
    /\ mem_malloced > mem_limit => Pool = <<>>

\* Memory is neither lost nor given out twice: chunks are on the free list of
\* the class that owns their page, and pages are owned once, also while a
\* page changes its class.
PagesExact == TypeOK /\ FreeListExact /\ ClearWhenDone /\ PagesAccounted

\* The references to an item in use are its link, its holders and the mover.
MoverCountsExact ==
    \A i \in Chunks : Live(i) =>
        refcount[i] = Cardinality({u \in Users : mine[u] = i /\ pc[u] # "freeing"})
                      + (IF flag[i] = "linked" THEN 1 ELSE 0)
                      + (IF mpc = "unlocked" /\ i \in {It, new_it} THEN 1 ELSE 0)

\* Moving a page is invisible: a key disappears only when a holder deletes its
\* item, or when the mover found no memory for the copy.
KeysSurviveMove ==
    [][\A k \in Keys : Find(k) # {} /\ Find(k)' = {} =>
          \/ \E u \in Users : pc[u] = "hold" /\ mine[u] \in Find(k)
          \/ mpc = "unlocked" /\ new_it = None]_vars

\* The asserts of do_item_remove: what GraphCached releases is in use, and not a
\* chunk that went to the free list or was cleared with its page.
ReleasedIsInUse == ~failed
=============================================================================
