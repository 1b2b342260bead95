------------------------------ MODULE GraphRead ------------------------------
(***************************************************************************)
(* GraphCached<KeyTy, ValueTy>::read and DiskComponent::release            *)
(* (include/GraphCached.h), with the functions of items.c, assoc.c and     *)
(* slabs.c they call, in the flat-LRU configuration.                       *)
(*                                                                         *)
(* read looks the key up under its item lock, but it links a new item, and *)
(* release drops a reference, WITHOUT the lock; refcount_incr and          *)
(* refcount_decr are plain ++ and --.  So the model has the granularity of *)
(* the loads and stores of reference counts and bucket heads.  A client is *)
(* one segment from read to release; ThreadOf, fixed at the start, says     *)
(* which thread runs it, and a thread has one call in progress at a time.  *)
(*                                                                         *)
(* A failed assert() ends the process: "failed" names it and nothing moves *)
(* any more; so does linking an item into the LRU list a second time.  The *)
(* disk is reliable here.  The program never advances current_time (its    *)
(* clock_handler is commented out), so time 0 is older than 0 - 60 as an   *)
(* unsigned number, and every hit moves its item in the LRU list.          *)
(***************************************************************************)
EXTENDS Integers, Sequences, FiniteSets

CONSTANTS
    Clients,
    Threadings,         \* which clients there may be, and the thread of each
    Reads,              \* the keys a thread asks for
    Chunks,             \* the item-sized chunks the memory limit allows
    Keys,
    Locks, LockOf,      \* item_locks stripes, and the stripe of a key
    Buckets, BucketOf,  \* hash buckets, and the bucket of a key
    None,               \* NULL
    RefModulo,          \* the reference count is an unsigned short (2^16)
    PullTries,          \* tail items lru_pull_tail looks at (5 in the code)
    AllocTries          \* rounds of do_item_alloc_pull (10 in the code)

ASSUME MapsAssumption == /\ LockOf \in [Keys -> Locks]
                         /\ BucketOf \in [Keys -> Buckets]
ASSUME ThreadsAssumption ==
    \A t \in Threadings : DOMAIN t \subseteq Clients /\ \A c \in DOMAIN t : Reads[t[c]] \subseteq Keys
ASSUME FiniteAssumption == IsFiniteSet(Clients) /\ IsFiniteSet(Chunks)
\* NULL is no chunk, key or client.
ASSUME NullAssumption == None \notin Chunks \cup Keys \cup Clients
\* An item has fewer than 2^16 references: one per segment that is read or in
\* use, and the link's.  refcount_incr relies on that and checks nothing.
ASSUME NumbersAssumption ==
    /\ RefModulo \in Nat /\ Cardinality(Clients) + 1 < RefModulo
    /\ PullTries \in Nat /\ AllocTries \in Nat \ {0}
ASSUME BucketInStripe == \A j, k \in Keys : BucketOf[j] = BucketOf[k] => LockOf[j] = LockOf[k]

VARIABLES
    ThreadOf,       \* one of Threadings
    free,           \* chunks on the slab free list (ITEM_SLABBED)
    linked,         \* chunks with ITEM_LINKED set
    head, h_next,   \* the hash chains
    lru,            \* the LRU list, head first
    refcount, key,
    content,        \* the segment a chunk's data area holds
    item_lock, lru_lock,
    pc, want,
    mine,           \* the item read works on and then returns (pitem)
    cur,            \* search of lru_pull_tail
    tmp,            \* a reference count loaded and not yet stored back
    pos,            \* where lru_pull_tail is in its walk
    evict,          \* it was called with LRU_PULL_EVICT
    round,          \* i of do_item_alloc_pull
    failed          \* the assert that failed, "" if none

chains == <<head, h_next>>
store == <<free, linked, chains, lru, refcount, key, content>>
locks == <<item_lock, lru_lock>>
local == <<want, mine, cur, tmp, pos, evict, round>>
vars == <<ThreadOf, store, locks, pc, local, failed>>

AtRest == {"idle", "hold"}
Ran(s) == {s[p] : p \in 1 .. Len(s)}
Set(f, c, v) == [f EXCEPT ![c] = v]
At(c, l) == pc[c] = l /\ failed = ""
Goto(c, l) == pc' = Set(pc, c, l)
-----------------------------------------------------------------------------
(* Hash chains and LRU list.                                               *)

\* The ways along h_next from i on.  A damaged chain may be cyclic;
\* Cardinality(Chunks) nodes are all there are.
Paths(i) ==
    {s \in UNION {[1 .. n -> Chunks] : n \in 0 .. Cardinality(Chunks)} :
        \A p \in 1 .. Len(s) : s[p] = IF p = 1 THEN i ELSE h_next[s[p - 1]]}

Chain(k) ==
    LET paths == Paths(head[BucketOf[k]])
    IN  CHOOSE s \in paths : \A t \in paths : Len(t) <= Len(s)

Matches(k) == LET s == Chain(k) IN {p \in 1 .. Len(s) : key[s[p]] = k}
First(k) == LET m == Matches(k) IN CHOOSE p \in m : \A q \in m : p <= q

assoc_find(k) == IF Matches(k) = {} THEN None ELSE Chain(k)[First(k)]

\* Mutant: the head of the chain is removed, whatever its key.
assoc_delete_head(k) ==
    /\ head' = Set(head, BucketOf[k], IF Chain(k) = <<>> THEN None ELSE h_next[Head(Chain(k))])
    /\ UNCHANGED h_next

\* assoc_delete removes the first item with the key.
assoc_delete(k) ==
    LET p == First(k)
        i == Chain(k)[p]
    IN  IF p = 1 THEN /\ head' = Set(head, BucketOf[k], h_next[i])
                      /\ h_next' = Set(h_next, i, None)
        ELSE /\ h_next' = [h_next EXCEPT ![Chain(k)[p - 1]] = h_next[i], ![i] = None]
             /\ UNCHANGED head

\* do_item_link_q asserts that the item is not free and not the head; an item
\* elsewhere in the list would make the list cyclic.
do_item_link_q(i) ==
    /\ lru' = <<i>> \o lru
    /\ failed' = IF i \in free \cup Ran(lru) THEN "do_item_link_q" ELSE failed

\* An item that is in no list has no neighbours, and nothing changes.
do_item_unlink_q(i) ==
    LET p == CHOOSE q \in 1 .. Len(lru) : lru[q] = i
    IN  IF i \notin Ran(lru) THEN lru
        ELSE [q \in 1 .. Len(lru) - 1 |-> IF q < p THEN lru[q] ELSE lru[q + 1]]

Free(k) == item_lock[LockOf[k]] = None
Lock(c, k) == Free(k) /\ item_lock' = Set(item_lock, LockOf[k], c)
Unlock(k) == item_lock' = Set(item_lock, LockOf[k], None)

\* The first half of do_item_remove: its asserts, and the load of refcount_decr.
RemoveLoad(c, i) ==
    /\ tmp' = Set(tmp, c, refcount[i])
    /\ failed' = IF i \in free \/ refcount[i] = 0 THEN "do_item_remove" ELSE failed

\* Mutant: the item is freed one reference too early.
StoreDecrEarly(i, v) ==
    /\ refcount' = Set(refcount, i, v - 1)
    /\ free' = IF v <= 2 THEN free \cup {i} ELSE free
    /\ UNCHANGED failed

\* The second half of do_item_remove: store the decremented count, free the
\* item when it is zero.  item_free asserts that the item is not linked.
StoreDecr(i, v) ==
    /\ refcount' = Set(refcount, i, v - 1)
    /\ free' = IF v = 1 THEN free \cup {i} ELSE free
    /\ failed' = IF v = 1 /\ (i \in linked \/ i \in {lru[p] : p \in {1, Len(lru)} \cap 1 .. Len(lru)})
                 THEN "item_free" ELSE failed
-----------------------------------------------------------------------------
Init ==
    /\ ThreadOf \in Threadings
    /\ free = Chunks /\ linked = {} /\ lru = <<>>
    /\ head = [b \in Buckets |-> None] /\ h_next = [i \in Chunks |-> None]
    /\ refcount = [i \in Chunks |-> 0]
    /\ key = [i \in Chunks |-> None] /\ content = [i \in Chunks |-> None]
    /\ item_lock = [l \in Locks |-> None] /\ lru_lock = None
    /\ pc = [c \in Clients |-> "idle"] /\ want = [c \in Clients |-> None]
    /\ mine = [c \in Clients |-> None] /\ cur = [c \in Clients |-> None]
    /\ tmp = [c \in Clients |-> 0]
    /\ evict = [c \in Clients |-> FALSE]
    /\ pos = [c \in Clients |-> 0] /\ round = [c \in Clients |-> 0]
    /\ failed = ""

\* The thread of this client is not inside another call.
ThreadReady(c) ==
    \A d \in DOMAIN ThreadOf : ThreadOf[d] = ThreadOf[c] => pc[d] \in AtRest
-----------------------------------------------------------------------------
(* read, first part: item_lock, do_item_get, item_unlock.                  *)

\* A hit: assoc_find, and the load of refcount_incr.
ReadHit(c, k) ==
    /\ At(c, "idle") /\ ThreadReady(c)
    /\ assoc_find(k) # None
    /\ Lock(c, k)
    /\ want' = Set(want, c, k)
    /\ mine' = Set(mine, c, assoc_find(k))
    /\ tmp' = Set(tmp, c, refcount[assoc_find(k)])
    /\ Goto(c, "hit")
    /\ UNCHANGED <<store, lru_lock, cur, pos, evict, round, failed>>

HitIncr(c) ==
    /\ At(c, "hit")
    /\ refcount' = Set(refcount, mine[c], (tmp[c] + 1) % RefModulo)
    /\ tmp' = Set(tmp, c, 0)
    /\ Goto(c, "bump_unlink")
    /\ UNCHANGED <<free, linked, chains, lru, key, content, locks, want, mine, cur, pos, evict, round, failed>>

\* do_item_update: two LRU-locked sections, if the item is linked.
BumpUnlink(c) ==
    /\ At(c, "bump_unlink")
    /\ lru_lock = None
    /\ lru' = IF mine[c] \in linked THEN do_item_unlink_q(mine[c]) ELSE lru
    /\ failed' = IF mine[c] \in free THEN "do_item_update" ELSE failed
    /\ IF mine[c] \in linked THEN Goto(c, "bump_link") /\ UNCHANGED item_lock
                             ELSE Goto(c, "hold") /\ Unlock(want[c])
    /\ UNCHANGED <<free, linked, chains, refcount, key, content, lru_lock, local>>

BumpLink(c) ==
    /\ At(c, "bump_link")
    /\ lru_lock = None
    /\ do_item_link_q(mine[c])
    /\ Unlock(want[c])
    /\ Goto(c, "hold")
    /\ UNCHANGED <<free, linked, chains, refcount, key, content, lru_lock, local>>

\* A miss releases the item lock before the segment is read.  Without
\* cacheFlag the segment goes to a heap buffer: pitem is NULL.
ReadMiss(c, k, cacheFlag) ==
    /\ At(c, "idle") /\ ThreadReady(c)
    /\ Free(k)
    /\ assoc_find(k) = None
    /\ want' = Set(want, c, k)
    /\ Goto(c, IF cacheFlag THEN "pull" ELSE "hold")
    /\ UNCHANGED <<store, locks, mine, cur, tmp, pos, evict, round, failed>>
-----------------------------------------------------------------------------
(* item_alloc: do_item_alloc_pull with lru_pull_tail and slabs_alloc.      *)

\* lru_pull_tail takes the LRU lock and starts at the tail.
PullBegin(c) ==
    /\ At(c, "pull")
    /\ lru_lock = None
    /\ lru_lock' = c
    /\ pos' = Set(pos, c, Len(lru))
    /\ Goto(c, "walk")
    /\ UNCHANGED <<store, item_lock, want, mine, cur, tmp, evict, round, failed>>

InReach(c) == pos[c] >= 1 /\ pos[c] > Len(lru) - PullTries

\* Mutant: the walk waits for the item lock instead of skipping the item.
PullWaits(c) == FALSE /\ UNCHANGED vars

\* item_trylock fails: on to the next item.
PullSkip(c) ==
    /\ At(c, "walk") /\ InReach(c)
    /\ ~Free(key[lru[pos[c]]])
    /\ pos' = Set(pos, c, pos[c] - 1)
    /\ UNCHANGED <<store, locks, pc, want, mine, cur, tmp, evict, round, failed>>

\* item_trylock succeeds; the load of refcount_incr.
PullTake(c) ==
    /\ At(c, "walk") /\ InReach(c)
    /\ Lock(c, key[lru[pos[c]]])
    /\ cur' = Set(cur, c, lru[pos[c]])
    /\ tmp' = Set(tmp, c, refcount[lru[pos[c]]])
    /\ pos' = Set(pos, c, 0)
    /\ Goto(c, "pull_ref")
    /\ UNCHANGED <<store, lru_lock, want, mine, evict, round, failed>>

\* The store of refcount_incr.  An eviction runs do_item_unlink_nolock under
\* the LRU lock (assoc_delete asserts that it finds the key); otherwise the
\* LRU lock is released.
PullRef(c) ==
    /\ At(c, "pull_ref")
    /\ refcount' = Set(refcount, cur[c], (tmp[c] + 1) % RefModulo)
    /\ IF evict[c] /\ cur[c] \in linked
       THEN /\ linked' = linked \ {cur[c]}
            /\ lru' = do_item_unlink_q(cur[c])
            /\ IF Matches(key[cur[c]]) = {}
               THEN failed' = "assoc_delete" /\ UNCHANGED chains
               ELSE assoc_delete(key[cur[c]]) /\ UNCHANGED failed
            /\ Goto(c, "evict_load")
            /\ UNCHANGED lru_lock
       ELSE /\ lru_lock' = None
            /\ Goto(c, "pull_load")
            /\ UNCHANGED <<linked, chains, lru, failed>>
    /\ UNCHANGED <<free, key, content, item_lock, local>>

\* do_item_remove of the link's reference: load, store; the LRU lock goes.
EvictLoad(c) ==
    /\ At(c, "evict_load")
    /\ RemoveLoad(c, cur[c])
    /\ Goto(c, "evict_store")
    /\ UNCHANGED <<store, locks, want, mine, cur, pos, evict, round>>

EvictStore(c) ==
    /\ At(c, "evict_store")
    /\ StoreDecr(cur[c], tmp[c])
    /\ lru_lock' = None
    /\ Goto(c, "pull_load")
    /\ UNCHANGED <<linked, chains, lru, key, content, item_lock, local>>

\* The end of lru_pull_tail: do_item_remove (load, store), then the item lock.
PullLoad(c) ==
    /\ At(c, "pull_load")
    /\ RemoveLoad(c, cur[c])
    /\ Goto(c, "pull_store")
    /\ UNCHANGED <<store, locks, want, mine, cur, pos, evict, round>>

\* After the first pull of a round comes slabs_alloc, after the eviction the
\* next round, after the last round NULL: the segment is not cached.
AfterPull(c) ==
    IF ~evict[c] THEN Goto(c, "alloc") /\ UNCHANGED <<evict, round>>
    ELSE /\ evict' = Set(evict, c, FALSE)
         /\ IF round[c] + 1 < AllocTries
            THEN Goto(c, "pull") /\ round' = Set(round, c, round[c] + 1)
            ELSE Goto(c, "hold") /\ round' = Set(round, c, 0)

PullStore(c) ==
    /\ At(c, "pull_store")
    /\ StoreDecr(cur[c], tmp[c])
    /\ Unlock(key[cur[c]])
    /\ cur' = Set(cur, c, None)
    /\ tmp' = Set(tmp, c, 0)
    /\ AfterPull(c)
    /\ UNCHANGED <<linked, chains, lru, key, content, lru_lock, want, mine, pos>>

\* Nothing in reach: an eviction gives up, and with it the allocation.
PullFail(c) ==
    /\ At(c, "walk") /\ ~InReach(c)
    /\ lru_lock' = None
    /\ pos' = Set(pos, c, 0)
    /\ Goto(c, IF evict[c] THEN "hold" ELSE "alloc")
    /\ evict' = Set(evict, c, FALSE)
    /\ round' = IF evict[c] THEN Set(round, c, 0) ELSE round
    /\ UNCHANGED <<store, item_lock, want, mine, cur, tmp, failed>>

SlabsAlloc(c) ==
    /\ At(c, "alloc")
    /\ \E i \in free :
          /\ free' = free \ {i}
          /\ refcount' = Set(refcount, i, 1)
          /\ key' = Set(key, i, want[c])
          /\ h_next' = Set(h_next, i, None)
          /\ mine' = Set(mine, c, i)
    /\ round' = Set(round, c, 0)
    /\ Goto(c, "fill")
    /\ UNCHANGED <<linked, head, lru, content, locks, want, cur, tmp, pos, evict, failed>>

SlabsEmpty(c) ==
    /\ At(c, "alloc")
    /\ free = {}
    /\ evict' = Set(evict, c, TRUE)
    /\ Goto(c, "pull")
    /\ UNCHANGED <<store, locks, want, mine, cur, tmp, pos, round, failed>>
-----------------------------------------------------------------------------
(* read, second part: pread into the item, then do_item_link, unlocked.    *)

Fill(c) ==
    /\ At(c, "fill")
    /\ content' = Set(content, mine[c], want[c])
    /\ Goto(c, "insert_load")
    /\ UNCHANGED <<free, linked, chains, lru, refcount, key, locks, local, failed>>

\* ITEM_LINKED; assoc_insert loads the bucket head into h_next ...
InsertLoad(c) ==
    /\ At(c, "insert_load")
    /\ linked' = linked \cup {mine[c]}
    /\ h_next' = Set(h_next, mine[c], head[BucketOf[want[c]]])
    /\ Goto(c, "insert_store")
    /\ UNCHANGED <<free, head, lru, refcount, key, content, locks, local, failed>>

\* ... and stores the item into the bucket.
InsertStore(c) ==
    /\ At(c, "insert_store")
    /\ head' = Set(head, BucketOf[want[c]], mine[c])
    /\ Goto(c, "link_q")
    /\ UNCHANGED <<free, linked, h_next, lru, refcount, key, content, locks, local, failed>>

LinkQ(c) ==
    /\ At(c, "link_q")
    /\ lru_lock = None
    /\ do_item_link_q(mine[c])
    /\ Goto(c, "link_load")
    /\ UNCHANGED <<free, linked, chains, refcount, key, content, locks, local>>

\* refcount_incr for the link.
LinkLoad(c) ==
    /\ At(c, "link_load")
    /\ tmp' = Set(tmp, c, refcount[mine[c]])
    /\ Goto(c, "link_store")
    /\ UNCHANGED <<store, locks, want, mine, cur, pos, evict, round, failed>>

\* Mutant: the link takes no reference, read returns the allocation's one.
LinkStoreLost(c) ==
    /\ At(c, "link_store")
    /\ tmp' = Set(tmp, c, 0)
    /\ Goto(c, "hold")
    /\ UNCHANGED <<store, locks, want, mine, cur, pos, evict, round, failed>>

LinkStore(c) ==
    /\ At(c, "link_store")
    /\ refcount' = Set(refcount, mine[c], (tmp[c] + 1) % RefModulo)
    /\ tmp' = Set(tmp, c, 0)
    /\ Goto(c, "hold")
    /\ UNCHANGED <<free, linked, chains, lru, key, content, locks, want, mine, cur, pos, evict, round, failed>>
-----------------------------------------------------------------------------
(* release: do_item_remove without the item lock if the segment is in an   *)
(* item, nothing if it is in a heap buffer.                                *)

ReleaseLoad(c) ==
    /\ At(c, "hold") /\ ThreadReady(c)
    /\ mine[c] # None
    /\ RemoveLoad(c, mine[c])
    /\ Goto(c, "release_store")
    /\ UNCHANGED <<store, locks, want, mine, cur, pos, evict, round>>

ReleaseStore(c) ==
    /\ At(c, "release_store")
    /\ StoreDecr(mine[c], tmp[c])
    /\ tmp' = Set(tmp, c, 0)
    /\ mine' = Set(mine, c, None)
    /\ want' = Set(want, c, None)
    /\ Goto(c, "idle")
    /\ UNCHANGED <<linked, chains, lru, key, content, locks, cur, pos, evict, round>>

ReleaseHeap(c) ==
    /\ At(c, "hold") /\ ThreadReady(c)
    /\ mine[c] = None
    /\ want' = Set(want, c, None)
    /\ Goto(c, "idle")
    /\ UNCHANGED <<store, locks, mine, cur, tmp, pos, evict, round, failed>>

\* The steps of a call in progress.
Continue(c) ==
    \/ HitIncr(c) \/ BumpUnlink(c) \/ BumpLink(c)
    \/ PullBegin(c) \/ PullSkip(c) \/ PullTake(c) \/ PullRef(c) \/ EvictLoad(c)
    \/ EvictStore(c) \/ PullLoad(c) \/ PullStore(c) \/ PullFail(c)
    \/ SlabsAlloc(c) \/ SlabsEmpty(c)
    \/ Fill(c) \/ InsertLoad(c) \/ InsertStore(c) \/ LinkQ(c) \/ LinkLoad(c) \/ LinkStore(c)
    \/ ReleaseStore(c)

Begin(c) ==
    \/ \E k \in Reads[ThreadOf[c]] : ReadHit(c, k) \/ \E cacheFlag \in BOOLEAN : ReadMiss(c, k, cacheFlag)
    \/ ReleaseLoad(c) \/ ReleaseHeap(c)

Next == (\E c \in DOMAIN ThreadOf : Begin(c) \/ Continue(c)) /\ UNCHANGED ThreadOf

Spec == Init /\ [][Next]_vars
-----------------------------------------------------------------------------
Steps == AtRest \cup
    {"hit", "bump_unlink", "bump_link", "pull", "walk", "pull_ref", "evict_load", "evict_store",
     "pull_load", "pull_store", "alloc", "fill", "insert_load", "insert_store", "link_q",
     "link_load", "link_store", "release_store"}

\* The sets the values of the threads, items and chains stay in.
TypeOK ==
    /\ free \subseteq Chunks /\ linked \subseteq Chunks
    /\ head \in [Buckets -> Chunks \cup {None}] /\ h_next \in [Chunks -> Chunks \cup {None}]
    /\ lru \in Seq(Chunks)
    /\ refcount \in [Chunks -> 0 .. RefModulo - 1]
    /\ key \in [Chunks -> Keys \cup {None}] /\ content \in [Chunks -> Keys \cup {None}]
    /\ item_lock \in [Locks -> Clients \cup {None}] /\ lru_lock \in Clients \cup {None}
    /\ pc \in [Clients -> Steps]
    /\ want \in [Clients -> Keys \cup {None}]
    /\ mine \in [Clients -> Chunks \cup {None}] /\ cur \in [Clients -> Chunks \cup {None}]
    /\ tmp \in [Clients -> 0 .. RefModulo - 1] /\ pos \in [Clients -> Nat]
    /\ evict \in [Clients -> BOOLEAN] /\ round \in [Clients -> 0 .. AllocTries - 1]

Quiet == \A c \in Clients : pc[c] \in AtRest

\* One thread of the application uses the cache.
OneThread == \A c, d \in DOMAIN ThreadOf : ThreadOf[c] = ThreadOf[d]

\* What read returned is the segment that was asked for, and stays it until
\* release, although later reads may evict the item and reuse its memory.
SegmentStable ==
    \A c \in Clients : failed = "" /\ pc[c] = "hold" /\ mine[c] # None =>
        mine[c] \notin free /\ content[mine[c]] = want[c]

\* With one thread, SegmentStable holds.
ReadStable == OneThread => SegmentStable

\* With one thread none of the asserts of do_item_remove, item_free,
\* do_item_update, do_item_link_q and assoc_delete fails: no item is freed
\* while it is linked, released when it is already free, or put into the LRU
\* list twice.
AssertsHold == OneThread => failed = ""

\* With one thread the reference counts are exact between calls: a segment
\* that was released by everyone and evicted is on the free list, one still
\* in use is not.
CountsExact ==
    OneThread /\ Quiet => \A i \in Chunks :
        /\ refcount[i] = Cardinality({c \in Clients : mine[c] = i})
                         + (IF i \in linked THEN 1 ELSE 0)
        /\ i \in free <=> refcount[i] = 0

\* With one thread the cache is coherent between calls: the hash chains and
\* the LRU list hold exactly the linked items, and a lookup finds each of them.
ChainsCoherent ==
    OneThread /\ Quiet =>
        /\ Ran(lru) = linked /\ Len(lru) = Cardinality(linked)
        /\ \A i \in linked : assoc_find(key[i]) = i
        /\ \A k \in Keys : Ran(Chain(k)) \subseteq linked

\* Between calls of one thread everything agrees: what GraphCached's release
\* and the evictions of read did in any order has left exact counters, hash
\* chains and LRU list.
BetweenCalls == TypeOK /\ CountsExact /\ ChainsCoherent

\* Threads that read at the same time never all wait for each other, although
\* one that looks for memory holds the LRU lock while it needs item locks.
ReadersProgress ==
    LET busy == {c \in DOMAIN ThreadOf : pc[c] \notin AtRest}
    IN  failed = "" /\ busy # {} => \E c \in busy : ENABLED Continue(c)
=============================================================================
