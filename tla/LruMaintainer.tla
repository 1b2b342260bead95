---------------------------- MODULE LruMaintainer ----------------------------
(***************************************************************************)
(* The segmented LRU of one slab class and the thread that maintains it:   *)
(* items enter HOT (or TEMP), sink to COLD, are rescued to WARM when they  *)
(* are ACTIVE, and a hit on a COLD item is left in a bump buffer for the   *)
(* maintainer.                                                             *)
(*                                                                         *)
(* A list is the sequence of its items, head first; the crawler of a list  *)
(* is an element like any other.  An item stands for its key and its item  *)
(* lock.  Every action that touches a list needs its LRU lock; the lock is *)
(* a variable only where it is held over several steps (lru_pull_tail).    *)
(* Times are unsigned, modulo Word.                                        *)
(***************************************************************************)
EXTENDS Integers, Sequences, FiniteSets, SequencesExt

CONSTANTS
    Items,                   \* item structures, one per key
    LruWorkers,              \* worker threads, each with a bump buffer
    Maintainer,              \* the maintainer thread
    Nobody,                  \* no item, no owner of a lock
    Crawler,                 \* the pseudo item of a crawler
    HotLimit, WarmLimit,     \* items the lists may hold: total_bytes * hot_lru_pct / 100, ...
    HotMaxAge, WarmMaxFactor,
    TempTtl,                 \* settings.temporary_ttl
    UpdateInterval, Word,    \* ITEM_UPDATE_INTERVAL and 2^32
    Exptimes,                \* expiry times items are stored with; 0 is never
    Tries,                   \* items lru_pull_tail looks at
    JuggleLoops,             \* the 500 of lru_maintainer_juggle
    BumpSize,                \* entries of a bump buffer
    MaxSleep,                \* MAX_LRU_MAINTAINER_SLEEP, in milliseconds
    MaxTime,                 \* the last value of the clock
    Starts                   \* states to start from, with settings and bounds

Lrus == {"HOT", "WARM", "COLD", "TEMP"}
Pullers == LruWorkers \cup {Maintainer}

ASSUME LruAssumption ==
    /\ MaxSleep \in Nat \ {0} /\ JuggleLoops \in Nat \ {0}
    /\ {HotLimit, WarmLimit, HotMaxAge, WarmMaxFactor, TempTtl, MaxTime} \subseteq Nat
    /\ {UpdateInterval, Tries, BumpSize} \cup Exptimes \subseteq Nat
    /\ Word > MaxTime + UpdateInterval
ASSUME LruNames ==
    /\ Maintainer \notin LruWorkers /\ Crawler \notin Items
    /\ Nobody \notin Items \cup Pullers \cup {Crawler}
    /\ IsFiniteSet(LruWorkers)

\* The bounds and settings of a start; the time left is a bound of the clock.
Allowance == [ops : Nat, crawls : Nat, dumps : Nat, toggles : Nat, pauses : Nat, until : 0 .. MaxTime,
              tocrawl : Nat, lru_crawler : BOOLEAN, temp_lru : BOOLEAN, garbage : Nat]
ASSUME StartsAssumption ==
    \A s \in Starts :
        /\ s.lru \in Lrus /\ s.list \in Seq(Items) /\ s.exp \in Nat /\ s.left \in Allowance
        /\ \A m, n \in DOMAIN s.list : s.list[m] = s.list[n] => m = n

VARIABLES
    clock,             \* current_time
    items,             \* the header of each item
    lists,             \* the LRU lists
    ilock,             \* owner of each item lock
    lru_lock,          \* the list whose lock each puller holds, or ""
    pull,              \* each puller's call of lru_pull_tail
    wk,                \* what each worker does, and the references it keeps
    bumps,             \* each worker's bump buffer
    mt,                \* the maintainer thread
    maint_lock,        \* owner of lru_maintainer_lock
    left               \* settings, and a bound on every kind of event still to come

lruVars == <<clock, items, lists, ilock, lru_lock, pull, wk, bumps, mt, maint_lock, left>>

Free == [lru |-> "", linked |-> FALSE, fetched |-> FALSE, active |-> FALSE, time |-> 0, exp |-> 0,
         ref |-> 0]
NoPull == [at |-> "", lru |-> "", search |-> Nobody, tries |-> 0, removed |-> 0, to |-> "", age |-> 0]
Resting == [at |-> "idle", it |-> Nobody]

\* A start is a cache with some items in one list; backoff_juggles is not initialised.
LruInit ==
    /\ clock = 0
    /\ \E s \in Starts :
         /\ lists = [l \in Lrus |-> IF l = s.lru THEN s.list ELSE <<>>]
         /\ items = [i \in Items |-> IF i \in Range(s.list)
                                     THEN [Free EXCEPT !.lru = s.lru, !.linked = TRUE, !.fetched = TRUE,
                                                       !.exp = s.exp, !.ref = 1]
                                     ELSE Free]
         /\ left = s.left
    /\ ilock = [i \in Items |-> Nobody]
    /\ lru_lock = [p \in Pullers |-> ""]
    /\ pull = [p \in Pullers |-> NoPull]
    /\ wk = [w \in LruWorkers |-> [job |-> Resting, got |-> {}]]
    /\ bumps = [w \in LruWorkers |-> <<>>]
    /\ mt = [at |-> "sleep", next |-> 0, backoff |-> left.garbage, sleep |-> 1, i |-> 0, more |-> 0, moved |-> FALSE,
             cold_age |-> 0, bufs |-> {}, cur |-> Nobody, size |-> 0, todo |-> <<>>, bumped |-> FALSE]
    /\ maint_lock = Nobody

Unlocked(l) == \A p \in Pullers : lru_lock[p] # l
Expired(i) == items[i].exp # 0 /\ items[i].exp < clock
Stale(i) == items[i].time < (clock - UpdateInterval) % Word

-----------------------------------------------------------------------------
(* The lists and the references.                                           *)

Positions(s, x) == {n \in DOMAIN s : s[n] = x}
Place(s, x) == CHOOSE n \in DOMAIN s : s[n] = x

LinkQ(L, i, l) == [L EXCEPT ![l] = <<i>> \o @]
UnlinkQ(L, i, l) == [L EXCEPT ![l] = RemoveFirst(@, i)]

do_item_remove(m, i) == IF m[i].ref = 1 THEN [m EXCEPT ![i] = Free] ELSE [m EXCEPT ![i].ref = @ - 1]
do_item_unlink(m, i) == do_item_remove([m EXCEPT ![i].linked = FALSE], i)

\* Mutant: an item that has been unlinked since its bump was queued is linked again.
UpdateBlindly(i, m, L) ==
    IF m[i].lru = "COLD" /\ m[i].active
    THEN [items |-> [m EXCEPT ![i].time = clock, ![i].lru = "WARM", ![i].active = FALSE],
          lists |-> LinkQ(UnlinkQ(L, i, "COLD"), i, "WARM")]
    ELSE [items |-> IF Stale(i) THEN [m EXCEPT ![i].time = clock] ELSE m, lists |-> L]

\* do_item_update with settings.lru_segmented: hits on COLD go to WARM.
do_item_update(i, m, L) ==
    IF ~m[i].linked THEN [items |-> m, lists |-> L]
    ELSE IF m[i].lru = "COLD" /\ m[i].active
    THEN [items |-> [m EXCEPT ![i].time = clock, ![i].lru = "WARM", ![i].active = FALSE],
          lists |-> LinkQ(UnlinkQ(L, i, "COLD"), i, "WARM")]
    ELSE [items |-> IF Stale(i) THEN [m EXCEPT ![i].time = clock] ELSE m, lists |-> L]

-----------------------------------------------------------------------------
(* Workers: what a request does to one item, under its item lock.          *)

item_lock(w, i) ==
    /\ wk[w].job = Resting /\ ilock[i] = Nobody /\ left.ops > 0
    /\ ilock' = [ilock EXCEPT ![i] = w]
    /\ wk' = [wk EXCEPT ![w].job = [at |-> "locked", it |-> i]]
    /\ left' = [left EXCEPT !.ops = @ - 1]
    /\ UNCHANGED <<clock, items, lists, lru_lock, pull, bumps, mt, maint_lock>>

Holds(w, i) == wk[w].job = [at |-> "locked", it |-> i]
UnlockKeeping(w, i, refs) ==
    /\ ilock' = [ilock EXCEPT ![i] = Nobody]
    /\ wk' = [wk EXCEPT ![w] = [job |-> Resting, got |-> refs]]
    /\ UNCHANGED <<clock, lru_lock, pull, mt, maint_lock, left>>

\* Allocated, filled, linked, and the reference of the allocation given back.
Store(w, i) ==
    /\ Holds(w, i) /\ items[i] = Free
    /\ \E e \in Exptimes :
         LET l == IF left.temp_lru /\ (e - clock) % Word <= TempTtl THEN "TEMP" ELSE "HOT"
         IN  /\ Unlocked(l)
             /\ items' = [items EXCEPT ![i] = [Free EXCEPT !.lru = l, !.linked = TRUE, !.time = clock,
                                                           !.exp = e, !.ref = 1]]
             /\ lists' = LinkQ(lists, i, l)
    /\ UnlockKeeping(w, i, wk[w].got)
    /\ UNCHANGED bumps

item_unlink(w, i) ==
    /\ Holds(w, i) /\ items[i].linked /\ Unlocked(items[i].lru)
    /\ items' = do_item_unlink(items, i)
    /\ lists' = UnlinkQ(lists, i, items[i].lru)
    /\ UnlockKeeping(w, i, wk[w].got)
    /\ UNCHANGED bumps

item_remove(w, i) ==
    /\ Holds(w, i) /\ i \in wk[w].got
    /\ items' = do_item_remove(items, i)
    /\ UnlockKeeping(w, i, wk[w].got \ {i})
    /\ UNCHANGED <<lists, bumps>>

\* do_item_get of an item that is not there, or that has expired: the latter is unlinked.
GetMiss(w, i) ==
    /\ Holds(w, i)
    /\ \/ ~items[i].linked /\ UNCHANGED <<items, lists>>
       \/ /\ items[i].linked /\ items[i].exp # 0 /\ items[i].exp <= clock /\ Unlocked(items[i].lru)
          /\ items' = do_item_unlink(items, i)
          /\ lists' = UnlinkQ(lists, i, items[i].lru)
    /\ UnlockKeeping(w, i, wk[w].got)
    /\ UNCHANGED bumps

\* Mutant: the reference of a dropped bump is kept.
BumpDroppedHeld(m, i) == [m EXCEPT ![i].ref = @ + 1]

\* lru_bump_async without room gives its reference back; the caller clears the flag.
BumpDropped(m, i) == m

lru_bump_async(w, i, m) ==
    IF Len(bumps[w]) < BumpSize
    THEN items' = [m EXCEPT ![i].active = TRUE, ![i].ref = @ + 1] /\ bumps' = [bumps EXCEPT ![w] = Append(@, i)]
    ELSE items' = BumpDropped(m, i) /\ UNCHANGED bumps

\* A hit: the first marks the item FETCHED, a second ACTIVE.
GetHit(w, i) ==
    /\ Holds(w, i) /\ items[i].linked /\ ~(items[i].exp # 0 /\ items[i].exp <= clock)
    /\ i \notin wk[w].got
    /\ LET hit == [items EXCEPT ![i].ref = @ + 1]
       IN  IF items[i].active THEN items' = hit /\ UNCHANGED bumps
           ELSE IF ~items[i].fetched
           THEN items' = [hit EXCEPT ![i].fetched = TRUE] /\ UNCHANGED bumps
           ELSE IF items[i].lru # "COLD"
           THEN items' = do_item_update(i, [hit EXCEPT ![i].active = TRUE], lists).items /\ UNCHANGED bumps
           ELSE lru_bump_async(w, i, hit)
    /\ UnlockKeeping(w, i, wk[w].got \cup {i})
    /\ UNCHANGED lists

-----------------------------------------------------------------------------
(* lru_pull_tail, called by the maintainer and by an allocation that finds *)
(* no memory.  The LRU lock is held while it walks up from the tail.       *)

Blocks(p, l) == p = Maintainer /\ l # "TEMP"       \* LRU_PULL_CRAWL_BLOCKS
Evicts(p, l) == p # Maintainer /\ l = "COLD"       \* LRU_PULL_EVICT
Above(l, x) == LET n == Place(lists[l], x) IN IF n = 1 THEN Nobody ELSE lists[l][n - 1]
TailOf(l) == IF lists[l] = <<>> THEN Nobody ELSE Last(lists[l])

PullBegin(p, l, age) ==
    /\ pull[p] = NoPull /\ Unlocked(l)
    /\ lru_lock' = [lru_lock EXCEPT ![p] = l]
    /\ pull' = [pull EXCEPT ![p] = [NoPull EXCEPT !.at = "walk", !.lru = l, !.search = TailOf(l),
                                                  !.tries = Tries, !.age = age]]

At(p) == pull[p].search
Walking(p) == pull[p].at = "walk" /\ pull[p].tries > 0 /\ At(p) # Nobody
NextUp(p, tries, removed) ==
    pull' = [pull EXCEPT ![p].search = Above(pull[p].lru, At(p)), ![p].tries = tries, ![p].removed = @ + removed]
pullRest == <<clock, wk, bumps, mt, maint_lock, left>>

\* A crawler costs no try.
PullCrawler(p) ==
    /\ Walking(p) /\ At(p) = Crawler /\ ~Blocks(p, pull[p].lru)
    /\ NextUp(p, pull[p].tries, 0)
    /\ UNCHANGED <<items, lists, ilock, lru_lock, pullRest>>

PullLocked(p) ==
    /\ Walking(p) /\ At(p) \in Items /\ ilock[At(p)] # Nobody
    /\ NextUp(p, pull[p].tries - 1, 0)
    /\ UNCHANGED <<items, lists, ilock, lru_lock, pullRest>>

Taken(p) == Walking(p) /\ At(p) \in Items /\ ilock[At(p)] = Nobody

PullExpired(p) ==
    /\ Taken(p) /\ Expired(At(p))
    /\ items' = do_item_unlink(items, At(p))
    /\ lists' = UnlinkQ(lists, At(p), pull[p].lru)
    /\ NextUp(p, pull[p].tries - 1, 1)
    /\ UNCHANGED <<ilock, lru_lock, pullRest>>

\* An ACTIVE item of WARM stays, at the head unless it has been used lately; the walk goes on.
PullRescue(p) ==
    /\ Taken(p) /\ ~Expired(At(p)) /\ pull[p].lru = "WARM" /\ items[At(p)].active
    /\ items' = [items EXCEPT ![At(p)].active = FALSE, ![At(p)].time = IF Stale(At(p)) THEN clock ELSE @]
    /\ lists' = IF Stale(At(p)) THEN LinkQ(UnlinkQ(lists, At(p), "WARM"), At(p), "WARM") ELSE lists
    /\ NextUp(p, pull[p].tries - 1, 0)
    /\ UNCHANGED <<ilock, lru_lock, pullRest>>

LimitOf(l) == IF l = "HOT" THEN HotLimit ELSE WarmLimit

Size(l) == Len(lists[l]) - Cardinality(Positions(lists[l], Crawler))
Sinks(p, i) == Size(pull[p].lru) > LimitOf(pull[p].lru) \/ clock - items[i].time > pull[p].age

\* The list the item is moved to, if any.
Destination(p, i) ==
    CASE pull[p].lru = "HOT" /\ items[i].active -> "WARM"
      [] pull[p].lru \in {"HOT", "WARM"} /\ ~items[i].active /\ Sinks(p, i) -> "COLD"
      [] pull[p].lru = "COLD" /\ items[i].active /\ ~Evicts(p, "COLD") -> "WARM"
      [] OTHER -> ""

\* The loop has found its item: it is moved, evicted or left, and the walk ends.
PullStop(p) ==
    LET i == At(p)
        to == Destination(p, i)
        evict == Evicts(p, pull[p].lru)
    IN  /\ Taken(p) /\ ~Expired(i) /\ ~(pull[p].lru = "WARM" /\ items[i].active)
        /\ ilock' = [ilock EXCEPT ![i] = p]
        /\ lru_lock' = [lru_lock EXCEPT ![p] = ""]
        /\ items' = LET held == [items EXCEPT ![i].ref = @ + 1,
                                              ![i].active = IF to = "WARM" THEN FALSE ELSE @]
                    IN  IF evict THEN do_item_unlink(held, i) ELSE held
        /\ lists' = IF evict \/ to # "" THEN UnlinkQ(lists, i, pull[p].lru) ELSE lists
        /\ pull' = [pull EXCEPT ![p].at = "settle", ![p].to = to,
                                ![p].removed = IF evict \/ to # "" THEN @ + 1 ELSE @]
        /\ UNCHANGED pullRest

\* What the caller does with the result of lru_pull_tail.
AllocResult(w, removed) ==
    wk' = [wk EXCEPT ![w].job = IF @.at = "COLD" /\ removed = 0 THEN [@ EXCEPT !.at = "HOT"] ELSE Resting]

Backoff(moved) == IF moved THEN mt.backoff \div 2 ELSE IF mt.backoff < MaxSleep THEN mt.backoff + 1 ELSE mt.backoff

\* Mutant: the bumps of a pass that moves nothing are left for later.
JuggleEndIdle(moved) == [mt EXCEPT !.at = "bumps", !.i = 0, !.more = 0, !.moved = FALSE, !.cold_age = 0,
                                   !.backoff = Backoff(moved), !.next = Backoff(moved),
                                   !.bufs = IF moved THEN @ ELSE {}]

JuggleEnd(moved) == [mt EXCEPT !.at = "bumps", !.i = 0, !.more = 0, !.moved = FALSE, !.cold_age = 0,
                               !.backoff = Backoff(moved), !.next = Backoff(moved)]

\* lru_maintainer_juggle: WARM only when HOT had nothing, again while anything moved.
JuggleResult(removed) ==
    CASE mt.at = "TEMP" -> IF removed = 0 \/ mt.i + 1 = JuggleLoops
                           THEN [mt EXCEPT !.at = "age", !.i = 0, !.moved = @ \/ removed > 0]
                           ELSE [mt EXCEPT !.moved = TRUE, !.i = @ + 1]
      [] mt.at = "HOT"  -> [mt EXCEPT !.more = removed, !.at = IF removed = 0 THEN "WARM" ELSE "COLD"]
      [] mt.at = "WARM" -> [mt EXCEPT !.more = removed, !.at = "COLD"]
      [] mt.at = "COLD" -> IF mt.more + removed = 0 THEN JuggleEnd(mt.moved)
                           ELSE IF mt.i + 1 = JuggleLoops THEN JuggleEnd(TRUE)
                           ELSE [mt EXCEPT !.at = "HOT", !.i = @ + 1, !.more = 0, !.moved = TRUE]

Returned(p, removed) ==
    /\ pull' = [pull EXCEPT ![p] = NoPull]
    /\ IF p = Maintainer THEN mt' = JuggleResult(removed) /\ UNCHANGED wk
                         ELSE AllocResult(p, removed) /\ UNCHANGED mt
    /\ UNCHANGED <<clock, bumps, maint_lock, left>>

\* The walk has run out of items or tries, or met a crawler that blocks it.
PullNothing(p) ==
    LET blocked == Walking(p) /\ At(p) = Crawler /\ Blocks(p, pull[p].lru)
    IN  /\ pull[p].at = "walk"
        /\ blocked \/ At(p) = Nobody \/ pull[p].tries = 0
        /\ lru_lock' = [lru_lock EXCEPT ![p] = ""]
        /\ Returned(p, IF blocked THEN 0 ELSE pull[p].removed)
        /\ UNCHANGED <<items, lists, ilock>>

SettleIn(m, i, to) == IF to = "" THEN m ELSE [m EXCEPT ![i].lru = to]

\* Without the LRU lock: link the item where it goes, and let go of it.
PullSettle(p) ==
    LET i == At(p)
        to == pull[p].to
    IN  /\ pull[p].at = "settle" /\ (to = "" \/ Unlocked(to))
        /\ items' = do_item_remove(SettleIn(items, i, to), i)
        /\ lists' = IF to = "" THEN lists ELSE LinkQ(lists, i, to)
        /\ ilock' = [ilock EXCEPT ![i] = Nobody]
        /\ Returned(p, pull[p].removed)
        /\ UNCHANGED lru_lock

PullStep(p) ==
    PullCrawler(p) \/ PullLocked(p) \/ PullExpired(p) \/ PullStop(p)
      \/ PullNothing(p) \/ PullSettle(p)

\* do_item_alloc_pull finds no memory: evict from COLD, and if that fails let HOT sink.
do_item_alloc_pull(w) ==
    /\ wk[w].job = Resting /\ left.ops > 0 /\ \A i \in Items : items[i] # Free
    /\ wk' = [wk EXCEPT ![w].job = [at |-> "COLD", it |-> Nobody]]
    /\ left' = [left EXCEPT !.ops = @ - 1]
    /\ UNCHANGED <<clock, items, lists, ilock, lru_lock, pull, bumps, mt, maint_lock>>

AllocPull(w) ==
    /\ wk[w].job.at \in {"COLD", "HOT"} /\ PullBegin(w, wk[w].job.at, 0)
    /\ UNCHANGED <<items, lists, ilock, pullRest>>

-----------------------------------------------------------------------------
(* The maintainer thread.                                                  *)

\* Sleeps are in milliseconds, rounded down.
Wake ==
    LET last == IF mt.sleep > 1 THEN mt.sleep ELSE 1
        next == IF mt.next > last THEN mt.next - last ELSE 0
    IN  /\ mt.at = "sleep" /\ maint_lock = Nobody
        /\ maint_lock' = Maintainer
        /\ mt' = [mt EXCEPT !.next = next, !.sleep = IF next < MaxSleep THEN next ELSE MaxSleep,
                            !.at = IF next > 0 THEN "bumps" ELSE IF left.temp_lru THEN "TEMP" ELSE "age", !.bufs = LruWorkers,
                            !.bumped = FALSE]
        /\ UNCHANGED <<clock, items, lists, ilock, lru_lock, pull, wk, bumps, left>>

\* The tail of COLD may be a crawler, whose time is 0.
ColdAge ==
    /\ mt.at = "age" /\ Unlocked("COLD")
    /\ LET t == TailOf("COLD")
       IN  mt' = [mt EXCEPT !.at = "HOT", !.cold_age = IF t = Nobody THEN 0
                                                      ELSE IF t = Crawler THEN clock ELSE clock - items[t].time]
    /\ UNCHANGED <<clock, items, lists, ilock, lru_lock, pull, wk, bumps, maint_lock, left>>

JuggleAge == CASE mt.at = "HOT" -> HotMaxAge
               [] mt.at = "WARM" -> mt.cold_age * WarmMaxFactor
               [] OTHER -> 0

lru_maintainer_juggle ==
    /\ mt.at \in Lrus /\ PullBegin(Maintainer, mt.at, JuggleAge)
    /\ UNCHANGED <<items, lists, ilock, pullRest>>

\* lru_maintainer_bumps: what a buffer shows is a prefix of what it holds.
BumpPeek(w) ==
    /\ mt.at = "bumps" /\ w \in mt.bufs
    /\ IF bumps[w] = <<>> THEN mt' = [mt EXCEPT !.bufs = @ \ {w}]
       ELSE \E n \in 1 .. Len(bumps[w]) :
              mt' = [mt EXCEPT !.at = "bump", !.bufs = @ \ {w}, !.cur = w, !.size = n,
                               !.todo = SubSeq(bumps[w], 1, n), !.bumped = TRUE]
    /\ UNCHANGED <<clock, items, lists, ilock, lru_lock, pull, wk, bumps, maint_lock, left>>

BumpOne ==
    LET i == Head(mt.todo)
        done == do_item_update(i, items, lists)
    IN  /\ mt.at = "bump" /\ mt.todo # <<>> /\ ilock[i] = Nobody /\ Unlocked("COLD") /\ Unlocked("WARM")
        /\ items' = do_item_remove(done.items, i)
        /\ lists' = done.lists
        /\ mt' = [mt EXCEPT !.todo = Tail(@)]
        /\ UNCHANGED <<clock, ilock, lru_lock, pull, wk, bumps, maint_lock, left>>

BumpPoll ==
    /\ mt.at = "bump" /\ mt.todo = <<>>
    /\ bumps' = [bumps EXCEPT ![mt.cur] = SubSeq(@, mt.size + 1, Len(@))]
    /\ mt' = [mt EXCEPT !.at = "bumps", !.cur = Nobody, !.size = 0]
    /\ UNCHANGED <<clock, items, lists, ilock, lru_lock, pull, wk, maint_lock, left>>

\* The end of a pass, which the crawler check belongs to; bumps shorten the next sleep.
Rest ==
    /\ mt.at = "bumps" /\ mt.bufs = {}
    /\ mt' = [mt EXCEPT !.at = "sleep", !.bumped = FALSE, !.sleep = IF mt.bumped /\ @ > 1 THEN 1 ELSE @]
    /\ maint_lock' = Nobody
    /\ UNCHANGED <<clock, items, lists, ilock, lru_lock, pull, wk, bumps, left>>

Tick == /\ clock < left.until /\ clock' = clock + 1
        /\ UNCHANGED <<items, lists, ilock, lru_lock, pull, wk, bumps, mt, maint_lock, left>>

Request(w) ==
    \/ \E i \in Items : item_lock(w, i) \/ Store(w, i) \/ item_unlink(w, i) \/ item_remove(w, i)
                          \/ GetMiss(w, i) \/ GetHit(w, i)
    \/ do_item_alloc_pull(w)
Finish(w) ==
    \/ \E i \in Items : Store(w, i) \/ item_unlink(w, i) \/ item_remove(w, i) \/ GetMiss(w, i) \/ GetHit(w, i)
    \/ AllocPull(w) \/ PullStep(w)
Maintain == Wake \/ ColdAge \/ lru_maintainer_juggle \/ PullStep(Maintainer) \/ PullRescue(Maintainer)
              \/ (\E w \in LruWorkers : BumpPeek(w)) \/ BumpOne \/ BumpPoll
=============================================================================
