------------------------------- MODULE Store -------------------------------
(***************************************************************************)
(* What the storage commands do to the items of the cache.  Every operator *)
(* is the work done under the lock of the item's stripe (store_item,       *)
(* add_delta, item_get, ... of thread.c), hence one step of a worker.  How *)
(* those locks, the LRU lists and eviction really work is the subject of   *)
(* ItemCache; here an allocation takes a free item, or evicts one that     *)
(* nobody holds, or fails.                                                 *)
(*                                                                         *)
(* A value is a sequence of digits, -1 standing for a byte that is not a   *)
(* digit; room is nbytes without the trailing \r\n.  An operator returns   *)
(* the new store with its result in a record.                              *)
(***************************************************************************)
EXTENDS Integers, Sequences

CONSTANTS
    Keys, Items, None,
    Word,            \* incr wraps at this number, which stands for 2^64
    Big,             \* a value of this room or more is stored in chunks
    ITEM_UPDATE_INTERVAL

ASSUME StoreAssumption ==
    /\ Word \in 11 .. 100 /\ Big \in Nat \ {0} /\ ITEM_UPDATE_INTERVAL \in Nat
    /\ None \notin Keys \cup Items

FreeItem == [ref |-> 0, key |-> None, val |-> <<>>, room |-> 0, cas |-> 0,
             exp |-> 0, time |-> 0]

\* The server starts two seconds after its epoch, see stats_init.
StoreInit(items) ==
    [link |-> [k \in Keys |-> None], item |-> [i \in items |-> FreeItem],
     cas_id |-> 0, now |-> 2, oldest_live |-> 0, oldest_cas |-> 0]

Linked(s, i) == s.item[i].key # None /\ s.link[s.item[i].key] = i
Chunked(s, i) == s.item[i].room >= Big

-----------------------------------------------------------------------------
(* References, links and lookup.                                           *)

do_item_remove(s, i) ==
    IF s.item[i].ref = 1 THEN [s EXCEPT !.item[i] = FreeItem]
                         ELSE [s EXCEPT !.item[i].ref = @ - 1]

do_item_unlink(s, i) ==
    IF Linked(s, i)
      THEN do_item_remove([s EXCEPT !.link[s.item[i].key] = None], i)
      ELSE s

do_item_link(s, i) ==
    [s EXCEPT !.cas_id = @ + 1,
              !.link[s.item[i].key] = i,
              !.item[i].ref = @ + 1, !.item[i].time = s.now, !.item[i].cas = s.cas_id + 1]

do_item_replace(s, old, new) == do_item_link(do_item_unlink(s, old), new)

\* Mutant: what was stored in the second of the flush is not told apart.
FlushedByTime(s, i) ==
    s.oldest_live # 0 /\ s.oldest_live <= s.now /\ s.item[i].time <= s.oldest_live

item_is_flushed(s, i) ==
    /\ s.oldest_live # 0
    /\ s.oldest_live <= s.now
    /\ \/ s.item[i].time <= s.oldest_live
       \/ s.oldest_cas # 0 /\ s.item[i].cas # 0 /\ s.item[i].cas < s.oldest_cas

Expired(s, i) == s.item[i].exp # 0 /\ s.item[i].exp <= s.now

\* The reference taken on a dead item is given back after the unlink.
do_item_get(s, k) ==
    LET i == s.link[k]
    IN  IF i = None THEN [s |-> s, it |-> None]
        ELSE IF item_is_flushed(s, i) \/ Expired(s, i)
               THEN [s |-> do_item_unlink(s, i), it |-> None]
               ELSE [s |-> [s EXCEPT !.item[i].ref = @ + 1], it |-> i]

\* The unsigned difference wraps in the first seconds of the server.
do_item_update(s, i) ==
    IF s.now < ITEM_UPDATE_INTERVAL \/ s.item[i].time < s.now - ITEM_UPDATE_INTERVAL
      THEN [s EXCEPT !.item[i].time = s.now] ELSE s

item_get(s, k) ==
    LET g == do_item_get(s, k)
    IN  IF g.it = None THEN g ELSE [g EXCEPT !.s = do_item_update(g.s, g.it)]

item_touch(s, k, exp) ==
    LET g == item_get(s, k)
    IN  IF g.it = None THEN g ELSE [g EXCEPT !.s.item[g.it].exp = exp]

\* A relative time; zero means never.
realtime(s, exptime) == IF exptime = 0 THEN 0 ELSE exptime + s.now

-----------------------------------------------------------------------------
(* Allocation.  Which free item is taken does not matter; any linked item  *)
(* that nobody holds may be at the LRU tail, and the tail may be locked.   *)

NewItem(s, i, k, room, exp) ==
    [s |-> [s EXCEPT !.item[i] = [FreeItem EXCEPT !.ref = 1, !.key = k, !.room = room,
                                                  !.exp = exp]],
     it |-> i]

do_item_alloc(s, k, room, exp) ==
    LET free == {i \in DOMAIN s.item : s.item[i].ref = 0}
    IN  IF free # {} THEN {NewItem(s, CHOOSE i \in free : TRUE, k, room, exp)}
        ELSE {[s |-> s, it |-> None]} \cup
             {NewItem(do_item_unlink(s, i), i, k, room, exp) :
                i \in {j \in DOMAIN s.item : Linked(s, j) /\ s.item[j].ref = 1}}

-----------------------------------------------------------------------------
(* do_store_item.  A failed copy of a chunked value calls item_remove,     *)
(* which takes the item lock that the caller already holds: the worker     *)
(* waits for itself, the result HANG.                                      *)

Joined(comm, old, add) == IF comm = "append" THEN old \o add ELSE add \o old

\* The part of do_store_item that makes the new value of append and prepend.
StoreJoined(s, old, i, comm) ==
    LET a == s.item[old]
        b == s.item[i]
        Stored(r) == LET t == [r.s EXCEPT !.item[r.it].val = Joined(comm, a.val, b.val)]
                     IN  [s |-> do_item_remove(do_item_replace(t, old, r.it), r.it),
                          ret |-> "STORED"]
    IN  IF b.cas # 0 /\ b.cas # a.cas
          THEN {[s |-> s, ret |-> "EXISTS"]}
          ELSE UNION {IF r.it = None THEN {[s |-> s, ret |-> "NOT_STORED"]}
                      ELSE {Stored(r)} \cup
                           IF Chunked(r.s, r.it) THEN {[s |-> r.s, ret |-> "HANG"]} ELSE {} :
                      r \in do_item_alloc(s, a.key, a.room + b.room, a.exp)}

do_store_item(s0, i, comm) ==
    LET g == do_item_get(s0, s0.item[i].key)
        s == g.s
        old == g.it
        Done(r) == IF old = None \/ r.ret = "HANG" THEN r
                   ELSE [r EXCEPT !.s = do_item_remove(r.s, old)]
        results ==
          CASE comm = "add" /\ old # None ->
                 {[s |-> do_item_update(s, old), ret |-> "NOT_STORED"]}
            [] old = None /\ comm \in {"replace", "append", "prepend"} ->
                 {[s |-> s, ret |-> "NOT_STORED"]}
            [] comm = "cas" /\ old = None -> {[s |-> s, ret |-> "NOT_FOUND"]}
            [] comm = "cas" /\ old # None ->
                 IF s.item[i].cas = s.item[old].cas
                   THEN {[s |-> do_item_replace(s, old, i), ret |-> "STORED"]}
                   ELSE {[s |-> s, ret |-> "EXISTS"]}
            [] comm \in {"append", "prepend"} /\ old # None -> StoreJoined(s, old, i, comm)
            [] OTHER ->
                 {[s |-> IF old = None THEN do_item_link(s, i) ELSE do_item_replace(s, old, i),
                   ret |-> "STORED"]}
    IN  {Done(r) : r \in results}

-----------------------------------------------------------------------------
(* do_add_delta.                                                           *)

Numeric(v) == v # <<>> /\ Len(v) <= 2 /\ \A n \in 1 .. Len(v) : v[n] >= 0
Number(v) == IF Len(v) = 1 THEN v[1] ELSE 10 * v[1] + v[2]
Digits(n) == IF n < 10 THEN <<n>> ELSE <<n \div 10, n % 10>>

Delta(v, incr, delta) ==
    IF incr THEN (v + delta) % Word ELSE IF delta > v THEN 0 ELSE v - delta

\* Mutant: the references are not looked at.
InPlaceHeld(s, i, v) == Len(v) <= s.item[i].room

\* refcount = 2: linked, and only this thread holds it, so nobody is reading
\* the value that is overwritten.
InPlace(s, i, v) == Len(v) <= s.item[i].room /\ s.item[i].ref = 2

\* Mutant: the cas id stays.
UpdateSameCas(s, i, v) == do_item_update([s EXCEPT !.item[i].val = v], i)

UpdateInPlace(s, i, v) ==
    do_item_update([s EXCEPT !.cas_id = @ + 1,
                             !.item[i].cas = s.cas_id + 1, !.item[i].val = v], i)

\* The early return for an empty or chunked value keeps the reference.
do_add_delta(s0, k, incr, delta, cas) ==
    LET g == do_item_get(s0, k)
        s == g.s
        i == g.it
        Drop(r) == [r EXCEPT !.s = do_item_remove(r.s, i)]
        v == Digits(Delta(Number(s.item[i].val), incr, delta))
        Moved(r) ==
          IF r.it = None THEN [s |-> s, ret |-> "EOM", val |-> <<>>]
          ELSE LET t == do_item_replace([r.s EXCEPT !.item[r.it].val = v], i, r.it)
               IN  [s |-> do_item_remove([t EXCEPT !.item[i].cas = t.item[r.it].cas], r.it),
                    ret |-> "OK", val |-> v]
    IN  IF i = None THEN {[s |-> s, ret |-> "NOT_FOUND", val |-> <<>>]}
        ELSE IF s.item[i].room = 0 \/ Chunked(s, i)
               THEN {[s |-> s, ret |-> "NON_NUMERIC", val |-> <<>>]}
        ELSE IF cas # 0 /\ s.item[i].cas # cas
               THEN {Drop([s |-> s, ret |-> "CAS_MISMATCH", val |-> <<>>])}
        ELSE IF ~Numeric(s.item[i].val)
               THEN {Drop([s |-> s, ret |-> "NON_NUMERIC", val |-> <<>>])}
        ELSE IF InPlace(s, i, v)
               THEN {Drop([s |-> UpdateInPlace(s, i, v), ret |-> "OK", val |-> v])}
        ELSE {Drop(Moved(r)) : r \in do_item_alloc(s, k, Len(v), s.item[i].exp)}

-----------------------------------------------------------------------------
(* flush_all.  What is stored in the second of the flush is told apart by  *)
(* its cas id.                                                             *)
Flush(s, exptime) ==
    LET live == (IF exptime > 0 THEN realtime(s, exptime) ELSE s.now) - 1
    IN  IF live <= s.now
          THEN [s EXCEPT !.oldest_live = live, !.cas_id = @ + 1, !.oldest_cas = s.cas_id + 1]
          ELSE [s EXCEPT !.oldest_live = live]
=============================================================================
