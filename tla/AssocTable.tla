----------------------------- MODULE AssocTable -----------------------------
(***************************************************************************)
(* The hash table of assoc.c and its growth: assoc_find, assoc_insert and  *)
(* assoc_delete under item locks, the maintenance thread that moves the    *)
(* items bucket by bucket into a table twice as large, and the protocol of *)
(* thread.c that stops the workers while the tables are exchanged.         *)
(*                                                                         *)
(* Callers look a key up before they insert or delete it, under its lock,  *)
(* so an item is its key; the order of a chain is left out.  A worker reads*)
(* "expanding" and "expand_bucket" in two steps.  The maintenance thread   *)
(* moves a bucket in one step: it holds the only item lock of its keys.    *)
(***************************************************************************)
EXTENDS Integers, FiniteSets

CONSTANTS
    Workers, None,
    Keys, HashOf,    \* keys and their hash values
    Active,          \* the keys workers use; the others are there from the start
    LockPower,       \* item_lock_hashpower
    InitPower,       \* hashpower at the start
    MaxPower         \* no memory for a larger table

ASSUME HashAssumption == HashOf \in [Keys -> Nat]
ASSUME KeysAssumption == IsFiniteSet(Keys) /\ Active \subseteq Keys
ASSUME WorkersAssumption == IsFiniteSet(Workers) /\ None \notin Workers
\* memcached_thread_init refuses to start otherwise.
ASSUME PowerAssumption ==
    /\ LockPower \in Nat /\ InitPower \in Nat /\ MaxPower \in Nat
    /\ LockPower < InitPower /\ InitPower <= MaxPower
\* What the provers are not told of powers.
ASSUME SizeAssumption == \A n \in 0 .. MaxPower : 2 ^ n \in Nat \ {0}

VARIABLES
    hashpower, primary, old, expanding, expand_bucket, started_expanding, hash_items,
    item_lock,
    mpc,             \* the maintenance thread
    hang,            \* worker_hang_lock is held
    note,            \* workers with an unread pause message in their pipe
    init_count,      \* workers that have answered this pause
    wpc, op, key,    \* a worker's operation
    saw,             \* the value of "expanding" it has read
    answer           \* whether its key was there

table == <<hashpower, primary, old, expanding, expand_bucket>>
pause == <<hang, note, init_count>>
worker == <<wpc, op, key, saw, answer>>
vars == <<table, started_expanding, hash_items, item_lock, mpc, pause, worker>>

hashsize(n) == 2 ^ n
BucketsOf(n) == 0 .. hashsize(n) - 1
Masked(k, n) == HashOf[k] % hashsize(n)
LockOf(k) == Masked(k, LockPower)
Set(f, w, v) == [f EXCEPT ![w] = v]
-----------------------------------------------------------------------------
\* Which table assoc_find, assoc_insert and _hashitem_before use: seen is what
\* was read of "expanding".
InOld(k, seen) == seen /\ Masked(k, hashpower - 1) >= expand_bucket

Bucket(k, seen) ==
    IF InOld(k, seen) THEN old[Masked(k, hashpower - 1)] ELSE primary[Masked(k, hashpower)]

\* The table with k's bucket replaced by b.
Store(k, seen, b) ==
    IF InOld(k, seen) THEN /\ old' = Set(old, Masked(k, hashpower - 1), b)
                           /\ UNCHANGED primary
    ELSE /\ primary' = Set(primary, Masked(k, hashpower), b)
         /\ UNCHANGED old

Init ==
    /\ hashpower = InitPower
    /\ primary = [b \in BucketsOf(InitPower) |-> {k \in Keys \ Active : Masked(k, InitPower) = b}]
    /\ old = <<>>
    /\ expanding = FALSE /\ expand_bucket = 0 /\ started_expanding = FALSE
    /\ hash_items = Cardinality(Keys \ Active)
    /\ item_lock = [l \in BucketsOf(LockPower) |-> None]
    /\ mpc = "loop" /\ hang = FALSE /\ note = {} /\ init_count = 0
    /\ wpc = [w \in Workers |-> "idle"]
    /\ op = [w \in Workers |-> "find"] /\ key = [w \in Workers |-> None]
    /\ saw = [w \in Workers |-> FALSE] /\ answer = [w \in Workers |-> FALSE]
-----------------------------------------------------------------------------
(* Workers.                                                                *)

\* item_lock, and the read of "expanding".
Begin(w, k, o) ==
    /\ wpc[w] = "idle"
    /\ item_lock[LockOf(k)] = None
    /\ item_lock' = Set(item_lock, LockOf(k), w)
    /\ op' = Set(op, w, o) /\ key' = Set(key, w, k)
    /\ saw' = Set(saw, w, expanding)
    /\ wpc' = Set(wpc, w, "access")
    /\ UNCHANGED <<table, started_expanding, hash_items, mpc, pause, answer>>

Found(w) == key[w] \in Bucket(key[w], saw[w])

Unlock(w) ==
    /\ item_lock' = Set(item_lock, LockOf(key[w]), None)
    /\ wpc' = Set(wpc, w, "idle")

Answer(w) == answer' = Set(answer, w, Found(w))

\* assoc_find, or an insert or delete that has nothing to do.
Find(w) ==
    /\ wpc[w] = "access"
    /\ op[w] = "find" \/ (op[w] = "insert") = Found(w)
    /\ Answer(w)
    /\ Unlock(w)
    /\ UNCHANGED <<table, started_expanding, hash_items, mpc, pause, op, key, saw>>

\* assoc_insert links the item ...
Insert(w) ==
    /\ wpc[w] = "access" /\ op[w] = "insert" /\ ~Found(w)
    /\ Answer(w)
    /\ Store(key[w], saw[w], Bucket(key[w], saw[w]) \cup {key[w]})
    /\ wpc' = Set(wpc, w, "count")
    /\ UNCHANGED <<hashpower, expanding, expand_bucket, started_expanding, hash_items, item_lock, mpc, pause, op, key, saw>>

TooFull(n) == n > (hashsize(hashpower) * 3) \div 2

\* ... then counts it; assoc_start_expand signals maintenance_cond without
\* maintenance_lock, which wakes the maintenance thread only if it waits.
Count(w) ==
    /\ wpc[w] = "count"
    /\ hash_items' = hash_items + 1
    /\ IF ~expanding /\ TooFull(hash_items + 1) /\ ~started_expanding
       THEN /\ started_expanding' = TRUE
            /\ mpc' = IF mpc = "waiting" THEN "woken" ELSE mpc
       ELSE UNCHANGED <<started_expanding, mpc>>
    /\ Unlock(w)
    /\ UNCHANGED <<table, pause, op, key, saw, answer>>

\* assoc_delete.
Delete(w) ==
    /\ wpc[w] = "access" /\ op[w] = "delete" /\ Found(w)
    /\ Answer(w)
    /\ Store(key[w], saw[w], Bucket(key[w], saw[w]) \ {key[w]})
    /\ hash_items' = hash_items - 1
    /\ Unlock(w)
    /\ UNCHANGED <<hashpower, expanding, expand_bucket, started_expanding, mpc, pause, op, key, saw>>

\* A worker gets the pause message between two operations, registers and
\* blocks on worker_hang_lock.
Pause(w) ==
    /\ wpc[w] = "idle" /\ w \in note
    /\ note' = note \ {w}
    /\ init_count' = init_count + 1
    /\ wpc' = Set(wpc, w, "paused")
    /\ UNCHANGED <<table, started_expanding, hash_items, item_lock, mpc, hang, op, key, saw, answer>>

Resume(w) ==
    /\ wpc[w] = "paused" /\ ~hang
    /\ wpc' = Set(wpc, w, "idle")
    /\ UNCHANGED <<table, started_expanding, hash_items, item_lock, mpc, pause, op, key, saw, answer>>
-----------------------------------------------------------------------------
(* assoc_maintenance_thread.                                               *)

Last == expand_bucket + 1 = hashsize(hashpower - 1)

\* Mutant: the bucket of the old table is not cleared.
MoveKeeps ==
    /\ mpc = "loop" /\ expanding
    /\ item_lock[expand_bucket % hashsize(LockPower)] = None
    /\ primary' = [b \in DOMAIN primary |->
                     primary[b] \cup {k \in old[expand_bucket] : Masked(k, hashpower) = b}]
    /\ old' = IF Last THEN <<>> ELSE old
    /\ expand_bucket' = expand_bucket + 1
    /\ expanding' = ~Last
    /\ UNCHANGED <<hashpower, started_expanding, hash_items, item_lock, mpc, pause, worker>>

\* item_trylock(expand_bucket), and one bucket moved; the old table is freed
\* with the last one.
Move ==
    /\ mpc = "loop" /\ expanding
    /\ item_lock[expand_bucket % hashsize(LockPower)] = None
    /\ primary' = [b \in DOMAIN primary |->
                     primary[b] \cup {k \in old[expand_bucket] : Masked(k, hashpower) = b}]
    /\ old' = IF Last THEN <<>> ELSE Set(old, expand_bucket, {})
    /\ expand_bucket' = expand_bucket + 1
    /\ expanding' = ~Last
    /\ UNCHANGED <<hashpower, started_expanding, hash_items, item_lock, mpc, pause, worker>>

\* Not expanding: allow the next invocation ...
Rearm ==
    /\ mpc = "loop" /\ ~expanding
    /\ started_expanding' = FALSE
    /\ mpc' = "rearmed"
    /\ UNCHANGED <<table, hash_items, item_lock, pause, worker>>

\* ... and wait for it.
Wait ==
    /\ mpc = "rearmed"
    /\ mpc' = "waiting"
    /\ UNCHANGED <<table, started_expanding, hash_items, item_lock, pause, worker>>

\* pause_threads(PAUSE_ALL_THREADS).
PauseAll ==
    /\ mpc = "woken"
    /\ hang' = TRUE /\ note' = Workers /\ init_count' = 0
    /\ mpc' = "pausing"
    /\ UNCHANGED <<table, started_expanding, hash_items, item_lock, worker>>

\* Mutant: the maintenance thread goes on when all but one have answered.
RegisteredButOne == init_count >= Cardinality(Workers) - 1

\* wait_for_thread_registration.
Registered == init_count >= Cardinality(Workers)

\* assoc_expand, with or without memory, then RESUME_ALL_THREADS.
Expand ==
    /\ mpc = "pausing" /\ Registered
    /\ hashpower < MaxPower
    /\ old' = primary
    /\ primary' = [b \in BucketsOf(hashpower + 1) |-> {}]
    /\ hashpower' = hashpower + 1
    /\ expanding' = TRUE /\ expand_bucket' = 0
    /\ hang' = FALSE /\ mpc' = "loop"
    /\ UNCHANGED <<note, init_count, started_expanding, hash_items, item_lock, worker>>

ExpandFails ==
    /\ mpc = "pausing" /\ Registered
    /\ hang' = FALSE /\ mpc' = "loop"
    /\ UNCHANGED <<note, init_count, table, started_expanding, hash_items, item_lock, worker>>

Maintain == Move \/ Rearm \/ Wait \/ PauseAll \/ Expand \/ ExpandFails

Work(w) == Find(w) \/ Insert(w) \/ Count(w) \/ Delete(w)

Next ==
    \/ Maintain
    \/ \E w \in Workers :
          \/ Work(w) \/ Pause(w) \/ Resume(w)
          \/ \E k \in Active, o \in {"find", "insert", "delete"} : Begin(w, k, o)

Spec == Init /\ [][Next]_vars
-----------------------------------------------------------------------------
\* The sets the values stay in; the bucket to migrate next is one of the old table.
TypeOK ==
    /\ hashpower \in InitPower .. MaxPower
    /\ primary \in [BucketsOf(hashpower) -> SUBSET Keys]
    /\ expanding \in BOOLEAN /\ started_expanding \in BOOLEAN
    /\ old \in IF expanding THEN [BucketsOf(hashpower - 1) -> SUBSET Keys] ELSE {<<>>}
    /\ expand_bucket \in 0 .. hashsize(hashpower - 1)
    /\ hash_items \in 0 .. Cardinality(Keys)
    /\ item_lock \in [BucketsOf(LockPower) -> Workers \cup {None}]
    /\ mpc \in {"loop", "rearmed", "waiting", "woken", "pausing"}
    /\ hang \in BOOLEAN /\ note \subseteq Workers /\ init_count \in 0 .. Cardinality(Workers)
    /\ wpc \in [Workers -> {"idle", "access", "count", "paused"}]
    /\ op \in [Workers -> {"find", "insert", "delete"}] /\ key \in [Workers -> Active \cup {None}]
    /\ saw \in [Workers -> BOOLEAN] /\ answer \in [Workers -> BOOLEAN]

\* The keys a lookup finds now.
Present == {k \in Keys : k \in Bucket(k, expanding)}

K == INSTANCE KeySet WITH present <- Present

\* Growing is invisible: whatever bucket is being moved, and although a worker
\* may act on an outdated "expanding", each find, insert and delete has the
\* effect and the answer it has on a plain set.
ImplementsKeySet == K!Spec

\* A key is in one bucket of the two tables, and only there: the maintenance
\* thread neither copies an item nor leaves one behind.
StoredOnce ==
    \A k \in Keys :
        Cardinality({b \in DOMAIN primary : k \in primary[b]})
            + Cardinality({b \in DOMAIN old : k \in old[b]}) <= 1

\* hash_items, which decides when the table grows, counts what is in it.
CountExact ==
    hash_items = Cardinality(Present) - Cardinality({w \in Workers : wpc[w] = "count"})

\* The two tables of a growing hash table hold together what assoc_insert put
\* in and assoc_delete has not taken out, once, and are counted so.
TableExact == TypeOK /\ StoredOnce /\ CountExact

\* "We are done expanding.. just wait for next invocation": the maintenance
\* thread does not wait while an invocation is pending.
InvocationNotMissed == mpc = "waiting" => ~started_expanding
=============================================================================
