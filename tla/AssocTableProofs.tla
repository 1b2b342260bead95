-------------------------- MODULE AssocTableProofs --------------------------
(***************************************************************************)
(* The hash table keeps every key once and counts it, whatever the         *)
(* maintenance thread is moving, and behaves like a set: for any keys,     *)
(* hash values, workers and table sizes.                                   *)
(***************************************************************************)
EXTENDS AssocTable, FiniteSetTheorems, FunctionTheorems, TLAPS

\* Workers between assoc_insert's link and its count.
Counting == {w \in Workers : wpc[w] = "count"}
InUse == {key[w] : w \in Counting}
Busy(w) == wpc[w] \in {"access", "count"}

\* A key is in the bucket its hash names: in the old table from the bucket on
\* that is moved next, in the new one before it.
Homes ==
    /\ \A b \in BucketsOf(hashpower) : \A k \in primary[b] :
          /\ Masked(k, hashpower) = b
          /\ expanding => Masked(k, hashpower - 1) < expand_bucket
    /\ expanding => \A b \in BucketsOf(hashpower - 1) : \A k \in old[b] :
          Masked(k, hashpower - 1) = b /\ expand_bucket <= b

\* Who works on a key has its lock; what it has read of "expanding" is still
\* true, or the bucket index tells the same.
WorkersOK ==
    \A w \in Workers :
        /\ Busy(w) => key[w] \in Active /\ item_lock[LockOf(key[w])] = w
        /\ wpc[w] = "count" => key[w] \in Present
        /\ wpc[w] = "access" =>
              /\ expanding => saw[w]
              /\ saw[w] /\ ~expanding => expand_bucket = hashsize(hashpower - 1)

\* Who has answered the pause is stopped until its end.
PauseOK ==
    IF mpc = "pausing"
    THEN /\ hang
         /\ init_count = Cardinality(Workers \ note)
         /\ \A w \in Workers \ note : wpc[w] = "paused"
    ELSE note = {}

\* hash_items counts what is in the table but for the keys still to be counted.
CountOK == hash_items = Cardinality(Present \ InUse)

\* The sizes that the type invariant speaks of, but for hash_items, whose
\* bounds follow from CountOK.
TypesOK ==
    /\ hashpower \in InitPower .. MaxPower
    /\ primary \in [BucketsOf(hashpower) -> SUBSET Keys]
    /\ expanding \in BOOLEAN /\ started_expanding \in BOOLEAN
    /\ old \in IF expanding THEN [BucketsOf(hashpower - 1) -> SUBSET Keys] ELSE {<<>>}
    /\ expand_bucket \in 0 .. hashsize(hashpower - 1)
    /\ expanding => expand_bucket < hashsize(hashpower - 1)
    /\ item_lock \in [BucketsOf(LockPower) -> Workers \cup {None}]
    /\ mpc \in {"loop", "rearmed", "waiting", "woken", "pausing"}
    /\ expanding => mpc = "loop"
    /\ hang \in BOOLEAN /\ note \subseteq Workers /\ init_count \in 0 .. Cardinality(Workers)
    /\ wpc \in [Workers -> {"idle", "access", "count", "paused"}]
    /\ op \in [Workers -> {"find", "insert", "delete"}] /\ key \in [Workers -> Active \cup {None}]
    /\ saw \in [Workers -> BOOLEAN] /\ answer \in [Workers -> BOOLEAN]

IInv == TypesOK /\ Homes /\ WorkersOK /\ PauseOK /\ CountOK

-----------------------------------------------------------------------------
(* The table as a whole.                                                   *)

\* Sizes of the tables that exist are positive, and masking stays below them.
LEMMA Sizes ==
    ASSUME TypesOK
    PROVE  /\ hashpower \in Nat /\ hashpower - 1 \in Nat
           /\ hashsize(hashpower) \in Nat \ {0} /\ hashsize(hashpower - 1) \in Nat \ {0}
           /\ hashsize(LockPower) \in Nat \ {0}
BY PowerAssumption, SizeAssumption DEF TypesOK, hashsize

LEMMA ModBound == ASSUME NEW h \in Nat, NEW m \in Nat \ {0} PROVE h % m \in 0 .. m - 1
OBVIOUS

LEMMA MaskedInBuckets ==
    ASSUME NEW k \in Keys, NEW n \in Nat, hashsize(n) \in Nat \ {0}
    PROVE  Masked(k, n) \in BucketsOf(n)
BY HashAssumption, ModBound DEF Masked, BucketsOf

\* A lookup finds exactly what is somewhere in the tables.
LEMMA PresentIs ==
    ASSUME TypesOK, Homes, NEW k \in Keys
    PROVE  k \in Present <=>
             \/ \E b \in BucketsOf(hashpower) : k \in primary[b]
             \/ expanding /\ \E b \in BucketsOf(hashpower - 1) : k \in old[b]
<1>1. Masked(k, hashpower) \in BucketsOf(hashpower) /\ Masked(k, hashpower - 1) \in BucketsOf(hashpower - 1)
  BY Sizes, MaskedInBuckets
<1>2. expand_bucket \in Nat /\ \A b \in BucketsOf(hashpower - 1) : b \in Nat
  BY Sizes DEF TypesOK, BucketsOf
<1>3. CASE expanding /\ Masked(k, hashpower - 1) >= expand_bucket
  <2>1. k \in Present <=> k \in old[Masked(k, hashpower - 1)]
    BY <1>3 DEF Present, Bucket, InOld
  <2>2. \A b \in BucketsOf(hashpower) : k \notin primary[b]
    BY <1>1, <1>2, <1>3 DEF Homes
  <2> QED BY <1>1, <1>3, <2>1, <2>2 DEF Homes
<1>4. CASE ~(expanding /\ Masked(k, hashpower - 1) >= expand_bucket)
  <2>1. k \in Present <=> k \in primary[Masked(k, hashpower)]
    BY <1>4 DEF Present, Bucket, InOld
  <2>2. expanding => \A b \in BucketsOf(hashpower - 1) : k \notin old[b]
    BY <1>1, <1>2, <1>4 DEF Homes
  <2> QED BY <1>1, <1>4, <2>1, <2>2 DEF Homes
<1> QED BY <1>3, <1>4

\* A worker that acts on what it has read of "expanding" finds the bucket that
\* it would find now.
LEMMA SawIsEnough ==
    ASSUME TypesOK, WorkersOK, NEW w \in Workers, wpc[w] = "access"
    PROVE  /\ key[w] \in Keys
           /\ InOld(key[w], saw[w]) <=> InOld(key[w], expanding)
           /\ Found(w) <=> key[w] \in Present
<1>1. key[w] \in Keys
  BY KeysAssumption DEF WorkersOK, Busy
<1>2. Masked(key[w], hashpower - 1) \in 0 .. hashsize(hashpower - 1) - 1
  BY <1>1, Sizes, MaskedInBuckets DEF BucketsOf
<1>3. InOld(key[w], saw[w]) <=> InOld(key[w], expanding)
  BY <1>2, Sizes DEF InOld, WorkersOK, TypesOK
<1>4. Found(w) <=> key[w] \in Present
  BY <1>1, <1>3 DEF Found, Present, Bucket
<1> QED BY <1>1, <1>3, <1>4

\* Workers at work have different keys.
LEMMA OwnKey ==
    ASSUME TypesOK, WorkersOK, NEW v \in Workers, NEW w \in Workers, Busy(v), Busy(w),
           LockOf(key[v]) = LockOf(key[w])
    PROVE  v = w
BY DEF WorkersOK

LEMMA FiniteTable == IsFiniteSet(Present) /\ IsFiniteSet(Present')
<1>1. Present \subseteq Keys /\ Present' \subseteq Keys
  BY DEF Present
<1> QED BY <1>1, KeysAssumption, FS_Subset


\* The part of TypesOK and Homes that speaks of the tables.
TablesOK ==
    /\ primary \in [BucketsOf(hashpower) -> SUBSET Keys]
    /\ old \in IF expanding THEN [BucketsOf(hashpower - 1) -> SUBSET Keys] ELSE {<<>>}
    /\ Homes

\* Linking a key to the bucket that a lookup of it searches, or taking it out,
\* changes what is present by that key and leaves every key at home.
LEMMA StoreWrites ==
    ASSUME TypesOK, Homes, NEW k \in Keys, NEW seen \in BOOLEAN,
           InOld(k, seen) <=> InOld(k, expanding),
           NEW s, Store(k, seen, s),
           UNCHANGED <<hashpower, expanding, expand_bucket>>,
           s \subseteq Bucket(k, seen) \cup {k}, Bucket(k, seen) \ {k} \subseteq s
    PROVE  /\ TablesOK'
           /\ k \in Present' <=> k \in s
           /\ \A j \in Keys \ {k} : j \in Present' <=> j \in Present
<1> DEFINE h == hashpower
<1>1. Masked(k, h) \in BucketsOf(h) /\ Masked(k, h - 1) \in BucketsOf(h - 1)
  BY Sizes, MaskedInBuckets
<1>2. expand_bucket \in Nat /\ \A b \in BucketsOf(h - 1) : b \in Nat
  BY Sizes DEF TypesOK, BucketsOf
<1>3. CASE InOld(k, seen)
  <2>1. expanding /\ Masked(k, h - 1) >= expand_bucket
    BY <1>3 DEF InOld
  <2>2. /\ primary' = primary
        /\ old' = [old EXCEPT ![Masked(k, h - 1)] = s]
        /\ old \in [BucketsOf(h - 1) -> SUBSET Keys]
        /\ s \subseteq old[Masked(k, h - 1)] \cup {k} /\ old[Masked(k, h - 1)] \ {k} \subseteq s
    BY <1>3, <2>1 DEF Store, Set, Bucket, TypesOK
  <2>3. TablesOK'
    <3>1. s \subseteq Keys
      BY <1>1, <2>2
    <3>2. old' \in [BucketsOf(h - 1) -> SUBSET Keys]
      BY <2>2, <3>1
    <3>3. \A b \in BucketsOf(h - 1) : \A j \in old'[b] : Masked(j, h - 1) = b /\ expand_bucket <= b
      BY <1>1, <1>2, <2>1, <2>2 DEF Homes
    <3> QED BY <2>1, <2>2, <3>2, <3>3 DEF TablesOK, Homes, TypesOK, BucketsOf, Masked
  <2>4. k \in Present' <=> k \in s
    BY <1>1, <2>1, <2>2 DEF Present, Bucket, InOld, Masked
  <2>5. ASSUME NEW j \in Keys, j # k PROVE j \in Present' <=> j \in Present
    <3>1. Masked(j, h - 1) \in BucketsOf(h - 1)
      BY Sizes, MaskedInBuckets
    <3>2. j \in old'[Masked(j, h - 1)] <=> j \in old[Masked(j, h - 1)]
      BY <1>1, <2>2, <2>5, <3>1
    <3> QED BY <2>2, <3>2 DEF Present, Bucket, InOld, Masked
  <2> QED BY <2>3, <2>4, <2>5
<1>4. CASE ~InOld(k, seen)
  <2>1. expanding => Masked(k, h - 1) < expand_bucket
    BY <1>1, <1>2, <1>4 DEF InOld
  <2>2. /\ old' = old
        /\ primary' = [primary EXCEPT ![Masked(k, h)] = s]
        /\ primary \in [BucketsOf(h) -> SUBSET Keys]
        /\ s \subseteq primary[Masked(k, h)] \cup {k} /\ primary[Masked(k, h)] \ {k} \subseteq s
    BY <1>4 DEF Store, Set, Bucket, TypesOK
  <2>3. TablesOK'
    <3>1. s \subseteq Keys
      BY <1>1, <2>2
    <3>2. primary' \in [BucketsOf(h) -> SUBSET Keys]
      BY <2>2, <3>1
    <3>3. \A b \in BucketsOf(h) : \A j \in primary'[b] :
              Masked(j, h) = b /\ (expanding => Masked(j, h - 1) < expand_bucket)
      BY <1>1, <1>2, <2>1, <2>2 DEF Homes
    <3> QED BY <2>1, <2>2, <3>2, <3>3 DEF TablesOK, Homes, TypesOK, BucketsOf, Masked
  <2>4. k \in Present' <=> k \in s
    BY <1>1, <1>4, <2>1, <2>2 DEF Present, Bucket, InOld, Masked
  <2>5. ASSUME NEW j \in Keys, j # k PROVE j \in Present' <=> j \in Present
    <3>1. Masked(j, h) \in BucketsOf(h)
      BY Sizes, MaskedInBuckets
    <3>2. j \in primary'[Masked(j, h)] <=> j \in primary[Masked(j, h)]
      BY <1>1, <2>2, <2>5, <3>1
    <3> QED BY <2>2, <3>2 DEF Present, Bucket, InOld, Masked
  <2> QED BY <2>3, <2>4, <2>5
<1> QED BY <1>3, <1>4

-----------------------------------------------------------------------------
(* The invariant holds at the start and is kept by every action.           *)

LEMMA InitIInv == Init => IInv
<1> SUFFICES ASSUME Init PROVE IInv
  OBVIOUS
<1>1. InitPower \in Nat /\ InitPower - 1 \in Nat /\ InitPower \in InitPower .. MaxPower
  BY PowerAssumption
<1>2. hashsize(InitPower) \in Nat \ {0} /\ hashsize(InitPower - 1) \in Nat \ {0}
  BY <1>1, PowerAssumption, SizeAssumption DEF hashsize
<1>3. Cardinality(Workers) \in Nat
  BY WorkersAssumption, FS_CardinalityType
<1>4. TypesOK
  <2>1. primary \in [BucketsOf(InitPower) -> SUBSET Keys]
    BY DEF Init
  <2>2. expand_bucket \in 0 .. hashsize(InitPower - 1) /\ init_count \in 0 .. Cardinality(Workers)
    BY <1>2, <1>3 DEF Init
  <2> QED BY <1>1, <2>1, <2>2 DEF Init, TypesOK
<1>5. Homes
  BY DEF Init, Homes
<1>6. Present = Keys \ Active
  <2>1. ASSUME NEW k \in Keys PROVE k \in Present <=> k \in primary[Masked(k, InitPower)]
    BY DEF Init, Present, Bucket, InOld
  <2>2. ASSUME NEW k \in Keys PROVE k \in primary[Masked(k, InitPower)] <=> k \notin Active
    <3>1. Masked(k, InitPower) \in BucketsOf(InitPower)
      BY <1>1, <1>2, MaskedInBuckets
    <3> QED BY <3>1 DEF Init
  <2> QED BY <2>1, <2>2 DEF Present
<1>7. Counting = {} /\ InUse = {}
  BY DEF Init, Counting, InUse
<1>8. CountOK
  BY <1>6, <1>7 DEF CountOK, Init
<1> QED BY <1>4, <1>5, <1>8 DEF IInv, Init, WorkersOK, PauseOK, Busy

\* Where the tables stay as they are, so does what is present in them.
LEMMA TableKept == UNCHANGED table => Present' = Present /\ (Homes => Homes')
BY DEF table, Present, Bucket, InOld, Masked, BucketsOf, Homes

LEMMA LocksOfKeys == ASSUME NEW k \in Keys PROVE LockOf(k) \in BucketsOf(LockPower)
BY PowerAssumption, SizeAssumption, MaskedInBuckets DEF LockOf, hashsize

\* Keys to be counted are in the table and are what workers hold the locks of.
LEMMA InUseHeld ==
    ASSUME TypesOK, WorkersOK, NEW w \in Workers, Busy(w)
    PROVE  /\ key[w] \in Keys
           /\ InUse \subseteq Present
           /\ \A v \in Workers : Busy(v) /\ key[v] = key[w] => v = w
           /\ \A v \in Workers : Busy(v) /\ LockOf(key[v]) = LockOf(key[w]) => v = w
<1>1. \A v \in Workers : Busy(v) /\ LockOf(key[v]) = LockOf(key[w]) => v = w
  BY OwnKey
<1>2. key[w] \in Keys
  BY KeysAssumption DEF WorkersOK
<1>3. InUse \subseteq Present
  BY DEF InUse, Counting, WorkersOK
<1> QED BY <1>1, <1>2, <1>3

LEMMA BeginKeeps ==
    ASSUME IInv, NEW w \in Workers, NEW k \in Active, NEW o \in {"find", "insert", "delete"},
           Begin(w, k, o)
    PROVE  IInv'
<1> USE DEF Set
<1>1. LockOf(k) \in BucketsOf(LockPower) /\ k \in Keys
  BY LocksOfKeys, KeysAssumption
<1>2. TypesOK'
  BY <1>1 DEF IInv, TypesOK, Begin, table, pause, BucketsOf
<1>3. Present' = Present /\ Homes'
  BY TableKept DEF IInv, Begin
<1>4. Counting' = Counting /\ InUse' = InUse
  BY DEF IInv, TypesOK, Begin, Counting, InUse
<1>5. WorkersOK'
  <2> SUFFICES ASSUME NEW v \in Workers
               PROVE /\ Busy(v)' => key'[v] \in Active /\ item_lock'[LockOf(key'[v])] = v
                     /\ wpc'[v] = "count" => key'[v] \in Present'
                     /\ wpc'[v] = "access" =>
                           /\ expanding' => saw'[v]
                           /\ saw'[v] /\ ~expanding' => expand_bucket' = hashsize(hashpower' - 1)
    BY DEF WorkersOK, LockOf, Masked
  <2>1. CASE v = w
    BY <1>1, <2>1 DEF IInv, TypesOK, Begin, table, Busy, BucketsOf, hashsize
  <2>2. CASE v # w
    BY <1>1, <1>3, <2>2, WorkersAssumption DEF IInv, TypesOK, WorkersOK, Begin, table, Busy, BucketsOf, hashsize
  <2> QED BY <2>1, <2>2
<1>6. PauseOK'
  BY DEF IInv, TypesOK, PauseOK, Begin, pause
<1>7. CountOK'
  BY <1>3, <1>4 DEF IInv, CountOK, Begin
<1> QED BY <1>2, <1>3, <1>5, <1>6, <1>7 DEF IInv

\* The end of an operation gives back the lock of its key, which no other
\* worker at work needs.
LEMMA UnlockKeeps ==
    ASSUME TypesOK, WorkersOK, NEW w \in Workers, Busy(w), Unlock(w),
           UNCHANGED <<hashpower, expanding, expand_bucket, key, saw>>,
           \A k \in Keys : k # key[w] /\ k \in Present => k \in Present'
    PROVE  /\ WorkersOK'
           /\ item_lock' \in [BucketsOf(LockPower) -> Workers \cup {None}]
           /\ wpc' \in [Workers -> {"idle", "access", "count", "paused"}]
           /\ Counting' = Counting \ {w}
           /\ InUse' = {key[v] : v \in Counting \ {w}}
<1> USE DEF Set
<1>1. LockOf(key[w]) \in BucketsOf(LockPower)
  BY InUseHeld, LocksOfKeys
<1>2. item_lock' \in [BucketsOf(LockPower) -> Workers \cup {None}]
  BY DEF TypesOK, Unlock
<1>3. wpc' \in [Workers -> {"idle", "access", "count", "paused"}]
  BY DEF TypesOK, Unlock
<1>4. Counting' = Counting \ {w}
  BY DEF TypesOK, Unlock, Counting
<1>5. InUse' = {key[v] : v \in Counting \ {w}}
  BY <1>4 DEF InUse
<1>6. ASSUME NEW v \in Workers
      PROVE /\ Busy(v)' => key[v] \in Active /\ item_lock'[LockOf(key[v])] = v
            /\ wpc'[v] = "count" => key[v] \in Present'
            /\ wpc'[v] = "access" =>
                  /\ expanding => saw[v]
                  /\ saw[v] /\ ~expanding => expand_bucket = hashsize(hashpower - 1)
  <2>1. CASE v = w
    BY <2>1 DEF TypesOK, Unlock, Busy
  <2>2. CASE v # w
    <3>1. wpc'[v] = wpc[v]
      BY <2>2 DEF TypesOK, Unlock
    <3>2. Busy(v) => /\ key[v] \in Keys /\ key[v] # key[w]
                     /\ LockOf(key[v]) \in BucketsOf(LockPower)
                     /\ LockOf(key[v]) # LockOf(key[w])
      BY <2>2, InUseHeld, LocksOfKeys
    <3>3. Busy(v) => item_lock'[LockOf(key[v])] = item_lock[LockOf(key[v])]
      BY <1>1, <3>2 DEF TypesOK, Unlock
    <3> QED BY <3>1, <3>2, <3>3 DEF WorkersOK, Busy
  <2> QED BY <2>1, <2>2
<1>7. WorkersOK'
  BY <1>6 DEF WorkersOK, LockOf, Masked, hashsize
<1> QED BY <1>2, <1>3, <1>4, <1>5, <1>7

LEMMA FindKeeps ==
    ASSUME IInv, NEW w \in Workers, Find(w)
    PROVE  IInv'
<1>1. Present' = Present /\ Homes'
  BY TableKept DEF IInv, Find
<1>2. Busy(w) /\ w \notin Counting /\ UNCHANGED <<hashpower, expanding, expand_bucket, key, saw>>
  BY DEF Find, Busy, Counting, table
<1>3. /\ WorkersOK'
      /\ item_lock' \in [BucketsOf(LockPower) -> Workers \cup {None}]
      /\ wpc' \in [Workers -> {"idle", "access", "count", "paused"}]
      /\ InUse' = {key[v] : v \in Counting \ {w}}
  BY <1>1, <1>2, UnlockKeeps DEF IInv, Find
<1>4. InUse' = InUse
  BY <1>2, <1>3 DEF InUse, Counting
<1>5. TypesOK'
  <2>1. answer' \in [Workers -> BOOLEAN]
    BY DEF IInv, TypesOK, Find, Answer, Set, Found
  <2> QED BY <1>3, <2>1 DEF IInv, TypesOK, Find, table, pause, BucketsOf, hashsize
<1>6. PauseOK'
  BY DEF IInv, TypesOK, PauseOK, Find, pause, Unlock, Set
<1>7. CountOK'
  BY <1>1, <1>4 DEF IInv, CountOK, Find
<1> QED BY <1>1, <1>3, <1>5, <1>6, <1>7 DEF IInv

\* What assoc_insert and assoc_delete write.
LEMMA InsertWrites ==
    ASSUME IInv, NEW w \in Workers, Insert(w)
    PROVE  /\ TablesOK' /\ Present' = Present \cup {key[w]}
           /\ key[w] \in Keys /\ key[w] \notin Present
<1> DEFINE k == key[w]
           s == Bucket(k, saw[w]) \cup {k}
<1>1. k \in Keys /\ (InOld(k, saw[w]) <=> InOld(k, expanding)) /\ (Found(w) <=> k \in Present)
  BY SawIsEnough DEF IInv, Insert
<1>2. saw[w] \in BOOLEAN /\ Store(k, saw[w], s) /\ UNCHANGED <<hashpower, expanding, expand_bucket>>
  BY DEF IInv, TypesOK, Insert
<1>3. /\ TablesOK'
      /\ k \in Present' <=> k \in s
      /\ \A j \in Keys \ {k} : j \in Present' <=> j \in Present
  <2> HIDE DEF k
  <2> QED BY <1>1, <1>2, StoreWrites DEF IInv
<1>4. Present \subseteq Keys /\ Present' \subseteq Keys
  BY DEF Present
<1> QED BY <1>1, <1>3, <1>4 DEF Insert

LEMMA DeleteWrites ==
    ASSUME IInv, NEW w \in Workers, Delete(w)
    PROVE  /\ TablesOK' /\ Present' = Present \ {key[w]}
           /\ key[w] \in Keys /\ key[w] \in Present
<1> DEFINE k == key[w]
           s == Bucket(k, saw[w]) \ {k}
<1>1. k \in Keys /\ (InOld(k, saw[w]) <=> InOld(k, expanding)) /\ (Found(w) <=> k \in Present)
  BY SawIsEnough DEF IInv, Delete
<1>2. saw[w] \in BOOLEAN /\ Store(k, saw[w], s) /\ UNCHANGED <<hashpower, expanding, expand_bucket>>
  BY DEF IInv, TypesOK, Delete
<1>3. /\ TablesOK'
      /\ k \in Present' <=> k \in s
      /\ \A j \in Keys \ {k} : j \in Present' <=> j \in Present
  <2> HIDE DEF k
  <2> QED BY <1>1, <1>2, StoreWrites DEF IInv
<1>4. Present \subseteq Keys /\ Present' \subseteq Keys
  BY DEF Present
<1> QED BY <1>1, <1>3, <1>4 DEF Delete

LEMMA InsertKeeps ==
    ASSUME IInv, NEW w \in Workers, Insert(w)
    PROVE  IInv'
<1> USE DEF Set
<1>1. /\ TablesOK' /\ Present' = Present \cup {key[w]}
      /\ key[w] \in Keys /\ key[w] \notin Present
  BY InsertWrites
<1>2. TypesOK'
  <2>1. answer' \in [Workers -> BOOLEAN]
    BY DEF IInv, TypesOK, Insert, Answer, Found
  <2> QED BY <1>1, <2>1 DEF IInv, TypesOK, TablesOK, Insert, pause, BucketsOf, hashsize
<1>3. WorkersOK'
  <2> SUFFICES ASSUME NEW v \in Workers
               PROVE /\ Busy(v)' => key'[v] \in Active /\ item_lock'[LockOf(key'[v])] = v
                     /\ wpc'[v] = "count" => key'[v] \in Present'
                     /\ wpc'[v] = "access" =>
                           /\ expanding' => saw'[v]
                           /\ saw'[v] /\ ~expanding' => expand_bucket' = hashsize(hashpower' - 1)
    BY DEF WorkersOK, LockOf, Masked
  <2>1. CASE v = w
    BY <1>1, <2>1 DEF IInv, TypesOK, WorkersOK, Insert, Busy
  <2>2. CASE v # w
    BY <1>1, <2>2 DEF IInv, TypesOK, WorkersOK, Insert, Busy
  <2> QED BY <2>1, <2>2
<1>4. PauseOK'
  BY DEF IInv, TypesOK, PauseOK, Insert, pause
<1>5. CountOK'
  <2>1. Counting' = Counting \cup {w}
    BY DEF IInv, TypesOK, Insert, Counting
  <2>2. InUse' = InUse \cup {key[w]}
    BY <2>1 DEF InUse, Insert
  <2>3. Present' \ InUse' = Present \ InUse
    BY <1>1, <2>2
  <2> QED BY <2>3 DEF IInv, CountOK, Insert
<1> QED BY <1>1, <1>2, <1>3, <1>4, <1>5 DEF IInv, TablesOK

LEMMA CountKeeps ==
    ASSUME IInv, NEW w \in Workers, Count(w)
    PROVE  IInv'
<1>1. Present' = Present /\ Homes'
  BY TableKept DEF IInv, Count
<1>2. Busy(w) /\ w \in Counting /\ UNCHANGED <<hashpower, expanding, expand_bucket, key, saw>>
  BY DEF Count, Busy, Counting, table
<1>3. /\ WorkersOK'
      /\ item_lock' \in [BucketsOf(LockPower) -> Workers \cup {None}]
      /\ wpc' \in [Workers -> {"idle", "access", "count", "paused"}]
      /\ InUse' = {key[v] : v \in Counting \ {w}}
  BY <1>1, <1>2, UnlockKeeps DEF IInv, Count
<1>4. InUse' = InUse \ {key[w]} /\ key[w] \in InUse /\ InUse \subseteq Present
  <2>1. \A v \in Counting : key[v] = key[w] => v = w
    BY <1>2, InUseHeld DEF IInv, Counting, Busy
  <2>2. InUse \subseteq Present
    BY <1>2, InUseHeld DEF IInv
  <2> QED BY <1>2, <1>3, <2>1, <2>2 DEF InUse
<1>5. TypesOK'
  <2>1. mpc' \in {"loop", "rearmed", "waiting", "woken", "pausing"} /\ started_expanding' \in BOOLEAN
    BY DEF IInv, TypesOK, Count
  <2>2. expanding => mpc' = "loop"
    BY DEF IInv, TypesOK, Count
  <2> QED BY <1>3, <2>1, <2>2 DEF IInv, TypesOK, Count, table, pause, BucketsOf, hashsize
<1>6. PauseOK'
  <2>1. (mpc' = "pausing") = (mpc = "pausing")
    BY DEF Count
  <2> QED BY <2>1 DEF IInv, TypesOK, PauseOK, Count, pause, Unlock, Set
<1>7. CountOK'
  <2>1. Present' \ InUse' = (Present \ InUse) \cup {key[w]} /\ key[w] \notin Present \ InUse
    BY <1>1, <1>4
  <2>2. IsFiniteSet(Present \ InUse)
    BY FiniteTable, FS_Subset
  <2>3. Cardinality(Present' \ InUse') = Cardinality(Present \ InUse) + 1
    BY <2>1, <2>2, FS_AddElement
  <2> QED BY <2>3 DEF IInv, CountOK, Count
<1> QED BY <1>1, <1>3, <1>5, <1>6, <1>7 DEF IInv

LEMMA DeleteKeeps ==
    ASSUME IInv, NEW w \in Workers, Delete(w)
    PROVE  IInv'
<1>1. /\ TablesOK' /\ Present' = Present \ {key[w]}
      /\ key[w] \in Keys /\ key[w] \in Present
  BY DeleteWrites
<1>2. Busy(w) /\ w \notin Counting /\ UNCHANGED <<hashpower, expanding, expand_bucket, key, saw>>
  BY DEF Delete, Busy, Counting
<1>3. /\ WorkersOK'
      /\ item_lock' \in [BucketsOf(LockPower) -> Workers \cup {None}]
      /\ wpc' \in [Workers -> {"idle", "access", "count", "paused"}]
      /\ InUse' = {key[v] : v \in Counting \ {w}}
  BY <1>1, <1>2, UnlockKeeps DEF IInv, Delete
<1>4. InUse' = InUse /\ key[w] \notin InUse
  <2>1. \A v \in Counting : key[v] # key[w]
    BY <1>2, InUseHeld DEF IInv, Counting, Busy
  <2> QED BY <1>2, <1>3, <2>1 DEF InUse, Counting
<1>5. TypesOK'
  <2>1. answer' \in [Workers -> BOOLEAN]
    BY DEF IInv, TypesOK, Delete, Answer, Set, Found
  <2> QED BY <1>1, <1>3, <2>1 DEF IInv, TypesOK, TablesOK, Delete, pause, BucketsOf, hashsize
<1>6. PauseOK'
  BY DEF IInv, TypesOK, PauseOK, Delete, pause, Unlock, Set
<1>7. CountOK'
  <2>1. Present' \ InUse' = (Present \ InUse) \ {key[w]} /\ key[w] \in Present \ InUse
    BY <1>1, <1>4
  <2>2. IsFiniteSet(Present \ InUse)
    BY FiniteTable, FS_Subset
  <2>3. Cardinality(Present' \ InUse') = Cardinality(Present \ InUse) - 1
    BY <2>1, <2>2, FS_RemoveElement
  <2> QED BY <2>3 DEF IInv, CountOK, Delete
<1> QED BY <1>1, <1>3, <1>5, <1>6, <1>7 DEF IInv, TablesOK

\* Steps that touch neither the tables nor the locks, and start no operation.
LEMMA QuietKeeps ==
    ASSUME IInv, UNCHANGED <<table, hash_items, item_lock, op, key, saw, answer>>,
           wpc' \in [Workers -> {"idle", "access", "count", "paused"}],
           \A w \in Workers : (Busy(w)' \/ Busy(w)) => wpc'[w] = wpc[w],
           started_expanding' \in BOOLEAN,
           mpc' \in {"loop", "rearmed", "waiting", "woken", "pausing"},
           expanding => mpc' = "loop",
           hang' \in BOOLEAN, note' \subseteq Workers, init_count' \in 0 .. Cardinality(Workers),
           PauseOK'
    PROVE  IInv'
<1>1. Present' = Present /\ Homes'
  BY TableKept DEF IInv
<1>2. TypesOK'
  BY DEF IInv, TypesOK, table, BucketsOf, hashsize
<1>3. WorkersOK'
  BY <1>1 DEF IInv, WorkersOK, Busy, table, LockOf, Masked, hashsize
<1>4. CountOK'
  <2>1. Counting' = Counting /\ InUse' = InUse
    BY DEF Counting, InUse, Busy
  <2> QED BY <1>1, <2>1 DEF IInv, CountOK
<1> QED BY <1>1, <1>2, <1>3, <1>4 DEF IInv

LEMMA PauseKeeps ==
    ASSUME IInv, NEW w \in Workers, Pause(w)
    PROVE  IInv'
<1> USE DEF Set
<1>1. mpc = "pausing" /\ hang /\ init_count = Cardinality(Workers \ note)
      /\ \A v \in Workers \ note : wpc[v] = "paused"
  BY DEF IInv, PauseOK, Pause
<1>2. Workers \ note' = (Workers \ note) \cup {w} /\ w \notin Workers \ note
  BY DEF Pause
<1>3. /\ IsFiniteSet(Workers \ note) /\ Cardinality(Workers \ note') = init_count + 1
      /\ Cardinality(Workers \ note') <= Cardinality(Workers) /\ Cardinality(Workers) \in Nat
  BY <1>1, <1>2, WorkersAssumption, FS_Subset, FS_AddElement, FS_CardinalityType
<1>4. wpc' \in [Workers -> {"idle", "access", "count", "paused"}]
  BY DEF IInv, TypesOK, Pause
<1>5. PauseOK'
  BY <1>1, <1>2, <1>3 DEF IInv, TypesOK, PauseOK, Pause
<1>6. note' \subseteq Workers /\ init_count' \in 0 .. Cardinality(Workers)
  BY <1>3 DEF IInv, TypesOK, Pause
<1>7. \A v \in Workers : (Busy(v)' \/ Busy(v)) => wpc'[v] = wpc[v]
  BY DEF IInv, TypesOK, Pause, Busy
<1> QED BY <1>4, <1>5, <1>6, <1>7, QuietKeeps DEF IInv, TypesOK, Pause

LEMMA ResumeKeeps ==
    ASSUME IInv, NEW w \in Workers, Resume(w)
    PROVE  IInv'
<1> USE DEF Set
<1>1. mpc # "pausing" /\ note = {}
  BY DEF IInv, PauseOK, Resume
<1>2. wpc' \in [Workers -> {"idle", "access", "count", "paused"}]
  BY DEF IInv, TypesOK, Resume
<1>3. PauseOK'
  BY <1>1 DEF PauseOK, Resume, pause
<1>4. \A v \in Workers : (Busy(v)' \/ Busy(v)) => wpc'[v] = wpc[v]
  BY DEF IInv, TypesOK, Resume, Busy
<1> QED BY <1>2, <1>3, <1>4, QuietKeeps DEF IInv, TypesOK, Resume, pause

\* Moving a bucket: its keys go where their longer hash names, and what is
\* present does not change.
LEMMA MoveWrites ==
    ASSUME IInv, Move
    PROVE  TablesOK' /\ Present' = Present
<1> DEFINE h == hashpower
           e == expand_bucket
<1>1. /\ expanding /\ e \in BucketsOf(h - 1) /\ e \in Nat
      /\ primary \in [BucketsOf(h) -> SUBSET Keys] /\ old \in [BucketsOf(h - 1) -> SUBSET Keys]
  BY Sizes DEF IInv, TypesOK, Move, BucketsOf
<1>2. \A k \in Keys : Masked(k, h) \in BucketsOf(h) /\ Masked(k, h - 1) \in BucketsOf(h - 1)
  BY Sizes, MaskedInBuckets DEF IInv
<1>3. \A b \in BucketsOf(h - 1) : b \in Nat
  BY Sizes DEF BucketsOf, IInv
<1>4. \A b \in BucketsOf(h) : \A k \in primary[b] :
           k \in Keys /\ Masked(k, h) = b /\ Masked(k, h - 1) < e
  BY <1>1 DEF IInv, Homes
<1>5. /\ primary' \in [BucketsOf(h) -> SUBSET Keys]
      /\ \A b \in BucketsOf(h) : primary'[b] = primary[b] \cup {k \in old[e] : Masked(k, h) = b}
  BY <1>1 DEF Move
<1>6. \A k \in old[e] : k \in Keys /\ Masked(k, h - 1) = e
  BY <1>1 DEF IInv, Homes
<1>7. hashpower' = h /\ expand_bucket' = e + 1 /\ expanding' = ~Last
  BY DEF Move
<1>8. \A b \in BucketsOf(h) : \A k \in primary'[b] :
          k \in Keys /\ Masked(k, h) = b /\ Masked(k, h - 1) < e + 1
  <2> SUFFICES ASSUME NEW b \in BucketsOf(h), NEW k \in primary'[b]
               PROVE k \in Keys /\ Masked(k, h) = b /\ Masked(k, h - 1) < e + 1
    OBVIOUS
  <2>1. CASE k \in primary[b]
    <3>1. k \in Keys /\ Masked(k, h) = b /\ Masked(k, h - 1) < e
      BY <1>4, <2>1
    <3>2. Masked(k, h - 1) \in Nat
      BY <1>2, <1>3, <3>1
    <3> QED BY <1>1, <3>1, <3>2
  <2>2. CASE k \in old[e] /\ Masked(k, h) = b
    BY <1>1, <1>6, <2>2
  <2> QED BY <1>5, <2>1, <2>2
<1>9. CASE Last
  <2>1. old' = <<>> /\ expanding' = FALSE
    BY <1>9 DEF Move
  <2>2. TablesOK'
    BY <1>5, <1>7, <1>8, <2>1 DEF TablesOK, Homes, BucketsOf, Masked
  <2>3. ASSUME NEW k \in Keys PROVE k \in Present' <=> k \in Present
    <3>1. k \in Present' <=> k \in primary'[Masked(k, h)]
      BY <1>7, <2>1 DEF Present, Bucket, InOld, Masked
    <3>2. Masked(k, h - 1) \in 0 .. e
      <4>1. Masked(k, h - 1) \in 0 .. hashsize(h - 1) - 1 /\ e + 1 = hashsize(h - 1)
        BY <1>2, <1>9 DEF Last, BucketsOf
      <4> QED BY <1>1, <4>1
    <3>3. CASE Masked(k, h - 1) = e
      <4>1. k \in Present <=> k \in old[e]
        BY <1>1, <3>3 DEF Present, Bucket, InOld
      <4>2. k \notin primary[Masked(k, h)]
        <5>1. k \in primary[Masked(k, h)] => Masked(k, h - 1) < e
          BY <1>2, <1>4
        <5> QED BY <1>1, <3>3, <5>1
      <4> QED BY <1>2, <1>5, <3>1, <4>1, <4>2
    <3>4. CASE Masked(k, h - 1) # e
      <4>1. k \in Present <=> k \in primary[Masked(k, h)]
        BY <1>1, <3>2, <3>4 DEF Present, Bucket, InOld
      <4>2. k \notin old[e]
        BY <1>6, <3>4
      <4> QED BY <1>2, <1>5, <3>1, <4>1, <4>2
    <3> QED BY <3>3, <3>4
  <2> QED BY <2>2, <2>3 DEF Present
<1>10. CASE ~Last
  <2>1. old' = [old EXCEPT ![e] = {}] /\ expanding' = TRUE
    BY <1>10 DEF Move, Set
  <2>2. \A b \in BucketsOf(h - 1) : \A k \in old'[b] : Masked(k, h - 1) = b /\ e + 1 <= b
    BY <1>1, <1>3, <2>1 DEF IInv, Homes
  <2>3. TablesOK'
    <3>1. old' \in [BucketsOf(h - 1) -> SUBSET Keys]
      BY <1>1, <2>1
    <3> QED BY <1>5, <1>7, <1>8, <2>1, <2>2, <3>1 DEF TablesOK, Homes, BucketsOf, Masked
  <2>4. ASSUME NEW k \in Keys PROVE k \in Present' <=> k \in Present
    <3>1. Masked(k, h - 1) \in BucketsOf(h - 1) /\ Masked(k, h - 1) \in Nat
      BY <1>2, <1>3
    <3>2. CASE Masked(k, h - 1) = e
      <4>1. k \in Present <=> k \in old[e]
        BY <1>1, <3>2 DEF Present, Bucket, InOld
      <4>2. k \notin primary[Masked(k, h)]
        <5>1. k \in primary[Masked(k, h)] => Masked(k, h - 1) < e
          BY <1>2, <1>4
        <5> QED BY <1>1, <3>2, <5>1
      <4>3. k \in Present' <=> k \in primary'[Masked(k, h)]
        BY <1>1, <1>7, <3>2 DEF Present, Bucket, InOld, Masked
      <4> QED BY <1>2, <1>5, <4>1, <4>2, <4>3
    <3>3. CASE Masked(k, h - 1) # e
      <4>1. InOld(k, expanding)' <=> InOld(k, expanding)
        BY <1>1, <1>7, <2>1, <3>1, <3>3 DEF InOld, Masked
      <4>2. old'[Masked(k, h - 1)] = old[Masked(k, h - 1)]
        BY <1>1, <2>1, <3>1, <3>3
      <4>3. k \in primary'[Masked(k, h)] <=> k \in primary[Masked(k, h)]
        BY <1>2, <1>5, <1>6, <3>3
      <4> QED BY <1>7, <4>1, <4>2, <4>3 DEF Present, Bucket, Masked
    <3> QED BY <3>2, <3>3
  <2> QED BY <2>3, <2>4 DEF Present
<1> QED BY <1>9, <1>10

LEMMA MoveBucketKeeps ==
    ASSUME IInv, Move
    PROVE  IInv'
<1>1. TablesOK' /\ Present' = Present
  BY MoveWrites
<1>2. TypesOK'
  <2>1. /\ expand_bucket' \in 0 .. hashsize(hashpower - 1)
        /\ expanding' => expand_bucket' < hashsize(hashpower - 1)
    <3>1. hashsize(hashpower - 1) \in Nat /\ expand_bucket \in Nat /\ expand_bucket < hashsize(hashpower - 1)
      BY Sizes DEF IInv, TypesOK, Move
    <3>2. expand_bucket' = expand_bucket + 1 /\ (expanding' => expand_bucket + 1 # hashsize(hashpower - 1))
      BY DEF Move, Last
    <3> QED BY <3>1, <3>2
  <2> QED BY <1>1, <2>1 DEF IInv, TypesOK, TablesOK, Move, worker, pause, BucketsOf, hashsize, Last
<1>3. WorkersOK'
  <2>1. ~expanding' => expand_bucket' = hashsize(hashpower - 1)
    BY DEF Move, Last
  <2> QED BY <1>1, <2>1 DEF IInv, WorkersOK, Busy, Move, worker, LockOf, Masked, hashsize
<1>4. PauseOK'
  BY DEF IInv, PauseOK, Move, worker, pause
<1>5. CountOK'
  <2>1. InUse' = InUse
    BY DEF InUse, Counting, Move, worker
  <2> QED BY <1>1, <2>1 DEF IInv, CountOK, Move
<1> QED BY <1>1, <1>2, <1>3, <1>4, <1>5 DEF IInv, TablesOK

\* When all have answered the pause, all are stopped.
LEMMA AllStopped ==
    ASSUME IInv, mpc = "pausing", Registered
    PROVE  note = {} /\ \A w \in Workers : wpc[w] = "paused"
<1>1. /\ IsFiniteSet(Workers \ note) /\ Cardinality(Workers \ note) <= Cardinality(Workers)
      /\ Cardinality(Workers) = Cardinality(Workers \ note) => Workers = Workers \ note
  BY WorkersAssumption, FS_Subset
<1>2. Cardinality(Workers) \in Nat /\ Cardinality(Workers \ note) \in Nat
  BY <1>1, WorkersAssumption, FS_CardinalityType
<1>3. Workers = Workers \ note
  BY <1>1, <1>2 DEF IInv, PauseOK, Registered
<1>4. note = {}
  BY <1>3 DEF IInv, TypesOK
<1> QED BY <1>4 DEF IInv, PauseOK

\* Exchanging the tables keeps every key, in the old one from now on.
LEMMA ExpandWrites ==
    ASSUME IInv, Expand
    PROVE  TablesOK' /\ Present' = Present
<1> DEFINE h == hashpower
<1>1. ~expanding /\ primary \in [BucketsOf(h) -> SUBSET Keys] /\ h \in Nat
      /\ old' = primary /\ hashpower' = h + 1 /\ hashpower' - 1 = h
      /\ expanding' = TRUE /\ expand_bucket' = 0
  BY Sizes DEF IInv, TypesOK, Expand
<1>2. primary' = [b \in BucketsOf(h + 1) |-> {}]
  BY DEF Expand
<1>3. \A k \in Keys : Masked(k, h) \in BucketsOf(h) /\ Masked(k, h) \in Nat
  BY Sizes, MaskedInBuckets DEF IInv, BucketsOf
<1>4. TablesOK'
  <2>1. \A b \in BucketsOf(h) : \A k \in old'[b] : Masked(k, h) = b /\ 0 <= b
    BY <1>1, <1>3 DEF IInv, Homes
  <2> QED BY <1>1, <1>2, <2>1 DEF TablesOK, Homes, BucketsOf, Masked
<1>5. ASSUME NEW k \in Keys PROVE k \in Present' <=> k \in Present
  <2>1. k \in Present <=> k \in primary[Masked(k, h)]
    BY <1>1 DEF Present, Bucket, InOld
  <2>2. k \in Present' <=> k \in old'[Masked(k, h)]
    BY <1>1, <1>3 DEF Present, Bucket, InOld, Masked
  <2> QED BY <1>1, <2>1, <2>2
<1> QED BY <1>4, <1>5 DEF Present

LEMMA ExpandKeeps ==
    ASSUME IInv, Expand
    PROVE  IInv'
<1>1. TablesOK' /\ Present' = Present
  BY ExpandWrites
<1>2. note = {} /\ \A w \in Workers : wpc[w] = "paused"
  BY AllStopped DEF Expand
<1>3. TypesOK'
  <2>1. hashpower' \in InitPower .. MaxPower /\ hashpower' - 1 = hashpower
    BY Sizes, PowerAssumption DEF IInv, TypesOK, Expand
  <2>2. 0 \in 0 .. hashsize(hashpower) /\ 0 < hashsize(hashpower)
    BY Sizes DEF IInv
  <2> QED BY <1>1, <2>1, <2>2 DEF IInv, TypesOK, TablesOK, Expand, worker, BucketsOf, hashsize
<1>4. WorkersOK'
  BY <1>2 DEF WorkersOK, Busy, Expand, worker
<1>5. PauseOK'
  BY <1>2 DEF PauseOK, Expand
<1>6. CountOK'
  <2>1. InUse' = InUse
    BY DEF InUse, Counting, Expand, worker
  <2> QED BY <1>1, <2>1 DEF IInv, CountOK, Expand
<1> QED BY <1>1, <1>3, <1>4, <1>5, <1>6 DEF IInv, TablesOK

LEMMA ExpandFailsKeeps ==
    ASSUME IInv, ExpandFails
    PROVE  IInv'
<1>1. note = {}
  BY AllStopped DEF ExpandFails
<1>2. PauseOK'
  BY <1>1 DEF PauseOK, ExpandFails
<1> QED BY <1>2, QuietKeeps DEF IInv, TypesOK, ExpandFails, worker

\* What the maintenance thread does besides moving and exchanging tables.
LEMMA WaitingKeeps ==
    ASSUME IInv, Rearm \/ Wait \/ PauseAll
    PROVE  IInv'
<1>1. CASE Rearm
  <2>1. PauseOK'
    BY <1>1 DEF IInv, PauseOK, Rearm, worker, pause
  <2> QED BY <1>1, <2>1, QuietKeeps DEF IInv, TypesOK, Rearm, worker, pause
<1>2. CASE Wait
  <2>1. PauseOK'
    BY <1>2 DEF IInv, PauseOK, Wait, worker, pause
  <2> QED BY <1>2, <2>1, QuietKeeps DEF IInv, TypesOK, Wait, worker, pause
<1>3. CASE PauseAll
  <2>1. Workers \ note' = {} /\ Cardinality({}) = 0 /\ Cardinality(Workers) \in Nat
    BY <1>3, FS_EmptySet, WorkersAssumption, FS_CardinalityType DEF PauseAll
  <2>2. PauseOK'
    BY <1>3, <2>1 DEF PauseOK, PauseAll
  <2> QED BY <1>3, <2>1, <2>2, QuietKeeps DEF IInv, TypesOK, PauseAll, worker
<1> QED BY <1>1, <1>2, <1>3

LEMMA NextKeeps == IInv /\ [Next]_vars => IInv'
<1> SUFFICES ASSUME IInv, [Next]_vars PROVE IInv'
  OBVIOUS
<1>1. CASE Maintain
  BY <1>1, MoveBucketKeeps, WaitingKeeps, ExpandKeeps, ExpandFailsKeeps DEF Maintain
<1>2. CASE \E w \in Workers : Work(w)
  BY <1>2, FindKeeps, InsertKeeps, CountKeeps, DeleteKeeps DEF Work
<1>3. CASE \E w \in Workers : Pause(w) \/ Resume(w)
  BY <1>3, PauseKeeps, ResumeKeeps
<1>4. CASE \E w \in Workers, k \in Active, o \in {"find", "insert", "delete"} : Begin(w, k, o)
  BY <1>4, BeginKeeps
<1>5. CASE UNCHANGED vars
  <2>1. PauseOK'
    BY <1>5 DEF IInv, PauseOK, vars, worker, pause
  <2> QED BY <1>5, <2>1, QuietKeeps DEF IInv, TypesOK, vars, worker, pause
<1> QED BY <1>1, <1>2, <1>3, <1>4, <1>5 DEF Next

-----------------------------------------------------------------------------
(* What follows from the invariant.                                        *)

LEMMA AtMostOne ==
    ASSUME NEW x, NEW S, S \subseteq {x}
    PROVE  Cardinality(S) \in {0, 1} /\ (S = {} => Cardinality(S) = 0)
<1>1. S = {} \/ S = {x}
  OBVIOUS
<1> QED BY <1>1, FS_EmptySet, FS_Singleton

\* As many keys wait to be counted as workers are about to count.
LEMMA CountingKeys ==
    ASSUME IInv
    PROVE  IsFiniteSet(Counting) /\ Cardinality(InUse) = Cardinality(Counting)
<1> DEFINE f == [w \in Counting |-> key[w]]
<1>1. IsFiniteSet(Counting)
  BY WorkersAssumption, FS_Subset DEF Counting
<1>2. \A v, w \in Counting : f[v] = f[w] => v = w
  BY InUseHeld DEF IInv, Counting, Busy
<1>3. f \in [Counting -> InUse] /\ \A k \in InUse : \E w \in Counting : f[w] = k
  BY DEF InUse
<1>4. f \in Bijection(Counting, InUse)
  BY <1>2, <1>3, Fun_IsBij
<1> QED BY <1>1, <1>4, FS_Bijection, Fun_ExistsBij

LEMMA InvCounts == IInv => CountExact /\ hash_items \in 0 .. Cardinality(Keys)
<1> SUFFICES ASSUME IInv PROVE CountExact /\ hash_items \in 0 .. Cardinality(Keys)
  OBVIOUS
<1>1. InUse \subseteq Present /\ Present \subseteq Keys
  BY DEF IInv, WorkersOK, InUse, Counting, Present
<1>2. /\ IsFiniteSet(Present \ InUse)
      /\ Cardinality(Present \ InUse) = Cardinality(Present) - Cardinality(Present \cap InUse)
  BY FiniteTable, FS_Difference
<1>3. Present \cap InUse = InUse
  BY <1>1
<1>4. CountExact
  BY <1>2, <1>3, CountingKeys DEF IInv, CountOK, CountExact, Counting
<1>5. Cardinality(Present \ InUse) \in Nat /\ Cardinality(Keys) \in Nat
      /\ Cardinality(Present \ InUse) <= Cardinality(Keys)
  BY <1>1, <1>2, KeysAssumption, FS_Subset, FS_CardinalityType
<1> QED BY <1>4, <1>5 DEF IInv, CountOK

LEMMA InvTypes == IInv => TypeOK
BY InvCounts DEF IInv, TypesOK, TypeOK

LEMMA InvStored == IInv => StoredOnce
<1> SUFFICES ASSUME IInv, NEW k \in Keys
             PROVE  Cardinality({b \in DOMAIN primary : k \in primary[b]})
                      + Cardinality({b \in DOMAIN old : k \in old[b]}) <= 1
  BY DEF StoredOnce
<1> DEFINE A == {b \in DOMAIN primary : k \in primary[b]}
           B == {b \in DOMAIN old : k \in old[b]}
<1>1. A \subseteq {Masked(k, hashpower)}
  BY DEF IInv, Homes, TypesOK
<1>2. CASE expanding
  <2>1. B \subseteq {Masked(k, hashpower - 1)}
    BY <1>2 DEF IInv, Homes, TypesOK
  <2>2. A = {} \/ B = {}
    <3>1. Masked(k, hashpower - 1) \in Nat /\ expand_bucket \in Nat
      BY Sizes, MaskedInBuckets DEF IInv, TypesOK, BucketsOf
    <3>2. A # {} => Masked(k, hashpower - 1) < expand_bucket
      BY <1>2 DEF IInv, Homes, TypesOK
    <3>3. B # {} => expand_bucket <= Masked(k, hashpower - 1)
      BY <1>2, <2>1 DEF IInv, Homes, TypesOK
    <3> QED BY <3>1, <3>2, <3>3
  <2> HIDE DEF A, B
  <2>3. Cardinality(A) \in {0, 1} /\ (A = {} => Cardinality(A) = 0)
    BY <1>1, AtMostOne
  <2>4. Cardinality(B) \in {0, 1} /\ (B = {} => Cardinality(B) = 0)
    BY <2>1, AtMostOne
  <2>5. Cardinality(A) + Cardinality(B) <= 1
    BY <2>2, <2>3, <2>4
  <2> QED BY <2>5 DEF A, B
<1>3. CASE ~expanding
  <2>1. B = {}
    BY <1>3 DEF IInv, TypesOK
  <2> HIDE DEF A, B
  <2>2. Cardinality(A) \in {0, 1} /\ Cardinality(B) = 0
    BY <1>1, <2>1, AtMostOne, FS_EmptySet
  <2>3. Cardinality(A) + Cardinality(B) <= 1
    BY <2>2
  <2> QED BY <2>3 DEF A, B
<1> QED BY <1>2, <1>3

-----------------------------------------------------------------------------
(* The results.                                                            *)

\* The inductive invariant: keys are at home while buckets move, workers have
\* their locks and have read enough, and who answered the pause is stopped.
THEOREM AssocTableInvariant == Spec => []IInv
<1> QED BY InitIInv, NextKeeps, PTL DEF Spec

\* However many keys, workers and doublings: the values stay in their types, a
\* key is in one bucket of the two tables, and hash_items counts what
\* assoc_insert has put in and assoc_delete has not taken out.
THEOREM TableStaysExact == Spec => []TableExact
<1>1. IInv => TableExact
  BY InvTypes, InvStored, InvCounts DEF TableExact
<1> QED BY <1>1, AssocTableInvariant, PTL

\* Each step of the table is a step of the set of keys or does not show in it.
LEMMA StepOfKeySet == IInv /\ [Next]_vars => [K!Next]_(K!vars)
<1> SUFFICES ASSUME IInv, [Next]_vars
             PROVE  K!Next \/ (Present' = Present /\ answer' = answer)
  BY DEF K!vars
<1>1. ASSUME NEW w \in Workers, Find(w) PROVE K!Next
  <2>1. key[w] \in Keys /\ (Found(w) <=> key[w] \in Present)
    BY <1>1, SawIsEnough DEF IInv, Find
  <2>2. Present' = Present
    BY <1>1, TableKept DEF Find
  <2>3. Found(w) = (key[w] \in Present)
    BY <2>1 DEF Found
  <2>4. K!Find(w, key[w])
    BY <1>1, <2>2, <2>3 DEF K!Find, Find, Answer, Set
  <2> QED BY <2>1, <2>4 DEF K!Next
<1>2. ASSUME NEW w \in Workers, Insert(w) PROVE K!Next
  <2>1. key[w] \in Keys /\ (Found(w) <=> key[w] \in Present)
    BY <1>2, SawIsEnough DEF IInv, Insert
  <2>2. Present' = Present \cup {key[w]}
    BY <1>2, InsertWrites
  <2>3. Found(w) = (key[w] \in Present)
    BY <2>1 DEF Found
  <2>4. K!Insert(w, key[w])
    BY <1>2, <2>2, <2>3 DEF K!Insert, Insert, Answer, Set
  <2> QED BY <2>1, <2>4 DEF K!Next
<1>3. ASSUME NEW w \in Workers, Delete(w) PROVE K!Next
  <2>1. key[w] \in Keys /\ (Found(w) <=> key[w] \in Present)
    BY <1>3, SawIsEnough DEF IInv, Delete
  <2>2. Present' = Present \ {key[w]}
    BY <1>3, DeleteWrites
  <2>3. Found(w) = (key[w] \in Present)
    BY <2>1 DEF Found
  <2>4. K!Delete(w, key[w])
    BY <1>3, <2>2, <2>3 DEF K!Delete, Delete, Answer, Set
  <2> QED BY <2>1, <2>4 DEF K!Next
<1>4. ASSUME NEW w \in Workers,
             \/ Count(w) \/ Pause(w) \/ Resume(w)
             \/ \E k \in Active, o \in {"find", "insert", "delete"} : Begin(w, k, o)
      PROVE  Present' = Present /\ answer' = answer
  BY <1>4, TableKept DEF Count, Pause, Resume, Begin
<1>5. CASE Maintain
  <2>1. CASE Move \/ Expand
    BY <2>1, MoveWrites, ExpandWrites DEF Move, Expand, worker
  <2>2. CASE Rearm \/ Wait \/ PauseAll \/ ExpandFails
    BY <2>2, TableKept DEF Rearm, Wait, PauseAll, ExpandFails, worker
  <2> QED BY <1>5, <2>1, <2>2 DEF Maintain
<1>6. CASE UNCHANGED vars
  BY <1>6, TableKept DEF vars, worker
<1> QED BY <1>1, <1>2, <1>3, <1>4, <1>5, <1>6 DEF Next, Work

\* Growing is invisible: for any keys, hash values, workers and table sizes,
\* assoc_find, assoc_insert and assoc_delete have the effect and the answer
\* they have on a plain set, while buckets move and tables are exchanged.
THEOREM TableIsKeySet == Spec => ImplementsKeySet
<1>1. Init => K!Init
  <2>1. Present \subseteq Keys
    BY DEF Present
  <2> QED BY <2>1 DEF Init, K!Init
<1> QED BY <1>1, StepOfKeySet, AssocTableInvariant, PTL DEF Spec, ImplementsKeySet, K!Spec

-----------------------------------------------------------------------------
=============================================================================
