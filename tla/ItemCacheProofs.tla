--------------------------- MODULE ItemCacheProofs ---------------------------
(***************************************************************************)
(* The item layer keeps its reference counts, its hash table and its LRU   *)
(* list right for any number of clients, chunks, keys and lock stripes.    *)
(*                                                                         *)
(* None of the invariants of ItemCache is inductive.  What they rest on is *)
(* the locking protocol: whoever is between taking and releasing an item   *)
(* lock knows things about the items of that stripe's keys which nobody    *)
(* else can change meanwhile.  ClientOK says what each client knows where. *)
(***************************************************************************)
EXTENDS ItemCache, FiniteSetTheorems, TLAPS

\* Where a client has no item of its own, ...
Empty == {"idle", "reclaim", "reclaim_walk", "reclaim_done", "alloc",
          "evict", "evict_walk", "evict_done"}
\* ... uses a second one for sure, or may do so, ...
Pulled == {"reclaim_done", "evict_done"}
Second == Pulled \cup {"bump_unlink", "bump_link", "unlink_old", "link", "store_done"}
\* ... holds the item lock of its own key, ...
Inside == {"bump_unlink", "bump_link", "unlink_old", "link", "store_done", "unlinking"}
\* ... and has an item nobody else has seen.
Fresh == {"filled", "unlink_old", "link"}

\* What a client knows by where it is.
LocalsOK(c) ==
    /\ pc[c] \in Empty <=> mine[c] = None
    /\ pc[c] # "idle" => want[c] \in Keys
    /\ mine[c] # None => key[mine[c]] = want[c]
    /\ pc[c] \notin Second => cur[c] = None
    /\ pc[c] \in Pulled \cup {"unlink_old"} => cur[c] # None

LocksOK(c) ==
    /\ pc[c] \in Inside => item_lock[LockOf[want[c]]] = c
    /\ pc[c] \in Pulled => key[cur[c]] \in Keys /\ item_lock[LockOf[key[cur[c]]]] = c
    /\ Walking(c) => lru_lock = c /\ pos[c] <= Len(lru)

ItemsOK(c) ==
    /\ pc[c] \in {"bump_unlink", "bump_link"} => Bumped(c) \in linked /\ key[Bumped(c)] = want[c]
    /\ pc[c] = "unlink_old" => cur[c] \in linked /\ key[cur[c]] = want[c]
    /\ pc[c] = "link" => \A i \in linked : key[i] # want[c]
    /\ pc[c] \in Fresh => mine[c] \notin linked /\ \A d \in Clients : mine[d] = mine[c] => d = c

ClientOK(c) == LocalsOK(c) /\ LocksOK(c) /\ ItemsOK(c)

\* Only complete items are linked.
KeysKnown == \A i \in linked : key[i] \in Keys

\* How many clients have i in one of their locals.
Count(f, i) == Cardinality({c \in Clients : f[c] = i})
One(x, y) == IF x = y THEN 1 ELSE 0
Links(i, S) == IF i \in S THEN 1 ELSE 0

\* RefcountExact in these terms.
RefsOK ==
    \A i \in Chunks :
        /\ refcount[i] = Count(mine, i) + Count(cur, i) + Links(i, linked)
        /\ i \in free <=> refcount[i] = 0

IInv ==
    /\ TypeOK
    /\ \A c \in Clients : ClientOK(c)
    /\ KeysKnown
    /\ UniqueKeys
    /\ LruMatchesLinks
    /\ RefsOK
-----------------------------------------------------------------------------
(* Counting references.                                                    *)

\* A count is a number, and positive where somebody refers to the item.
LEMMA CountNat ==
    ASSUME NEW f, NEW i
    PROVE  /\ Count(f, i) \in Nat
           /\ \A c \in Clients : f[c] = i => Count(f, i) >= 1
<1> DEFINE S == {c \in Clients : f[c] = i}
<1>1. IsFiniteSet(S)
  BY FiniteAssumption, FS_Subset
<1>2. Cardinality(S) \in Nat /\ (Cardinality(S) = 0 <=> S = {})
  BY <1>1, FS_CardinalityType, FS_EmptySet
<1>3. ASSUME NEW c \in Clients, f[c] = i PROVE Cardinality(S) >= 1
  <2>1. c \in S
    BY <1>3
  <2>2. Cardinality(S) # 0
    BY <2>1, <1>2
  <2> QED BY <2>2, <1>2
<1> QED BY <1>2, <1>3 DEF Count

\* Two values of a local that differ for c only.
Alike(f, g, c) == \A d \in Clients \ {c} : g[d] = f[d]

\* A local that changes for c only moves one reference.
LEMMA CountChange ==
    ASSUME NEW f, NEW g, NEW c \in Clients, Alike(f, g, c), NEW i
    PROVE  Count(g, i) = Count(f, i) - One(f[c], i) + One(g[c], i)
<1> USE DEF Alike
<1> DEFINE S == {d \in Clients : f[d] = i}
           T == {d \in Clients : g[d] = i}
           R == {d \in Clients : f[d] = i /\ d # c}
<1>0. /\ IsFiniteSet(R) /\ Cardinality(R) \in Nat /\ c \notin R
  BY FiniteAssumption, FS_Subset, FS_CardinalityType
<1>1. Cardinality(R \cup {c}) = Cardinality(R) + 1
  BY <1>0, FS_AddElement
<1>2. Cardinality(S) = Cardinality(R) + One(f[c], i)
  <2>1. CASE f[c] = i
    <3>1. S = R \cup {c}
      BY <2>1
    <3> QED BY <3>1, <1>0, <1>1, <2>1 DEF One
  <2>2. CASE f[c] # i
    <3>1. S = R
      BY <2>2
    <3>2. One(f[c], i) = 0
      BY <2>2 DEF One
    <3>3. Cardinality(R) = Cardinality(R) + One(f[c], i)
      BY <1>0, <3>2
    <3> QED BY <3>1, <3>3
  <2> QED BY <2>1, <2>2
<1>3. Cardinality(T) = Cardinality(R) + One(g[c], i)
  <2>1. CASE g[c] = i
    <3>1. T = R \cup {c}
      BY <2>1
    <3> QED BY <3>1, <1>0, <1>1, <2>1 DEF One
  <2>2. CASE g[c] # i
    <3>1. T = R
      BY <2>2
    <3>2. One(g[c], i) = 0
      BY <2>2 DEF One
    <3>3. Cardinality(R) = Cardinality(R) + One(g[c], i)
      BY <1>0, <3>2
    <3> QED BY <3>1, <3>3
  <2> QED BY <2>1, <2>2
<1>4. One(f[c], i) \in Nat /\ One(g[c], i) \in Nat
  BY DEF One
<1> QED BY <1>0, <1>2, <1>3, <1>4 DEF Count

-----------------------------------------------------------------------------
(* The LRU list.                                                           *)

Distinct(s) == \A p, q \in 1 .. Len(s) : s[p] = s[q] => p = q

\* do_item_link_q adds an item that is not in the list.
LEMMA LinkQ ==
    ASSUME TypeOK, Distinct(lru), NEW i \in Chunks, i \notin Ran(lru)
    PROVE  LET s == do_item_link_q(i)
           IN  s \in Seq(Chunks) /\ Distinct(s) /\ Ran(s) = Ran(lru) \cup {i}
<1> DEFINE s == do_item_link_q(i)
<1>1. lru \in Seq(Chunks) /\ Len(lru) \in Nat /\ \A p \in 1 .. Len(lru) : lru[p] \in Chunks
  BY DEF TypeOK
<1>2. /\ s \in Seq(Chunks)
      /\ Len(s) = Len(lru) + 1
      /\ s[1] = i
      /\ \A p \in 2 .. Len(s) : s[p] = lru[p - 1]
  BY <1>1 DEF do_item_link_q
<1>3. \A p \in 1 .. Len(lru) : lru[p] # i
  BY DEF Ran
<1>4. Distinct(s)
  <2> SUFFICES ASSUME NEW p \in 1 .. Len(s), NEW q \in 1 .. Len(s), s[p] = s[q]
               PROVE  p = q
    BY DEF Distinct
  <2>1. \A r \in 1 .. Len(s) : r = 1 \/ (r - 1 \in 1 .. Len(lru) /\ s[r] = lru[r - 1])
    BY <1>1, <1>2
  <2>2. CASE p = 1 \/ q = 1
    BY <1>2, <1>3, <2>1, <2>2
  <2>3. CASE p # 1 /\ q # 1
    <3>1. p - 1 \in 1 .. Len(lru) /\ q - 1 \in 1 .. Len(lru) /\ lru[p - 1] = lru[q - 1]
      BY <2>1, <2>3
    <3>2. p - 1 = q - 1
      BY <3>1 DEF Distinct
    <3> QED BY <3>2, <1>1, <1>2
  <2> QED BY <2>2, <2>3
<1>5. Ran(s) = Ran(lru) \cup {i}
  <2>1. ASSUME NEW x \in Ran(s) PROVE x \in Ran(lru) \cup {i}
    BY <1>1, <1>2 DEF Ran
  <2>2. ASSUME NEW x \in Ran(lru) PROVE x \in Ran(s)
    <3>1. PICK p \in 1 .. Len(lru) : x = lru[p]
      BY DEF Ran
    <3>2. p + 1 \in 2 .. Len(s) /\ s[p + 1] = x
      BY <1>1, <1>2, <3>1
    <3> QED BY <3>2, <1>1, <1>2 DEF Ran
  <2>3. i \in Ran(s)
    BY <1>1, <1>2 DEF Ran
  <2> QED BY <2>1, <2>2, <2>3
<1> QED BY <1>2, <1>4, <1>5

\* do_item_unlink_q takes out an item that is in the list.
LEMMA UnlinkQ ==
    ASSUME TypeOK, Distinct(lru), NEW i \in Ran(lru)
    PROVE  LET s == do_item_unlink_q(i)
           IN  s \in Seq(Chunks) /\ Distinct(s) /\ Ran(s) = Ran(lru) \ {i}
<1> DEFINE s == do_item_unlink_q(i)
           P == CHOOSE q \in 1 .. Len(lru) : lru[q] = i
<1>1. lru \in Seq(Chunks) /\ Len(lru) \in Nat /\ \A p \in 1 .. Len(lru) : lru[p] \in Chunks
  BY DEF TypeOK
<1>2. P \in 1 .. Len(lru) /\ lru[P] = i
  BY DEF Ran
<1> HIDE DEF P
<1>3. s = [q \in 1 .. Len(lru) - 1 |-> IF q < P THEN lru[q] ELSE lru[q + 1]]
  BY DEF do_item_unlink_q, P
<1>4. Len(lru) - 1 \in Nat
  BY <1>1, <1>2
<1> HIDE DEF s
<1>5. s \in Seq(Chunks) /\ Len(s) = Len(lru) - 1
  BY <1>1, <1>3, <1>4
<1>6. \A q \in 1 .. Len(s) :
         /\ q < P => s[q] = lru[q] /\ q \in 1 .. Len(lru)
         /\ ~(q < P) => s[q] = lru[q + 1] /\ q + 1 \in 1 .. Len(lru)
  BY <1>1, <1>3, <1>5
<1>7. Distinct(s)
  <2> SUFFICES ASSUME NEW p \in 1 .. Len(s), NEW q \in 1 .. Len(s), s[p] = s[q]
               PROVE  p = q
    BY DEF Distinct
  <2>0. p \in Int /\ q \in Int /\ P \in Int
    BY <1>2, <1>1, <1>5
  <2>1. CASE p < P /\ q < P
    BY <2>1, <1>6 DEF Distinct
  <2>2. CASE p < P /\ ~(q < P)
    <3>1. p = q + 1
      BY <2>2, <1>6, <2>0 DEF Distinct
    <3> QED BY <3>1, <2>0, <2>2
  <2>3. CASE ~(p < P) /\ q < P
    <3>1. p + 1 = q
      BY <2>3, <1>6, <2>0 DEF Distinct
    <3> QED BY <3>1, <2>0, <2>3
  <2>4. CASE ~(p < P) /\ ~(q < P)
    <3>1. p + 1 = q + 1
      BY <2>4, <1>6 DEF Distinct
    <3> QED BY <3>1, <2>0
  <2> QED BY <2>1, <2>2, <2>3, <2>4
<1>8. Ran(s) = Ran(lru) \ {i}
  <2>1. ASSUME NEW x \in Ran(s) PROVE x \in Ran(lru) \ {i}
    <3>1. PICK q \in 1 .. Len(s) : x = s[q]
      BY <2>1 DEF Ran
    <3>2. PICK r \in 1 .. Len(lru) : x = lru[r] /\ r # P
      BY <3>1, <1>6, <1>1, <1>2, <1>5
    <3> QED BY <3>2, <1>2 DEF Ran, Distinct
  <2>2. ASSUME NEW x \in Ran(lru) \ {i} PROVE x \in Ran(s)
    <3>1. PICK r \in 1 .. Len(lru) : x = lru[r] /\ r # P
      BY <2>2, <1>2 DEF Ran
    <3>2. CASE r < P
      <4>1. r \in 1 .. Len(s) /\ s[r] = x
        BY <3>1, <3>2, <1>1, <1>2, <1>5, <1>6
      <4> QED BY <4>1 DEF Ran
    <3>3. CASE ~(r < P)
      <4>1. r - 1 \in 1 .. Len(s) /\ ~(r - 1 < P) /\ (r - 1) + 1 = r
        BY <3>1, <3>3, <1>1, <1>2, <1>5
      <4>2. s[r - 1] = x
        BY <4>1, <3>1, <1>6
      <4> QED BY <4>1, <4>2 DEF Ran
    <3> QED BY <3>2, <3>3
  <2> QED BY <2>1, <2>2
<1> QED BY <1>5, <1>7, <1>8 DEF s
-----------------------------------------------------------------------------

(* What the invariant says of two clients.                                 *)

\* Two clients inside the operations of one key are one.
LEMMA Alone ==
    ASSUME IInv, NEW c \in Clients, NEW d \in Clients,
           pc[c] \in Inside, pc[d] \in Inside, want[c] = want[d]
    PROVE  c = d
BY DEF IInv, ClientOK, LocksOK

\* An item of the key a client is inside with is in the LRU list.
LEMMA InsideInLru ==
    ASSUME IInv, NEW c \in Clients, pc[c] \in Inside \ {"bump_link"},
           NEW i \in linked, key[i] = want[c]
    PROVE  i \in Ran(lru)
<1>1. ASSUME NEW d \in Clients, pc[d] = "bump_link", Bumped(d) = i PROVE FALSE
  <2>1. want[d] = want[c]
    BY <1>1 DEF IInv, ClientOK, ItemsOK
  <2> QED BY <1>1, <2>1, Alone DEF Inside
<1>2. i \in Chunks
  BY DEF IInv, TypeOK
<1> QED BY <1>1, <1>2 DEF IInv, LruMatchesLinks, Moving

\* The LRU lock is free: nobody is in the middle of lru_pull_tail's walk.
LEMMA NobodyWalks ==
    ASSUME IInv, lru_lock = None, NEW c \in Clients
    PROVE  ~Walking(c)
BY NoneAssumption DEF IInv, ClientOK, LocksOK

\* assoc_delete removes the item it is called for.
LEMMA DeleteExact ==
    ASSUME IInv, NEW i \in linked
    PROVE  assoc_find(key[i]) = {i}
BY DEF IInv, UniqueKeys, assoc_find

\* A step that is not about bump_link leaves the items on the move alone.
LEMMA MovingStays ==
    ASSUME NEW c \in Clients, pc[c] # "bump_link", pc'[c] # "bump_link",
           \A d \in Clients \ {c} : /\ pc'[d] = pc[d]
                                    /\ mine'[d] = mine[d]
                                    /\ cur'[d] = cur[d]
    PROVE  \A i : Moving(i)' <=> Moving(i)
BY DEF Moving, Bumped

\* A step that leaves LRU list and links alone, too.
LEMMA LruStays ==
    ASSUME IInv, UNCHANGED <<lru, linked>>, NEW c \in Clients, pc[c] # "bump_link", pc'[c] # "bump_link",
           \A d \in Clients \ {c} : /\ pc'[d] = pc[d]
                                    /\ mine'[d] = mine[d]
                                    /\ cur'[d] = cur[d]
    PROVE  LruMatchesLinks'
<1>1. \A i : Moving(i)' <=> Moving(i)
  BY MovingStays
<1> QED BY <1>1 DEF IInv, LruMatchesLinks, Ran

\* What the reference count of an item tells.
LEMMA InUse ==
    ASSUME IInv, NEW i \in Chunks
    PROVE  /\ refcount[i] \in Nat
           /\ i \in free <=> refcount[i] = 0
           /\ i \in linked => refcount[i] >= 1
           /\ \A d \in Clients : mine[d] = i \/ cur[d] = i => refcount[i] >= 1
<1>1. /\ refcount[i] = Count(mine, i) + Count(cur, i) + Links(i, linked)
      /\ i \in free <=> refcount[i] = 0
  BY DEF IInv, RefsOK
<1>2. /\ Count(mine, i) \in Nat /\ \A d \in Clients : mine[d] = i => Count(mine, i) >= 1
      /\ Count(cur, i) \in Nat /\ \A d \in Clients : cur[d] = i => Count(cur, i) >= 1
  BY CountNat
<1> QED BY <1>1, <1>2 DEF Links

\* A step of c that changes each count by what it does to the two references
\* of c and to the link ...
Counted(c, j) ==
    /\ refcount'[j] = refcount[j] + One(mine'[c], j) - One(mine[c], j)
                                  + One(cur'[c], j) - One(cur[c], j)
                                  + Links(j, linked') - Links(j, linked)
    /\ j \in free' <=> refcount'[j] = 0

\* ... keeps the counts exact.
LEMMA RefsKeep ==
    ASSUME IInv, NEW c \in Clients,
           Alike(mine, mine', c), Alike(cur, cur', c),
           \A j \in Chunks : Counted(c, j)
    PROVE  RefsOK'
<1>1. \A j : /\ Count(mine', j) = Count(mine, j) - One(mine[c], j) + One(mine'[c], j)
             /\ Count(cur', j) = Count(cur, j) - One(cur[c], j) + One(cur'[c], j)
  BY CountChange
<1>3. \A j : Count(mine, j) \in Nat /\ Count(cur, j) \in Nat
  BY CountNat
<1>4. ASSUME NEW j \in Chunks
      PROVE  refcount'[j] = Count(mine', j) + Count(cur', j) + Links(j, linked')
  <2>1. refcount[j] = Count(mine, j) + Count(cur, j) + Links(j, linked)
    BY DEF IInv, RefsOK
  <2>2. /\ One(mine[c], j) \in Nat /\ One(mine'[c], j) \in Nat
        /\ One(cur[c], j) \in Nat /\ One(cur'[c], j) \in Nat
        /\ Links(j, linked) \in Nat /\ Links(j, linked') \in Nat
    BY DEF One, Links
  <2> QED BY <1>1, <1>3, <2>1, <2>2 DEF Counted
<1> QED BY <1>4 DEF RefsOK, Counted

\* The first round is one.
LEMMA FirstRound == 0 \in 0 .. AllocTries - 1
BY TriesAssumption

\* A step that leaves items and references alone.
LEMMA StoreStays ==
    ASSUME IInv, UNCHANGED <<store, mine, cur>>, NEW c \in Clients,
           pc[c] # "bump_link", pc'[c] # "bump_link",
           \A d \in Clients \ {c} : pc'[d] = pc[d]
    PROVE  KeysKnown' /\ UniqueKeys' /\ LruMatchesLinks' /\ RefsOK'
<1>1. KeysKnown' /\ UniqueKeys'
  BY DEF IInv, KeysKnown, UniqueKeys, store
<1>2. LruMatchesLinks'
  BY LruStays DEF store
<1>3. RefsOK'
  BY DEF IInv, RefsOK, store
<1> QED BY <1>1, <1>2, <1>3

-----------------------------------------------------------------------------
(* Every step keeps the invariant.                                         *)

\* item_get keeps the invariant.
LEMMA GetKeeps ==
    ASSUME IInv, NEW c \in Clients, NEW k \in Keys, Get(c, k)
    PROVE  IInv'
<1> USE LockOfAssumption, NoneAssumption
<1>1. PICK i \in table : /\ key[i] = k
                         /\ refcount' = [refcount EXCEPT ![i] = @ + 1]
                         /\ mine' = [mine EXCEPT ![c] = i]
  BY DEF Get, assoc_find
<1>2. TypeOK'
  BY <1>1 DEF IInv, TypeOK, Get, Lock, Goto, Steps
<1>3. \A d \in Clients : LocalsOK(d)'
  BY <1>1 DEF IInv, TypeOK, Get, Lock, Goto, Steps, ClientOK, LocalsOK, Empty, Second, Pulled
<1>4. \A d \in Clients : LocksOK(d)'
  BY <1>1 DEF IInv, TypeOK, Get, Lock, Goto, Steps, ClientOK, LocalsOK, LocksOK, Inside, Pulled, Walking
<1>5. \A d \in Clients : ItemsOK(d)'
  BY <1>1 DEF IInv, TypeOK, Get, Lock, Goto, Steps, ClientOK, LocalsOK, ItemsOK, UniqueKeys, Bumped, Fresh, Second, Pulled
<1>6. KeysKnown' /\ UniqueKeys'
  BY <1>1 DEF IInv, TypeOK, Get, KeysKnown, UniqueKeys
<1>7. LruMatchesLinks'
  BY <1>1, LruStays DEF Get, Goto, IInv, TypeOK
<1>8. RefsOK'
  <2>1. mine[c] = None /\ i \in Chunks /\ i \in linked
    BY DEF IInv, ClientOK, LocalsOK, Get, Empty, TypeOK, UniqueKeys
  <2>2. Alike(mine, mine', c) /\ Alike(cur, cur', c)
    BY <1>1 DEF IInv, TypeOK, Get, Alike
  <2>3. ASSUME NEW j \in Chunks PROVE Counted(c, j)
    BY <1>1, <2>1, InUse DEF IInv, TypeOK, Get, Counted, One, Links
  <2> QED BY <2>2, <2>3, RefsKeep
<1> QED BY <1>2, <1>3, <1>4, <1>5, <1>6, <1>7, <1>8 DEF IInv, ClientOK

\* The first half of do_item_update, item_unlink_q, keeps it.
LEMMA BumpUnlinkKeeps ==
    ASSUME IInv, NEW c \in Clients, BumpUnlink(c)
    PROVE  IInv'
<1> USE LockOfAssumption, NoneAssumption
<1> DEFINE b == Bumped(c)
<1>1. b \in linked /\ b \in Ran(lru) /\ Distinct(lru)
  BY InsideInLru DEF IInv, ClientOK, ItemsOK, BumpUnlink, Inside, LruMatchesLinks, Distinct
<1>2. lru' \in Seq(Chunks) /\ Distinct(lru') /\ Ran(lru') = Ran(lru) \ {b}
  BY <1>1, UnlinkQ DEF BumpUnlink, IInv
<1>3. TypeOK'
  BY <1>2 DEF IInv, TypeOK, BumpUnlink, Goto, Steps, locks, local
<1>4. \A d \in Clients : LocalsOK(d)'
  BY DEF IInv, TypeOK, BumpUnlink, Goto, locks, local, ClientOK, LocalsOK, Empty, Second, Pulled
<1>5. \A d \in Clients : LocksOK(d)'
  BY NobodyWalks DEF IInv, TypeOK, BumpUnlink, Goto, locks, local, ClientOK, LocksOK, Inside, Pulled, Walking
<1>6. \A d \in Clients : ItemsOK(d)'
  BY DEF IInv, TypeOK, BumpUnlink, Goto, locks, local, ClientOK, ItemsOK, Bumped, Fresh
<1>7. KeysKnown' /\ UniqueKeys' /\ RefsOK'
  BY DEF IInv, BumpUnlink, local, KeysKnown, UniqueKeys, RefsOK
<1>8. LruMatchesLinks'
  <2>1. \A i : Moving(i)' <=> Moving(i) \/ i = b
    BY DEF IInv, TypeOK, BumpUnlink, Goto, local, Moving, Bumped
  <2>2. \A i \in Chunks : i \in Ran(lru') <=> i \in linked /\ ~Moving(i) /\ i # b
    BY <1>2 DEF IInv, LruMatchesLinks
  <2> QED BY <1>2, <2>1, <2>2 DEF LruMatchesLinks, Distinct, BumpUnlink, Ran
<1> QED BY <1>3, <1>4, <1>5, <1>6, <1>7, <1>8 DEF IInv, ClientOK

\* The second half, item_link_q, keeps it.
LEMMA BumpLinkKeeps ==
    ASSUME IInv, NEW c \in Clients, BumpLink(c)
    PROVE  IInv'
<1> USE LockOfAssumption, NoneAssumption
<1> DEFINE b == Bumped(c)
<1>0. pc' = [pc EXCEPT ![c] = pc'[c]] /\ pc'[c] \in {"hold", "store_done"} /\ pc[c] = "bump_link"
  BY DEF IInv, TypeOK, BumpLink, Goto
<1>1. b \in linked /\ key[b] = want[c] /\ want[c] \in Keys /\ b \in Chunks
  BY DEF IInv, ClientOK, ItemsOK, LocalsOK, BumpLink, TypeOK
<1>2. b \notin Ran(lru) /\ Distinct(lru)
  BY <1>1 DEF IInv, LruMatchesLinks, Distinct, Moving, BumpLink
<1>3. lru' \in Seq(Chunks) /\ Distinct(lru') /\ Ran(lru') = Ran(lru) \cup {b}
  BY <1>1, <1>2, LinkQ DEF BumpLink, IInv
<1>4. TypeOK'
  BY <1>3 DEF IInv, TypeOK, BumpLink, Goto, Unlock, Steps, AtRest, local
<1>5. \A d \in Clients : LocalsOK(d)'
  BY DEF IInv, TypeOK, BumpLink, Goto, local, ClientOK, LocalsOK, Empty, Second, Pulled
<1>6. \A d \in Clients : LocksOK(d)'
  BY NobodyWalks, <1>1 DEF IInv, TypeOK, BumpLink, Goto, Unlock, local, ClientOK, LocalsOK, LocksOK, Inside, Pulled, Walking
<1>7. \A d \in Clients : ItemsOK(d)'
  BY <1>0 DEF IInv, TypeOK, BumpLink, local, ClientOK, ItemsOK, Bumped, Fresh
<1>8. KeysKnown' /\ UniqueKeys' /\ RefsOK'
  BY DEF IInv, BumpLink, local, KeysKnown, UniqueKeys, RefsOK
<1>9. LruMatchesLinks'
  <2>1. ASSUME NEW d \in Clients, d # c, pc[d] = "bump_link" PROVE Bumped(d) # b
    <3>1. key[Bumped(d)] = want[d]
      BY <2>1 DEF IInv, ClientOK, ItemsOK
    <3> QED BY <1>1, <2>1, <3>1, Alone DEF BumpLink, Inside
  <2>2. \A i : Moving(i)' <=> Moving(i) /\ i # b
    BY <2>1 DEF IInv, TypeOK, BumpLink, Goto, local, Moving, Bumped
  <2>3. \A i \in Chunks : i \in Ran(lru') <=> i \in linked /\ (~Moving(i) \/ i = b)
    BY <1>1, <1>3 DEF IInv, LruMatchesLinks
  <2> QED BY <1>3, <2>2, <2>3 DEF LruMatchesLinks, Distinct, BumpLink, Ran
<1> QED BY <1>4, <1>5, <1>6, <1>7, <1>8, <1>9 DEF IInv, ClientOK

\* Entering item_alloc keeps it.
LEMMA AllocKeeps ==
    ASSUME IInv, NEW c \in Clients, NEW k \in Keys, Alloc(c, k)
    PROVE  IInv'
<1> USE LockOfAssumption, NoneAssumption
<1>1. TypeOK'
  BY DEF IInv, TypeOK, Alloc, Goto, Steps, store, locks
<1>2. \A d \in Clients : LocalsOK(d)'
  BY DEF IInv, TypeOK, Alloc, Goto, store, ClientOK, LocalsOK, Empty, Second, Pulled
<1>3. \A d \in Clients : LocksOK(d)'
  BY DEF IInv, TypeOK, Alloc, Goto, store, locks, ClientOK, LocksOK, Inside, Pulled, Walking
<1>4. \A d \in Clients : ItemsOK(d)'
  BY DEF IInv, TypeOK, Alloc, Goto, store, ClientOK, ItemsOK, Bumped, Fresh
<1>5. KeysKnown' /\ UniqueKeys' /\ LruMatchesLinks' /\ RefsOK'
  BY StoreStays DEF IInv, TypeOK, Alloc, Goto
<1> QED BY <1>1, <1>2, <1>3, <1>4, <1>5 DEF IInv, ClientOK

\* lru_pull_tail's start, with the LRU lock, keeps it.
LEMMA PullBeginKeeps ==
    ASSUME IInv, NEW c \in Clients, PullBegin(c)
    PROVE  IInv'
<1> USE LockOfAssumption, NoneAssumption
<1>0. /\ pc[c] \in {"reclaim", "evict"} /\ pc'[c] \in {"reclaim_walk", "evict_walk"}
      /\ pc' = [pc EXCEPT ![c] = pc'[c]]
  BY DEF IInv, TypeOK, PullBegin, Goto
<1>1. TypeOK'
  <2>1. pc' \in [Clients -> Steps]
    BY <1>0 DEF IInv, TypeOK, Steps
  <2>2. Len(lru) \in Nat
    BY DEF IInv, TypeOK
  <2> QED BY <2>1, <2>2 DEF IInv, TypeOK, PullBegin, store
<1>2. \A d \in Clients : LocalsOK(d)'
  BY <1>0 DEF IInv, TypeOK, PullBegin, store, ClientOK, LocalsOK, Empty, Second, Pulled
<1>3. \A d \in Clients : LocksOK(d)'
  BY <1>0, NobodyWalks DEF IInv, TypeOK, PullBegin, store, ClientOK, LocksOK, Inside, Pulled, Walking
<1>4. \A d \in Clients : ItemsOK(d)'
  BY ZenonT(40), <1>0 DEF IInv, TypeOK, PullBegin, store, ClientOK, ItemsOK, Bumped, Fresh
<1>5. KeysKnown' /\ UniqueKeys' /\ LruMatchesLinks' /\ RefsOK'
  BY <1>0, StoreStays DEF IInv, TypeOK, PullBegin
<1> QED BY <1>1, <1>2, <1>3, <1>4, <1>5 DEF IInv, ClientOK

\* A failed item_trylock keeps it.
LEMMA PullSkipKeeps ==
    ASSUME IInv, NEW c \in Clients, PullSkip(c)
    PROVE  IInv'
<1> USE LockOfAssumption, NoneAssumption
<1>1. TypeOK'
  BY DEF IInv, TypeOK, PullSkip, InReach, store, locks
<1>2. \A d \in Clients : LocalsOK(d)'
  BY DEF IInv, PullSkip, store, ClientOK, LocalsOK
<1>3. \A d \in Clients : LocksOK(d)'
  BY DEF IInv, TypeOK, PullSkip, InReach, store, locks, ClientOK, LocksOK, Walking
<1>4. \A d \in Clients : ItemsOK(d)'
  BY DEF IInv, PullSkip, store, ClientOK, ItemsOK, Bumped
<1>5. KeysKnown' /\ UniqueKeys' /\ LruMatchesLinks' /\ RefsOK'
  BY StoreStays DEF IInv, TypeOK, PullSkip, Walking
<1> QED BY <1>1, <1>2, <1>3, <1>4, <1>5 DEF IInv, ClientOK

\* lru_pull_tail's end without an item keeps it.
LEMMA PullFailKeeps ==
    ASSUME IInv, NEW c \in Clients, PullFail(c)
    PROVE  IInv'
<1> USE LockOfAssumption, NoneAssumption, TriesAssumption
<1>0. /\ Walking(c) /\ pc' = [pc EXCEPT ![c] = pc'[c]]
      /\ \/ pc'[c] = "idle" /\ want' = [want EXCEPT ![c] = None] /\ round' = [round EXCEPT ![c] = 0]
         \/ pc'[c] = "alloc" /\ want' = want /\ round' = round
  BY DEF IInv, TypeOK, PullFail, Return, Goto
<1>1. TypeOK'
  <2>1. pc' \in [Clients -> Steps]
    BY <1>0 DEF IInv, TypeOK, Steps, AtRest
  <2>2. want' \in [Clients -> Keys \cup {None}]
    BY <1>0 DEF IInv, TypeOK
  <2>3. round' \in [Clients -> 0 .. AllocTries - 1]
    <3>1. round' = round \/ round' = [round EXCEPT ![c] = 0]
      BY <1>0
    <3> QED BY <3>1, FirstRound DEF IInv, TypeOK
  <2> QED BY <2>1, <2>2, <2>3 DEF IInv, TypeOK, PullFail, store
<1>2. \A d \in Clients : LocalsOK(d)'
  BY <1>0 DEF IInv, TypeOK, PullFail, store, ClientOK, LocalsOK, Empty, Second, Pulled, Walking
<1>3. \A d \in Clients : LocksOK(d)'
  BY <1>0 DEF IInv, TypeOK, PullFail, store, ClientOK, LocksOK, Inside, Pulled, Walking
<1>4. \A d \in Clients : ItemsOK(d)'
  <2>1. pc'[c] \notin {"bump_unlink", "bump_link", "unlink_old", "link"} \cup Fresh
    BY <1>0 DEF Fresh
  <2>2. \A d \in Clients \ {c} : pc'[d] = pc[d] /\ want'[d] = want[d]
    BY <1>0 DEF IInv, TypeOK
  <2> QED BY <2>1, <2>2 DEF IInv, PullFail, store, ClientOK, ItemsOK, Bumped
<1>5. KeysKnown' /\ UniqueKeys' /\ LruMatchesLinks' /\ RefsOK'
  BY <1>0, StoreStays DEF IInv, TypeOK, PullFail, Walking
<1> QED BY <1>1, <1>2, <1>3, <1>4, <1>5 DEF IInv, ClientOK

\* slabs_alloc without a free chunk keeps it.
LEMMA SlabsEmptyKeeps ==
    ASSUME IInv, NEW c \in Clients, SlabsEmpty(c)
    PROVE  IInv'
<1> USE LockOfAssumption, NoneAssumption
<1>1. TypeOK'
  BY DEF IInv, TypeOK, SlabsEmpty, Goto, Steps, store, locks, local
<1>2. \A d \in Clients : LocalsOK(d)'
  BY DEF IInv, TypeOK, SlabsEmpty, Goto, store, local, ClientOK, LocalsOK, Empty, Second, Pulled
<1>3. \A d \in Clients : LocksOK(d)'
  BY DEF IInv, TypeOK, SlabsEmpty, Goto, store, locks, local, ClientOK, LocksOK, Inside, Pulled, Walking
<1>4. \A d \in Clients : ItemsOK(d)'
  BY DEF IInv, TypeOK, SlabsEmpty, Goto, store, local, ClientOK, ItemsOK, Bumped, Fresh
<1>5. KeysKnown' /\ UniqueKeys' /\ LruMatchesLinks' /\ RefsOK'
  BY StoreStays DEF IInv, TypeOK, SlabsEmpty, Goto, local
<1> QED BY <1>1, <1>2, <1>3, <1>4, <1>5 DEF IInv, ClientOK

\* do_store_item of a key that is not stored keeps it.
LEMMA StoreFreshKeeps ==
    ASSUME IInv, NEW c \in Clients, StoreFresh(c)
    PROVE  IInv'
<1> USE LockOfAssumption, NoneAssumption
<1>1. TypeOK'
  BY DEF IInv, TypeOK, StoreFresh, Lock, Goto, Steps, store, local
<1>2. \A d \in Clients : LocalsOK(d)'
  BY DEF IInv, TypeOK, StoreFresh, Goto, store, local, ClientOK, LocalsOK, Empty, Second, Pulled
<1>3. \A d \in Clients : LocksOK(d)'
  BY DEF IInv, TypeOK, StoreFresh, Lock, Goto, store, local, ClientOK, LocalsOK, LocksOK, Inside, Pulled, Walking
<1>4. \A d \in Clients : ItemsOK(d)'
  BY DEF IInv, TypeOK, StoreFresh, Goto, store, local, ClientOK, ItemsOK, Bumped, Fresh, UniqueKeys, assoc_find
<1>5. KeysKnown' /\ UniqueKeys' /\ LruMatchesLinks' /\ RefsOK'
  BY StoreStays DEF IInv, TypeOK, StoreFresh, Goto, local
<1> QED BY <1>1, <1>2, <1>3, <1>4, <1>5 DEF IInv, ClientOK

\* A replace of a key that is not stored keeps it.
LEMMA StoreRefusedKeeps ==
    ASSUME IInv, NEW c \in Clients, StoreRefused(c)
    PROVE  IInv'
<1> USE LockOfAssumption, NoneAssumption
<1>1. TypeOK'
  BY DEF IInv, TypeOK, StoreRefused, Goto, Steps, AtRest, store, locks, local
<1>2. \A d \in Clients : LocalsOK(d)'
  BY DEF IInv, TypeOK, StoreRefused, Goto, store, local, ClientOK, LocalsOK, Empty, Second, Pulled
<1>3. \A d \in Clients : LocksOK(d)'
  BY DEF IInv, TypeOK, StoreRefused, Goto, store, locks, local, ClientOK, LocksOK, Inside, Pulled, Walking
<1>4. \A d \in Clients : ItemsOK(d)'
  BY DEF IInv, TypeOK, StoreRefused, Goto, store, local, ClientOK, ItemsOK, Bumped, Fresh
<1>5. KeysKnown' /\ UniqueKeys' /\ LruMatchesLinks' /\ RefsOK'
  BY StoreStays DEF IInv, TypeOK, StoreRefused, Goto, local
<1> QED BY <1>1, <1>2, <1>3, <1>4, <1>5 DEF IInv, ClientOK

\* The start of item_unlink, with the item lock, keeps it.
LEMMA UnlinkLockKeeps ==
    ASSUME IInv, NEW c \in Clients, UnlinkLock(c)
    PROVE  IInv'
<1> USE LockOfAssumption, NoneAssumption
<1>0. mine[c] # None /\ key[mine[c]] = want[c] /\ want[c] \in Keys
  BY DEF IInv, ClientOK, LocalsOK, UnlinkLock, Empty
<1>1. TypeOK'
  BY <1>0 DEF IInv, TypeOK, UnlinkLock, Lock, Goto, Steps, store, local
<1>2. \A d \in Clients : LocalsOK(d)'
  BY DEF IInv, TypeOK, UnlinkLock, Goto, store, local, ClientOK, LocalsOK, Empty, Second, Pulled
<1>3. \A d \in Clients : LocksOK(d)'
  BY <1>0 DEF IInv, TypeOK, UnlinkLock, Lock, Goto, store, local, ClientOK, LocalsOK, LocksOK, Inside, Pulled, Walking
<1>4. \A d \in Clients : ItemsOK(d)'
  BY DEF IInv, TypeOK, UnlinkLock, Goto, store, local, ClientOK, ItemsOK, Bumped, Fresh
<1>5. KeysKnown' /\ UniqueKeys' /\ LruMatchesLinks' /\ RefsOK'
  BY StoreStays DEF IInv, TypeOK, UnlinkLock, Goto, local
<1> QED BY <1>1, <1>2, <1>3, <1>4, <1>5 DEF IInv, ClientOK

\* lru_pull_tail's reference to, or eviction of, the item it could lock keeps it.
LEMMA PullTakeKeeps ==
    ASSUME IInv, NEW c \in Clients, PullTake(c)
    PROVE  IInv'
<1> USE LockOfAssumption, NoneAssumption
<1> DEFINE i == Search(c)
<1>1. /\ i \in Ran(lru) /\ i \in Chunks /\ i \in linked /\ key[i] \in Keys
      /\ Distinct(lru) /\ lru_lock = c
  <2>1. pos[c] \in 1 .. Len(lru) /\ lru_lock = c
    BY DEF IInv, TypeOK, PullTake, InReach, ClientOK, LocksOK
  <2>2. i \in Ran(lru) /\ i \in Chunks
    BY <2>1 DEF Search, Ran, IInv, TypeOK
  <2> QED BY <2>1, <2>2 DEF IInv, LruMatchesLinks, KeysKnown, Distinct
<1>2. /\ Walking(c) /\ pc' = [pc EXCEPT ![c] = pc'[c]] /\ pc'[c] \in Pulled
      /\ item_lock[LockOf[key[i]]] = None /\ item_lock' = [item_lock EXCEPT ![LockOf[key[i]]] = c]
      /\ cur' = [cur EXCEPT ![c] = i] /\ pos' = [pos EXCEPT ![c] = 0] /\ lru_lock' = None
      /\ UNCHANGED <<free, key, want, mine, round>>
  BY DEF IInv, TypeOK, PullTake, Lock, Goto, Pulled
<1>3. \/ /\ linked' = linked \ {i} /\ table' = table \ {i}
         /\ lru' = do_item_unlink_q(i) /\ refcount' = refcount
      \/ /\ refcount' = [refcount EXCEPT ![i] = @ + 1] /\ UNCHANGED <<linked, table, lru>>
  BY <1>1, DeleteExact DEF PullTake, Evict
<1>4. /\ lru' \in Seq(Chunks) /\ Distinct(lru')
      /\ \/ linked' = linked \ {i} /\ Ran(lru') = Ran(lru) \ {i}
         \/ linked' = linked /\ Ran(lru') = Ran(lru)
  BY <1>1, <1>3, UnlinkQ DEF IInv, TypeOK
<1>5. TypeOK'
  <2>1. pc' \in [Clients -> Steps]
    BY <1>2 DEF IInv, TypeOK, Steps, Pulled
  <2>2. linked' \subseteq Chunks /\ table' \subseteq Chunks
    BY <1>3 DEF IInv, TypeOK
  <2>3. refcount' \in [Chunks -> Nat]
    BY <1>3 DEF IInv, TypeOK
  <2> QED BY <1>1, <1>2, <1>4, <2>1, <2>2, <2>3 DEF IInv, TypeOK
<1>6. \A d \in Clients : LocalsOK(d)'
  BY <1>1, <1>2 DEF IInv, TypeOK, ClientOK, LocalsOK, Empty, Second, Pulled, Walking
<1>7. \A d \in Clients : LocksOK(d)'
  BY <1>1, <1>2 DEF IInv, TypeOK, ClientOK, LocalsOK, LocksOK, Inside, Pulled, Walking
<1>8. \A d \in Clients : ItemsOK(d)'
  <2>1. \A d \in Clients : pc[d] \in Inside => want[d] # key[i]
    BY <1>2 DEF IInv, ClientOK, LocksOK
  <2>2. ASSUME NEW d \in Clients, d # c PROVE ItemsOK(d)'
    BY <1>2, <1>4, <2>1, <2>2 DEF IInv, TypeOK, ClientOK, ItemsOK, Bumped, Inside
  <2>3. ItemsOK(c)'
    BY <1>2 DEF ItemsOK, Pulled, Fresh
  <2> QED BY <2>2, <2>3
<1>9. KeysKnown' /\ UniqueKeys'
  BY <1>2, <1>3 DEF IInv, KeysKnown, UniqueKeys
<1>10. LruMatchesLinks'
  <2>1. \A j : Moving(j)' <=> Moving(j)
    BY <1>2, MovingStays DEF IInv, TypeOK, Walking, Pulled
  <2>2. \A j \in Chunks : j \in Ran(lru') <=> j \in linked' /\ ~Moving(j)
    BY <1>4, <1>1 DEF IInv, LruMatchesLinks
  <2> QED BY <1>4, <2>1, <2>2 DEF LruMatchesLinks, Distinct, Ran
<1>11. RefsOK'
  <2>1. cur[c] = None /\ i \notin free
    BY <1>1, <1>2, InUse DEF IInv, ClientOK, LocalsOK, Walking, Second, Pulled
  <2>2. Alike(mine, mine', c) /\ Alike(cur, cur', c)
    BY <1>2 DEF IInv, TypeOK, Alike
  <2>3. ASSUME NEW j \in Chunks PROVE Counted(c, j)
    BY <1>1, <1>2, <1>3, <2>1, InUse DEF IInv, TypeOK, Counted, One, Links
  <2> QED BY <2>2, <2>3, RefsKeep
<1> QED BY <1>5, <1>6, <1>7, <1>8, <1>9, <1>10, <1>11 DEF IInv, ClientOK

\* lru_pull_tail's do_item_remove and unlock keep it.
LEMMA PullDoneKeeps ==
    ASSUME IInv, NEW c \in Clients, PullDone(c)
    PROVE  IInv'
<1> USE LockOfAssumption, NoneAssumption
<1> DEFINE i == cur[c]
<1>1. i \in Chunks /\ key[i] \in Keys /\ item_lock[LockOf[key[i]]] = c /\ refcount[i] \in Nat \ {0}
  BY InUse DEF IInv, TypeOK, ClientOK, LocalsOK, LocksOK, PullDone, Pulled
<1>2. /\ pc[c] \in Pulled /\ pc' = [pc EXCEPT ![c] = pc'[c]]
      /\ item_lock' = [item_lock EXCEPT ![LockOf[key[i]]] = None]
      /\ cur' = [cur EXCEPT ![c] = None]
      /\ refcount' = [refcount EXCEPT ![i] = @ - 1]
      /\ free' = IF refcount[i] = 1 THEN free \cup {i} ELSE free
      /\ UNCHANGED <<linked, table, lru, key, lru_lock, mine, pos>>
  BY DEF IInv, TypeOK, PullDone, do_item_remove, Unlock, NextRound, Return, Goto, Pulled
<1>3. \/ pc'[c] = "idle" /\ want' = [want EXCEPT ![c] = None] /\ round' = [round EXCEPT ![c] = 0]
      \/ /\ pc'[c] \in {"alloc", "reclaim"} /\ want' = want
         /\ round' = round \/ (round[c] + 1 < AllocTries /\ round' = [round EXCEPT ![c] = @ + 1])
  BY DEF IInv, TypeOK, PullDone, NextRound, Return, Goto
<1>4. TypeOK'
  <2>1. pc' \in [Clients -> Steps]
    BY <1>2, <1>3 DEF IInv, TypeOK, Steps, AtRest
  <2>2. want' \in [Clients -> Keys \cup {None}]
    BY <1>3 DEF IInv, TypeOK
  <2>3. round' \in [Clients -> 0 .. AllocTries - 1]
    <3>1. CASE round' = round \/ round' = [round EXCEPT ![c] = 0]
      BY <3>1, FirstRound DEF IInv, TypeOK
    <3>2. CASE round[c] + 1 < AllocTries /\ round' = [round EXCEPT ![c] = @ + 1]
      <4>1. round[c] + 1 \in 0 .. AllocTries - 1
        BY <3>2, TriesAssumption DEF IInv, TypeOK
      <4> QED BY <3>2, <4>1 DEF IInv, TypeOK
    <3> QED BY <1>3, <3>1, <3>2
  <2>4. refcount' \in [Chunks -> Nat] /\ free' \subseteq Chunks
    BY <1>1, <1>2 DEF IInv, TypeOK
  <2> QED BY <1>2, <2>1, <2>2, <2>3, <2>4 DEF IInv, TypeOK
<1>5. \A d \in Clients : LocalsOK(d)'
  BY <1>1, <1>2, <1>3 DEF IInv, TypeOK, ClientOK, LocalsOK, Empty, Second, Pulled
<1>6. \A d \in Clients : LocksOK(d)'
  <2>1. ASSUME NEW d \in Clients, d # c PROVE LocksOK(d)'
    <3>1. pc'[d] = pc[d] /\ want'[d] = want[d] /\ cur'[d] = cur[d]
      BY <1>2, <1>3, <2>1 DEF IInv, TypeOK
    <3> QED BY <1>1, <1>2, <2>1, <3>1 DEF IInv, TypeOK, ClientOK, LocalsOK, LocksOK, Inside, Walking
  <2>2. LocksOK(c)'
    BY <1>3 DEF LocksOK, Inside, Pulled, Walking
  <2> QED BY <2>1, <2>2
<1>7. \A d \in Clients : ItemsOK(d)'
  <2>1. pc'[c] \notin {"bump_unlink", "bump_link", "unlink_old", "link"} \cup Fresh
    BY <1>3 DEF Fresh
  <2>2. \A d \in Clients \ {c} : pc'[d] = pc[d] /\ want'[d] = want[d] /\ cur'[d] = cur[d]
    BY <1>2, <1>3 DEF IInv, TypeOK
  <2> QED BY <1>2, <2>1, <2>2 DEF IInv, ClientOK, ItemsOK, Bumped
<1>8. KeysKnown' /\ UniqueKeys'
  BY <1>2 DEF IInv, KeysKnown, UniqueKeys
<1>9. LruMatchesLinks'
  BY <1>2, <1>3, LruStays DEF IInv, TypeOK, Pulled
<1>10. RefsOK'
  <2>1. Alike(mine, mine', c) /\ Alike(cur, cur', c)
    BY <1>2 DEF IInv, TypeOK, Alike
  <2>2. ASSUME NEW j \in Chunks PROVE Counted(c, j)
    BY <1>1, <1>2, InUse DEF IInv, TypeOK, Counted, One, Links
  <2> QED BY <2>1, <2>2, RefsKeep
<1> QED BY <1>4, <1>5, <1>6, <1>7, <1>8, <1>9, <1>10 DEF IInv, ClientOK

\* slabs_alloc, with the seeding of the header, keeps it.
LEMMA SlabsAllocKeeps ==
    ASSUME IInv, NEW c \in Clients, SlabsAlloc(c)
    PROVE  IInv'
<1> USE LockOfAssumption, NoneAssumption
<1>1. PICK i \in free : /\ free' = free \ {i}
                        /\ refcount' = [refcount EXCEPT ![i] = 1]
                        /\ key' = [key EXCEPT ![i] = want[c]]
                        /\ mine' = [mine EXCEPT ![c] = i]
  BY DEF SlabsAlloc
<1>2. i \in Chunks /\ refcount[i] = 0 /\ i \notin linked /\ \A d \in Clients : mine[d] # i /\ cur[d] # i
  BY InUse DEF IInv, TypeOK
<1>3. mine[c] = None /\ cur[c] = None /\ want[c] \in Keys
  BY DEF IInv, SlabsAlloc, ClientOK, LocalsOK, Empty, Second, Pulled
<1>4. TypeOK'
  <2>1. round' \in [Clients -> 0 .. AllocTries - 1]
    BY FirstRound DEF IInv, TypeOK, SlabsAlloc
  <2>2. refcount' \in [Chunks -> Nat]
    BY <1>1 DEF IInv, TypeOK
  <2> QED BY <1>1, <1>2, <1>3, <2>1, <2>2 DEF IInv, TypeOK, SlabsAlloc, Goto, Steps, AtRest, locks
<1>5. \A d \in Clients : LocalsOK(d)'
  BY <1>1, <1>2, <1>3 DEF IInv, TypeOK, SlabsAlloc, Goto, ClientOK, LocalsOK, Empty, Second, Pulled
<1>6. \A d \in Clients : LocksOK(d)'
  BY <1>1, <1>2, <1>3 DEF IInv, TypeOK, SlabsAlloc, Goto, locks, ClientOK, LocalsOK, LocksOK, Inside, Pulled, Walking
<1>7. \A d \in Clients : ItemsOK(d)'
  BY <1>1, <1>2, <1>3 DEF IInv, TypeOK, SlabsAlloc, Goto, ClientOK, ItemsOK, Bumped, Fresh
<1>8. KeysKnown' /\ UniqueKeys'
  BY <1>1, <1>2 DEF IInv, TypeOK, SlabsAlloc, KeysKnown, UniqueKeys
<1>9. LruMatchesLinks'
  BY <1>1, LruStays DEF IInv, TypeOK, SlabsAlloc, Goto
<1>10. RefsOK'
  <2>1. Alike(mine, mine', c) /\ Alike(cur, cur', c)
    BY <1>1 DEF IInv, TypeOK, Alike, SlabsAlloc
  <2>2. ASSUME NEW j \in Chunks PROVE Counted(c, j)
    BY <1>1, <1>2, <1>3, InUse DEF IInv, TypeOK, SlabsAlloc, Counted, One, Links
  <2> QED BY <2>1, <2>2, RefsKeep
<1> QED BY <1>4, <1>5, <1>6, <1>7, <1>8, <1>9, <1>10 DEF IInv, ClientOK

\* do_store_item's lookup of the old item keeps it.
LEMMA StoreOverKeeps ==
    ASSUME IInv, NEW c \in Clients, NEW comm, StoreOver(c, comm)
    PROVE  IInv'
<1> USE LockOfAssumption, NoneAssumption
<1>1. PICK i \in table : /\ key[i] = want[c]
                         /\ refcount' = [refcount EXCEPT ![i] = @ + 1]
                         /\ cur' = [cur EXCEPT ![c] = i]
  BY DEF StoreOver, assoc_find
<1>2. /\ i \in Chunks /\ i \in linked /\ want[c] \in Keys /\ cur[c] = None
      /\ pc[c] = "filled" /\ pc'[c] \in {"bump_unlink", "unlink_old"} /\ pc' = [pc EXCEPT ![c] = pc'[c]]
  BY DEF IInv, TypeOK, UniqueKeys, ClientOK, LocalsOK, StoreOver, Goto, Second, Pulled
<1>3. TypeOK'
  BY <1>1, <1>2 DEF IInv, TypeOK, StoreOver, Lock, Goto, Steps
<1>4. \A d \in Clients : LocalsOK(d)'
  BY <1>1, <1>2 DEF IInv, TypeOK, StoreOver, ClientOK, LocalsOK, Empty, Second, Pulled
<1>5. \A d \in Clients : LocksOK(d)'
  BY <1>1, <1>2 DEF IInv, TypeOK, StoreOver, Lock, ClientOK, LocalsOK, LocksOK, Inside, Pulled, Walking
<1>6. \A d \in Clients : ItemsOK(d)'
  BY <1>1, <1>2 DEF IInv, TypeOK, StoreOver, ClientOK, ItemsOK, Bumped, Fresh
<1>7. KeysKnown' /\ UniqueKeys'
  BY DEF IInv, StoreOver, KeysKnown, UniqueKeys
<1>8. LruMatchesLinks'
  BY <1>1, <1>2, LruStays DEF IInv, TypeOK, StoreOver
<1>9. RefsOK'
  <2>1. Alike(mine, mine', c) /\ Alike(cur, cur', c)
    BY <1>1 DEF IInv, TypeOK, Alike, StoreOver
  <2>2. ASSUME NEW j \in Chunks PROVE Counted(c, j)
    BY <1>1, <1>2, InUse DEF IInv, TypeOK, StoreOver, Counted, One, Links
  <2> QED BY <2>1, <2>2, RefsKeep
<1> QED BY <1>3, <1>4, <1>5, <1>6, <1>7, <1>8, <1>9 DEF IInv, ClientOK

\* do_item_unlink of a linked item by the client that is inside with its key,
\* whatever that client does next.
LEMMA UnlinkExact ==
    ASSUME IInv, NEW c \in Clients, pc[c] \in Inside \ {"bump_link"},
           NEW i \in linked, key[i] = want[c], Unlink(i)
    PROVE  /\ i \in Chunks /\ refcount[i] \in Nat \ {0}
           /\ linked' = linked \ {i} /\ table' = table \ {i}
           /\ lru' \in Seq(Chunks) /\ Distinct(lru') /\ Ran(lru') = Ran(lru) \ {i}
           /\ refcount' = [refcount EXCEPT ![i] = @ - 1]
           /\ free' = IF refcount[i] = 1 THEN free \cup {i} ELSE free
           /\ \A d \in Clients \ {c} : pc[d] \in Inside => want[d] # key[i]
<1>1. i \in Ran(lru) /\ Distinct(lru)
  BY InsideInLru DEF IInv, LruMatchesLinks, Distinct
<1>2. lru' \in Seq(Chunks) /\ Distinct(lru') /\ Ran(lru') = Ran(lru) \ {i}
  BY <1>1, UnlinkQ DEF IInv, Unlink
<1>3. i \in Chunks /\ refcount[i] \in Nat \ {0}
  BY InUse DEF IInv, TypeOK
<1>4. \A d \in Clients \ {c} : pc[d] \in Inside => want[d] # key[i]
  BY Alone
<1>5. linked' = linked \ {i} /\ table' = table \ {i}
  BY DeleteExact DEF Unlink
<1> QED BY <1>2, <1>3, <1>4, <1>5 DEF Unlink, do_item_remove

\* do_item_replace's do_item_unlink of the old item keeps it.
LEMMA UnlinkOldKeeps ==
    ASSUME IInv, NEW c \in Clients, UnlinkOld(c)
    PROVE  IInv'
<1> USE LockOfAssumption, NoneAssumption
<1> DEFINE i == cur[c]
<1>1. i \in linked /\ key[i] = want[c] /\ pc[c] \in Inside \ {"bump_link"}
  BY DEF IInv, ClientOK, ItemsOK, UnlinkOld, Inside
<1>2. /\ i \in Chunks /\ refcount[i] \in Nat \ {0}
      /\ linked' = linked \ {i} /\ table' = table \ {i}
      /\ lru' \in Seq(Chunks) /\ Distinct(lru') /\ Ran(lru') = Ran(lru) \ {i}
      /\ refcount' = [refcount EXCEPT ![i] = @ - 1]
      /\ free' = IF refcount[i] = 1 THEN free \cup {i} ELSE free
      /\ \A d \in Clients \ {c} : pc[d] \in Inside => want[d] # key[i]
  BY <1>1, UnlinkExact DEF UnlinkOld
<1>3. TypeOK'
  BY <1>2 DEF IInv, TypeOK, UnlinkOld, Goto, Steps, locks, local
<1>4. \A d \in Clients : LocalsOK(d)'
  BY DEF IInv, TypeOK, UnlinkOld, Goto, local, ClientOK, LocalsOK, Empty, Second, Pulled
<1>5. \A d \in Clients : LocksOK(d)'
  BY NobodyWalks DEF IInv, TypeOK, UnlinkOld, Goto, locks, local, ClientOK, LocksOK, Inside, Pulled, Walking
<1>6. \A d \in Clients : ItemsOK(d)'
  <2>1. ASSUME NEW d \in Clients, d # c PROVE ItemsOK(d)'
    BY <1>2, <2>1 DEF IInv, TypeOK, UnlinkOld, Goto, local, ClientOK, ItemsOK, Bumped, Inside
  <2>2. ItemsOK(c)'
    BY <1>1, <1>2 DEF IInv, TypeOK, UnlinkOld, Goto, local, ClientOK, ItemsOK, Fresh, UniqueKeys
  <2> QED BY <2>1, <2>2
<1>7. KeysKnown' /\ UniqueKeys'
  BY <1>2 DEF IInv, UnlinkOld, KeysKnown, UniqueKeys
<1>8. LruMatchesLinks'
  <2>1. \A j : Moving(j)' <=> Moving(j)
    BY MovingStays DEF IInv, TypeOK, UnlinkOld, Goto, local
  <2>2. \A j \in Chunks : j \in Ran(lru') <=> j \in linked' /\ ~Moving(j)
    BY <1>2 DEF IInv, LruMatchesLinks
  <2> QED BY <1>2, <2>1, <2>2 DEF LruMatchesLinks, Distinct, Ran
<1>9. RefsOK'
  <2>1. Alike(mine, mine', c) /\ Alike(cur, cur', c)
    BY DEF Alike, UnlinkOld, local
  <2>2. ASSUME NEW j \in Chunks PROVE Counted(c, j)
    BY <1>1, <1>2, InUse DEF IInv, TypeOK, UnlinkOld, local, Counted, One, Links
  <2> QED BY <2>1, <2>2, RefsKeep
<1> QED BY <1>3, <1>4, <1>5, <1>6, <1>7, <1>8, <1>9 DEF IInv, ClientOK

\* do_item_link keeps it.
LEMMA LinkKeeps ==
    ASSUME IInv, NEW c \in Clients, Link(c)
    PROVE  IInv'
<1> USE LockOfAssumption, NoneAssumption
<1> DEFINE m == mine[c]
<1>1. /\ m \in Chunks /\ m \notin linked /\ key[m] = want[c] /\ want[c] \in Keys
      /\ refcount[m] \in Nat \ {0}
      /\ \A d \in Clients : mine[d] = m => d = c
      /\ \A i \in linked : key[i] # want[c]
  <2>1. m \in Chunks /\ key[m] = want[c] /\ want[c] \in Keys
    BY DEF IInv, TypeOK, ClientOK, LocalsOK, Link, Empty
  <2>2. /\ m \notin linked /\ \A d \in Clients : mine[d] = m => d = c
        /\ \A i \in linked : key[i] # want[c]
    BY DEF IInv, ClientOK, ItemsOK, Link, Fresh
  <2>3. refcount[m] \in Nat \ {0}
    BY <2>1, InUse
  <2> QED BY <2>1, <2>2, <2>3
<1>2. m \notin Ran(lru) /\ Distinct(lru)
  BY <1>1 DEF IInv, LruMatchesLinks, Distinct
<1>3. lru' \in Seq(Chunks) /\ Distinct(lru') /\ Ran(lru') = Ran(lru) \cup {m}
  BY <1>1, <1>2, LinkQ DEF IInv, Link
<1>4. TypeOK'
  BY <1>1, <1>3 DEF IInv, TypeOK, Link, Goto, Steps, locks, local
<1>5. \A d \in Clients : LocalsOK(d)'
  BY DEF IInv, TypeOK, Link, Goto, local, ClientOK, LocalsOK, Empty, Second, Pulled
<1>6. \A d \in Clients : LocksOK(d)'
  BY NobodyWalks DEF IInv, TypeOK, Link, Goto, locks, local, ClientOK, LocksOK, Inside, Pulled, Walking
<1>7. \A d \in Clients : ItemsOK(d)'
  <2>1. ASSUME NEW d \in Clients, d # c PROVE ItemsOK(d)'
    <3>1. pc[d] = "link" => want[d] # key[m]
      BY <1>1, <2>1, Alone DEF Link, Inside
    <3> QED BY <1>1, <2>1, <3>1 DEF IInv, TypeOK, Link, Goto, local, ClientOK, ItemsOK, Bumped
  <2>2. ItemsOK(c)'
    BY DEF IInv, TypeOK, Link, Goto, ItemsOK, Fresh
  <2> QED BY <2>1, <2>2
<1>8. KeysKnown' /\ UniqueKeys'
  BY <1>1 DEF IInv, TypeOK, Link, KeysKnown, UniqueKeys
<1>9. LruMatchesLinks'
  <2>1. \A j : Moving(j)' <=> Moving(j)
    BY MovingStays DEF IInv, TypeOK, Link, Goto, local
  <2>2. ~Moving(m)
    BY <1>1 DEF IInv, Moving, ClientOK, ItemsOK
  <2>3. \A j \in Chunks : j \in Ran(lru') <=> j \in linked' /\ ~Moving(j)
    BY <1>1, <1>3, <2>2 DEF IInv, LruMatchesLinks, Link
  <2> QED BY <1>3, <2>1, <2>3 DEF LruMatchesLinks, Distinct, Ran
<1>10. RefsOK'
  <2>1. Alike(mine, mine', c) /\ Alike(cur, cur', c)
    BY DEF Alike, Link, local
  <2>2. ASSUME NEW j \in Chunks PROVE Counted(c, j)
    BY <1>1, InUse DEF IInv, TypeOK, Link, local, Counted, One, Links
  <2> QED BY <2>1, <2>2, RefsKeep
<1> QED BY <1>4, <1>5, <1>6, <1>7, <1>8, <1>9, <1>10 DEF IInv, ClientOK

\* store_item's last step keeps the invariant.
LEMMA StoreDoneKeeps ==
    ASSUME IInv, NEW c \in Clients, StoreDone(c)
    PROVE  IInv'
<1> USE LockOfAssumption, NoneAssumption
<1> DEFINE i == cur[c]
<1>1. /\ pc[c] = "store_done" /\ want[c] \in Keys /\ mine[c] # None
      /\ item_lock[LockOf[want[c]]] = c
  BY DEF IInv, ClientOK, LocalsOK, LocksOK, StoreDone, Empty, Inside
<1>2. /\ pc' = [pc EXCEPT ![c] = "hold"]
      /\ item_lock' = [item_lock EXCEPT ![LockOf[want[c]]] = None]
      /\ cur' = [cur EXCEPT ![c] = None]
      /\ UNCHANGED <<linked, table, lru, key, lru_lock, want, mine, pos, round>>
  BY DEF StoreDone, Goto, Unlock
<1>3. \/ i = None /\ UNCHANGED <<refcount, free>>
      \/ /\ i \in Chunks /\ refcount[i] \in Nat \ {0}
         /\ refcount' = [refcount EXCEPT ![i] = @ - 1]
         /\ free' = IF refcount[i] = 1 THEN free \cup {i} ELSE free
  <2>1. CASE i = None
    BY <2>1 DEF StoreDone
  <2>2. CASE i # None
    <3>1. i \in Chunks
      BY <2>2 DEF IInv, TypeOK
    <3>2. refcount[i] \in Nat \ {0}
      BY <3>1, InUse
    <3> QED BY <2>2, <3>1, <3>2 DEF StoreDone, do_item_remove
  <2> QED BY <2>1, <2>2
<1>4. TypeOK'
  <2>1. refcount' \in [Chunks -> Nat] /\ free' \subseteq Chunks
    <3>1. CASE UNCHANGED <<refcount, free>>
      BY <3>1 DEF IInv, TypeOK
    <3>2. CASE i \in Chunks /\ refcount[i] \in Nat \ {0} /\ refcount' = [refcount EXCEPT ![i] = @ - 1]
               /\ free' = IF refcount[i] = 1 THEN free \cup {i} ELSE free
      BY <3>2 DEF IInv, TypeOK
    <3> QED BY <1>3, <3>1, <3>2
  <2> QED BY <1>2, <2>1 DEF IInv, TypeOK, Steps, AtRest
<1>5. \A d \in Clients : LocalsOK(d)'
  BY <1>1, <1>2 DEF IInv, TypeOK, ClientOK, LocalsOK, Empty, Second, Pulled
<1>6. \A d \in Clients : LocksOK(d)'
  BY <1>1, <1>2 DEF IInv, TypeOK, ClientOK, LocalsOK, LocksOK, Inside, Pulled, Walking
<1>7. \A d \in Clients : ItemsOK(d)'
  BY <1>1, <1>2 DEF IInv, TypeOK, ClientOK, ItemsOK, Bumped, Fresh
<1>8. KeysKnown' /\ UniqueKeys'
  BY <1>2 DEF IInv, KeysKnown, UniqueKeys
<1>9. LruMatchesLinks'
  BY <1>1, <1>2, LruStays DEF IInv, TypeOK
<1>10. RefsOK'
  <2>1. Alike(mine, mine', c) /\ Alike(cur, cur', c)
    BY <1>2 DEF IInv, TypeOK, Alike
  <2>2. ASSUME NEW j \in Chunks PROVE Counted(c, j)
    <3>0. /\ mine'[c] = mine[c] /\ cur'[c] = None /\ linked' = linked
          /\ refcount[j] \in Nat /\ (j \in free <=> refcount[j] = 0)
      BY <1>2, InUse DEF IInv, TypeOK
    <3>1. CASE i = None /\ UNCHANGED <<refcount, free>>
      BY <3>0, <3>1 DEF Counted, One, Links
    <3>2. CASE i \in Chunks /\ refcount[i] \in Nat \ {0} /\ refcount' = [refcount EXCEPT ![i] = @ - 1]
               /\ free' = IF refcount[i] = 1 THEN free \cup {i} ELSE free
      BY <3>0, <3>2, InUse DEF IInv, TypeOK, Counted, One, Links
    <3> QED BY <1>3, <3>1, <3>2
  <2> QED BY <2>1, <2>2, RefsKeep
<1> QED BY <1>4, <1>5, <1>6, <1>7, <1>8, <1>9, <1>10 DEF IInv, ClientOK

\* item_unlink of a held item keeps the invariant, whether it is still linked
\* or has been evicted or replaced since it was looked up.
LEMMA UnlinkHeldKeeps ==
    ASSUME IInv, NEW c \in Clients, UnlinkHeld(c)
    PROVE  IInv'
<1> USE LockOfAssumption, NoneAssumption
<1> DEFINE i == mine[c]
<1>1. /\ pc[c] = "unlinking" /\ pc[c] \in Inside \ {"bump_link"} /\ want[c] \in Keys
      /\ i \in Chunks /\ key[i] = want[c] /\ item_lock[LockOf[want[c]]] = c
  BY DEF IInv, TypeOK, ClientOK, LocalsOK, LocksOK, UnlinkHeld, Empty, Inside
<1>2. /\ pc' = [pc EXCEPT ![c] = "hold"]
      /\ item_lock' = [item_lock EXCEPT ![LockOf[want[c]]] = None]
      /\ lru_lock = None
      /\ UNCHANGED <<key, lru_lock, want, mine, cur, pos, round>>
  BY <1>1 DEF UnlinkHeld, Goto, Unlock, local
<1>3. \/ UNCHANGED <<linked, table, lru, refcount, free>>
      \/ /\ i \in linked /\ refcount[i] \in Nat \ {0}
         /\ linked' = linked \ {i} /\ table' = table \ {i}
         /\ lru' \in Seq(Chunks) /\ Distinct(lru') /\ Ran(lru') = Ran(lru) \ {i}
         /\ refcount' = [refcount EXCEPT ![i] = @ - 1]
         /\ free' = IF refcount[i] = 1 THEN free \cup {i} ELSE free
         /\ \A d \in Clients \ {c} : pc[d] \in Inside => want[d] # key[i]
  <2>1. CASE i \in linked
    BY <2>1, <1>1, UnlinkExact DEF UnlinkHeld
  <2>2. CASE i \notin linked
    BY <2>2 DEF UnlinkHeld, Unlink
  <2> QED BY <2>1, <2>2
<1>4. TypeOK'
  <2>1. /\ refcount' \in [Chunks -> Nat] /\ free' \subseteq Chunks
        /\ linked' \subseteq Chunks /\ table' \subseteq Chunks /\ lru' \in Seq(Chunks)
    <3>1. CASE UNCHANGED <<linked, table, lru, refcount, free>>
      BY <3>1 DEF IInv, TypeOK
    <3>2. CASE /\ refcount[i] \in Nat \ {0} /\ linked' = linked \ {i} /\ table' = table \ {i}
               /\ lru' \in Seq(Chunks) /\ refcount' = [refcount EXCEPT ![i] = @ - 1]
               /\ free' = IF refcount[i] = 1 THEN free \cup {i} ELSE free
      BY <1>1, <3>2 DEF IInv, TypeOK
    <3> QED BY <1>3, <3>1, <3>2
  <2> QED BY <1>2, <2>1 DEF IInv, TypeOK, Steps, AtRest
<1>5. \A d \in Clients : LocalsOK(d)'
  BY <1>1, <1>2 DEF IInv, TypeOK, ClientOK, LocalsOK, Empty, Second, Pulled
<1>6. \A d \in Clients : LocksOK(d)'
  <2>1. \A d \in Clients : ~Walking(d)
    BY <1>2, NobodyWalks
  <2> QED BY <1>1, <1>2, <2>1 DEF IInv, TypeOK, ClientOK, LocalsOK, LocksOK, Inside, Pulled, Walking
<1>7. \A d \in Clients : ItemsOK(d)'
  <2>1. ASSUME NEW d \in Clients, d # c PROVE ItemsOK(d)'
    <3>1. pc'[d] = pc[d]
      BY <1>2, <2>1 DEF IInv, TypeOK
    <3>2. ItemsOK(d)
      BY DEF IInv, ClientOK
    <3>3. CASE UNCHANGED linked
      BY <1>2, <3>1, <3>2, <3>3 DEF ItemsOK, Bumped
    <3>4. CASE linked' = linked \ {i} /\ (pc[d] \in Inside => want[d] # key[i])
      BY <1>2, <3>1, <3>2, <3>4 DEF ItemsOK, Bumped, Inside
    <3> QED BY <1>3, <2>1, <3>3, <3>4
  <2>2. ItemsOK(c)'
    BY <1>2 DEF IInv, TypeOK, ItemsOK, Fresh
  <2> QED BY <2>1, <2>2
<1>8. KeysKnown' /\ UniqueKeys'
  BY <1>2, <1>3 DEF IInv, KeysKnown, UniqueKeys
<1>9. LruMatchesLinks'
  <2>1. \A j : Moving(j)' <=> Moving(j)
    BY <1>1, <1>2, MovingStays DEF IInv, TypeOK
  <2>2. CASE UNCHANGED <<lru, linked>>
    BY <2>1, <2>2 DEF IInv, LruMatchesLinks, Ran
  <2>3. CASE linked' = linked \ {i} /\ Distinct(lru') /\ Ran(lru') = Ran(lru) \ {i}
    <3>1. \A j \in Chunks : j \in Ran(lru') <=> j \in linked' /\ ~Moving(j)
      BY <2>3 DEF IInv, LruMatchesLinks
    <3> QED BY <2>1, <2>3, <3>1 DEF LruMatchesLinks, Distinct, Ran
  <2> QED BY <1>3, <2>2, <2>3
<1>10. RefsOK'
  <2>1. Alike(mine, mine', c) /\ Alike(cur, cur', c)
    BY <1>2 DEF Alike
  <2>2. ASSUME NEW j \in Chunks PROVE Counted(c, j)
    BY <1>1, <1>2, <1>3, InUse DEF IInv, TypeOK, Counted, One, Links
  <2> QED BY <2>1, <2>2, RefsKeep
<1> QED BY <1>4, <1>5, <1>6, <1>7, <1>8, <1>9, <1>10 DEF IInv, ClientOK

\* item_remove keeps the invariant.
LEMMA ReleaseKeeps ==
    ASSUME IInv, NEW c \in Clients, Release(c)
    PROVE  IInv'
<1> USE LockOfAssumption, NoneAssumption
<1> DEFINE i == mine[c]
<1>1. pc[c] \in {"hold", "filled"} /\ i \in Chunks /\ cur[c] = None
  BY DEF IInv, TypeOK, ClientOK, LocalsOK, Release, Empty, Second, Pulled
<1>2. refcount[i] \in Nat \ {0}
  BY <1>1, InUse
<1>3. /\ pc' = [pc EXCEPT ![c] = "idle"]
      /\ want' = [want EXCEPT ![c] = None]
      /\ round' = [round EXCEPT ![c] = 0]
      /\ mine' = [mine EXCEPT ![c] = None]
      /\ refcount' = [refcount EXCEPT ![i] = @ - 1]
      /\ free' = IF refcount[i] = 1 THEN free \cup {i} ELSE free
      /\ UNCHANGED <<linked, table, lru, key, item_lock, lru_lock, cur, pos>>
  BY DEF Release, Return, Goto, do_item_remove, locks
<1>4. TypeOK'
  <2>1. refcount' \in [Chunks -> Nat] /\ free' \subseteq Chunks
    BY <1>1, <1>2, <1>3 DEF IInv, TypeOK
  <2>2. round' \in [Clients -> 0 .. AllocTries - 1]
    BY <1>3, FirstRound DEF IInv, TypeOK
  <2> QED BY <1>3, <2>1, <2>2 DEF IInv, TypeOK, Steps, AtRest
<1>5. \A d \in Clients : LocalsOK(d)'
  BY <1>1, <1>3 DEF IInv, TypeOK, ClientOK, LocalsOK, Empty, Second, Pulled
<1>6. \A d \in Clients : LocksOK(d)'
  BY <1>1, <1>3 DEF IInv, TypeOK, ClientOK, LocksOK, Inside, Pulled, Walking
<1>7. \A d \in Clients : ItemsOK(d)'
  <2>1. ASSUME NEW d \in Clients, d # c PROVE ItemsOK(d)'
    <3>1. pc'[d] = pc[d] /\ mine'[d] = mine[d] /\ want'[d] = want[d]
      BY <1>3, <2>1 DEF IInv, TypeOK
    <3>2. ItemsOK(d)
      BY DEF IInv, ClientOK
    <3>3. pc[d] \in Fresh => mine[d] # None
      BY DEF IInv, ClientOK, LocalsOK, Fresh, Empty
    <3> QED BY <1>3, <3>1, <3>2, <3>3 DEF IInv, TypeOK, ItemsOK, Bumped
  <2>2. ItemsOK(c)'
    BY <1>3 DEF IInv, TypeOK, ItemsOK, Fresh
  <2> QED BY <2>1, <2>2
<1>8. KeysKnown' /\ UniqueKeys'
  BY <1>3 DEF IInv, KeysKnown, UniqueKeys
<1>9. LruMatchesLinks'
  BY <1>1, <1>3, LruStays DEF IInv, TypeOK
<1>10. RefsOK'
  <2>1. Alike(mine, mine', c) /\ Alike(cur, cur', c)
    BY <1>3 DEF IInv, TypeOK, Alike
  <2>2. ASSUME NEW j \in Chunks PROVE Counted(c, j)
    BY <1>1, <1>2, <1>3, InUse DEF IInv, TypeOK, Counted, One, Links
  <2> QED BY <2>1, <2>2, RefsKeep
<1> QED BY <1>4, <1>5, <1>6, <1>7, <1>8, <1>9, <1>10 DEF IInv, ClientOK
-----------------------------------------------------------------------------
(* The theorems.                                                           *)

\* The invariant holds of the empty cache that slabs_init, assoc_init and
\* the item lock table start from.
LEMMA InitOK == Init => IInv
<1> SUFFICES ASSUME Init PROVE IInv
  OBVIOUS
<1> USE NoneAssumption
<1>1. TypeOK
  BY FirstRound DEF Init, TypeOK, Steps, AtRest
<1>2. ASSUME NEW c \in Clients PROVE ClientOK(c)
  BY DEF Init, ClientOK, LocalsOK, LocksOK, ItemsOK, Empty, Second, Pulled, Inside, Fresh, Walking
<1>3. KeysKnown /\ UniqueKeys
  BY DEF Init, KeysKnown, UniqueKeys
<1>4. LruMatchesLinks
  BY DEF Init, LruMatchesLinks, Ran
<1>5. RefsOK
  <2> SUFFICES ASSUME NEW i \in Chunks
               PROVE  /\ refcount[i] = Count(mine, i) + Count(cur, i) + Links(i, linked)
                      /\ i \in free <=> refcount[i] = 0
    BY DEF RefsOK
  <2>1. {c \in Clients : mine[c] = i} = {} /\ {c \in Clients : cur[c] = i} = {}
    BY DEF Init
  <2>2. Count(mine, i) = 0 /\ Count(cur, i) = 0
    BY <2>1, FS_EmptySet DEF Count
  <2> QED BY <2>2 DEF Init, Links
<1> QED BY <1>1, <1>2, <1>3, <1>4, <1>5 DEF IInv

\* Every step of every operation keeps it.
LEMMA NextOK ==
    ASSUME IInv, [Next]_vars
    PROVE  IInv'
<1>1. CASE UNCHANGED vars
  <2> USE <1>1 DEF vars, store, locks, local
  <2>1. TypeOK'
    BY DEF IInv, TypeOK
  <2>2. \A c \in Clients : ClientOK(c)'
    BY DEF IInv, ClientOK, LocalsOK, LocksOK, ItemsOK, Bumped, Walking
  <2>3. KeysKnown' /\ UniqueKeys'
    BY DEF IInv, KeysKnown, UniqueKeys
  <2>4. LruMatchesLinks'
    BY DEF IInv, LruMatchesLinks, Moving, Bumped, Ran
  <2>5. RefsOK'
    BY DEF IInv, RefsOK, Count
  <2> QED BY <2>1, <2>2, <2>3, <2>4, <2>5 DEF IInv
<1>2. ASSUME NEW c \in Clients, Begin(c) PROVE IInv'
  <2>1. ASSUME NEW k \in Keys, Get(c, k) PROVE IInv'
    BY <2>1, GetKeeps
  <2>2. ASSUME NEW k \in Keys, Alloc(c, k) PROVE IInv'
    BY <2>2, AllocKeeps
  <2>3. ASSUME NEW comm \in {"set", "add"}, StoreOver(c, comm) PROVE IInv'
    BY <2>3, StoreOverKeeps
  <2> QED BY <1>2, <2>1, <2>2, <2>3, StoreFreshKeeps, StoreRefusedKeeps, UnlinkLockKeeps,
             ReleaseKeeps DEF Begin
<1>3. ASSUME NEW c \in Clients, Continue(c) PROVE IInv'
  BY <1>3, BumpUnlinkKeeps, BumpLinkKeeps, PullBeginKeeps, PullSkipKeeps, PullTakeKeeps,
     PullFailKeeps, PullDoneKeeps, SlabsAllocKeeps, SlabsEmptyKeeps, UnlinkOldKeeps, LinkKeeps,
     StoreDoneKeeps, UnlinkHeldKeeps DEF Continue
<1> QED BY <1>1, <1>2, <1>3 DEF Next

\* The item layer's locking protocol keeps the inductive invariant.
THEOREM ItemCacheInvariant == Spec => []IInv
<1>1. Init => IInv
  BY InitOK
<1>2. IInv /\ [Next]_vars => IInv'
  BY NextOK
<1> QED BY <1>1, <1>2, PTL DEF Spec

\* Every variable of the item layer keeps its type; the rounds of
\* do_item_alloc_pull never run past their bound.
THEOREM ItemCacheTypes == Spec => []TypeOK
<1>1. IInv => TypeOK
  BY DEF IInv
<1> QED BY <1>1, ItemCacheInvariant, PTL

\* refcount_incr and refcount_decr count exactly the references there are: an
\* item is on the free list exactly when nobody refers to it and it is not
\* linked, so nothing is freed early and nothing leaks.
THEOREM ReferencesExact == Spec => []RefcountExact
<1>1. IInv => RefcountExact
  <2> SUFFICES ASSUME IInv, NEW i \in Chunks
               PROVE  /\ refcount[i] = Cardinality(Holders(i)) + Cardinality(Users(i))
                                       + (IF i \in linked THEN 1 ELSE 0)
                      /\ i \in free <=> refcount[i] = 0
    BY DEF RefcountExact
  <2>1. /\ refcount[i] = Count(mine, i) + Count(cur, i) + Links(i, linked)
        /\ i \in free <=> refcount[i] = 0
    BY DEF IInv, RefsOK
  <2>2. Count(mine, i) = Cardinality(Holders(i)) /\ Count(cur, i) = Cardinality(Users(i))
    BY DEF Count, Holders, Users
  <2> QED BY <2>1, <2>2 DEF Links
<1> QED BY <1>1, ItemCacheInvariant, PTL

\* What item_get or item_alloc returned stays allocated and keeps its key
\* until the caller's item_remove, whoever evicts, deletes or replaces it.
THEOREM HeldStaysAlive == Spec => []HeldIsAlive
<1>1. IInv => HeldIsAlive
  <2> SUFFICES ASSUME IInv, NEW c \in Clients
               PROVE  /\ mine[c] # None => mine[c] \notin free /\ key[mine[c]] = want[c]
                      /\ cur[c] # None => cur[c] \notin free
    BY DEF HeldIsAlive
  <2>1. mine[c] \in Chunks \cup {None} /\ cur[c] \in Chunks \cup {None}
    BY DEF IInv, TypeOK
  <2>2. mine[c] # None => key[mine[c]] = want[c]
    BY DEF IInv, ClientOK, LocalsOK
  <2>3. mine[c] # None => mine[c] \notin free
    BY <2>1, InUse
  <2>4. cur[c] # None => cur[c] \notin free
    BY <2>1, InUse
  <2> QED BY <2>2, <2>3, <2>4
<1> QED BY <1>1, ItemCacheInvariant, PTL

\* assoc_insert is only called for a key that is not in the table.
THEOREM KeysStayUnique == Spec => []UniqueKeys
<1>1. IInv => UniqueKeys
  BY DEF IInv
<1> QED BY <1>1, ItemCacheInvariant, PTL

\* The LRU list is the linked items, less those on their way to the head, so
\* lru_pull_tail only meets live items.
THEOREM LruStaysExact == Spec => []LruMatchesLinks
<1>1. IInv => LruMatchesLinks
  BY DEF IInv
<1> QED BY <1>1, ItemCacheInvariant, PTL

\* Table, LRU list and flags agree at every step of every interleaving.
THEOREM LinksStayExact == Spec => []LinksExact
<1>1. TypeOK /\ UniqueKeys /\ LruMatchesLinks => LinksExact
  BY DEF LinksExact
<1> QED BY <1>1, ItemCacheTypes, KeysStayUnique, LruStaysExact, PTL

-----------------------------------------------------------------------------
(* The item layer as a map.                                                *)

\* c is between the two halves of do_item_replace for key k.
Replaces(c, k) == pc[c] = "link" /\ cur[c] # None /\ want[c] = k

\* The item of a key is the one being replaced, or else the one in the table.
CurrentKnown(k) ==
    /\ \A c \in Clients : Replaces(c, k) => Current(k) = cur[c]
    /\ (\A c \in Clients : ~Replaces(c, k)) =>
          /\ \A i \in table : key[i] = k => Current(k) = i
          /\ (\A i \in table : key[i] # k) => Current(k) = None

LEMMA CurrentIs == IInv => \A k \in Keys : CurrentKnown(k)
<1> SUFFICES ASSUME IInv, NEW k \in Keys PROVE CurrentKnown(k)
  OBVIOUS
<1> DEFINE R == {c \in Clients : pc[c] = "link" /\ cur[c] # None /\ want[c] = k}
           F == assoc_find(k)
<1>1. Current(k) = IF R # {} THEN cur[CHOOSE c \in R : TRUE]
                   ELSE IF F # {} THEN CHOOSE i \in F : TRUE ELSE None
  BY DEF Current
<1>2. \A c, d \in R : c = d
  BY Alone DEF Inside
<1>3. \A i, j \in F : i = j
  BY DEF IInv, UniqueKeys, assoc_find
<1>4. \A c \in Clients : Replaces(c, k) <=> c \in R
  BY DEF Replaces
<1>5. \A i : i \in F <=> i \in table /\ key[i] = k
  BY DEF assoc_find
<1> HIDE DEF R, F
<1>6. ASSUME NEW c \in R PROVE Current(k) = cur[c]
  <2>1. (CHOOSE d \in R : TRUE) \in R
    OBVIOUS
  <2>2. (CHOOSE d \in R : TRUE) = c
    BY <1>2, <2>1
  <2> QED BY <1>1, <2>2
<1>7. ASSUME R = {}, NEW i \in F PROVE Current(k) = i
  <2>1. (CHOOSE j \in F : TRUE) \in F
    OBVIOUS
  <2>2. (CHOOSE j \in F : TRUE) = i
    BY <1>3, <2>1
  <2> QED BY <1>1, <1>7, <2>2
<1>8. ASSUME R = {}, F = {} PROVE Current(k) = None
  BY <1>1, <1>8
<1>9. (\A c \in Clients : ~Replaces(c, k)) => R = {}
  BY <1>4 DEF R
<1> QED BY <1>4, <1>5, <1>6, <1>7, <1>8, <1>9 DEF CurrentKnown

LEMMA CurrentIsNext == IInv' => \A k \in Keys : CurrentKnown(k)'
<1>1. (IInv => \A k \in Keys : CurrentKnown(k))'
  BY CurrentIs, PTL
<1> QED BY <1>1

LEMMA CurrentStays ==
    ASSUME IInv, IInv', NEW k \in Keys,
           \A d \in Clients : Replaces(d, k)' <=> Replaces(d, k),
           \A d \in Clients : Replaces(d, k) => cur'[d] = cur[d],
           \A i : i \in table' /\ key'[i] = k <=> i \in table /\ key[i] = k
    PROVE  Current(k)' = Current(k)
<1>1. CurrentKnown(k) /\ CurrentKnown(k)'
  BY CurrentIs, CurrentIsNext
<1>2. CASE \E d \in Clients : Replaces(d, k)
  BY <1>1, <1>2 DEF CurrentKnown
<1>3. CASE (\A d \in Clients : ~Replaces(d, k)) /\ \E i \in table : key[i] = k
  BY <1>1, <1>3 DEF CurrentKnown
<1>4. CASE (\A d \in Clients : ~Replaces(d, k)) /\ \A i \in table : key[i] # k
  BY <1>1, <1>4 DEF CurrentKnown
<1> QED BY <1>2, <1>3, <1>4

\* Only c moves.
Others(c) ==
    \A d \in Clients \ {c} : pc'[d] = pc[d] /\ want'[d] = want[d] /\ cur'[d] = cur[d]

\* c neither was nor is between the halves of a replacement.
NotReplacing(c) == (pc[c] = "link" => cur[c] = None) /\ (pc'[c] = "link" => cur'[c] = None)

\* A step that leaves the table alone, outside of a replacement, does not show.
LEMMA MapStays ==
    ASSUME IInv, IInv', NEW c \in Clients, Others(c), NotReplacing(c),
           table' = table, \A i \in table : key'[i] = key[i]
    PROVE  \A k \in Keys : Current(k)' = Current(k)
<1> SUFFICES ASSUME NEW k \in Keys PROVE Current(k)' = Current(k)
  OBVIOUS
<1>1. \A d \in Clients : Replaces(d, k)' <=> Replaces(d, k)
  BY DEF Replaces, Others, NotReplacing
<1>2. \A d \in Clients : Replaces(d, k) => cur'[d] = cur[d]
  BY DEF Replaces, Others, NotReplacing
<1> QED BY <1>1, <1>2, CurrentStays

\* A step of c that changes the table for key k only shows for k only.
LEMMA MapStaysElsewhere ==
    ASSUME IInv, IInv', NEW c \in Clients, NEW k \in Keys, Others(c),
           Replaces(c, want[c]) => want[c] = k,
           Replaces(c, want[c])' => want'[c] = k,
           \A i : key[i] # k => (i \in table' <=> i \in table),
           key' = key
    PROVE  \A j \in Keys \ {k} : Current(j)' = Current(j)
<1> SUFFICES ASSUME NEW j \in Keys \ {k} PROVE Current(j)' = Current(j)
  OBVIOUS
<1>1. \A d \in Clients : Replaces(d, j)' <=> Replaces(d, j)
  BY DEF Replaces, Others
<1>2. \A d \in Clients : Replaces(d, j) => cur'[d] = cur[d]
  BY DEF Replaces, Others
<1> QED BY <1>1, <1>2, CurrentStays

\* Nobody replaces the item of a key whose lock somebody else has, or nobody.
LEMMA LockedOut ==
    ASSUME IInv, NEW k \in Keys, NEW c \in Clients,
           \/ item_lock[LockOf[k]] = None
           \/ item_lock[LockOf[k]] = c /\ ~Replaces(c, k)
    PROVE  \A d \in Clients : ~Replaces(d, k)
BY NoneAssumption DEF Replaces, IInv, ClientOK, LocksOK, Inside

\* The map: what a lookup of each key returns.
Stored == [k \in Keys |-> Current(k)]

\* The step of Unlink that lets a key go.
LEMMA UnlinkDrops ==
    ASSUME IInv, IInv', NEW c \in Clients, NEW i \in linked, key[i] \in Keys,
           table' = table \ {i}, key' = key, Others(c), NotReplacing(c),
           \/ item_lock[LockOf[key[i]]] = None
           \/ item_lock[LockOf[key[i]]] = c
    PROVE  /\ Stored[key[i]] # None
           /\ Stored' = [Stored EXCEPT ![key[i]] = None]
<1> DEFINE k == key[i]
<1>1. i \in Chunks /\ i \in table /\ i # None
  BY NoneAssumption DEF IInv, TypeOK, UniqueKeys
<1>2. \A d \in Clients : ~Replaces(d, k)
  BY LockedOut DEF NotReplacing, Replaces
<1>3. \A d \in Clients : ~Replaces(d, k)'
  BY <1>2 DEF Others, NotReplacing, Replaces
<1>4. CurrentKnown(k) /\ CurrentKnown(k)'
  BY CurrentIs, CurrentIsNext
<1>5. Current(k) = i
  BY <1>1, <1>2, <1>4 DEF CurrentKnown
<1>6. \A j \in table' : key'[j] # k
  BY <1>1 DEF IInv, UniqueKeys
<1>7. Current(k)' = None
  BY <1>3, <1>4, <1>6 DEF CurrentKnown
<1>8. \A j \in Keys \ {k} : Current(j)' = Current(j)
  BY MapStaysElsewhere DEF NotReplacing, Replaces
<1> QED BY <1>1, <1>5, <1>7, <1>8 DEF Stored

\* Steps that neither store nor drop, and leave the held items alone.
LEMMA QuietStep ==
    ASSUME IInv, IInv', NEW c \in Clients,
           \/ BumpUnlink(c) \/ BumpLink(c) \/ PullBegin(c) \/ PullSkip(c) \/ PullFail(c)
           \/ PullDone(c) \/ SlabsEmpty(c) \/ StoreDone(c)
           \/ StoreFresh(c) \/ StoreRefused(c) \/ UnlinkLock(c)
           \/ \E k \in Keys : Alloc(c, k)
           \/ \E comm \in {"set", "add"} : StoreOver(c, comm)
    PROVE  UNCHANGED <<Stored, mine>>
<1>1. table' = table /\ key' = key /\ mine' = mine
  BY DEF BumpUnlink, BumpLink, PullBegin, PullSkip, PullFail, PullDone, SlabsEmpty, StoreDone,
         StoreFresh, StoreRefused, UnlinkLock, Alloc, StoreOver, store, local
<1>2. Others(c)
  <2>1. /\ DOMAIN pc = Clients /\ DOMAIN want = Clients /\ DOMAIN cur = Clients
    BY DEF IInv, TypeOK
  <2>2. CASE BumpUnlink(c) \/ BumpLink(c)
    BY <2>1, <2>2 DEF Others, BumpUnlink, BumpLink, local, Goto
  <2>3. CASE PullBegin(c) \/ PullSkip(c)
    BY <2>1, <2>3 DEF Others, PullBegin, PullSkip, local, Goto
  <2>4. CASE PullFail(c) \/ PullDone(c)
    BY <2>1, <2>4 DEF Others, PullFail, PullDone, local, Goto, NextRound, Return
  <2>5. CASE SlabsEmpty(c) \/ StoreDone(c)
    BY <2>1, <2>5 DEF Others, SlabsEmpty, StoreDone, local, Goto, Return
  <2>6. CASE StoreFresh(c) \/ StoreRefused(c) \/ UnlinkLock(c)
    BY <2>1, <2>6 DEF Others, StoreFresh, StoreRefused, UnlinkLock, local, Goto, Return
  <2>7. CASE \E k \in Keys : Alloc(c, k)
    BY <2>1, <2>7 DEF Others, Alloc, local, Goto
  <2>8. CASE \E comm \in {"set", "add"} : StoreOver(c, comm)
    BY <2>1, <2>8 DEF Others, StoreOver, local, Goto
  <2> QED BY <2>2, <2>3, <2>4, <2>5, <2>6, <2>7, <2>8
<1>3. NotReplacing(c)
  <2>1. pc[c] # "link"
    BY DEF BumpUnlink, BumpLink, PullBegin, PullSkip, PullFail, PullDone,
         SlabsEmpty, StoreDone, StoreFresh, StoreRefused, UnlinkLock, Alloc, StoreOver, Walking
  <2>2. StoreFresh(c) => cur'[c] = None
    BY DEF StoreFresh, local, IInv, ClientOK, LocalsOK, Second, Pulled
  <2>3. ~StoreFresh(c) => pc'[c] # "link"
    BY DEF IInv, TypeOK, BumpUnlink, BumpLink, PullBegin, PullSkip, PullFail, PullDone,
         SlabsEmpty, StoreDone, StoreRefused, UnlinkLock, Alloc, StoreOver, Walking,
         Goto, NextRound, Return
  <2> QED BY <2>1, <2>2, <2>3 DEF NotReplacing
<1>4. \A k \in Keys : Current(k)' = Current(k)
  BY <1>1, <1>2, <1>3, MapStays
<1> QED BY <1>1, <1>4 DEF Stored

LEMMA GetStep ==
    ASSUME IInv, IInv', NEW c \in Clients, NEW k \in Keys, Get(c, k)
    PROVE  Map!Lookup(c, k)
<1>1. PICK i \in assoc_find(k) : mine' = [mine EXCEPT ![c] = i]
  BY DEF Get
<1>2. i \in table /\ key[i] = k /\ i # None
  BY <1>1, NoneAssumption DEF assoc_find, IInv, TypeOK
<1>3. \A d \in Clients : ~Replaces(d, k)
  BY LockedOut DEF Get, Lock
<1>4. Current(k) = i
  BY <1>2, <1>3, CurrentIs DEF CurrentKnown
<1>5. Others(c) /\ NotReplacing(c) /\ table' = table /\ key' = key
  BY DEF Get, Others, NotReplacing, Goto, IInv, TypeOK
<1>6. Stored' = Stored
  BY <1>5, MapStays DEF Stored
<1>7. mine[c] = None
  BY DEF Get, IInv, ClientOK, LocalsOK, Empty
<1> QED BY <1>1, <1>2, <1>4, <1>6, <1>7 DEF Map!Lookup, Stored

LEMMA SlabsAllocStep ==
    ASSUME IInv, IInv', NEW c \in Clients, SlabsAlloc(c)
    PROVE  \E i \in Chunks : Map!Create(c, i)
<1>1. PICK i \in free : mine' = [mine EXCEPT ![c] = i] /\ key' = [key EXCEPT ![i] = want[c]]
  BY DEF SlabsAlloc
<1>2. i \in Chunks /\ i # None /\ i \notin linked /\ i \notin table
      /\ \A d \in Clients : mine[d] # i /\ cur[d] # i
  BY SMTT(30), InUse, NoneAssumption DEF IInv, TypeOK, UniqueKeys
<1>3. \A k \in Keys : Current(k) # i
  <2> SUFFICES ASSUME NEW k \in Keys PROVE Current(k) # i
    OBVIOUS
  <2>1. CurrentKnown(k)
    BY CurrentIs
  <2> QED BY <1>2, <2>1 DEF CurrentKnown
<1>4. Others(c) /\ NotReplacing(c) /\ table' = table
  BY DEF SlabsAlloc, Others, NotReplacing, Goto, IInv, TypeOK
<1>5. \A j \in table : key'[j] = key[j]
  BY <1>1, <1>2 DEF IInv, TypeOK
<1>6. Stored' = Stored
  BY <1>4, <1>5, MapStays DEF Stored
<1>7. mine[c] = None
  BY DEF SlabsAlloc, IInv, ClientOK, LocalsOK, Empty
<1> QED BY <1>1, <1>2, <1>3, <1>6, <1>7 DEF Map!Create, Stored

LEMMA ReleaseStep ==
    ASSUME IInv, IInv', NEW c \in Clients, Release(c)
    PROVE  Map!Release(c)
<1>1. Others(c) /\ NotReplacing(c) /\ table' = table /\ key' = key
  BY DEF Release, Return, Others, NotReplacing, Goto, IInv, TypeOK
<1>2. Stored' = Stored
  BY <1>1, MapStays DEF Stored
<1>3. mine[c] # None
  BY DEF Release, IInv, ClientOK, LocalsOK, Empty
<1> QED BY <1>2, <1>3 DEF Map!Release, Stored, Release

\* An eviction drops a key, a reclaiming pull does not show.
LEMMA PullTakeStep ==
    ASSUME IInv, IInv', NEW c \in Clients, PullTake(c)
    PROVE  UNCHANGED <<Stored, mine>> \/ \E k \in Keys : Map!Drop(k)
<1> DEFINE i == Search(c)
<1>1. pos[c] \in 1 .. Len(lru)
  BY DEF PullTake, InReach, IInv, TypeOK, ClientOK, LocksOK
<1>2. i \in linked /\ key[i] \in Keys
  <2>1. i \in Chunks /\ i \in Ran(lru)
    BY SMTT(30), <1>1 DEF Search, IInv, TypeOK, Ran
  <2> QED BY <2>1 DEF IInv, LruMatchesLinks, KeysKnown
<1>3. Others(c) /\ NotReplacing(c) /\ key' = key /\ mine' = mine
  BY DEF PullTake, Others, NotReplacing, Goto, Walking, IInv, TypeOK
<1>4. CASE pc[c] = "evict_walk"
  <2>1. table' = table \ {i}
    BY <1>2, <1>4, DeleteExact DEF PullTake, Evict
  <2>2. Stored[key[i]] # None /\ Stored' = [Stored EXCEPT ![key[i]] = None]
    BY <1>2, <1>3, <2>1, UnlinkDrops DEF PullTake, Lock
  <2>3. Map!Drop(key[i])
    BY <1>3, <2>2 DEF Map!Drop, Stored
  <2> QED BY <1>2, <2>3
<1>5. CASE pc[c] # "evict_walk"
  <2>1. table' = table
    BY <1>5 DEF PullTake
  <2>2. Stored' = Stored
    BY <1>3, <2>1, MapStays DEF Stored
  <2> QED BY <1>3, <2>2
<1> QED BY <1>4, <1>5

\* A deletion drops the key, if the item is still the one stored under it.
LEMMA UnlinkHeldStep ==
    ASSUME IInv, IInv', NEW c \in Clients, UnlinkHeld(c)
    PROVE  UNCHANGED <<Stored, mine>> \/ \E k \in Keys : Map!Drop(k)
<1> DEFINE i == mine[c]
<1>1. want[c] \in Keys /\ mine[c] # None /\ key[i] = want[c] /\ item_lock[LockOf[want[c]]] = c
  BY DEF UnlinkHeld, IInv, ClientOK, LocalsOK, LocksOK, Empty, Inside
<1>2. Others(c) /\ NotReplacing(c) /\ key' = key /\ mine' = mine
  BY DEF UnlinkHeld, Others, NotReplacing, Goto, local, IInv, TypeOK
<1>3. CASE i \in linked
  <2>1. table' = table \ {i}
    BY <1>3, DeleteExact DEF UnlinkHeld, Unlink
  <2>2. Stored[key[i]] # None /\ Stored' = [Stored EXCEPT ![key[i]] = None]
    BY <1>1, <1>2, <1>3, <2>1, UnlinkDrops
  <2>3. Map!Drop(key[i])
    BY <1>2, <2>2 DEF Map!Drop, Stored
  <2> QED BY <1>1, <2>3
<1>4. CASE i \notin linked
  <2>1. table' = table
    BY <1>4 DEF UnlinkHeld, Unlink
  <2>2. Stored' = Stored
    BY <1>2, <2>1, MapStays DEF Stored
  <2> QED BY <1>2, <2>2
<1> QED BY <1>3, <1>4

\* The first half of a replacement does not show: the client has the lock.
LEMMA UnlinkOldStep ==
    ASSUME IInv, IInv', NEW c \in Clients, UnlinkOld(c)
    PROVE  UNCHANGED <<Stored, mine>>
<1> DEFINE k == want[c]
           i == cur[c]
<1>1. k \in Keys /\ i # None /\ i \in linked /\ i \in table /\ key[i] = k /\ item_lock[LockOf[k]] = c
  BY DEF UnlinkOld, IInv, ClientOK, LocalsOK, LocksOK, ItemsOK, Inside, UniqueKeys
<1>2. Others(c) /\ key' = key /\ mine' = mine /\ cur' = cur /\ want' = want /\ pc'[c] = "link"
  BY DEF UnlinkOld, Others, Goto, local, IInv, TypeOK
<1>3. pc[c] # "link"
  BY DEF UnlinkOld
<1>4. table' = table \ {i}
  BY <1>1, DeleteExact DEF UnlinkOld, Unlink
<1>5. \A d \in Clients : ~Replaces(d, k)
  BY <1>1, <1>3, LockedOut DEF Replaces
<1>6. Replaces(c, k)'
  BY <1>1, <1>2 DEF Replaces
<1>7. Current(k) = i
  BY <1>1, <1>5, CurrentIs DEF CurrentKnown
<1>8. Current(k)' = i
  <2>1. CurrentKnown(k)'
    BY <1>1, <1>2, CurrentIsNext
  <2> QED BY <1>2, <1>6, <2>1 DEF CurrentKnown
<1>9. \A j \in Keys \ {k} : Current(j)' = Current(j)
  BY <1>1, <1>2, <1>3, <1>4, MapStaysElsewhere DEF Replaces
<1> QED BY <1>2, <1>7, <1>8, <1>9 DEF Stored

\* The second half stores the new item, in place of the old one or of nothing.
LEMMA LinkStep ==
    ASSUME IInv, IInv', NEW c \in Clients, Link(c)
    PROVE  \E k \in Keys : Map!Store(c, k)
<1> DEFINE k == want[c]
           i == mine[c]
<1>1. k \in Keys /\ i # None /\ key[i] = k /\ item_lock[LockOf[k]] = c
  BY DEF Link, IInv, ClientOK, LocalsOK, LocksOK, Inside, Empty
<1>2. Others(c) /\ key' = key /\ mine' = mine /\ want' = want /\ pc'[c] = "store_done"
  BY DEF Link, Others, Goto, local, IInv, TypeOK
<1>3. table' = table \cup {i}
  BY DEF Link
<1>4. \A d \in Clients : ~Replaces(d, k)'
  <2>1. ASSUME NEW d \in Clients, Replaces(d, k) PROVE d = c
    BY <2>1, Alone DEF Replaces, Link, Inside
  <2> QED BY <1>2, <2>1 DEF Replaces, Others
<1>5. Current(k)' = i
  <2>1. CurrentKnown(k)'
    BY <1>1, <1>2, CurrentIsNext
  <2> QED BY <1>1, <1>2, <1>3, <1>4, <2>1 DEF CurrentKnown
<1>6. \A j \in Keys \ {k} : Current(j)' = Current(j)
  BY <1>1, <1>2, <1>3, MapStaysElsewhere DEF Replaces
<1>7. Stored' = [Stored EXCEPT ![k] = mine[c]]
  BY <1>1, <1>2, <1>5, <1>6 DEF Stored
<1> QED BY <1>1, <1>2, <1>7 DEF Map!Store, Stored

LEMMA StepOfMap == IInv /\ IInv' /\ [Next]_vars => [Map!Next]_(Map!vars)
<1> SUFFICES ASSUME IInv, IInv', [Next]_vars
             PROVE  Map!Next \/ UNCHANGED <<Stored, mine>>
  BY DEF Map!vars, Stored
<1>1. CASE UNCHANGED vars
  <2>1. UNCHANGED <<table, key, mine, pc, want, cur>>
    BY <1>1 DEF vars, store, local
  <2>2. \A k \in Keys : Current(k)' = Current(k)
    BY <2>1 DEF Current, assoc_find
  <2> QED BY <2>1, <2>2 DEF Stored
<1>2. ASSUME NEW c \in Clients, Begin(c) PROVE Map!Next \/ UNCHANGED <<Stored, mine>>
  <2>1. ASSUME NEW k \in Keys, Get(c, k) PROVE Map!Next
    BY <2>1, GetStep DEF Map!Next
  <2>2. CASE Release(c)
    BY <2>2, ReleaseStep DEF Map!Next
  <2> QED BY <1>2, <2>1, <2>2, QuietStep DEF Begin
<1>3. ASSUME NEW c \in Clients, Continue(c) PROVE Map!Next \/ UNCHANGED <<Stored, mine>>
  <2>1. CASE SlabsAlloc(c)
    BY <2>1, SlabsAllocStep DEF Map!Next
  <2>2. CASE PullTake(c)
    BY <2>2, PullTakeStep DEF Map!Next
  <2>3. CASE UnlinkHeld(c)
    BY <2>3, UnlinkHeldStep DEF Map!Next
  <2>4. CASE UnlinkOld(c)
    BY <2>4, UnlinkOldStep
  <2>5. CASE Link(c)
    BY <2>5, LinkStep DEF Map!Next
  <2> QED BY <1>3, <2>1, <2>2, <2>3, <2>4, <2>5, QuietStep DEF Continue
<1> QED BY <1>1, <1>2, <1>3 DEF Next

\* For any number of clients, chunks, keys and stripes the item layer is an
\* atomic map that may forget: item_get returns what was last stored, a new
\* item is nobody else's, and a set takes effect in one step although
\* do_item_replace unlinks and links in two.
THEOREM ItemLayerIsMap == Spec => ImplementsCacheMap
<1>1. Init => Map!Init
  <2> SUFFICES ASSUME Init PROVE Map!Init
    OBVIOUS
  <2>1. IInv
    BY InitOK
  <2>2. \A k \in Keys : Current(k) = None
    BY <2>1, CurrentIs DEF CurrentKnown, Replaces, Init
  <2> QED BY <2>2 DEF Map!Init, Init
<1> QED BY <1>1, StepOfMap, ItemCacheInvariant, PTL DEF Spec, ImplementsCacheMap, Map!Spec
=============================================================================
