--------------------------- MODULE GraphReadProofs ---------------------------
(***************************************************************************)
(* One application thread that reads and releases segments finds them      *)
(* intact, for any number of segments, chunks, keys, buckets and stripes.  *)
(***************************************************************************)
EXTENDS GraphRead, TLAPS, FiniteSetTheorems, SequenceTheorems, WellFoundedInduction
-----------------------------------------------------------------------------
(* What holds whatever the threads do.                                     *)

MineSteps == {"hit", "bump_unlink", "bump_link", "fill", "insert_load", "insert_store",
              "link_q", "link_load", "link_store", "release_store"}
CurSteps == {"pull_ref", "evict_load", "evict_store", "pull_load", "pull_store"}

\* What a client's place in a call says of its locals and of the LRU lock.
PlaceOK(c) ==
    /\ pc[c] \in MineSteps => mine[c] \in Chunks
    /\ pc[c] \in CurSteps => cur[c] \in Chunks
    /\ failed = "" /\ pc[c] \in {"evict_store", "pull_store", "release_store"} => tmp[c] # 0
    /\ pc[c] \in {"walk", "pull_ref", "evict_load", "evict_store"} => lru_lock = c
    /\ pc[c] = "walk" => pos[c] <= Len(lru)
    /\ pc[c] # "idle" => want[c] \in Keys
    /\ c \notin DOMAIN ThreadOf => pc[c] = "idle"

TypeInv == TypeOK /\ ThreadOf \in Threadings /\ \A c \in Clients : PlaceOK(c)
-----------------------------------------------------------------------------
(* What holds with one thread.                                             *)

\* One call is in progress at a time.
Alone == \A c, d \in Clients : pc[c] \notin AtRest /\ pc[d] \notin AtRest => c = d

\* The items that clients in these steps work on.
MineIn(steps) == {mine[c] : c \in {d \in Clients : pc[d] \in steps}}
CurIn(steps) == {cur[c] : c \in {d \in Clients : pc[d] \in steps}}

\* The linked items that are not in the LRU list, or not yet in a chain.
Unlisted == MineIn({"bump_link", "insert_store", "link_q"})
Unchained == MineIn({"insert_store"})

\* The references to an item: a client's, the link's and that of lru_pull_tail.
LinkSteps == {"insert_store", "link_q", "link_load", "link_store"}
EvictSteps == {"evict_load", "evict_store"}
PullSteps == EvictSteps \cup {"pull_load", "pull_store"}

Holders(i) == {c \in Clients : mine[c] = i /\ pc[c] # "hit"}
LinkRefs == (linked \ MineIn(LinkSteps)) \cup CurIn(EvictSteps)
PullRefs == CurIn(PullSteps)
OneIf(b) == IF b THEN 1 ELSE 0

CountOK ==
    \A i \in Chunks :
        /\ refcount[i] = Cardinality(Holders(i)) + OneIf(i \in LinkRefs) + OneIf(i \in PullRefs)
        /\ i \in free <=> refcount[i] = 0

Once(s) == \A p, q \in 1 .. Len(s) : s[p] = s[q] => p = q

\* The LRU list has the linked items but the one that is being moved or linked.
ListOK == Once(lru) /\ Ran(lru) = linked \ Unlisted

\* A linked item holds the segment of its key, and no other item does.
KeysOK ==
    /\ \A i \in linked : key[i] \in Keys /\ content[i] = key[i]
    /\ \A i, j \in linked : key[i] = key[j] => i = j

\* s is the whole chain of bucket b, and has the items it should have.
IsChain(s, b) ==
    /\ Once(s)
    /\ \A p \in 1 .. Len(s) + 1 :
          (IF p = 1 THEN head[b] ELSE h_next[s[p - 1]]) = (IF p <= Len(s) THEN s[p] ELSE None)
    /\ Ran(s) = {i \in linked \ Unchained : BucketOf[key[i]] = b}

ChainsOK == \A b \in Buckets : \E s \in Seq(Chunks) : IsChain(s, b)

\* What a client knows by its place in a call.
ClientOK(c) ==
    /\ pc[c] \in {"idle", "pull", "walk", "alloc"} \cup CurSteps => mine[c] = None
    /\ pc[c] \in {"hold", "insert_load"} /\ mine[c] # None => content[mine[c]] = want[c]
    /\ pc[c] \in {"hit", "bump_unlink", "bump_link", "insert_store", "link_q", "link_load", "link_store"} =>
          mine[c] \in linked /\ key[mine[c]] = want[c]
    /\ pc[c] \in {"fill", "insert_load"} => mine[c] \notin linked /\ key[mine[c]] = want[c]
    /\ pc[c] = "fill" => \A d \in Clients : mine[d] = mine[c] => d = c
    /\ pc[c] \in {"pull", "walk", "alloc", "fill", "insert_load"} \cup CurSteps =>
          \A i \in linked : key[i] # want[c]
    /\ pc[c] = "insert_store" => h_next[mine[c]] = head[BucketOf[want[c]]]
    /\ pc[c] \in {"hit", "link_store", "release_store"} => tmp[c] = refcount[mine[c]]
    /\ pc[c] \in {"pull_ref", "evict_store", "pull_store"} => tmp[c] = refcount[cur[c]]
    /\ pc[c] = "pull_ref" => cur[c] \in linked
    /\ pc[c] \in EvictSteps => cur[c] \notin linked

OneInv ==
    failed = "" /\ Alone /\ CountOK /\ ListOK /\ KeysOK /\ ChainsOK /\ \A c \in Clients : ClientOK(c)

IInv == TypeInv /\ (OneThread => OneInv)
-----------------------------------------------------------------------------
(* Chains.                                                                 *)

LEMMA LessIs == \A x, y \in Nat : <<x, y>> \in OpToRel(<, Nat) <=> x < y
BY DEF OpToRel

\* A set of natural numbers has a least one.
LEMMA LeastOf ==
    ASSUME NEW T, T \subseteq Nat, T # {}
    PROVE  \E x \in T : \A y \in T : x <= y
<1>1. \E x \in T : \A y \in T : ~(<<y, x>> \in OpToRel(<, Nat))
  BY NatLessThanWellFounded, WFMin, Zenon
<1>2. \E x \in T : \A y \in T : ~(y < x)
  BY <1>1, LessIs, Zenon
<1> QED BY <1>2

LEMMA ChunksSize == Cardinality(Chunks) \in Nat
BY FiniteAssumption, FS_CardinalityType

LEMMA PathsAre ==
    ASSUME NEW i, NEW s
    PROVE  s \in Paths(i) <=>
             /\ s \in Seq(Chunks) /\ Len(s) <= Cardinality(Chunks)
             /\ \A p \in 1 .. Len(s) : s[p] = IF p = 1 THEN i ELSE h_next[s[p - 1]]
BY ChunksSize DEF Paths

\* A chain is one of the longest ways there are.
LEMMA ChainTyped ==
    ASSUME NEW k
    PROVE  LET paths == Paths(head[BucketOf[k]])
           IN  Chain(k) \in paths /\ \A t \in paths : Len(t) <= Len(Chain(k))
<1> DEFINE paths == Paths(head[BucketOf[k]])
           T == {Cardinality(Chunks) - Len(s) : s \in paths}
<1>1. <<>> \in paths
  BY ChunksSize DEF Paths
<1>2. \A s \in paths : Len(s) \in Nat /\ Len(s) <= Cardinality(Chunks)
  BY PathsAre
<1>3. T # {} /\ T \subseteq Nat
  BY <1>1, <1>2, ChunksSize
<1>4. PICK x \in T : \A y \in T : x <= y
  BY <1>3, LeastOf
<1>5. PICK s \in paths : x = Cardinality(Chunks) - Len(s)
  BY <1>4
<1>6. \A t \in paths : Len(t) <= Len(s)
  <2> SUFFICES ASSUME NEW t \in paths PROVE Len(t) <= Len(s)
    OBVIOUS
  <2>1. Cardinality(Chunks) - Len(s) <= Cardinality(Chunks) - Len(t)
    BY <1>4, <1>5
  <2> QED BY <2>1, <1>2, <1>5, ChunksSize
<1> QED BY <1>5, <1>6 DEF Chain

LEMMA MatchesAre ==
    ASSUME NEW k, NEW p
    PROVE  p \in Matches(k) <=> p \in 1 .. Len(Chain(k)) /\ key[Chain(k)[p]] = k
BY DEF Matches

LEMMA FirstIs ==
    ASSUME NEW k, Matches(k) # {}
    PROVE  First(k) \in Matches(k)
<1>1. Matches(k) \subseteq Nat
  <2>1. Len(Chain(k)) \in Nat
    BY ChainTyped, PathsAre
  <2> QED BY <2>1, MatchesAre
<1>2. \E p \in Matches(k) : \A q \in Matches(k) : p <= q
  BY <1>1, LeastOf
<1> QED BY <1>2 DEF First

\* A lookup finds a chunk with the key.
LEMMA FindTyped ==
    ASSUME NEW k, None \notin Chunks
    PROVE  /\ Matches(k) # {} => Chain(k)[First(k)] \in Chunks /\ key[Chain(k)[First(k)]] = k
                                 /\ First(k) \in 1 .. Len(Chain(k)) /\ Chain(k) \in Seq(Chunks)
           /\ assoc_find(k) # None => assoc_find(k) \in Chunks /\ key[assoc_find(k)] = k
<1>1. Chain(k) \in Seq(Chunks)
  BY ChainTyped, PathsAre
<1>2. ASSUME Matches(k) # {}
      PROVE  First(k) \in 1 .. Len(Chain(k)) /\ key[Chain(k)[First(k)]] = k /\ Chain(k)[First(k)] \in Chunks
  BY <1>1, <1>2, FirstIs, MatchesAre, ElementOfSeq
<1> QED BY <1>1, <1>2 DEF assoc_find

-----------------------------------------------------------------------------
(* The LRU list.                                                           *)

\* do_item_unlink_q takes one entry out, if there is one.
LEMMA UnlinkTyped ==
    ASSUME NEW i, lru \in Seq(Chunks)
    PROVE  do_item_unlink_q(i) \in Seq(Chunks)
<1> DEFINE p == CHOOSE q \in 1 .. Len(lru) : lru[q] = i
           s == [q \in 1 .. Len(lru) - 1 |-> IF q < p THEN lru[q] ELSE lru[q + 1]]
<1>1. CASE i \notin Ran(lru)
  BY <1>1 DEF do_item_unlink_q
<1>2. CASE i \in Ran(lru)
  <2>1. p \in 1 .. Len(lru)
    BY <1>2 DEF Ran
  <2>2. Len(lru) - 1 \in Nat /\ \A q \in 1 .. Len(lru) - 1 : q \in 1 .. Len(lru) /\ q + 1 \in 1 .. Len(lru)
    BY <2>1
  <2>3. s \in [1 .. Len(lru) - 1 -> Chunks]
    <3> HIDE DEF p
    <3> QED BY <2>1, <2>2
  <2>4. s \in Seq(Chunks)
    BY <2>2, <2>3
  <2> QED BY <2>4, <1>2 DEF do_item_unlink_q
<1> QED BY <1>1, <1>2

LEMMA LinkTyped ==
    ASSUME NEW i \in Chunks, lru \in Seq(Chunks)
    PROVE  <<i>> \o lru \in Seq(Chunks)
OBVIOUS
-----------------------------------------------------------------------------
(* Types.                                                                  *)

LEMMA TypeInit == Init => TypeInv
<1> SUFFICES ASSUME Init PROVE TypeInv
  OBVIOUS
<1>1. 0 \in 0 .. RefModulo - 1 /\ 0 \in 0 .. AllocTries - 1
  <2>1. Cardinality(Clients) \in Nat
    BY FiniteAssumption, FS_CardinalityType
  <2> QED BY <2>1, NumbersAssumption
<1>2. TypeOK
  <2>0. <<>> \in Seq(Chunks)
    OBVIOUS
  <2>1. lru \in Seq(Chunks)
    BY <2>0 DEF Init
  <2>2. /\ refcount \in [Chunks -> 0 .. RefModulo - 1] /\ tmp \in [Clients -> 0 .. RefModulo - 1]
        /\ round \in [Clients -> 0 .. AllocTries - 1] /\ pos \in [Clients -> Nat]
    BY <1>1 DEF Init
  <2> QED BY <2>1, <2>2 DEF Init, TypeOK, Steps, AtRest
<1>3. \A c \in Clients : PlaceOK(c)
  BY DEF Init, PlaceOK, MineSteps, CurSteps
<1> QED BY <1>2, <1>3 DEF Init, TypeInv

\* A step of c leaves the locals of the others alone, and moves the LRU list
\* and the LRU lock only when it is free or c's.
Elsewhere(c) ==
    /\ \A d \in Clients \ {c} :
          /\ pc'[d] = pc[d] /\ want'[d] = want[d] /\ mine'[d] = mine[d]
          /\ cur'[d] = cur[d] /\ tmp'[d] = tmp[d] /\ pos'[d] = pos[d]
    /\ failed = ""
    /\ lru' # lru => lru_lock \in {None, c}
    /\ lru_lock' # lru_lock => lru_lock \in {None, c}

LEMMA StepElsewhere ==
    ASSUME TypeInv, NEW c \in Clients, Begin(c) \/ Continue(c)
    PROVE  Elsewhere(c)
<1>0. TypeOK /\ PlaceOK(c)
  BY DEF TypeInv
<1> USE DEF TypeOK, At, Goto, Set, chains, store, locks, local, Elsewhere
<1>1. ASSUME NEW k, ReadHit(c, k) PROVE Elsewhere(c)
  BY <1>0, <1>1 DEF ReadHit, Lock, Free
<1>2. ASSUME NEW k, NEW f, ReadMiss(c, k, f) PROVE Elsewhere(c)
  BY <1>0, <1>2 DEF ReadMiss
<1>3. CASE HitIncr(c)
  BY <1>0, <1>3 DEF HitIncr
<1>4. CASE BumpUnlink(c)
  BY <1>0, <1>4 DEF BumpUnlink, Unlock
<1>5. CASE BumpLink(c)
  BY <1>0, <1>5 DEF BumpLink, Unlock, do_item_link_q
<1>6. CASE PullBegin(c)
  BY <1>0, <1>6 DEF PullBegin
<1>7. CASE PullSkip(c)
  BY <1>0, <1>7 DEF PullSkip, InReach, Free
<1>8. CASE PullTake(c)
  BY <1>0, <1>8 DEF PullTake, Lock, Free, InReach
<1>9. CASE PullRef(c)
  BY <1>0, <1>9 DEF PullRef, assoc_delete, PlaceOK
<1>10. CASE EvictLoad(c)
  BY <1>0, <1>10 DEF EvictLoad, RemoveLoad, PlaceOK
<1>11. CASE EvictStore(c)
  BY <1>0, <1>11 DEF EvictStore, StoreDecr, PlaceOK
<1>12. CASE PullLoad(c)
  BY <1>0, <1>12 DEF PullLoad, RemoveLoad
<1>13. CASE PullStore(c)
  BY <1>0, <1>13 DEF PullStore, StoreDecr, Unlock, AfterPull
<1>14. CASE PullFail(c)
  BY <1>0, <1>14 DEF PullFail, InReach, PlaceOK
<1>15. CASE SlabsAlloc(c)
  BY <1>0, <1>15 DEF SlabsAlloc
<1>16. CASE SlabsEmpty(c)
  BY <1>0, <1>16 DEF SlabsEmpty
<1>17. CASE Fill(c)
  BY <1>0, <1>17 DEF Fill
<1>18. CASE InsertLoad(c)
  BY <1>0, <1>18 DEF InsertLoad
<1>19. CASE InsertStore(c)
  BY <1>0, <1>19 DEF InsertStore
<1>20. CASE LinkQ(c)
  BY <1>0, <1>20 DEF LinkQ, do_item_link_q
<1>21. CASE LinkLoad(c)
  BY <1>0, <1>21 DEF LinkLoad
<1>22. CASE LinkStore(c)
  BY <1>0, <1>22 DEF LinkStore
<1>23. CASE ReleaseLoad(c)
  BY <1>0, <1>23 DEF ReleaseLoad, RemoveLoad
<1>24. CASE ReleaseStore(c)
  BY <1>0, <1>24 DEF ReleaseStore, StoreDecr
<1>25. CASE ReleaseHeap(c)
  BY <1>0, <1>25 DEF ReleaseHeap
<1> QED BY <1>1, <1>2, <1>3, <1>4, <1>5, <1>6, <1>7, <1>8, <1>9, <1>10, <1>11, <1>12, <1>13, <1>14, <1>15, <1>16, <1>17, <1>18, <1>19, <1>20, <1>21, <1>22, <1>23, <1>24, <1>25 DEF Begin, Continue


LEMMA TypeStep ==
    ASSUME TypeInv, NEW c \in DOMAIN ThreadOf, Begin(c) \/ Continue(c), UNCHANGED ThreadOf
    PROVE  TypeInv'
<1>0. /\ c \in Clients /\ Reads[ThreadOf[c]] \subseteq Keys
      /\ TypeOK /\ \A d \in Clients : PlaceOK(d)
      /\ ThreadOf' = ThreadOf /\ ThreadOf \in Threadings
  BY ThreadsAssumption DEF TypeInv
<1>a. /\ 0 \in 0 .. RefModulo - 1 /\ 0 \in 0 .. AllocTries - 1 /\ 1 \in 0 .. RefModulo - 1
      /\ \A n \in 0 .. RefModulo - 1 : (n + 1) % RefModulo \in 0 .. RefModulo - 1
      /\ \A n \in 0 .. RefModulo - 1 : n # 0 => n - 1 \in 0 .. RefModulo - 1
      /\ \A n \in 0 .. AllocTries - 1 : n + 1 < AllocTries => n + 1 \in 0 .. AllocTries - 1
      /\ None \notin Chunks
  <2>1. RefModulo \in Nat /\ 1 < RefModulo /\ AllocTries \in Nat \ {0}
    BY NumbersAssumption, FiniteAssumption, FS_CardinalityType
  <2> QED BY <2>1, NullAssumption
<1>b. /\ \A i : do_item_unlink_q(i) \in Seq(Chunks)
      /\ \A i \in Chunks : <<i>> \o lru \in Seq(Chunks)
      /\ Len(lru) \in Nat
  BY <1>0, UnlinkTyped, LinkTyped DEF TypeOK
<1>c. \A d \in Clients \ {c} : PlaceOK(d)'
  BY <1>0, StepElsewhere, NullAssumption, ZenonT(40) DEF Elsewhere, PlaceOK
<1> SUFFICES TypeOK' /\ PlaceOK(c)'
  BY <1>0, <1>c DEF TypeInv
<1>d. PlaceOK(c)
  BY <1>0
<1> USE DEF Steps, AtRest, At, Goto, Set, chains, store, locks, local
<1>1. ASSUME NEW k \in Keys, ReadHit(c, k) PROVE TypeOK' /\ PlaceOK(c)'
  <2>1. TypeOK'
    BY <1>0, <1>a, <1>b, <1>d, <1>1, FindTyped, ZenonT(60) DEF ReadHit, Lock, Free, TypeOK, PlaceOK, MineSteps, CurSteps
  <2>2. PlaceOK(c)'
    <3>1. pc'[c] = "hit" /\ want'[c] = k /\ mine'[c] \in Chunks
      BY <1>0, <1>a, <1>1, FindTyped DEF ReadHit, TypeOK
    <3> QED BY <3>1, <1>0 DEF PlaceOK, MineSteps, CurSteps
  <2> QED BY <2>1, <2>2
<1>2. ASSUME NEW k \in Keys, NEW cacheFlag \in BOOLEAN, ReadMiss(c, k, cacheFlag) PROVE TypeOK' /\ PlaceOK(c)'
  <2>1. TypeOK'
    BY <1>0, <1>a, <1>b, <1>d, <1>2 DEF ReadMiss, TypeOK, PlaceOK, MineSteps, CurSteps
  <2>0. pc'[c] \in {"pull", "hold"} /\ want'[c] = k
    BY <1>0, <1>2 DEF ReadMiss, TypeOK
  <2>2. PlaceOK(c)'
    BY <2>0, <1>0 DEF PlaceOK, MineSteps, CurSteps
  <2> QED BY <2>1, <2>2
<1>3. CASE HitIncr(c)
  <2>1. TypeOK'
    BY <1>0, <1>a, <1>b, <1>d, <1>3 DEF HitIncr, TypeOK, PlaceOK, MineSteps, CurSteps
  <2>2. PlaceOK(c)'
    BY <1>0, <1>a, <1>b, <1>d, <1>3 DEF HitIncr, TypeOK, PlaceOK, MineSteps, CurSteps
  <2> QED BY <2>1, <2>2
<1>4. CASE BumpUnlink(c)
  <2>0. /\ pc[c] = "bump_unlink" /\ pc'[c] \in {"bump_link", "hold"}
        /\ mine' = mine /\ want' = want
    BY <1>0, <1>4 DEF BumpUnlink, TypeOK
  <2>1. TypeOK'
    BY <1>0, <1>a, <1>b, <1>4 DEF BumpUnlink, Unlock, TypeOK
  <2>2. PlaceOK(c)'
    BY <2>0, <1>d DEF PlaceOK, MineSteps, CurSteps
  <2> QED BY <2>1, <2>2
<1>5. CASE BumpLink(c)
  <2>1. TypeOK'
    BY <1>0, <1>a, <1>b, <1>d, <1>5 DEF BumpLink, Unlock, do_item_link_q, TypeOK, PlaceOK, MineSteps, CurSteps
  <2>2. PlaceOK(c)'
    BY <1>0, <1>a, <1>b, <1>d, <1>5 DEF BumpLink, Unlock, do_item_link_q, TypeOK, PlaceOK, MineSteps, CurSteps
  <2> QED BY <2>1, <2>2
<1>6. CASE PullBegin(c)
  <2>0. /\ pc[c] = "pull" /\ pc'[c] = "walk" /\ lru_lock' = c /\ want' = want
        /\ pos'[c] = Len(lru) /\ lru' = lru /\ Len(lru) \in Nat
    BY <1>0, <1>b, <1>6 DEF PullBegin, TypeOK
  <2>1. TypeOK'
    BY <1>0, <1>b, <1>6 DEF PullBegin, TypeOK
  <2>2. PlaceOK(c)'
    BY <2>0, <1>d DEF PlaceOK, MineSteps, CurSteps
  <2> QED BY <2>1, <2>2
<1>7. CASE PullSkip(c)
  <2>0. /\ pc[c] = "walk" /\ pc' = pc /\ lru_lock' = lru_lock /\ want' = want
        /\ pos[c] \in Nat /\ pos[c] >= 1 /\ pos'[c] = pos[c] - 1 /\ lru' = lru
    BY <1>0, <1>7 DEF PullSkip, InReach, TypeOK
  <2>a. pos[c] - 1 \in Nat /\ pos[c] - 1 <= pos[c]
    BY <2>0
  <2>b. pos[c] <= Len(lru) /\ lru_lock = c /\ want[c] \in Keys
    BY <2>0, <1>d DEF PlaceOK
  <2>1. TypeOK'
    <3>0. pos' = [pos EXCEPT ![c] = pos[c] - 1] /\ pos \in [Clients -> Nat]
      BY <1>0, <1>7 DEF PullSkip, TypeOK
    <3>1. pos' \in [Clients -> Nat]
      BY <3>0, <2>a
    <3> QED BY <1>0, <1>7, <3>1 DEF PullSkip, TypeOK
  <2>c. pos'[c] <= Len(lru')
    BY <2>0, <2>a, <2>b, <1>b
  <2>2. PlaceOK(c)'
    BY <2>0, <2>b, <2>c, <1>d DEF PlaceOK, MineSteps, CurSteps
  <2> QED BY <2>1, <2>2
<1>8. CASE PullTake(c)
  <2>0. /\ pc[c] = "walk" /\ pc'[c] = "pull_ref" /\ lru_lock' = lru_lock /\ want' = want
        /\ pos[c] \in Nat /\ pos[c] >= 1 /\ cur'[c] = lru[pos[c]]
    BY <1>0, <1>8 DEF PullTake, InReach, TypeOK
  <2>1. pos[c] \in 1 .. Len(lru) /\ lru[pos[c]] \in Chunks
    <3>1. pos[c] <= Len(lru)
      BY <2>0, <1>d DEF PlaceOK
    <3>2. pos[c] \in 1 .. Len(lru)
      BY <3>1, <2>0, <1>b
    <3>3. lru \in Seq(Chunks)
      BY <1>0 DEF TypeOK
    <3> QED BY <3>2, <3>3, ElementOfSeq
  <2>2. TypeOK'
    BY <1>0, <1>8, <2>1 DEF PullTake, Lock, Free, TypeOK
  <2>3. PlaceOK(c)'
    BY <2>0, <2>1, <1>d DEF PlaceOK, MineSteps, CurSteps
  <2> QED BY <2>2, <2>3
<1>9. CASE PullRef(c)
  <2>0. /\ pc[c] = "pull_ref" /\ pc'[c] \in {"evict_load", "pull_load"}
        /\ pc'[c] = "evict_load" => lru_lock' = lru_lock
        /\ mine' = mine /\ want' = want /\ cur' = cur
    BY <1>0, <1>9 DEF PullRef, TypeOK
  <2>1. cur[c] \in Chunks /\ tmp[c] \in 0 .. RefModulo - 1
    BY <1>0, <1>d, <2>0 DEF PlaceOK, CurSteps, TypeOK
  <2>2. refcount' \in [Chunks -> 0 .. RefModulo - 1]
    BY <1>0, <1>a, <1>9, <2>1 DEF PullRef, TypeOK
  <2>3. head' \in [Buckets -> Chunks \cup {None}] /\ h_next' \in [Chunks -> Chunks \cup {None}]
    <3>1. CASE chains' = chains
      BY <3>1, <1>0 DEF TypeOK
    <3>2. CASE Matches(key[cur[c]]) # {} /\ assoc_delete(key[cur[c]])
      <4> DEFINE i == Chain(key[cur[c]])[First(key[cur[c]])]
      <4>1. i \in Chunks /\ h_next[i] \in Chunks \cup {None}
        BY <3>2, <1>0, <1>a, FindTyped DEF TypeOK
      <4>2. head' = head \/ head' = [head EXCEPT ![BucketOf[key[cur[c]]]] = h_next[i]]
        BY <3>2 DEF assoc_delete
      <4>3. \/ h_next' = [h_next EXCEPT ![i] = None]
            \/ h_next' = [h_next EXCEPT ![Chain(key[cur[c]])[First(key[cur[c]]) - 1]] = h_next[i],
                                        ![i] = None]
        BY <3>2 DEF assoc_delete
      <4> HIDE DEF i
      <4> QED BY <4>1, <4>2, <4>3, <1>0 DEF TypeOK
    <3> QED BY <3>1, <3>2, <1>9 DEF PullRef
  <2>4. lru' \in Seq(Chunks) /\ lru_lock' \in Clients \cup {None} /\ linked' \subseteq Chunks
    <3>1. lru' = lru \/ lru' = do_item_unlink_q(cur[c])
      BY <1>9 DEF PullRef
    <3>2. lru_lock' \in {None, lru_lock} /\ linked' \subseteq linked
      BY <1>9 DEF PullRef
    <3> QED BY <3>1, <3>2, <1>0, <1>b DEF TypeOK
  <2>5. TypeOK'
    BY <1>0, <1>9, <2>2, <2>3, <2>4 DEF PullRef, TypeOK
  <2>6. PlaceOK(c)'
    BY <2>0, <1>d DEF PlaceOK, MineSteps, CurSteps
  <2> QED BY <2>5, <2>6
<1>10. CASE EvictLoad(c)
  <2>1. TypeOK'
    BY <1>0, <1>a, <1>b, <1>d, <1>10 DEF EvictLoad, RemoveLoad, TypeOK, PlaceOK, MineSteps, CurSteps
  <2>2. PlaceOK(c)'
    BY <1>0, <1>a, <1>b, <1>d, <1>10 DEF EvictLoad, RemoveLoad, TypeOK, PlaceOK, MineSteps, CurSteps
  <2> QED BY <2>1, <2>2
<1>11. CASE EvictStore(c)
  <2>1. TypeOK'
    BY <1>0, <1>a, <1>b, <1>d, <1>11 DEF EvictStore, StoreDecr, TypeOK, PlaceOK, MineSteps, CurSteps
  <2>2. PlaceOK(c)'
    BY <1>0, <1>a, <1>b, <1>d, <1>11 DEF EvictStore, StoreDecr, TypeOK, PlaceOK, MineSteps, CurSteps
  <2> QED BY <2>1, <2>2
<1>12. CASE PullLoad(c)
  <2>1. TypeOK'
    BY <1>0, <1>a, <1>b, <1>d, <1>12 DEF PullLoad, RemoveLoad, TypeOK, PlaceOK, MineSteps, CurSteps
  <2>2. PlaceOK(c)'
    BY <1>0, <1>a, <1>b, <1>d, <1>12 DEF PullLoad, RemoveLoad, TypeOK, PlaceOK, MineSteps, CurSteps
  <2> QED BY <2>1, <2>2
<1>13. CASE PullStore(c)
  <2>0. /\ pc[c] = "pull_store" /\ pc'[c] \in {"alloc", "pull", "hold"} /\ want' = want
    BY <1>0, <1>13 DEF PullStore, AfterPull, TypeOK
  <2>1. evict' \in [Clients -> BOOLEAN] /\ round' \in [Clients -> 0 .. AllocTries - 1]
        /\ pc' \in [Clients -> Steps]
    <3>1. pc \in [Clients -> Steps] /\ evict \in [Clients -> BOOLEAN] /\ round \in [Clients -> 0 .. AllocTries - 1]
      BY <1>0 DEF TypeOK
    <3>2. /\ evict' = evict \/ evict' = [evict EXCEPT ![c] = FALSE]
          /\ pc' \in {[pc EXCEPT ![c] = l] : l \in {"alloc", "pull", "hold"}}
      BY <1>13 DEF PullStore, AfterPull
    <3>3. \/ round' = round \/ round' = [round EXCEPT ![c] = 0]
          \/ round[c] + 1 < AllocTries /\ round' = [round EXCEPT ![c] = round[c] + 1]
      BY <1>13 DEF PullStore, AfterPull
    <3>4. round' \in [Clients -> 0 .. AllocTries - 1]
      BY <3>1, <3>3, <1>a, <1>0
    <3>5. pc' \in [Clients -> Steps]
      BY <3>1, <3>2, <1>0
    <3> QED BY <3>1, <3>2, <3>4, <3>5
  <2>2. cur[c] \in Chunks /\ tmp[c] \in 0 .. RefModulo - 1 /\ tmp[c] # 0
    BY <1>0, <1>d, <2>0, <1>13 DEF PullStore, PlaceOK, CurSteps, TypeOK
  <2>3. refcount' \in [Chunks -> 0 .. RefModulo - 1] /\ free' \subseteq Chunks
    BY <1>0, <1>a, <1>13, <2>2 DEF PullStore, StoreDecr, TypeOK
  <2>4. TypeOK'
    BY <1>0, <1>a, <1>13, <2>1, <2>3 DEF PullStore, Unlock, TypeOK
  <2>5. PlaceOK(c)'
    BY <2>0, <1>d DEF PlaceOK, MineSteps, CurSteps
  <2> QED BY <2>4, <2>5
<1>14. CASE PullFail(c)
  <2>1. TypeOK'
    BY <1>0, <1>a, <1>b, <1>d, <1>14 DEF PullFail, InReach, TypeOK, PlaceOK, MineSteps, CurSteps
  <2>2. PlaceOK(c)'
    BY <1>0, <1>a, <1>b, <1>d, <1>14 DEF PullFail, InReach, TypeOK, PlaceOK, MineSteps, CurSteps
  <2> QED BY <2>1, <2>2
<1>15. CASE SlabsAlloc(c)
  <2>0. PICK i \in free : /\ free' = free \ {i} /\ refcount' = Set(refcount, i, 1)
                          /\ key' = Set(key, i, want[c]) /\ h_next' = Set(h_next, i, None)
                          /\ mine' = Set(mine, c, i)
    BY <1>15 DEF SlabsAlloc
  <2>1. i \in Chunks /\ pc[c] = "alloc" /\ pc'[c] = "fill" /\ want' = want /\ mine'[c] = i
    BY <1>0, <1>15, <2>0 DEF SlabsAlloc, TypeOK
  <2>2. /\ refcount' \in [Chunks -> 0 .. RefModulo - 1] /\ key' \in [Chunks -> Keys \cup {None}]
        /\ h_next' \in [Chunks -> Chunks \cup {None}] /\ mine' \in [Clients -> Chunks \cup {None}]
        /\ free' \subseteq Chunks
    BY <1>0, <1>a, <2>0, <2>1 DEF TypeOK
  <2>3. TypeOK'
    BY <1>0, <1>a, <1>15, <2>2 DEF SlabsAlloc, TypeOK
  <2>4. PlaceOK(c)'
    BY <2>1, <1>d DEF PlaceOK, MineSteps, CurSteps
  <2> QED BY <2>3, <2>4
<1>16. CASE SlabsEmpty(c)
  <2>1. TypeOK'
    BY <1>0, <1>a, <1>b, <1>d, <1>16 DEF SlabsEmpty, TypeOK, PlaceOK, MineSteps, CurSteps
  <2>2. PlaceOK(c)'
    BY <1>0, <1>a, <1>b, <1>d, <1>16 DEF SlabsEmpty, TypeOK, PlaceOK, MineSteps, CurSteps
  <2> QED BY <2>1, <2>2
<1>17. CASE Fill(c)
  <2>1. TypeOK'
    BY <1>0, <1>a, <1>b, <1>d, <1>17 DEF Fill, TypeOK, PlaceOK, MineSteps, CurSteps
  <2>2. PlaceOK(c)'
    BY <1>0, <1>a, <1>b, <1>d, <1>17 DEF Fill, TypeOK, PlaceOK, MineSteps, CurSteps
  <2> QED BY <2>1, <2>2
<1>18. CASE InsertLoad(c)
  <2>0. /\ pc[c] = "insert_load" /\ pc'[c] = "insert_store" /\ want' = want /\ mine' = mine
    BY <1>0, <1>18 DEF InsertLoad, TypeOK
  <2>1. mine[c] \in Chunks /\ want[c] \in Keys
    BY <1>d, <2>0 DEF PlaceOK, MineSteps
  <2>2. head[BucketOf[want[c]]] \in Chunks \cup {None}
    BY <2>1, <1>0, MapsAssumption DEF TypeOK
  <2>3. TypeOK'
    BY <1>0, <1>18, <2>1, <2>2 DEF InsertLoad, TypeOK
  <2>4. PlaceOK(c)'
    BY <2>0, <1>d DEF PlaceOK, MineSteps, CurSteps
  <2> QED BY <2>3, <2>4
<1>19. CASE InsertStore(c)
  <2>1. TypeOK'
    BY <1>0, <1>a, <1>b, <1>d, <1>19 DEF InsertStore, TypeOK, PlaceOK, MineSteps, CurSteps
  <2>2. PlaceOK(c)'
    BY <1>0, <1>a, <1>b, <1>d, <1>19 DEF InsertStore, TypeOK, PlaceOK, MineSteps, CurSteps
  <2> QED BY <2>1, <2>2
<1>20. CASE LinkQ(c)
  <2>1. TypeOK'
    BY <1>0, <1>a, <1>b, <1>d, <1>20 DEF LinkQ, do_item_link_q, TypeOK, PlaceOK, MineSteps, CurSteps
  <2>2. PlaceOK(c)'
    BY <1>0, <1>a, <1>b, <1>d, <1>20 DEF LinkQ, do_item_link_q, TypeOK, PlaceOK, MineSteps, CurSteps
  <2> QED BY <2>1, <2>2
<1>21. CASE LinkLoad(c)
  <2>1. TypeOK'
    BY <1>0, <1>a, <1>b, <1>d, <1>21 DEF LinkLoad, TypeOK, PlaceOK, MineSteps, CurSteps
  <2>2. PlaceOK(c)'
    BY <1>0, <1>a, <1>b, <1>d, <1>21 DEF LinkLoad, TypeOK, PlaceOK, MineSteps, CurSteps
  <2> QED BY <2>1, <2>2
<1>22. CASE LinkStore(c)
  <2>1. TypeOK'
    BY <1>0, <1>a, <1>b, <1>d, <1>22 DEF LinkStore, TypeOK, PlaceOK, MineSteps, CurSteps
  <2>2. PlaceOK(c)'
    BY <1>0, <1>a, <1>b, <1>d, <1>22 DEF LinkStore, TypeOK, PlaceOK, MineSteps, CurSteps
  <2> QED BY <2>1, <2>2
<1>23. CASE ReleaseLoad(c)
  <2>1. TypeOK'
    BY <1>0, <1>a, <1>b, <1>d, <1>23 DEF ReleaseLoad, RemoveLoad, TypeOK, PlaceOK, MineSteps, CurSteps
  <2>2. PlaceOK(c)'
    BY <1>0, <1>a, <1>b, <1>d, <1>23 DEF ReleaseLoad, RemoveLoad, TypeOK, PlaceOK, MineSteps, CurSteps
  <2> QED BY <2>1, <2>2
<1>24. CASE ReleaseStore(c)
  <2>1. TypeOK'
    BY <1>0, <1>a, <1>b, <1>d, <1>24 DEF ReleaseStore, StoreDecr, TypeOK, PlaceOK, MineSteps, CurSteps
  <2>2. PlaceOK(c)'
    BY <1>0, <1>a, <1>b, <1>d, <1>24 DEF ReleaseStore, StoreDecr, TypeOK, PlaceOK, MineSteps, CurSteps
  <2> QED BY <2>1, <2>2
<1>25. CASE ReleaseHeap(c)
  <2>1. TypeOK'
    BY <1>0, <1>a, <1>b, <1>d, <1>25 DEF ReleaseHeap, TypeOK, PlaceOK, MineSteps, CurSteps
  <2>2. PlaceOK(c)'
    BY <1>0, <1>a, <1>b, <1>d, <1>25 DEF ReleaseHeap, TypeOK, PlaceOK, MineSteps, CurSteps
  <2> QED BY <2>1, <2>2
<1> QED BY <1>0, <1>1, <1>2, <1>3, <1>4, <1>5, <1>6, <1>7, <1>8, <1>9, <1>10, <1>11, <1>12, <1>13, <1>14, <1>15, <1>16, <1>17, <1>18, <1>19, <1>20, <1>21, <1>22, <1>23, <1>24, <1>25 DEF Begin, Continue


THEOREM GraphReadTypes == Spec => []TypeInv
<1>1. TypeInv /\ [Next]_vars => TypeInv'
  <2> SUFFICES ASSUME TypeInv, [Next]_vars PROVE TypeInv'
    OBVIOUS
  <2>1. CASE Next
    BY <2>1, TypeStep DEF Next
  <2>2. CASE UNCHANGED vars
    <3>1. TypeOK'
      BY <2>2 DEF TypeInv, TypeOK, vars, chains, store, locks, local
    <3>2. \A d \in Clients : PlaceOK(d)'
      BY <2>2 DEF TypeInv, PlaceOK, vars, chains, store, locks, local
    <3> QED BY <3>1, <3>2, <2>2 DEF TypeInv, vars
  <2> QED BY <2>1, <2>2
<1> QED BY TypeInit, <1>1, PTL DEF Spec
-----------------------------------------------------------------------------
(* One call at a time.                                                     *)

OthersRest(c) == \A d \in Clients \ {c} : pc[d] \in AtRest

\* What the sets of items are when all but c are at rest.
SetsAre(c) ==
    /\ LinkRefs = (linked \ (IF pc[c] \in LinkSteps THEN {mine[c]} ELSE {}))
                      \cup (IF pc[c] \in EvictSteps THEN {cur[c]} ELSE {})
    /\ PullRefs = IF pc[c] \in PullSteps THEN {cur[c]} ELSE {}
    /\ Unlisted = IF pc[c] \in {"bump_link", "insert_store", "link_q"} THEN {mine[c]} ELSE {}
    /\ Unchained = IF pc[c] = "insert_store" THEN {mine[c]} ELSE {}

SetsKnown == \A c \in Clients : OthersRest(c) => SetsAre(c)

LEMMA SetsOK == SetsKnown
<1> SUFFICES ASSUME NEW c \in Clients, OthersRest(c) PROVE SetsAre(c)
  BY DEF SetsKnown
<1>1. ASSUME NEW steps, AtRest \cap steps = {}
      PROVE  /\ MineIn(steps) = IF pc[c] \in steps THEN {mine[c]} ELSE {}
             /\ CurIn(steps) = IF pc[c] \in steps THEN {cur[c]} ELSE {}
  <2>1. {d \in Clients : pc[d] \in steps} = IF pc[c] \in steps THEN {c} ELSE {}
    BY <1>1 DEF OthersRest
  <2> QED BY <2>1 DEF MineIn, CurIn
<1>2. /\ AtRest \cap LinkSteps = {} /\ AtRest \cap EvictSteps = {} /\ AtRest \cap PullSteps = {}
      /\ AtRest \cap {"bump_link", "insert_store", "link_q"} = {} /\ AtRest \cap {"insert_store"} = {}
  BY DEF AtRest, LinkSteps, EvictSteps, PullSteps
<1> QED BY <1>1, <1>2 DEF SetsAre, LinkRefs, PullRefs, Unlisted, Unchained

\* What is known of a step of c, its types included.
Ready(c) ==
    /\ c \in Clients /\ TypeOK /\ TypeOK' /\ OneInv
    /\ OthersRest(c) /\ OthersRest(c)' /\ Elsewhere(c) /\ SetsAre(c) /\ SetsAre(c)'
    /\ PlaceOK(c) /\ ClientOK(c)

LEMMA StepReady ==
    ASSUME TypeInv, TypeInv', OneThread, OneInv,
           NEW c \in DOMAIN ThreadOf, Begin(c) \/ Continue(c)
    PROVE  Ready(c)
<1>0. c \in Clients /\ TypeOK /\ PlaceOK(c) /\ TypeOK' /\ ClientOK(c) /\ \A d \in Clients : PlaceOK(d)
  BY ThreadsAssumption DEF TypeInv, OneInv
<1>1. Elsewhere(c)
  BY <1>0, StepElsewhere
<1>2. OthersRest(c)
  <2>1. CASE pc[c] \notin AtRest
    BY <2>1, <1>0 DEF OneInv, Alone, OthersRest
  <2>2. CASE pc[c] \in AtRest
    <3>1. ThreadReady(c)
      BY <2>2 DEF AtRest, At, Begin, Continue, ReadHit, ReadMiss, ReleaseLoad, ReleaseHeap,
           HitIncr, BumpUnlink, BumpLink, PullBegin, PullSkip, PullTake, PullRef, EvictLoad,
           EvictStore, PullLoad, PullStore, PullFail, SlabsAlloc, SlabsEmpty, Fill, InsertLoad,
           InsertStore, LinkQ, LinkLoad, LinkStore, ReleaseStore
    <3>2. \A d \in DOMAIN ThreadOf : pc[d] \in AtRest
      BY <3>1 DEF ThreadReady, OneThread
    <3>3. \A d \in Clients \ DOMAIN ThreadOf : pc[d] \in AtRest
      BY <1>0 DEF PlaceOK, AtRest
    <3> QED BY <3>2, <3>3 DEF OthersRest
  <2> QED BY <2>1, <2>2
<1>3. OthersRest(c)'
  BY <1>1, <1>2 DEF OthersRest, Elsewhere
<1>4. SetsAre(c) /\ SetsAre(c)'
  <2>1. SetsKnown'
    BY SetsOK, PTL
  <2> QED BY <2>1, SetsOK, <1>0, <1>2, <1>3 DEF SetsKnown
<1> QED BY <1>0, <1>1, <1>2, <1>3, <1>4 DEF Ready
-----------------------------------------------------------------------------
(* Counting references.                                                    *)

\* The references c, or the step it is at, has to item i, ...
Own(c, i) == OneIf(mine[c] = i /\ pc[c] # "hit") + OneIf(i \in LinkRefs) + OneIf(i \in PullRefs)
\* ... and those of the other clients.
Others(c, i) == Cardinality({d \in Clients \ {c} : mine[d] = i})

OthersSize(c) ==
    \A i \in Chunks : OthersRest(c) =>
        /\ Cardinality(Holders(i)) = Others(c, i) + OneIf(mine[c] = i /\ pc[c] # "hit")
        /\ Others(c, i) \in Nat /\ Others(c, i) + 1 <= Cardinality(Clients)
        /\ Others(c, i) = 0 => \A d \in Clients \ {c} : mine[d] # i

OthersSizes == \A c \in Clients : OthersSize(c)

LEMMA OthersSizesOK == OthersSizes
<1> SUFFICES ASSUME NEW c \in Clients, NEW i \in Chunks, OthersRest(c)
             PROVE  /\ Cardinality(Holders(i)) = Others(c, i) + OneIf(mine[c] = i /\ pc[c] # "hit")
                    /\ Others(c, i) \in Nat /\ Others(c, i) + 1 <= Cardinality(Clients)
                    /\ Others(c, i) = 0 => \A d \in Clients \ {c} : mine[d] # i
  BY DEF OthersSizes, OthersSize
<1> DEFINE S == {d \in Clients \ {c} : mine[d] = i}
           R == Clients \ {c}
<1>1. /\ IsFiniteSet(S) /\ Cardinality(S) \in Nat /\ (Cardinality(S) = 0 <=> S = {})
      /\ IsFiniteSet(R) /\ Cardinality(R) \in Nat
  <2>1. IsFiniteSet(R) /\ IsFiniteSet(S)
    BY FiniteAssumption, FS_Subset
  <2> QED BY <2>1, FS_CardinalityType, FS_EmptySet
<1>2. Cardinality(S \cup {c}) = Cardinality(S) + 1
  BY <1>1, FS_AddElement
<1>3. Cardinality(S) <= Cardinality(R)
  BY <1>1, FS_Subset
<1>4. Cardinality(Clients) = Cardinality(R) + 1 /\ Cardinality(Clients) \in Nat
  BY FiniteAssumption, FS_RemoveElement, FS_CardinalityType, <1>1
<1>5. CASE mine[c] = i /\ pc[c] # "hit"
  <2>1. Holders(i) = S \cup {c}
    BY <1>5 DEF Holders, OthersRest, AtRest
  <2> QED BY <2>1, <1>1, <1>2, <1>3, <1>4, <1>5 DEF Others, OneIf
<1>6. CASE ~(mine[c] = i /\ pc[c] # "hit")
  <2>1. Holders(i) = S
    BY <1>6 DEF Holders, OthersRest, AtRest
  <2> QED BY <2>1, <1>1, <1>3, <1>4, <1>6 DEF Others, OneIf
<1> QED BY <1>5, <1>6

\* What an exact count says.
LEMMA CountIs ==
    ASSUME NEW c, Ready(c), NEW i \in Chunks
    PROVE  /\ refcount[i] \in Nat /\ refcount[i] = Others(c, i) + Own(c, i)
           /\ Others(c, i) \in Nat /\ Own(c, i) \in 0 .. 3
           /\ Own(c, i) < 2 => (refcount[i] + 1) % RefModulo = refcount[i] + 1
           /\ i \in free <=> refcount[i] = 0
           /\ Others(c, i) = 0 => \A d \in Clients \ {c} : mine[d] # i
<1>1. /\ Cardinality(Holders(i)) = Others(c, i) + OneIf(mine[c] = i /\ pc[c] # "hit")
      /\ Others(c, i) \in Nat /\ Others(c, i) + 1 <= Cardinality(Clients)
      /\ Others(c, i) = 0 => \A d \in Clients \ {c} : mine[d] # i
  BY OthersSizesOK DEF OthersSizes, OthersSize, Ready
<1>2. Own(c, i) \in 0 .. 3
  BY DEF Own, OneIf
<1>3. /\ OneIf(mine[c] = i /\ pc[c] # "hit") \in Nat /\ OneIf(i \in LinkRefs) \in Nat
      /\ OneIf(i \in PullRefs) \in Nat
  BY DEF OneIf
<1>4. refcount[i] = Cardinality(Holders(i)) + OneIf(i \in LinkRefs) + OneIf(i \in PullRefs)
      /\ (i \in free <=> refcount[i] = 0)
  BY DEF Ready, OneInv, CountOK
<1>5. refcount[i] = Others(c, i) + Own(c, i)
  BY <1>1, <1>3, <1>4 DEF Own
<1>6. ASSUME Own(c, i) < 2 PROVE (refcount[i] + 1) % RefModulo = refcount[i] + 1
  <2>1. RefModulo \in Nat /\ Cardinality(Clients) \in Nat /\ Cardinality(Clients) + 1 < RefModulo
    BY NumbersAssumption, FiniteAssumption, FS_CardinalityType
  <2>2. refcount[i] \in Nat /\ refcount[i] + 1 < RefModulo
    BY <2>1, <1>1, <1>2, <1>5, <1>6
  <2> QED BY <2>1, <2>2
<1> QED BY <1>1, <1>2, <1>4, <1>5, <1>6

\* The counts stay exact if they change as c's references do.
LEMMA CountStep ==
    ASSUME NEW c, Ready(c),
           \A i \in Chunks : /\ refcount'[i] = refcount[i] + Own(c, i)' - Own(c, i)
                             /\ i \in free' <=> refcount'[i] = 0
    PROVE  CountOK'
<1> SUFFICES ASSUME NEW i \in Chunks
             PROVE  /\ refcount'[i] = Cardinality(Holders(i)') + OneIf(i \in LinkRefs') + OneIf(i \in PullRefs')
                    /\ i \in free' <=> refcount'[i] = 0
  BY DEF CountOK
<1>1. refcount[i] = Others(c, i) + Own(c, i) /\ Others(c, i) \in Nat /\ Own(c, i) \in Nat
  BY CountIs
<1>2. OthersSizes'
  BY OthersSizesOK, PTL
<1>3. Cardinality(Holders(i)') = Others(c, i)' + OneIf(mine'[c] = i /\ pc'[c] # "hit")
  BY <1>2 DEF OthersSizes, OthersSize, Ready
<1>4. Others(c, i)' = Others(c, i)
  <2>1. {d \in Clients \ {c} : mine'[d] = i} = {d \in Clients \ {c} : mine[d] = i}
    BY DEF Ready, Elsewhere
  <2> QED BY <2>1 DEF Others
<1>5. /\ OneIf(mine'[c] = i /\ pc'[c] # "hit") \in Nat /\ OneIf(i \in LinkRefs') \in Nat
      /\ OneIf(i \in PullRefs') \in Nat
  BY DEF OneIf
<1>6. Own(c, i)' = OneIf(mine'[c] = i /\ pc'[c] # "hit") + OneIf(i \in LinkRefs') + OneIf(i \in PullRefs')
  BY DEF Own
<1>7. refcount'[i] = Others(c, i) + Own(c, i)'
  BY <1>1, <1>5, <1>6
<1> QED BY <1>3, <1>4, <1>5, <1>6, <1>7, <1>1

-----------------------------------------------------------------------------
(* Lists of items.                                                         *)

Without(s, p) == [q \in 1 .. Len(s) - 1 |-> IF q < p THEN s[q] ELSE s[q + 1]]

LEMMA WithoutIs ==
    ASSUME NEW s \in Seq(Chunks), Once(s), NEW p \in 1 .. Len(s)
    PROVE  /\ Without(s, p) \in Seq(Chunks) /\ Once(Without(s, p))
           /\ Ran(Without(s, p)) = Ran(s) \ {s[p]}
           /\ Len(Without(s, p)) = Len(s) - 1
           /\ \A q \in 1 .. Len(s) - 1 : Without(s, p)[q] = IF q < p THEN s[q] ELSE s[q + 1]
<1> DEFINE w == Without(s, p)
<1>1. Len(s) - 1 \in Nat /\ \A q \in 1 .. Len(s) - 1 : q \in 1 .. Len(s) /\ q + 1 \in 1 .. Len(s)
  OBVIOUS
<1>2. w \in [1 .. Len(s) - 1 -> Chunks]
  BY <1>1 DEF Without
<1>3. w \in Seq(Chunks) /\ Len(w) = Len(s) - 1
  BY <1>1, <1>2
<1>4. \A q \in 1 .. Len(s) - 1 : w[q] = IF q < p THEN s[q] ELSE s[q + 1]
  BY DEF Without
<1> HIDE DEF w
<1>5. Once(w)
  <2> SUFFICES ASSUME NEW q \in 1 .. Len(s) - 1, NEW r \in 1 .. Len(s) - 1, w[q] = w[r] PROVE q = r
    BY <1>3 DEF Once
  <2> DEFINE a == IF q < p THEN q ELSE q + 1
             b == IF r < p THEN r ELSE r + 1
  <2>1. a \in 1 .. Len(s) /\ b \in 1 .. Len(s) /\ s[a] = s[b]
    BY <1>1, <1>4
  <2>2. a = b
    BY <2>1 DEF Once
  <2> QED BY <2>2
<1>6. Ran(w) = Ran(s) \ {s[p]}
  <2>1. ASSUME NEW x \in Ran(w) PROVE x \in Ran(s) \ {s[p]}
    <3>1. PICK q \in 1 .. Len(s) - 1 : x = w[q]
      BY <2>1, <1>3 DEF Ran
    <3> DEFINE a == IF q < p THEN q ELSE q + 1
    <3>2. a \in 1 .. Len(s) /\ x = s[a] /\ a # p
      BY <3>1, <1>1, <1>4
    <3> HIDE DEF a
    <3>3. s[a] # s[p]
      BY <3>2 DEF Once
    <3> QED BY <3>2, <3>3 DEF Ran
  <2>2. ASSUME NEW x \in Ran(s), x # s[p] PROVE x \in Ran(w)
    <3>1. PICK a \in 1 .. Len(s) : x = s[a]
      BY DEF Ran
    <3>2. a # p
      BY <3>1, <2>2
    <3> DEFINE q == IF a < p THEN a ELSE a - 1
    <3>3. q \in 1 .. Len(s) - 1 /\ w[q] = s[a]
      <4>1. CASE a < p
        BY <4>1, <1>4
      <4>2. CASE ~(a < p)
        <5>1. a - 1 \in 1 .. Len(s) - 1 /\ ~(a - 1 < p) /\ a - 1 + 1 = a
          BY <4>2, <3>2
        <5> QED BY <5>1, <4>2, <1>4
      <4> QED BY <4>1, <4>2
    <3> QED BY <3>1, <3>3, <1>3 DEF Ran
  <2> QED BY <2>1, <2>2
<1> QED BY <1>3, <1>4, <1>5, <1>6 DEF w

LEMMA WithIs ==
    ASSUME NEW s \in Seq(Chunks), Once(s), NEW i \in Chunks, i \notin Ran(s)
    PROVE  /\ <<i>> \o s \in Seq(Chunks) /\ Once(<<i>> \o s)
           /\ Ran(<<i>> \o s) = Ran(s) \cup {i}
           /\ Len(<<i>> \o s) = Len(s) + 1 /\ (<<i>> \o s)[1] = i
           /\ \A q \in 2 .. Len(s) + 1 : (<<i>> \o s)[q] = s[q - 1]
<1> DEFINE w == <<i>> \o s
<1>1. w \in Seq(Chunks) /\ Len(w) = Len(s) + 1 /\ w[1] = i
  OBVIOUS
<1>2. \A q \in 2 .. Len(s) + 1 : w[q] = s[q - 1] /\ q - 1 \in 1 .. Len(s)
  OBVIOUS
<1>3. \A q \in 1 .. Len(s) + 1 : q = 1 \/ q \in 2 .. Len(s) + 1
  OBVIOUS
<1>4. \A q \in 1 .. Len(s) : q + 1 \in 2 .. Len(s) + 1 /\ q + 1 - 1 = q /\ q + 1 \in 1 .. Len(s) + 1
  OBVIOUS
<1>5. 1 \in 1 .. Len(s) + 1
  OBVIOUS
<1> HIDE DEF w
<1>6. Once(w)
  <2> SUFFICES ASSUME NEW q \in 1 .. Len(s) + 1, NEW r \in 1 .. Len(s) + 1, w[q] = w[r] PROVE q = r
    BY <1>1 DEF Once
  <2>1. CASE q = 1 \/ r = 1
    BY <2>1, <1>1, <1>2, <1>3 DEF Ran
  <2>2. CASE q # 1 /\ r # 1
    <3>1. q - 1 \in 1 .. Len(s) /\ r - 1 \in 1 .. Len(s) /\ s[q - 1] = s[r - 1]
      BY <2>2, <1>2, <1>3
    <3>2. q - 1 = r - 1
      BY <3>1 DEF Once
    <3> QED BY <3>2
  <2> QED BY <2>1, <2>2
<1>7. Ran(w) = Ran(s) \cup {i}
  <2>1. ASSUME NEW x \in Ran(w) PROVE x \in Ran(s) \cup {i}
    <3>1. PICK q \in 1 .. Len(s) + 1 : x = w[q]
      BY <2>1, <1>1 DEF Ran
    <3> QED BY <3>1, <1>1, <1>2, <1>3 DEF Ran
  <2>2. i \in Ran(w)
    BY <1>1, <1>5 DEF Ran
  <2>3. ASSUME NEW x \in Ran(s) PROVE x \in Ran(w)
    <3>1. PICK q \in 1 .. Len(s) : x = s[q]
      BY DEF Ran
    <3>2. w[q + 1] = s[q]
      BY <1>2, <1>4
    <3> QED BY <3>1, <3>2, <1>1, <1>4 DEF Ran
  <2> QED BY <2>1, <2>2, <2>3
<1> QED BY <1>1, <1>2, <1>6, <1>7 DEF w

\* do_item_unlink_q takes out the item, once it is in the list.
LEMMA UnlinkIs ==
    ASSUME NEW i, lru \in Seq(Chunks), Once(lru)
    PROVE  /\ Once(do_item_unlink_q(i)) /\ Ran(do_item_unlink_q(i)) = Ran(lru) \ {i}
<1>1. CASE i \notin Ran(lru)
  BY <1>1 DEF do_item_unlink_q
<1>2. CASE i \in Ran(lru)
  <2>1. PICK p \in 1 .. Len(lru) : p = CHOOSE q \in 1 .. Len(lru) : lru[q] = i
    BY <1>2 DEF Ran
  <2>2. lru[p] = i
    BY <1>2, <2>1 DEF Ran
  <2>3. do_item_unlink_q(i) = Without(lru, p)
    BY <1>2, <2>1 DEF do_item_unlink_q, Without
  <2> QED BY <2>2, <2>3, WithoutIs
<1> QED BY <1>1, <1>2
-----------------------------------------------------------------------------
(* Hash chains.                                                            *)

\* A list without repetition has no more than all chunks.
LEMMA OnceShort ==
    ASSUME NEW s \in Seq(Chunks), Once(s)
    PROVE  Len(s) <= Cardinality(Chunks)
<1>1. s \in Injection(1 .. Len(s), Chunks)
  BY DEF Once, Injection, IsInjective
<1>2. IsFiniteSet(1 .. Len(s)) /\ Cardinality(1 .. Len(s)) = Len(s)
  <2>1. Len(s) \in Nat
    OBVIOUS
  <2>2. IsFiniteSet(1 .. Len(s)) /\ Cardinality(1 .. Len(s)) = IF 1 > Len(s) THEN 0 ELSE Len(s) - 1 + 1
    BY <2>1, FS_Interval
  <2> QED BY <2>1, <2>2
<1> QED BY <1>1, <1>2, FiniteAssumption, FS_Injection

\* The model's chain is the one the invariant speaks of.
LEMMA ChainIs ==
    ASSUME NEW k, NEW s \in Seq(Chunks), IsChain(s, BucketOf[k])
    PROVE  Chain(k) = s
<1> DEFINE first == head[BucketOf[k]]
           Into(t, p) == IF p = 1 THEN first ELSE h_next[t[p - 1]]
           c == Chain(k)
<1>0. None \notin Chunks /\ Len(s) \in Nat
  BY NullAssumption
<1>1. \A p \in 1 .. Len(s) + 1 : Into(s, p) = IF p <= Len(s) THEN s[p] ELSE None
  BY DEF IsChain
<1>2. s \in Paths(first)
  <2>1. \A p \in 1 .. Len(s) : p \in 1 .. Len(s) + 1 /\ p <= Len(s)
    OBVIOUS
  <2>2. \A p \in 1 .. Len(s) : s[p] = IF p = 1 THEN first ELSE h_next[s[p - 1]]
    BY <1>1, <2>1
  <2>3. Len(s) <= Cardinality(Chunks)
    BY OnceShort DEF IsChain
  <2> QED BY <2>2, <2>3, PathsAre
<1>3. c \in Paths(first) /\ Len(s) <= Len(c)
  BY <1>2, ChainTyped
<1>4. c \in Seq(Chunks) /\ \A p \in 1 .. Len(c) : c[p] = Into(c, p)
  BY <1>3, PathsAre
<1> HIDE DEF c, first
<1> DEFINE Bad == {p \in 1 .. Len(c) : ~(p <= Len(s) /\ c[p] = s[p])}
<1>5. Bad = {}
  <2> SUFFICES ASSUME Bad # {} PROVE FALSE
    OBVIOUS
  <2>1. Bad \subseteq Nat
    BY <1>4
  <2>2. PICK p \in Bad : \A q \in Bad : p <= q
    BY <2>1, LeastOf
  <2>3. p \in 1 .. Len(c) /\ Len(c) \in Nat /\ c[p] \in Chunks
    BY <2>2, <1>4, ElementOfSeq
  <2>4. CASE p = 1
    <3>1. c[p] = first
      BY <2>3, <2>4, <1>4
    <3>2. first = IF 1 <= Len(s) THEN s[1] ELSE None
      <4>1. 1 \in 1 .. Len(s) + 1
        BY <1>0
      <4> QED BY <4>1, <1>1
    <3> QED BY <3>1, <3>2, <2>2, <2>3, <2>4, <1>0
  <2>5. CASE p # 1
    <3>1. p - 1 \in 1 .. Len(c) /\ ~(p <= p - 1)
      BY <2>3, <2>5
    <3>2. p - 1 <= Len(s) /\ c[p - 1] = s[p - 1]
      BY <3>1, <2>2
    <3>3. p \in 1 .. Len(s) + 1
      BY <3>1, <3>2, <2>3, <1>0
    <3>4. c[p] = h_next[s[p - 1]]
      BY <2>3, <2>5, <1>4, <3>2
    <3>5. h_next[s[p - 1]] = IF p <= Len(s) THEN s[p] ELSE None
      BY <1>1, <3>3, <2>5
    <3> QED BY <3>4, <3>5, <2>2, <2>3, <1>0
  <2> QED BY <2>4, <2>5
<1>6. Len(c) = Len(s)
  <2>1. CASE Len(c) = 0
    BY <2>1, <1>3, <1>0
  <2>2. CASE Len(c) # 0
    <3>1. Len(c) \in 1 .. Len(c) /\ Len(c) \in Nat
      BY <2>2, <1>4
    <3>2. Len(c) <= Len(s)
      BY <3>1, <1>5
    <3> QED BY <3>1, <3>2, <1>3, <1>0
  <2> QED BY <2>1, <2>2
<1>7. c = s
  BY <1>4, <1>5, <1>6
<1> QED BY <1>7 DEF c

\* A lookup finds the item in a chain that has the key, if there is one.
LEMMA FindIs ==
    ASSUME TypeOK, KeysOK, ChainsOK, NEW k \in Keys
    PROVE  /\ \A i \in linked \ Unchained : key[i] = k =>
                 assoc_find(k) = i /\ Matches(k) # {} /\ Chain(k)[First(k)] = i
           /\ assoc_find(k) # None => assoc_find(k) \in linked \ Unchained /\ key[assoc_find(k)] = k
<1>0. None \notin Chunks /\ BucketOf[k] \in Buckets
  BY NullAssumption, MapsAssumption
<1>1. PICK s \in Seq(Chunks) : IsChain(s, BucketOf[k])
  BY <1>0 DEF ChainsOK
<1>2. Chain(k) = s
  BY <1>1, ChainIs
<1>3. Ran(s) = {i \in linked \ Unchained : BucketOf[key[i]] = BucketOf[k]}
  BY <1>1 DEF IsChain
<1>4. ASSUME Matches(k) # {}
      PROVE  s[First(k)] \in linked \ Unchained /\ key[s[First(k)]] = k
  <2>1. First(k) \in 1 .. Len(s) /\ key[s[First(k)]] = k
    BY <1>2, <1>4, FirstIs, MatchesAre
  <2> QED BY <2>1, <1>3 DEF Ran
<1>5. ASSUME NEW i \in linked \ Unchained, key[i] = k
      PROVE  assoc_find(k) = i /\ Matches(k) # {} /\ Chain(k)[First(k)] = i
  <2>1. PICK p \in 1 .. Len(s) : s[p] = i
    BY <1>3, <1>5 DEF Ran
  <2>2. Matches(k) # {}
    BY <2>1, <1>2, <1>5, MatchesAre
  <2>3. s[First(k)] = i
    BY <2>2, <1>4, <1>5 DEF KeysOK
  <2> QED BY <2>2, <2>3, <1>2 DEF assoc_find
<1> QED BY <1>2, <1>4, <1>5 DEF assoc_find

-----------------------------------------------------------------------------
(* What a step has to keep.                                                *)

\* Clients at rest know only what is in the item they hold.
LEMMA RestKeeps ==
    ASSUME NEW c, Ready(c),
           \A d \in Clients \ {c} : mine[d] # None => content'[mine[d]] = content[mine[d]]
    PROVE  Alone' /\ \A d \in Clients \ {c} : ClientOK(d)'
<1>1. Alone'
  BY DEF Ready, OthersRest, Alone
<1>2. ASSUME NEW d \in Clients \ {c} PROVE ClientOK(d)'
  <2>1. ClientOK(d) /\ pc[d] \in AtRest /\ pc'[d] = pc[d] /\ mine'[d] = mine[d] /\ want'[d] = want[d]
    BY DEF Ready, OneInv, OthersRest, Elsewhere
  <2> QED BY <2>1 DEF ClientOK, AtRest, CurSteps, EvictSteps
<1> QED BY <1>1, <1>2

LEMMA ChainsKeep ==
    ASSUME NEW c, Ready(c), head' = head, (linked \ Unchained)' = linked \ Unchained,
           \A i \in linked \ Unchained : h_next'[i] = h_next[i] /\ key'[i] = key[i]
    PROVE  ChainsOK'
<1> SUFFICES ASSUME NEW b \in Buckets PROVE \E s \in Seq(Chunks) : IsChain(s, b)'
  BY DEF ChainsOK
<1>1. PICK s \in Seq(Chunks) : IsChain(s, b)
  BY DEF Ready, OneInv, ChainsOK
<1>2. \A p \in 1 .. Len(s) : s[p] \in linked \ Unchained
  BY <1>1 DEF IsChain, Ran
<1>3. \A p \in 1 .. Len(s) + 1 :
         (IF p = 1 THEN head'[b] ELSE h_next'[s[p - 1]]) = (IF p <= Len(s) THEN s[p] ELSE None)
  <2> SUFFICES ASSUME NEW p \in 1 .. Len(s) + 1
               PROVE  (IF p = 1 THEN head'[b] ELSE h_next'[s[p - 1]]) = (IF p <= Len(s) THEN s[p] ELSE None)
    OBVIOUS
  <2>1. (IF p = 1 THEN head[b] ELSE h_next[s[p - 1]]) = (IF p <= Len(s) THEN s[p] ELSE None)
    BY <1>1 DEF IsChain
  <2>2. CASE p = 1
    BY <2>1, <2>2
  <2>3. CASE p # 1
    <3>1. p - 1 \in 1 .. Len(s)
      BY <2>3
    <3> QED BY <2>1, <2>3, <3>1, <1>2
  <2> QED BY <2>2, <2>3
<1>4. Ran(s) = {i \in (linked \ Unchained)' : BucketOf[key'[i]] = b}
  BY <1>1 DEF IsChain
<1>5. IsChain(s, b)'
  BY <1>1, <1>3, <1>4 DEF IsChain
<1> QED BY <1>5

LEMMA StepKeeps ==
    ASSUME NEW c, Ready(c), failed' = "", CountOK', ListOK', KeysOK', ChainsOK', ClientOK(c)',
           \A d \in Clients \ {c} : mine[d] # None => content'[mine[d]] = content[mine[d]]
    PROVE  OneInv'
BY RestKeeps DEF OneInv

LEMMA PlusMinus ==
    /\ \A x \in Nat, y \in 0 .. 3 : x = x + y - y
    /\ \A x \in Nat : x + 1 = x + 2 - 1
    /\ \A x \in Nat, y \in {1, 2} : x - 1 = x + (y - 1) - y
    /\ \A x \in Nat : x + 1 # 0 /\ (x - 1 = 0 <=> x = 1)
OBVIOUS

\* The counts stay exact if they change for one item as c's references do.
LEMMA CountMove ==
    ASSUME NEW c, Ready(c), NEW a \in Chunks,
           refcount'[a] = refcount[a] + Own(c, a)' - Own(c, a), a \in free' <=> refcount'[a] = 0,
           \A i \in Chunks \ {a} : /\ refcount'[i] = refcount[i] /\ Own(c, i)' = Own(c, i)
                                   /\ i \in free' <=> i \in free
    PROVE  CountOK'
<1>1. ASSUME NEW i \in Chunks
      PROVE  /\ refcount'[i] = refcount[i] + Own(c, i)' - Own(c, i)
             /\ i \in free' <=> refcount'[i] = 0
  <2>1. CASE i = a
    BY <2>1
  <2>2. CASE i # a
    <3>1. refcount[i] \in Nat /\ Own(c, i) \in 0 .. 3 /\ (i \in free <=> refcount[i] = 0)
      BY CountIs
    <3>2. refcount'[i] = refcount[i] /\ Own(c, i)' = Own(c, i) /\ (i \in free' <=> i \in free)
      BY <2>2
    <3>3. refcount'[i] = refcount[i] + Own(c, i)' - Own(c, i)
      BY <3>1, <3>2, PlusMinus, Zenon
    <3> QED BY <3>1, <3>2, <3>3
  <2> QED BY <2>1, <2>2
<1> QED BY <1>1, CountStep

LEMMA CountKeep ==
    ASSUME NEW c, Ready(c), refcount' = refcount, free' = free,
           \A i \in Chunks : Own(c, i)' = Own(c, i)
    PROVE  CountOK'
<1>1. ASSUME NEW i \in Chunks
      PROVE  /\ refcount'[i] = refcount[i] + Own(c, i)' - Own(c, i)
             /\ i \in free' <=> refcount'[i] = 0
  <2>1. refcount[i] \in Nat /\ Own(c, i) \in 0 .. 3 /\ (i \in free <=> refcount[i] = 0)
    BY CountIs
  <2>2. Own(c, i)' = Own(c, i)
    OBVIOUS
  <2>3. refcount'[i] = refcount[i] + Own(c, i)' - Own(c, i)
    BY <2>1, <2>2, PlusMinus, Zenon
  <2> QED BY <2>1, <2>3
<1> QED BY <1>1, CountStep

\* A step that moves no item and no reference.
LEMMA QuietKeeps ==
    ASSUME NEW c, Ready(c), ClientOK(c)', store' = store, failed' = "",
           \A i \in Chunks : Own(c, i)' = Own(c, i),
           Unlisted' = Unlisted, Unchained' = Unchained
    PROVE  OneInv'
<1>1. /\ free' = free /\ linked' = linked /\ head' = head /\ h_next' = h_next /\ lru' = lru
      /\ refcount' = refcount /\ key' = key /\ content' = content
  BY DEF store, chains
<1>2. CountOK'
  BY <1>1, CountKeep
<1>3. ListOK' /\ KeysOK'
  BY <1>1 DEF Ready, OneInv, ListOK, KeysOK
<1>4. ChainsOK'
  <2>1. (linked \ Unchained)' = linked \ Unchained
    BY <1>1
  <2> QED BY <2>1, <1>1, ChainsKeep
<1> QED BY <1>1, <1>2, <1>3, <1>4, StepKeeps
-----------------------------------------------------------------------------
(* Steps that change locals only.                                          *)


LEMMA ReadHitKeeps == ASSUME NEW c, Ready(c), NEW k \in Keys, ReadHit(c, k) PROVE OneInv'
<1> USE DEF At, Goto, Set, locks, local
<1>1. /\ store' = store /\ Unlisted' = Unlisted /\ Unchained' = Unchained
      /\ PullRefs' = PullRefs /\ LinkRefs' = LinkRefs
  BY DEF Ready, SetsAre, store, chains, TypeOK, ReadHit, LinkSteps, EvictSteps, PullSteps
<1>2. \A i \in Chunks : (mine'[c] = i /\ pc'[c] # "hit") <=> (mine[c] = i /\ pc[c] # "hit")
  <2>1. pc[c] = "idle" /\ pc'[c] = "hit"
    BY DEF Ready, TypeOK, ReadHit
  <2>2. mine[c] = None
    BY <2>1 DEF Ready, ClientOK
  <2> QED BY <2>1, <2>2, NullAssumption
<1>3. \A i \in Chunks : Own(c, i)' = Own(c, i)
  BY <1>1, <1>2 DEF Own
<1>4. failed' = "" /\ ClientOK(c)'
  <2>0. TypeOK /\ KeysOK /\ ChainsOK
    BY DEF Ready, OneInv
  <2>1. assoc_find(k) \in linked /\ key[assoc_find(k)] = k
    BY <2>0, FindIs DEF ReadHit
  <2>2. /\ pc'[c] = "hit" /\ mine'[c] = assoc_find(k) /\ want'[c] = k /\ tmp'[c] = refcount[assoc_find(k)]
        /\ linked' = linked /\ key' = key /\ refcount' = refcount /\ failed' = ""
    BY <2>0 DEF Ready, ReadHit, TypeOK, store
  <2> QED BY <2>1, <2>2 DEF ClientOK, CurSteps, EvictSteps
<1> QED BY <1>1, <1>3, <1>4, QuietKeeps

LEMMA ReadMissKeeps == ASSUME NEW c, Ready(c), NEW k \in Keys, NEW f \in BOOLEAN, ReadMiss(c, k, f) PROVE OneInv'
<1> USE DEF At, Goto, Set, locks, local
<1>1. /\ store' = store /\ Unlisted' = Unlisted /\ Unchained' = Unchained
      /\ PullRefs' = PullRefs /\ LinkRefs' = LinkRefs
  BY DEF Ready, SetsAre, store, chains, TypeOK, ReadMiss, LinkSteps, EvictSteps, PullSteps
<1>2. \A i \in Chunks : (mine'[c] = i /\ pc'[c] # "hit") <=> (mine[c] = i /\ pc[c] # "hit")
  BY NullAssumption DEF Ready, TypeOK, ClientOK, ReadMiss
<1>3. \A i \in Chunks : Own(c, i)' = Own(c, i)
  BY <1>1, <1>2 DEF Own
<1>4. failed' = "" /\ ClientOK(c)'
  <2>0. TypeOK /\ KeysOK /\ ChainsOK /\ ClientOK(c)
    BY DEF Ready, OneInv
  <2>1. pc[c] = "idle" /\ mine[c] = None /\ Unchained = {}
    BY <2>0 DEF ReadMiss, ClientOK, Ready, SetsAre
  <2>2. \A i \in linked : key[i] # k
    <3>1. \A i \in linked : i # None
      BY <2>0, NullAssumption DEF TypeOK
    <3> QED BY <2>0, <2>1, <3>1, FindIs DEF ReadMiss
  <2>3. /\ pc'[c] \in {"pull", "hold"} /\ mine'[c] = None /\ want'[c] = k
        /\ linked' = linked /\ key' = key /\ failed' = ""
    BY <2>0, <2>1 DEF Ready, ReadMiss, TypeOK, store
  <2> QED BY <2>2, <2>3 DEF ClientOK, CurSteps, EvictSteps
<1> QED BY <1>1, <1>3, <1>4, QuietKeeps

LEMMA PullBeginKeeps == ASSUME NEW c, Ready(c), PullBegin(c) PROVE OneInv'
<1> USE DEF At, Goto, Set, locks, local
<1>1. /\ store' = store /\ Unlisted' = Unlisted /\ Unchained' = Unchained
      /\ PullRefs' = PullRefs /\ LinkRefs' = LinkRefs
  BY DEF Ready, SetsAre, store, chains, TypeOK, PullBegin, LinkSteps, EvictSteps, PullSteps
<1>2. \A i \in Chunks : (mine'[c] = i /\ pc'[c] # "hit") <=> (mine[c] = i /\ pc[c] # "hit")
  BY NullAssumption DEF Ready, TypeOK, ClientOK, PullBegin
<1>3. \A i \in Chunks : Own(c, i)' = Own(c, i)
  BY <1>1, <1>2 DEF Own
<1>4. failed' = "" /\ ClientOK(c)'
  <2>1. /\ pc[c] = "pull" /\ pc'[c] \in {"walk"} /\ mine' = mine /\ want' = want
        /\ linked' = linked /\ key' = key /\ failed' = ""
    BY DEF Ready, TypeOK, store, chains, PullBegin
  <2>2. ClientOK(c)
    BY DEF Ready
  <2> QED BY <2>1, <2>2 DEF ClientOK, CurSteps, EvictSteps
<1> QED BY <1>1, <1>3, <1>4, QuietKeeps

LEMMA PullSkipKeeps == ASSUME NEW c, Ready(c), PullSkip(c) PROVE OneInv'
<1> USE DEF At, Goto, Set, locks, local
<1>1. /\ store' = store /\ Unlisted' = Unlisted /\ Unchained' = Unchained
      /\ PullRefs' = PullRefs /\ LinkRefs' = LinkRefs
  BY DEF Ready, SetsAre, store, chains, TypeOK, PullSkip, InReach, Free, LinkSteps, EvictSteps, PullSteps
<1>2. \A i \in Chunks : (mine'[c] = i /\ pc'[c] # "hit") <=> (mine[c] = i /\ pc[c] # "hit")
  BY NullAssumption DEF Ready, TypeOK, ClientOK, PullSkip, InReach, Free
<1>3. \A i \in Chunks : Own(c, i)' = Own(c, i)
  BY <1>1, <1>2 DEF Own
<1>4. failed' = "" /\ ClientOK(c)'
  <2>1. /\ pc[c] = "walk" /\ pc'[c] \in {"walk"} /\ mine' = mine /\ want' = want
        /\ linked' = linked /\ key' = key /\ failed' = ""
    BY DEF Ready, TypeOK, store, chains, PullSkip
  <2>2. ClientOK(c)
    BY DEF Ready
  <2> QED BY <2>1, <2>2 DEF ClientOK, CurSteps, EvictSteps
<1> QED BY <1>1, <1>3, <1>4, QuietKeeps

LEMMA PullTakeKeeps == ASSUME NEW c, Ready(c), PullTake(c) PROVE OneInv'
<1> USE DEF At, Goto, Set, locks, local
<1>1. /\ store' = store /\ Unlisted' = Unlisted /\ Unchained' = Unchained
      /\ PullRefs' = PullRefs /\ LinkRefs' = LinkRefs
  BY DEF Ready, SetsAre, store, chains, TypeOK, PullTake, Lock, Free, InReach, LinkSteps, EvictSteps, PullSteps
<1>2. \A i \in Chunks : (mine'[c] = i /\ pc'[c] # "hit") <=> (mine[c] = i /\ pc[c] # "hit")
  BY NullAssumption DEF Ready, TypeOK, ClientOK, PullTake, Lock, Free, InReach
<1>3. \A i \in Chunks : Own(c, i)' = Own(c, i)
  BY <1>1, <1>2 DEF Own
<1>4. failed' = "" /\ ClientOK(c)'
  <2>0. lru[pos[c]] \in linked
    <3>1. pos[c] \in Nat /\ pos[c] >= 1 /\ pos[c] <= Len(lru) /\ Len(lru) \in Nat
      <4>1. pos[c] \in Nat /\ Len(lru) \in Nat
        BY DEF Ready, TypeOK
      <4>2. pos[c] <= Len(lru)
        BY DEF Ready, PlaceOK, PullTake
      <4> QED BY <4>1, <4>2 DEF PullTake, InReach
    <3>2. Ran(lru) \subseteq linked
      BY DEF Ready, OneInv, ListOK
    <3> QED BY <3>1, <3>2 DEF Ran
  <2>1. /\ pc[c] = "walk" /\ pc'[c] \in {"pull_ref"} /\ mine' = mine /\ want' = want
        /\ linked' = linked /\ key' = key /\ failed' = "" /\ cur'[c] = lru[pos[c]]
        /\ refcount' = refcount /\ tmp'[c] = refcount[lru[pos[c]]]
    BY <2>0 DEF Ready, TypeOK, store, chains, PullTake
  <2>2. ClientOK(c)
    BY DEF Ready
  <2> QED BY <2>0, <2>1, <2>2 DEF ClientOK, CurSteps, EvictSteps
<1> QED BY <1>1, <1>3, <1>4, QuietKeeps

LEMMA EvictLoadKeeps == ASSUME NEW c, Ready(c), EvictLoad(c) PROVE OneInv'
<1> USE DEF At, Goto, Set, locks, local
<1>1. /\ store' = store /\ Unlisted' = Unlisted /\ Unchained' = Unchained
      /\ PullRefs' = PullRefs /\ LinkRefs' = LinkRefs
  BY DEF Ready, SetsAre, store, chains, TypeOK, EvictLoad, RemoveLoad, LinkSteps, EvictSteps, PullSteps
<1>2. \A i \in Chunks : (mine'[c] = i /\ pc'[c] # "hit") <=> (mine[c] = i /\ pc[c] # "hit")
  BY NullAssumption DEF Ready, TypeOK, ClientOK, EvictLoad, RemoveLoad
<1>3. \A i \in Chunks : Own(c, i)' = Own(c, i)
  BY <1>1, <1>2 DEF Own
<1>4. failed' = "" /\ ClientOK(c)'
  <2>0. cur[c] \in Chunks /\ cur[c] \notin free /\ refcount[cur[c]] # 0
    <3>1. cur[c] \in Chunks
      BY NullAssumption DEF Ready, TypeOK, PlaceOK, CurSteps, EvictLoad
    <3>a. cur[c] \in PullRefs
      BY DEF Ready, SetsAre, PullSteps, EvictSteps, EvictLoad
    <3>2. Own(c, cur[c]) # 0
      BY <3>a DEF Own, OneIf
    <3> QED BY <3>1, <3>2, CountIs
  <2>1. /\ pc[c] = "evict_load" /\ pc'[c] \in {"evict_store"} /\ mine' = mine /\ want' = want
        /\ linked' = linked /\ key' = key /\ failed' = "" /\ cur' = cur
        /\ refcount' = refcount /\ tmp'[c] = refcount[cur[c]]
    BY <2>0 DEF Ready, TypeOK, store, chains, EvictLoad, RemoveLoad
  <2>2. ClientOK(c)
    BY DEF Ready
  <2> QED BY <2>0, <2>1, <2>2 DEF ClientOK, CurSteps, EvictSteps
<1> QED BY <1>1, <1>3, <1>4, QuietKeeps

LEMMA PullLoadKeeps == ASSUME NEW c, Ready(c), PullLoad(c) PROVE OneInv'
<1> USE DEF At, Goto, Set, locks, local
<1>1. /\ store' = store /\ Unlisted' = Unlisted /\ Unchained' = Unchained
      /\ PullRefs' = PullRefs /\ LinkRefs' = LinkRefs
  BY DEF Ready, SetsAre, store, chains, TypeOK, PullLoad, RemoveLoad, LinkSteps, EvictSteps, PullSteps
<1>2. \A i \in Chunks : (mine'[c] = i /\ pc'[c] # "hit") <=> (mine[c] = i /\ pc[c] # "hit")
  BY NullAssumption DEF Ready, TypeOK, ClientOK, PullLoad, RemoveLoad
<1>3. \A i \in Chunks : Own(c, i)' = Own(c, i)
  BY <1>1, <1>2 DEF Own
<1>4. failed' = "" /\ ClientOK(c)'
  <2>0. cur[c] \in Chunks /\ cur[c] \notin free /\ refcount[cur[c]] # 0
    <3>1. cur[c] \in Chunks
      BY NullAssumption DEF Ready, TypeOK, PlaceOK, CurSteps, PullLoad
    <3>a. cur[c] \in PullRefs
      BY DEF Ready, SetsAre, PullSteps, EvictSteps, PullLoad
    <3>2. Own(c, cur[c]) # 0
      BY <3>a DEF Own, OneIf
    <3> QED BY <3>1, <3>2, CountIs
  <2>1. /\ pc[c] = "pull_load" /\ pc'[c] \in {"pull_store"} /\ mine' = mine /\ want' = want
        /\ linked' = linked /\ key' = key /\ failed' = "" /\ cur' = cur
        /\ refcount' = refcount /\ tmp'[c] = refcount[cur[c]]
    BY <2>0 DEF Ready, TypeOK, store, chains, PullLoad, RemoveLoad
  <2>2. ClientOK(c)
    BY DEF Ready
  <2> QED BY <2>0, <2>1, <2>2 DEF ClientOK, CurSteps, EvictSteps
<1> QED BY <1>1, <1>3, <1>4, QuietKeeps

LEMMA PullFailKeeps == ASSUME NEW c, Ready(c), PullFail(c) PROVE OneInv'
<1> USE DEF At, Goto, Set, locks, local
<1>1. /\ store' = store /\ Unlisted' = Unlisted /\ Unchained' = Unchained
      /\ PullRefs' = PullRefs /\ LinkRefs' = LinkRefs
  BY DEF Ready, SetsAre, store, chains, TypeOK, PullFail, InReach, LinkSteps, EvictSteps, PullSteps
<1>2. \A i \in Chunks : (mine'[c] = i /\ pc'[c] # "hit") <=> (mine[c] = i /\ pc[c] # "hit")
  BY NullAssumption DEF Ready, TypeOK, ClientOK, PullFail, InReach
<1>3. \A i \in Chunks : Own(c, i)' = Own(c, i)
  BY <1>1, <1>2 DEF Own
<1>4. failed' = "" /\ ClientOK(c)'
  <2>1. /\ pc[c] = "walk" /\ pc'[c] \in {"hold", "alloc"} /\ mine' = mine /\ want' = want
        /\ linked' = linked /\ key' = key /\ failed' = ""
    BY DEF Ready, TypeOK, store, chains, PullFail
  <2>2. ClientOK(c)
    BY DEF Ready
  <2> QED BY <2>1, <2>2 DEF ClientOK, CurSteps, EvictSteps
<1> QED BY <1>1, <1>3, <1>4, QuietKeeps

LEMMA SlabsEmptyKeeps == ASSUME NEW c, Ready(c), SlabsEmpty(c) PROVE OneInv'
<1> USE DEF At, Goto, Set, locks, local
<1>1. /\ store' = store /\ Unlisted' = Unlisted /\ Unchained' = Unchained
      /\ PullRefs' = PullRefs /\ LinkRefs' = LinkRefs
  BY DEF Ready, SetsAre, store, chains, TypeOK, SlabsEmpty, LinkSteps, EvictSteps, PullSteps
<1>2. \A i \in Chunks : (mine'[c] = i /\ pc'[c] # "hit") <=> (mine[c] = i /\ pc[c] # "hit")
  BY NullAssumption DEF Ready, TypeOK, ClientOK, SlabsEmpty
<1>3. \A i \in Chunks : Own(c, i)' = Own(c, i)
  BY <1>1, <1>2 DEF Own
<1>4. failed' = "" /\ ClientOK(c)'
  <2>1. /\ pc[c] = "alloc" /\ pc'[c] \in {"pull"} /\ mine' = mine /\ want' = want
        /\ linked' = linked /\ key' = key /\ failed' = ""
    BY DEF Ready, TypeOK, store, chains, SlabsEmpty
  <2>2. ClientOK(c)
    BY DEF Ready
  <2> QED BY <2>1, <2>2 DEF ClientOK, CurSteps, EvictSteps
<1> QED BY <1>1, <1>3, <1>4, QuietKeeps

LEMMA LinkLoadKeeps == ASSUME NEW c, Ready(c), LinkLoad(c) PROVE OneInv'
<1> USE DEF At, Goto, Set, locks, local
<1>1. /\ store' = store /\ Unlisted' = Unlisted /\ Unchained' = Unchained
      /\ PullRefs' = PullRefs /\ LinkRefs' = LinkRefs
  BY DEF Ready, SetsAre, store, chains, TypeOK, LinkLoad, LinkSteps, EvictSteps, PullSteps
<1>2. \A i \in Chunks : (mine'[c] = i /\ pc'[c] # "hit") <=> (mine[c] = i /\ pc[c] # "hit")
  BY NullAssumption DEF Ready, TypeOK, ClientOK, LinkLoad
<1>3. \A i \in Chunks : Own(c, i)' = Own(c, i)
  BY <1>1, <1>2 DEF Own
<1>4. failed' = "" /\ ClientOK(c)'
  <2>1. /\ pc[c] = "link_load" /\ pc'[c] \in {"link_store"} /\ mine' = mine /\ want' = want
        /\ linked' = linked /\ key' = key /\ failed' = ""
        /\ refcount' = refcount /\ tmp'[c] = refcount[mine[c]]
    BY DEF Ready, TypeOK, store, chains, LinkLoad
  <2>2. ClientOK(c)
    BY DEF Ready
  <2> QED BY <2>1, <2>2 DEF ClientOK, CurSteps, EvictSteps
<1> QED BY <1>1, <1>3, <1>4, QuietKeeps

LEMMA ReleaseLoadKeeps == ASSUME NEW c, Ready(c), ReleaseLoad(c) PROVE OneInv'
<1> USE DEF At, Goto, Set, locks, local
<1>1. /\ store' = store /\ Unlisted' = Unlisted /\ Unchained' = Unchained
      /\ PullRefs' = PullRefs /\ LinkRefs' = LinkRefs
  BY DEF Ready, SetsAre, store, chains, TypeOK, ReleaseLoad, RemoveLoad, LinkSteps, EvictSteps, PullSteps
<1>2. \A i \in Chunks : (mine'[c] = i /\ pc'[c] # "hit") <=> (mine[c] = i /\ pc[c] # "hit")
  BY NullAssumption DEF Ready, TypeOK, ClientOK, ReleaseLoad, RemoveLoad
<1>3. \A i \in Chunks : Own(c, i)' = Own(c, i)
  BY <1>1, <1>2 DEF Own
<1>4. failed' = "" /\ ClientOK(c)'
  <2>0. mine[c] \in Chunks /\ mine[c] \notin free /\ refcount[mine[c]] # 0
    <3>1. mine[c] \in Chunks
      BY NullAssumption DEF Ready, TypeOK, PlaceOK, MineSteps, ReleaseLoad
    <3>a. pc[c] # "hit"
      BY DEF ReleaseLoad
    <3>2. Own(c, mine[c]) # 0
      BY <3>a DEF Own, OneIf
    <3> QED BY <3>1, <3>2, CountIs
  <2>1. /\ pc[c] = "hold" /\ pc'[c] \in {"release_store"} /\ mine' = mine /\ want' = want
        /\ linked' = linked /\ key' = key /\ failed' = "" /\ cur' = cur
        /\ refcount' = refcount /\ tmp'[c] = refcount[mine[c]]
    BY <2>0 DEF Ready, TypeOK, store, chains, ReleaseLoad, RemoveLoad
  <2>2. ClientOK(c)
    BY DEF Ready
  <2> QED BY <2>0, <2>1, <2>2 DEF ClientOK, CurSteps, EvictSteps
<1> QED BY <1>1, <1>3, <1>4, QuietKeeps

LEMMA ReleaseHeapKeeps == ASSUME NEW c, Ready(c), ReleaseHeap(c) PROVE OneInv'
<1> USE DEF At, Goto, Set, locks, local
<1>1. /\ store' = store /\ Unlisted' = Unlisted /\ Unchained' = Unchained
      /\ PullRefs' = PullRefs /\ LinkRefs' = LinkRefs
  BY DEF Ready, SetsAre, store, chains, TypeOK, ReleaseHeap, LinkSteps, EvictSteps, PullSteps
<1>2. \A i \in Chunks : (mine'[c] = i /\ pc'[c] # "hit") <=> (mine[c] = i /\ pc[c] # "hit")
  BY NullAssumption DEF Ready, TypeOK, ClientOK, ReleaseHeap
<1>3. \A i \in Chunks : Own(c, i)' = Own(c, i)
  BY <1>1, <1>2 DEF Own
<1>4. failed' = "" /\ ClientOK(c)'
  <2>1. /\ pc[c] = "hold" /\ pc'[c] \in {"idle"} /\ mine' = mine
        /\ linked' = linked /\ key' = key /\ failed' = "" /\ mine[c] = None
    BY DEF Ready, TypeOK, store, chains, ReleaseHeap
  <2>2. ClientOK(c)
    BY DEF Ready
  <2> QED BY <2>1, <2>2 DEF ClientOK, CurSteps, EvictSteps
<1> QED BY <1>1, <1>3, <1>4, QuietKeeps

-----------------------------------------------------------------------------
(* Steps that move a reference.                                            *)

LEMMA HitIncrKeeps == ASSUME NEW c, Ready(c), HitIncr(c) PROVE OneInv'
<1> USE DEF At, Goto, Set, locks, local
<1>0. PICK a : a = mine[c]
  OBVIOUS
<1>1. /\ pc[c] = "hit" /\ pc'[c] = "bump_unlink" /\ mine' = mine /\ want' = want
      /\ a \in linked /\ a \in Chunks /\ key[a] = want[c] /\ tmp[c] = refcount[a]
      /\ linked' = linked /\ free' = free /\ lru' = lru /\ head' = head /\ h_next' = h_next
      /\ key' = key /\ content' = content /\ failed' = ""
      /\ refcount' = [refcount EXCEPT ![a] = (refcount[a] + 1) % RefModulo]
      /\ refcount \in [Chunks -> 0 .. RefModulo - 1]
  BY <1>0 DEF Ready, TypeOK, ClientOK, HitIncr, chains
<1>2. /\ LinkRefs = linked /\ LinkRefs' = linked /\ PullRefs = {} /\ PullRefs' = {}
      /\ Unlisted = {} /\ Unlisted' = {} /\ Unchained = {} /\ Unchained' = {}
  BY <1>1 DEF Ready, SetsAre, LinkSteps, EvictSteps, PullSteps
<1>3. Own(c, a) = 1 /\ Own(c, a)' = 2 /\ \A i \in Chunks \ {a} : Own(c, i)' = Own(c, i)
  <2>1. Own(c, a) = 1
    <3>1. /\ OneIf(mine[c] = a /\ pc[c] # "hit") = 0 /\ OneIf(a \in LinkRefs) = 1
          /\ OneIf(a \in PullRefs) = 0
      BY <1>0, <1>1, <1>2 DEF OneIf
    <3> QED BY <3>1 DEF Own
  <2>2. Own(c, a)' = 2
    <3>1. /\ OneIf(mine'[c] = a /\ pc'[c] # "hit") = 1 /\ OneIf(a \in LinkRefs') = 1
          /\ OneIf(a \in PullRefs') = 0
      BY <1>0, <1>1, <1>2 DEF OneIf
    <3> QED BY <3>1 DEF Own
  <2>3. \A i \in Chunks \ {a} : Own(c, i)' = Own(c, i)
    BY <1>0, <1>1, <1>2 DEF Own, OneIf
  <2> QED BY <2>1, <2>2, <2>3
<1>4. refcount[a] \in Nat /\ refcount[a] # 0 /\ a \notin free /\ (refcount[a] + 1) % RefModulo = refcount[a] + 1
  <2>1. /\ refcount[a] \in Nat /\ refcount[a] = Others(c, a) + Own(c, a) /\ Others(c, a) \in Nat
        /\ Own(c, a) < 2 => (refcount[a] + 1) % RefModulo = refcount[a] + 1
        /\ a \in free <=> refcount[a] = 0
    BY <1>1, CountIs
  <2> QED BY <2>1, <1>3
<1>5. CountOK'
  <2>1. refcount'[a] = refcount[a] + 1 /\ \A i \in Chunks \ {a} : refcount'[i] = refcount[i]
    BY <1>1, <1>4
  <2>2. refcount'[a] = refcount[a] + Own(c, a)' - Own(c, a)
    BY <2>1, <1>3, <1>4, PlusMinus, Zenon
  <2>3. a \in free' <=> refcount'[a] = 0
    BY <2>1, <1>1, <1>4, PlusMinus, Zenon
  <2> QED BY <2>1, <2>2, <2>3, <1>1, <1>3, CountMove, ZenonT(40)
<1>6. ListOK' /\ KeysOK'
  BY <1>1, <1>2 DEF Ready, OneInv, ListOK, KeysOK
<1>7. ChainsOK'
  BY <1>1, <1>2, ChainsKeep
<1>8. ClientOK(c)'
  BY <1>0, <1>1 DEF ClientOK, CurSteps, EvictSteps
<1> QED BY <1>1, <1>5, <1>6, <1>7, <1>8, StepKeeps

LEMMA LinkStoreKeeps == ASSUME NEW c, Ready(c), LinkStore(c) PROVE OneInv'
<1> USE DEF At, Goto, Set, locks, local
<1>0. PICK a : a = mine[c]
  OBVIOUS
<1>1. /\ pc[c] = "link_store" /\ pc'[c] = "hold" /\ mine' = mine /\ want' = want
      /\ a \in linked /\ a \in Chunks /\ key[a] = want[c] /\ tmp[c] = refcount[a]
      /\ linked' = linked /\ free' = free /\ lru' = lru /\ head' = head /\ h_next' = h_next
      /\ key' = key /\ content' = content /\ failed' = ""
      /\ refcount' = [refcount EXCEPT ![a] = (refcount[a] + 1) % RefModulo]
      /\ refcount \in [Chunks -> 0 .. RefModulo - 1]
  BY <1>0 DEF Ready, TypeOK, ClientOK, LinkStore, chains
<1>2. /\ LinkRefs = linked \ {a} /\ LinkRefs' = linked /\ PullRefs = {} /\ PullRefs' = {}
      /\ Unlisted = {} /\ Unlisted' = {} /\ Unchained = {} /\ Unchained' = {}
  BY <1>0, <1>1 DEF Ready, SetsAre, LinkSteps, EvictSteps, PullSteps
<1>3. Own(c, a) = 1 /\ Own(c, a)' = 2 /\ \A i \in Chunks \ {a} : Own(c, i)' = Own(c, i)
  <2>1. Own(c, a) = 1
    <3>1. /\ OneIf(mine[c] = a /\ pc[c] # "hit") = 1 /\ OneIf(a \in LinkRefs) = 0
          /\ OneIf(a \in PullRefs) = 0
      BY <1>0, <1>1, <1>2 DEF OneIf
    <3> QED BY <3>1 DEF Own
  <2>2. Own(c, a)' = 2
    <3>1. /\ OneIf(mine'[c] = a /\ pc'[c] # "hit") = 1 /\ OneIf(a \in LinkRefs') = 1
          /\ OneIf(a \in PullRefs') = 0
      BY <1>0, <1>1, <1>2 DEF OneIf
    <3> QED BY <3>1 DEF Own
  <2>3. \A i \in Chunks \ {a} : Own(c, i)' = Own(c, i)
    BY <1>0, <1>1, <1>2 DEF Own, OneIf
  <2> QED BY <2>1, <2>2, <2>3
<1>4. refcount[a] \in Nat /\ refcount[a] # 0 /\ a \notin free /\ (refcount[a] + 1) % RefModulo = refcount[a] + 1
  <2>1. /\ refcount[a] \in Nat /\ refcount[a] = Others(c, a) + Own(c, a) /\ Others(c, a) \in Nat
        /\ Own(c, a) < 2 => (refcount[a] + 1) % RefModulo = refcount[a] + 1
        /\ a \in free <=> refcount[a] = 0
    BY <1>1, CountIs
  <2> QED BY <2>1, <1>3
<1>5. CountOK'
  <2>1. refcount'[a] = refcount[a] + 1 /\ \A i \in Chunks \ {a} : refcount'[i] = refcount[i]
    BY <1>1, <1>4
  <2>2. refcount'[a] = refcount[a] + Own(c, a)' - Own(c, a)
    BY <2>1, <1>3, <1>4, PlusMinus, Zenon
  <2>3. a \in free' <=> refcount'[a] = 0
    BY <2>1, <1>1, <1>4, PlusMinus, Zenon
  <2> QED BY <2>1, <2>2, <2>3, <1>1, <1>3, CountMove, ZenonT(40)
<1>6. ListOK' /\ KeysOK'
  BY <1>1, <1>2 DEF Ready, OneInv, ListOK, KeysOK
<1>7. ChainsOK'
  BY <1>1, <1>2, ChainsKeep
<1>8. ClientOK(c)'
  <2>1. content[a] = want[c]
    BY <1>1 DEF Ready, OneInv, KeysOK
  <2> QED BY <2>1, <1>0, <1>1 DEF ClientOK, CurSteps, EvictSteps
<1> QED BY <1>1, <1>5, <1>6, <1>7, <1>8, StepKeeps

LEMMA EvictStoreKeeps == ASSUME NEW c, Ready(c), EvictStore(c) PROVE OneInv'
<1> USE DEF At, Goto, Set, locks, local
<1>0. PICK a : a = cur[c]
  OBVIOUS
<1>1. /\ pc[c] = "evict_store" /\ pc'[c] = "pull_load" /\ mine' = mine /\ want' = want /\ cur' = cur
      /\ mine[c] = None /\ a \notin linked /\ a \in Chunks /\ tmp[c] = refcount[a]
      /\ linked' = linked /\ lru' = lru /\ head' = head /\ h_next' = h_next
      /\ key' = key /\ content' = content
      /\ refcount \in [Chunks -> 0 .. RefModulo - 1]
  BY <1>0 DEF Ready, TypeOK, PlaceOK, ClientOK, CurSteps, EvictSteps, EvictStore, StoreDecr, chains
<1>2. /\ LinkRefs = linked \cup {a} /\ LinkRefs' = linked /\ PullRefs = {a} /\ PullRefs' = {a}
      /\ Unlisted = {} /\ Unlisted' = {} /\ Unchained = {} /\ Unchained' = {}
  BY <1>0, <1>1 DEF Ready, SetsAre, LinkSteps, EvictSteps, PullSteps
<1>3. Own(c, a) \in {1, 2} /\ Own(c, a) = 2 /\ Own(c, a)' = Own(c, a) - 1 /\ \A i \in Chunks \ {a} : Own(c, i)' = Own(c, i)
  BY <1>0, <1>1, <1>2, NullAssumption DEF Own, OneIf
<1>4. refcount[a] \in Nat /\ refcount[a] >= 2 /\ a \notin free
  BY <1>1, <1>3, CountIs
<1>5. /\ refcount' = [refcount EXCEPT ![a] = refcount[a] - 1] /\ free' = free /\ failed' = ""
  <2>1. tmp[c] # 1
    BY <1>1, <1>4
  <2> QED BY <2>1, <1>0, <1>1 DEF EvictStore, StoreDecr
<1>6. CountOK'
  <2>1. refcount'[a] = refcount[a] - 1 /\ \A i \in Chunks \ {a} : refcount'[i] = refcount[i]
    BY <1>1, <1>4, <1>5
  <2>2. refcount'[a] = refcount[a] + Own(c, a)' - Own(c, a)
    BY <2>1, <1>3, <1>4, PlusMinus, Zenon
  <2>3. a \in free' <=> refcount'[a] = 0
    <3>1. refcount[a] # 1
      BY <1>4
    <3> QED BY <3>1, <2>1, <1>4, <1>5, PlusMinus, Zenon
  <2> QED BY <2>1, <2>2, <2>3, <1>1, <1>3, <1>5, CountMove, ZenonT(40)
<1>7. ListOK' /\ KeysOK'
  BY <1>1, <1>2 DEF Ready, OneInv, ListOK, KeysOK
<1>8. ChainsOK'
  BY <1>1, <1>2, ChainsKeep
<1>9. ClientOK(c)'
  BY <1>0, <1>1 DEF Ready, ClientOK, CurSteps, EvictSteps
<1> QED BY <1>1, <1>5, <1>6, <1>7, <1>8, <1>9, StepKeeps

\* Whoever gives back the last reference finds the item nowhere.
LEMMA LastIs ==
    ASSUME NEW c, Ready(c), NEW a \in Chunks, LinkRefs = linked, refcount[a] = 1,
           (mine[c] = a /\ pc[c] # "hit") \/ a \in PullRefs
    PROVE  a \notin linked /\ a \notin Ran(lru)
<1>1. Own(c, a) <= 1
  BY CountIs
<1>2. a \notin LinkRefs
  BY <1>1 DEF Own, OneIf
<1> QED BY <1>2 DEF Ready, OneInv, ListOK

LEMMA PullStoreKeeps == ASSUME NEW c, Ready(c), PullStore(c) PROVE OneInv'
<1> USE DEF At, Goto, Set, locks, local
<1>0. PICK a : a = cur[c]
  OBVIOUS
<1>1. /\ pc[c] = "pull_store" /\ pc'[c] \in {"alloc", "pull", "hold"} /\ mine' = mine /\ want' = want
      /\ mine[c] = None /\ a \in Chunks /\ tmp[c] = refcount[a]
      /\ linked' = linked /\ lru' = lru /\ head' = head /\ h_next' = h_next
      /\ key' = key /\ content' = content
      /\ refcount \in [Chunks -> 0 .. RefModulo - 1]
  BY <1>0, ZenonT(60) DEF Ready, TypeOK, PlaceOK, ClientOK, CurSteps, PullStore, AfterPull, StoreDecr, chains
<1>2. /\ LinkRefs = linked /\ LinkRefs' = linked /\ PullRefs = {a} /\ PullRefs' = {}
      /\ Unlisted = {} /\ Unlisted' = {} /\ Unchained = {} /\ Unchained' = {}
  BY <1>0, <1>1 DEF Ready, SetsAre, LinkSteps, EvictSteps, PullSteps
<1>3. Own(c, a) \in {1, 2} /\ Own(c, a)' = Own(c, a) - 1 /\ \A i \in Chunks \ {a} : Own(c, i)' = Own(c, i)
  BY <1>0, <1>1, <1>2, NullAssumption DEF Own, OneIf
<1>4. refcount[a] \in Nat /\ refcount[a] >= 1 /\ a \notin free
  BY <1>1, <1>3, CountIs
<1>5. refcount[a] = 1 => a \notin linked /\ a \notin Ran(lru)
  BY <1>1, <1>2, LastIs
<1>6. /\ refcount' = [refcount EXCEPT ![a] = refcount[a] - 1]
      /\ free' = IF refcount[a] = 1 THEN free \cup {a} ELSE free
      /\ failed' = ""
  BY <1>0, <1>1, <1>5 DEF Ready, PullStore, StoreDecr, Ran
<1>7. CountOK'
  <2>1. refcount'[a] = refcount[a] - 1 /\ \A i \in Chunks \ {a} : refcount'[i] = refcount[i]
    BY <1>1, <1>4, <1>6
  <2>2. refcount'[a] = refcount[a] + Own(c, a)' - Own(c, a)
    BY <2>1, <1>3, <1>4, PlusMinus, Zenon
  <2>4. a \in free' <=> refcount'[a] = 0
    <3>1. a \in free' <=> refcount[a] = 1
      BY <1>4, <1>6
    <3> QED BY <3>1, <2>1, <1>4, PlusMinus, Zenon
  <2>3. \A i \in Chunks \ {a} : i \in free' <=> i \in free
    BY <1>6
  <2> QED BY <2>1, <2>2, <2>3, <2>4, <1>1, <1>3, CountMove
<1>8. ListOK' /\ KeysOK'
  BY <1>1, <1>2 DEF Ready, OneInv, ListOK, KeysOK
<1>9. ChainsOK'
  BY <1>1, <1>2, ChainsKeep
<1>10. ClientOK(c)'
  BY <1>0, <1>1 DEF Ready, ClientOK, CurSteps, EvictSteps
<1> QED BY <1>1, <1>6, <1>7, <1>8, <1>9, <1>10, StepKeeps

LEMMA ReleaseStoreKeeps == ASSUME NEW c, Ready(c), ReleaseStore(c) PROVE OneInv'
<1> USE DEF At, Goto, Set, locks, local
<1>0. PICK a : a = mine[c]
  OBVIOUS
<1>1. /\ pc[c] = "release_store" /\ pc'[c] = "idle" /\ mine'[c] = None
      /\ a \in Chunks /\ tmp[c] = refcount[a]
      /\ linked' = linked /\ lru' = lru /\ head' = head /\ h_next' = h_next
      /\ key' = key /\ content' = content
      /\ refcount \in [Chunks -> 0 .. RefModulo - 1]
  BY <1>0 DEF Ready, TypeOK, PlaceOK, ClientOK, MineSteps, ReleaseStore, StoreDecr, chains
<1>2. /\ LinkRefs = linked /\ LinkRefs' = linked /\ PullRefs = {} /\ PullRefs' = {}
      /\ Unlisted = {} /\ Unlisted' = {} /\ Unchained = {} /\ Unchained' = {}
  BY <1>0, <1>1 DEF Ready, SetsAre, LinkSteps, EvictSteps, PullSteps
<1>3. Own(c, a) \in {1, 2} /\ Own(c, a)' = Own(c, a) - 1 /\ \A i \in Chunks \ {a} : Own(c, i)' = Own(c, i)
  BY <1>0, <1>1, <1>2, NullAssumption DEF Own, OneIf
<1>4. refcount[a] \in Nat /\ refcount[a] >= 1 /\ a \notin free
  BY <1>1, <1>3, CountIs
<1>5. refcount[a] = 1 => a \notin linked /\ a \notin Ran(lru)
  BY <1>0, <1>1, <1>2, LastIs
<1>6. /\ refcount' = [refcount EXCEPT ![a] = refcount[a] - 1]
      /\ free' = IF refcount[a] = 1 THEN free \cup {a} ELSE free
      /\ failed' = ""
  BY <1>0, <1>1, <1>5 DEF Ready, ReleaseStore, StoreDecr, Ran
<1>7. CountOK'
  <2>1. refcount'[a] = refcount[a] - 1 /\ \A i \in Chunks \ {a} : refcount'[i] = refcount[i]
    BY <1>1, <1>4, <1>6
  <2>2. refcount'[a] = refcount[a] + Own(c, a)' - Own(c, a)
    BY <2>1, <1>3, <1>4, PlusMinus, Zenon
  <2>4. a \in free' <=> refcount'[a] = 0
    <3>1. a \in free' <=> refcount[a] = 1
      BY <1>4, <1>6
    <3> QED BY <3>1, <2>1, <1>4, PlusMinus, Zenon
  <2>3. \A i \in Chunks \ {a} : i \in free' <=> i \in free
    BY <1>6
  <2> QED BY <2>1, <2>2, <2>3, <2>4, <1>1, <1>3, CountMove
<1>8. ListOK' /\ KeysOK'
  BY <1>1, <1>2 DEF Ready, OneInv, ListOK, KeysOK
<1>9. ChainsOK'
  BY <1>1, <1>2, ChainsKeep
<1>10. ClientOK(c)'
  BY <1>1 DEF ClientOK, CurSteps, EvictSteps
<1> QED BY <1>1, <1>6, <1>7, <1>8, <1>9, <1>10, StepKeeps

-----------------------------------------------------------------------------
(* Steps that move an item.                                                *)

LEMMA BumpUnlinkKeeps == ASSUME NEW c, Ready(c), BumpUnlink(c) PROVE OneInv'
<1> USE DEF At, Goto, Set, locks, local
<1>0. PICK a : a = mine[c]
  OBVIOUS
<1>1. /\ pc[c] = "bump_unlink" /\ a \in linked /\ a \in Chunks /\ key[a] = want[c]
  BY <1>0 DEF Ready, TypeOK, ClientOK, BumpUnlink
<1>2. /\ pc'[c] = "bump_link" /\ mine' = mine /\ want' = want
      /\ linked' = linked /\ free' = free /\ head' = head /\ h_next' = h_next
      /\ key' = key /\ content' = content /\ refcount' = refcount
      /\ lru' = do_item_unlink_q(a)
  BY <1>0, <1>1 DEF Ready, TypeOK, BumpUnlink, chains
<1>3. /\ LinkRefs = linked /\ LinkRefs' = linked /\ PullRefs = {} /\ PullRefs' = {}
      /\ Unlisted = {} /\ Unlisted' = {a} /\ Unchained = {} /\ Unchained' = {}
  BY <1>0, <1>1, <1>2 DEF Ready, SetsAre, LinkSteps, EvictSteps, PullSteps
<1>4. \A i \in Chunks : Own(c, i)' = Own(c, i)
  BY <1>1, <1>2, <1>3 DEF Own
<1>5. failed' = ""
  <2>1. Own(c, a) # 0
    BY <1>0, <1>1 DEF Own, OneIf
  <2>2. a \notin free
    BY <2>1, <1>1, CountIs
  <2> QED BY <2>2, <1>0 DEF Ready, BumpUnlink, Elsewhere
<1>6. CountOK'
  BY <1>2, <1>4, CountKeep
<1>7. ListOK'
  <2>1. lru \in Seq(Chunks) /\ Once(lru) /\ Ran(lru) = linked
    BY <1>3 DEF Ready, TypeOK, OneInv, ListOK
  <2>2. Once(lru') /\ Ran(lru') = linked \ {a}
    BY <2>1, <1>2, UnlinkIs
  <2> QED BY <2>2, <1>2, <1>3 DEF ListOK
<1>8. KeysOK'
  BY <1>2 DEF Ready, OneInv, KeysOK
<1>9. ChainsOK'
  BY <1>2, <1>3, ChainsKeep
<1>10. ClientOK(c)'
  BY <1>0, <1>1, <1>2 DEF ClientOK, CurSteps, EvictSteps
<1> QED BY <1>2, <1>5, <1>6, <1>7, <1>8, <1>9, <1>10, StepKeeps

\* do_item_link_q is given an item in use that is not in the list.
LEMMA LinkIs ==
    ASSUME NEW c, Ready(c), NEW a \in linked, Unlisted = {a}, Unlisted' = {}, linked' = linked,
           do_item_link_q(a), Own(c, a) # 0
    PROVE  ListOK' /\ failed' = ""
<1>1. lru \in Seq(Chunks) /\ Once(lru) /\ Ran(lru) = linked \ {a} /\ a \in Chunks /\ failed = ""
  BY DEF Ready, TypeOK, OneInv, ListOK
<1>2. a \notin free /\ a \notin Ran(lru)
  <2>1. /\ refcount[a] = Others(c, a) + Own(c, a) /\ Others(c, a) \in Nat /\ Own(c, a) \in 0 .. 3
        /\ a \in free <=> refcount[a] = 0
    BY <1>1, CountIs
  <2>2. refcount[a] # 0
    BY <2>1
  <2> QED BY <2>1, <2>2, <1>1
<1>3. lru' = <<a>> \o lru /\ failed' = ""
  BY <1>1, <1>2 DEF do_item_link_q
<1>4. Once(lru') /\ Ran(lru') = linked
  <2>1. Once(<<a>> \o lru) /\ Ran(<<a>> \o lru) = Ran(lru) \cup {a}
    BY <1>1, <1>2, WithIs
  <2>2. Ran(lru) \cup {a} = linked
    BY <1>1
  <2> QED BY <2>1, <2>2, <1>3
<1> QED BY <1>3, <1>4 DEF ListOK

LEMMA BumpLinkKeeps == ASSUME NEW c, Ready(c), BumpLink(c) PROVE OneInv'
<1> USE DEF At, Goto, Set, locks, local
<1>0. PICK a : a = mine[c]
  OBVIOUS
<1>1. /\ pc[c] = "bump_link" /\ a \in linked /\ a \in Chunks /\ key[a] = want[c]
  BY <1>0 DEF Ready, TypeOK, ClientOK, BumpLink
<1>2. /\ pc'[c] = "hold" /\ mine' = mine /\ want' = want
      /\ linked' = linked /\ free' = free /\ head' = head /\ h_next' = h_next
      /\ key' = key /\ content' = content /\ refcount' = refcount
      /\ do_item_link_q(a)
  BY <1>0, <1>1 DEF Ready, TypeOK, BumpLink, chains
<1>3. /\ LinkRefs = linked /\ LinkRefs' = linked /\ PullRefs = {} /\ PullRefs' = {}
      /\ Unlisted = {a} /\ Unlisted' = {} /\ Unchained = {} /\ Unchained' = {}
  BY <1>0, <1>1, <1>2 DEF Ready, SetsAre, LinkSteps, EvictSteps, PullSteps
<1>4. \A i \in Chunks : Own(c, i)' = Own(c, i)
  BY <1>1, <1>2, <1>3 DEF Own
<1>5. ListOK' /\ failed' = ""
  <2>1. Own(c, a) # 0
    BY <1>0, <1>1 DEF Own, OneIf
  <2> QED BY <2>1, <1>1, <1>2, <1>3, LinkIs
<1>6. CountOK'
  BY <1>2, <1>4, CountKeep
<1>7. KeysOK'
  BY <1>2 DEF Ready, OneInv, KeysOK
<1>8. ChainsOK'
  BY <1>2, <1>3, ChainsKeep
<1>9. ClientOK(c)'
  <2>1. content[a] = want[c]
    BY <1>1 DEF Ready, OneInv, KeysOK
  <2> QED BY <2>1, <1>0, <1>1, <1>2 DEF ClientOK, CurSteps, EvictSteps
<1> QED BY <1>2, <1>5, <1>6, <1>7, <1>8, <1>9, StepKeeps

LEMMA LinkQKeeps == ASSUME NEW c, Ready(c), LinkQ(c) PROVE OneInv'
<1> USE DEF At, Goto, Set, locks, local
<1>0. PICK a : a = mine[c]
  OBVIOUS
<1>1. /\ pc[c] = "link_q" /\ a \in linked /\ a \in Chunks /\ key[a] = want[c]
  BY <1>0 DEF Ready, TypeOK, ClientOK, LinkQ
<1>2. /\ pc'[c] = "link_load" /\ mine' = mine /\ want' = want
      /\ linked' = linked /\ free' = free /\ head' = head /\ h_next' = h_next
      /\ key' = key /\ content' = content /\ refcount' = refcount
      /\ do_item_link_q(a)
  BY <1>0, <1>1 DEF Ready, TypeOK, LinkQ, chains
<1>3. /\ LinkRefs = linked \ {a} /\ LinkRefs' = linked \ {a} /\ PullRefs = {} /\ PullRefs' = {}
      /\ Unlisted = {a} /\ Unlisted' = {} /\ Unchained = {} /\ Unchained' = {}
  BY <1>0, <1>1, <1>2 DEF Ready, SetsAre, LinkSteps, EvictSteps, PullSteps
<1>4. \A i \in Chunks : Own(c, i)' = Own(c, i)
  BY <1>1, <1>2, <1>3 DEF Own
<1>5. ListOK' /\ failed' = ""
  <2>1. Own(c, a) # 0
    BY <1>0, <1>1 DEF Own, OneIf
  <2> QED BY <2>1, <1>1, <1>2, <1>3, LinkIs
<1>6. CountOK'
  BY <1>2, <1>4, CountKeep
<1>7. KeysOK'
  BY <1>2 DEF Ready, OneInv, KeysOK
<1>8. ChainsOK'
  BY <1>2, <1>3, ChainsKeep
<1>9. ClientOK(c)'
  BY <1>0, <1>1, <1>2 DEF ClientOK, CurSteps, EvictSteps
<1> QED BY <1>2, <1>5, <1>6, <1>7, <1>8, <1>9, StepKeeps

LEMMA FillKeeps == ASSUME NEW c, Ready(c), Fill(c) PROVE OneInv'
<1> USE DEF At, Goto, Set, locks, local
<1>0. PICK a : a = mine[c]
  OBVIOUS
<1>1. /\ pc[c] = "fill" /\ a \notin linked /\ a \in Chunks /\ key[a] = want[c]
      /\ \A d \in Clients : mine[d] = a => d = c
      /\ \A i \in linked : key[i] # want[c]
  BY <1>0 DEF Ready, TypeOK, PlaceOK, MineSteps, ClientOK, Fill
<1>2. /\ pc'[c] = "insert_load" /\ mine' = mine /\ want' = want
      /\ linked' = linked /\ free' = free /\ head' = head /\ h_next' = h_next
      /\ key' = key /\ refcount' = refcount /\ lru' = lru /\ failed' = ""
      /\ content' = [content EXCEPT ![a] = want[c]] /\ content \in [Chunks -> Keys \cup {None}]
  BY <1>0, <1>1 DEF Ready, TypeOK, Fill, chains
<1>3. /\ LinkRefs = linked /\ LinkRefs' = linked /\ PullRefs = {} /\ PullRefs' = {}
      /\ Unlisted = {} /\ Unlisted' = {} /\ Unchained = {} /\ Unchained' = {}
  BY <1>0, <1>1, <1>2 DEF Ready, SetsAre, LinkSteps, EvictSteps, PullSteps
<1>4. \A i \in Chunks : Own(c, i)' = Own(c, i)
  BY <1>1, <1>2, <1>3 DEF Own
<1>5. CountOK'
  BY <1>2, <1>4, CountKeep
<1>6. \A i \in Chunks \ {a} : content'[i] = content[i]
  BY <1>2
<1>7. ListOK' /\ KeysOK'
  BY <1>1, <1>2, <1>3, <1>6, ZenonT(40) DEF Ready, TypeOK, OneInv, ListOK, KeysOK
<1>8. ChainsOK'
  BY <1>2, <1>3, ChainsKeep
<1>9. \A d \in Clients \ {c} : mine[d] # None => content'[mine[d]] = content[mine[d]]
  BY <1>1, <1>6 DEF Ready, TypeOK
<1>10. ClientOK(c)'
  <2>1. content'[a] = want[c]
    BY <1>1, <1>2
  <2> QED BY <2>1, <1>0, <1>1, <1>2 DEF ClientOK, CurSteps, EvictSteps
<1> QED BY <1>2, <1>5, <1>7, <1>8, <1>9, <1>10, StepKeeps

LEMMA SlabsAllocKeeps == ASSUME NEW c, Ready(c), SlabsAlloc(c) PROVE OneInv'
<1> USE DEF At, Goto, Set, locks, local
<1>0. PICK a \in free : /\ free' = free \ {a} /\ refcount' = [refcount EXCEPT ![a] = 1]
                        /\ key' = [key EXCEPT ![a] = want[c]] /\ h_next' = [h_next EXCEPT ![a] = None]
                        /\ mine' = [mine EXCEPT ![c] = a]
  BY DEF SlabsAlloc
<1>1. /\ pc[c] = "alloc" /\ mine[c] = None /\ a \in Chunks
      /\ \A i \in linked : key[i] # want[c]
      /\ linked \subseteq Chunks
  BY <1>0 DEF Ready, TypeOK, ClientOK, SlabsAlloc
<1>2. /\ pc'[c] = "fill" /\ mine'[c] = a /\ want' = want
      /\ linked' = linked /\ head' = head /\ lru' = lru /\ content' = content /\ failed' = ""
      /\ refcount'[a] = 1 /\ key'[a] = want[c]
      /\ \A i \in Chunks \ {a} : refcount'[i] = refcount[i] /\ key'[i] = key[i] /\ h_next'[i] = h_next[i]
      /\ \A d \in Clients \ {c} : mine'[d] = mine[d]
  BY <1>0, <1>1, ZenonT(60) DEF Ready, TypeOK, SlabsAlloc
<1>3. /\ LinkRefs = linked /\ LinkRefs' = linked /\ PullRefs = {} /\ PullRefs' = {}
      /\ Unlisted = {} /\ Unlisted' = {} /\ Unchained = {} /\ Unchained' = {}
  BY <1>1, <1>2 DEF Ready, SetsAre, LinkSteps, EvictSteps, PullSteps
<1>4. /\ refcount[a] = 0 /\ Own(c, a) = 0 /\ \A d \in Clients \ {c} : mine[d] # a
  <2>1. /\ refcount[a] = Others(c, a) + Own(c, a) /\ Others(c, a) \in Nat /\ Own(c, a) \in 0 .. 3
        /\ a \in free <=> refcount[a] = 0
        /\ Others(c, a) = 0 => \A d \in Clients \ {c} : mine[d] # a
    BY <1>1, CountIs
  <2>2. Others(c, a) = 0 /\ Own(c, a) = 0
    BY <2>1, <1>0
  <2> QED BY <2>1, <2>2
<1>5. a \notin linked
  BY <1>3, <1>4 DEF Own, OneIf
<1>6. Own(c, a)' = 1 /\ \A i \in Chunks \ {a} : Own(c, i)' = Own(c, i)
  <2>1. Own(c, a)' = 1
    <3>1. /\ OneIf(mine'[c] = a /\ pc'[c] # "hit") = 1 /\ OneIf(a \in LinkRefs') = 0
          /\ OneIf(a \in PullRefs') = 0
      BY <1>2, <1>3, <1>5 DEF OneIf
    <3> QED BY <3>1 DEF Own
  <2>2. \A i \in Chunks \ {a} : (mine'[c] = i /\ pc'[c] # "hit") <=> (mine[c] = i /\ pc[c] # "hit")
    BY <1>1, <1>2, NullAssumption
  <2> QED BY <2>1, <2>2, <1>3 DEF Own
<1>7. CountOK'
  <2>1. 1 = 0 + 1 - 0 /\ 1 # 0
    OBVIOUS
  <2>2. refcount'[a] = refcount[a] + Own(c, a)' - Own(c, a)
    BY <2>1, <1>2, <1>4, <1>6, Zenon
  <2>3. a \in free' <=> refcount'[a] = 0
    BY <2>1, <1>0, <1>2
  <2>4. \A i \in Chunks \ {a} : /\ refcount'[i] = refcount[i] /\ Own(c, i)' = Own(c, i)
                                /\ i \in free' <=> i \in free
    BY <1>0, <1>2, <1>6
  <2> QED BY <2>2, <2>3, <2>4, <1>1, CountMove
<1>8. \A i \in linked : i \in Chunks \ {a}
  BY <1>1, <1>5
<1>9. ListOK' /\ KeysOK'
  <2>1. \A i \in linked : key'[i] = key[i]
    BY <1>2, <1>8
  <2>2. ListOK /\ KeysOK
    BY DEF Ready, OneInv
  <2>3. ListOK'
    BY <2>2, <1>2, <1>3 DEF ListOK
  <2>4. \A i \in linked : key'[i] \in Keys /\ content[i] = key'[i]
    BY <2>1, <2>2 DEF KeysOK
  <2>5. \A i, j \in linked : key'[i] = key'[j] => i = j
    BY <2>1, <2>2 DEF KeysOK
  <2> QED BY <2>3, <2>4, <2>5, <1>2 DEF KeysOK
<1>10. ChainsOK'
  <2>1. \A i \in linked \ Unchained : h_next'[i] = h_next[i] /\ key'[i] = key[i]
    BY <1>2, <1>8
  <2>2. (linked \ Unchained)' = linked \ Unchained
    BY <1>2, <1>3
  <2> QED BY <2>1, <2>2, <1>2, ChainsKeep
<1>11. ClientOK(c)'
  <2>1. \A d \in Clients : mine'[d] = a => d = c
    BY <1>2, <1>4
  <2>2. \A i \in linked : key'[i] # want[c]
    BY <1>1, <1>2, <1>8
  <2> QED BY <2>1, <2>2, <1>2, <1>5 DEF ClientOK, CurSteps, EvictSteps
<1> QED BY <1>2, <1>7, <1>9, <1>10, <1>11, StepKeeps

LEMMA InsertLoadKeeps == ASSUME NEW c, Ready(c), InsertLoad(c) PROVE OneInv'
<1> USE DEF At, Goto, Set, locks, local
<1>0. PICK a : a = mine[c]
  OBVIOUS
<1>1. /\ pc[c] = "insert_load" /\ a \notin linked /\ a \in Chunks /\ key[a] = want[c]
      /\ \A i \in linked : key[i] # want[c]
      /\ want[c] \in Keys /\ content[a] = want[c] /\ linked \subseteq Chunks
  BY <1>0, NullAssumption DEF Ready, TypeOK, PlaceOK, MineSteps, ClientOK, InsertLoad
<1>2. /\ pc'[c] = "insert_store" /\ mine' = mine /\ want' = want
      /\ linked' = linked \cup {a} /\ free' = free /\ head' = head
      /\ h_next'[a] = head[BucketOf[want[c]]]
      /\ \A i \in Chunks \ {a} : h_next'[i] = h_next[i]
      /\ key' = key /\ refcount' = refcount /\ lru' = lru /\ failed' = "" /\ content' = content
  BY <1>0, <1>1 DEF Ready, TypeOK, InsertLoad
<1>3. /\ LinkRefs = linked /\ LinkRefs' = linked /\ PullRefs = {} /\ PullRefs' = {}
      /\ Unlisted = {} /\ Unlisted' = {a} /\ Unchained = {} /\ Unchained' = {a}
  BY <1>0, <1>1, <1>2 DEF Ready, SetsAre, LinkSteps, EvictSteps, PullSteps
<1>4. \A i \in Chunks : Own(c, i)' = Own(c, i)
  BY <1>1, <1>2, <1>3 DEF Own
<1>5. CountOK'
  BY <1>2, <1>4, CountKeep
<1>6. ListOK' /\ KeysOK'
  <2>1. ListOK /\ KeysOK
    BY DEF Ready, OneInv
  <2>2. linked' \ Unlisted' = linked \ Unlisted
    BY <1>1, <1>2, <1>3
  <2>3. ListOK'
    BY <2>1, <2>2, <1>2 DEF ListOK
  <2>4. \A i \in linked : key[i] # key[a] /\ key[a] # key[i]
    BY <1>1
  <2>5. \A i \in linked' : key[i] \in Keys /\ content[i] = key[i]
    BY <2>1, <1>1, <1>2 DEF KeysOK
  <2>6. \A i, j \in linked' : key[i] = key[j] => i = j
    BY <2>1, <2>4, <1>2 DEF KeysOK
  <2> QED BY <2>3, <2>5, <2>6, <1>2 DEF KeysOK
<1>7. ChainsOK'
  <2>1. (linked \ Unchained)' = linked \ Unchained
    BY <1>1, <1>2, <1>3
  <2>2. \A i \in linked \ Unchained : h_next'[i] = h_next[i] /\ key'[i] = key[i]
    BY <1>1, <1>2
  <2> QED BY <2>1, <2>2, <1>2, ChainsKeep
<1>8. ClientOK(c)'
  BY <1>0, <1>1, <1>2 DEF ClientOK, CurSteps, EvictSteps
<1> QED BY <1>2, <1>5, <1>6, <1>7, <1>8, StepKeeps

LEMMA InsertStoreKeeps == ASSUME NEW c, Ready(c), InsertStore(c) PROVE OneInv'
<1> USE DEF At, Goto, Set, locks, local
<1>0. PICK a : a = mine[c]
  OBVIOUS
<1>1. /\ pc[c] = "insert_store" /\ a \in linked /\ a \in Chunks /\ key[a] = want[c]
      /\ want[c] \in Keys /\ h_next[a] = head[BucketOf[want[c]]]
  BY <1>0 DEF Ready, TypeOK, PlaceOK, ClientOK, InsertStore
<1>a. PICK b \in Buckets : b = BucketOf[want[c]]
  BY <1>1, MapsAssumption
<1>2. /\ pc'[c] = "link_q" /\ mine' = mine /\ want' = want
      /\ linked' = linked /\ free' = free /\ h_next' = h_next
      /\ head'[b] = a /\ \A d \in Buckets \ {b} : head'[d] = head[d]
      /\ key' = key /\ refcount' = refcount /\ lru' = lru /\ failed' = "" /\ content' = content
  BY <1>0, <1>1, <1>a DEF Ready, TypeOK, InsertStore
<1>3. /\ LinkRefs = linked \ {a} /\ LinkRefs' = linked \ {a} /\ PullRefs = {} /\ PullRefs' = {}
      /\ Unlisted = {a} /\ Unlisted' = {a} /\ Unchained = {a} /\ Unchained' = {}
  BY <1>0, <1>1, <1>2 DEF Ready, SetsAre, LinkSteps, EvictSteps, PullSteps
<1>4. \A i \in Chunks : Own(c, i)' = Own(c, i)
  BY <1>1, <1>2, <1>3 DEF Own
<1>5. CountOK'
  BY <1>2, <1>4, CountKeep
<1>6. ListOK' /\ KeysOK'
  BY <1>2, <1>3 DEF Ready, OneInv, ListOK, KeysOK
<1>7. ChainsOK'
  <2>1. ASSUME NEW d \in Buckets \ {b}
        PROVE  \E s \in Seq(Chunks) : IsChain(s, d)'
    <3>1. PICK s \in Seq(Chunks) : IsChain(s, d)
      BY DEF Ready, OneInv, ChainsOK
    <3>2. {i \in linked \ {a} : BucketOf[key[i]] = d} = {i \in linked : BucketOf[key[i]] = d}
      BY <1>1, <1>a
    <3>3. Ran(s) = {i \in linked' \ Unchained' : BucketOf[key'[i]] = d}
      BY <3>1, <3>2, <1>2, <1>3 DEF IsChain
    <3>4. IsChain(s, d)'
      BY <3>1, <3>3, <1>2 DEF IsChain
    <3> QED BY <3>4
  <2>2. \E s \in Seq(Chunks) : IsChain(s, b)'
    <3>1. PICK s \in Seq(Chunks) : IsChain(s, b)
      BY DEF Ready, OneInv, ChainsOK
    <3>2. Once(s) /\ a \notin Ran(s) /\ Ran(s) = {i \in linked \ {a} : BucketOf[key[i]] = b}
      BY <3>1, <1>3 DEF IsChain
    <3>3. PICK w \in Seq(Chunks) : w = <<a>> \o s
      BY <3>2, <1>1, WithIs
    <3>4. /\ Once(w) /\ Ran(w) = Ran(s) \cup {a} /\ Len(w) = Len(s) + 1 /\ w[1] = a
          /\ \A q \in 2 .. Len(s) + 1 : w[q] = s[q - 1]
      BY <3>2, <3>3, <1>1, WithIs
    <3>5. Ran(w) = {i \in linked' \ Unchained' : BucketOf[key'[i]] = b}
      BY <3>2, <3>4, <1>1, <1>2, <1>3, <1>a
    <3>6. ASSUME NEW p \in 1 .. Len(w) + 1
          PROVE  (IF p = 1 THEN head'[b] ELSE h_next'[w[p - 1]]) = (IF p <= Len(w) THEN w[p] ELSE None)
      <4>1. CASE p = 1
        <5>1. 1 <= Len(w)
          BY <3>4
        <5> QED BY <5>1, <4>1, <3>4, <1>2
      <4>2. CASE p # 1
        <5>1. p - 1 \in 1 .. Len(s) + 1 /\ (p <= Len(w) <=> p - 1 <= Len(s))
          BY <4>2, <3>4
        <5>2. (IF p - 1 = 1 THEN head[b] ELSE h_next[s[p - 1 - 1]]) = (IF p - 1 <= Len(s) THEN s[p - 1] ELSE None)
          BY <5>1, <3>1 DEF IsChain
        <5>3. h_next[w[p - 1]] = IF p - 1 = 1 THEN head[b] ELSE h_next[s[p - 1 - 1]]
          <6>1. CASE p - 1 = 1
            BY <6>1, <3>4, <1>1, <1>a
          <6>2. CASE p - 1 # 1
            <7>1. p - 1 \in 2 .. Len(s) + 1
              BY <6>2, <5>1
            <7> QED BY <6>2, <7>1, <3>4
          <6> QED BY <6>1, <6>2
        <5>4. p <= Len(w) => w[p] = s[p - 1]
          BY <5>1, <3>4
        <5> QED BY <4>2, <5>1, <5>2, <5>3, <5>4, <1>2
      <4> QED BY <4>1, <4>2
    <3>7. IsChain(w, b)'
      BY <3>4, <3>5, <3>6 DEF IsChain
    <3> QED BY <3>7
  <2> QED BY <2>1, <2>2 DEF ChainsOK
<1>8. ClientOK(c)'
  BY <1>0, <1>1, <1>2 DEF ClientOK, CurSteps, EvictSteps
<1> QED BY <1>2, <1>5, <1>6, <1>7, <1>8, StepKeeps

\* assoc_delete takes the item out of its chain and leaves the others alone.
LEMMA DeleteKeeps ==
    ASSUME NEW c, Ready(c), Unchained = {}, Unchained' = {}, NEW a \in linked,
           linked' = linked \ {a}, key' = key, assoc_delete(key[a])
    PROVE  ChainsOK'
<1>0. /\ TypeOK /\ KeysOK /\ ChainsOK /\ key[a] \in Keys /\ a \in Chunks
      /\ head \in [Buckets -> Chunks \cup {None}] /\ h_next \in [Chunks -> Chunks \cup {None}]
      /\ linked \subseteq Chunks
  BY DEF Ready, OneInv, KeysOK, TypeOK
<1>a. PICK b \in Buckets : b = BucketOf[key[a]]
  BY <1>0, MapsAssumption
<1>1. PICK s \in Seq(Chunks) : IsChain(s, b)
  BY <1>0 DEF ChainsOK
<1>2. Chain(key[a]) = s /\ Once(s) /\ Ran(s) = {i \in linked : BucketOf[key[i]] = b}
  BY <1>1, <1>a, ChainIs DEF IsChain
<1>3. PICK p \in 1 .. Len(s) : p = First(key[a]) /\ s[p] = a
  <2>1. Matches(key[a]) # {} /\ Chain(key[a])[First(key[a])] = a
    BY <1>0, FindIs
  <2>2. First(key[a]) \in 1 .. Len(s)
    BY <2>1, <1>2, FirstIs, MatchesAre
  <2> QED BY <2>1, <2>2, <1>2
<1>4. \A q \in 1 .. Len(s) : s[q] \in Chunks
  BY ElementOfSeq
<1>5. /\ p = 1 => head'[b] = h_next[a] /\ \A i \in Chunks \ {a} : h_next'[i] = h_next[i]
      /\ p # 1 => /\ head'[b] = head[b] /\ h_next'[s[p - 1]] = h_next[a]
                  /\ \A i \in Chunks \ {a} : i # s[p - 1] => h_next'[i] = h_next[i]
      /\ \A d \in Buckets \ {b} : head'[d] = head[d]
  <2>1. CASE p = 1
    <3>1. head' = [head EXCEPT ![b] = h_next[a]] /\ h_next' = [h_next EXCEPT ![a] = None]
      BY <2>1, <1>2, <1>3, <1>a DEF assoc_delete, Set
    <3> QED BY <3>1, <2>1, <1>0
  <2>2. CASE p # 1
    <3>1. head' = head /\ h_next' = [h_next EXCEPT ![s[p - 1]] = h_next[a], ![a] = None]
      BY <2>2, <1>2, <1>3 DEF assoc_delete
    <3>2. p - 1 \in 1 .. Len(s) /\ p - 1 # p
      BY <2>2
    <3>3. s[p - 1] \in Chunks /\ s[p - 1] # a
      BY <3>2, <1>2, <1>3, <1>4 DEF Once
    <3> QED BY <3>1, <3>3, <2>2, <1>0
  <2> QED BY <2>1, <2>2
<1>6. ASSUME NEW d \in Buckets \ {b}
      PROVE  \E t \in Seq(Chunks) : IsChain(t, d)'
  <2>1. PICK t \in Seq(Chunks) : IsChain(t, d)
    BY <1>0 DEF ChainsOK
  <2>2. Ran(t) = {i \in linked : BucketOf[key[i]] = d}
    BY <2>1 DEF IsChain
  <2>3. ASSUME NEW q \in 1 .. Len(t) PROVE h_next'[t[q]] = h_next[t[q]]
    <3>1. t[q] \in linked /\ BucketOf[key[t[q]]] = d
      BY <2>2 DEF Ran
    <3>2. \A r \in 1 .. Len(s) : BucketOf[key[s[r]]] = b
      BY <1>2 DEF Ran
    <3>3. t[q] # a /\ (p # 1 => t[q] # s[p - 1])
      <4>1. p # 1 => p - 1 \in 1 .. Len(s)
        OBVIOUS
      <4> QED BY <4>1, <3>1, <3>2, <1>a
    <3> QED BY <3>1, <3>3, <1>0, <1>5
  <2>4. Ran(t) = {i \in linked' \ Unchained' : BucketOf[key'[i]] = d}
    BY <2>2, <1>a
  <2>5. ASSUME NEW q \in 1 .. Len(t) + 1
        PROVE  (IF q = 1 THEN head'[d] ELSE h_next'[t[q - 1]]) = (IF q <= Len(t) THEN t[q] ELSE None)
    <3>1. (IF q = 1 THEN head[d] ELSE h_next[t[q - 1]]) = (IF q <= Len(t) THEN t[q] ELSE None)
      BY <2>1 DEF IsChain
    <3>2. q # 1 => q - 1 \in 1 .. Len(t)
      OBVIOUS
    <3> QED BY <3>1, <3>2, <2>3, <1>5
  <2>6. IsChain(t, d)'
    BY <2>1, <2>4, <2>5 DEF IsChain
  <2> QED BY <2>6
<1>7. \E t \in Seq(Chunks) : IsChain(t, b)'
  <2>1. PICK w \in Seq(Chunks) : w = Without(s, p)
    BY <1>2, WithoutIs
  <2>2. /\ Once(w) /\ Ran(w) = Ran(s) \ {a} /\ Len(w) = Len(s) - 1
        /\ \A q \in 1 .. Len(s) - 1 : w[q] = IF q < p THEN s[q] ELSE s[q + 1]
    <3>1. /\ Once(Without(s, p)) /\ Ran(Without(s, p)) = Ran(s) \ {s[p]}
          /\ Len(Without(s, p)) = Len(s) - 1
          /\ \A q \in 1 .. Len(s) - 1 : Without(s, p)[q] = IF q < p THEN s[q] ELSE s[q + 1]
      BY <1>2, WithoutIs
    <3> QED BY <3>1, <2>1, <1>3
  <2>3. Ran(w) = {i \in linked' \ Unchained' : BucketOf[key'[i]] = b}
    BY <2>2, <1>2
  <2>4. \A q \in 1 .. Len(s) + 1 :
           (IF q = 1 THEN head[b] ELSE h_next[s[q - 1]]) = (IF q <= Len(s) THEN s[q] ELSE None)
    BY <1>1 DEF IsChain
  <2>5. ASSUME NEW q \in 1 .. Len(w) + 1
        PROVE  (IF q = 1 THEN head'[b] ELSE h_next'[w[q - 1]]) = (IF q <= Len(w) THEN w[q] ELSE None)
    <3>0. q \in 1 .. Len(s) /\ Len(s) \in Nat
      BY <2>2
    <3>1. CASE q < p
      <4>1. q <= Len(w) /\ w[q] = s[q]
        BY <3>0, <3>1, <2>2
      <4>2. (IF q = 1 THEN head[b] ELSE h_next[s[q - 1]]) = s[q]
        BY <3>0, <2>4
      <4>3. p # 1
        BY <3>0, <3>1
      <4>4. CASE q = 1
        BY <4>1, <4>2, <4>3, <4>4, <1>5
      <4>5. CASE q # 1
        <5>1. q - 1 \in 1 .. Len(s) - 1 /\ q - 1 \in 1 .. Len(s) /\ q - 1 < p /\ q - 1 # p
              /\ p - 1 \in 1 .. Len(s) /\ q - 1 # p - 1
          BY <3>0, <3>1, <4>5
        <5>2. w[q - 1] = s[q - 1]
          BY <5>1, <2>2
        <5>3. s[q - 1] # a /\ s[q - 1] # s[p - 1] /\ s[q - 1] \in Chunks
          BY <5>1, <1>2, <1>3, <1>4 DEF Once
        <5> QED BY <5>2, <5>3, <4>1, <4>2, <4>3, <4>5, <1>5
      <4> QED BY <4>4, <4>5
    <3>2. CASE q = p
      <4>1. h_next[a] = IF p + 1 <= Len(s) THEN s[p + 1] ELSE None
        <5>1. p + 1 \in 1 .. Len(s) + 1 /\ p + 1 # 1 /\ p + 1 - 1 = p
          OBVIOUS
        <5> QED BY <5>1, <2>4, <1>3
      <4>2. (q <= Len(w) <=> p + 1 <= Len(s)) /\ (q <= Len(w) => w[q] = s[p + 1])
        BY <3>0, <3>2, <2>2
      <4>3. CASE p = 1
        BY <4>1, <4>2, <4>3, <3>2, <1>5
      <4>4. CASE p # 1
        <5>1. p - 1 \in 1 .. Len(s) - 1 /\ p - 1 < p
          BY <4>4
        <5>2. w[p - 1] = s[p - 1]
          BY <5>1, <2>2
        <5> QED BY <5>2, <4>1, <4>2, <4>4, <3>2, <1>5
      <4> QED BY <4>3, <4>4
    <3>3. CASE q > p
      <4>1. q # 1 /\ q - 1 \in 1 .. Len(s) - 1 /\ ~(q - 1 < p) /\ q - 1 + 1 = q /\ q # p
            /\ q + 1 \in 1 .. Len(s) + 1 /\ q + 1 # 1 /\ q + 1 - 1 = q
            /\ (p # 1 => p - 1 \in 1 .. Len(s) /\ q # p - 1)
        BY <3>0, <3>3
      <4>2. w[q - 1] = s[q]
        BY <4>1, <2>2
      <4>3. s[q] # a /\ (p # 1 => s[q] # s[p - 1]) /\ s[q] \in Chunks
        BY <4>1, <3>0, <1>2, <1>3, <1>4 DEF Once
      <4>4. h_next'[s[q]] = h_next[s[q]]
        BY <4>3, <1>5
      <4>5. h_next[s[q]] = IF q + 1 <= Len(s) THEN s[q + 1] ELSE None
        BY <4>1, <2>4
      <4>6. (q <= Len(w) <=> q + 1 <= Len(s)) /\ (q <= Len(w) => w[q] = s[q + 1])
        BY <3>0, <3>3, <2>2
      <4> QED BY <4>1, <4>2, <4>4, <4>5, <4>6
    <3> QED BY <3>0, <3>1, <3>2, <3>3
  <2>6. IsChain(w, b)'
    BY <2>2, <2>3, <2>5 DEF IsChain
  <2> QED BY <2>6
<1> QED BY <1>6, <1>7 DEF ChainsOK

LEMMA PullRefKeeps == ASSUME NEW c, Ready(c), PullRef(c) PROVE OneInv'
<1> USE DEF At, Goto, Set, locks, local
<1>0. PICK a : a = cur[c]
  OBVIOUS
<1>1. /\ pc[c] = "pull_ref" /\ mine[c] = None /\ a \in linked /\ a \in Chunks /\ tmp[c] = refcount[a]
      /\ key[a] \in Keys /\ linked \subseteq Chunks
      /\ \A i \in linked : key[i] # want[c]
  BY <1>0 DEF Ready, TypeOK, ClientOK, OneInv, KeysOK, PullRef, CurSteps
<1>2. /\ mine' = mine /\ want' = want /\ cur' = cur /\ free' = free /\ key' = key /\ content' = content
      /\ refcount' = [refcount EXCEPT ![a] = (refcount[a] + 1) % RefModulo]
      /\ refcount \in [Chunks -> 0 .. RefModulo - 1]
  BY <1>0, <1>1 DEF Ready, TypeOK, PullRef
<1>3. LinkRefs = linked /\ PullRefs = {} /\ Unlisted = {} /\ Unchained = {}
  BY <1>1 DEF Ready, SetsAre, LinkSteps, EvictSteps, PullSteps
<1>4. Own(c, a) = 1
  <2>1. /\ OneIf(mine[c] = a /\ pc[c] # "hit") = 0 /\ OneIf(a \in LinkRefs) = 1
        /\ OneIf(a \in PullRefs) = 0
    BY <1>1, <1>3, NullAssumption DEF OneIf
  <2> QED BY <2>1 DEF Own
<1>5. /\ refcount[a] \in Nat /\ refcount[a] # 0 /\ a \notin free
      /\ (refcount[a] + 1) % RefModulo = refcount[a] + 1
  <2>1. /\ refcount[a] \in Nat /\ refcount[a] = Others(c, a) + Own(c, a) /\ Others(c, a) \in Nat
        /\ Own(c, a) < 2 => (refcount[a] + 1) % RefModulo = refcount[a] + 1
        /\ a \in free <=> refcount[a] = 0
    BY <1>1, CountIs
  <2> QED BY <2>1, <1>4
<1>6. refcount'[a] = refcount[a] + 1 /\ \A i \in Chunks \ {a} : refcount'[i] = refcount[i]
  BY <1>1, <1>2, <1>5
\* The item keeps the link's reference until the eviction has dropped it.
<1>7. ASSUME pc'[c] \in {"evict_load", "pull_load"}, LinkRefs' = linked, PullRefs' = {a}
      PROVE  CountOK'
  <2>1. Own(c, a)' = 2
    <3>1. /\ OneIf(mine'[c] = a /\ pc'[c] # "hit") = 0 /\ OneIf(a \in LinkRefs') = 1
          /\ OneIf(a \in PullRefs') = 1
      BY <1>1, <1>2, <1>7, NullAssumption DEF OneIf
    <3> QED BY <3>1 DEF Own
  <2>2. \A i \in Chunks \ {a} : Own(c, i)' = Own(c, i)
    BY <1>1, <1>2, <1>3, <1>7 DEF Own, OneIf
  <2>3. refcount'[a] = refcount[a] + Own(c, a)' - Own(c, a)
    BY <2>1, <1>4, <1>5, <1>6, PlusMinus, Zenon
  <2>4. a \in free' <=> refcount'[a] = 0
    BY <1>2, <1>5, <1>6, PlusMinus, Zenon
  <2>5. \A i \in Chunks \ {a} : /\ refcount'[i] = refcount[i] /\ Own(c, i)' = Own(c, i)
                                /\ i \in free' <=> i \in free
    BY <1>2, <1>6, <2>2
  <2> QED BY <2>3, <2>4, <2>5, <1>1, CountMove
<1>8. CASE evict[c]
  <2>1. /\ pc'[c] = "evict_load" /\ linked' = linked \ {a} /\ lru' = do_item_unlink_q(a)
        /\ Matches(key[a]) # {} => assoc_delete(key[a]) /\ failed' = failed
    BY <1>0, <1>1, <1>8 DEF Ready, TypeOK, PullRef
  <2>2. LinkRefs' = linked /\ PullRefs' = {a} /\ Unlisted' = {} /\ Unchained' = {}
    BY <1>0, <1>1, <1>2, <2>1 DEF Ready, SetsAre, LinkSteps, EvictSteps, PullSteps
  <2>3. assoc_delete(key[a]) /\ failed' = ""
    <3>1. Matches(key[a]) # {}
      <4>1. TypeOK /\ KeysOK /\ ChainsOK
        BY DEF Ready, OneInv
      <4> QED BY <4>1, <1>1, <1>3, FindIs
    <3> QED BY <3>1, <2>1 DEF Ready, OneInv
  <2>4. ListOK'
    <3>1. lru \in Seq(Chunks) /\ Once(lru) /\ Ran(lru) = linked
      BY <1>3 DEF Ready, TypeOK, OneInv, ListOK
    <3>2. Once(lru') /\ Ran(lru') = linked \ {a}
      BY <3>1, <2>1, UnlinkIs
    <3> QED BY <3>2, <2>1, <2>2 DEF ListOK
  <2>5. KeysOK'
    BY <1>2, <2>1 DEF Ready, OneInv, KeysOK
  <2>6. ChainsOK'
    BY <1>1, <1>2, <1>3, <2>1, <2>2, <2>3, DeleteKeeps
  <2>7. ClientOK(c)'
    BY <1>0, <1>1, <1>2, <2>1 DEF ClientOK, CurSteps, EvictSteps
  <2>8. CountOK'
    BY <2>1, <2>2, <1>7
  <2> QED BY <2>3, <2>4, <2>5, <2>6, <2>7, <2>8, <1>2, StepKeeps
<1>9. CASE ~evict[c]
  <2>1. /\ pc'[c] = "pull_load" /\ linked' = linked /\ lru' = lru /\ failed' = failed
        /\ head' = head /\ h_next' = h_next
    BY <1>0, <1>9 DEF Ready, TypeOK, PullRef, chains
  <2>2. LinkRefs' = linked /\ PullRefs' = {a} /\ Unlisted' = {} /\ Unchained' = {}
    BY <1>0, <1>1, <1>2, <2>1 DEF Ready, SetsAre, LinkSteps, EvictSteps, PullSteps
  <2>3. ListOK' /\ KeysOK' /\ failed' = ""
    BY <1>2, <1>3, <2>1, <2>2 DEF Ready, OneInv, ListOK, KeysOK
  <2>4. ChainsOK'
    BY <1>2, <1>3, <2>1, <2>2, ChainsKeep
  <2>5. ClientOK(c)'
    BY <1>1, <1>2, <2>1 DEF ClientOK, CurSteps, EvictSteps
  <2>6. CountOK'
    BY <2>1, <2>2, <1>7
  <2> QED BY <2>3, <2>4, <2>5, <2>6, <1>2, StepKeeps
<1> QED BY <1>8, <1>9

-----------------------------------------------------------------------------
(* The invariant.                                                          *)

LEMMA OneInit == Init => OneInv
<1> SUFFICES ASSUME Init PROVE OneInv
  OBVIOUS
<1>1. /\ free = Chunks /\ linked = {} /\ lru = <<>> /\ failed = ""
      /\ \A b \in Buckets : head[b] = None
      /\ \A i \in Chunks : refcount[i] = 0
      /\ \A c \in Clients : pc[c] = "idle" /\ mine[c] = None
  BY DEF Init
<1>2. /\ LinkRefs = {} /\ PullRefs = {} /\ Unlisted = {}
      /\ \A i \in Chunks : Holders(i) = {}
  BY <1>1, NullAssumption DEF LinkRefs, PullRefs, Unlisted, Holders, MineIn, CurIn, EvictSteps, PullSteps
<1>3. CountOK
  <2>1. \A i \in Chunks : OneIf(i \in LinkRefs) = 0 /\ OneIf(i \in PullRefs) = 0
    BY <1>2 DEF OneIf
  <2>2. \A i \in Chunks : Cardinality(Holders(i)) = 0
    BY <1>2, FS_EmptySet
  <2>3. \A i \in Chunks : refcount[i] = 0 /\ i \in free
    BY <1>1
  <2>4. 0 = 0 + 0 + 0
    OBVIOUS
  <2> QED BY <2>1, <2>2, <2>3, <2>4, Zenon DEF CountOK
<1>4. Alone /\ KeysOK
  BY <1>1 DEF Alone, AtRest, KeysOK
<1>e. Once(<<>>) /\ Ran(<<>>) = {}
  BY DEF Once, Ran
<1>5. ListOK
  BY <1>1, <1>e DEF ListOK
<1>6. ChainsOK
  <2> SUFFICES ASSUME NEW b \in Buckets PROVE IsChain(<<>>, b)
    <3>1. <<>> \in Seq(Chunks)
      OBVIOUS
    <3> QED BY <3>1, Zenon DEF ChainsOK
  <2>1. \A p \in 1 .. Len(<<>>) + 1 : p = 1 /\ ~(p <= Len(<<>>))
    OBVIOUS
  <2>2. \A p \in 1 .. Len(<<>>) + 1 :
           (IF p = 1 THEN head[b] ELSE h_next[<<>>[p - 1]]) = (IF p <= Len(<<>>) THEN <<>>[p] ELSE None)
    BY <2>1, <1>1
  <2>3. Ran(<<>>) = {i \in linked \ Unchained : BucketOf[key[i]] = b}
    BY <1>1, <1>e
  <2> QED BY <2>2, <2>3, <1>e DEF IsChain
<1>7. \A c \in Clients : ClientOK(c)
  BY <1>1 DEF ClientOK, CurSteps, EvictSteps
<1> QED BY <1>1, <1>3, <1>4, <1>5, <1>6, <1>7 DEF OneInv

LEMMA OneStep ==
    ASSUME NEW c, Ready(c), NEW t, t = ThreadOf[c], Reads[t] \subseteq Keys, Begin(c) \/ Continue(c)
    PROVE  OneInv'
<1>1. ASSUME NEW k \in Keys, ReadHit(c, k) PROVE OneInv'
  BY <1>1, ReadHitKeeps
<1>2. ASSUME NEW k \in Keys, NEW f \in BOOLEAN, ReadMiss(c, k, f) PROVE OneInv'
  BY <1>2, ReadMissKeeps
<1> QED
  BY <1>1, <1>2, HitIncrKeeps, BumpUnlinkKeeps, BumpLinkKeeps, PullBeginKeeps, PullSkipKeeps,
     PullTakeKeeps, PullRefKeeps, EvictLoadKeeps, EvictStoreKeeps, PullLoadKeeps, PullStoreKeeps,
     PullFailKeeps, SlabsAllocKeeps, SlabsEmptyKeeps, FillKeeps, InsertLoadKeeps, InsertStoreKeeps,
     LinkQKeeps, LinkLoadKeeps, LinkStoreKeeps, ReleaseLoadKeeps, ReleaseStoreKeeps, ReleaseHeapKeeps
     DEF Begin, Continue

\* With one thread, every step of read and release keeps the reference counts
\* equal to the references there are, the LRU list and the hash chains equal to
\* the linked items, and one item per key with the segment of that key.
THEOREM GraphReadInvariant == Spec => []IInv
<1>1. Init => IInv
  BY TypeInit, OneInit DEF IInv
<1>2. TypeInv' /\ IInv /\ [Next]_vars => IInv'
  <2> SUFFICES ASSUME TypeInv', IInv, [Next]_vars, OneThread' PROVE OneInv'
    BY DEF IInv
  <2>1. CASE Next
    <3>1. PICK c \in DOMAIN ThreadOf : Begin(c) \/ Continue(c)
      BY <2>1 DEF Next
    <3>2. OneThread
      BY <2>1 DEF Next, OneThread
    <3>3. TypeInv /\ OneInv
      BY <3>2 DEF IInv
    <3>4. Ready(c)
      BY <3>1, <3>2, <3>3, StepReady
    <3>5. Reads[ThreadOf[c]] \subseteq Keys
      BY <3>3, ThreadsAssumption DEF TypeInv
    <3> QED BY <3>1, <3>4, <3>5, OneStep
  <2>2. CASE UNCHANGED vars
    <3>1. OneThread /\ OneInv
      BY <2>2 DEF vars, OneThread, IInv
    <3>a. /\ pc' = pc /\ mine' = mine /\ cur' = cur /\ linked' = linked /\ free' = free
          /\ refcount' = refcount /\ lru' = lru /\ key' = key /\ content' = content
          /\ head' = head /\ h_next' = h_next
      BY <2>2 DEF vars, chains, store, local
    <3>b. /\ LinkRefs' = LinkRefs /\ PullRefs' = PullRefs /\ Unlisted' = Unlisted /\ Unchained' = Unchained
          /\ \A i \in Chunks : Holders(i)' = Holders(i)
      BY <3>a DEF LinkRefs, PullRefs, Unlisted, Unchained, MineIn, CurIn, Holders
    <3>2. CountOK' /\ ListOK' /\ KeysOK'
      <4>1. CountOK'
        BY <3>1, <3>a, <3>b DEF OneInv, CountOK
      <4>2. ListOK' /\ KeysOK'
        BY <3>1, <3>a, <3>b DEF OneInv, ListOK, KeysOK
      <4> QED BY <4>1, <4>2
    <3>3. ChainsOK'
      BY <3>1, <3>a, <3>b, ZenonT(60) DEF OneInv, ChainsOK, IsChain
    <3>4. failed' = "" /\ Alone' /\ \A c \in Clients : ClientOK(c)'
      BY <3>1, <2>2 DEF vars, chains, store, local, OneInv, Alone, ClientOK
    <3> QED BY <3>2, <3>3, <3>4 DEF OneInv
  <2> QED BY <2>1, <2>2
<1> QED BY <1>1, <1>2, GraphReadTypes, PTL DEF Spec

\* A list without repetition is as long as the set of its items.
LEMMA OnceLength ==
    ASSUME NEW s \in Seq(Chunks), Once(s)
    PROVE  Len(s) = Cardinality(Ran(s))
<1>1. s \in Bijection(1 .. Len(s), Ran(s))
  BY DEF Once, Ran, Bijection, Injection, Surjection, IsInjective
<1>2. IsFiniteSet(1 .. Len(s)) /\ Cardinality(1 .. Len(s)) = Len(s)
  <2>1. Len(s) \in Nat
    OBVIOUS
  <2>2. IsFiniteSet(1 .. Len(s)) /\ Cardinality(1 .. Len(s)) = IF 1 > Len(s) THEN 0 ELSE Len(s) - 1 + 1
    BY <2>1, FS_Interval
  <2> QED BY <2>1, <2>2
<1>3. Cardinality(1 .. Len(s)) = Cardinality(Ran(s))
  <2>1. ExistsBijection(1 .. Len(s), Ran(s))
    BY <1>1 DEF ExistsBijection
  <2> QED BY <2>1, <1>2, FS_Bijection
<1> QED BY <1>2, <1>3

LEMMA QuietIs ==
    ASSUME IInv, OneThread, Quiet
    PROVE  /\ LinkRefs = linked /\ PullRefs = {} /\ Unlisted = {} /\ Unchained = {}
           /\ \A i \in Chunks : Holders(i) = {c \in Clients : mine[c] = i}
BY DEF Quiet, AtRest, LinkRefs, PullRefs, Unlisted, Unchained, Holders, MineIn, CurIn,
       LinkSteps, EvictSteps, PullSteps

\* Between the calls of one thread every reference count is the number of
\* segments in use plus the link's, the free list has exactly the chunks nobody
\* refers to, and LRU list, hash chains and lookups agree on the linked items.
THEOREM BetweenCallsExact == Spec => []BetweenCalls
<1>1. IInv => BetweenCalls
  <2> SUFFICES ASSUME IInv PROVE BetweenCalls
    OBVIOUS
  <2>1. CountsExact
    <3> SUFFICES ASSUME OneThread, Quiet, NEW i \in Chunks
                 PROVE  /\ refcount[i] = Cardinality({c \in Clients : mine[c] = i})
                                         + (IF i \in linked THEN 1 ELSE 0)
                        /\ i \in free <=> refcount[i] = 0
      BY DEF CountsExact
    <3>1. /\ refcount[i] = Cardinality(Holders(i)) + OneIf(i \in LinkRefs) + OneIf(i \in PullRefs)
          /\ i \in free <=> refcount[i] = 0
      BY DEF IInv, OneInv, CountOK
    <3>2. OneIf(i \in PullRefs) = 0 /\ OneIf(i \in LinkRefs) = IF i \in linked THEN 1 ELSE 0
      BY QuietIs DEF OneIf
    <3>3. Cardinality(Holders(i)) = Cardinality({c \in Clients : mine[c] = i})
      BY QuietIs
    <3>4. Cardinality({c \in Clients : mine[c] = i}) \in Nat
      BY FiniteAssumption, FS_Subset, FS_CardinalityType
    <3> QED BY <3>1, <3>2, <3>3, <3>4
  <2>2. ChainsCoherent
    <3> SUFFICES ASSUME OneThread, Quiet
                 PROVE  /\ Ran(lru) = linked /\ Len(lru) = Cardinality(linked)
                        /\ \A i \in linked : assoc_find(key[i]) = i
                        /\ \A k \in Keys : Ran(Chain(k)) \subseteq linked
      BY DEF ChainsCoherent
    <3>1. TypeOK /\ ListOK /\ KeysOK /\ ChainsOK
      BY DEF IInv, TypeInv, OneInv
    <3>2. Unlisted = {} /\ Unchained = {}
      BY QuietIs
    <3>3. Ran(lru) = linked /\ Len(lru) = Cardinality(linked)
      BY <3>1, <3>2, OnceLength DEF ListOK, TypeOK
    <3>4. ASSUME NEW i \in linked PROVE assoc_find(key[i]) = i
      BY <3>1, <3>2, FindIs DEF KeysOK
    <3>5. ASSUME NEW k \in Keys PROVE Ran(Chain(k)) \subseteq linked
      <4>1. PICK s \in Seq(Chunks) : IsChain(s, BucketOf[k])
        BY <3>1, MapsAssumption DEF ChainsOK
      <4> QED BY <4>1, ChainIs DEF IsChain
    <3> QED BY <3>3, <3>4, <3>5
  <2> QED BY <2>1, <2>2 DEF BetweenCalls, IInv, TypeInv
<1> QED BY <1>1, GraphReadInvariant, PTL

\* What read returned to one thread stays the segment it asked for until it is
\* released, whatever is read, evicted and reused in between.
THEOREM ReadsStayStable == Spec => []ReadStable
<1>1. IInv => ReadStable
  <2> SUFFICES ASSUME IInv, OneThread, NEW c \in Clients, pc[c] = "hold", mine[c] # None
               PROVE  mine[c] \notin free /\ content[mine[c]] = want[c]
    BY DEF ReadStable, SegmentStable
  <2>1. TypeOK /\ CountOK /\ ClientOK(c)
    BY DEF IInv, TypeInv, OneInv
  <2>2. PICK i \in Chunks : i = mine[c]
    BY <2>1 DEF TypeOK
  <2>3. c \in Holders(i) /\ IsFiniteSet(Holders(i)) /\ Cardinality(Holders(i)) \in Nat
    BY <2>2, FiniteAssumption, FS_Subset, FS_CardinalityType DEF Holders
  <2>4. Cardinality(Holders(i)) # 0
    BY <2>3, FS_EmptySet
  <2>5. OneIf(i \in LinkRefs) \in {0, 1} /\ OneIf(i \in PullRefs) \in {0, 1}
    BY DEF OneIf
  <2>6. refcount[i] # 0
    BY <2>1, <2>3, <2>4, <2>5 DEF CountOK
  <2> QED BY <2>1, <2>2, <2>6 DEF CountOK, ClientOK
<1> QED BY <1>1, GraphReadInvariant, PTL

\* No assert of items.c, assoc.c and slabs.c that read and release run into can
\* fail with one thread, and no item is put into the LRU list twice.
THEOREM AssertsNeverFail == Spec => []AssertsHold
<1>1. IInv => AssertsHold
  BY DEF IInv, OneInv, AssertsHold
<1> QED BY <1>1, GraphReadInvariant, PTL

-----------------------------------------------------------------------------
=============================================================================
