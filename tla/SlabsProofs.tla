---------------------------- MODULE SlabsProofs ----------------------------
(***************************************************************************)
(* The slab allocator and its page mover neither lose memory nor give it   *)
(* out twice, and move no item under the hands of its user: for any users, *)
(* keys, pages and classes, when the users keep to the item locks.         *)
(***************************************************************************)
EXTENDS Slabs, FiniteSetTheorems, FunctionTheorems, TLAPS

Lists == Classes \cup {SLAB_GLOBAL_PAGE_POOL}
ClassPages == UNION {Ran(slab_list[c]) : c \in Classes}
Distinct(s) == \A m, n \in 1 .. Len(s) : s[m] = s[n] => m = n

\* Every page has one place in one list.  mem_malloced counts the pages of the
\* classes and the length of the pool.
PagesOK ==
    /\ \A c, d \in Lists : \A m \in 1 .. Len(slab_list[c]), n \in 1 .. Len(slab_list[d]) :
          slab_list[c][m] = slab_list[d][n] => c = d /\ m = n
    /\ mem_malloced = Cardinality(ClassPages) + Len(Pool)
    /\ mem_malloced > mem_limit => Pool = <<>>

\* i is one of the chunks of a page of class c.
In(i, c) == i[1] \in Ran(slab_list[c]) /\ i[2] <= PerSlab[c]

\* What is not cleared is a chunk of a page of some class.
FlagsOK == \A i \in Chunks : flag[i] # "cleared" => \E c \in Classes : In(i, c)

FreeOK ==
    \A c \in Classes :
        /\ sl_curr[c] = Len(slots[c])
        /\ Distinct(slots[c])
        /\ Ran(slots[c]) = {i \in Chunks : flag[i] = "slabbed" /\ i[1] \in Ran(slab_list[c])}

LinkedOK ==
    \A i \in Chunks : flag[i] = "linked" =>
        /\ key[i] \in Keys
        /\ \A j \in Chunks : flag[j] = "linked" /\ key[j] = key[i] => j = i

\* What a user knows: its item is in use and has its key; until it is linked,
\* and when the last reference is gone, it is the user's alone.
UserOK(u) ==
    /\ pc[u] = "idle" <=> mine[u] = None
    /\ pc[u] # "idle" => want[u] \in Keys /\ key[mine[u]] = want[u] /\ Live(mine[u])
    /\ pc[u] \in {"filled", "storing", "freeing"} =>
          flag[mine[u]] = "none" /\ \A v \in Users : mine[v] = mine[u] => v = u
    /\ pc[u] \in {"storing", "freeing"} => item_lock[LockOf[want[u]]] = u
    /\ mpc = "unlocked" /\ mine[u] # None => mine[u] \notin {It, new_it}

UsersOK == \A u \in Users : UserOK(u)

\* The mover's page is the oldest of its class.  The chunks it has passed are
\* cleared, unless it has counted a busy one.  While it has given up
\* slabs_lock it has the lock of its item's key.
MoverOK ==
    /\ signal \in {1, 2} => s_clsid \in Classes /\ d_clsid # s_clsid /\ Len(slab_list[s_clsid]) >= 1
    /\ signal = 2 =>
          /\ slab_start = slab_list[s_clsid][1] /\ slab_pos >= 1
          /\ busy_items > 0 \/ \A n \in 1 .. slab_pos - 1 : flag[<<slab_start, n>>] = "cleared"
    /\ done = 1 => signal = 2 /\ mpc = "locked"
    /\ ClearWhenDone
    /\ mpc = "unlocked" =>
          /\ signal = 2 /\ done = 0
          /\ flag[It] = "linked" /\ item_lock[LockOf[key[It]]] = Mover
          /\ new_it # None => flag[new_it] = "none"
    /\ mpc = "locked" => new_it = None

IInv ==
    /\ TypeOK /\ ~failed
    /\ PagesOK /\ FlagsOK /\ FreeOK
    /\ LinkedOK /\ UsersOK /\ MoverOK /\ MoverCountsExact
-----------------------------------------------------------------------------
(* Free lists and page lists.                                              *)

LEMMA RanIs == ASSUME NEW s, NEW x PROVE x \in Ran(s) <=> \E n \in 1 .. Len(s) : s[n] = x
BY DEF Ran

\* The length of a list that repeats nothing counts its elements.
LEMMA DistinctCounts ==
    ASSUME NEW S, NEW s \in Seq(S), Distinct(s)
    PROVE  IsFiniteSet(Ran(s)) /\ Cardinality(Ran(s)) = Len(s)
<1> DEFINE f == [n \in 1 .. Len(s) |-> s[n]]
<1>1. Len(s) \in Nat
  OBVIOUS
<1>2. f \in [1 .. Len(s) -> Ran(s)] /\ \A m, n \in 1 .. Len(s) : f[m] = f[n] => m = n
  BY DEF Ran, Distinct
<1>3. \A x \in Ran(s) : \E n \in 1 .. Len(s) : f[n] = x
  BY DEF Ran
<1> HIDE DEF f
<1>4. f \in Bijection(1 .. Len(s), Ran(s))
  BY <1>2, <1>3, Fun_IsBij
<1>5. ExistsBijection(1 .. Len(s), Ran(s))
  BY <1>4, Fun_ExistsBij
<1>6. IsFiniteSet(1 .. Len(s))
  BY <1>1, FS_Interval
<1> QED BY <1>1, <1>5, <1>6, FS_CountingElements, FS_Bijection

\* A new head.
LEMMA PushQ ==
    ASSUME NEW S, NEW s \in Seq(S), Distinct(s), NEW x \in S, x \notin Ran(s)
    PROVE  LET t == <<x>> \o s
           IN  t \in Seq(S) /\ Len(t) = Len(s) + 1 /\ Distinct(t) /\ Ran(t) = Ran(s) \cup {x}
<1> DEFINE t == <<x>> \o s
<1>1. t \in Seq(S) /\ Len(t) = Len(s) + 1 /\ Len(s) \in Nat
  OBVIOUS
<1>2. t[1] = x /\ \A n \in 2 .. Len(t) : t[n] = s[n - 1]
  BY <1>1
<1> HIDE DEF t
<1>3. \A n \in 1 .. Len(t) : n = 1 \/ (n - 1 \in 1 .. Len(s) /\ t[n] = s[n - 1])
  BY <1>1, <1>2
<1>4. \A n \in 1 .. Len(s) : s[n] # x
  BY DEF Ran
<1>5. Distinct(t)
  <2> SUFFICES ASSUME NEW m \in 1 .. Len(t), NEW n \in 1 .. Len(t), t[m] = t[n] PROVE m = n
    BY DEF Distinct
  <2>1. CASE m = 1 \/ n = 1
    BY <1>2, <1>3, <1>4, <2>1
  <2>2. CASE m # 1 /\ n # 1
    <3>1. m - 1 = n - 1
      BY <1>3, <2>2 DEF Distinct
    <3> QED BY <1>1, <3>1
  <2> QED BY <2>1, <2>2
<1>6. Ran(t) = Ran(s) \cup {x}
  <2>1. ASSUME NEW y \in Ran(t) PROVE y \in Ran(s) \cup {x}
    BY <1>2, <1>3 DEF Ran
  <2>2. ASSUME NEW n \in 1 .. Len(s) PROVE s[n] \in Ran(t)
    <3>1. n + 1 \in 2 .. Len(t) /\ n + 1 \in 1 .. Len(t) /\ (n + 1) - 1 = n
      BY <1>1
    <3> QED BY <1>2, <3>1 DEF Ran
  <2>3. x \in Ran(t)
    BY <1>1, <1>2 DEF Ran
  <2> QED BY <2>1, <2>2, <2>3 DEF Ran
<1> QED BY <1>1, <1>5, <1>6 DEF t

\* A new end.
LEMMA AppendQ ==
    ASSUME NEW S, NEW s \in Seq(S), NEW x \in S
    PROVE  LET t == Append(s, x)
           IN  /\ t \in Seq(S) /\ Len(t) = Len(s) + 1
               /\ t[Len(t)] = x /\ (\A n \in 1 .. Len(s) : t[n] = s[n])
               /\ Ran(t) = Ran(s) \cup {x}
<1> DEFINE t == Append(s, x)
<1>1. t \in Seq(S) /\ Len(t) = Len(s) + 1 /\ Len(s) \in Nat
  OBVIOUS
<1>2. t[Len(t)] = x /\ (\A n \in 1 .. Len(s) : t[n] = s[n])
  BY <1>1
<1> HIDE DEF t
<1>3. \A n \in 1 .. Len(t) : n \in 1 .. Len(s) \/ n = Len(t)
  BY <1>1
<1>4. \A n \in 1 .. Len(s) : n \in 1 .. Len(t)
  BY <1>1
<1>5. Len(t) \in 1 .. Len(t)
  BY <1>1
<1>6. Ran(t) = Ran(s) \cup {x}
  BY <1>2, <1>3, <1>4, <1>5 DEF Ran
<1> QED BY <1>1, <1>2, <1>6 DEF t

\* Without its first elements.
LEMMA DropQ ==
    ASSUME NEW S, NEW s \in Seq(S), Distinct(s), NEW a \in 1 .. Len(s) + 1
    PROVE  LET t == SubSeq(s, a, Len(s))
           IN  /\ t \in Seq(S) /\ Len(t) = Len(s) - a + 1
               /\ \A n \in 1 .. Len(t) : t[n] = s[n + a - 1]
               /\ Distinct(t) /\ Ran(t) = Ran(s) \ {s[n] : n \in 1 .. a - 1}
<1> DEFINE t == SubSeq(s, a, Len(s))
<1>1. t \in Seq(S) /\ Len(t) = Len(s) - a + 1 /\ Len(s) \in Nat /\ a \in Nat
  OBVIOUS
<1>2. \A n \in 1 .. Len(t) : t[n] = s[n + a - 1] /\ n + a - 1 \in a .. Len(s)
  BY <1>1
<1> HIDE DEF t
<1>3. Distinct(t)
  <2> SUFFICES ASSUME NEW m \in 1 .. Len(t), NEW n \in 1 .. Len(t), t[m] = t[n] PROVE m = n
    BY DEF Distinct
  <2>0. m + a - 1 \in 1 .. Len(s) /\ n + a - 1 \in 1 .. Len(s) /\ s[m + a - 1] = s[n + a - 1]
    BY <1>1, <1>2
  <2>1. m + a - 1 = n + a - 1
    BY <2>0 DEF Distinct
  <2> QED BY <1>1, <2>1
<1>4. ASSUME NEW x \in Ran(t) PROVE x \in Ran(s) \ {s[n] : n \in 1 .. a - 1}
  <2>1. PICK n \in 1 .. Len(t) : t[n] = x
    BY <1>4, RanIs
  <2>2. n + a - 1 \in 1 .. Len(s) /\ n + a - 1 \notin 1 .. a - 1 /\ s[n + a - 1] = x
    BY <1>1, <1>2, <2>1
  <2>3. \A m \in 1 .. a - 1 : m \in 1 .. Len(s) /\ s[m] # x
    BY <1>1, <2>2 DEF Distinct
  <2> QED BY <2>2, <2>3, RanIs
<1>5. ASSUME NEW x \in Ran(s) \ {s[n] : n \in 1 .. a - 1} PROVE x \in Ran(t)
  <2>1. PICK n \in 1 .. Len(s) : s[n] = x
    BY <1>5, RanIs
  <2>2. n \notin 1 .. a - 1
    BY <1>5, <2>1
  <2>3. n - a + 1 \in 1 .. Len(t) /\ (n - a + 1) + a - 1 = n
    BY <1>1, <2>1, <2>2
  <2>4. t[n - a + 1] = x
    BY <1>2, <2>1, <2>3
  <2> QED BY <2>3, <2>4, RanIs
<1>6. Ran(t) = Ran(s) \ {s[n] : n \in 1 .. a - 1}
  BY <1>4, <1>5
<1> QED BY <1>1, <1>2, <1>3, <1>6 DEF t

\* Without its last n elements.
LEMMA ShrunkQ ==
    ASSUME NEW S, NEW s \in Seq(S), NEW n \in 0 .. Len(s)
    PROVE  /\ Shrunk(s, n) \in Seq(S) /\ Len(Shrunk(s, n)) = Len(s) - n
           /\ \A m \in 1 .. Len(s) - n : Shrunk(s, n)[m] = s[m]
           /\ Ran(Shrunk(s, n)) \subseteq Ran(s)
<1> DEFINE t == Shrunk(s, n)
<1>1. t \in Seq(S) /\ Len(t) = Len(s) - n /\ Len(s) \in Nat
  BY DEF Shrunk
<1>2. \A m \in 1 .. Len(s) - n : t[m] = s[m]
  BY <1>1 DEF Shrunk
<1> HIDE DEF t
<1>3. Ran(t) \subseteq Ran(s)
  BY <1>1, <1>2 DEF Ran
<1> QED BY <1>1, <1>2, <1>3 DEF t

\* The first element off.
LEMMA TailQ ==
    ASSUME NEW S, NEW s \in Seq(S), Distinct(s), Len(s) >= 1
    PROVE  /\ Tail(s) \in Seq(S) /\ Len(Tail(s)) = Len(s) - 1 /\ Distinct(Tail(s))
           /\ \A n \in 1 .. Len(s) - 1 : Tail(s)[n] = s[n + 1]
           /\ Head(s) = s[1] /\ Head(s) \in Ran(s) /\ Head(s) \in S
           /\ Ran(Tail(s)) = Ran(s) \ {Head(s)}
<1> DEFINE t == Tail(s)
<1>1. s # <<>> /\ Len(s) \in Nat
  OBVIOUS
<1>2. t \in Seq(S) /\ Len(t) = Len(s) - 1 /\ Head(s) = s[1]
  BY <1>1
<1>3. \A n \in 1 .. Len(s) - 1 : t[n] = s[n + 1]
  BY <1>1
<1> HIDE DEF t
<1>4. 1 \in 1 .. Len(s)
  BY <1>1
<1>5. Head(s) \in Ran(s) /\ Head(s) \in S
  BY <1>2, <1>4 DEF Ran
<1>6. Distinct(t)
  <2> SUFFICES ASSUME NEW m \in 1 .. Len(t), NEW n \in 1 .. Len(t), t[m] = t[n] PROVE m = n
    BY DEF Distinct
  <2>1. m + 1 \in 1 .. Len(s) /\ n + 1 \in 1 .. Len(s) /\ s[m + 1] = s[n + 1]
    BY <1>1, <1>2, <1>3
  <2>2. m + 1 = n + 1
    BY <2>1 DEF Distinct
  <2> QED BY <1>1, <1>2, <2>2
<1>7. ASSUME NEW x \in Ran(t) PROVE x \in Ran(s) \ {Head(s)}
  <2>1. PICK n \in 1 .. Len(t) : t[n] = x
    BY <1>7, RanIs
  <2>2. n + 1 \in 1 .. Len(s) /\ n + 1 # 1 /\ s[n + 1] = x
    BY <1>1, <1>2, <1>3, <2>1
  <2> QED BY <1>2, <1>4, <2>2, RanIs DEF Distinct
<1>8. ASSUME NEW x \in Ran(s) \ {Head(s)} PROVE x \in Ran(t)
  <2>1. PICK n \in 1 .. Len(s) : s[n] = x
    BY <1>8, RanIs
  <2>2. n # 1
    BY <1>2, <1>8, <2>1
  <2>3. n - 1 \in 1 .. Len(t) /\ (n - 1) + 1 = n
    BY <1>1, <1>2, <2>1, <2>2
  <2>4. t[n - 1] = x
    BY <1>2, <1>3, <2>1, <2>3
  <2> QED BY <2>3, <2>4, RanIs
<1> QED BY <1>2, <1>3, <1>5, <1>6, <1>7, <1>8 DEF t

\* slab_rebalance_cut_free takes out what it is called for, and nothing else.
LEMMA CutQ ==
    ASSUME NEW S, NEW s \in Seq(S), Distinct(s), NEW x \in Ran(s)
    PROVE  /\ Cut(s, x) \in Seq(S) /\ Len(Cut(s, x)) = Len(s) - 1
           /\ Distinct(Cut(s, x)) /\ Ran(Cut(s, x)) = Ran(s) \ {x}
<1> DEFINE t == Cut(s, x)
           P == CHOOSE q \in 1 .. Len(s) : s[q] = x
<1>1. Len(s) \in Nat /\ \A p \in 1 .. Len(s) : s[p] \in S
  OBVIOUS
<1>2. P \in 1 .. Len(s) /\ s[P] = x
  BY DEF Ran
<1> HIDE DEF P
<1>3. t = [q \in 1 .. Len(s) - 1 |-> IF q < P THEN s[q] ELSE s[q + 1]]
  BY DEF Cut, P
<1>4. Len(s) - 1 \in Nat
  BY <1>1, <1>2
<1> HIDE DEF t
<1>5. t \in Seq(S) /\ Len(t) = Len(s) - 1
  BY <1>1, <1>3, <1>4
<1>6. \A q \in 1 .. Len(t) :
         /\ q < P => t[q] = s[q] /\ q \in 1 .. Len(s)
         /\ ~(q < P) => t[q] = s[q + 1] /\ q + 1 \in 1 .. Len(s)
  BY <1>1, <1>3, <1>5
<1>7. Distinct(t)
  <2> SUFFICES ASSUME NEW p \in 1 .. Len(t), NEW q \in 1 .. Len(t), t[p] = t[q]
               PROVE  p = q
    BY DEF Distinct
  <2>0. p \in Int /\ q \in Int /\ P \in Int
    BY <1>1, <1>2, <1>5
  <2>1. CASE p < P /\ q < P
    BY <2>1, <1>6 DEF Distinct
  <2>2. CASE p < P /\ ~(q < P)
    <3>1. p = q + 1
      BY <2>2, <1>6, <2>0 DEF Distinct
    <3> QED BY <3>1, <2>0, <2>2
  <2>3. CASE ~(p < P) /\ q < P
    <3>1. p + 1 = q
      BY <2>3, <1>6, <2>0 DEF Distinct
    <3> QED BY <3>1, <2>0, <2>3
  <2>4. CASE ~(p < P) /\ ~(q < P)
    <3>1. p + 1 = q + 1
      BY <2>4, <1>6 DEF Distinct
    <3> QED BY <3>1, <2>0
  <2> QED BY <2>1, <2>2, <2>3, <2>4
<1>8. ASSUME NEW y \in Ran(t) PROVE y \in Ran(s) \ {x}
  <2>1. PICK q \in 1 .. Len(t) : t[q] = y
    BY <1>8, RanIs
  <2>2. PICK r \in 1 .. Len(s) : s[r] = y /\ r # P
    BY <2>1, <1>1, <1>2, <1>5, <1>6
  <2> QED BY <2>2, <1>2, RanIs DEF Distinct
<1>9. ASSUME NEW y \in Ran(s) \ {x} PROVE y \in Ran(t)
  <2>1. PICK r \in 1 .. Len(s) : s[r] = y /\ r # P
    BY <1>9, <1>2, RanIs
  <2>2. CASE r < P
    <3>1. r \in 1 .. Len(t) /\ t[r] = y
      BY <2>1, <2>2, <1>1, <1>2, <1>5, <1>6
    <3> QED BY <3>1, RanIs
  <2>3. CASE ~(r < P)
    <3>1. r - 1 \in 1 .. Len(t) /\ ~(r - 1 < P) /\ (r - 1) + 1 = r
      BY <2>1, <2>3, <1>1, <1>2, <1>5
    <3>2. t[r - 1] = y
      BY <3>1, <2>1, <1>6
    <3> QED BY <3>1, <3>2, RanIs
  <2> QED BY <2>2, <2>3
<1> QED BY <1>5, <1>7, <1>8, <1>9 DEF t
-----------------------------------------------------------------------------
(* Chunks, pages and classes.                                              *)

LEMMA MaxPerIs == MaxPer \in Nat \ {0} /\ \A c \in Classes : PerSlab[c] <= MaxPer
<1>1. PICK c \in Classes : \A d \in Classes : PerSlab[d] <= PerSlab[c]
  BY SizesAssumption
<1>2. \E n \in {PerSlab[d] : d \in Classes} : \A d \in Classes : PerSlab[d] <= n
  BY <1>1
<1>3. MaxPer \in {PerSlab[d] : d \in Classes} /\ \A d \in Classes : PerSlab[d] <= MaxPer
  BY <1>2 DEF MaxPer
<1> QED BY <1>3, ClassesAssumption

LEMMA ChunkIs ==
    /\ \A i \in Chunks : i = <<i[1], i[2]>> /\ i[1] \in Pages /\ i[2] \in 1 .. MaxPer /\ i[2] \in Nat /\ i # None
    /\ \A p \in Pages, c \in Classes : \A n \in 1 .. PerSlab[c] :
          <<p, n>> \in Chunks /\ <<p, n>>[1] = p /\ <<p, n>>[2] = n
    /\ \A p \in Pages, c \in Classes, i \in Chunks :
          i \in ChunksOf(p, c) <=> i[1] = p /\ i[2] <= PerSlab[c]
<1>1. \A i \in Chunks : i = <<i[1], i[2]>> /\ i[1] \in Pages /\ i[2] \in 1 .. MaxPer /\ i[2] \in Nat /\ i # None
  BY MaxPerIs, NamesAssumption DEF Chunks
<1>2. ASSUME NEW p \in Pages, NEW c \in Classes, NEW n \in 1 .. PerSlab[c]
      PROVE  <<p, n>> \in Chunks /\ <<p, n>>[1] = p /\ <<p, n>>[2] = n
  <2>1. n \in 1 .. MaxPer
    BY MaxPerIs, ClassesAssumption
  <2> QED BY <2>1 DEF Chunks
<1>3. ASSUME NEW p \in Pages, NEW c \in Classes, NEW i \in Chunks
      PROVE  i \in ChunksOf(p, c) <=> i[1] = p /\ i[2] <= PerSlab[c]
  <2>1. i \in ChunksOf(p, c) => i[1] = p /\ i[2] <= PerSlab[c]
    BY ClassesAssumption DEF ChunksOf
  <2>2. ASSUME i[1] = p, i[2] <= PerSlab[c] PROVE i \in ChunksOf(p, c)
    <3>1. i[2] \in 1 .. PerSlab[c] /\ i = <<p, i[2]>>
      BY <1>1, <2>2, MaxPerIs, ClassesAssumption
    <3> QED BY <3>1 DEF ChunksOf
  <2> QED BY <2>1, <2>2
<1> QED BY <1>1, <1>2, <1>3

\* A page has one owner.
LEMMA OneOwner ==
    ASSUME PagesOK, NEW c \in Lists, NEW d \in Lists, NEW p,
           p \in Ran(slab_list[c]), p \in Ran(slab_list[d])
    PROVE  c = d
<1>1. PICK m \in 1 .. Len(slab_list[c]) : slab_list[c][m] = p
  BY RanIs
<1>2. PICK n \in 1 .. Len(slab_list[d]) : slab_list[d][n] = p
  BY RanIs
<1> QED BY <1>1, <1>2 DEF PagesOK

LEMMA ClassOfIs ==
    ASSUME PagesOK, NEW i, NEW c \in Classes, i[1] \in Ran(slab_list[c])
    PROVE  ClassOf(i) = c
<1>1. ClassOf(i) \in Classes /\ i[1] \in Ran(slab_list[ClassOf(i)])
  BY DEF ClassOf
<1> QED BY <1>1, OneOwner DEF Lists

LEMMA ConcatQ ==
    ASSUME NEW S, NEW s \in Seq(S), NEW t \in Seq(S)
    PROVE  s \o t \in Seq(S) /\ Len(s \o t) = Len(s) + Len(t)
OBVIOUS

\* split_slab_page_into_freelist puts the chunks of the page before the others.
LEMMA SplitQ ==
    ASSUME NEW p \in Pages, NEW c \in Classes, slots[c] \in Seq(Chunks), Distinct(slots[c]),
           \A i \in Ran(slots[c]) : i[1] # p
    PROVE  /\ Split(p, c) \in Seq(Chunks) /\ Len(Split(p, c)) = PerSlab[c] + Len(slots[c])
           /\ Distinct(Split(p, c)) /\ Ran(Split(p, c)) = ChunksOf(p, c) \cup Ran(slots[c])
           /\ Head(Split(p, c)) = <<p, PerSlab[c]>>
<1> DEFINE s == slots[c]
           k == PerSlab[c]
           h == [n \in 1 .. k |-> <<p, k + 1 - n>>]
           t == Split(p, c)
<1>1. k \in Nat \ {0} /\ Len(s) \in Nat
  BY ClassesAssumption
<1>2. \A n \in 1 .. k : k + 1 - n \in 1 .. k /\ <<p, k + 1 - n>> \in Chunks
  BY <1>1, ChunkIs
<1>4. t = h \o s /\ s \in Seq(Chunks)
  BY DEF Split
<1>0. h \in [1 .. k -> Chunks] /\ \A n \in 1 .. k : h[n] = <<p, k + 1 - n>>
  BY <1>2
<1> HIDE DEF h, t, k, s
<1>3. h \in Seq(Chunks) /\ Len(h) = k
  BY <1>0, <1>1
<1>5. t \in Seq(Chunks) /\ Len(t) = k + Len(s)
  BY <1>3, <1>4, ConcatQ
<1>6. /\ \A n \in 1 .. k : t[n] = <<p, k + 1 - n>>
      /\ \A n \in 1 .. Len(s) : t[n + k] = s[n]
  BY <1>0, <1>1, <1>3, <1>4
<1>7. \A n \in 1 .. Len(t) : n \in 1 .. k \/ (n - k \in 1 .. Len(s) /\ (n - k) + k = n)
  BY <1>1, <1>5
<1>8. \A n \in 1 .. Len(s) : s[n] \in Chunks /\ s[n][1] # p
  BY DEF Ran, s
<1>9. Distinct(t)
  <2> SUFFICES ASSUME NEW m \in 1 .. Len(t), NEW n \in 1 .. Len(t), t[m] = t[n] PROVE m = n
    BY DEF Distinct
  <2>0. Distinct(s)
    BY DEF s
  <2>1. CASE m \in 1 .. k /\ n \in 1 .. k
    <3>1. k + 1 - m = k + 1 - n
      BY <1>6, <2>1
    <3> QED BY <1>1, <2>1, <3>1
  <2>2. CASE m \in 1 .. k /\ n \notin 1 .. k
    <3>1. t[m] = <<p, k + 1 - m>> /\ t[m][1] = p
      BY <1>6, <2>2
    <3>2. n - k \in 1 .. Len(s) /\ t[n] = s[n - k]
      BY <1>6, <1>7, <2>2
    <3> QED BY <1>8, <3>1, <3>2
  <2>3. CASE m \notin 1 .. k /\ n \in 1 .. k
    <3>1. t[n] = <<p, k + 1 - n>> /\ t[n][1] = p
      BY <1>6, <2>3
    <3>2. m - k \in 1 .. Len(s) /\ t[m] = s[m - k]
      BY <1>6, <1>7, <2>3
    <3> QED BY <1>8, <3>1, <3>2
  <2>4. CASE m \notin 1 .. k /\ n \notin 1 .. k
    <3>1. n - k \in 1 .. Len(s) /\ m - k \in 1 .. Len(s) /\ s[m - k] = s[n - k]
      BY <1>6, <1>7, <2>4
    <3>2. m - k = n - k
      BY <2>0, <3>1 DEF Distinct
    <3> QED BY <1>1, <1>5, <3>2
  <2> QED BY <2>1, <2>2, <2>3, <2>4
<1>10. ASSUME NEW x \in Ran(t) PROVE x \in ChunksOf(p, c) \cup Ran(s)
  <2>1. PICK n \in 1 .. Len(t) : t[n] = x
    BY <1>10, RanIs
  <2>2. CASE n \in 1 .. k
    BY <1>2, <1>6, <2>1, <2>2 DEF ChunksOf, k
  <2>3. CASE n \notin 1 .. k
    <3>1. n - k \in 1 .. Len(s) /\ s[n - k] = x
      BY <1>6, <1>7, <2>1, <2>3
    <3> QED BY <3>1, RanIs
  <2> QED BY <2>2, <2>3
<1>11. ASSUME NEW x \in ChunksOf(p, c) PROVE x \in Ran(t)
  <2>1. PICK n \in 1 .. k : x = <<p, n>>
    BY <1>11 DEF ChunksOf, k
  <2>2. k + 1 - n \in 1 .. k /\ k + 1 - (k + 1 - n) = n /\ k + 1 - n \in 1 .. Len(t)
    BY <1>1, <1>5
  <2>3. t[k + 1 - n] = x
    BY <1>6, <2>1, <2>2
  <2> QED BY <2>2, <2>3, RanIs
<1>12. ASSUME NEW x \in Ran(s) PROVE x \in Ran(t)
  <2>1. PICK n \in 1 .. Len(s) : s[n] = x
    BY <1>12, RanIs
  <2>2. n + k \in 1 .. Len(t) /\ t[n + k] = x
    BY <1>1, <1>5, <1>6, <2>1
  <2> QED BY <2>2, RanIs
<1>13. Head(t) = <<p, k>>
  <2>1. t # <<>> /\ 1 \in 1 .. k /\ k + 1 - 1 = k
    BY <1>1, <1>5
  <2>2. Head(t) = t[1]
    BY <1>5, <2>1
  <2> QED BY <1>6, <2>1, <2>2
<1> QED BY <1>5, <1>9, <1>10, <1>11, <1>12, <1>13 DEF t, k, s

-----------------------------------------------------------------------------
(* Parts of the invariant that a step leaves alone.                        *)

LEMMA PagesStay ==
    ASSUME PagesOK, UNCHANGED <<slab_list, mem_limit, mem_malloced>>
    PROVE  PagesOK'
BY DEF PagesOK, Pool, ClassPages, Ran

LEMMA FlagsStay ==
    ASSUME FlagsOK, \A c \in Classes : slab_list'[c] = slab_list[c],
           \A i \in Chunks : flag[i] = "cleared" => flag'[i] = "cleared"
    PROVE  FlagsOK'
BY DEF FlagsOK, In, Ran

LEMMA FreeStay ==
    ASSUME FreeOK, UNCHANGED <<slots, sl_curr>>, \A c \in Classes : slab_list'[c] = slab_list[c],
           \A i \in Chunks : flag'[i] = "slabbed" <=> flag[i] = "slabbed"
    PROVE  FreeOK'
BY DEF FreeOK, Distinct, Ran

LEMMA LinkedStay ==
    ASSUME LinkedOK, \A i \in Chunks : flag'[i] = "linked" => flag[i] = "linked" /\ key'[i] = key[i]
    PROVE  LinkedOK'
BY DEF LinkedOK

LEMMA FreeNext ==
    ASSUME \A d \in Classes :
              /\ sl_curr'[d] = Len(slots'[d]) /\ Distinct(slots'[d])
              /\ Ran(slots'[d]) = {j \in Chunks : flag'[j] = "slabbed" /\ j[1] \in Ran(slab_list'[d])}
    PROVE  FreeOK'
BY DEF FreeOK, Distinct, Ran

\* The mover's page and chunk.
LEMMA MoverIs ==
    ASSUME IInv, signal = 2
    PROVE  /\ s_clsid \in Classes /\ slab_start \in Pages /\ slab_start \in Ran(slab_list[s_clsid])
           /\ slab_pos \in 1 .. PerSlab[s_clsid] /\ PerSlab[s_clsid] \in Nat
           /\ It \in Chunks /\ It[1] = slab_start /\ It[2] = slab_pos /\ In(It, s_clsid) /\ It # None
           /\ \A n \in 1 .. PerSlab[s_clsid] : <<slab_start, n>> \in Chunks
           /\ d_clsid \in Lists /\ d_clsid # s_clsid
<1>1. /\ s_clsid \in Classes /\ d_clsid \in Lists /\ d_clsid # s_clsid
      /\ slab_start = slab_list[s_clsid][1] /\ Len(slab_list[s_clsid]) >= 1
      /\ slab_pos >= 1 /\ slab_pos \in 0 .. PerSlab[s_clsid] /\ PerSlab[s_clsid] \in Nat
  BY ClassesAssumption DEF IInv, MoverOK, TypeOK, Lists, SLAB_GLOBAL_PAGE_POOL
<1>2. slab_list[s_clsid] \in Seq(Pages)
  BY <1>1 DEF IInv, TypeOK
<1>3. slab_start \in Pages /\ slab_start \in Ran(slab_list[s_clsid])
  <2>1. 1 \in 1 .. Len(slab_list[s_clsid])
    BY <1>1, <1>2
  <2> QED BY <1>1, <1>2, <2>1, RanIs
<1>4. slab_pos \in 1 .. PerSlab[s_clsid]
  BY <1>1
<1>5. /\ It \in Chunks /\ It[1] = slab_start /\ It[2] = slab_pos /\ It # None
      /\ \A n \in 1 .. PerSlab[s_clsid] : <<slab_start, n>> \in Chunks
  BY <1>1, <1>3, <1>4, ChunkIs DEF It
<1>6. In(It, s_clsid)
  BY <1>3, <1>4, <1>5 DEF In
<1> QED BY <1>1, <1>3, <1>4, <1>5, <1>6

\* What a user's step has to leave alone for the mover.
LEMMA MoverStays ==
    ASSUME IInv, UNCHANGED rebal,
           \A c \in Classes : Len(slab_list[c]) >= 1 =>
              Len(slab_list'[c]) >= 1 /\ slab_list'[c][1] = slab_list[c][1],
           signal = 2 => \A i \in Chunks : i[1] = slab_start /\ flag[i] = "cleared" => flag'[i] = "cleared",
           mpc = "unlocked" =>
              /\ flag'[It] = flag[It] /\ key'[It] = key[It]
              /\ item_lock'[LockOf[key[It]]] = item_lock[LockOf[key[It]]]
              /\ new_it # None => flag'[new_it] = flag[new_it]
    PROVE  MoverOK'
<1>1. UNCHANGED <<signal, s_clsid, d_clsid, slab_start, slab_pos, busy_items, done, mpc, new_it>>
  BY DEF rebal
<1>2. It' = It
  BY <1>1 DEF It
<1>3. signal \in {1, 2} =>
         s_clsid \in Classes /\ d_clsid # s_clsid /\ Len(slab_list'[s_clsid]) >= 1
         /\ slab_list'[s_clsid][1] = slab_list[s_clsid][1]
  BY DEF IInv, MoverOK
<1>4. signal = 2 => (busy_items > 0 \/ \A n \in 1 .. slab_pos - 1 : flag'[<<slab_start, n>>] = "cleared")
  <2> SUFFICES ASSUME signal = 2, ~(busy_items > 0), NEW n \in 1 .. slab_pos - 1
               PROVE  flag'[<<slab_start, n>>] = "cleared"
    OBVIOUS
  <2>1. <<slab_start, n>> \in Chunks /\ <<slab_start, n>>[1] = slab_start
    BY MoverIs
  <2> QED BY <2>1 DEF IInv, MoverOK
<1>5. done = 1 => \A i \in ChunksOf(slab_start, s_clsid) : flag'[i] = "cleared"
  <2> SUFFICES ASSUME done = 1, NEW i \in ChunksOf(slab_start, s_clsid) PROVE flag'[i] = "cleared"
    OBVIOUS
  <2>1. signal = 2 /\ flag[i] = "cleared"
    BY DEF IInv, MoverOK, ClearWhenDone
  <2>2. i \in Chunks /\ i[1] = slab_start
    BY <2>1, MoverIs DEF ChunksOf
  <2> QED BY <2>1, <2>2
<1> QED BY <1>1, <1>2, <1>3, <1>4, <1>5 DEF IInv, MoverOK, ClearWhenDone, ChunksOf
-----------------------------------------------------------------------------
(* Counting references.                                                    *)

Holding(i) == {u \in Users : mine[u] = i /\ pc[u] # "freeing"}
Linked(i) == IF flag[i] = "linked" THEN 1 ELSE 0
Moved(i) == IF mpc = "unlocked" /\ i \in {It, new_it} THEN 1 ELSE 0
Has(u, i) == IF mine[u] = i /\ pc[u] # "freeing" THEN 1 ELSE 0

LEMMA CountsAre ==
    MoverCountsExact <=>
        \A i \in Chunks : Live(i) => refcount[i] = Cardinality(Holding(i)) + Linked(i) + Moved(i)
BY DEF MoverCountsExact, Holding, Linked, Moved

LEMMA CountsAreNext ==
    MoverCountsExact' <=>
        \A i \in Chunks : Live(i)' => refcount'[i] = Cardinality(Holding(i)') + Linked(i)' + Moved(i)'
<1>1. (MoverCountsExact <=>
        \A i \in Chunks : Live(i) => refcount[i] = Cardinality(Holding(i)) + Linked(i) + Moved(i))'
  BY CountsAre, PTL
<1> QED BY <1>1

LEMMA HoldingIs ==
    ASSUME NEW i
    PROVE  /\ IsFiniteSet(Holding(i)) /\ Cardinality(Holding(i)) \in Nat
           /\ Cardinality(Holding(i)) = 0 <=> \A u \in Users : Has(u, i) = 0
           /\ Linked(i) \in 0 .. 1 /\ Moved(i) \in 0 .. 1
<1>1. IsFiniteSet(Holding(i))
  BY FiniteAssumption, FS_Subset DEF Holding
<1>2. Cardinality(Holding(i)) \in Nat /\ (Cardinality(Holding(i)) = 0 <=> Holding(i) = {})
  BY <1>1, FS_CardinalityType, FS_EmptySet
<1>3. Holding(i) = {} <=> \A u \in Users : Has(u, i) = 0
  BY DEF Holding, Has
<1>4. Linked(i) \in 0 .. 1 /\ Moved(i) \in 0 .. 1
  BY DEF Linked, Moved
<1> QED BY <1>1, <1>2, <1>3, <1>4

\* A step of u only.
LEMMA HoldingChange ==
    ASSUME NEW u \in Users, \A v \in Users \ {u} : mine'[v] = mine[v] /\ pc'[v] = pc[v], NEW i
    PROVE  Cardinality(Holding(i)') = Cardinality(Holding(i)) - Has(u, i) + Has(u, i)'
<1> DEFINE R == {v \in Users : mine[v] = i /\ pc[v] # "freeing" /\ v # u}
<1>1. IsFiniteSet(R) /\ Cardinality(R) \in Nat /\ u \notin R
  BY FiniteAssumption, FS_Subset, FS_CardinalityType
<1>2. Cardinality(R \cup {u}) = Cardinality(R) + 1
  BY <1>1, FS_AddElement
<1>3. Cardinality(Holding(i)) = Cardinality(R) + Has(u, i)
  <2>1. CASE mine[u] = i /\ pc[u] # "freeing"
    <3>1. Holding(i) = R \cup {u} /\ Has(u, i) = 1
      BY <2>1 DEF Holding, Has
    <3> QED BY <1>2, <3>1
  <2>2. CASE ~(mine[u] = i /\ pc[u] # "freeing")
    <3>1. Holding(i) = R /\ Has(u, i) = 0
      BY <2>2 DEF Holding, Has
    <3>2. Cardinality(R) + 0 = Cardinality(R)
      BY <1>1
    <3> QED BY <3>1, <3>2
  <2> QED BY <2>1, <2>2
<1>4. Cardinality(Holding(i)') = Cardinality(R) + Has(u, i)'
  <2>1. CASE mine'[u] = i /\ pc'[u] # "freeing"
    <3>1. Holding(i)' = R \cup {u} /\ Has(u, i)' = 1
      BY <2>1 DEF Holding, Has
    <3> QED BY <1>2, <3>1
  <2>2. CASE ~(mine'[u] = i /\ pc'[u] # "freeing")
    <3>1. Holding(i)' = R /\ Has(u, i)' = 0
      BY <2>2 DEF Holding, Has
    <3>2. Cardinality(R) + 0 = Cardinality(R)
      BY <1>1
    <3> QED BY <3>1, <3>2
  <2> QED BY <2>1, <2>2
<1>5. Has(u, i) \in 0 .. 1 /\ Has(u, i)' \in 0 .. 1
  BY DEF Has
<1> QED BY <1>1, <1>3, <1>4, <1>5

-----------------------------------------------------------------------------
(* Keys that are linked stay linked.                                       *)

KeysStay == \A k \in Keys : Find(k) # {} => Find(k)' # {}

LEMMA LinksKeepKeys ==
    ASSUME \A j \in Chunks : flag[j] = "linked" => flag'[j] = "linked" /\ key'[j] = key[j]
    PROVE  KeysStay
BY DEF KeysStay, Find
-----------------------------------------------------------------------------
(* The users' steps.                                                       *)

LEMMA UserIs ==
    ASSUME IInv, NEW u \in Users, mine[u] # None \/ pc[u] # "idle"
    PROVE  /\ mine[u] \in Chunks /\ mine[u] # None /\ pc[u] # "idle" /\ want[u] \in Keys
           /\ key[mine[u]] = want[u] /\ Live(mine[u]) /\ LockOf[want[u]] \in Locks
BY LocksAssumption DEF IInv, TypeOK, UsersOK, UserOK

\* While it has given up slabs_lock, the mover's chunks are in use.
LEMMA MovedIs ==
    ASSUME IInv, mpc = "unlocked"
    PROVE  /\ signal = 2 /\ It \in Chunks /\ flag[It] = "linked" /\ key[It] \in Keys
           /\ LockOf[key[It]] \in Locks /\ item_lock[LockOf[key[It]]] = Mover
           /\ new_it # None => new_it \in Chunks /\ flag[new_it] = "none"
<1>1. signal = 2 /\ flag[It] = "linked" /\ item_lock[LockOf[key[It]]] = Mover
      /\ (new_it # None => flag[new_it] = "none")
  BY DEF IInv, MoverOK
<1>2. It \in Chunks /\ (new_it # None => new_it \in Chunks)
  BY <1>1, MoverIs DEF IInv, TypeOK
<1> QED BY <1>1, <1>2, LocksAssumption DEF IInv, LinkedOK

\* A chunk that is not in use becomes the item of u.
LEMMA TakenKeeps ==
    ASSUME IInv, NEW u \in Users, pc[u] = "idle", NEW k \in Keys, NEW i \in Chunks, ~Live(i),
           Taken(u, k, i), flag'[i] = "none",
           flag' \in [Chunks -> {"slabbed", "cleared", "linked", "none"}],
           \A j \in Chunks \ {i} : (Live(j) \/ Live(j)') => flag'[j] = flag[j]
    PROVE  UsersOK' /\ LinkedOK' /\ MoverCountsExact'
<1> USE DEF Set
<1>1. /\ refcount' = [refcount EXCEPT ![i] = 1] /\ key' = [key EXCEPT ![i] = k]
      /\ want' = [want EXCEPT ![u] = k] /\ mine' = [mine EXCEPT ![u] = i] /\ pc' = [pc EXCEPT ![u] = "filled"]
      /\ item_lock' = item_lock /\ UNCHANGED rebal
  BY DEF Taken
<1>2. UNCHANGED <<mpc, new_it>> /\ It' = It /\ i # None
  BY <1>1, ChunkIs DEF rebal, It
<1>3. \A v \in Users : mine[v] # i
  BY UserIs, ChunkIs
<1>4. mpc = "unlocked" => i \notin {It, new_it}
  BY <1>2, MovedIs DEF Live
<1>5. mine[u] = None
  BY DEF IInv, UsersOK, UserOK
<1>6. UsersOK'
  <2> SUFFICES ASSUME NEW v \in Users PROVE UserOK(v)'
    BY DEF UsersOK
  <2>1. CASE v = u
    BY <1>1, <1>2, <1>3, <1>4, <2>1 DEF UserOK, IInv, TypeOK, Live
  <2>2. CASE v # u
    <3>1. pc'[v] = pc[v] /\ want'[v] = want[v] /\ mine'[v] = mine[v] /\ UserOK(v)
      BY <1>1, <2>2 DEF IInv, TypeOK, UsersOK
    <3>2. mine[v] # None => flag'[mine[v]] = flag[mine[v]] /\ key'[mine[v]] = key[mine[v]]
      BY <1>1, <1>3, UserIs DEF IInv, TypeOK
    <3>3. pc[v] # "idle" => \A w \in Users : mine'[w] = mine[v] => mine[w] = mine[v]
      BY <1>1, <1>3, UserIs DEF IInv, TypeOK
    <3> QED BY <1>1, <1>2, <3>1, <3>2, <3>3 DEF UserOK, Live
  <2> QED BY <2>1, <2>2
<1>7. LinkedOK'
  <2>1. \A j \in Chunks : flag'[j] = "linked" => flag[j] = "linked" /\ key'[j] = key[j]
    BY <1>1 DEF Live, IInv, TypeOK
  <2> QED BY <2>1, LinkedStay DEF IInv
<1>8. MoverCountsExact'
  <2> SUFFICES ASSUME NEW j \in Chunks, Live(j)'
               PROVE  refcount'[j] = Cardinality(Holding(j)') + Linked(j)' + Moved(j)'
    BY CountsAreNext
  <2>1. Cardinality(Holding(j)') = Cardinality(Holding(j)) - Has(u, j) + Has(u, j)'
    BY <1>1, HoldingChange DEF IInv, TypeOK
  <2>2. Has(u, j) = 0 /\ Has(u, j)' = (IF j = i THEN 1 ELSE 0)
    BY <1>1, <1>5, ChunkIs DEF Has, IInv, TypeOK
  <2>3. Moved(j)' = Moved(j)
    BY <1>2 DEF Moved
  <2>4. CASE j = i
    <3>1. Cardinality(Holding(i)) = 0
      BY <1>3, HoldingIs DEF Has
    <3>2. Linked(j)' = 0 /\ Moved(j) = 0
      BY <1>4, <2>4 DEF Linked, Moved
    <3> QED BY <1>1, <2>1, <2>2, <2>3, <2>4, <3>1, <3>2 DEF IInv, TypeOK
  <2>5. CASE j # i
    <3>1. Live(j) /\ Linked(j)' = Linked(j) /\ refcount'[j] = refcount[j]
      BY <1>1, <2>5 DEF Live, Linked, IInv, TypeOK
    <3>2. refcount[j] = Cardinality(Holding(j)) + Linked(j) + Moved(j)
      BY <3>1, CountsAre DEF IInv
    <3> QED BY <2>1, <2>2, <2>3, <2>5, <3>1, <3>2, HoldingIs
  <2> QED BY <2>4, <2>5
<1> QED BY <1>6, <1>7, <1>8

LEMMA TakenTypes ==
    ASSUME IInv, NEW u \in Users, NEW k \in Keys, NEW i \in Chunks, Taken(u, k, i)
    PROVE  /\ refcount' \in [Chunks -> Nat] /\ key' \in [Chunks -> Keys \cup {None}]
           /\ pitem' \in [Chunks -> Chunks \cup {None}] /\ item_lock' \in [Locks -> Users \cup {Mover, None}]
           /\ pc' \in [Users -> {"idle", "filled", "storing", "hold", "freeing"}]
           /\ want' \in [Users -> Keys \cup {None}] /\ mine' \in [Users -> Chunks \cup {None}]
           /\ failed' = failed /\ mem_limit' = mem_limit /\ UNCHANGED rebal
BY DEF IInv, TypeOK, Taken, Set

\* The types of the mover's variables.
LEMMA RebalTypes ==
    ASSUME TypeOK, UNCHANGED rebal
    PROVE  /\ (signal \in 0 .. 2 /\ done \in 0 .. 1)'
           /\ (s_clsid \in Classes \cup {0} /\ d_clsid \in Classes \cup {0})'
           /\ (slab_start \in Pages \cup {None})'
           /\ (slab_pos \in 0 .. (IF signal = 2 THEN PerSlab[s_clsid] ELSE 0))'
           /\ (busy_items \in Nat)'
           /\ (mpc \in {"locked", "unlocked"} /\ new_it \in Chunks \cup {None})'
BY DEF TypeOK, rebal

LEMMA AllocFreeKeeps ==
    ASSUME IInv, NEW u \in Users, NEW k \in Keys, NEW c \in Classes, AllocFree(u, k, c)
    PROVE  IInv' /\ KeysStay
<1> USE DEF Set
<1> DEFINE i == Head(slots[c])
<1>1. /\ slots[c] \in Seq(Chunks) /\ Distinct(slots[c]) /\ sl_curr[c] = Len(slots[c]) /\ Len(slots[c]) >= 1
      /\ Ran(slots[c]) = {j \in Chunks : flag[j] = "slabbed" /\ j[1] \in Ran(slab_list[c])}
  BY SMTT(30) DEF IInv, TypeOK, FreeOK, AllocFree
<1>2. /\ Tail(slots[c]) \in Seq(Chunks) /\ Len(Tail(slots[c])) = Len(slots[c]) - 1 /\ Distinct(Tail(slots[c]))
      /\ i \in Ran(slots[c]) /\ i \in Chunks
      /\ Ran(Tail(slots[c])) = Ran(slots[c]) \ {i}
  BY <1>1, TailQ
<1> HIDE DEF i
<1>3. flag[i] = "slabbed" /\ i[1] \in Ran(slab_list[c]) /\ ~Live(i)
  BY <1>1, <1>2 DEF Live
<1>4. /\ slots' = [slots EXCEPT ![c] = Tail(slots[c])] /\ sl_curr' = [sl_curr EXCEPT ![c] = sl_curr[c] - 1]
      /\ flag' = [flag EXCEPT ![i] = "none"] /\ Taken(u, k, i)
      /\ UNCHANGED <<slab_list, mem_malloced>> /\ pc[u] = "idle"
  BY DEF AllocFree, i
<1>5. flag' \in [Chunks -> {"slabbed", "cleared", "linked", "none"}]
  BY <1>4 DEF IInv, TypeOK
<1>6. TypeOK' /\ ~failed'
  <2>1. slots' \in [Classes -> Seq(Chunks)] /\ sl_curr' \in [Classes -> Nat]
    BY <1>1, <1>2, <1>4 DEF IInv, TypeOK
  <2>2. TypeOK
    BY DEF IInv
  <2> QED BY <1>2, <1>4, <1>5, <2>1, <2>2, TakenTypes, RebalTypes DEF IInv, TypeOK
<1>7. PagesOK'
  BY <1>4, PagesStay DEF IInv, Taken
<1>8. FlagsOK'
  <2>1. \A j \in Chunks : flag[j] = "cleared" => flag'[j] = "cleared"
    BY <1>3, <1>4 DEF IInv, TypeOK
  <2> QED BY <1>4, <2>1, FlagsStay DEF IInv
<1>9. FreeOK'
  <2> SUFFICES ASSUME NEW d \in Classes
               PROVE /\ sl_curr'[d] = Len(slots'[d]) /\ Distinct(slots'[d])
                     /\ Ran(slots'[d]) = {j \in Chunks : flag'[j] = "slabbed" /\ j[1] \in Ran(slab_list'[d])}
    BY FreeNext
  <2>1. \A j \in Chunks : flag'[j] = "slabbed" <=> flag[j] = "slabbed" /\ j # i
    BY <1>2, <1>4 DEF IInv, TypeOK
  <2>2. CASE d = c
    <3>1. slots'[d] = Tail(slots[c]) /\ sl_curr'[d] = Len(slots[c]) - 1
      BY <1>1, <1>4, <2>2 DEF IInv, TypeOK
    <3> QED BY <1>1, <1>2, <1>4, <2>1, <2>2, <3>1
  <2>3. CASE d # c
    <3>1. slots'[d] = slots[d] /\ sl_curr'[d] = sl_curr[d]
      BY <1>4, <2>3 DEF IInv, TypeOK
    <3>2. i[1] \notin Ran(slab_list[d])
      BY <1>3, <2>3, OneOwner DEF IInv, Lists
    <3>3. /\ sl_curr[d] = Len(slots[d]) /\ Distinct(slots[d])
          /\ Ran(slots[d]) = {j \in Chunks : flag[j] = "slabbed" /\ j[1] \in Ran(slab_list[d])}
      BY DEF IInv, FreeOK
    <3> QED BY <1>4, <2>1, <3>1, <3>2, <3>3
  <2> QED BY <2>2, <2>3
<1>10. UsersOK' /\ LinkedOK' /\ MoverCountsExact'
  BY <1>2, <1>3, <1>4, <1>5, TakenKeeps DEF IInv, TypeOK
<1>11. MoverOK'
  <2>1. mpc = "unlocked" => i # It /\ i # new_it /\ flag'[It] = flag[It]
                            /\ (new_it # None => flag'[new_it] = flag[new_it])
    <3> SUFFICES ASSUME mpc = "unlocked"
                 PROVE  i # It /\ i # new_it /\ flag'[It] = flag[It] /\ (new_it # None => flag'[new_it] = flag[new_it])
      OBVIOUS
    <3>1. It \in Chunks /\ flag[It] = "linked" /\ (new_it # None => new_it \in Chunks /\ flag[new_it] = "none")
      BY MovedIs
    <3>2. i # It /\ i # new_it
      BY <1>2, <1>3, <3>1, ChunkIs
    <3> QED BY <1>4, <3>1, <3>2 DEF IInv, TypeOK
  <2>2. mpc = "unlocked" => key'[It] = key[It]
    BY <1>4, <2>1, MovedIs DEF Taken, IInv, TypeOK
  <2>3. \A j \in Chunks : flag[j] = "cleared" => flag'[j] = "cleared"
    BY <1>3, <1>4 DEF IInv, TypeOK
  <2> QED BY <1>4, <2>1, <2>2, <2>3, MoverStays DEF Taken
<1>12. KeysStay
  <2>1. \A j \in Chunks : flag[j] = "linked" => flag'[j] = "linked" /\ key'[j] = key[j]
    BY <1>2, <1>3, <1>4 DEF Taken, IInv, TypeOK
  <2> QED BY <2>1, LinksKeepKeys
<1> QED BY <1>12, <1>6, <1>7, <1>8, <1>9, <1>10, <1>11 DEF IInv

LEMMA ClassPagesIs ==
    ASSUME TypeOK
    PROVE  /\ IsFiniteSet(ClassPages) /\ Cardinality(ClassPages) \in Nat /\ ClassPages \subseteq Pages
           /\ \A p : p \in ClassPages <=> \E c \in Classes : p \in Ran(slab_list[c])
<1>1. \A p : p \in ClassPages <=> \E c \in Classes : p \in Ran(slab_list[c])
  BY DEF ClassPages
<1>2. ClassPages \subseteq Pages
  <2> SUFFICES ASSUME NEW c \in Classes PROVE Ran(slab_list[c]) \subseteq Pages
    BY <1>1
  <2>1. slab_list[c] \in Seq(Pages)
    BY DEF TypeOK
  <2> QED BY <2>1 DEF Ran
<1> QED BY <1>1, <1>2, FiniteAssumption, FS_Subset, FS_CardinalityType

\* Chunks of a page that no class owns are cleared.
LEMMA UnownedCleared ==
    ASSUME IInv, NEW p, p \notin ClassPages, NEW i \in Chunks, i[1] = p
    PROVE  flag[i] = "cleared"
BY ClassPagesIs DEF IInv, FlagsOK, In

\* A page joins class c, from the pool or from malloc.
Joins(p, c) ==
    IF Pool # <<>>
    THEN /\ p = Pool[Len(Pool)]
         /\ slab_list' = [slab_list EXCEPT ![SLAB_GLOBAL_PAGE_POOL] = Shrunk(@, 1), ![c] = Append(@, p)]
         /\ UNCHANGED mem_malloced
    ELSE /\ mem_malloced + 1 <= mem_limit
         /\ p \notin Owned
         /\ slab_list' = [slab_list EXCEPT ![c] = Append(slab_list[c], p)]
         /\ mem_malloced' = mem_malloced + 1

LEMMA JoinsKeeps ==
    ASSUME IInv, NEW p \in Pages, NEW c \in Classes, Joins(p, c), mem_limit' = mem_limit
    PROVE  /\ PagesOK' /\ p \notin ClassPages
           /\ slab_list' \in [Lists -> Seq(Pages)] /\ mem_malloced' \in Nat
           /\ slab_list'[c] = Append(slab_list[c], p)
           /\ \A d \in Classes \ {c} : slab_list'[d] = slab_list[d]
<1> DEFINE Z == SLAB_GLOBAL_PAGE_POOL
           L == slab_list
<1>1. /\ c \in Lists /\ Z \in Lists /\ c # Z /\ Z \notin Classes /\ L \in [Lists -> Seq(Pages)]
      /\ mem_malloced \in Nat /\ mem_limit \in Nat /\ TypeOK /\ PagesOK
  BY ClassesAssumption, LimitsAssumption DEF Lists, SLAB_GLOBAL_PAGE_POOL, IInv, TypeOK
<1>2. L[c] \in Seq(Pages) /\ L[Z] \in Seq(Pages) /\ Pool = L[Z] /\ Len(L[c]) \in Nat /\ Len(L[Z]) \in Nat
  BY <1>1 DEF Pool
<1>3. L'[c] = Append(L[c], p) /\ (\A d \in Classes \ {c} : L'[d] = L[d]) /\ L' \in [Lists -> Seq(Pages)]
  <2>1. Append(L[c], p) \in Seq(Pages)
    BY <1>2, AppendQ
  <2>2. Len(L[Z]) >= 1 => Shrunk(L[Z], 1) \in Seq(Pages)
    BY <1>2, ShrunkQ
  <2>3. Pool # <<>> => Len(L[Z]) >= 1
    BY <1>2
  <2> QED BY <1>1, <1>2, <2>1, <2>2, <2>3 DEF Joins, Lists
<1>4. \A d \in Lists : \A m \in 1 .. Len(L[d]) : L[d][m] \in Ran(L[d])
  BY RanIs
<1>5. L'[c] \in Seq(Pages) /\ Len(L'[c]) = Len(L[c]) + 1 /\ L'[c][Len(L[c]) + 1] = p
      /\ (\A n \in 1 .. Len(L[c]) : L'[c][n] = L[c][n]) /\ Ran(L'[c]) = Ran(L[c]) \cup {p}
  BY <1>2, <1>3, AppendQ
<1>6. /\ p \notin ClassPages
      /\ \A d \in Lists : \A m \in 1 .. Len(L'[d]) :
            \/ d = c /\ m = Len(L[c]) + 1 /\ L'[d][m] = p
            \/ m \in 1 .. Len(L[d]) /\ L'[d][m] = L[d][m] /\ L[d][m] # p
  <2>1. CASE Pool # <<>>
    <3>1. Len(L[Z]) \in 1 .. Len(L[Z]) /\ p = L[Z][Len(L[Z])]
      BY <1>2, <2>1 DEF Joins
    <3>2. L'[Z] = Shrunk(L[Z], 1)
      BY <1>1, <2>1 DEF Joins
    <3>3. Len(L'[Z]) = Len(L[Z]) - 1 /\ \A m \in 1 .. Len(L[Z]) - 1 : L'[Z][m] = L[Z][m]
      <4>1. 1 \in 0 .. Len(L[Z])
        BY <1>2, <3>1
      <4> QED BY SMTT(30), <1>2, <3>2, <4>1, ShrunkQ
    <3>4. \A d \in Lists : \A m \in 1 .. Len(L[d]) : L[d][m] = p => d = Z /\ m = Len(L[Z])
      BY <1>1, <3>1 DEF PagesOK
    <3>5. p \notin ClassPages
      BY <1>1, <3>4, ClassPagesIs, RanIs DEF Lists
    <3>6. ASSUME NEW d \in Lists, NEW m \in 1 .. Len(L'[d])
          PROVE  \/ d = c /\ m = Len(L[c]) + 1 /\ L'[d][m] = p
                 \/ m \in 1 .. Len(L[d]) /\ L'[d][m] = L[d][m] /\ L[d][m] # p
      <4>1. CASE d = c
        <5>1. m = Len(L[c]) + 1 \/ m \in 1 .. Len(L[c])
          BY <1>2, <1>5, <4>1
        <5> QED BY <1>1, <1>5, <3>4, <4>1, <5>1
      <4>2. CASE d = Z
        <5>1. m \in 1 .. Len(L[Z]) - 1 /\ m \in 1 .. Len(L[Z]) /\ m # Len(L[Z])
          BY <1>2, <3>3, <4>2
        <5> QED BY <3>3, <3>4, <4>2, <5>1
      <4>3. CASE d # c /\ d # Z
        <5>1. d \in Classes \ {c}
          BY <4>3 DEF Lists
        <5> QED BY <1>3, <3>4, <4>3, <5>1
      <4> QED BY <4>1, <4>2, <4>3
    <3> QED BY <3>5, <3>6
  <2>2. CASE Pool = <<>>
    <3>1. \A d \in Lists : p \notin Ran(L[d])
      BY <1>1, <2>2 DEF Joins, Owned
    <3>2. p \notin ClassPages
      BY <1>1, <3>1, ClassPagesIs DEF Lists
    <3>3. \A d \in Lists \ {c} : L'[d] = L[d]
      BY <1>1, <2>2 DEF Joins
    <3>4. ASSUME NEW d \in Lists, NEW m \in 1 .. Len(L'[d])
          PROVE  \/ d = c /\ m = Len(L[c]) + 1 /\ L'[d][m] = p
                 \/ m \in 1 .. Len(L[d]) /\ L'[d][m] = L[d][m] /\ L[d][m] # p
      <4>1. CASE d = c
        <5>1. m = Len(L[c]) + 1 \/ m \in 1 .. Len(L[c])
          BY <1>2, <1>5, <4>1
        <5> QED BY <1>1, <1>4, <1>5, <3>1, <4>1, <5>1
      <4>2. CASE d # c
        BY <1>4, <3>1, <3>3, <4>2
      <4> QED BY <4>1, <4>2
    <3> QED BY <3>2, <3>4
  <2> QED BY <2>1, <2>2
<1>7. \A d, e \in Lists : \A m \in 1 .. Len(L'[d]), n \in 1 .. Len(L'[e]) :
         L'[d][m] = L'[e][n] => d = e /\ m = n
  <2> SUFFICES ASSUME NEW d \in Lists, NEW e \in Lists, NEW m \in 1 .. Len(L'[d]),
                      NEW n \in 1 .. Len(L'[e]), L'[d][m] = L'[e][n]
               PROVE  d = e /\ m = n
    OBVIOUS
  <2>0. /\ \/ d = c /\ m = Len(L[c]) + 1 /\ L'[d][m] = p
           \/ m \in 1 .. Len(L[d]) /\ L'[d][m] = L[d][m] /\ L[d][m] # p
        /\ \/ e = c /\ n = Len(L[c]) + 1 /\ L'[e][n] = p
           \/ n \in 1 .. Len(L[e]) /\ L'[e][n] = L[e][n] /\ L[e][n] # p
    BY <1>6
  <2>1. CASE L'[d][m] = p
    BY <2>0, <2>1
  <2>2. CASE L'[d][m] # p
    <3>1. m \in 1 .. Len(L[d]) /\ n \in 1 .. Len(L[e]) /\ L[d][m] = L[e][n]
      BY <2>0, <2>2
    <3> QED BY <1>1, <3>1 DEF PagesOK
  <2> QED BY <2>1, <2>2
<1>8. mem_malloced' = Cardinality(ClassPages') + Len(Pool') /\ mem_malloced' \in Nat
  <2>1. ClassPages' = ClassPages \cup {p}
    <3>1. \A x : x \in ClassPages' <=> \E d \in Classes : x \in Ran(L'[d])
      BY DEF ClassPages, Ran
    <3>2. \A x : (\E d \in Classes : x \in Ran(L'[d])) <=> x = p \/ \E d \in Classes : x \in Ran(L[d])
      BY <1>3, <1>5
    <3> QED BY <1>1, <3>1, <3>2, ClassPagesIs
  <2>2. Cardinality(ClassPages') = Cardinality(ClassPages) + 1 /\ Cardinality(ClassPages) \in Nat
    BY <1>1, <1>6, <2>1, ClassPagesIs, FS_AddElement
  <2>3. Pool' = L'[Z] /\ mem_malloced = Cardinality(ClassPages) + Len(L[Z])
    BY <1>1, <1>2 DEF Pool, PagesOK, SLAB_GLOBAL_PAGE_POOL
  <2>4. CASE Pool # <<>>
    <3>1. L'[Z] = Shrunk(L[Z], 1) /\ mem_malloced' = mem_malloced /\ Len(L[Z]) >= 1
      BY <1>1, <1>2, <2>4 DEF Joins
    <3>2. Len(L'[Z]) = Len(L[Z]) - 1
      <4>1. 1 \in 0 .. Len(L[Z])
        BY <1>2, <3>1
      <4> QED BY <1>2, <3>1, <4>1, ShrunkQ
    <3>3. mem_malloced = Cardinality(ClassPages') + Len(L'[Z])
      BY <1>2, <2>2, <2>3, <3>2
    <3> QED BY <1>1, <2>3, <3>1, <3>3
  <2>5. CASE Pool = <<>>
    <3>1. Len(L'[Z]) = Len(L[Z]) /\ mem_malloced' = mem_malloced + 1
      BY <1>1, <2>5 DEF Joins
    <3> QED BY <1>1, <1>2, <2>2, <2>3, <3>1
  <2> QED BY <2>4, <2>5
<1>9. mem_malloced' > mem_limit' => Pool' = <<>>
  <2>1. CASE Pool # <<>>
    BY <1>1, <2>1 DEF Joins, PagesOK
  <2>2. CASE Pool = <<>>
    BY <1>1, <2>2 DEF Joins
  <2> QED BY <2>1, <2>2
<1> QED BY <1>3, <1>6, <1>7, <1>8, <1>9 DEF PagesOK

LEMMA AllocNewPageKeeps ==
    ASSUME IInv, NEW u \in Users, NEW k \in Keys, NEW c \in Classes, AllocNewPage(u, k, c)
    PROVE  IInv' /\ KeysStay
<1> USE DEF Set
<1>1. PICK p \in Pages :
         /\ Joins(p, c)
         /\ slots' = [slots EXCEPT ![c] = Tail(Split(p, c))]
         /\ sl_curr' = [sl_curr EXCEPT ![c] = PerSlab[c] - 1]
         /\ flag' = [SplitFlags(p, c) EXCEPT ![Head(Split(p, c))] = "none"]
         /\ Taken(u, k, Head(Split(p, c)))
  BY DEF AllocNewPage, Joins
<1>2. mem_limit' = mem_limit /\ failed' = failed /\ UNCHANGED rebal /\ item_lock' = item_lock
      /\ pc[u] = "idle" /\ sl_curr[c] = 0
  BY <1>1 DEF Taken, AllocNewPage
<1>3. /\ PagesOK' /\ p \notin ClassPages
      /\ slab_list' \in [Lists -> Seq(Pages)] /\ mem_malloced' \in Nat
      /\ slab_list'[c] = Append(slab_list[c], p)
      /\ \A d \in Classes \ {c} : slab_list'[d] = slab_list[d]
  BY <1>1, <1>2, JoinsKeeps
<1>4. /\ slots[c] \in Seq(Chunks) /\ Distinct(slots[c]) /\ Len(slots[c]) = 0 /\ Ran(slots[c]) = {}
      /\ Ran(slots[c]) = {j \in Chunks : flag[j] = "slabbed" /\ j[1] \in Ran(slab_list[c])}
  <2>1. slots[c] \in Seq(Chunks) /\ Distinct(slots[c]) /\ Len(slots[c]) = 0
        /\ Ran(slots[c]) = {j \in Chunks : flag[j] = "slabbed" /\ j[1] \in Ran(slab_list[c])}
    BY <1>2 DEF IInv, TypeOK, FreeOK
  <2>2. Ran(slots[c]) = {}
    BY <2>1 DEF Ran
  <2> QED BY <2>1, <2>2
<1> DEFINE t == Split(p, c)
           i == <<p, PerSlab[c]>>
<1>5. /\ t \in Seq(Chunks) /\ Len(t) = PerSlab[c] /\ Distinct(t) /\ Ran(t) = ChunksOf(p, c) /\ Head(t) = i
      /\ PerSlab[c] \in Nat \ {0}
  <2>1. \A j \in Ran(slots[c]) : j[1] # p
    BY <1>4
  <2>2. /\ t \in Seq(Chunks) /\ Len(t) = PerSlab[c] + Len(slots[c]) /\ Distinct(t)
        /\ Ran(t) = ChunksOf(p, c) \cup Ran(slots[c]) /\ Head(t) = i
    BY <1>4, <2>1, SplitQ
  <2>3. PerSlab[c] \in Nat \ {0}
    BY ClassesAssumption
  <2> HIDE DEF t, i
  <2>4. Len(t) = PerSlab[c]
    BY <1>4, <2>2, <2>3
  <2> QED BY <1>4, <2>2, <2>3, <2>4
<1>6. /\ Tail(t) \in Seq(Chunks) /\ Len(Tail(t)) = PerSlab[c] - 1 /\ Distinct(Tail(t))
      /\ Ran(Tail(t)) = ChunksOf(p, c) \ {i} /\ i \in ChunksOf(p, c)
  BY <1>5, TailQ
<1>7. i \in Chunks /\ i[1] = p
  BY <1>5, ChunkIs
<1> HIDE DEF t, i
<1>8. flag' = [SplitFlags(p, c) EXCEPT ![i] = "none"] /\ Taken(u, k, i) /\ slots' = [slots EXCEPT ![c] = Tail(t)]
  BY <1>1, <1>5 DEF t
<1>9. \A j \in Chunks : j \in ChunksOf(p, c) <=> j[1] = p /\ j[2] <= PerSlab[c]
  BY ChunkIs
<1>10. \A j \in Chunks : j[1] = p => flag[j] = "cleared"
  BY <1>3, UnownedCleared
<1>11. /\ flag' \in [Chunks -> {"slabbed", "cleared", "linked", "none"}] /\ flag'[i] = "none"
       /\ \A j \in Chunks \ {i} : flag'[j] = IF j \in ChunksOf(p, c) THEN "slabbed" ELSE flag[j]
  BY <1>7, <1>8 DEF SplitFlags, IInv, TypeOK
<1>12. flag[i] = "cleared" /\ ~Live(i)
  BY <1>7, <1>10 DEF Live
<1>13. Ran(slab_list'[c]) = Ran(slab_list[c]) \cup {p} /\ p \notin Ran(slab_list[c])
  <2>1. slab_list[c] \in Seq(Pages)
    BY DEF IInv, TypeOK
  <2> QED BY <1>3, <2>1, AppendQ, ClassPagesIs DEF IInv
<1>14. \A d \in Classes : Ran(slab_list[d]) \subseteq Ran(slab_list'[d])
  BY <1>3, <1>13
<1>15. TypeOK' /\ ~failed'
  <2>1. slots' \in [Classes -> Seq(Chunks)] /\ sl_curr' \in [Classes -> Nat]
    <3>1. PerSlab[c] - 1 \in Nat
      BY <1>5
    <3>2. sl_curr' \in [Classes -> Nat]
      BY <1>1, <3>1 DEF IInv, TypeOK
    <3>3. slots' \in [Classes -> Seq(Chunks)]
      BY <1>6, <1>8 DEF IInv, TypeOK
    <3> QED BY <3>2, <3>3
  <2>2. TypeOK
    BY DEF IInv
  <2> QED BY <1>2, <1>3, <1>7, <1>8, <1>11, <2>1, <2>2, TakenTypes, RebalTypes DEF IInv, TypeOK, Lists
<1>16. FlagsOK'
  <2> SUFFICES ASSUME NEW j \in Chunks, flag'[j] # "cleared"
               PROVE  \E d \in Classes : j[1] \in Ran(slab_list'[d]) /\ j[2] <= PerSlab[d]
    BY DEF FlagsOK, In, Ran
  <2>1. CASE j \in ChunksOf(p, c)
    BY <1>9, <1>13, <2>1
  <2>2. CASE j \notin ChunksOf(p, c)
    <3>1. flag[j] # "cleared"
      BY <1>6, <1>11, <2>2
    <3>2. PICK d \in Classes : In(j, d)
      BY <3>1 DEF IInv, FlagsOK
    <3> QED BY <1>14, <3>2 DEF In
  <2> QED BY <2>1, <2>2
<1>17. FreeOK'
  <2> SUFFICES ASSUME NEW d \in Classes
               PROVE /\ sl_curr'[d] = Len(slots'[d]) /\ Distinct(slots'[d])
                     /\ Ran(slots'[d]) = {j \in Chunks : flag'[j] = "slabbed" /\ j[1] \in Ran(slab_list'[d])}
    BY FreeNext
  <2>1. \A j \in Chunks : flag'[j] = "slabbed" <=> j # i /\ (j \in ChunksOf(p, c) \/ flag[j] = "slabbed")
    BY <1>11, <1>12
  <2>2. CASE d = c
    <3>1. slots'[d] = Tail(t) /\ sl_curr'[d] = PerSlab[c] - 1
      BY <1>1, <1>8, <2>2 DEF IInv, TypeOK
    <3>2. \A j \in Chunks : flag'[j] = "slabbed" /\ j[1] \in Ran(slab_list'[c]) <=> j \in ChunksOf(p, c) \ {i}
      BY <1>4, <1>9, <1>10, <1>13, <2>1
    <3>3. ChunksOf(p, c) \subseteq Chunks
      BY ChunkIs DEF ChunksOf
    <3> QED BY <1>6, <2>2, <3>1, <3>2, <3>3
  <2>3. CASE d # c
    <3>1. slots'[d] = slots[d] /\ sl_curr'[d] = sl_curr[d] /\ slab_list'[d] = slab_list[d]
      BY <1>1, <1>3, <1>8, <2>3 DEF IInv, TypeOK
    <3>2. p \notin Ran(slab_list[d])
      BY <1>3, ClassPagesIs DEF IInv
    <3>3. /\ sl_curr[d] = Len(slots[d]) /\ Distinct(slots[d])
          /\ Ran(slots[d]) = {j \in Chunks : flag[j] = "slabbed" /\ j[1] \in Ran(slab_list[d])}
      BY DEF IInv, FreeOK
    <3>4. \A j \in Chunks : j[1] \in Ran(slab_list[d]) => (flag'[j] = "slabbed" <=> flag[j] = "slabbed")
      BY <1>7, <1>9, <2>1, <3>2
    <3> QED BY <3>1, <3>3, <3>4
  <2> QED BY <2>2, <2>3
<1>18. UsersOK' /\ LinkedOK' /\ MoverCountsExact'
  <2>1. \A j \in Chunks \ {i} : (Live(j) \/ Live(j)') => flag'[j] = flag[j]
    BY <1>9, <1>10, <1>11 DEF Live
  <2> QED BY <1>2, <1>7, <1>8, <1>11, <1>12, <2>1, TakenKeeps
<1>19. MoverOK'
  <2>1. \A d \in Classes : Len(slab_list[d]) >= 1 =>
              Len(slab_list'[d]) >= 1 /\ slab_list'[d][1] = slab_list[d][1]
    <3> SUFFICES ASSUME Len(slab_list[c]) >= 1
                 PROVE  Len(slab_list'[c]) >= 1 /\ slab_list'[c][1] = slab_list[c][1]
      BY <1>3
    <3>1. slab_list[c] \in Seq(Pages) /\ 1 \in 1 .. Len(slab_list[c])
      BY DEF IInv, TypeOK
    <3> QED BY <1>3, <3>1, AppendQ
  <2>2. signal = 2 => \A j \in Chunks : j[1] = slab_start /\ flag[j] = "cleared" => flag'[j] = "cleared"
    <3> SUFFICES ASSUME signal = 2, NEW j \in Chunks, j[1] = slab_start, flag[j] = "cleared"
                 PROVE  flag'[j] = "cleared"
      OBVIOUS
    <3>1. slab_start # p
      BY <1>3, MoverIs, ClassPagesIs DEF IInv
    <3> QED BY <1>7, <1>9, <1>11, <3>1
  <2>3. mpc = "unlocked" => /\ flag'[It] = flag[It] /\ key'[It] = key[It]
                            /\ (new_it # None => flag'[new_it] = flag[new_it])
    <3> SUFFICES ASSUME mpc = "unlocked"
                 PROVE  /\ flag'[It] = flag[It] /\ key'[It] = key[It]
                        /\ (new_it # None => flag'[new_it] = flag[new_it])
      OBVIOUS
    <3>1. It \in Chunks /\ flag[It] = "linked" /\ (new_it # None => new_it \in Chunks /\ flag[new_it] = "none")
      BY MovedIs
    <3>2. It[1] # p /\ (new_it # None => new_it[1] # p)
      BY <1>10, <3>1
    <3> QED BY <1>7, <1>8, <1>9, <1>11, <3>1, <3>2 DEF Taken, IInv, TypeOK
  <2> QED BY <1>2, <2>1, <2>2, <2>3, MoverStays
<1>20. KeysStay
  <2>1. \A j \in Chunks : flag[j] = "linked" => flag'[j] = "linked" /\ key'[j] = key[j]
    BY <1>8, <1>9, <1>10, <1>11, <1>12 DEF Taken, IInv, TypeOK
  <2> QED BY <2>1, LinksKeepKeys
<1> QED BY <1>20, <1>3, <1>15, <1>16, <1>17, <1>18, <1>19 DEF IInv

-----------------------------------------------------------------------------
(* The memory limit.                                                       *)

LEMMA ReleasedIs ==
    ASSUME mem_malloced \in Nat, NEW limit \in Nat, NEW n \in Nat
    PROVE  /\ Released(n, limit) \in 0 .. n
           /\ mem_malloced - Released(n, limit) > limit => Released(n, limit) = n
BY DEF Released

LEMMA AdjustLimitKeeps ==
    ASSUME IInv, NEW limit \in Limits, AdjustLimit(limit)
    PROVE  IInv'
<1> USE DEF Set
<1> DEFINE Z == SLAB_GLOBAL_PAGE_POOL
           L == slab_list
           n == Released(Len(Pool), limit)
<1>1. /\ Z \in Lists /\ Z \notin Classes /\ L \in [Lists -> Seq(Pages)] /\ limit \in Nat
      /\ mem_malloced \in Nat /\ mem_limit \in Nat /\ TypeOK /\ PagesOK /\ Pool = L[Z]
  BY ClassesAssumption, LimitsAssumption DEF Lists, SLAB_GLOBAL_PAGE_POOL, IInv, TypeOK, Pool
<1>2. L[Z] \in Seq(Pages) /\ Len(L[Z]) \in Nat
  BY <1>1
<1>3. /\ L' = [L EXCEPT ![Z] = Shrunk(L[Z], n)] /\ mem_malloced' = mem_malloced - n /\ mem_limit' = limit
      /\ UNCHANGED <<slots, sl_curr, items, item_lock, user, rebal, failed>>
  BY <1>1 DEF AdjustLimit
<1>4. n \in 0 .. Len(L[Z]) /\ (mem_malloced - n > limit => n = Len(L[Z]))
  BY <1>1, <1>2, ReleasedIs
<1> HIDE DEF n
<1>5. /\ Shrunk(L[Z], n) \in Seq(Pages) /\ Len(Shrunk(L[Z], n)) = Len(L[Z]) - n
      /\ \A m \in 1 .. Len(L[Z]) - n : Shrunk(L[Z], n)[m] = L[Z][m]
  BY <1>2, <1>4, ShrunkQ
<1>6. L'[Z] = Shrunk(L[Z], n) /\ (\A d \in Classes : L'[d] = L[d]) /\ L' \in [Lists -> Seq(Pages)]
  BY <1>1, <1>3, <1>5 DEF Lists
<1>7. \A d \in Lists : \A m \in 1 .. Len(L'[d]) : m \in 1 .. Len(L[d]) /\ L'[d][m] = L[d][m]
  <2> SUFFICES ASSUME NEW d \in Lists, NEW m \in 1 .. Len(L'[d])
               PROVE  m \in 1 .. Len(L[d]) /\ L'[d][m] = L[d][m]
    OBVIOUS
  <2>1. CASE d = Z
    <3>1. m \in 1 .. Len(L[Z]) - n /\ m \in 1 .. Len(L[Z])
      BY <1>2, <1>4, <1>5, <1>6, <2>1
    <3> QED BY <1>5, <1>6, <2>1, <3>1
  <2>2. CASE d # Z
    BY <1>6, <2>2 DEF Lists
  <2> QED BY <2>1, <2>2
<1>8. PagesOK' /\ mem_malloced' \in Nat
  <2>1. ClassPages' = ClassPages
    BY <1>6 DEF ClassPages, Ran
  <2>2. Pool' = L'[Z] /\ mem_malloced = Cardinality(ClassPages) + Len(L[Z]) /\ Cardinality(ClassPages) \in Nat
    BY <1>1, ClassPagesIs DEF Pool, PagesOK, SLAB_GLOBAL_PAGE_POOL
  <2>3. mem_malloced' = Cardinality(ClassPages') + Len(Pool') /\ mem_malloced' \in Nat
    <3>1. Len(L'[Z]) = Len(L[Z]) - n
      BY <1>5, <1>6
    <3>2. mem_malloced - n = Cardinality(ClassPages) + (Len(L[Z]) - n) /\ mem_malloced - n \in Nat
      BY <1>2, <1>4, <2>2
    <3> QED BY <1>3, <2>1, <2>2, <3>1, <3>2
  <2>4. mem_malloced' > mem_limit' => Pool' = <<>>
    <3> SUFFICES ASSUME mem_malloced' > mem_limit' PROVE L'[Z] = <<>>
      BY <2>2
    <3>1. L'[Z] \in Seq(Pages) /\ Len(L'[Z]) = 0
      BY <1>2, <1>3, <1>4, <1>5, <1>6
    <3> QED BY <3>1
  <2>5. \A c, d \in Lists : \A a \in 1 .. Len(L'[c]), b \in 1 .. Len(L'[d]) :
           L'[c][a] = L'[d][b] => c = d /\ a = b
    <3> SUFFICES ASSUME NEW c \in Lists, NEW d \in Lists, NEW a \in 1 .. Len(L'[c]), NEW b \in 1 .. Len(L'[d]),
                        L'[c][a] = L'[d][b]
                 PROVE  c = d /\ a = b
      OBVIOUS
    <3>1. a \in 1 .. Len(L[c]) /\ b \in 1 .. Len(L[d]) /\ L[c][a] = L[d][b]
      BY <1>7
    <3> QED BY <1>1, <3>1 DEF PagesOK
  <2> QED BY <2>3, <2>4, <2>5 DEF PagesOK
<1>9. TypeOK' /\ ~failed'
  BY <1>1, <1>3, <1>6, <1>8, RebalTypes DEF IInv, TypeOK, items, user, Lists
<1>10. FlagsOK' /\ FreeOK'
  BY <1>3, <1>6, FlagsStay, FreeStay DEF IInv, items
<1>11. LinkedOK'
  BY <1>3, LinkedStay DEF IInv, items
<1>12. UsersOK' /\ MoverCountsExact'
  BY <1>3 DEF IInv, items, user, rebal, UsersOK, UserOK, Live, It, MoverCountsExact
<1>13. MoverOK'
  BY <1>3, <1>6, MoverStays DEF items
<1> QED BY <1>8, <1>9, <1>10, <1>11, <1>12, <1>13 DEF IInv
-----------------------------------------------------------------------------
(* Get, store, delete, release.                                            *)

\* What a step of u has to leave alone for the other users.
LEMMA OthersKeep ==
    ASSUME IInv, NEW u \in Users, NEW v \in Users \ {u}, UNCHANGED rebal,
           \A w \in Users \ {u} : pc'[w] = pc[w] /\ want'[w] = want[w] /\ mine'[w] = mine[w],
           mine[v] # None => key'[mine[v]] = key[mine[v]] /\ Live(mine[v])',
           pc[v] \in {"filled", "storing", "freeing"} => flag'[mine[v]] = "none" /\ mine'[u] # mine[v],
           \A l \in Locks : item_lock[l] = v => item_lock'[l] = v
    PROVE  UserOK(v)'
<1>1. UserOK(v)
  BY DEF IInv, UsersOK
<1>2. UNCHANGED <<mpc, new_it>> /\ It' = It
  BY DEF rebal, It
<1>3. pc[v] # "idle" => mine[v] # None /\ LockOf[want[v]] \in Locks
  BY UserIs
<1>4. pc[v] \in {"filled", "storing", "freeing"} => \A w \in Users : mine'[w] = mine[v] => w = v
  BY <1>1 DEF UserOK
<1> QED BY <1>1, <1>2, <1>3, <1>4 DEF UserOK

LEMMA GetKeeps ==
    ASSUME IInv, NEW u \in Users, NEW k \in Keys, Get(u, k)
    PROVE  IInv'
<1> USE DEF Set
<1>1. PICK i \in Find(k) : refcount' = [refcount EXCEPT ![i] = refcount[i] + 1] /\ mine' = [mine EXCEPT ![u] = i]
  BY DEF Get
<1>2. /\ i \in Chunks /\ flag[i] = "linked" /\ key[i] = k /\ i # None
      /\ want' = [want EXCEPT ![u] = k] /\ pc' = [pc EXCEPT ![u] = "hold"] /\ pc[u] = "idle"
      /\ UNCHANGED <<pages, flag, key, pitem, item_lock, rebal, failed>>
      /\ item_lock[LockOf[k]] = None
  BY ChunkIs DEF Get, Find, Free
<1>3. UNCHANGED <<slab_list, slots, sl_curr, mem_limit, mem_malloced>> /\ mine[u] = None
  BY <1>2 DEF pages, IInv, UsersOK, UserOK
<1>4. TypeOK' /\ ~failed'
  <2>1. TypeOK
    BY DEF IInv
  <2> QED BY SMTT(30), <1>1, <1>2, <1>3, <2>1, RebalTypes DEF IInv, TypeOK
<1>5. PagesOK' /\ FlagsOK' /\ FreeOK' /\ LinkedOK'
  BY <1>2, <1>3, PagesStay, FlagsStay, FreeStay, LinkedStay DEF IInv
<1>6. MoverOK'
  BY <1>2, <1>3, MoverStays
<1>7. mpc = "unlocked" => i \notin {It, new_it}
  BY <1>2, MovedIs, NamesAssumption, ChunkIs
<1>8. UsersOK'
  <2> SUFFICES ASSUME NEW v \in Users PROVE UserOK(v)'
    BY DEF UsersOK
  <2>0. mine'[u] = i /\ want'[u] = k /\ pc'[u] = "hold" /\ UNCHANGED <<mpc, new_it>> /\ It' = It
    BY <1>1, <1>2 DEF IInv, TypeOK, rebal, It
  <2>1. CASE v = u
    BY <1>2, <1>7, <2>0, <2>1 DEF UserOK, Live
  <2>2. CASE v # u
    <3>1. pc[v] \in {"filled", "storing", "freeing"} => flag[mine[v]] = "none"
      BY DEF IInv, UsersOK, UserOK
    <3>2. \A w \in Users \ {u} : pc'[w] = pc[w] /\ want'[w] = want[w] /\ mine'[w] = mine[w]
      BY <1>1, <1>2 DEF IInv, TypeOK
    <3>3. mine[v] # None => Live(mine[v])'
      BY <1>2, <2>2, <3>2, UserIs DEF Live
    <3> QED BY <1>2, <2>0, <2>2, <3>1, <3>2, <3>3, OthersKeep
  <2> QED BY <2>1, <2>2
<1>9. MoverCountsExact'
  <2> SUFFICES ASSUME NEW j \in Chunks, Live(j)'
               PROVE  refcount'[j] = Cardinality(Holding(j)') + Linked(j)' + Moved(j)'
    BY CountsAreNext
  <2>1. Cardinality(Holding(j)') = Cardinality(Holding(j)) - Has(u, j) + Has(u, j)'
    BY <1>1, <1>2, HoldingChange DEF IInv, TypeOK
  <2>2. Has(u, j) = 0 /\ Has(u, j)' = (IF j = i THEN 1 ELSE 0)
    BY SMTT(30), <1>1, <1>2, <1>3, ChunkIs DEF Has, IInv, TypeOK
  <2>3. Moved(j)' = Moved(j) /\ Linked(j)' = Linked(j) /\ Live(j)
    BY <1>2 DEF Moved, Linked, Live, rebal, It
  <2>4. refcount[j] = Cardinality(Holding(j)) + Linked(j) + Moved(j)
    BY <2>3, CountsAre DEF IInv
  <2>5. refcount'[j] = refcount[j] + (IF j = i THEN 1 ELSE 0) /\ refcount[j] \in Nat
    BY <1>1 DEF IInv, TypeOK
  <2> QED BY <2>1, <2>2, <2>3, <2>4, <2>5, HoldingIs
<1> QED BY <1>4, <1>5, <1>6, <1>8, <1>9 DEF IInv

LEMMA StoreLockKeeps ==
    ASSUME IInv, ~GraphUsers, NEW u \in Users, StoreLock(u)
    PROVE  IInv'
<1> USE DEF Set
<1> DEFINE l == LockOf[want[u]]
<1>1. /\ pc[u] = "filled" /\ item_lock[l] = None /\ item_lock' = [item_lock EXCEPT ![l] = u]
      /\ pc' = [pc EXCEPT ![u] = "storing"]
      /\ UNCHANGED <<pages, items, want, mine, rebal, failed>>
  BY DEF StoreLock, UserLock, Lock, Free
<1>2. UNCHANGED <<slab_list, slots, sl_curr, mem_limit, mem_malloced, flag, refcount, key, pitem>>
  BY <1>1 DEF pages, items
<1>3. l \in Locks /\ mine[u] \in Chunks
  BY <1>1, UserIs
<1>4. TypeOK' /\ ~failed'
  <2>1. TypeOK
    BY DEF IInv
  <2> QED BY <1>1, <1>2, <1>3, <2>1, RebalTypes DEF IInv, TypeOK
<1>5. PagesOK' /\ FlagsOK' /\ FreeOK' /\ LinkedOK'
  BY <1>2, PagesStay, FlagsStay, FreeStay, LinkedStay DEF IInv
<1>6. MoverOK'
  <2>1. mpc = "unlocked" => item_lock'[LockOf[key[It]]] = item_lock[LockOf[key[It]]]
    BY <1>1, MovedIs, NamesAssumption DEF IInv, TypeOK
  <2> QED BY <1>1, <1>2, <2>1, MoverStays
<1>7. UsersOK'
  <2> SUFFICES ASSUME NEW v \in Users PROVE UserOK(v)'
    BY DEF UsersOK
  <2>0. UNCHANGED <<mpc, new_it>> /\ It' = It /\ pc'[u] = "storing" /\ item_lock'[l] = u
    BY <1>1, <1>3 DEF IInv, TypeOK, rebal, It
  <2>1. CASE v = u
    <3>1. UserOK(u)
      BY DEF IInv, UsersOK
    <3> QED BY <1>1, <1>2, <2>0, <2>1, <3>1 DEF UserOK, Live
  <2>2. CASE v # u
    <3>1. UserOK(v) /\ UserOK(u)
      BY DEF IInv, UsersOK
    <3>2. \A w \in Users \ {u} : pc'[w] = pc[w] /\ want'[w] = want[w] /\ mine'[w] = mine[w]
      BY <1>1 DEF IInv, TypeOK
    <3>3. mine[v] # None => Live(mine[v])'
      BY <1>2, <2>2, <3>2, UserIs DEF Live
    <3>4. pc[v] \in {"filled", "storing", "freeing"} => flag'[mine[v]] = "none" /\ mine'[u] # mine[v]
      BY <1>1, <1>2, <2>2, <3>1 DEF UserOK
    <3>5. \A m \in Locks : item_lock[m] = v => item_lock'[m] = v
      BY <1>1, NamesAssumption DEF IInv, TypeOK
    <3> QED BY <1>1, <1>2, <2>2, <3>2, <3>3, <3>4, <3>5, OthersKeep
  <2> QED BY <2>1, <2>2
<1>8. MoverCountsExact'
  <2>1. \A v \in Users : pc'[v] # "freeing" <=> pc[v] # "freeing"
    BY <1>1 DEF IInv, TypeOK
  <2> QED BY <1>1, <1>2, <2>1 DEF IInv, MoverCountsExact, Live, rebal, It
<1> QED BY <1>4, <1>5, <1>6, <1>7, <1>8 DEF IInv

LEMMA DeleteKeeps ==
    ASSUME IInv, ~GraphUsers, NEW u \in Users, Delete(u)
    PROVE  IInv'
<1> USE DEF Set
<1> DEFINE i == mine[u]
<1>1. /\ pc[u] = "hold" /\ flag[i] = "linked"
      /\ flag' = [flag EXCEPT ![i] = "none"] /\ refcount' = [refcount EXCEPT ![i] = refcount[i] - 1]
      /\ UNCHANGED <<pages, key, pitem, item_lock, user, rebal, failed>>
  BY DEF Delete
<1>2. UNCHANGED <<slab_list, slots, sl_curr, mem_limit, mem_malloced, pc, want, mine>>
  BY <1>1 DEF pages, user
<1>3. i \in Chunks /\ i # None
  BY <1>1, UserIs
<1>4. flag'[i] = "none" /\ (\A j \in Chunks \ {i} : flag'[j] = flag[j]) /\ refcount[i] \in Nat
  BY <1>1, <1>3 DEF IInv, TypeOK
<1>5. refcount[i] >= 1
  <2>1. refcount[i] = Cardinality(Holding(i)) + Linked(i) + Moved(i)
    BY <1>1, <1>3, CountsAre DEF IInv, Live
  <2>2. Linked(i) = 1
    BY <1>1 DEF Linked
  <2> QED BY <2>1, <2>2, HoldingIs
<1>6. TypeOK' /\ ~failed'
  <2>1. TypeOK
    BY DEF IInv
  <2>2. refcount' \in [Chunks -> Nat]
    BY <1>1, <1>4, <1>5, <2>1 DEF TypeOK
  <2> QED BY <1>1, <1>2, <1>3, <2>1, <2>2, RebalTypes DEF IInv, TypeOK
<1>7. PagesOK' /\ FlagsOK' /\ FreeOK' /\ LinkedOK'
  BY <1>1, <1>2, <1>4, PagesStay, FlagsStay, FreeStay, LinkedStay DEF IInv
<1>8. mpc = "unlocked" => i \notin {It, new_it}
  BY <1>3 DEF IInv, UsersOK, UserOK
<1>9. MoverOK'
  <2>1. mpc = "unlocked" => flag'[It] = flag[It] /\ (new_it # None => flag'[new_it] = flag[new_it])
    BY <1>4, <1>8, MovedIs
  <2> QED BY <1>1, <1>2, <1>4, <2>1, MoverStays
<1>10. UsersOK'
  <2> SUFFICES ASSUME NEW v \in Users PROVE UserOK(v)'
    BY DEF UsersOK
  <2>1. UNCHANGED <<mpc, new_it>> /\ It' = It /\ UserOK(v)
    BY <1>1 DEF IInv, UsersOK, rebal, It
  <2>2. mine[v] # None => Live(mine[v])' /\ (flag[mine[v]] = "none" => flag'[mine[v]] = "none")
    BY <1>2, <1>4, UserIs DEF Live
  <2>3. pc[v] # "idle" => mine[v] # None
    BY <2>1 DEF UserOK
  <2> QED BY <1>1, <1>2, <2>1, <2>2, <2>3 DEF UserOK
<1>11. MoverCountsExact'
  <2> SUFFICES ASSUME NEW j \in Chunks, Live(j)'
               PROVE  refcount'[j] = Cardinality(Holding(j)') + Linked(j)' + Moved(j)'
    BY CountsAreNext
  <2>1. Holding(j)' = Holding(j) /\ Moved(j)' = Moved(j)
    BY <1>1, <1>2 DEF Holding, Moved, rebal, It
  <2>2. Live(j)
    BY <1>1, <1>4 DEF Live
  <2>3. refcount[j] = Cardinality(Holding(j)) + Linked(j) + Moved(j)
    BY <2>2, CountsAre DEF IInv
  <2>4. CASE j = i
    <3>1. Linked(j) = 1 /\ Linked(j)' = 0 /\ refcount'[j] = refcount[j] - 1
      BY <1>1, <1>4, <2>4 DEF Linked, IInv, TypeOK
    <3> QED BY <2>1, <2>3, <3>1, HoldingIs
  <2>5. CASE j # i
    BY <1>1, <1>4, <2>1, <2>3, <2>5 DEF Linked, IInv, TypeOK
  <2> QED BY <2>4, <2>5
<1> QED BY <1>6, <1>7, <1>9, <1>10, <1>11 DEF IInv

\* The user that has the last reference is the only one.
LEMMA SoleHolder ==
    ASSUME NEW i, Cardinality(Holding(i)) = 1, NEW u \in Users, NEW v \in Users, Has(u, i) = 1, Has(v, i) = 1
    PROVE  u = v
<1>1. u \in Holding(i) /\ v \in Holding(i)
  BY DEF Has, Holding
<1>2. \E x : Holding(i) = {x}
  BY HoldingIs, FS_Singleton
<1> QED BY <1>1, <1>2

LEMMA ReleaseKeeps ==
    ASSUME IInv, ~GraphUsers, NEW u \in Users, Release(u)
    PROVE  IInv'
<1> USE DEF Set
<1> DEFINE i == mine[u]
           l == LockOf[want[u]]
<1>1. /\ pc[u] \in {"hold", "filled"} /\ item_lock[l] = None
      /\ UNCHANGED <<pages, flag, key, pitem, rebal>>
  BY DEF Release, UserFree, Free
<1>2. UNCHANGED <<slab_list, slots, sl_curr, mem_limit, mem_malloced>>
  BY <1>1 DEF pages
<1>3. i \in Chunks /\ i # None /\ Live(i) /\ l \in Locks /\ want[u] \in Keys /\ key[i] = want[u]
  BY <1>1, UserIs
<1>4. refcount[i] = Cardinality(Holding(i)) + Linked(i) + Moved(i) /\ refcount[i] \in Nat
  BY <1>3, CountsAre DEF IInv, TypeOK
<1>5. Has(u, i) = 1 /\ Cardinality(Holding(i)) >= 1 /\ Cardinality(Holding(i)) \in Nat
  <2>1. Has(u, i) = 1
    BY <1>1 DEF Has
  <2> QED BY <2>1, HoldingIs
<1>6. refcount[i] >= 1
  BY <1>4, <1>5, HoldingIs
<1>7. /\ refcount' = [refcount EXCEPT ![i] = refcount[i] - 1] /\ failed' = failed
      /\ \/ /\ refcount[i] = 1 /\ item_lock' = [item_lock EXCEPT ![l] = u]
            /\ mine' = [mine EXCEPT ![u] = i] /\ pc' = [pc EXCEPT ![u] = "freeing"] /\ want' = want
         \/ /\ refcount[i] # 1 /\ item_lock' = item_lock
            /\ mine' = [mine EXCEPT ![u] = None] /\ pc' = [pc EXCEPT ![u] = "idle"]
            /\ want' = [want EXCEPT ![u] = None]
  <2>1. Target(u) = i /\ ~(flag[i] \in {"slabbed", "cleared"} \/ refcount[i] = 0)
    BY <1>3, <1>6 DEF Target, Live
  <2> HIDE DEF i, l
  <2>2. /\ refcount' = Set(refcount, i, refcount[i] - 1) /\ failed' = failed
        /\ IF refcount[i] = 1
           THEN /\ UserLock(u, want[u])
                /\ mine' = Set(mine, u, i) /\ pc' = Set(pc, u, "freeing")
                /\ UNCHANGED want
           ELSE /\ pc' = Set(pc, u, "idle")
                /\ mine' = Set(mine, u, None) /\ want' = Set(want, u, None)
                /\ UNCHANGED item_lock
    BY <2>1 DEF Release
  <2> QED BY <2>2 DEF UserLock, Lock, l
<1>8. TypeOK' /\ ~failed'
  <2>1. TypeOK
    BY DEF IInv
  <2>2. refcount' \in [Chunks -> Nat]
    <3>1. refcount[i] - 1 \in Nat
      BY <1>4, <1>6
    <3>2. refcount' = [refcount EXCEPT ![i] = refcount[i] - 1]
      BY <1>7
    <3> QED BY <2>1, <3>1, <3>2 DEF TypeOK
  <2>3. /\ item_lock' \in [Locks -> Users \cup {Mover, None}]
        /\ pc' \in [Users -> {"idle", "filled", "storing", "hold", "freeing"}]
        /\ want' \in [Users -> Keys \cup {None}] /\ mine' \in [Users -> Chunks \cup {None}]
    BY ZenonT(40), <1>3, <1>7, <2>1 DEF TypeOK
  <2> QED BY <1>1, <1>2, <1>7, <2>1, <2>2, <2>3, RebalTypes DEF IInv, TypeOK
<1>9. PagesOK' /\ FlagsOK' /\ FreeOK' /\ LinkedOK'
  BY <1>1, <1>2, PagesStay, FlagsStay, FreeStay, LinkedStay DEF IInv
<1>10. \A m \in Locks : item_lock[m] # None => item_lock'[m] = item_lock[m]
  BY <1>1, <1>7 DEF IInv, TypeOK
<1>11. MoverOK'
  <2>1. mpc = "unlocked" => item_lock'[LockOf[key[It]]] = item_lock[LockOf[key[It]]]
    BY <1>10, MovedIs, NamesAssumption
  <2> QED BY <1>1, <1>2, <2>1, MoverStays
<1>12. \A w \in Users \ {u} : pc'[w] = pc[w] /\ want'[w] = want[w] /\ mine'[w] = mine[w]
  BY <1>7 DEF IInv, TypeOK
<1>13. UsersOK'
  <2> SUFFICES ASSUME NEW v \in Users PROVE UserOK(v)'
    BY DEF UsersOK
  <2>0. UNCHANGED <<mpc, new_it>> /\ It' = It /\ UserOK(u) /\ UserOK(v)
    BY <1>1 DEF IInv, UsersOK, rebal, It
  <2>1. CASE v = u /\ refcount[i] = 1
    <3>1. pc'[u] = "freeing" /\ mine'[u] = i /\ want'[u] = want[u] /\ item_lock'[l] = u
      BY <1>3, <1>7, <2>1 DEF IInv, TypeOK
    <3>2. Cardinality(Holding(i)) = 1 /\ Linked(i) = 0
      BY <1>4, <1>5, <2>1, HoldingIs
    <3>3. flag'[i] = "none"
      BY <1>1, <1>3, <3>2 DEF Linked, Live
    <3>4. \A w \in Users : mine[w] = i => w = u
      <4> SUFFICES ASSUME NEW w \in Users, mine[w] = i PROVE w = u
        OBVIOUS
      <4>1. CASE pc[w] = "freeing"
        BY <4>1 DEF IInv, UsersOK, UserOK
      <4>2. CASE pc[w] # "freeing"
        <5>1. Has(w, i) = 1
          BY <4>2 DEF Has
        <5> QED BY <1>5, <3>2, <5>1, SoleHolder
      <4> QED BY <4>1, <4>2
    <3>5. \A w \in Users : mine'[w] = i => w = u
      BY <1>12, <3>4
    <3> QED BY <1>1, <1>3, <2>0, <2>1, <3>1, <3>3, <3>5 DEF UserOK, Live
  <2>2. CASE v = u /\ refcount[i] # 1
    <3>1. pc'[u] = "idle" /\ mine'[u] = None
      BY <1>7, <2>2 DEF IInv, TypeOK
    <3> QED BY <2>2, <3>1 DEF UserOK
  <2>3. CASE v # u
    <3>1. mine[v] # None => Live(mine[v])'
      BY <1>1, <1>12, <2>3, UserIs DEF Live
    <3>2. mine'[u] \in {i, None}
      BY <1>7 DEF IInv, TypeOK
    <3>3. pc[v] \in {"filled", "storing", "freeing"} => flag'[mine[v]] = "none" /\ mine'[u] # mine[v]
      BY <1>1, <2>0, <2>3, <3>2 DEF UserOK
    <3>4. \A m \in Locks : item_lock[m] = v => item_lock'[m] = v
      BY <1>10, NamesAssumption
    <3> QED BY <1>1, <1>12, <2>3, <3>1, <3>3, <3>4, OthersKeep
  <2> QED BY <2>1, <2>2, <2>3
<1>14. MoverCountsExact'
  <2> SUFFICES ASSUME NEW j \in Chunks, Live(j)'
               PROVE  refcount'[j] = Cardinality(Holding(j)') + Linked(j)' + Moved(j)'
    BY CountsAreNext
  <2>1. Cardinality(Holding(j)') = Cardinality(Holding(j)) - Has(u, j) + Has(u, j)'
    BY <1>12, HoldingChange
  <2>2. Has(u, j) = (IF j = i THEN 1 ELSE 0) /\ Has(u, j)' = 0
    <3>1. pc'[u] = "freeing" \/ mine'[u] = None
      BY <1>7 DEF IInv, TypeOK
    <3> QED BY <1>1, <3>1, ChunkIs DEF Has
  <2>3. Moved(j)' = Moved(j) /\ Linked(j)' = Linked(j) /\ Live(j)
    BY <1>1 DEF Moved, Linked, Live, rebal, It
  <2>4. refcount[j] = Cardinality(Holding(j)) + Linked(j) + Moved(j)
    BY <2>3, CountsAre DEF IInv
  <2>5. refcount'[j] = refcount[j] - (IF j = i THEN 1 ELSE 0) /\ refcount[j] \in Nat
    BY <1>7 DEF IInv, TypeOK
  <2> QED BY <2>1, <2>2, <2>3, <2>4, <2>5, HoldingIs
<1> QED BY <1>8, <1>9, <1>11, <1>13, <1>14 DEF IInv

\* do_slabs_free of a chunk in use, whatever else the step does to the flags of
\* chunks that are not free.
LEMMA PushKeeps ==
    ASSUME IInv, NEW i \in Chunks, Live(i), Push(i), slab_list' = slab_list, flag'[i] = "slabbed",
           \A j \in Chunks \ {i} : flag'[j] = "slabbed" <=> flag[j] = "slabbed"
    PROVE  /\ FreeOK' /\ slots' \in [Classes -> Seq(Chunks)] /\ sl_curr' \in [Classes -> Nat]
           /\ key' \in [Chunks -> Keys \cup {None}] /\ pitem' \in [Chunks -> Chunks \cup {None}]
           /\ \A j \in Chunks \ {i} : key'[j] = key[j]
<1> USE DEF Set
<1>1. PICK c \in Classes : In(i, c)
  BY DEF IInv, FlagsOK, Live
<1>2. i[1] \in Ran(slab_list[c]) /\ ClassOf(i) = c
  BY <1>1, ClassOfIs DEF In, IInv
<1>3. /\ slots' = [slots EXCEPT ![c] = <<i>> \o slots[c]]
      /\ sl_curr' = [sl_curr EXCEPT ![c] = sl_curr[c] + 1]
      /\ key' = [key EXCEPT ![i] = None] /\ pitem' = [pitem EXCEPT ![i] = None]
  BY <1>2 DEF Push, Forget
<1>4. /\ slots[c] \in Seq(Chunks) /\ Distinct(slots[c]) /\ sl_curr[c] = Len(slots[c]) /\ sl_curr[c] \in Nat
      /\ Ran(slots[c]) = {j \in Chunks : flag[j] = "slabbed" /\ j[1] \in Ran(slab_list[c])}
      /\ i \notin Ran(slots[c])
  BY DEF IInv, TypeOK, FreeOK, Live
<1> DEFINE t == <<i>> \o slots[c]
<1>5. t \in Seq(Chunks) /\ Len(t) = Len(slots[c]) + 1 /\ Distinct(t) /\ Ran(t) = Ran(slots[c]) \cup {i}
  BY <1>4, PushQ
<1> HIDE DEF t
<1>6. slots' = [slots EXCEPT ![c] = t]
  BY <1>3 DEF t
<1>7. FreeOK'
  <2> SUFFICES ASSUME NEW d \in Classes
               PROVE /\ sl_curr'[d] = Len(slots'[d]) /\ Distinct(slots'[d])
                     /\ Ran(slots'[d]) = {j \in Chunks : flag'[j] = "slabbed" /\ j[1] \in Ran(slab_list'[d])}
    BY FreeNext
  <2>1. CASE d = c
    <3>1. slots'[d] = t /\ sl_curr'[d] = Len(slots[c]) + 1
      BY <1>3, <1>4, <1>6, <2>1 DEF IInv, TypeOK
    <3> QED BY <1>2, <1>4, <1>5, <2>1, <3>1
  <2>2. CASE d # c
    <3>1. slots'[d] = slots[d] /\ sl_curr'[d] = sl_curr[d]
      BY <1>3, <2>2 DEF IInv, TypeOK
    <3>2. i[1] \notin Ran(slab_list[d])
      BY <1>2, <2>2, OneOwner DEF IInv, Lists
    <3>3. /\ sl_curr[d] = Len(slots[d]) /\ Distinct(slots[d])
          /\ Ran(slots[d]) = {j \in Chunks : flag[j] = "slabbed" /\ j[1] \in Ran(slab_list[d])}
      BY DEF IInv, FreeOK
    <3> QED BY <3>1, <3>2, <3>3
  <2> QED BY <2>1, <2>2
<1>8. slots' \in [Classes -> Seq(Chunks)]
  BY <1>5, <1>6 DEF IInv, TypeOK
<1>9. sl_curr' \in [Classes -> Nat]
  BY <1>3, <1>4 DEF IInv, TypeOK
<1>10. key' \in [Chunks -> Keys \cup {None}] /\ pitem' \in [Chunks -> Chunks \cup {None}]
       /\ \A j \in Chunks \ {i} : key'[j] = key[j]
  BY <1>3 DEF IInv, TypeOK
<1> QED BY <1>7, <1>8, <1>9, <1>10

LEMMA ItemFreeKeeps ==
    ASSUME IInv, ~GraphUsers, NEW u \in Users, ItemFree(u)
    PROVE  IInv' /\ KeysStay
<1> USE DEF Set
<1> DEFINE i == mine[u]
           l == LockOf[want[u]]
<1>1. /\ pc[u] = "freeing" /\ flag' = [flag EXCEPT ![i] = "slabbed"] /\ Push(i)
      /\ item_lock' = [item_lock EXCEPT ![l] = None] /\ pc' = [pc EXCEPT ![u] = "idle"]
      /\ mine' = [mine EXCEPT ![u] = None] /\ want' = [want EXCEPT ![u] = None]
      /\ UNCHANGED <<slab_list, mem_limit, mem_malloced, refcount, rebal, failed>>
  BY DEF ItemFree, UserUnlock, Unlock
<1>2. /\ i \in Chunks /\ i # None /\ Live(i) /\ l \in Locks
      /\ flag[i] = "none" /\ (\A v \in Users : mine[v] = i => v = u) /\ item_lock[l] = u
      /\ mpc = "unlocked" => i \notin {It, new_it}
  BY <1>1, UserIs DEF IInv, UsersOK, UserOK
<1>3. flag'[i] = "slabbed" /\ \A j \in Chunks \ {i} : flag'[j] = flag[j]
  BY <1>1, <1>2 DEF IInv, TypeOK
<1>4. /\ FreeOK' /\ slots' \in [Classes -> Seq(Chunks)] /\ sl_curr' \in [Classes -> Nat]
      /\ key' \in [Chunks -> Keys \cup {None}] /\ pitem' \in [Chunks -> Chunks \cup {None}]
      /\ \A j \in Chunks \ {i} : key'[j] = key[j]
  BY <1>1, <1>2, <1>3, PushKeeps
<1>5. TypeOK' /\ ~failed'
  <2>1. TypeOK
    BY DEF IInv
  <2> QED BY <1>1, <1>2, <1>4, <2>1, RebalTypes DEF IInv, TypeOK
<1>6. PagesOK' /\ FlagsOK' /\ LinkedOK'
  BY <1>1, <1>2, <1>3, <1>4, PagesStay, FlagsStay, LinkedStay DEF IInv
<1>7. \A m \in Locks : item_lock[m] # u => item_lock'[m] = item_lock[m]
  BY <1>1, <1>2 DEF IInv, TypeOK
<1>8. MoverOK'
  <2>1. mpc = "unlocked" => /\ flag'[It] = flag[It] /\ key'[It] = key[It]
                            /\ item_lock'[LockOf[key[It]]] = item_lock[LockOf[key[It]]]
                            /\ (new_it # None => flag'[new_it] = flag[new_it])
    <3> SUFFICES ASSUME mpc = "unlocked"
                 PROVE  /\ flag'[It] = flag[It] /\ key'[It] = key[It]
                        /\ item_lock'[LockOf[key[It]]] = item_lock[LockOf[key[It]]]
                        /\ (new_it # None => flag'[new_it] = flag[new_it])
      OBVIOUS
    <3>1. It \in Chunks \ {i} /\ (new_it # None => new_it \in Chunks \ {i})
      BY <1>2, MovedIs
    <3>2. LockOf[key[It]] \in Locks /\ item_lock[LockOf[key[It]]] # u
      BY MovedIs, NamesAssumption
    <3> QED BY <1>3, <1>4, <1>7, <3>1, <3>2
  <2> QED BY <1>1, <1>2, <1>3, <2>1, MoverStays
<1>9. UsersOK'
  <2> SUFFICES ASSUME NEW v \in Users PROVE UserOK(v)'
    BY DEF UsersOK
  <2>0. pc'[u] = "idle" /\ mine'[u] = None /\ UserOK(v)
    BY <1>1 DEF IInv, TypeOK, UsersOK
  <2>1. CASE v = u
    BY <2>0, <2>1 DEF UserOK
  <2>2. CASE v # u
    <3>1. \A w \in Users \ {u} : pc'[w] = pc[w] /\ want'[w] = want[w] /\ mine'[w] = mine[w]
      BY <1>1 DEF IInv, TypeOK
    <3>2. mine[v] # None => mine[v] \in Chunks \ {i} /\ Live(mine[v])
      BY <1>2, <2>2, UserIs
    <3>3. mine[v] # None => flag'[mine[v]] = flag[mine[v]] /\ key'[mine[v]] = key[mine[v]]
      BY <1>3, <1>4, <3>2
    <3>4. mine[v] # None => Live(mine[v])'
      BY <2>2, <3>1, <3>2, <3>3 DEF Live
    <3>5. pc[v] \in {"filled", "storing", "freeing"} => flag'[mine[v]] = "none" /\ mine'[u] # mine[v]
      BY <2>0, <3>3 DEF UserOK
    <3>6. \A m \in Locks : item_lock[m] = v => item_lock'[m] = v
      BY <1>7, <2>2
    <3> QED BY <1>1, <2>2, <3>1, <3>3, <3>4, <3>5, <3>6, OthersKeep
  <2> QED BY <2>1, <2>2
<1>10. MoverCountsExact'
  <2> SUFFICES ASSUME NEW j \in Chunks, Live(j)'
               PROVE  refcount'[j] = Cardinality(Holding(j)') + Linked(j)' + Moved(j)'
    BY CountsAreNext
  <2>0. j # i /\ Live(j)
    BY <1>3 DEF Live
  <2>1. Holding(j)' = Holding(j)
    BY <1>1, <2>0, ChunkIs DEF Holding, IInv, TypeOK
  <2>2. Moved(j)' = Moved(j) /\ Linked(j)' = Linked(j) /\ refcount'[j] = refcount[j]
    BY <1>1, <1>3, <2>0 DEF Moved, Linked, rebal, It
  <2> QED BY <2>0, <2>1, <2>2, CountsAre DEF IInv
<1>11. KeysStay
  <2>1. \A j \in Chunks : flag[j] = "linked" => flag'[j] = "linked" /\ key'[j] = key[j]
    BY <1>2, <1>3, <1>4
  <2> QED BY <2>1, LinksKeepKeys
<1> QED BY <1>11, <1>4, <1>5, <1>6, <1>8, <1>9, <1>10 DEF IInv

LEMMA StoreLinkKeeps ==
    ASSUME IInv, ~GraphUsers, NEW u \in Users, StoreLink(u)
    PROVE  IInv' /\ KeysStay
<1> USE DEF Set
<1> DEFINE i == mine[u]
           k == want[u]
           l == LockOf[k]
           old == Find(k)
           dead == {o \in old : refcount[o] = 1}
<1>1. /\ pc[u] = "storing"
      /\ flag' = [j \in Chunks |-> IF j = i THEN "linked" ELSE IF j \in dead THEN "slabbed"
                                   ELSE IF j \in old THEN "none" ELSE flag[j]]
      /\ refcount' = [j \in Chunks |-> IF j = i THEN refcount[j] + 1
                                       ELSE IF j \in old THEN refcount[j] - 1 ELSE refcount[j]]
      /\ IF dead = {} THEN UNCHANGED <<slots, sl_curr, key, pitem>> ELSE Push(CHOOSE o \in dead : TRUE)
      /\ item_lock' = [item_lock EXCEPT ![l] = None] /\ pc' = [pc EXCEPT ![u] = "hold"]
      /\ UNCHANGED <<slab_list, mem_limit, mem_malloced, want, mine, rebal, failed>>
  BY DEF StoreLink, UserUnlock, Unlock
<1>2. /\ i \in Chunks /\ i # None /\ Live(i) /\ l \in Locks /\ k \in Keys /\ key[i] = k
      /\ flag[i] = "none" /\ (\A v \in Users : mine[v] = i => v = u) /\ item_lock[l] = u
      /\ mpc = "unlocked" => i \notin {It, new_it}
  BY <1>1, UserIs DEF IInv, UsersOK, UserOK
<1>3. /\ \A o \in old : o \in Chunks /\ flag[o] = "linked" /\ key[o] = k /\ Live(o) /\ o # i
      /\ \A o, q \in old : o = q
      /\ \A j \in Chunks : flag[j] = "linked" /\ key[j] = k => j \in old
      /\ dead \subseteq old
  BY <1>2 DEF Find, Live, IInv, LinkedOK
<1>4. mpc = "unlocked" => It \notin old /\ new_it \notin old
  BY <1>2, <1>3, MovedIs, NamesAssumption, ChunkIs
<1>5. \A o \in old : refcount[o] = Cardinality(Holding(o)) + 1 /\ refcount[o] \in Nat /\ refcount[o] >= 1
  <2> SUFFICES ASSUME NEW o \in old
               PROVE  refcount[o] = Cardinality(Holding(o)) + 1 /\ refcount[o] \in Nat /\ refcount[o] >= 1
    OBVIOUS
  <2>1. refcount[o] = Cardinality(Holding(o)) + Linked(o) + Moved(o)
    BY <1>3, CountsAre DEF IInv
  <2>2. Linked(o) = 1 /\ Moved(o) = 0
    BY <1>3, <1>4 DEF Linked, Moved
  <2> QED BY <2>1, <2>2, HoldingIs
<1>6. \A o \in dead : \A v \in Users : mine[v] # o
  <2> SUFFICES ASSUME NEW o \in dead, NEW v \in Users, mine[v] = o PROVE FALSE
    OBVIOUS
  <2>1. pc[v] # "freeing"
    BY <1>3 DEF IInv, UsersOK, UserOK
  <2>2. Cardinality(Holding(o)) = 0
    BY <1>5, HoldingIs
  <2>3. Has(v, o) = 1
    BY <2>1 DEF Has
  <2> QED BY <2>2, <2>3, HoldingIs
<1> HIDE DEF old, dead
<1>7. /\ flag'[i] = "linked" /\ flag' \in [Chunks -> {"slabbed", "cleared", "linked", "none"}]
      /\ \A j \in dead : flag'[j] = "slabbed"
      /\ \A j \in old \ dead : flag'[j] = "none"
      /\ \A j \in Chunks : j # i /\ j \notin old => flag'[j] = flag[j]
  <2>1. TypeOK
    BY DEF IInv
  <2> QED BY <1>1, <1>2, <1>3, <2>1 DEF TypeOK
<1>8. /\ FreeOK' /\ slots' \in [Classes -> Seq(Chunks)] /\ sl_curr' \in [Classes -> Nat]
      /\ key' \in [Chunks -> Keys \cup {None}] /\ pitem' \in [Chunks -> Chunks \cup {None}]
      /\ \A j \in Chunks \ dead : key'[j] = key[j]
  <2>1. CASE dead = {}
    <3>1. \A j \in Chunks : flag'[j] = "slabbed" <=> flag[j] = "slabbed"
      BY <1>2, <1>3, <1>7, <2>1
    <3>2. UNCHANGED <<slots, sl_curr, key, pitem>>
      BY <1>1, <2>1
    <3> QED BY <1>1, <3>1, <3>2, FreeStay DEF IInv, TypeOK
  <2>2. CASE dead # {}
    <3> DEFINE o == CHOOSE q \in dead : TRUE
    <3>1. o \in dead /\ Push(o)
      BY <1>1, <2>2
    <3> HIDE DEF o
    <3>2. dead = {o} /\ old = {o} /\ o \in Chunks /\ Live(o) /\ o # i
      BY <1>3, <3>1
    <3>3. \A j \in Chunks \ {o} : flag'[j] = "slabbed" <=> flag[j] = "slabbed"
      BY <1>2, <1>7, <3>2
    <3>4. /\ FreeOK' /\ slots' \in [Classes -> Seq(Chunks)] /\ sl_curr' \in [Classes -> Nat]
          /\ key' \in [Chunks -> Keys \cup {None}] /\ pitem' \in [Chunks -> Chunks \cup {None}]
          /\ \A j \in Chunks \ {o} : key'[j] = key[j]
      BY <1>1, <1>7, <3>1, <3>2, <3>3, PushKeeps
    <3> QED BY <3>2, <3>4
  <2> QED BY <2>1, <2>2
<1>9. \A j \in Chunks : refcount'[j] = (IF j = i THEN refcount[j] + 1
                                        ELSE IF j \in old THEN refcount[j] - 1 ELSE refcount[j])
  BY <1>1
<1>10. TypeOK' /\ ~failed'
  <2>1. TypeOK
    BY DEF IInv
  <2>2. refcount' \in [Chunks -> Nat]
    <3>1. ASSUME NEW j \in Chunks PROVE refcount'[j] \in Nat
      <4>1. refcount[j] \in Nat /\ (j \in old => refcount[j] - 1 \in Nat)
        BY <1>5, <2>1 DEF TypeOK
      <4> QED BY <1>9, <4>1
    <3>2. refcount' = [j \in Chunks |-> refcount'[j]]
      BY <1>1
    <3> QED BY <3>1, <3>2
  <2>3. /\ item_lock' \in [Locks -> Users \cup {Mover, None}]
        /\ pc' \in [Users -> {"idle", "filled", "storing", "hold", "freeing"}]
    BY <1>1, <2>1 DEF TypeOK
  <2> QED BY <1>1, <1>7, <1>8, <2>1, <2>2, <2>3, RebalTypes DEF IInv, TypeOK
<1>11. PagesOK' /\ FlagsOK'
  BY <1>1, <1>2, <1>3, <1>7, PagesStay, FlagsStay DEF IInv
<1>12. LinkedOK'
  <2>1. \A j \in Chunks : flag'[j] = "linked" =>
           \/ j = i /\ key'[j] = k
           \/ j # i /\ j \notin old /\ flag[j] = "linked" /\ key'[j] = key[j] /\ key[j] # k
    BY <1>2, <1>3, <1>7, <1>8
  <2>2. \A j \in Chunks : flag[j] = "linked" => key[j] \in Keys
    BY DEF IInv, LinkedOK
  <2> SUFFICES ASSUME NEW j \in Chunks, flag'[j] = "linked", NEW q \in Chunks, flag'[q] = "linked"
               PROVE  key'[j] \in Keys /\ (key'[q] = key'[j] => q = j)
    BY DEF LinkedOK
  <2> QED BY <1>2, <2>1, <2>2 DEF IInv, LinkedOK
<1>13. \A m \in Locks : item_lock[m] # u => item_lock'[m] = item_lock[m]
  BY <1>1, <1>2 DEF IInv, TypeOK
<1>14. MoverOK'
  <2>1. mpc = "unlocked" => /\ flag'[It] = flag[It] /\ key'[It] = key[It]
                            /\ item_lock'[LockOf[key[It]]] = item_lock[LockOf[key[It]]]
                            /\ (new_it # None => flag'[new_it] = flag[new_it])
    <3> SUFFICES ASSUME mpc = "unlocked"
                 PROVE  /\ flag'[It] = flag[It] /\ key'[It] = key[It]
                        /\ item_lock'[LockOf[key[It]]] = item_lock[LockOf[key[It]]]
                        /\ (new_it # None => flag'[new_it] = flag[new_it])
      OBVIOUS
    <3>1. It \in Chunks /\ It \notin old /\ It # i /\ It \notin dead
      BY <1>2, <1>3, <1>4, MovedIs
    <3>2. new_it # None => new_it \in Chunks /\ new_it \notin old /\ new_it # i
      BY <1>2, <1>4, MovedIs
    <3>3. LockOf[key[It]] \in Locks /\ item_lock[LockOf[key[It]]] # u
      BY MovedIs, NamesAssumption
    <3> QED BY <1>7, <1>8, <1>13, <3>1, <3>2, <3>3
  <2>2. \A j \in Chunks : flag[j] = "cleared" => flag'[j] = "cleared"
    BY <1>2, <1>3, <1>7
  <2> QED BY <1>1, <2>1, <2>2, MoverStays
<1>15. UsersOK'
  <2> SUFFICES ASSUME NEW v \in Users PROVE UserOK(v)'
    BY DEF UsersOK
  <2>0. pc'[u] = "hold" /\ UserOK(v) /\ UNCHANGED <<mpc, new_it>> /\ It' = It
    BY <1>1 DEF IInv, TypeOK, UsersOK, rebal, It
  <2>1. CASE v = u
    <3>1. key'[i] = k /\ mine'[u] = i /\ want'[u] = k
      BY <1>1, <1>2, <1>3, <1>8
    <3> QED BY <1>2, <1>7, <2>0, <2>1, <3>1 DEF UserOK, Live
  <2>2. CASE v # u
    <3>1. \A w \in Users \ {u} : pc'[w] = pc[w] /\ want'[w] = want[w] /\ mine'[w] = mine[w]
      BY <1>1 DEF IInv, TypeOK
    <3>2. mine[v] # None => mine[v] \in Chunks \ {i} /\ mine[v] \notin dead /\ Live(mine[v])
      BY <1>2, <1>6, <2>2, UserIs
    <3>3. mine[v] # None => /\ key'[mine[v]] = key[mine[v]]
                            /\ flag'[mine[v]] = flag[mine[v]] \/ flag'[mine[v]] = "none"
      BY <1>7, <1>8, <3>2
    <3>4. mine[v] # None => Live(mine[v])'
      BY <2>2, <3>1, <3>2, <3>3 DEF Live
    <3>5. pc[v] \in {"filled", "storing", "freeing"} => flag'[mine[v]] = "none" /\ mine'[u] # mine[v]
      BY <1>1, <1>2, <2>0, <2>2, <3>3 DEF UserOK
    <3>6. \A m \in Locks : item_lock[m] = v => item_lock'[m] = v
      BY <1>13, <2>2
    <3> QED BY <1>1, <2>2, <3>1, <3>3, <3>4, <3>5, <3>6, OthersKeep
  <2> QED BY <2>1, <2>2
<1>16. MoverCountsExact'
  <2> SUFFICES ASSUME NEW j \in Chunks, Live(j)'
               PROVE  refcount'[j] = Cardinality(Holding(j)') + Linked(j)' + Moved(j)'
    BY CountsAreNext
  <2>0. j \notin dead
    BY <1>7 DEF Live
  <2>1. Holding(j)' = Holding(j)
    BY <1>1 DEF Holding, IInv, TypeOK
  <2>2. Moved(j)' = Moved(j)
    BY <1>1 DEF Moved, rebal, It
  <2>3. CASE j = i
    <3>1. refcount[j] = Cardinality(Holding(j)) + Linked(j) + Moved(j)
      BY <1>2, <2>3, CountsAre DEF IInv
    <3>2. Linked(j) = 0 /\ Linked(j)' = 1
      BY <1>2, <1>7, <2>3 DEF Linked
    <3> QED BY <1>9, <2>1, <2>2, <2>3, <3>1, <3>2, HoldingIs
  <2>4. CASE j \in old
    <3>1. refcount[j] = Cardinality(Holding(j)) + 1 /\ Moved(j) = 0
      BY <1>4, <1>5, <2>4 DEF Moved
    <3>2. Linked(j)' = 0
      BY <1>7, <2>0, <2>4 DEF Linked
    <3> QED BY <1>3, <1>9, <2>1, <2>2, <2>4, <3>1, <3>2, HoldingIs
  <2>5. CASE j # i /\ j \notin old
    <3>1. Live(j) /\ Linked(j)' = Linked(j)
      BY <1>7, <2>5 DEF Live, Linked
    <3> QED BY <1>9, <2>1, <2>2, <2>5, <3>1, CountsAre DEF IInv
  <2> QED BY <2>3, <2>4, <2>5
<1>17. KeysStay
  <2> SUFFICES ASSUME NEW h \in Keys, NEW j \in Chunks, flag[j] = "linked", key[j] = h
               PROVE  \E q \in Chunks : flag'[q] = "linked" /\ key'[q] = h
    BY DEF KeysStay, Find
  <2>1. CASE h = k
    BY <1>2, <1>3, <1>7, <1>8, <2>1
  <2>2. CASE h # k
    <3>1. j \notin old /\ j \notin dead /\ j # i
      BY <1>2, <1>3, <2>2
    <3> QED BY <1>7, <1>8, <3>1
  <2> QED BY <2>1, <2>2
<1> QED BY <1>17, <1>8, <1>10, <1>11, <1>12, <1>14, <1>15, <1>16 DEF IInv

-----------------------------------------------------------------------------
(* The mover's steps.                                                      *)

MoverTypeOK ==
    /\ signal \in 0 .. 2 /\ done \in 0 .. 1
    /\ s_clsid \in Classes \cup {0} /\ d_clsid \in Classes \cup {0}
    /\ slab_start \in Pages \cup {None}
    /\ slab_pos \in 0 .. (IF signal = 2 THEN PerSlab[s_clsid] ELSE 0)
    /\ busy_items \in Nat
    /\ mpc \in {"locked", "unlocked"} /\ new_it \in Chunks \cup {None}

\* The mover only looks, or is told what to do next.
LEMMA QuietKeeps ==
    ASSUME IInv, UNCHANGED <<pages, items, item_lock, user, failed>>,
           MoverOK', MoverTypeOK', mpc = "locked", mpc' = "locked"
    PROVE  IInv'
<1>1. UNCHANGED <<slab_list, slots, sl_curr, mem_limit, mem_malloced, flag, refcount, key, pitem, pc, want, mine>>
  BY DEF pages, items, user
<1>2. TypeOK' /\ ~failed'
  BY <1>1 DEF IInv, TypeOK, MoverTypeOK
<1>3. PagesOK' /\ FlagsOK' /\ FreeOK' /\ LinkedOK'
  BY <1>1, PagesStay, FlagsStay, FreeStay, LinkedStay DEF IInv
<1>4. UsersOK'
  BY <1>1 DEF IInv, UsersOK, UserOK, Live
<1>5. MoverCountsExact'
  BY <1>1 DEF IInv, MoverCountsExact, Live
<1> QED BY <1>2, <1>3, <1>4, <1>5 DEF IInv

LEMMA ReassignKeeps ==
    ASSUME IInv, NEW src \in Classes, NEW dst \in Lists, Reassign(src, dst)
    PROVE  IInv'
<1>1. /\ signal = 0 /\ src # dst /\ Len(slab_list[src]) >= 2
      /\ s_clsid' = src /\ d_clsid' = dst /\ signal' = 1
      /\ UNCHANGED <<pages, items, item_lock, user, slab_start, slab_pos, busy_items, done, mpc, new_it, failed>>
  BY DEF Reassign
<1>2. mpc = "locked" /\ done = 0 /\ new_it = None /\ slab_list' = slab_list /\ Len(slab_list[src]) \in Nat
  BY <1>1 DEF IInv, TypeOK, MoverOK, pages
<1>3. MoverTypeOK'
  BY <1>1, <1>2 DEF MoverTypeOK, IInv, TypeOK, Lists, SLAB_GLOBAL_PAGE_POOL
<1>4. MoverOK'
  BY <1>1, <1>2 DEF MoverOK, ClearWhenDone
<1> QED BY <1>1, <1>2, <1>3, <1>4, QuietKeeps

LEMMA StartKeeps ==
    ASSUME IInv, Start
    PROVE  IInv'
<1>1. /\ signal = 1 /\ slab_start' = slab_list[s_clsid][1] /\ slab_pos' = 1 /\ done' = 0 /\ signal' = 2
      /\ UNCHANGED <<pages, items, item_lock, user, s_clsid, d_clsid, busy_items, mpc, new_it, failed>>
  BY DEF Start
<1>2. /\ mpc = "locked" /\ new_it = None /\ slab_list' = slab_list
      /\ s_clsid \in Classes /\ d_clsid # s_clsid /\ Len(slab_list[s_clsid]) >= 1
  BY <1>1 DEF IInv, TypeOK, MoverOK, pages
<1>3. slab_list[s_clsid][1] \in Pages /\ PerSlab[s_clsid] \in Nat \ {0}
  <2>1. slab_list[s_clsid] \in Seq(Pages) /\ 1 \in 1 .. Len(slab_list[s_clsid])
    BY <1>2 DEF IInv, TypeOK
  <2> QED BY <1>2, <2>1, ClassesAssumption
<1>4. MoverTypeOK'
  BY <1>1, <1>2, <1>3 DEF MoverTypeOK, IInv, TypeOK
<1>5. MoverOK'
  BY <1>1, <1>2 DEF MoverOK, ClearWhenDone
<1> QED BY <1>1, <1>2, <1>4, <1>5, QuietKeeps

LEMMA StartFailsKeeps ==
    ASSUME IInv, StartFails
    PROVE  IInv'
<1>1. /\ signal = 1 /\ signal' = 0
      /\ UNCHANGED <<pages, items, item_lock, user, s_clsid, d_clsid, slab_start, slab_pos, busy_items, done, mpc,
                     new_it, failed>>
  BY DEF StartFails
<1>2. mpc = "locked" /\ new_it = None /\ done = 0
  BY <1>1 DEF IInv, TypeOK, MoverOK
<1>3. MoverTypeOK'
  BY <1>1 DEF MoverTypeOK, IInv, TypeOK
<1>4. MoverOK'
  BY <1>1, <1>2 DEF MoverOK, ClearWhenDone
<1> QED BY <1>1, <1>2, <1>3, <1>4, QuietKeeps

\* The end of slab_rebalance_move: a chunk that is passed is cleared, or counted.
LEMMA AdvanceKeeps ==
    ASSUME IInv, signal = 2, done = 0, NEW busy \in 0 .. 1, Advance(busy),
           UNCHANGED <<signal, s_clsid, d_clsid, slab_start, slab_list>>,
           mpc' = "locked", new_it' = None,
           busy = 0 => flag'[It] = "cleared",
           \A j \in Chunks : flag[j] = "cleared" => flag'[j] = "cleared"
    PROVE  MoverOK' /\ MoverTypeOK'
<1>1. /\ s_clsid \in Classes /\ slab_pos \in 1 .. PerSlab[s_clsid] /\ PerSlab[s_clsid] \in Nat
      /\ \A n \in 1 .. PerSlab[s_clsid] : <<slab_start, n>> \in Chunks
  BY MoverIs
<1>2. busy_items \in Nat
  BY DEF IInv, TypeOK
<1>3. busy_items > 0 \/ \A n \in 1 .. slab_pos - 1 : flag'[<<slab_start, n>>] = "cleared"
  <2>1. busy_items > 0 \/ \A n \in 1 .. slab_pos - 1 : flag[<<slab_start, n>>] = "cleared"
    BY DEF IInv, MoverOK
  <2>2. \A n \in 1 .. slab_pos - 1 : n \in 1 .. PerSlab[s_clsid]
    BY <1>1
  <2> QED BY <1>1, <2>1, <2>2
<1>4. busy_items + busy > 0 \/ \A n \in 1 .. slab_pos : flag'[<<slab_start, n>>] = "cleared"
  <2> SUFFICES ASSUME ~(busy_items + busy > 0), NEW n \in 1 .. slab_pos
               PROVE  flag'[<<slab_start, n>>] = "cleared"
    OBVIOUS
  <2>1. ~(busy_items > 0) /\ busy = 0
    BY <1>2
  <2>2. CASE n = slab_pos
    BY <2>1, <2>2 DEF It
  <2>3. CASE n # slab_pos
    BY <1>1, <1>3, <2>1, <2>3
  <2> QED BY <2>2, <2>3
<1>5. /\ s_clsid \in Classes /\ d_clsid # s_clsid /\ Len(slab_list[s_clsid]) >= 1
      /\ slab_start = slab_list[s_clsid][1]
  BY DEF IInv, MoverOK
<1>6. CASE slab_pos < PerSlab[s_clsid]
  <2>1. slab_pos' = slab_pos + 1 /\ busy_items' = busy_items + busy /\ done' = done
    BY <1>6 DEF Advance
  <2>2. slab_pos + 1 \in 0 .. PerSlab[s_clsid] /\ slab_pos + 1 >= 1 /\ (slab_pos + 1) - 1 = slab_pos
        /\ busy_items + busy \in Nat
    BY <1>1, <1>2, <1>6
  <2>3. MoverTypeOK'
    BY <1>1, <2>1, <2>2 DEF MoverTypeOK, IInv, TypeOK
  <2>4. MoverOK'
    BY <1>4, <1>5, <2>1, <2>2 DEF MoverOK, ClearWhenDone
  <2> QED BY <2>3, <2>4
<1>7. CASE ~(slab_pos < PerSlab[s_clsid]) /\ busy_items + busy > 0
  <2>1. slab_pos' = 1 /\ busy_items' = 0 /\ done' = done
    BY <1>7 DEF Advance
  <2>2. 1 \in 0 .. PerSlab[s_clsid]
    BY <1>1
  <2>3. MoverTypeOK'
    BY <1>1, <2>1, <2>2 DEF MoverTypeOK, IInv, TypeOK
  <2>4. MoverOK'
    BY <1>5, <2>1 DEF MoverOK, ClearWhenDone
  <2> QED BY <2>3, <2>4
<1>8. CASE ~(slab_pos < PerSlab[s_clsid]) /\ ~(busy_items + busy > 0)
  <2>1. slab_pos' = slab_pos /\ busy_items' = busy_items /\ done' = 1 /\ slab_pos = PerSlab[s_clsid]
    BY <1>1, <1>8 DEF Advance
  <2>2. MoverTypeOK'
    BY <1>1, <2>1 DEF MoverTypeOK, IInv, TypeOK
  <2>3. \A i \in ChunksOf(slab_start, s_clsid) : flag'[i] = "cleared"
    BY <1>4, <1>8, <2>1 DEF ChunksOf
  <2>4. ClearWhenDone'
    BY <2>3 DEF ClearWhenDone, ChunksOf
  <2>5. slab_pos >= 1
    BY <1>1
  <2>6. busy_items > 0 \/ \A n \in 1 .. slab_pos - 1 : flag'[<<slab_start, n>>] = "cleared"
    BY <1>3
  <2>7. MoverOK'
    BY <1>5, <2>1, <2>4, <2>5, <2>6 DEF MoverOK
  <2> QED BY <2>2, <2>7
<1> QED BY <1>6, <1>7, <1>8

LEMMA MovePassKeeps ==
    ASSUME IInv, MovePass
    PROVE  IInv'
<1>1. /\ signal = 2 /\ done = 0 /\ mpc = "locked" /\ flag[It] = "cleared" /\ Advance(0)
      /\ UNCHANGED <<pages, items, item_lock, user, signal, s_clsid, d_clsid, slab_start, mpc, new_it, failed>>
  BY DEF MovePass, Looks
<1>2. new_it = None /\ slab_list' = slab_list /\ flag' = flag
  BY <1>1 DEF IInv, MoverOK, pages, items
<1>3. MoverOK' /\ MoverTypeOK'
  BY <1>1, <1>2, AdvanceKeeps
<1> QED BY <1>1, <1>2, <1>3, QuietKeeps

LEMMA MoveLaterKeeps ==
    ASSUME IInv, MoveLater
    PROVE  IInv'
<1>1. /\ signal = 2 /\ done = 0 /\ mpc = "locked" /\ Advance(1)
      /\ UNCHANGED <<pages, items, item_lock, user, signal, s_clsid, d_clsid, slab_start, mpc, new_it, failed>>
  BY DEF MoveLater, Looks
<1>2. new_it = None /\ slab_list' = slab_list /\ flag' = flag
  BY <1>1 DEF IInv, MoverOK, pages, items
<1>3. MoverOK' /\ MoverTypeOK'
  BY <1>1, <1>2, AdvanceKeeps
<1> QED BY <1>1, <1>2, <1>3, QuietKeeps

\* What a step of the mover has to leave alone for the users.
LEMMA UsersStay ==
    ASSUME IInv, UNCHANGED user,
           \A u \in Users : mine[u] # None =>
              flag'[mine[u]] = flag[mine[u]] /\ key'[mine[u]] = key[mine[u]],
           \A l \in Locks : item_lock[l] \in Users => item_lock'[l] = item_lock[l],
           mpc' = "unlocked" => \A u \in Users : mine[u] # None => mine[u] # It' /\ mine[u] # new_it'
    PROVE  UsersOK'
<1> SUFFICES ASSUME NEW u \in Users PROVE UserOK(u)'
  BY DEF UsersOK
<1>1. UserOK(u) /\ UNCHANGED <<pc, want, mine>>
  BY DEF IInv, UsersOK, user
<1>2. pc[u] # "idle" => mine[u] # None /\ LockOf[want[u]] \in Locks
  BY UserIs
<1>3. pc[u] \in {"storing", "freeing"} => item_lock'[LockOf[want[u]]] = u
  BY <1>1, <1>2 DEF UserOK
<1> QED BY <1>1, <1>2, <1>3 DEF UserOK, Live

LEMMA CutKeeps ==
    ASSUME IInv, MoveFromSlab
    PROVE  IInv' /\ KeysStay
<1> USE DEF Set
<1> DEFINE c == s_clsid
           t == Cut(slots[c], It)
<1>1. /\ signal = 2 /\ done = 0 /\ mpc = "locked" /\ flag[It] = "slabbed" /\ Advance(0)
      /\ slots' = [slots EXCEPT ![c] = t] /\ sl_curr' = [sl_curr EXCEPT ![c] = sl_curr[c] - 1]
      /\ flag' = [flag EXCEPT ![It] = "cleared"] /\ refcount' = [refcount EXCEPT ![It] = 0]
      /\ UNCHANGED <<slab_list, mem_limit, mem_malloced, key, pitem, item_lock, user,
                     signal, s_clsid, d_clsid, slab_start, mpc, new_it, failed>>
  BY DEF MoveFromSlab, Looks
<1>2. c \in Classes /\ It \in Chunks /\ It[1] \in Ran(slab_list[c]) /\ new_it = None
  BY <1>1, MoverIs DEF IInv, MoverOK, In
<1>3. /\ slots[c] \in Seq(Chunks) /\ Distinct(slots[c]) /\ sl_curr[c] = Len(slots[c])
      /\ Ran(slots[c]) = {j \in Chunks : flag[j] = "slabbed" /\ j[1] \in Ran(slab_list[c])}
      /\ It \in Ran(slots[c])
  BY <1>1, <1>2 DEF IInv, TypeOK, FreeOK
<1>4. t \in Seq(Chunks) /\ Len(t) = Len(slots[c]) - 1 /\ Distinct(t) /\ Ran(t) = Ran(slots[c]) \ {It}
  BY <1>3, CutQ
<1> HIDE DEF t
<1>5. flag'[It] = "cleared" /\ \A j \in Chunks \ {It} : flag'[j] = flag[j]
  BY <1>1, <1>2 DEF IInv, TypeOK
<1>6. MoverOK' /\ MoverTypeOK'
  <2>1. \A j \in Chunks : flag[j] = "cleared" => flag'[j] = "cleared"
    BY <1>5
  <2> QED BY <1>1, <1>2, <1>5, <2>1, AdvanceKeeps
<1>7. TypeOK' /\ ~failed'
  <2>1. sl_curr[c] - 1 \in Nat
    BY <1>3, <1>4
  <2>2. sl_curr' \in [Classes -> Nat]
    BY <1>1, <2>1 DEF IInv, TypeOK
  <2>3. slots' \in [Classes -> Seq(Chunks)]
    BY <1>1, <1>4 DEF IInv, TypeOK
  <2>4. TypeOK
    BY DEF IInv
  <2> QED BY <1>1, <1>6, <2>2, <2>3, <2>4 DEF IInv, TypeOK, MoverTypeOK, user
<1>8. PagesOK' /\ FlagsOK' /\ LinkedOK'
  BY <1>1, <1>5, PagesStay, FlagsStay, LinkedStay DEF IInv
<1>9. FreeOK'
  <2> SUFFICES ASSUME NEW d \in Classes
               PROVE /\ sl_curr'[d] = Len(slots'[d]) /\ Distinct(slots'[d])
                     /\ Ran(slots'[d]) = {j \in Chunks : flag'[j] = "slabbed" /\ j[1] \in Ran(slab_list'[d])}
    BY FreeNext
  <2>1. \A j \in Chunks : flag'[j] = "slabbed" <=> flag[j] = "slabbed" /\ j # It
    BY <1>5
  <2>2. CASE d = c
    <3>1. slots'[d] = t /\ sl_curr'[d] = Len(slots[c]) - 1
      BY <1>1, <1>3, <2>2 DEF IInv, TypeOK
    <3> QED BY <1>1, <1>3, <1>4, <2>1, <2>2, <3>1
  <2>3. CASE d # c
    <3>1. slots'[d] = slots[d] /\ sl_curr'[d] = sl_curr[d]
      BY <1>1, <2>3 DEF IInv, TypeOK
    <3>2. It[1] \notin Ran(slab_list[d])
      BY <1>2, <2>3, OneOwner DEF IInv, Lists
    <3>3. /\ sl_curr[d] = Len(slots[d]) /\ Distinct(slots[d])
          /\ Ran(slots[d]) = {j \in Chunks : flag[j] = "slabbed" /\ j[1] \in Ran(slab_list[d])}
      BY DEF IInv, FreeOK
    <3> QED BY <1>1, <2>1, <3>1, <3>2, <3>3
  <2> QED BY <2>2, <2>3
<1>10. UsersOK'
  <2>1. \A u \in Users : mine[u] # None => mine[u] \in Chunks \ {It}
    BY <1>1, UserIs DEF Live
  <2> QED BY <1>1, <1>5, <2>1, UsersStay
<1>11. MoverCountsExact'
  <2> SUFFICES ASSUME NEW j \in Chunks, Live(j)'
               PROVE  refcount'[j] = Cardinality(Holding(j)') + Linked(j)' + Moved(j)'
    BY CountsAreNext
  <2>1. j # It /\ flag'[j] = flag[j]
    BY <1>5 DEF Live
  <2>2. Live(j) /\ refcount'[j] = refcount[j] /\ Linked(j)' = Linked(j)
    BY <1>1, <2>1 DEF Live, Linked, IInv, TypeOK
  <2>3. Holding(j)' = Holding(j)
    BY <1>1 DEF Holding, user
  <2>4. Moved(j)' = Moved(j)
    BY <1>1 DEF Moved
  <2> QED BY <2>2, <2>3, <2>4, CountsAre DEF IInv
<1>12. KeysStay
  <2>1. \A j \in Chunks : flag[j] = "linked" => flag'[j] = "linked" /\ key'[j] = key[j]
    BY <1>1, <1>5
  <2> QED BY <2>1, LinksKeepKeys
<1> QED BY <1>12, <1>6, <1>7, <1>8, <1>9, <1>10, <1>11 DEF IInv

LEMMA LessIs ==
    ASSUME NEW x \in Nat, NEW y \in Nat, y < x
    PROVE  <<y, x>> \in OpToRel(<, Nat)
BY Zenon DEF OpToRel

LEMMA LeastOf ==
    ASSUME NEW T, T \subseteq Nat, T # {}
    PROVE  \E x \in T : \A y \in T : ~(y < x)
<1>1. \E x \in T : \A y \in T : ~(<<y, x>> \in OpToRel(<, Nat))
  BY NatLessThanWellFounded, WFMin, Zenon
<1> QED BY <1>1, LessIs, Zenon

\* slab_rebalance_alloc stops at the first chunk outside the page.
LEMMA LeadingIs ==
    ASSUME NEW S, NEW list \in Seq(S)
    PROVE  LET n == Leading(list)
           IN  /\ n \in 0 .. Len(list)
               /\ \A m \in 1 .. n : InPage(list[m])
               /\ n < Len(list) => ~InPage(list[n + 1])
<1> DEFINE T == {m \in 1 .. Len(list) : ~InPage(list[m])}
           P(n) == /\ \A m \in 1 .. n : InPage(list[m])
                   /\ n < Len(list) => ~InPage(list[n + 1])
<1>1. Len(list) \in Nat
  OBVIOUS
<1>2. \E n \in 0 .. Len(list) : P(n)
  <2>1. CASE T = {}
    BY <1>1, <2>1
  <2>2. CASE T # {}
    <3>1. PICK x \in T : \A y \in T : ~(y < x)
      <4>1. T \subseteq Nat
        BY <1>1
      <4> HIDE DEF T
      <4> QED BY <2>2, <4>1, LeastOf
    <3>2. x \in 1 .. Len(list) /\ ~InPage(list[x]) /\ x - 1 \in 0 .. Len(list) /\ (x - 1) + 1 = x
      BY <1>1, <3>1
    <3>3. \A m \in 1 .. x - 1 : InPage(list[m])
      BY <1>1, <3>1, <3>2
    <3>4. P(x - 1)
      BY <3>2, <3>3
    <3> QED BY <3>2, <3>4
  <2> QED BY <2>1, <2>2
<1> QED BY <1>2 DEF Leading

LEMMA MoveFromLruKeeps ==
    ASSUME IInv, MoveFromLru
    PROVE  IInv' /\ KeysStay
<1> USE DEF Set
<1> DEFINE c == s_clsid
           list == slots[c]
           n == Leading(list)
           found == n < Len(list)
           rest == IF found THEN n + 2 ELSE n + 1
           t == SubSeq(list, rest, Len(list))
           x == list[n + 1]
           D == {list[m] : m \in 1 .. n}
           l == LockOf[key[It]]
<1>1. /\ signal = 2 /\ done = 0 /\ mpc = "locked" /\ flag[It] = "linked"
      /\ item_lock[l] = None /\ item_lock' = [item_lock EXCEPT ![l] = Mover] /\ refcount[It] = 1
      /\ mpc' = "unlocked"
      /\ UNCHANGED <<slab_list, mem_limit, mem_malloced, key, pitem, user,
                     signal, s_clsid, d_clsid, slab_start, slab_pos, busy_items, done, failed>>
  BY DEF MoveFromLru, Looks, Lock, Free
<1>2. /\ new_it' = (IF found THEN x ELSE None)
      /\ slots' = [slots EXCEPT ![c] = t]
      /\ sl_curr' = [sl_curr EXCEPT ![c] = sl_curr[c] - rest + 1]
      /\ flag' = [i \in Chunks |-> IF i \in D THEN "cleared"
                                   ELSE IF found /\ i = x THEN "none" ELSE flag[i]]
      /\ refcount' = [i \in Chunks |-> IF i = It THEN 2 ELSE IF i \in D THEN 0
                                       ELSE IF found /\ i = x THEN 1 ELSE refcount[i]]
  <2>1. \A i : i \in D <=> \E m \in 1 .. n : list[m] = i
    OBVIOUS
  <2> HIDE DEF D, n
  <2> QED BY <2>1 DEF MoveFromLru, n
<1>3. c \in Classes /\ It \in Chunks /\ It[1] = slab_start /\ slab_start \in Ran(slab_list[c]) /\ new_it = None
      /\ It # None
  BY <1>1, MoverIs DEF IInv, MoverOK
<1>4. /\ list \in Seq(Chunks) /\ Distinct(list) /\ sl_curr[c] = Len(list) /\ Len(list) \in Nat
      /\ Ran(list) = {j \in Chunks : flag[j] = "slabbed" /\ j[1] \in Ran(slab_list[c])}
  BY <1>3 DEF IInv, TypeOK, FreeOK
<1>5. n \in 0 .. Len(list) /\ n \in Nat /\ (\A m \in 1 .. n : InPage(list[m])) /\ (found => ~InPage(x))
  BY <1>4, LeadingIs
<1>6. rest \in 1 .. Len(list) + 1 /\ rest - 1 = (IF found THEN n + 1 ELSE n)
  BY <1>4, <1>5
<1>7. D \subseteq Ran(list) /\ (found => x \in Ran(list) /\ x \notin D)
  <2>1. \A m \in 1 .. n : m \in 1 .. Len(list)
    BY <1>4, <1>5
  <2>2. D \subseteq Ran(list)
    BY <2>1 DEF Ran
  <2>3. found => x \in Ran(list)
    BY <1>4, <1>5 DEF Ran
  <2>4. found => x \notin D
    BY <1>5
  <2> QED BY <2>2, <2>3, <2>4
<1> DEFINE E == D \cup (IF found THEN {x} ELSE {})
<1>8. {list[m] : m \in 1 .. rest - 1} = E
  <2>1. CASE found
    <3>1. rest - 1 = n + 1 /\ 1 .. n + 1 = (1 .. n) \cup {n + 1}
      BY <1>5, <1>6, <2>1
    <3> QED BY <2>1, <3>1
  <2>2. CASE ~found
    BY <1>6, <2>2
  <2> QED BY <2>1, <2>2
<1> HIDE DEF D, n
<1>9. t \in Seq(Chunks) /\ Len(t) = Len(list) - rest + 1 /\ Distinct(t) /\ Ran(t) = Ran(list) \ E
  <2> HIDE DEF rest, list, E
  <2>1. /\ t \in Seq(Chunks) /\ Len(t) = Len(list) - rest + 1 /\ Distinct(t)
        /\ Ran(t) = Ran(list) \ {list[m] : m \in 1 .. rest - 1}
    BY <1>4, <1>6, DropQ
  <2> QED BY <1>8, <2>1
<1>10. \A j \in E : j \in Chunks /\ flag[j] = "slabbed" /\ j[1] \in Ran(slab_list[c]) /\ j # It
  BY <1>1, <1>4, <1>7
<1>11. /\ \A j \in D : flag'[j] = "cleared"
       /\ found => flag'[x] = "none" /\ refcount'[x] = 1
       /\ \A j \in Chunks \ E : flag'[j] = flag[j] /\ (j # It => refcount'[j] = refcount[j])
       /\ flag'[It] = "linked" /\ refcount'[It] = 2
  <2> HIDE DEF found, x
  <2> QED BY <1>1, <1>2, <1>3, <1>7, <1>10
<1>12. flag' \in [Chunks -> {"slabbed", "cleared", "linked", "none"}] /\ refcount' \in [Chunks -> Nat]
  <2>1. TypeOK
    BY DEF IInv
  <2> HIDE DEF found, x
  <2> QED BY <1>2, <2>1 DEF TypeOK
<1> HIDE DEF list, t, rest, x, found
<1>13. new_it' \in E \cup {None} /\ (new_it' # None => found /\ new_it' = x)
  <2>1. found => x \in E
    BY DEF E
  <2> QED BY <1>2, <2>1
<1>14. key[It] \in Keys /\ l \in Locks
  BY <1>1, <1>3, LocksAssumption DEF IInv, LinkedOK
<1> HIDE DEF E
<1>15. TypeOK' /\ ~failed'
  <2>1. sl_curr[c] - rest + 1 \in Nat
    BY <1>4, <1>9
  <2>2. sl_curr' \in [Classes -> Nat]
    BY <1>2, <2>1 DEF IInv, TypeOK
  <2>3. slots' \in [Classes -> Seq(Chunks)]
    BY <1>2, <1>9 DEF IInv, TypeOK
  <2>4. TypeOK
    BY DEF IInv
  <2>5. item_lock' \in [Locks -> Users \cup {Mover, None}]
    BY <1>1, <2>4 DEF TypeOK
  <2>6. new_it' \in Chunks \cup {None}
    BY <1>10, <1>13
  <2> QED BY <1>1, <1>12, <2>2, <2>3, <2>4, <2>5, <2>6 DEF IInv, TypeOK, user
<1>16. \A j \in Chunks : flag[j] = "cleared" => flag'[j] = "cleared"
  BY <1>10, <1>11
<1>17. \A j \in Chunks : flag'[j] = "linked" => flag[j] = "linked"
  BY <1>10, <1>11 DEF E
<1>18. PagesOK' /\ FlagsOK' /\ LinkedOK'
  BY <1>1, <1>16, <1>17, PagesStay, FlagsStay, LinkedStay DEF IInv
<1>19. FreeOK'
  <2> SUFFICES ASSUME NEW d \in Classes
               PROVE /\ sl_curr'[d] = Len(slots'[d]) /\ Distinct(slots'[d])
                     /\ Ran(slots'[d]) = {j \in Chunks : flag'[j] = "slabbed" /\ j[1] \in Ran(slab_list'[d])}
    BY FreeNext
  <2>1. \A j \in Chunks : flag'[j] = "slabbed" <=> flag[j] = "slabbed" /\ j \notin E
    BY <1>11 DEF E
  <2>2. CASE d = c
    <3>1. slots'[d] = t /\ sl_curr'[d] = Len(list) - rest + 1
      BY <1>2, <1>4, <2>2 DEF IInv, TypeOK
    <3> QED BY <1>1, <1>4, <1>9, <2>1, <2>2, <3>1
  <2>3. CASE d # c
    <3>1. slots'[d] = slots[d] /\ sl_curr'[d] = sl_curr[d]
      BY <1>2, <2>3 DEF IInv, TypeOK
    <3>2. \A j \in E : j[1] \notin Ran(slab_list[d])
      BY <1>3, <1>10, <2>3, OneOwner DEF IInv, Lists
    <3>3. /\ sl_curr[d] = Len(slots[d]) /\ Distinct(slots[d])
          /\ Ran(slots[d]) = {j \in Chunks : flag[j] = "slabbed" /\ j[1] \in Ran(slab_list[d])}
      BY DEF IInv, FreeOK
    <3> QED BY <1>1, <2>1, <3>1, <3>2, <3>3
  <2> QED BY <2>2, <2>3
<1>20. Cardinality(Holding(It)) = 0 /\ \A u \in Users : mine[u] # It
  <2>1. refcount[It] = Cardinality(Holding(It)) + Linked(It) + Moved(It)
    BY <1>1, <1>3, CountsAre DEF IInv, Live
  <2>2. Linked(It) = 1 /\ Moved(It) = 0
    BY <1>1 DEF Linked, Moved
  <2>3. Cardinality(Holding(It)) = 0
    BY <1>1, <2>1, <2>2, HoldingIs
  <2>4. \A u \in Users : mine[u] = It => pc[u] # "freeing"
    BY <1>1 DEF IInv, UsersOK, UserOK
  <2>5. \A u \in Users : mine[u] # It
    BY <2>3, <2>4, HoldingIs DEF Has
  <2> QED BY <2>3, <2>5
<1>21. \A u \in Users : mine[u] # None => mine[u] \in Chunks \ E
  BY <1>10, UserIs DEF Live
<1>22. It' = It
  BY <1>1 DEF It
<1>23. UsersOK'
  <2>1. \A u \in Users : mine[u] # None => mine[u] # It' /\ mine[u] # new_it'
    BY <1>13, <1>20, <1>21, <1>22
  <2>2. \A m \in Locks : item_lock[m] \in Users => item_lock'[m] = item_lock[m]
    BY <1>1, NamesAssumption DEF IInv, TypeOK
  <2> QED BY <1>1, <1>11, <1>21, <2>1, <2>2, UsersStay
<1>24. MoverOK'
  <2>1. item_lock'[l] = Mover /\ key' = key
    BY <1>1, <1>14 DEF IInv, TypeOK
  <2>2. new_it' # None => flag'[new_it'] = "none"
    BY <1>11, <1>13
  <2>3. /\ s_clsid \in Classes /\ d_clsid # s_clsid /\ Len(slab_list[s_clsid]) >= 1
        /\ slab_start = slab_list[s_clsid][1] /\ slab_pos >= 1
    BY <1>1 DEF IInv, MoverOK
  <2>4. busy_items > 0 \/ \A m \in 1 .. slab_pos - 1 : flag'[<<slab_start, m>>] = "cleared"
    <3>1. busy_items > 0 \/ \A m \in 1 .. slab_pos - 1 : flag[<<slab_start, m>>] = "cleared"
      BY <1>1 DEF IInv, MoverOK
    <3>2. \A m \in 1 .. slab_pos - 1 : <<slab_start, m>> \in Chunks
      BY <1>1, MoverIs
    <3> QED BY <1>16, <3>1, <3>2
  <2> QED BY <1>1, <1>11, <1>22, <2>1, <2>2, <2>3, <2>4 DEF MoverOK, ClearWhenDone
<1>25. MoverCountsExact'
  <2> SUFFICES ASSUME NEW j \in Chunks, Live(j)'
               PROVE  refcount'[j] = Cardinality(Holding(j)') + Linked(j)' + Moved(j)'
    BY CountsAreNext
  <2>1. Holding(j)' = Holding(j)
    BY <1>1 DEF Holding, user
  <2>2. CASE j = It
    <3>1. Linked(j)' = 1 /\ Moved(j)' = 1
      BY <1>1, <1>11, <1>22, <2>2 DEF Linked, Moved
    <3> QED BY <1>11, <1>20, <2>1, <2>2, <3>1
  <2>3. CASE j \in E
    <3>1. found /\ j = x
      BY <1>11, <2>3 DEF E, Live
    <3>2. Linked(j)' = 0 /\ Moved(j)' = 1 /\ refcount'[j] = 1
      BY <1>1, <1>2, <1>11, <3>1 DEF Linked, Moved
    <3>3. Cardinality(Holding(j)) = 0
      BY <1>21, <2>3, HoldingIs, ChunkIs DEF Has
    <3> QED BY <2>1, <3>2, <3>3
  <2>4. CASE j # It /\ j \notin E
    <3>1. Live(j) /\ Linked(j)' = Linked(j) /\ refcount'[j] = refcount[j]
      BY <1>11, <2>4 DEF Live, Linked
    <3>2. Moved(j) = 0 /\ Moved(j)' = 0
      BY <1>1, <1>13, <1>22, <2>4, ChunkIs DEF Moved
    <3> QED BY <2>1, <3>1, <3>2, CountsAre DEF IInv
  <2> QED BY <2>2, <2>3, <2>4
<1>26. KeysStay
  <2>1. \A j \in Chunks : flag[j] = "linked" => flag'[j] = "linked" /\ key'[j] = key[j]
    BY <1>1, <1>10, <1>11
  <2> QED BY <2>1, LinksKeepKeys
<1> QED BY <1>26, <1>15, <1>18, <1>19, <1>23, <1>24, <1>25 DEF IInv

\* While the mover is without slabs_lock, its two chunks are nobody's.
LEMMA MovedHeldByNone ==
    ASSUME IInv, mpc = "unlocked"
    PROVE  /\ \A u \in Users : mine[u] # None => mine[u] \in Chunks /\ mine[u] # It /\ mine[u] # new_it
           /\ \A u \in Users : mine[u] # It
           /\ new_it # None => new_it # It /\ \A u \in Users : mine[u] # new_it
<1>1. \A u \in Users : mine[u] # None => mine[u] \in Chunks /\ mine[u] # It /\ mine[u] # new_it
  BY UserIs DEF IInv, UsersOK, UserOK
<1>2. It # None /\ (new_it # None => new_it # It)
  BY MovedIs, ChunkIs
<1> QED BY <1>1, <1>2

LEMMA RescueKeeps ==
    ASSUME IInv, Rescue
    PROVE  IInv' /\ KeysStay
<1> USE DEF Set
<1> DEFINE l == LockOf[key[It]]
           n == new_it
<1>1. /\ mpc = "unlocked" /\ n # None /\ Advance(0)
      /\ flag' = [flag EXCEPT ![n] = "linked", ![It] = "cleared"]
      /\ refcount' = [refcount EXCEPT ![n] = 1, ![It] = 0]
      /\ key' = [key EXCEPT ![n] = key[It], ![It] = None]
      /\ pitem' = [pitem EXCEPT ![n] = pitem[It], ![It] = None]
      /\ item_lock' = [item_lock EXCEPT ![l] = None]
      /\ mpc' = "locked" /\ new_it' = None
      /\ UNCHANGED <<pages, user, signal, s_clsid, d_clsid, slab_start, failed>>
  BY DEF Rescue, Unlock
<1>2. /\ signal = 2 /\ done = 0 /\ It \in Chunks /\ n \in Chunks /\ n # It /\ flag[It] = "linked" /\ flag[n] = "none"
      /\ key[It] \in Keys /\ l \in Locks /\ item_lock[l] = Mover
      /\ UNCHANGED <<slab_list, slots, sl_curr, mem_limit, mem_malloced>>
  BY <1>1, MovedIs DEF IInv, MoverOK, pages
<1>3. /\ flag'[n] = "linked" /\ flag'[It] = "cleared" /\ key'[n] = key[It] /\ refcount'[n] = 1
      /\ \A j \in Chunks : j # n /\ j # It => flag'[j] = flag[j] /\ key'[j] = key[j] /\ refcount'[j] = refcount[j]
  BY <1>1, <1>2 DEF IInv, TypeOK
<1>4. MoverOK' /\ MoverTypeOK'
  <2>1. \A j \in Chunks : flag[j] = "cleared" => flag'[j] = "cleared"
    BY <1>2, <1>3
  <2>2. UNCHANGED <<signal, s_clsid, d_clsid, slab_start, slab_list>> /\ 0 \in 0 .. 1 /\ Advance(0)
    BY <1>1, <1>2
  <2>3. mpc' = "locked" /\ new_it' = None /\ flag'[It] = "cleared" /\ signal = 2 /\ done = 0
    BY <1>1, <1>2, <1>3
  <2> QED BY <2>1, <2>2, <2>3, AdvanceKeeps
<1>5. TypeOK' /\ ~failed'
  <2>1. TypeOK
    BY DEF IInv
  <2>2. /\ flag' \in [Chunks -> {"slabbed", "cleared", "linked", "none"}] /\ refcount' \in [Chunks -> Nat]
        /\ key' \in [Chunks -> Keys \cup {None}] /\ pitem' \in [Chunks -> Chunks \cup {None}]
        /\ item_lock' \in [Locks -> Users \cup {Mover, None}]
    BY <1>1, <1>2, <2>1 DEF TypeOK
  <2> QED BY <1>1, <1>2, <1>4, <2>1, <2>2 DEF IInv, TypeOK, MoverTypeOK, user
<1>6. PagesOK' /\ FlagsOK' /\ FreeOK'
  BY <1>1, <1>2, <1>3, PagesStay, FlagsStay, FreeStay DEF IInv
<1>7. LinkedOK'
  <2>1. \A j \in Chunks : flag'[j] = "linked" =>
           \/ j = n /\ key'[j] = key[It]
           \/ j # n /\ j # It /\ flag[j] = "linked" /\ key'[j] = key[j]
    BY <1>3
  <2>2. \A j \in Chunks : flag[j] = "linked" => key[j] \in Keys /\ (key[j] = key[It] => j = It)
    BY <1>2 DEF IInv, LinkedOK
  <2> SUFFICES ASSUME NEW j \in Chunks, flag'[j] = "linked", NEW q \in Chunks, flag'[q] = "linked"
               PROVE  key'[j] \in Keys /\ (key'[q] = key'[j] => q = j)
    BY DEF LinkedOK
  <2> QED BY <1>2, <2>1, <2>2 DEF IInv, LinkedOK
<1>8. UsersOK'
  <2>1. \A m \in Locks : item_lock[m] \in Users => item_lock'[m] = item_lock[m]
    BY <1>1, <1>2, NamesAssumption DEF IInv, TypeOK
  <2> QED BY <1>1, <1>3, <2>1, MovedHeldByNone, UsersStay
<1>9. MoverCountsExact'
  <2> SUFFICES ASSUME NEW j \in Chunks, Live(j)'
               PROVE  refcount'[j] = Cardinality(Holding(j)') + Linked(j)' + Moved(j)'
    BY CountsAreNext
  <2>1. Holding(j)' = Holding(j) /\ Moved(j)' = 0
    BY <1>1 DEF Holding, Moved, user
  <2>2. j # It
    BY <1>3 DEF Live
  <2>3. CASE j = n
    <3>1. Cardinality(Holding(j)) = 0
      BY <1>1, <2>3, MovedHeldByNone, HoldingIs DEF Has
    <3> QED BY <1>3, <2>1, <2>3, <3>1 DEF Linked
  <2>4. CASE j # n
    <3>1. Live(j) /\ Linked(j)' = Linked(j) /\ refcount'[j] = refcount[j] /\ Moved(j) = 0
      BY <1>3, <2>2, <2>4 DEF Live, Linked, Moved
    <3> QED BY <2>1, <3>1, CountsAre DEF IInv
  <2> QED BY <2>3, <2>4
<1>10. KeysStay
  <2> SUFFICES ASSUME NEW h \in Keys, NEW j \in Chunks, flag[j] = "linked", key[j] = h
               PROVE  \E q \in Chunks : flag'[q] = "linked" /\ key'[q] = h
    BY DEF KeysStay, Find
  <2>1. CASE j = It
    BY <1>2, <1>3, <2>1
  <2>2. CASE j # It
    BY <1>2, <1>3, <2>2
  <2> QED BY <2>1, <2>2
<1> QED BY <1>10, <1>4, <1>5, <1>6, <1>7, <1>8, <1>9 DEF IInv

LEMMA EvictKeeps ==
    ASSUME IInv, EvictNoMem
    PROVE  IInv'
<1> USE DEF Set
<1> DEFINE l == LockOf[key[It]]
<1>1. /\ mpc = "unlocked" /\ new_it = None /\ Advance(1) /\ Push(It)
      /\ flag' = [flag EXCEPT ![It] = "slabbed"]
      /\ refcount' = [refcount EXCEPT ![It] = refcount[It] - 1]
      /\ item_lock' = [item_lock EXCEPT ![l] = None]
      /\ mpc' = "locked"
      /\ UNCHANGED <<slab_list, mem_limit, mem_malloced, user, signal, s_clsid, d_clsid, slab_start, new_it, failed>>
  BY DEF EvictNoMem, Unlock
<1>2. /\ signal = 2 /\ done = 0 /\ It \in Chunks /\ flag[It] = "linked" /\ Live(It)
      /\ key[It] \in Keys /\ l \in Locks /\ item_lock[l] = Mover
  BY <1>1, MovedIs DEF IInv, MoverOK, Live
<1>3. /\ flag'[It] = "slabbed"
      /\ \A j \in Chunks \ {It} : flag'[j] = flag[j] /\ refcount'[j] = refcount[j]
  BY <1>1, <1>2 DEF IInv, TypeOK
<1>4. /\ FreeOK' /\ slots' \in [Classes -> Seq(Chunks)] /\ sl_curr' \in [Classes -> Nat]
      /\ key' \in [Chunks -> Keys \cup {None}] /\ pitem' \in [Chunks -> Chunks \cup {None}]
      /\ \A j \in Chunks \ {It} : key'[j] = key[j]
  BY <1>1, <1>2, <1>3, PushKeeps
<1>5. MoverOK' /\ MoverTypeOK'
  <2>1. \A j \in Chunks : flag[j] = "cleared" => flag'[j] = "cleared"
    BY <1>2, <1>3
  <2> QED BY <1>1, <1>2, <2>1, AdvanceKeeps
<1>6. refcount[It] - 1 \in Nat
  <2>1. refcount[It] = Cardinality(Holding(It)) + Linked(It) + Moved(It)
    BY <1>2, CountsAre DEF IInv
  <2>2. Linked(It) = 1
    BY <1>2 DEF Linked
  <2> QED BY <2>1, <2>2, HoldingIs
<1>7. TypeOK' /\ ~failed'
  <2>1. TypeOK
    BY DEF IInv
  <2>2. refcount' \in [Chunks -> Nat]
    BY <1>1, <1>6, <2>1 DEF TypeOK
  <2>3. /\ flag' \in [Chunks -> {"slabbed", "cleared", "linked", "none"}]
        /\ item_lock' \in [Locks -> Users \cup {Mover, None}]
    BY <1>1, <2>1 DEF TypeOK
  <2> QED BY <1>1, <1>4, <1>5, <2>1, <2>2, <2>3 DEF IInv, TypeOK, MoverTypeOK, user
<1>8. PagesOK' /\ FlagsOK' /\ LinkedOK'
  BY <1>1, <1>2, <1>3, <1>4, PagesStay, FlagsStay, LinkedStay DEF IInv
<1>9. UsersOK'
  <2>1. \A m \in Locks : item_lock[m] \in Users => item_lock'[m] = item_lock[m]
    BY <1>1, <1>2, NamesAssumption DEF IInv, TypeOK
  <2> QED BY <1>1, <1>3, <1>4, <2>1, MovedHeldByNone, UsersStay
<1>10. MoverCountsExact'
  <2> SUFFICES ASSUME NEW j \in Chunks, Live(j)'
               PROVE  refcount'[j] = Cardinality(Holding(j)') + Linked(j)' + Moved(j)'
    BY CountsAreNext
  <2>1. Holding(j)' = Holding(j) /\ Moved(j)' = 0
    BY <1>1 DEF Holding, Moved, user
  <2>2. j # It
    BY <1>3 DEF Live
  <2>3. Live(j) /\ Linked(j)' = Linked(j) /\ refcount'[j] = refcount[j] /\ Moved(j) = 0
    BY <1>1, <1>3, <2>2, ChunkIs DEF Live, Linked, Moved
  <2> QED BY <2>1, <2>3, CountsAre DEF IInv
<1> QED BY <1>4, <1>5, <1>7, <1>8, <1>9, <1>10 DEF IInv

\* A page that is done is cleared as a whole.
LEMMA DoneIsCleared ==
    ASSUME IInv, done = 1
    PROVE  signal = 2 /\ mpc = "locked" /\ new_it = None /\ \A j \in Chunks : j[1] = slab_start => flag[j] = "cleared"
<1>1. signal = 2 /\ mpc = "locked" /\ new_it = None /\ \A j \in ChunksOf(slab_start, s_clsid) : flag[j] = "cleared"
  BY DEF IInv, MoverOK, ClearWhenDone
<1>2. s_clsid \in Classes /\ slab_start \in Pages /\ slab_start \in Ran(slab_list[s_clsid])
  BY <1>1, MoverIs
<1>3. ASSUME NEW j \in Chunks, j[1] = slab_start, flag[j] # "cleared" PROVE FALSE
  <2>1. PICK c \in Classes : In(j, c)
    BY <1>3 DEF IInv, FlagsOK
  <2>2. c = s_clsid
    BY <1>2, <1>3, <2>1, OneOwner DEF IInv, In, Lists
  <2>3. j \in ChunksOf(slab_start, s_clsid)
    BY <1>2, <1>3, <2>1, <2>2, ChunkIs DEF In
  <2> QED BY <1>1, <1>3, <2>3
<1> QED BY <1>1, <1>3

\* The oldest page of a class goes to the end of another list, or from there
\* back to malloc.
LEMMA PageMoves ==
    ASSUME IInv, signal = 2, NEW d \in Lists, d # s_clsid, NEW q \in Seq(Pages),
           slab_list' = [slab_list EXCEPT ![s_clsid] = Tail(@), ![d] = q],
           Len(q) <= Len(slab_list[d]) + 1,
           \A m \in 1 .. Len(q) : q[m] = Append(slab_list[d], slab_start)[m]
    PROVE  /\ slab_list' \in [Lists -> Seq(Pages)] /\ slab_list'[d] = q
           /\ Ran(slab_list'[s_clsid]) = Ran(slab_list[s_clsid]) \ {slab_start}
           /\ \A e \in Lists : e # d /\ e # s_clsid => slab_list'[e] = slab_list[e]
           /\ \A e \in Lists : slab_start \in Ran(slab_list[e]) => e = s_clsid
           /\ \A e, f \in Lists : \A m \in 1 .. Len(slab_list'[e]), n \in 1 .. Len(slab_list'[f]) :
                 slab_list'[e][m] = slab_list'[f][n] => e = f /\ m = n
<1> DEFINE s == s_clsid
           p == slab_start
           L == slab_list
<1>1. /\ s \in Lists /\ p \in Pages /\ L \in [Lists -> Seq(Pages)] /\ PagesOK /\ p \in Ran(L[s])
      /\ p = L[s][1] /\ Len(L[s]) >= 1
  BY MoverIs DEF IInv, TypeOK, Lists, MoverOK
<1>2. L[s] \in Seq(Pages) /\ Distinct(L[s]) /\ Len(L[s]) \in Nat /\ L[d] \in Seq(Pages) /\ Len(L[d]) \in Nat
  BY <1>1 DEF PagesOK, Distinct
<1>3. /\ Tail(L[s]) \in Seq(Pages) /\ Len(Tail(L[s])) = Len(L[s]) - 1
      /\ \A n \in 1 .. Len(L[s]) - 1 : Tail(L[s])[n] = L[s][n + 1]
      /\ Head(L[s]) = L[s][1] /\ Ran(Tail(L[s])) = Ran(L[s]) \ {Head(L[s])}
  BY <1>1, <1>2, TailQ
<1>4. /\ L'[s] = Tail(L[s]) /\ L'[d] = q /\ (\A e \in Lists : e # d /\ e # s => L'[e] = L[e])
      /\ L' \in [Lists -> Seq(Pages)]
  BY <1>1, <1>3
<1>5. \A e \in Lists : \A m \in 1 .. Len(L[e]) : L[e][m] = p => e = s /\ m = 1
  <2>1. 1 \in 1 .. Len(L[s])
    BY <1>1, <1>2
  <2> QED BY <1>1, <2>1 DEF PagesOK
<1>6. /\ Append(L[d], p)[Len(L[d]) + 1] = p
      /\ \A n \in 1 .. Len(L[d]) : Append(L[d], p)[n] = L[d][n]
  BY <1>1, <1>2, AppendQ
<1>7. ASSUME NEW e \in Lists, NEW m \in 1 .. Len(L'[e])
      PROVE  \/ e = d /\ m = Len(L[d]) + 1 /\ L'[e][m] = p
             \/ e = s /\ m + 1 \in 1 .. Len(L[s]) /\ L'[e][m] = L[s][m + 1] /\ L[s][m + 1] # p
             \/ e # s /\ m \in 1 .. Len(L[e]) /\ L'[e][m] = L[e][m] /\ L[e][m] # p
  <2>1. CASE e = d
    <3>0. m \in 1 .. Len(q) /\ L'[e][m] = q[m] /\ Len(q) \in Nat
      BY <1>4, <2>1
    <3>1. m = Len(L[d]) + 1 \/ m \in 1 .. Len(L[d])
      BY <1>2, <3>0
    <3> QED BY <1>5, <1>6, <2>1, <3>0, <3>1
  <2>2. CASE e = s
    <3>1. m \in 1 .. Len(L[s]) - 1 /\ m + 1 \in 1 .. Len(L[s]) /\ m + 1 # 1
      BY <1>2, <1>3, <1>4, <2>2
    <3>2. L'[e][m] = L[s][m + 1]
      BY <1>3, <1>4, <2>2, <3>1
    <3> QED BY <1>1, <1>5, <2>2, <3>1, <3>2
  <2>3. CASE e # d /\ e # s
    BY <1>4, <1>5, <2>3
  <2> QED BY <2>1, <2>2, <2>3
<1>8. ASSUME NEW e \in Lists, NEW f \in Lists, NEW m \in 1 .. Len(L'[e]), NEW n \in 1 .. Len(L'[f]),
             L'[e][m] = L'[f][n]
      PROVE  e = f /\ m = n
  <2>0. /\ \/ e = d /\ m = Len(L[d]) + 1 /\ L'[e][m] = p
           \/ e = s /\ m + 1 \in 1 .. Len(L[s]) /\ L'[e][m] = L[s][m + 1] /\ L[s][m + 1] # p
           \/ e # s /\ m \in 1 .. Len(L[e]) /\ L'[e][m] = L[e][m] /\ L[e][m] # p
        /\ \/ f = d /\ n = Len(L[d]) + 1 /\ L'[f][n] = p
           \/ f = s /\ n + 1 \in 1 .. Len(L[s]) /\ L'[f][n] = L[s][n + 1] /\ L[s][n + 1] # p
           \/ f # s /\ n \in 1 .. Len(L[f]) /\ L'[f][n] = L[f][n] /\ L[f][n] # p
    BY <1>7
  <2>1. CASE L'[e][m] = p
    BY <1>8, <2>0, <2>1
  <2>2. CASE L'[e][m] # p
    <3> DEFINE a == IF e = s THEN m + 1 ELSE m
               b == IF f = s THEN n + 1 ELSE n
    <3>1. a \in 1 .. Len(L[e]) /\ b \in 1 .. Len(L[f]) /\ L[e][a] = L[f][b]
      BY <1>8, <2>0, <2>2
    <3>2. e = f /\ a = b
      <4> HIDE DEF a, b
      <4> QED BY <1>1, <3>1 DEF PagesOK
    <3>3. m \in Int /\ n \in Int
      OBVIOUS
    <3> QED BY <3>2, <3>3
  <2> QED BY <2>1, <2>2
<1>9. \A e \in Lists : p \in Ran(L[e]) => e = s
  BY <1>5, RanIs
<1> QED BY <1>1, <1>3, <1>4, <1>8, <1>9

\* Whatever list the cleared page goes to, its former chunks are nobody's.
LEMMA FinishKeeps ==
    ASSUME IInv, Finish
    PROVE  IInv' /\ KeysStay
<1> USE DEF Set
<1> DEFINE s == s_clsid
           d == d_clsid
           p == slab_start
           L == slab_list
           Z == SLAB_GLOBAL_PAGE_POOL
<1>1. /\ done = 1 /\ done' = 0 /\ s_clsid' = 0 /\ d_clsid' = 0 /\ slab_start' = None /\ slab_pos' = 0 /\ signal' = 0
      /\ UNCHANGED <<mem_limit, refcount, key, pitem, item_lock, user, busy_items, mpc, new_it, failed>>
  BY DEF Finish
<1>2. signal = 2 /\ mpc = "locked" /\ new_it = None /\ \A j \in Chunks : j[1] = p => flag[j] = "cleared"
  BY <1>1, DoneIsCleared
<1>3. s \in Classes /\ d \in Lists /\ d # s /\ p \in Pages /\ p \in Ran(L[s]) /\ Z \in Lists /\ Z \notin Classes
  BY <1>2, MoverIs, ClassesAssumption DEF Lists, SLAB_GLOBAL_PAGE_POOL
<1>4. TypeOK /\ PagesOK /\ L \in [Lists -> Seq(Pages)] /\ mem_malloced \in Nat /\ mem_limit \in Nat
  BY LimitsAssumption DEF IInv, TypeOK, Lists
<1>5. MoverOK' /\ MoverTypeOK'
  BY <1>1, <1>2 DEF MoverOK, MoverTypeOK, ClearWhenDone, IInv, TypeOK
<1>6. /\ PagesOK' /\ slab_list' \in [Lists -> Seq(Pages)] /\ mem_malloced' \in Nat
      /\ Ran(L'[s]) = Ran(L[s]) \ {p}
      /\ d \in Classes => Ran(L'[d]) = Ran(L[d]) \cup {p}
      /\ \A e \in Classes : e # d /\ e # s => L'[e] = L[e]
      /\ \A e \in Lists : p \in Ran(L[e]) => e = s
  <2>0. L[d] \in Seq(Pages) /\ Len(L[d]) \in Nat
    BY <1>3, <1>4
  <2>1. CASE d # Z
    <3>1. L' = [L EXCEPT ![s] = Tail(@), ![d] = Append(L[d], p)] /\ mem_malloced' = mem_malloced
      BY <1>3, <1>4, <2>1 DEF Finish
    <3>2. /\ Append(L[d], p) \in Seq(Pages) /\ Len(Append(L[d], p)) = Len(L[d]) + 1
          /\ Ran(Append(L[d], p)) = Ran(L[d]) \cup {p}
      BY <1>3, <2>0, AppendQ
    <3>3. /\ L' \in [Lists -> Seq(Pages)] /\ L'[d] = Append(L[d], p)
          /\ Ran(L'[s]) = Ran(L[s]) \ {p}
          /\ \A e \in Lists : e # d /\ e # s => L'[e] = L[e]
          /\ \A e \in Lists : p \in Ran(L[e]) => e = s
          /\ \A e, f \in Lists : \A m \in 1 .. Len(L'[e]), n \in 1 .. Len(L'[f]) :
                L'[e][m] = L'[f][n] => e = f /\ m = n
      <4> DEFINE q == Append(L[d], p)
      <4>1. q \in Seq(Pages) /\ Len(q) <= Len(L[d]) + 1 /\ L' = [L EXCEPT ![s] = Tail(@), ![d] = q]
        BY <2>0, <3>1, <3>2
      <4>2. \A m \in 1 .. Len(q) : q[m] = Append(L[d], p)[m]
        OBVIOUS
      <4> HIDE DEF q
      <4>3. /\ L' \in [Lists -> Seq(Pages)] /\ L'[d] = q
            /\ Ran(L'[s]) = Ran(L[s]) \ {p}
            /\ \A e \in Lists : e # d /\ e # s => L'[e] = L[e]
            /\ \A e \in Lists : p \in Ran(L[e]) => e = s
            /\ \A e, f \in Lists : \A m \in 1 .. Len(L'[e]), n \in 1 .. Len(L'[f]) :
                  L'[e][m] = L'[f][n] => e = f /\ m = n
        BY <1>2, <1>3, <4>1, <4>2, PageMoves
      <4> QED BY <4>3 DEF q
    <3>4. d \in Classes /\ Z # s /\ L'[Z] = L[Z]
      BY <1>3, <2>1, <3>3 DEF Lists
    <3>5. ClassPages' = ClassPages
      <4>1. \A x : x \in ClassPages' <=> \E e \in Classes : x \in Ran(L'[e])
        BY DEF ClassPages, Ran
      <4>2. ASSUME NEW x PROVE (\E e \in Classes : x \in Ran(L'[e])) <=> (\E e \in Classes : x \in Ran(L[e]))
        <5>1. \A e \in Classes : x # p => (x \in Ran(L'[e]) <=> x \in Ran(L[e]))
          BY <3>2, <3>3 DEF Lists
        <5>2. p \in Ran(L'[d]) /\ p \in Ran(L[s])
          BY <1>3, <3>2, <3>3
        <5> QED BY <1>3, <3>4, <5>1, <5>2
      <4> QED BY <1>4, <4>1, <4>2, ClassPagesIs
    <3>6. Pool = L[Z] /\ Pool' = L'[Z]
      BY DEF Pool, SLAB_GLOBAL_PAGE_POOL
    <3>7. PagesOK'
      BY <1>1, <1>4, <3>1, <3>3, <3>4, <3>5, <3>6 DEF PagesOK
    <3> QED BY <1>4, <3>1, <3>2, <3>3, <3>7 DEF Lists
  <2>2. CASE d = Z
    <3> DEFINE pool == Append(L[Z], p)
               n == Released(Len(pool), mem_limit)
               q == Shrunk(pool, n)
    <3>0. Pool = L[Z] /\ Pool' = L'[Z]
      BY DEF Pool, SLAB_GLOBAL_PAGE_POOL
    <3>1. L' = [L EXCEPT ![s] = Tail(@), ![Z] = q] /\ mem_malloced' = mem_malloced - n
      BY <2>2, <3>0 DEF Finish
    <3>2. pool \in Seq(Pages) /\ Len(pool) = Len(L[Z]) + 1 /\ Len(L[Z]) \in Nat
      BY <1>3, <2>0, <2>2, AppendQ
    <3> HIDE DEF pool
    <3>3. n \in 0 .. Len(pool) /\ (mem_malloced - n > mem_limit => n = Len(pool))
      <4>1. Len(pool) \in Nat
        BY <3>2
      <4> QED BY <1>4, <4>1, ReleasedIs
    <3> HIDE DEF n
    <3>4. q \in Seq(Pages) /\ Len(q) = Len(pool) - n /\ \A m \in 1 .. Len(pool) - n : q[m] = pool[m]
      BY <3>2, <3>3, ShrunkQ
    <3> HIDE DEF q
    <3>5. Len(q) <= Len(L[d]) + 1 /\ \A m \in 1 .. Len(q) : q[m] = Append(L[d], p)[m]
      BY <2>2, <3>2, <3>3, <3>4 DEF pool
    <3>6. /\ L' \in [Lists -> Seq(Pages)] /\ L'[d] = q
          /\ Ran(L'[s]) = Ran(L[s]) \ {p}
          /\ \A e \in Lists : e # d /\ e # s => L'[e] = L[e]
          /\ \A e \in Lists : p \in Ran(L[e]) => e = s
          /\ \A e, f \in Lists : \A m \in 1 .. Len(L'[e]), k \in 1 .. Len(L'[f]) :
                L'[e][m] = L'[f][k] => e = f /\ m = k
      BY <1>2, <1>3, <2>2, <3>1, <3>4, <3>5, PageMoves
    <3>7. ClassPages' = ClassPages \ {p} /\ p \in ClassPages
      <4>1. \A x : x \in ClassPages' <=> \E e \in Classes : x \in Ran(L'[e])
        BY DEF ClassPages, Ran
      <4>2. ASSUME NEW x PROVE (\E e \in Classes : x \in Ran(L'[e])) <=> x # p /\ (\E e \in Classes : x \in Ran(L[e]))
        <5>1. \A e \in Classes : x # p => (x \in Ran(L'[e]) <=> x \in Ran(L[e]))
          BY <1>3, <2>2, <3>6 DEF Lists
        <5>2. \A e \in Classes : p \notin Ran(L'[e])
          BY <1>3, <2>2, <3>6 DEF Lists
        <5> QED BY <5>1, <5>2
      <4> QED BY <1>3, <1>4, <4>1, <4>2, ClassPagesIs
    <3>8. Cardinality(ClassPages') = Cardinality(ClassPages) - 1 /\ Cardinality(ClassPages) \in Nat \ {0}
      <4>1. IsFiniteSet(ClassPages) /\ Cardinality(ClassPages) \in Nat
        BY <1>4, ClassPagesIs
      <4>2. Cardinality(ClassPages') = Cardinality(ClassPages) - 1
        BY <3>7, <4>1, FS_RemoveElement
      <4>3. Cardinality(ClassPages) # 0
        BY <3>7, <4>1, FS_EmptySet
      <4> QED BY <4>1, <4>2, <4>3
    <3>9. mem_malloced = Cardinality(ClassPages) + Len(L[Z])
      BY <1>4, <3>0 DEF PagesOK
    <3>10. mem_malloced' = Cardinality(ClassPages') + Len(Pool') /\ mem_malloced' \in Nat
      <4> DEFINE c == Cardinality(ClassPages)
                 k == Len(pool)
                 z == Len(L[Z])
      <4>0. c \in Nat \ {0} /\ z \in Nat /\ k = z + 1 /\ n \in 0 .. k /\ mem_malloced = c + z
        BY <3>2, <3>3, <3>8, <3>9
      <4> HIDE DEF c, k, z
      <4>1. mem_malloced - n = c - 1 + (k - n) /\ mem_malloced - n \in Nat
        BY <4>0
      <4> USE DEF c, k, z
      <4> QED BY <2>2, <3>0, <3>1, <3>4, <3>6, <3>8, <4>1
    <3>11. mem_malloced' > mem_limit' => Pool' = <<>>
      <4> SUFFICES ASSUME mem_malloced' > mem_limit' PROVE q = <<>>
        BY <2>2, <3>0, <3>6
      <4>1. Len(q) = 0
        BY <1>1, <3>1, <3>2, <3>3, <3>4
      <4> QED BY <3>4, <4>1
    <3>12. PagesOK'
      BY <3>6, <3>10, <3>11 DEF PagesOK
    <3> QED BY <1>3, <2>2, <3>6, <3>10, <3>12 DEF Lists
  <2> QED BY <2>1, <2>2
<1>7. /\ flag' \in [Chunks -> {"slabbed", "cleared", "linked", "none"}]
      /\ slots' \in [Classes -> Seq(Chunks)] /\ sl_curr' \in [Classes -> Nat]
      /\ \A j \in Chunks : j[1] # p => flag'[j] = flag[j]
      /\ \A j \in Chunks : j[1] = p => flag'[j] = (IF d \in Classes /\ j[2] <= PerSlab[d] THEN "slabbed" ELSE "cleared")
      /\ FreeOK'
  <2>1. \A e \in Classes : \A j \in Ran(slots[e]) : j[1] # p
    BY <1>2 DEF IInv, FreeOK
  <2>2. \A e \in Classes :
           /\ sl_curr[e] = Len(slots[e]) /\ Distinct(slots[e]) /\ slots[e] \in Seq(Chunks) /\ sl_curr[e] \in Nat
           /\ Ran(slots[e]) = {j \in Chunks : flag[j] = "slabbed" /\ j[1] \in Ran(L[e])}
    BY DEF IInv, FreeOK, TypeOK
  <2>3. CASE d = Z
    <3>1. UNCHANGED <<slots, sl_curr, flag>>
      BY <2>3 DEF Finish
    <3>2. \A e \in Classes : \A j \in Chunks : flag[j] = "slabbed" => (j[1] \in Ran(L'[e]) <=> j[1] \in Ran(L[e]))
      BY <1>2, <1>3, <1>6, <2>3
    <3>3. FreeOK'
      BY <2>2, <3>1, <3>2, FreeNext
    <3> QED BY <1>2, <1>3, <1>4, <2>3, <3>1, <3>3 DEF TypeOK
  <2>4. CASE d # Z
    <3> DEFINE t == Split(p, d)
    <3>1. d \in Classes /\ PerSlab[d] \in Nat
      BY <1>3, <2>4, ClassesAssumption DEF Lists
    <3>2. /\ slots' = [slots EXCEPT ![d] = t] /\ sl_curr' = [sl_curr EXCEPT ![d] = sl_curr[d] + PerSlab[d]]
          /\ flag' = SplitFlags(p, d)
      BY <2>4 DEF Finish
    <3>3. /\ t \in Seq(Chunks) /\ Len(t) = PerSlab[d] + Len(slots[d]) /\ Distinct(t)
          /\ Ran(t) = ChunksOf(p, d) \cup Ran(slots[d])
      BY <1>3, <2>1, <2>2, <3>1, SplitQ
    <3> HIDE DEF t
    <3>4. \A j \in Chunks : j \in ChunksOf(p, d) <=> j[1] = p /\ j[2] <= PerSlab[d]
      BY <1>3, <3>1, ChunkIs
    <3>5. /\ flag' \in [Chunks -> {"slabbed", "cleared", "linked", "none"}]
          /\ \A j \in Chunks : flag'[j] = IF j \in ChunksOf(p, d) THEN "slabbed" ELSE flag[j]
      BY <1>4, <3>2 DEF SplitFlags, TypeOK
    <3>6. \A j \in Chunks : j[1] # p => flag'[j] = flag[j]
      BY <3>4, <3>5
    <3>7. \A j \in Chunks : j[1] = p => flag'[j] = (IF d \in Classes /\ j[2] <= PerSlab[d] THEN "slabbed" ELSE "cleared")
      BY <1>2, <3>1, <3>4, <3>5
    <3>8. slots' \in [Classes -> Seq(Chunks)]
      BY <1>4, <3>2, <3>3 DEF TypeOK
    <3>9. sl_curr' \in [Classes -> Nat]
      <4>1. sl_curr[d] + PerSlab[d] \in Nat
        BY <2>2, <3>1
      <4> QED BY <1>4, <3>2, <4>1 DEF TypeOK
    <3>10. FreeOK'
      <4> SUFFICES ASSUME NEW e \in Classes
                   PROVE /\ sl_curr'[e] = Len(slots'[e]) /\ Distinct(slots'[e])
                         /\ Ran(slots'[e]) = {j \in Chunks : flag'[j] = "slabbed" /\ j[1] \in Ran(slab_list'[e])}
        BY FreeNext
      <4>1. CASE e = d
        <5>1. slots'[e] = t /\ sl_curr'[e] = sl_curr[d] + PerSlab[d] /\ sl_curr[d] = Len(slots[d])
          BY <1>4, <2>2, <3>1, <3>2, <4>1 DEF TypeOK
        <5>2. sl_curr'[e] = Len(slots'[e])
          BY <2>2, <3>1, <3>3, <5>1
        <5>3. Ran(L'[e]) = Ran(L[d]) \cup {p} /\ p \notin Ran(L[d])
          BY <1>3, <1>6, <3>1, <4>1
        <5>4. ChunksOf(p, d) \subseteq Chunks
          BY <1>3, <3>1, ChunkIs DEF ChunksOf
        <5>5. \A j \in Chunks : flag'[j] = "slabbed" /\ j[1] \in Ran(L'[e])
                 <=> j \in ChunksOf(p, d) \/ (flag[j] = "slabbed" /\ j[1] \in Ran(L[d]))
          <6> SUFFICES ASSUME NEW j \in Chunks
                       PROVE  flag'[j] = "slabbed" /\ j[1] \in Ran(L'[e])
                                 <=> j \in ChunksOf(p, d) \/ (flag[j] = "slabbed" /\ j[1] \in Ran(L[d]))
            OBVIOUS
          <6>1. CASE j[1] = p
            BY <3>1, <3>4, <3>7, <5>3, <6>1
          <6>2. CASE j[1] # p
            BY <3>4, <3>6, <5>3, <6>2
          <6> QED BY <6>1, <6>2
        <5> QED BY <2>2, <3>1, <3>3, <5>1, <5>2, <5>4, <5>5
      <4>2. CASE e # d
        <5>1. slots'[e] = slots[e] /\ sl_curr'[e] = sl_curr[e]
          BY <1>4, <3>2, <4>2 DEF TypeOK
        <5>2. p \notin Ran(L'[e]) /\ \A x : x # p => (x \in Ran(L'[e]) <=> x \in Ran(L[e]))
          BY <1>3, <1>6, <4>2 DEF Lists
        <5>3. \A j \in Chunks : flag'[j] = "slabbed" /\ j[1] \in Ran(L'[e])
                 <=> flag[j] = "slabbed" /\ j[1] \in Ran(L[e])
          BY <1>2, <3>6, <5>2
        <5> QED BY <2>2, <5>1, <5>3
      <4> QED BY <4>1, <4>2
    <3> QED BY <3>5, <3>6, <3>7, <3>8, <3>9, <3>10
  <2> QED BY <2>3, <2>4
<1>8. TypeOK' /\ ~failed'
  BY <1>1, <1>4, <1>5, <1>6, <1>7 DEF IInv, TypeOK, MoverTypeOK, user, Lists
<1>9. FlagsOK'
  <2> SUFFICES ASSUME NEW j \in Chunks, flag'[j] # "cleared"
               PROVE  \E e \in Classes : j[1] \in Ran(slab_list'[e]) /\ j[2] <= PerSlab[e]
    BY DEF FlagsOK, In, Ran
  <2>1. CASE j[1] = p
    BY <1>6, <1>7, <2>1
  <2>2. CASE j[1] # p
    <3>1. PICK e \in Classes : In(j, e)
      BY <1>7, <2>2 DEF IInv, FlagsOK
    <3>2. j[1] \in Ran(slab_list'[e])
      BY <1>3, <1>6, <2>2, <3>1 DEF In
    <3> QED BY <3>1, <3>2 DEF In
  <2> QED BY <2>1, <2>2
<1>10. \A j \in Chunks : Live(j)' \/ Live(j) => flag'[j] = flag[j]
  BY <1>2, <1>7 DEF Live
<1>11. LinkedOK'
  <2>1. \A j \in Chunks : flag'[j] = "linked" => flag[j] = "linked" /\ key'[j] = key[j]
    BY <1>1, <1>10 DEF Live
  <2> QED BY <2>1, LinkedStay DEF IInv
<1>12. UsersOK'
  <2>1. \A u \in Users : mine[u] # None => flag'[mine[u]] = flag[mine[u]]
    BY <1>10, UserIs
  <2> QED BY <1>1, <1>2, <2>1, UsersStay
<1>13. MoverCountsExact'
  <2> SUFFICES ASSUME NEW j \in Chunks, Live(j)'
               PROVE  refcount'[j] = Cardinality(Holding(j)') + Linked(j)' + Moved(j)'
    BY CountsAreNext
  <2>1. Holding(j)' = Holding(j) /\ Moved(j)' = 0 /\ Moved(j) = 0
    BY <1>1, <1>2 DEF Holding, Moved, user
  <2>2. Live(j) /\ Linked(j)' = Linked(j)
    BY <1>10 DEF Live, Linked
  <2> QED BY <1>1, <2>1, <2>2, CountsAre DEF IInv
<1>14. KeysStay
  <2>1. \A j \in Chunks : flag[j] = "linked" => flag'[j] = "linked" /\ key'[j] = key[j]
    BY <1>1, <1>10 DEF Live
  <2> QED BY <2>1, LinksKeepKeys
<1> QED BY <1>14, <1>5, <1>6, <1>7, <1>8, <1>9, <1>11, <1>12, <1>13 DEF IInv

-----------------------------------------------------------------------------
(* The invariant, and what it means.                                       *)

LEMMA InitInvariant ==
    ASSUME Init
    PROVE  IInv
<1> USE DEF Init
<1>1. TypeOK /\ ~failed
  <2>1. \A S : <<>> \in Seq(S)
    OBVIOUS
  <2>2. /\ slab_list \in [Classes \cup {SLAB_GLOBAL_PAGE_POOL} -> Seq(Pages)]
        /\ slots \in [Classes -> Seq(Chunks)] /\ sl_curr \in [Classes -> Nat]
    BY <2>1
  <2>3. slab_pos \in 0 .. (IF signal = 2 THEN PerSlab[s_clsid] ELSE 0)
    OBVIOUS
  <2>4. /\ mem_limit \in Limits /\ mem_malloced \in Nat
        /\ flag \in [Chunks -> {"slabbed", "cleared", "linked", "none"}]
        /\ refcount \in [Chunks -> Nat]
        /\ key \in [Chunks -> Keys \cup {None}] /\ pitem \in [Chunks -> Chunks \cup {None}]
        /\ item_lock \in [Locks -> Users \cup {Mover, None}]
    OBVIOUS
  <2>5. /\ pc \in [Users -> {"idle", "filled", "storing", "hold", "freeing"}]
        /\ want \in [Users -> Keys \cup {None}] /\ mine \in [Users -> Chunks \cup {None}]
    OBVIOUS
  <2>6. /\ signal \in 0 .. 2 /\ done \in 0 .. 1
        /\ s_clsid \in Classes \cup {0} /\ d_clsid \in Classes \cup {0}
        /\ slab_start \in Pages \cup {None} /\ busy_items \in Nat
        /\ mpc \in {"locked", "unlocked"} /\ new_it \in Chunks \cup {None} /\ failed = FALSE
    OBVIOUS
  <2> QED
    <3> HIDE DEF Init
    <3> QED BY <2>2, <2>3, <2>4, <2>5, <2>6 DEF TypeOK
<1>2. \A c \in Lists : slab_list[c] = <<>>
  BY DEF Lists
<1>3. Pool = <<>> /\ ClassPages = {}
  BY <1>2 DEF Pool, ClassPages, Ran, Lists
<1>4. PagesOK
  <2>1. mem_limit \in Nat
    BY LimitsAssumption
  <2>2. Cardinality(ClassPages) = 0
    BY <1>3, FS_EmptySet
  <2>3. mem_malloced = Cardinality(ClassPages) + Len(Pool)
    BY <1>3, <2>2
  <2>4. \A c \in Lists : 1 .. Len(slab_list[c]) = {}
    BY <1>2
  <2> QED BY <1>3, <2>1, <2>3, <2>4 DEF PagesOK
<1>5. \A i \in Chunks : flag[i] = "cleared"
  OBVIOUS
<1>6. FlagsOK /\ LinkedOK
  BY <1>5 DEF FlagsOK, LinkedOK
<1>7. FreeOK
  BY <1>5 DEF FreeOK, Distinct, Ran
<1>8. UsersOK
  BY DEF UsersOK, UserOK
<1>9. MoverOK
  BY DEF MoverOK, ClearWhenDone
<1>10. MoverCountsExact
  BY <1>5 DEF MoverCountsExact, Live
<1> QED BY <1>1, <1>4, <1>6, <1>7, <1>8, <1>9, <1>10 DEF IInv

\* When a key disappears.
KeyGoes(k) == Find(k) # {} /\ Find(k)' = {} =>
                 \/ \E u \in Users : pc[u] = "hold" /\ mine[u] \in Find(k)
                 \/ mpc = "unlocked" /\ new_it = None

LEMMA DeleteTakesKey ==
    ASSUME IInv, NEW u \in Users, Delete(u), NEW k \in Keys
    PROVE  KeyGoes(k)
<1>1. /\ pc[u] = "hold" /\ flag[mine[u]] = "linked" /\ flag' = [flag EXCEPT ![mine[u]] = "none"] /\ key' = key
  BY DEF Delete, Set
<1>2. mine[u] \in Chunks
  BY <1>1, UserIs
<1>3. CASE mine[u] \in Find(k)
  BY <1>1, <1>3 DEF KeyGoes
<1>4. CASE mine[u] \notin Find(k)
  <2>1. \A j \in Find(k) : j \in Chunks /\ j # mine[u] /\ flag'[j] = "linked" /\ key'[j] = k
    BY <1>1, <1>4 DEF Find, IInv, TypeOK
  <2>2. \A j \in Find(k) : j \in Find(k)'
    BY <2>1 DEF Find
  <2> QED BY <2>2 DEF KeyGoes
<1> QED BY <1>3, <1>4

\* Every step keeps the invariant, and the keys.
LEMMA NextKeeps ==
    ASSUME ~GraphUsers, IInv, Next
    PROVE  IInv' /\ \A k \in Keys : KeyGoes(k)
<1>0. KeysStay => \A k \in Keys : KeyGoes(k)
  BY DEF KeysStay, KeyGoes
<1>00. UNCHANGED <<flag, key>> => KeysStay
  BY LinksKeepKeys
<1>1. ASSUME NEW u \in Users, NEW k \in Keys, Get(u, k) PROVE IInv' /\ KeysStay
  BY <1>00, <1>1, GetKeeps DEF Get
<1>2. ASSUME NEW u \in Users, NEW k \in Keys, NEW c \in Classes, AllocFree(u, k, c) PROVE IInv' /\ KeysStay
  BY <1>2, AllocFreeKeeps
<1>3. ASSUME NEW u \in Users, NEW k \in Keys, NEW c \in Classes, AllocNewPage(u, k, c) PROVE IInv' /\ KeysStay
  BY <1>3, AllocNewPageKeeps
<1>4. ASSUME NEW u \in Users, StoreLock(u) PROVE IInv' /\ KeysStay
  BY <1>00, <1>4, StoreLockKeeps DEF StoreLock, items
<1>5. ASSUME NEW u \in Users, StoreLink(u) PROVE IInv' /\ KeysStay
  BY <1>5, StoreLinkKeeps
<1>6. ASSUME NEW u \in Users, Delete(u) PROVE IInv' /\ \A k \in Keys : KeyGoes(k)
  BY <1>6, DeleteKeeps, DeleteTakesKey
<1>7. ASSUME NEW u \in Users, Release(u) PROVE IInv' /\ KeysStay
  BY <1>00, <1>7, ReleaseKeeps DEF Release
<1>8. ASSUME NEW u \in Users, ItemFree(u) PROVE IInv' /\ KeysStay
  BY <1>8, ItemFreeKeeps
<1>9. ASSUME NEW src \in Classes, NEW dst \in Lists, Reassign(src, dst) PROVE IInv' /\ KeysStay
  BY <1>00, <1>9, ReassignKeeps DEF Reassign, items
<1>10. ASSUME Start PROVE IInv' /\ KeysStay
  BY <1>00, <1>10, StartKeeps DEF Start, items
<1>11. ASSUME StartFails PROVE IInv' /\ KeysStay
  BY <1>00, <1>11, StartFailsKeeps DEF StartFails, items
<1>12. ASSUME MovePass PROVE IInv' /\ KeysStay
  BY <1>00, <1>12, MovePassKeeps DEF MovePass, items
<1>13. ASSUME MoveFromSlab PROVE IInv' /\ KeysStay
  BY <1>13, CutKeeps
<1>14. ASSUME MoveLater PROVE IInv' /\ KeysStay
  BY <1>00, <1>14, MoveLaterKeeps DEF MoveLater, items
<1>15. ASSUME MoveFromLru PROVE IInv' /\ KeysStay
  BY <1>15, MoveFromLruKeeps
<1>16. ASSUME Rescue PROVE IInv' /\ KeysStay
  BY <1>16, RescueKeeps
<1>17. ASSUME EvictNoMem PROVE IInv' /\ \A k \in Keys : KeyGoes(k)
  BY <1>17, EvictKeeps DEF EvictNoMem, KeyGoes
<1>18. ASSUME Finish PROVE IInv' /\ KeysStay
  BY <1>18, FinishKeeps
<1>19. ASSUME NEW limit \in Limits, AdjustLimit(limit) PROVE IInv' /\ KeysStay
  BY <1>00, <1>19, AdjustLimitKeeps DEF AdjustLimit, items
<1> QED BY <1>0, <1>1, <1>2, <1>3, <1>4, <1>5, <1>6, <1>7, <1>8, <1>9, <1>10, <1>11, <1>12, <1>13, <1>14,
           <1>15, <1>16, <1>17, <1>18, <1>19 DEF Next, Use, Move, Lists

LEMMA StutterKeeps ==
    ASSUME IInv, UNCHANGED vars
    PROVE  IInv'
<1> USE DEF vars, pages, items, user, rebal
<1>1. TypeOK' /\ ~failed' /\ PagesOK' /\ FlagsOK' /\ FreeOK' /\ LinkedOK'
  BY PagesStay, FlagsStay, FreeStay, LinkedStay DEF IInv, TypeOK
<1>2. UsersOK' /\ MoverOK' /\ MoverCountsExact'
  BY DEF IInv, UsersOK, UserOK, Live, It, MoverOK, ClearWhenDone, MoverCountsExact
<1> QED BY <1>1, <1>2 DEF IInv

LEMMA PagesAre ==
    ASSUME IInv
    PROVE  PagesExact
<1>1. TypeOK /\ ClearWhenDone
  BY DEF IInv, MoverOK
<1>2. FreeListExact
  <2> SUFFICES ASSUME NEW c \in Classes
               PROVE  /\ sl_curr[c] = Len(slots[c])
                      /\ Cardinality(Ran(slots[c])) = Len(slots[c])
                      /\ Ran(slots[c]) = {i \in Chunks : flag[i] = "slabbed" /\ i[1] \in Ran(slab_list[c])}
    BY DEF FreeListExact
  <2>1. slots[c] \in Seq(Chunks) /\ Distinct(slots[c])
    BY DEF IInv, TypeOK, FreeOK
  <2>2. Cardinality(Ran(slots[c])) = Len(slots[c])
    BY <2>1, DistinctCounts
  <2> QED BY <2>2 DEF IInv, FreeOK
<1>3. PagesAccounted
  <2>1. SLAB_GLOBAL_PAGE_POOL \in Lists /\ SLAB_GLOBAL_PAGE_POOL \notin Classes /\ DOMAIN slab_list = Lists
        /\ Pool = slab_list[SLAB_GLOBAL_PAGE_POOL] /\ Pool \in Seq(Pages) /\ PagesOK
    BY ClassesAssumption DEF Lists, SLAB_GLOBAL_PAGE_POOL, IInv, TypeOK, Pool
  <2>2. \A c, d \in Lists : c # d => Ran(slab_list[c]) \cap Ran(slab_list[d]) = {}
    BY <2>1, OneOwner
  <2>3. Owned = ClassPages \cup Ran(Pool)
    BY <2>1 DEF Owned, ClassPages, Lists
  <2>4. ClassPages \cap Ran(Pool) = {}
    BY <1>1, <2>1, <2>2, ClassPagesIs DEF Lists
  <2>5. IsFiniteSet(Ran(Pool)) /\ Cardinality(Ran(Pool)) = Len(Pool)
    <3>1. Distinct(Pool)
      BY <2>1 DEF PagesOK, Distinct
    <3> QED BY <2>1, <3>1, DistinctCounts
  <2>6. Cardinality(Owned) = Cardinality(ClassPages) + Len(Pool)
    <3>1. Cardinality(ClassPages \cap Ran(Pool)) = 0
      BY <2>4, FS_EmptySet
    <3>2. IsFiniteSet(ClassPages) /\ Cardinality(ClassPages) \in Nat /\ Len(Pool) \in Nat
      BY <1>1, <2>1, ClassPagesIs
    <3>3. Cardinality(ClassPages \cup Ran(Pool))
             = Cardinality(ClassPages) + Cardinality(Ran(Pool)) - Cardinality(ClassPages \cap Ran(Pool))
      BY <2>5, <3>2, FS_Union
    <3> QED BY <2>3, <2>5, <3>1, <3>2, <3>3
  <2> QED BY <2>1, <2>2, <2>6 DEF PagesAccounted, PagesOK
<1> QED BY <1>1, <1>2, <1>3 DEF PagesExact

LEMMA HeldStays ==
    ASSUME IInv
    PROVE  HeldStaysInPlace
<1> SUFFICES ASSUME NEW u \in Users, mine[u] # None
             PROVE  /\ Live(mine[u]) /\ key[mine[u]] = want[u]
                    /\ \E c \in Classes : \E p \in Ran(slab_list[c]) : mine[u] \in ChunksOf(p, c)
  BY DEF HeldStaysInPlace
<1>1. mine[u] \in Chunks /\ Live(mine[u]) /\ key[mine[u]] = want[u]
  BY UserIs
<1>2. PICK c \in Classes : In(mine[u], c)
  BY <1>1 DEF IInv, FlagsOK, Live
<1>3. mine[u] \in ChunksOf(mine[u][1], c)
  BY <1>1, <1>2, ChunkIs DEF In
<1> QED BY <1>1, <1>2, <1>3 DEF In

\* The inductive invariant of the allocator and the mover, with users that keep
\* to the item locks (slabs.c, items.c).
THEOREM SlabsInvariant ==
    ASSUME ~GraphUsers
    PROVE  Spec => []IInv
<1>1. Init => IInv
  BY InitInvariant
<1>2. IInv /\ [Next]_vars => IInv'
  BY NextKeeps, StutterKeeps
<1> QED BY <1>1, <1>2, PTL DEF Spec

\* Memory is neither lost nor given out twice: the free lists, the page lists
\* and mem_malloced agree, through every page move (slabs.c).
THEOREM PagesStayExact ==
    ASSUME ~GraphUsers
    PROVE  Spec => []PagesExact
<1>1. IInv => PagesExact
  BY PagesAre
<1> QED BY <1>1, SlabsInvariant, PTL

\* The mover does not take the memory of an item from its user
\* (slab_rebalance_move).
THEOREM HeldItemsStay ==
    ASSUME ~GraphUsers
    PROVE  Spec => []HeldStaysInPlace
<1>1. IInv => HeldStaysInPlace
  BY HeldStays
<1> QED BY <1>1, SlabsInvariant, PTL

\* Reference counts stay exact while items are moved.
THEOREM CountsStayExact ==
    ASSUME ~GraphUsers
    PROVE  Spec => []MoverCountsExact
<1>1. IInv => MoverCountsExact
  BY DEF IInv
<1> QED BY <1>1, SlabsInvariant, PTL

\* The asserts of do_item_remove hold for users that keep to the item locks;
\* without them GraphCached's users break them (a run shows it).
THEOREM ReleasedStaysInUse ==
    ASSUME ~GraphUsers
    PROVE  Spec => []ReleasedIsInUse
<1>1. IInv => ReleasedIsInUse
  BY DEF IInv, ReleasedIsInUse
<1> QED BY <1>1, SlabsInvariant, PTL

\* Moving a page is invisible: no key disappears but by a holder's delete, or
\* because the mover found no memory for the copy (slab_rebalance_move).
THEOREM MovingIsInvisible ==
    ASSUME ~GraphUsers
    PROVE  Spec => KeysSurviveMove
<1>1. IInv /\ [Next]_vars =>
        [\A k \in Keys : Find(k) # {} /\ Find(k)' = {} =>
            \/ \E u \in Users : pc[u] = "hold" /\ mine[u] \in Find(k)
            \/ mpc = "unlocked" /\ new_it = None]_vars
  BY NextKeeps DEF KeyGoes
<1> QED BY <1>1, SlabsInvariant, PTL DEF Spec, KeysSurviveMove

-----------------------------------------------------------------------------
=============================================================================
