-------------------------- MODULE LruCrawlerProofs --------------------------
(***************************************************************************)
(* The threads of the segmented LRU leave its lists, the references and    *)
(* the clients of a dump as they should be: for any items, workers, limits *)
(* and lengths of the bump buffers and lists.                              *)
(***************************************************************************)
EXTENDS LruCrawler, FiniteSetTheorems, FunctionTheorems, SequenceTheorems, TLAPS

Header == [lru : Lrus \cup {""}, linked : BOOLEAN, fetched : BOOLEAN, active : BOOLEAN, time : Nat,
           exp : Nat, ref : Nat]
Pull == [at : {"", "walk", "settle"}, lru : Lrus \cup {""}, search : Items \cup {Crawler, Nobody},
         tries : Nat, removed : Nat, to : Lrus \cup {""}, age : Int]
Work == [job : [at : {"idle", "locked", "COLD", "HOT"}, it : Items \cup {Nobody}], got : SUBSET Items]
Upkeep == [at : {"sleep", "age", "bumps", "bump"} \cup Lrus, next : Nat, backoff : Nat,
           sleep : 0 .. MaxSleep, i : 0 .. JuggleLoops - 1, more : Nat, moved : BOOLEAN, cold_age : Int,
           bufs : SUBSET LruWorkers, cur : LruWorkers \cup {Nobody}, size : Nat, todo : Seq(Items),
           bumped : BOOLEAN]
Crawl == [at : {"off", "start", "wait", "crawl", "dump", "flush"}, wake : BOOLEAN, n : Nat,
          search : Items \cup {Nobody}]
Stats == [complete : BOOLEAN, seen : Nat, noexp : Nat, histo : [0 .. Hour - 1 -> Nat]]

LruTypes ==
    /\ clock \in 0 .. MaxTime
    /\ items \in [Items -> Header] /\ lists \in [Lrus -> Seq(Items \cup {Crawler})]
    /\ ilock \in [Items -> Pullers \cup {CrawlerThread, Nobody}]
    /\ lru_lock \in [Pullers -> Lrus \cup {""}]
    /\ pull \in [Pullers -> Pull] /\ wk \in [LruWorkers -> Work]
    /\ bumps \in [LruWorkers -> Seq(Items)] /\ mt \in Upkeep /\ left \in Allowance

CrawlTypes ==
    /\ crawlers \in [Swept -> [on : BOOLEAN, remaining : Nat]] /\ crawler_count \in Int
    /\ cr \in Crawl /\ mod \in [type : {"", "expired", "metadump"}, external : BOOLEAN]
    /\ client \in Dumpers \cup {Nobody} /\ cbuf \in 0 .. DumpLines
    /\ dumpers \in [Dumpers -> [handed : Nat, back : Nat, closed : Nat, gone : BOOLEAN]]
    /\ cdata \in [stats : Stats, wait : 0 .. MaxWait, next : Nat, last : Nat]

\* What a thread's place says of its locals and locks.  An item that is carried
\* to another list is linked, and not ACTIVE when that is COLD.
PullOK(p) ==
    /\ pull[p].at = "walk" => pull[p].lru \in Lrus
    /\ lru_lock[p] = (IF pull[p].at = "walk" THEN pull[p].lru ELSE "")
    /\ \A q \in Pullers : pull[p].at = "walk" /\ pull[q].at = "walk" /\ pull[q].lru = pull[p].lru => q = p
    /\ pull[p].at = "settle" =>
          /\ At(p) \in Items /\ ilock[At(p)] = p
          /\ pull[p].to # "" => items[At(p)].linked
          /\ pull[p].to = "COLD" => ~items[At(p)].active
    /\ pull[p] # NoPull => pull[p].at # ""

WorkOK(w) ==
    /\ wk[w].job.at = "locked" => wk[w].job.it \in Items /\ ilock[wk[w].job.it] = w
    /\ pull[w].at # "" => wk[w].job.at \in {"COLD", "HOT"}
    /\ Len(bumps[w]) <= BumpSize

UpkeepOK ==
    /\ pull[Maintainer].at # "" => mt.at \in Lrus
    /\ IF mt.at = "bump" THEN mt.cur \in LruWorkers /\ mt.size <= Len(bumps[mt.cur]) ELSE mt.cur = Nobody

CrawlOK ==
    /\ IF cr.at = "dump" THEN cr.search \in Items /\ ilock[cr.search] = CrawlerThread /\ cbuf < DumpLines
                         ELSE cr.search = Nobody

ThreadsOK == (\A p \in Pullers : PullOK(p)) /\ (\A w \in LruWorkers : WorkOK(w)) /\ UpkeepOK /\ CrawlOK

\* Nothing is in a list twice.  A walk has not left its list.
Once(s) == \A m, n \in 1 .. Len(s) : s[m] = s[n] => m = n
ListOK(l) ==
    /\ Once(lists[l])
    /\ \A i \in Items : i \in Range(lists[l]) <=> items[i].linked /\ ~InTransit(i) /\ items[i].lru = l
    /\ Crawler \in Range(lists[l]) <=> l \in Swept /\ crawlers[l].on

WalkOK(p) == pull[p].at = "walk" => At(p) = Nobody \/ At(p) \in Range(lists[pull[p].lru])

CountOK == crawler_count = Cardinality({l \in Swept : crawlers[l].on})

Whole == (\A l \in Lrus : ListOK(l)) /\ (\A p \in Pullers : WalkOK(p)) /\ CountOK

IInv ==
    /\ LruTypes /\ CrawlTypes /\ crawler_count \in 0 .. 2 * Cardinality(Swept)
    /\ ThreadsOK /\ RefsExact /\ ActiveIsQueued /\ ClientReturned
    /\ Sound => Whole

-----------------------------------------------------------------------------
(* Lists.                                                                  *)

Without(s, p) == [m \in 1 .. Len(s) - 1 |-> IF m < p THEN s[m] ELSE s[m + 1]]

LEMMA RemoveFirstIs ==
    ASSUME NEW S, NEW s \in Seq(S), Once(s), NEW x
    PROVE  /\ x \notin Range(s) => RemoveFirst(s, x) = s
           /\ \A p \in 1 .. Len(s) : s[p] = x => RemoveFirst(s, x) = Without(s, p)
<1>1. x \notin Range(s) => RemoveFirst(s, x) = s
  BY DEF RemoveFirst, Range
<1>2. ASSUME NEW p \in 1 .. Len(s), s[p] = x
      PROVE  RemoveFirst(s, x) = Without(s, p)
  <2> DEFINE I == {i \in 1 .. Len(s) : s[i] = x}
  <2>1. I = {p}
    BY <1>2 DEF Once
  <2>2. SelectInSeq(s, LAMBDA v : v = x) = IF I # {} THEN Min(I) ELSE 0
    BY DEF SelectInSeq
  <2>3. Min({p}) = p
    BY DEF Min
  <2>4. RemoveFirst(s, x) = RemoveAt(s, p)
    BY <1>2, <2>1, <2>2, <2>3 DEF RemoveFirst
  <2>5. RemoveAt(s, p) = Without(s, p)
    <3>1. /\ SubSeq(s, 1, p - 1) \in Seq(S) /\ Len(SubSeq(s, 1, p - 1)) = p - 1
          /\ \A i \in 1 .. p - 1 : SubSeq(s, 1, p - 1)[i] = s[i]
      OBVIOUS
    <3>2. /\ SubSeq(s, p + 1, Len(s)) \in Seq(S) /\ Len(SubSeq(s, p + 1, Len(s))) = Len(s) - p
          /\ \A i \in 1 .. Len(s) - p : SubSeq(s, p + 1, Len(s))[i] = s[p + i]
      OBVIOUS
    <3> DEFINE a == SubSeq(s, 1, p - 1)
               b == SubSeq(s, p + 1, Len(s))
               c == a \o b
    <3>3. /\ a \in Seq(S) /\ Len(a) = p - 1 /\ \A i \in 1 .. p - 1 : a[i] = s[i]
          /\ b \in Seq(S) /\ Len(b) = Len(s) - p /\ \A i \in 1 .. Len(s) - p : b[i] = s[p + i]
      BY <3>1, <3>2
    <3>4. RemoveAt(s, p) = c
      BY DEF RemoveAt
    <3> HIDE DEF a, b
    <3>5. c \in Seq(S) /\ Len(c) = Len(s) - 1
      <4>1. c \in Seq(S) /\ Len(c) = Len(a) + Len(b)
        BY <3>3, ConcatProperties
      <4> QED BY <4>1, <3>3
    <3>6. ASSUME NEW i \in 1 .. Len(s) - 1 PROVE c[i] = IF i < p THEN s[i] ELSE s[i + 1]
      <4>1. CASE i < p
        <5>1. c[i] = a[i] /\ i \in 1 .. p - 1
          BY <3>3, <4>1
        <5> QED BY <5>1, <3>3, <4>1
      <4>2. CASE ~(i < p)
        <5>1. i \in Nat /\ p \in Nat /\ Len(s) \in Nat /\ i <= Len(s) - 1 /\ i >= p
          BY <4>2
        <5>2. i - p + 1 \in 1 .. Len(s) - p /\ p + (i - p + 1) = i + 1
          BY <5>1
        <5>3. c[i] = b[i - p + 1]
          BY <3>3, <4>2
        <5>4. b[i - p + 1] = s[p + (i - p + 1)]
          BY <3>3, <5>2
        <5> QED BY <4>2, <5>2, <5>3, <5>4
      <4> QED BY <4>1, <4>2
    <3> HIDE DEF c
    <3>7. c = Without(s, p)
      BY <3>5, <3>6 DEF Without
    <3> QED BY <3>4, <3>7
  <2> QED BY <2>4, <2>5
<1> QED BY <1>1, <1>2

LEMMA RangeIs == ASSUME NEW S, NEW s \in Seq(S), NEW x PROVE x \in Range(s) <=> \E n \in 1 .. Len(s) : s[n] = x
BY DEF Range

\* RemoveFirst takes one element out.
LEMMA RemovedIs ==
    ASSUME NEW S, NEW s \in Seq(S), Once(s), NEW x
    PROVE  /\ RemoveFirst(s, x) \in Seq(S) /\ Once(RemoveFirst(s, x))
           /\ Range(RemoveFirst(s, x)) = Range(s) \ {x}
<1>1. CASE x \notin Range(s)
  BY <1>1, RemoveFirstIs
<1>2. CASE x \in Range(s)
  <2>1. PICK p \in 1 .. Len(s) : s[p] = x
    BY <1>2, RangeIs
  <2> DEFINE w == Without(s, p)
  <2>2. RemoveFirst(s, x) = w
    BY <2>1, RemoveFirstIs
  <2>3. /\ w \in Seq(S) /\ Len(w) = Len(s) - 1
        /\ \A m \in 1 .. Len(s) - 1 : w[m] = IF m < p THEN s[m] ELSE s[m + 1]
    BY DEF Without
  <2> HIDE DEF w
  <2>4. Once(w)
    <3> SUFFICES ASSUME NEW m \in 1 .. Len(s) - 1, NEW n \in 1 .. Len(s) - 1, w[m] = w[n] PROVE m = n
      BY <2>3 DEF Once
    <3> DEFINE a == IF m < p THEN m ELSE m + 1
               b == IF n < p THEN n ELSE n + 1
    <3>1. s[a] = s[b] /\ a \in 1 .. Len(s) /\ b \in 1 .. Len(s)
      BY <2>3
    <3>2. a = b
      BY <3>1 DEF Once
    <3> QED BY <3>2
  <2>5. ASSUME NEW y PROVE y \in Range(w) <=> y \in Range(s) \ {x}
    <3>1. ASSUME y \in Range(w) PROVE y \in Range(s) /\ y # x
      <4>1. PICK m \in 1 .. Len(s) - 1 : w[m] = y
        BY <3>1, <2>3, RangeIs
      <4> DEFINE a == IF m < p THEN m ELSE m + 1
      <4>2. s[a] = y /\ a \in 1 .. Len(s) /\ a # p
        BY <4>1, <2>3
      <4>3. y # x
        BY <4>2, <2>1 DEF Once
      <4> QED BY <4>2, <4>3, RangeIs
    <3>2. ASSUME y \in Range(s), y # x PROVE y \in Range(w)
      <4>1. PICK a \in 1 .. Len(s) : s[a] = y
        BY <3>2, RangeIs
      <4> DEFINE m == IF a < p THEN a ELSE a - 1
      <4>2. a # p
        BY <4>1, <3>2, <2>1
      <4>3. m \in 1 .. Len(s) - 1 /\ w[m] = y
        BY <4>1, <4>2, <2>3
      <4> QED BY <4>3, <2>3, RangeIs
    <3> QED BY <3>1, <3>2
  <2>6. Range(w) = Range(s) \ {x}
    BY <2>5
  <2> QED BY <2>2, <2>3, <2>4, <2>6
<1> QED BY <1>1, <1>2

\* Putting in front.
LEMMA PushedIs ==
    ASSUME NEW S, NEW s \in Seq(S), Once(s), NEW x \in S, x \notin Range(s)
    PROVE  /\ <<x>> \o s \in Seq(S) /\ Once(<<x>> \o s) /\ Range(<<x>> \o s) = Range(s) \cup {x}
<1> DEFINE w == <<x>> \o s
<1>1. /\ w \in Seq(S) /\ Len(w) = Len(s) + 1
      /\ \A m \in 1 .. Len(s) + 1 : w[m] = IF m = 1 THEN x ELSE s[m - 1]
  <2>1. <<x>> \in Seq(S) /\ Len(<<x>>) = 1 /\ <<x>>[1] = x
    OBVIOUS
  <2> QED BY <2>1, ConcatProperties
<1> HIDE DEF w
<1>2. Once(w)
  <2> SUFFICES ASSUME NEW m \in 1 .. Len(s) + 1, NEW n \in 1 .. Len(s) + 1, w[m] = w[n] PROVE m = n
    BY <1>1 DEF Once
  <2>1. \A a \in 1 .. Len(s) : s[a] # x
    BY RangeIs
  <2>2. CASE m = 1 /\ n # 1
    <3>1. w[n] = s[n - 1] /\ n - 1 \in 1 .. Len(s)
      BY <1>1, <2>2
    <3> QED BY <3>1, <2>1, <2>2, <1>1
  <2>3. CASE m # 1 /\ n = 1
    <3>1. w[m] = s[m - 1] /\ m - 1 \in 1 .. Len(s)
      BY <1>1, <2>3
    <3> QED BY <3>1, <2>1, <2>3, <1>1
  <2>4. CASE m # 1 /\ n # 1
    <3>1. s[m - 1] = s[n - 1] /\ m - 1 \in 1 .. Len(s) /\ n - 1 \in 1 .. Len(s)
      BY <1>1, <2>4
    <3>2. m - 1 = n - 1
      BY <3>1 DEF Once
    <3> QED BY <3>2
  <2> QED BY <2>2, <2>3, <2>4
<1>3. ASSUME NEW y PROVE y \in Range(w) <=> y \in Range(s) \cup {x}
  <2>1. ASSUME y \in Range(w) PROVE y \in Range(s) \cup {x}
    <3>1. PICK m \in 1 .. Len(s) + 1 : w[m] = y
      BY <2>1, <1>1, RangeIs
    <3>2. m = 1 \/ m - 1 \in 1 .. Len(s)
      OBVIOUS
    <3> QED BY <3>1, <3>2, <1>1, RangeIs
  <2>2. x \in Range(w)
    <3>1. 1 \in 1 .. Len(w) /\ w[1] = x
      BY <1>1
    <3> QED BY <3>1, <1>1, RangeIs
  <2>3. ASSUME y \in Range(s) PROVE y \in Range(w)
    <3>1. PICK m \in 1 .. Len(s) : s[m] = y
      BY <2>3, RangeIs
    <3>2. m + 1 \in 1 .. Len(w) /\ w[m + 1] = y
      BY <3>1, <1>1
    <3> QED BY <3>2, <1>1, RangeIs
  <2> QED BY <2>1, <2>2, <2>3
<1>4. Range(w) = Range(s) \cup {x}
  BY <1>3
<1> QED BY <1>1, <1>2, <1>4 DEF w

\* Putting at the end.
LEMMA AppendedIs ==
    ASSUME NEW S, NEW s \in Seq(S), Once(s), NEW x \in S, x \notin Range(s)
    PROVE  /\ Append(s, x) \in Seq(S) /\ Once(Append(s, x)) /\ Range(Append(s, x)) = Range(s) \cup {x}
<1> DEFINE w == Append(s, x)
<1>1. /\ w \in Seq(S) /\ Len(w) = Len(s) + 1
      /\ \A m \in 1 .. Len(s) + 1 : w[m] = IF m = Len(s) + 1 THEN x ELSE s[m]
  OBVIOUS
<1> HIDE DEF w
<1>2. Once(w)
  <2> SUFFICES ASSUME NEW m \in 1 .. Len(s) + 1, NEW n \in 1 .. Len(s) + 1, w[m] = w[n] PROVE m = n
    BY <1>1 DEF Once
  <2>1. \A a \in 1 .. Len(s) : s[a] # x
    BY RangeIs
  <2>2. CASE m = Len(s) + 1 \/ n = Len(s) + 1
    BY <2>1, <2>2, <1>1
  <2>3. CASE m # Len(s) + 1 /\ n # Len(s) + 1
    <3>1. s[m] = s[n] /\ m \in 1 .. Len(s) /\ n \in 1 .. Len(s)
      BY <1>1, <2>3
    <3> QED BY <3>1 DEF Once
  <2> QED BY <2>2, <2>3
<1>3. ASSUME NEW y PROVE y \in Range(w) <=> y \in Range(s) \cup {x}
  <2>1. ASSUME y \in Range(w) PROVE y \in Range(s) \cup {x}
    <3>1. PICK m \in 1 .. Len(s) + 1 : w[m] = y
      BY <2>1, <1>1, RangeIs
    <3>2. m = Len(s) + 1 \/ m \in 1 .. Len(s)
      OBVIOUS
    <3> QED BY <3>1, <3>2, <1>1, RangeIs
  <2>2. x \in Range(w)
    <3>1. Len(s) + 1 \in 1 .. Len(w) /\ w[Len(s) + 1] = x
      BY <1>1
    <3> QED BY <3>1, <1>1, RangeIs
  <2>3. ASSUME y \in Range(s) PROVE y \in Range(w)
    <3>1. PICK m \in 1 .. Len(s) : s[m] = y
      BY <2>3, RangeIs
    <3>2. m \in 1 .. Len(w) /\ w[m] = y
      BY <3>1, <1>1
    <3> QED BY <3>2, <1>1, RangeIs
  <2> QED BY <2>1, <2>2, <2>3
<1>4. Range(w) = Range(s) \cup {x}
  BY <1>3
<1> QED BY <1>1, <1>2, <1>4 DEF w

LEMMA PlaceIs ==
    ASSUME NEW S, NEW s \in Seq(S), NEW x, x \in Range(s)
    PROVE  Place(s, x) \in 1 .. Len(s) /\ s[Place(s, x)] = x
<1>1. DOMAIN s = 1 .. Len(s) /\ \E n \in DOMAIN s : s[n] = x
  BY RangeIs
<1> QED BY <1>1 DEF Place

\* A crawler that is not at the head changes places with what is above it.
LEMMA SwingIs ==
    ASSUME NEW S, NEW s \in Seq(S), Once(s), Crawler \in Range(s), s[1] # Crawler
    PROVE  /\ Swing(s) \in Seq(S) /\ Once(Swing(s)) /\ Range(Swing(s)) = Range(s)
<1> DEFINE p == Place(s, Crawler)
           w == Swing(s)
           f(m) == IF m = p THEN p - 1 ELSE IF m = p - 1 THEN p ELSE m
<1>1. p \in 1 .. Len(s) /\ s[p] = Crawler /\ p - 1 \in 1 .. Len(s)
  BY PlaceIs
<1>2. w = [s EXCEPT ![p] = s[p - 1], ![p - 1] = s[p]]
  BY DEF Swing
<1> HIDE DEF p, w
<1>3. /\ w \in Seq(S) /\ Len(w) = Len(s)
      /\ \A m \in 1 .. Len(s) : w[m] = s[f(m)] /\ f(m) \in 1 .. Len(s)
  BY <1>1, <1>2
<1>4. Once(w)
  <2> SUFFICES ASSUME NEW m \in 1 .. Len(s), NEW n \in 1 .. Len(s), w[m] = w[n] PROVE m = n
    BY <1>3 DEF Once
  <2>1. f(m) = f(n)
    BY <1>3 DEF Once
  <2> QED BY <2>1, <1>1
<1>5. ASSUME NEW y PROVE y \in Range(w) <=> y \in Range(s)
  <2>1. ASSUME y \in Range(w) PROVE y \in Range(s)
    <3>1. PICK m \in 1 .. Len(s) : w[m] = y
      BY <2>1, <1>3, RangeIs
    <3>2. s[f(m)] = y /\ f(m) \in 1 .. Len(s)
      BY <3>1, <1>3
    <3> QED BY <3>2, RangeIs
  <2>2. ASSUME y \in Range(s) PROVE y \in Range(w)
    <3>1. PICK m \in 1 .. Len(s) : s[m] = y
      BY <2>2, RangeIs
    <3>2. f(m) \in 1 .. Len(s) /\ f(f(m)) = m
      BY <1>1
    <3>3. w[f(m)] = y
      BY <3>1, <3>2, <1>3
    <3> QED BY <3>2, <3>3, <1>3, RangeIs
  <2> QED BY <2>1, <2>2
<1>6. Range(w) = Range(s)
  BY <1>5
<1> QED BY <1>3, <1>4, <1>6 DEF w

\* What is above an element is another element.
LEMMA AboveIs ==
    ASSUME NEW l \in Lrus, LruTypes, Once(lists[l]), NEW x \in Range(lists[l])
    PROVE  /\ Above(l, x) = Nobody \/ Above(l, x) \in Range(lists[l]) \ {x}
           /\ lists[l][1] # x => Above(l, x) \in Range(lists[l]) \ {x}
<1> DEFINE s == lists[l]
           n == Place(s, x)
<1>1. s \in Seq(Items \cup {Crawler})
  BY DEF LruTypes
<1>2. n \in 1 .. Len(s) /\ s[n] = x
  BY <1>1, PlaceIs
<1>3. Above(l, x) = IF n = 1 THEN Nobody ELSE s[n - 1]
  BY DEF Above
<1> HIDE DEF n
<1>4. CASE n = 1
  BY <1>2, <1>3, <1>4
<1>5. CASE n # 1
  <2>1. n - 1 \in 1 .. Len(s) /\ n - 1 # n
    BY <1>1, <1>2, <1>5
  <2>2. s[n - 1] # x
    BY <2>1, <1>2 DEF Once
  <2> QED BY <2>1, <2>2, <1>1, <1>3, <1>5, RangeIs
<1> QED BY <1>4, <1>5

\* The lists after one of them has changed.
LEMMA LinkQIs ==
    ASSUME NEW L \in [Lrus -> Seq(Items \cup {Crawler})], NEW l \in Lrus, NEW i \in Items \cup {Crawler},
           Once(L[l]), i \notin Range(L[l])
    PROVE  /\ LinkQ(L, i, l) \in [Lrus -> Seq(Items \cup {Crawler})]
           /\ \A k \in Lrus : k # l => LinkQ(L, i, l)[k] = L[k]
           /\ Once(LinkQ(L, i, l)[l]) /\ Range(LinkQ(L, i, l)[l]) = Range(L[l]) \cup {i}
<1>1. /\ <<i>> \o L[l] \in Seq(Items \cup {Crawler}) /\ Once(<<i>> \o L[l])
      /\ Range(<<i>> \o L[l]) = Range(L[l]) \cup {i}
  BY PushedIs
<1>2. LinkQ(L, i, l) = [L EXCEPT ![l] = <<i>> \o L[l]]
  BY DEF LinkQ
<1> QED BY <1>1, <1>2

\* What UnlinkQ makes of the lists.
Unlinked(L, M, i, l) ==
    /\ M \in [Lrus -> Seq(Items \cup {Crawler})]
    /\ \A k \in Lrus : k # l => M[k] = L[k]
    /\ Once(M[l]) /\ Range(M[l]) = Range(L[l]) \ {i}
LEMMA UnlinkQIs ==
    ASSUME NEW L \in [Lrus -> Seq(Items \cup {Crawler})], NEW l \in Lrus, NEW i, Once(L[l]),
           NEW M, M = UnlinkQ(L, i, l)
    PROVE  Unlinked(L, M, i, l)
<1>1. /\ RemoveFirst(L[l], i) \in Seq(Items \cup {Crawler}) /\ Once(RemoveFirst(L[l], i))
      /\ Range(RemoveFirst(L[l], i)) = Range(L[l]) \ {i}
  BY RemovedIs
<1>2. M = [L EXCEPT ![l] = RemoveFirst(L[l], i)]
  BY DEF UnlinkQ
<1> QED BY <1>1, <1>2 DEF Unlinked

-----------------------------------------------------------------------------
(* Items and references.                                                   *)

LEMMA FreeIs == Free \in Header /\ ~Free.linked /\ Free.ref = 0 /\ ~Free.active
BY DEF Free, Header

\* do_item_remove gives a reference back, and frees the item with the last one.
LEMMA RemoveIs ==
    ASSUME NEW m \in [Items -> Header], NEW i \in Items, m[i].ref >= 1
    PROVE  /\ do_item_remove(m, i) \in [Items -> Header]
           /\ \A j \in Items : j # i => do_item_remove(m, i)[j] = m[j]
           /\ do_item_remove(m, i)[i].ref = m[i].ref - 1
           /\ m[i].ref = 1 => do_item_remove(m, i)[i] = Free
           /\ m[i].ref # 1 => /\ do_item_remove(m, i)[i].linked = m[i].linked
                              /\ do_item_remove(m, i)[i].lru = m[i].lru
                              /\ do_item_remove(m, i)[i].active = m[i].active
<1>1. CASE m[i].ref = 1
  <2>1. do_item_remove(m, i) = [m EXCEPT ![i] = Free]
    BY <1>1 DEF do_item_remove
  <2> QED BY <1>1, <2>1, FreeIs
<1>2. CASE m[i].ref # 1
  <2>1. do_item_remove(m, i) = [m EXCEPT ![i].ref = @ - 1]
    BY <1>2 DEF do_item_remove
  <2>2. m[i] \in Header
    OBVIOUS
  <2>3. m[i].ref \in Nat
    BY <2>2 DEF Header
  <2>a. m[i].ref - 1 \in Nat
    BY <2>3
  <2>4. [m[i] EXCEPT !.ref = m[i].ref - 1] \in Header
    BY <2>2, <2>a DEF Header
  <2>5. do_item_remove(m, i) = [m EXCEPT ![i] = [m[i] EXCEPT !.ref = m[i].ref - 1]]
    BY <2>1
  <2>6. do_item_remove(m, i) \in [Items -> Header]
    BY <2>4, <2>5
  <2>7. do_item_remove(m, i)[i] = [m[i] EXCEPT !.ref = m[i].ref - 1]
    BY <2>5
  <2>8. /\ do_item_remove(m, i)[i].ref = m[i].ref - 1
        /\ do_item_remove(m, i)[i].linked = m[i].linked /\ do_item_remove(m, i)[i].lru = m[i].lru
        /\ do_item_remove(m, i)[i].active = m[i].active
    BY <2>2, <2>7 DEF Header
  <2> QED BY <1>2, <2>5, <2>6, <2>8
<1> QED BY <1>1, <1>2

\* do_item_unlink gives the reference of the link back.
LEMMA UnlinkedIs ==
    ASSUME NEW m \in [Items -> Header], NEW i \in Items, m[i].ref >= 1
    PROVE  /\ do_item_unlink(m, i) \in [Items -> Header]
           /\ \A j \in Items : j # i => do_item_unlink(m, i)[j] = m[j]
           /\ do_item_unlink(m, i)[i].ref = m[i].ref - 1
           /\ ~do_item_unlink(m, i)[i].linked
<1> DEFINE u == [m EXCEPT ![i].linked = FALSE]
<1>1. /\ u \in [Items -> Header] /\ \A j \in Items : j # i => u[j] = m[j]
      /\ u[i].ref = m[i].ref /\ ~u[i].linked
  BY DEF Header
<1>2. do_item_unlink(m, i) = do_item_remove(u, i)
  BY DEF do_item_unlink
<1> HIDE DEF u
<1> QED BY <1>1, <1>2, RemoveIs, FreeIs

LEMMA WorkersFinite == IsFiniteSet(LruWorkers) /\ IsFiniteSet(Pullers)
<1>1. IsFiniteSet({Maintainer}) /\ IsFiniteSet(LruWorkers)
  BY LruNames, FS_Singleton
<1> QED BY <1>1, FS_Union DEF Pullers

\* Two finite sets that differ at x at most.
LEMMA CountOne ==
    ASSUME NEW A, NEW B, NEW x, IsFiniteSet(A), A \ {x} = B \ {x}
    PROVE  /\ IsFiniteSet(B) /\ Cardinality(A) \in Nat /\ Cardinality(B) \in Nat
           /\ Cardinality(B) = Cardinality(A) - (IF x \in A THEN 1 ELSE 0) + (IF x \in B THEN 1 ELSE 0)
<1> DEFINE R == A \ {x}
<1>1. IsFiniteSet(R) /\ Cardinality(R) \in Nat /\ x \notin R
  BY FS_Subset, FS_CardinalityType
<1>2. IsFiniteSet(R \cup {x}) /\ Cardinality(R \cup {x}) = Cardinality(R) + 1
  BY <1>1, FS_AddElement
<1>3. /\ x \in A => A = R \cup {x}
      /\ x \notin A => A = R
      /\ x \in B => B = R \cup {x}
      /\ x \notin B => B = R
  OBVIOUS
<1>4. Cardinality(A) = Cardinality(R) + (IF x \in A THEN 1 ELSE 0)
  <2>1. CASE x \in A
    <3>1. Cardinality(A) = Cardinality(R \cup {x})
      BY <1>3, <2>1
    <3> QED BY <1>2, <2>1, <3>1
  <2>2. CASE x \notin A
    <3>1. Cardinality(A) = Cardinality(R)
      BY <1>3, <2>2
    <3> QED BY <1>1, <2>2, <3>1
  <2> QED BY <2>1, <2>2
<1>5. Cardinality(B) = Cardinality(R) + (IF x \in B THEN 1 ELSE 0) /\ IsFiniteSet(B)
  <2>1. CASE x \in B
    <3>1. Cardinality(B) = Cardinality(R \cup {x}) /\ IsFiniteSet(B)
      BY <1>2, <1>3, <2>1
    <3> QED BY <1>2, <2>1, <3>1
  <2>2. CASE x \notin B
    <3>1. Cardinality(B) = Cardinality(R) /\ IsFiniteSet(B)
      BY <1>1, <1>3, <2>2
    <3> QED BY <1>1, <2>2, <3>1
  <2> QED BY <2>1, <2>2
<1> QED BY <1>1, <1>4, <1>5

\* The entries for i in a number of queues.
Row(P, w, i) == {<<w, n>> : n \in {m \in DOMAIN P[w] : P[w][m] = i}}
Spots(P, i) == UNION {Row(P, w, i) : w \in LruWorkers}
Queues == [LruWorkers -> Seq(Items)]

LEMMA SpotsAre ==
    ASSUME NEW P \in Queues, NEW i, NEW w, NEW n
    PROVE  <<w, n>> \in Spots(P, i) <=> w \in LruWorkers /\ n \in 1 .. Len(P[w]) /\ P[w][n] = i
<1>1. \A v \in LruWorkers : DOMAIN P[v] = 1 .. Len(P[v])
  BY DEF Queues
<1> QED BY <1>1 DEF Spots, Row

LEMMA SpotsPairs ==
    ASSUME NEW P \in Queues, NEW i, NEW x \in Spots(P, i)
    PROVE  \E w \in LruWorkers : \E n \in 1 .. Len(P[w]) : x = <<w, n>> /\ P[w][n] = i
<1>1. \A v \in LruWorkers : DOMAIN P[v] = 1 .. Len(P[v])
  BY DEF Queues
<1> QED BY <1>1 DEF Spots, Row

LEMMA SpotsFinite ==
    ASSUME NEW P \in Queues, NEW i
    PROVE  IsFiniteSet(Spots(P, i)) /\ Cardinality(Spots(P, i)) \in Nat
<1> DEFINE T == {Row(P, w, i) : w \in LruWorkers}
           f == [w \in LruWorkers |-> Row(P, w, i)]
<1>1. f \in Surjection(LruWorkers, T)
  BY DEF Surjection
<1>2. IsFiniteSet(T)
  BY <1>1, WorkersFinite, FS_Surjection
<1>3. ASSUME NEW w \in LruWorkers PROVE IsFiniteSet(Row(P, w, i))
  <2>1. P[w] \in Seq(Items) /\ DOMAIN P[w] = 1 .. Len(P[w]) /\ Len(P[w]) \in Nat
    BY DEF Queues
  <2>2. IsFiniteSet({w})
    BY FS_Singleton
  <2>a. IsFiniteSet(1 .. Len(P[w]))
    BY <2>1, FS_Interval
  <2>3. IsFiniteSet({w} \X (1 .. Len(P[w])))
    BY <2>2, <2>a, FS_Product
  <2>4. Row(P, w, i) \subseteq {w} \X (1 .. Len(P[w]))
    BY <2>1 DEF Row
  <2> QED BY <2>3, <2>4, FS_Subset
<1>4. IsFiniteSet(UNION T)
  BY <1>2, <1>3, FS_UNION
<1> QED BY <1>4, FS_CardinalityType DEF Spots

\* A queue has got an entry more.
LEMMA SpotsAppend ==
    ASSUME NEW P \in Queues, NEW Q \in Queues, NEW w \in LruWorkers, NEW x \in Items,
           Q[w] = Append(P[w], x), \A v \in LruWorkers : v # w => Q[v] = P[v], NEW i
    PROVE  Cardinality(Spots(Q, i)) = Cardinality(Spots(P, i)) + (IF i = x THEN 1 ELSE 0)
<1> DEFINE l == Len(P[w]) + 1
           e == <<w, l>>
<1>1. /\ P[w] \in Seq(Items) /\ Len(Q[w]) = l /\ Q[w][l] = x /\ Len(P[w]) \in Nat
      /\ \A n \in 1 .. Len(P[w]) : Q[w][n] = P[w][n]
  BY DEF Queues
<1>2. e \notin Spots(P, i) /\ (e \in Spots(Q, i) <=> i = x)
  <2>1. l \notin 1 .. Len(P[w]) /\ l \in 1 .. Len(Q[w])
    BY <1>1
  <2> HIDE DEF l
  <2> QED BY <2>1, <1>1, SpotsAre
<1>3. ASSUME NEW v, NEW n, <<v, n>> # e PROVE <<v, n>> \in Spots(Q, i) <=> <<v, n>> \in Spots(P, i)
  <2>1. CASE v = w
    <3>1. n # l
      BY <1>3, <2>1
    <3>2. n \in 1 .. Len(Q[w]) <=> n \in 1 .. Len(P[w])
      BY <3>1, <1>1
    <3> QED BY <3>2, <2>1, <1>1, SpotsAre
  <2>2. CASE v # w
    BY <2>2, SpotsAre
  <2> QED BY <2>1, <2>2
<1>4. Spots(P, i) \ {e} = Spots(Q, i) \ {e}
  <2>1. ASSUME NEW y PROVE y \in Spots(P, i) \ {e} => y \in Spots(Q, i)
    BY <1>3, SpotsPairs
  <2>2. ASSUME NEW y PROVE y \in Spots(Q, i) \ {e} => y \in Spots(P, i)
    BY <1>3, SpotsPairs
  <2> QED BY <2>1, <2>2
<1> HIDE DEF e
<1>5. Cardinality(Spots(Q, i)) = Cardinality(Spots(P, i)) - 0 + (IF e \in Spots(Q, i) THEN 1 ELSE 0)
  BY <1>2, <1>4, SpotsFinite, CountOne
<1> QED BY <1>2, <1>5, SpotsFinite

\* A queue has lost its first entry.
LEMMA SpotsTail ==
    ASSUME NEW P \in Queues, NEW Q \in Queues, NEW w \in LruWorkers, P[w] # <<>>,
           Q[w] = Tail(P[w]), \A v \in LruWorkers : v # w => Q[v] = P[v], NEW i
    PROVE  Cardinality(Spots(P, i)) = Cardinality(Spots(Q, i)) + (IF i = Head(P[w]) THEN 1 ELSE 0)
<1> DEFINE e == <<w, 1>>
           R == Spots(P, i) \ {e}
           to(x) == IF x[1] = w THEN <<w, x[2] + 1>> ELSE x
           f == [x \in Spots(Q, i) |-> to(x)]
<1>1. /\ P[w] \in Seq(Items) /\ Len(P[w]) \in Nat \ {0} /\ Len(Q[w]) = Len(P[w]) - 1 /\ Head(P[w]) = P[w][1]
      /\ \A n \in 1 .. Len(P[w]) - 1 : Q[w][n] = P[w][n + 1]
  BY DEF Queues
<1>2. ASSUME NEW x \in Spots(Q, i) PROVE to(x) \in R /\ x \in LruWorkers \X Nat
  <2>a. PICK v \in LruWorkers : \E n \in 1 .. Len(Q[v]) : x = <<v, n>> /\ Q[v][n] = i
    BY SpotsPairs
  <2>1. PICK n \in 1 .. Len(Q[v]) : x = <<v, n>> /\ Q[v][n] = i
    BY <2>a
  <2>2. n \in Nat /\ n >= 1
    OBVIOUS
  <2>3. CASE v = w
    <3>a. n \in 1 .. Len(P[w]) - 1
      BY <1>1, <2>3
    <3>b. n + 1 # 1 /\ n + 1 \in 1 .. Len(P[w])
      BY <1>1, <2>2, <3>a
    <3>c. P[w][n + 1] = i
      BY <1>1, <2>1, <2>3, <3>a
    <3>d. to(x) = <<w, n + 1>>
      BY <2>1, <2>3
    <3>1. to(x) = <<w, n + 1>> /\ n + 1 # 1 /\ n + 1 \in 1 .. Len(P[w]) /\ P[w][n + 1] = i
      BY <3>b, <3>c, <3>d
    <3> QED BY <3>1, <2>1, <2>2, SpotsAre
  <2>4. CASE v # w
    <3>1. to(x) = x /\ x # e
      BY <2>1, <2>4
    <3> QED BY <3>1, <2>1, <2>2, <2>4, SpotsAre
  <2> QED BY <2>3, <2>4
<1>3. ASSUME NEW x \in Spots(Q, i), NEW y \in Spots(Q, i), to(x) = to(y) PROVE x = y
  <2>1. x \in LruWorkers \X Nat /\ y \in LruWorkers \X Nat
    BY <1>2
  <2>2. x = <<x[1], x[2]>> /\ y = <<y[1], y[2]>> /\ x[2] \in Nat /\ y[2] \in Nat
    BY <2>1
  <2>3. x[1] = y[1]
    BY <1>3, <2>2
  <2>4. x[2] = y[2]
    BY <1>3, <2>2, <2>3
  <2> QED BY <2>2, <2>3, <2>4
<1>4. ASSUME NEW y \in R PROVE \E x \in Spots(Q, i) : to(x) = y
  <2>a. PICK v \in LruWorkers : \E n \in 1 .. Len(P[v]) : y = <<v, n>> /\ P[v][n] = i
    BY SpotsPairs
  <2>1. PICK n \in 1 .. Len(P[v]) : y = <<v, n>> /\ P[v][n] = i
    BY <2>a
  <2>2. CASE v = w
    <3>1. n # 1
      BY <2>1, <2>2
    <3>2. n - 1 \in 1 .. Len(Q[w]) /\ Q[w][n - 1] = i /\ n - 1 + 1 = n
      BY <3>1, <1>1, <2>1, <2>2
    <3>3. <<w, n - 1>> \in Spots(Q, i)
      BY <3>2, SpotsAre
    <3>4. to(<<w, n - 1>>) = y
      BY <3>2, <2>1, <2>2
    <3> QED BY <3>3, <3>4
  <2>3. CASE v # w
    <3>1. to(y) = y
      BY <2>1, <2>3
    <3> QED BY <3>1, <2>1, <2>3, SpotsAre
  <2> QED BY <2>2, <2>3
<1>5. f \in Bijection(Spots(Q, i), R)
  <2>1. f \in [Spots(Q, i) -> R]
    BY <1>2
  <2>2. \A x, y \in Spots(Q, i) : f[x] = f[y] => x = y
    BY <1>3
  <2>3. \A y \in R : \E x \in Spots(Q, i) : f[x] = y
    BY <1>4
  <2> HIDE DEF f, R
  <2> QED BY <2>1, <2>2, <2>3 DEF Bijection, Injection, Surjection, IsInjective
<1>6. Cardinality(R) = Cardinality(Spots(Q, i))
  BY <1>5, SpotsFinite, FS_Bijection DEF ExistsBijection
<1>7. e \in Spots(P, i) <=> i = Head(P[w])
  BY <1>1, SpotsAre
<1>8. Cardinality(R) = IF e \in Spots(P, i) THEN Cardinality(Spots(P, i)) - 1 ELSE Cardinality(Spots(P, i))
  BY SpotsFinite, FS_RemoveElement
<1> HIDE DEF R, e
<1> QED BY <1>6, <1>7, <1>8, SpotsFinite

OneIf(b) == IF b THEN 1 ELSE 0
Pend == [w \in LruWorkers |-> Pending(w)]

\* The bumps that are queued, and how many there are.
QueuesFine ==
    /\ Pend \in Queues
    /\ \A i \in Items : Queued(i) = Spots(Pend, i) /\ Cardinality(Queued(i)) \in Nat

LEMMA QueuesAre == LruTypes => QueuesFine
<1> SUFFICES ASSUME LruTypes PROVE QueuesFine
  OBVIOUS
<1>1. ASSUME NEW w \in LruWorkers PROVE Pending(w) \in Seq(Items)
  <2>1. bumps[w] \in Seq(Items) /\ mt.todo \in Seq(Items) /\ mt.size \in Nat
    BY DEF LruTypes, Upkeep
  <2>2. SubSeq(bumps[w], mt.size + 1, Len(bumps[w])) \in Seq(Items)
    BY <2>1
  <2> QED BY <2>1, <2>2, ConcatProperties DEF Pending
<1>2. Pend \in Queues
  BY <1>1 DEF Pend, Queues
<1>3. ASSUME NEW i \in Items PROVE Queued(i) = Spots(Pend, i)
  BY DEF Queued, Spots, Row, Pend
<1> QED BY <1>2, <1>3, SpotsFinite DEF QueuesFine

LEMMA QueuesAreNext == LruTypes' => QueuesFine'
BY QueuesAre, PTL

LEMMA CountsFinite ==
    ASSUME NEW i
    PROVE  /\ IsFiniteSet(Got(i)) /\ Cardinality(Got(i)) \in Nat
           /\ IsFiniteSet(Settling(i)) /\ Cardinality(Settling(i)) \in Nat
<1>1. Got(i) \subseteq LruWorkers /\ Settling(i) \subseteq Pullers
  BY DEF Got, Settling
<1> QED BY <1>1, WorkersFinite, FS_Subset, FS_CardinalityType

\* One worker gets or gives back references.
LEMMA GotChange ==
    ASSUME NEW w \in LruWorkers, \A v \in LruWorkers : v # w => wk'[v].got = wk[v].got, NEW i
    PROVE  /\ Cardinality(Got(i)) \in Nat /\ Cardinality(Got(i)') \in Nat
           /\ Cardinality(Got(i)') = Cardinality(Got(i)) - OneIf(i \in wk[w].got) + OneIf(i \in wk'[w].got)
<1>1. Got(i) \ {w} = Got(i)' \ {w}
  BY DEF Got
<1>2. (w \in Got(i) <=> i \in wk[w].got) /\ (w \in Got(i)' <=> i \in wk'[w].got)
  BY DEF Got
<1> QED BY <1>1, <1>2, CountsFinite, CountOne DEF OneIf

\* One thread begins or ends to hold an item that lru_pull_tail has found.
LEMMA SettlingChange ==
    ASSUME NEW p \in Pullers, \A q \in Pullers : q # p => pull'[q] = pull[q], NEW i
    PROVE  /\ Cardinality(Settling(i)) \in Nat /\ Cardinality(Settling(i)') \in Nat
           /\ Cardinality(Settling(i)') = Cardinality(Settling(i))
                - OneIf(pull[p].at = "settle" /\ pull[p].search = i)
                + OneIf(pull'[p].at = "settle" /\ pull'[p].search = i)
<1>1. Settling(i) \ {p} = Settling(i)' \ {p}
  BY DEF Settling, At
<1>2. /\ p \in Settling(i) <=> pull[p].at = "settle" /\ pull[p].search = i
      /\ p \in Settling(i)' <=> pull'[p].at = "settle" /\ pull'[p].search = i
  BY DEF Settling, At
<1> QED BY <1>1, <1>2, CountsFinite, CountOne DEF OneIf

\* What the references of an item are.
Refs(i) == OneIf(items[i].linked) + Cardinality(Got(i)) + Cardinality(Queued(i)) + Cardinality(Settling(i))
             + OneIf(cr.search = i)

LEMMA RefsAre == RefsExact <=> \A i \in Items : items[i].ref = Refs(i)
BY DEF RefsExact, Refs, OneIf

LEMMA SameQueues ==
    ASSUME \A w \in LruWorkers : Pending(w)' = Pending(w), NEW i
    PROVE  Queued(i)' = Queued(i)
BY DEF Queued

\* A step that leaves all references alone.
LEMMA RefsFrame ==
    ASSUME RefsExact, ActiveIsQueued,
           \A i \in Items : /\ items'[i].ref = items[i].ref /\ items'[i].linked = items[i].linked
                            /\ items'[i].lru = items[i].lru
                            /\ items'[i].active => items[i].active,
           \A w \in LruWorkers : wk'[w].got = wk[w].got /\ Pending(w)' = Pending(w),
           \A p \in Pullers : /\ pull'[p].at = "settle" <=> pull[p].at = "settle"
                              /\ pull[p].at = "settle" => pull'[p].search = pull[p].search,
           cr'.search = cr.search
    PROVE  RefsExact' /\ ActiveIsQueued'
<1>1. ASSUME NEW i \in Items PROVE Got(i)' = Got(i) /\ Queued(i)' = Queued(i) /\ Settling(i)' = Settling(i)
  BY SameQueues DEF Got, Settling, At
<1>2. RefsExact'
  BY <1>1 DEF RefsExact
<1>3. ActiveIsQueued'
  <2> SUFFICES ASSUME NEW i \in Items, items'[i].linked /\ items'[i].lru = "COLD" /\ items'[i].active
               PROVE  Queued(i)' # {}
    BY DEF ActiveIsQueued
  <2>1. Queued(i) # {}
    BY DEF ActiveIsQueued
  <2> QED BY <2>1, <1>1
<1> QED BY <1>2, <1>3

-----------------------------------------------------------------------------
(* Steps that leave most alone.                                            *)

LEMMA SweptIs == Swept = {"HOT", "WARM", "COLD"} /\ IsFiniteSet(Swept) /\ Cardinality(Swept) = 3
<1>1. Swept = {"HOT", "WARM", "COLD"}
  BY DEF Swept, Order
<1>2. IsFiniteSet({"HOT"}) /\ Cardinality({"HOT"}) = 1
  BY FS_Singleton
<1>3. IsFiniteSet({"HOT"} \cup {"WARM"}) /\ Cardinality({"HOT"} \cup {"WARM"}) = 2
  BY <1>2, FS_AddElement
<1>4. IsFiniteSet({"HOT"} \cup {"WARM"} \cup {"COLD"}) /\ Cardinality({"HOT"} \cup {"WARM"} \cup {"COLD"}) = 3
  BY <1>3, FS_AddElement
<1>5. Swept = {"HOT"} \cup {"WARM"} \cup {"COLD"}
  BY <1>1
<1> QED BY <1>1, <1>4, <1>5

LEMMA CountBound == CountOK => crawler_count \in 0 .. 3
<1> DEFINE On == {l \in Swept : crawlers[l].on}
<1>1. IsFiniteSet(On) /\ Cardinality(On) <= 3 /\ Cardinality(On) \in Nat
  BY SweptIs, FS_Subset, FS_CardinalityType
<1> QED BY <1>1 DEF CountOK

LEMMA CountBoundNext == CountOK' => (crawler_count \in 0 .. 3)'
BY CountBound, PTL

\* The invariant is put together again.
LEMMA Together ==
    ASSUME LruTypes', CrawlTypes', ThreadsOK', RefsExact', ActiveIsQueued', ClientReturned', Whole'
    PROVE  IInv'
<1>1. crawler_count' \in 0 .. 3
  BY CountBoundNext DEF Whole
<1>2. crawler_count' \in 0 .. 2 * Cardinality(Swept)
  BY <1>1, SweptIs
<1> QED BY <1>2 DEF IInv

\* The crawler and its client's buffer.
LEMMA BufferIs ==
    ASSUME IInv
    PROVE  cbuf \in 0 .. DumpLines /\ cbuf \in Nat /\ DumpLines \in Nat \ {0} /\ cr \in Crawl
<1>1. cbuf \in 0 .. DumpLines /\ cr \in Crawl
  BY DEF IInv, CrawlTypes
<1>2. DumpLines \in Nat \ {0}
  BY CrawlerAssumption
<1> QED BY <1>1, <1>2

\* Nothing happens to items, lists and bumps.
LEMMA QuietKeeps ==
    ASSUME IInv, Sound,
           UNCHANGED <<items, lists, ilock, lru_lock, pull, wk, bumps, mt, crawlers, crawler_count>>,
           cr'.search = cr.search, cr'.at = "dump" <=> cr.at = "dump",
           cr.at = "dump" => cbuf' <= cbuf /\ cbuf' \in Nat
    PROVE  ThreadsOK' /\ RefsExact' /\ ActiveIsQueued' /\ Whole'
<1>1. ThreadsOK /\ Whole /\ RefsExact /\ ActiveIsQueued
  BY DEF IInv
<1>a. cbuf \in Nat /\ DumpLines \in Nat
  BY BufferIs
<1>2. ThreadsOK'
  <2>1. \A p \in Pullers : PullOK(p)'
    BY <1>1 DEF ThreadsOK, PullOK, At
  <2>2. \A w \in LruWorkers : WorkOK(w)'
    BY <1>1 DEF ThreadsOK, WorkOK
  <2>3. UpkeepOK'
    BY <1>1 DEF ThreadsOK, UpkeepOK
  <2>4. CrawlOK'
    BY <1>1, <1>a DEF ThreadsOK, CrawlOK
  <2> QED BY <2>1, <2>2, <2>3, <2>4 DEF ThreadsOK
<1>3. RefsExact' /\ ActiveIsQueued'
  <2>1. \A w \in LruWorkers : Pending(w)' = Pending(w)
    BY DEF Pending
  <2> QED BY <2>1, <1>1, RefsFrame
<1>4. Whole'
  <2>1. \A l \in Lrus : ListOK(l)'
    BY <1>1 DEF Whole, ListOK, InTransit, At
  <2>2. \A p \in Pullers : WalkOK(p)'
    BY <1>1 DEF Whole, WalkOK, At
  <2>3. CountOK'
    BY <1>1 DEF Whole, CountOK
  <2> QED BY <2>1, <2>2, <2>3 DEF Whole
<1> QED BY <1>2, <1>3, <1>4

\* The clients of dumps.
LEMMA ClientKept ==
    ASSUME ClientReturned, UNCHANGED <<client, dumpers>>
    PROVE  ClientReturned'
BY DEF ClientReturned

LEMMA LruTypesKept == ASSUME LruTypes, UNCHANGED lruVars PROVE LruTypes'
BY DEF LruTypes, lruVars

LEMMA CrawlTypesKept == ASSUME CrawlTypes, UNCHANGED crawlVars PROVE CrawlTypes'
BY DEF CrawlTypes, crawlVars

\* A step that is quiet in that sense keeps the invariant.
LEMMA QuietStep ==
    ASSUME IInv, Sound, LruTypes', CrawlTypes', ClientReturned',
           UNCHANGED <<items, lists, ilock, lru_lock, pull, wk, bumps, mt, crawlers, crawler_count>>,
           cr'.search = cr.search, cr'.at = "dump" <=> cr.at = "dump",
           cr.at = "dump" => cbuf' <= cbuf
    PROVE  IInv'
<1>1. cbuf' \in Nat
  <2>1. cbuf' \in 0 .. DumpLines
    BY DEF CrawlTypes
  <2> QED BY <2>1, BufferIs
<1> QED BY <1>1, QuietKeeps, Together

LEMMA TickKeeps == ASSUME IInv, Sound, Tick, UNCHANGED crawlVars PROVE IInv'
<1>1. CrawlTypes'
  BY CrawlTypesKept DEF IInv
<1>2. LruTypes'
  <2>1. left \in Allowance /\ clock \in 0 .. MaxTime /\ MaxTime \in Nat
    BY LruAssumption DEF IInv, LruTypes
  <2>2. left.until \in 0 .. MaxTime
    BY <2>1 DEF Allowance
  <2>3. clock' \in 0 .. MaxTime
    BY <2>1, <2>2 DEF Tick
  <2> QED BY <2>3 DEF IInv, LruTypes, Tick
<1>3. ClientReturned'
  BY ClientKept DEF crawlVars, IInv
<1>4. cbuf' = cbuf /\ cbuf \in Nat /\ cr' = cr
  BY BufferIs DEF crawlVars
<1> QED BY <1>1, <1>2, <1>3, <1>4, QuietStep DEF Tick, crawlVars

LEMMA CrawlerWakesKeeps == ASSUME IInv, Sound, CrawlerWakes PROVE IInv'
<1>1. UNCHANGED <<lruVars, crawlers, crawler_count, mod, client, cbuf, dumpers, cdata>>
  BY DEF CrawlerWakes
<1>2. cr' = [cr EXCEPT !.at = IF crawler_count = 0 THEN "flush" ELSE "crawl", !.wake = FALSE, !.n = 1]
      /\ cr.at = "wait"
  BY DEF CrawlerWakes
<1>3. cr \in Crawl /\ 1 \in Nat
  BY BufferIs
<1>4. cr' \in Crawl /\ cr'.search = cr.search /\ cr'.at # "dump"
  BY <1>2, <1>3 DEF Crawl
<1>5. LruTypes' /\ ClientReturned'
  BY <1>1, LruTypesKept, ClientKept DEF IInv
<1>6. CrawlTypes'
  BY <1>1, <1>4 DEF IInv, CrawlTypes
<1> QED BY <1>1, <1>2, <1>4, <1>5, <1>6, QuietStep DEF lruVars

LEMMA CrawlPassEndsKeeps == ASSUME IInv, Sound, CrawlPassEnds PROVE IInv'
<1>1. UNCHANGED <<lruVars, crawlers, crawler_count, mod, client, cbuf, dumpers, cdata>>
  BY DEF CrawlPassEnds
<1>2. cr' = [cr EXCEPT !.at = IF crawler_count = 0 THEN "flush" ELSE "crawl", !.n = 1] /\ cr.at = "crawl"
  BY DEF CrawlPassEnds
<1>3. cr \in Crawl /\ 1 \in Nat
  BY BufferIs
<1>4. cr' \in Crawl /\ cr'.search = cr.search /\ cr'.at # "dump"
  BY <1>2, <1>3 DEF Crawl
<1>5. LruTypes' /\ ClientReturned'
  BY <1>1, LruTypesKept, ClientKept DEF IInv
<1>6. CrawlTypes'
  BY <1>1, <1>4 DEF IInv, CrawlTypes
<1> QED BY <1>1, <1>2, <1>4, <1>5, <1>6, QuietStep DEF lruVars

\* The crawler goes to the next list.
LEMMA NextListIs ==
    ASSUME IInv, NextList
    PROVE  cr' \in Crawl /\ cr'.search = Nobody /\ cr'.at = "crawl"
<1>1. cr \in Crawl /\ cr' = [cr EXCEPT !.at = "crawl", !.n = cr.n + 1, !.search = Nobody]
  BY BufferIs DEF NextList
<1>2. cr.n + 1 \in Nat
  BY <1>1 DEF Crawl
<1> QED BY <1>1, <1>2 DEF Crawl

\* A crawler that is not in use on an item has no item.
LEMMA SearchIs == ASSUME IInv, cr.at # "dump" PROVE cr.search = Nobody
BY DEF IInv, ThreadsOK, CrawlOK

LEMMA CrawlNotOnKeeps == ASSUME IInv, Sound, NEW l \in Swept, CrawlNotOn(l) PROVE IInv'
<1>1. UNCHANGED <<lruVars, crawlers, crawler_count, mod, client, cbuf, dumpers, cdata>>
  BY DEF CrawlNotOn
<1>2. cr.at = "crawl" /\ NextList
  BY DEF CrawlNotOn, Crawling
<1>4. cr' \in Crawl /\ cr'.search = cr.search /\ cr'.at # "dump"
  BY <1>2, NextListIs, SearchIs
<1>5. LruTypes' /\ ClientReturned'
  BY <1>1, LruTypesKept, ClientKept DEF IInv
<1>6. CrawlTypes'
  BY <1>1, <1>4 DEF IInv, CrawlTypes
<1> QED BY <1>1, <1>2, <1>4, <1>5, <1>6, QuietStep DEF lruVars

LEMMA PollKeeps == ASSUME IInv, Sound, lru_crawler_poll PROVE IInv'
<1>1. UNCHANGED <<lruVars, crawlers, crawler_count, cr, mod, client, dumpers, cdata>>
  BY DEF lru_crawler_poll
<1>2. \E n \in 1 .. cbuf : cbuf' = cbuf - n
  BY DEF lru_crawler_poll
<1>3. cbuf' \in 0 .. DumpLines /\ cbuf' <= cbuf
  BY <1>2, BufferIs
<1>5. LruTypes' /\ ClientReturned'
  BY <1>1, LruTypesKept, ClientKept DEF IInv
<1>6. CrawlTypes'
  BY <1>1, <1>3 DEF IInv, CrawlTypes
<1> QED BY <1>1, <1>3, <1>5, <1>6, QuietStep DEF lruVars

\* Closing the client of a dump.
LEMMA ClosedIs ==
    ASSUME IInv, client # Nobody, lru_crawler_close_client
    PROVE  /\ ClientReturned' /\ cbuf' = 0 /\ client' = Nobody
           /\ dumpers' \in [Dumpers -> [handed : Nat, back : Nat, closed : Nat, gone : BOOLEAN]]
<1> DEFINE Dumps == [handed : Nat, back : Nat, closed : Nat, gone : BOOLEAN]
<1>1. /\ dumpers' = [dumpers EXCEPT ![client].closed = @ + 1] /\ cbuf' = 0 /\ client' = Nobody
      /\ dumpers \in [Dumpers -> Dumps] /\ client \in Dumpers /\ Nobody \notin Dumpers /\ ClientReturned
  BY CrawlerAssumption DEF lru_crawler_close_client, IInv, CrawlTypes
<1>2. dumpers[client] \in Dumps
  BY <1>1
<1>3. dumpers' = [dumpers EXCEPT ![client] = [dumpers[client] EXCEPT !.closed = dumpers[client].closed + 1]]
  BY <1>1
<1>4. [dumpers[client] EXCEPT !.closed = dumpers[client].closed + 1] \in Dumps
  BY <1>2
<1>5. dumpers' \in [Dumpers -> Dumps]
  BY <1>1, <1>3, <1>4
<1>6. ClientReturned'
  <2> SUFFICES ASSUME NEW d \in Dumpers
               PROVE  dumpers'[d].handed = dumpers'[d].back + dumpers'[d].closed + (IF client' = d THEN 1 ELSE 0)
    BY DEF ClientReturned
  <2>1. dumpers[d].handed = dumpers[d].back + dumpers[d].closed + (IF client = d THEN 1 ELSE 0)
    BY <1>1 DEF ClientReturned
  <2>2. dumpers[d] \in Dumps
    BY <1>1
  <2>3. CASE d = client
    BY <1>1, <1>2, <1>3, <2>1, <2>2, <2>3
  <2>4. CASE d # client
    <3>1. dumpers'[d] = dumpers[d]
      BY <1>1, <1>3, <2>4
    <3> QED BY <1>1, <2>1, <2>2, <2>4, <3>1
  <2> QED BY <2>3, <2>4
<1> QED BY <1>1, <1>5, <1>6

LEMMA FlushClosesKeeps == ASSUME IInv, Sound, FlushCloses PROVE IInv'
<1>1. UNCHANGED <<lruVars, crawlers, crawler_count, cr, mod, cdata>>
  BY DEF FlushCloses
<1>2. client # Nobody /\ lru_crawler_close_client
  BY DEF FlushCloses
<1>3. /\ ClientReturned' /\ cbuf' = 0 /\ client' = Nobody
      /\ dumpers' \in [Dumpers -> [handed : Nat, back : Nat, closed : Nat, gone : BOOLEAN]]
  BY <1>2, ClosedIs
<1>4. cbuf' \in 0 .. DumpLines /\ cbuf' <= cbuf
  BY <1>3, BufferIs
<1>5. LruTypes'
  BY <1>1, LruTypesKept DEF IInv
<1>6. CrawlTypes'
  BY <1>1, <1>3, <1>4 DEF IInv, CrawlTypes
<1> QED BY <1>1, <1>3, <1>4, <1>5, <1>6, QuietStep DEF lruVars

LEMMA CrawlEndKeeps == ASSUME IInv, Sound, CrawlEnd PROVE IInv'
<1> DEFINE Dumps == [handed : Nat, back : Nat, closed : Nat, gone : BOOLEAN]
<1>1. UNCHANGED <<lruVars, crawlers, crawler_count, cbuf, cdata>> /\ mod' = [type |-> "", external |-> FALSE]
  BY DEF CrawlEnd
<1>2. /\ client' = Nobody /\ cr.at = "flush"
      /\ dumpers' = IF client = Nobody THEN dumpers ELSE [dumpers EXCEPT ![client].back = @ + 1]
  BY DEF CrawlEnd, lru_crawler_release_client
<1>3. /\ dumpers \in [Dumpers -> Dumps] /\ client \in Dumpers \cup {Nobody} /\ Nobody \notin Dumpers
      /\ ClientReturned
  BY CrawlerAssumption DEF IInv, CrawlTypes
<1>4. dumpers' \in [Dumpers -> Dumps] /\ ClientReturned'
  <2>1. CASE client = Nobody
    <3>1. ClientReturned'
      BY <1>2, <1>3, <2>1 DEF ClientReturned
    <3> QED BY <1>2, <1>3, <2>1, <3>1
  <2>2. CASE client # Nobody
    <3>1. dumpers[client] \in Dumps
      BY <1>3, <2>2
    <3>2. dumpers' = [dumpers EXCEPT ![client] = [dumpers[client] EXCEPT !.back = dumpers[client].back + 1]]
      BY <1>2, <2>2
    <3>3. [dumpers[client] EXCEPT !.back = dumpers[client].back + 1] \in Dumps
      BY <3>1
    <3>4. dumpers' \in [Dumpers -> Dumps]
      BY <1>3, <3>2, <3>3
    <3>5. ASSUME NEW d \in Dumpers
          PROVE  dumpers'[d].handed = dumpers'[d].back + dumpers'[d].closed + (IF client' = d THEN 1 ELSE 0)
      <4>1. dumpers[d].handed = dumpers[d].back + dumpers[d].closed + (IF client = d THEN 1 ELSE 0)
        BY <1>3 DEF ClientReturned
      <4>2. dumpers[d] \in Dumps /\ d # Nobody
        BY <1>3
      <4>3. CASE d = client
        BY <1>2, <1>3, <3>1, <3>2, <4>1, <4>2, <4>3
      <4>4. CASE d # client
        <5>1. dumpers'[d] = dumpers[d]
          BY <1>3, <3>2, <4>4
        <5> QED BY <1>2, <4>1, <4>2, <4>4, <5>1
      <4> QED BY <4>3, <4>4
    <3>6. ClientReturned'
      BY <3>5 DEF ClientReturned
    <3> QED BY <3>4, <3>6
  <2> QED BY <2>1, <2>2
<1>5. cr' = [cr EXCEPT !.at = IF do_run THEN "wait" ELSE "off"] /\ cr \in Crawl
  BY BufferIs DEF CrawlEnd
<1>6. cr' \in Crawl /\ cr'.search = cr.search /\ cr'.at # "dump"
  BY <1>5 DEF Crawl
<1>7. LruTypes'
  BY <1>1, LruTypesKept DEF IInv
<1>8. CrawlTypes'
  BY <1>1, <1>2, <1>4, <1>6 DEF IInv, CrawlTypes
<1> QED BY <1>1, <1>2, <1>4, <1>6, <1>7, <1>8, QuietStep DEF lruVars

LEMMA CrawlerStartsKeeps == ASSUME IInv, Sound, CrawlerStarts PROVE IInv'
<1>1. UNCHANGED <<lruVars, crawlers, crawler_count, mod, client, cbuf, dumpers, cdata>>
  BY DEF CrawlerStarts
<1>2. cr' = [cr EXCEPT !.at = "wait"] /\ cr.at = "start" /\ cr \in Crawl
  BY BufferIs DEF CrawlerStarts
<1>4. cr' \in Crawl /\ cr'.search = cr.search /\ cr'.at # "dump"
  BY <1>2 DEF Crawl
<1>5. LruTypes' /\ ClientReturned'
  BY <1>1, LruTypesKept, ClientKept DEF IInv
<1>6. CrawlTypes'
  BY <1>1, <1>4 DEF IInv, CrawlTypes
<1> QED BY <1>1, <1>2, <1>4, <1>5, <1>6, QuietStep DEF lruVars

LEMMA HangUpKeeps == ASSUME IInv, Sound, NEW d \in Dumpers, HangUp(d) PROVE IInv'
<1>1. UNCHANGED <<lruVars, crawlers, crawler_count, cr, mod, client, cbuf, cdata>>
  BY DEF HangUp
<1>2. dumpers' = [dumpers EXCEPT ![d].gone = TRUE]
  BY DEF HangUp
<1>3. dumpers \in [Dumpers -> [handed : Nat, back : Nat, closed : Nat, gone : BOOLEAN]] /\ ClientReturned
  BY DEF IInv, CrawlTypes
<1>4. dumpers' \in [Dumpers -> [handed : Nat, back : Nat, closed : Nat, gone : BOOLEAN]]
  BY <1>2, <1>3
<1>5. ASSUME NEW e \in Dumpers
      PROVE  /\ dumpers'[e].handed = dumpers[e].handed /\ dumpers'[e].back = dumpers[e].back
             /\ dumpers'[e].closed = dumpers[e].closed
  BY <1>2, <1>3
<1>6. ClientReturned'
  BY <1>1, <1>3, <1>5 DEF ClientReturned
<1>7. LruTypes'
  BY <1>1, LruTypesKept DEF IInv
<1>8. CrawlTypes'
  BY <1>1, <1>4 DEF IInv, CrawlTypes
<1>9. cbuf' <= cbuf
  BY <1>1, BufferIs
<1> QED BY <1>1, <1>6, <1>7, <1>8, <1>9, QuietStep DEF lruVars

\* An operation is one less that is left.
LEMMA SpentIs ==
    ASSUME LruTypes, NEW what \in {"ops", "crawls", "dumps", "toggles", "pauses"},
           left[what] > 0, left' = [left EXCEPT ![what] = @ - 1]
    PROVE  left' \in Allowance
<1>1. left \in Allowance
  BY DEF LruTypes
<1>2. left[what] - 1 \in Nat
  BY <1>1 DEF Allowance
<1> QED BY <1>1, <1>2 DEF Allowance

\* A signal wakes the crawler when it waits.
LEMMA SignalIs ==
    ASSUME IInv, cr' = Signal
    PROVE  cr' \in Crawl /\ cr'.search = cr.search /\ cr'.at = cr.at
<1>1. cr \in Crawl /\ cr' = [cr EXCEPT !.wake = @ \/ cr.at = "wait"]
  BY BufferIs DEF Signal
<1> QED BY <1>1 DEF Crawl

LEMMA StopKeeps == ASSUME IInv, Sound, stop_item_crawler_thread PROVE IInv'
<1>1. /\ UNCHANGED <<lruButLeft, crawlers, crawler_count, mod, client, cbuf, dumpers, cdata>>
      /\ cr' = Signal /\ Spend("toggles")
  BY DEF stop_item_crawler_thread, crawlRest
<1>2. cr' \in Crawl /\ cr'.search = cr.search /\ cr'.at = cr.at
  BY <1>1, SignalIs
<1>3. left' \in Allowance
  BY <1>1, SpentIs DEF Spend, IInv
<1>4. LruTypes'
  BY <1>1, <1>3 DEF lruButLeft, IInv, LruTypes
<1>5. CrawlTypes' /\ ClientReturned'
  BY <1>1, <1>2, ClientKept DEF IInv, CrawlTypes
<1>6. cbuf' <= cbuf
  BY <1>1, BufferIs
<1> QED BY <1>1, <1>2, <1>4, <1>5, <1>6, QuietStep DEF lruButLeft

LEMMA CrawlerJoinedKeeps == ASSUME IInv, Sound, CrawlerJoined PROVE IInv'
<1>1. UNCHANGED <<lruButLeft, left, cr, crawlers, crawler_count, mod, client, cbuf, dumpers, cdata>>
  BY DEF CrawlerJoined, crawlRest
<1>4. LruTypes'
  BY <1>1, LruTypesKept DEF lruVars, lruButLeft, IInv
<1>5. CrawlTypes' /\ ClientReturned'
  BY <1>1, ClientKept DEF IInv, CrawlTypes
<1>6. cbuf' <= cbuf
  BY <1>1, BufferIs
<1> QED BY <1>1, <1>4, <1>5, <1>6, QuietStep DEF lruButLeft

LEMMA StartKeeps == ASSUME IInv, Sound, start_item_crawler_thread PROVE IInv'
<1>1. /\ UNCHANGED <<lruButLeft, crawlers, crawler_count, mod, client, cbuf, dumpers, cdata>>
      /\ cr' = [cr EXCEPT !.at = "start"] /\ cr.at = "off" /\ Spend("toggles") /\ cr \in Crawl
  BY BufferIs DEF start_item_crawler_thread, crawlRest
<1>2. cr' \in Crawl /\ cr'.search = cr.search /\ cr'.at # "dump"
  BY <1>1 DEF Crawl
<1>3. left' \in Allowance
  BY <1>1, SpentIs DEF Spend, IInv
<1>4. LruTypes'
  BY <1>1, <1>3 DEF lruButLeft, IInv, LruTypes
<1>5. CrawlTypes' /\ ClientReturned'
  BY <1>1, <1>2, ClientKept DEF IInv, CrawlTypes
<1> QED BY <1>1, <1>2, <1>4, <1>5, QuietStep DEF lruButLeft

LEMMA PauseKeeps == ASSUME IInv, Sound, lru_crawler_pause PROVE IInv'
<1>1. /\ UNCHANGED <<lruButLeft, cr, crawlers, crawler_count, mod, client, cbuf, dumpers, cdata>>
      /\ Spend("pauses")
  BY DEF lru_crawler_pause, crawlRest
<1>3. left' \in Allowance
  BY <1>1, SpentIs DEF Spend, IInv
<1>4. LruTypes'
  BY <1>1, <1>3 DEF lruButLeft, IInv, LruTypes
<1>5. CrawlTypes' /\ ClientReturned'
  BY <1>1, ClientKept DEF IInv, CrawlTypes
<1>6. cbuf' <= cbuf
  BY <1>1, BufferIs
<1> QED BY <1>1, <1>4, <1>5, <1>6, QuietStep DEF lruButLeft

LEMMA CrawlerPausedKeeps == ASSUME IInv, Sound, CrawlerPaused PROVE IInv'
<1>1. UNCHANGED <<lruButLeft, left, cr, crawlers, crawler_count, mod, client, cbuf, dumpers, cdata>>
  BY DEF CrawlerPaused, crawlRest
<1>4. LruTypes'
  BY <1>1, LruTypesKept DEF lruVars, lruButLeft, IInv
<1>5. CrawlTypes' /\ ClientReturned'
  BY <1>1, ClientKept DEF IInv, CrawlTypes
<1>6. cbuf' <= cbuf
  BY <1>1, BufferIs
<1> QED BY <1>1, <1>4, <1>5, <1>6, QuietStep DEF lruButLeft

LEMMA MaintainerPauseKeeps == ASSUME IInv, Sound, lru_maintainer_pause PROVE IInv'
<1>1. /\ UNCHANGED <<clock, items, lists, ilock, lru_lock, pull, wk, bumps, mt, left>>
      /\ UNCHANGED <<cr, crawlers, crawler_count, mod, client, cbuf, dumpers, cdata>>
  BY DEF lru_maintainer_pause
<1>4. LruTypes'
  BY <1>1 DEF IInv, LruTypes
<1>5. CrawlTypes' /\ ClientReturned'
  BY <1>1, ClientKept DEF IInv, CrawlTypes
<1>6. cbuf' <= cbuf
  BY <1>1, BufferIs
<1> QED BY <1>1, <1>4, <1>5, <1>6, QuietStep

LEMMA ResumeKeeps == ASSUME IInv, Sound, ResumeAll PROVE IInv'
<1>1. /\ UNCHANGED <<clock, items, lists, ilock, lru_lock, pull, wk, bumps, mt, left>>
      /\ UNCHANGED <<cr, crawlers, crawler_count, mod, client, cbuf, dumpers, cdata>>
  BY DEF ResumeAll
<1>4. LruTypes'
  BY <1>1 DEF IInv, LruTypes
<1>5. CrawlTypes' /\ ClientReturned'
  BY <1>1, ClientKept DEF IInv, CrawlTypes
<1>6. cbuf' <= cbuf
  BY <1>1, BufferIs
<1> QED BY <1>1, <1>4, <1>5, <1>6, QuietStep

-----------------------------------------------------------------------------
(* Steps of lru_pull_tail and of the maintainer that move no item.         *)

\* What the invariant says of the thread's place, of items and of locks.
LEMMA TypesAre ==
    ASSUME LruTypes
    PROVE  /\ clock \in Nat /\ mt \in Upkeep /\ left \in Allowance
           /\ \A i \in Items : items[i] \in Header
           /\ \A l \in Lrus : lists[l] \in Seq(Items \cup {Crawler})
           /\ \A p \in Pullers : pull[p] \in Pull
           /\ \A w \in LruWorkers : wk[w] \in Work /\ bumps[w] \in Seq(Items)
<1>1. clock \in 0 .. MaxTime /\ MaxTime \in Nat /\ mt \in Upkeep /\ left \in Allowance
  BY LruAssumption DEF LruTypes
<1>2. clock \in Nat
  BY <1>1
<1>3. items \in [Items -> Header] /\ lists \in [Lrus -> Seq(Items \cup {Crawler})]
  BY DEF LruTypes
<1>4. pull \in [Pullers -> Pull] /\ wk \in [LruWorkers -> Work] /\ bumps \in [LruWorkers -> Seq(Items)]
  BY DEF LruTypes
<1>5. \A i \in Items : items[i] \in Header
  BY <1>3
<1>6. \A l \in Lrus : lists[l] \in Seq(Items \cup {Crawler})
  BY <1>3
<1>7. \A p \in Pullers : pull[p] \in Pull
  BY <1>4
<1>8. \A w \in LruWorkers : wk[w] \in Work /\ bumps[w] \in Seq(Items)
  BY <1>4
<1> QED BY <1>1, <1>2, <1>5, <1>6, <1>7, <1>8

\* The references and the lists do not notice.
LEMMA UnmovedKeeps ==
    ASSUME IInv, Sound, UNCHANGED <<items, lists, crawlers, crawler_count>>, cr'.search = cr.search,
           \A w \in LruWorkers : wk'[w].got = wk[w].got /\ Pending(w)' = Pending(w),
           \A p \in Pullers :
              /\ pull'[p].at = "settle" <=> pull[p].at = "settle"
              /\ pull[p].at = "settle" => pull'[p].search = pull[p].search /\ pull'[p].to = pull[p].to
              /\ pull'[p].at = "walk" =>
                    \/ pull'[p].search = Nobody
                    \/ pull'[p].search \in Range(lists[pull'[p].lru])
    PROVE  RefsExact' /\ ActiveIsQueued' /\ Whole'
<1>1. RefsExact' /\ ActiveIsQueued'
  BY RefsFrame DEF IInv
<1>2. Whole
  BY DEF IInv
<1>3. \A i \in Items : InTransit(i)' <=> InTransit(i)
  BY DEF InTransit, At
<1>4. \A l \in Lrus : ListOK(l)'
  BY <1>2, <1>3 DEF Whole, ListOK
<1>5. \A p \in Pullers : WalkOK(p)'
  BY DEF WalkOK, At
<1>6. CountOK'
  BY <1>2 DEF Whole, CountOK
<1> QED BY <1>1, <1>4, <1>5, <1>6 DEF Whole

\* A thread that holds an item lock, or none, is not one that carries the item.
Kept(x) == ilock[x] \in {Nobody, CrawlerThread} \/ \E w \in LruWorkers : Holds(w, x)

LEMMA Apart ==
    ASSUME IInv, NEW x \in Items, Kept(x)
    PROVE  /\ \A p \in Pullers : pull[p].at = "settle" => pull[p].search # x
           /\ ~InTransit(x) /\ Cardinality(Settling(x)) = 0
           /\ ilock[x] # CrawlerThread => cr.search # x
           /\ cr.search = x => cr.at = "dump" /\ ilock[x] = CrawlerThread
<1>1. \A p \in Pullers : PullOK(p)
  BY DEF IInv, ThreadsOK
<1>2. \A w \in LruWorkers : WorkOK(w)
  BY DEF IInv, ThreadsOK
<1>3. CrawlOK
  BY DEF IInv, ThreadsOK
<1>4. ASSUME NEW p \in Pullers, pull[p].at = "settle", pull[p].search = x PROVE FALSE
  <2>1. ilock[x] = p
    BY <1>1, <1>4 DEF PullOK, At
  <2>2. p # Nobody /\ p # CrawlerThread
    BY LruNames, CrawlerAssumption
  <2>3. PICK w \in LruWorkers : Holds(w, x)
    BY <2>1, <2>2 DEF Kept
  <2>4. wk[w].job.at = "locked" /\ wk[w].job.it = x
    BY <2>3 DEF Holds
  <2>5. ilock[x] = w
    BY <1>2, <2>4 DEF WorkOK
  <2>6. pull[w].at = "settle"
    BY <2>1, <2>5, <1>4
  <2> QED BY <1>2, <2>4, <2>6 DEF WorkOK
<1>5. ~InTransit(x)
  BY <1>4 DEF InTransit, At
<1>6. Cardinality(Settling(x)) = 0
  <2>1. Settling(x) = {}
    BY <1>4 DEF Settling, At
  <2> QED BY <2>1, FS_EmptySet
<1>7. x # Nobody
  BY LruNames
<1>8. cr.search = x => cr.at = "dump" /\ ilock[x] = CrawlerThread
  BY <1>3, <1>7 DEF CrawlOK
<1> QED BY <1>4, <1>5, <1>6, <1>8

-----------------------------------------------------------------------------
(* The end of a pass of the maintainer, and starts of the crawler.         *)

LEMMA NextWaitIs == ASSUME NEW s, NEW wait \in 0 .. MaxWait PROVE NextWait(s, wait) \in 0 .. MaxWait
<1> DEFINE low == (s.seen - s.noexp) \div 100 + 1
           Available(b) == LET S[n \in 0 .. b] == s.histo[n] + (IF n = 0 THEN 0 ELSE S[n - 1]) IN S[b]
           enough == {b \in 0 .. Hour - 1 : Available(b) > low}
           b0 == CHOOSE b \in enough : \A c \in enough : b <= c
           w1 == IF enough = {} THEN wait
                 ELSE IF wait < b0 THEN wait + 1 ELSE IF wait >= 1 THEN wait - 1 ELSE wait
           w2 == IF Available(Hour - 1) = 0 THEN w1 + 1 ELSE w1
<1>1. NextWait(s, wait) = IF w2 > MaxWait THEN MaxWait ELSE w2
  BY DEF NextWait
<1> HIDE DEF low, Available, enough, b0
<1>2. MaxWait \in Nat
  BY CrawlerAssumption
<1>3. w1 \in Nat
  OBVIOUS
<1> HIDE DEF w1
<1>4. w2 \in Nat
  BY <1>3
<1> HIDE DEF w2
<1> QED BY <1>1, <1>2, <1>4

\* The start of a crawl puts a crawler at the end of each list that has none.
LEMMA StartIs ==
    ASSUME IInv, Sound, NEW r \in Nat, do_lru_crawler_start(r),
           UNCHANGED <<items, ilock, lru_lock, pull, wk, bumps, mt, cbuf>>
    PROVE  /\ lists' \in [Lrus -> Seq(Items \cup {Crawler})]
           /\ crawlers' \in [Swept -> [on : BOOLEAN, remaining : Nat]]
           /\ cr' \in Crawl /\ crawler_count' \in 0 .. 2 * Cardinality(Swept)
           /\ ThreadsOK' /\ RefsExact' /\ ActiveIsQueued'
           /\ Sound' => Whole'
<1>1. /\ crawlers' = [l \in Swept |-> [on |-> TRUE, remaining |-> r]]
      /\ lists' = [l \in Lrus |-> IF l \in Swept THEN Append(lists[l], Crawler) ELSE lists[l]]
      /\ crawler_count' = crawler_count + Cardinality(Swept)
      /\ broken' = IF \E l \in Swept : crawlers[l].on THEN "relinked" ELSE broken
      /\ cr' = Signal
  BY DEF do_lru_crawler_start
<1>2. cr' \in Crawl /\ cr'.search = cr.search /\ cr'.at = cr.at
  BY <1>1, SignalIs
<1>3. /\ \A l \in Lrus : lists[l] \in Seq(Items \cup {Crawler})
      /\ \A l \in Swept : lists'[l] = Append(lists[l], Crawler)
      /\ \A l \in Lrus : l \notin Swept => lists'[l] = lists[l]
      /\ Swept \subseteq Lrus
  BY <1>1, TypesAre, SweptIs DEF IInv, Lrus
<1>4. lists' \in [Lrus -> Seq(Items \cup {Crawler})]
  <2>1. ASSUME NEW l \in Lrus PROVE lists'[l] \in Seq(Items \cup {Crawler})
    <3>1. PICK s \in Seq(Items \cup {Crawler}) : s = lists[l]
      BY <1>3
    <3>2. Append(s, Crawler) \in Seq(Items \cup {Crawler})
      OBVIOUS
    <3>3. lists'[l] = s \/ lists'[l] = Append(s, Crawler)
      BY <1>3, <3>1
    <3> QED BY <3>2, <3>3
  <2> QED BY <1>1, <2>1
<1>5. crawlers' \in [Swept -> [on : BOOLEAN, remaining : Nat]]
  BY <1>1
<1>6. Whole
  BY DEF IInv
<1>7. crawler_count \in 0 .. 3 /\ crawler_count' = crawler_count + 3
  BY <1>1, <1>6, CountBound, SweptIs DEF Whole
<1>8. crawler_count' \in 0 .. 2 * Cardinality(Swept)
  BY <1>7, SweptIs
<1>9. ThreadsOK'
  <2>1. \A p \in Pullers : PullOK(p)'
    BY DEF IInv, ThreadsOK, PullOK, At
  <2>2. \A w \in LruWorkers : WorkOK(w)'
    BY DEF IInv, ThreadsOK, WorkOK
  <2>3. UpkeepOK'
    BY DEF IInv, ThreadsOK, UpkeepOK
  <2>4. CrawlOK'
    BY <1>2 DEF IInv, ThreadsOK, CrawlOK
  <2> QED BY <2>1, <2>2, <2>3, <2>4 DEF ThreadsOK
<1>10. RefsExact' /\ ActiveIsQueued'
  <2>1. \A w \in LruWorkers : Pending(w)' = Pending(w)
    BY DEF Pending
  <2> QED BY <2>1, <1>2, RefsFrame DEF IInv
<1>11. ASSUME Sound' PROVE Whole'
  <2>1. \A l \in Swept : ~crawlers[l].on
    BY <1>1, <1>11 DEF Sound
  <2>2. ASSUME NEW l \in Lrus
        PROVE  /\ Once(lists'[l]) /\ (Crawler \in Range(lists'[l]) <=> l \in Swept)
               /\ \A i \in Items : i \in Range(lists'[l]) <=> i \in Range(lists[l])
    <3>1. Once(lists[l]) /\ (Crawler \in Range(lists[l]) <=> l \in Swept /\ crawlers[l].on)
      BY <1>6 DEF Whole, ListOK
    <3>2. CASE l \in Swept
      <4>1. Crawler \notin Range(lists[l]) /\ lists[l] \in Seq(Items \cup {Crawler})
        BY <3>1, <2>1, <1>3
      <4>2. /\ Once(Append(lists[l], Crawler))
            /\ Range(Append(lists[l], Crawler)) = Range(lists[l]) \cup {Crawler}
        BY <4>1, <3>1, AppendedIs
      <4> QED BY <4>2, <3>2, <1>3, LruNames
    <3>3. CASE l \notin Swept
      BY <3>1, <3>3, <1>3
    <3> QED BY <3>2, <3>3
  <2>3. \A l \in Lrus : ListOK(l)'
    <3> SUFFICES ASSUME NEW l \in Lrus PROVE ListOK(l)'
      OBVIOUS
    <3>1. \A i \in Items : InTransit(i)' <=> InTransit(i)
      BY DEF InTransit, At
    <3>2. \A i \in Items : i \in Range(lists[l]) <=> items[i].linked /\ ~InTransit(i) /\ items[i].lru = l
      BY <1>6 DEF Whole, ListOK
    <3>3. \A k \in Swept : crawlers'[k].on
      BY <1>1
    <3> QED BY <2>2, <3>1, <3>2, <3>3 DEF ListOK
  <2>4. \A p \in Pullers : WalkOK(p)'
    <3> SUFFICES ASSUME NEW p \in Pullers, pull[p].at = "walk"
                 PROVE  pull[p].search = Nobody \/ pull[p].search \in Range(lists'[pull[p].lru])
      BY DEF WalkOK, At
    <3>1. pull[p].search = Nobody \/ pull[p].search \in Range(lists[pull[p].lru])
      BY <1>6 DEF Whole, WalkOK, At
    <3>2. lru_lock[p] = pull[p].lru /\ pull[p].lru \in Lrus
      BY DEF IInv, ThreadsOK, PullOK
    <3>3. \A l \in Swept : Unlocked(l)
      BY DEF do_lru_crawler_start
    <3>4. pull[p].lru \notin Swept
      BY <3>2, <3>3 DEF Unlocked
    <3> QED BY <3>1, <3>2, <3>4, <1>3
  <2>5. CountOK'
    <3>1. {l \in Swept : crawlers[l].on} = {}
      BY <2>1
    <3>2. {l \in Swept : crawlers'[l].on} = Swept
      BY <1>1
    <3>3. crawler_count = Cardinality({l \in Swept : crawlers[l].on})
      BY <1>6 DEF Whole, CountOK
    <3>4. crawler_count = 0
      BY <3>1, <3>3, FS_EmptySet
    <3>5. crawler_count' = Cardinality(Swept)
      BY <3>4, <1>7, SweptIs
    <3> QED BY <3>2, <3>5 DEF CountOK
  <2> QED BY <2>3, <2>4, <2>5 DEF Whole
<1> QED BY <1>2, <1>4, <1>5, <1>8, <1>9, <1>10, <1>11

\* The bound and the time to crawl to.
LEMMA ToCrawlIs == ASSUME IInv PROVE left.tocrawl \in Nat /\ cdata \in [stats : Stats, wait : 0 .. MaxWait, next : Nat, last : Nat]
<1>1. left \in Allowance
  BY TypesAre DEF IInv
<1> QED BY <1>1 DEF Allowance, IInv, CrawlTypes

LEMMA CrawlCommandKeeps == ASSUME IInv, Sound, lru_crawler_crawl PROVE IInv'
<1>1. /\ Spend("crawls") /\ do_lru_crawler_start(left.tocrawl)
      /\ UNCHANGED <<clock, items, ilock, lru_lock, pull, wk, bumps, mt, cbuf, client, dumpers>>
      /\ mod' = [type |-> "expired", external |-> FALSE] /\ cdata' = cdata
  BY DEF lru_crawler_crawl, StartExpired, Configure
<1>2. left.tocrawl \in Nat
  BY ToCrawlIs
<1>3. /\ lists' \in [Lrus -> Seq(Items \cup {Crawler})]
      /\ crawlers' \in [Swept -> [on : BOOLEAN, remaining : Nat]]
      /\ cr' \in Crawl /\ crawler_count' \in 0 .. 2 * Cardinality(Swept)
      /\ ThreadsOK' /\ RefsExact' /\ ActiveIsQueued'
      /\ Sound' => Whole'
  BY <1>1, <1>2, StartIs
<1>4. left' \in Allowance
  BY <1>1, SpentIs DEF Spend, IInv
<1>5. LruTypes'
  BY <1>1, <1>3, <1>4 DEF IInv, LruTypes
<1>6. crawler_count' \in Int
  BY <1>3, SweptIs
<1>7. CrawlTypes'
  BY <1>1, <1>3, <1>6 DEF IInv, CrawlTypes
<1>8. ClientReturned'
  BY <1>1, ClientKept DEF IInv
<1> QED BY <1>3, <1>5, <1>7, <1>8 DEF IInv

\* The client of a dump is handed over.
LEMMA HandedIs ==
    ASSUME IInv, client = Nobody, NEW d \in Dumpers, client' = d,
           dumpers' = [dumpers EXCEPT ![d].handed = @ + 1]
    PROVE  /\ ClientReturned'
           /\ dumpers' \in [Dumpers -> [handed : Nat, back : Nat, closed : Nat, gone : BOOLEAN]]
<1> DEFINE Dumps == [handed : Nat, back : Nat, closed : Nat, gone : BOOLEAN]
<1>1. dumpers \in [Dumpers -> Dumps] /\ Nobody \notin Dumpers /\ ClientReturned
  BY CrawlerAssumption DEF IInv, CrawlTypes
<1>2. dumpers[d] \in Dumps
  BY <1>1
<1>3. dumpers' = [dumpers EXCEPT ![d] = [dumpers[d] EXCEPT !.handed = dumpers[d].handed + 1]]
  OBVIOUS
<1>4. [dumpers[d] EXCEPT !.handed = dumpers[d].handed + 1] \in Dumps
  BY <1>2
<1>5. dumpers' \in [Dumpers -> Dumps]
  BY <1>1, <1>3, <1>4
<1>6. ASSUME NEW e \in Dumpers
      PROVE  dumpers'[e].handed = dumpers'[e].back + dumpers'[e].closed + (IF client' = e THEN 1 ELSE 0)
  <2>1. dumpers[e].handed = dumpers[e].back + dumpers[e].closed + (IF client = e THEN 1 ELSE 0)
    BY <1>1 DEF ClientReturned
  <2>2. dumpers[e] \in Dumps /\ e # Nobody
    BY <1>1
  <2>3. CASE e = d
    BY <1>1, <1>2, <1>3, <2>1, <2>2, <2>3
  <2>4. CASE e # d
    <3>1. dumpers'[e] = dumpers[e]
      BY <1>1, <1>3, <2>4
    <3> QED BY <2>1, <2>2, <2>4, <3>1
  <2> QED BY <2>3, <2>4
<1> QED BY <1>5, <1>6 DEF ClientReturned

LEMMA MetadumpKeeps == ASSUME IInv, Sound, NEW d \in Dumpers, lru_crawler_metadump(d) PROVE IInv'
<1>1. /\ Spend("dumps")
      /\ UNCHANGED <<clock, items, ilock, lru_lock, pull, wk, bumps, mt, cbuf>>
      /\ mod' = [type |-> "metadump", external |-> FALSE] /\ cdata' = cdata
  BY DEF lru_crawler_metadump, Configure
<1>2. left' \in Allowance
  BY <1>1, SpentIs DEF Spend, IInv
<1>3. CASE client # Nobody
  <2>1. UNCHANGED <<crawlers, crawler_count, lists, cr, client, dumpers>>
    BY <1>3 DEF lru_crawler_metadump
  <2>2. LruTypes'
    BY <1>1, <1>2, <2>1 DEF IInv, LruTypes
  <2>3. CrawlTypes' /\ ClientReturned'
    BY <1>1, <2>1, ClientKept DEF IInv, CrawlTypes
  <2>4. cbuf' <= cbuf
    BY <1>1, BufferIs
  <2> QED BY <1>1, <2>1, <2>2, <2>3, <2>4, QuietStep
<1>4. CASE client = Nobody
  <2>1. /\ client' = d /\ dumpers' = [dumpers EXCEPT ![d].handed = @ + 1]
        /\ do_lru_crawler_start(left.tocrawl)
    BY <1>4 DEF lru_crawler_metadump
  <2>2. left.tocrawl \in Nat
    BY ToCrawlIs
  <2>3. /\ lists' \in [Lrus -> Seq(Items \cup {Crawler})]
        /\ crawlers' \in [Swept -> [on : BOOLEAN, remaining : Nat]]
        /\ cr' \in Crawl /\ crawler_count' \in 0 .. 2 * Cardinality(Swept)
        /\ ThreadsOK' /\ RefsExact' /\ ActiveIsQueued'
        /\ Sound' => Whole'
    BY <1>1, <2>1, <2>2, StartIs
  <2>4. /\ ClientReturned'
        /\ dumpers' \in [Dumpers -> [handed : Nat, back : Nat, closed : Nat, gone : BOOLEAN]]
    BY <1>4, <2>1, HandedIs
  <2>5. LruTypes'
    BY <1>1, <1>2, <2>3 DEF IInv, LruTypes
  <2>6. crawler_count' \in Int
    BY <2>3, SweptIs
  <2>7. CrawlTypes'
    BY <1>1, <2>1, <2>3, <2>4, <2>6 DEF IInv, CrawlTypes
  <2> QED BY <2>3, <2>4, <2>5, <2>7 DEF IInv
<1> QED BY <1>3, <1>4

LEMMA StatsIs == NoStats \in Stats
<1>1. 0 \in Nat
  OBVIOUS
<1> QED BY <1>1 DEF NoStats, Stats

LEMMA CrawlerCheckKeeps == ASSUME IInv, Sound, lru_maintainer_crawler_check PROVE IInv'
<1> DEFINE wait == IF cdata.stats.complete THEN NextWait(cdata.stats, cdata.wait) ELSE cdata.wait
           next == IF cdata.stats.complete THEN clock + wait ELSE cdata.next
           checked == [cdata EXCEPT !.stats.complete = FALSE, !.wait = wait, !.next = next, !.last = clock]
           CData == [stats : Stats, wait : 0 .. MaxWait, next : Nat, last : Nat]
<1>1. cdata \in CData /\ left.tocrawl \in Nat /\ clock \in Nat
  BY ToCrawlIs, TypesAre DEF IInv
<1>2. wait \in 0 .. MaxWait
  BY <1>1, NextWaitIs
<1>3. wait \in Nat
  BY <1>2
<1>4. next \in Nat
  BY <1>1, <1>3
<1>a. \/ /\ StartExpired(TRUE, [checked EXCEPT !.next = clock, !.stats = NoStats])
         /\ UNCHANGED lruButLists
      \/ /\ cdata' = [checked EXCEPT !.next = IF clock > next THEN clock ELSE next]
         /\ UNCHANGED <<lruVars, crawlers, crawler_count, cr, mod, client, cbuf, dumpers>>
  BY DEF lru_maintainer_crawler_check
<1> HIDE DEF wait, next
<1>5. [cdata.stats EXCEPT !.complete = FALSE] \in Stats /\ cdata.stats \in Stats
  BY <1>1 DEF Stats
<1>6. checked = [cdata EXCEPT !.stats = [cdata.stats EXCEPT !.complete = FALSE], !.wait = wait,
                              !.next = next, !.last = clock]
  BY <1>1
<1>7. checked \in CData
  BY <1>1, <1>2, <1>4, <1>5, <1>6
<1> HIDE DEF checked
<1>8. CASE /\ StartExpired(TRUE, [checked EXCEPT !.next = clock, !.stats = NoStats])
           /\ UNCHANGED lruButLists
  <2>1. /\ do_lru_crawler_start(left.tocrawl) /\ left' = left
        /\ UNCHANGED <<clock, items, ilock, lru_lock, pull, wk, bumps, mt, cbuf, client, dumpers>>
        /\ mod' = [type |-> "expired", external |-> TRUE]
        /\ cdata' = [checked EXCEPT !.next = clock, !.stats = NoStats]
    BY <1>8 DEF StartExpired, Configure, lruButLists
  <2>2. cdata' \in CData
    BY <1>1, <1>7, <2>1, StatsIs
  <2>3. /\ lists' \in [Lrus -> Seq(Items \cup {Crawler})]
        /\ crawlers' \in [Swept -> [on : BOOLEAN, remaining : Nat]]
        /\ cr' \in Crawl /\ crawler_count' \in 0 .. 2 * Cardinality(Swept)
        /\ ThreadsOK' /\ RefsExact' /\ ActiveIsQueued'
        /\ Sound' => Whole'
    BY <1>1, <2>1, StartIs
  <2>5. LruTypes'
    BY <2>1, <2>3 DEF IInv, LruTypes
  <2>6. crawler_count' \in Int
    BY <2>3, SweptIs
  <2>7. CrawlTypes'
    BY <2>1, <2>2, <2>3, <2>6 DEF IInv, CrawlTypes
  <2>8. ClientReturned'
    BY <2>1, ClientKept DEF IInv
  <2> QED BY <2>3, <2>5, <2>7, <2>8 DEF IInv
<1>9. CASE /\ cdata' = [checked EXCEPT !.next = IF clock > next THEN clock ELSE next]
           /\ UNCHANGED <<lruVars, crawlers, crawler_count, cr, mod, client, cbuf, dumpers>>
  <2>1. (IF clock > next THEN clock ELSE next) \in Nat
    BY <1>1, <1>4
  <2>2. cdata' \in CData
    BY <1>7, <1>9, <2>1
  <2>3. LruTypes'
    BY <1>9, LruTypesKept DEF IInv
  <2>4. CrawlTypes' /\ ClientReturned'
    BY <1>9, <2>2, ClientKept DEF IInv, CrawlTypes
  <2>5. cbuf' <= cbuf
    BY <1>9, BufferIs
  <2> QED BY <1>9, <2>3, <2>4, <2>5, QuietStep DEF lruVars
<1> QED BY <1>a, <1>8, <1>9

-----------------------------------------------------------------------------
(* The maintainer between its calls of lru_pull_tail.                      *)

LEMMA UpkeepStep ==
    ASSUME IInv, Sound, UNCHANGED <<clock, items, lists, ilock, lru_lock, pull, wk, left>>, UNCHANGED crawlVars,
           mt' \in Upkeep, UpkeepOK', bumps' \in [LruWorkers -> Seq(Items)],
           \A w \in LruWorkers : Len(bumps'[w]) <= BumpSize /\ Pending(w)' = Pending(w)
    PROVE  IInv'
<1>1. LruTypes'
  BY DEF IInv, LruTypes
<1>2. CrawlTypes'
  BY CrawlTypesKept DEF IInv
<1>3. ClientReturned'
  BY ClientKept DEF IInv, crawlVars
<1>4. cr' = cr /\ cbuf' = cbuf /\ UNCHANGED <<crawlers, crawler_count>>
  BY DEF crawlVars
<1>5. ThreadsOK'
  <2>1. \A p \in Pullers : PullOK(p)'
    BY DEF IInv, ThreadsOK, PullOK, At
  <2>2. \A w \in LruWorkers : WorkOK(w)'
    BY DEF IInv, ThreadsOK, WorkOK
  <2>3. CrawlOK'
    BY <1>4 DEF IInv, ThreadsOK, CrawlOK
  <2> QED BY <2>1, <2>2, <2>3 DEF ThreadsOK
<1>6. Whole
  BY DEF IInv
<1>7. \A p \in Pullers :
         pull'[p].at = "walk" => pull'[p].search = Nobody \/ pull'[p].search \in Range(lists[pull'[p].lru])
  BY <1>6 DEF Whole, WalkOK, At
<1>8. RefsExact' /\ ActiveIsQueued' /\ Whole'
  BY <1>4, <1>7, UnmovedKeeps
<1> QED BY <1>1, <1>2, <1>3, <1>5, <1>8, Together

\* The maintainer has not begun to empty another buffer.
LEMMA UpkeepOnly ==
    ASSUME IInv, Sound, UNCHANGED <<clock, items, lists, ilock, lru_lock, pull, wk, bumps, left>>, UNCHANGED crawlVars,
           mt' \in Upkeep, mt'.cur = mt.cur, mt.at # "bump", mt'.at # "bump",
           pull[Maintainer].at # "" => mt'.at \in Lrus
    PROVE  IInv'
<1>1. mt.cur = Nobody
  BY DEF IInv, ThreadsOK, UpkeepOK
<1>2. UpkeepOK'
  BY <1>1 DEF UpkeepOK
<1>3. \A w \in LruWorkers : w # Nobody
  BY LruNames DEF Pullers
<1>4. \A w \in LruWorkers : Pending(w)' = Pending(w)
  BY <1>1, <1>3 DEF Pending
<1>5. bumps' \in [LruWorkers -> Seq(Items)]
  BY DEF IInv, LruTypes
<1>6. \A w \in LruWorkers : Len(bumps'[w]) <= BumpSize
  BY DEF IInv, ThreadsOK, WorkOK
<1> QED BY <1>2, <1>4, <1>5, <1>6, UpkeepStep

\* The maintainer pulls only from a list it is at.
LEMMA UpkeepIs ==
    ASSUME IInv
    PROVE  mt \in Upkeep /\ MaxSleep \in Nat \ {0} /\ JuggleLoops \in Nat \ {0}
           /\ (mt.at \notin Lrus => pull[Maintainer].at = "")
BY LruAssumption, TypesAre DEF IInv, ThreadsOK, UpkeepOK

LEMMA SleepIs ==
    ASSUME NEW a \in Nat, NEW s \in 0 .. MaxSleep
    PROVE  /\ (IF a > s THEN a - s ELSE 0) \in Nat /\ (IF a > 1 THEN a - 1 ELSE 0) \in Nat
           /\ (IF a < MaxSleep THEN a ELSE MaxSleep) \in 0 .. MaxSleep
           /\ 1 \in 0 .. MaxSleep /\ s \in Nat
<1>1. MaxSleep \in Nat \ {0}
  BY LruAssumption
<1> QED BY <1>1

LEMMA WakeKeeps == ASSUME IInv, Sound, Wake, UNCHANGED crawlVars PROVE IInv'
<1> DEFINE last == IF mt.sleep > 1 THEN mt.sleep ELSE 1
           next == IF mt.next > last THEN mt.next - last ELSE 0
           sleep == IF next < MaxSleep THEN next ELSE MaxSleep
           at == IF next > 0 THEN "bumps" ELSE IF left.temp_lru THEN "TEMP" ELSE "age"
<1>1. /\ mt.at = "sleep" /\ UNCHANGED <<clock, items, lists, ilock, lru_lock, pull, wk, bumps, left>>
      /\ mt' = [mt EXCEPT !.next = next, !.sleep = sleep, !.at = at, !.bufs = LruWorkers, !.bumped = FALSE]
  BY DEF Wake
<1>2. mt \in Upkeep /\ MaxSleep \in Nat \ {0} /\ pull[Maintainer].at = ""
  BY <1>1, UpkeepIs DEF Lrus
<1>3. mt.next \in Nat /\ mt.sleep \in 0 .. MaxSleep
  BY <1>2 DEF Upkeep
<1>4. next \in Nat
  <2>1. last = mt.sleep \/ last = 1
    OBVIOUS
  <2> QED BY <1>3, <2>1, SleepIs
<1>5. sleep \in 0 .. MaxSleep
  BY <1>3, <1>4, SleepIs
<1>6. at \in {"bumps", "TEMP", "age"}
  OBVIOUS
<1> HIDE DEF next, sleep, at
<1>7. mt' \in Upkeep /\ mt'.cur = mt.cur /\ mt'.at # "bump"
  BY <1>1, <1>2, <1>4, <1>5, <1>6 DEF Upkeep, Lrus
<1> QED BY <1>1, <1>2, <1>7, UpkeepOnly

LEMMA ColdAgeKeeps == ASSUME IInv, Sound, ColdAge, UNCHANGED crawlVars PROVE IInv'
<1> DEFINE t == TailOf("COLD")
           age == IF t = Nobody THEN 0 ELSE IF t = Crawler THEN clock ELSE clock - items[t].time
<1>1. /\ mt.at = "age" /\ UNCHANGED <<clock, items, lists, ilock, lru_lock, pull, wk, bumps, left>>
      /\ mt' = [mt EXCEPT !.at = "HOT", !.cold_age = age]
  BY DEF ColdAge
<1>2. mt \in Upkeep /\ pull[Maintainer].at = ""
  BY <1>1, UpkeepIs DEF Lrus
<1>3. age \in Int
  <2>1. lists["COLD"] \in Seq(Items \cup {Crawler}) /\ clock \in Nat
    BY TypesAre DEF IInv, Lrus
  <2>2. t = Nobody \/ t \in Items \cup {Crawler}
    BY <2>1 DEF TailOf, Last
  <2>3. \A i \in Items : items[i] \in Header
    BY TypesAre DEF IInv
  <2>4. \A i \in Items : items[i].time \in Nat
    BY <2>3 DEF Header
  <2> HIDE DEF t
  <2> QED BY <2>1, <2>2, <2>4
<1> HIDE DEF age
<1>7. mt' \in Upkeep /\ mt'.cur = mt.cur /\ mt'.at # "bump"
  BY <1>1, <1>2, <1>3 DEF Upkeep, Lrus
<1> QED BY <1>1, <1>2, <1>7, UpkeepOnly

LEMMA RestsKeeps == ASSUME IInv, Sound, MaintainerRests PROVE IInv'
<1>1. /\ mt.at = "bumps" /\ UNCHANGED <<clock, items, lists, ilock, lru_lock, pull, wk, bumps, left>>
      /\ mt' = [mt EXCEPT !.at = "sleep", !.bumped = FALSE, !.sleep = IF mt.bumped /\ mt.sleep > 1 THEN 1 ELSE mt.sleep]
      /\ UNCHANGED crawlVars
  BY DEF MaintainerRests, Rest
<1>2. mt \in Upkeep /\ MaxSleep \in Nat \ {0} /\ pull[Maintainer].at = ""
  BY <1>1, UpkeepIs DEF Lrus
<1>3. mt.sleep \in 0 .. MaxSleep
  BY <1>2 DEF Upkeep
<1>4. (IF mt.bumped /\ mt.sleep > 1 THEN 1 ELSE mt.sleep) \in 0 .. MaxSleep
  <2>1. 1 \in 0 .. MaxSleep
    BY <1>3, SleepIs
  <2> QED BY <1>3, <2>1
<1>7. mt' \in Upkeep /\ mt'.cur = mt.cur /\ mt'.at # "bump"
  BY <1>1, <1>2, <1>4 DEF Upkeep, Lrus
<1> QED BY <1>1, <1>2, <1>7, UpkeepOnly

\* A bump buffer in two parts.
LEMMA PartsIs ==
    ASSUME NEW s \in Seq(Items), NEW n \in 0 .. Len(s)
    PROVE  /\ SubSeq(s, 1, n) \in Seq(Items) /\ SubSeq(s, n + 1, Len(s)) \in Seq(Items)
           /\ SubSeq(s, 1, n) \o SubSeq(s, n + 1, Len(s)) = s
           /\ Len(SubSeq(s, n + 1, Len(s))) <= Len(s)
           /\ <<>> \o SubSeq(s, n + 1, Len(s)) = SubSeq(s, n + 1, Len(s))
<1>1. Len(s) \in Nat
  OBVIOUS
<1>2. 1 \in 1 .. Len(s) + 1 /\ n \in 1 - 1 .. Len(s) /\ Len(s) \in n .. Len(s)
  BY <1>1
<1>3. SubSeq(s, 1, n) \o SubSeq(s, n + 1, Len(s)) = SubSeq(s, 1, Len(s))
  BY <1>2, ConcatAdjacentSubSeq
<1>4. SubSeq(s, 1, Len(s)) = s
  OBVIOUS
<1>5. SubSeq(s, 1, n) \in Seq(Items)
  OBVIOUS
<1>6. SubSeq(s, n + 1, Len(s)) \in Seq(Items) /\ Len(SubSeq(s, n + 1, Len(s))) = Len(s) - n
  OBVIOUS
<1>7. Len(s) - n <= Len(s)
  BY <1>1
<1> QED BY <1>3, <1>4, <1>5, <1>6, <1>7, ConcatEmptySeq

LEMMA BumpPeekKeeps == ASSUME IInv, Sound, NEW w \in LruWorkers, BumpPeek(w), UNCHANGED crawlVars PROVE IInv'
<1>1. mt.at = "bumps" /\ UNCHANGED <<clock, items, lists, ilock, lru_lock, pull, wk, bumps, left>>
  BY DEF BumpPeek
<1>2. mt \in Upkeep /\ pull[Maintainer].at = "" /\ bumps[w] \in Seq(Items) /\ mt.cur = Nobody
  BY <1>1, UpkeepIs, TypesAre DEF IInv, ThreadsOK, UpkeepOK, Lrus
<1>a. mt.bufs \ {w} \in SUBSET LruWorkers
  BY <1>2 DEF Upkeep
<1>c. bumps[w] \in Seq(Items)
  BY <1>2
<1>b. Len(bumps[w]) \in Nat
  BY <1>c
<1>3. CASE bumps[w] = <<>>
  <2>1. mt' = [mt EXCEPT !.bufs = mt.bufs \ {w}]
    BY <1>3 DEF BumpPeek
  <2>2. mt' \in Upkeep /\ mt'.cur = mt.cur /\ mt'.at # "bump"
    BY <1>1, <1>2, <1>a, <2>1 DEF Upkeep
  <2> QED BY <1>1, <1>2, <2>2, UpkeepOnly
<1>4. CASE bumps[w] # <<>>
  <2>1. PICK n \in 1 .. Len(bumps[w]) :
          mt' = [mt EXCEPT !.at = "bump", !.bufs = mt.bufs \ {w}, !.cur = w, !.size = n,
                           !.todo = SubSeq(bumps[w], 1, n), !.bumped = TRUE]
    BY <1>4 DEF BumpPeek
  <2>2. n \in Nat /\ n \in 0 .. Len(bumps[w]) /\ n <= Len(bumps[w])
    BY <1>b
  <2>3. SubSeq(bumps[w], 1, n) \in Seq(Items)
    BY <1>2, <2>2, PartsIs
  <2>4. mt' \in Upkeep
    BY <1>2, <1>a, <2>1, <2>2, <2>3 DEF Upkeep
  <2>5. mt'.at = "bump" /\ mt'.cur = w /\ mt'.size = n /\ mt'.todo = SubSeq(bumps[w], 1, n)
    BY <1>2, <2>1 DEF Upkeep
  <2>6. UpkeepOK'
    BY <1>1, <1>2, <2>2, <2>5 DEF UpkeepOK
  <2>7. ASSUME NEW v \in LruWorkers PROVE Pending(v)' = Pending(v)
    <3>0. v # Nobody
      BY LruNames DEF Pullers
    <3>1. Pending(v) = bumps[v]
      BY <1>2, <3>0 DEF Pending
    <3>2. CASE v = w
      <4>1. Pending(v)' = SubSeq(bumps[w], 1, n) \o SubSeq(bumps[w], n + 1, Len(bumps[w]))
        BY <1>1, <2>5, <3>2 DEF Pending
      <4> QED BY <4>1, <3>1, <3>2, <1>2, <2>2, PartsIs
    <3>3. CASE v # w
      BY <1>1, <2>5, <3>1, <3>3 DEF Pending
    <3> QED BY <3>2, <3>3
  <2>8. bumps' \in [LruWorkers -> Seq(Items)]
    BY <1>1 DEF IInv, LruTypes
  <2>9. \A v \in LruWorkers : Len(bumps'[v]) <= BumpSize
    BY <1>1 DEF IInv, ThreadsOK, WorkOK
  <2> QED BY <1>1, <2>4, <2>6, <2>7, <2>8, <2>9, UpkeepStep
<1> QED BY <1>3, <1>4

LEMMA BumpPollKeeps == ASSUME IInv, Sound, BumpPoll, UNCHANGED crawlVars PROVE IInv'
<1>1. /\ mt.at = "bump" /\ mt.todo = <<>> /\ UNCHANGED <<clock, items, lists, ilock, lru_lock, pull, wk, left>>
      /\ bumps' = [bumps EXCEPT ![mt.cur] = SubSeq(bumps[mt.cur], mt.size + 1, Len(bumps[mt.cur]))]
      /\ mt' = [mt EXCEPT !.at = "bumps", !.cur = Nobody, !.size = 0]
  BY DEF BumpPoll
<1>2. mt \in Upkeep /\ pull[Maintainer].at = ""
  BY <1>1, UpkeepIs DEF Lrus
<1>3. mt.cur \in LruWorkers /\ mt.size <= Len(bumps[mt.cur])
  BY <1>1 DEF IInv, ThreadsOK, UpkeepOK
<1>4. PICK w \in LruWorkers : w = mt.cur
  BY <1>3
<1>5. PICK n \in Nat : n = mt.size
  BY <1>2 DEF Upkeep
<1>6. bumps \in [LruWorkers -> Seq(Items)] /\ bumps[w] \in Seq(Items)
  BY DEF IInv, LruTypes
<1>7. n \in 0 .. Len(bumps[w])
  BY <1>3, <1>4, <1>5, <1>6
<1> DEFINE rest == SubSeq(bumps[w], n + 1, Len(bumps[w]))
<1>8. rest \in Seq(Items) /\ Len(rest) <= Len(bumps[w]) /\ <<>> \o rest = rest
  BY <1>6, <1>7, PartsIs
<1>9. bumps' = [bumps EXCEPT ![w] = rest]
  BY <1>1, <1>4, <1>5
<1>10. /\ bumps' \in [LruWorkers -> Seq(Items)] /\ bumps'[w] = rest
       /\ \A v \in LruWorkers : v # w => bumps'[v] = bumps[v]
  BY <1>6, <1>8, <1>9
<1>11. Pending(w) = rest
  BY <1>1, <1>4, <1>5, <1>8 DEF Pending
<1> HIDE DEF rest
<1>12. mt' \in Upkeep /\ mt'.cur = Nobody /\ mt'.at = "bumps"
  <2>1. 0 \in Nat
    OBVIOUS
  <2> QED BY <1>1, <1>2, <2>1 DEF Upkeep
<1>13. UpkeepOK'
  BY <1>1, <1>2, <1>12 DEF UpkeepOK
<1>14. ASSUME NEW v \in LruWorkers PROVE Len(bumps'[v]) <= BumpSize /\ Pending(v)' = Pending(v)
  <2>a. bumps[v] \in Seq(Items) /\ BumpSize \in Nat
    BY <1>6, LruAssumption
  <2>b. Len(bumps[v]) <= BumpSize
    BY DEF IInv, ThreadsOK, WorkOK
  <2>1. Len(bumps[v]) <= BumpSize /\ Len(bumps[v]) \in Nat /\ BumpSize \in Nat
    BY <2>a, <2>b
  <2>2. v # Nobody
    BY LruNames DEF Pullers
  <2>3. Pending(v)' = bumps'[v]
    BY <1>12, <2>2 DEF Pending
  <2>4. CASE v = w
    <3>1. Len(rest) \in Nat
      BY <1>8
    <3> QED BY <3>1, <1>8, <1>10, <1>11, <2>1, <2>3, <2>4
  <2>5. CASE v # w
    <3>1. Pending(v) = bumps[v]
      BY <1>4, <2>5 DEF Pending
    <3> QED BY <3>1, <1>10, <2>1, <2>3, <2>5
  <2> QED BY <2>4, <2>5
<1> QED BY <1>1, <1>10, <1>12, <1>13, <1>14, UpkeepStep

-----------------------------------------------------------------------------
(* Steps of workers and of lru_pull_tail that change no item.              *)

LEMMA UnmovedStep ==
    ASSUME IInv, Sound, UNCHANGED <<items, lists, bumps>>, UNCHANGED crawlVars, LruTypes',
           \A p \in Pullers : PullOK(p)', \A w \in LruWorkers : WorkOK(w)', UpkeepOK', CrawlOK',
           mt'.cur = mt.cur, mt'.size = mt.size, mt'.todo = mt.todo,
           \A w \in LruWorkers : wk'[w].got = wk[w].got,
           \A p \in Pullers :
              /\ pull'[p].at = "settle" <=> pull[p].at = "settle"
              /\ pull[p].at = "settle" => pull'[p].search = pull[p].search /\ pull'[p].to = pull[p].to
              /\ pull'[p].at = "walk" =>
                    \/ pull'[p].search = Nobody
                    \/ pull'[p].search \in Range(lists[pull'[p].lru])
    PROVE  IInv'
<1>1. ThreadsOK'
  BY DEF ThreadsOK
<1>2. CrawlTypes'
  BY CrawlTypesKept DEF IInv
<1>3. ClientReturned'
  BY ClientKept DEF IInv, crawlVars
<1>4. cr' = cr /\ UNCHANGED <<crawlers, crawler_count>>
  BY DEF crawlVars
<1>5. \A w \in LruWorkers : Pending(w)' = Pending(w)
  BY DEF Pending
<1>6. RefsExact' /\ ActiveIsQueued' /\ Whole'
  BY <1>4, <1>5, UnmovedKeeps
<1> QED BY <1>1, <1>2, <1>3, <1>6, Together

\* Who walks has not left its list.
LEMMA WalksAre ==
    ASSUME IInv, Sound, NEW p \in Pullers
    PROVE  /\ PullOK(p)
           /\ pull[p].at = "walk" => pull[p].search = Nobody \/ pull[p].search \in Range(lists[pull[p].lru])
BY DEF IInv, ThreadsOK, Whole, WalkOK, At

\* What a worker does.
LEMMA WorksAre ==
    ASSUME IInv, NEW w \in LruWorkers
    PROVE  /\ wk[w].job.at = "locked" => wk[w].job.it \in Items /\ ilock[wk[w].job.it] = w
           /\ pull[w].at # "" => wk[w].job.at \in {"COLD", "HOT"}
           /\ Len(bumps[w]) <= BumpSize
BY DEF IInv, ThreadsOK, WorkOK

LEMMA RestingIs ==
    ASSUME IInv, NEW w \in LruWorkers, wk[w].job = Resting
    PROVE  pull[w].at = ""
<1>1. wk[w].job.at = "idle"
  BY DEF Resting
<1> QED BY <1>1, WorksAre

LEMMA ItemLockKeeps ==
    ASSUME IInv, Sound, NEW w \in LruWorkers, NEW i \in Items, item_lock(w, i), UNCHANGED crawlVars
    PROVE  IInv'
<1>1. /\ wk[w].job = Resting /\ ilock[i] = Nobody /\ ilock' = [ilock EXCEPT ![i] = w]
      /\ wk' = [wk EXCEPT ![w].job = [at |-> "locked", it |-> i]] /\ left.ops > 0
      /\ left' = [left EXCEPT !.ops = @ - 1]
      /\ UNCHANGED <<clock, items, lists, lru_lock, pull, bumps, mt>>
  BY DEF item_lock
<1>2. /\ wk \in [LruWorkers -> Work] /\ ilock \in [Items -> Pullers \cup {CrawlerThread, Nobody}]
      /\ wk[w] \in Work /\ w \in Pullers
  BY DEF IInv, LruTypes, Pullers
<1>3. [wk[w] EXCEPT !.job = [at |-> "locked", it |-> i]] \in Work
  BY <1>2 DEF Work
<1>4. wk' = [wk EXCEPT ![w] = [wk[w] EXCEPT !.job = [at |-> "locked", it |-> i]]]
  BY <1>1
<1>5. wk' \in [LruWorkers -> Work] /\ ilock' \in [Items -> Pullers \cup {CrawlerThread, Nobody}]
  BY <1>1, <1>2, <1>3, <1>4
<1>6. left' \in Allowance
  BY <1>1, SpentIs DEF IInv
<1>7. LruTypes'
  BY <1>1, <1>5, <1>6 DEF IInv, LruTypes
<1>8. /\ wk'[w].job = [at |-> "locked", it |-> i] /\ wk'[w].got = wk[w].got
      /\ \A v \in LruWorkers : v # w => wk'[v] = wk[v]
      /\ ilock'[i] = w /\ \A j \in Items : j # i => ilock'[j] = ilock[j]
  BY <1>1, <1>2, <1>4 DEF Work
<1>9. \A p \in Pullers : pull[p].at = "settle" => pull[p].search # i
  BY <1>1, Apart DEF Kept
<1>10. \A p \in Pullers : PullOK(p)'
  <2> SUFFICES ASSUME NEW p \in Pullers PROVE PullOK(p)'
    OBVIOUS
  <2>1. PullOK(p)
    BY WalksAre
  <2>2. pull[p].at = "settle" => ilock'[pull[p].search] = ilock[pull[p].search]
    BY <2>1, <1>8, <1>9 DEF PullOK, At
  <2> QED BY <2>1, <2>2, <1>1 DEF PullOK, At
<1>11. \A v \in LruWorkers : WorkOK(v)'
  <2> SUFFICES ASSUME NEW v \in LruWorkers PROVE WorkOK(v)'
    OBVIOUS
  <2>1. WorkOK(v) /\ v # Nobody
    BY LruNames DEF IInv, ThreadsOK, Pullers
  <2>2. CASE v = w
    <3>1. pull[w].at = ""
      BY <1>1, RestingIs
    <3>2. wk'[w].job.at = "locked" /\ wk'[w].job.it = i
      BY <1>8
    <3>3. pull'[w].at = "" /\ Len(bumps'[w]) <= BumpSize
      BY <3>1, <1>1, WorksAre
    <3> QED BY <2>2, <3>2, <3>3, <1>8 DEF WorkOK
  <2>3. CASE v # w
    <3>1. wk[v].job.at = "locked" => wk[v].job.it # i
      BY <2>1, <1>1 DEF WorkOK
    <3> QED BY <2>1, <2>3, <3>1, <1>1, <1>8 DEF WorkOK
  <2> QED BY <2>2, <2>3
<1>12. UpkeepOK'
  BY <1>1 DEF IInv, ThreadsOK, UpkeepOK
<1>13. CrawlOK'
  <2>1. CrawlOK /\ cr' = cr /\ cbuf' = cbuf /\ Nobody # CrawlerThread
    BY CrawlerAssumption DEF IInv, ThreadsOK, crawlVars
  <2>2. cr.at = "dump" => cr.search # i
    BY <2>1, <1>1 DEF CrawlOK
  <2> QED BY <2>1, <2>2, <1>8 DEF CrawlOK
<1>14. \A v \in LruWorkers : wk'[v].got = wk[v].got
  BY <1>8
<1>15. \A p \in Pullers :
         pull'[p].at = "walk" => pull'[p].search = Nobody \/ pull'[p].search \in Range(lists[pull'[p].lru])
  BY <1>1, WalksAre
<1> QED BY <1>1, <1>7, <1>10, <1>11, <1>12, <1>13, <1>14, <1>15, UnmovedStep

LEMMA AllocKeeps ==
    ASSUME IInv, Sound, NEW w \in LruWorkers, do_item_alloc_pull(w), UNCHANGED crawlVars
    PROVE  IInv'
<1>1. /\ wk[w].job = Resting /\ left.ops > 0
      /\ wk' = [wk EXCEPT ![w].job = [at |-> "COLD", it |-> Nobody]]
      /\ left' = [left EXCEPT !.ops = @ - 1]
      /\ UNCHANGED <<clock, items, lists, ilock, lru_lock, pull, bumps, mt>>
  BY DEF do_item_alloc_pull
<1>2. wk \in [LruWorkers -> Work] /\ wk[w] \in Work
  BY DEF IInv, LruTypes
<1>3. [wk[w] EXCEPT !.job = [at |-> "COLD", it |-> Nobody]] \in Work
  BY <1>2 DEF Work
<1>4. wk' = [wk EXCEPT ![w] = [wk[w] EXCEPT !.job = [at |-> "COLD", it |-> Nobody]]]
  BY <1>1
<1>5. wk' \in [LruWorkers -> Work]
  BY <1>2, <1>3, <1>4
<1>6. left' \in Allowance
  BY <1>1, SpentIs DEF IInv
<1>7. LruTypes'
  BY <1>1, <1>5, <1>6 DEF IInv, LruTypes
<1>8. /\ wk'[w].job = [at |-> "COLD", it |-> Nobody] /\ wk'[w].got = wk[w].got
      /\ \A v \in LruWorkers : v # w => wk'[v] = wk[v]
  BY <1>2, <1>4 DEF Work
<1>10. \A p \in Pullers : PullOK(p)'
  BY <1>1 DEF IInv, ThreadsOK, PullOK, At
<1>11. \A v \in LruWorkers : WorkOK(v)'
  <2> SUFFICES ASSUME NEW v \in LruWorkers PROVE WorkOK(v)'
    OBVIOUS
  <2>1. WorkOK(v)
    BY DEF IInv, ThreadsOK
  <2>2. CASE v = w
    <3>1. wk'[w].job.at = "COLD"
      BY <1>8
    <3>2. Len(bumps'[w]) <= BumpSize
      BY <1>1, WorksAre
    <3> QED BY <2>2, <3>1, <3>2 DEF WorkOK
  <2>3. CASE v # w
    <3>1. wk'[v] = wk[v] /\ UNCHANGED <<pull, ilock, bumps>>
      BY <1>1, <1>8, <2>3
    <3> QED BY <2>1, <3>1 DEF WorkOK
  <2> QED BY <2>2, <2>3
<1>12. UpkeepOK'
  BY <1>1 DEF IInv, ThreadsOK, UpkeepOK
<1>13. CrawlOK'
  BY <1>1 DEF IInv, ThreadsOK, CrawlOK, crawlVars
<1>14. \A v \in LruWorkers : wk'[v].got = wk[v].got
  BY <1>8
<1>15. \A p \in Pullers :
         pull'[p].at = "walk" => pull'[p].search = Nobody \/ pull'[p].search \in Range(lists[pull'[p].lru])
  BY <1>1, WalksAre
<1> QED BY <1>1, <1>7, <1>10, <1>11, <1>12, <1>13, <1>14, <1>15, UnmovedStep

LEMMA NoPullIs == NoPull \in Pull /\ NoPull.at = "" /\ NoPull.search = Nobody
<1>1. 0 \in Nat /\ 0 \in Int
  OBVIOUS
<1> QED BY <1>1 DEF NoPull, Pull

LEMMA TailIs ==
    ASSUME LruTypes, NEW l \in Lrus
    PROVE  TailOf(l) = Nobody \/ (TailOf(l) \in Range(lists[l]) /\ TailOf(l) \in Items \cup {Crawler})
<1>1. lists[l] \in Seq(Items \cup {Crawler})
  BY TypesAre
<1>2. CASE lists[l] = <<>>
  BY <1>2 DEF TailOf
<1>3. CASE lists[l] # <<>>
  <2>1. Len(lists[l]) \in 1 .. Len(lists[l])
    BY <1>1, <1>3
  <2>2. TailOf(l) = lists[l][Len(lists[l])]
    BY <1>3 DEF TailOf, Last
  <2> QED BY <1>1, <2>1, <2>2, RangeIs
<1> QED BY <1>2, <1>3

\* lru_pull_tail begins: nobody else walks in the list.
LEMMA PullBeginKeeps ==
    ASSUME IInv, Sound, NEW p \in Pullers, NEW l \in Lrus, NEW age \in Int, PullBegin(p, l, age),
           UNCHANGED <<clock, items, lists, ilock, wk, bumps, mt, left>>, UNCHANGED crawlVars,
           p = Maintainer => mt.at \in Lrus,
           p \in LruWorkers => wk[p].job.at \in {"COLD", "HOT"}
    PROVE  IInv'
<1> DEFINE new == [NoPull EXCEPT !.at = "walk", !.lru = l, !.search = TailOf(l), !.tries = Tries, !.age = age]
<1>1. /\ pull[p] = NoPull /\ Unlocked(l)
      /\ lru_lock' = [lru_lock EXCEPT ![p] = l] /\ pull' = [pull EXCEPT ![p] = new]
  BY DEF PullBegin
<1>2. LruTypes /\ Tries \in Nat
  BY LruAssumption DEF IInv
<1>3. TailOf(l) = Nobody \/ (TailOf(l) \in Range(lists[l]) /\ TailOf(l) \in Items \cup {Crawler})
  BY <1>2, TailIs
<1>4. new \in Pull /\ new.at = "walk" /\ new.lru = l /\ new.search = TailOf(l)
  BY <1>2, <1>3, NoPullIs DEF Pull
<1> HIDE DEF new
<1>5. pull \in [Pullers -> Pull] /\ lru_lock \in [Pullers -> Lrus \cup {""}]
  BY <1>2 DEF LruTypes
<1>6. pull' \in [Pullers -> Pull] /\ lru_lock' \in [Pullers -> Lrus \cup {""}]
  BY <1>1, <1>4, <1>5
<1>7. LruTypes'
  BY <1>2, <1>6 DEF LruTypes
<1>8. /\ pull'[p] = new /\ lru_lock'[p] = l
      /\ \A q \in Pullers : q # p => pull'[q] = pull[q] /\ lru_lock'[q] = lru_lock[q]
  BY <1>1, <1>5
<1>9. \A q \in Pullers : PullOK(q)
  BY DEF IInv, ThreadsOK
<1>10. \A q \in Pullers : pull[q].at = "walk" => pull[q].lru # l
  <2> SUFFICES ASSUME NEW q \in Pullers, pull[q].at = "walk" PROVE pull[q].lru # l
    OBVIOUS
  <2>1. lru_lock[q] = pull[q].lru
    BY <1>9 DEF PullOK
  <2> QED BY <2>1, <1>1 DEF Unlocked
<1>11. \A q \in Pullers : PullOK(q)'
  <2> SUFFICES ASSUME NEW q \in Pullers PROVE PullOK(q)'
    OBVIOUS
  <2>1. CASE q = p
    <3>1. \A r \in Pullers : pull'[r].at = "walk" /\ pull'[r].lru = l => r = p
      BY <1>8, <1>10
    <3> QED BY <2>1, <3>1, <1>4, <1>8 DEF PullOK
  <2>2. CASE q # p
    <3>1. pull'[q] = pull[q] /\ lru_lock'[q] = lru_lock[q] /\ PullOK(q)
      BY <2>2, <1>8, <1>9
    <3>2. \A r \in Pullers : pull[q].at = "walk" /\ pull'[r].at = "walk" /\ pull'[r].lru = pull[q].lru => r = q
      <4> SUFFICES ASSUME NEW r \in Pullers, pull[q].at = "walk", pull'[r].at = "walk",
                          pull'[r].lru = pull[q].lru
                   PROVE  r = q
        OBVIOUS
      <4>1. r # p
        BY <1>4, <1>8, <1>10
      <4> QED BY <4>1, <1>8, <3>1 DEF PullOK
    <3> QED BY <3>1, <3>2 DEF PullOK, At
  <2> QED BY <2>1, <2>2
<1>12. \A w \in LruWorkers : WorkOK(w)'
  <2> SUFFICES ASSUME NEW w \in LruWorkers PROVE WorkOK(w)'
    OBVIOUS
  <2>1. pull'[w].at # "" => wk[w].job.at \in {"COLD", "HOT"}
    BY <1>8, WorksAre DEF Pullers
  <2>2. /\ wk'[w].job.at = "locked" => wk'[w].job.it \in Items /\ ilock'[wk'[w].job.it] = w
        /\ Len(bumps'[w]) <= BumpSize
    BY WorksAre
  <2> QED BY <2>1, <2>2 DEF WorkOK
<1>13. UpkeepOK'
  <2>1. Maintainer \in Pullers
    BY DEF Pullers
  <2>2. pull'[Maintainer].at # "" => mt.at \in Lrus
    BY <2>1, <1>8 DEF IInv, ThreadsOK, UpkeepOK
  <2> QED BY <2>2 DEF IInv, ThreadsOK, UpkeepOK
<1>14. CrawlOK'
  BY DEF IInv, ThreadsOK, CrawlOK, crawlVars
<1>15. \A q \in Pullers :
              /\ pull'[q].at = "settle" <=> pull[q].at = "settle"
              /\ pull[q].at = "settle" => pull'[q].search = pull[q].search /\ pull'[q].to = pull[q].to
              /\ pull'[q].at = "walk" =>
                    pull'[q].search = Nobody \/ pull'[q].search \in Range(lists[pull'[q].lru])
  <2> SUFFICES ASSUME NEW q \in Pullers
               PROVE  /\ pull'[q].at = "settle" <=> pull[q].at = "settle"
                      /\ pull[q].at = "settle" => pull'[q].search = pull[q].search /\ pull'[q].to = pull[q].to
                      /\ pull'[q].at = "walk" =>
                            pull'[q].search = Nobody \/ pull'[q].search \in Range(lists[pull'[q].lru])
    OBVIOUS
  <2>1. CASE q = p
    BY <2>1, <1>1, <1>3, <1>4, <1>8, NoPullIs
  <2>2. CASE q # p
    BY <2>2, <1>8, WalksAre
  <2> QED BY <2>1, <2>2
<1> QED BY <1>7, <1>11, <1>12, <1>13, <1>14, <1>15, UnmovedStep

LEMMA AllocPullKeeps ==
    ASSUME IInv, Sound, NEW w \in LruWorkers, AllocPull(w), UNCHANGED crawlVars
    PROVE  IInv'
<1>1. PICK l \in Lrus : l = wk[w].job.at
  BY DEF AllocPull, Lrus
<1>2. /\ wk[w].job.at \in {"COLD", "HOT"} /\ PullBegin(w, l, 0)
      /\ UNCHANGED <<clock, items, lists, ilock, wk, bumps, mt, left>>
  BY <1>1 DEF AllocPull, pullRest
<1>3. w \in Pullers /\ w # Maintainer /\ 0 \in Int
  BY LruNames DEF Pullers
<1> QED BY <1>2, <1>3, PullBeginKeeps

LEMMA JuggleKeeps ==
    ASSUME IInv, Sound, lru_maintainer_juggle, UNCHANGED crawlVars
    PROVE  IInv'
<1>1. mt \in Upkeep /\ {HotMaxAge, WarmMaxFactor} \subseteq Nat
  BY LruAssumption, UpkeepIs
<1>2. JuggleAge \in Int
  <2>1. PICK a \in Int : a = mt.cold_age
    BY <1>1 DEF Upkeep
  <2>2. PICK f \in Nat : f = WarmMaxFactor
    BY <1>1
  <2>3. a * f \in Int
    OBVIOUS
  <2>4. JuggleAge \in {HotMaxAge, a * f, 0}
    BY <2>1, <2>2 DEF JuggleAge
  <2> QED BY <1>1, <2>3, <2>4
<1>3. PICK l \in Lrus : l = mt.at
  BY DEF lru_maintainer_juggle
<1>4. /\ PullBegin(Maintainer, l, JuggleAge) /\ mt.at \in Lrus
      /\ UNCHANGED <<clock, items, lists, ilock, wk, bumps, mt, left>>
  BY <1>3 DEF lru_maintainer_juggle, pullRest
<1>5. Maintainer \in Pullers /\ Maintainer \notin LruWorkers
  BY LruNames DEF Pullers
<1> QED BY <1>2, <1>4, <1>5, PullBeginKeeps

\* Who is at an item of its list, and what is above it.
LEMMA WalkerIs ==
    ASSUME IInv, Sound, NEW p \in Pullers, Walking(p)
    PROVE  /\ pull[p].at = "walk" /\ pull[p].lru \in Lrus /\ lru_lock[p] = pull[p].lru
           /\ pull[p].search \in Range(lists[pull[p].lru]) /\ Once(lists[pull[p].lru])
           /\ \/ Above(pull[p].lru, pull[p].search) = Nobody
              \/ /\ Above(pull[p].lru, pull[p].search) \in Range(lists[pull[p].lru]) \ {pull[p].search}
                 /\ Above(pull[p].lru, pull[p].search) \in Items \cup {Crawler}
           /\ pull[p].tries - 1 \in Nat
<1>1. pull[p].at = "walk" /\ pull[p].search # Nobody /\ pull[p].tries > 0
  BY DEF Walking, At
<1>2. pull[p].lru \in Lrus /\ lru_lock[p] = pull[p].lru
  BY <1>1, WalksAre DEF PullOK
<1>3. pull[p].search \in Range(lists[pull[p].lru])
  BY <1>1, WalksAre
<1>4. Once(lists[pull[p].lru])
  BY <1>2 DEF IInv, Whole, ListOK
<1>5. LruTypes
  BY DEF IInv
<1>6. lists[pull[p].lru] \in Seq(Items \cup {Crawler})
  BY <1>2, <1>5, TypesAre
<1>7. \/ Above(pull[p].lru, pull[p].search) = Nobody
      \/ Above(pull[p].lru, pull[p].search) \in Range(lists[pull[p].lru]) \ {pull[p].search}
  BY <1>2, <1>3, <1>4, <1>5, AboveIs
<1>8. Range(lists[pull[p].lru]) \subseteq Items \cup {Crawler}
  BY <1>6, RangeIs
<1>9. pull[p].tries - 1 \in Nat
  <2>1. pull[p] \in Pull
    BY <1>5, TypesAre
  <2>2. PICK t \in Nat : t = pull[p].tries
    BY <2>1 DEF Pull
  <2> QED BY <1>1, <2>2
<1> QED BY <1>1, <1>2, <1>3, <1>4, <1>7, <1>8, <1>9

LEMMA NextUpIs ==
    ASSUME IInv, Sound, NEW p \in Pullers, Walking(p), NEW t \in Nat, NEW r \in Nat, NextUp(p, t, r)
    PROVE  /\ pull' \in [Pullers -> Pull]
           /\ pull'[p].at = "walk" /\ pull'[p].lru = pull[p].lru
           /\ pull'[p].search = Above(pull[p].lru, pull[p].search)
           /\ \A q \in Pullers : q # p => pull'[q] = pull[q]
           /\ \A q \in Pullers : /\ pull'[q].at = pull[q].at /\ pull'[q].lru = pull[q].lru
                                 /\ pull'[q].to = pull[q].to
                                 /\ pull[q].at = "settle" => pull'[q].search = pull[q].search
<1> DEFINE a == Above(pull[p].lru, pull[p].search)
<1>1. pull \in [Pullers -> Pull] /\ pull[p] \in Pull
  BY DEF IInv, LruTypes
<1>2. a \in Items \cup {Crawler, Nobody} /\ pull[p].at = "walk"
  BY WalkerIs
<1>3. pull[p].removed + r \in Nat
  <2>1. PICK n \in Nat : n = pull[p].removed
    BY <1>1 DEF Pull
  <2> QED BY <2>1
<1>4. pull' = [pull EXCEPT ![p] = [pull[p] EXCEPT !.search = a, !.tries = t, !.removed = pull[p].removed + r]]
  BY <1>1 DEF NextUp, At
<1> HIDE DEF a
<1> DEFINE new == [pull[p] EXCEPT !.search = a, !.tries = t, !.removed = pull[p].removed + r]
<1>5. new \in Pull /\ new.at = pull[p].at /\ new.lru = pull[p].lru /\ new.to = pull[p].to /\ new.search = a
  BY <1>1, <1>2, <1>3 DEF Pull
<1>6. pull' = [pull EXCEPT ![p] = new]
  BY <1>4
<1> HIDE DEF new
<1>7. pull' \in [Pullers -> Pull] /\ pull'[p] = new /\ \A q \in Pullers : q # p => pull'[q] = pull[q]
  BY <1>1, <1>5, <1>6
<1>8. ASSUME NEW q \in Pullers
      PROVE  /\ pull'[q].at = pull[q].at /\ pull'[q].lru = pull[q].lru
             /\ pull'[q].to = pull[q].to
             /\ pull[q].at = "settle" => pull'[q].search = pull[q].search
  BY <1>2, <1>5, <1>7
<1> QED BY <1>2, <1>5, <1>7, <1>8 DEF a

\* The other parts of the threads' invariant after a step that changes pull[p], but not where p is in
\* its call, nor locks, flags or jobs.
LEMMA SearchMoves ==
    ASSUME IInv, UNCHANGED <<lru_lock, ilock, wk, bumps, mt, cr, cbuf>>,
           \A q \in Pullers : /\ pull'[q].at = pull[q].at /\ pull'[q].lru = pull[q].lru
                              /\ pull'[q].to = pull[q].to
                              /\ pull[q].at = "" => pull'[q] = pull[q]
                              /\ pull[q].at = "settle" =>
                                    /\ pull'[q].search = pull[q].search
                                    /\ pull[q].search \in Items =>
                                          /\ items'[pull[q].search].linked = items[pull[q].search].linked
                                          /\ items'[pull[q].search].active = items[pull[q].search].active
    PROVE  ThreadsOK'
<1>1. \A q \in Pullers : PullOK(q)'
  <2> SUFFICES ASSUME NEW q \in Pullers PROVE PullOK(q)'
    OBVIOUS
  <2>1. PullOK(q)
    BY DEF IInv, ThreadsOK
  <2>2. pull'[q] # NoPull => pull'[q].at # ""
    BY <2>1, NoPullIs DEF PullOK
  <2>3. /\ pull'[q].at = "walk" => pull'[q].lru \in Lrus
        /\ lru_lock'[q] = (IF pull'[q].at = "walk" THEN pull'[q].lru ELSE "")
    BY <2>1 DEF PullOK
  <2>4. \A r \in Pullers : pull'[q].at = "walk" /\ pull'[r].at = "walk" /\ pull'[r].lru = pull'[q].lru => r = q
    BY <2>1 DEF PullOK
  <2>5. ASSUME pull'[q].at = "settle"
        PROVE  /\ pull'[q].search \in Items /\ ilock'[pull'[q].search] = q
               /\ pull'[q].to # "" => items'[pull'[q].search].linked
               /\ pull'[q].to = "COLD" => ~items'[pull'[q].search].active
    <3>1. /\ pull[q].search \in Items /\ ilock[pull[q].search] = q
          /\ pull[q].to # "" => items[pull[q].search].linked
          /\ pull[q].to = "COLD" => ~items[pull[q].search].active
      BY <2>1, <2>5 DEF PullOK, At
    <3>2. /\ pull'[q].search = pull[q].search /\ pull'[q].to = pull[q].to /\ ilock' = ilock
          /\ items'[pull[q].search].linked = items[pull[q].search].linked
          /\ items'[pull[q].search].active = items[pull[q].search].active
      BY <2>5, <3>1
    <3> QED BY <3>1, <3>2
  <2> QED BY <2>2, <2>3, <2>4, <2>5 DEF PullOK, At
<1>2. \A w \in LruWorkers : WorkOK(w)'
  <2> SUFFICES ASSUME NEW w \in LruWorkers PROVE WorkOK(w)'
    OBVIOUS
  <2>1. WorkOK(w) /\ pull'[w].at = pull[w].at
    BY DEF IInv, ThreadsOK, Pullers
  <2> QED BY <2>1 DEF WorkOK
<1>3. UpkeepOK'
  <2>1. pull'[Maintainer].at = pull[Maintainer].at
    BY DEF Pullers
  <2> QED BY <2>1 DEF IInv, ThreadsOK, UpkeepOK
<1>4. CrawlOK'
  BY DEF IInv, ThreadsOK, CrawlOK
<1> QED BY <1>1, <1>2, <1>3, <1>4 DEF ThreadsOK

\* A walk goes on without the item it was at.
LEMMA WalkOnKeeps ==
    ASSUME IInv, Sound, NEW p \in Pullers, Walking(p), NEW t \in Nat, NextUp(p, t, 0),
           UNCHANGED <<items, lists, ilock, lru_lock, clock, wk, bumps, mt, left>>, UNCHANGED crawlVars
    PROVE  IInv'
<1>0. 0 \in Nat
  OBVIOUS
<1>1. /\ pull' \in [Pullers -> Pull]
      /\ pull'[p].at = "walk" /\ pull'[p].lru = pull[p].lru
      /\ pull'[p].search = Above(pull[p].lru, pull[p].search)
      /\ \A q \in Pullers : q # p => pull'[q] = pull[q]
      /\ \A q \in Pullers : /\ pull'[q].at = pull[q].at /\ pull'[q].lru = pull[q].lru
                            /\ pull'[q].to = pull[q].to
                            /\ pull[q].at = "settle" => pull'[q].search = pull[q].search
  BY <1>0, NextUpIs
<1>2. LruTypes'
  BY <1>1 DEF IInv, LruTypes
<1>3. pull[p].at = "walk"
  BY WalkerIs
<1>4. cr' = cr /\ cbuf' = cbuf
  BY DEF crawlVars
<1>5. \A q \in Pullers : pull[q].at = "" => pull'[q] = pull[q]
  BY <1>1, <1>3
<1>6. ThreadsOK'
  BY <1>1, <1>4, <1>5, SearchMoves
<1>7. \A q \in Pullers : pull'[q].at = "walk" =>
                            pull'[q].search = Nobody \/ pull'[q].search \in Range(lists[pull'[q].lru])
  <2> SUFFICES ASSUME NEW q \in Pullers, pull'[q].at = "walk"
               PROVE  pull'[q].search = Nobody \/ pull'[q].search \in Range(lists[pull'[q].lru])
    OBVIOUS
  <2>1. CASE q = p
    BY <2>1, <1>1, WalkerIs
  <2>2. CASE q # p
    BY <2>2, <1>1, WalksAre
  <2> QED BY <2>1, <2>2
<1> QED BY <1>1, <1>2, <1>6, <1>7, UnmovedStep DEF ThreadsOK

LEMMA PullCrawlerKeeps ==
    ASSUME IInv, Sound, NEW p \in Pullers, PullCrawler(p), UNCHANGED crawlVars
    PROVE  IInv'
<1>1. /\ Walking(p) /\ NextUp(p, pull[p].tries, 0)
      /\ UNCHANGED <<items, lists, ilock, lru_lock, clock, wk, bumps, mt, left>>
  BY DEF PullCrawler, pullRest
<1>2. pull[p] \in Pull
  BY TypesAre DEF IInv
<1>3. PICK t \in Nat : t = pull[p].tries
  BY <1>2 DEF Pull
<1> QED BY <1>1, <1>3, WalkOnKeeps

LEMMA PullLockedKeeps ==
    ASSUME IInv, Sound, NEW p \in Pullers, PullLocked(p), UNCHANGED crawlVars
    PROVE  IInv'
<1>1. /\ Walking(p) /\ NextUp(p, pull[p].tries - 1, 0)
      /\ UNCHANGED <<items, lists, ilock, lru_lock, clock, wk, bumps, mt, left>>
  BY DEF PullLocked, pullRest
<1>3. PICK t \in Nat : t = pull[p].tries - 1
  BY <1>1, WalkerIs
<1> QED BY <1>1, <1>3, WalkOnKeeps

RoundEnd(h, n) ==
    [h EXCEPT !.at = "bumps", !.i = 0, !.more = 0, !.moved = FALSE, !.cold_age = 0, !.backoff = n, !.next = n]
LEMMA RoundEnds ==
    ASSUME NEW h \in Upkeep, NEW n \in Nat, JuggleLoops \in Nat \ {0}
    PROVE  /\ RoundEnd(h, n) \in Upkeep /\ RoundEnd(h, n).at = "bumps" /\ RoundEnd(h, n).cur = h.cur
           /\ RoundEnd(h, n).size = h.size /\ RoundEnd(h, n).todo = h.todo
<1>1. 0 \in 0 .. JuggleLoops - 1 /\ 0 \in Nat /\ 0 \in Int
  OBVIOUS
<1> DEFINE a == [h EXCEPT !.at = "bumps", !.i = 0, !.more = 0]
           b == [a EXCEPT !.moved = FALSE, !.cold_age = 0]
           m == [b EXCEPT !.backoff = n, !.next = n]
<1>2. a \in Upkeep /\ a.at = "bumps" /\ a.cur = h.cur /\ a.size = h.size /\ a.todo = h.todo
  BY <1>1 DEF Upkeep
<1> HIDE DEF a
<1>3. b \in Upkeep /\ b.at = "bumps" /\ b.cur = h.cur /\ b.size = h.size /\ b.todo = h.todo
  BY <1>1, <1>2 DEF Upkeep
<1> HIDE DEF b
<1>4. m \in Upkeep /\ m.at = "bumps" /\ m.cur = h.cur /\ m.size = h.size /\ m.todo = h.todo
  BY <1>3 DEF Upkeep
<1>5. m = RoundEnd(h, n)
  BY DEF a, b, RoundEnd
<1> QED BY <1>4, <1>5

RoundOn(h, n) == [h EXCEPT !.at = "HOT", !.i = n, !.more = 0, !.moved = TRUE]
LEMMA RoundGoesOn ==
    ASSUME NEW h \in Upkeep, NEW n \in 0 .. JuggleLoops - 1
    PROVE  /\ RoundOn(h, n) \in Upkeep /\ RoundOn(h, n).at = "HOT" /\ RoundOn(h, n).cur = h.cur
           /\ RoundOn(h, n).size = h.size /\ RoundOn(h, n).todo = h.todo
<1>1. 0 \in Nat
  OBVIOUS
<1> DEFINE a == [h EXCEPT !.at = "HOT", !.i = n]
           m == [a EXCEPT !.more = 0, !.moved = TRUE]
<1>2. a \in Upkeep /\ a.at = "HOT" /\ a.cur = h.cur /\ a.size = h.size /\ a.todo = h.todo
  BY DEF Upkeep, Lrus
<1> HIDE DEF a
<1>3. m \in Upkeep /\ m.at = "HOT" /\ m.cur = h.cur /\ m.size = h.size /\ m.todo = h.todo
  BY <1>1, <1>2 DEF Upkeep
<1>4. m = RoundOn(h, n)
  BY DEF a, RoundOn
<1> QED BY <1>3, <1>4

LEMMA BackoffIs ==
    ASSUME IInv, NEW b \in BOOLEAN
    PROVE  Backoff(b) \in Nat /\ JuggleEnd(b) \in Upkeep /\ JuggleEnd(b).at = "bumps"
           /\ JuggleEnd(b).cur = mt.cur /\ JuggleEnd(b).size = mt.size /\ JuggleEnd(b).todo = mt.todo
<1>1. mt \in Upkeep /\ MaxSleep \in Nat \ {0} /\ JuggleLoops \in Nat \ {0}
  BY UpkeepIs
<1>2. PICK n \in Nat : n = mt.backoff
  BY <1>1 DEF Upkeep
<1>3. n \div 2 \in Nat /\ n + 1 \in Nat
  OBVIOUS
<1>4. Backoff(b) \in {n \div 2, n + 1, n}
  BY <1>2 DEF Backoff
<1>5. Backoff(b) \in Nat
  BY <1>3, <1>4
<1>6. 0 \in 0 .. JuggleLoops - 1 /\ 0 \in Nat /\ 0 \in Int
  BY <1>1
<1>7. JuggleEnd(b) = RoundEnd(mt, Backoff(b))
  BY DEF JuggleEnd, RoundEnd
<1>8. PICK h \in Upkeep : h = mt
  BY <1>1
<1>9. PICK k \in Nat : k = Backoff(b)
  BY <1>5
<1>10. /\ RoundEnd(h, k) \in Upkeep /\ RoundEnd(h, k).at = "bumps" /\ RoundEnd(h, k).cur = h.cur
       /\ RoundEnd(h, k).size = h.size /\ RoundEnd(h, k).todo = h.todo
  BY <1>1, RoundEnds
<1> QED BY <1>5, <1>7, <1>8, <1>9, <1>10

LEMMA JuggleResultIs ==
    ASSUME IInv, mt.at \in Lrus, NEW r \in Nat
    PROVE  /\ JuggleResult(r) \in Upkeep /\ JuggleResult(r).at # "bump"
           /\ JuggleResult(r).cur = mt.cur /\ JuggleResult(r).size = mt.size /\ JuggleResult(r).todo = mt.todo
<1> DEFINE Good(m) == m \in Upkeep /\ m.at # "bump" /\ m.cur = mt.cur /\ m.size = mt.size /\ m.todo = mt.todo
<1>1. mt \in Upkeep /\ JuggleLoops \in Nat \ {0}
  BY UpkeepIs
<1>2. mt.i \in 0 .. JuggleLoops - 1 /\ mt.more \in Nat /\ mt.moved \in BOOLEAN
  BY <1>1 DEF Upkeep
<1>3. 0 \in 0 .. JuggleLoops - 1 /\ 0 \in Nat
  BY <1>1
<1>4. mt.i + 1 # JuggleLoops => mt.i + 1 \in 0 .. JuggleLoops - 1
  <2>1. PICK n \in 0 .. JuggleLoops - 1 : n = mt.i
    BY <1>2
  <2>2. n + 1 # JuggleLoops => n + 1 \in 0 .. JuggleLoops - 1
    BY <1>1
  <2> QED BY <2>1, <2>2
<1>5. (mt.moved \/ r > 0) \in BOOLEAN
  OBVIOUS
<1>6. CASE mt.at = "TEMP"
  <2>1. CASE r = 0 \/ mt.i + 1 = JuggleLoops
    <3>1. JuggleResult(r) = [mt EXCEPT !.at = "age", !.i = 0, !.moved = mt.moved \/ r > 0]
      BY <1>1, <1>6, <2>1 DEF JuggleResult
    <3> HIDE DEF Good
    <3>2. Good(JuggleResult(r))
      BY <1>1, <1>3, <1>5, <3>1 DEF Upkeep, Good
    <3> QED BY <3>2 DEF Good
  <2>2. CASE ~(r = 0 \/ mt.i + 1 = JuggleLoops)
    <3>1. JuggleResult(r) = [mt EXCEPT !.moved = TRUE, !.i = mt.i + 1]
      BY <1>1, <1>6, <2>2 DEF JuggleResult
    <3>2. mt.i + 1 \in 0 .. JuggleLoops - 1
      BY <1>4, <2>2
    <3> QED BY <1>1, <1>6, <3>1, <3>2 DEF Upkeep
  <2> QED BY <2>1, <2>2
<1>7. CASE mt.at = "HOT"
  <2>1. JuggleResult(r) = [mt EXCEPT !.more = r, !.at = IF r = 0 THEN "WARM" ELSE "COLD"]
    BY <1>1, <1>7 DEF JuggleResult
  <2> QED BY <1>1, <2>1 DEF Upkeep, Lrus
<1>8. CASE mt.at = "WARM"
  <2>1. JuggleResult(r) = [mt EXCEPT !.more = r, !.at = "COLD"]
    BY <1>1, <1>8 DEF JuggleResult
  <2> QED BY <1>1, <2>1 DEF Upkeep, Lrus
<1>9. CASE mt.at = "COLD"
  <2>1. JuggleResult(r) = IF mt.more + r = 0 THEN JuggleEnd(mt.moved)
                          ELSE IF mt.i + 1 = JuggleLoops THEN JuggleEnd(TRUE)
                          ELSE [mt EXCEPT !.at = "HOT", !.i = mt.i + 1, !.more = 0, !.moved = TRUE]
    BY <1>1, <1>9 DEF JuggleResult
  <2>2. CASE JuggleResult(r) = JuggleEnd(mt.moved)
    BY <2>2, <1>2, BackoffIs
  <2>3. CASE JuggleResult(r) = JuggleEnd(TRUE)
    BY <2>3, BackoffIs
  <2>4. CASE /\ mt.i + 1 # JuggleLoops
             /\ JuggleResult(r) = [mt EXCEPT !.at = "HOT", !.i = mt.i + 1, !.more = 0, !.moved = TRUE]
    <3>1. mt.i + 1 \in 0 .. JuggleLoops - 1
      BY <1>4, <2>4
    <3>2. PICK h \in Upkeep : h = mt
      BY <1>1
    <3>3. PICK n \in 0 .. JuggleLoops - 1 : n = mt.i + 1
      BY <3>1
    <3>4. /\ RoundOn(h, n) \in Upkeep /\ RoundOn(h, n).at = "HOT" /\ RoundOn(h, n).cur = h.cur
          /\ RoundOn(h, n).size = h.size /\ RoundOn(h, n).todo = h.todo
      BY RoundGoesOn
    <3>5. JuggleResult(r) = RoundOn(h, n)
      BY <2>4, <3>2, <3>3 DEF RoundOn
    <3> QED BY <3>2, <3>4, <3>5
  <2> QED BY <2>1, <2>2, <2>3, <2>4
<1> QED BY <1>6, <1>7, <1>8, <1>9 DEF Lrus

\* lru_pull_tail returns to its caller.
LEMMA ReturnedIs ==
    ASSUME IInv, NEW p \in Pullers, pull[p].at # "", NEW r \in Nat, Returned(p, r)
    PROVE  /\ pull' \in [Pullers -> Pull] /\ pull'[p] = NoPull
           /\ \A q \in Pullers : q # p => pull'[q] = pull[q]
           /\ wk' \in [LruWorkers -> Work] /\ mt' \in Upkeep
           /\ mt'.cur = mt.cur /\ mt'.size = mt.size /\ mt'.todo = mt.todo
           /\ UpkeepOK'
           /\ UNCHANGED <<clock, bumps, left>>
           /\ \A w \in LruWorkers :
                 /\ wk'[w].got = wk[w].got
                 /\ \/ wk'[w].job = wk[w].job
                    \/ w = p /\ wk'[w].job.at # "locked"
<1>1. pull \in [Pullers -> Pull] /\ wk \in [LruWorkers -> Work]
  BY DEF IInv, LruTypes
<1>2. pull' = [pull EXCEPT ![p] = NoPull] /\ UNCHANGED <<clock, bumps, left>>
  BY DEF Returned
<1>3. pull' \in [Pullers -> Pull] /\ pull'[p] = NoPull /\ \A q \in Pullers : q # p => pull'[q] = pull[q]
  BY <1>1, <1>2, NoPullIs
<1>4. CASE p = Maintainer
  <2>1. mt' = JuggleResult(r) /\ wk' = wk
    BY <1>4 DEF Returned
  <2>2. mt.at \in Lrus
    BY <1>4 DEF IInv, ThreadsOK, UpkeepOK
  <2>3. /\ mt' \in Upkeep /\ mt'.at # "bump"
        /\ mt'.cur = mt.cur /\ mt'.size = mt.size /\ mt'.todo = mt.todo
    BY <2>1, <2>2, JuggleResultIs
  <2>4. mt.cur = Nobody
    BY <2>2 DEF IInv, ThreadsOK, UpkeepOK, Lrus
  <2>5. UpkeepOK'
    BY <2>3, <2>4, <1>3, <1>4, NoPullIs DEF UpkeepOK
  <2> QED BY <1>1, <1>2, <1>3, <2>1, <2>3, <2>5
<1>5. CASE p # Maintainer
  <2>1. p \in LruWorkers /\ AllocResult(p, r) /\ mt' = mt
    BY <1>5 DEF Returned, Pullers
  <2>2. wk[p] \in Work /\ wk[p].job.at \in {"COLD", "HOT"}
    BY <1>1, <2>1, WorksAre
  <2> DEFINE job == IF wk[p].job.at = "COLD" /\ r = 0 THEN [wk[p].job EXCEPT !.at = "HOT"] ELSE Resting
  <2>3. wk' = [wk EXCEPT ![p] = [wk[p] EXCEPT !.job = job]]
    BY <1>1, <2>1 DEF AllocResult
  <2>4. job \in [at : {"idle", "locked", "COLD", "HOT"}, it : Items \cup {Nobody}] /\ job.at # "locked"
    BY <2>2 DEF Work, Resting
  <2> HIDE DEF job
  <2>5. [wk[p] EXCEPT !.job = job] \in Work
    BY <2>2, <2>4 DEF Work
  <2>6. wk' \in [LruWorkers -> Work]
    BY <1>1, <2>3, <2>5
  <2>7. wk'[p].job = job /\ wk'[p].got = wk[p].got /\ \A v \in LruWorkers : v # p => wk'[v] = wk[v]
    BY <1>1, <2>1, <2>2, <2>3 DEF Work
  <2>8. \A w \in LruWorkers : /\ wk'[w].got = wk[w].got
                              /\ wk'[w].job = wk[w].job \/ (w = p /\ wk'[w].job.at # "locked")
    BY <2>4, <2>7
  <2>9. mt' \in Upkeep
    BY <2>1, UpkeepIs
  <2>10. UpkeepOK'
    <3>1. pull'[Maintainer] = pull[Maintainer]
      BY <1>3, <1>5 DEF Pullers
    <3> QED BY <1>2, <2>1, <3>1 DEF IInv, ThreadsOK, UpkeepOK
  <2> QED BY <1>2, <1>3, <2>1, <2>6, <2>8, <2>9, <2>10
<1> QED BY <1>4, <1>5

\* The threads when lru_pull_tail has returned: it has let go of its locks.
LEMMA ReturnThreads ==
    ASSUME IInv, NEW p \in Pullers, pull[p].at # "", NEW r \in Nat, Returned(p, r),
           lru_lock'[p] = "", \A q \in Pullers : q # p => lru_lock'[q] = lru_lock[q],
           \A i \in Items : ilock[i] # p => /\ ilock'[i] = ilock[i] /\ items'[i].linked = items[i].linked
                                            /\ items'[i].active = items[i].active,
           UNCHANGED <<cr, cbuf>>
    PROVE  ThreadsOK'
<1>1. /\ pull'[p] = NoPull /\ bumps' = bumps
      /\ \A q \in Pullers : q # p => pull'[q] = pull[q]
      /\ UpkeepOK'
      /\ \A w \in LruWorkers : wk'[w].job = wk[w].job \/ (w = p /\ wk'[w].job.at # "locked")
  BY ReturnedIs
<1>2. \A q \in Pullers : PullOK(q)'
  <2> SUFFICES ASSUME NEW q \in Pullers PROVE PullOK(q)'
    OBVIOUS
  <2>1. CASE q = p
    <3>1. pull'[q] = NoPull /\ lru_lock'[q] = ""
      BY <2>1, <1>1
    <3> QED BY <3>1, NoPullIs DEF PullOK, At
  <2>2. CASE q # p
    <3>1. PullOK(q)
      BY DEF IInv, ThreadsOK
    <3>2. pull'[q] = pull[q] /\ lru_lock'[q] = lru_lock[q]
      BY <1>1, <2>2
    <3>3. \A s \in Pullers : pull[q].at = "walk" /\ pull'[s].at = "walk" /\ pull'[s].lru = pull[q].lru => s = q
      <4> SUFFICES ASSUME NEW s \in Pullers, pull[q].at = "walk", pull'[s].at = "walk",
                          pull'[s].lru = pull[q].lru
                   PROVE  s = q
        OBVIOUS
      <4>1. s # p
        BY <1>1, NoPullIs
      <4> QED BY <4>1, <1>1, <3>1 DEF PullOK
    <3>4. ASSUME pull[q].at = "settle"
          PROVE  /\ ilock'[pull[q].search] = q
                 /\ pull[q].to # "" => items'[pull[q].search].linked
                 /\ pull[q].to = "COLD" => ~items'[pull[q].search].active
      <4>1. /\ pull[q].search \in Items /\ ilock[pull[q].search] = q
            /\ pull[q].to # "" => items[pull[q].search].linked
            /\ pull[q].to = "COLD" => ~items[pull[q].search].active
        BY <3>1, <3>4 DEF PullOK, At
      <4> QED BY <4>1, <2>2
    <3>5. /\ pull'[q].at = "walk" => pull'[q].lru \in Lrus
          /\ lru_lock'[q] = (IF pull'[q].at = "walk" THEN pull'[q].lru ELSE "")
          /\ pull'[q] # NoPull => pull'[q].at # ""
          /\ pull[q].at = "settle" => pull[q].search \in Items
      BY <3>1, <3>2 DEF PullOK, At
    <3> HIDE DEF PullOK
    <3>6. \A s \in Pullers : pull'[q].at = "walk" /\ pull'[s].at = "walk" /\ pull'[s].lru = pull'[q].lru => s = q
      BY <3>2, <3>3
    <3>7. pull'[q].at = "settle" =>
            /\ pull'[q].search \in Items /\ ilock'[pull'[q].search] = q
            /\ pull'[q].to # "" => items'[pull'[q].search].linked
            /\ pull'[q].to = "COLD" => ~items'[pull'[q].search].active
      BY <3>2, <3>4, <3>5
    <3> QED BY <3>5, <3>6, <3>7 DEF PullOK, At
  <2> QED BY <2>1, <2>2
<1>3. \A w \in LruWorkers : WorkOK(w)'
  <2> SUFFICES ASSUME NEW w \in LruWorkers PROVE WorkOK(w)'
    OBVIOUS
  <2>0. w \in Pullers
    BY DEF Pullers
  <2>1. /\ wk[w].job.at = "locked" => wk[w].job.it \in Items /\ ilock[wk[w].job.it] = w
        /\ pull[w].at # "" => wk[w].job.at \in {"COLD", "HOT"}
        /\ Len(bumps'[w]) <= BumpSize
    BY <1>1, WorksAre
  <2>2. CASE w = p
    <3>1. wk'[w].job.at # "locked"
      BY <1>1, <2>1, <2>2
    <3>2. pull'[w].at = ""
      BY <1>1, <2>2, NoPullIs
    <3> QED BY <3>1, <3>2, <2>1 DEF WorkOK
  <2>3. CASE w # p
    <3>1. pull'[w] = pull[w] /\ wk'[w].job = wk[w].job
      BY <1>1, <2>0, <2>3
    <3>2. wk[w].job.at = "locked" => ilock'[wk[w].job.it] = w
      BY <2>1, <2>3
    <3> QED BY <3>1, <3>2, <2>1 DEF WorkOK
  <2> QED BY <2>2, <2>3
<1>4. CrawlOK'
  <2>1. CrawlOK /\ CrawlerThread # p
    BY CrawlerAssumption DEF IInv, ThreadsOK
  <2>2. cr.at = "dump" => ilock'[cr.search] = ilock[cr.search]
    BY <2>1 DEF CrawlOK
  <2> QED BY <2>1, <2>2 DEF CrawlOK
<1> QED BY <1>1, <1>2, <1>3, <1>4 DEF ThreadsOK

LEMMA PullNothingKeeps ==
    ASSUME IInv, Sound, NEW p \in Pullers, PullNothing(p), UNCHANGED crawlVars
    PROVE  IInv'
<1>1. /\ pull[p].at = "walk" /\ lru_lock' = [lru_lock EXCEPT ![p] = ""]
      /\ Returned(p, 0) \/ Returned(p, pull[p].removed)
      /\ UNCHANGED <<items, lists, ilock>>
  BY DEF PullNothing
<1>2. pull[p] \in Pull /\ lru_lock \in [Pullers -> Lrus \cup {""}]
  BY TypesAre DEF IInv, LruTypes
<1>3. PICK r \in Nat : Returned(p, r)
  <2>1. pull[p].removed \in Nat /\ 0 \in Nat
    BY <1>2 DEF Pull
  <2> QED BY <1>1, <2>1
<1>4. pull[p].at # ""
  BY <1>1
<1>5. /\ pull' \in [Pullers -> Pull] /\ pull'[p] = NoPull
      /\ \A q \in Pullers : q # p => pull'[q] = pull[q]
      /\ wk' \in [LruWorkers -> Work] /\ mt' \in Upkeep
      /\ mt'.cur = mt.cur /\ mt'.size = mt.size /\ mt'.todo = mt.todo
      /\ UNCHANGED <<clock, bumps, left>>
      /\ \A w \in LruWorkers : wk'[w].got = wk[w].got
  BY <1>3, <1>4, ReturnedIs
<1>6. lru_lock' \in [Pullers -> Lrus \cup {""}] /\ lru_lock'[p] = "" /\ \A q \in Pullers : q # p => lru_lock'[q] = lru_lock[q]
  BY <1>1, <1>2
<1>7. LruTypes'
  BY <1>1, <1>5, <1>6 DEF IInv, LruTypes
<1>8. cr' = cr /\ cbuf' = cbuf
  BY DEF crawlVars
<1>9. ThreadsOK'
  BY <1>1, <1>3, <1>4, <1>6, <1>8, ReturnThreads
<1>10. \A q \in Pullers :
              /\ pull'[q].at = "settle" <=> pull[q].at = "settle"
              /\ pull[q].at = "settle" => pull'[q].search = pull[q].search /\ pull'[q].to = pull[q].to
              /\ pull'[q].at = "walk" =>
                    pull'[q].search = Nobody \/ pull'[q].search \in Range(lists[pull'[q].lru])
  <2> SUFFICES ASSUME NEW q \in Pullers
               PROVE  /\ pull'[q].at = "settle" <=> pull[q].at = "settle"
                      /\ pull[q].at = "settle" => pull'[q].search = pull[q].search /\ pull'[q].to = pull[q].to
                      /\ pull'[q].at = "walk" =>
                            pull'[q].search = Nobody \/ pull'[q].search \in Range(lists[pull'[q].lru])
    OBVIOUS
  <2>1. CASE q = p
    BY <2>1, <1>1, <1>5, NoPullIs
  <2>2. CASE q # p
    BY <2>2, <1>5, WalksAre
  <2> QED BY <2>1, <2>2
<1> QED BY <1>1, <1>5, <1>7, <1>9, <1>10, UnmovedStep DEF ThreadsOK

-----------------------------------------------------------------------------
(* Steps that change one item.                                             *)

Only(j, x, d) == IF j = x THEN d ELSE 0

\* The references of an item, as numbers.
LEMMA RefsOf ==
    ASSUME IInv, NEW x \in Items
    PROVE  /\ items[x].ref = Refs(x) /\ items[x].ref \in Nat
           /\ Cardinality(Got(x)) \in Nat /\ Cardinality(Queued(x)) \in Nat /\ Cardinality(Settling(x)) \in Nat
           /\ OneIf(items[x].linked) \in {0, 1} /\ OneIf(cr.search = x) \in {0, 1}
<1>1. items[x].ref = Refs(x)
  BY RefsAre DEF IInv
<1>2. Cardinality(Queued(x)) \in Nat
  BY QueuesAre DEF IInv, QueuesFine
<1>3. items[x] \in Header
  BY TypesAre DEF IInv
<1>4. items[x].ref \in Nat
  BY <1>3 DEF Header
<1> QED BY <1>1, <1>2, <1>4, CountsFinite DEF OneIf

\* One count has changed for x, by d.
LinkBy(x, d) == OneIf(items'[x].linked) = OneIf(items[x].linked) + d
GotBy(x, d) == \A j \in Items : Cardinality(Got(j)') = Cardinality(Got(j)) + Only(j, x, d)
QueuedBy(x, d) == \A j \in Items : Cardinality(Queued(j)') = Cardinality(Queued(j)) + Only(j, x, d)
SettlingBy(x, d) == \A j \in Items : Cardinality(Settling(j)') = Cardinality(Settling(j)) + Only(j, x, d)
SearchBy(x, d) == \A j \in Items : OneIf(cr'.search = j) = OneIf(cr.search = j) + Only(j, x, d)

\* The references of one item have changed with what refers to it.
LEMMA RefsStep ==
    ASSUME IInv, NEW x \in Items, NEW l \in Int, NEW g \in Int, NEW q \in Int, NEW s \in Int, NEW c \in Int,
           \A j \in Items : j # x => items'[j] = items[j],
           LinkBy(x, l), GotBy(x, g), QueuedBy(x, q), SettlingBy(x, s), SearchBy(x, c),
           items'[x].ref = items[x].ref + (l + g + q + s + c)
    PROVE  RefsExact'
<1> SUFFICES ASSUME NEW j \in Items
             PROVE  items'[j].ref = OneIf(items'[j].linked) + Cardinality(Got(j)') + Cardinality(Queued(j)')
                                      + Cardinality(Settling(j)') + OneIf(cr'.search = j)
  BY DEF RefsExact, OneIf
<1>1. PICK G \in Nat : G = Cardinality(Got(j))
  BY RefsOf
<1>2. PICK Q \in Nat : Q = Cardinality(Queued(j))
  BY RefsOf
<1>3. PICK S \in Nat : S = Cardinality(Settling(j))
  BY RefsOf
<1>4. PICK L \in {0, 1} : L = OneIf(items[j].linked)
  BY RefsOf
<1>5. PICK C \in {0, 1} : C = OneIf(cr.search = j)
  BY RefsOf
<1>6. PICK R \in Nat : R = items[j].ref
  BY RefsOf
<1>7. R = L + G + Q + S + C
  BY <1>1, <1>2, <1>3, <1>4, <1>5, <1>6, RefsOf DEF Refs
<1>8. CASE j = x
  <2>1. /\ Cardinality(Got(j)') = G + g /\ Cardinality(Queued(j)') = Q + q
        /\ Cardinality(Settling(j)') = S + s /\ OneIf(cr'.search = j) = C + c
    BY <1>1, <1>2, <1>3, <1>5, <1>8 DEF Only, GotBy, QueuedBy, SettlingBy, SearchBy
  <2>2. OneIf(items'[j].linked) = L + l /\ items'[j].ref = R + (l + g + q + s + c)
    BY <1>4, <1>6, <1>8 DEF LinkBy
  <2>3. R + (l + g + q + s + c) = (L + l) + (G + g) + (Q + q) + (S + s) + (C + c)
    BY <1>7
  <2> QED BY <2>1, <2>2, <2>3
<1>9. CASE j # x
  <2>1. /\ Cardinality(Got(j)') = G + 0 /\ Cardinality(Queued(j)') = Q + 0
        /\ Cardinality(Settling(j)') = S + 0 /\ OneIf(cr'.search = j) = C + 0
    BY <1>1, <1>2, <1>3, <1>5, <1>9 DEF Only, GotBy, QueuedBy, SettlingBy, SearchBy
  <2>2. OneIf(items'[j].linked) = L /\ items'[j].ref = R
    BY <1>4, <1>6, <1>9
  <2>3. G + 0 = G /\ Q + 0 = Q /\ S + 0 = S /\ C + 0 = C
    OBVIOUS
  <2> QED BY <1>7, <2>1, <2>2, <2>3
<1> QED BY <1>8, <1>9

\* Nothing has changed in one of the counts.
LEMMA GotSame ==
    ASSUME IInv, \A w \in LruWorkers : wk'[w].got = wk[w].got, NEW x
    PROVE  GotBy(x, 0)
<1> SUFFICES ASSUME NEW j \in Items PROVE Cardinality(Got(j)') = Cardinality(Got(j)) + Only(j, x, 0)
  BY DEF GotBy
<1>1. Got(j)' = Got(j)
  BY DEF Got
<1>2. Cardinality(Got(j)) \in Nat /\ Only(j, x, 0) = 0
  BY RefsOf DEF Only
<1> QED BY <1>1, <1>2

LEMMA QueuedSame ==
    ASSUME IInv, \A w \in LruWorkers : Pending(w)' = Pending(w), NEW x
    PROVE  QueuedBy(x, 0)
<1> SUFFICES ASSUME NEW j \in Items PROVE Cardinality(Queued(j)') = Cardinality(Queued(j)) + Only(j, x, 0)
  BY DEF QueuedBy
<1>1. Queued(j)' = Queued(j)
  BY SameQueues
<1>2. Cardinality(Queued(j)) \in Nat /\ Only(j, x, 0) = 0
  BY RefsOf DEF Only
<1> QED BY <1>1, <1>2

LEMMA SettlingSame ==
    ASSUME IInv, NEW x,
           \A p \in Pullers : /\ pull'[p].at = "settle" <=> pull[p].at = "settle"
                              /\ pull[p].at = "settle" => pull'[p].search = pull[p].search
    PROVE  SettlingBy(x, 0)
<1> SUFFICES ASSUME NEW j \in Items PROVE Cardinality(Settling(j)') = Cardinality(Settling(j)) + Only(j, x, 0)
  BY DEF SettlingBy
<1>1. Settling(j)' = Settling(j)
  BY DEF Settling, At
<1>2. Cardinality(Settling(j)) \in Nat /\ Only(j, x, 0) = 0
  BY RefsOf DEF Only
<1> QED BY <1>1, <1>2

LEMMA SearchSame ==
    ASSUME IInv, cr'.search = cr.search, NEW x
    PROVE  SearchBy(x, 0)
<1> SUFFICES ASSUME NEW j \in Items PROVE OneIf(cr'.search = j) = OneIf(cr.search = j) + Only(j, x, 0)
  BY DEF SearchBy
<1> QED BY DEF Only, OneIf

\* Lists in which one item has been put in, taken out or left.
LEMMA WholeStep ==
    ASSUME IInv, Sound, NEW x \in Items, UNCHANGED <<crawlers, crawler_count>>,
           \A l \in Lrus : Once(lists'[l]) /\ Range(lists'[l]) \ {x} = Range(lists[l]) \ {x},
           \A j \in Items : j # x => /\ items'[j].linked = items[j].linked /\ items'[j].lru = items[j].lru
                                     /\ InTransit(j)' <=> InTransit(j),
           \A l \in Lrus : x \in Range(lists'[l]) <=> items'[x].linked /\ ~InTransit(x)' /\ items'[x].lru = l,
           \A p \in Pullers : WalkOK(p)'
    PROVE  Whole'
<1>1. Whole
  BY DEF IInv
<1>2. ASSUME NEW l \in Lrus PROVE ListOK(l)'
  <2>1. /\ \A i \in Items : i \in Range(lists[l]) <=> items[i].linked /\ ~InTransit(i) /\ items[i].lru = l
        /\ Crawler \in Range(lists[l]) <=> l \in Swept /\ crawlers[l].on
    BY <1>1 DEF Whole, ListOK
  <2>2. Crawler # x
    BY LruNames
  <2>3. Crawler \in Range(lists'[l]) <=> l \in Swept /\ crawlers'[l].on
    BY <2>1, <2>2
  <2>4. ASSUME NEW i \in Items
        PROVE  i \in Range(lists'[l]) <=> items'[i].linked /\ ~InTransit(i)' /\ items'[i].lru = l
    <3>1. CASE i = x
      BY <3>1
    <3>2. CASE i # x
      <4>1. i \in Range(lists'[l]) <=> i \in Range(lists[l])
        BY <3>2
      <4> QED BY <4>1, <3>2, <2>1
    <3> QED BY <3>1, <3>2
  <2> QED BY <2>3, <2>4 DEF ListOK
<1>3. CountOK'
  BY <1>1 DEF Whole, CountOK
<1> QED BY <1>2, <1>3 DEF Whole

\* An item that is taken out of the list its header names, which it may be in none of.
LEMMA TakenOut ==
    ASSUME IInv, Sound, NEW x, NEW k \in Lrus \cup {""}
    PROVE  /\ UnlinkQ(lists, x, k) \in [Lrus -> Seq(Items \cup {Crawler})]
           /\ \A l \in Lrus : /\ Once(UnlinkQ(lists, x, k)[l])
                              /\ l # k => UnlinkQ(lists, x, k)[l] = lists[l]
                              /\ l = k => Range(UnlinkQ(lists, x, k)[l]) = Range(lists[l]) \ {x}
<1>1. lists \in [Lrus -> Seq(Items \cup {Crawler})] /\ \A l \in Lrus : Once(lists[l])
  BY DEF IInv, LruTypes, Whole, ListOK
<1>2. CASE k \in Lrus
  <2>1. Once(lists[k])
    BY <1>1, <1>2
  <2>2. /\ UnlinkQ(lists, x, k) \in [Lrus -> Seq(Items \cup {Crawler})]
        /\ \A l \in Lrus : l # k => UnlinkQ(lists, x, k)[l] = lists[l]
        /\ Once(UnlinkQ(lists, x, k)[k]) /\ Range(UnlinkQ(lists, x, k)[k]) = Range(lists[k]) \ {x}
    <3>1. PICK L \in [Lrus -> Seq(Items \cup {Crawler})] : L = lists /\ Once(L[k])
      BY <1>1, <2>1
    <3>2. PICK M : M = UnlinkQ(L, x, k)
      OBVIOUS
    <3>3. Unlinked(L, M, x, k)
      BY <1>2, <3>1, <3>2, UnlinkQIs
    <3> QED BY <3>1, <3>2, <3>3 DEF Unlinked
  <2>3. \A l \in Lrus : Once(UnlinkQ(lists, x, k)[l])
    BY <1>1, <2>2
  <2> QED BY <2>2, <2>3
<1>3. CASE k \notin Lrus
  <2>1. UnlinkQ(lists, x, k) = lists
    BY <1>1, <1>3 DEF UnlinkQ
  <2> QED BY <1>1, <1>3, <2>1
<1> QED BY <1>2, <1>3

LEMMA PutIn ==
    ASSUME IInv, Sound, NEW x \in Items, NEW k \in Lrus, x \notin Range(lists[k])
    PROVE  /\ LinkQ(lists, x, k) \in [Lrus -> Seq(Items \cup {Crawler})]
           /\ \A l \in Lrus : /\ Once(LinkQ(lists, x, k)[l])
                              /\ l # k => LinkQ(lists, x, k)[l] = lists[l]
                              /\ l = k => Range(LinkQ(lists, x, k)[l]) = Range(lists[l]) \cup {x}
<1>1. lists \in [Lrus -> Seq(Items \cup {Crawler})] /\ \A l \in Lrus : Once(lists[l])
  BY DEF IInv, LruTypes, Whole, ListOK
<1>2. PICK s \in Seq(Items \cup {Crawler}) : s = lists[k] /\ Once(s) /\ x \notin Range(s)
  BY <1>1
<1>3. /\ <<x>> \o s \in Seq(Items \cup {Crawler}) /\ Once(<<x>> \o s)
      /\ Range(<<x>> \o s) = Range(s) \cup {x}
  BY <1>2, PushedIs
<1>4. LinkQ(lists, x, k) = [lists EXCEPT ![k] = <<x>> \o s]
  BY <1>1, <1>2 DEF LinkQ
<1> QED BY <1>1, <1>2, <1>3, <1>4

\* Where an item is.
LEMMA ListedIs ==
    ASSUME IInv, Sound, NEW x \in Items, NEW l \in Lrus
    PROVE  x \in Range(lists[l]) <=> items[x].linked /\ ~InTransit(x) /\ items[x].lru = l
BY DEF IInv, Whole, ListOK

\* Walks of which the list has not changed.
LEMMA WalksKept ==
    ASSUME IInv, Sound, \A p \in Pullers : pull'[p].at = pull[p].at /\ pull'[p].lru = pull[p].lru
                                             /\ (pull[p].at = "walk" => pull'[p].search = pull[p].search),
           \A l \in Lrus : ~Unlocked(l) => lists'[l] = lists[l]
    PROVE  \A p \in Pullers : WalkOK(p)'
<1> SUFFICES ASSUME NEW p \in Pullers, pull[p].at = "walk"
             PROVE  pull[p].search = Nobody \/ pull[p].search \in Range(lists'[pull[p].lru])
  BY DEF WalkOK, At
<1>1. pull[p].lru \in Lrus /\ lru_lock[p] = pull[p].lru
  BY WalksAre DEF PullOK
<1>2. lists'[pull[p].lru] = lists[pull[p].lru]
  BY <1>1 DEF Unlocked
<1> QED BY <1>2, WalksAre

-----------------------------------------------------------------------------
(* What workers do to an item under its lock.                              *)

\* A worker lets go of the item lock.
LEMMA UnlockIs ==
    ASSUME IInv, NEW w \in LruWorkers, NEW i \in Items, Holds(w, i), NEW refs \in SUBSET Items,
           UnlockKeeping(w, i, refs)
    PROVE  /\ UNCHANGED <<clock, lru_lock, pull, mt, left>>
           /\ wk' \in [LruWorkers -> Work] /\ ilock' \in [Items -> Pullers \cup {CrawlerThread, Nobody}]
           /\ wk'[w].job.at = "idle" /\ wk'[w].got = refs
           /\ \A v \in LruWorkers : v # w => wk'[v] = wk[v]
           /\ \A j \in Items : j # i => ilock'[j] = ilock[j]
           /\ ilock[i] = w /\ pull[w].at = "" /\ Kept(i)
<1>1. /\ ilock' = [ilock EXCEPT ![i] = Nobody]
      /\ wk' = [wk EXCEPT ![w] = [job |-> Resting, got |-> refs]]
      /\ UNCHANGED <<clock, lru_lock, pull, mt, left>>
  BY DEF UnlockKeeping
<1>2. wk \in [LruWorkers -> Work] /\ ilock \in [Items -> Pullers \cup {CrawlerThread, Nobody}]
  BY DEF IInv, LruTypes
<1>3. [job |-> Resting, got |-> refs] \in Work
  BY DEF Work, Resting
<1>4. wk' \in [LruWorkers -> Work] /\ ilock' \in [Items -> Pullers \cup {CrawlerThread, Nobody}]
  BY <1>1, <1>2, <1>3
<1>5. /\ wk'[w].job.at = "idle" /\ wk'[w].got = refs
      /\ \A v \in LruWorkers : v # w => wk'[v] = wk[v]
      /\ \A j \in Items : j # i => ilock'[j] = ilock[j]
  BY <1>1, <1>2 DEF Resting
<1>6. wk[w].job.at = "locked" /\ wk[w].job.it = i
  BY DEF Holds
<1>7. ilock[i] = w /\ pull[w].at = ""
  BY <1>6, WorksAre
<1>8. Kept(i)
  BY DEF Kept
<1> QED BY <1>1, <1>4, <1>5, <1>7, <1>8

\* A queue of bumps only grows while the maintainer empties it.
Grown(w) == bumps'[w] \in Seq(Items) /\ Len(bumps'[w]) <= BumpSize /\ Len(bumps'[w]) >= Len(bumps[w])

LEMMA WorkerThreads ==
    ASSUME IInv, NEW w \in LruWorkers, NEW i \in Items, Holds(w, i), NEW refs \in SUBSET Items,
           UnlockKeeping(w, i, refs), UNCHANGED crawlVars,
           \A j \in Items : j # i => items'[j] = items[j],
           \A v \in LruWorkers : Grown(v)
    PROVE  ThreadsOK'
<1>a. /\ UNCHANGED <<clock, lru_lock, pull, mt, left>>
      /\ wk' \in [LruWorkers -> Work] /\ ilock' \in [Items -> Pullers \cup {CrawlerThread, Nobody}]
      /\ wk'[w].job.at = "idle" /\ wk'[w].got = refs
      /\ \A v \in LruWorkers : v # w => wk'[v] = wk[v]
      /\ \A j \in Items : j # i => ilock'[j] = ilock[j]
      /\ ilock[i] = w /\ pull[w].at = "" /\ Kept(i)
  BY UnlockIs
<1>1. /\ UNCHANGED <<lru_lock, pull, mt>>
      /\ wk'[w].job.at = "idle"
      /\ \A v \in LruWorkers : v # w => wk'[v] = wk[v]
      /\ \A j \in Items : j # i => ilock'[j] = ilock[j]
      /\ ilock[i] = w /\ pull[w].at = "" /\ Kept(i)
  BY <1>a
<1>2. \A p \in Pullers : pull[p].at = "settle" => pull[p].search # i
  BY <1>1, Apart
<1>3. \A p \in Pullers : PullOK(p)'
  <2> SUFFICES ASSUME NEW p \in Pullers PROVE PullOK(p)'
    OBVIOUS
  <2>1. PullOK(p)
    BY DEF IInv, ThreadsOK
  <2>2. ASSUME pull[p].at = "settle"
        PROVE  ilock'[pull[p].search] = ilock[pull[p].search] /\ items'[pull[p].search] = items[pull[p].search]
    <3>1. pull[p].search \in Items /\ pull[p].search # i
      BY <1>2, <2>1, <2>2 DEF PullOK, At
    <3> QED BY <3>1, <1>1
  <2> QED BY <1>1, <2>1, <2>2 DEF PullOK, At
<1>4. \A v \in LruWorkers : WorkOK(v)'
  <2> SUFFICES ASSUME NEW v \in LruWorkers PROVE WorkOK(v)'
    OBVIOUS
  <2>1. Len(bumps'[v]) <= BumpSize
    BY DEF Grown
  <2>2. CASE v = w
    BY <1>1, <2>1, <2>2 DEF WorkOK
  <2>3. CASE v # w
    <3>1. /\ wk[v].job.at = "locked" => wk[v].job.it \in Items /\ ilock[wk[v].job.it] = v
          /\ pull[v].at # "" => wk[v].job.at \in {"COLD", "HOT"}
      BY WorksAre
    <3>2. wk[v].job.at = "locked" => ilock'[wk[v].job.it] = v
      BY <1>1, <2>3, <3>1
    <3>3. wk'[v] = wk[v] /\ pull'[v] = pull[v]
      BY <1>1, <2>3
    <3> QED BY <2>1, <3>1, <3>2, <3>3 DEF WorkOK
  <2> QED BY <2>2, <2>3
<1>5. UpkeepOK'
  <2>1. UpkeepOK /\ mt' = mt /\ pull' = pull
    BY <1>1 DEF IInv, ThreadsOK
  <2>2. ASSUME mt.at = "bump" PROVE mt.size <= Len(bumps'[mt.cur])
    <3>1. mt.cur \in LruWorkers /\ mt.size <= Len(bumps[mt.cur])
      BY <2>1, <2>2 DEF UpkeepOK
    <3>2. PICK v \in LruWorkers : v = mt.cur
      BY <3>1
    <3>3. mt \in Upkeep /\ bumps[v] \in Seq(Items)
      BY TypesAre DEF IInv
    <3>4. PICK n \in Nat : n = mt.size
      BY <3>3 DEF Upkeep
    <3>5. Len(bumps'[v]) >= Len(bumps[v]) /\ bumps'[v] \in Seq(Items)
      BY DEF Grown
    <3>6. Len(bumps[v]) \in Nat
      BY <3>3
    <3>7. Len(bumps'[v]) \in Nat
      BY <3>5
    <3>8. n <= Len(bumps[v])
      BY <3>1, <3>2, <3>4
    <3>9. n <= Len(bumps'[v])
      BY <3>5, <3>6, <3>7, <3>8
    <3> QED BY <3>2, <3>4, <3>9
  <2> QED BY <2>1, <2>2 DEF UpkeepOK
<1>6. CrawlOK'
  <2>1. CrawlOK /\ cr' = cr /\ cbuf' = cbuf
    BY DEF IInv, ThreadsOK, crawlVars
  <2>2. w # CrawlerThread
    BY CrawlerAssumption DEF Pullers
  <2>3. cr.at = "dump" => cr.search # i
    BY <1>1, <2>1, <2>2 DEF CrawlOK
  <2> QED BY <1>1, <2>1, <2>3 DEF CrawlOK
<1> QED BY <1>3, <1>4, <1>5, <1>6 DEF ThreadsOK

\* A worker's step on the item it has locked.
LEMMA WorkerStep ==
    ASSUME IInv, Sound, NEW w \in LruWorkers, NEW i \in Items, Holds(w, i), NEW refs \in SUBSET Items,
           UnlockKeeping(w, i, refs), UNCHANGED crawlVars,
           items' \in [Items -> Header], lists' \in [Lrus -> Seq(Items \cup {Crawler})],
           bumps' \in [LruWorkers -> Seq(Items)], \A v \in LruWorkers : Grown(v),
           \A j \in Items : j # i => items'[j] = items[j],
           RefsExact', ActiveIsQueued',
           \A l \in Lrus : /\ Once(lists'[l]) /\ Range(lists'[l]) \ {i} = Range(lists[l]) \ {i}
                           /\ i \in Range(lists'[l]) <=> items'[i].linked /\ items'[i].lru = l
                           /\ ~Unlocked(l) => lists'[l] = lists[l]
    PROVE  IInv'
<1>1. /\ UNCHANGED <<clock, lru_lock, pull, mt, left>> /\ Kept(i)
      /\ wk' \in [LruWorkers -> Work] /\ ilock' \in [Items -> Pullers \cup {CrawlerThread, Nobody}]
  BY UnlockIs
<1>2. LruTypes'
  BY <1>1 DEF IInv, LruTypes
<1>3. CrawlTypes' /\ ClientReturned'
  BY CrawlTypesKept, ClientKept DEF IInv, crawlVars
<1>4. ThreadsOK'
  BY WorkerThreads
<1>5. \A j \in Items : InTransit(j)' <=> InTransit(j)
  BY <1>1 DEF InTransit, At
<1>6. ~InTransit(i)
  BY <1>1, Apart
<1>7. \A p \in Pullers : WalkOK(p)'
  BY <1>1, WalksKept
<1>8. UNCHANGED <<crawlers, crawler_count>>
  BY DEF crawlVars
<1>9. \A j \in Items : j # i => /\ items'[j].linked = items[j].linked /\ items'[j].lru = items[j].lru
                                /\ InTransit(j)' <=> InTransit(j)
  BY <1>5
<1>10. \A l \in Lrus : i \in Range(lists'[l]) <=> items'[i].linked /\ ~InTransit(i)' /\ items'[i].lru = l
  BY <1>5, <1>6
<1>11. \A l \in Lrus : Once(lists'[l]) /\ Range(lists'[l]) \ {i} = Range(lists[l]) \ {i}
  OBVIOUS
<1>12. Whole'
  BY <1>7, <1>8, <1>9, <1>10, <1>11, WholeStep
<1> QED BY <1>2, <1>3, <1>4, <1>12, Together

\* The counts that a step of a worker leaves alone, when the bumps do not change.
LEMMA WorkerCounts ==
    ASSUME IInv, NEW w \in LruWorkers, NEW i \in Items, Holds(w, i), NEW refs \in SUBSET Items,
           UnlockKeeping(w, i, refs), UNCHANGED crawlVars
    PROVE  /\ SettlingBy(i, 0)
           /\ SearchBy(i, 0)
           /\ bumps' = bumps => /\ QueuedBy(i, 0)
                                /\ \A v \in LruWorkers : Grown(v) /\ Pending(v)' = Pending(v)
                                /\ bumps' \in [LruWorkers -> Seq(Items)]
           /\ refs = wk[w].got =>
                 GotBy(i, 0)
<1>1. /\ UNCHANGED <<clock, lru_lock, pull, mt, left>>
      /\ wk' \in [LruWorkers -> Work] /\ ilock' \in [Items -> Pullers \cup {CrawlerThread, Nobody}]
      /\ wk'[w].job.at = "idle" /\ wk'[w].got = refs
      /\ \A v \in LruWorkers : v # w => wk'[v] = wk[v]
      /\ \A j \in Items : j # i => ilock'[j] = ilock[j]
      /\ ilock[i] = w /\ pull[w].at = "" /\ Kept(i)
  BY UnlockIs
<1>2. pull' = pull /\ mt' = mt
  BY <1>1
<1>3. SettlingBy(i, 0)
  BY <1>2, SettlingSame
<1>4. cr'.search = cr.search
  BY DEF crawlVars
<1>5. SearchBy(i, 0)
  BY <1>4, SearchSame
<1>6. ASSUME bumps' = bumps
      PROVE  /\ QueuedBy(i, 0)
             /\ \A v \in LruWorkers : Grown(v) /\ Pending(v)' = Pending(v)
             /\ bumps' \in [LruWorkers -> Seq(Items)]
  <2>1. \A v \in LruWorkers : Pending(v)' = Pending(v)
    BY <1>2, <1>6 DEF Pending
  <2>2. QueuedBy(i, 0)
    BY <2>1, QueuedSame
  <2>3. bumps' \in [LruWorkers -> Seq(Items)]
    BY <1>6 DEF IInv, LruTypes
  <2>4. ASSUME NEW v \in LruWorkers PROVE Grown(v)
    <3>1. bumps[v] \in Seq(Items)
      BY TypesAre DEF IInv
    <3>2. Len(bumps[v]) >= Len(bumps[v])
      BY <3>1
    <3>3. Len(bumps[v]) <= BumpSize
      BY WorksAre
    <3> QED BY <1>6, <3>1, <3>2, <3>3 DEF Grown
  <2> QED BY <2>1, <2>2, <2>3, <2>4
<1>7. ASSUME refs = wk[w].got
      PROVE  GotBy(i, 0)
  <2>1. \A v \in LruWorkers : wk'[v].got = wk[v].got
    BY <1>1, <1>7
  <2> QED BY <2>1, GotSame
<1> QED BY <1>3, <1>5, <1>6, <1>7

\* ACTIVE items of COLD are still queued when no queue has lost anything.
LEMMA ActiveStep ==
    ASSUME ActiveIsQueued, NEW x \in Items,
           \A j \in Items : j # x => items'[j] = items[j],
           \A w \in LruWorkers : Pending(w)' = Pending(w),
           items'[x].linked /\ items'[x].lru = "COLD" /\ items'[x].active =>
              items[x].linked /\ items[x].lru = "COLD" /\ items[x].active
    PROVE  ActiveIsQueued'
<1> SUFFICES ASSUME NEW i \in Items, items'[i].linked /\ items'[i].lru = "COLD" /\ items'[i].active
             PROVE  Queued(i)' # {}
  BY DEF ActiveIsQueued
<1>1. items[i].linked /\ items[i].lru = "COLD" /\ items[i].active
  OBVIOUS
<1>2. Queued(i)' = Queued(i)
  BY SameQueues
<1> QED BY <1>1, <1>2 DEF ActiveIsQueued

LEMMA StoreKeeps ==
    ASSUME IInv, Sound, NEW w \in LruWorkers, NEW i \in Items, Store(w, i), UNCHANGED crawlVars
    PROVE  IInv'
<1>1. PICK e \in Exptimes :
         LET l == IF left.temp_lru /\ (e - clock) % Word <= TempTtl THEN "TEMP" ELSE "HOT"
         IN  /\ Unlocked(l)
             /\ items' = [items EXCEPT ![i] = [Free EXCEPT !.lru = l, !.linked = TRUE, !.time = clock,
                                                           !.exp = e, !.ref = 1]]
             /\ lists' = LinkQ(lists, i, l)
  BY DEF Store
<1>2. PICK l \in Lrus :
             /\ Unlocked(l)
             /\ items' = [items EXCEPT ![i] = [Free EXCEPT !.lru = l, !.linked = TRUE, !.time = clock,
                                                           !.exp = e, !.ref = 1]]
             /\ lists' = LinkQ(lists, i, l)
  BY <1>1 DEF Lrus
<1>3. Holds(w, i) /\ items[i] = Free /\ UnlockKeeping(w, i, wk[w].got) /\ bumps' = bumps
  BY DEF Store
<1>4. wk[w].got \in SUBSET Items /\ items \in [Items -> Header] /\ clock \in Nat /\ wk[w] \in Work
  BY TypesAre DEF IInv, LruTypes, Work
<1>5. e \in Nat /\ 1 \in Nat
  BY LruAssumption
<1> DEFINE new == [Free EXCEPT !.lru = l, !.linked = TRUE, !.time = clock, !.exp = e, !.ref = 1]
<1>6. new \in Header /\ new.linked /\ new.lru = l /\ new.ref = 1 /\ ~new.active
  BY <1>4, <1>5, FreeIs DEF Header, Free
<1>7. items' = [items EXCEPT ![i] = new]
  BY <1>2
<1> HIDE DEF new
<1>8. items' \in [Items -> Header] /\ items'[i] = new /\ \A j \in Items : j # i => items'[j] = items[j]
  BY <1>4, <1>6, <1>7
<1>9. ~items[i].linked /\ items[i].ref = 0
  BY <1>3, FreeIs
<1>10. \A k \in Lrus : i \notin Range(lists[k]) /\ Once(lists[k])
  BY <1>9, ListedIs DEF IInv, Whole, ListOK
<1>11. /\ lists' \in [Lrus -> Seq(Items \cup {Crawler})]
       /\ \A k \in Lrus : k # l => lists'[k] = lists[k]
       /\ Once(lists'[l]) /\ Range(lists'[l]) = Range(lists[l]) \cup {i}
  <2>1. i \notin Range(lists[l])
    BY <1>10
  <2>2. /\ LinkQ(lists, i, l) \in [Lrus -> Seq(Items \cup {Crawler})]
        /\ \A k \in Lrus : /\ Once(LinkQ(lists, i, l)[k])
                           /\ k # l => LinkQ(lists, i, l)[k] = lists[k]
                           /\ k = l => Range(LinkQ(lists, i, l)[k]) = Range(lists[k]) \cup {i}
    BY <2>1, PutIn
  <2> QED BY <1>2, <2>2
<1>12. \A k \in Lrus : /\ Once(lists'[k]) /\ Range(lists'[k]) \ {i} = Range(lists[k]) \ {i}
                       /\ i \in Range(lists'[k]) <=> items'[i].linked /\ items'[i].lru = k
                       /\ ~Unlocked(k) => lists'[k] = lists[k]
  BY <1>2, <1>6, <1>8, <1>10, <1>11
<1>13. /\ SettlingBy(i, 0)
       /\ SearchBy(i, 0)
       /\ QueuedBy(i, 0)
       /\ \A v \in LruWorkers : Grown(v) /\ Pending(v)' = Pending(v)
       /\ bumps' \in [LruWorkers -> Seq(Items)]
       /\ GotBy(i, 0)
  BY <1>3, <1>4, WorkerCounts
<1>14. RefsExact'
  <2>1. LinkBy(i, 1)
    BY <1>6, <1>8, <1>9 DEF OneIf, LinkBy
  <2>2. items'[i].ref = items[i].ref + (1 + 0 + 0 + 0 + 0)
    BY <1>6, <1>8, <1>9
  <2>3. 0 \in Int /\ 1 \in Int
    OBVIOUS
  <2> QED BY <2>1, <2>2, <2>3, <1>8, <1>13, RefsStep
<1>15. ActiveIsQueued'
  BY <1>6, <1>8, <1>13, ActiveStep DEF IInv
<1> QED BY <1>3, <1>4, <1>8, <1>11, <1>12, <1>13, <1>14, <1>15, WorkerStep

LEMMA MinusOne == 0 \in Int /\ 1 \in Int /\ -1 \in Int
<1>1. -1 \in Int
  OBVIOUS
<1>2. 0 \in Int /\ 1 \in Int
  OBVIOUS
<1> QED BY <1>1, <1>2

\* An item is unlinked: it gives the reference of its link back.
LEMMA UnlinkItem ==
    ASSUME IInv, NEW x \in Items, items[x].linked, items' = do_item_unlink(items, x)
    PROVE  /\ items' \in [Items -> Header] /\ \A j \in Items : j # x => items'[j] = items[j]
           /\ LinkBy(x, -1) /\ ~items'[x].linked
           /\ items'[x].ref = items[x].ref + (-1 + 0 + 0 + 0 + 0)
<1>1. items \in [Items -> Header]
  BY DEF IInv, LruTypes
<1>2. PICK R \in Nat : R = items[x].ref /\ R >= 1
  <2>1. PICK G \in Nat : G = Cardinality(Got(x))
    BY RefsOf
  <2>2. PICK Q \in Nat : Q = Cardinality(Queued(x))
    BY RefsOf
  <2>3. PICK S \in Nat : S = Cardinality(Settling(x))
    BY RefsOf
  <2>4. PICK C \in {0, 1} : C = OneIf(cr.search = x)
    BY RefsOf
  <2>5. OneIf(items[x].linked) = 1
    BY DEF OneIf
  <2>6. items[x].ref = 1 + G + Q + S + C
    BY <2>1, <2>2, <2>3, <2>4, <2>5, RefsOf DEF Refs
  <2>7. 1 + G + Q + S + C \in Nat /\ 1 + G + Q + S + C >= 1
    OBVIOUS
  <2> QED BY <2>6, <2>7
<1>3. items[x].ref >= 1
  BY <1>2
<1>4. /\ items' \in [Items -> Header]
      /\ \A j \in Items : j # x => items'[j] = items[j]
      /\ items'[x].ref = items[x].ref - 1
      /\ ~items'[x].linked
  BY <1>1, <1>3, UnlinkedIs
<1>5. LinkBy(x, -1)
  BY <1>4 DEF LinkBy, OneIf
<1>6. items'[x].ref = items[x].ref + (-1 + 0 + 0 + 0 + 0)
  <2>1. R - 1 = R + (-1 + 0 + 0 + 0 + 0)
    OBVIOUS
  <2> QED BY <1>2, <1>4, <2>1
<1> QED BY <1>4, <1>5, <1>6

LEMMA UnlinkLists ==
    ASSUME IInv, Sound, NEW x \in Items, NEW k \in Lrus \cup {""}, k = items[x].lru, lists' = UnlinkQ(lists, x, k)
    PROVE  /\ lists' \in [Lrus -> Seq(Items \cup {Crawler})]
           /\ \A l \in Lrus : /\ Once(lists'[l]) /\ Range(lists'[l]) \ {x} = Range(lists[l]) \ {x}
                              /\ x \notin Range(lists'[l])
                              /\ l # k => lists'[l] = lists[l]
<1>1. /\ lists' \in [Lrus -> Seq(Items \cup {Crawler})]
      /\ \A l \in Lrus : /\ Once(lists'[l])
                         /\ l # k => lists'[l] = lists[l]
                         /\ l = k => Range(lists'[l]) = Range(lists[l]) \ {x}
  <2>1. /\ UnlinkQ(lists, x, k) \in [Lrus -> Seq(Items \cup {Crawler})]
        /\ \A l \in Lrus : /\ Once(UnlinkQ(lists, x, k)[l])
                           /\ l # k => UnlinkQ(lists, x, k)[l] = lists[l]
                           /\ l = k => Range(UnlinkQ(lists, x, k)[l]) = Range(lists[l]) \ {x}
    BY TakenOut
  <2> QED BY <2>1
<1>2. \A l \in Lrus : l # k => x \notin Range(lists[l])
  BY ListedIs
<1>3. ASSUME NEW l \in Lrus
      PROVE  Range(lists'[l]) \ {x} = Range(lists[l]) \ {x} /\ x \notin Range(lists'[l])
  <2>1. CASE l = k
    <3>1. Range(lists'[l]) = Range(lists[l]) \ {x}
      BY <1>1, <2>1
    <3> QED BY <3>1
  <2>2. CASE l # k
    <3>1. lists'[l] = lists[l] /\ x \notin Range(lists[l])
      BY <1>1, <1>2, <2>2
    <3> QED BY <3>1
  <2> QED BY <2>1, <2>2
<1> QED BY <1>1, <1>3

\* A worker unlinks the item: because a client deletes it, or because it has expired.
LEMMA WorkerUnlinks ==
    ASSUME IInv, Sound, NEW w \in LruWorkers, NEW i \in Items, Holds(w, i), UNCHANGED crawlVars,
           items[i].linked, Unlocked(items[i].lru), items' = do_item_unlink(items, i),
           lists' = UnlinkQ(lists, i, items[i].lru), UnlockKeeping(w, i, wk[w].got), bumps' = bumps
    PROVE  IInv'
<1>1. wk[w].got \in SUBSET Items /\ items[i].lru \in Lrus \cup {""}
  <2>1. wk[w] \in Work /\ items[i] \in Header
    BY TypesAre DEF IInv
  <2> QED BY <2>1 DEF Work, Header
<1>2. /\ items' \in [Items -> Header] /\ \A j \in Items : j # i => items'[j] = items[j]
      /\ LinkBy(i, -1) /\ ~items'[i].linked
      /\ items'[i].ref = items[i].ref + (-1 + 0 + 0 + 0 + 0)
  BY UnlinkItem
<1>3. PICK k \in Lrus \cup {""} : k = items[i].lru
  BY <1>1
<1>4. /\ lists' \in [Lrus -> Seq(Items \cup {Crawler})]
      /\ \A l \in Lrus : /\ Once(lists'[l]) /\ Range(lists'[l]) \ {i} = Range(lists[l]) \ {i}
                         /\ i \notin Range(lists'[l])
                         /\ l # k => lists'[l] = lists[l]
  BY <1>3, UnlinkLists
<1>5. \A l \in Lrus : /\ Once(lists'[l]) /\ Range(lists'[l]) \ {i} = Range(lists[l]) \ {i}
                      /\ i \in Range(lists'[l]) <=> items'[i].linked /\ items'[i].lru = l
                      /\ ~Unlocked(l) => lists'[l] = lists[l]
  BY <1>2, <1>3, <1>4
<1>6. /\ SettlingBy(i, 0) /\ SearchBy(i, 0)
      /\ bumps' = bumps => /\ QueuedBy(i, 0)
                           /\ \A v \in LruWorkers : Grown(v) /\ Pending(v)' = Pending(v)
                           /\ bumps' \in [LruWorkers -> Seq(Items)]
      /\ wk[w].got = wk[w].got => GotBy(i, 0)
  BY <1>1, WorkerCounts
<1>7. RefsExact'
  <2>1. 0 \in Int /\ -1 \in Int
    BY MinusOne
  <2> QED BY <2>1, <1>2, <1>6, RefsStep
<1>8. ActiveIsQueued'
  BY <1>2, <1>6, ActiveStep DEF IInv
<1> QED BY <1>1, <1>2, <1>4, <1>5, <1>6, <1>7, <1>8, WorkerStep

LEMMA ItemUnlinkKeeps ==
    ASSUME IInv, Sound, NEW w \in LruWorkers, NEW i \in Items, item_unlink(w, i), UNCHANGED crawlVars
    PROVE  IInv'
BY WorkerUnlinks DEF item_unlink

\* A worker's step that leaves the item linked or not as it was, and where it was.
LEMMA WorkerLeaves ==
    ASSUME IInv, Sound, NEW w \in LruWorkers, NEW i \in Items, Holds(w, i), NEW refs \in SUBSET Items,
           UnlockKeeping(w, i, refs), UNCHANGED crawlVars, lists' = lists,
           items' \in [Items -> Header], \A j \in Items : j # i => items'[j] = items[j],
           items'[i].linked = items[i].linked, items'[i].linked => items'[i].lru = items[i].lru,
           bumps' \in [LruWorkers -> Seq(Items)], \A v \in LruWorkers : Grown(v),
           RefsExact', ActiveIsQueued'
    PROVE  IInv'
<1>1. lists' \in [Lrus -> Seq(Items \cup {Crawler})] /\ \A l \in Lrus : Once(lists'[l])
  BY DEF IInv, LruTypes, Whole, ListOK
<1>2. Kept(i)
  BY DEF Kept
<1>3. ~InTransit(i)
  BY <1>2, Apart
<1>4. \A l \in Lrus : /\ Once(lists'[l]) /\ Range(lists'[l]) \ {i} = Range(lists[l]) \ {i}
                      /\ i \in Range(lists'[l]) <=> items'[i].linked /\ items'[i].lru = l
                      /\ ~Unlocked(l) => lists'[l] = lists[l]
  BY <1>1, <1>3, ListedIs
<1> QED BY <1>1, <1>4, WorkerStep

LEMMA GetMissKeeps ==
    ASSUME IInv, Sound, NEW w \in LruWorkers, NEW i \in Items, GetMiss(w, i), UNCHANGED crawlVars
    PROVE  IInv'
<1>1. Holds(w, i) /\ UnlockKeeping(w, i, wk[w].got) /\ bumps' = bumps
  BY DEF GetMiss
<1>2. CASE UNCHANGED <<items, lists>>
  <2>1. wk[w].got \in SUBSET Items
    BY TypesAre DEF IInv, Work
  <2>2. items' \in [Items -> Header] /\ items' = items /\ lists' = lists
    BY <1>2 DEF IInv, LruTypes
  <2>3. /\ SettlingBy(i, 0) /\ SearchBy(i, 0)
        /\ bumps' = bumps => /\ QueuedBy(i, 0)
                             /\ \A v \in LruWorkers : Grown(v) /\ Pending(v)' = Pending(v)
                             /\ bumps' \in [LruWorkers -> Seq(Items)]
        /\ wk[w].got = wk[w].got => GotBy(i, 0)
    BY <1>1, <2>1, WorkerCounts
  <2>4. LinkBy(i, 0) /\ items'[i].ref = items[i].ref + (0 + 0 + 0 + 0 + 0)
    <3>1. items[i].ref \in Nat /\ OneIf(items[i].linked) \in {0, 1}
      BY RefsOf
    <3>2. items[i].ref = items[i].ref + (0 + 0 + 0 + 0 + 0)
      BY <3>1
    <3>3. OneIf(items[i].linked) = OneIf(items[i].linked) + 0
      BY <3>1
    <3> QED BY <2>2, <3>2, <3>3 DEF LinkBy
  <2>5. RefsExact'
    <3>1. 0 \in Int
      OBVIOUS
    <3> QED BY <3>1, <1>1, <2>2, <2>3, <2>4, RefsStep
  <2>6. ActiveIsQueued'
    BY <1>1, <2>2, <2>3, ActiveStep DEF IInv
  <2> QED BY <1>1, <2>1, <2>2, <2>3, <2>5, <2>6, WorkerLeaves
<1>3. CASE /\ items[i].linked /\ Unlocked(items[i].lru) /\ items' = do_item_unlink(items, i)
           /\ lists' = UnlinkQ(lists, i, items[i].lru)
  BY <1>1, <1>3, WorkerUnlinks
<1> QED BY <1>2, <1>3 DEF GetMiss

\* What has a reference to an item, apart from its link.
Referred(x) == Cardinality(Got(x)) >= 1 \/ Cardinality(Queued(x)) >= 1 \/ Cardinality(Settling(x)) >= 1

LEMMA ReferredIs ==
    ASSUME IInv, NEW x \in Items, Referred(x)
    PROVE  items[x].ref >= 1 /\ items[x].ref \in Nat /\ (items[x].ref = 1 => ~items[x].linked)
<1>1. PICK G \in Nat : G = Cardinality(Got(x))
  BY RefsOf
<1>2. PICK Q \in Nat : Q = Cardinality(Queued(x))
  BY RefsOf
<1>3. PICK S \in Nat : S = Cardinality(Settling(x))
  BY RefsOf
<1>4. PICK C \in {0, 1} : C = OneIf(cr.search = x)
  BY RefsOf
<1>5. PICK L \in {0, 1} : L = OneIf(items[x].linked)
  BY RefsOf
<1>6. items[x].ref = L + G + Q + S + C
  BY <1>1, <1>2, <1>3, <1>4, <1>5, RefsOf DEF Refs
<1>7. G >= 1 \/ Q >= 1 \/ S >= 1
  BY <1>1, <1>2, <1>3 DEF Referred
<1>8. L + G + Q + S + C \in Nat /\ L + G + Q + S + C >= 1 /\ (L + G + Q + S + C = 1 => L = 0)
  BY <1>7
<1>9. L = 0 => ~items[x].linked
  BY <1>5 DEF OneIf
<1> QED BY <1>6, <1>8, <1>9

LEMMA SomeCard == ASSUME NEW A, IsFiniteSet(A) PROVE Cardinality(A) \in Nat /\ (A # {} <=> Cardinality(A) >= 1)
<1>1. Cardinality(A) \in Nat
  BY FS_CardinalityType
<1>2. Cardinality(A) = 0 <=> A = {}
  BY FS_EmptySet
<1> QED BY <1>1, <1>2

LEMMA QueuedSome == LruTypes => \A i \in Items : Queued(i) # {} <=> Cardinality(Queued(i)) >= 1
<1> SUFFICES ASSUME LruTypes, NEW i \in Items PROVE Queued(i) # {} <=> Cardinality(Queued(i)) >= 1
  OBVIOUS
<1>1. Queued(i) = Spots(Pend, i) /\ Pend \in Queues
  BY QueuesAre DEF QueuesFine
<1>2. IsFiniteSet(Queued(i))
  BY <1>1, SpotsFinite
<1> QED BY <1>2, SomeCard

LEMMA QueuedSomeNext == LruTypes' => (\A i \in Items : Queued(i) # {} <=> Cardinality(Queued(i)) >= 1)'
BY QueuedSome, PTL

\* A reference other than that of the link is given back.
Lowered(m, x) ==
    /\ items' \in [Items -> Header] /\ \A j \in Items : j # x => items'[j] = items[j]
    /\ LinkBy(x, 0) /\ items'[x].linked = items[x].linked
    /\ items'[x].ref = items[x].ref - 1
    /\ items'[x].linked => items'[x].lru = m[x].lru /\ items'[x].active = m[x].active
LEMMA LetGo ==
    ASSUME IInv, NEW x \in Items, Referred(x), NEW m \in [Items -> Header],
           \A j \in Items : j # x => m[j] = items[j],
           m[x].ref = items[x].ref, m[x].linked = items[x].linked, items' = do_item_remove(m, x)
    PROVE  Lowered(m, x)
<1>1. items[x].ref >= 1 /\ items[x].ref \in Nat /\ (items[x].ref = 1 => ~items[x].linked)
  BY ReferredIs
<1>2. /\ do_item_remove(m, x) \in [Items -> Header]
      /\ \A j \in Items : j # x => do_item_remove(m, x)[j] = m[j]
      /\ do_item_remove(m, x)[x].ref = m[x].ref - 1
      /\ m[x].ref = 1 => do_item_remove(m, x)[x] = Free
      /\ m[x].ref # 1 => /\ do_item_remove(m, x)[x].linked = m[x].linked
                         /\ do_item_remove(m, x)[x].lru = m[x].lru
                         /\ do_item_remove(m, x)[x].active = m[x].active
  BY <1>1, RemoveIs
<1>3. /\ items' \in [Items -> Header]
      /\ \A j \in Items : j # x => items'[j] = items[j]
      /\ items'[x].ref = items[x].ref - 1
  BY <1>2
<1>4. items'[x].linked = items[x].linked /\ (items'[x].linked => items'[x].lru = m[x].lru /\ items'[x].active = m[x].active)
  <2>1. CASE items[x].ref = 1
    <3>1. ~items'[x].linked /\ ~items[x].linked
      BY <1>1, <1>2, <2>1, FreeIs
    <3>2. items[x] \in Header /\ items'[x] \in Header
      BY <1>3, TypesAre DEF IInv
    <3>3. items[x].linked \in BOOLEAN /\ items'[x].linked \in BOOLEAN
      BY <3>2 DEF Header
    <3> QED BY <3>1, <3>3
  <2>2. CASE items[x].ref # 1
    BY <1>2, <2>2
  <2> QED BY <2>1, <2>2
<1>5. LinkBy(x, 0)
  <2>1. OneIf(items'[x].linked) = OneIf(items[x].linked) /\ OneIf(items[x].linked) \in {0, 1}
    BY <1>4, RefsOf
  <2>2. OneIf(items[x].linked) = OneIf(items[x].linked) + 0
    BY <2>1
  <2> QED BY <2>1, <2>2 DEF LinkBy
<1> QED BY <1>3, <1>4, <1>5 DEF Lowered

LEMMA RefsFall ==
    ASSUME IInv, NEW x \in Items, NEW g \in Int, NEW q \in Int, NEW s \in Int, g + q + s = -1,
           \A j \in Items : j # x => items'[j] = items[j],
           LinkBy(x, 0), GotBy(x, g), QueuedBy(x, q), SettlingBy(x, s), SearchBy(x, 0),
           items'[x].ref = items[x].ref - 1
    PROVE  RefsExact'
<1>1. PICK R \in Nat : R = items[x].ref
  BY RefsOf
<1>2. R - 1 = R + (0 + g + q + s + 0)
  OBVIOUS
<1>3. items'[x].ref = items[x].ref + (0 + g + q + s + 0)
  BY <1>1, <1>2
<1>4. 0 \in Int
  OBVIOUS
<1> QED BY <1>3, <1>4, RefsStep

\* A worker's references to one item change.
LEMMA GotMoves ==
    ASSUME IInv, NEW w \in LruWorkers, NEW i \in Items, NEW refs \in SUBSET Items, NEW d \in Int,
           wk'[w].got = refs, \A v \in LruWorkers : v # w => wk'[v] = wk[v],
           refs \ {i} = wk[w].got \ {i}, d = OneIf(i \in refs) - OneIf(i \in wk[w].got)
    PROVE  GotBy(i, d)
<1> SUFFICES ASSUME NEW j \in Items PROVE Cardinality(Got(j)') = Cardinality(Got(j)) + Only(j, i, d)
  BY DEF GotBy
<1>1. \A v \in LruWorkers : v # w => wk'[v].got = wk[v].got
  OBVIOUS
<1>2. /\ Cardinality(Got(j)) \in Nat /\ Cardinality(Got(j)') \in Nat
      /\ Cardinality(Got(j)') = Cardinality(Got(j)) - OneIf(j \in wk[w].got) + OneIf(j \in wk'[w].got)
  BY <1>1, GotChange
<1>3. PICK A \in Nat : A = Cardinality(Got(j))
  BY <1>2
<1>4. PICK a \in {0, 1} : a = OneIf(j \in wk[w].got)
  BY DEF OneIf
<1>5. PICK b \in {0, 1} : b = OneIf(j \in refs)
  BY DEF OneIf
<1>6. Cardinality(Got(j)') = A - a + b
  BY <1>2, <1>3, <1>4, <1>5
<1>7. CASE j = i
  <2>1. d = b - a
    BY <1>4, <1>5, <1>7
  <2>2. Only(j, i, d) = b - a
    BY <2>1, <1>7 DEF Only
  <2>3. A - a + b = A + (b - a)
    OBVIOUS
  <2> QED BY <1>3, <1>6, <2>2, <2>3
<1>8. CASE j # i
  <2>1. a = b
    BY <1>4, <1>5, <1>8
  <2>2. Only(j, i, d) = 0
    BY <1>8 DEF Only
  <2>3. A - a + b = A + 0
    BY <2>1
  <2> QED BY <1>3, <1>6, <2>2, <2>3
<1> QED BY <1>7, <1>8

LEMMA ItemRemoveKeeps ==
    ASSUME IInv, Sound, NEW w \in LruWorkers, NEW i \in Items, item_remove(w, i), UNCHANGED crawlVars
    PROVE  IInv'
<1>0. PICK refs \in SUBSET Items : refs = wk[w].got \ {i}
  <2>1. wk[w].got \in SUBSET Items
    BY TypesAre DEF IInv, Work
  <2> QED BY <2>1
<1>1. /\ Holds(w, i) /\ i \in wk[w].got /\ items' = do_item_remove(items, i)
      /\ UnlockKeeping(w, i, refs) /\ lists' = lists /\ bumps' = bumps
  BY <1>0 DEF item_remove
<1>3. Referred(i)
  <2>1. Got(i) # {} /\ IsFiniteSet(Got(i))
    BY <1>1, CountsFinite DEF Got
  <2> QED BY <2>1, SomeCard DEF Referred
<1>4. /\ items' \in [Items -> Header] /\ \A j \in Items : j # i => items'[j] = items[j]
      /\ LinkBy(i, 0) /\ items'[i].linked = items[i].linked
      /\ items'[i].ref = items[i].ref - 1
      /\ items'[i].linked => items'[i].lru = items[i].lru /\ items'[i].active = items[i].active
  <2>1. items \in [Items -> Header]
    BY DEF IInv, LruTypes
  <2>2. Lowered(items, i)
    BY <1>1, <1>3, <2>1, LetGo
  <2> QED BY <2>2 DEF Lowered
<1>5. wk'[w].got = refs /\ \A v \in LruWorkers : v # w => wk'[v] = wk[v]
  <2>1. /\ UNCHANGED <<clock, lru_lock, pull, mt, left>>
        /\ wk' \in [LruWorkers -> Work] /\ ilock' \in [Items -> Pullers \cup {CrawlerThread, Nobody}]
        /\ wk'[w].job.at = "idle" /\ wk'[w].got = refs
        /\ \A v \in LruWorkers : v # w => wk'[v] = wk[v]
        /\ \A j \in Items : j # i => ilock'[j] = ilock[j]
        /\ ilock[i] = w /\ pull[w].at = "" /\ Kept(i)
    BY <1>1, UnlockIs
  <2> QED BY <2>1
<1>6. GotBy(i, -1)
  <2>1. -1 = OneIf(i \in refs) - OneIf(i \in wk[w].got)
    BY <1>0, <1>1 DEF OneIf
  <2>2. -1 \in Int
    OBVIOUS
  <2>3. refs \ {i} = wk[w].got \ {i}
    BY <1>0
  <2> QED BY <1>5, <2>1, <2>2, <2>3, GotMoves
<1>7. /\ SettlingBy(i, 0) /\ SearchBy(i, 0)
      /\ bumps' = bumps => /\ QueuedBy(i, 0)
                           /\ \A v \in LruWorkers : Grown(v) /\ Pending(v)' = Pending(v)
                           /\ bumps' \in [LruWorkers -> Seq(Items)]
      /\ refs = wk[w].got => GotBy(i, 0)
  BY <1>1, WorkerCounts
<1>8. RefsExact'
  <2>1. 0 \in Int
    OBVIOUS
  <2>2. -1 \in Int
    OBVIOUS
  <2>3. -1 + 0 + 0 = -1
    OBVIOUS
  <2> QED BY <1>1, <1>4, <1>6, <1>7, <2>1, <2>2, <2>3, RefsFall
<1>9. ActiveIsQueued'
  BY <1>1, <1>4, <1>7, ActiveStep DEF IInv
<1> QED BY <1>1, <1>4, <1>7, <1>8, <1>9, WorkerLeaves

\* A hit that queues no bump.
LEMMA HitKeeps ==
    ASSUME IInv, Sound, NEW w \in LruWorkers, NEW i \in Items, Holds(w, i), UNCHANGED crawlVars,
           i \notin wk[w].got, UnlockKeeping(w, i, wk[w].got \cup {i}), lists' = lists, bumps' = bumps,
           items' \in [Items -> Header], \A j \in Items : j # i => items'[j] = items[j],
           items'[i].ref = items[i].ref + 1, items'[i].linked = items[i].linked, items'[i].lru = items[i].lru,
           items[i].lru = "COLD" => items'[i].active = items[i].active
    PROVE  IInv'
<1>0. PICK refs \in SUBSET Items : refs = wk[w].got \cup {i}
  <2>1. wk[w].got \in SUBSET Items
    BY TypesAre DEF IInv, Work
  <2> QED BY <2>1
<1>1. UnlockKeeping(w, i, refs)
  BY <1>0
<1>2. wk'[w].got = refs /\ \A v \in LruWorkers : v # w => wk'[v] = wk[v]
  <2>1. /\ UNCHANGED <<clock, lru_lock, pull, mt, left>>
        /\ wk' \in [LruWorkers -> Work] /\ ilock' \in [Items -> Pullers \cup {CrawlerThread, Nobody}]
        /\ wk'[w].job.at = "idle" /\ wk'[w].got = refs
        /\ \A v \in LruWorkers : v # w => wk'[v] = wk[v]
        /\ \A j \in Items : j # i => ilock'[j] = ilock[j]
        /\ ilock[i] = w /\ pull[w].at = "" /\ Kept(i)
    BY <1>1, UnlockIs
  <2> QED BY <2>1
<1>3. GotBy(i, 1)
  <2>1. 1 = OneIf(i \in refs) - OneIf(i \in wk[w].got) /\ 1 \in Int
    BY <1>0 DEF OneIf
  <2>2. refs \ {i} = wk[w].got \ {i}
    BY <1>0
  <2> QED BY <1>2, <2>1, <2>2, GotMoves
<1>4. /\ SettlingBy(i, 0) /\ SearchBy(i, 0)
      /\ bumps' = bumps => /\ QueuedBy(i, 0)
                           /\ \A v \in LruWorkers : Grown(v) /\ Pending(v)' = Pending(v)
                           /\ bumps' \in [LruWorkers -> Seq(Items)]
      /\ refs = wk[w].got => GotBy(i, 0)
  BY <1>1, WorkerCounts
<1>5. RefsExact'
  <2>1. LinkBy(i, 0)
    <3>1. OneIf(items'[i].linked) = OneIf(items[i].linked) /\ OneIf(items[i].linked) \in {0, 1}
      BY RefsOf
    <3>2. OneIf(items[i].linked) = OneIf(items[i].linked) + 0
      BY <3>1
    <3> QED BY <3>1, <3>2 DEF LinkBy
  <2>2. items'[i].ref = items[i].ref + (0 + 1 + 0 + 0 + 0)
    OBVIOUS
  <2>3. 0 \in Int /\ 1 \in Int
    OBVIOUS
  <2> QED BY <1>3, <1>4, <2>1, <2>2, <2>3, RefsStep
<1>6. ActiveIsQueued'
  BY <1>4, ActiveStep DEF IInv
<1> QED BY <1>1, <1>4, <1>5, <1>6, WorkerLeaves

LEMMA AppendIs ==
    ASSUME NEW r \in Seq(Items), NEW i \in Items
    PROVE  /\ Append(r, i) \in Seq(Items) /\ Len(Append(r, i)) = Len(r) + 1
           /\ \A k \in 1 .. Len(r) + 1 : Append(r, i)[k] = IF k = Len(r) + 1 THEN i ELSE r[k]
OBVIOUS

LEMMA RestOfAppend ==
    ASSUME NEW b \in Seq(Items), NEW i \in Items, NEW n \in 0 .. Len(b)
    PROVE  SubSeq(Append(b, i), n + 1, Len(Append(b, i))) = Append(SubSeq(b, n + 1, Len(b)), i)
<1> DEFINE c == Append(b, i)
           r == SubSeq(b, n + 1, Len(b))
           u == SubSeq(c, n + 1, Len(c))
           v == Append(r, i)
<1>1. c \in Seq(Items) /\ Len(c) = Len(b) + 1 /\ \A k \in 1 .. Len(b) + 1 : c[k] = IF k = Len(b) + 1 THEN i ELSE b[k]
  OBVIOUS
<1>2. r \in Seq(Items) /\ Len(r) = Len(b) - n /\ \A k \in 1 .. Len(b) - n : r[k] = b[n + k]
  OBVIOUS
<1> HIDE DEF c, r
<1>3. u \in Seq(Items) /\ Len(u) = Len(c) - n /\ \A k \in 1 .. Len(c) - n : u[k] = c[n + k]
  BY <1>1
<1>4. v \in Seq(Items) /\ Len(v) = Len(r) + 1 /\ \A k \in 1 .. Len(r) + 1 : v[k] = IF k = Len(r) + 1 THEN i ELSE r[k]
  BY <1>2, AppendIs
<1> HIDE DEF u, v
<1>5. Len(u) = Len(v) /\ Len(u) = Len(b) + 1 - n
  BY <1>1, <1>2, <1>3, <1>4
<1>6. ASSUME NEW k \in 1 .. Len(u) PROVE u[k] = v[k]
  <2>0. Len(b) \in Nat
    OBVIOUS
  <2>1. k \in 1 .. Len(b) + 1 - n
    BY <1>5
  <2>4. k \in 1 .. Len(c) - n /\ n + k \in 1 .. Len(b) + 1
    BY <2>0, <2>1, <1>1
  <2>5. u[k] = c[n + k]
    BY <2>4, <1>3
  <2>2. CASE n + k = Len(b) + 1
    <3>1. k = Len(r) + 1 /\ k \in 1 .. Len(r) + 1
      BY <2>0, <2>1, <2>2, <1>2
    <3>2. c[n + k] = i
      BY <2>2, <2>4, <1>1
    <3> QED BY <3>1, <3>2, <2>5, <1>4
  <2>3. CASE n + k # Len(b) + 1
    <3>1. k \in 1 .. Len(b) - n
      BY <2>0, <2>1, <2>3
    <3>2. k \in 1 .. Len(r) + 1 /\ k # Len(r) + 1
      BY <2>0, <3>1, <1>2
    <3>3. v[k] = r[k] /\ r[k] = b[n + k]
      BY <3>1, <3>2, <1>2, <1>4
    <3>4. c[n + k] = b[n + k]
      BY <2>3, <2>4, <1>1
    <3> QED BY <3>3, <3>4, <2>5
  <2> QED BY <2>2, <2>3
<1>7. u = v
  BY <1>3, <1>4, <1>5, <1>6
<1> QED BY <1>7 DEF u, v, c, r

\* A worker's buffer takes one more bump: so do the bumps that are still to be applied.
LEMMA PendingGrows ==
    ASSUME IInv, NEW w \in LruWorkers, NEW i \in Items, mt' = mt,
           bumps' = [bumps EXCEPT ![w] = Append(bumps[w], i)]
    PROVE  /\ Pending(w)' = Append(Pending(w), i)
           /\ \A v \in LruWorkers : v # w => Pending(v)' = Pending(v)
<1>1. bumps \in [LruWorkers -> Seq(Items)] /\ mt \in Upkeep
  BY DEF IInv, LruTypes
<1>2. bumps'[w] = Append(bumps[w], i) /\ \A v \in LruWorkers : v # w => bumps'[v] = bumps[v]
  BY <1>1
<1>3. \A v \in LruWorkers : v # w => Pending(v)' = Pending(v)
  BY <1>2 DEF Pending
<1>4. PICK b \in Seq(Items) : b = bumps[w]
  BY <1>1
<1>5. CASE mt.cur = w
  <2>1. mt.size <= Len(bumps[w])
    <3>1. w # Nobody
      BY LruNames DEF Pullers
    <3> QED BY <3>1, <1>5 DEF IInv, ThreadsOK, UpkeepOK
  <2>2. PICK n \in 0 .. Len(b) : n = mt.size
    <3>1. mt.size \in Nat
      BY <1>1 DEF Upkeep
    <3> QED BY <3>1, <2>1, <1>4
  <2>3. PICK t \in Seq(Items) : t = mt.todo
    BY <1>1 DEF Upkeep
  <2>4. SubSeq(Append(b, i), n + 1, Len(Append(b, i))) = Append(SubSeq(b, n + 1, Len(b)), i)
    BY RestOfAppend
  <2>5. SubSeq(b, n + 1, Len(b)) \in Seq(Items)
    OBVIOUS
  <2>6. \A r \in Seq(Items) : t \o Append(r, i) = Append(t \o r, i)
    OBVIOUS
  <2>7. Pending(w) = t \o SubSeq(b, n + 1, Len(b))
    BY <1>4, <1>5, <2>2, <2>3 DEF Pending
  <2>8. Pending(w)' = t \o SubSeq(Append(b, i), n + 1, Len(Append(b, i)))
    BY <1>2, <1>4, <1>5, <2>2, <2>3 DEF Pending
  <2> QED BY <1>3, <2>4, <2>5, <2>6, <2>7, <2>8
<1>6. CASE mt.cur # w
  BY <1>2, <1>3, <1>6 DEF Pending
<1> QED BY <1>5, <1>6

\* The bumps of one worker grow by one.
LEMMA QueuedGrows ==
    ASSUME LruTypes, LruTypes', NEW w \in LruWorkers, NEW i \in Items,
           Pending(w)' = Append(Pending(w), i), \A v \in LruWorkers : v # w => Pending(v)' = Pending(v)
    PROVE  QueuedBy(i, 1)
<1>1. QueuesFine /\ QueuesFine'
  BY QueuesAre, QueuesAreNext
<1>2. PICK P \in Queues : P = Pend
  BY <1>1 DEF QueuesFine
<1>3. PICK Q \in Queues : Q = Pend'
  BY <1>1 DEF QueuesFine
<1>4. Q[w] = Append(P[w], i) /\ \A v \in LruWorkers : v # w => Q[v] = P[v]
  BY <1>2, <1>3 DEF Pend
<1>5. \A j \in Items : Queued(j) = Spots(P, j)
  BY <1>1, <1>2 DEF QueuesFine
<1>6. \A j \in Items : Queued(j)' = Spots(Q, j)
  BY <1>1, <1>3 DEF QueuesFine
<1>7. \A j : Cardinality(Spots(Q, j)) = Cardinality(Spots(P, j)) + (IF j = i THEN 1 ELSE 0)
  BY <1>4, SpotsAppend
<1> QED BY <1>5, <1>6, <1>7 DEF QueuedBy, Only

\* Queues that only grow keep the ACTIVE items of COLD queued.
LEMMA ActiveGrows ==
    ASSUME IInv, LruTypes', NEW x \in Items, NEW d \in Nat, QueuedBy(x, d),
           \A j \in Items : j # x => items'[j] = items[j],
           d >= 1 \/ (items'[x].linked /\ items'[x].lru = "COLD" /\ items'[x].active =>
                         items[x].linked /\ items[x].lru = "COLD" /\ items[x].active)
    PROVE  ActiveIsQueued'
<1> SUFFICES ASSUME NEW j \in Items, items'[j].linked /\ items'[j].lru = "COLD" /\ items'[j].active
             PROVE  Queued(j)' # {}
  BY DEF ActiveIsQueued
<1>1. PICK n \in Nat : n = Cardinality(Queued(j))
  BY RefsOf
<1>2. Cardinality(Queued(j)') = n + Only(j, x, d)
  BY <1>1 DEF QueuedBy
<1>3. (Queued(j)' # {}) <=> Cardinality(Queued(j)') >= 1
  BY QueuedSomeNext
<1>4. CASE j = x /\ d >= 1
  <2>1. n + d >= 1
    BY <1>4
  <2> QED BY <1>2, <1>3, <1>4, <2>1 DEF Only
<1>5. CASE ~(j = x /\ d >= 1)
  <2>1. items[j].linked /\ items[j].lru = "COLD" /\ items[j].active
    BY <1>5
  <2>2. Queued(j) # {}
    BY <2>1 DEF IInv, ActiveIsQueued
  <2>3. n >= 1
    BY <1>1, <2>2, QueuedSome DEF IInv
  <2>4. Only(j, x, d) \in Nat
    BY DEF Only
  <2>5. n + Only(j, x, d) >= 1
    BY <2>3, <2>4
  <2> QED BY <1>2, <1>3, <2>5
<1> QED BY <1>4, <1>5

\* A hit on an item of COLD queues a bump, which has a reference of its own.
LEMMA BumpQueuedKeeps ==
    ASSUME IInv, Sound, NEW w \in LruWorkers, NEW i \in Items, Holds(w, i), UNCHANGED crawlVars,
           i \notin wk[w].got, UnlockKeeping(w, i, wk[w].got \cup {i}), lists' = lists,
           Len(bumps[w]) < BumpSize, bumps' = [bumps EXCEPT ![w] = Append(bumps[w], i)],
           items' \in [Items -> Header], \A j \in Items : j # i => items'[j] = items[j],
           items'[i].ref = items[i].ref + 2, items'[i].linked = items[i].linked, items'[i].lru = items[i].lru
    PROVE  IInv'
<1>0. PICK refs \in SUBSET Items : refs = wk[w].got \cup {i}
  <2>1. wk[w].got \in SUBSET Items
    BY TypesAre DEF IInv, Work
  <2> QED BY <2>1
<1>1. UnlockKeeping(w, i, refs)
  BY <1>0
<1>2. /\ UNCHANGED <<clock, lru_lock, pull, mt, left>>
      /\ wk' \in [LruWorkers -> Work] /\ ilock' \in [Items -> Pullers \cup {CrawlerThread, Nobody}]
      /\ wk'[w].job.at = "idle" /\ wk'[w].got = refs
      /\ \A v \in LruWorkers : v # w => wk'[v] = wk[v]
      /\ \A j \in Items : j # i => ilock'[j] = ilock[j]
      /\ ilock[i] = w /\ pull[w].at = "" /\ Kept(i)
  BY <1>1, UnlockIs
<1>3. GotBy(i, 1)
  <2>1. 1 = OneIf(i \in refs) - OneIf(i \in wk[w].got) /\ 1 \in Int
    BY <1>0 DEF OneIf
  <2>2. refs \ {i} = wk[w].got \ {i}
    BY <1>0
  <2> QED BY <1>2, <2>1, <2>2, GotMoves
<1>4. /\ SettlingBy(i, 0) /\ SearchBy(i, 0)
      /\ bumps' = bumps => /\ QueuedBy(i, 0)
                           /\ \A v \in LruWorkers : Grown(v) /\ Pending(v)' = Pending(v)
                           /\ bumps' \in [LruWorkers -> Seq(Items)]
      /\ refs = wk[w].got => GotBy(i, 0)
  BY <1>1, WorkerCounts
<1>5. \A v \in LruWorkers : bumps[v] \in Seq(Items) /\ Len(bumps[v]) <= BumpSize
  BY TypesAre, WorksAre DEF IInv
<1>6. bumps \in [LruWorkers -> Seq(Items)] /\ BumpSize \in Nat
  BY LruAssumption DEF IInv, LruTypes
<1>7. Append(bumps[w], i) \in Seq(Items) /\ Len(Append(bumps[w], i)) = Len(bumps[w]) + 1
  BY <1>5, AppendIs
<1>8. bumps' \in [LruWorkers -> Seq(Items)]
  BY <1>6, <1>7
<1>9. ASSUME NEW v \in LruWorkers PROVE Grown(v)
  <2>1. Len(bumps[v]) \in Nat
    BY <1>5
  <2>2. CASE v = w
    <3>1. bumps'[v] = Append(bumps[w], i)
      BY <1>6, <2>2
    <3>2. PICK n \in Nat : n = Len(bumps[w])
      BY <2>1, <2>2
    <3>3. n + 1 <= BumpSize /\ n + 1 >= n
      BY <1>6, <3>2
    <3>4. Len(bumps'[v]) = n + 1 /\ Len(bumps[v]) = n
      BY <1>7, <2>2, <3>1, <3>2
    <3>5. bumps'[v] \in Seq(Items)
      BY <1>7, <3>1
    <3>6. Len(bumps'[v]) <= BumpSize /\ Len(bumps'[v]) >= Len(bumps[v])
      BY <3>3, <3>4
    <3> QED BY <3>5, <3>6 DEF Grown
  <2>3. CASE v # w
    <3>1. bumps'[v] = bumps[v]
      BY <1>6, <2>3
    <3>2. Len(bumps[v]) >= Len(bumps[v])
      BY <2>1
    <3> QED BY <1>5, <3>1, <3>2 DEF Grown
  <2> QED BY <2>2, <2>3
<1>10. LruTypes'
  <2>1. lists' \in [Lrus -> Seq(Items \cup {Crawler})]
    BY DEF IInv, LruTypes
  <2> QED BY <1>2, <1>8, <2>1 DEF IInv, LruTypes
<1>11. QueuedBy(i, 1)
  <2>1. /\ Pending(w)' = Append(Pending(w), i)
        /\ \A v \in LruWorkers : v # w => Pending(v)' = Pending(v)
    BY <1>2, PendingGrows
  <2> QED BY <1>10, <2>1, QueuedGrows DEF IInv
<1>12. RefsExact'
  <2>1. LinkBy(i, 0)
    <3>1. OneIf(items'[i].linked) = OneIf(items[i].linked) /\ OneIf(items[i].linked) \in {0, 1}
      BY RefsOf
    <3>2. OneIf(items[i].linked) = OneIf(items[i].linked) + 0
      BY <3>1
    <3> QED BY <3>1, <3>2 DEF LinkBy
  <2>2. items'[i].ref = items[i].ref + (0 + 1 + 1 + 0 + 0)
    OBVIOUS
  <2>3. 0 \in Int /\ 1 \in Int
    OBVIOUS
  <2> QED BY <1>3, <1>4, <1>11, <2>1, <2>2, <2>3, RefsStep
<1>13. ActiveIsQueued'
  <2>1. 1 \in Nat /\ 1 >= 1
    OBVIOUS
  <2> QED BY <1>10, <1>11, <2>1, ActiveGrows
<1> QED BY <1>1, <1>8, <1>9, <1>12, <1>13, WorkerLeaves

\* Fields of a header that are changed.
Held(m, i) == [m EXCEPT ![i].ref = @ + 1]
Marked(m, i, b) == [m EXCEPT ![i].active = b]
Fetched(m, i) == [m EXCEPT ![i].fetched = TRUE]
Timed(m, i, t) == [m EXCEPT ![i].time = t]
Placed(m, i, l) == [m EXCEPT ![i].lru = l]

LEMMA HeldIs ==
    ASSUME NEW m \in [Items -> Header], NEW i \in Items
    PROVE  /\ Held(m, i) \in [Items -> Header] /\ \A j \in Items : j # i => Held(m, i)[j] = m[j]
           /\ Held(m, i)[i].ref = m[i].ref + 1 /\ Held(m, i)[i].linked = m[i].linked
           /\ Held(m, i)[i].lru = m[i].lru /\ Held(m, i)[i].active = m[i].active
<1>1. PICK h \in Header : h = m[i]
  OBVIOUS
<1>2. [h EXCEPT !.ref = @ + 1] \in Header
  <2>1. h.ref \in Nat
    BY DEF Header
  <2>2. PICK n \in Nat : n = h.ref + 1
    BY <2>1
  <2>3. [h EXCEPT !.ref = n] \in Header
    BY DEF Header
  <2> QED BY <2>2, <2>3
<1>3. Held(m, i) = [m EXCEPT ![i] = [h EXCEPT !.ref = @ + 1]]
  BY <1>1 DEF Held
<1>4. Held(m, i)[i] = [h EXCEPT !.ref = @ + 1]
  BY <1>3
<1>5. Held(m, i) \in [Items -> Header] /\ \A j \in Items : j # i => Held(m, i)[j] = m[j]
  BY <1>2, <1>3
<1>6. /\ [h EXCEPT !.ref = @ + 1].ref = h.ref + 1 /\ [h EXCEPT !.ref = @ + 1].linked = h.linked
      /\ [h EXCEPT !.ref = @ + 1].lru = h.lru /\ [h EXCEPT !.ref = @ + 1].active = h.active
  BY DEF Header
<1> QED BY <1>1, <1>4, <1>5, <1>6

LEMMA MarkedIs ==
    ASSUME NEW m \in [Items -> Header], NEW i \in Items, NEW b \in BOOLEAN
    PROVE  /\ Marked(m, i, b) \in [Items -> Header] /\ \A j \in Items : j # i => Marked(m, i, b)[j] = m[j]
           /\ Marked(m, i, b)[i].ref = m[i].ref /\ Marked(m, i, b)[i].linked = m[i].linked
           /\ Marked(m, i, b)[i].lru = m[i].lru /\ Marked(m, i, b)[i].active = b
<1>1. PICK h \in Header : h = m[i]
  OBVIOUS
<1>2. [h EXCEPT !.active = b] \in Header
  BY DEF Header
<1>3. Marked(m, i, b) = [m EXCEPT ![i] = [h EXCEPT !.active = b]]
  BY <1>1 DEF Marked
<1>4. Marked(m, i, b)[i] = [h EXCEPT !.active = b]
  BY <1>3
<1>5. Marked(m, i, b) \in [Items -> Header] /\ \A j \in Items : j # i => Marked(m, i, b)[j] = m[j]
  BY <1>2, <1>3
<1>6. /\ [h EXCEPT !.active = b].ref = h.ref /\ [h EXCEPT !.active = b].linked = h.linked
      /\ [h EXCEPT !.active = b].lru = h.lru /\ [h EXCEPT !.active = b].active = b
  BY DEF Header
<1> QED BY <1>1, <1>4, <1>5, <1>6

LEMMA FetchedIs ==
    ASSUME NEW m \in [Items -> Header], NEW i \in Items
    PROVE  /\ Fetched(m, i) \in [Items -> Header] /\ \A j \in Items : j # i => Fetched(m, i)[j] = m[j]
           /\ Fetched(m, i)[i].ref = m[i].ref /\ Fetched(m, i)[i].linked = m[i].linked
           /\ Fetched(m, i)[i].lru = m[i].lru /\ Fetched(m, i)[i].active = m[i].active
<1>1. PICK h \in Header : h = m[i]
  OBVIOUS
<1>2. [h EXCEPT !.fetched = TRUE] \in Header
  BY DEF Header
<1>3. Fetched(m, i) = [m EXCEPT ![i] = [h EXCEPT !.fetched = TRUE]]
  BY <1>1 DEF Fetched
<1>4. Fetched(m, i)[i] = [h EXCEPT !.fetched = TRUE]
  BY <1>3
<1>5. Fetched(m, i) \in [Items -> Header] /\ \A j \in Items : j # i => Fetched(m, i)[j] = m[j]
  BY <1>2, <1>3
<1>6. /\ [h EXCEPT !.fetched = TRUE].ref = h.ref /\ [h EXCEPT !.fetched = TRUE].linked = h.linked
      /\ [h EXCEPT !.fetched = TRUE].lru = h.lru /\ [h EXCEPT !.fetched = TRUE].active = h.active
  BY DEF Header
<1> QED BY <1>1, <1>4, <1>5, <1>6

LEMMA TimedIs ==
    ASSUME NEW m \in [Items -> Header], NEW i \in Items, NEW t \in Nat
    PROVE  /\ Timed(m, i, t) \in [Items -> Header] /\ \A j \in Items : j # i => Timed(m, i, t)[j] = m[j]
           /\ Timed(m, i, t)[i].ref = m[i].ref /\ Timed(m, i, t)[i].linked = m[i].linked
           /\ Timed(m, i, t)[i].lru = m[i].lru /\ Timed(m, i, t)[i].active = m[i].active
<1>1. PICK h \in Header : h = m[i]
  OBVIOUS
<1>2. [h EXCEPT !.time = t] \in Header
  BY DEF Header
<1>3. Timed(m, i, t) = [m EXCEPT ![i] = [h EXCEPT !.time = t]]
  BY <1>1 DEF Timed
<1>4. Timed(m, i, t)[i] = [h EXCEPT !.time = t]
  BY <1>3
<1>5. Timed(m, i, t) \in [Items -> Header] /\ \A j \in Items : j # i => Timed(m, i, t)[j] = m[j]
  BY <1>2, <1>3
<1>6. /\ [h EXCEPT !.time = t].ref = h.ref /\ [h EXCEPT !.time = t].linked = h.linked
      /\ [h EXCEPT !.time = t].lru = h.lru /\ [h EXCEPT !.time = t].active = h.active
  BY DEF Header
<1> QED BY <1>1, <1>4, <1>5, <1>6

LEMMA PlacedIs ==
    ASSUME NEW m \in [Items -> Header], NEW i \in Items, NEW l \in Lrus
    PROVE  /\ Placed(m, i, l) \in [Items -> Header] /\ \A j \in Items : j # i => Placed(m, i, l)[j] = m[j]
           /\ Placed(m, i, l)[i].ref = m[i].ref /\ Placed(m, i, l)[i].linked = m[i].linked
           /\ Placed(m, i, l)[i].lru = l /\ Placed(m, i, l)[i].active = m[i].active
<1>1. PICK h \in Header : h = m[i]
  OBVIOUS
<1>2. [h EXCEPT !.lru = l] \in Header
  BY DEF Header
<1>3. Placed(m, i, l) = [m EXCEPT ![i] = [h EXCEPT !.lru = l]]
  BY <1>1 DEF Placed
<1>4. Placed(m, i, l)[i] = [h EXCEPT !.lru = l]
  BY <1>3
<1>5. Placed(m, i, l) \in [Items -> Header] /\ \A j \in Items : j # i => Placed(m, i, l)[j] = m[j]
  BY <1>2, <1>3
<1>6. /\ [h EXCEPT !.lru = l].ref = h.ref /\ [h EXCEPT !.lru = l].linked = h.linked
      /\ [h EXCEPT !.lru = l].lru = l /\ [h EXCEPT !.lru = l].active = h.active
  BY DEF Header
<1> QED BY <1>1, <1>4, <1>5, <1>6

LEMMA GetHitKeeps ==
    ASSUME IInv, Sound, NEW w \in LruWorkers, NEW i \in Items, GetHit(w, i), UNCHANGED crawlVars
    PROVE  IInv'
<1>1. /\ Holds(w, i) /\ items[i].linked /\ i \notin wk[w].got
      /\ UnlockKeeping(w, i, wk[w].got \cup {i}) /\ lists' = lists
  BY DEF GetHit
<1>2. items \in [Items -> Header] /\ items[i] \in Header /\ clock \in Nat
  BY TypesAre DEF IInv, LruTypes
<1>3. PICK hit \in [Items -> Header] : hit = Held(items, i)
  BY <1>2, HeldIs
<1>4. /\ \A j \in Items : j # i => hit[j] = items[j]
      /\ hit[i].ref = items[i].ref + 1 /\ hit[i].linked = items[i].linked
      /\ hit[i].lru = items[i].lru /\ hit[i].active = items[i].active
  BY <1>2, <1>3, HeldIs
<1>5. \/ items' = hit /\ bumps' = bumps
      \/ items' = Fetched(hit, i) /\ bumps' = bumps
      \/ items[i].lru # "COLD" /\ items' = do_item_update(i, Marked(hit, i, TRUE), lists).items /\ bumps' = bumps
      \/ lru_bump_async(w, i, hit)
  BY <1>3 DEF GetHit, Held, Fetched, Marked
<1>6. CASE items' = hit /\ bumps' = bumps
  BY <1>1, <1>4, <1>6, HitKeeps
<1>7. CASE items' = Fetched(hit, i) /\ bumps' = bumps
  <2>1. /\ items' \in [Items -> Header] /\ \A j \in Items : j # i => items'[j] = items[j]
        /\ items'[i].ref = items[i].ref + 1 /\ items'[i].linked = items[i].linked
        /\ items'[i].lru = items[i].lru /\ items'[i].active = items[i].active
    BY <1>4, <1>7, FetchedIs
  <2> QED BY <1>1, <1>7, <2>1, HitKeeps
<1>8. CASE items[i].lru # "COLD" /\ items' = do_item_update(i, Marked(hit, i, TRUE), lists).items /\ bumps' = bumps
  <2>1. PICK m \in [Items -> Header] : m = Marked(hit, i, TRUE)
    BY MarkedIs
  <2>2. /\ \A j \in Items : j # i => m[j] = items[j]
        /\ m[i].ref = items[i].ref + 1 /\ m[i].linked = items[i].linked
        /\ m[i].lru = items[i].lru
    <3>1. /\ Marked(hit, i, TRUE) \in [Items -> Header] /\ \A j \in Items : j # i => Marked(hit, i, TRUE)[j] = hit[j]
          /\ Marked(hit, i, TRUE)[i].ref = hit[i].ref /\ Marked(hit, i, TRUE)[i].linked = hit[i].linked
          /\ Marked(hit, i, TRUE)[i].lru = hit[i].lru /\ Marked(hit, i, TRUE)[i].active = TRUE
      BY MarkedIs
    <3> QED BY <1>4, <2>1, <3>1
  <2>3. items' = IF Stale(i) THEN Timed(m, i, clock) ELSE m
    BY <1>1, <1>8, <2>1, <2>2 DEF do_item_update, Timed
  <2>4. /\ items' \in [Items -> Header] /\ \A j \in Items : j # i => items'[j] = items[j]
        /\ items'[i].ref = items[i].ref + 1 /\ items'[i].linked = items[i].linked
        /\ items'[i].lru = items[i].lru
    <3>1. /\ Timed(m, i, clock) \in [Items -> Header] /\ \A j \in Items : j # i => Timed(m, i, clock)[j] = m[j]
          /\ Timed(m, i, clock)[i].ref = m[i].ref /\ Timed(m, i, clock)[i].linked = m[i].linked
          /\ Timed(m, i, clock)[i].lru = m[i].lru /\ Timed(m, i, clock)[i].active = m[i].active
      BY <1>2, TimedIs
    <3> QED BY <2>2, <2>3, <3>1
  <2> QED BY <1>1, <1>8, <2>4, HitKeeps
<1>9. CASE lru_bump_async(w, i, hit)
  <2>1. CASE Len(bumps[w]) < BumpSize
    <3>1. PICK m \in [Items -> Header] : m = Marked(hit, i, TRUE)
      BY MarkedIs
    <3>2. /\ \A j \in Items : j # i => m[j] = items[j]
          /\ m[i].ref = items[i].ref + 1 /\ m[i].linked = items[i].linked
          /\ m[i].lru = items[i].lru
      <4>1. /\ Marked(hit, i, TRUE) \in [Items -> Header] /\ \A j \in Items : j # i => Marked(hit, i, TRUE)[j] = hit[j]
            /\ Marked(hit, i, TRUE)[i].ref = hit[i].ref /\ Marked(hit, i, TRUE)[i].linked = hit[i].linked
            /\ Marked(hit, i, TRUE)[i].lru = hit[i].lru /\ Marked(hit, i, TRUE)[i].active = TRUE
        BY MarkedIs
      <4> QED BY <1>4, <3>1, <4>1
    <3>3. items' = Held(m, i) /\ bumps' = [bumps EXCEPT ![w] = Append(bumps[w], i)]
      <4>1. /\ items' = [hit EXCEPT ![i].active = TRUE, ![i].ref = @ + 1]
            /\ bumps' = [bumps EXCEPT ![w] = Append(bumps[w], i)]
        BY <1>9, <2>1 DEF lru_bump_async
      <4>2. [hit EXCEPT ![i].active = TRUE, ![i].ref = @ + 1] = Held(Marked(hit, i, TRUE), i)
        BY DEF Held, Marked
      <4> QED BY <3>1, <4>1, <4>2
    <3>4. /\ items' \in [Items -> Header] /\ \A j \in Items : j # i => items'[j] = items[j]
          /\ items'[i].ref = m[i].ref + 1 /\ items'[i].linked = items[i].linked
          /\ items'[i].lru = items[i].lru
      BY <3>2, <3>3, HeldIs
    <3>5. items'[i].ref = items[i].ref + 2
      <4>1. PICK n \in Nat : n = items[i].ref
        BY RefsOf
      <4>2. n + 1 + 1 = n + 2
        OBVIOUS
      <4> QED BY <3>2, <3>4, <4>1, <4>2
    <3> QED BY <1>1, <2>1, <3>3, <3>4, <3>5, BumpQueuedKeeps
  <2>2. CASE ~(Len(bumps[w]) < BumpSize)
    <3>1. items' = hit /\ bumps' = bumps
      BY <1>9, <2>2 DEF lru_bump_async, BumpDropped
    <3> QED BY <1>6, <3>1
  <2> QED BY <2>1, <2>2
<1> QED BY <1>5, <1>6, <1>7, <1>8, <1>9

-----------------------------------------------------------------------------
(* Steps of lru_pull_tail that change an item.                             *)

\* What is carried from list to list.
LEMMA TransitSame ==
    ASSUME NEW j,
           \A q \in Pullers : /\ pull'[q].at = pull[q].at /\ pull'[q].to = pull[q].to
                              /\ pull[q].at = "settle" => pull'[q].search = pull[q].search
    PROVE  InTransit(j)' <=> InTransit(j)
<1>1. InTransit(j)' <=> \E q \in Pullers : pull'[q].at = "settle" /\ pull'[q].search = j /\ pull'[q].to # ""
  BY DEF InTransit, At
<1>2. InTransit(j) <=> \E q \in Pullers : pull[q].at = "settle" /\ pull[q].search = j /\ pull[q].to # ""
  BY DEF InTransit, At
<1>3. ASSUME NEW q \in Pullers
      PROVE  /\ pull'[q].at = "settle" /\ pull'[q].search = j /\ pull'[q].to # ""
             <=> pull[q].at = "settle" /\ pull[q].search = j /\ pull[q].to # ""
  OBVIOUS
<1> QED BY <1>1, <1>2, <1>3

\* A walk changes the item it is at, and goes on.
LEMMA WalkStep ==
    ASSUME IInv, Sound, NEW p \in Pullers, NEW x \in Items, Walking(p), pull[p].search = x, ilock[x] = Nobody,
           NEW t \in Nat, NEW r \in Nat, NextUp(p, t, r), NEW k \in Lrus, k = pull[p].lru,
           UNCHANGED <<ilock, lru_lock, clock, wk, bumps, mt, left>>, UNCHANGED crawlVars,
           items' \in [Items -> Header], \A j \in Items : j # x => items'[j] = items[j],
           lists' \in [Lrus -> Seq(Items \cup {Crawler})],
           \A l \in Lrus : l # k => lists'[l] = lists[l],
           Once(lists'[k]), Range(lists'[k]) \ {x} = Range(lists[k]) \ {x},
           x \in Range(lists'[k]) <=> items'[x].linked,
           items'[x].linked => items'[x].lru = items[x].lru,
           RefsExact', ActiveIsQueued'
    PROVE  IInv'
<1>1. /\ pull' \in [Pullers -> Pull]
      /\ pull'[p].at = "walk" /\ pull'[p].lru = pull[p].lru
      /\ pull'[p].search = Above(pull[p].lru, pull[p].search)
      /\ \A q \in Pullers : q # p => pull'[q] = pull[q]
      /\ \A q \in Pullers : /\ pull'[q].at = pull[q].at /\ pull'[q].lru = pull[q].lru
                            /\ pull'[q].to = pull[q].to
                            /\ pull[q].at = "settle" => pull'[q].search = pull[q].search
  BY NextUpIs
<1>2. LruTypes'
  BY <1>1 DEF IInv, LruTypes
<1>3. CrawlTypes' /\ ClientReturned'
  BY CrawlTypesKept, ClientKept DEF IInv, crawlVars
<1>4. /\ pull[p].at = "walk" /\ pull[p].lru \in Lrus /\ lru_lock[p] = pull[p].lru
      /\ pull[p].search \in Range(lists[pull[p].lru]) /\ Once(lists[pull[p].lru])
      /\ \/ Above(pull[p].lru, pull[p].search) = Nobody
         \/ /\ Above(pull[p].lru, pull[p].search) \in Range(lists[pull[p].lru]) \ {pull[p].search}
            /\ Above(pull[p].lru, pull[p].search) \in Items \cup {Crawler}
      /\ pull[p].tries - 1 \in Nat
  BY WalkerIs
<1>5. /\ \A q \in Pullers : pull[q].at = "settle" => pull[q].search # x
      /\ ~InTransit(x) /\ Cardinality(Settling(x)) = 0
      /\ ilock[x] # CrawlerThread => cr.search # x
      /\ cr.search = x => cr.at = "dump" /\ ilock[x] = CrawlerThread
  <2>1. Kept(x)
    BY DEF Kept
  <2> QED BY <2>1, Apart
<1>6. cr' = cr /\ cbuf' = cbuf /\ UNCHANGED <<crawlers, crawler_count>>
  BY DEF crawlVars
<1>7. ThreadsOK'
  <2>1. \A q \in Pullers : pull[q].at = "" => pull'[q] = pull[q]
    BY <1>1, <1>4
  <2>2. \A q \in Pullers : pull[q].at = "settle" /\ pull[q].search \in Items =>
                              /\ items'[pull[q].search].linked = items[pull[q].search].linked
                              /\ items'[pull[q].search].active = items[pull[q].search].active
    BY <1>5
  <2> QED BY <1>1, <1>6, <2>1, <2>2, SearchMoves
<1>8. \A j \in Items : InTransit(j)' <=> InTransit(j)
  BY <1>1, TransitSame
<1>9. items[x].linked /\ items[x].lru = k
  BY <1>4, ListedIs
<1>10. \A l \in Lrus : Once(lists'[l]) /\ Range(lists'[l]) \ {x} = Range(lists[l]) \ {x}
  BY DEF IInv, Whole, ListOK
<1>11. \A l \in Lrus : x \in Range(lists'[l]) <=> items'[x].linked /\ ~InTransit(x)' /\ items'[x].lru = l
  <2> SUFFICES ASSUME NEW l \in Lrus
               PROVE  x \in Range(lists'[l]) <=> items'[x].linked /\ ~InTransit(x)' /\ items'[x].lru = l
    OBVIOUS
  <2>1. CASE l = k
    BY <1>5, <1>8, <1>9, <2>1
  <2>2. CASE l # k
    <3>1. x \notin Range(lists'[l])
      BY <1>9, <2>2, ListedIs
    <3> QED BY <1>9, <2>2, <3>1
  <2> QED BY <2>1, <2>2
<1>12. ASSUME NEW q \in Pullers PROVE WalkOK(q)'
  <2>1. CASE q = p
    <3>1. pull'[p].search = Nobody \/ pull'[p].search \in Range(lists[k]) \ {x}
      BY <1>1, <1>4
    <3>2. pull'[p].search = Nobody \/ pull'[p].search \in Range(lists'[k])
      BY <3>1
    <3> QED BY <1>1, <2>1, <3>2 DEF WalkOK, At
  <2>2. CASE q # p /\ pull[q].at = "walk"
    <3>1. pull[q].lru \in Lrus /\ pull[q].lru # k
      BY <1>4, <2>2 DEF IInv, ThreadsOK, PullOK
    <3>2. pull[q].search = Nobody \/ pull[q].search \in Range(lists[pull[q].lru])
      BY <2>2, WalksAre
    <3>3. lists'[pull[q].lru] = lists[pull[q].lru]
      BY <3>1
    <3> QED BY <1>1, <2>2, <3>2, <3>3 DEF WalkOK, At
  <2>3. CASE q # p /\ pull[q].at # "walk"
    BY <1>1, <2>3 DEF WalkOK
  <2> QED BY <2>1, <2>2, <2>3
<1>13. \A j \in Items : j # x => /\ items'[j].linked = items[j].linked /\ items'[j].lru = items[j].lru
                                 /\ InTransit(j)' <=> InTransit(j)
  BY <1>8
<1>14. Whole'
  BY <1>6, <1>10, <1>11, <1>12, <1>13, WholeStep
<1> QED BY <1>2, <1>3, <1>7, <1>14, Together

\* A walk that goes on changes no count.
LEMMA WalkCounts ==
    ASSUME IInv, Sound, NEW p \in Pullers, Walking(p), NEW t \in Nat, NEW r \in Nat, NextUp(p, t, r),
           UNCHANGED <<wk, bumps, mt>>, UNCHANGED crawlVars, NEW x \in Items
    PROVE  /\ GotBy(x, 0) /\ QueuedBy(x, 0) /\ SettlingBy(x, 0) /\ SearchBy(x, 0)
           /\ \A w \in LruWorkers : Pending(w)' = Pending(w)
<1>1. /\ pull' \in [Pullers -> Pull]
      /\ pull'[p].at = "walk" /\ pull'[p].lru = pull[p].lru
      /\ pull'[p].search = Above(pull[p].lru, pull[p].search)
      /\ \A q \in Pullers : q # p => pull'[q] = pull[q]
      /\ \A q \in Pullers : /\ pull'[q].at = pull[q].at /\ pull'[q].lru = pull[q].lru
                            /\ pull'[q].to = pull[q].to
                            /\ pull[q].at = "settle" => pull'[q].search = pull[q].search
  BY NextUpIs
<1>2. GotBy(x, 0)
  <2>1. \A w \in LruWorkers : wk'[w].got = wk[w].got
    OBVIOUS
  <2> QED BY <2>1, GotSame
<1>3. \A w \in LruWorkers : Pending(w)' = Pending(w)
  BY DEF Pending
<1>4. QueuedBy(x, 0)
  BY <1>3, QueuedSame
<1>5. SettlingBy(x, 0)
  BY <1>1, SettlingSame
<1>6. SearchBy(x, 0)
  <2>1. cr'.search = cr.search
    BY DEF crawlVars
  <2> QED BY <2>1, SearchSame
<1> QED BY <1>2, <1>3, <1>4, <1>5, <1>6

\* A walk that finds an expired item unlinks it.
LEMMA PullExpiredKeeps ==
    ASSUME IInv, Sound, NEW p \in Pullers, PullExpired(p), UNCHANGED crawlVars
    PROVE  IInv'
<1>1. PICK x \in Items : x = pull[p].search
  BY DEF PullExpired, Taken, At
<1>2. /\ Walking(p) /\ ilock[x] = Nobody /\ NextUp(p, pull[p].tries - 1, 1)
      /\ items' = do_item_unlink(items, x) /\ lists' = UnlinkQ(lists, x, pull[p].lru)
      /\ UNCHANGED <<ilock, lru_lock, clock, wk, bumps, mt, left>>
  BY <1>1 DEF PullExpired, Taken, At, pullRest
<1>3. /\ pull[p].at = "walk" /\ pull[p].lru \in Lrus /\ lru_lock[p] = pull[p].lru
      /\ pull[p].search \in Range(lists[pull[p].lru]) /\ Once(lists[pull[p].lru])
      /\ \/ Above(pull[p].lru, pull[p].search) = Nobody
         \/ /\ Above(pull[p].lru, pull[p].search) \in Range(lists[pull[p].lru]) \ {pull[p].search}
            /\ Above(pull[p].lru, pull[p].search) \in Items \cup {Crawler}
      /\ pull[p].tries - 1 \in Nat
  BY <1>2, WalkerIs
<1>4. PICK k \in Lrus : k = pull[p].lru
  BY <1>3
<1>5. items[x].linked /\ items[x].lru = k
  BY <1>1, <1>3, <1>4, ListedIs
<1>6. /\ items' \in [Items -> Header] /\ \A j \in Items : j # x => items'[j] = items[j]
      /\ LinkBy(x, -1) /\ ~items'[x].linked
      /\ items'[x].ref = items[x].ref + (-1 + 0 + 0 + 0 + 0)
  BY <1>2, <1>5, UnlinkItem
<1>7. k \in Lrus \cup {""} /\ k = items[x].lru /\ lists' = UnlinkQ(lists, x, k)
  BY <1>2, <1>4, <1>5
<1>8. /\ lists' \in [Lrus -> Seq(Items \cup {Crawler})]
      /\ \A l \in Lrus : /\ Once(lists'[l]) /\ Range(lists'[l]) \ {x} = Range(lists[l]) \ {x}
                         /\ x \notin Range(lists'[l])
                         /\ l # k => lists'[l] = lists[l]
  BY <1>7, UnlinkLists
<1>9. PICK t \in Nat : t = pull[p].tries - 1
  BY <1>3
<1>10. 1 \in Nat /\ NextUp(p, t, 1)
  BY <1>2, <1>9
<1>11. /\ GotBy(x, 0) /\ QueuedBy(x, 0) /\ SettlingBy(x, 0) /\ SearchBy(x, 0)
       /\ \A w \in LruWorkers : Pending(w)' = Pending(w)
  BY <1>2, <1>10, WalkCounts
<1>12. RefsExact'
  BY MinusOne, <1>6, <1>11, RefsStep
<1>13. ActiveIsQueued'
  BY <1>6, <1>11, ActiveStep DEF IInv
<1>14. /\ \A l \in Lrus : l # k => lists'[l] = lists[l]
       /\ Once(lists'[k]) /\ Range(lists'[k]) \ {x} = Range(lists[k]) \ {x}
       /\ x \in Range(lists'[k]) <=> items'[x].linked
       /\ items'[x].linked => items'[x].lru = items[x].lru
  BY <1>6, <1>8
<1>15. /\ Walking(p) /\ pull[p].search = x /\ ilock[x] = Nobody /\ NextUp(p, t, 1) /\ 1 \in Nat /\ k = pull[p].lru
       /\ UNCHANGED <<ilock, lru_lock, clock, wk, bumps, mt, left>>
       /\ items' \in [Items -> Header] /\ \A j \in Items : j # x => items'[j] = items[j]
       /\ lists' \in [Lrus -> Seq(Items \cup {Crawler})]
  BY <1>1, <1>2, <1>4, <1>6, <1>8, <1>10
<1> QED BY <1>12, <1>13, <1>14, <1>15, WalkStep

\* An item is taken out of a list and put in front of it again.
LEMMA FrontIs ==
    ASSUME IInv, Sound, NEW x \in Items, NEW k \in Lrus, NEW l \in Lrus, l = k \/ x \notin Range(lists[l])
    PROVE  /\ LinkQ(UnlinkQ(lists, x, k), x, l) \in [Lrus -> Seq(Items \cup {Crawler})]
           /\ \A n \in Lrus : /\ Once(LinkQ(UnlinkQ(lists, x, k), x, l)[n])
                              /\ n # l => LinkQ(UnlinkQ(lists, x, k), x, l)[n] = UnlinkQ(lists, x, k)[n]
                              /\ n # k => UnlinkQ(lists, x, k)[n] = lists[n]
           /\ Range(LinkQ(UnlinkQ(lists, x, k), x, l)[l]) = Range(lists[l]) \cup {x}
           /\ l # k => Range(LinkQ(UnlinkQ(lists, x, k), x, l)[k]) = Range(lists[k]) \ {x}
<1>1. k \in Lrus \cup {""}
  OBVIOUS
<1>2. /\ UnlinkQ(lists, x, k) \in [Lrus -> Seq(Items \cup {Crawler})]
      /\ \A n \in Lrus : /\ Once(UnlinkQ(lists, x, k)[n])
                         /\ n # k => UnlinkQ(lists, x, k)[n] = lists[n]
                         /\ n = k => Range(UnlinkQ(lists, x, k)[n]) = Range(lists[n]) \ {x}
  BY <1>1, TakenOut
<1>3. PICK L \in [Lrus -> Seq(Items \cup {Crawler})] : L = UnlinkQ(lists, x, k)
  BY <1>2
<1>4. Range(L[l]) = Range(lists[l]) \ {x}
  <2>1. CASE l = k
    BY <1>2, <1>3, <2>1
  <2>2. CASE l # k
    BY <1>2, <1>3, <2>2
  <2> QED BY <2>1, <2>2
<1>5. Once(L[l]) /\ x \notin Range(L[l]) /\ x \in Items \cup {Crawler}
  BY <1>2, <1>3, <1>4
<1>6. /\ LinkQ(L, x, l) \in [Lrus -> Seq(Items \cup {Crawler})]
      /\ \A n \in Lrus : n # l => LinkQ(L, x, l)[n] = L[n]
      /\ Once(LinkQ(L, x, l)[l]) /\ Range(LinkQ(L, x, l)[l]) = Range(L[l]) \cup {x}
  <2>1. PICK s \in Seq(Items \cup {Crawler}) : s = L[l] /\ Once(s) /\ x \notin Range(s)
    BY <1>5
  <2>2. /\ <<x>> \o s \in Seq(Items \cup {Crawler}) /\ Once(<<x>> \o s)
        /\ Range(<<x>> \o s) = Range(s) \cup {x}
    BY <2>1, PushedIs
  <2>3. LinkQ(L, x, l) = [L EXCEPT ![l] = <<x>> \o s]
    BY <2>1 DEF LinkQ
  <2> QED BY <2>1, <2>2, <2>3
<1>7. \A n \in Lrus : Once(LinkQ(L, x, l)[n])
  BY <1>2, <1>3, <1>6
<1>8. Range(LinkQ(L, x, l)[l]) = Range(lists[l]) \cup {x}
  BY <1>4, <1>6
<1>9. l # k => Range(LinkQ(L, x, l)[k]) = Range(lists[k]) \ {x}
  BY <1>2, <1>3, <1>6
<1> QED BY <1>2, <1>3, <1>6, <1>7, <1>8, <1>9

\* What no longer counts as a link, and what still does.
LEMMA LinkSame ==
    ASSUME IInv, NEW x \in Items, items'[x].linked = items[x].linked
    PROVE  LinkBy(x, 0)
<1>1. OneIf(items'[x].linked) = OneIf(items[x].linked) /\ OneIf(items[x].linked) \in {0, 1}
  BY RefsOf
<1>2. OneIf(items[x].linked) = OneIf(items[x].linked) + 0
  BY <1>1
<1> QED BY <1>1, <1>2 DEF LinkBy

\* A walk that finds an ACTIVE item in WARM leaves it there, possibly in front.
LEMMA PullRescueKeeps ==
    ASSUME IInv, Sound, NEW p \in Pullers, PullRescue(p), UNCHANGED crawlVars
    PROVE  IInv'
<1>1. PICK x \in Items : x = pull[p].search
  BY DEF PullRescue, Taken, At
<1>2. /\ Walking(p) /\ ilock[x] = Nobody /\ NextUp(p, pull[p].tries - 1, 0) /\ pull[p].lru = "WARM"
      /\ items' = [items EXCEPT ![x].active = FALSE, ![x].time = IF Stale(x) THEN clock ELSE @]
      /\ lists' = IF Stale(x) THEN LinkQ(UnlinkQ(lists, x, "WARM"), x, "WARM") ELSE lists
      /\ UNCHANGED <<ilock, lru_lock, clock, wk, bumps, mt, left>>
  BY <1>1 DEF PullRescue, Taken, At, pullRest
<1>3. /\ pull[p].at = "walk" /\ pull[p].lru \in Lrus /\ lru_lock[p] = pull[p].lru
      /\ pull[p].search \in Range(lists[pull[p].lru]) /\ Once(lists[pull[p].lru])
      /\ \/ Above(pull[p].lru, pull[p].search) = Nobody
         \/ /\ Above(pull[p].lru, pull[p].search) \in Range(lists[pull[p].lru]) \ {pull[p].search}
            /\ Above(pull[p].lru, pull[p].search) \in Items \cup {Crawler}
      /\ pull[p].tries - 1 \in Nat
  BY <1>2, WalkerIs
<1>4. PICK k \in Lrus : k = pull[p].lru /\ k = "WARM"
  BY <1>2, <1>3
<1>5. items[x].linked /\ items[x].lru = k /\ x \in Range(lists[k])
  BY <1>1, <1>3, <1>4, ListedIs
<1>6. items \in [Items -> Header] /\ clock \in Nat /\ items[x].time \in Nat
  <2>1. items[x] \in Header /\ clock \in Nat
    BY TypesAre DEF IInv
  <2> QED BY <2>1 DEF IInv, LruTypes, Header
<1>7. /\ items' \in [Items -> Header] /\ \A j \in Items : j # x => items'[j] = items[j]
      /\ items'[x].ref = items[x].ref /\ items'[x].linked = items[x].linked
      /\ items'[x].lru = items[x].lru
  <2>1. FALSE \in BOOLEAN
    OBVIOUS
  <2>2. /\ Marked(items, x, FALSE) \in [Items -> Header]
        /\ \A j \in Items : j # x => Marked(items, x, FALSE)[j] = items[j]
        /\ Marked(items, x, FALSE)[x].ref = items[x].ref /\ Marked(items, x, FALSE)[x].linked = items[x].linked
        /\ Marked(items, x, FALSE)[x].lru = items[x].lru /\ Marked(items, x, FALSE)[x].active = FALSE
    <3>1. items \in [Items -> Header] /\ x \in Items /\ FALSE \in BOOLEAN
      BY <1>6, <2>1
    <3> QED BY <3>1, MarkedIs
  <2>3. PICK m \in [Items -> Header] : m = Marked(items, x, FALSE)
    BY <2>2
  <2>4. /\ \A j \in Items : j # x => m[j] = items[j]
        /\ m[x].ref = items[x].ref /\ m[x].linked = items[x].linked
        /\ m[x].lru = items[x].lru
    BY <2>2, <2>3
  <2>5. m[x].time \in Nat
    <3>1. m[x] \in Header
      OBVIOUS
    <3> QED BY <3>1 DEF Header
  <2>6. PICK t \in Nat : t = IF Stale(x) THEN clock ELSE m[x].time
    BY <1>6, <2>5
  <2>7. items' = Timed(m, x, t)
    <3>1. [items EXCEPT ![x].active = FALSE, ![x].time = IF Stale(x) THEN clock ELSE @]
            = Timed(Marked(items, x, FALSE), x, IF Stale(x) THEN clock ELSE Marked(items, x, FALSE)[x].time)
      BY DEF Timed, Marked
    <3> QED BY <1>2, <2>3, <2>6, <3>1
  <2>8. /\ Timed(m, x, t) \in [Items -> Header] /\ \A j \in Items : j # x => Timed(m, x, t)[j] = m[j]
        /\ Timed(m, x, t)[x].ref = m[x].ref /\ Timed(m, x, t)[x].linked = m[x].linked
        /\ Timed(m, x, t)[x].lru = m[x].lru /\ Timed(m, x, t)[x].active = m[x].active
    BY TimedIs
  <2>9. PICK z : z = Timed(m, x, t)
    OBVIOUS
  <2>10. /\ z \in [Items -> Header] /\ \A j \in Items : j # x => z[j] = m[j]
         /\ z[x].ref = m[x].ref /\ z[x].linked = m[x].linked /\ z[x].lru = m[x].lru
    BY <2>8, <2>9
  <2>11. items' = z
    BY <2>7, <2>9
  <2>12. z \in [Items -> Header] /\ \A j \in Items : j # x => z[j] = items[j]
    BY <2>4, <2>10
  <2>13. z[x].ref = items[x].ref /\ z[x].linked = items[x].linked /\ z[x].lru = items[x].lru
    BY <2>4, <2>10
  <2> QED BY <2>11, <2>12, <2>13
<1>8. /\ lists' \in [Lrus -> Seq(Items \cup {Crawler})]
      /\ \A l \in Lrus : l # k => lists'[l] = lists[l]
      /\ Once(lists'[k]) /\ Range(lists'[k]) = Range(lists[k])
  <2>1. CASE Stale(x)
    <3>1. k = k \/ x \notin Range(lists[k])
      OBVIOUS
    <3>2. /\ LinkQ(UnlinkQ(lists, x, k), x, k) \in [Lrus -> Seq(Items \cup {Crawler})]
          /\ \A n \in Lrus : /\ Once(LinkQ(UnlinkQ(lists, x, k), x, k)[n])
                             /\ n # k => LinkQ(UnlinkQ(lists, x, k), x, k)[n] = UnlinkQ(lists, x, k)[n]
                             /\ n # k => UnlinkQ(lists, x, k)[n] = lists[n]
          /\ Range(LinkQ(UnlinkQ(lists, x, k), x, k)[k]) = Range(lists[k]) \cup {x}
          /\ k # k => Range(LinkQ(UnlinkQ(lists, x, k), x, k)[k]) = Range(lists[k]) \ {x}
      BY <3>1, FrontIs
    <3>3. lists' = LinkQ(UnlinkQ(lists, x, k), x, k)
      BY <1>2, <1>4, <2>1
    <3>4. Range(lists[k]) \cup {x} = Range(lists[k])
      BY <1>5
    <3> QED BY <3>2, <3>3, <3>4
  <2>2. CASE ~Stale(x)
    BY <1>2, <2>2 DEF IInv, LruTypes, Whole, ListOK
  <2> QED BY <2>1, <2>2
<1>9. PICK t \in Nat : t = pull[p].tries - 1
  BY <1>3
<1>10. 0 \in Nat /\ NextUp(p, t, 0)
  BY <1>2, <1>9
<1>11. /\ GotBy(x, 0) /\ QueuedBy(x, 0) /\ SettlingBy(x, 0) /\ SearchBy(x, 0)
       /\ \A w \in LruWorkers : Pending(w)' = Pending(w)
  BY <1>2, <1>10, WalkCounts
<1>12. RefsExact'
  <2>1. LinkBy(x, 0)
    BY <1>7, LinkSame
  <2>2. items'[x].ref = items[x].ref + (0 + 0 + 0 + 0 + 0)
    <3>1. PICK n \in Nat : n = items[x].ref
      BY RefsOf
    <3>2. n = n + (0 + 0 + 0 + 0 + 0)
      OBVIOUS
    <3> QED BY <1>7, <3>1, <3>2
  <2> QED BY MinusOne, <1>7, <1>11, <2>1, <2>2, RefsStep
<1>13. ActiveIsQueued'
  <2>1. items'[x].lru # "COLD"
    BY <1>4, <1>5, <1>7
  <2> QED BY <1>7, <1>11, <2>1, ActiveStep DEF IInv
<1>14. /\ \A l \in Lrus : l # k => lists'[l] = lists[l]
       /\ Once(lists'[k]) /\ Range(lists'[k]) \ {x} = Range(lists[k]) \ {x}
       /\ x \in Range(lists'[k]) <=> items'[x].linked
       /\ items'[x].linked => items'[x].lru = items[x].lru
  BY <1>5, <1>7, <1>8
<1>15. /\ Walking(p) /\ pull[p].search = x /\ ilock[x] = Nobody /\ NextUp(p, t, 0) /\ 0 \in Nat /\ k = pull[p].lru
       /\ UNCHANGED <<ilock, lru_lock, clock, wk, bumps, mt, left>>
       /\ items' \in [Items -> Header] /\ \A j \in Items : j # x => items'[j] = items[j]
       /\ lists' \in [Lrus -> Seq(Items \cup {Crawler})]
  BY <1>1, <1>2, <1>4, <1>7, <1>8, <1>10
<1> QED BY <1>12, <1>13, <1>14, <1>15, WalkStep, ZenonT(30)

\* Where lru_pull_tail takes an item, and how it marks it.
LEMMA DestinationIs ==
    ASSUME IInv, NEW p \in Pullers, NEW x \in Items
    PROVE  /\ Destination(p, x) \in {"", "WARM", "COLD"}
           /\ Destination(p, x) = "COLD" => ~items[x].active
           /\ Evicts(p, pull[p].lru) => Destination(p, x) = ""
<1>1. CASE pull[p].lru = "HOT" /\ items[x].active
  BY <1>1 DEF Destination, Evicts
<1>2. CASE pull[p].lru \in {"HOT", "WARM"} /\ ~items[x].active /\ Sinks(p, x)
  BY <1>2 DEF Destination, Evicts
<1>3. CASE pull[p].lru = "COLD" /\ items[x].active /\ ~Evicts(p, "COLD")
  BY <1>3 DEF Destination
<1>4. CASE /\ ~(pull[p].lru = "HOT" /\ items[x].active)
           /\ ~(pull[p].lru \in {"HOT", "WARM"} /\ ~items[x].active /\ Sinks(p, x))
           /\ ~(pull[p].lru = "COLD" /\ items[x].active /\ ~Evicts(p, "COLD"))
  BY <1>4 DEF Destination
<1> QED BY <1>1, <1>2, <1>3, <1>4

\* The items when a walk has ended at x.
Ended(x, to, evict) ==
    LET held == [items EXCEPT ![x].ref = @ + 1, ![x].active = IF to = "WARM" THEN FALSE ELSE @]
    IN  IF evict THEN do_item_unlink(held, x) ELSE held

\* The walk ends at its item: the header says whether it is evicted, moved or left.
LEMMA StopItem ==
    ASSUME IInv, NEW p \in Pullers, NEW x \in Items, items[x].linked, NEW to, NEW evict \in BOOLEAN,
           items' = Ended(x, to, evict)
    PROVE  /\ items' \in [Items -> Header] /\ \A j \in Items : j # x => items'[j] = items[j]
           /\ items'[x].linked = ~evict
           /\ evict => LinkBy(x, -1) /\ items'[x].ref = items[x].ref
           /\ ~evict => LinkBy(x, 0) /\ items'[x].ref = items[x].ref + 1 /\ items'[x].lru = items[x].lru
                        /\ (items'[x].active => items[x].active /\ to # "WARM")
<1>1. items \in [Items -> Header]
  BY DEF IInv, LruTypes
<1>2. PICK n \in Nat : n = items[x].ref /\ n >= 1
  <2>1. PICK G \in Nat : G = Cardinality(Got(x))
    BY RefsOf
  <2>2. PICK Q \in Nat : Q = Cardinality(Queued(x))
    BY RefsOf
  <2>3. PICK S \in Nat : S = Cardinality(Settling(x))
    BY RefsOf
  <2>4. PICK C \in {0, 1} : C = OneIf(cr.search = x)
    BY RefsOf
  <2>5. OneIf(items[x].linked) = 1
    BY DEF OneIf
  <2>6. items[x].ref = 1 + G + Q + S + C
    BY <2>1, <2>2, <2>3, <2>4, <2>5, RefsOf DEF Refs
  <2>7. 1 + G + Q + S + C \in Nat /\ 1 + G + Q + S + C >= 1
    OBVIOUS
  <2> QED BY <2>6, <2>7
<1>3. PICK h \in [Items -> Header] : h = Held(items, x)
  BY <1>1, HeldIs
<1>4. /\ \A j \in Items : j # x => h[j] = items[j]
      /\ h[x].ref = items[x].ref + 1 /\ h[x].linked = items[x].linked
      /\ h[x].lru = items[x].lru /\ h[x].active = items[x].active
  <2>1. /\ Held(items, x) \in [Items -> Header] /\ \A j \in Items : j # x => Held(items, x)[j] = items[j]
        /\ Held(items, x)[x].ref = items[x].ref + 1 /\ Held(items, x)[x].linked = items[x].linked
        /\ Held(items, x)[x].lru = items[x].lru /\ Held(items, x)[x].active = items[x].active
    BY <1>1, HeldIs
  <2> QED BY <1>3, <2>1
<1>5. PICK b \in BOOLEAN : b = IF to = "WARM" THEN FALSE ELSE h[x].active
  <2>1. h[x] \in Header
    OBVIOUS
  <2>2. h[x].active \in BOOLEAN
    BY <2>1 DEF Header
  <2> QED BY <2>2
<1>6. PICK m \in [Items -> Header] : m = Marked(h, x, b)
  BY MarkedIs
<1>7. /\ \A j \in Items : j # x => m[j] = items[j]
      /\ m[x].ref = n + 1 /\ m[x].linked = items[x].linked
      /\ m[x].lru = items[x].lru /\ m[x].active = b
  <2>1. /\ Marked(h, x, b) \in [Items -> Header] /\ \A j \in Items : j # x => Marked(h, x, b)[j] = h[j]
        /\ Marked(h, x, b)[x].ref = h[x].ref /\ Marked(h, x, b)[x].linked = h[x].linked
        /\ Marked(h, x, b)[x].lru = h[x].lru /\ Marked(h, x, b)[x].active = b
    BY MarkedIs
  <2> QED BY <1>2, <1>4, <1>6, <2>1
<1>8. items' = IF evict THEN do_item_unlink(m, x) ELSE m
  <2>1. [items EXCEPT ![x].ref = @ + 1, ![x].active = IF to = "WARM" THEN FALSE ELSE @]
          = Marked(Held(items, x), x, IF to = "WARM" THEN FALSE ELSE Held(items, x)[x].active)
    BY DEF Marked, Held
  <2> QED BY <1>3, <1>5, <1>6, <2>1 DEF Ended
<1>9. CASE evict
  <2>1. m[x].ref >= 1
    BY <1>2, <1>7
  <2>2. /\ do_item_unlink(m, x) \in [Items -> Header]
        /\ \A j \in Items : j # x => do_item_unlink(m, x)[j] = m[j]
        /\ do_item_unlink(m, x)[x].ref = m[x].ref - 1
        /\ ~do_item_unlink(m, x)[x].linked
    BY <2>1, UnlinkedIs
  <2>3. items' = do_item_unlink(m, x)
    BY <1>8, <1>9
  <2>4. n + 1 - 1 = n
    OBVIOUS
  <2>5. /\ items' \in [Items -> Header] /\ \A j \in Items : j # x => items'[j] = items[j]
        /\ items'[x].ref = items[x].ref /\ ~items'[x].linked
    <3>1. items'[x].ref = m[x].ref - 1
      BY <2>2, <2>3
    <3>2. items'[x].ref = n
      BY <1>7, <2>4, <3>1
    <3>3. /\ items' \in [Items -> Header] /\ \A j \in Items : j # x => items'[j] = items[j]
          /\ ~items'[x].linked
      BY <1>7, <2>2, <2>3
    <3> QED BY <1>2, <3>2, <3>3
  <2>6. LinkBy(x, -1)
    BY <2>5 DEF LinkBy, OneIf
  <2>7. items'[x].linked = FALSE
    <3>1. items'[x] \in Header
      BY <2>5
    <3>2. items'[x].linked \in BOOLEAN
      BY <3>1 DEF Header
    <3> QED BY <2>5, <3>2
  <2> QED BY <1>9, <2>5, <2>6, <2>7
<1>10. CASE ~evict
  <2>1. items' = m
    BY <1>8, <1>10
  <2>2. LinkBy(x, 0)
    BY <1>7, <2>1, LinkSame
  <2>3. items[x].linked = TRUE
    <3>1. items[x] \in Header
      BY <1>1
    <3>2. items[x].linked \in BOOLEAN
      BY <3>1 DEF Header
    <3> QED BY <3>2
  <2>4. b => items[x].active /\ to # "WARM"
    BY <1>4, <1>5
  <2>5. items'[x].active => items[x].active /\ to # "WARM"
    BY <1>7, <2>1, <2>4
  <2>6. items'[x].ref = items[x].ref + 1 /\ items'[x].lru = items[x].lru /\ \A j \in Items : j # x => items'[j] = items[j]
    BY <1>2, <1>7, <2>1
  <2> QED BY <1>7, <1>10, <2>1, <2>2, <2>3, <2>5, <2>6
<1> QED BY <1>9, <1>10

LEMMA OneMore == ASSUME NEW n \in Nat PROVE n + 1 \in Nat
OBVIOUS
LEMMA SumIs == ASSUME NEW n \in Nat, NEW d \in Nat PROVE n - 0 + d = n + d
OBVIOUS
LEMMA SumEven == ASSUME NEW n \in Nat PROVE n = n + (-1 + 0 + 0 + 1 + 0)
OBVIOUS
LEMMA SumOne == ASSUME NEW n \in Nat PROVE n + 1 = n + (0 + 0 + 0 + 1 + 0)
OBVIOUS

\* Who is not touched keeps its place.
LEMMA PullKept ==
    ASSUME NEW q \in Pullers, PullOK(q), pull'[q] = pull[q], lru_lock'[q] = lru_lock[q],
           \A s \in Pullers : pull[q].at = "walk" /\ pull'[s].at = "walk" /\ pull'[s].lru = pull[q].lru => s = q,
           pull[q].at = "settle" => /\ ilock'[pull[q].search] = q
                                    /\ pull[q].to # "" => items'[pull[q].search].linked
                                    /\ pull[q].to = "COLD" => ~items'[pull[q].search].active
    PROVE  PullOK(q)'
BY DEF PullOK, At

LEMMA StoppedIs ==
    ASSUME IInv, NEW p \in Pullers, NEW to \in {"", "WARM", "COLD"}, NEW more \in BOOLEAN,
           pull' = [pull EXCEPT ![p].at = "settle", ![p].to = to, ![p].removed = IF more THEN @ + 1 ELSE @]
    PROVE  /\ pull' \in [Pullers -> Pull] /\ \A q \in Pullers : q # p => pull'[q] = pull[q]
           /\ pull'[p].at = "settle" /\ pull'[p].to = to /\ pull'[p].search = pull[p].search
<1>1. pull \in [Pullers -> Pull]
  BY DEF IInv, LruTypes
<1>2. PICK h \in Pull : h = pull[p]
  BY <1>1
<1>3. h.removed \in Nat
  BY DEF Pull
<1>4. PICK n \in Nat : n = IF more THEN h.removed + 1 ELSE h.removed
  <2>0. PICK r \in Nat : r = h.removed
    BY <1>3
  <2>3. r + 1 \in Nat
    BY OneMore
  <2>1. h.removed + 1 \in Nat
    BY <2>0, <2>3
  <2>2. (IF more THEN h.removed + 1 ELSE h.removed) \in Nat
    BY <1>3, <2>1
  <2> QED BY <2>2
<1>5. to \in Lrus \cup {""}
  BY DEF Lrus
<1>6. [h EXCEPT !.at = "settle", !.to = to, !.removed = n] \in Pull
  <2>1. PICK a \in Pull : a = [h EXCEPT !.at = "settle"]
    BY DEF Pull
  <2>2. PICK b \in Pull : b = [a EXCEPT !.to = to]
    BY <1>5 DEF Pull
  <2>3. PICK c \in Pull : c = [b EXCEPT !.removed = n]
    BY DEF Pull
  <2> QED BY <2>1, <2>2, <2>3
<1>7. pull' = [pull EXCEPT ![p] = [h EXCEPT !.at = "settle", !.to = to, !.removed = n]]
  BY <1>1, <1>2, <1>4
<1>8. pull'[p] = [h EXCEPT !.at = "settle", !.to = to, !.removed = n]
  BY <1>1, <1>7
<1>9. pull' \in [Pullers -> Pull] /\ \A q \in Pullers : q # p => pull'[q] = pull[q]
  BY <1>1, <1>6, <1>7
<1>10. /\ [h EXCEPT !.at = "settle", !.to = to, !.removed = n].at = "settle"
       /\ [h EXCEPT !.at = "settle", !.to = to, !.removed = n].to = to
       /\ [h EXCEPT !.at = "settle", !.to = to, !.removed = n].search = h.search
  BY DEF Pull
<1> QED BY <1>2, <1>8, <1>9, <1>10

\* The walk of p ends at x: p takes the item lock of x and lets go of the list.
LEMMA StopThreads ==
    ASSUME IInv, NEW p \in Pullers, NEW x \in Items, pull[p].at = "walk", pull[p].search = x, ilock[x] = Nobody,
           \A q \in Pullers : q # p => pull'[q] = pull[q] /\ lru_lock'[q] = lru_lock[q],
           pull'[p].at = "settle", pull'[p].search = x, lru_lock'[p] = "",
           ilock'[x] = p, \A j \in Items : j # x => ilock'[j] = ilock[j] /\ items'[j] = items[j],
           pull'[p].to # "" => items'[x].linked, pull'[p].to = "COLD" => ~items'[x].active,
           UNCHANGED <<wk, bumps, mt, cr, cbuf>>
    PROVE  ThreadsOK'
<1>0. p # Nobody /\ CrawlerThread # Nobody
  BY LruNames, CrawlerAssumption
<1>1. /\ \A q \in Pullers : pull[q].at = "settle" => pull[q].search # x
      /\ ~InTransit(x) /\ Cardinality(Settling(x)) = 0
      /\ ilock[x] # CrawlerThread => cr.search # x
      /\ cr.search = x => cr.at = "dump" /\ ilock[x] = CrawlerThread
  <2>1. Kept(x)
    BY DEF Kept
  <2> QED BY <2>1, Apart
<1>2. \A q \in Pullers : PullOK(q)'
  <2> SUFFICES ASSUME NEW q \in Pullers PROVE PullOK(q)'
    OBVIOUS
  <2>1. CASE q = p
    <3>1. pull'[q].at = "settle" /\ pull'[q].search = x /\ lru_lock'[q] = "" /\ ilock'[x] = q
      BY <2>1
    <3> QED BY <2>1, <3>1 DEF PullOK, At
  <2>2. CASE q # p
    <3>1. PullOK(q)
      BY DEF IInv, ThreadsOK
    <3>2. pull'[q] = pull[q] /\ lru_lock'[q] = lru_lock[q]
      BY <2>2
    <3>3. \A s \in Pullers : pull[q].at = "walk" /\ pull'[s].at = "walk" /\ pull'[s].lru = pull[q].lru => s = q
      <4> SUFFICES ASSUME NEW s \in Pullers, pull[q].at = "walk", pull'[s].at = "walk",
                          pull'[s].lru = pull[q].lru
                   PROVE  s = q
        OBVIOUS
      <4>1. s # p
        OBVIOUS
      <4> QED BY <4>1, <3>1 DEF PullOK
    <3>4. ASSUME pull[q].at = "settle"
          PROVE  /\ ilock'[pull[q].search] = q
                 /\ pull[q].to # "" => items'[pull[q].search].linked
                 /\ pull[q].to = "COLD" => ~items'[pull[q].search].active
      <4>1. /\ pull[q].search \in Items /\ ilock[pull[q].search] = q
            /\ pull[q].to # "" => items[pull[q].search].linked
            /\ pull[q].to = "COLD" => ~items[pull[q].search].active
        BY <3>1, <3>4 DEF PullOK, At
      <4>2. pull[q].search # x
        BY <1>1, <3>4
      <4> QED BY <4>1, <4>2
    <3> QED BY <3>1, <3>2, <3>3, <3>4, PullKept
  <2> QED BY <2>1, <2>2
<1>3. \A w \in LruWorkers : WorkOK(w)'
  <2> SUFFICES ASSUME NEW w \in LruWorkers PROVE WorkOK(w)'
    OBVIOUS
  <2>0. w \in Pullers /\ w # Nobody
    BY LruNames DEF Pullers
  <2>1. /\ wk[w].job.at = "locked" => wk[w].job.it \in Items /\ ilock[wk[w].job.it] = w
        /\ pull[w].at # "" => wk[w].job.at \in {"COLD", "HOT"}
        /\ Len(bumps[w]) <= BumpSize
    BY WorksAre
  <2>2. wk[w].job.at = "locked" => ilock'[wk[w].job.it] = w
    BY <2>0, <2>1
  <2>3. pull'[w].at # "" => wk[w].job.at \in {"COLD", "HOT"}
    <3>1. CASE w = p
      BY <2>1, <3>1
    <3>2. CASE w # p
      BY <2>0, <2>1, <3>2
    <3> QED BY <3>1, <3>2
  <2> QED BY <2>1, <2>2, <2>3 DEF WorkOK
<1>4. UpkeepOK'
  <2>1. UpkeepOK
    BY DEF IInv, ThreadsOK
  <2>2. pull'[Maintainer].at # "" => mt.at \in Lrus
    <3>0. Maintainer \in Pullers
      BY DEF Pullers
    <3>1. CASE Maintainer = p
      BY <2>1, <3>1 DEF UpkeepOK
    <3>2. CASE Maintainer # p
      BY <2>1, <3>0, <3>2 DEF UpkeepOK
    <3> QED BY <3>1, <3>2
  <2> QED BY <2>1, <2>2 DEF UpkeepOK
<1>5. CrawlOK'
  <2>1. CrawlOK
    BY DEF IInv, ThreadsOK
  <2>2. cr.at = "dump" => ilock'[cr.search] = CrawlerThread
    BY <1>0, <2>1 DEF CrawlOK
  <2> QED BY <2>1, <2>2 DEF CrawlOK
<1> QED BY <1>2, <1>3, <1>4, <1>5 DEF ThreadsOK

LEMMA PullStopKeeps ==
    ASSUME IInv, Sound, NEW p \in Pullers, PullStop(p), UNCHANGED crawlVars
    PROVE  IInv'
<1>1. PICK x \in Items : x = pull[p].search
  BY DEF PullStop, Taken, At
<1>2. PICK to \in {"", "WARM", "COLD"} : to = Destination(p, x)
  BY DestinationIs
<1>3. PICK evict \in BOOLEAN : evict = Evicts(p, pull[p].lru)
  BY DEF Evicts
<1>4. PICK more \in BOOLEAN : more = (evict \/ to # "")
  OBVIOUS
<1>5. /\ Walking(p) /\ ilock[x] = Nobody
      /\ ilock' = [ilock EXCEPT ![x] = p] /\ lru_lock' = [lru_lock EXCEPT ![p] = ""]
      /\ items' = Ended(x, to, evict)
      /\ lists' = IF more THEN UnlinkQ(lists, x, pull[p].lru) ELSE lists
      /\ pull' = [pull EXCEPT ![p].at = "settle", ![p].to = to, ![p].removed = IF more THEN @ + 1 ELSE @]
      /\ UNCHANGED <<clock, wk, bumps, mt, left>>
  <2>1. Walking(p) /\ ilock[x] = Nobody /\ UNCHANGED <<clock, wk, bumps, mt, left>>
    BY <1>1 DEF PullStop, Taken, At, pullRest
  <2>2. ilock' = [ilock EXCEPT ![x] = p] /\ lru_lock' = [lru_lock EXCEPT ![p] = ""]
    BY <1>1 DEF PullStop, At
  <2>3. items' = Ended(x, to, evict)
    <3>1. items' = Ended(At(p), Destination(p, At(p)), Evicts(p, pull[p].lru))
      BY DEF PullStop, Ended
    <3>2. At(p) = x
      BY <1>1 DEF At
    <3> QED BY <1>2, <1>3, <3>1, <3>2
  <2>4. lists' = IF more THEN UnlinkQ(lists, x, pull[p].lru) ELSE lists
    BY <1>1, <1>2, <1>3, <1>4 DEF PullStop, At
  <2>5. pull' = [pull EXCEPT ![p].at = "settle", ![p].to = to, ![p].removed = IF more THEN @ + 1 ELSE @]
    BY <1>1, <1>2, <1>3, <1>4 DEF PullStop, At
  <2> QED BY <2>1, <2>2, <2>3, <2>4, <2>5
<1>6. /\ pull[p].at = "walk" /\ pull[p].lru \in Lrus /\ lru_lock[p] = pull[p].lru
      /\ pull[p].search \in Range(lists[pull[p].lru]) /\ Once(lists[pull[p].lru])
      /\ \/ Above(pull[p].lru, pull[p].search) = Nobody
         \/ /\ Above(pull[p].lru, pull[p].search) \in Range(lists[pull[p].lru]) \ {pull[p].search}
            /\ Above(pull[p].lru, pull[p].search) \in Items \cup {Crawler}
      /\ pull[p].tries - 1 \in Nat
  BY <1>5, WalkerIs
<1>7. PICK k \in Lrus : k = pull[p].lru
  BY <1>6
<1>8. items[x].linked /\ items[x].lru = k
  BY <1>1, <1>6, <1>7, ListedIs
<1>9. (to = "COLD" => ~items[x].active) /\ (evict => to = "")
  <2>1. /\ Destination(p, x) \in {"", "WARM", "COLD"}
        /\ Destination(p, x) = "COLD" => ~items[x].active
        /\ Evicts(p, pull[p].lru) => Destination(p, x) = ""
    BY DestinationIs
  <2> QED BY <1>2, <1>3, <2>1
<1>10. /\ items' \in [Items -> Header] /\ \A j \in Items : j # x => items'[j] = items[j]
       /\ items'[x].linked = ~evict
       /\ evict => LinkBy(x, -1) /\ items'[x].ref = items[x].ref
       /\ ~evict => LinkBy(x, 0) /\ items'[x].ref = items[x].ref + 1 /\ items'[x].lru = items[x].lru
                    /\ (items'[x].active => items[x].active /\ to # "WARM")
  BY <1>5, <1>8, StopItem
<1>11. /\ pull' \in [Pullers -> Pull] /\ \A q \in Pullers : q # p => pull'[q] = pull[q]
       /\ pull'[p].at = "settle" /\ pull'[p].to = to /\ pull'[p].search = pull[p].search
  BY <1>5, StoppedIs
<1>12. /\ ilock' \in [Items -> Pullers \cup {CrawlerThread, Nobody}] /\ ilock'[x] = p
       /\ \A j \in Items : j # x => ilock'[j] = ilock[j]
       /\ lru_lock' \in [Pullers -> Lrus \cup {""}] /\ lru_lock'[p] = ""
       /\ \A q \in Pullers : q # p => lru_lock'[q] = lru_lock[q]
  BY <1>5 DEF IInv, LruTypes
<1>13. /\ lists' \in [Lrus -> Seq(Items \cup {Crawler})]
       /\ \A l \in Lrus : /\ Once(lists'[l]) /\ Range(lists'[l]) \ {x} = Range(lists[l]) \ {x}
                          /\ l # k => lists'[l] = lists[l]
       /\ more => \A l \in Lrus : x \notin Range(lists'[l])
       /\ ~more => lists' = lists
  <2>1. CASE more
    <3>1. k \in Lrus \cup {""} /\ k = items[x].lru /\ lists' = UnlinkQ(lists, x, k)
      BY <1>5, <1>7, <1>8, <2>1
    <3>2. /\ lists' \in [Lrus -> Seq(Items \cup {Crawler})]
          /\ \A l \in Lrus : /\ Once(lists'[l]) /\ Range(lists'[l]) \ {x} = Range(lists[l]) \ {x}
                             /\ x \notin Range(lists'[l])
                             /\ l # k => lists'[l] = lists[l]
      BY <3>1, UnlinkLists
    <3> QED BY <2>1, <3>2
  <2>2. CASE ~more
    <3>1. lists' = lists
      BY <1>5, <2>2
    <3>2. lists \in [Lrus -> Seq(Items \cup {Crawler})] /\ \A l \in Lrus : Once(lists[l])
      BY DEF IInv, LruTypes, Whole, ListOK
    <3> QED BY <2>2, <3>1, <3>2
  <2> QED BY <2>1, <2>2
<1>14. LruTypes'
  BY <1>5, <1>10, <1>11, <1>12, <1>13 DEF IInv, LruTypes
<1>15. CrawlTypes' /\ ClientReturned' /\ cr' = cr /\ cbuf' = cbuf /\ UNCHANGED <<crawlers, crawler_count>>
  BY CrawlTypesKept, ClientKept DEF IInv, crawlVars
<1>16. ThreadsOK'
  <2>1. pull'[p].to # "" => items'[x].linked
    BY <1>9, <1>10, <1>11
  <2>2. pull'[p].to = "COLD" => ~items'[x].active
    BY <1>9, <1>10, <1>11
  <2>3. UNCHANGED <<wk, bumps, mt, cr, cbuf>> /\ pull[p].search = x /\ pull'[p].search = x
    BY <1>1, <1>5, <1>11, <1>15
  <2>4. \A q \in Pullers : q # p => pull'[q] = pull[q] /\ lru_lock'[q] = lru_lock[q]
    BY <1>11, <1>12
  <2>5. \A j \in Items : j # x => ilock'[j] = ilock[j] /\ items'[j] = items[j]
    BY <1>10, <1>12
  <2> QED BY <1>5, <1>6, <1>11, <1>12, <2>1, <2>2, <2>3, <2>4, <2>5, StopThreads
<1>17. /\ GotBy(x, 0) /\ QueuedBy(x, 0) /\ SearchBy(x, 0)
       /\ \A w \in LruWorkers : Pending(w)' = Pending(w)
  <2>1. \A w \in LruWorkers : wk'[w].got = wk[w].got
    BY <1>5
  <2>2. \A w \in LruWorkers : Pending(w)' = Pending(w)
    BY <1>5 DEF Pending
  <2>3. cr'.search = cr.search
    BY <1>15
  <2>4. GotBy(x, 0)
    BY <2>1, GotSame
  <2>5. QueuedBy(x, 0)
    BY <2>2, QueuedSame
  <2>6. SearchBy(x, 0)
    BY <2>3, SearchSame
  <2> QED BY <2>2, <2>4, <2>5, <2>6
<1>18. SettlingBy(x, 1)
  <2> SUFFICES ASSUME NEW j \in Items PROVE Cardinality(Settling(j)') = Cardinality(Settling(j)) + Only(j, x, 1)
    BY DEF SettlingBy
  <2>1. \A q \in Pullers : q # p => pull'[q] = pull[q]
    BY <1>11
  <2>2. /\ Cardinality(Settling(j)) \in Nat /\ Cardinality(Settling(j)') \in Nat
        /\ Cardinality(Settling(j)') = Cardinality(Settling(j))
             - OneIf(pull[p].at = "settle" /\ pull[p].search = j)
             + OneIf(pull'[p].at = "settle" /\ pull'[p].search = j)
    BY <2>1, SettlingChange
  <2>3. OneIf(pull[p].at = "settle" /\ pull[p].search = j) = 0
    BY <1>6 DEF OneIf
  <2>4. OneIf(pull'[p].at = "settle" /\ pull'[p].search = j) = Only(j, x, 1)
    BY <1>1, <1>11 DEF OneIf, Only
  <2>5. PICK n \in Nat : n = Cardinality(Settling(j))
    BY <2>2
  <2>6. PICK d \in Nat : d = Only(j, x, 1)
    BY DEF Only
  <2>7. n - 0 + d = n + d
    BY SumIs
  <2> QED BY <2>2, <2>3, <2>4, <2>5, <2>6, <2>7
<1>19. RefsExact'
  <2>1. PICK n \in Nat : n = items[x].ref
    BY RefsOf
  <2>2. CASE evict
    <3>1. n = n + (-1 + 0 + 0 + 1 + 0)
      BY SumEven
    <3>2. items'[x].ref = items[x].ref + (-1 + 0 + 0 + 1 + 0) /\ LinkBy(x, -1)
      BY <1>10, <2>1, <2>2, <3>1
    <3> QED BY MinusOne, <1>10, <1>17, <1>18, <3>2, RefsStep
  <2>3. CASE ~evict
    <3>1. n + 1 = n + (0 + 0 + 0 + 1 + 0)
      BY SumOne
    <3>2. items'[x].ref = items[x].ref + (0 + 0 + 0 + 1 + 0) /\ LinkBy(x, 0)
      BY <1>10, <2>1, <2>3, <3>1
    <3> QED BY MinusOne, <1>10, <1>17, <1>18, <3>2, RefsStep
  <2> QED BY <2>2, <2>3
<1>20. ActiveIsQueued'
  <2>1. items'[x].linked /\ items'[x].lru = "COLD" /\ items'[x].active =>
           items[x].linked /\ items[x].lru = "COLD" /\ items[x].active
    BY <1>8, <1>10
  <2> QED BY <1>10, <1>17, <2>1, ActiveStep DEF IInv
<1>21. Whole'
  <2>1. /\ \A q \in Pullers : pull[q].at = "settle" => pull[q].search # x
        /\ ~InTransit(x) /\ Cardinality(Settling(x)) = 0
        /\ ilock[x] # CrawlerThread => cr.search # x
        /\ cr.search = x => cr.at = "dump" /\ ilock[x] = CrawlerThread
    <3>1. Kept(x)
      BY <1>5 DEF Kept
    <3> QED BY <3>1, Apart
  <2>2. ASSUME NEW j \in Items, j # x PROVE InTransit(j)' <=> InTransit(j)
    <3>1. InTransit(j)' <=> \E q \in Pullers : pull'[q].at = "settle" /\ pull'[q].search = j /\ pull'[q].to # ""
      BY DEF InTransit, At
    <3>2. InTransit(j) <=> \E q \in Pullers : pull[q].at = "settle" /\ pull[q].search = j /\ pull[q].to # ""
      BY DEF InTransit, At
    <3>3. ASSUME NEW q \in Pullers
          PROVE  (pull'[q].at = "settle" /\ pull'[q].search = j /\ pull'[q].to # "")
                 <=> (pull[q].at = "settle" /\ pull[q].search = j /\ pull[q].to # "")
      BY <1>1, <1>6, <1>11, <2>2
    <3> QED BY <3>1, <3>2, <3>3
  <2>3. InTransit(x)' <=> to # ""
    <3>1. InTransit(x)' <=> \E q \in Pullers : pull'[q].at = "settle" /\ pull'[q].search = x /\ pull'[q].to # ""
      BY DEF InTransit, At
    <3>2. \A q \in Pullers : pull'[q].at = "settle" /\ pull'[q].search = x => q = p
      BY <1>11, <2>1
    <3> QED BY <1>1, <1>11, <3>1, <3>2
  <2>4. \A l \in Lrus : x \in Range(lists'[l]) <=> items'[x].linked /\ ~InTransit(x)' /\ items'[x].lru = l
    <3> SUFFICES ASSUME NEW l \in Lrus
                 PROVE  x \in Range(lists'[l]) <=> items'[x].linked /\ ~InTransit(x)' /\ items'[x].lru = l
      OBVIOUS
    <3>1. CASE more
      <4>1. x \notin Range(lists'[l])
        BY <1>13, <3>1
      <4>2. ~items'[x].linked \/ InTransit(x)'
        BY <1>4, <1>10, <2>3, <3>1
      <4> QED BY <4>1, <4>2
    <3>2. CASE ~more
      <4>1. lists' = lists /\ ~InTransit(x)' /\ items'[x].linked /\ items'[x].lru = items[x].lru
        BY <1>4, <1>10, <1>13, <2>3, <3>2
      <4>2. x \in Range(lists[l]) <=> items[x].linked /\ ~InTransit(x) /\ items[x].lru = l
        BY ListedIs
      <4> QED BY <1>8, <2>1, <4>1, <4>2
    <3> QED BY <3>1, <3>2
  <2>5. ASSUME NEW q \in Pullers PROVE WalkOK(q)'
    <3>1. CASE q = p
      BY <1>11, <3>1 DEF WalkOK
    <3>2. CASE q # p /\ pull[q].at = "walk"
      <4>1. pull[q].lru \in Lrus /\ pull[q].lru # k
        BY <1>6, <1>7, <3>2 DEF IInv, ThreadsOK, PullOK
      <4>2. pull[q].search = Nobody \/ pull[q].search \in Range(lists[pull[q].lru])
        BY <3>2, WalksAre
      <4>3. lists'[pull[q].lru] = lists[pull[q].lru]
        BY <1>13, <4>1
      <4> QED BY <1>11, <3>2, <4>2, <4>3 DEF WalkOK, At
    <3>3. CASE q # p /\ pull[q].at # "walk"
      BY <1>11, <3>3 DEF WalkOK
    <3> QED BY <3>1, <3>2, <3>3
  <2>6. \A j \in Items : j # x => /\ items'[j].linked = items[j].linked /\ items'[j].lru = items[j].lru
                                  /\ InTransit(j)' <=> InTransit(j)
    BY <1>10, <2>2
  <2>7. \A l \in Lrus : Once(lists'[l]) /\ Range(lists'[l]) \ {x} = Range(lists[l]) \ {x}
    BY <1>13
  <2> QED BY <1>15, <2>4, <2>5, <2>6, <2>7, WholeStep
<1> QED BY <1>14, <1>15, <1>16, <1>19, <1>20, <1>21, Together

LEMMA TakeOne == ASSUME NEW n \in Nat PROVE n - 1 + 0 = n + -1 /\ n - 0 + 0 = n + 0
OBVIOUS
LEMMA LastOne == 0 + 0 + -1 = -1 /\ 0 + -1 + 0 = -1
OBVIOUS

\* What lru_pull_tail has done with its item is over: it links it where it goes, and lets go.
LEMMA PullSettleKeeps ==
    ASSUME IInv, Sound, NEW p \in Pullers, PullSettle(p), UNCHANGED crawlVars
    PROVE  IInv'
<1>1. /\ pull[p].at = "settle" /\ pull[p].search \in Items /\ ilock[pull[p].search] = p
      /\ pull[p].to # "" => items[pull[p].search].linked
      /\ pull[p].to = "COLD" => ~items[pull[p].search].active
      /\ lru_lock[p] = ""
  <2>1. pull[p].at = "settle"
    BY DEF PullSettle
  <2>2. PullOK(p)
    BY DEF IInv, ThreadsOK
  <2> QED BY <2>1, <2>2 DEF PullOK, At
<1>2. PICK x \in Items : x = pull[p].search
  BY <1>1
<1>3. PICK to \in Lrus \cup {""} : to = pull[p].to
  <2>1. pull[p] \in Pull
    BY TypesAre DEF IInv
  <2> QED BY <2>1 DEF Pull
<1>4. PICK r \in Nat : r = pull[p].removed
  <2>1. pull[p] \in Pull
    BY TypesAre DEF IInv
  <2> QED BY <2>1 DEF Pull
<1>5. /\ to = "" \/ Unlocked(to)
      /\ items' = do_item_remove(SettleIn(items, x, to), x)
      /\ lists' = IF to = "" THEN lists ELSE LinkQ(lists, x, to)
      /\ ilock' = [ilock EXCEPT ![x] = Nobody]
      /\ Returned(p, r) /\ lru_lock' = lru_lock
  BY <1>2, <1>3, <1>4 DEF PullSettle, At
<1>6. pull[p].at # "" /\ p # Nobody
  BY <1>1, LruNames
<1>7. /\ pull' \in [Pullers -> Pull] /\ pull'[p] = NoPull
      /\ \A q \in Pullers : q # p => pull'[q] = pull[q]
      /\ wk' \in [LruWorkers -> Work] /\ mt' \in Upkeep
      /\ mt'.cur = mt.cur /\ mt'.size = mt.size /\ mt'.todo = mt.todo
      /\ UpkeepOK'
      /\ UNCHANGED <<clock, bumps, left>>
      /\ \A w \in LruWorkers :
            /\ wk'[w].got = wk[w].got
            /\ \/ wk'[w].job = wk[w].job
               \/ w = p /\ wk'[w].job.at # "locked"
  BY <1>5, <1>6, ReturnedIs
<1>8. items \in [Items -> Header]
  BY DEF IInv, LruTypes
<1>9. PICK m \in [Items -> Header] : m = SettleIn(items, x, to)
  <2>1. CASE to = ""
    BY <1>8, <2>1 DEF SettleIn
  <2>2. CASE to # ""
    <3>1. to \in Lrus
      BY <2>2
    <3>2. Placed(items, x, to) \in [Items -> Header]
      BY <1>8, <3>1, PlacedIs
    <3>3. SettleIn(items, x, to) = Placed(items, x, to)
      BY <2>2 DEF SettleIn, Placed
    <3> QED BY <3>2, <3>3
  <2> QED BY <2>1, <2>2
<1>10. /\ \A j \in Items : j # x => m[j] = items[j]
       /\ m[x].ref = items[x].ref /\ m[x].linked = items[x].linked /\ m[x].active = items[x].active
       /\ m[x].lru = (IF to = "" THEN items[x].lru ELSE to)
  <2>1. CASE to = ""
    <3>1. m = items
      BY <1>9, <2>1 DEF SettleIn
    <3> QED BY <2>1, <3>1
  <2>2. CASE to # ""
    <3>1. to \in Lrus
      BY <2>2
    <3>2. /\ Placed(items, x, to) \in [Items -> Header] /\ \A j \in Items : j # x => Placed(items, x, to)[j] = items[j]
          /\ Placed(items, x, to)[x].ref = items[x].ref /\ Placed(items, x, to)[x].linked = items[x].linked
          /\ Placed(items, x, to)[x].lru = to /\ Placed(items, x, to)[x].active = items[x].active
      BY <1>8, <3>1, PlacedIs
    <3>3. m = Placed(items, x, to)
      BY <1>9, <2>2 DEF SettleIn, Placed
    <3> QED BY <2>2, <3>2, <3>3
  <2> QED BY <2>1, <2>2
<1>11. Referred(x)
  <2>1. Settling(x) # {} /\ IsFiniteSet(Settling(x))
    BY <1>1, <1>2, CountsFinite DEF Settling, At
  <2> QED BY <2>1, SomeCard DEF Referred
<1>12. /\ items' \in [Items -> Header] /\ \A j \in Items : j # x => items'[j] = items[j]
       /\ LinkBy(x, 0) /\ items'[x].linked = items[x].linked
       /\ items'[x].ref = items[x].ref - 1
       /\ items'[x].linked => items'[x].lru = m[x].lru /\ items'[x].active = m[x].active
  <2>1. items' = do_item_remove(m, x)
    BY <1>5, <1>9
  <2>2. Lowered(m, x)
    BY <1>10, <1>11, <2>1, LetGo
  <2> QED BY <2>2 DEF Lowered
<1>13. /\ ilock' \in [Items -> Pullers \cup {CrawlerThread, Nobody}]
       /\ \A j \in Items : j # x => ilock'[j] = ilock[j]
  BY <1>5 DEF IInv, LruTypes
<1>14. CrawlTypes' /\ ClientReturned' /\ cr' = cr /\ cbuf' = cbuf /\ UNCHANGED <<crawlers, crawler_count>>
  BY CrawlTypesKept, ClientKept DEF IInv, crawlVars
<1>15. ThreadsOK'
  <2>1. \A i \in Items : ilock[i] # p => /\ ilock'[i] = ilock[i] /\ items'[i].linked = items[i].linked
                                         /\ items'[i].active = items[i].active
    BY <1>1, <1>2, <1>12, <1>13
  <2>2. lru_lock'[p] = "" /\ \A q \in Pullers : q # p => lru_lock'[q] = lru_lock[q]
    BY <1>1, <1>5
  <2>3. UNCHANGED <<cr, cbuf>>
    BY <1>14
  <2> QED BY <1>5, <1>6, <2>1, <2>2, <2>3, ReturnThreads
<1>16. \A q \in Pullers : pull[q].at = "settle" /\ pull[q].search = x => q = p
  BY <1>1, <1>2 DEF IInv, ThreadsOK, PullOK, At
<1>17. /\ to # "" => InTransit(x)
       /\ to = "" => ~InTransit(x)
       /\ ~InTransit(x)'
  <2>1. to # "" => InTransit(x)
    BY <1>1, <1>2, <1>3 DEF InTransit, At
  <2>2. to = "" => ~InTransit(x)
    BY <1>3, <1>16 DEF InTransit, At
  <2>3. ASSUME InTransit(x)' PROVE FALSE
    <3>1. PICK q \in Pullers : pull'[q].at = "settle" /\ pull'[q].search = x
      BY <2>3 DEF InTransit, At
    <3>2. q # p
      BY <1>7, <3>1, NoPullIs
    <3>3. pull[q].at = "settle" /\ pull[q].search = x
      BY <1>7, <3>1, <3>2
    <3> QED BY <1>16, <3>2, <3>3
  <2> QED BY <2>1, <2>2, <2>3
<1>18. to # "" => to \in Lrus /\ x \notin Range(lists[to])
  BY <1>17, ListedIs
<1>19. /\ lists' \in [Lrus -> Seq(Items \cup {Crawler})]
       /\ \A l \in Lrus : /\ Once(lists'[l])
                          /\ l # to => lists'[l] = lists[l]
                          /\ l = to => Range(lists'[l]) = Range(lists[l]) \cup {x}
  <2>1. CASE to = ""
    <3>1. lists' = lists
      BY <1>5, <2>1
    <3>2. lists \in [Lrus -> Seq(Items \cup {Crawler})] /\ \A l \in Lrus : Once(lists[l])
      BY DEF IInv, LruTypes, Whole, ListOK
    <3>3. to \notin Lrus
      BY <2>1 DEF Lrus
    <3> QED BY <3>1, <3>2, <3>3
  <2>2. CASE to # ""
    <3>1. PICK k \in Lrus : k = to /\ x \notin Range(lists[k])
      BY <1>18, <2>2
    <3>2. /\ LinkQ(lists, x, k) \in [Lrus -> Seq(Items \cup {Crawler})]
          /\ \A l \in Lrus : /\ Once(LinkQ(lists, x, k)[l])
                             /\ l # k => LinkQ(lists, x, k)[l] = lists[l]
                             /\ l = k => Range(LinkQ(lists, x, k)[l]) = Range(lists[l]) \cup {x}
      BY <3>1, PutIn
    <3>3. lists' = LinkQ(lists, x, k)
      BY <1>5, <2>2, <3>1
    <3> QED BY <3>1, <3>2, <3>3
  <2> QED BY <2>1, <2>2
<1>20. LruTypes'
  BY <1>5, <1>7, <1>12, <1>13, <1>19 DEF IInv, LruTypes
<1>21. /\ GotBy(x, 0) /\ QueuedBy(x, 0) /\ SearchBy(x, 0)
       /\ \A w \in LruWorkers : Pending(w)' = Pending(w)
  <2>1. \A w \in LruWorkers : wk'[w].got = wk[w].got
    BY <1>7
  <2>2. \A w \in LruWorkers : Pending(w)' = Pending(w)
    BY <1>7 DEF Pending
  <2>3. cr'.search = cr.search
    BY <1>14
  <2>4. GotBy(x, 0)
    BY <2>1, GotSame
  <2>5. QueuedBy(x, 0)
    BY <2>2, QueuedSame
  <2>6. SearchBy(x, 0)
    BY <2>3, SearchSame
  <2> QED BY <2>2, <2>4, <2>5, <2>6
<1>22. SettlingBy(x, -1)
  <2> SUFFICES ASSUME NEW j \in Items PROVE Cardinality(Settling(j)') = Cardinality(Settling(j)) + Only(j, x, -1)
    BY DEF SettlingBy
  <2>1. \A q \in Pullers : q # p => pull'[q] = pull[q]
    BY <1>7
  <2>2. /\ Cardinality(Settling(j)) \in Nat /\ Cardinality(Settling(j)') \in Nat
        /\ Cardinality(Settling(j)') = Cardinality(Settling(j))
             - OneIf(pull[p].at = "settle" /\ pull[p].search = j)
             + OneIf(pull'[p].at = "settle" /\ pull'[p].search = j)
    BY <2>1, SettlingChange
  <2>3. OneIf(pull'[p].at = "settle" /\ pull'[p].search = j) = 0
    BY <1>7, NoPullIs DEF OneIf
  <2>4. PICK n \in Nat : n = Cardinality(Settling(j))
    BY <2>2
  <2>5. CASE j = x
    <3>1. OneIf(pull[p].at = "settle" /\ pull[p].search = j) = 1
      BY <1>1, <1>2, <2>5 DEF OneIf
    <3>2. Only(j, x, -1) = -1
      BY <2>5 DEF Only
    <3>3. n - 1 + 0 = n + -1
      BY TakeOne
    <3> QED BY <2>2, <2>3, <2>4, <3>1, <3>2, <3>3
  <2>6. CASE j # x
    <3>1. OneIf(pull[p].at = "settle" /\ pull[p].search = j) = 0
      BY <1>2, <2>6 DEF OneIf
    <3>2. Only(j, x, -1) = 0
      BY <2>6 DEF Only
    <3>3. n - 0 + 0 = n + 0
      BY TakeOne
    <3> QED BY <2>2, <2>3, <2>4, <3>1, <3>2, <3>3
  <2> QED BY <2>5, <2>6
<1>23. RefsExact'
  <2>1. 0 + 0 + -1 = -1
    BY LastOne
  <2> QED BY MinusOne, <1>12, <1>21, <1>22, <2>1, RefsFall
<1>24. ActiveIsQueued'
  <2>1. items'[x].linked /\ items'[x].lru = "COLD" /\ items'[x].active =>
           items[x].linked /\ items[x].lru = "COLD" /\ items[x].active
    BY <1>1, <1>2, <1>3, <1>10, <1>12
  <2> QED BY <1>12, <1>21, <2>1, ActiveStep DEF IInv
<1>25. Whole'
  <2>1. ASSUME NEW j \in Items, j # x PROVE InTransit(j)' <=> InTransit(j)
    <3>1. InTransit(j)' <=> \E q \in Pullers : pull'[q].at = "settle" /\ pull'[q].search = j /\ pull'[q].to # ""
      BY DEF InTransit, At
    <3>2. InTransit(j) <=> \E q \in Pullers : pull[q].at = "settle" /\ pull[q].search = j /\ pull[q].to # ""
      BY DEF InTransit, At
    <3>3. ASSUME NEW q \in Pullers
          PROVE  (pull'[q].at = "settle" /\ pull'[q].search = j /\ pull'[q].to # "")
                 <=> (pull[q].at = "settle" /\ pull[q].search = j /\ pull[q].to # "")
      <4>1. CASE q = p
        BY <1>2, <1>7, <2>1, <4>1, NoPullIs
      <4>2. CASE q # p
        BY <1>7, <4>2
      <4> QED BY <4>1, <4>2
    <3> QED BY <3>1, <3>2, <3>3
  <2>2. \A l \in Lrus : Once(lists'[l]) /\ Range(lists'[l]) \ {x} = Range(lists[l]) \ {x}
    <3> SUFFICES ASSUME NEW l \in Lrus PROVE Once(lists'[l]) /\ Range(lists'[l]) \ {x} = Range(lists[l]) \ {x}
      OBVIOUS
    <3>1. CASE l = to
      BY <1>19, <3>1
    <3>2. CASE l # to
      BY <1>19, <3>2
    <3> QED BY <3>1, <3>2
  <2>3. \A l \in Lrus : x \in Range(lists'[l]) <=> items'[x].linked /\ ~InTransit(x)' /\ items'[x].lru = l
    <3> SUFFICES ASSUME NEW l \in Lrus
                 PROVE  x \in Range(lists'[l]) <=> items'[x].linked /\ ~InTransit(x)' /\ items'[x].lru = l
      OBVIOUS
    <3>1. CASE to = ""
      <4>1. lists'[l] = lists[l]
        BY <1>19, <3>1 DEF Lrus
      <4>2. x \in Range(lists[l]) <=> items[x].linked /\ ~InTransit(x) /\ items[x].lru = l
        BY ListedIs
      <4>3. items'[x].linked => items'[x].lru = items[x].lru
        BY <1>10, <1>12, <3>1
      <4> QED BY <1>12, <1>17, <3>1, <4>1, <4>2, <4>3
    <3>2. CASE to # ""
      <4>1. items[x].linked /\ items'[x].linked /\ items'[x].lru = to
        BY <1>1, <1>2, <1>3, <1>10, <1>12, <3>2
      <4>2. CASE l = to
        <5>1. x \in Range(lists'[l])
          BY <1>19, <4>2
        <5> QED BY <1>17, <4>1, <4>2, <5>1
      <4>3. CASE l # to
        <5>1. x \notin Range(lists'[l])
          BY <1>17, <1>19, <3>2, <4>3, ListedIs
        <5> QED BY <4>1, <4>3, <5>1
      <4> QED BY <4>2, <4>3
    <3> QED BY <3>1, <3>2
  <2>4. ASSUME NEW q \in Pullers PROVE WalkOK(q)'
    <3>1. CASE q = p
      BY <1>7, <3>1, NoPullIs DEF WalkOK
    <3>2. CASE q # p /\ pull[q].at = "walk"
      <4>1. pull[q].lru \in Lrus
        BY <3>2 DEF IInv, ThreadsOK, PullOK
      <4>2. pull[q].search = Nobody \/ pull[q].search \in Range(lists[pull[q].lru])
        BY <3>2, WalksAre
      <4>3. Range(lists[pull[q].lru]) \subseteq Range(lists'[pull[q].lru])
        <5>1. CASE pull[q].lru = to
          BY <1>19, <4>1, <5>1
        <5>2. CASE pull[q].lru # to
          BY <1>19, <4>1, <5>2
        <5> QED BY <5>1, <5>2
      <4>4. pull'[q].search = Nobody \/ pull'[q].search \in Range(lists'[pull'[q].lru])
        BY <1>7, <3>2, <4>2, <4>3
      <4> QED BY <4>4 DEF WalkOK, At
    <3>3. CASE q # p /\ pull[q].at # "walk"
      BY <1>7, <3>3 DEF WalkOK
    <3> QED BY <3>1, <3>2, <3>3
  <2>5. \A j \in Items : j # x => /\ items'[j].linked = items[j].linked /\ items'[j].lru = items[j].lru
                                  /\ InTransit(j)' <=> InTransit(j)
    BY <1>12, <2>1
  <2> QED BY <1>14, <2>2, <2>3, <2>4, <2>5, WholeStep
<1> QED BY <1>14, <1>15, <1>20, <1>23, <1>24, <1>25, Together

LEMMA GiveOne == ASSUME NEW n \in Nat PROVE n = n + 1 + -1 /\ n = n + 0 + 0
OBVIOUS

\* The maintainer has taken a bump out of what is still to be applied.
LEMMA QueuedShrinks ==
    ASSUME LruTypes, LruTypes', NEW w \in LruWorkers, NEW i \in Items, Pending(w) # <<>>, i = Head(Pending(w)),
           Pending(w)' = Tail(Pending(w)), \A v \in LruWorkers : v # w => Pending(v)' = Pending(v)
    PROVE  QueuedBy(i, -1)
<1>1. QueuesFine /\ QueuesFine'
  BY QueuesAre, QueuesAreNext
<1>2. PICK P \in Queues : P = Pend
  BY <1>1 DEF QueuesFine
<1>3. PICK Q \in Queues : Q = Pend'
  BY <1>1 DEF QueuesFine
<1>4. P[w] # <<>> /\ Q[w] = Tail(P[w]) /\ i = Head(P[w]) /\ \A v \in LruWorkers : v # w => Q[v] = P[v]
  BY <1>2, <1>3 DEF Pend
<1>5. \A j \in Items : Queued(j) = Spots(P, j)
  BY <1>1, <1>2 DEF QueuesFine
<1>6. \A j \in Items : Queued(j)' = Spots(Q, j) /\ Cardinality(Queued(j)') \in Nat
  BY <1>1, <1>3 DEF QueuesFine
<1>7. \A j : Cardinality(Spots(P, j)) = Cardinality(Spots(Q, j)) + (IF j = Head(P[w]) THEN 1 ELSE 0)
  BY <1>4, SpotsTail
<1> SUFFICES ASSUME NEW j \in Items PROVE Cardinality(Queued(j)') = Cardinality(Queued(j)) + Only(j, i, -1)
  BY DEF QueuedBy
<1>8. PICK n \in Nat : n = Cardinality(Queued(j)')
  BY <1>6
<1>9. CASE j = i
  <2>1. Cardinality(Queued(j)) = n + 1
    BY <1>4, <1>5, <1>6, <1>7, <1>8, <1>9
  <2>2. Only(j, i, -1) = -1
    BY <1>9 DEF Only
  <2>3. n = n + 1 + -1
    BY GiveOne
  <2> QED BY <1>8, <2>1, <2>2, <2>3
<1>10. CASE j # i
  <2>1. Cardinality(Queued(j)) = n + 0
    BY <1>4, <1>5, <1>6, <1>7, <1>8, <1>10
  <2>2. Only(j, i, -1) = 0
    BY <1>10 DEF Only
  <2>3. n = n + 0 + 0
    BY GiveOne
  <2> QED BY <1>8, <2>1, <2>2, <2>3
<1> QED BY <1>9, <1>10

LEMMA TailParts ==
    ASSUME NEW t \in Seq(Items), t # <<>>, NEW r \in Seq(Items)
    PROVE  /\ t \o r # <<>> /\ Head(t \o r) = Head(t) /\ Tail(t \o r) = Tail(t) \o r
           /\ Tail(t) \in Seq(Items) /\ Head(t) \in Items
<1>1. t \o r \in Seq(Items) /\ Len(t \o r) = Len(t) + Len(r) /\ Len(t) \in Nat \ {0} /\ Len(r) \in Nat
  BY ConcatProperties
<1>2. Tail(t) \in Seq(Items) /\ Head(t) \in Items
  OBVIOUS
<1>3. t \o r # <<>>
  BY <1>1
<1>4. Head(t \o r) = Head(t)
  <2>1. Head(t \o r) = (t \o r)[1] /\ Head(t) = t[1]
    BY <1>1, <1>3
  <2>2. (t \o r)[1] = t[1]
    BY <1>1, ConcatProperties
  <2> QED BY <2>1, <2>2
<1>5. Tail(t \o r) = Tail(t) \o r
  OBVIOUS
<1> QED BY <1>2, <1>3, <1>4, <1>5

\* A thread that is not in the way of the others changes one item, or its lock.
LEMMA ApartThreads ==
    ASSUME IInv, NEW x \in Items, ilock[x] \in {Nobody, CrawlerThread},
           UNCHANGED <<lru_lock, pull, wk, bumps>>, UpkeepOK', CrawlOK',
           \A j \in Items : j # x => ilock'[j] = ilock[j] /\ items'[j] = items[j]
    PROVE  ThreadsOK'
<1>1. \A q \in Pullers : PullOK(q)'
  <2> SUFFICES ASSUME NEW q \in Pullers PROVE PullOK(q)'
    OBVIOUS
  <2>0. q # Nobody /\ q # CrawlerThread
    BY LruNames, CrawlerAssumption
  <2>1. PullOK(q)
    BY DEF IInv, ThreadsOK
  <2>2. pull'[q] = pull[q] /\ lru_lock'[q] = lru_lock[q]
    OBVIOUS
  <2>3. \A s \in Pullers : pull[q].at = "walk" /\ pull'[s].at = "walk" /\ pull'[s].lru = pull[q].lru => s = q
    BY <2>1 DEF PullOK
  <2>4. ASSUME pull[q].at = "settle"
        PROVE  /\ ilock'[pull[q].search] = q
               /\ pull[q].to # "" => items'[pull[q].search].linked
               /\ pull[q].to = "COLD" => ~items'[pull[q].search].active
    <3>1. /\ pull[q].search \in Items /\ ilock[pull[q].search] = q
          /\ pull[q].to # "" => items[pull[q].search].linked
          /\ pull[q].to = "COLD" => ~items[pull[q].search].active
      BY <2>1, <2>4 DEF PullOK, At
    <3>2. pull[q].search # x
      BY <2>0, <3>1
    <3> QED BY <3>1, <3>2
  <2> QED BY <2>1, <2>2, <2>3, <2>4, PullKept
<1>2. \A w \in LruWorkers : WorkOK(w)'
  <2> SUFFICES ASSUME NEW w \in LruWorkers PROVE WorkOK(w)'
    OBVIOUS
  <2>0. w # Nobody /\ w # CrawlerThread
    BY LruNames, CrawlerAssumption DEF Pullers
  <2>1. /\ wk[w].job.at = "locked" => wk[w].job.it \in Items /\ ilock[wk[w].job.it] = w
        /\ pull[w].at # "" => wk[w].job.at \in {"COLD", "HOT"}
        /\ Len(bumps[w]) <= BumpSize
    BY WorksAre
  <2>2. wk[w].job.at = "locked" => ilock'[wk[w].job.it] = w
    BY <2>0, <2>1
  <2> QED BY <2>1, <2>2 DEF WorkOK
<1> QED BY <1>1, <1>2 DEF ThreadsOK

\* do_item_update moves an ACTIVE item of COLD to WARM, and no other.
LEMMA UpdateIs ==
    ASSUME IInv, Sound, NEW x \in Items, NEW m, m = do_item_update(x, items, lists).items,
           NEW L, L = do_item_update(x, items, lists).lists
    PROVE  /\ m \in [Items -> Header] /\ \A j \in Items : j # x => m[j] = items[j]
           /\ m[x].ref = items[x].ref /\ m[x].linked = items[x].linked
           /\ \/ L = lists /\ m[x].lru = items[x].lru /\ m[x].active = items[x].active
                 /\ (items[x].linked => ~(items[x].lru = "COLD" /\ items[x].active))
              \/ /\ L = LinkQ(UnlinkQ(lists, x, "COLD"), x, "WARM") /\ items[x].linked
                 /\ items[x].lru = "COLD" /\ m[x].lru = "WARM"
<1>1. items \in [Items -> Header] /\ clock \in Nat
  BY TypesAre DEF IInv, LruTypes
<1>2. PICK u \in [Items -> Header] : u = Timed(items, x, clock)
  BY <1>1, TimedIs
<1>3. /\ \A j \in Items : j # x => u[j] = items[j]
      /\ u[x].ref = items[x].ref /\ u[x].linked = items[x].linked
      /\ u[x].lru = items[x].lru /\ u[x].active = items[x].active
  <2>1. /\ Timed(items, x, clock) \in [Items -> Header]
        /\ \A j \in Items : j # x => Timed(items, x, clock)[j] = items[j]
        /\ Timed(items, x, clock)[x].ref = items[x].ref /\ Timed(items, x, clock)[x].linked = items[x].linked
        /\ Timed(items, x, clock)[x].lru = items[x].lru /\ Timed(items, x, clock)[x].active = items[x].active
    BY <1>1, TimedIs
  <2> QED BY <1>2, <2>1
<1>4. CASE ~items[x].linked
  <2>1. m = items /\ L = lists
    BY <1>4 DEF do_item_update
  <2> QED BY <1>1, <1>4, <2>1
<1>5. CASE items[x].linked /\ items[x].lru = "COLD" /\ items[x].active
  <2>1. "WARM" \in Lrus /\ FALSE \in BOOLEAN
    BY DEF Lrus
  <2>2. PICK v \in [Items -> Header] : v = Placed(u, x, "WARM")
    BY <2>1, PlacedIs
  <2>3. /\ \A j \in Items : j # x => v[j] = u[j]
        /\ v[x].ref = u[x].ref /\ v[x].linked = u[x].linked /\ v[x].lru = "WARM"
    <3>1. /\ Placed(u, x, "WARM") \in [Items -> Header] /\ \A j \in Items : j # x => Placed(u, x, "WARM")[j] = u[j]
          /\ Placed(u, x, "WARM")[x].ref = u[x].ref /\ Placed(u, x, "WARM")[x].linked = u[x].linked
          /\ Placed(u, x, "WARM")[x].lru = "WARM" /\ Placed(u, x, "WARM")[x].active = u[x].active
      BY <2>1, PlacedIs
    <3> QED BY <2>2, <3>1
  <2>4. PICK y \in [Items -> Header] : y = Marked(v, x, FALSE)
    BY <2>1, MarkedIs
  <2>5. /\ \A j \in Items : j # x => y[j] = v[j]
        /\ y[x].ref = v[x].ref /\ y[x].linked = v[x].linked /\ y[x].lru = v[x].lru
    <3>1. /\ Marked(v, x, FALSE) \in [Items -> Header] /\ \A j \in Items : j # x => Marked(v, x, FALSE)[j] = v[j]
          /\ Marked(v, x, FALSE)[x].ref = v[x].ref /\ Marked(v, x, FALSE)[x].linked = v[x].linked
          /\ Marked(v, x, FALSE)[x].lru = v[x].lru /\ Marked(v, x, FALSE)[x].active = FALSE
      BY <2>1, MarkedIs
    <3> QED BY <2>4, <3>1
  <2>6. m = [items EXCEPT ![x].time = clock, ![x].lru = "WARM", ![x].active = FALSE]
        /\ L = LinkQ(UnlinkQ(lists, x, "COLD"), x, "WARM")
    BY <1>5 DEF do_item_update
  <2>7. [items EXCEPT ![x].time = clock, ![x].lru = "WARM", ![x].active = FALSE]
          = Marked(Placed(Timed(items, x, clock), x, "WARM"), x, FALSE)
    BY DEF Marked, Placed, Timed
  <2>8. m = y
    BY <1>2, <2>2, <2>4, <2>6, <2>7
  <2>9. y \in [Items -> Header] /\ \A j \in Items : j # x => y[j] = items[j]
    BY <1>3, <2>3, <2>5
  <2>10. y[x].ref = items[x].ref /\ y[x].linked = items[x].linked /\ y[x].lru = "WARM"
    BY <1>3, <2>3, <2>5
  <2>11. items[x].linked /\ items[x].lru = "COLD"
    BY <1>5
  <2>12. /\ m \in [Items -> Header] /\ \A j \in Items : j # x => m[j] = items[j]
         /\ m[x].ref = items[x].ref /\ m[x].linked = items[x].linked /\ m[x].lru = "WARM"
    BY <2>8, <2>9, <2>10
  <2> QED BY <2>6, <2>11, <2>12
<1>6. CASE items[x].linked /\ ~(items[x].lru = "COLD" /\ items[x].active)
  <2>1. m = (IF Stale(x) THEN Timed(items, x, clock) ELSE items) /\ L = lists
    BY <1>6 DEF do_item_update, Timed
  <2>2. m = u \/ m = items
    BY <1>2, <2>1
  <2>3. /\ m \in [Items -> Header] /\ \A j \in Items : j # x => m[j] = items[j]
        /\ m[x].ref = items[x].ref /\ m[x].linked = items[x].linked
        /\ m[x].lru = items[x].lru /\ m[x].active = items[x].active
    <3>1. CASE m = u
      BY <1>3, <3>1
    <3>2. CASE m = items
      BY <1>1, <3>2
    <3> QED BY <2>2, <3>1, <3>2
  <2>4. L = lists /\ m[x].lru = items[x].lru /\ m[x].active = items[x].active
        /\ (items[x].linked => ~(items[x].lru = "COLD" /\ items[x].active))
    BY <1>6, <2>1, <2>3
  <2> QED BY <2>3, <2>4
<1> QED BY <1>4, <1>5, <1>6

\* What the maintainer is about to apply is queued.
LEMMA HeadIsQueued ==
    ASSUME IInv, NEW w \in LruWorkers, NEW i \in Items, Pending(w) # <<>>, i = Head(Pending(w))
    PROVE  Cardinality(Queued(i)) >= 1
<1>1. QueuesFine
  BY QueuesAre DEF IInv
<1>2. PICK P \in Queues : P = Pend
  BY <1>1 DEF QueuesFine
<1>3. PICK s \in Seq(Items) : s = P[w]
  BY DEF Queues
<1>4. s # <<>> /\ i = Head(s)
  BY <1>2, <1>3 DEF Pend
<1>5. 1 \in 1 .. Len(s) /\ s[1] = i
  BY <1>4
<1>6. <<w, 1>> \in Spots(P, i)
  BY <1>3, <1>5, SpotsAre
<1>7. Queued(i) # {}
  BY <1>1, <1>2, <1>6 DEF QueuesFine
<1> QED BY <1>7, QueuedSome DEF IInv

\* A bump that was queued is applied, and its reference given back.
LEMMA BumpOneKeeps == ASSUME IInv, Sound, BumpOne, UNCHANGED crawlVars PROVE IInv'
<1>1. /\ mt.at = "bump" /\ mt.todo # <<>> /\ Unlocked("COLD") /\ Unlocked("WARM") /\ ilock[Head(mt.todo)] = Nobody
      /\ mt' = [mt EXCEPT !.todo = Tail(mt.todo)]
      /\ UNCHANGED <<clock, ilock, lru_lock, pull, wk, bumps, left>>
      /\ items' = do_item_remove(do_item_update(Head(mt.todo), items, lists).items, Head(mt.todo))
      /\ lists' = do_item_update(Head(mt.todo), items, lists).lists
  BY DEF BumpOne
<1>2. mt \in Upkeep /\ pull[Maintainer].at = ""
  BY <1>1, UpkeepIs DEF Lrus
<1>3. mt.cur \in LruWorkers /\ mt.size <= Len(bumps[mt.cur])
  BY <1>1 DEF IInv, ThreadsOK, UpkeepOK
<1>4. PICK w \in LruWorkers : w = mt.cur
  BY <1>3
<1>5. PICK t \in Seq(Items) : t = mt.todo
  BY <1>2 DEF Upkeep
<1>6. PICK n \in Nat : n = mt.size
  BY <1>2 DEF Upkeep
<1>7. bumps[w] \in Seq(Items)
  BY DEF IInv, LruTypes
<1>8. n \in 0 .. Len(bumps[w])
  BY <1>3, <1>4, <1>6, <1>7
<1>9. PICK r \in Seq(Items) : r = SubSeq(bumps[w], n + 1, Len(bumps[w]))
  BY <1>7, <1>8, PartsIs
<1>10. t # <<>>
  BY <1>1, <1>5
<1>11. /\ t \o r # <<>> /\ Head(t \o r) = Head(t) /\ Tail(t \o r) = Tail(t) \o r
       /\ Tail(t) \in Seq(Items) /\ Head(t) \in Items
  BY <1>10, TailParts
<1>12. PICK x \in Items : x = Head(t)
  BY <1>11
<1>13. /\ mt' \in Upkeep /\ mt'.at = mt.at /\ mt'.cur = mt.cur /\ mt'.size = mt.size /\ mt'.todo = Tail(t)
  BY <1>1, <1>2, <1>5, <1>11 DEF Upkeep
<1>14. UpkeepOK'
  BY <1>1, <1>2, <1>3, <1>13 DEF UpkeepOK
<1>15. Pending(w) = t \o r /\ Pending(w)' = Tail(t) \o r
  <2>1. Pending(w) = t \o r
    BY <1>4, <1>5, <1>6, <1>9 DEF Pending
  <2>2. Pending(w)' = mt'.todo \o SubSeq(bumps'[w], mt'.size + 1, Len(bumps'[w]))
    BY <1>4, <1>13 DEF Pending
  <2>3. bumps' = bumps
    BY <1>1
  <2> QED BY <1>6, <1>9, <1>13, <2>1, <2>2, <2>3
<1>16. \A v \in LruWorkers : v # w => Pending(v)' = Pending(v)
  BY <1>1, <1>4, <1>13 DEF Pending
<1>17. Pending(w) # <<>> /\ x = Head(Pending(w)) /\ Pending(w)' = Tail(Pending(w))
  BY <1>11, <1>12, <1>15
<1>18. Referred(x)
  BY <1>17, HeadIsQueued DEF Referred
<1>19. PICK m : m = do_item_update(x, items, lists).items
  OBVIOUS
<1>20. PICK L : L = do_item_update(x, items, lists).lists
  OBVIOUS
<1>21. /\ m \in [Items -> Header] /\ \A j \in Items : j # x => m[j] = items[j]
       /\ m[x].ref = items[x].ref /\ m[x].linked = items[x].linked
       /\ \/ L = lists /\ m[x].lru = items[x].lru /\ m[x].active = items[x].active
             /\ (items[x].linked => ~(items[x].lru = "COLD" /\ items[x].active))
          \/ /\ L = LinkQ(UnlinkQ(lists, x, "COLD"), x, "WARM") /\ items[x].linked
             /\ items[x].lru = "COLD" /\ m[x].lru = "WARM"
  BY <1>19, <1>20, UpdateIs
<1>22. items' = do_item_remove(m, x) /\ lists' = L /\ ilock[x] = Nobody
  BY <1>1, <1>5, <1>12, <1>19, <1>20
<1>23. /\ items' \in [Items -> Header] /\ \A j \in Items : j # x => items'[j] = items[j]
       /\ LinkBy(x, 0) /\ items'[x].linked = items[x].linked
       /\ items'[x].ref = items[x].ref - 1
       /\ items'[x].linked => items'[x].lru = m[x].lru /\ items'[x].active = m[x].active
  <2>1. /\ m \in [Items -> Header] /\ \A j \in Items : j # x => m[j] = items[j]
        /\ m[x].ref = items[x].ref /\ m[x].linked = items[x].linked /\ items' = do_item_remove(m, x)
    BY <1>21, <1>22
  <2>2. Lowered(m, x)
    BY <1>18, <2>1, LetGo
  <2> QED BY <2>2 DEF Lowered
<1>24. ~InTransit(x)
  <2>1. \A q \in Pullers : q # Nobody
    BY LruNames
  <2>2. \A q \in Pullers : pull[q].at = "settle" => ilock[At(q)] = q
    BY DEF IInv, ThreadsOK, PullOK
  <2>3. \A q \in Pullers : ~(pull[q].at = "settle" /\ At(q) = x)
    BY <1>22, <2>1, <2>2
  <2> QED BY <2>3 DEF InTransit
<1>25. /\ lists' \in [Lrus -> Seq(Items \cup {Crawler})]
       /\ \A l \in Lrus : Once(lists'[l]) /\ Range(lists'[l]) \ {x} = Range(lists[l]) \ {x}
       /\ \A l \in Lrus : x \in Range(lists'[l]) <=> items'[x].linked /\ items'[x].lru = l
       /\ \A l \in Lrus : l \notin {"COLD", "WARM"} => lists'[l] = lists[l]
  <2>1. CASE L = lists /\ m[x].lru = items[x].lru
    <3>1. lists' = lists
      BY <1>22, <2>1
    <3>2. lists \in [Lrus -> Seq(Items \cup {Crawler})] /\ \A l \in Lrus : Once(lists[l])
      BY DEF IInv, LruTypes, Whole, ListOK
    <3>3. \A l \in Lrus : x \in Range(lists[l]) <=> items[x].linked /\ items[x].lru = l
      BY <1>24, ListedIs
    <3>4. items'[x].linked = items[x].linked /\ (items'[x].linked => items'[x].lru = items[x].lru)
      BY <1>23, <2>1
    <3>5. \A l \in Lrus : x \in Range(lists[l]) <=> items'[x].linked /\ items'[x].lru = l
      BY <3>3, <3>4
    <3> QED BY <3>1, <3>2, <3>5
  <2>2. CASE /\ L = LinkQ(UnlinkQ(lists, x, "COLD"), x, "WARM") /\ items[x].linked
             /\ items[x].lru = "COLD" /\ m[x].lru = "WARM"
    <3>1. "COLD" \in Lrus /\ "WARM" \in Lrus /\ "COLD" # "WARM"
      BY DEF Lrus
    <3>2. PICK k \in Lrus : k = "COLD"
      BY <3>1
    <3>3. PICK l \in Lrus : l = "WARM"
      BY <3>1
    <3>4. k # l
      BY <3>1, <3>2, <3>3
    <3>5. x \notin Range(lists[l])
      BY <2>2, <3>3, ListedIs
    <3>6. /\ LinkQ(UnlinkQ(lists, x, k), x, l) \in [Lrus -> Seq(Items \cup {Crawler})]
          /\ \A n2 \in Lrus : /\ Once(LinkQ(UnlinkQ(lists, x, k), x, l)[n2])
                              /\ n2 # l => LinkQ(UnlinkQ(lists, x, k), x, l)[n2] = UnlinkQ(lists, x, k)[n2]
                              /\ n2 # k => UnlinkQ(lists, x, k)[n2] = lists[n2]
          /\ Range(LinkQ(UnlinkQ(lists, x, k), x, l)[l]) = Range(lists[l]) \cup {x}
          /\ l # k => Range(LinkQ(UnlinkQ(lists, x, k), x, l)[k]) = Range(lists[k]) \ {x}
      BY <3>5, FrontIs
    <3>7. lists' = LinkQ(UnlinkQ(lists, x, k), x, l)
      BY <1>22, <2>2, <3>2, <3>3
    <3>8. /\ lists' \in [Lrus -> Seq(Items \cup {Crawler})] /\ \A o \in Lrus : Once(lists'[o])
          /\ \A o \in Lrus : o # l /\ o # k => lists'[o] = lists[o]
          /\ Range(lists'[l]) = Range(lists[l]) \cup {x} /\ Range(lists'[k]) = Range(lists[k]) \ {x}
      BY <3>4, <3>6, <3>7
    <3>9. items'[x].linked /\ items'[x].lru = l
      BY <1>23, <2>2, <3>3
    <3>10. ASSUME NEW o \in Lrus
           PROVE  /\ Range(lists'[o]) \ {x} = Range(lists[o]) \ {x}
                  /\ x \in Range(lists'[o]) <=> o = l
      <4>1. CASE o = l
        BY <3>8, <4>1
      <4>2. CASE o = k
        BY <3>4, <3>8, <4>2
      <4>3. CASE o # l /\ o # k
        <5>1. x \notin Range(lists[o])
          BY <2>2, <3>2, <4>3, ListedIs
        <5> QED BY <3>8, <4>3, <5>1
      <4> QED BY <4>1, <4>2, <4>3
    <3>11. \A o \in Lrus : x \in Range(lists'[o]) <=> items'[x].linked /\ items'[x].lru = o
      BY <3>9, <3>10
    <3>12. \A o \in Lrus : o \notin {"COLD", "WARM"} => lists'[o] = lists[o]
      BY <3>2, <3>3, <3>8
    <3> QED BY <3>8, <3>10, <3>11, <3>12
  <2> QED BY <1>21, <2>1, <2>2
<1>26. CrawlTypes' /\ ClientReturned' /\ cr' = cr /\ cbuf' = cbuf /\ UNCHANGED <<crawlers, crawler_count>>
  BY CrawlTypesKept, ClientKept DEF IInv, crawlVars
<1>27. LruTypes'
  BY <1>1, <1>13, <1>23, <1>25 DEF IInv, LruTypes
<1>28. CrawlOK'
  BY <1>1, <1>26 DEF IInv, ThreadsOK, CrawlOK
<1>29. ThreadsOK'
  <2>1. ilock[x] \in {Nobody, CrawlerThread} /\ UNCHANGED <<lru_lock, pull, wk, bumps>>
    BY <1>1, <1>22
  <2>2. \A j \in Items : j # x => ilock'[j] = ilock[j] /\ items'[j] = items[j]
    BY <1>1, <1>23
  <2> QED BY <1>14, <1>28, <2>1, <2>2, ApartThreads
<1>30. QueuedBy(x, -1)
  BY <1>16, <1>17, <1>27, QueuedShrinks DEF IInv
<1>31. GotBy(x, 0) /\ SettlingBy(x, 0) /\ SearchBy(x, 0)
  <2>1. \A v \in LruWorkers : wk'[v].got = wk[v].got
    BY <1>1
  <2>2. \A p \in Pullers : /\ pull'[p].at = "settle" <=> pull[p].at = "settle"
                           /\ pull[p].at = "settle" => pull'[p].search = pull[p].search
    BY <1>1
  <2>3. cr'.search = cr.search
    BY <1>26
  <2>4. GotBy(x, 0)
    BY <2>1, GotSame
  <2>5. SettlingBy(x, 0)
    BY <2>2, SettlingSame
  <2>6. SearchBy(x, 0)
    BY <2>3, SearchSame
  <2> QED BY <2>4, <2>5, <2>6
<1>32. RefsExact'
  <2>1. 0 + -1 + 0 = -1
    BY LastOne
  <2> QED BY MinusOne, <1>23, <1>30, <1>31, <2>1, RefsFall
<1>33. ActiveIsQueued'
  <2> SUFFICES ASSUME NEW j \in Items, items'[j].linked, items'[j].lru = "COLD", items'[j].active
               PROVE  Queued(j)' # {}
    BY DEF ActiveIsQueued
  <2>1. j # x
    <3>1. ~(items'[x].linked /\ items'[x].lru = "COLD" /\ items'[x].active)
      BY <1>21, <1>23
    <3> QED BY <3>1
  <2>2. items[j].linked /\ items[j].lru = "COLD" /\ items[j].active
    BY <1>23, <2>1
  <2>3. Queued(j) # {}
    BY <2>2 DEF IInv, ActiveIsQueued
  <2>4. PICK c \in Nat : c = Cardinality(Queued(j))
    BY RefsOf
  <2>5. c >= 1
    BY <2>3, <2>4, QueuedSome DEF IInv
  <2>6. Cardinality(Queued(j)') = c + 0
    BY <1>30, <2>1, <2>4 DEF QueuedBy, Only
  <2>7. Cardinality(Queued(j)') >= 1
    BY <2>5, <2>6
  <2>8. \A i \in Items : Queued(i)' # {} <=> Cardinality(Queued(i)') >= 1
    BY <1>27, QueuedSomeNext
  <2> QED BY <2>7, <2>8
<1>34. Whole'
  <2>1. \A j \in Items : InTransit(j)' <=> InTransit(j)
    BY <1>1 DEF InTransit, At
  <2>2. \A l \in Lrus : x \in Range(lists'[l]) <=> items'[x].linked /\ ~InTransit(x)' /\ items'[x].lru = l
    BY <1>24, <1>25, <2>1
  <2>3. \A l \in Lrus : ~Unlocked(l) => lists'[l] = lists[l]
    BY <1>1, <1>25
  <2>4. \A p \in Pullers : pull'[p].at = pull[p].at /\ pull'[p].lru = pull[p].lru
                             /\ (pull[p].at = "walk" => pull'[p].search = pull[p].search)
    BY <1>1
  <2>5. \A p \in Pullers : WalkOK(p)'
    BY <2>3, <2>4, WalksKept
  <2>6. \A j \in Items : j # x => /\ items'[j].linked = items[j].linked /\ items'[j].lru = items[j].lru
                                  /\ InTransit(j)' <=> InTransit(j)
    BY <1>23, <2>1
  <2>7. \A l \in Lrus : Once(lists'[l]) /\ Range(lists'[l]) \ {x} = Range(lists[l]) \ {x}
    BY <1>25
  <2> QED BY <1>26, <2>2, <2>5, <2>6, <2>7, WholeStep
<1> QED BY <1>26, <1>27, <1>29, <1>32, <1>33, <1>34, Together

-----------------------------------------------------------------------------
(* The crawler in its lists.                                               *)

\* A step of the crawler, which touches no list that somebody has locked.
LEMMA CrawlWhole ==
    ASSUME IInv, Sound, pull' = pull,
           \A l \in Lrus : Once(lists'[l]),
           \A l \in Lrus : \A j \in Items :
              j \in Range(lists'[l]) <=> items'[j].linked /\ ~InTransit(j) /\ items'[j].lru = l,
           \A l \in Lrus : Crawler \in Range(lists'[l]) <=> l \in Swept /\ crawlers'[l].on,
           \A l \in Lrus : ~Unlocked(l) => lists'[l] = lists[l], CountOK'
    PROVE  Whole'
<1>1. \A j \in Items : InTransit(j)' <=> InTransit(j)
  BY DEF InTransit, At
<1>2. \A l \in Lrus : ListOK(l)'
  BY <1>1 DEF ListOK
<1>3. \A p \in Pullers : WalkOK(p)'
  BY WalksKept
<1> QED BY <1>2, <1>3 DEF Whole

\* The crawler of a list is put out of it and no longer counted.
LEMMA DoneIs ==
    ASSUME IInv, Sound, NEW l \in Swept, crawlers[l].on, NEW L \in [Lrus -> Seq(Items \cup {Crawler})],
           \A k \in Lrus : Once(L[k]) /\ Range(L[k]) = Range(lists[k]) /\ (k # l => L[k] = lists[k]),
           lru_crawler_class_done(l, L)
    PROVE  /\ crawlers' \in [Swept -> [on : BOOLEAN, remaining : Nat]]
           /\ crawler_count' \in Int /\ crawler_count' \in 0 .. 2 * Cardinality(Swept)
           /\ cdata' \in [stats : Stats, wait : 0 .. MaxWait, next : Nat, last : Nat]
           /\ lists' \in [Lrus -> Seq(Items \cup {Crawler})]
           /\ \A k \in Lrus : Once(lists'[k]) /\ (k # l => lists'[k] = lists[k])
           /\ Range(lists'[l]) = Range(lists[l]) \ {Crawler}
           /\ \A k \in Swept : crawlers'[k].on <=> crawlers[k].on /\ k # l
           /\ CountOK'
<1>1. /\ crawlers' = [crawlers EXCEPT ![l] = [on |-> FALSE, remaining |-> 0]]
      /\ crawler_count' = crawler_count - 1
      /\ lists' = UnlinkQ(L, Crawler, l)
      /\ cdata' = IF mod.type = "expired" /\ mod.external THEN [cdata EXCEPT !.stats.complete = TRUE] ELSE cdata
  BY DEF lru_crawler_class_done, Uncounted
<1>2. /\ crawlers \in [Swept -> [on : BOOLEAN, remaining : Nat]]
      /\ cdata \in [stats : Stats, wait : 0 .. MaxWait, next : Nat, last : Nat]
  BY DEF IInv, CrawlTypes
<1>3. crawlers' \in [Swept -> [on : BOOLEAN, remaining : Nat]]
  <2>1. [on |-> FALSE, remaining |-> 0] \in [on : BOOLEAN, remaining : Nat]
    OBVIOUS
  <2> QED BY <1>1, <1>2, <2>1
<1>4. \A k \in Swept : crawlers'[k].on <=> crawlers[k].on /\ k # l
  BY <1>1, <1>2
<1>5. l \in Lrus
  BY SweptIs DEF Lrus
<1>6. /\ UnlinkQ(L, Crawler, l) \in [Lrus -> Seq(Items \cup {Crawler})]
      /\ \A k \in Lrus : k # l => UnlinkQ(L, Crawler, l)[k] = L[k]
      /\ Once(UnlinkQ(L, Crawler, l)[l]) /\ Range(UnlinkQ(L, Crawler, l)[l]) = Range(L[l]) \ {Crawler}
  <2>1. Once(L[l])
    BY <1>5
  <2>2. PICK M : M = UnlinkQ(L, Crawler, l)
    OBVIOUS
  <2>3. Unlinked(L, M, Crawler, l)
    BY <1>5, <2>1, <2>2, UnlinkQIs
  <2> QED BY <2>2, <2>3 DEF Unlinked
<1>7. /\ lists' \in [Lrus -> Seq(Items \cup {Crawler})]
      /\ \A k \in Lrus : Once(lists'[k]) /\ (k # l => lists'[k] = lists[k])
      /\ Range(lists'[l]) = Range(lists[l]) \ {Crawler}
  BY <1>1, <1>5, <1>6
<1>8. CountOK'
  <2>1. PICK S : S = {k \in Swept : crawlers[k].on}
    OBVIOUS
  <2>2. {k \in Swept : crawlers'[k].on} = S \ {l} /\ l \in S
    BY <1>4, <2>1
  <2>3. IsFiniteSet(S) /\ S \subseteq Swept
    BY <2>1, SweptIs, FS_Subset
  <2>4. Cardinality(S \ {l}) = Cardinality(S) - 1
    BY <2>2, <2>3, FS_RemoveElement
  <2>5. crawler_count = Cardinality(S)
    BY <2>1 DEF IInv, Whole, CountOK
  <2> QED BY <1>1, <2>2, <2>4, <2>5 DEF CountOK
<1>9. crawler_count' \in 0 .. 3
  BY <1>8, CountBoundNext
<1>10. crawler_count' \in Int /\ crawler_count' \in 0 .. 2 * Cardinality(Swept)
  BY <1>9, SweptIs
<1>11. cdata' \in [stats : Stats, wait : 0 .. MaxWait, next : Nat, last : Nat]
  <2>1. cdata.stats \in Stats
    BY <1>2
  <2>2. [cdata.stats EXCEPT !.complete = TRUE] \in Stats
    BY <2>1 DEF Stats
  <2>3. [cdata EXCEPT !.stats.complete = TRUE] = [cdata EXCEPT !.stats = [cdata.stats EXCEPT !.complete = TRUE]]
    OBVIOUS
  <2>4. [cdata EXCEPT !.stats.complete = TRUE] \in [stats : Stats, wait : 0 .. MaxWait, next : Nat, last : Nat]
    BY <1>2, <2>2, <2>3
  <2> QED BY <1>1, <1>2, <2>4
<1> QED BY <1>3, <1>4, <1>7, <1>8, <1>10, <1>11

\* The crawler has changed places with an item of its list.
LEMMA MovedIs ==
    ASSUME IInv, Sound, NEW l \in Swept, crawlers[l].on, ~AtHead(l)
    PROVE  /\ Moved(l) \in [Lrus -> Seq(Items \cup {Crawler})]
           /\ \A k \in Lrus : /\ Once(Moved(l)[k]) /\ Range(Moved(l)[k]) = Range(lists[k])
                              /\ k # l => Moved(l)[k] = lists[k]
           /\ Met(l) \in Items /\ items[Met(l)].linked /\ items[Met(l)].lru = l /\ ~InTransit(Met(l))
<1>1. /\ l \in Lrus /\ lists \in [Lrus -> Seq(Items \cup {Crawler})]
      /\ \A k \in Lrus : Once(lists[k])
  BY SweptIs DEF IInv, LruTypes, Whole, ListOK, Lrus
<1>2. Crawler \in Range(lists[l]) /\ lists[l][1] # Crawler
  BY <1>1 DEF IInv, Whole, ListOK, AtHead
<1>3. PICK s \in Seq(Items \cup {Crawler}) : s = lists[l]
  BY <1>1
<1>4. /\ Swing(s) \in Seq(Items \cup {Crawler}) /\ Once(Swing(s)) /\ Range(Swing(s)) = Range(s)
  <2>1. Once(s) /\ Crawler \in Range(s) /\ s[1] # Crawler
    BY <1>1, <1>2, <1>3
  <2> QED BY <2>1, SwingIs
<1>5. Moved(l) = [lists EXCEPT ![l] = Swing(s)]
  BY <1>3 DEF Moved
<1>6. /\ Moved(l) \in [Lrus -> Seq(Items \cup {Crawler})]
      /\ \A k \in Lrus : /\ Once(Moved(l)[k]) /\ Range(Moved(l)[k]) = Range(lists[k])
                         /\ k # l => Moved(l)[k] = lists[k]
  BY <1>1, <1>3, <1>4, <1>5
<1>7. Met(l) \in Range(lists[l]) \ {Crawler}
  BY <1>1, <1>2, AboveIs DEF Met, IInv
<1>8. Met(l) \in Items
  BY <1>1, <1>3, <1>7, RangeIs
<1> QED BY <1>1, <1>6, <1>7, <1>8, ListedIs

\* A step of the crawler that changes no item.
LEMMA CrawlUnmoved ==
    ASSUME IInv, Sound, UNCHANGED <<clock, items, ilock, lru_lock, pull, wk, bumps, mt, left>>,
           lists' \in [Lrus -> Seq(Items \cup {Crawler})], cr.at # "dump", cr'.at # "dump",
           cr'.search = Nobody, CrawlTypes', ClientReturned', crawler_count' \in 0 .. 2 * Cardinality(Swept),
           Sound' => Whole'
    PROVE  IInv'
<1>1. LruTypes'
  BY DEF IInv, LruTypes
<1>2. cr.search = Nobody
  BY SearchIs
<1>3. ThreadsOK'
  <2>1. \A p \in Pullers : PullOK(p)'
    BY DEF IInv, ThreadsOK, PullOK, At
  <2>2. \A w \in LruWorkers : WorkOK(w)'
    BY DEF IInv, ThreadsOK, WorkOK
  <2>3. UpkeepOK'
    BY DEF IInv, ThreadsOK, UpkeepOK
  <2>4. CrawlOK'
    BY DEF CrawlOK
  <2> QED BY <2>1, <2>2, <2>3, <2>4 DEF ThreadsOK
<1>4. RefsExact' /\ ActiveIsQueued'
  <2>1. \A w \in LruWorkers : Pending(w)' = Pending(w)
    BY DEF Pending
  <2> QED BY <1>2, <2>1, RefsFrame DEF IInv
<1> QED BY <1>1, <1>3, <1>4 DEF IInv

\* A crawler that is in use is in its list.
LEMMA CrawlsIs ==
    ASSUME IInv, NEW l \in Swept, Crawls(l)
    PROVE  /\ crawlers[l].on /\ cr.at = "crawl" /\ cr.search = Nobody
           /\ NextList => cr' \in Crawl /\ cr'.search = Nobody /\ cr'.at = "crawl"
<1>1. crawlers[l].on /\ cr.at = "crawl"
  BY DEF Crawls, Crawling
<1>2. cr.search = Nobody
  BY <1>1, SearchIs
<1> QED BY <1>1, <1>2, NextListIs

\* The lists once the crawler of one of them is done, and the walks of the others.
LEMMA DoneWhole ==
    ASSUME IInv, Sound, NEW l \in Swept, crawlers[l].on, Unlocked(l), UNCHANGED <<items, pull>>,
           \A k \in Lrus : Once(lists'[k]) /\ (k # l => lists'[k] = lists[k]),
           Range(lists'[l]) = Range(lists[l]) \ {Crawler},
           \A k \in Swept : crawlers'[k].on <=> crawlers[k].on /\ k # l, CountOK'
    PROVE  Whole'
<1>1. \A k \in Lrus : \A j \in Items : j \in Range(lists'[k]) <=> j \in Range(lists[k])
  BY LruNames
<1>2. \A k \in Lrus : \A j \in Items :
         j \in Range(lists'[k]) <=> items'[j].linked /\ ~InTransit(j) /\ items'[j].lru = k
  BY <1>1, ListedIs
<1>3. \A k \in Lrus : Crawler \in Range(lists[k]) <=> k \in Swept /\ crawlers[k].on
  BY DEF IInv, Whole, ListOK
<1>4. \A k \in Lrus : Crawler \in Range(lists'[k]) <=> k \in Swept /\ crawlers'[k].on
  <2> SUFFICES ASSUME NEW k \in Lrus PROVE Crawler \in Range(lists'[k]) <=> k \in Swept /\ crawlers'[k].on
    OBVIOUS
  <2>1. CASE k = l
    <3>1. Crawler \notin Range(lists'[k]) /\ ~crawlers'[k].on
      BY <2>1
    <3> QED BY <3>1
  <2>2. CASE k # l
    BY <1>3, <2>2
  <2> QED BY <2>1, <2>2
<1>5. \A k \in Lrus : ~Unlocked(k) => lists'[k] = lists[k]
  OBVIOUS
<1> QED BY <1>2, <1>4, <1>5, CrawlWhole

LEMMA DoneEarlyKeeps ==
    ASSUME IInv, Sound, NEW l \in Swept, Crawls(l), DoneEarly(l), ClientReturned',
           client' \in Dumpers \cup {Nobody}, cbuf' \in 0 .. DumpLines,
           dumpers' \in [Dumpers -> [handed : Nat, back : Nat, closed : Nat, gone : BOOLEAN]]
    PROVE  IInv'
<1>1. /\ lru_crawler_class_done(l, lists) /\ NextList
      /\ broken' = IF Unlocked(l) THEN broken ELSE "raced"
      /\ UNCHANGED <<clock, items, ilock, lru_lock, pull, wk, bumps, mt, left>> /\ mod' = mod
  BY DEF DoneEarly, lruButLists
<1>2. /\ crawlers[l].on /\ cr.at = "crawl" /\ cr' \in Crawl /\ cr'.search = Nobody /\ cr'.at = "crawl"
  BY <1>1, CrawlsIs
<1>3. PICK L \in [Lrus -> Seq(Items \cup {Crawler})] : L = lists
  BY DEF IInv, LruTypes
<1>4. \A k \in Lrus : Once(lists[k])
  BY DEF IInv, Whole, ListOK
<1>5. /\ crawlers' \in [Swept -> [on : BOOLEAN, remaining : Nat]]
      /\ crawler_count' \in Int /\ crawler_count' \in 0 .. 2 * Cardinality(Swept)
      /\ cdata' \in [stats : Stats, wait : 0 .. MaxWait, next : Nat, last : Nat]
      /\ lists' \in [Lrus -> Seq(Items \cup {Crawler})]
      /\ \A k \in Lrus : Once(lists'[k]) /\ (k # l => lists'[k] = lists[k])
      /\ Range(lists'[l]) = Range(lists[l]) \ {Crawler}
      /\ \A k \in Swept : crawlers'[k].on <=> crawlers[k].on /\ k # l
      /\ CountOK'
  <2>1. \A k \in Lrus : Once(L[k]) /\ Range(L[k]) = Range(lists[k]) /\ (k # l => L[k] = lists[k])
    BY <1>3, <1>4
  <2>2. lru_crawler_class_done(l, L)
    BY <1>1, <1>3
  <2> QED BY <1>2, <2>1, <2>2, DoneIs
<1>6. CrawlTypes'
  BY <1>1, <1>2, <1>5 DEF IInv, CrawlTypes
<1>7. ASSUME Sound' PROVE Whole'
  <2>1. Unlocked(l)
    BY <1>1, <1>7 DEF Sound
  <2>2. UNCHANGED <<items, pull>>
    BY <1>1
  <2> QED BY <1>2, <1>5, <2>1, <2>2, DoneWhole
<1>8. cr.at # "dump" /\ cr'.at # "dump"
  BY <1>2
<1> QED BY <1>1, <1>2, <1>5, <1>6, <1>7, <1>8, CrawlUnmoved

LEMMA CrawlNoClientKeeps == ASSUME IInv, Sound, NEW l \in Swept, CrawlNoClient(l) PROVE IInv'
<1>1. Crawls(l) /\ DoneEarly(l) /\ UNCHANGED <<client, cbuf, dumpers>>
  BY DEF CrawlNoClient
<1>2. ClientReturned'
  BY <1>1, ClientKept DEF IInv
<1>3. /\ client' \in Dumpers \cup {Nobody} /\ cbuf' \in 0 .. DumpLines
      /\ dumpers' \in [Dumpers -> [handed : Nat, back : Nat, closed : Nat, gone : BOOLEAN]]
  BY <1>1 DEF IInv, CrawlTypes
<1> QED BY <1>1, <1>2, <1>3, DoneEarlyKeeps

LEMMA CrawlGetbufFailsKeeps == ASSUME IInv, Sound, NEW l \in Swept, CrawlGetbufFails(l) PROVE IInv'
<1>1. Crawls(l) /\ DoneEarly(l) /\ client # Nobody
  BY DEF CrawlGetbufFails, Full
<1>2. CASE lru_crawler_close_client
  <2>1. /\ ClientReturned' /\ cbuf' = 0 /\ client' = Nobody
        /\ dumpers' \in [Dumpers -> [handed : Nat, back : Nat, closed : Nat, gone : BOOLEAN]]
    BY <1>1, <1>2, ClosedIs
  <2>2. cbuf' \in 0 .. DumpLines /\ client' \in Dumpers \cup {Nobody}
    BY <2>1, BufferIs
  <2> QED BY <1>1, <2>1, <2>2, DoneEarlyKeeps
<1>3. CASE UNCHANGED <<client, cbuf, dumpers>>
  <2>1. ClientReturned'
    BY <1>3, ClientKept DEF IInv
  <2>2. /\ client' \in Dumpers \cup {Nobody} /\ cbuf' \in 0 .. DumpLines
        /\ dumpers' \in [Dumpers -> [handed : Nat, back : Nat, closed : Nat, gone : BOOLEAN]]
    BY <1>3 DEF IInv, CrawlTypes
  <2> QED BY <1>1, <2>1, <2>2, DoneEarlyKeeps
<1>4. lru_crawler_close_client \/ UNCHANGED <<client, cbuf, dumpers>>
  BY DEF CrawlGetbufFails
<1> QED BY <1>2, <1>3, <1>4

\* The list is through, or the crawler has met as many items as it was to meet.
LEMMA CrawlListDoneKeeps == ASSUME IInv, Sound, NEW l \in Swept, CrawlListDone(l) PROVE IInv'
<1>1. /\ Crawls(l) /\ Unlocked(l) /\ NextList
      /\ lru_crawler_class_done(l, IF AtHead(l) THEN lists ELSE Moved(l))
      /\ UNCHANGED <<clock, items, ilock, lru_lock, pull, wk, bumps, mt, left>>
      /\ UNCHANGED <<mod, client, cbuf, dumpers>>
  BY DEF CrawlListDone, MayMove, lruButLists, Moved
<1>2. /\ crawlers[l].on /\ cr.at = "crawl" /\ cr' \in Crawl /\ cr'.search = Nobody /\ cr'.at = "crawl"
  BY <1>1, CrawlsIs
<1>3. PICK L \in [Lrus -> Seq(Items \cup {Crawler})] :
        /\ L = IF AtHead(l) THEN lists ELSE Moved(l)
        /\ \A k \in Lrus : Once(L[k]) /\ Range(L[k]) = Range(lists[k]) /\ (k # l => L[k] = lists[k])
  <2>1. CASE AtHead(l)
    <3>1. lists \in [Lrus -> Seq(Items \cup {Crawler})] /\ \A k \in Lrus : Once(lists[k])
      BY DEF IInv, LruTypes, Whole, ListOK
    <3> QED BY <2>1, <3>1
  <2>2. CASE ~AtHead(l)
    <3>1. /\ Moved(l) \in [Lrus -> Seq(Items \cup {Crawler})]
          /\ \A k \in Lrus : /\ Once(Moved(l)[k]) /\ Range(Moved(l)[k]) = Range(lists[k])
                             /\ k # l => Moved(l)[k] = lists[k]
          /\ Met(l) \in Items /\ items[Met(l)].linked /\ items[Met(l)].lru = l /\ ~InTransit(Met(l))
      BY <1>2, <2>2, MovedIs
    <3> QED BY <2>2, <3>1
  <2> QED BY <2>1, <2>2
<1>4. lru_crawler_class_done(l, L)
  BY <1>1, <1>3
<1>5. /\ crawlers' \in [Swept -> [on : BOOLEAN, remaining : Nat]]
      /\ crawler_count' \in Int /\ crawler_count' \in 0 .. 2 * Cardinality(Swept)
      /\ cdata' \in [stats : Stats, wait : 0 .. MaxWait, next : Nat, last : Nat]
      /\ lists' \in [Lrus -> Seq(Items \cup {Crawler})]
      /\ \A k \in Lrus : Once(lists'[k]) /\ (k # l => lists'[k] = lists[k])
      /\ Range(lists'[l]) = Range(lists[l]) \ {Crawler}
      /\ \A k \in Swept : crawlers'[k].on <=> crawlers[k].on /\ k # l
      /\ CountOK'
  BY <1>2, <1>3, <1>4, DoneIs
<1>6. CrawlTypes' /\ ClientReturned'
  <2>1. CrawlTypes'
    BY <1>1, <1>2, <1>5 DEF IInv, CrawlTypes
  <2> QED BY <1>1, <2>1, ClientKept DEF IInv
<1>7. Whole'
  <2>1. UNCHANGED <<items, pull>>
    BY <1>1
  <2> QED BY <1>1, <1>2, <1>5, <2>1, DoneWhole
<1>8. cr.at # "dump" /\ cr'.at # "dump"
  BY <1>2
<1> QED BY <1>1, <1>2, <1>5, <1>6, <1>7, <1>8, CrawlUnmoved

\* The crawler goes up by one item; it has room for what it may dump.
LEMMA MoveIs ==
    ASSUME IInv, Sound, NEW l \in Swept, CrawlMove(l)
    PROVE  /\ crawlers[l].on /\ ~AtHead(l) /\ Unlocked(l) /\ cr.at = "crawl" /\ cr.search = Nobody
           /\ NextList => cr' \in Crawl /\ cr'.search = Nobody /\ cr'.at = "crawl"
           /\ crawlers' \in [Swept -> [on : BOOLEAN, remaining : Nat]]
           /\ \A k \in Swept : crawlers'[k].on = crawlers[k].on
           /\ UNCHANGED <<crawler_count, mod, client, dumpers>> /\ ClientReturned' /\ CountOK'
           /\ mod.type = "metadump" => cbuf < DumpLines
<1>1. /\ Crawls(l) /\ Unlocked(l) /\ ~Full /\ ~(client = Nobody /\ mod.type = "metadump")
      /\ ~AtHead(l) /\ UNCHANGED <<crawler_count, mod, client, dumpers>>
      /\ crawlers' = [crawlers EXCEPT ![l].remaining = IF @ = 0 THEN 0 ELSE @ - 1]
  BY DEF CrawlMove, MayMove
<1>2. /\ crawlers[l].on /\ cr.at = "crawl" /\ cr.search = Nobody
      /\ NextList => cr' \in Crawl /\ cr'.search = Nobody /\ cr'.at = "crawl"
  BY <1>1, CrawlsIs
<1>3. crawlers \in [Swept -> [on : BOOLEAN, remaining : Nat]]
  BY DEF IInv, CrawlTypes
<1>4. PICK c \in [on : BOOLEAN, remaining : Nat] : c = crawlers[l]
  BY <1>3
<1>5. PICK n \in Nat : n = IF c.remaining = 0 THEN 0 ELSE c.remaining - 1
  <2>1. c.remaining \in Nat
    OBVIOUS
  <2> QED BY <2>1
<1>6. PICK d \in [on : BOOLEAN, remaining : Nat] : d = [c EXCEPT !.remaining = n] /\ d.on = c.on
  <2>1. [c EXCEPT !.remaining = n] \in [on : BOOLEAN, remaining : Nat]
    OBVIOUS
  <2>2. [c EXCEPT !.remaining = n].on = c.on
    OBVIOUS
  <2> QED BY <2>1, <2>2
<1>7. crawlers' = [crawlers EXCEPT ![l] = d]
  BY <1>1, <1>4, <1>5, <1>6
<1>8. crawlers' \in [Swept -> [on : BOOLEAN, remaining : Nat]] /\ \A k \in Swept : crawlers'[k].on = crawlers[k].on
  BY <1>3, <1>4, <1>6, <1>7
<1>9. CountOK'
  <2>1. {k \in Swept : crawlers'[k].on} = {k \in Swept : crawlers[k].on}
    BY <1>8
  <2>2. crawler_count = Cardinality({k \in Swept : crawlers[k].on})
    BY DEF IInv, Whole, CountOK
  <2> QED BY <1>1, <2>1, <2>2 DEF CountOK
<1>10. ClientReturned'
  BY <1>1, ClientKept DEF IInv
<1>11. mod.type = "metadump" => cbuf < DumpLines
  <2>1. cbuf \in Nat /\ DumpLines \in Nat
    BY BufferIs
  <2> QED BY <1>1, <2>1 DEF Full
<1> QED BY <1>1, <1>2, <1>8, <1>9, <1>10, <1>11

\* The lists are whole when the crawler has gone up, and no item left its list.
LEMMA MovedWhole ==
    ASSUME IInv, Sound, NEW l \in Swept, CrawlMove(l), lists' = Moved(l), pull' = pull,
           \A j \in Items : items'[j].linked = items[j].linked /\ (items[j].linked => items'[j].lru = items[j].lru)
    PROVE  Whole' /\ lists' \in [Lrus -> Seq(Items \cup {Crawler})]
<1>1. /\ crawlers[l].on /\ ~AtHead(l) /\ Unlocked(l) /\ CountOK'
      /\ \A k \in Swept : crawlers'[k].on = crawlers[k].on
  BY MoveIs
<1>2. /\ Moved(l) \in [Lrus -> Seq(Items \cup {Crawler})]
      /\ \A k \in Lrus : /\ Once(Moved(l)[k]) /\ Range(Moved(l)[k]) = Range(lists[k])
                         /\ k # l => Moved(l)[k] = lists[k]
      /\ Met(l) \in Items /\ items[Met(l)].linked /\ items[Met(l)].lru = l /\ ~InTransit(Met(l))
  BY <1>1, MovedIs
<1>3. /\ lists' \in [Lrus -> Seq(Items \cup {Crawler})]
      /\ \A k \in Lrus : /\ Once(lists'[k]) /\ Range(lists'[k]) = Range(lists[k])
                         /\ k # l => lists'[k] = lists[k]
  BY <1>2
<1>4. \A k \in Lrus : Once(lists'[k])
  BY <1>3
<1>5. \A k \in Lrus : \A j \in Items :
         j \in Range(lists'[k]) <=> items'[j].linked /\ ~InTransit(j) /\ items'[j].lru = k
  BY <1>3, ListedIs
<1>6. \A k \in Lrus : Crawler \in Range(lists'[k]) <=> k \in Swept /\ crawlers'[k].on
  <2>1. \A k \in Lrus : Crawler \in Range(lists[k]) <=> k \in Swept /\ crawlers[k].on
    BY DEF IInv, Whole, ListOK
  <2> QED BY <1>1, <1>3, <2>1
<1>7. \A k \in Lrus : ~Unlocked(k) => lists'[k] = lists[k]
  BY <1>1, <1>3
<1>8. Whole'
  BY <1>1, <1>4, <1>5, <1>6, <1>7, CrawlWhole
<1> QED BY <1>3, <1>8

LEMMA CrawlBusyKeeps == ASSUME IInv, Sound, NEW l \in Swept, CrawlBusy(l) PROVE IInv'
<1>1. /\ CrawlMove(l) /\ lists' = Moved(l) /\ NextList
      /\ UNCHANGED <<clock, items, ilock, lru_lock, pull, wk, bumps, mt, left>> /\ UNCHANGED <<cbuf, cdata>>
  BY DEF CrawlBusy, lruButLists
<1>2. /\ crawlers[l].on /\ cr.at = "crawl"
      /\ cr' \in Crawl /\ cr'.search = Nobody /\ cr'.at = "crawl"
      /\ crawlers' \in [Swept -> [on : BOOLEAN, remaining : Nat]]
      /\ UNCHANGED <<crawler_count, mod, client, dumpers>> /\ ClientReturned'
  BY <1>1, MoveIs
<1>3. Whole' /\ lists' \in [Lrus -> Seq(Items \cup {Crawler})]
  <2>1. \A j \in Items : items'[j].linked = items[j].linked /\ (items[j].linked => items'[j].lru = items[j].lru)
    BY <1>1
  <2>2. pull' = pull
    BY <1>1
  <2> QED BY <1>1, <2>1, <2>2, MovedWhole
<1>4. CrawlTypes'
  BY <1>1, <1>2 DEF IInv, CrawlTypes
<1>5. cr.at # "dump" /\ cr'.at # "dump"
  BY <1>2
<1>6. crawler_count' \in 0 .. 2 * Cardinality(Swept)
  BY <1>2 DEF IInv
<1> QED BY <1>1, <1>2, <1>3, <1>4, <1>5, <1>6, CrawlUnmoved

\* What the maintainer's crawl notes of an item.
LEMMA CountedIs == ASSUME IInv, NEW i \in Items, NEW s \in Stats PROVE Counted(s, i) \in Stats
<1>1. clock \in Nat /\ items[i] \in Header
  BY TypesAre DEF IInv
<1>2. PICK e \in Nat : e = items[i].exp
  BY <1>1 DEF Header
<1>3. PICK a \in Nat : a = s.seen + 1
  BY DEF Stats
<1>4. PICK b \in Nat : b = IF e = 0 THEN s.noexp + 1 ELSE s.noexp
  BY DEF Stats
<1>5. PICK h \in [0 .. Hour - 1 -> Nat] :
        h = IF e = 0 \/ e - clock >= Hour THEN s.histo ELSE [s.histo EXCEPT ![e - clock] = @ + 1]
  <2>1. PICK g \in [0 .. Hour - 1 -> Nat] : g = s.histo
    BY DEF Stats
  <2>2. PICK n : n = e - clock
    OBVIOUS
  <2>3. [g EXCEPT ![n] = g[n] + 1] \in [0 .. Hour - 1 -> Nat]
    <3>1. CASE n \in 0 .. Hour - 1
      <4>1. g[n] + 1 \in Nat
        BY <3>1
      <4> QED BY <4>1
    <3>2. CASE n \notin 0 .. Hour - 1
      BY <3>2
    <3> QED BY <3>1, <3>2
  <2>4. [s.histo EXCEPT ![e - clock] = @ + 1] = [g EXCEPT ![n] = g[n] + 1]
    BY <2>1, <2>2
  <2> QED BY <2>1, <2>3, <2>4
<1>6. [s EXCEPT !.seen = a, !.noexp = b, !.histo = h] \in Stats
  BY DEF Stats
<1>7. Counted(s, i) = [s EXCEPT !.seen = a, !.noexp = b, !.histo = h]
  BY <1>2, <1>3, <1>4, <1>5 DEF Counted
<1> QED BY <1>6, <1>7

\* An item that a crawl has found expired is unlinked.
LEMMA CrawlReclaims ==
    ASSUME IInv, Sound, NEW l \in Swept, crawler_expired_eval(l), Expired(Met(l))
    PROVE  IInv'
<1>1. PICK x : x = Met(l)
  OBVIOUS
<1>2. /\ CrawlMove(l) /\ Alone(x) /\ items' = do_item_unlink(items, x) /\ lists' = UnlinkQ(Moved(l), x, l)
      /\ cdata' = cdata /\ NextList
      /\ UNCHANGED <<clock, ilock, lru_lock, pull, wk, bumps, mt, left, cbuf>>
  BY <1>1 DEF crawler_expired_eval
<1>3. /\ crawlers[l].on /\ ~AtHead(l) /\ Unlocked(l) /\ cr.at = "crawl" /\ cr.search = Nobody
      /\ cr' \in Crawl /\ cr'.search = Nobody /\ cr'.at = "crawl"
      /\ crawlers' \in [Swept -> [on : BOOLEAN, remaining : Nat]]
      /\ \A k \in Swept : crawlers'[k].on = crawlers[k].on
      /\ UNCHANGED <<crawler_count, mod, client, dumpers>> /\ ClientReturned' /\ CountOK'
  BY <1>2, MoveIs
<1>4. /\ Moved(l) \in [Lrus -> Seq(Items \cup {Crawler})]
      /\ \A k \in Lrus : /\ Once(Moved(l)[k]) /\ Range(Moved(l)[k]) = Range(lists[k])
                         /\ k # l => Moved(l)[k] = lists[k]
      /\ Met(l) \in Items /\ items[Met(l)].linked /\ items[Met(l)].lru = l /\ ~InTransit(Met(l))
  BY <1>3, MovedIs
<1>5. x \in Items /\ items[x].linked /\ items[x].lru = l /\ ilock[x] = Nobody
  BY <1>1, <1>2, <1>4 DEF Alone
<1>6. /\ items' \in [Items -> Header] /\ \A j \in Items : j # x => items'[j] = items[j]
      /\ LinkBy(x, -1) /\ ~items'[x].linked
      /\ items'[x].ref = items[x].ref + (-1 + 0 + 0 + 0 + 0)
  BY <1>2, <1>5, UnlinkItem
<1>7. l \in Lrus
  BY SweptIs DEF Lrus
<1>8. PICK L \in [Lrus -> Seq(Items \cup {Crawler})] : L = Moved(l)
  BY <1>4
<1>9. /\ UnlinkQ(L, x, l) \in [Lrus -> Seq(Items \cup {Crawler})]
      /\ \A k \in Lrus : k # l => UnlinkQ(L, x, l)[k] = L[k]
      /\ Once(UnlinkQ(L, x, l)[l]) /\ Range(UnlinkQ(L, x, l)[l]) = Range(L[l]) \ {x}
  <2>1. Once(L[l])
    BY <1>4, <1>7, <1>8
  <2>2. PICK M : M = UnlinkQ(L, x, l)
    OBVIOUS
  <2>3. Unlinked(L, M, x, l)
    BY <1>7, <2>1, <2>2, UnlinkQIs
  <2> QED BY <2>2, <2>3 DEF Unlinked
<1>10. /\ lists' \in [Lrus -> Seq(Items \cup {Crawler})]
       /\ \A k \in Lrus : Once(lists'[k]) /\ (k # l => lists'[k] = lists[k])
       /\ Range(lists'[l]) = Range(lists[l]) \ {x}
  BY <1>2, <1>4, <1>7, <1>8, <1>9
<1>11. Whole'
  <2>1. \A k \in Lrus : \A j \in Items :
           j \in Range(lists'[k]) <=> items'[j].linked /\ ~InTransit(j) /\ items'[j].lru = k
    <3> SUFFICES ASSUME NEW k \in Lrus, NEW j \in Items
                 PROVE  j \in Range(lists'[k]) <=> items'[j].linked /\ ~InTransit(j) /\ items'[j].lru = k
      OBVIOUS
    <3>1. j \in Range(lists[k]) <=> items[j].linked /\ ~InTransit(j) /\ items[j].lru = k
      BY ListedIs
    <3>2. CASE j = x
      <4>1. x \notin Range(lists'[k])
        <5>1. CASE k = l
          BY <1>10, <5>1
        <5>2. CASE k # l
          BY <1>5, <1>10, <3>1, <3>2, <5>2
        <5> QED BY <5>1, <5>2
      <4> QED BY <1>6, <3>2, <4>1
    <3>3. CASE j # x
      <4>1. j \in Range(lists'[k]) <=> j \in Range(lists[k])
        <5>1. CASE k = l
          BY <1>10, <3>3, <5>1
        <5>2. CASE k # l
          BY <1>10, <5>2
        <5> QED BY <5>1, <5>2
      <4> QED BY <1>6, <3>1, <3>3, <4>1
    <3> QED BY <3>2, <3>3
  <2>2. \A k \in Lrus : Crawler \in Range(lists'[k]) <=> k \in Swept /\ crawlers'[k].on
    <3> SUFFICES ASSUME NEW k \in Lrus
                 PROVE  Crawler \in Range(lists'[k]) <=> k \in Swept /\ crawlers'[k].on
      OBVIOUS
    <3>1. Crawler \in Range(lists[k]) <=> k \in Swept /\ crawlers[k].on
      BY DEF IInv, Whole, ListOK
    <3>2. Crawler # x
      BY <1>5, LruNames
    <3>3. Crawler \in Range(lists'[k]) <=> Crawler \in Range(lists[k])
      <4>1. CASE k = l
        BY <1>10, <3>2, <4>1
      <4>2. CASE k # l
        BY <1>10, <4>2
      <4> QED BY <4>1, <4>2
    <3>4. k \in Swept => crawlers'[k].on = crawlers[k].on
      BY <1>3
    <3> QED BY <3>1, <3>3, <3>4
  <2>3. \A k \in Lrus : ~Unlocked(k) => lists'[k] = lists[k]
    BY <1>3, <1>10
  <2>4. pull' = pull /\ \A k \in Lrus : Once(lists'[k])
    BY <1>2, <1>10
  <2> QED BY <1>3, <2>1, <2>2, <2>3, <2>4, CrawlWhole
<1>12. LruTypes'
  BY <1>2, <1>6, <1>10 DEF IInv, LruTypes
<1>13. CrawlTypes'
  BY <1>2, <1>3 DEF IInv, CrawlTypes
<1>14. ThreadsOK'
  <2>1. UpkeepOK'
    BY <1>2 DEF IInv, ThreadsOK, UpkeepOK
  <2>2. CrawlOK'
    BY <1>3 DEF CrawlOK
  <2>3. ilock[x] \in {Nobody, CrawlerThread} /\ UNCHANGED <<lru_lock, pull, wk, bumps>>
    BY <1>2, <1>5
  <2>4. \A j \in Items : j # x => ilock'[j] = ilock[j] /\ items'[j] = items[j]
    BY <1>2, <1>6
  <2> QED BY <1>5, <2>1, <2>2, <2>3, <2>4, ApartThreads
<1>15. /\ GotBy(x, 0) /\ QueuedBy(x, 0) /\ SettlingBy(x, 0) /\ SearchBy(x, 0)
       /\ \A w \in LruWorkers : Pending(w)' = Pending(w)
  <2>1. \A v \in LruWorkers : wk'[v].got = wk[v].got
    BY <1>2
  <2>2. \A p \in Pullers : /\ pull'[p].at = "settle" <=> pull[p].at = "settle"
                           /\ pull[p].at = "settle" => pull'[p].search = pull[p].search
    BY <1>2
  <2>3. cr'.search = cr.search
    BY <1>3
  <2>4. \A w \in LruWorkers : Pending(w)' = Pending(w)
    BY <1>2 DEF Pending
  <2>5. GotBy(x, 0)
    BY <2>1, GotSame
  <2>6. SettlingBy(x, 0)
    BY <2>2, SettlingSame
  <2>7. SearchBy(x, 0)
    BY <2>3, SearchSame
  <2>8. QueuedBy(x, 0)
    BY <2>4, QueuedSame
  <2> QED BY <2>4, <2>5, <2>6, <2>7, <2>8
<1>16. RefsExact'
  BY MinusOne, <1>5, <1>6, <1>15, RefsStep
<1>17. ActiveIsQueued'
  BY <1>5, <1>6, <1>15, ActiveStep DEF IInv
<1> QED BY <1>3, <1>11, <1>12, <1>13, <1>14, <1>16, <1>17, Together

LEMMA ExpiredEvalKeeps == ASSUME IInv, Sound, NEW l \in Swept, crawler_expired_eval(l) PROVE IInv'
<1>1. CASE Expired(Met(l))
  BY <1>1, CrawlReclaims
<1>2. CASE ~Expired(Met(l))
  <2>1. /\ CrawlMove(l) /\ lists' = Moved(l) /\ NextList
        /\ cdata' = IF mod.external THEN [cdata EXCEPT !.stats = Counted(cdata.stats, Met(l))] ELSE cdata
        /\ UNCHANGED <<clock, items, ilock, lru_lock, pull, wk, bumps, mt, left, cbuf>>
    BY <1>2 DEF crawler_expired_eval
  <2>2. /\ crawlers[l].on /\ ~AtHead(l) /\ cr.at = "crawl"
        /\ cr' \in Crawl /\ cr'.search = Nobody /\ cr'.at = "crawl"
        /\ crawlers' \in [Swept -> [on : BOOLEAN, remaining : Nat]]
        /\ UNCHANGED <<crawler_count, mod, client, dumpers>> /\ ClientReturned'
    BY <2>1, MoveIs
  <2>3. Whole' /\ lists' \in [Lrus -> Seq(Items \cup {Crawler})]
    <3>1. \A j \in Items : items'[j].linked = items[j].linked /\ (items[j].linked => items'[j].lru = items[j].lru)
      BY <2>1
    <3>2. pull' = pull
      BY <2>1
    <3> QED BY <2>1, <3>1, <3>2, MovedWhole
  <2>4. cdata' \in [stats : Stats, wait : 0 .. MaxWait, next : Nat, last : Nat]
    <3>1. cdata \in [stats : Stats, wait : 0 .. MaxWait, next : Nat, last : Nat]
      BY DEF IInv, CrawlTypes
    <3>2. Met(l) \in Items
      BY <2>2, MovedIs
    <3>3. PICK s \in Stats : s = Counted(cdata.stats, Met(l))
      BY <3>1, <3>2, CountedIs
    <3>4. [cdata EXCEPT !.stats = s] \in [stats : Stats, wait : 0 .. MaxWait, next : Nat, last : Nat]
      BY <3>1
    <3> QED BY <2>1, <3>1, <3>3, <3>4
  <2>5. CrawlTypes'
    BY <2>1, <2>2, <2>4 DEF IInv, CrawlTypes
  <2>6. cr.at # "dump" /\ cr'.at # "dump"
    BY <2>2
  <2>7. crawler_count' \in 0 .. 2 * Cardinality(Swept)
    BY <2>2 DEF IInv
  <2> QED BY <2>1, <2>2, <2>3, <2>5, <2>6, <2>7, CrawlUnmoved
<1> QED BY <1>1, <1>2

\* Before it dumps an item the crawler takes its lock and a reference.
LEMMA HoldOne == ASSUME NEW n \in Nat PROVE n + 1 = n + (0 + 0 + 0 + 0 + 1)
OBVIOUS

LEMMA CrawlHoldsKeeps == ASSUME IInv, Sound, NEW l \in Swept, CrawlHolds(l) PROVE IInv'
<1>1. PICK x : x = Met(l)
  OBVIOUS
<1>2. /\ CrawlMove(l) /\ Alone(x) /\ mod.type = "metadump" /\ lists' = Moved(l)
      /\ items' = Held(items, x) /\ ilock' = [ilock EXCEPT ![x] = CrawlerThread]
      /\ cr' = [cr EXCEPT !.at = "dump", !.search = x]
      /\ UNCHANGED <<clock, lru_lock, pull, wk, bumps, mt, left, cbuf, cdata>>
  BY <1>1 DEF CrawlHolds, Held
<1>3. /\ crawlers[l].on /\ ~AtHead(l) /\ cr.at = "crawl" /\ cr.search = Nobody
      /\ crawlers' \in [Swept -> [on : BOOLEAN, remaining : Nat]]
      /\ UNCHANGED <<crawler_count, mod, client, dumpers>> /\ ClientReturned' /\ cbuf < DumpLines
  BY <1>2, MoveIs
<1>4. x \in Items /\ items[x].linked /\ ilock[x] = Nobody
  BY <1>1, <1>2, <1>3, MovedIs DEF Alone
<1>5. items \in [Items -> Header] /\ ilock \in [Items -> Pullers \cup {CrawlerThread, Nobody}]
  BY DEF IInv, LruTypes
<1>6. /\ items' \in [Items -> Header] /\ \A j \in Items : j # x => items'[j] = items[j]
      /\ items'[x].ref = items[x].ref + 1 /\ items'[x].linked = items[x].linked
      /\ items'[x].lru = items[x].lru /\ items'[x].active = items[x].active
  <2>1. /\ Held(items, x) \in [Items -> Header] /\ \A j \in Items : j # x => Held(items, x)[j] = items[j]
        /\ Held(items, x)[x].ref = items[x].ref + 1 /\ Held(items, x)[x].linked = items[x].linked
        /\ Held(items, x)[x].lru = items[x].lru /\ Held(items, x)[x].active = items[x].active
    BY <1>4, <1>5, HeldIs
  <2> QED BY <1>2, <2>1
<1>7. /\ ilock' \in [Items -> Pullers \cup {CrawlerThread, Nobody}] /\ ilock'[x] = CrawlerThread
      /\ \A j \in Items : j # x => ilock'[j] = ilock[j]
  BY <1>2, <1>4, <1>5
<1>8. cr' \in Crawl /\ cr'.at = "dump" /\ cr'.search = x
  BY <1>2, <1>4, BufferIs DEF Crawl
<1>9. Whole' /\ lists' \in [Lrus -> Seq(Items \cup {Crawler})]
  <2>1. \A j \in Items : items'[j].linked = items[j].linked /\ (items[j].linked => items'[j].lru = items[j].lru)
    BY <1>6
  <2>2. pull' = pull
    BY <1>2
  <2> QED BY <1>2, <2>1, <2>2, MovedWhole
<1>10. LruTypes'
  BY <1>2, <1>6, <1>7, <1>9 DEF IInv, LruTypes
<1>11. CrawlTypes'
  BY <1>2, <1>3, <1>8 DEF IInv, CrawlTypes
<1>12. ThreadsOK'
  <2>1. UpkeepOK'
    BY <1>2 DEF IInv, ThreadsOK, UpkeepOK
  <2>2. CrawlOK'
    BY <1>2, <1>3, <1>4, <1>7, <1>8 DEF CrawlOK
  <2>3. ilock[x] \in {Nobody, CrawlerThread} /\ UNCHANGED <<lru_lock, pull, wk, bumps>>
    BY <1>2, <1>4
  <2>4. \A j \in Items : j # x => ilock'[j] = ilock[j] /\ items'[j] = items[j]
    BY <1>6, <1>7
  <2> QED BY <1>4, <2>1, <2>2, <2>3, <2>4, ApartThreads
<1>13. LinkBy(x, 0)
  BY <1>4, <1>6, LinkSame
<1>14. /\ GotBy(x, 0) /\ QueuedBy(x, 0) /\ SettlingBy(x, 0)
       /\ \A w \in LruWorkers : Pending(w)' = Pending(w)
  <2>1. \A v \in LruWorkers : wk'[v].got = wk[v].got
    BY <1>2
  <2>2. \A p \in Pullers : /\ pull'[p].at = "settle" <=> pull[p].at = "settle"
                           /\ pull[p].at = "settle" => pull'[p].search = pull[p].search
    BY <1>2
  <2>4. \A w \in LruWorkers : Pending(w)' = Pending(w)
    BY <1>2 DEF Pending
  <2>5. GotBy(x, 0)
    BY <2>1, GotSame
  <2>6. SettlingBy(x, 0)
    BY <2>2, SettlingSame
  <2>8. QueuedBy(x, 0)
    BY <2>4, QueuedSame
  <2> QED BY <2>4, <2>5, <2>6, <2>8
<1>15. SearchBy(x, 1)
  <2> SUFFICES ASSUME NEW j \in Items PROVE OneIf(cr'.search = j) = OneIf(cr.search = j) + Only(j, x, 1)
    BY DEF SearchBy
  <2>1. OneIf(cr.search = j) = 0
    BY <1>3, LruNames DEF OneIf
  <2>2. CASE j = x
    BY <1>8, <2>1, <2>2 DEF OneIf, Only
  <2>3. CASE j # x
    BY <1>8, <2>1, <2>3 DEF OneIf, Only
  <2> QED BY <2>2, <2>3
<1>16. RefsExact'
  <2>1. PICK n \in Nat : n = items[x].ref
    BY <1>4, RefsOf
  <2>2. n + 1 = n + (0 + 0 + 0 + 0 + 1)
    BY HoldOne
  <2>3. items'[x].ref = items[x].ref + (0 + 0 + 0 + 0 + 1)
    BY <1>6, <2>1, <2>2
  <2> QED BY MinusOne, <1>4, <1>6, <1>13, <1>14, <1>15, <2>3, RefsStep
<1>17. ActiveIsQueued'
  BY <1>4, <1>6, <1>14, ActiveStep DEF IInv
<1> QED BY <1>3, <1>9, <1>10, <1>11, <1>12, <1>16, <1>17, Together

LEMMA GiveBack == ASSUME NEW n \in Nat PROVE n - 1 = n + (0 + 0 + 0 + 0 + -1)
OBVIOUS

\* The item is dumped, unless it has expired, and let go.
LEMMA MetadumpEvalKeeps == ASSUME IInv, Sound, crawler_metadump_eval PROVE IInv'
<1>1. PICK x : x = cr.search
  OBVIOUS
<1>2. /\ cr.at = "dump" /\ items' = [items EXCEPT ![x].ref = @ - 1] /\ ilock' = [ilock EXCEPT ![x] = Nobody]
      /\ cbuf' = IF Expired(x) THEN cbuf ELSE cbuf + 1
      /\ NextList
      /\ UNCHANGED <<clock, lists, lru_lock, pull, wk, bumps, mt, left>>
      /\ UNCHANGED <<crawlers, crawler_count, mod, client, dumpers, cdata>>
  BY <1>1 DEF crawler_metadump_eval
<1>3. x \in Items /\ ilock[x] = CrawlerThread /\ cbuf < DumpLines
  BY <1>1, <1>2 DEF IInv, ThreadsOK, CrawlOK
<1>4. cr' \in Crawl /\ cr'.search = Nobody /\ cr'.at = "crawl"
  BY <1>2, NextListIs
<1>5. PICK n \in Nat : n = items[x].ref /\ n - 1 \in Nat
  <2>1. PICK G \in Nat : G = Cardinality(Got(x))
    BY <1>3, RefsOf
  <2>2. PICK Q \in Nat : Q = Cardinality(Queued(x))
    BY <1>3, RefsOf
  <2>3. PICK S \in Nat : S = Cardinality(Settling(x))
    BY <1>3, RefsOf
  <2>4. PICK K \in {0, 1} : K = OneIf(items[x].linked)
    BY <1>3, RefsOf
  <2>5. OneIf(cr.search = x) = 1
    BY <1>1 DEF OneIf
  <2>6. items[x].ref = K + G + Q + S + 1
    BY <1>3, <2>1, <2>2, <2>3, <2>4, <2>5, RefsOf DEF Refs
  <2>7. K + G + Q + S + 1 \in Nat /\ K + G + Q + S + 1 - 1 \in Nat
    OBVIOUS
  <2> QED BY <2>6, <2>7
<1>6. /\ items' \in [Items -> Header] /\ \A j \in Items : j # x => items'[j] = items[j]
      /\ items'[x].ref = n - 1 /\ items'[x].linked = items[x].linked
      /\ items'[x].lru = items[x].lru /\ items'[x].active = items[x].active
  <2>1. items \in [Items -> Header]
    BY DEF IInv, LruTypes
  <2>2. PICK h \in Header : h = items[x]
    BY <1>3, <2>1
  <2>3. PICK k \in Nat : k = n - 1
    BY <1>5
  <2>4. [h EXCEPT !.ref = k] \in Header
    BY DEF Header
  <2>5. /\ [h EXCEPT !.ref = k].ref = k /\ [h EXCEPT !.ref = k].linked = h.linked
        /\ [h EXCEPT !.ref = k].lru = h.lru /\ [h EXCEPT !.ref = k].active = h.active
    BY DEF Header
  <2>6. PICK g \in Header : g = [h EXCEPT !.ref = k]
    BY <2>4
  <2>7. items' = [items EXCEPT ![x] = g]
    BY <1>2, <1>5, <2>2, <2>3, <2>6
  <2> QED BY <1>3, <2>1, <2>2, <2>3, <2>5, <2>6, <2>7
<1>7. /\ ilock' \in [Items -> Pullers \cup {CrawlerThread, Nobody}]
      /\ \A j \in Items : j # x => ilock'[j] = ilock[j]
  BY <1>2, <1>3 DEF IInv, LruTypes
<1>8. cbuf' \in 0 .. DumpLines
  <2>1. cbuf \in 0 .. DumpLines /\ cbuf \in Nat /\ DumpLines \in Nat
    BY BufferIs
  <2>2. cbuf + 1 \in 0 .. DumpLines
    BY <1>3, <2>1
  <2> QED BY <1>2, <2>1, <2>2
<1>9. CrawlTypes' /\ ClientReturned'
  <2>1. CrawlTypes'
    BY <1>2, <1>4, <1>8 DEF IInv, CrawlTypes
  <2> QED BY <1>2, <2>1, ClientKept DEF IInv
<1>10. LruTypes'
  BY <1>2, <1>6, <1>7 DEF IInv, LruTypes
<1>11. ThreadsOK'
  <2>1. UpkeepOK'
    BY <1>2 DEF IInv, ThreadsOK, UpkeepOK
  <2>2. CrawlOK'
    BY <1>4 DEF CrawlOK
  <2>3. ilock[x] \in {Nobody, CrawlerThread} /\ UNCHANGED <<lru_lock, pull, wk, bumps>>
    BY <1>2, <1>3
  <2>4. \A j \in Items : j # x => ilock'[j] = ilock[j] /\ items'[j] = items[j]
    BY <1>6, <1>7
  <2> QED BY <1>3, <2>1, <2>2, <2>3, <2>4, ApartThreads
<1>12. LinkBy(x, 0)
  BY <1>3, <1>6, LinkSame
<1>13. /\ GotBy(x, 0) /\ QueuedBy(x, 0) /\ SettlingBy(x, 0)
       /\ \A w \in LruWorkers : Pending(w)' = Pending(w)
  <2>1. \A v \in LruWorkers : wk'[v].got = wk[v].got
    BY <1>2
  <2>2. \A p \in Pullers : /\ pull'[p].at = "settle" <=> pull[p].at = "settle"
                           /\ pull[p].at = "settle" => pull'[p].search = pull[p].search
    BY <1>2
  <2>4. \A w \in LruWorkers : Pending(w)' = Pending(w)
    BY <1>2 DEF Pending
  <2>5. GotBy(x, 0)
    BY <2>1, GotSame
  <2>6. SettlingBy(x, 0)
    BY <2>2, SettlingSame
  <2>8. QueuedBy(x, 0)
    BY <2>4, QueuedSame
  <2> QED BY <2>4, <2>5, <2>6, <2>8
<1>14. SearchBy(x, -1)
  <2> SUFFICES ASSUME NEW j \in Items PROVE OneIf(cr'.search = j) = OneIf(cr.search = j) + Only(j, x, -1)
    BY DEF SearchBy
  <2>1. OneIf(cr'.search = j) = 0
    BY <1>4, LruNames DEF OneIf
  <2>2. CASE j = x
    BY <1>1, <2>1, <2>2 DEF OneIf, Only
  <2>3. CASE j # x
    BY <1>1, <2>1, <2>3 DEF OneIf, Only
  <2> QED BY <2>2, <2>3
<1>15. RefsExact'
  <2>1. n - 1 = n + (0 + 0 + 0 + 0 + -1)
    BY GiveBack
  <2>2. items'[x].ref = items[x].ref + (0 + 0 + 0 + 0 + -1)
    BY <1>5, <1>6, <2>1
  <2> QED BY MinusOne, <1>3, <1>6, <1>12, <1>13, <1>14, <2>2, RefsStep
<1>16. ActiveIsQueued'
  BY <1>3, <1>6, <1>13, ActiveStep DEF IInv
<1>17. Whole'
  <2>1. \A k \in Lrus : Once(lists'[k])
    BY <1>2 DEF IInv, Whole, ListOK
  <2>2. \A k \in Lrus : \A j \in Items :
           j \in Range(lists'[k]) <=> items'[j].linked /\ ~InTransit(j) /\ items'[j].lru = k
    BY <1>2, <1>6, ListedIs
  <2>3. \A k \in Lrus : Crawler \in Range(lists'[k]) <=> k \in Swept /\ crawlers'[k].on
    BY <1>2 DEF IInv, Whole, ListOK
  <2>4. CountOK'
    BY <1>2 DEF IInv, Whole, CountOK
  <2>5. pull' = pull /\ \A k \in Lrus : ~Unlocked(k) => lists'[k] = lists[k]
    BY <1>2
  <2> QED BY <2>1, <2>2, <2>3, <2>4, <2>5, CrawlWhole
<1> QED BY <1>9, <1>10, <1>11, <1>15, <1>16, <1>17, Together

-----------------------------------------------------------------------------
(* The invariant.                                                          *)

\* No list is a start's but the one it names.
LEMMA StartListIs ==
    ASSUME LruInit
    PROVE  \E s \in Starts :
              /\ s.lru \in Lrus /\ s.list \in Seq(Items) /\ s.exp \in Nat /\ Once(s.list)
              /\ left = s.left /\ left \in Allowance
              /\ \A l \in Lrus : lists[l] = IF l = s.lru THEN s.list ELSE <<>>
              /\ lists \in [Lrus -> Seq(Items \cup {Crawler})] /\ items \in [Items -> Header]
              /\ \A i \in Items : IF i \in Range(s.list)
                                  THEN items[i].linked /\ items[i].lru = s.lru /\ ~items[i].active /\ items[i].ref = 1
                                  ELSE ~items[i].linked /\ ~items[i].active /\ items[i].ref = 0
<1>1. PICK s \in Starts :
        /\ lists = [l \in Lrus |-> IF l = s.lru THEN s.list ELSE <<>>]
        /\ items = [i \in Items |-> IF i \in Range(s.list)
                                    THEN [Free EXCEPT !.lru = s.lru, !.linked = TRUE, !.fetched = TRUE,
                                                      !.exp = s.exp, !.ref = 1]
                                    ELSE Free]
        /\ left = s.left
  BY DEF LruInit
<1>2. /\ s.lru \in Lrus /\ s.list \in Seq(Items) /\ s.exp \in Nat /\ s.left \in Allowance
      /\ \A m, n \in DOMAIN s.list : s.list[m] = s.list[n] => m = n
  BY StartsAssumption
<1>3. Once(s.list)
  BY <1>2 DEF Once
<1>4. \A l \in Lrus : lists[l] = IF l = s.lru THEN s.list ELSE <<>>
  BY <1>1
<1>5. lists \in [Lrus -> Seq(Items \cup {Crawler})]
  <2>1. s.list \in Seq(Items \cup {Crawler})
    BY <1>2
  <2>2. <<>> \in Seq(Items \cup {Crawler})
    OBVIOUS
  <2> QED BY <1>1, <2>1, <2>2
<1>6. PICK h \in Header :
        /\ h = [Free EXCEPT !.lru = s.lru, !.linked = TRUE, !.fetched = TRUE, !.exp = s.exp, !.ref = 1]
        /\ h.linked /\ h.lru = s.lru /\ ~h.active /\ h.ref = 1
  <2>1. PICK a \in Header : a = [Free EXCEPT !.lru = s.lru] /\ a.lru = s.lru /\ ~a.active
    <3>1. PICK f \in Header : f = Free /\ ~f.active
      BY FreeIs
    <3>2. [f EXCEPT !.lru = s.lru] \in Header /\ [f EXCEPT !.lru = s.lru].lru = s.lru
          /\ [f EXCEPT !.lru = s.lru].active = f.active
      BY <1>2 DEF Header
    <3> QED BY <3>1, <3>2
  <2>2. PICK b \in Header : b = [a EXCEPT !.linked = TRUE] /\ b.lru = s.lru /\ ~b.active /\ b.linked
    <3>1. [a EXCEPT !.linked = TRUE] \in Header /\ [a EXCEPT !.linked = TRUE].lru = a.lru
          /\ [a EXCEPT !.linked = TRUE].active = a.active /\ [a EXCEPT !.linked = TRUE].linked
      BY DEF Header
    <3> QED BY <2>1, <3>1
  <2>3. PICK c \in Header : c = [b EXCEPT !.fetched = TRUE] /\ c.lru = s.lru /\ ~c.active /\ c.linked
    <3>1. [b EXCEPT !.fetched = TRUE] \in Header /\ [b EXCEPT !.fetched = TRUE].lru = b.lru
          /\ [b EXCEPT !.fetched = TRUE].active = b.active /\ [b EXCEPT !.fetched = TRUE].linked = b.linked
      BY DEF Header
    <3> QED BY <2>2, <3>1
  <2>4. PICK d \in Header : d = [c EXCEPT !.exp = s.exp] /\ d.lru = s.lru /\ ~d.active /\ d.linked
    <3>1. [c EXCEPT !.exp = s.exp] \in Header /\ [c EXCEPT !.exp = s.exp].lru = c.lru
          /\ [c EXCEPT !.exp = s.exp].active = c.active /\ [c EXCEPT !.exp = s.exp].linked = c.linked
      BY <1>2 DEF Header
    <3> QED BY <2>3, <3>1
  <2>5. PICK h \in Header : h = [d EXCEPT !.ref = 1] /\ h.lru = s.lru /\ ~h.active /\ h.linked /\ h.ref = 1
    <3>1. [d EXCEPT !.ref = 1] \in Header /\ [d EXCEPT !.ref = 1].lru = d.lru
          /\ [d EXCEPT !.ref = 1].active = d.active /\ [d EXCEPT !.ref = 1].linked = d.linked
          /\ [d EXCEPT !.ref = 1].ref = 1
      BY DEF Header
    <3> QED BY <2>4, <3>1
  <2>6. h = [Free EXCEPT !.lru = s.lru, !.linked = TRUE, !.fetched = TRUE, !.exp = s.exp, !.ref = 1]
    BY <2>1, <2>2, <2>3, <2>4, <2>5
  <2> QED BY <2>5, <2>6
<1>7. items = [i \in Items |-> IF i \in Range(s.list) THEN h ELSE Free]
  BY <1>1, <1>6
<1>8. items \in [Items -> Header]
  BY <1>7, FreeIs
<1>9. ASSUME NEW i \in Items
      PROVE  IF i \in Range(s.list)
             THEN items[i].linked /\ items[i].lru = s.lru /\ ~items[i].active /\ items[i].ref = 1
             ELSE ~items[i].linked /\ ~items[i].active /\ items[i].ref = 0
  BY <1>6, <1>7, FreeIs
<1> QED BY <1>1, <1>2, <1>3, <1>4, <1>5, <1>8, <1>9

\* The other variables at a start.
LEMMA StartIsQuiet ==
    ASSUME CrawlerInit
    PROVE  /\ clock = 0 /\ client = Nobody /\ crawler_count = 0 /\ cbuf = 0 /\ cr.search = Nobody /\ cr.at # "dump"
           /\ \A i \in Items : ilock[i] = Nobody
           /\ \A p \in Pullers : lru_lock[p] = "" /\ pull[p] = NoPull
           /\ \A w \in LruWorkers : wk[w] = [job |-> Resting, got |-> {}] /\ bumps[w] = <<>>
           /\ mt.at = "sleep" /\ mt.cur = Nobody /\ \A l \in Swept : ~crawlers[l].on
           /\ \A d \in Dumpers : dumpers[d] = [handed |-> 0, back |-> 0, closed |-> 0, gone |-> FALSE]
<1>1. LruInit
  BY DEF CrawlerInit
<1>2. clock = 0 /\ mt.at = "sleep" /\ mt.cur = Nobody
  BY <1>1 DEF LruInit
<1>3. \A i \in Items : ilock[i] = Nobody
  BY <1>1 DEF LruInit
<1>4. \A p \in Pullers : lru_lock[p] = "" /\ pull[p] = NoPull
  BY <1>1 DEF LruInit
<1>5. \A w \in LruWorkers : wk[w] = [job |-> Resting, got |-> {}] /\ bumps[w] = <<>>
  BY <1>1 DEF LruInit
<1>6. client = Nobody /\ crawler_count = 0 /\ cbuf = 0 /\ cr.search = Nobody /\ cr.at # "dump"
  BY DEF CrawlerInit
<1>7. \A l \in Swept : ~crawlers[l].on
  BY DEF CrawlerInit
<1>8. \A d \in Dumpers : dumpers[d] = [handed |-> 0, back |-> 0, closed |-> 0, gone |-> FALSE]
  BY DEF CrawlerInit
<1> QED BY <1>2, <1>3, <1>4, <1>5, <1>6, <1>7, <1>8

LEMMA StartTypes == ASSUME CrawlerInit PROVE LruTypes /\ CrawlTypes
<1>1. LruInit /\ left \in Allowance /\ lists \in [Lrus -> Seq(Items \cup {Crawler})] /\ items \in [Items -> Header]
  BY StartListIs DEF CrawlerInit
<1>2. MaxTime \in Nat /\ MaxSleep \in Nat \ {0} /\ JuggleLoops \in Nat \ {0}
  BY LruAssumption
<1>3. clock \in 0 .. MaxTime
  <2>1. 0 \in 0 .. MaxTime
    BY <1>2
  <2> QED BY <2>1, StartIsQuiet
<1>4. ilock \in [Items -> Pullers \cup {CrawlerThread, Nobody}] /\ lru_lock \in [Pullers -> Lrus \cup {""}]
  BY <1>1 DEF LruInit
<1>5. pull \in [Pullers -> Pull]
  BY <1>1, NoPullIs DEF LruInit
<1>6. wk \in [LruWorkers -> Work]
  <2>1. [job |-> Resting, got |-> {}] \in Work
    BY DEF Work, Resting
  <2> QED BY <1>1, <2>1 DEF LruInit
<1>7. bumps \in [LruWorkers -> Seq(Items)]
  <2>1. bumps = [w \in LruWorkers |-> <<>>]
    BY <1>1 DEF LruInit
  <2>2. <<>> \in Seq(Items)
    OBVIOUS
  <2> QED BY <2>1, <2>2
<1>8. mt \in Upkeep
  <2>1. left.garbage \in Nat
    BY <1>1 DEF Allowance
  <2>2. 1 \in 0 .. MaxSleep /\ 0 \in 0 .. JuggleLoops - 1 /\ 0 \in Nat /\ 0 \in Int /\ <<>> \in Seq(Items)
    BY <1>2
  <2>3. mt = [at |-> "sleep", next |-> 0, backoff |-> left.garbage, sleep |-> 1, i |-> 0, more |-> 0, moved |-> FALSE,
              cold_age |-> 0, bufs |-> {}, cur |-> Nobody, size |-> 0, todo |-> <<>>, bumped |-> FALSE]
    BY <1>1 DEF LruInit
  <2> QED BY <2>1, <2>2, <2>3 DEF Upkeep
<1>9. LruTypes
  BY <1>1, <1>3, <1>4, <1>5, <1>6, <1>7, <1>8 DEF LruTypes
<1>10. crawlers \in [Swept -> [on : BOOLEAN, remaining : Nat]] /\ crawler_count \in Int
  <2>1. [on |-> FALSE, remaining |-> 0] \in [on : BOOLEAN, remaining : Nat]
    <3>1. 0 \in Nat
      OBVIOUS
    <3> QED BY <3>1
  <2>2. crawlers = [l \in Swept |-> [on |-> FALSE, remaining |-> 0]]
    BY DEF CrawlerInit
  <2>3. crawlers \in [Swept -> [on : BOOLEAN, remaining : Nat]]
    BY <2>1, <2>2
  <2>4. 0 \in Int
    OBVIOUS
  <2> QED BY <2>3, <2>4, StartIsQuiet
<1>11. cr \in Crawl
  BY DEF CrawlerInit, Crawl
<1>12. client \in Dumpers \cup {Nobody} /\ cbuf \in 0 .. DumpLines
       /\ mod \in [type : {"", "expired", "metadump"}, external : BOOLEAN]
  <2>1. 0 \in 0 .. DumpLines
    <3>1. DumpLines \in Nat
      BY CrawlerAssumption
    <3> QED BY <3>1
  <2>2. mod = [type |-> "", external |-> FALSE]
    BY DEF CrawlerInit
  <2> QED BY <2>1, <2>2, StartIsQuiet
<1>13. dumpers \in [Dumpers -> [handed : Nat, back : Nat, closed : Nat, gone : BOOLEAN]]
  <2>1. [handed |-> 0, back |-> 0, closed |-> 0, gone |-> FALSE] \in [handed : Nat, back : Nat, closed : Nat, gone : BOOLEAN]
    OBVIOUS
  <2> QED BY <2>1 DEF CrawlerInit
<1>14. cdata \in [stats : Stats, wait : 0 .. MaxWait, next : Nat, last : Nat]
  <2>1. MaxWait \in Nat
    BY CrawlerAssumption
  <2>2. 0 \in 0 .. MaxWait /\ 0 \in Nat
    BY <2>1
  <2> QED BY <2>2, StatsIs DEF CrawlerInit
<1>15. CrawlTypes
  BY <1>10, <1>11, <1>12, <1>13, <1>14 DEF CrawlTypes
<1> QED BY <1>9, <1>15

LEMMA InitHolds == ASSUME CrawlerInit PROVE IInv
<1>1. LruTypes /\ CrawlTypes /\ LruInit
  BY StartTypes DEF CrawlerInit
<1>2. PICK s \in Starts :
        /\ s.lru \in Lrus /\ s.list \in Seq(Items) /\ s.exp \in Nat /\ Once(s.list)
        /\ left = s.left /\ left \in Allowance
        /\ \A l \in Lrus : lists[l] = IF l = s.lru THEN s.list ELSE <<>>
        /\ lists \in [Lrus -> Seq(Items \cup {Crawler})] /\ items \in [Items -> Header]
        /\ \A i \in Items : IF i \in Range(s.list)
                            THEN items[i].linked /\ items[i].lru = s.lru /\ ~items[i].active /\ items[i].ref = 1
                            ELSE ~items[i].linked /\ ~items[i].active /\ items[i].ref = 0
  BY <1>1, StartListIs
<1>3. /\ clock = 0 /\ client = Nobody /\ crawler_count = 0 /\ cbuf = 0 /\ cr.search = Nobody /\ cr.at # "dump"
      /\ \A i \in Items : ilock[i] = Nobody
      /\ \A p \in Pullers : lru_lock[p] = "" /\ pull[p] = NoPull
      /\ \A w \in LruWorkers : wk[w] = [job |-> Resting, got |-> {}] /\ bumps[w] = <<>>
      /\ mt.at = "sleep" /\ mt.cur = Nobody /\ \A l \in Swept : ~crawlers[l].on
      /\ \A d \in Dumpers : dumpers[d] = [handed |-> 0, back |-> 0, closed |-> 0, gone |-> FALSE]
  BY StartIsQuiet
<1>4. \A p \in Pullers : pull[p].at = "" /\ pull[p].search = Nobody
  BY <1>3, NoPullIs
<1>5. \A w \in LruWorkers : wk[w].job.at = "idle" /\ wk[w].got = {} /\ w \in Pullers /\ w # Nobody
  <2>1. \A w \in LruWorkers : w \in Pullers /\ w # Nobody
    BY LruNames DEF Pullers
  <2>2. Resting.at = "idle"
    BY DEF Resting
  <2> SUFFICES ASSUME NEW w \in LruWorkers PROVE wk[w].job.at = "idle" /\ wk[w].got = {}
    BY <2>1
  <2>3. wk[w] = [job |-> Resting, got |-> {}]
    BY <1>3
  <2>4. wk[w].job = Resting /\ wk[w].got = {}
    BY <2>3
  <2> QED BY <2>2, <2>4
<1>6. crawler_count \in 0 .. 2 * Cardinality(Swept)
  <2>1. 0 \in 0 .. 2 * 3
    OBVIOUS
  <2> QED BY <1>3, <2>1, SweptIs
<1>7. ThreadsOK
  <2>1. \A p \in Pullers : PullOK(p)
    BY <1>3, <1>4 DEF PullOK
  <2>2. \A w \in LruWorkers : WorkOK(w)
    <3> SUFFICES ASSUME NEW w \in LruWorkers PROVE WorkOK(w)
      OBVIOUS
    <3>1. BumpSize \in Nat
      BY LruAssumption
    <3>2. Len(bumps[w]) = 0
      <4>1. Len(<<>>) = 0
        OBVIOUS
      <4> QED BY <1>3, <4>1
    <3>3. Len(bumps[w]) <= BumpSize
      BY <3>1, <3>2
    <3> QED BY <1>4, <1>5, <3>3 DEF WorkOK
  <2>3. UpkeepOK
    <3>1. pull[Maintainer].at = ""
      BY <1>4 DEF Pullers
    <3> QED BY <1>3, <3>1 DEF UpkeepOK
  <2>4. CrawlOK
    BY <1>3 DEF CrawlOK
  <2> QED BY <2>1, <2>2, <2>3, <2>4 DEF ThreadsOK
<1>8. ASSUME NEW i \in Items PROVE Queued(i) = {} /\ Got(i) = {} /\ Settling(i) = {} /\ ~InTransit(i)
  <2>1. \A w \in LruWorkers : Pending(w) = <<>>
    BY <1>3, <1>5 DEF Pending
  <2>2. Queued(i) = {}
    BY <2>1 DEF Queued
  <2>3. Got(i) = {}
    BY <1>5 DEF Got
  <2>4. Settling(i) = {} /\ ~InTransit(i)
    BY <1>4 DEF Settling, InTransit
  <2> QED BY <2>2, <2>3, <2>4
<1>9. RefsExact
  <2> SUFFICES ASSUME NEW i \in Items PROVE items[i].ref = Refs(i)
    BY RefsAre
  <2>1. Cardinality(Queued(i)) = 0 /\ Cardinality(Got(i)) = 0 /\ Cardinality(Settling(i)) = 0
    BY <1>8, FS_EmptySet
  <2>2. OneIf(cr.search = i) = 0
    BY <1>3, LruNames DEF OneIf
  <2>3. CASE i \in Range(s.list)
    <3>1. items[i].ref = 1 /\ OneIf(items[i].linked) = 1
      BY <1>2, <2>3 DEF OneIf
    <3> QED BY <2>1, <2>2, <3>1 DEF Refs
  <2>4. CASE i \notin Range(s.list)
    <3>1. items[i].ref = 0 /\ OneIf(items[i].linked) = 0
      BY <1>2, <2>4 DEF OneIf
    <3> QED BY <2>1, <2>2, <3>1 DEF Refs
  <2> QED BY <2>3, <2>4
<1>10. ActiveIsQueued
  BY <1>2 DEF ActiveIsQueued
<1>11. ClientReturned
  <2> SUFFICES ASSUME NEW d \in Dumpers
               PROVE  dumpers[d].handed = dumpers[d].back + dumpers[d].closed + (IF client = d THEN 1 ELSE 0)
    BY DEF ClientReturned
  <2>1. client # d
    BY <1>3, CrawlerAssumption
  <2>2. dumpers[d].handed = 0 /\ dumpers[d].back = 0 /\ dumpers[d].closed = 0
    <3>1. dumpers[d] = [handed |-> 0, back |-> 0, closed |-> 0, gone |-> FALSE]
      BY <1>3
    <3> QED BY <3>1
  <2>3. 0 = 0 + 0 + 0
    OBVIOUS
  <2> QED BY <2>1, <2>2, <2>3
<1>12. Whole
  <2>1. ASSUME NEW l \in Lrus PROVE ListOK(l)
    <3>1. ~\E n \in 1 .. Len(<<>>) : TRUE
      OBVIOUS
    <3>2. Once(<<>>) /\ \A x : x \notin Range(<<>>)
      BY <3>1 DEF Once, Range
    <3>3. CASE l = s.lru
      <4>1. lists[l] = s.list
        BY <1>2, <3>3
      <4>2. \A i \in Items : i \in Range(lists[l]) <=> items[i].linked /\ ~InTransit(i) /\ items[i].lru = l
        BY <1>2, <1>8, <3>3, <4>1
      <4>3. Crawler \notin Range(lists[l])
        BY <1>2, <4>1, RangeIs, LruNames
      <4> QED BY <1>2, <1>3, <4>1, <4>2, <4>3 DEF ListOK
    <3>4. CASE l # s.lru
      <4>1. lists[l] = <<>>
        BY <1>2, <3>4
      <4>2. \A i \in Items : i \in Range(lists[l]) <=> items[i].linked /\ ~InTransit(i) /\ items[i].lru = l
        BY <1>2, <3>2, <3>4, <4>1
      <4> QED BY <1>3, <3>2, <4>1, <4>2 DEF ListOK
    <3> QED BY <3>3, <3>4
  <2>2. \A p \in Pullers : WalkOK(p)
    BY <1>4 DEF WalkOK
  <2>3. CountOK
    <3>1. {l \in Swept : crawlers[l].on} = {}
      BY <1>3
    <3> QED BY <1>3, <3>1, FS_EmptySet DEF CountOK
  <2> QED BY <2>1, <2>2, <2>3 DEF Whole
<1> QED BY <1>1, <1>6, <1>7, <1>9, <1>10, <1>11, <1>12 DEF IInv

\* Nothing changes.
LEMMA StutterKeeps == ASSUME IInv, UNCHANGED allVars PROVE IInv'
<1>1. UNCHANGED lruVars /\ UNCHANGED crawlVars
  BY DEF allVars
<1>2. LruTypes' /\ CrawlTypes'
  BY <1>1, LruTypesKept, CrawlTypesKept DEF IInv
<1>3. UNCHANGED <<clock, items, lists, ilock, lru_lock, pull, wk, bumps, mt, left>>
  BY <1>1 DEF lruVars
<1>4. UNCHANGED <<crawlers, crawler_count, cr, client, cbuf, dumpers, broken>>
  BY <1>1 DEF crawlVars
<1>5. (crawler_count \in 0 .. 2 * Cardinality(Swept))'
  BY <1>4 DEF IInv, Swept
<1>6. ThreadsOK'
  <2>1. ThreadsOK
    BY DEF IInv
  <2>2. \A p \in Pullers : PullOK(p)'
    BY <1>3, <2>1 DEF ThreadsOK, PullOK, At
  <2>3. \A w \in LruWorkers : WorkOK(w)'
    BY <1>3, <2>1 DEF ThreadsOK, WorkOK
  <2>4. UpkeepOK'
    BY <1>3, <2>1 DEF ThreadsOK, UpkeepOK
  <2>5. CrawlOK'
    BY <1>3, <1>4, <2>1 DEF ThreadsOK, CrawlOK
  <2> QED BY <2>2, <2>3, <2>4, <2>5 DEF ThreadsOK
<1>7. \A w \in LruWorkers : Pending(w)' = Pending(w)
  BY <1>3 DEF Pending
<1>8. \A i \in Items : Queued(i)' = Queued(i) /\ Got(i)' = Got(i) /\ Settling(i)' = Settling(i)
  BY <1>3, <1>7 DEF Queued, Got, Settling, At
<1>9. RefsExact' /\ ActiveIsQueued'
  BY <1>3, <1>4, <1>8 DEF IInv, RefsExact, ActiveIsQueued
<1>10. ClientReturned'
  BY <1>4 DEF IInv, ClientReturned
<1>11. ASSUME Sound' PROVE Whole'
  <2>1. Whole
    BY <1>4, <1>11 DEF IInv, Sound
  <2>2. \A i \in Items : InTransit(i)' = InTransit(i)
    BY <1>3 DEF InTransit, At
  <2>3. \A l \in Lrus : ListOK(l)'
    BY <1>3, <1>4, <2>1, <2>2 DEF Whole, ListOK
  <2>4. \A p \in Pullers : WalkOK(p)'
    BY <1>3, <2>1 DEF Whole, WalkOK, At
  <2>5. CountOK'
    BY <1>4, <2>1 DEF Whole, CountOK
  <2> QED BY <2>3, <2>4, <2>5 DEF Whole
<1> QED BY <1>2, <1>5, <1>6, <1>9, <1>10, <1>11 DEF IInv

LEMMA PullStepKeeps ==
    ASSUME IInv, Sound, NEW p \in Pullers, PullStep(p), UNCHANGED crawlVars
    PROVE  IInv'
<1>1. CASE PullCrawler(p)
  BY <1>1, PullCrawlerKeeps
<1>2. CASE PullLocked(p)
  BY <1>2, PullLockedKeeps
<1>3. CASE PullExpired(p)
  BY <1>3, PullExpiredKeeps
<1>4. CASE PullStop(p)
  BY <1>4, PullStopKeeps
<1>5. CASE PullNothing(p)
  BY <1>5, PullNothingKeeps
<1>6. CASE PullSettle(p)
  BY <1>6, PullSettleKeeps
<1> QED BY <1>1, <1>2, <1>3, <1>4, <1>5, <1>6 DEF PullStep

LEMMA WorkerKeeps ==
    ASSUME IInv, Sound, NEW w \in LruWorkers, Request(w) \/ AllocPull(w) \/ PullStep(w), UNCHANGED crawlVars
    PROVE  IInv'
<1>1. ASSUME NEW i \in Items, item_lock(w, i) PROVE IInv'
  BY <1>1, ItemLockKeeps
<1>2. ASSUME NEW i \in Items, Store(w, i) PROVE IInv'
  BY <1>2, StoreKeeps
<1>3. ASSUME NEW i \in Items, item_unlink(w, i) PROVE IInv'
  BY <1>3, ItemUnlinkKeeps
<1>4. ASSUME NEW i \in Items, item_remove(w, i) PROVE IInv'
  BY <1>4, ItemRemoveKeeps
<1>5. ASSUME NEW i \in Items, GetMiss(w, i) PROVE IInv'
  BY <1>5, GetMissKeeps
<1>6. ASSUME NEW i \in Items, GetHit(w, i) PROVE IInv'
  BY <1>6, GetHitKeeps
<1>7. CASE do_item_alloc_pull(w)
  BY <1>7, AllocKeeps
<1>8. CASE AllocPull(w)
  BY <1>8, AllocPullKeeps
<1>9. CASE PullStep(w)
  <2>1. w \in Pullers
    BY DEF Pullers
  <2> QED BY <1>9, <2>1, PullStepKeeps
<1> QED BY <1>1, <1>2, <1>3, <1>4, <1>5, <1>6, <1>7, <1>8, <1>9 DEF Request

LEMMA MaintainKeeps == ASSUME IInv, Sound, MaintainStep PROVE IInv'
<1>1. ASSUME Maintain, UNCHANGED crawlVars PROVE IInv'
  <2>1. Maintainer \in Pullers
    BY DEF Pullers
  <2>2. CASE Wake
    BY <1>1, <2>2, WakeKeeps
  <2>3. CASE ColdAge
    BY <1>1, <2>3, ColdAgeKeeps
  <2>4. CASE lru_maintainer_juggle
    BY <1>1, <2>4, JuggleKeeps
  <2>5. CASE PullStep(Maintainer)
    BY <1>1, <2>1, <2>5, PullStepKeeps
  <2>6. CASE PullRescue(Maintainer)
    BY <1>1, <2>1, <2>6, PullRescueKeeps
  <2>7. ASSUME NEW w \in LruWorkers, BumpPeek(w) PROVE IInv'
    BY <1>1, <2>7, BumpPeekKeeps
  <2>8. CASE BumpOne
    BY <1>1, <2>8, BumpOneKeeps
  <2>9. CASE BumpPoll
    BY <1>1, <2>9, BumpPollKeeps
  <2> QED BY <1>1, <2>2, <2>3, <2>4, <2>5, <2>6, <2>7, <2>8, <2>9 DEF Maintain
<1>2. CASE lru_maintainer_crawler_check
  BY <1>2, CrawlerCheckKeeps
<1>3. CASE MaintainerRests
  BY <1>3, RestsKeeps
<1> QED BY <1>1, <1>2, <1>3 DEF MaintainStep

LEMMA CrawlKeeps == ASSUME IInv, Sound, CrawlStep PROVE IInv'
<1>1. CASE CrawlerWakes
  BY <1>1, CrawlerWakesKeeps
<1>2. CASE CrawlPassEnds
  BY <1>2, CrawlPassEndsKeeps
<1>3. CASE crawler_metadump_eval
  BY <1>3, MetadumpEvalKeeps
<1>4. CASE FlushCloses
  BY <1>4, FlushClosesKeeps
<1>5. CASE CrawlEnd
  BY <1>5, CrawlEndKeeps
<1>6. CASE CrawlerStarts
  BY <1>6, CrawlerStartsKeeps
<1>7. ASSUME NEW l \in Swept,
             CrawlNotOn(l) \/ CrawlNoClient(l) \/ CrawlGetbufFails(l) \/ CrawlListDone(l)
               \/ CrawlBusy(l) \/ crawler_expired_eval(l) \/ CrawlHolds(l)
      PROVE  IInv'
  <2>1. CASE CrawlNotOn(l)
    BY <2>1, CrawlNotOnKeeps
  <2>2. CASE CrawlNoClient(l)
    BY <2>2, CrawlNoClientKeeps
  <2>3. CASE CrawlGetbufFails(l)
    BY <2>3, CrawlGetbufFailsKeeps
  <2>4. CASE CrawlListDone(l)
    BY <2>4, CrawlListDoneKeeps
  <2>5. CASE CrawlBusy(l)
    BY <2>5, CrawlBusyKeeps
  <2>6. CASE crawler_expired_eval(l)
    BY <2>6, ExpiredEvalKeeps
  <2>7. CASE CrawlHolds(l)
    BY <2>7, CrawlHoldsKeeps
  <2> QED BY <1>7, <2>1, <2>2, <2>3, <2>4, <2>5, <2>6, <2>7
<1> QED BY <1>1, <1>2, <1>3, <1>4, <1>5, <1>6, <1>7 DEF CrawlStep

LEMMA StepKeeps == ASSUME IInv, LruThreadsNext PROVE IInv'
<1>1. Sound
  BY DEF LruThreadsNext, Sound
<1>2. CASE Tick /\ UNCHANGED crawlVars
  BY <1>1, <1>2, TickKeeps
<1>3. ASSUME NEW w \in LruWorkers, Request(w) \/ AllocPull(w) \/ PullStep(w), UNCHANGED crawlVars PROVE IInv'
  BY <1>1, <1>3, WorkerKeeps
<1>4. CASE MaintainStep
  BY <1>1, <1>4, MaintainKeeps
<1>5. CASE CrawlStep
  BY <1>1, <1>5, CrawlKeeps
<1>6. CASE lru_crawler_poll
  BY <1>1, <1>6, PollKeeps
<1>7. CASE lru_crawler_crawl
  BY <1>1, <1>7, CrawlCommandKeeps
<1>8. ASSUME NEW d \in Dumpers, lru_crawler_metadump(d) PROVE IInv'
  BY <1>1, <1>8, MetadumpKeeps
<1>9. ASSUME NEW d \in Dumpers, HangUp(d) PROVE IInv'
  BY <1>1, <1>9, HangUpKeeps
<1>10. CASE stop_item_crawler_thread
  BY <1>1, <1>10, StopKeeps
<1>11. CASE CrawlerJoined
  BY <1>1, <1>11, CrawlerJoinedKeeps
<1>12. CASE start_item_crawler_thread
  BY <1>1, <1>12, StartKeeps
<1>13. CASE lru_crawler_pause
  BY <1>1, <1>13, PauseKeeps
<1>14. CASE CrawlerPaused
  BY <1>1, <1>14, CrawlerPausedKeeps
<1>15. CASE lru_maintainer_pause
  BY <1>1, <1>15, MaintainerPauseKeeps
<1>16. CASE ResumeAll
  BY <1>1, <1>16, ResumeKeeps
<1> QED BY <1>2, <1>3, <1>4, <1>5, <1>6, <1>7, <1>8, <1>9, <1>10, <1>11, <1>12, <1>13, <1>14, <1>15, <1>16
        DEF LruThreadsNext

\* Workers, maintainer and crawler keep the inductive invariant: IInv.
THEOREM LruThreadsInvariant == LruThreadsSpec => []IInv
<1>1. CrawlerInit => IInv
  BY InitHolds
<1>2. IInv /\ [LruThreadsNext]_allVars => IInv'
  BY StepKeeps, StutterKeeps
<1> QED BY <1>1, <1>2, PTL DEF LruThreadsSpec

-----------------------------------------------------------------------------
(* What it says of the lists, the bumps and the clients.                   *)

\* A list in which nothing is twice has one place for what is in it.
LEMMA PositionsAre ==
    ASSUME NEW S, NEW s \in Seq(S), Once(s), NEW x
    PROVE  Cardinality(Positions(s, x)) = IF x \in Range(s) THEN 1 ELSE 0
<1>1. Positions(s, x) = {n \in 1 .. Len(s) : s[n] = x}
  BY DEF Positions
<1>2. CASE x \notin Range(s)
  <2>1. Positions(s, x) = {}
    BY <1>1, <1>2, RangeIs
  <2> QED BY <1>2, <2>1, FS_EmptySet
<1>3. CASE x \in Range(s)
  <2>1. PICK p \in 1 .. Len(s) : s[p] = x
    BY <1>3, RangeIs
  <2>2. Positions(s, x) = {p}
    BY <1>1, <2>1 DEF Once
  <2> QED BY <1>3, <2>2, FS_Singleton
<1> QED BY <1>2, <1>3

LEMMA TypesHold == IInv => LruTypeOK
<1> SUFFICES ASSUME IInv PROVE LruTypeOK
  OBVIOUS
<1>1. LruTypes /\ CrawlTypes /\ crawler_count \in 0 .. 2 * Cardinality(Swept) /\ ThreadsOK
  BY DEF IInv
<1>2. clock \in 0 .. MaxTime /\ cbuf \in 0 .. DumpLines
  BY <1>1 DEF LruTypes, CrawlTypes
<1>3. ASSUME NEW i \in Items PROVE items[i].lru \in Lrus \cup {""} /\ items[i].ref \in Nat
  <2>1. items[i] \in Header
    BY <1>1 DEF LruTypes
  <2> QED BY <2>1 DEF Header
<1>4. ASSUME NEW l \in Lrus PROVE Range(lists[l]) \subseteq Items \cup {Crawler}
  <2>1. lists[l] \in Seq(Items \cup {Crawler})
    BY <1>1 DEF LruTypes
  <2> QED BY <2>1 DEF Range
<1>5. ASSUME NEW w \in LruWorkers PROVE wk[w].got \subseteq Items /\ Len(bumps[w]) <= BumpSize
  <2>1. wk[w] \in Work
    BY <1>1 DEF LruTypes
  <2>2. wk[w].got \subseteq Items
    BY <2>1 DEF Work
  <2>3. WorkOK(w)
    BY <1>1 DEF ThreadsOK
  <2> QED BY <2>2, <2>3 DEF WorkOK
<1>6. cdata.wait \in 0 .. MaxWait
  BY <1>1 DEF CrawlTypes
<1>7. mt.i \in 0 .. JuggleLoops - 1 /\ mt.sleep \in 0 .. MaxSleep
  <2>1. mt \in Upkeep
    BY <1>1 DEF LruTypes
  <2> QED BY <2>1 DEF Upkeep
<1> QED BY <1>1, <1>2, <1>3, <1>4, <1>5, <1>6, <1>7 DEF LruTypeOK

LEMMA ListsHold == IInv => ListsExact /\ CrawlersCounted
<1> SUFFICES ASSUME IInv, Sound PROVE ListsExact /\ CrawlersCounted
  BY DEF ListsExact, CrawlersCounted
<1>1. \A l \in Lrus : ListOK(l) /\ lists[l] \in Seq(Items \cup {Crawler})
  BY DEF IInv, Whole, LruTypes
<1>2. ASSUME NEW l \in Lrus, NEW x
      PROVE  Cardinality(Positions(lists[l], x)) = IF x \in Range(lists[l]) THEN 1 ELSE 0
  BY <1>1, PositionsAre DEF ListOK
<1>3. ListsExact
  <2> SUFFICES ASSUME NEW i \in Items, NEW l \in Lrus
               PROVE  Cardinality(Positions(lists[l], i)) =
                        IF items[i].linked /\ ~InTransit(i) /\ items[i].lru = l THEN 1 ELSE 0
    BY DEF ListsExact
  <2>1. i \in Range(lists[l]) <=> items[i].linked /\ ~InTransit(i) /\ items[i].lru = l
    BY <1>1 DEF ListOK
  <2> QED BY <1>2, <2>1
<1>4. \A l \in Lrus : Cardinality(Positions(lists[l], Crawler)) =
                        IF l \in Swept /\ crawlers[l].on THEN 1 ELSE 0
  <2> SUFFICES ASSUME NEW l \in Lrus
               PROVE  Cardinality(Positions(lists[l], Crawler)) =
                        IF l \in Swept /\ crawlers[l].on THEN 1 ELSE 0
    OBVIOUS
  <2>1. Crawler \in Range(lists[l]) <=> l \in Swept /\ crawlers[l].on
    BY <1>1 DEF ListOK
  <2> QED BY <1>2, <2>1
<1>5. crawler_count = Cardinality({l \in Swept : crawlers[l].on})
  BY DEF IInv, Whole, CountOK
<1>6. CrawlersCounted
  BY <1>4, <1>5 DEF CrawlersCounted
<1> QED BY <1>3, <1>6

\* Whatever the order of the threads' steps, every linked item is in its list
\* once and in no other, and every crawler that runs is in its list and counted.
THEOREM ListsStayWhole == LruThreadsSpec => []ListsWhole
<1>1. IInv => ListsWhole
  BY TypesHold, ListsHold DEF ListsWhole
<1> QED BY <1>1, LruThreadsInvariant, PTL

\* No reference is lost or kept for ever, and an ACTIVE item of COLD is queued
\* to be bumped, whatever deletes and full buffers come between.
THEOREM BumpsStayKept == LruThreadsSpec => []BumpsKept
<1>1. IInv => BumpsKept
  BY DEF IInv, BumpsKept
<1> QED BY <1>1, LruThreadsInvariant, PTL

\* Each connection that was handed to the crawler is with it, or was returned
\* or closed, once.
THEOREM ClientsAreReturned == LruThreadsSpec => []ClientReturned
<1>1. IInv => ClientReturned
  BY DEF IInv
<1> QED BY <1>1, LruThreadsInvariant, PTL

=============================================================================
