--------------------------- MODULE DispatchProofs ---------------------------
(***************************************************************************)
(* From accept to close a descriptor is with one thread or queue, whatever *)
(* the kernel gives away again, and every connection is counted once: for  *)
(* any workers, descriptors, pipe size and limits.                         *)
(***************************************************************************)
EXTENDS Dispatch, FiniteSetTheorems, FunctionTheorems, TLAPS

Item == [kind : {"new", "again"}, fd : Fds]
Msg == [msg : {"c", "r"}, fd : {NoFd}] \cup [msg : {"t"}, fd : Fds]
Conn == [state : {"none", "read", "watch", "queued", "closed"}, thread : Workers \cup {NoFd}, last_cmd_time : Nat]
Doing == [at : {"loop", "push", "write", "refuse", "mark", "close", "allow", "count"},
          fd : Fds \cup {NoFd}, to : Workers \cup {NoFd}]

TypesOK ==
    /\ fds \in SUBSET Fds /\ cursor \in SUBSET Fds /\ last_thread \in Workers
    /\ conns \in [Fds -> Conn]
    /\ queue \in [Workers -> Seq(Item)] /\ pipe \in [Workers -> Seq(Msg)]
    /\ \A w \in Workers : Len(pipe[w]) <= PipeSize
    /\ pc \in [Threads -> Doing]
    /\ clients \in Nat /\ curr_conns \in Nat /\ uncounted \in Nat /\ current_time \in Nat
    /\ race \in {"none", "mixed", "stray"}

\* What the threads may be at.
PlacesOK ==
    /\ pc[Main].at \in {"loop", "push", "write", "refuse"}
    /\ pc[Side].at \in {"loop", "write", "mark", "close", "count"}
    /\ \A w \in Workers : pc[w].at \in {"loop", "mark", "close", "allow", "count"}
    /\ \A t \in Threads : pc[t].at \in {"push", "write"} => pc[t].to \in Workers

\* t has a descriptor that is neither in a queue nor that of a connection.
Takes(t) == pc[t].at \in {"push", "close"}

QueueOnce ==
    \A w, v \in Workers : \A m \in 1 .. Len(queue[w]), n \in 1 .. Len(queue[v]) :
        queue[w][m].fd = queue[v][n].fd => w = v /\ m = n

QueueOK ==
    \A w \in Workers : \A n \in 1 .. Len(queue[w]) :
        LET f == queue[w][n].fd
        IN  /\ f \in fds
            /\ IF queue[w][n].kind = "new" THEN ~Live(f) ELSE conns[f].state = "queued"
            /\ \A t \in Threads : Takes(t) => pc[t].fd # f

TakesOK ==
    \A t \in Threads : Takes(t) =>
        /\ pc[t].fd \in fds /\ ~Live(pc[t].fd)
        /\ pc[t].at = "close" => conns[pc[t].fd].state = "closed"
        /\ \A s \in Threads : Takes(s) /\ pc[s].fd = pc[t].fd => s = t

\* A connection is closed by the thread that serves it.
MarkOK ==
    \A t \in Threads : pc[t].at = "mark" =>
        /\ pc[t].fd \in Fds
        /\ conns[pc[t].fd].state = (IF t = Side THEN "watch" ELSE "read")
        /\ t # Side => conns[pc[t].fd].thread = t

LiveOK == \A f \in Fds : Live(f) => f \in fds /\ conns[f].thread \in Workers

InQueue(f) == \E w \in Workers : \E n \in 1 .. Len(queue[w]) : queue[w][n].fd = f

NoneForgotten ==
    \A f \in fds : \/ conns[f].state \in {"read", "watch"} \/ InQueue(f)
                   \/ \E t \in Threads : Takes(t) /\ pc[t].fd = f

OwnOK == QueueOnce /\ QueueOK /\ TakesOK /\ MarkOK /\ LiveOK /\ NoneForgotten

IInv == TypesOK /\ PlacesOK /\ OwnOK /\ ConnsCounted /\ ItemsAnnounced

-----------------------------------------------------------------------------
(* Counting.                                                               *)

\* Two finite sets that differ at x at most.
LEMMA CountOne ==
    ASSUME NEW A, NEW B, NEW x, IsFiniteSet(A), A \ {x} = B \ {x}
    PROVE  /\ IsFiniteSet(B) /\ Cardinality(A) \in Nat /\ Cardinality(B) \in Nat
           /\ Cardinality(B) = Cardinality(A) - (IF x \in A THEN 1 ELSE 0) + (IF x \in B THEN 1 ELSE 0)
<1> DEFINE R == A \ {x}
<1>1. IsFiniteSet(R) /\ Cardinality(R) \in Nat /\ x \notin R
  BY FS_Subset, FS_CardinalityType
<1>2. IsFiniteSet(R \cup {x}) /\ Cardinality(R \cup {x}) = Cardinality(R) + 1
  BY <1>1, FS_AddElement
<1>3. /\ x \in A => A = R \cup {x}
      /\ x \notin A => A = R
      /\ x \in B => B = R \cup {x}
      /\ x \notin B => B = R
  OBVIOUS
<1>4. Cardinality(A) = Cardinality(R) + (IF x \in A THEN 1 ELSE 0)
  <2>1. CASE x \in A
    <3>1. Cardinality(A) = Cardinality(R \cup {x})
      BY <1>3, <2>1
    <3> QED BY <1>2, <2>1, <3>1
  <2>2. CASE x \notin A
    <3>1. Cardinality(A) = Cardinality(R)
      BY <1>3, <2>2
    <3> QED BY <1>1, <2>2, <3>1
  <2> QED BY <2>1, <2>2
<1>5. Cardinality(B) = Cardinality(R) + (IF x \in B THEN 1 ELSE 0) /\ IsFiniteSet(B)
  <2>1. CASE x \in B
    <3>1. Cardinality(B) = Cardinality(R \cup {x}) /\ IsFiniteSet(B)
      BY <1>2, <1>3, <2>1
    <3> QED BY <1>2, <2>1, <3>1
  <2>2. CASE x \notin B
    <3>1. Cardinality(B) = Cardinality(R) /\ IsFiniteSet(B)
      BY <1>1, <1>3, <2>2
    <3> QED BY <1>1, <2>2, <3>1
  <2> QED BY <2>1, <2>2
<1> QED BY <1>1, <1>4, <1>5

\* The notifications of items in a pipe.
Bytes(p) == {n \in 1 .. Len(p) : p[n].msg # "t"}

LEMMA BytesFinite ==
    ASSUME NEW p \in Seq(Msg)
    PROVE  IsFiniteSet(Bytes(p)) /\ Cardinality(Bytes(p)) \in Nat
<1>1. IsFiniteSet(1 .. Len(p))
  BY FS_Interval
<1> QED BY <1>1, FS_Subset, FS_CardinalityType DEF Bytes

LEMMA BytesAppend ==
    ASSUME NEW p \in Seq(Msg), NEW x \in Msg
    PROVE  Cardinality(Bytes(Append(p, x))) = Cardinality(Bytes(p)) + (IF x.msg = "t" THEN 0 ELSE 1)
<1> DEFINE q == Append(p, x)
           l == Len(p) + 1
<1>1. q \in Seq(Msg) /\ Len(q) = l /\ Len(p) \in Nat /\ q[l] = x /\ \A n \in 1 .. Len(p) : q[n] = p[n]
  OBVIOUS
<1> HIDE DEF q
<1>2. \A n \in 1 .. l : n = l \/ n \in 1 .. Len(p)
  BY <1>1
<1>3. \A n \in 1 .. Len(p) : n \in 1 .. l /\ n # l
  BY <1>1
<1>4. l \in 1 .. l /\ l \notin 1 .. Len(p)
  BY <1>1
<1> HIDE DEF l
<1>5. Bytes(p) \ {l} = Bytes(q) \ {l}
  BY <1>1, <1>2, <1>3 DEF Bytes
<1>6. l \notin Bytes(p) /\ (l \in Bytes(q) <=> x.msg # "t")
  BY <1>1, <1>4 DEF Bytes
<1>7. Cardinality(Bytes(q)) = Cardinality(Bytes(p)) - 0 + (IF l \in Bytes(q) THEN 1 ELSE 0)
  BY <1>5, <1>6, BytesFinite, CountOne
<1> QED BY <1>6, <1>7, BytesFinite DEF q

LEMMA BytesTail ==
    ASSUME NEW p \in Seq(Msg), p # <<>>
    PROVE  /\ Cardinality(Bytes(Tail(p))) = Cardinality(Bytes(p)) - (IF Head(p).msg = "t" THEN 0 ELSE 1)
           /\ Tail(p) \in Seq(Msg) /\ Len(Tail(p)) = Len(p) - 1 /\ Len(p) >= 1 /\ Head(p) \in Msg
<1> DEFINE q == Tail(p)
           S == Bytes(p) \ {1}
<1>1. q \in Seq(Msg) /\ Len(q) = Len(p) - 1 /\ Len(p) \in Nat /\ Len(p) >= 1 /\ Head(p) = p[1] /\ Head(p) \in Msg
  OBVIOUS
<1>2. \A n \in 1 .. Len(q) : q[n] = p[n + 1]
  BY <1>1
<1> HIDE DEF q
<1>3. Cardinality(S) = Cardinality(Bytes(p)) - (IF Head(p).msg = "t" THEN 0 ELSE 1) /\ IsFiniteSet(S)
      /\ Cardinality(S) \in Nat
  <2>1. 1 \in Bytes(p) <=> Head(p).msg # "t"
    BY <1>1 DEF Bytes
  <2>2. S \ {1} = Bytes(p) \ {1} /\ 1 \notin S
    OBVIOUS
  <2> HIDE DEF S
  <2>3. /\ Cardinality(S) = Cardinality(Bytes(p)) - (IF 1 \in Bytes(p) THEN 1 ELSE 0) + (IF 1 \in S THEN 1 ELSE 0)
        /\ IsFiniteSet(S) /\ Cardinality(S) \in Nat
    BY <2>2, BytesFinite, CountOne
  <2> QED BY <2>1, <2>2, <2>3, BytesFinite
<1> DEFINE f == [n \in Bytes(q) |-> n + 1]
<1>4. \A n \in Bytes(q) : n \in Int /\ n + 1 \in S
  BY <1>1, <1>2 DEF Bytes
<1>5. \A m \in S : m - 1 \in Bytes(q) /\ (m - 1) + 1 = m
  <2> SUFFICES ASSUME NEW m \in S PROVE m - 1 \in Bytes(q) /\ (m - 1) + 1 = m
    OBVIOUS
  <2>1. m \in 1 .. Len(p) /\ m # 1 /\ p[m].msg # "t"
    BY DEF Bytes
  <2>2. m - 1 \in 1 .. Len(q) /\ (m - 1) + 1 = m
    BY <1>1, <2>1
  <2>3. q[m - 1] = p[m]
    BY <1>2, <2>2
  <2> QED BY <2>1, <2>2, <2>3 DEF Bytes
<1>6. f \in [Bytes(q) -> S] /\ (\A m, n \in Bytes(q) : f[m] = f[n] => m = n)
      /\ \A m \in S : \E n \in Bytes(q) : f[n] = m
  <2> HIDE DEF S
  <2>1. f \in [Bytes(q) -> S]
    BY <1>4
  <2>2. \A m, n \in Bytes(q) : f[m] = f[n] => m = n
    BY <1>4
  <2>3. \A m \in S : \E n \in Bytes(q) : f[n] = m
    BY <1>5
  <2> QED BY <2>1, <2>2, <2>3
<1> HIDE DEF f, S
<1>7. ExistsBijection(Bytes(q), S)
  BY <1>6, Fun_IsBij, Fun_ExistsBij
<1>8. Cardinality(Bytes(q)) = Cardinality(S)
  BY <1>1, <1>3, <1>7, BytesFinite, FS_Bijection
<1> QED BY <1>1, <1>3, <1>8 DEF q

-----------------------------------------------------------------------------
(* What the counting parts of the invariant count.                         *)

LiveSet == {f \in Fds : Live(f)}
MarkedSet == {t \in Threads : pc[t].at \in {"close", "allow", "count"}}
Writers(w) == {t \in {Main, Side} : pc[t].at = "write" /\ pc[t].to = w}

\* Where a thread is in conn_close.
LEMMA StageIs ==
    ASSUME PlacesOK, NEW t \in Threads
    PROVE  /\ Marked(t) <=> pc[t].at \in {"close", "allow", "count"}
           /\ Closing(t) =>
                /\ StageOf(t) = Len(CloseOrder(t)) <=> pc[t].at = "count"
                /\ pc[t].at # "count" =>
                      CloseOrder(t)[StageOf(t) + 1] =
                         IF pc[t].at = "mark" THEN "close"
                         ELSE IF pc[t].at = "close" /\ t # Side THEN "allow" ELSE "count"
           /\ CloseOrder(t)[1] = "mark"
<1>1. CASE ~Closing(t)
  BY <1>1 DEF Marked, Closing, CloseOrder
<1>2. CASE Closing(t) /\ t = Side
  <2>1. /\ CloseOrder(t) = <<"mark", "close", "count">> /\ Len(CloseOrder(t)) = 3
        /\ CloseOrder(t)[1] = "mark" /\ CloseOrder(t)[2] = "close" /\ CloseOrder(t)[3] = "count"
        /\ pc[t].at \in {"mark", "close", "count"}
    BY <1>2 DEF CloseOrder, Closing, PlacesOK
  <2>2. StageOf(t) \in 1 .. 3 /\ CloseOrder(t)[StageOf(t)] = pc[t].at
    <3>1. \E n \in 1 .. Len(CloseOrder(t)) : CloseOrder(t)[n] = pc[t].at
      BY <2>1
    <3> QED BY <2>1, <3>1 DEF StageOf
  <2>3. StageOf(t) = (IF pc[t].at = "mark" THEN 1 ELSE IF pc[t].at = "close" THEN 2 ELSE 3)
    BY <2>1, <2>2
  <2>4. Marked(t) <=> StageOf(t) # 1
    BY <1>2, <2>1, <2>3 DEF Marked
  <2> QED BY <1>2, <2>1, <2>3, <2>4
<1>3. CASE Closing(t) /\ t # Side
  <2>1. /\ CloseOrder(t) = <<"mark", "close", "allow", "count">> /\ Len(CloseOrder(t)) = 4
        /\ CloseOrder(t)[1] = "mark" /\ CloseOrder(t)[2] = "close" /\ CloseOrder(t)[3] = "allow"
        /\ CloseOrder(t)[4] = "count" /\ pc[t].at \in {"mark", "close", "allow", "count"}
    BY <1>3 DEF CloseOrder, Closing
  <2>2. StageOf(t) \in 1 .. 4 /\ CloseOrder(t)[StageOf(t)] = pc[t].at
    <3>1. \E n \in 1 .. Len(CloseOrder(t)) : CloseOrder(t)[n] = pc[t].at
      BY <2>1
    <3> QED BY <2>1, <3>1 DEF StageOf
  <2>3. StageOf(t) = (IF pc[t].at = "mark" THEN 1 ELSE IF pc[t].at = "close" THEN 2
                      ELSE IF pc[t].at = "allow" THEN 3 ELSE 4)
    BY <2>1, <2>2
  <2>4. Marked(t) <=> StageOf(t) # 1
    BY <1>3, <2>1, <2>3 DEF Marked
  <2> QED BY <1>3, <2>1, <2>3, <2>4
<1> QED BY <1>1, <1>2, <1>3

LEMMA CountedIs ==
    PlacesOK => (ConnsCounted <=> curr_conns = uncounted + Cardinality(LiveSet) + Cardinality(MarkedSet))
<1> SUFFICES ASSUME PlacesOK
             PROVE  ConnsCounted <=> curr_conns = uncounted + Cardinality(LiveSet) + Cardinality(MarkedSet)
  OBVIOUS
<1>1. {t \in Threads : Marked(t)} = MarkedSet
  BY StageIs DEF MarkedSet
<1> QED BY <1>1 DEF ConnsCounted, LiveSet

LEMMA CountedIsNext ==
    PlacesOK' => (ConnsCounted' <=> curr_conns' = uncounted' + Cardinality(LiveSet') + Cardinality(MarkedSet'))
<1>1. (PlacesOK => (ConnsCounted <=> curr_conns = uncounted + Cardinality(LiveSet) + Cardinality(MarkedSet)))'
  BY CountedIs, PTL
<1> QED BY <1>1

LEMMA AnnouncedIs ==
    ItemsAnnounced <=>
        (race = "none" => \A w \in Workers :
            Len(queue[w]) = Cardinality(Bytes(pipe[w])) + Cardinality(Writers(w)))
BY DEF ItemsAnnounced, Bytes, Writers

LEMMA AnnouncedIsNext ==
    ItemsAnnounced' <=>
        (race' = "none" => \A w \in Workers :
            Len(queue'[w]) = Cardinality(Bytes(pipe'[w])) + Cardinality(Writers(w)'))
<1>1. (ItemsAnnounced <=>
        (race = "none" => \A w \in Workers :
            Len(queue[w]) = Cardinality(Bytes(pipe[w])) + Cardinality(Writers(w))))'
  BY AnnouncedIs, PTL
<1> QED BY <1>1 DEF Bytes

LEMMA SetsFinite ==
    /\ IsFiniteSet(LiveSet) /\ IsFiniteSet(MarkedSet) /\ IsFiniteSet(Threads)
    /\ \A w : IsFiniteSet(Writers(w)) /\ Cardinality(Writers(w)) \in Nat
<1>1. IsFiniteSet(LiveSet)
  BY DispatchAssumption, FS_Subset DEF LiveSet
<1>2. IsFiniteSet({Main}) /\ IsFiniteSet({Side}) /\ {Main, Side} = {Main} \cup {Side}
  BY FS_Singleton
<1>3. IsFiniteSet({Main, Side})
  BY <1>2, FS_Union
<1>4. IsFiniteSet(Threads)
  BY <1>3, DispatchAssumption, FS_Union DEF Threads
<1>5. IsFiniteSet(MarkedSet)
  BY <1>4, FS_Subset DEF MarkedSet
<1>6. ASSUME NEW w PROVE IsFiniteSet(Writers(w)) /\ Cardinality(Writers(w)) \in Nat
  <2>1. Writers(w) \subseteq {Main, Side}
    BY DEF Writers
  <2> QED BY <1>3, <2>1, FS_Subset, FS_CardinalityType
<1> QED BY <1>1, <1>4, <1>5, <1>6

\* A step that changes the state of f's connection and the place of t, at most.
LEMMA CountedChange ==
    ASSUME IInv, PlacesOK', NEW f, NEW t, uncounted' \in Nat, curr_conns' \in Int,
           \A g \in Fds \ {f} : conns'[g].state = conns[g].state,
           \A s \in Threads \ {t} : pc'[s].at = pc[s].at,
           curr_conns' - uncounted' =
              curr_conns - uncounted
                - (IF f \in LiveSet THEN 1 ELSE 0) + (IF f \in LiveSet' THEN 1 ELSE 0)
                - (IF t \in MarkedSet THEN 1 ELSE 0) + (IF t \in MarkedSet' THEN 1 ELSE 0)
    PROVE  ConnsCounted' /\ curr_conns' \in Nat
<1>1. LiveSet \ {f} = LiveSet' \ {f}
  BY DEF LiveSet, Live
<1>2. MarkedSet \ {t} = MarkedSet' \ {t}
  BY DEF MarkedSet
<1>3. /\ Cardinality(LiveSet) \in Nat /\ Cardinality(LiveSet') \in Nat
      /\ Cardinality(LiveSet') = Cardinality(LiveSet) - (IF f \in LiveSet THEN 1 ELSE 0)
                                  + (IF f \in LiveSet' THEN 1 ELSE 0)
  BY <1>1, SetsFinite, CountOne
<1>4. /\ Cardinality(MarkedSet) \in Nat /\ Cardinality(MarkedSet') \in Nat
      /\ Cardinality(MarkedSet') = Cardinality(MarkedSet) - (IF t \in MarkedSet THEN 1 ELSE 0)
                                  + (IF t \in MarkedSet' THEN 1 ELSE 0)
  BY <1>2, SetsFinite, CountOne
<1>5. curr_conns = uncounted + Cardinality(LiveSet) + Cardinality(MarkedSet) /\ uncounted \in Nat
  BY CountedIs DEF IInv, TypesOK
<1> DEFINE a == IF f \in LiveSet THEN 1 ELSE 0
           b == IF f \in LiveSet' THEN 1 ELSE 0
           c == IF t \in MarkedSet THEN 1 ELSE 0
           d == IF t \in MarkedSet' THEN 1 ELSE 0
<1>a. a \in Int /\ b \in Int /\ c \in Int /\ d \in Int
  OBVIOUS
<1>b. /\ curr_conns' - uncounted' = curr_conns - uncounted - a + b - c + d
      /\ Cardinality(LiveSet') = Cardinality(LiveSet) - a + b
      /\ Cardinality(MarkedSet') = Cardinality(MarkedSet) - c + d
  BY <1>3, <1>4
<1> HIDE DEF a, b, c, d
<1> DEFINE L == Cardinality(LiveSet)
           Ln == Cardinality(LiveSet')
           M == Cardinality(MarkedSet)
           Mn == Cardinality(MarkedSet')
<1>c. /\ L \in Nat /\ Ln \in Nat /\ M \in Nat /\ Mn \in Nat /\ uncounted' \in Nat /\ curr_conns' \in Int
      /\ Ln = L - a + b /\ Mn = M - c + d /\ curr_conns = uncounted + L + M
  BY <1>3, <1>4, <1>5, <1>b
<1> HIDE DEF L, Ln, M, Mn
<1>d. curr_conns' = uncounted' + Ln + Mn
  BY <1>a, <1>b, <1>c, <1>5
<1> USE DEF L, Ln, M, Mn
<1>6. curr_conns' = uncounted' + Cardinality(LiveSet') + Cardinality(MarkedSet')
  BY <1>d
<1>7. curr_conns' \in Nat
  BY <1>3, <1>4, <1>5, <1>6
<1> QED BY <1>6, <1>7, CountedIsNext

\* A step that changes neither.
LEMMA CountedStays ==
    ASSUME IInv, PlacesOK', UNCHANGED <<curr_conns, uncounted>>,
           \A g \in Fds : Live(g)' <=> Live(g),
           \A s \in Threads : pc'[s].at \in {"close", "allow", "count"} <=> pc[s].at \in {"close", "allow", "count"}
    PROVE  ConnsCounted'
<1>1. LiveSet' = LiveSet /\ MarkedSet' = MarkedSet
  BY DEF LiveSet, MarkedSet
<1> QED BY <1>1, CountedIs, CountedIsNext DEF IInv

LEMMA AnnouncedStays ==
    ASSUME IInv, race = "none", UNCHANGED <<queue, pipe>>,
           \A t \in {Main, Side} : (pc'[t].at = "write" \/ pc[t].at = "write") =>
              pc'[t].at = pc[t].at /\ pc'[t].to = pc[t].to
    PROVE  ItemsAnnounced'
<1>1. \A w : Writers(w)' = Writers(w)
  BY DEF Writers
<1> QED BY <1>1, AnnouncedIs, AnnouncedIsNext DEF IInv

\* No descriptor changes hands.
LEMMA OwnStays ==
    ASSUME IInv, UNCHANGED <<fds, queue>>,
           \A f \in Fds : conns'[f].state = conns[f].state /\ conns'[f].thread = conns[f].thread,
           \A t \in Threads :
              /\ pc'[t].at \in {"push", "close"} \/ pc[t].at \in {"push", "close"} => pc'[t] = pc[t]
              /\ pc'[t].at = "mark" =>
                    /\ pc'[t].fd \in Fds /\ conns[pc'[t].fd].state = (IF t = Side THEN "watch" ELSE "read")
                    /\ t # Side => conns[pc'[t].fd].thread = t
    PROVE  OwnOK'
<1>0. /\ QueueOnce /\ QueueOK /\ TakesOK /\ LiveOK /\ NoneForgotten
      /\ queue \in [Workers -> Seq(Item)] /\ fds \in SUBSET Fds
  BY DEF IInv, OwnOK, TypesOK
<1>1. \A w \in Workers : \A n \in 1 .. Len(queue[w]) : queue[w][n].fd \in Fds
  BY <1>0 DEF QueueOK
<1>2. \A f \in Fds : Live(f)' <=> Live(f)
  BY DEF Live
<1>3. \A t \in Threads : (Takes(t)' <=> Takes(t)) /\ (Takes(t) => pc'[t] = pc[t])
  BY DEF Takes
<1>4. QueueOnce'
  BY <1>0 DEF QueueOnce
<1>5. QueueOK'
  BY <1>0, <1>1, <1>2, <1>3 DEF QueueOK
<1>6. TakesOK'
  BY <1>0, <1>2, <1>3 DEF TakesOK
<1>7. MarkOK'
  BY DEF MarkOK
<1>8. LiveOK'
  BY <1>0, <1>2 DEF LiveOK
<1>9. NoneForgotten'
  BY <1>0, <1>3 DEF NoneForgotten, InQueue
<1> QED BY <1>4, <1>5, <1>6, <1>7, <1>8, <1>9 DEF OwnOK

-----------------------------------------------------------------------------
(* What a step changes.                                                    *)

Served == {"read", "watch", "queued"}

\* Thread t goes on with d.
LEMMA ThreadGoes ==
    ASSUME IInv, NEW t \in Threads, NEW d \in Doing, pc' = [pc EXCEPT ![t] = d]
    PROVE  /\ pc' \in [Threads -> Doing] /\ pc'[t] = d
           /\ \A s \in Threads \ {t} : pc'[s] = pc[s]
BY DEF IInv, TypesOK

LEMMA ThreadsAre ==
    /\ Main \in Threads /\ Side \in Threads /\ Main # Side
    /\ \A w \in Workers : w \in Threads /\ w # Main /\ w # Side
    /\ \A t \in Threads : t = Main \/ t = Side \/ t \in Workers
BY ThreadsAssumption DEF Threads, Main, Side

LEMMA PlacesAfter ==
    ASSUME IInv, NEW t \in Threads, NEW d \in Doing, pc' = [pc EXCEPT ![t] = d],
           d.at \in {"push", "write"} => d.to \in Workers,
           t = Main => d.at \in {"loop", "push", "write", "refuse"},
           t = Side => d.at \in {"loop", "write", "mark", "close", "count"},
           t \in Workers => d.at \in {"loop", "mark", "close", "allow", "count"}
    PROVE  PlacesOK'
<1>1. pc'[t] = d /\ \A s \in Threads \ {t} : pc'[s] = pc[s]
  BY ThreadGoes
<1>2. PlacesOK
  BY DEF IInv
<1>3. pc'[Main].at \in {"loop", "push", "write", "refuse"}
  BY <1>1, <1>2, ThreadsAre DEF PlacesOK
<1>4. pc'[Side].at \in {"loop", "write", "mark", "close", "count"}
  BY <1>1, <1>2, ThreadsAre DEF PlacesOK
<1>5. \A w \in Workers : pc'[w].at \in {"loop", "mark", "close", "allow", "count"}
  BY <1>1, <1>2, ThreadsAre DEF PlacesOK
<1>6. \A s \in Threads : pc'[s].at \in {"push", "write"} => pc'[s].to \in Workers
  BY <1>1, <1>2 DEF PlacesOK
<1> QED BY <1>3, <1>4, <1>5, <1>6 DEF PlacesOK

LEMMA LoopIs == Loop \in Doing /\ Loop.at = "loop" /\ Loop.fd = NoFd
BY DEF Loop, Doing

\* One of the two threads that dispatch goes on.
LEMMA WritersOne ==
    ASSUME NEW t \in {Main, Side}, NEW w, \A s \in {Main, Side} \ {t} : pc'[s] = pc[s]
    PROVE  /\ Cardinality(Writers(w)) \in Nat /\ Cardinality(Writers(w)') \in Nat
           /\ Cardinality(Writers(w)') =
                Cardinality(Writers(w)) - (IF pc[t].at = "write" /\ pc[t].to = w THEN 1 ELSE 0)
                  + (IF pc'[t].at = "write" /\ pc'[t].to = w THEN 1 ELSE 0)
<1> DEFINE A == Writers(w)
           B == Writers(w)'
<1>1. A \ {t} = B \ {t}
  BY DEF Writers
<1>2. /\ t \in A <=> pc[t].at = "write" /\ pc[t].to = w
      /\ t \in B <=> pc'[t].at = "write" /\ pc'[t].to = w
  BY DEF Writers
<1>3. IsFiniteSet(A)
  BY SetsFinite
<1> HIDE DEF A, B
<1>4. /\ Cardinality(A) \in Nat /\ Cardinality(B) \in Nat
      /\ Cardinality(B) = Cardinality(A) - (IF t \in A THEN 1 ELSE 0) + (IF t \in B THEN 1 ELSE 0)
  BY <1>1, <1>3, CountOne
<1>5. Cardinality(B) = Cardinality(A) - (IF pc[t].at = "write" /\ pc[t].to = w THEN 1 ELSE 0)
                  + (IF pc'[t].at = "write" /\ pc'[t].to = w THEN 1 ELSE 0)
  BY <1>2, <1>4
<1> QED BY <1>4, <1>5 DEF A, B

\* An item at the end of a queue.
LEMMA QueueAppended ==
    ASSUME IInv, NEW w \in Workers, NEW x \in Item, ~InQueue(x.fd),
           queue' = [queue EXCEPT ![w] = Append(@, x)]
    PROVE  /\ queue' \in [Workers -> Seq(Item)] /\ QueueOnce'
           /\ Len(queue'[w]) = Len(queue[w]) + 1 /\ \A v \in Workers \ {w} : queue'[v] = queue[v]
           /\ \A v \in Workers : \A n \in 1 .. Len(queue'[v]) :
                 \/ queue'[v][n] = x
                 \/ \E m \in 1 .. Len(queue[v]) : queue[v][m] = queue'[v][n]
           /\ \A g : InQueue(g) => InQueue(g)'
           /\ InQueue(x.fd)'
<1> DEFINE l == Len(queue[w]) + 1
<1>1. /\ queue \in [Workers -> Seq(Item)] /\ queue' \in [Workers -> Seq(Item)] /\ QueueOnce
      /\ \A v \in Workers : Len(queue[v]) \in Nat
  BY DEF IInv, TypesOK, OwnOK
<1>2. queue'[w] = Append(queue[w], x) /\ \A v \in Workers \ {w} : queue'[v] = queue[v]
  BY <1>1
<1>3. /\ Len(queue'[w]) = l /\ queue'[w][l] = x /\ l \in 1 .. l
      /\ \A n \in 1 .. Len(queue[w]) : n \in 1 .. l /\ queue'[w][n] = queue[w][n] /\ n # l
      /\ \A n \in 1 .. l : n = l \/ n \in 1 .. Len(queue[w])
  BY <1>1, <1>2
<1> HIDE DEF l
<1>4. \A v \in Workers : \A n \in 1 .. Len(queue'[v]) :
         \/ v = w /\ n = l /\ queue'[v][n] = x
         \/ n \in 1 .. Len(queue[v]) /\ queue[v][n] = queue'[v][n]
  BY <1>2, <1>3
<1>5. \A v \in Workers : \A n \in 1 .. Len(queue[v]) : n \in 1 .. Len(queue'[v]) /\ queue[v][n] = queue'[v][n]
  BY <1>2, <1>3
<1>6. \A v \in Workers : \A n \in 1 .. Len(queue[v]) : queue[v][n].fd # x.fd
  BY DEF InQueue
<1>7. QueueOnce'
  <2> SUFFICES ASSUME NEW u \in Workers, NEW v \in Workers, NEW m \in 1 .. Len(queue'[u]), NEW n \in 1 .. Len(queue'[v]),
                      queue'[u][m].fd = queue'[v][n].fd
               PROVE  u = v /\ m = n
    BY DEF QueueOnce
  <2>1. CASE m \in 1 .. Len(queue[u]) /\ queue[u][m] = queue'[u][m]
    <3>1. n \in 1 .. Len(queue[v]) /\ queue[v][n] = queue'[v][n]
      BY <1>4, <1>6, <2>1
    <3> QED BY <1>1, <2>1, <3>1 DEF QueueOnce
  <2>2. CASE u = w /\ m = l /\ queue'[u][m] = x
    <3>1. v = w /\ n = l
      BY <1>4, <1>6, <2>2
    <3> QED BY <2>2, <3>1
  <2> QED BY <1>4, <2>1, <2>2
<1>8. \A g : InQueue(g) => InQueue(g)'
  BY <1>5 DEF InQueue
<1>9. InQueue(x.fd)'
  BY <1>3 DEF InQueue
<1>10. Len(queue'[w]) = Len(queue[w]) + 1
  BY <1>3 DEF l
<1>11. \A v \in Workers : \A n \in 1 .. Len(queue'[v]) :
          queue'[v][n] = x \/ \E m \in 1 .. Len(queue[v]) : queue[v][m] = queue'[v][n]
  BY <1>4
<1> QED BY <1>1, <1>2, <1>7, <1>8, <1>9, <1>10, <1>11

\* The head of a queue is taken.
LEMMA QueueTaken ==
    ASSUME IInv, NEW w \in Workers, queue[w] # <<>>, queue' = [queue EXCEPT ![w] = Tail(@)]
    PROVE  /\ queue' \in [Workers -> Seq(Item)] /\ QueueOnce'
           /\ Len(queue'[w]) = Len(queue[w]) - 1 /\ \A v \in Workers \ {w} : queue'[v] = queue[v]
           /\ Len(queue[w]) \in Nat /\ 1 \in 1 .. Len(queue[w]) /\ Head(queue[w]) = queue[w][1]
           /\ Head(queue[w]) \in Item
           /\ \A v \in Workers : \A n \in 1 .. Len(queue'[v]) :
                 /\ \E m \in 1 .. Len(queue[v]) : queue[v][m] = queue'[v][n]
                 /\ queue'[v][n].fd # Head(queue[w]).fd
           /\ \A g : InQueue(g) => InQueue(g)' \/ g = Head(queue[w]).fd
<1> DEFINE h == Head(queue[w])
           q == queue[w]
<1>1. /\ queue \in [Workers -> Seq(Item)] /\ queue' \in [Workers -> Seq(Item)] /\ QueueOnce
  BY DEF IInv, TypesOK, OwnOK
<1>2. queue'[w] = Tail(q) /\ \A v \in Workers \ {w} : queue'[v] = queue[v]
  BY <1>1
<1>3. /\ Len(queue'[w]) = Len(q) - 1 /\ Len(q) \in Nat /\ 1 \in 1 .. Len(q) /\ h = q[1] /\ h \in Item
      /\ \A n \in 1 .. Len(queue'[w]) : n + 1 \in 1 .. Len(q) /\ queue'[w][n] = q[n + 1] /\ n + 1 # 1 /\ n \in Int
  BY <1>1, <1>2
<1>4. \A n \in 1 .. Len(q) : n = 1 \/ (n - 1 \in 1 .. Len(queue'[w]) /\ queue'[w][n - 1] = q[n])
  <2> SUFFICES ASSUME NEW n \in 1 .. Len(q), n # 1
               PROVE  n - 1 \in 1 .. Len(queue'[w]) /\ queue'[w][n - 1] = q[n]
    OBVIOUS
  <2>1. n - 1 \in 1 .. Len(queue'[w]) /\ (n - 1) + 1 = n
    BY <1>3
  <2> QED BY <1>3, <2>1
<1>5. \A v \in Workers \ {w} : \A n \in 1 .. Len(queue[v]) : queue[v][n].fd # h.fd
  BY <1>1, <1>3 DEF QueueOnce
<1>6. \A n \in 1 .. Len(queue'[w]) : queue'[w][n].fd # h.fd
  BY <1>1, <1>3 DEF QueueOnce
<1>7. QueueOnce'
  <2> SUFFICES ASSUME NEW u \in Workers, NEW v \in Workers, NEW m \in 1 .. Len(queue'[u]), NEW n \in 1 .. Len(queue'[v]),
                      queue'[u][m].fd = queue'[v][n].fd
               PROVE  u = v /\ m = n
    BY DEF QueueOnce
  <2>0. \A a, b \in Workers : \A i \in 1 .. Len(queue[a]), j \in 1 .. Len(queue[b]) :
            queue[a][i].fd = queue[b][j].fd => a = b /\ i = j
    BY <1>1 DEF QueueOnce
  <2>1. CASE u = w /\ v = w
    <3>1. /\ m + 1 \in 1 .. Len(q) /\ queue'[w][m] = q[m + 1] /\ m \in Int
          /\ n + 1 \in 1 .. Len(q) /\ queue'[w][n] = q[n + 1] /\ n \in Int
      BY <1>3, <2>1
    <3>2. q[m + 1].fd = q[n + 1].fd
      BY <2>1, <3>1
    <3>3. m + 1 = n + 1
      BY <2>0, <3>1, <3>2
    <3> QED BY <2>1, <3>1, <3>3
  <2>2. CASE u # w /\ v = w
    <3>1. n + 1 \in 1 .. Len(q) /\ queue'[w][n] = q[n + 1] /\ m \in 1 .. Len(queue[u]) /\ queue'[u][m] = queue[u][m]
      BY <1>2, <1>3, <2>2
    <3> QED BY <2>0, <2>2, <3>1
  <2>3. CASE u = w /\ v # w
    <3>1. m + 1 \in 1 .. Len(q) /\ queue'[w][m] = q[m + 1] /\ n \in 1 .. Len(queue[v]) /\ queue'[v][n] = queue[v][n]
      BY <1>2, <1>3, <2>3
    <3> QED BY <2>0, <2>3, <3>1
  <2>4. CASE u # w /\ v # w
    <3>1. m \in 1 .. Len(queue[u]) /\ queue'[u][m] = queue[u][m] /\ n \in 1 .. Len(queue[v]) /\ queue'[v][n] = queue[v][n]
      BY <1>2, <2>4
    <3> QED BY <2>0, <3>1
  <2> QED BY <2>1, <2>2, <2>3, <2>4
<1>8. \A v \in Workers : \A n \in 1 .. Len(queue'[v]) :
         (\E m \in 1 .. Len(queue[v]) : queue[v][m] = queue'[v][n]) /\ queue'[v][n].fd # h.fd
  BY <1>2, <1>3, <1>5, <1>6
<1>9. ASSUME NEW g, InQueue(g), g # h.fd PROVE InQueue(g)'
  <2>0. PICK v \in Workers : \E n \in 1 .. Len(queue[v]) : queue[v][n].fd = g
    BY <1>9 DEF InQueue
  <2>1. PICK n \in 1 .. Len(queue[v]) : queue[v][n].fd = g
    BY <2>0
  <2>2. CASE v = w
    <3>1. n - 1 \in 1 .. Len(queue'[w]) /\ queue'[w][n - 1] = q[n]
      BY <1>3, <1>4, <1>9, <2>1, <2>2
    <3> QED BY <2>1, <2>2, <3>1 DEF InQueue
  <2>3. CASE v # w
    BY <1>2, <2>1, <2>3 DEF InQueue
  <2> QED BY <2>2, <2>3
<1> QED BY <1>1, <1>2, <1>3, <1>7, <1>8, <1>9

\* The descriptor f changes hands, and nothing else does.
LEMMA OwnMoves ==
    ASSUME IInv, NEW f, QueueOnce', fds' \in SUBSET Fds, queue' \in [Workers -> Seq(Item)],
           \A g \in Fds : g # f => /\ conns'[g].state = conns[g].state /\ conns'[g].thread = conns[g].thread
                                   /\ g \in fds' <=> g \in fds,
           \A v \in Workers : \A n \in 1 .. Len(queue'[v]) :
              IF queue'[v][n].fd = f
                THEN /\ f \in fds'
                     /\ IF queue'[v][n].kind = "new" THEN ~Live(f)' ELSE conns'[f].state = "queued"
                     /\ \A t \in Threads : Takes(t)' => pc'[t].fd # f
                ELSE \E m \in 1 .. Len(queue[v]) : queue[v][m] = queue'[v][n],
           \A g \in fds' : g # f /\ InQueue(g) => InQueue(g)',
           \A t \in Threads :
              /\ (Takes(t)' /\ pc'[t].fd # f) \/ (Takes(t) /\ pc[t].fd # f) => pc'[t] = pc[t]
              /\ Takes(t)' /\ pc'[t].fd = f =>
                   /\ f \in fds' /\ ~Live(f)'
                   /\ pc'[t].at = "close" => conns'[f].state = "closed"
                   /\ \A s \in Threads : Takes(s)' /\ pc'[s].fd = f => s = t
              /\ pc'[t].at = "mark" => pc'[t] = pc[t] /\ pc[t].fd # f,
           Live(f)' => f \in fds' /\ conns'[f].thread \in Workers,
           f \in fds' => \/ conns'[f].state \in {"read", "watch"} \/ InQueue(f)'
                         \/ \E t \in Threads : Takes(t)' /\ pc'[t].fd = f
    PROVE  OwnOK'
<1>0. /\ QueueOnce /\ QueueOK /\ TakesOK /\ MarkOK /\ LiveOK /\ NoneForgotten
      /\ queue \in [Workers -> Seq(Item)] /\ fds \in SUBSET Fds
  BY DEF IInv, OwnOK, TypesOK
<1>1. \A g \in Fds : g # f => (Live(g)' <=> Live(g))
  BY DEF Live
<1>2. QueueOK'
  <2> SUFFICES ASSUME NEW v \in Workers, NEW n \in 1 .. Len(queue'[v])
               PROVE  /\ queue'[v][n].fd \in fds'
                      /\ IF queue'[v][n].kind = "new" THEN conns'[queue'[v][n].fd].state \notin Served ELSE conns'[queue'[v][n].fd].state = "queued"
                      /\ \A t \in Threads : Takes(t)' => pc'[t].fd # queue'[v][n].fd
    BY DEF QueueOK, Live, Served
  <2>1. CASE queue'[v][n].fd = f
    BY <2>1 DEF Live, Served
  <2>2. CASE queue'[v][n].fd # f
    <3> DEFINE g == queue'[v][n].fd
    <3>1. PICK m \in 1 .. Len(queue[v]) : queue[v][m] = queue'[v][n]
      BY <2>2
    <3>2. /\ g \in fds /\ g \in Fds
          /\ IF queue[v][m].kind = "new" THEN ~Live(g) ELSE conns[g].state = "queued"
          /\ \A t \in Threads : Takes(t) => pc[t].fd # g
      BY <1>0, <3>1 DEF QueueOK
    <3>3. g \in fds' /\ conns'[g].state = conns[g].state
      BY <2>2, <3>2
    <3>4. \A t \in Threads : Takes(t)' => pc'[t].fd # g
      BY <2>2, <3>2 DEF Takes
    <3> QED BY <3>1, <3>2, <3>3, <3>4 DEF Live, Served
  <2> QED BY <2>1, <2>2
<1>3. TakesOK'
  <2> SUFFICES ASSUME NEW t \in Threads, Takes(t)'
               PROVE  /\ pc'[t].fd \in fds' /\ conns'[pc'[t].fd].state \notin Served
                      /\ pc'[t].at = "close" => conns'[pc'[t].fd].state = "closed"
                      /\ \A s \in Threads : Takes(s)' /\ pc'[s].fd = pc'[t].fd => s = t
    BY DEF TakesOK, Live, Served
  <2>1. CASE pc'[t].fd = f
    BY <2>1 DEF Live, Served
  <2>2. CASE pc'[t].fd # f
    <3>1. pc'[t] = pc[t] /\ Takes(t)
      BY <2>2 DEF Takes
    <3>2. /\ pc[t].fd \in fds /\ ~Live(pc[t].fd) /\ pc[t].fd \in Fds
          /\ pc[t].at = "close" => conns[pc[t].fd].state = "closed"
          /\ \A s \in Threads : Takes(s) /\ pc[s].fd = pc[t].fd => s = t
      BY <1>0, <3>1 DEF TakesOK
    <3>3. \A s \in Threads : Takes(s)' /\ pc'[s].fd = pc'[t].fd => Takes(s) /\ pc[s].fd = pc[t].fd
      BY <2>2, <3>1 DEF Takes
    <3>4. pc'[t].fd \in fds' /\ conns'[pc'[t].fd].state \notin Served /\ conns'[pc[t].fd].state = conns[pc[t].fd].state
      BY <2>2, <3>1, <3>2 DEF Live, Served
    <3> QED BY <3>1, <3>2, <3>3, <3>4
  <2> QED BY <2>1, <2>2
<1>4. MarkOK'
  BY <1>0 DEF MarkOK
<1>5. LiveOK'
  BY <1>0, <1>1 DEF LiveOK, Live
<1>6. NoneForgotten'
  <2> SUFFICES ASSUME NEW g \in fds'
               PROVE  \/ conns'[g].state \in {"read", "watch"} \/ InQueue(g)'
                      \/ \E t \in Threads : Takes(t)' /\ pc'[t].fd = g
    BY DEF NoneForgotten, InQueue
  <2>1. CASE g = f
    BY <2>1 DEF InQueue
  <2>2. CASE g # f
    <3>1. g \in fds /\ g \in Fds /\ conns'[g].state = conns[g].state
      BY <2>2
    <3>2. \A t \in Threads : Takes(t) /\ pc[t].fd = g => Takes(t)' /\ pc'[t].fd = g
      BY <2>2 DEF Takes
    <3> QED BY <1>0, <2>2, <3>1, <3>2 DEF NoneForgotten
  <2> QED BY <2>1, <2>2
<1> QED BY <1>2, <1>3, <1>4, <1>5, <1>6 DEF OwnOK

-----------------------------------------------------------------------------
(* The steps that move no descriptor.                                      *)

LEMMA Quiet ==
    ASSUME IInv, race = "none", UNCHANGED <<fds, queue, curr_conns, uncounted, last_thread>>,
           cursor' \in SUBSET Fds, clients' \in Nat, current_time' \in Nat, race' \in {"none", "mixed", "stray"},
           conns' \in [Fds -> Conn],
           \A f \in Fds : conns'[f].state = conns[f].state /\ conns'[f].thread = conns[f].thread,
           pipe' \in [Workers -> Seq(Msg)], \A w \in Workers : Len(pipe'[w]) <= PipeSize,
           race' = "none" => \A w \in Workers : Cardinality(Bytes(pipe'[w])) = Cardinality(Bytes(pipe[w])),
           NEW t \in Threads, NEW d \in Doing, pc' = [pc EXCEPT ![t] = d],
           \/ d = pc[t]
           \/ /\ pc[t].at \in {"loop", "refuse"}
              /\ \/ d.at = "loop"
                 \/ d.at = "refuse" /\ t = Main
                 \/ /\ d.at = "mark" /\ t # Main /\ d.fd \in Fds
                    /\ conns[d.fd].state = (IF t = Side THEN "watch" ELSE "read")
                    /\ t # Side => conns[d.fd].thread = t
    PROVE  IInv'
<1>1. /\ pc' \in [Threads -> Doing] /\ pc'[t] = d
      /\ \A s \in Threads \ {t} : pc'[s] = pc[s]
  BY ThreadGoes
<1>2. TypesOK /\ PlacesOK /\ MarkOK
  BY DEF IInv, OwnOK
<1>3. TypesOK'
  BY <1>1, <1>2 DEF TypesOK
<1>4. PlacesOK'
  <2>1. CASE d = pc[t]
    <3>1. pc' = pc
      BY <1>2, <2>1 DEF TypesOK
    <3> QED BY <1>2, <3>1 DEF PlacesOK
  <2>2. CASE d # pc[t]
    <3>1. /\ d.at \notin {"push", "write"} /\ t = Main => d.at \in {"loop", "push", "write", "refuse"}
          /\ t = Side => d.at \in {"loop", "write", "mark", "close", "count"}
          /\ t \in Workers => d.at \in {"loop", "mark", "close", "allow", "count"}
      BY <2>2, ThreadsAre
    <3> QED BY <3>1, PlacesAfter, <2>2
  <2> QED BY <2>1, <2>2
<1>5. \A s \in Threads :
        /\ pc'[s].at \in {"push", "close", "allow", "count", "write"} \/ pc[s].at \in {"push", "close", "allow", "count", "write"}
             => pc'[s] = pc[s]
        /\ pc'[s].at = "mark" =>
             /\ pc'[s].fd \in Fds /\ conns[pc'[s].fd].state = (IF s = Side THEN "watch" ELSE "read")
             /\ s # Side => conns[pc'[s].fd].thread = s
  <2> SUFFICES ASSUME NEW s \in Threads
               PROVE
        /\ pc'[s].at \in {"push", "close", "allow", "count", "write"} \/ pc[s].at \in {"push", "close", "allow", "count", "write"}
             => pc'[s] = pc[s]
        /\ pc'[s].at = "mark" =>
             /\ pc'[s].fd \in Fds /\ conns[pc'[s].fd].state = (IF s = Side THEN "watch" ELSE "read")
             /\ s # Side => conns[pc'[s].fd].thread = s
    OBVIOUS
  <2>1. CASE s = t /\ d # pc[t]
    BY <1>1, <2>1
  <2>2. CASE s # t \/ d = pc[t]
    <3>1. pc'[s] = pc[s]
      BY <1>1, <2>2
    <3> QED BY <1>2, <3>1 DEF MarkOK
  <2> QED BY <2>1, <2>2
<1>6. OwnOK'
  BY <1>5, OwnStays
<1>7. ConnsCounted'
  <2>1. \A g \in Fds : Live(g)' <=> Live(g)
    BY DEF Live
  <2>2. \A s \in Threads : pc'[s].at \in {"close", "allow", "count"} <=> pc[s].at \in {"close", "allow", "count"}
    BY <1>5
  <2> QED BY <1>4, <2>1, <2>2, CountedStays
<1>8. ItemsAnnounced'
  <2>1. \A w : Writers(w)' = Writers(w)
    BY <1>5, ThreadsAre DEF Writers
  <2>2. race' = "none" => \A w \in Workers : Cardinality(Bytes(pipe'[w])) = Cardinality(Bytes(pipe[w]))
    OBVIOUS
  <2>3. race' = "none" => \A w \in Workers : Len(queue'[w]) = Cardinality(Bytes(pipe'[w])) + Cardinality(Writers(w)')
    BY <2>1, <2>2, AnnouncedIs DEF IInv
  <2> QED BY <2>3, AnnouncedIsNext
<1> QED BY <1>3, <1>4, <1>6, <1>7, <1>8 DEF IInv

\* Most of the premises of that lemma when the connections and pipes stay.
LEMMA NothingMoves ==
    ASSUME IInv, UNCHANGED <<conns, pipe, pc, race>>
    PROVE  /\ conns' \in [Fds -> Conn] /\ race' \in {"none", "mixed", "stray"}
           /\ pipe' \in [Workers -> Seq(Msg)] /\ \A w \in Workers : Len(pipe'[w]) <= PipeSize
           /\ Main \in Threads /\ pc[Main] \in Doing /\ pc' = [pc EXCEPT ![Main] = pc[Main]]
BY ThreadsAre DEF IInv, TypesOK

LEMMA QuietSteps ==
    ASSUME IInv,
           maxconns_handler \/ Connect \/ Second
             \/ (Accept /\ UNCHANGED <<fds, last_thread, pc>>)
    PROVE  IInv'
<1>1. /\ race = "none" /\ UNCHANGED <<fds, queue, pipe, conns, curr_conns, uncounted, last_thread, pc, race, cursor>>
      /\ clients' \in Nat /\ current_time' \in Nat
  BY DEF IInv, TypesOK, maxconns_handler, Connect, Second, Accept, At, listener, links, table, clock
<1>2. cursor' \in SUBSET Fds
  BY <1>1 DEF IInv, TypesOK
<1>3. /\ conns' \in [Fds -> Conn] /\ race' \in {"none", "mixed", "stray"}
      /\ pipe' \in [Workers -> Seq(Msg)] /\ \A w \in Workers : Len(pipe'[w]) <= PipeSize
      /\ Main \in Threads /\ pc[Main] \in Doing /\ pc' = [pc EXCEPT ![Main] = pc[Main]]
  BY <1>1, NothingMoves
<1> QED BY <1>1, <1>2, <1>3, Quiet

LEMMA MainRefuses ==
    ASSUME IInv, AcceptFails \/ StopListening
    PROVE  IInv'
<1>1. /\ race = "none" /\ UNCHANGED <<fds, queue, pipe, conns, curr_conns, uncounted, last_thread, race, cursor, clients, current_time>>
      /\ pc[Main].at \in {"loop", "refuse"}
  BY DEF AcceptFails, StopListening, At, listener, links, table, clock
<1>2. TypesOK
  BY DEF IInv
<1>3. PICK d \in Doing : pc' = [pc EXCEPT ![Main] = d] /\ d.at \in {"loop", "refuse"}
  <2>1. [at |-> "refuse", fd |-> NoFd, to |-> NoFd] \in Doing
    BY DEF Doing
  <2>2. CASE AcceptFails
    BY <2>1, <2>2 DEF AcceptFails, Go
  <2>3. CASE StopListening
    BY <2>3, LoopIs DEF StopListening, Back
  <2> QED BY <2>2, <2>3
<1>4. /\ Main \in Threads /\ cursor' \in SUBSET Fds /\ clients' \in Nat /\ current_time' \in Nat
      /\ race' \in {"none", "mixed", "stray"} /\ conns' \in [Fds -> Conn]
      /\ pipe' \in [Workers -> Seq(Msg)] /\ \A w \in Workers : Len(pipe'[w]) <= PipeSize
  BY <1>1, <1>2, ThreadsAre DEF TypesOK
<1> QED BY <1>1, <1>3, <1>4, Quiet

LEMMA MarkIs ==
    ASSUME IInv, NEW t \in Threads, NEW f \in Fds, BeginClose(t, f)
    PROVE  \E d \in Doing : pc' = [pc EXCEPT ![t] = d] /\ d.at = "mark" /\ d.fd = f
<1>1. CloseOrder(t)[1] = "mark"
  BY StageIs DEF IInv
<1>2. [at |-> "mark", fd |-> f, to |-> NoFd] \in Doing
  BY DEF Doing
<1> QED BY <1>1, <1>2 DEF BeginClose, Go

LEMMA SideCloses ==
    ASSUME IInv, SideClose
    PROVE  IInv'
<1>1. /\ race = "none" /\ UNCHANGED <<fds, queue, pipe, conns, curr_conns, uncounted, last_thread, race, cursor, clients, current_time>>
      /\ pc[Side].at = "loop"
  BY DEF SideClose, At, listener, links, table, clock
<1>2. TypesOK
  BY DEF IInv
<1>3. PICK f \in Fds : conns[f].state = "watch" /\ BeginClose(Side, f)
  BY DEF SideClose
<1>4. PICK d \in Doing : pc' = [pc EXCEPT ![Side] = d] /\ d.at = "mark" /\ d.fd = f
  BY <1>3, MarkIs, ThreadsAre
<1>5. /\ Side \in Threads /\ Side # Main /\ cursor' \in SUBSET Fds /\ clients' \in Nat /\ current_time' \in Nat
      /\ race' \in {"none", "mixed", "stray"} /\ conns' \in [Fds -> Conn]
      /\ pipe' \in [Workers -> Seq(Msg)] /\ \A w \in Workers : Len(pipe'[w]) <= PipeSize
  BY <1>1, <1>2, ThreadsAre DEF TypesOK
<1> QED BY <1>1, <1>3, <1>4, <1>5, Quiet

\* Nobody takes the descriptor of a connection that is served, and it is in no
\* queue unless it is on its way back.
LEMMA ServedIsAlone ==
    ASSUME IInv, NEW f \in Fds, conns[f].state \in {"read", "watch"}
    PROVE  /\ f \in fds /\ conns[f].thread \in Workers /\ ~InQueue(f)
           /\ \A t \in Threads : Takes(t) => pc[t].fd # f
<1>1. /\ QueueOK /\ TakesOK /\ LiveOK
  BY DEF IInv, OwnOK
<1>2. Live(f)
  BY DEF Live
<1>3. ~InQueue(f)
  <2> SUFFICES ASSUME InQueue(f) PROVE FALSE
    OBVIOUS
  <2>1. PICK v \in Workers : \E n \in 1 .. Len(queue[v]) : queue[v][n].fd = f
    BY DEF InQueue
  <2>2. PICK n \in 1 .. Len(queue[v]) : queue[v][n].fd = f
    BY <2>1
  <2> QED BY <1>1, <1>2, <2>2 DEF QueueOK
<1> QED BY <1>1, <1>2, <1>3 DEF LiveOK, TakesOK

LEMMA ServeKeeps ==
    ASSUME IInv, NEW w \in Workers, Serve(w)
    PROVE  IInv'
<1>1. /\ race = "none" /\ pc[w].at = "loop"
      /\ UNCHANGED <<fds, queue, pipe, curr_conns, uncounted, last_thread, race, cursor, clients, current_time>>
  BY DEF Serve, At, listener, links, clock
<1>2. PICK f \in Fds :
         /\ conns[f].state = "read" /\ conns[f].thread = w
         /\ \/ /\ conns' = [conns EXCEPT ![f].last_cmd_time = current_time]
               /\ UNCHANGED pc
            \/ conns' = [conns EXCEPT ![f].state = "watch"] /\ UNCHANGED pc
            \/ BeginClose(w, f) /\ UNCHANGED conns
  BY DEF Serve
<1>3. TypesOK /\ PlacesOK /\ MarkOK /\ LiveOK
  BY DEF IInv, OwnOK
<1>4. /\ Main \in Threads /\ w \in Threads /\ w # Main /\ w # Side /\ cursor' \in SUBSET Fds /\ clients' \in Nat /\ current_time' \in Nat
      /\ race' \in {"none", "mixed", "stray"}
      /\ pipe' \in [Workers -> Seq(Msg)] /\ \A v \in Workers : Len(pipe'[v]) <= PipeSize
      /\ conns[f] \in Conn /\ pc[Main] \in Doing
  BY <1>1, <1>3, ThreadsAre DEF TypesOK
<1>5. CASE conns' = [conns EXCEPT ![f].last_cmd_time = current_time] /\ UNCHANGED pc
  <2>1. pc' = [pc EXCEPT ![Main] = pc[Main]]
    BY <1>3, <1>5 DEF TypesOK
  <2>2. conns' \in [Fds -> Conn]
    BY <1>3, <1>4, <1>5 DEF TypesOK, Conn
  <2>3. \A g \in Fds : conns'[g].state = conns[g].state /\ conns'[g].thread = conns[g].thread
    BY <1>3, <1>4, <1>5 DEF TypesOK, Conn
  <2> QED BY <1>1, <1>4, <2>1, <2>2, <2>3, Quiet
<1>6. CASE BeginClose(w, f) /\ UNCHANGED conns
  <2>1. PICK d \in Doing : pc' = [pc EXCEPT ![w] = d] /\ d.at = "mark" /\ d.fd = f
    BY <1>4, <1>6, MarkIs
  <2>2. conns' \in [Fds -> Conn]
    BY <1>3, <1>6 DEF TypesOK
  <2> QED BY <1>1, <1>2, <1>4, <1>6, <2>1, <2>2, Quiet
<1>7. CASE conns' = [conns EXCEPT ![f].state = "watch"] /\ UNCHANGED pc
  <2>1. /\ conns' \in [Fds -> Conn] /\ conns'[f].state = "watch" /\ conns'[f].thread = w
        /\ \A g \in Fds : g # f => conns'[g] = conns[g]
    BY <1>2, <1>3, <1>4, <1>7 DEF TypesOK, Conn
  <2>2. TypesOK'
    BY <1>1, <1>3, <1>4, <1>7, <2>1 DEF TypesOK
  <2>3. PlacesOK'
    BY <1>3, <1>7 DEF PlacesOK
  <2>4. ConnsCounted'
    <3>1. \A g \in Fds : Live(g)' <=> Live(g)
      BY <1>2, <2>1 DEF Live
    <3> QED BY <1>1, <1>7, <2>3, <3>1, CountedStays
  <2>5. ItemsAnnounced'
    BY <1>1, <1>7, AnnouncedStays
  <2>6. /\ f \in fds /\ ~InQueue(f) /\ \A t \in Threads : Takes(t) => pc[t].fd # f
    BY <1>2, ServedIsAlone
  <2>7. \A t \in Threads : pc[t].at = "mark" => pc[t].fd # f
    BY <1>1, <1>2, <1>3 DEF MarkOK
  <2>8. QueueOnce'
    BY <1>1 DEF QueueOnce, IInv, OwnOK
  <2>9. \A v \in Workers : \A n \in 1 .. Len(queue'[v]) : queue'[v][n].fd # f /\ \E m \in 1 .. Len(queue[v]) : queue[v][m] = queue'[v][n]
    BY <1>1, <2>6 DEF InQueue
  <2>10. \A t \in Threads : Takes(t)' <=> Takes(t)
    BY <1>7 DEF Takes
  <2>11. \A g \in fds' : InQueue(g) => InQueue(g)'
    BY <1>1 DEF InQueue
  <2>12. fds' \in SUBSET Fds /\ queue' \in [Workers -> Seq(Item)]
    BY <2>2 DEF TypesOK
  <2>13. OwnOK'
    <3>1. pc' = pc /\ fds' = fds /\ f \in fds'
      BY <1>1, <1>7, <2>6
    <3>2. \A g \in Fds : g # f => /\ conns'[g].state = conns[g].state /\ conns'[g].thread = conns[g].thread
                                  /\ g \in fds' <=> g \in fds
      BY <2>1, <3>1
    <3>3. \A v \in Workers : \A n \in 1 .. Len(queue'[v]) :
              IF queue'[v][n].fd = f
                THEN /\ f \in fds'
                     /\ IF queue'[v][n].kind = "new" THEN ~Live(f)' ELSE conns'[f].state = "queued"
                     /\ \A t \in Threads : Takes(t)' => pc'[t].fd # f
                ELSE \E m \in 1 .. Len(queue[v]) : queue[v][m] = queue'[v][n]
      BY <2>9
    <3>4. \A t \in Threads :
              /\ (Takes(t)' /\ pc'[t].fd # f) \/ (Takes(t) /\ pc[t].fd # f) => pc'[t] = pc[t]
              /\ Takes(t)' /\ pc'[t].fd = f =>
                   /\ f \in fds' /\ ~Live(f)'
                   /\ pc'[t].at = "close" => conns'[f].state = "closed"
                   /\ \A s \in Threads : Takes(s)' /\ pc'[s].fd = f => s = t
              /\ pc'[t].at = "mark" => pc'[t] = pc[t] /\ pc[t].fd # f
      BY <2>6, <2>7, <2>10, <3>1
    <3> QED BY <1>4, <2>1, <2>8, <2>11, <2>12, <3>1, <3>2, <3>3, <3>4, OwnMoves
  <2> QED BY <2>2, <2>3, <2>4, <2>5, <2>13 DEF IInv
<1> QED BY <1>2, <1>5, <1>6, <1>7

\* A worker finds a timeout in its pipe.
LEMMA IdleKeeps ==
    ASSUME IInv, NEW w \in Workers, conn_close_idle(w)
    PROVE  IInv'
<1> DEFINE f == Head(pipe[w]).fd
<1>1. /\ race = "none" /\ pc[w].at = "loop" /\ pipe[w] # <<>> /\ Head(pipe[w]).msg = "t"
      /\ pipe' = [pipe EXCEPT ![w] = Tail(@)]
      /\ UNCHANGED <<fds, conns, queue, curr_conns, uncounted, last_thread, cursor, clients, current_time>>
  BY DEF conn_close_idle, Notified, At, listener, table, clock
<1>2. TypesOK
  BY DEF IInv
<1>3. /\ Cardinality(Bytes(Tail(pipe[w]))) = Cardinality(Bytes(pipe[w])) /\ Tail(pipe[w]) \in Seq(Msg)
      /\ Len(Tail(pipe[w])) = Len(pipe[w]) - 1 /\ Head(pipe[w]) \in Msg /\ Len(pipe[w]) \in Nat
  <2>1. pipe[w] \in Seq(Msg) /\ Len(pipe[w]) \in Nat
    BY <1>2 DEF TypesOK
  <2>2. Cardinality(Bytes(pipe[w])) \in Nat
    BY <2>1, BytesFinite
  <2> QED BY <1>1, <2>1, <2>2, BytesTail
<1>4. pipe' \in [Workers -> Seq(Msg)] /\ pipe'[w] = Tail(pipe[w]) /\ \A v \in Workers \ {w} : pipe'[v] = pipe[v]
  BY <1>1, <1>2, <1>3 DEF TypesOK
<1>5. \A v \in Workers : Len(pipe'[v]) <= PipeSize /\ Cardinality(Bytes(pipe'[v])) = Cardinality(Bytes(pipe[v]))
  <2> SUFFICES ASSUME NEW v \in Workers
               PROVE  Len(pipe'[v]) <= PipeSize /\ Cardinality(Bytes(pipe'[v])) = Cardinality(Bytes(pipe[v]))
    OBVIOUS
  <2>1. CASE v = w
    <3>1. Len(pipe[w]) <= PipeSize /\ PipeSize \in Nat
      BY <1>2, DispatchAssumption DEF TypesOK
    <3>2. Len(pipe'[w]) <= PipeSize
      BY <1>3, <1>4, <3>1
    <3> QED BY <1>3, <1>4, <2>1, <3>2
  <2>2. CASE v # w
    BY <1>2, <1>4, <2>2 DEF TypesOK
  <2> QED BY <2>1, <2>2
<1>6. /\ Main \in Threads /\ w \in Threads /\ w # Main /\ w # Side /\ cursor' \in SUBSET Fds /\ clients' \in Nat /\ current_time' \in Nat
      /\ conns' \in [Fds -> Conn] /\ pc[Main] \in Doing
  BY <1>1, <1>2, ThreadsAre DEF TypesOK
<1>7. CASE UNCHANGED pc /\ race' \in {"none", "mixed", "stray"}
  <2>1. pc' = [pc EXCEPT ![Main] = pc[Main]]
    BY <1>2, <1>7 DEF TypesOK
  <2> QED BY <1>1, <1>4, <1>5, <1>6, <1>7, <2>1, Quiet
<1>8. CASE Kick(f) /\ conns[f].thread = w /\ BeginClose(w, f) /\ UNCHANGED race
  <2>1. f \in Fds
    BY <1>1, <1>3 DEF Msg
  <2>2. PICK d \in Doing : pc' = [pc EXCEPT ![w] = d] /\ d.at = "mark" /\ d.fd = f
    BY <1>6, <1>8, <2>1, MarkIs
  <2>3. conns[f].state = "read"
    BY <1>8 DEF Kick
  <2>4. race' \in {"none", "mixed", "stray"}
    BY <1>1, <1>8
  <2> HIDE DEF f
  <2> QED BY <1>1, <1>4, <1>5, <1>6, <1>8, <2>1, <2>2, <2>3, <2>4, Quiet
<1> QED BY <1>1, <1>7, <1>8 DEF conn_close_idle

LEMMA MessageAppended ==
    ASSUME IInv, NEW w \in Workers, NEW x \in Msg, Room(w), pipe' = [pipe EXCEPT ![w] = Append(@, x)]
    PROVE  /\ pipe' \in [Workers -> Seq(Msg)] /\ \A v \in Workers : Len(pipe'[v]) <= PipeSize
           /\ \A v \in Workers \ {w} : pipe'[v] = pipe[v]
           /\ Cardinality(Bytes(pipe[w])) \in Nat
           /\ Cardinality(Bytes(pipe'[w])) = Cardinality(Bytes(pipe[w])) + (IF x.msg = "t" THEN 0 ELSE 1)
<1>1. pipe \in [Workers -> Seq(Msg)] /\ PipeSize \in Nat /\ \A v \in Workers : Len(pipe[v]) <= PipeSize
  BY DispatchAssumption DEF IInv, TypesOK
<1>2. pipe'[w] = Append(pipe[w], x) /\ \A v \in Workers \ {w} : pipe'[v] = pipe[v]
  BY <1>1
<1>3. pipe[w] \in Seq(Msg) /\ Len(pipe[w]) \in Nat /\ Append(pipe[w], x) \in Seq(Msg)
      /\ Len(Append(pipe[w], x)) = Len(pipe[w]) + 1 /\ Len(pipe[w]) < PipeSize
  BY <1>1 DEF Room
<1>4. \A v \in Workers : Len(pipe'[v]) <= PipeSize
  <2> SUFFICES ASSUME NEW v \in Workers PROVE Len(pipe'[v]) <= PipeSize
    OBVIOUS
  <2>1. CASE v = w
    BY <1>1, <1>2, <1>3, <2>1
  <2>2. CASE v # w
    BY <1>1, <1>2, <2>2
  <2> QED BY <2>1, <2>2
<1>5. pipe' \in [Workers -> Seq(Msg)]
  BY <1>1, <1>3
<1> QED BY <1>2, <1>3, <1>4, <1>5, BytesAppend, BytesFinite

LEMMA TimeoutKeeps ==
    ASSUME IInv, conn_timeout_thread
    PROVE  IInv'
<1>1. /\ race = "none"
      /\ UNCHANGED <<fds, conns, queue, pc, curr_conns, uncounted, last_thread, race, clients, current_time>>
  BY DEF conn_timeout_thread, listener, table
<1>2. TypesOK /\ LiveOK
  BY DEF IInv, OwnOK
<1>3. /\ Main \in Threads /\ clients' \in Nat /\ current_time' \in Nat /\ conns' \in [Fds -> Conn] /\ pc[Main] \in Doing
      /\ pc' = [pc EXCEPT ![Main] = pc[Main]] /\ race' \in {"none", "mixed", "stray"}
  BY <1>1, <1>2, ThreadsAre DEF TypesOK
<1>4. /\ cursor' \in SUBSET Fds /\ pipe' \in [Workers -> Seq(Msg)] /\ \A w \in Workers : Len(pipe'[w]) <= PipeSize
      /\ \A w \in Workers : Cardinality(Bytes(pipe'[w])) = Cardinality(Bytes(pipe[w]))
  <2>1. CASE UNCHANGED pipe
    <3>1. cursor' \in SUBSET Fds
      BY <1>2, <2>1 DEF conn_timeout_thread, TypesOK
    <3> QED BY <1>2, <2>1, <3>1 DEF TypesOK
  <2>2. CASE pipe' # pipe
    <3>1. PICK f \in Fds \ cursor :
             LET w == conns[f].thread
             IN  /\ cursor' = cursor \cup {f} /\ conns[f].state = "read" /\ Room(w)
                 /\ pipe' = [pipe EXCEPT ![w] = Append(@, [msg |-> "t", fd |-> f])]
      BY <2>2 DEF conn_timeout_thread
    <3> DEFINE w == conns[f].thread
               x == [msg |-> "t", fd |-> f]
    <3>2. w \in Workers /\ x \in Msg /\ x.msg = "t"
      BY <1>2, <3>1 DEF LiveOK, Live, Msg
    <3>3. Room(w) /\ pipe' = [pipe EXCEPT ![w] = Append(@, x)] /\ cursor' \in SUBSET Fds
      BY <1>2, <3>1 DEF TypesOK
    <3> HIDE DEF w, x
    <3>4. /\ pipe' \in [Workers -> Seq(Msg)] /\ \A v \in Workers : Len(pipe'[v]) <= PipeSize
          /\ \A v \in Workers \ {w} : pipe'[v] = pipe[v]
          /\ Cardinality(Bytes(pipe[w])) \in Nat
          /\ Cardinality(Bytes(pipe'[w])) = Cardinality(Bytes(pipe[w])) + (IF x.msg = "t" THEN 0 ELSE 1)
      BY <3>2, <3>3, MessageAppended
    <3>5. Cardinality(Bytes(pipe'[w])) = Cardinality(Bytes(pipe[w]))
      BY <3>2, <3>4
    <3> QED BY <3>3, <3>4, <3>5
  <2> QED BY <2>1, <2>2
<1> QED BY <1>1, <1>3, <1>4, Quiet

\* The byte of an item is written.
LEMMA NotifyKeeps ==
    ASSUME IInv, NEW t \in {Main, Side}, NEW msg \in {"c", "r"}, Notify(t, msg)
    PROVE  IInv'
<1> DEFINE w == pc[t].to
           x == [msg |-> msg, fd |-> NoFd]
<1>1. /\ race = "none" /\ pc[t].at = "write" /\ Room(w) /\ pipe' = [pipe EXCEPT ![w] = Append(@, x)]
      /\ pc' = [pc EXCEPT ![t] = Loop]
      /\ UNCHANGED <<fds, conns, queue, curr_conns, uncounted, last_thread, race, clients, current_time, cursor>>
  BY DEF Notify, At, Back, listener, table, clock
<1>2. TypesOK /\ PlacesOK /\ ItemsAnnounced
  BY DEF IInv
<1>3. t \in Threads /\ w \in Workers /\ x \in Msg /\ x.msg # "t"
  BY <1>1, <1>2, ThreadsAre DEF PlacesOK, Msg
<1>4. /\ pc' \in [Threads -> Doing] /\ pc'[t] = Loop /\ \A s \in Threads \ {t} : pc'[s] = pc[s]
  BY <1>1, <1>3, LoopIs, ThreadGoes
<1> HIDE DEF w, x
<1>5. /\ pipe' \in [Workers -> Seq(Msg)] /\ \A v \in Workers : Len(pipe'[v]) <= PipeSize
      /\ \A v \in Workers \ {w} : pipe'[v] = pipe[v]
      /\ Cardinality(Bytes(pipe[w])) \in Nat
      /\ Cardinality(Bytes(pipe'[w])) = Cardinality(Bytes(pipe[w])) + 1
  BY <1>1, <1>3, MessageAppended
<1>6. TypesOK'
  BY <1>1, <1>2, <1>4, <1>5 DEF TypesOK
<1>7. PlacesOK'
  BY <1>1, <1>3, LoopIs, PlacesAfter
<1>8. OwnOK'
  <2>1. \A s \in Threads :
          /\ pc'[s].at \in {"push", "close"} \/ pc[s].at \in {"push", "close"} => pc'[s] = pc[s]
          /\ pc'[s].at = "mark" => pc'[s] = pc[s]
    BY <1>1, <1>4, LoopIs
  <2>2. MarkOK
    BY DEF IInv, OwnOK
  <2> QED BY <1>1, <2>1, <2>2, OwnStays DEF MarkOK
<1>9. ConnsCounted'
  <2>1. \A s \in Threads : pc'[s].at \in {"close", "allow", "count"} <=> pc[s].at \in {"close", "allow", "count"}
    BY <1>1, <1>4, LoopIs
  <2>2. \A g \in Fds : Live(g)' <=> Live(g)
    BY <1>1 DEF Live
  <2> QED BY <1>1, <1>7, <2>1, <2>2, CountedStays
<1>10. ItemsAnnounced'
  <2> SUFFICES ASSUME NEW v \in Workers
               PROVE  Len(queue'[v]) = Cardinality(Bytes(pipe'[v])) + Cardinality(Writers(v)')
    BY AnnouncedIsNext
  <2>1. Len(queue[v]) = Cardinality(Bytes(pipe[v])) + Cardinality(Writers(v))
    BY <1>1, <1>2, AnnouncedIs
  <2>2. /\ Cardinality(Writers(v)) \in Nat /\ Cardinality(Writers(v)') \in Nat
        /\ Cardinality(Writers(v)') = Cardinality(Writers(v)) - (IF w = v THEN 1 ELSE 0)
    <3>1. /\ Cardinality(Writers(v)) \in Nat /\ Cardinality(Writers(v)') \in Nat
          /\ Cardinality(Writers(v)') =
                Cardinality(Writers(v)) - (IF pc[t].at = "write" /\ pc[t].to = v THEN 1 ELSE 0)
                  + (IF pc'[t].at = "write" /\ pc'[t].to = v THEN 1 ELSE 0)
      BY <1>4, ThreadsAre, WritersOne
    <3> QED BY <1>1, <1>4, <3>1, LoopIs DEF w
  <2>3. CASE v = w
    BY <1>1, <1>5, <2>1, <2>2, <2>3
  <2>4. CASE v # w
    BY <1>1, <1>5, <2>1, <2>2, <2>4
  <2> QED BY <2>3, <2>4
<1> QED BY <1>6, <1>7, <1>8, <1>9, <1>10 DEF IInv

-----------------------------------------------------------------------------
(* The steps that move a descriptor.                                       *)

\* No thread but t does anything else, and t does d.
LEMMA AnnouncedElsewhere ==
    ASSUME IInv, race = "none", UNCHANGED <<queue, pipe>>, NEW t \in Threads, NEW d \in Doing,
           pc' = [pc EXCEPT ![t] = d], pc[t].at # "write" /\ d.at # "write"
    PROVE  ItemsAnnounced'
<1>1. pc'[t] = d /\ \A s \in Threads \ {t} : pc'[s] = pc[s]
  BY ThreadGoes
<1>2. \A s \in {Main, Side} : (pc'[s].at = "write" \/ pc[s].at = "write") => pc'[s].at = pc[s].at /\ pc'[s].to = pc[s].to
  BY <1>1, ThreadsAre
<1> QED BY <1>2, AnnouncedStays

\* accept gives a descriptor that nobody has.
LEMMA AcceptKeeps ==
    ASSUME IInv, Accept, ~UNCHANGED <<fds, last_thread, pc>>
    PROVE  IInv'
<1>1. /\ race = "none" /\ pc[Main].at = "loop"
      /\ clients \in Nat /\ clients' = clients - 1 /\ clients > 0
      /\ UNCHANGED <<conns, queue, pipe, curr_conns, uncounted, race, current_time, cursor>>
  BY DEF Accept, At, clock, IInv, TypesOK
<1>2. PICK f \in Fds \ fds :
        /\ fds' = fds \cup {f} /\ last_thread' = NextWorker[last_thread]
        /\ Go(Main, "push", f, NextWorker[last_thread])
  BY DEF Accept
<1> DEFINE d == [at |-> "push", fd |-> f, to |-> NextWorker[last_thread]]
<1>3. TypesOK /\ PlacesOK /\ QueueOK /\ TakesOK /\ MarkOK /\ LiveOK /\ QueueOnce
  BY DEF IInv, OwnOK
<1>4. last_thread' \in Workers
  BY <1>2, <1>3, DispatchAssumption DEF TypesOK
<1>5. d \in Doing /\ pc' = [pc EXCEPT ![Main] = d] /\ d.at = "push" /\ d.fd = f /\ d.to \in Workers
  BY <1>2, <1>4 DEF Doing, Go
<1> HIDE DEF d
<1>6. /\ pc' \in [Threads -> Doing] /\ pc'[Main] = d /\ \A s \in Threads \ {Main} : pc'[s] = pc[s]
  BY <1>5, ThreadsAre, ThreadGoes
<1>7. TypesOK'
  <2>1. fds' \in SUBSET Fds
    BY <1>2, <1>3 DEF TypesOK
  <2> QED BY <1>1, <1>3, <1>4, <1>6, <2>1 DEF TypesOK
<1>8. PlacesOK'
  BY <1>5, ThreadsAre, PlacesAfter
<1>9. ~Live(f) /\ ~InQueue(f) /\ \A t \in Threads : Takes(t) => pc[t].fd # f
  BY <1>2, <1>3 DEF LiveOK, QueueOK, TakesOK, InQueue
<1>10. \A t \in Threads : pc[t].at = "mark" => pc[t].fd # f
  BY <1>3, <1>9 DEF MarkOK, Live
<1>11. OwnOK'
  <2>0. QueueOnce'
    BY <1>1, <1>3 DEF QueueOnce
  <2>1. /\ QueueOnce' /\ f \in fds' /\ fds' \in SUBSET Fds /\ queue' \in [Workers -> Seq(Item)]
    BY <1>2, <1>7, <2>0 DEF TypesOK
  <2>2. \A g \in Fds : g # f => /\ conns'[g].state = conns[g].state /\ conns'[g].thread = conns[g].thread
                                /\ g \in fds' <=> g \in fds
    BY <1>1, <1>2
  <2>3. \A v \in Workers : \A n \in 1 .. Len(queue'[v]) :
           queue'[v][n].fd # f /\ \E m \in 1 .. Len(queue[v]) : queue[v][m] = queue'[v][n]
    BY <1>1, <1>9 DEF InQueue
  <2>4. \A g \in fds' : g # f /\ InQueue(g) => InQueue(g)'
    BY <1>1 DEF InQueue
  <2>5. ~Live(f)'
    BY <1>1, <1>9 DEF Live
  <2>6. Takes(Main)' /\ pc'[Main].fd = f /\ pc'[Main].at = "push" /\ Main \in Threads /\ ~Takes(Main)
    BY <1>1, <1>5, <1>6, ThreadsAre DEF Takes
  <2>7. \A t \in Threads \ {Main} : pc'[t] = pc[t] /\ (Takes(t)' <=> Takes(t))
    BY <1>6 DEF Takes
  <2>8. \A t \in Threads :
              /\ (Takes(t)' /\ pc'[t].fd # f) \/ (Takes(t) /\ pc[t].fd # f) => pc'[t] = pc[t]
              /\ Takes(t)' /\ pc'[t].fd = f =>
                   /\ f \in fds' /\ ~Live(f)'
                   /\ pc'[t].at = "close" => conns'[f].state = "closed"
                   /\ \A s \in Threads : Takes(s)' /\ pc'[s].fd = f => s = t
              /\ pc'[t].at = "mark" => pc'[t] = pc[t] /\ pc[t].fd # f
    BY <1>9, <1>10, <2>1, <2>5, <2>6, <2>7
  <2> QED BY <2>1, <2>2, <2>3, <2>4, <2>5, <2>6, <2>8, OwnMoves
<1>12. ConnsCounted'
  <2>1. \A g \in Fds : Live(g)' <=> Live(g)
    BY <1>1 DEF Live
  <2>2. \A s \in Threads : pc'[s].at \in {"close", "allow", "count"} <=> pc[s].at \in {"close", "allow", "count"}
    BY <1>1, <1>5, <1>6
  <2> QED BY <1>1, <1>8, <2>1, <2>2, CountedStays
<1>13. ItemsAnnounced'
  BY <1>1, <1>5, ThreadsAre, AnnouncedElsewhere
<1> QED BY <1>7, <1>8, <1>11, <1>12, <1>13 DEF IInv

\* A descriptor that is closed has left its thread or queue.
LEMMA OwnGone ==
    ASSUME IInv, NEW f, fds' = fds \ {f}, queue' \in [Workers -> Seq(Item)], QueueOnce', ~Live(f)',
           \A g \in Fds : g # f => conns'[g].state = conns[g].state /\ conns'[g].thread = conns[g].thread,
           \A v \in Workers : \A n \in 1 .. Len(queue'[v]) :
              queue'[v][n].fd # f /\ \E m \in 1 .. Len(queue[v]) : queue[v][m] = queue'[v][n],
           \A g \in fds' : InQueue(g) => InQueue(g)',
           \A t \in Threads :
              /\ pc'[t] = pc[t] \/ (pc'[t].at \notin {"push", "close", "mark"} /\ pc[t].fd = f)
              /\ Takes(t)' => pc'[t].fd # f
              /\ pc[t].at = "mark" => pc[t].fd # f
    PROVE  OwnOK'
<1>1. fds' \in SUBSET Fds /\ f \notin fds'
  BY DEF IInv, TypesOK
<1>2. \A t \in Threads : (Takes(t)' => pc'[t] = pc[t]) /\ (Takes(t) /\ pc[t].fd # f => pc'[t] = pc[t])
  BY DEF Takes
<1>3. \A t \in Threads : pc'[t].at = "mark" => pc'[t] = pc[t] /\ pc[t].fd # f
  OBVIOUS
<1>4. \A g \in Fds : g # f => (g \in fds' <=> g \in fds)
  OBVIOUS
<1>5. \A t \in Threads :
              /\ (Takes(t)' /\ pc'[t].fd # f) \/ (Takes(t) /\ pc[t].fd # f) => pc'[t] = pc[t]
              /\ Takes(t)' /\ pc'[t].fd = f =>
                   /\ f \in fds' /\ ~Live(f)'
                   /\ pc'[t].at = "close" => conns'[f].state = "closed"
                   /\ \A s \in Threads : Takes(s)' /\ pc'[s].fd = f => s = t
              /\ pc'[t].at = "mark" => pc'[t] = pc[t] /\ pc[t].fd # f
  BY <1>2, <1>3
<1> QED BY <1>1, <1>4, <1>5, OwnMoves

LEMMA DispatchKeeps ==
    ASSUME IInv, dispatch_conn_new
    PROVE  IInv'
<1>0. PICK f, w, x, d :
         /\ f = pc[Main].fd /\ w = pc[Main].to
         /\ x = [kind |-> "new", fd |-> f] /\ d = [at |-> "write", fd |-> f, to |-> w]
  OBVIOUS
<1>1. /\ race = "none" /\ pc[Main].at = "push"
      /\ UNCHANGED <<conns, pipe, curr_conns, uncounted, race, current_time, cursor, clients, last_thread>>
  BY DEF dispatch_conn_new, At, listener, clock
<1>2. TypesOK /\ PlacesOK /\ QueueOK /\ TakesOK /\ MarkOK /\ LiveOK /\ QueueOnce
  BY DEF IInv, OwnOK
<1>3. Takes(Main) /\ Main \in Threads
  BY <1>1, ThreadsAre DEF Takes
<1>4. /\ f \in fds /\ f \in Fds /\ w \in Workers /\ ~Live(f)
      /\ \A t \in Threads \ {Main} : Takes(t) => pc[t].fd # f
  BY <1>0, <1>1, <1>2, <1>3 DEF TakesOK, TypesOK, PlacesOK
<1>5. ~InQueue(f) /\ \A t \in Threads : pc[t].at = "mark" => pc[t].fd # f
  <2>1. ~InQueue(f)
    BY <1>0, <1>2, <1>3 DEF InQueue, QueueOK
  <2>2. \A t \in Threads : pc[t].at = "mark" => pc[t].fd # f
    BY <1>2, <1>4 DEF MarkOK, Live
  <2> QED BY <2>1, <2>2
<1>6. x \in Item /\ x.fd = f /\ x.kind = "new" /\ d \in Doing /\ d.at = "write" /\ d.fd = f /\ d.to = w
  BY <1>0, <1>4 DEF Item, Doing
<1>7. \/ /\ queue' = [queue EXCEPT ![w] = Append(@, x)] /\ pc' = [pc EXCEPT ![Main] = d] /\ UNCHANGED fds
      \/ fds' = fds \ {f} /\ pc' = [pc EXCEPT ![Main] = Loop] /\ UNCHANGED queue
  BY <1>0 DEF dispatch_conn_new, Go, Back, Abandon
<1>8. \A g \in Fds : conns'[g] = conns[g] /\ (Live(g)' <=> Live(g))
  BY <1>1 DEF Live
<1>9. CASE queue' = [queue EXCEPT ![w] = Append(@, x)] /\ pc' = [pc EXCEPT ![Main] = d] /\ UNCHANGED fds
  <2>1. /\ pc' \in [Threads -> Doing] /\ pc'[Main] = d /\ \A s \in Threads \ {Main} : pc'[s] = pc[s]
    BY <1>3, <1>6, <1>9, ThreadGoes
  <2>0. ~InQueue(x.fd)
    BY <1>5, <1>6
  <2>2. /\ queue' \in [Workers -> Seq(Item)] /\ QueueOnce'
        /\ Len(queue'[w]) = Len(queue[w]) + 1 /\ \A v \in Workers \ {w} : queue'[v] = queue[v]
        /\ \A v \in Workers : \A n \in 1 .. Len(queue'[v]) :
              \/ queue'[v][n] = x
              \/ \E m \in 1 .. Len(queue[v]) : queue[v][m] = queue'[v][n]
        /\ \A g : InQueue(g) => InQueue(g)'
        /\ InQueue(x.fd)'
    BY <1>4, <1>6, <1>9, <2>0, QueueAppended
  <2>3. TypesOK'
    BY <1>1, <1>2, <1>9, <2>1, <2>2 DEF TypesOK
  <2>4. PlacesOK'
    BY <1>3, <1>4, <1>6, <1>9, ThreadsAre, PlacesAfter
  <2>5. OwnOK'
    <3>1. \A t \in Threads : (Takes(t)' <=> Takes(t) /\ t # Main) /\ (t # Main => pc'[t] = pc[t])
      BY <1>6, <2>1 DEF Takes
    <3>2. \A t \in Threads : Takes(t)' => pc'[t].fd # f
      BY <1>4, <3>1
    <3>3. \A v \in Workers : \A n \in 1 .. Len(queue'[v]) :
              IF queue'[v][n].fd = f
                THEN /\ f \in fds'
                     /\ IF queue'[v][n].kind = "new" THEN ~Live(f)' ELSE conns'[f].state = "queued"
                     /\ \A t \in Threads : Takes(t)' => pc'[t].fd # f
                ELSE \E m \in 1 .. Len(queue[v]) : queue[v][m] = queue'[v][n]
      <4> SUFFICES ASSUME NEW v \in Workers, NEW n \in 1 .. Len(queue'[v])
                   PROVE  IF queue'[v][n].fd = f
                            THEN queue'[v][n] = x
                            ELSE \E m \in 1 .. Len(queue[v]) : queue[v][m] = queue'[v][n]
        BY <1>4, <1>6, <1>8, <1>9, <3>2
      <4>1. ~(\E m \in 1 .. Len(queue[v]) : queue[v][m].fd = f)
        BY <1>5 DEF InQueue
      <4> QED BY <1>6, <2>2, <4>1
    <3>4. \A t \in Threads :
              /\ (Takes(t)' /\ pc'[t].fd # f) \/ (Takes(t) /\ pc[t].fd # f) => pc'[t] = pc[t]
              /\ Takes(t)' /\ pc'[t].fd = f =>
                   /\ f \in fds' /\ ~Live(f)'
                   /\ pc'[t].at = "close" => conns'[f].state = "closed"
                   /\ \A s \in Threads : Takes(s)' /\ pc'[s].fd = f => s = t
              /\ pc'[t].at = "mark" => pc'[t] = pc[t] /\ pc[t].fd # f
      BY <1>0, <1>5, <1>6, <2>1, <3>1, <3>2
    <3>5. \A g \in Fds : g # f => /\ conns'[g].state = conns[g].state /\ conns'[g].thread = conns[g].thread
                                  /\ g \in fds' <=> g \in fds
      BY <1>8, <1>9
    <3>6. fds' \in SUBSET Fds
      BY <1>2, <1>9 DEF TypesOK
    <3>7. ~Live(f)' /\ InQueue(f)'
      BY <1>4, <1>6, <1>8, <2>2
    <3> QED BY <2>2, <3>3, <3>4, <3>5, <3>6, <3>7, OwnMoves
  <2>6. ConnsCounted'
    <3>1. \A s \in Threads : pc'[s].at \in {"close", "allow", "count"} <=> pc[s].at \in {"close", "allow", "count"}
      BY <1>1, <1>6, <2>1
    <3> QED BY <1>1, <1>8, <2>4, <3>1, CountedStays
  <2>7. ItemsAnnounced'
    <3> SUFFICES ASSUME NEW v \in Workers
                 PROVE  Len(queue'[v]) = Cardinality(Bytes(pipe'[v])) + Cardinality(Writers(v)')
      BY AnnouncedIsNext
    <3>1. Len(queue[v]) = Cardinality(Bytes(pipe[v])) + Cardinality(Writers(v)) /\ Cardinality(Bytes(pipe[v])) \in Nat
      BY <1>1, <1>2, AnnouncedIs, BytesFinite DEF IInv, TypesOK
    <3>2. /\ Cardinality(Writers(v)) \in Nat /\ Cardinality(Writers(v)') \in Nat
          /\ Cardinality(Writers(v)') =
                Cardinality(Writers(v)) - (IF pc[Main].at = "write" /\ pc[Main].to = v THEN 1 ELSE 0)
                  + (IF pc'[Main].at = "write" /\ pc'[Main].to = v THEN 1 ELSE 0)
      BY <2>1, ThreadsAre, WritersOne
    <3>3. Cardinality(Writers(v)') = Cardinality(Writers(v)) + (IF w = v THEN 1 ELSE 0)
      BY <1>1, <1>6, <2>1, <3>2
    <3>4. CASE v = w
      BY <1>1, <2>2, <3>1, <3>2, <3>3, <3>4
    <3>5. CASE v # w
      BY <1>1, <2>2, <3>1, <3>2, <3>3, <3>5
    <3> QED BY <3>4, <3>5
  <2> QED BY <2>3, <2>4, <2>5, <2>6, <2>7 DEF IInv
<1>10. CASE fds' = fds \ {f} /\ pc' = [pc EXCEPT ![Main] = Loop] /\ UNCHANGED queue
  <2>1. /\ pc' \in [Threads -> Doing] /\ pc'[Main] = Loop /\ \A s \in Threads \ {Main} : pc'[s] = pc[s]
    BY <1>3, <1>10, LoopIs, ThreadGoes
  <2>2. TypesOK'
    BY <1>1, <1>2, <1>10, <2>1 DEF TypesOK
  <2>3. PlacesOK'
    BY <1>3, <1>10, LoopIs, ThreadsAre, PlacesAfter
  <2>4. OwnOK'
    <3>1. \A t \in Threads :
              /\ pc'[t] = pc[t] \/ (pc'[t].at \notin {"push", "close", "mark"} /\ pc[t].fd = f)
              /\ Takes(t)' => pc'[t].fd # f
              /\ pc[t].at = "mark" => pc[t].fd # f
      <4>1. \A t \in Threads : (Takes(t)' <=> Takes(t) /\ t # Main) /\ (t # Main => pc'[t] = pc[t])
        BY <2>1, LoopIs DEF Takes
      <4> QED BY <1>0, <1>4, <1>5, <2>1, <4>1, LoopIs
    <3>2. queue' \in [Workers -> Seq(Item)] /\ QueueOnce' /\ ~Live(f)'
      BY <1>2, <1>4, <1>8, <1>10 DEF TypesOK, QueueOnce
    <3>3. \A v \in Workers : \A n \in 1 .. Len(queue'[v]) :
             queue'[v][n].fd # f /\ \E m \in 1 .. Len(queue[v]) : queue[v][m] = queue'[v][n]
      BY <1>5, <1>10 DEF InQueue
    <3>4. \A g \in fds' : InQueue(g) => InQueue(g)'
      BY <1>10 DEF InQueue
    <3> QED BY <1>8, <1>10, <3>1, <3>2, <3>3, <3>4, OwnGone
  <2>5. ConnsCounted'
    <3>1. \A s \in Threads : pc'[s].at \in {"close", "allow", "count"} <=> pc[s].at \in {"close", "allow", "count"}
      BY <1>1, <2>1, LoopIs
    <3> QED BY <1>1, <1>8, <2>3, <3>1, CountedStays
  <2>6. ItemsAnnounced'
    BY <1>1, <1>3, <1>10, LoopIs, AnnouncedElsewhere
  <2> QED BY <2>2, <2>3, <2>4, <2>5, <2>6 DEF IInv
<1> QED BY <1>7, <1>9, <1>10

LEMMA RedispatchKeeps ==
    ASSUME IInv, redispatch_conn
    PROVE  IInv'
<1>1. /\ race = "none" /\ pc[Side].at = "loop"
      /\ UNCHANGED <<pipe, curr_conns, race, current_time, cursor, clients, last_thread>>
  BY DEF redispatch_conn, At, listener, clock
<1>2. PICK f \in Fds :
         /\ conns[f].state = "watch"
         /\ \/ /\ queue' = [queue EXCEPT ![conns[f].thread] = Append(@, [kind |-> "again", fd |-> f])]
               /\ conns' = [conns EXCEPT ![f].state = "queued"]
               /\ Go(Side, "write", f, conns[f].thread)
               /\ UNCHANGED <<fds, uncounted>>
            \/ /\ conns' = [conns EXCEPT ![f].state = "closed"]
               /\ fds' = fds \ {f}
               /\ uncounted' = uncounted + 1
               /\ UNCHANGED <<queue, pc>>
  BY DEF redispatch_conn
<1>3. PICK w, x, d : /\ w = conns[f].thread /\ x = [kind |-> "again", fd |-> f]
                     /\ d = [at |-> "write", fd |-> f, to |-> w]
  OBVIOUS
<1>4. TypesOK /\ PlacesOK /\ MarkOK /\ QueueOnce
  BY DEF IInv, OwnOK
<1>5. f \in fds /\ w \in Workers /\ ~InQueue(f) /\ \A t \in Threads : Takes(t) => pc[t].fd # f
  BY <1>2, <1>3, ServedIsAlone
<1>6. \A t \in Threads : pc[t].at = "mark" => pc[t].fd # f
  BY <1>1, <1>2, <1>4 DEF MarkOK
<1>7. /\ x \in Item /\ x.fd = f /\ x.kind = "again" /\ d \in Doing /\ d.at = "write" /\ d.fd = f /\ d.to = w
      /\ Side \in Threads /\ ~Takes(Side)
  BY <1>1, <1>3, <1>5, ThreadsAre DEF Item, Doing, Takes
<1>8. CASE /\ queue' = [queue EXCEPT ![w] = Append(@, x)] /\ conns' = [conns EXCEPT ![f].state = "queued"]
           /\ pc' = [pc EXCEPT ![Side] = d] /\ UNCHANGED <<fds, uncounted>>
  <2>0. ~InQueue(x.fd)
    BY <1>5, <1>7
  <2>1. /\ pc' \in [Threads -> Doing] /\ pc'[Side] = d /\ \A s \in Threads \ {Side} : pc'[s] = pc[s]
    BY <1>7, <1>8, ThreadGoes
  <2>2. /\ queue' \in [Workers -> Seq(Item)] /\ QueueOnce'
        /\ Len(queue'[w]) = Len(queue[w]) + 1 /\ \A v \in Workers \ {w} : queue'[v] = queue[v]
        /\ \A v \in Workers : \A n \in 1 .. Len(queue'[v]) :
              \/ queue'[v][n] = x
              \/ \E m \in 1 .. Len(queue[v]) : queue[v][m] = queue'[v][n]
        /\ \A g : InQueue(g) => InQueue(g)'
        /\ InQueue(x.fd)'
    BY <1>5, <1>7, <1>8, <2>0, QueueAppended
  <2>3. /\ conns' \in [Fds -> Conn] /\ conns'[f].state = "queued" /\ conns'[f].thread = w
        /\ \A g \in Fds : g # f => conns'[g] = conns[g]
    BY <1>3, <1>4, <1>8 DEF TypesOK, Conn
  <2>4. TypesOK'
    BY <1>1, <1>4, <1>8, <2>1, <2>2, <2>3 DEF TypesOK
  <2>5. PlacesOK'
    BY <1>5, <1>7, <1>8, ThreadsAre, PlacesAfter
  <2>6. OwnOK'
    <3>1. \A t \in Threads : (Takes(t)' <=> Takes(t)) /\ (Takes(t) => pc'[t] = pc[t] /\ pc'[t].fd # f)
      BY <1>5, <1>7, <2>1 DEF Takes
    <3>2. \A v \in Workers : \A n \in 1 .. Len(queue'[v]) :
              IF queue'[v][n].fd = f
                THEN /\ f \in fds'
                     /\ IF queue'[v][n].kind = "new" THEN ~Live(f)' ELSE conns'[f].state = "queued"
                     /\ \A t \in Threads : Takes(t)' => pc'[t].fd # f
                ELSE \E m \in 1 .. Len(queue[v]) : queue[v][m] = queue'[v][n]
      <4> SUFFICES ASSUME NEW v \in Workers, NEW n \in 1 .. Len(queue'[v])
                   PROVE  IF queue'[v][n].fd = f
                            THEN queue'[v][n] = x
                            ELSE \E m \in 1 .. Len(queue[v]) : queue[v][m] = queue'[v][n]
        BY <1>5, <1>7, <1>8, <2>3, <3>1
      <4>1. ~(\E m \in 1 .. Len(queue[v]) : queue[v][m].fd = f)
        BY <1>5 DEF InQueue
      <4> QED BY <1>7, <2>2, <4>1
    <3>3. \A t \in Threads :
              /\ (Takes(t)' /\ pc'[t].fd # f) \/ (Takes(t) /\ pc[t].fd # f) => pc'[t] = pc[t]
              /\ Takes(t)' /\ pc'[t].fd = f =>
                   /\ f \in fds' /\ ~Live(f)'
                   /\ pc'[t].at = "close" => conns'[f].state = "closed"
                   /\ \A s \in Threads : Takes(s)' /\ pc'[s].fd = f => s = t
              /\ pc'[t].at = "mark" => pc'[t] = pc[t] /\ pc[t].fd # f
      BY <1>6, <1>7, <2>1, <3>1
    <3>4. \A g \in Fds : g # f => /\ conns'[g].state = conns[g].state /\ conns'[g].thread = conns[g].thread
                                  /\ g \in fds' <=> g \in fds
      BY <1>8, <2>3
    <3>5. fds' \in SUBSET Fds /\ f \in fds'
      BY <1>4, <1>5, <1>8 DEF TypesOK
    <3>6. InQueue(f)'
      BY <1>7, <2>2
    <3> QED BY <1>5, <2>2, <2>3, <3>2, <3>3, <3>4, <3>5, <3>6, OwnMoves
  <2>7. ConnsCounted'
    <3>1. \A s \in Threads : pc'[s].at \in {"close", "allow", "count"} <=> pc[s].at \in {"close", "allow", "count"}
      BY <1>1, <1>7, <2>1
    <3>2. \A g \in Fds : Live(g)' <=> Live(g)
      BY <1>2, <2>3 DEF Live
    <3> QED BY <1>1, <1>8, <2>5, <3>1, <3>2, CountedStays
  <2>8. ItemsAnnounced'
    <3> SUFFICES ASSUME NEW v \in Workers
                 PROVE  Len(queue'[v]) = Cardinality(Bytes(pipe'[v])) + Cardinality(Writers(v)')
      BY AnnouncedIsNext
    <3>1. Len(queue[v]) = Cardinality(Bytes(pipe[v])) + Cardinality(Writers(v)) /\ Cardinality(Bytes(pipe[v])) \in Nat
      BY <1>1, <1>4, AnnouncedIs, BytesFinite DEF IInv, TypesOK
    <3>2. /\ Cardinality(Writers(v)) \in Nat /\ Cardinality(Writers(v)') \in Nat
          /\ Cardinality(Writers(v)') =
                Cardinality(Writers(v)) - (IF pc[Side].at = "write" /\ pc[Side].to = v THEN 1 ELSE 0)
                  + (IF pc'[Side].at = "write" /\ pc'[Side].to = v THEN 1 ELSE 0)
      BY <2>1, ThreadsAre, WritersOne
    <3>3. Cardinality(Writers(v)') = Cardinality(Writers(v)) + (IF w = v THEN 1 ELSE 0)
      BY <1>1, <1>7, <2>1, <3>2
    <3>4. CASE v = w
      BY <1>1, <2>2, <3>1, <3>2, <3>3, <3>4
    <3>5. CASE v # w
      BY <1>1, <2>2, <3>1, <3>2, <3>3, <3>5
    <3> QED BY <3>4, <3>5
  <2> QED BY <2>4, <2>5, <2>6, <2>7, <2>8 DEF IInv
<1>9. CASE /\ conns' = [conns EXCEPT ![f].state = "closed"] /\ fds' = fds \ {f}
           /\ uncounted' = uncounted + 1 /\ UNCHANGED <<queue, pc>>
  <2>1. /\ conns' \in [Fds -> Conn] /\ conns'[f].state = "closed"
        /\ \A g \in Fds : g # f => conns'[g] = conns[g]
    BY <1>4, <1>9 DEF TypesOK, Conn
  <2>2. TypesOK'
    BY <1>1, <1>4, <1>9, <2>1 DEF TypesOK
  <2>3. PlacesOK'
    BY <1>4, <1>9 DEF PlacesOK
  <2>4. OwnOK'
    <3>1. \A t \in Threads :
              /\ pc'[t] = pc[t] \/ (pc'[t].at \notin {"push", "close", "mark"} /\ pc[t].fd = f)
              /\ Takes(t)' => pc'[t].fd # f
              /\ pc[t].at = "mark" => pc[t].fd # f
      BY <1>5, <1>6, <1>9 DEF Takes
    <3>2. ~Live(f)'
      BY <2>1 DEF Live
    <3>3. queue' \in [Workers -> Seq(Item)] /\ QueueOnce'
      BY <1>4, <1>9 DEF TypesOK, QueueOnce
    <3>4. \A v \in Workers : \A n \in 1 .. Len(queue'[v]) :
             queue'[v][n].fd # f /\ \E m \in 1 .. Len(queue[v]) : queue[v][m] = queue'[v][n]
      BY <1>5, <1>9 DEF InQueue
    <3>5. \A g \in fds' : InQueue(g) => InQueue(g)'
      BY <1>9 DEF InQueue
    <3> QED BY <1>9, <2>1, <3>1, <3>2, <3>3, <3>4, <3>5, OwnGone
  <2>5. ConnsCounted'
    <3>1. /\ curr_conns \in Nat /\ uncounted \in Nat /\ curr_conns' = curr_conns /\ uncounted' = uncounted + 1
      BY <1>1, <1>4, <1>9 DEF TypesOK
    <3>2. f \in LiveSet /\ f \notin LiveSet' /\ (Side \in MarkedSet <=> Side \in MarkedSet')
      BY <1>2, <1>9, <2>1 DEF LiveSet, Live, MarkedSet
    <3>3. curr_conns' - uncounted' =
              curr_conns - uncounted
                - (IF f \in LiveSet THEN 1 ELSE 0) + (IF f \in LiveSet' THEN 1 ELSE 0)
                - (IF Side \in MarkedSet THEN 1 ELSE 0) + (IF Side \in MarkedSet' THEN 1 ELSE 0)
      BY <3>1, <3>2
    <3> QED BY <1>9, <2>1, <2>3, <3>1, <3>3, CountedChange
  <2>6. ItemsAnnounced'
    BY <1>1, <1>9, AnnouncedStays
  <2> QED BY <2>2, <2>3, <2>4, <2>5, <2>6 DEF IInv
<1> QED BY <1>2, <1>3, <1>8, <1>9 DEF Go

\* The steps of conn_close in turn.
LEMMA ClosingIs ==
    ASSUME IInv, NEW t \in Threads, conn_close(t)
    PROVE  /\ t # Main /\ race = "none" /\ pc[t].at \in {"mark", "close", "allow", "count"}
           /\ UNCHANGED <<queue, pipe, uncounted, race, current_time, cursor, clients, last_thread>>
           /\ conns' = IF pc[t].at = "mark" THEN [conns EXCEPT ![pc[t].fd].state = "closed"] ELSE conns
           /\ fds' = IF pc[t].at = "close" THEN fds \ {pc[t].fd} ELSE fds
           /\ curr_conns' = IF pc[t].at = "count" THEN curr_conns - 1 ELSE curr_conns
           /\ \E d \in Doing :
                 /\ pc' = [pc EXCEPT ![t] = d]
                 /\ pc[t].at = "mark" => d.at = "close" /\ d.fd = pc[t].fd
                 /\ pc[t].at = "close" => d.at = IF t = Side THEN "count" ELSE "allow"
                 /\ pc[t].at = "allow" => d.at = "count"
                 /\ pc[t].at = "count" => d.at = "loop"
<1>1. t # Main /\ Closing(t) /\ pc[t].at \in {"mark", "close", "allow", "count"} /\ pc[t] \in Doing
  BY DEF conn_close, Closing, IInv, PlacesOK, TypesOK
<1>2. /\ race = "none"
      /\ UNCHANGED <<queue, pipe, uncounted, race, current_time, cursor, clients, last_thread>>
      /\ conns' = IF pc[t].at = "mark" THEN [conns EXCEPT ![pc[t].fd].state = "closed"] ELSE conns
      /\ fds' = IF pc[t].at = "close" THEN fds \ {pc[t].fd} ELSE fds
      /\ curr_conns' = IF pc[t].at = "count" THEN curr_conns - 1 ELSE curr_conns
      /\ pc' = IF StageOf(t) = Len(CloseOrder(t)) THEN [pc EXCEPT ![t] = Loop]
               ELSE [pc EXCEPT ![t] = [at |-> CloseOrder(t)[StageOf(t) + 1], fd |-> pc[t].fd, to |-> NoFd]]
  BY DEF conn_close, Counted, Go, Back, links, clock
<1>3. /\ StageOf(t) = Len(CloseOrder(t)) <=> pc[t].at = "count"
      /\ pc[t].at # "count" =>
            CloseOrder(t)[StageOf(t) + 1] =
               IF pc[t].at = "mark" THEN "close"
               ELSE IF pc[t].at = "close" /\ t # Side THEN "allow" ELSE "count"
  BY <1>1, StageIs DEF IInv
<1>4. CASE pc[t].at = "count"
  BY <1>1, <1>2, <1>3, <1>4, LoopIs
<1>5. CASE pc[t].at # "count"
  <2>1. PICK d : d = [at |-> CloseOrder(t)[StageOf(t) + 1], fd |-> pc[t].fd, to |-> NoFd]
    OBVIOUS
  <2>2. d.fd = pc[t].fd /\ d.at = CloseOrder(t)[StageOf(t) + 1] /\ pc' = [pc EXCEPT ![t] = d]
    BY <1>2, <1>3, <1>5, <2>1
  <2>3. d \in Doing
    <3>1. pc[t].fd \in Fds \cup {NoFd}
      BY <1>1 DEF Doing
    <3>2. CloseOrder(t)[StageOf(t) + 1] \in {"close", "allow", "count"}
      BY <1>3, <1>5
    <3> QED BY <2>1, <3>1, <3>2 DEF Doing
  <2>4. /\ pc[t].at = "mark" => d.at = "close" /\ d.fd = pc[t].fd
        /\ pc[t].at = "close" => d.at = IF t = Side THEN "count" ELSE "allow"
        /\ pc[t].at = "allow" => d.at = "count"
        /\ pc[t].at = "count" => d.at = "loop"
    BY <1>3, <1>5, <2>2
  <2> QED BY <1>1, <1>2, <2>2, <2>3, <2>4
<1> QED BY <1>4, <1>5

LEMMA CloseKeeps ==
    ASSUME IInv, NEW t \in Threads, conn_close(t)
    PROVE  IInv'
<1>1. /\ t # Main /\ race = "none" /\ pc[t].at \in {"mark", "close", "allow", "count"}
      /\ UNCHANGED <<queue, pipe, uncounted, race, current_time, cursor, clients, last_thread>>
      /\ conns' = IF pc[t].at = "mark" THEN [conns EXCEPT ![pc[t].fd].state = "closed"] ELSE conns
      /\ fds' = IF pc[t].at = "close" THEN fds \ {pc[t].fd} ELSE fds
      /\ curr_conns' = IF pc[t].at = "count" THEN curr_conns - 1 ELSE curr_conns
  BY ClosingIs
<1>2. PICK d \in Doing :
         /\ pc' = [pc EXCEPT ![t] = d]
         /\ pc[t].at = "mark" => d.at = "close" /\ d.fd = pc[t].fd
         /\ pc[t].at = "close" => d.at = IF t = Side THEN "count" ELSE "allow"
         /\ pc[t].at = "allow" => d.at = "count"
         /\ pc[t].at = "count" => d.at = "loop"
  BY ClosingIs
<1>3. PICK f : f = pc[t].fd
  OBVIOUS
<1>4. TypesOK /\ PlacesOK /\ QueueOK /\ TakesOK /\ MarkOK /\ LiveOK /\ QueueOnce
  BY DEF IInv, OwnOK
<1>5. /\ pc' \in [Threads -> Doing] /\ pc'[t] = d /\ \A s \in Threads \ {t} : pc'[s] = pc[s]
  BY <1>2, ThreadGoes
<1>6. PlacesOK'
  BY <1>1, <1>2, ThreadsAre, PlacesAfter
<1>7. ItemsAnnounced'
  BY <1>1, <1>2, AnnouncedElsewhere
<1>8. ASSUME curr_conns' \in Nat, conns' \in [Fds -> Conn] PROVE TypesOK'
  BY <1>1, <1>4, <1>5, <1>8 DEF TypesOK
<1>9. CASE pc[t].at = "mark"
  <2>1. /\ f \in Fds /\ conns[f].state = (IF t = Side THEN "watch" ELSE "read") /\ (t # Side => conns[f].thread = t)
    BY <1>3, <1>4, <1>9 DEF MarkOK
  <2>2. f \in fds /\ ~InQueue(f) /\ \A s \in Threads : Takes(s) => pc[s].fd # f
    BY <2>1, ServedIsAlone
  <2>3. /\ conns' \in [Fds -> Conn] /\ conns'[f].state = "closed"
        /\ \A g \in Fds : g # f => conns'[g] = conns[g]
    <3>1. conns \in [Fds -> Conn] /\ conns[f] \in Conn
      BY <1>4, <2>1 DEF TypesOK
    <3>2. conns' = [conns EXCEPT ![f].state = "closed"]
      BY <1>1, <1>3, <1>9
    <3> QED BY <2>1, <3>1, <3>2 DEF Conn
  <2>4. TypesOK'
    BY <1>1, <1>4, <1>8, <1>9, <2>3 DEF TypesOK
  <2>5. \A s \in Threads \ {t} : pc[s].at = "mark" => pc[s].fd # f
    BY <1>4, <2>1 DEF MarkOK
  <2>6. OwnOK'
    <3>1. Takes(t)' /\ pc'[t].fd = f /\ pc'[t].at = "close" /\ ~Takes(t)
      BY <1>2, <1>3, <1>5, <1>9 DEF Takes
    <3>2. \A s \in Threads \ {t} : pc'[s] = pc[s] /\ (Takes(s)' <=> Takes(s))
      BY <1>5 DEF Takes
    <3>3. f \in fds' /\ fds' = fds /\ ~Live(f)'
      BY <1>1, <1>9, <2>2, <2>3 DEF Live
    <3>4. \A s \in Threads :
              /\ (Takes(s)' /\ pc'[s].fd # f) \/ (Takes(s) /\ pc[s].fd # f) => pc'[s] = pc[s]
              /\ Takes(s)' /\ pc'[s].fd = f =>
                   /\ f \in fds' /\ ~Live(f)'
                   /\ pc'[s].at = "close" => conns'[f].state = "closed"
                   /\ \A r \in Threads : Takes(r)' /\ pc'[r].fd = f => r = s
              /\ pc'[s].at = "mark" => pc'[s] = pc[s] /\ pc[s].fd # f
      BY <2>2, <2>3, <2>5, <3>1, <3>2, <3>3
    <3>5. fds' \in SUBSET Fds /\ queue' \in [Workers -> Seq(Item)]
      BY <2>4 DEF TypesOK
    <3>6. QueueOnce'
      BY <1>1, <1>4 DEF QueueOnce
    <3>7. \A v \in Workers : \A n \in 1 .. Len(queue'[v]) :
             queue'[v][n].fd # f /\ \E m \in 1 .. Len(queue[v]) : queue[v][m] = queue'[v][n]
      BY <1>1, <2>2 DEF InQueue
    <3>8. \A g \in fds' : InQueue(g) => InQueue(g)'
      BY <1>1 DEF InQueue
    <3>9. \A g \in Fds : g # f => /\ conns'[g].state = conns[g].state /\ conns'[g].thread = conns[g].thread
                                  /\ g \in fds' <=> g \in fds
      BY <2>3, <3>3
    <3> QED BY <3>1, <3>3, <3>4, <3>5, <3>6, <3>7, <3>8, <3>9, OwnMoves
  <2>7. ConnsCounted'
    <3>1. curr_conns \in Nat /\ uncounted \in Nat /\ curr_conns' = curr_conns /\ uncounted' = uncounted
      BY <1>1, <1>4, <1>9 DEF TypesOK
    <3>2. f \in LiveSet /\ f \notin LiveSet' /\ t \notin MarkedSet /\ t \in MarkedSet'
      BY <1>2, <1>5, <1>9, <2>1, <2>3 DEF LiveSet, Live, MarkedSet
    <3>3. curr_conns' - uncounted' =
              curr_conns - uncounted
                - (IF f \in LiveSet THEN 1 ELSE 0) + (IF f \in LiveSet' THEN 1 ELSE 0)
                - (IF t \in MarkedSet THEN 1 ELSE 0) + (IF t \in MarkedSet' THEN 1 ELSE 0)
      BY <3>1, <3>2
    <3> QED BY <1>5, <1>6, <2>3, <3>1, <3>3, CountedChange
  <2> QED BY <1>6, <1>7, <2>4, <2>6, <2>7 DEF IInv
<1>10. CASE pc[t].at = "close"
  <2>1. Takes(t)
    BY <1>10 DEF Takes
  <2>2. /\ f \in fds /\ f \in Fds /\ ~Live(f) /\ ~InQueue(f)
        /\ \A s \in Threads \ {t} : Takes(s) => pc[s].fd # f
    BY <1>3, <1>4, <2>1 DEF TakesOK, TypesOK, InQueue, QueueOK
  <2>3. conns' = conns /\ fds' = fds \ {f} /\ d.at \notin {"push", "close", "mark"} /\ pc[t].fd = f
    BY <1>1, <1>2, <1>3, <1>10
  <2>4. TypesOK'
    BY <1>1, <1>4, <1>8, <1>10, <2>3 DEF TypesOK
  <2>5. OwnOK'
    <3>1. \A s \in Threads :
              /\ pc'[s] = pc[s] \/ (pc'[s].at \notin {"push", "close", "mark"} /\ pc[s].fd = f)
              /\ Takes(s)' => pc'[s].fd # f
              /\ pc[s].at = "mark" => pc[s].fd # f
      <4>1. \A s \in Threads : (Takes(s)' <=> Takes(s) /\ s # t) /\ (s # t => pc'[s] = pc[s])
        BY <1>5, <2>1, <2>3 DEF Takes
      <4>2. \A s \in Threads : pc[s].at = "mark" => pc[s].fd # f
        BY <1>4, <2>2 DEF MarkOK, Live
      <4> QED BY <1>5, <2>2, <2>3, <4>1, <4>2
    <3>2. ~Live(f)'
      BY <2>2, <2>3 DEF Live
    <3>3. queue' \in [Workers -> Seq(Item)] /\ QueueOnce'
      BY <1>1, <1>4 DEF TypesOK, QueueOnce
    <3>4. \A v \in Workers : \A n \in 1 .. Len(queue'[v]) :
             queue'[v][n].fd # f /\ \E m \in 1 .. Len(queue[v]) : queue[v][m] = queue'[v][n]
      BY <1>1, <2>2 DEF InQueue
    <3>5. \A g \in fds' : InQueue(g) => InQueue(g)'
      BY <1>1 DEF InQueue
    <3> QED BY <2>3, <3>1, <3>2, <3>3, <3>4, <3>5, OwnGone
  <2>6. ConnsCounted'
    <3>1. \A s \in Threads : pc'[s].at \in {"close", "allow", "count"} <=> pc[s].at \in {"close", "allow", "count"}
      BY <1>2, <1>5, <1>10
    <3>2. \A g \in Fds : Live(g)' <=> Live(g)
      BY <2>3 DEF Live
    <3> QED BY <1>1, <1>6, <1>10, <3>1, <3>2, CountedStays
  <2> QED BY <1>6, <1>7, <2>4, <2>5, <2>6 DEF IInv
<1>11. CASE pc[t].at \in {"allow", "count"}
  <2>1. conns' = conns /\ fds' = fds /\ d.at \in {"loop", "count"}
    BY <1>1, <1>2, <1>11
  <2>2. ConnsCounted' /\ curr_conns' \in Nat
    <3>1. curr_conns \in Nat /\ uncounted \in Nat /\ uncounted' = uncounted
      BY <1>1, <1>4 DEF TypesOK
    <3>2. /\ \A f0 : f0 \in LiveSet <=> f0 \in LiveSet'
          /\ t \in MarkedSet /\ (t \in MarkedSet' <=> pc[t].at = "allow")
      BY <1>2, <1>5, <1>11, <2>1 DEF LiveSet, Live, MarkedSet
    <3>3. /\ curr_conns' \in Int
          /\ curr_conns' - uncounted' =
              curr_conns - uncounted
                - (IF f \in LiveSet THEN 1 ELSE 0) + (IF f \in LiveSet' THEN 1 ELSE 0)
                - (IF t \in MarkedSet THEN 1 ELSE 0) + (IF t \in MarkedSet' THEN 1 ELSE 0)
      BY <1>1, <1>11, <3>1, <3>2
    <3> QED BY <1>5, <1>6, <2>1, <3>1, <3>3, CountedChange
  <2>3. TypesOK'
    BY <1>4, <1>8, <2>1, <2>2 DEF TypesOK
  <2>4. OwnOK'
    <3>1. \A s \in Threads :
            /\ pc'[s].at \in {"push", "close"} \/ pc[s].at \in {"push", "close"} => pc'[s] = pc[s]
            /\ pc'[s].at = "mark" => pc'[s] = pc[s]
      BY <1>5, <1>11, <2>1
    <3> QED BY <1>1, <1>4, <2>1, <3>1, OwnStays DEF MarkOK
  <2> QED BY <1>6, <1>7, <2>2, <2>3, <2>4 DEF IInv
<1> QED BY <1>1, <1>9, <1>10, <1>11

\* A worker takes a byte that announces an item.
LEMMA ByteTaken ==
    ASSUME IInv, NEW w \in Workers, pipe[w] # <<>>, Head(pipe[w]).msg # "t", pipe' = [pipe EXCEPT ![w] = Tail(@)]
    PROVE  /\ pipe' \in [Workers -> Seq(Msg)] /\ \A v \in Workers : Len(pipe'[v]) <= PipeSize
           /\ \A v \in Workers \ {w} : pipe'[v] = pipe[v]
           /\ Cardinality(Bytes(pipe[w])) \in Nat
           /\ Cardinality(Bytes(pipe'[w])) = Cardinality(Bytes(pipe[w])) - 1
<1>1. pipe \in [Workers -> Seq(Msg)] /\ PipeSize \in Nat /\ \A v \in Workers : Len(pipe[v]) <= PipeSize
  BY DispatchAssumption DEF IInv, TypesOK
<1>2. pipe'[w] = Tail(pipe[w]) /\ \A v \in Workers \ {w} : pipe'[v] = pipe[v]
  BY <1>1
<1>3. pipe[w] \in Seq(Msg) /\ Len(pipe[w]) \in Nat
  BY <1>1
<1>4. Tail(pipe[w]) \in Seq(Msg) /\ Len(Tail(pipe[w])) = Len(pipe[w]) - 1
      /\ Cardinality(Bytes(Tail(pipe[w]))) = Cardinality(Bytes(pipe[w])) - 1
  BY <1>3, BytesTail
<1>5. \A v \in Workers : Len(pipe'[v]) <= PipeSize
  <2> SUFFICES ASSUME NEW v \in Workers PROVE Len(pipe'[v]) <= PipeSize
    OBVIOUS
  <2>1. CASE v = w
    BY <1>1, <1>2, <1>3, <1>4, <2>1
  <2>2. CASE v # w
    BY <1>1, <1>2, <2>2
  <2> QED BY <2>1, <2>2
<1> QED BY <1>1, <1>2, <1>3, <1>4, <1>5, BytesFinite

LEMMA MixedKeeps ==
    ASSUME IInv, NEW w \in Workers, race = "none", pipe[w] # <<>>, Head(pipe[w]).msg # "t",
           pipe' = [pipe EXCEPT ![w] = Tail(@)], race' = "mixed",
           UNCHANGED <<queue, conns, fds, curr_conns, uncounted, last_thread, pc, clients, cursor, current_time>>
    PROVE  IInv'
<1>1. pipe' \in [Workers -> Seq(Msg)] /\ \A v \in Workers : Len(pipe'[v]) <= PipeSize
  BY ByteTaken
<1>2. TypesOK
  BY DEF IInv
<1>3. /\ Main \in Threads /\ clients' \in Nat /\ current_time' \in Nat /\ conns' \in [Fds -> Conn] /\ pc[Main] \in Doing
      /\ pc' = [pc EXCEPT ![Main] = pc[Main]] /\ cursor' \in SUBSET Fds
  BY <1>2, ThreadsAre DEF TypesOK
<1> QED BY <1>1, <1>3, Quiet

\* A byte and an item are taken together.
LEMMA AnnouncedTaken ==
    ASSUME IInv, race = "none", NEW w \in Workers, pipe[w] # <<>>, Head(pipe[w]).msg # "t",
           pipe' = [pipe EXCEPT ![w] = Tail(@)],
           queue[w] # <<>>, queue' = [queue EXCEPT ![w] = Tail(@)], UNCHANGED pc
    PROVE  ItemsAnnounced'
<1>1. /\ \A v \in Workers \ {w} : pipe'[v] = pipe[v]
      /\ Cardinality(Bytes(pipe[w])) \in Nat
      /\ Cardinality(Bytes(pipe'[w])) = Cardinality(Bytes(pipe[w])) - 1
  BY ByteTaken
<1>2. Len(queue'[w]) = Len(queue[w]) - 1 /\ \A v \in Workers \ {w} : queue'[v] = queue[v]
  BY QueueTaken
<1> SUFFICES ASSUME NEW v \in Workers
             PROVE  Len(queue'[v]) = Cardinality(Bytes(pipe'[v])) + Cardinality(Writers(v)')
  BY AnnouncedIsNext
<1>3. Writers(v)' = Writers(v) /\ Cardinality(Writers(v)) \in Nat
  BY SetsFinite DEF Writers
<1>4. Len(queue[v]) = Cardinality(Bytes(pipe[v])) + Cardinality(Writers(v))
  BY AnnouncedIs DEF IInv
<1>5. CASE v = w
  BY <1>1, <1>2, <1>3, <1>4, <1>5
<1>6. CASE v # w
  BY <1>1, <1>2, <1>3, <1>4, <1>6
<1> QED BY <1>5, <1>6

\* The descriptor of an item that was taken is that of a connection, or closed.
LEMMA OwnTaken ==
    ASSUME IInv, NEW f \in fds, UNCHANGED pc, queue' \in [Workers -> Seq(Item)], QueueOnce',
           \A v \in Workers : \A n \in 1 .. Len(queue'[v]) :
              queue'[v][n].fd # f /\ \E m \in 1 .. Len(queue[v]) : queue[v][m] = queue'[v][n],
           \A g : InQueue(g) /\ g # f => InQueue(g)',
           \A g \in Fds : g # f => conns'[g] = conns[g],
           \A t \in Threads : Takes(t) => pc[t].fd # f,
           \A t \in Threads : pc[t].at = "mark" => pc[t].fd # f,
           \/ conns'[f].state = "read" /\ conns'[f].thread \in Workers /\ UNCHANGED fds
           \/ ~Live(f) /\ conns' = conns /\ fds' = fds \ {f}
    PROVE  OwnOK'
<1>0. /\ \A g \in Fds : g # f => conns'[g].state = conns[g].state /\ conns'[g].thread = conns[g].thread
      /\ \A g \in fds' : g # f /\ InQueue(g) => InQueue(g)'
      /\ \A t \in Threads : pc'[t] = pc[t] /\ (Takes(t)' <=> Takes(t))
  BY DEF Takes
<1>1. CASE conns'[f].state = "read" /\ conns'[f].thread \in Workers /\ UNCHANGED fds
  <2>1. f \in fds' /\ fds' \in SUBSET Fds
    BY <1>1 DEF IInv, TypesOK
  <2>2. \A v \in Workers : \A n \in 1 .. Len(queue'[v]) :
            IF queue'[v][n].fd = f
              THEN /\ f \in fds'
                   /\ IF queue'[v][n].kind = "new" THEN ~Live(f)' ELSE conns'[f].state = "queued"
                   /\ \A t \in Threads : Takes(t)' => pc'[t].fd # f
              ELSE \E m \in 1 .. Len(queue[v]) : queue[v][m] = queue'[v][n]
    OBVIOUS
  <2>3. \A t \in Threads :
            /\ (Takes(t)' /\ pc'[t].fd # f) \/ (Takes(t) /\ pc[t].fd # f) => pc'[t] = pc[t]
            /\ Takes(t)' /\ pc'[t].fd = f =>
                 /\ f \in fds' /\ ~Live(f)'
                 /\ pc'[t].at = "close" => conns'[f].state = "closed"
                 /\ \A s \in Threads : Takes(s)' /\ pc'[s].fd = f => s = t
            /\ pc'[t].at = "mark" => pc'[t] = pc[t] /\ pc[t].fd # f
    BY <1>0
  <2>4. \A g \in Fds : g # f => /\ conns'[g].state = conns[g].state /\ conns'[g].thread = conns[g].thread
                                /\ g \in fds' <=> g \in fds
    BY <1>0, <1>1
  <2>5. /\ Live(f)' => f \in fds' /\ conns'[f].thread \in Workers
        /\ f \in fds' => \/ conns'[f].state \in {"read", "watch"} \/ InQueue(f)'
                           \/ \E t \in Threads : Takes(t)' /\ pc'[t].fd = f
    BY <1>1, <2>1
  <2>6. \A g \in fds' : g # f /\ InQueue(g) => InQueue(g)'
    BY <1>0
  <2>7. queue' \in [Workers -> Seq(Item)] /\ QueueOnce'
    OBVIOUS
  <2> QED BY <2>1, <2>2, <2>3, <2>4, <2>5, <2>6, <2>7, OwnMoves
<1>2. CASE ~Live(f) /\ conns' = conns /\ fds' = fds \ {f}
  <2>1. ~Live(f)'
    BY <1>2 DEF Live
  <2>2. \A t \in Threads :
            /\ pc'[t] = pc[t] \/ (pc'[t].at \notin {"push", "close", "mark"} /\ pc[t].fd = f)
            /\ Takes(t)' => pc'[t].fd # f
            /\ pc[t].at = "mark" => pc[t].fd # f
    BY <1>0
  <2>3. \A g \in fds' : InQueue(g) => InQueue(g)'
    BY <1>0, <1>2
  <2>4. queue' \in [Workers -> Seq(Item)] /\ QueueOnce'
    OBVIOUS
  <2>5. \A v \in Workers : \A n \in 1 .. Len(queue'[v]) :
           queue'[v][n].fd # f /\ \E m \in 1 .. Len(queue[v]) : queue[v][m] = queue'[v][n]
    OBVIOUS
  <2>6. \A g \in Fds : g # f => conns'[g].state = conns[g].state /\ conns'[g].thread = conns[g].thread
    BY <1>0
  <2>7. fds' = fds \ {f}
    BY <1>2
  <2> QED BY <2>1, <2>2, <2>3, <2>4, <2>5, <2>6, <2>7, OwnGone
<1> QED BY <1>1, <1>2
\* The item at the head of a queue is taken, its descriptor is now that of a
\* connection, or is closed.
LEMMA TakenKeeps ==
    ASSUME IInv, race = "none", race' = "none", NEW w \in Workers, pipe[w] # <<>>, Head(pipe[w]).msg # "t",
           pipe' = [pipe EXCEPT ![w] = Tail(@)],
           queue[w] # <<>>, queue' = [queue EXCEPT ![w] = Tail(@)], NEW f, f = Head(queue[w]).fd,
           UNCHANGED <<uncounted, last_thread, pc, clients, cursor, current_time>>,
           conns' \in [Fds -> Conn], \A g \in Fds : g # f => conns'[g] = conns[g],
           \/ /\ conns'[f].state = "read" /\ conns'[f].thread \in Workers /\ UNCHANGED fds
              /\ curr_conns' = curr_conns + (IF Head(queue[w]).kind = "new" THEN 1 ELSE 0)
           \/ /\ Head(queue[w]).kind = "new" /\ conns' = conns /\ fds' = fds \ {f} /\ curr_conns' = curr_conns
    PROVE  IInv'
<1>1. TypesOK /\ PlacesOK /\ QueueOK /\ TakesOK /\ MarkOK
  BY DEF IInv, OwnOK
<1>2. pipe' \in [Workers -> Seq(Msg)] /\ \A v \in Workers : Len(pipe'[v]) <= PipeSize
  BY ByteTaken
<1>a. /\ queue' \in [Workers -> Seq(Item)] /\ QueueOnce'
      /\ 1 \in 1 .. Len(queue[w]) /\ Head(queue[w]) = queue[w][1]
      /\ Head(queue[w]) \in Item
      /\ \A v \in Workers : \A n \in 1 .. Len(queue'[v]) :
            /\ \E m \in 1 .. Len(queue[v]) : queue[v][m] = queue'[v][n]
            /\ queue'[v][n].fd # Head(queue[w]).fd
      /\ \A g : InQueue(g) => InQueue(g)' \/ g = Head(queue[w]).fd
  BY QueueTaken
<1>3. /\ queue' \in [Workers -> Seq(Item)] /\ QueueOnce'
      /\ 1 \in 1 .. Len(queue[w]) /\ Head(queue[w]) = queue[w][1]
      /\ Head(queue[w]) \in Item
      /\ \A v \in Workers : \A n \in 1 .. Len(queue'[v]) :
            /\ \E m \in 1 .. Len(queue[v]) : queue[v][m] = queue'[v][n]
            /\ queue'[v][n].fd # f
      /\ \A g : InQueue(g) => InQueue(g)' \/ g = f
  BY <1>a
<1>4. /\ f \in Fds /\ f \in fds /\ (Live(f) <=> Head(queue[w]).kind # "new")
      /\ conns[f].state \notin {"read", "watch"}
      /\ \A t \in Threads : Takes(t) => pc[t].fd # f
  BY <1>1, <1>3 DEF QueueOK, Item, Live
<1>5. \A t \in Threads : pc[t].at = "mark" => pc[t].fd # f
  BY <1>1, <1>4 DEF MarkOK
<1>6. PlacesOK'
  BY <1>1 DEF PlacesOK
<1>7. curr_conns \in Nat /\ uncounted \in Nat
  BY <1>1 DEF TypesOK
<1>8. ConnsCounted' /\ curr_conns' \in Nat
  <2>1. /\ f \in LiveSet <=> Head(queue[w]).kind # "new"
        /\ f \in LiveSet' <=> Live(f)'
        /\ Main \in MarkedSet <=> Main \in MarkedSet'
    BY <1>4 DEF LiveSet, MarkedSet
  <2>2. Live(f)' <=> conns'[f].state = "read" \/ (conns' = conns /\ Live(f))
    BY DEF Live
  <2>3. /\ curr_conns' \in Int
        /\ curr_conns' - uncounted' =
              curr_conns - uncounted
                - (IF f \in LiveSet THEN 1 ELSE 0) + (IF f \in LiveSet' THEN 1 ELSE 0)
                - (IF Main \in MarkedSet THEN 1 ELSE 0) + (IF Main \in MarkedSet' THEN 1 ELSE 0)
    <3>1. CASE Head(queue[w]).kind = "new" /\ conns'[f].state = "read" /\ curr_conns' = curr_conns + 1
      <4>1. f \notin LiveSet /\ f \in LiveSet'
        BY <1>4, <2>1, <2>2, <3>1
      <4> QED BY <1>7, <2>1, <3>1, <4>1
    <3>2. CASE Head(queue[w]).kind # "new" /\ conns'[f].state = "read" /\ curr_conns' = curr_conns + 0
      <4>1. f \in LiveSet /\ f \in LiveSet'
        BY <1>4, <2>1, <2>2, <3>2
      <4> QED BY <1>7, <2>1, <3>2, <4>1
    <3>3. CASE Head(queue[w]).kind = "new" /\ conns' = conns /\ curr_conns' = curr_conns
      <4>1. f \notin LiveSet /\ f \notin LiveSet'
        BY <1>4, <2>1, <2>2, <3>3
      <4> QED BY <1>7, <2>1, <3>3, <4>1
    <3> QED BY <3>1, <3>2, <3>3
  <2>4. uncounted' \in Nat
    BY <1>7
  <2> QED BY <1>6, <2>3, <2>4, CountedChange
<1>9. TypesOK'
  <2>1. fds' \in SUBSET Fds
    BY <1>1 DEF TypesOK
  <2> QED BY <1>1, <1>2, <1>3, <1>8, <2>1 DEF TypesOK
<1>10. OwnOK'
  <2>1. \/ conns'[f].state = "read" /\ conns'[f].thread \in Workers /\ UNCHANGED fds
        \/ ~Live(f) /\ conns' = conns /\ fds' = fds \ {f}
    BY <1>4
  <2>2. /\ \A v \in Workers : \A n \in 1 .. Len(queue'[v]) :
              queue'[v][n].fd # f /\ \E m \in 1 .. Len(queue[v]) : queue[v][m] = queue'[v][n]
        /\ \A g : InQueue(g) /\ g # f => InQueue(g)'
    BY <1>3
  <2>3. queue' \in [Workers -> Seq(Item)] /\ QueueOnce'
    BY <1>3
  <2>4. UNCHANGED pc
    OBVIOUS
  <2> QED BY <1>4, <1>5, <2>1, <2>2, <2>3, <2>4, OwnTaken
<1>11. ItemsAnnounced'
  BY AnnouncedTaken
<1> QED BY <1>6, <1>8, <1>9, <1>10, <1>11 DEF IInv

LEMMA NewKeeps ==
    ASSUME IInv, NEW w \in Workers, NewConnection(w)
    PROVE  IInv'
<1>1. /\ race = "none" /\ pipe[w] # <<>> /\ Head(pipe[w]).msg = "c" /\ queue[w] # <<>>
      /\ pipe' = [pipe EXCEPT ![w] = Tail(@)]
      /\ UNCHANGED <<uncounted, last_thread, pc, clients, cursor, current_time>>
  BY DEF NewConnection, Notified, At, listener, clock
<1>2. CASE Mixed(w, "new")
  BY <1>1, <1>2, MixedKeeps DEF Mixed
<1>3. CASE ~Mixed(w, "new")
  <2>1. PICK f : f = Head(queue[w]).fd
    OBVIOUS
  <2>2. /\ Head(queue[w]).kind = "new" /\ queue' = [queue EXCEPT ![w] = Tail(@)] /\ race' = race
        /\ \/ /\ conns' = [conns EXCEPT ![f] =
                          [state |-> "read", thread |-> w, last_cmd_time |-> current_time]]
              /\ curr_conns' = curr_conns + 1 /\ UNCHANGED fds
           \/ fds' = fds \ {f} /\ UNCHANGED <<conns, curr_conns>>
    BY <1>3, <2>1 DEF NewConnection, Abandon
  <2>3. Head(queue[w]) \in Item
    BY <1>1, <2>2, QueueTaken
  <2>4. f \in Fds /\ conns \in [Fds -> Conn] /\ current_time \in Nat /\ curr_conns \in Nat
    BY <2>1, <2>3 DEF Item, IInv, TypesOK
  <2>5. CASE fds' = fds \ {f} /\ UNCHANGED <<conns, curr_conns>>
    BY <1>1, <2>1, <2>2, <2>4, <2>5, TakenKeeps
  <2>6. CASE /\ conns' = [conns EXCEPT ![f] =
                          [state |-> "read", thread |-> w, last_cmd_time |-> current_time]]
             /\ curr_conns' = curr_conns + 1 /\ UNCHANGED fds
    <3>1. conns'[f].state = "read" /\ conns'[f].thread \in Workers /\ \A g \in Fds : g # f => conns'[g] = conns[g]
      BY <2>4, <2>6
    <3>2. conns' \in [Fds -> Conn]
      BY <2>4, <2>6 DEF Conn
    <3> QED BY <1>1, <2>1, <2>2, <2>6, <3>1, <3>2, TakenKeeps
  <2> QED BY <2>2, <2>5, <2>6
<1> QED BY <1>2, <1>3

LEMMA ReaddKeeps ==
    ASSUME IInv, NEW w \in Workers, conn_worker_readd(w)
    PROVE  IInv'
<1>1. /\ race = "none" /\ pipe[w] # <<>> /\ Head(pipe[w]).msg = "r" /\ queue[w] # <<>>
      /\ pipe' = [pipe EXCEPT ![w] = Tail(@)]
      /\ UNCHANGED <<uncounted, last_thread, pc, clients, cursor, current_time>>
  BY DEF conn_worker_readd, Notified, At, listener, clock
<1>2. CASE Mixed(w, "again")
  BY <1>1, <1>2, MixedKeeps DEF Mixed
<1>3. CASE ~Mixed(w, "again")
  <2>1. PICK f : f = Head(queue[w]).fd
    OBVIOUS
  <2>2. /\ Head(queue[w]).kind = "again" /\ queue' = [queue EXCEPT ![w] = Tail(@)]
        /\ conns' = [conns EXCEPT ![f].state = "read"] /\ UNCHANGED <<fds, curr_conns, race>>
    BY <1>3, <2>1 DEF conn_worker_readd
  <2>3. /\ 1 \in 1 .. Len(queue[w]) /\ Head(queue[w]) = queue[w][1] /\ Head(queue[w]) \in Item
    BY <1>1, <2>2, QueueTaken
  <2>4. f \in Fds /\ conns \in [Fds -> Conn] /\ curr_conns \in Nat
    BY <2>1, <2>3 DEF Item, IInv, TypesOK
  <2>5. conns[f].state = "queued" /\ conns[f].thread \in Workers
    <3>1. QueueOK /\ LiveOK
      BY DEF IInv, OwnOK
    <3>2. conns[f].state = "queued"
      BY <2>1, <2>2, <2>3, <3>1 DEF QueueOK
    <3> QED BY <2>4, <3>1, <3>2 DEF LiveOK, Live
  <2>6. /\ conns' \in [Fds -> Conn] /\ conns'[f].state = "read" /\ conns'[f].thread \in Workers
        /\ \A g \in Fds : g # f => conns'[g] = conns[g]
    BY <2>2, <2>4, <2>5 DEF Conn
  <2>7. curr_conns' = curr_conns + (IF Head(queue[w]).kind = "new" THEN 1 ELSE 0)
    BY <2>2, <2>4
  <2> QED BY <1>1, <2>1, <2>2, <2>6, <2>7, TakenKeeps
<1> QED BY <1>2, <1>3

-----------------------------------------------------------------------------
(* The invariant and what follows from it.                                 *)

LEMMA InitHolds == DispatchInit => IInv
<1> SUFFICES ASSUME DispatchInit PROVE IInv
  OBVIOUS
<1>1. \A t \in Threads : pc[t] = Loop /\ pc[t].at = "loop"
  BY LoopIs DEF DispatchInit
<1>2. \A f \in Fds : conns[f] = NoConn /\ conns[f].state = "none" /\ ~Live(f)
  BY DEF DispatchInit, NoConn, Live
<1>3. \A w \in Workers : queue[w] = <<>> /\ pipe[w] = <<>> /\ Len(queue[w]) = 0 /\ Len(pipe[w]) = 0
  BY DEF DispatchInit
<1>4. TypesOK
  <2>1. conns \in [Fds -> Conn]
    BY DEF DispatchInit, NoConn, Conn
  <2>2. pc \in [Threads -> Doing]
    BY LoopIs DEF DispatchInit
  <2>3. queue \in [Workers -> Seq(Item)] /\ pipe \in [Workers -> Seq(Msg)]
    BY DEF DispatchInit
  <2>4. last_thread \in Workers /\ PipeSize \in Nat
    BY DispatchAssumption DEF DispatchInit
  <2>5. \A w \in Workers : Len(pipe[w]) <= PipeSize
    BY <1>3, <2>4
  <2> QED BY <2>1, <2>2, <2>3, <2>4, <2>5 DEF DispatchInit, TypesOK
<1>5. PlacesOK
  BY <1>1, ThreadsAre DEF PlacesOK
<1>6. OwnOK
  BY <1>1, <1>2, <1>3 DEF OwnOK, QueueOnce, QueueOK, TakesOK, MarkOK, LiveOK, NoneForgotten, Takes, DispatchInit
<1>7. ConnsCounted
  <2>1. LiveSet = {} /\ MarkedSet = {}
    BY <1>1, <1>2 DEF LiveSet, MarkedSet
  <2> QED BY <1>5, <2>1, CountedIs, FS_EmptySet DEF DispatchInit
<1>8. ItemsAnnounced
  <2> SUFFICES ASSUME NEW w \in Workers
               PROVE  Len(queue[w]) = Cardinality(Bytes(pipe[w])) + Cardinality(Writers(w))
    BY AnnouncedIs
  <2>1. Bytes(pipe[w]) = {}
    BY <1>3 DEF Bytes
  <2>2. Writers(w) = {}
    BY <1>1, ThreadsAre DEF Writers
  <2> QED BY <1>3, <2>1, <2>2, FS_EmptySet
<1> QED BY <1>4, <1>5, <1>6, <1>7, <1>8 DEF IInv

LEMMA StutterKeeps ==
    ASSUME IInv, UNCHANGED dispatchVars
    PROVE  IInv'
<1>1. UNCHANGED <<clients, last_thread, fds, conns, queue, pipe, pc, cursor, curr_conns, uncounted, current_time, race>>
  BY DEF dispatchVars
<1>2. TypesOK' /\ PlacesOK'
  BY <1>1 DEF IInv, TypesOK, PlacesOK
<1>3. OwnOK'
  BY <1>1, OwnStays DEF IInv, OwnOK, MarkOK
<1>4. ConnsCounted'
  <2>1. \A g \in Fds : Live(g)' <=> Live(g)
    BY <1>1 DEF Live
  <2> QED BY <1>1, <1>2, <2>1, CountedStays
<1>5. ItemsAnnounced'
  <2>1. \A w : Writers(w)' = Writers(w)
    BY <1>1 DEF Writers
  <2> QED BY <1>1, <2>1, AnnouncedIs, AnnouncedIsNext DEF IInv
<1> QED BY <1>2, <1>3, <1>4, <1>5 DEF IInv

LEMMA NextKeeps ==
    ASSUME IInv, [DispatchNext]_dispatchVars
    PROVE  IInv'
<1>1. CASE UNCHANGED dispatchVars
  BY <1>1, StutterKeeps
<1>2. CASE MainStep
  BY <1>2, AcceptKeeps, QuietSteps, MainRefuses, DispatchKeeps, NotifyKeeps DEF MainStep
<1>3. CASE maxconns_handler \/ Connect \/ Second
  BY <1>3, QuietSteps
<1>4. CASE SideStep
  BY <1>4, RedispatchKeeps, SideCloses, NotifyKeeps, CloseKeeps, ThreadsAre DEF SideStep
<1>5. CASE conn_timeout_thread
  BY <1>5, TimeoutKeeps
<1>6. ASSUME NEW w \in Workers, WorkerStep(w) \/ Serve(w) PROVE IInv'
  BY <1>6, NewKeeps, ReaddKeeps, IdleKeeps, CloseKeeps, ServeKeeps, ThreadsAre DEF WorkerStep
<1> QED BY <1>1, <1>2, <1>3, <1>4, <1>5, <1>6 DEF DispatchNext

\* Every reachable state of the connections, queues and pipes satisfies the
\* invariant.
THEOREM DispatchInvariant == DispatchSpec => []IInv
BY InitHolds, NextKeeps, PTL DEF DispatchSpec

LEMMA OwnersAre ==
    ASSUME IInv
    PROVE  OneOwner
<1> SUFFICES ASSUME NEW f \in fds
             PROVE  Cardinality(Waits(f)) + (IF conns[f].state \in {"read", "watch"} THEN 1 ELSE 0)
                      + Cardinality({t \in Threads :
                            /\ pc[t].fd = f
                            /\ pc[t].at = "push" \/ (pc[t].at = "close" /\ conns[f].state = "closed")}) = 1
  BY DEF OneOwner
<1> DEFINE T == {t \in Threads :
                   /\ pc[t].fd = f
                   /\ pc[t].at = "push" \/ (pc[t].at = "close" /\ conns[f].state = "closed")}
<1>1. /\ QueueOnce /\ QueueOK /\ TakesOK /\ LiveOK /\ NoneForgotten /\ f \in Fds
  BY DEF IInv, OwnOK, TypesOK
<1>2. \A t : t \in T <=> t \in Threads /\ Takes(t) /\ pc[t].fd = f
  BY <1>1 DEF TakesOK, Takes
<1>3. \A w, n : <<w, n>> \in Waits(f) <=> w \in Workers /\ n \in 1 .. Len(queue[w]) /\ queue[w][n].fd = f
  BY DEF Waits
<1>4. \A p \in Waits(f) : \E w \in Workers : \E n \in 1 .. Len(queue[w]) : p = <<w, n>> /\ queue[w][n].fd = f
  BY DEF Waits
<1>5. T = {} \/ \E t \in Threads : T = {t} /\ Takes(t) /\ pc[t].fd = f
  BY <1>1, <1>2 DEF TakesOK
<1>6. Waits(f) = {} \/ (InQueue(f) /\ \E p : Waits(f) = {p})
  <2> SUFFICES ASSUME Waits(f) # {} PROVE InQueue(f) /\ \E p : Waits(f) = {p}
    OBVIOUS
  <2>1. PICK p : p \in Waits(f)
    OBVIOUS
  <2>a. PICK w \in Workers : \E n \in 1 .. Len(queue[w]) : p = <<w, n>> /\ queue[w][n].fd = f
    BY <1>4, <2>1
  <2>2. PICK n \in 1 .. Len(queue[w]) : p = <<w, n>> /\ queue[w][n].fd = f
    BY <2>a
  <2>3. \A q \in Waits(f) : q = p
    <3> SUFFICES ASSUME NEW q \in Waits(f) PROVE q = p
      OBVIOUS
    <3>a. PICK v \in Workers : \E m \in 1 .. Len(queue[v]) : q = <<v, m>> /\ queue[v][m].fd = f
      BY <1>4
    <3>1. PICK m \in 1 .. Len(queue[v]) : q = <<v, m>> /\ queue[v][m].fd = f
      BY <3>a
    <3>2. v = w /\ m = n
      BY <1>1, <2>2, <3>1 DEF QueueOnce
    <3> QED BY <2>2, <3>1, <3>2
  <2> QED BY <2>1, <2>2, <2>3 DEF InQueue
<1>7. InQueue(f) => Waits(f) # {}
  BY <1>3 DEF InQueue
<1>8. InQueue(f) => conns[f].state \notin {"read", "watch"} /\ T = {}
  BY <1>1, <1>2 DEF InQueue, QueueOK, Live
<1>9. T # {} => conns[f].state \notin {"read", "watch"} /\ ~InQueue(f)
  BY <1>1, <1>2, <1>8 DEF TakesOK, Live
<1>10. conns[f].state \in {"read", "watch"} \/ InQueue(f) \/ T # {}
  BY <1>1, <1>2 DEF NoneForgotten
<1> HIDE DEF T
<1>11. /\ T = {} => Cardinality(T) = 0
       /\ T # {} => Cardinality(T) = 1
       /\ Waits(f) = {} => Cardinality(Waits(f)) = 0
       /\ Waits(f) # {} => Cardinality(Waits(f)) = 1
  BY <1>5, <1>6, FS_EmptySet, FS_Singleton
<1>12. CASE InQueue(f)
  BY <1>7, <1>8, <1>11, <1>12 DEF T
<1>13. CASE T # {}
  BY <1>6, <1>9, <1>11, <1>13 DEF T
<1>14. CASE conns[f].state \in {"read", "watch"}
  BY <1>6, <1>8, <1>9, <1>11, <1>14 DEF T
<1> QED BY <1>10, <1>12, <1>13, <1>14

LEMMA OwnedIs == IInv => DescriptorsOwned
<1> SUFFICES ASSUME IInv PROVE DescriptorsOwned
  OBVIOUS
<1>1. DispatchTypeOK
  BY DEF IInv, TypesOK, DispatchTypeOK, Conn
<1>2. LiveIsOpen
  BY DEF IInv, OwnOK, LiveOK, LiveIsOpen
<1>3. ItemsAnnounced
  BY DEF IInv
<1> QED BY <1>1, <1>2, <1>3, OwnersAre DEF DescriptorsOwned

\* From accept to close each open descriptor is with exactly one thread, queue
\* or connection, each item in a queue has its byte, and no pipe overflows:
\* although conns is indexed by descriptors that the kernel gives away again.
THEOREM DescriptorsStayOwned == DispatchSpec => []DescriptorsOwned
BY DispatchInvariant, OwnedIs, PTL

\* curr_conns is the number of connections that live or are being closed, and
\* of those redispatch_conn lost count of.
THEOREM ConnsStayCounted == DispatchSpec => []ConnsCounted
<1>1. IInv => ConnsCounted
  BY DEF IInv
<1> QED BY <1>1, DispatchInvariant, PTL

\* The lengths of a sequence and of what it becomes.
LEMMA LengthsDiffer ==
    /\ \A a, b : Len(a) \in Nat /\ Len(b) = Len(a) - 1 => b # a
    /\ \A p \in Seq(Msg) : \A x : Len(Append(p, x)) = Len(p) + 1 /\ Len(p) \in Nat
<1>1. ASSUME NEW a, NEW b, Len(a) \in Nat, Len(b) = Len(a) - 1 PROVE b # a
  <2> SUFFICES ASSUME b = a PROVE FALSE
    OBVIOUS
  <2> DEFINE l == Len(a)
  <2>1. l \in Nat /\ l = l - 1
    BY <1>1
  <2> HIDE DEF l
  <2> QED BY <2>1
<1>2. ASSUME NEW p \in Seq(Msg), NEW x PROVE Len(Append(p, x)) = Len(p) + 1 /\ Len(p) \in Nat
  <2>1. p \in Seq(Msg \cup {x})
    <3>1. p \in [1 .. Len(p) -> Msg] /\ Len(p) \in Nat
      OBVIOUS
    <3>2. p \in [1 .. Len(p) -> Msg \cup {x}]
      BY <3>1
    <3> QED BY <3>1, <3>2
  <2> QED BY <2>1
<1> QED BY <1>1, <1>2

\* Nobody closes as idle a connection that is not, although the message may be
\* older than the connection that now has the descriptor.
LEMMA KickedIdles ==
    ASSUME IInv, [DispatchNext]_dispatchVars, NEW w \in Workers,
           pipe[w] # <<>>, Head(pipe[w]).msg = "t", pipe'[w] = Tail(pipe[w]), pc'[w].at # "loop"
    PROVE  Idles(pc'[w].fd) /\ Live(pc'[w].fd)
<1>1. TypesOK /\ pipe[w] \in Seq(Msg) /\ Len(pipe[w]) \in Nat
  BY DEF IInv, TypesOK
<1>2. Len(pipe'[w]) = Len(pipe[w]) - 1 /\ Head(pipe[w]) \in Msg
  BY <1>1, BytesTail
<1>3. pipe'[w] # pipe[w]
  BY <1>1, <1>2, LengthsDiffer
<1>4. ASSUME NEW v, NEW x, pipe' = [pipe EXCEPT ![v] = Append(@, x)] PROVE FALSE
  <2>1. v = w
    BY <1>1, <1>3, <1>4 DEF TypesOK
  <2>2. pipe'[w] = Append(pipe[w], x)
    BY <1>1, <1>4, <2>1 DEF TypesOK
  <2>3. Len(pipe'[w]) = Len(pipe[w]) + 1
    BY <1>1, <2>2, LengthsDiffer
  <2> QED BY <1>1, <1>2, <2>3
<1>5. ASSUME NEW v \in Workers, pipe' = [pipe EXCEPT ![v] = Tail(@)] PROVE v = w
  BY <1>1, <1>3, <1>5 DEF TypesOK
<1>6. conn_close_idle(w)
  <2>1. CASE UNCHANGED dispatchVars
    BY <1>3, <2>1 DEF dispatchVars
  <2>2. CASE MainStep
    BY <1>3, <1>4, <2>2 DEF MainStep, Accept, AcceptFails, StopListening, dispatch_conn_new, Notify, links
  <2>3. CASE maxconns_handler \/ Connect \/ Second
    BY <1>3, <2>3 DEF maxconns_handler, Connect, Second, links
  <2>4. CASE SideStep
    BY <1>3, <1>4, <2>4 DEF SideStep, redispatch_conn, SideClose, Notify, conn_close, links
  <2>5. CASE conn_timeout_thread
    BY <1>3, <1>4, <2>5 DEF conn_timeout_thread
  <2>6. ASSUME NEW v \in Workers, WorkerStep(v) \/ Serve(v) PROVE conn_close_idle(w)
    <3>1. CASE NewConnection(v) \/ conn_worker_readd(v)
      <4>1. v = w
        BY <1>5, <3>1 DEF NewConnection, conn_worker_readd, Notified
      <4> QED BY <3>1, <4>1 DEF NewConnection, conn_worker_readd, Notified
    <3>2. CASE conn_close_idle(v)
      <4>1. v = w
        BY <1>5, <3>2 DEF conn_close_idle, Notified
      <4> QED BY <3>2, <4>1
    <3>3. CASE conn_close(v) \/ Serve(v)
      BY <1>3, <3>3 DEF conn_close, Serve, links
    <3> QED BY <2>6, <3>1, <3>2, <3>3 DEF WorkerStep
  <2> QED BY <2>1, <2>2, <2>3, <2>4, <2>5, <2>6 DEF DispatchNext
<1>7. PICK f : f = Head(pipe[w]).fd
  OBVIOUS
<1>8. pc[w].at = "loop" /\ w \in Threads /\ f \in Fds
  BY <1>2, <1>6, <1>7, ThreadsAre DEF conn_close_idle, Notified, At, Msg
<1>9. Kick(f) /\ BeginClose(w, f)
  BY <1>6, <1>7, <1>8 DEF conn_close_idle
<1>10. pc'[w].fd = f
  <2>1. PICK d \in Doing : pc' = [pc EXCEPT ![w] = d] /\ d.at = "mark" /\ d.fd = f
    BY <1>8, <1>9, MarkIs
  <2> QED BY <1>8, <2>1, ThreadGoes
<1> QED BY <1>9, <1>10 DEF Kick, Live

THEOREM KickedStaysIdle == DispatchSpec => KickedWasIdle
<1>1. ASSUME IInv, [DispatchNext]_dispatchVars
      PROVE  [\A w \in Workers :
                 (pipe[w] # <<>> /\ Head(pipe[w]).msg = "t" /\ pipe'[w] = Tail(pipe[w]) /\ pc'[w].at # "loop")
                    => Idles(pc'[w].fd) /\ Live(pc'[w].fd)]_dispatchVars
  BY <1>1, KickedIdles
<1> QED BY <1>1, DispatchInvariant, PTL DEF DispatchSpec, KickedWasIdle

-----------------------------------------------------------------------------
=============================================================================
