---------------------------- MODULE BufferProofs ----------------------------
(***************************************************************************)
(* Proofs about the components that place bytes in memory and about the    *)
(* logger, which hands the entries of its buffers to the watchers.         *)
(*                                                                         *)
(* bipbuffer.c, for every buffer size and every request size: the          *)
(* invariants of BipBuffer are inductive only together.  A reservation is  *)
(* safe because the regions are disjoint, the regions stay disjoint        *)
(* because the switch to B is decided after every index update (SwitchOK). *)
(*                                                                         *)
(* GraphCached::read: that the segment always fits where read puts it, for *)
(* every size, key size and place in memory, and that it is complete when  *)
(* read returns, if the disk gives what it is asked for.                   *)
(*                                                                         *)
(* logger.c: that the log a watcher is sent is true, for any number of     *)
(* workers, watchers and entries.                                          *)
(***************************************************************************)
EXTENDS BipBuffer, SegmentRead, Logger, TLAPS, FiniteSetTheorems, SequenceTheorems, WellFoundedInduction

\* What __check_for_switch_to_b leaves true after every push and poll: as
\* long as B is off, the tail of the buffer is the larger free area.
SwitchOK ==
    b_inuse = 0 => Size - a_end >= a_start - b_end

Inv == TypeOK /\ RegionsOK /\ SwitchOK /\ PeekStable /\ SlotCurrent /\ OfferCannotFail

-----------------------------------------------------------------------------
\* Copying bytes into the buffer keeps it a buffer of bytes (memcpy in
\* bipbuf_offer, the caller's stores between bipbuf_request and bipbuf_push).
LEMMA CopyType ==
    ASSUME NEW pos \in Int, NEW n \in Nat, NEW s \in Bytes(n),
           data \in [Index -> Val]
    PROVE  Copy(pos, s, n) \in [Index -> Val]
  BY DEF Copy, Bytes, Index

\* bipbuf_push and bipbuf_offer: after n bytes that fit, the regions are still
\* disjoint and at least the previous free space less n is left, whichever
\* region is written next.
LEMMA AdvanceKeeps ==
    ASSUME Inv, NEW n \in 1 .. MaxReq, n <= bipbuf_unused, Advance(n)
    PROVE  /\ a_start' \in 0 .. Size /\ a_end' \in 0 .. Size /\ b_end' \in 0 .. Size
           /\ b_inuse' \in {0, 1}
           /\ RegionsOK' /\ SwitchOK'
           /\ a_start' = a_start /\ a_end' >= a_end
           /\ bipbuf_unused \in Nat /\ bipbuf_unused' \in Nat
           /\ bipbuf_unused' >= bipbuf_unused - n
  <1> USE SizeAssumption, MaxReqAssumption
  <1>1. CASE b_inuse = 1
    BY <1>1 DEF Inv, TypeOK, RegionsOK, SwitchOK, Advance, SwitchToB, bipbuf_unused
  <1>2. CASE b_inuse = 0
    BY <1>2 DEF Inv, TypeOK, RegionsOK, SwitchOK, Advance, SwitchToB, bipbuf_unused
  <1> QED BY <1>1, <1>2 DEF Inv, TypeOK

\* n bytes are a sequence of bytes.
LEMMA BytesAreSeq ==
    ASSUME NEW n \in Nat, NEW s \in Bytes(n)
    PROVE  s \in Seq(Val)
  BY DEF Bytes

-----------------------------------------------------------------------------
\* No call breaks the invariant.
LEMMA NextKeepsInv == Inv /\ [Next]_vars => Inv'
  <1> USE SizeAssumption, MaxReqAssumption
  <1> SUFFICES ASSUME Inv, [Next]_vars PROVE Inv'
    OBVIOUS
  <1>1. ASSUME NEW n \in 1 .. MaxReq, Request(n) PROVE Inv'
    BY <1>1 DEF Inv, TypeOK, RegionsOK, SwitchOK, PeekStable, SlotCurrent, OfferCannotFail,
                Request, WritePos, bipbuf_unused, region, reader, None, Index
  <1>2. ASSUME NEW n \in 1 .. MaxReq, NEW s \in Bytes(n), Push(n, s) PROVE Inv'
    <2>1. data' \in [Index -> Val]
      BY <1>2, CopyType DEF Push, Inv, TypeOK, None, Index
    <2>2. n <= bipbuf_unused /\ Advance(n)
      BY <1>2 DEF Push
    <2>3. sent' \in Seq(Val)
      BY <1>2, BytesAreSeq DEF Push
    <2>4. QED
      BY SMTT(30), <1>2, <2>1, <2>2, <2>3, AdvanceKeeps
         DEF Inv, TypeOK, PeekStable, SlotCurrent, OfferCannotFail, Push, reader, None
  <1>3. ASSUME NEW n \in 1 .. MaxReq, NEW s \in Bytes(n), Offer(n, s) PROVE Inv'
    <2>1. data' \in [Index -> Val]
      BY <1>3, CopyType DEF Offer, WritePos, Inv, TypeOK
    <2>2. n <= bipbuf_unused /\ Advance(n)
      BY <1>3 DEF Offer
    <2>3. sent' \in Seq(Val)
      BY <1>3, BytesAreSeq DEF Offer
    <2>4. QED
      BY SMTT(30), <1>3, <2>1, <2>2, <2>3, AdvanceKeeps
         DEF Inv, TypeOK, PeekStable, SlotCurrent, OfferCannotFail, Offer, reader, None
  <1>4. CASE PeekAll
    BY <1>4 DEF Inv, TypeOK, RegionsOK, SwitchOK, PeekStable, SlotCurrent, OfferCannotFail,
                PeekAll, bipbuf_is_empty, bipbuf_unused, region, reader, None, Index
  <1>5. ASSUME NEW n \in 1 .. Size, Poll(n) PROVE Inv'
    <2>1. peek_n > 0 /\ a_start + n <= a_end /\ slot = None /\ slot' = None
      BY <1>5 DEF Poll, Inv, TypeOK, PeekStable
    <2>2. CASE a_start + n = a_end
      BY <1>5, <2>1, <2>2 DEF Inv, TypeOK, RegionsOK, SwitchOK, PeekStable, SlotCurrent,
           OfferCannotFail, Poll, PollIndices, SwitchToB, bipbuf_unused, None
    <2>3. CASE a_start + n # a_end
      BY <1>5, <2>1, <2>3 DEF Inv, TypeOK, RegionsOK, SwitchOK, PeekStable, SlotCurrent,
           OfferCannotFail, Poll, PollIndices, SwitchToB, bipbuf_unused, None
    <2> QED BY <2>2, <2>3
  <1>6. CASE UNCHANGED vars
    BY <1>6 DEF Inv, TypeOK, RegionsOK, SwitchOK, PeekStable, SlotCurrent, OfferCannotFail,
                WritePos, bipbuf_unused, vars
  <1> QED BY <1>1, <1>2, <1>3, <1>4, <1>5, <1>6 DEF Next

\* The index arithmetic of bipbuffer.c: for every buffer size and every order
\* of request, push, offer, peek_all and poll, the regions are disjoint, what
\* the consumer is reading is not touched, a pushed slot is the reserved one
\* and promised room is there.
THEOREM BipBufferInvariant == Spec => []Inv
  <1> USE SizeAssumption, MaxReqAssumption
  <1>1. Init => Inv
    BY DEF Init, Inv, TypeOK, RegionsOK, SwitchOK, PeekStable, SlotCurrent,
           OfferCannotFail, bipbuf_unused, None, Index
  <1> QED BY <1>1, NextKeepsInv, PTL DEF Spec

\* "Can't fail because bipbuf_request succeeded" (logger.c) holds for every
\* buffer size: promised room is still there when it is used.
THEOREM OfferNeverFails == Spec => []OfferCannotFail
  BY BipBufferInvariant, PTL DEF Inv

\* The consumer's unlocked read is safe for every buffer size: the peeked bytes
\* stay the head of region A until they are polled.
THEOREM PeekIsStable == Spec => []PeekStable
  BY BipBufferInvariant, PTL DEF Inv

\* The regions stay inside the buffer and apart for every buffer size, and no
\* bytes are stranded in B behind an empty A.
THEOREM RegionsStayApart == Spec => []RegionsOK
  BY BipBufferInvariant, PTL DEF Inv

\* The logger thread may write to a socket straight from the buffer, for every
\* buffer size: regions well formed, the part being read in place.
THEOREM ReadsStayInPlace == Spec => []ReadInPlace
  <1>1. Inv => ReadInPlace
    BY DEF Inv, ReadInPlace
  <1> QED BY <1>1, BipBufferInvariant, PTL
-----------------------------------------------------------------------------
(* The circular buffer is a queue of bytes, whatever its size.             *)

LEMMA SameBytes ==
    ASSUME NEW s \in Seq(Val), NEW t \in Seq(Val), Len(s) = Len(t), \A i \in 1 .. Len(s) : s[i] = t[i]
    PROVE  s = t
  OBVIOUS

LEMMA ConcatIs ==
    ASSUME NEW c \in Seq(Val), NEW s \in Seq(Val)
    PROVE  /\ c \o s \in Seq(Val) /\ Len(c \o s) = Len(c) + Len(s)
           /\ \A i \in 1 .. Len(c) : (c \o s)[i] = c[i]
           /\ \A i \in 1 .. Len(c) + Len(s) : i > Len(c) => (c \o s)[i] = s[i - Len(c)]
  OBVIOUS

\* The bytes in the order in which they will be polled, A before B.
LEMMA ContentsAre ==
    Inv => /\ bipbuf_used \in Nat /\ bipbuf_used = (a_end - a_start) + b_end
           /\ Contents \in Seq(Val) /\ Len(Contents) = bipbuf_used
           /\ \A i \in 1 .. bipbuf_used :
                 /\ i <= a_end - a_start => Contents[i] = data[a_start + i - 1]
                 /\ i > a_end - a_start => Contents[i] = data[i - (a_end - a_start) - 1]
  <1> SUFFICES ASSUME Inv
               PROVE  /\ bipbuf_used \in Nat /\ bipbuf_used = (a_end - a_start) + b_end
                      /\ Contents \in Seq(Val) /\ Len(Contents) = bipbuf_used
                      /\ \A i \in 1 .. bipbuf_used :
                            /\ i <= a_end - a_start => Contents[i] = data[a_start + i - 1]
                            /\ i > a_end - a_start => Contents[i] = data[i - (a_end - a_start) - 1]
    OBVIOUS
  <1>1. /\ a_start \in 0 .. Size /\ a_end \in 0 .. Size /\ b_end \in 0 .. Size /\ data \in [Index -> Val]
        /\ a_start <= a_end /\ b_end <= a_start /\ Size \in Nat
    BY SizeAssumption DEF Inv, TypeOK, RegionsOK
  <1>2. bipbuf_used \in Nat /\ bipbuf_used = (a_end - a_start) + b_end
    BY <1>1 DEF bipbuf_used
  <1>3. ASSUME NEW i \in 1 .. bipbuf_used
        PROVE  /\ i <= a_end - a_start => a_start + i - 1 \in Index
               /\ i > a_end - a_start => i - (a_end - a_start) - 1 \in Index
    BY <1>1, <1>2, <1>3 DEF Index
  <1>4. Contents \in [1 .. bipbuf_used -> Val]
    BY <1>1, <1>2, <1>3 DEF Contents
  <1>5. ASSUME NEW i \in 1 .. bipbuf_used
        PROVE  /\ i <= a_end - a_start => Contents[i] = data[a_start + i - 1]
               /\ i > a_end - a_start => Contents[i] = data[i - (a_end - a_start) - 1]
    BY <1>1, <1>2, <1>5 DEF Contents
  <1>6. Contents \in Seq(Val) /\ Len(Contents) = bipbuf_used
    BY <1>2, <1>4
  <1> QED BY <1>2, <1>5, <1>6

\* What the consumer reads is the head of A.
LEMMA PeekedAre ==
    Inv => /\ PeekedBytes \in Seq(Val) /\ Len(PeekedBytes) = peek_n /\ peek_n \in Nat
           /\ peek_n > 0 => peek_pos = a_start /\ peek_n <= a_end - a_start
           /\ \A i \in 1 .. peek_n : PeekedBytes[i] = data[peek_pos + i - 1]
  <1> SUFFICES ASSUME Inv
               PROVE  /\ PeekedBytes \in Seq(Val) /\ Len(PeekedBytes) = peek_n /\ peek_n \in Nat
                      /\ peek_n > 0 => peek_pos = a_start /\ peek_n <= a_end - a_start
                      /\ \A i \in 1 .. peek_n : PeekedBytes[i] = data[peek_pos + i - 1]
    OBVIOUS
  <1>1. /\ a_start \in 0 .. Size /\ a_end \in 0 .. Size /\ data \in [Index -> Val] /\ Size \in Nat
        /\ peek_n \in 0 .. Size /\ peek_pos \in Index
        /\ peek_n > 0 => peek_pos = a_start /\ peek_pos + peek_n <= a_end
    BY SizeAssumption DEF Inv, TypeOK, RegionsOK, PeekStable
  <1>2. ASSUME NEW i \in 1 .. peek_n PROVE peek_pos + i - 1 \in Index
    BY <1>1, <1>2 DEF Index
  <1>3. PeekedBytes \in [1 .. peek_n -> Val]
    BY <1>1, <1>2 DEF PeekedBytes
  <1>4. PeekedBytes \in Seq(Val) /\ Len(PeekedBytes) = peek_n
    BY <1>1, <1>3
  <1>5. peek_n > 0 => peek_n <= a_end - a_start
    BY <1>1
  <1>6. \A i \in 1 .. peek_n : PeekedBytes[i] = data[peek_pos + i - 1]
    BY DEF PeekedBytes
  <1> QED BY <1>1, <1>4, <1>5, <1>6

LEMMA ContentsAreNext ==
    Inv' => /\ bipbuf_used' \in Nat /\ bipbuf_used' = (a_end' - a_start') + b_end'
            /\ Contents' \in Seq(Val) /\ Len(Contents') = bipbuf_used'
            /\ \A i \in 1 .. bipbuf_used' :
                  /\ i <= a_end' - a_start' => Contents'[i] = data'[a_start' + i - 1]
                  /\ i > a_end' - a_start' => Contents'[i] = data'[i - (a_end' - a_start') - 1]
  <1>1. (Inv => /\ bipbuf_used \in Nat /\ bipbuf_used = (a_end - a_start) + b_end
                /\ Contents \in Seq(Val) /\ Len(Contents) = bipbuf_used
                /\ \A i \in 1 .. bipbuf_used :
                      /\ i <= a_end - a_start => Contents[i] = data[a_start + i - 1]
                      /\ i > a_end - a_start => Contents[i] = data[i - (a_end - a_start) - 1])'
    BY ContentsAre, PTL
  <1> QED BY <1>1

LEMMA PeekedAreNext ==
    Inv' => /\ PeekedBytes' \in Seq(Val) /\ Len(PeekedBytes') = peek_n' /\ peek_n' \in Nat
            /\ peek_n' > 0 => peek_pos' = a_start' /\ peek_n' <= a_end' - a_start'
            /\ \A i \in 1 .. peek_n' : PeekedBytes'[i] = data'[peek_pos' + i - 1]
  <1>1. (Inv => /\ PeekedBytes \in Seq(Val) /\ Len(PeekedBytes) = peek_n /\ peek_n \in Nat
                /\ peek_n > 0 => peek_pos = a_start /\ peek_n <= a_end - a_start
                /\ \A i \in 1 .. peek_n : PeekedBytes[i] = data[peek_pos + i - 1])'
    BY PeekedAre, PTL
  <1> QED BY <1>1

\* Bytes that are copied where WritePos points end up behind all others.
LEMMA SendIsSend ==
    ASSUME Inv, Inv', NEW n \in 1 .. MaxReq, NEW s \in Bytes(n), n <= bipbuf_unused,
           data' = Copy(WritePos, s, n), Advance(n), sent' = s, UNCHANGED reader
    PROVE  Fifo!Send(s)
  <1>1. /\ a_start \in 0 .. Size /\ a_end \in 0 .. Size /\ b_end \in 0 .. Size /\ b_inuse \in {0, 1}
        /\ data \in [Index -> Val] /\ Size \in Nat /\ n \in Nat /\ n >= 1
        /\ a_start <= a_end /\ (b_inuse = 0 => b_end = 0)
        /\ (b_inuse = 1 => b_end <= a_start /\ a_start < a_end)
    BY SizeAssumption, MaxReqAssumption DEF Inv, TypeOK, RegionsOK
  <1>2. s \in Seq(Val) /\ Len(s) = n
    BY <1>1 DEF Bytes
  <1> DEFINE u == bipbuf_used
             k == a_end - a_start
  <1>3. /\ u \in Nat /\ u = k + b_end /\ k \in Nat
        /\ Contents \in Seq(Val) /\ Len(Contents) = u
        /\ \A i \in 1 .. u :
              /\ i <= k => Contents[i] = data[a_start + i - 1]
              /\ i > k => Contents[i] = data[i - k - 1]
    BY <1>1, ContentsAre
  <1> DEFINE kn == a_end' - a_start'
  <1>4. /\ bipbuf_used' = u + n /\ a_start' = a_start
        /\ b_inuse = 1 => kn = k /\ b_end' = b_end + n
        /\ b_inuse = 0 => kn = k + n /\ b_end' = b_end
        /\ Contents' \in Seq(Val) /\ Len(Contents') = u + n
        /\ \A i \in 1 .. u + n :
              /\ i <= kn => Contents'[i] = data'[a_start + i - 1]
              /\ i > kn => Contents'[i] = data'[i - kn - 1]
    <2>1. /\ a_start' = a_start
          /\ b_inuse = 1 => kn = k /\ b_end' = b_end + n
          /\ b_inuse = 0 => kn = k + n /\ b_end' = b_end
      BY <1>1 DEF Advance
    <2>2. bipbuf_used' = kn + b_end'
      BY ContentsAreNext
    <2> HIDE DEF u, k, kn
    <2>3. bipbuf_used' = u + n
      <3>1. CASE b_inuse = 1
        BY <1>1, <1>3, <2>1, <2>2, <3>1
      <3>2. CASE b_inuse = 0
        BY <1>1, <1>3, <2>1, <2>2, <3>2
      <3> QED BY <1>1, <3>1, <3>2
    <2> USE DEF kn
    <2> QED BY <2>1, <2>3, ContentsAreNext
  <1>5. \A i \in Index : data'[i] = IF WritePos <= i /\ i < WritePos + n THEN s[i - WritePos + 1] ELSE data[i]
    BY DEF Copy
  <1>6. /\ b_inuse = 1 => WritePos = b_end /\ b_end + n <= a_start
        /\ b_inuse = 0 => WritePos = a_end /\ a_end + n <= Size
    BY <1>1 DEF WritePos, bipbuf_unused
  <1> DEFINE c == Contents
             cn == Contents'
  <1> HIDE DEF u, k, kn, c, cn
  <1>a. c \in Seq(Val) /\ Len(c) = u /\ cn \in Seq(Val) /\ Len(cn) = u + n
    BY <1>3, <1>4 DEF c, cn
  <1>7. c \o s \in Seq(Val) /\ Len(c \o s) = u + n /\ (\A i \in 1 .. u : (c \o s)[i] = c[i])
        /\ \A i \in 1 .. u + n : i > u => (c \o s)[i] = s[i - u]
    <2>1. Len(c) + Len(s) = u + n
      BY <1>2, <1>a
    <2> QED BY <1>2, <1>a, <2>1, ConcatIs
  <1>8. ASSUME NEW i \in 1 .. u + n PROVE cn[i] = (c \o s)[i]
    <2>1. CASE i <= u /\ b_inuse = 1
      <3>1. i \in 1 .. u /\ (i <= k => a_start + i - 1 \in Index /\ a_start + i - 1 >= WritePos + n)
            /\ (i > k => i - k - 1 \in Index /\ i - k - 1 < WritePos)
        BY <1>1, <1>3, <1>6, <1>8, <2>1 DEF Index, k
      <3>2. CASE i <= k
        <4>1. cn[i] = data'[a_start + i - 1] /\ c[i] = data[a_start + i - 1]
          BY <1>3, <1>4, <1>8, <2>1, <3>1, <3>2 DEF c, cn
        <4>2. data'[a_start + i - 1] = data[a_start + i - 1]
          BY <1>1, <1>5, <1>6, <2>1, <3>1, <3>2 DEF Index
        <4> QED BY <1>7, <3>1, <4>1, <4>2
      <3>3. CASE i > k
        <4>1. cn[i] = data'[i - k - 1] /\ c[i] = data[i - k - 1]
          BY <1>3, <1>4, <1>8, <2>1, <3>1, <3>3 DEF c, cn
        <4>2. data'[i - k - 1] = data[i - k - 1]
          BY <1>1, <1>5, <1>6, <2>1, <3>1, <3>3 DEF Index
        <4> QED BY <1>7, <3>1, <4>1, <4>2
      <3>4. i <= k \/ i > k
        BY <1>3, <3>1
      <3> QED BY <3>2, <3>3, <3>4
    <2>2. CASE i <= u /\ b_inuse = 0
      <3>1. i \in 1 .. u /\ i <= k /\ i <= kn /\ a_start + i - 1 \in Index /\ a_start + i - 1 < WritePos
        BY <1>1, <1>3, <1>4, <1>6, <1>8, <2>2 DEF Index, k
      <3>2. cn[i] = data'[a_start + i - 1] /\ c[i] = data[a_start + i - 1]
        BY <1>3, <1>4, <1>8, <2>2, <3>1 DEF c, cn
      <3>3. data'[a_start + i - 1] = data[a_start + i - 1]
        BY <1>1, <1>5, <1>6, <2>2, <3>1 DEF Index
      <3> QED BY <1>7, <3>1, <3>2, <3>3
    <2>3. CASE i > u /\ b_inuse = 1
      <3>1. /\ i > kn /\ i - kn - 1 \in Index /\ WritePos <= i - kn - 1 /\ i - kn - 1 < WritePos + n
            /\ (i - kn - 1) - WritePos + 1 = i - u
        BY <1>1, <1>3, <1>4, <1>6, <1>8, <2>3 DEF Index
      <3>2. cn[i] = data'[i - kn - 1]
        BY <1>4, <1>8, <3>1 DEF cn
      <3>3. data'[i - kn - 1] = s[i - u]
        BY <1>5, <3>1
      <3> QED BY <1>7, <1>8, <2>3, <3>2, <3>3
    <2>4. CASE i > u /\ b_inuse = 0
      <3>1. /\ i <= kn /\ a_start + i - 1 \in Index /\ WritePos <= a_start + i - 1 /\ a_start + i - 1 < WritePos + n
            /\ (a_start + i - 1) - WritePos + 1 = i - u
        BY <1>1, <1>3, <1>4, <1>6, <1>8, <2>4 DEF Index, k
      <3>2. cn[i] = data'[a_start + i - 1]
        BY <1>4, <1>8, <3>1 DEF cn
      <3>3. data'[a_start + i - 1] = s[i - u]
        BY <1>5, <3>1
      <3> QED BY <1>7, <1>8, <2>4, <3>2, <3>3
    <2>5. (i <= u \/ i > u) /\ (b_inuse = 0 \/ b_inuse = 1)
      BY <1>1, <1>3, <1>8
    <2> QED BY <2>1, <2>2, <2>3, <2>4, <2>5
  <1>9. cn = c \o s
    BY <1>7, <1>8, <1>a, SameBytes
  <1> DEFINE v == PeekedBytes
             vn == PeekedBytes'
  <1>10. /\ v \in Seq(Val) /\ Len(v) = peek_n /\ peek_n \in Nat
         /\ peek_n > 0 => peek_pos = a_start /\ peek_n <= k
         /\ \A i \in 1 .. peek_n : v[i] = data[peek_pos + i - 1]
    BY PeekedAre DEF k
  <1>11. /\ vn \in Seq(Val) /\ Len(vn) = peek_n
         /\ \A i \in 1 .. peek_n : vn[i] = data'[peek_pos + i - 1]
    BY PeekedAreNext DEF reader
  <1> HIDE DEF v, vn
  <1>12. ASSUME NEW i \in 1 .. peek_n PROVE vn[i] = v[i]
    <2>1. peek_pos + i - 1 \in Index /\ (peek_pos + i - 1 < WritePos \/ peek_pos + i - 1 >= WritePos + n)
      BY <1>1, <1>6, <1>10, <1>12 DEF Index, k
    <2>2. data'[peek_pos + i - 1] = data[peek_pos + i - 1]
      BY <1>1, <1>5, <1>6, <2>1 DEF Index
    <2> QED BY <1>10, <1>11, <1>12, <2>2
  <1>13. vn = v
    BY <1>10, <1>11, <1>12, SameBytes
  <1> QED BY <1>9, <1>13 DEF Fifo!Send, c, cn, v, vn

\* bipbuf_peek_all shows a part of the head.
LEMMA PeekIsView ==
    ASSUME Inv, Inv', PeekAll
    PROVE  \E n \in 1 .. Len(Contents) : Fifo!View(n)
  <1> DEFINE k == a_end - a_start
             c == Contents
  <1>1. /\ a_start \in 0 .. Size /\ a_end \in 0 .. Size /\ Size \in Nat /\ a_start < a_end
        /\ a_start' = a_start /\ a_end' = a_end /\ b_end' = b_end /\ data' = data /\ sent' = sent
        /\ peek_n = 0 /\ peek_pos' = a_start /\ peek_n' = k /\ b_end \in Nat
    BY SizeAssumption DEF Inv, TypeOK, RegionsOK, PeekAll, bipbuf_is_empty, region
  <1>2. /\ k \in Nat /\ k >= 1 /\ bipbuf_used = k + b_end
        /\ c \in Seq(Val) /\ Len(c) = bipbuf_used
        /\ \A i \in 1 .. bipbuf_used : i <= k => c[i] = data[a_start + i - 1]
    <2>1. /\ bipbuf_used \in Nat /\ bipbuf_used = (a_end - a_start) + b_end
          /\ Contents \in Seq(Val) /\ Len(Contents) = bipbuf_used
          /\ \A i \in 1 .. bipbuf_used :
                /\ i <= a_end - a_start => Contents[i] = data[a_start + i - 1]
                /\ i > a_end - a_start => Contents[i] = data[i - (a_end - a_start) - 1]
      BY ContentsAre
    <2>2. k \in Nat /\ k >= 1
      BY <1>1
    <2> QED BY <2>1, <2>2
  <1>3. Contents' = c
    BY <1>1 DEF Contents, bipbuf_used
  <1>4. /\ PeekedBytes' \in Seq(Val) /\ Len(PeekedBytes') = k
        /\ \A i \in 1 .. k : PeekedBytes'[i] = data[a_start + i - 1]
    BY <1>1, PeekedAreNext
  <1>5. PeekedBytes = <<>>
    BY <1>1, PeekedAre
  <1> HIDE DEF c, k
  <1>6. k \in 1 .. Len(c)
    BY <1>1, <1>2
  <1>7. /\ SubSeq(c, 1, k) \in Seq(Val) /\ Len(SubSeq(c, 1, k)) = k
        /\ \A i \in 1 .. k : SubSeq(c, 1, k)[i] = c[i]
    BY <1>2, <1>6
  <1>8. \A i \in 1 .. k : c[i] = data[a_start + i - 1]
    BY <1>1, <1>2
  <1>9. PeekedBytes' = SubSeq(c, 1, k)
    BY <1>4, <1>7, <1>8, SameBytes
  <1>10. Fifo!View(k)
    BY <1>1, <1>3, <1>5, <1>9 DEF Fifo!View, c
  <1> QED BY <1>6, <1>10 DEF c

\* bipbuf_poll drops what was read from the head; when A is empty, B is next.
LEMMA PollIsConsume ==
    ASSUME Inv, Inv', NEW n \in 1 .. Size, Poll(n)
    PROVE  n \in 1 .. Len(PeekedBytes) /\ Fifo!Consume(n)
  <1> DEFINE k == a_end - a_start
             c == Contents
             cn == Contents'
             v == PeekedBytes
             u == bipbuf_used
  <1>1. /\ a_start \in 0 .. Size /\ a_end \in 0 .. Size /\ Size \in Nat /\ b_end \in Nat /\ b_inuse \in {0, 1}
        /\ a_start <= a_end /\ (b_inuse = 0 => b_end = 0)
        /\ n \in Nat /\ n >= 1 /\ n <= peek_n /\ peek_n' = 0 /\ data' = data /\ sent' = sent /\ PollIndices(n)
    BY SizeAssumption DEF Inv, TypeOK, RegionsOK, Poll
  <1>2. /\ u \in Nat /\ u = k + b_end /\ k \in Nat
        /\ c \in Seq(Val) /\ Len(c) = u
        /\ \A i \in 1 .. u :
              /\ i <= k => c[i] = data[a_start + i - 1]
              /\ i > k => c[i] = data[i - k - 1]
    <2>1. /\ bipbuf_used \in Nat /\ bipbuf_used = (a_end - a_start) + b_end
          /\ Contents \in Seq(Val) /\ Len(Contents) = bipbuf_used
          /\ \A i \in 1 .. bipbuf_used :
                /\ i <= a_end - a_start => Contents[i] = data[a_start + i - 1]
                /\ i > a_end - a_start => Contents[i] = data[i - (a_end - a_start) - 1]
      BY ContentsAre
    <2>2. k \in Nat
      BY <1>1
    <2> QED BY <2>1, <2>2
  <1>3. /\ v \in Seq(Val) /\ Len(v) = peek_n /\ peek_n \in Nat /\ peek_pos = a_start /\ peek_n <= k
        /\ \A i \in 1 .. peek_n : v[i] = data[peek_pos + i - 1]
    BY <1>1, PeekedAre
  <1>4. PeekedBytes' = <<>>
    BY <1>1, PeekedAreNext
  <1> DEFINE kn == a_end' - a_start'
  <1>5. /\ cn \in Seq(Val) /\ Len(cn) = bipbuf_used' /\ bipbuf_used' = kn + b_end'
        /\ \A i \in 1 .. bipbuf_used' :
              /\ i <= kn => cn[i] = data[a_start' + i - 1]
              /\ i > kn => cn[i] = data[i - kn - 1]
    <2>1. /\ bipbuf_used' \in Nat /\ bipbuf_used' = (a_end' - a_start') + b_end'
          /\ Contents' \in Seq(Val) /\ Len(Contents') = bipbuf_used'
          /\ \A i \in 1 .. bipbuf_used' :
                /\ i <= a_end' - a_start' => Contents'[i] = data'[a_start' + i - 1]
                /\ i > a_end' - a_start' => Contents'[i] = data'[i - (a_end' - a_start') - 1]
      BY ContentsAreNext
    <2>2. data' = data
      BY <1>1
    <2> HIDE DEF c, v, u, k
    <2> QED BY <2>1, <2>2
  <1> HIDE DEF c, cn, v, u
  <1>6. n <= k /\ n <= u /\ u - n \in Nat
    BY <1>1, <1>2, <1>3
  <1>7. /\ n < k => kn = k - n /\ b_end' = b_end /\ a_start' = a_start + n
        /\ n = k => kn = b_end /\ b_end' = 0 /\ a_start' = 0
    BY <1>1 DEF PollIndices
  <1>8. bipbuf_used' = u - n
    BY <1>1, <1>2, <1>5, <1>6, <1>7
  <1> HIDE DEF kn, k
  <1>9. /\ SubSeq(c, 1, n) \in Seq(Val) /\ Len(SubSeq(c, 1, n)) = n
        /\ \A i \in 1 .. n : SubSeq(c, 1, n)[i] = c[i]
    BY <1>1, <1>2, <1>6
  <1>10. /\ SubSeq(v, 1, n) \in Seq(Val) /\ Len(SubSeq(v, 1, n)) = n
         /\ \A i \in 1 .. n : SubSeq(v, 1, n)[i] = v[i]
    BY <1>1, <1>3
  <1>11. \A i \in 1 .. n : c[i] = v[i]
    <2> SUFFICES ASSUME NEW i \in 1 .. n PROVE c[i] = v[i]
      OBVIOUS
    <2>1. i \in 1 .. u /\ i <= k /\ i \in 1 .. peek_n
      BY <1>1, <1>2, <1>3, <1>6
    <2> QED BY <1>2, <1>3, <2>1
  <1>12. SubSeq(c, 1, n) = SubSeq(v, 1, n)
    BY <1>9, <1>10, <1>11, SameBytes
  <1>13. /\ SubSeq(c, n + 1, Len(c)) \in Seq(Val) /\ Len(SubSeq(c, n + 1, Len(c))) = u - n
         /\ \A i \in 1 .. u - n : SubSeq(c, n + 1, Len(c))[i] = c[n + i]
    BY <1>1, <1>2, <1>6
  <1>14. ASSUME NEW i \in 1 .. u - n PROVE cn[i] = c[n + i]
    <2>1. n + i \in 1 .. u
      BY <1>1, <1>2, <1>14
    <2>2. CASE n < k /\ n + i <= k
      <3>1. i <= kn /\ a_start' + i - 1 = a_start + (n + i) - 1
        BY <1>1, <1>2, <1>7, <1>14, <2>2
      <3> QED BY <1>2, <1>5, <1>8, <1>14, <2>1, <2>2, <3>1
    <2>3. CASE n < k /\ n + i > k
      <3>1. i > kn /\ i - kn - 1 = (n + i) - k - 1
        BY <1>1, <1>2, <1>7, <1>14, <2>3
      <3> QED BY <1>2, <1>5, <1>8, <1>14, <2>1, <2>3, <3>1
    <2>4. CASE n = k
      <3>1. i <= kn /\ a_start' + i - 1 = (n + i) - k - 1 /\ n + i > k
        BY <1>1, <1>2, <1>7, <1>14, <2>4
      <3> QED BY <1>2, <1>5, <1>8, <1>14, <2>1, <3>1
    <2> QED BY <1>1, <1>2, <1>6, <2>2, <2>3, <2>4
  <1>15. cn = SubSeq(c, n + 1, Len(c))
    BY <1>5, <1>8, <1>13, <1>14, SameBytes
  <1>16. n \in 1 .. Len(v)
    BY <1>1, <1>3
  <1> QED BY <1>1, <1>4, <1>12, <1>15, <1>16 DEF Fifo!Consume, c, cn, v

\* Initially nothing is stored and nothing is being read.
LEMMA InitIsInit == Init => Fifo!Init
  <1> SUFFICES ASSUME Init PROVE Fifo!Init
    OBVIOUS
  <1>1. Contents = <<>>
    <2>1. bipbuf_used = 0
      BY DEF Init, bipbuf_used
    <2> QED BY <2>1 DEF Contents
  <1>2. PeekedBytes = <<>>
    BY DEF Init, PeekedBytes
  <1> QED BY <1>1, <1>2 DEF Init, Fifo!Init

\* Every call is an operation of the queue, or changes nothing in it.
LEMMA StepIsStep ==
    ASSUME Inv, Inv', [Next]_vars
    PROVE  [Fifo!Next]_(Fifo!vars)
  <1>1. ASSUME NEW n \in 1 .. MaxReq, Request(n) PROVE UNCHANGED Fifo!vars
    BY <1>1 DEF Request, region, reader, Contents, PeekedBytes, bipbuf_used, Fifo!vars
  <1>2. ASSUME NEW n \in 1 .. MaxReq, NEW s \in Bytes(n), Push(n, s) PROVE Fifo!Next
    <2>1. slot = WritePos
      BY <1>2 DEF Inv, SlotCurrent, Push
    <2>2. Fifo!Send(s)
      BY <1>2, <2>1, SendIsSend DEF Push
    <2> QED BY <2>2 DEF Fifo!Next, Bytes
  <1>3. ASSUME NEW n \in 1 .. MaxReq, NEW s \in Bytes(n), Offer(n, s) PROVE Fifo!Next
    <2>1. Fifo!Send(s)
      BY <1>3, SendIsSend DEF Offer
    <2> QED BY <2>1 DEF Fifo!Next, Bytes
  <1>4. CASE PeekAll
    BY <1>4, PeekIsView DEF Fifo!Next
  <1>5. ASSUME NEW n \in 1 .. Size, Poll(n) PROVE Fifo!Next
    BY <1>5, PollIsConsume DEF Fifo!Next
  <1>6. CASE UNCHANGED vars
    BY <1>6 DEF vars, Contents, PeekedBytes, bipbuf_used, Fifo!vars
  <1> QED BY <1>1, <1>2, <1>3, <1>4, <1>5, <1>6 DEF Next

\* bipbuffer.c implements a FIFO of bytes for every buffer size: nothing is
\* lost, duplicated, reordered, or overwritten while it is being read.
THEOREM BufferIsFifo == Spec => ImplementsFifo
  <1>1. Inv /\ Inv' /\ [Next]_vars => [Fifo!Next]_(Fifo!vars)
    BY StepIsStep
  <1> QED BY <1>1, InitIsInit, BipBufferInvariant, PTL DEF Spec, ImplementsFifo, Fifo!Spec

-----------------------------------------------------------------------------
(* The memory of a segment. *)

\* DiskComponent::data moves a pointer up to the next page boundary: by less
\* than a page, and not at all if it is on one.
LEMMA DataRoundsUp ==
    ASSUME NEW ptr \in Nat
    PROVE  /\ DiskComponent_data(ptr) \in Nat
           /\ DiskComponent_data(ptr) % 4096 = 0
           /\ ptr <= DiskComponent_data(ptr)
           /\ DiskComponent_data(ptr) <= ptr + 4095
           /\ ptr % 4096 # 1 => DiskComponent_data(ptr) <= ptr + 4094
           /\ ptr % 4096 = 0 => DiskComponent_data(ptr) = ptr
BY SMT DEF DiskComponent_data, GCPAGESIZE

\* The segment ends before the chunk does.
Roomy(nkey, s, it, slack) ==
    DiskComponent_data(ITEM_data(it, nkey) + DSize) + s <= it + ChunkSize(nkey, s, slack)

\* The room of an item suffices: the one byte that do_item_alloc forgets is
\* needed only when the key's size is a multiple of 8, and then the rounding of
\* the chunk size adds it.
LEMMA ItemHasRoom ==
    ASSUME NEW nkey \in Nat, NEW s \in Nat, NEW it \in Nat, NEW slack \in 0 .. 7,
           s % 4096 = 0, it % 8 = 0,
           Aligned(ChunkSize(nkey, s, slack))
    PROVE  Roomy(nkey, s, it, slack)
<1> DEFINE ptr == ITEM_data(it, nkey) + DSize
<1>1. CasBytes \in {0, 8}
  BY DEF CasBytes
<1>2. DSize \in Nat /\ DSize % 8 = 0
  BY ObjectAssumption
<1>3. ptr \in Nat
  BY <1>1, <1>2 DEF ITEM_data, ItemHeader
<1>4. ptr % 4096 = 1 => slack >= 1
  <2>1. s % 8 = 0
    OBVIOUS
  <2>2. ptr % 4096 = 1 => ptr % 8 = 1
    BY <1>3
  <2>3. ptr % 8 = (nkey + 1) % 8
    BY <1>1, <1>2 DEF ITEM_data, ItemHeader
  <2>4. ChunkSize(nkey, s, slack) % 8 = (nkey + 7 + slack) % 8
    BY <1>1, <1>2, <2>1 DEF ChunkSize, ntotal, ItemHeader, GCPAGESIZE
  <2>5. (nkey + 7 + slack) % 8 = 0
    BY <2>4 DEF Aligned, CHUNK_ALIGN_BYTES
  <2>6. QED
    BY <2>2, <2>3, <2>5
<1>5. DiskComponent_data(ptr) \in Nat /\ DiskComponent_data(ptr) <= ptr + 4095 /\ (ptr % 4096 # 1 => DiskComponent_data(ptr) <= ptr + 4094)
  BY SMTT(30), <1>3, DataRoundsUp
<1>6. DiskComponent_data(ptr) <= ptr + 4094 + slack
  BY <1>3, <1>4, <1>5
<1>7. ptr + 4094 + slack + s = it + ChunkSize(nkey, s, slack)
  BY <1>1, <1>2 DEF ITEM_data, ChunkSize, ntotal, ItemHeader, GCPAGESIZE
<1>8. QED
  BY <1>3, <1>5, <1>6, <1>7 DEF Roomy

\* Addresses and counts are natural numbers: the loop only adds.
LEMMA TypePreserved == SegTypeOK /\ [SegNext]_segVars => SegTypeOK'
<1> SUFFICES ASSUME SegTypeOK, [SegNext]_segVars PROVE SegTypeOK'
  OBVIOUS
<1> USE DEF SegTypeOK
<1>1. CASE Call
  <2>1. PICK s \in Sizes, r \in Rests, p \in Places :
           \/ ReadIntoHeap(s, r, p)
           \/ \E nkey \in KeySizes, slack \in 0 .. CHUNK_ALIGN_BYTES - 1 :
                 ReadIntoItem(nkey, s, r, p, slack)
    BY <1>1 DEF Call
  <2>2. s \in Nat /\ r \in Nat /\ p \in Nat /\ DSize \in Nat /\ CasBytes \in Nat
    BY SizesAssumption, InputsAssumption, PlacesAssumption, ObjectAssumption DEF CasBytes
  <2>3. CASE ReadIntoHeap(s, r, p)
    BY <2>2, <2>3 DEF ReadIntoHeap, GCPAGESIZE
  <2>4. ASSUME NEW nkey \in KeySizes, NEW slack \in 0 .. CHUNK_ALIGN_BYTES - 1,
               ReadIntoItem(nkey, s, r, p, slack)
        PROVE  SegTypeOK'
    <3>1. nkey \in Nat /\ slack \in Nat
      BY InputsAssumption DEF CHUNK_ALIGN_BYTES
    <3>2. QED
      BY <2>2, <2>4, <3>1 DEF ReadIntoItem, ChunkSize, ntotal, ITEM_data, ItemHeader, GCPAGESIZE
  <2>5. QED
    BY <2>1, <2>3, <2>4
<1>2. CASE Read
  <2>1. PICK cur \in pread(ReadSize(size)) : bytes' = bytes + cur /\ filled' = Most(filled, cur)
    BY <1>2 DEF Read
  <2>2. ReadSize(size) \in Nat
    BY DataRoundsUp DEF ReadSize
  <2>3. cur \in Nat
    BY <2>2, ShortReadsAssumption DEF pread, Least
  <2>4. QED
    BY <1>2, <2>1, <2>3 DEF Read, Most
<1>3. CASE ReadError
  BY <1>3 DEF ReadError
<1>4. CASE Done
  BY <1>4 DEF Done
<1>5. CASE Release
  BY <1>5 DEF Release
<1>6. CASE UNCHANGED segVars
  BY <1>6 DEF segVars
<1>7. QED
  BY <1>1, <1>2, <1>3, <1>4, <1>5, <1>6 DEF SegNext, Loop

\* The segment's pages lie within the allocated memory, behind the object, for
\* every page-multiple segment size, key size, object size and chunk address.
THEOREM SegmentFits == SegSpec => []Placed
<1>1. SegInit => Placed
  BY DEF SegInit, Placed, SegTypeOK, TargetInRoom
<1>2. Placed /\ [SegNext]_segVars => Placed'
  <2> SUFFICES ASSUME Placed, [SegNext]_segVars PROVE Placed'
    OBVIOUS
  <2> USE DEF Placed
  <2>0. SegTypeOK'
    BY TypePreserved
  <2>1. CASE Call
    <3>1. PICK s \in Sizes, r \in Rests, p \in Places :
             \/ ReadIntoHeap(s, r, p)
             \/ \E nkey \in KeySizes, slack \in 0 .. CHUNK_ALIGN_BYTES - 1 :
                   ReadIntoItem(nkey, s, r, p, slack)
      BY <2>1 DEF Call
    <3>2. /\ s \in Nat /\ s % 4096 = 0 /\ r \in Nat /\ p \in Nat /\ p % 8 = 0
          /\ DSize \in Nat
      BY SizesAssumption, InputsAssumption, PlacesAssumption, ObjectAssumption
    <3>3. ReadSize(s) = s
      BY <3>2 DEF ReadSize, DiskComponent_data, GCPAGESIZE
    <3>4. CASE ReadIntoHeap(s, r, p)
      <4>2. p + DSize \in Nat
        BY <3>2
      <4>3. /\ DiskComponent_data(p + DSize) \in Nat /\ DiskComponent_data(p + DSize) % 4096 = 0
            /\ p + DSize <= DiskComponent_data(p + DSize) /\ DiskComponent_data(p + DSize) <= p + DSize + 4095
        BY <4>2, DataRoundsUp
      <4>4. DiskComponent_data(p + DSize) + ReadSize(s) <= p + DSize + s + 4096 - 1
        BY <3>2, <3>3, <4>3
      <4>5. /\ start' = p /\ object' = p /\ size' = s
            /\ end' = p + DSize + s + 4096 - 1
        BY <3>4 DEF ReadIntoHeap, GCPAGESIZE
      <4>6. TargetInRoom'
        BY <3>2, <4>3, <4>4, <4>5 DEF TargetInRoom, DiskComponent_data, ReadSize, GCPAGESIZE
      <4>7. QED
        BY <2>0, <4>6
    <3>5. ASSUME NEW nkey \in KeySizes, NEW slack \in 0 .. CHUNK_ALIGN_BYTES - 1,
                 ReadIntoItem(nkey, s, r, p, slack)
          PROVE  Placed'
      <4>1. nkey \in Nat /\ slack \in 0 .. 7 /\ CasBytes \in {0, 8}
        BY InputsAssumption DEF CHUNK_ALIGN_BYTES, CasBytes
      <4>2. /\ start' = p /\ object' = ITEM_data(p, nkey) /\ size' = s /\ rest' = r
            /\ end' = p + ChunkSize(nkey, s, slack)
            /\ Aligned(ChunkSize(nkey, s, slack))
            /\ pc' = "loop" /\ UNCHANGED <<bytes, filled>>
        BY <3>5 DEF ReadIntoItem
      <4>3. ChunkSize(nkey, s, slack) \in Nat /\ ITEM_data(p, nkey) \in Nat
            /\ p <= ITEM_data(p, nkey) /\ ITEM_data(p, nkey) + DSize \in Nat
        BY <3>2, <4>1 DEF ChunkSize, ntotal, ITEM_data, ItemHeader, GCPAGESIZE
      <4>5. LET d == DiskComponent_data(ITEM_data(p, nkey) + DSize)
            IN  d \in Nat /\ d % 4096 = 0 /\ ITEM_data(p, nkey) + DSize <= d
        BY <4>3, DataRoundsUp
      <4>6. DiskComponent_data(ITEM_data(p, nkey) + DSize) + s <= p + ChunkSize(nkey, s, slack)
        <5>1. Roomy(nkey, s, p, slack)
          BY <3>2, <4>1, <4>2, ItemHasRoom
        <5>2. QED
          BY <5>1 DEF Roomy
      <4>7. DiskComponent_data(ITEM_data(p, nkey) + DSize) + ReadSize(s) <= p + ChunkSize(nkey, s, slack)
        BY <3>2, <3>3, <4>1, <4>3, <4>5, <4>6
      <4>8. TargetInRoom'
        BY <4>2, <4>3, <4>5, <4>7 DEF TargetInRoom, DiskComponent_data, ReadSize, GCPAGESIZE
      <4>9. QED
        BY <2>0, <4>8
    <3>6. QED
      BY <3>1, <3>4, <3>5
  <2>2. CASE Read
    BY <2>2, <2>0 DEF Read, TargetInRoom
  <2>3. CASE ReadError
    BY <2>3, <2>0 DEF ReadError, TargetInRoom
  <2>4. CASE Done
    BY <2>4, <2>0 DEF Done, TargetInRoom
  <2>5. CASE Release
    BY <2>5, <2>0 DEF Release, TargetInRoom
  <2>6. CASE UNCHANGED segVars
    BY <2>6, <2>0 DEF segVars, TargetInRoom
  <2>7. QED
    BY <2>1, <2>2, <2>3, <2>4, <2>5, <2>6 DEF SegNext, Loop
<1>3. QED
  BY <1>1, <1>2, PTL DEF SegSpec

-----------------------------------------------------------------------------
\* Until the loop has read something it has counted nothing, and one full read
\* is the whole segment.
Counted ==
    /\ SegTypeOK
    /\ pc # "idle" => rest >= size /\ size % 4096 = 0
    /\ pc = "idle" => bytes = 0
    /\ bytes > 0 => filled >= size
    /\ pc = "done" => bytes >= size

\* read returns complete segments if the file has them and pread returns what
\* it is asked for: one turn of the loop reads everything.
THEOREM WholeSegments ==
    ASSUME ~ShortReads, \A s \in Sizes, r \in Rests : r >= s
    PROVE  SegSpec => []SegmentComplete
<1>1. SegInit => Counted
  BY DEF SegInit, Counted, SegTypeOK
<1>2. Counted /\ [SegNext]_segVars => Counted'
  <2> SUFFICES ASSUME Counted, [SegNext]_segVars PROVE Counted'
    OBVIOUS
  <2> USE DEF Counted
  <2>0. SegTypeOK'
    BY TypePreserved
  <2>1. CASE Call
    <3>1. PICK s \in Sizes, r \in Rests, p \in Places :
             \/ ReadIntoHeap(s, r, p)
             \/ \E nkey \in KeySizes, slack \in 0 .. CHUNK_ALIGN_BYTES - 1 :
                   ReadIntoItem(nkey, s, r, p, slack)
      BY <2>1 DEF Call
    <3>2. s \in Nat /\ s % 4096 = 0 /\ r >= s
      BY SizesAssumption
    <3>3. size' = s /\ rest' = r /\ bytes' = bytes /\ pc' = "loop" /\ pc = "idle"
      BY <3>1 DEF ReadIntoHeap, ReadIntoItem
    <3>4. QED
      BY <2>0, <3>2, <3>3
  <2>2. CASE Read
    <3>1. PICK cur \in pread(ReadSize(size)) : bytes' = bytes + cur /\ filled' = Most(filled, cur)
      BY <2>2 DEF Read
    <3>2. size \in Nat /\ rest \in Nat /\ size % 4096 = 0 /\ rest >= size /\ filled \in Nat
      BY <2>2 DEF Read, SegTypeOK
    <3>3. ReadSize(size) = size
      BY <3>2 DEF ReadSize, DiskComponent_data, GCPAGESIZE
    <3>4. cur = size
      BY <3>2, <3>3 DEF pread, Least
    <3>5. filled' >= size
      BY <3>1, <3>2, <3>4 DEF Most
    <3>6. QED
      BY <2>0, <2>2, <3>2, <3>5 DEF Read
  <2>3. CASE ReadError
    BY <2>0, <2>3 DEF ReadError
  <2>4. CASE Done
    BY <2>0, <2>4 DEF Done
  <2>5. CASE Release
    BY <2>0, <2>5 DEF Release
  <2>6. CASE UNCHANGED segVars
    BY <2>0, <2>6 DEF segVars
  <2>7. QED
    BY <2>1, <2>2, <2>3, <2>4, <2>5, <2>6 DEF SegNext, Loop
<1>3. Counted => SegmentComplete
  BY DEF Counted, SegmentComplete, SegTypeOK
<1>4. QED
  BY <1>1, <1>2, <1>3, PTL DEF SegSpec

-----------------------------------------------------------------------------
(* Sums over finite sets.                                                  *)

LEMMA LessIs == \A x, y \in Nat : <<x, y>> \in OpToRel(<, Nat) <=> x < y
BY DEF OpToRel

\* A set of natural numbers has a least one.
LEMMA LeastOf ==
    ASSUME NEW T, T \subseteq Nat, T # {}
    PROVE  \E x \in T : \A y \in T : ~(y < x)
<1>1. \E x \in T : \A y \in T : ~(<<y, x>> \in OpToRel(<, Nat))
  BY NatLessThanWellFounded, WFMin, Zenon
<1> QED BY <1>1, LessIs, Zenon

\* The element that the sum of f over s takes first.
First(s) == CHOOSE x \in s : TRUE

\* g adds the values of f up, over every subset of D.
Adds(g, f, D) ==
    /\ g \in [SUBSET D -> Nat]
    /\ \A s \in SUBSET D : g[s] = IF s = {} THEN 0 ELSE f[First(s)] + g[s \ {First(s)}]

LEMMA FirstIs == ASSUME NEW s, s # {} PROVE First(s) \in s
BY DEF First

\* Subsets of a finite set have a size, and one less without an element.
LEMMA SizeIs ==
    ASSUME NEW D, IsFiniteSet(D), NEW s \in SUBSET D
    PROVE  /\ Cardinality(s) \in Nat /\ (Cardinality(s) = 0 <=> s = {})
           /\ \A x \in s : Cardinality(s \ {x}) = Cardinality(s) - 1 /\ s \ {x} \in SUBSET D
<1>1. IsFiniteSet(s)
  BY FS_Subset
<1>2. Cardinality(s) \in Nat /\ (Cardinality(s) = 0 <=> s = {})
  BY <1>1, FS_CardinalityType, FS_EmptySet
<1>3. \A x \in s : Cardinality(s \ {x}) = Cardinality(s) - 1
  BY <1>1, FS_RemoveElement
<1> QED BY <1>2, <1>3

\* There is such a g: the one for the sets of n elements extends the one for
\* the sets of fewer.
LEMMA AddsExists ==
    ASSUME NEW D, IsFiniteSet(D), NEW f \in [D -> Nat]
    PROVE  \E g : Adds(g, f, D)
<1> DEFINE Next1(g, s) == IF s = {} THEN 0 ELSE f[First(s)] + g[s \ {First(s)}]
           UpTo(g, n) == /\ g \in [SUBSET D -> Nat]
                         /\ \A s \in SUBSET D : Cardinality(s) <= n => g[s] = Next1(g, s)
           T == {n \in Nat : ~\E g : UpTo(g, n)}
<1>0. \A s \in SUBSET D : s # {} => First(s) \in s /\ f[First(s)] \in Nat
  BY FirstIs
<1>1. T = {}
  <2> SUFFICES ASSUME T # {} PROVE FALSE
    OBVIOUS
  <2>1. PICK n \in T : \A m \in T : ~(m < n)
    <3>1. T \subseteq Nat
      OBVIOUS
    <3> HIDE DEF T
    <3> QED BY <3>1, LeastOf
  <2>2. CASE n = 0
    <3>1. UpTo([s \in SUBSET D |-> 0], 0)
      BY SizeIs
    <3> QED BY <2>1, <2>2, <3>1
  <2>3. CASE n # 0
    <3>1. n \in Nat /\ n - 1 \in Nat /\ n - 1 < n
      BY <2>1, <2>3
    <3>2. PICK g : UpTo(g, n - 1)
      BY <2>1, <3>1
    <3> DEFINE h == [s \in SUBSET D |-> IF Cardinality(s) <= n - 1 THEN g[s] ELSE Next1(g, s)]
    <3>3. h \in [SUBSET D -> Nat]
      <4> SUFFICES ASSUME NEW s \in SUBSET D PROVE Next1(g, s) \in Nat
        BY <3>2
      <4> QED BY <1>0, <3>2, SizeIs
    <3>4. ASSUME NEW s \in SUBSET D, Cardinality(s) <= n PROVE h[s] = Next1(h, s)
      <4>1. CASE s = {}
        BY <3>1, <3>2, <4>1, SizeIs
      <4>2. CASE s # {}
        <5>1. First(s) \in s /\ Cardinality(s \ {First(s)}) = Cardinality(s) - 1
              /\ s \ {First(s)} \in SUBSET D /\ Cardinality(s) \in Nat
          BY <1>0, <4>2, SizeIs
        <5>2. Cardinality(s \ {First(s)}) <= n - 1
          BY <3>1, <3>4, <5>1
        <5>3. h[s \ {First(s)}] = g[s \ {First(s)}]
          BY <5>1, <5>2
        <5>4. h[s] = Next1(g, s)
          BY <3>2
        <5> QED BY <5>3, <5>4
      <4> QED BY <4>1, <4>2
    <3>5. UpTo(h, n)
      BY <3>3, <3>4
    <3> HIDE DEF h
    <3> QED BY <2>1, <3>5
  <2> QED BY <2>2, <2>3
<1>2. Cardinality(D) \in Nat
  BY FS_CardinalityType
<1>3. PICK g : UpTo(g, Cardinality(D))
  BY <1>1, <1>2
<1>4. \A s \in SUBSET D : Cardinality(s) <= Cardinality(D)
  BY FS_Subset
<1> QED BY <1>3, <1>4 DEF Adds

\* Sum is such a g, at the whole set.
LEMMA SumAdds ==
    ASSUME NEW D, IsFiniteSet(D), NEW f \in [D -> Nat]
    PROVE  \E g : Adds(g, f, D) /\ Sum(f) = g[D]
<1> DEFINE body(g) == [s \in SUBSET D |-> IF s = {} THEN 0 ELSE f[First(s)] + g[s \ {First(s)}]]
           it == CHOOSE g : g = body(g)
<1>1. PICK g : Adds(g, f, D)
  BY AddsExists
<1>2. g = body(g)
  BY <1>1 DEF Adds
<1>3. it = body(it)
  BY <1>2
<1>4. Sum(f) = it[D]
  BY DEF Sum, MapThenSumSet, MapThenFoldSet, First
<1>5. \A s \in SUBSET D : it[s] = IF s = {} THEN 0 ELSE f[First(s)] + it[s \ {First(s)}]
  BY <1>3
<1> HIDE DEF it
<1>6. \A s \in SUBSET D : it[s] = g[s]
  <2> DEFINE T == {Cardinality(s) : s \in {t \in SUBSET D : it[t] # g[t]}}
  <2> SUFFICES ASSUME NEW t \in SUBSET D, it[t] # g[t] PROVE FALSE
    OBVIOUS
  <2>1. T \subseteq Nat /\ T # {}
    BY SizeIs
  <2>2. PICK n \in T : \A m \in T : ~(m < n)
    <3> HIDE DEF T
    <3> QED BY <2>1, LeastOf
  <2>3. PICK s \in SUBSET D : it[s] # g[s] /\ n = Cardinality(s)
    BY <2>2
  <2>4. s # {}
    BY <1>1, <1>5, <2>3 DEF Adds
  <2>5. s \ {First(s)} \in SUBSET D /\ Cardinality(s \ {First(s)}) < Cardinality(s)
    BY <2>4, FirstIs, SizeIs
  <2>6. it[s \ {First(s)}] = g[s \ {First(s)}]
    BY <2>2, <2>3, <2>5
  <2> QED BY <1>1, <1>5, <2>3, <2>4, <2>6 DEF Adds
<1>7. it = g
  <2>1. it = [s \in SUBSET D |-> it[s]] /\ g = [s \in SUBSET D |-> g[s]]
    BY <1>1, <1>3 DEF Adds, it
  <2> QED BY <1>6, <2>1, Zenon
<1> QED BY <1>1, <1>4, <1>7

\* The order does not matter: any element may be taken first.
LEMMA AddsTakes ==
    ASSUME NEW D, IsFiniteSet(D), NEW f \in [D -> Nat], NEW g, Adds(g, f, D)
    PROVE  \A s \in SUBSET D : \A y \in s : g[s] = f[y] + g[s \ {y}]
<1> DEFINE Bad == {t \in SUBSET D : \E y \in t : g[t] # f[y] + g[t \ {y}]}
           T == {Cardinality(t) : t \in Bad}
<1> SUFFICES ASSUME Bad # {} PROVE FALSE
  OBVIOUS
<1>1. T \subseteq Nat /\ T # {}
  BY SizeIs
<1>2. PICK n \in T : \A m \in T : ~(m < n)
  <2> HIDE DEF T
  <2> QED BY <1>1, LeastOf
<1>3. PICK s \in Bad : n = Cardinality(s)
  BY <1>2
<1>4. PICK y \in s : g[s] # f[y] + g[s \ {y}]
  BY <1>3
<1> DEFINE x == First(s)
<1>5. s \in SUBSET D /\ x \in s /\ x \in D /\ y \in D
  BY <1>3, <1>4, FirstIs
<1> HIDE DEF x
<1>6. g[s] = f[x] + g[s \ {x}]
  BY <1>4, <1>5 DEF Adds, x
<1>7. x # y
  BY <1>4, <1>6
<1>8. /\ s \ {x} \in SUBSET D /\ s \ {y} \in SUBSET D /\ y \in s \ {x} /\ x \in s \ {y}
      /\ Cardinality(s \ {x}) < Cardinality(s) /\ Cardinality(s \ {y}) < Cardinality(s)
  BY <1>4, <1>5, <1>7, SizeIs
<1>9. s \ {x} \notin Bad /\ s \ {y} \notin Bad
  BY <1>2, <1>3, <1>8
<1>10. g[s \ {x}] = f[y] + g[(s \ {x}) \ {y}] /\ g[s \ {y}] = f[x] + g[(s \ {y}) \ {x}]
  BY <1>8, <1>9
<1>11. (s \ {x}) \ {y} = (s \ {y}) \ {x} /\ (s \ {x}) \ {y} \in SUBSET D
  BY <1>8
<1>12. g[(s \ {x}) \ {y}] \in Nat /\ f[x] \in Nat /\ f[y] \in Nat
  BY <1>5, <1>11 DEF Adds
<1>13. g[s \ {y}] = f[x] + g[(s \ {x}) \ {y}]
  BY <1>10, <1>11
<1>14. \A a, b, c \in Nat : b + (a + c) = a + (b + c)
  OBVIOUS
<1>15. g[s] = f[x] + (f[y] + g[(s \ {x}) \ {y}])
  BY <1>6, <1>10
<1>16. g[s] = f[y] + g[s \ {y}]
  BY <1>12, <1>13, <1>14, <1>15
<1> QED BY <1>4, <1>16

\* Two functions that agree on a set have the same sum there.
LEMMA AddsAgree ==
    ASSUME NEW D, NEW E, IsFiniteSet(D), IsFiniteSet(E), NEW f \in [D -> Nat], NEW h \in [E -> Nat],
           NEW p, NEW q, Adds(p, f, D), Adds(q, h, E),
           NEW S \in SUBSET D, S \subseteq E, \A y \in S : f[y] = h[y]
    PROVE  p[S] = q[S]
<1> DEFINE Bad == {t \in SUBSET S : p[t] # q[t]}
           T == {Cardinality(t) : t \in Bad}
<1> SUFFICES ASSUME Bad # {} PROVE FALSE
  OBVIOUS
<1>1. T \subseteq Nat /\ T # {}
  BY SizeIs
<1>2. PICK n \in T : \A m \in T : ~(m < n)
  <2> HIDE DEF T
  <2> QED BY <1>1, LeastOf
<1>3. PICK s \in Bad : n = Cardinality(s)
  BY <1>2
<1>4. s \in SUBSET D /\ s \in SUBSET E /\ s # {}
  BY <1>3 DEF Adds
<1>5. First(s) \in s /\ s \ {First(s)} \in SUBSET S /\ Cardinality(s \ {First(s)}) < Cardinality(s)
  BY <1>3, <1>4, FirstIs, SizeIs
<1>6. p[s \ {First(s)}] = q[s \ {First(s)}]
  BY <1>2, <1>3, <1>5
<1>7. f[First(s)] = h[First(s)]
  BY <1>3, <1>5
<1>8. p[s] = f[First(s)] + p[s \ {First(s)}] /\ q[s] = h[First(s)] + q[s \ {First(s)}]
  BY <1>4 DEF Adds
<1> QED BY <1>3, <1>6, <1>7, <1>8

\* A sum is what one element contributes and the sum of the others.
LEMMA SumSplit ==
    ASSUME NEW D, IsFiniteSet(D), NEW f \in [D -> Nat], NEW x \in D
    PROVE  /\ Sum(f) = f[x] + Sum([y \in D \ {x} |-> f[y]])
           /\ Sum(f) \in Nat /\ Sum([y \in D \ {x} |-> f[y]]) \in Nat
<1> DEFINE E == D \ {x}
           h == [y \in E |-> f[y]]
<1>1. IsFiniteSet(E) /\ h \in [E -> Nat]
  BY FS_RemoveElement
<1>2. PICK p : Adds(p, f, D) /\ Sum(f) = p[D]
  BY SumAdds
<1>3. PICK q : Adds(q, h, E) /\ Sum(h) = q[E]
  <2> HIDE DEF h, E
  <2> QED BY <1>1, SumAdds
<1>4. p[D] = f[x] + p[E]
  BY <1>2, AddsTakes
<1>5. p[E] = q[E]
  <2>1. \A y \in E : f[y] = h[y]
    OBVIOUS
  <2>2. E \in SUBSET D
    OBVIOUS
  <2> HIDE DEF h, E
  <2> QED BY <1>1, <1>2, <1>3, <2>1, <2>2, AddsAgree
<1>6. p[D] \in Nat /\ q[E] \in Nat
  BY <1>2, <1>3 DEF Adds
<1> QED BY <1>2, <1>3, <1>4, <1>5, <1>6

\* The sum over nothing.
LEMMA SumNone == ASSUME NEW f \in [{} -> Nat] PROVE Sum(f) = 0
<1>1. PICK g : Adds(g, f, {}) /\ Sum(f) = g[{}]
  BY FS_EmptySet, SumAdds
<1> QED BY <1>1 DEF Adds

\* A sum is a natural number.
LEMMA SumType == ASSUME NEW D, IsFiniteSet(D), NEW f \in [D -> Nat] PROVE Sum(f) \in Nat
<1>1. PICK g : Adds(g, f, D) /\ Sum(f) = g[D]
  BY SumAdds
<1> QED BY <1>1 DEF Adds

\* Two functions that differ at one element have sums that differ as much.
LEMMA SumChange ==
    ASSUME NEW D, IsFiniteSet(D), NEW f \in [D -> Nat], NEW h \in [D -> Nat], NEW x \in D,
           \A y \in D : y # x => h[y] = f[y]
    PROVE  Sum(h) = Sum(f) - f[x] + h[x]
<1>1. [y \in D \ {x} |-> f[y]] = [y \in D \ {x} |-> h[y]]
  OBVIOUS
<1>2. /\ Sum(f) = f[x] + Sum([y \in D \ {x} |-> f[y]]) /\ Sum(h) = h[x] + Sum([y \in D \ {x} |-> h[y]])
      /\ Sum([y \in D \ {x} |-> f[y]]) \in Nat
  BY SumSplit
<1>3. f[x] \in Nat /\ h[x] \in Nat
  OBVIOUS
<1> QED BY <1>1, <1>2, <1>3

-----------------------------------------------------------------------------
(* The invariant.                                                          *)

Entries == [gid : Nat, flag : Flags]
LineSet == [gid : Nat, from : Loggers, n : Nat]

TypesOK ==
    /\ logbuf \in [Loggers -> Seq(Entries)] /\ eflags \in [Loggers -> SUBSET Flags]
    /\ written \in [Loggers -> Nat] /\ dropped \in [Loggers -> Nat] /\ gid \in Nat
    /\ log_pc \in [Loggers -> [at : {"run", "drop"}, old : Nat]]
    /\ stack_lock \in Loggers \cup {"free", "logger"}
    /\ watchers \in [Slots -> [eflags : SUBSET Flags, buf : Seq(LineSet), failed_flush : BOOLEAN,
                               skipped : Nat, due : Nat]]
    /\ sockets \in [Slots -> [state : {"none", "open", "full", "gone"}, got : Seq(LineSet)]]
    /\ lpc \in [at : {"sleep", "peek", "entry", "poll"}, l : Loggers \cup {NoLogger}, size : Nat,
                pos : Nat, slot : Nat]
    /\ stats \in [written : Nat, dropped : Nat]
    /\ logged \in [Loggers -> [written : Nat, dropped : Nat]]

\* No buffer holds more than its size.
BuffersOK ==
    /\ \A w \in Loggers : Len(logbuf[w]) <= LogSize
    /\ \A x \in Slots : Len(watchers[x].buf) <= WatcherSize

\* The pass is at a worker, and what it looks at is in the worker's buffer.
ScanOK ==
    /\ lpc.at \in {"peek", "entry"} => lpc.l \in Loggers
    /\ lpc.at = "entry" => lpc.size <= Len(logbuf[lpc.l]) /\ lpc.pos >= 1
    /\ lpc.pos <= lpc.size + 1

\* The entries of a buffer have numbers that were given, in the order in which
\* they were given.
EntriesOK ==
    \A w \in Loggers :
      /\ \A m \in 1 .. Len(logbuf[w]) : 1 <= logbuf[w][m].gid /\ logbuf[w][m].gid <= gid
      /\ \A m, n \in 1 .. Len(logbuf[w]) : m < n => logbuf[w][m].gid < logbuf[w][n].gid

\* The lines of entries, and all that the lines about skipped ones say.
Numbered(s) == {n \in 1 .. Len(s) : s[n].gid # 0}
Total(s) == Sum([n \in 1 .. Len(s) |-> s[n].n])

Announced(w, s) == w.due = Cardinality(Numbered(s)) + w.skipped + Total(s)

Ordered(s) ==
    \A m, n \in Numbered(s) : m < n /\ s[m].from = s[n].from => s[m].gid < s[n].gid

\* The logger thread is done with entry m of worker w, as far as slot x goes.
Passed(x, w, m) ==
    /\ lpc.at = "entry" /\ lpc.l = w /\ m <= lpc.size
    /\ m < lpc.pos \/ (m = lpc.pos /\ x < lpc.slot)

\* What a watcher has of a worker is older than what is still to come.
Behind(x, s) ==
    \A n \in Numbered(s) :
      /\ s[n].gid <= gid
      /\ \A m \in 1 .. Len(logbuf[s[n].from]) :
           Passed(x, s[n].from, m) \/ s[n].gid < logbuf[s[n].from][m].gid

ServedOK(x) == Announced(watchers[x], Stream(x)) /\ Ordered(Stream(x)) /\ Behind(x, Stream(x))

WatchersOK == \A x \in Used : ServedOK(x)

FlagsOK == eflags = logger_set_flags(watchers)

IInv ==
    /\ TypesOK /\ BuffersOK /\ ScanOK /\ EntriesOK /\ WatchersOK /\ FlagsOK /\ WrittenExact

-----------------------------------------------------------------------------

(* Lines.                                                                  *)

LEMMA NumberedIs ==
    ASSUME NEW s \in Seq(LineSet)
    PROVE  IsFiniteSet(Numbered(s)) /\ Cardinality(Numbered(s)) \in Nat /\ Numbered(s) \subseteq 1 .. Len(s)
<1>1. IsFiniteSet(1 .. Len(s)) /\ Numbered(s) \subseteq 1 .. Len(s)
  BY FS_Interval DEF Numbered
<1> QED BY <1>1, FS_Subset, FS_CardinalityType

LEMMA LineIs ==
    ASSUME NEW s \in Seq(LineSet), NEW n \in 1 .. Len(s)
    PROVE  s[n] \in LineSet /\ s[n].gid \in Nat /\ s[n].n \in Nat /\ s[n].from \in Loggers
<1>1. s[n] \in LineSet
  BY ElementOfSeq
<1> QED BY <1>1 DEF LineSet

LEMMA TotalType == ASSUME NEW s \in Seq(LineSet) PROVE Total(s) \in Nat
<1> DEFINE D == 1 .. Len(s)
           f == [n \in D |-> s[n].n]
<1>1. IsFiniteSet(D)
  BY FS_Interval
<1>2. \A n \in D : s[n].n \in Nat
  BY LineIs
<1>3. f \in [D -> Nat] /\ Total(s) = Sum(f)
  BY <1>2 DEF Total
<1> HIDE DEF f, D
<1> QED BY <1>1, <1>3, SumType

\* What one more line adds.
LEMMA OneMoreLine ==
    ASSUME NEW s \in Seq(LineSet), NEW e \in LineSet
    PROVE  /\ Append(s, e) \in Seq(LineSet) /\ Len(Append(s, e)) = Len(s) + 1 /\ Len(s) \in Nat
           /\ Append(s, e)[Len(s) + 1] = e /\ \A n \in 1 .. Len(s) : Append(s, e)[n] = s[n]
           /\ Numbered(Append(s, e)) = Numbered(s) \cup (IF e.gid = 0 THEN {} ELSE {Len(s) + 1})
           /\ Cardinality(Numbered(Append(s, e)))
                = Cardinality(Numbered(s)) + (IF e.gid = 0 THEN 0 ELSE 1)
           /\ Total(Append(s, e)) = Total(s) + e.n
<1> DEFINE t == Append(s, e)
           N == Len(s) + 1
<1>1. /\ t \in Seq(LineSet) /\ Len(t) = N /\ t[N] = e /\ N \in Nat /\ Len(s) \in Nat
      /\ \A n \in 1 .. Len(s) : t[n] = s[n]
  OBVIOUS
<1>2. 1 .. N = (1 .. Len(s)) \cup {N} /\ N \notin 1 .. Len(s) /\ (1 .. N) \ {N} = 1 .. Len(s)
  BY <1>1
<1> HIDE DEF t, N
<1>3. Numbered(t) = Numbered(s) \cup (IF e.gid = 0 THEN {} ELSE {N})
  BY <1>1, <1>2 DEF Numbered
<1>4. Cardinality(Numbered(t)) = Cardinality(Numbered(s)) + (IF e.gid = 0 THEN 0 ELSE 1)
  <2>1. N \notin Numbered(s)
    BY <1>2, NumberedIs
  <2>2. CASE e.gid = 0
    BY <1>3, <2>2, NumberedIs
  <2>3. CASE e.gid # 0
    <3>1. Numbered(t) = Numbered(s) \cup {N}
      BY <1>3, <2>3
    <3>2. Cardinality(Numbered(s) \cup {N}) = Cardinality(Numbered(s)) + 1
      BY <2>1, NumberedIs, FS_AddElement
    <3> QED BY <2>3, <3>1, <3>2
  <2> QED BY <2>2, <2>3
<1>5. Total(t) = Total(s) + e.n
  <2> DEFINE D == 1 .. N
             f == [n \in D |-> t[n].n]
             h == [n \in 1 .. Len(s) |-> s[n].n]
  <2>1. f \in [D -> Nat] /\ IsFiniteSet(D) /\ N \in D
    <3>1. \A n \in D : t[n].n \in Nat
      BY <1>1, LineIs
    <3>2. IsFiniteSet(D) /\ N \in D
      BY <1>1, <1>2, FS_Interval
    <3> QED BY <3>1, <3>2
  <2>2. Sum(f) = f[N] + Sum([n \in D \ {N} |-> f[n]]) /\ Sum([n \in D \ {N} |-> f[n]]) \in Nat
    <3> HIDE DEF f, D
    <3> QED BY <2>1, SumSplit, ZenonT(40)
  <2>3. [n \in D \ {N} |-> f[n]] = h
    BY <1>1, <1>2
  <2>4. f[N] = e.n /\ e.n \in Nat
    BY <1>1, <2>1 DEF LineSet
  <2>5. Total(t) = Sum(f) /\ Total(s) = Sum(h)
    BY <1>1 DEF Total
  <2> HIDE DEF f, h, D
  <2> QED BY <2>2, <2>3, <2>4, <2>5
<1> QED BY <1>1, <1>3, <1>4, <1>5 DEF t, N

\* What is written into a buffer comes last in what its watcher is given.
LEMMA StreamGrows ==
    ASSUME NEW got \in Seq(LineSet), NEW buf \in Seq(LineSet), NEW e \in LineSet
    PROVE  got \o Append(buf, e) = Append(got \o buf, e)
<1>1. got \o buf \in Seq(LineSet) /\ <<e>> \in Seq(LineSet)
  BY ConcatProperties
<1>2. Append(buf, e) = buf \o <<e>> /\ Append(got \o buf, e) = (got \o buf) \o <<e>>
  BY <1>1
<1> QED BY <1>1, <1>2, ConcatAssociative

\* Moving the first lines of a buffer to the socket changes nothing in what its
\* watcher is given.
LEMMA StreamMoves ==
    ASSUME NEW got \in Seq(LineSet), NEW buf \in Seq(LineSet), NEW k \in 0 .. Len(buf)
    PROVE  /\ got \o SubSeq(buf, 1, k) \in Seq(LineSet) /\ SubSeq(buf, k + 1, Len(buf)) \in Seq(LineSet)
           /\ Len(SubSeq(buf, k + 1, Len(buf))) <= Len(buf)
           /\ (got \o SubSeq(buf, 1, k)) \o SubSeq(buf, k + 1, Len(buf)) = got \o buf
<1> DEFINE a == SubSeq(buf, 1, k)
           b == SubSeq(buf, k + 1, Len(buf))
<1>1. Len(buf) \in Nat /\ k \in Nat /\ k <= Len(buf)
  OBVIOUS
<1>2. \A i \in 1 .. Len(buf) : buf[i] \in LineSet
  BY ElementOfSeq
<1>3. a \in Seq(LineSet)
  BY <1>1, <1>2, SubSeqProperties
<1>4. b \in Seq(LineSet) /\ Len(b) = (IF k + 1 <= Len(buf) THEN Len(buf) - (k + 1) + 1 ELSE 0)
  BY <1>1, <1>2, SubSeqProperties
<1>5. a \o b = buf
  <2>1. SubSeq(buf, 1, k) \o SubSeq(buf, k + 1, Len(buf)) = SubSeq(buf, 1, Len(buf))
    <3>1. /\ 1 \in 1 .. Len(buf) + 1 /\ k \in 1 - 1 .. Len(buf) /\ Len(buf) \in k .. Len(buf)
      BY <1>1
    <3> QED BY <3>1, ConcatAdjacentSubSeq, Zenon
  <2> QED BY <2>1, SubSeqFull
<1>6. Len(b) <= Len(buf)
  BY <1>1, <1>4
<1> HIDE DEF a, b
<1>7. (got \o a) \o b = got \o (a \o b)
  BY <1>3, <1>4, ConcatAssociative, SMTT(30)
<1>8. got \o a \in Seq(LineSet)
  BY <1>3, ConcatProperties
<1> QED BY <1>3, <1>4, <1>5, <1>6, <1>7, <1>8 DEF a, b

-----------------------------------------------------------------------------

(* The parts of a step.                                                    *)

\* What the logger thread was done with, it stays done with.
Onward == \A x \in Slots : \A w : \A m \in Nat : Passed(x, w, m) => Passed(x, w, m)'

LEMMA OnwardIs ==
    ASSUME TypesOK, \/ UNCHANGED lpc
                    \/ lpc.at # "entry"
                    \/ Writing /\ lpc' = AfterSlot
    PROVE  Onward
<1>1. CASE UNCHANGED lpc
  BY <1>1 DEF Onward, Passed
<1>2. CASE lpc.at # "entry"
  BY <1>2 DEF Onward, Passed
<1>3. CASE Writing /\ lpc' = AfterSlot
  <2>1. lpc'.at = lpc.at /\ lpc'.l = lpc.l /\ lpc'.size = lpc.size
    BY <1>3 DEF AfterSlot, TypesOK
  <2>2. \/ lpc'.pos = lpc.pos + 1
        \/ lpc'.pos = lpc.pos /\ lpc'.slot = lpc.slot + 1
    BY <1>3 DEF AfterSlot, TypesOK
  <2>3. lpc.pos \in Nat /\ lpc.slot \in Nat
    BY DEF TypesOK
  <2>4. \A x \in Slots : x \in Nat
    BY LoggerAssumption, FS_CardinalityType
  <2> SUFFICES ASSUME NEW x \in Slots, NEW w, NEW m \in Nat, Passed(x, w, m) PROVE Passed(x, w, m)'
    BY DEF Onward
  <2> QED BY <2>1, <2>2, <2>3, <2>4 DEF Passed
<1> QED BY <1>1, <1>2, <1>3

LEMMA StreamType ==
    ASSUME TypesOK, NEW x \in Slots
    PROVE  /\ sockets[x].got \in Seq(LineSet) /\ watchers[x].buf \in Seq(LineSet) /\ Stream(x) \in Seq(LineSet)
           /\ watchers[x].due \in Nat /\ watchers[x].skipped \in Nat
<1>1. sockets[x].got \in Seq(LineSet) /\ watchers[x].buf \in Seq(LineSet)
  BY DEF TypesOK
<1>2. Stream(x) \in Seq(LineSet)
  BY <1>1, ConcatProperties DEF Stream
<1>3. watchers[x].due \in Nat /\ watchers[x].skipped \in Nat
  BY DEF TypesOK
<1> QED BY <1>1, <1>2, <1>3

\* A watcher that is sent nothing new stays behind.
LEMMA StaysBehind ==
    ASSUME TypesOK, NEW x \in Slots, Behind(x, Stream(x)), Stream(x)' = Stream(x),
           UNCHANGED <<logbuf, gid>>, Onward
    PROVE  Behind(x, Stream(x))'
<1> SUFFICES ASSUME NEW n \in Numbered(Stream(x))
             PROVE  /\ Stream(x)[n].gid <= gid
                    /\ \A m \in 1 .. Len(logbuf[Stream(x)[n].from]) :
                         \/ Passed(x, Stream(x)[n].from, m)'
                         \/ Stream(x)[n].gid < logbuf[Stream(x)[n].from][m].gid
  BY DEF Behind, Passed
<1>1. Stream(x)[n].from \in Loggers
  BY StreamType, NumberedIs, LineIs
<1>2. \A m \in 1 .. Len(logbuf[Stream(x)[n].from]) : m \in Nat
  OBVIOUS
<1> QED BY <1>2 DEF Behind, Onward

\* A watcher that is sent nothing new, and owed nothing new, stays served.
LEMMA StaysServed ==
    ASSUME NEW x \in Slots, ServedOK(x), Stream(x)' = Stream(x), Behind(x, Stream(x))',
           watchers'[x].due = watchers[x].due, watchers'[x].skipped = watchers[x].skipped
    PROVE  ServedOK(x)'
BY DEF ServedOK, Announced, Ordered

\* Steps that leave the buffers alone.
LEMMA QuietKeeps ==
    ASSUME IInv, UNCHANGED <<logbuf, eflags, gid, watchers>>, Onward,
           \A x \in Slots : sockets'[x].got = sockets[x].got,
           TypesOK', ScanOK', WrittenExact'
    PROVE  IInv'
<1>1. BuffersOK' /\ EntriesOK' /\ FlagsOK'
  BY DEF IInv, BuffersOK, EntriesOK, FlagsOK, logger_set_flags
<1>2. WatchersOK'
  <2> SUFFICES ASSUME NEW x \in Used PROVE ServedOK(x)'
    BY DEF WatchersOK, Used
  <2>1. x \in Slots /\ ServedOK(x) /\ TypesOK
    BY DEF IInv, WatchersOK, Used
  <2>2. Stream(x)' = Stream(x)
    BY <2>1 DEF Stream
  <2>3. Behind(x, Stream(x))'
    BY <2>1, <2>2, StaysBehind DEF ServedOK
  <2> QED BY <2>1, <2>2, <2>3, StaysServed
<1> QED BY <1>1, <1>2 DEF IInv

\* The counters of entries written change where the parts do.
LEMMA WrittenStays ==
    ASSUME WrittenExact, UNCHANGED <<written, stats>>, TypesOK, TypesOK',
           \A w \in Loggers : logged'[w].written = logged[w].written
    PROVE  WrittenExact'
BY DEF WrittenExact

-----------------------------------------------------------------------------
(* The steps of the workers.                                               *)

LEMMA RefusedKeeps == ASSUME IInv, NEW w \in Loggers, LogRefused(w) PROVE IInv'
<1>1. /\ UNCHANGED <<logbuf, eflags, gid, watchers, sockets, lpc, written, stats, dropped, stack_lock>>
      /\ log_pc' = [log_pc EXCEPT ![w] = [at |-> "drop", old |-> dropped[w]]]
      /\ logged' = [logged EXCEPT ![w].dropped = logged[w].dropped + 1]
  BY DEF LogRefused, watching
<1>2. TypesOK'
  <2>1. TypesOK /\ dropped[w] \in Nat
    BY DEF IInv, TypesOK
  <2>2. [at |-> "drop", old |-> dropped[w]] \in [at : {"run", "drop"}, old : Nat]
    BY <2>1
  <2>3. log_pc' \in [Loggers -> [at : {"run", "drop"}, old : Nat]]
    BY <1>1, <2>1, <2>2 DEF TypesOK
  <2>4. logged' \in [Loggers -> [written : Nat, dropped : Nat]]
    <3>1. logged \in [Loggers -> [written : Nat, dropped : Nat]]
      BY <2>1 DEF TypesOK
    <3> QED BY <1>1, <3>1
  <2> QED BY <1>1, <2>1, <2>3, <2>4 DEF TypesOK
<1>3. \A v \in Loggers : logged'[v].written = logged[v].written
  BY <1>1 DEF IInv, TypesOK
<1>4. WrittenExact'
  BY <1>1, <1>2, <1>3, WrittenStays DEF IInv
<1>5. ScanOK' /\ Onward
  BY <1>1, OnwardIs DEF IInv, ScanOK
<1> QED BY <1>1, <1>2, <1>4, <1>5, QuietKeeps

LEMMA DroppedKeeps == ASSUME IInv, NEW w \in Loggers, LogDropped(w) PROVE IInv'
<1>1. /\ UNCHANGED <<logbuf, eflags, gid, watchers, sockets, lpc, written, stats, logged, stack_lock>>
      /\ log_pc' = [log_pc EXCEPT ![w] = [at |-> "run", old |-> 0]]
      /\ dropped' = [dropped EXCEPT ![w] = log_pc[w].old + 1]
  BY DEF LogDropped, watching
<1>2. TypesOK'
  <2>1. TypesOK /\ log_pc[w].old \in Nat
    BY DEF IInv, TypesOK
  <2>2. [at |-> "run", old |-> 0] \in [at : {"run", "drop"}, old : Nat]
    OBVIOUS
  <2>3. log_pc' \in [Loggers -> [at : {"run", "drop"}, old : Nat]]
    BY <1>1, <2>1, <2>2 DEF TypesOK
  <2>4. dropped' \in [Loggers -> Nat]
    <3>1. dropped \in [Loggers -> Nat]
      BY <2>1 DEF TypesOK
    <3>2. log_pc[w].old + 1 \in Nat
      BY <2>1
    <3> QED BY <1>1, <3>1, <3>2
  <2> QED BY <1>1, <2>1, <2>3, <2>4 DEF TypesOK
<1>3. WrittenExact'
  BY <1>1, <1>2, WrittenStays DEF IInv
<1>4. ScanOK' /\ Onward
  BY <1>1, OnwardIs DEF IInv, ScanOK
<1> QED BY <1>1, <1>2, <1>3, <1>4, QuietKeeps

LEMMA TooManyKeeps == ASSUME IInv, NEW w \in Loggers, TooManyWatchers(w) PROVE IInv'
<1>1. /\ UNCHANGED <<logbuf, eflags, gid, watchers, sockets, lpc, written, stats, logged, dropped, log_pc>>
      /\ stack_lock' = w
  BY DEF TooManyWatchers, watching, logState
<1>2. TypesOK'
  BY <1>1 DEF IInv, TypesOK
<1>3. WrittenExact'
  BY <1>1, <1>2, WrittenStays DEF IInv
<1>4. ScanOK' /\ Onward
  BY <1>1, OnwardIs DEF IInv, ScanOK
<1> QED BY <1>1, <1>2, <1>3, <1>4, QuietKeeps

LEMMA ClientKeeps == ASSUME IInv, NEW x \in Slots, Client(x) PROVE IInv'
<1>1. PICK new \in {"open", "full", "gone"} : sockets' = [sockets EXCEPT ![x].state = new]
  BY DEF Client
<1>2. UNCHANGED <<logbuf, eflags, gid, watchers, lpc, written, stats, logged, dropped, log_pc, stack_lock>>
  BY DEF Client, logState
<1>3. TypesOK'
  <2>1. sockets' \in [Slots -> [state : {"none", "open", "full", "gone"}, got : Seq(LineSet)]]
    BY <1>1 DEF IInv, TypesOK
  <2> QED BY <1>2, <2>1 DEF IInv, TypesOK
<1>4. WrittenExact'
  BY <1>2, <1>3, WrittenStays DEF IInv
<1>5. ScanOK' /\ Onward
  BY <1>2, OnwardIs DEF IInv, ScanOK
<1>6. \A y \in Slots : sockets'[y].got = sockets[y].got
  BY <1>1 DEF IInv, TypesOK
<1> QED BY <1>2, <1>3, <1>4, <1>5, <1>6, QuietKeeps

-----------------------------------------------------------------------------

\* What is written into a worker's buffer is newer than all that was sent.
LEMMA LogKeeps == ASSUME IInv, NEW w \in Loggers, logger_log(w) PROVE IInv'
<1>1. PICK f \in eflags[w] : logbuf' = [logbuf EXCEPT ![w] = Append(logbuf[w], NewEntry(f))]
  BY DEF logger_log
<1>2. /\ UNCHANGED <<eflags, watchers, sockets, lpc, stats, dropped, log_pc, stack_lock>>
      /\ gid' = gid + 1 /\ Len(logbuf[w]) < LogSize
      /\ written' = [written EXCEPT ![w] = written[w] + 1]
      /\ logged' = [logged EXCEPT ![w].written = logged[w].written + 1]
  BY DEF logger_log, watching, logger_get_gid
<1>3. TypesOK /\ gid \in Nat /\ eflags[w] \in SUBSET Flags /\ logbuf[w] \in Seq(Entries)
      /\ \A v \in Loggers : logbuf[v] \in Seq(Entries) /\ Len(logbuf[v]) \in Nat
  <2>1. TypesOK
    BY DEF IInv
  <2>2. logbuf \in [Loggers -> Seq(Entries)] /\ eflags \in [Loggers -> SUBSET Flags] /\ gid \in Nat
    BY <2>1 DEF TypesOK
  <2> QED BY <2>1, <2>2
<1> DEFINE e == NewEntry(f)
<1>4. e \in Entries /\ e.gid = gid + 1
  BY <1>1, <1>3 DEF Entries, NewEntry, logger_get_gid
<1> HIDE DEF e
<1>5. /\ logbuf'[w] = Append(logbuf[w], e) /\ logbuf'[w] \in Seq(Entries) /\ Len(logbuf'[w]) = Len(logbuf[w]) + 1
      /\ logbuf'[w][Len(logbuf[w]) + 1] = e /\ \A m \in 1 .. Len(logbuf[w]) : logbuf'[w][m] = logbuf[w][m]
      /\ \A v \in Loggers : v # w => logbuf'[v] = logbuf[v]
  <2>1. logbuf \in [Loggers -> Seq(Entries)]
    BY <1>3 DEF TypesOK
  <2>2. logbuf'[w] = Append(logbuf[w], e) /\ \A v \in Loggers : v # w => logbuf'[v] = logbuf[v]
    BY <1>1, <2>1 DEF e
  <2> QED BY <1>3, <1>4, <2>2
<1>6. TypesOK'
  <2>1. logbuf' \in [Loggers -> Seq(Entries)]
    BY <1>1, <1>3, <1>5 DEF TypesOK
  <2>2. written' \in [Loggers -> Nat]
    <3>1. written \in [Loggers -> Nat]
      BY <1>3 DEF TypesOK
    <3> QED BY <1>2, <3>1
  <2>3. logged' \in [Loggers -> [written : Nat, dropped : Nat]]
    <3>1. logged \in [Loggers -> [written : Nat, dropped : Nat]]
      BY <1>3 DEF TypesOK
    <3> QED BY <1>2, <3>1
  <2>4. gid' \in Nat
    BY <1>2, <1>3
  <2> QED BY <1>2, <1>3, <2>1, <2>2, <2>3, <2>4 DEF TypesOK
<1>7. BuffersOK' /\ FlagsOK'
  <2>1. \A v \in Loggers : Len(logbuf'[v]) <= LogSize
    <3>1. \A v \in Loggers : Len(logbuf[v]) <= LogSize
      BY DEF IInv, BuffersOK
    <3> QED BY <1>2, <1>3, <1>5, <3>1, LoggerAssumption
  <2> QED BY <1>2, <2>1 DEF IInv, BuffersOK, FlagsOK, logger_set_flags
<1>8. ScanOK'
  <2>1. \A v \in Loggers : Len(logbuf[v]) <= Len(logbuf'[v])
    BY <1>3, <1>5
  <2>2. lpc.size \in Nat /\ (lpc.at = "entry" => lpc.l \in Loggers)
    BY <1>3 DEF IInv, ScanOK, TypesOK
  <2>3. lpc.at = "entry" => lpc.size <= Len(logbuf'[lpc.l])
    BY <1>3, <1>5, <2>1, <2>2 DEF IInv, ScanOK
  <2> QED BY <1>2, <2>3 DEF IInv, ScanOK
<1>9. EntriesOK'
  <2> SUFFICES ASSUME NEW v \in Loggers
               PROVE  /\ \A m \in 1 .. Len(logbuf'[v]) : 1 <= logbuf'[v][m].gid /\ logbuf'[v][m].gid <= gid'
                      /\ \A m, n \in 1 .. Len(logbuf'[v]) : m < n => logbuf'[v][m].gid < logbuf'[v][n].gid
    BY DEF EntriesOK
  <2>1. /\ \A m \in 1 .. Len(logbuf[v]) : 1 <= logbuf[v][m].gid /\ logbuf[v][m].gid <= gid
        /\ \A m, n \in 1 .. Len(logbuf[v]) : m < n => logbuf[v][m].gid < logbuf[v][n].gid
    BY DEF IInv, EntriesOK
  <2>2. \A m \in 1 .. Len(logbuf[v]) : logbuf[v][m].gid \in Nat
    <3>1. \A m \in 1 .. Len(logbuf[v]) : logbuf[v][m] \in Entries
      BY <1>3, ElementOfSeq
    <3> QED BY <3>1 DEF Entries
  <2>3. CASE v # w
    BY <1>2, <1>3, <1>5, <2>1, <2>2, <2>3, SMTT(30)
  <2>4. CASE v = w
    <3>1. \A m \in 1 .. Len(logbuf'[w]) : m = Len(logbuf[w]) + 1 \/ m \in 1 .. Len(logbuf[w])
      BY <1>3, <1>5
    <3>2. ASSUME NEW m \in 1 .. Len(logbuf'[w]) PROVE 1 <= logbuf'[w][m].gid /\ logbuf'[w][m].gid <= gid'
      BY <1>2, <1>3, <1>4, <1>5, <2>1, <2>2, <2>4, <3>1
    <3>3. ASSUME NEW m \in 1 .. Len(logbuf'[w]), NEW n \in 1 .. Len(logbuf'[w]), m < n
          PROVE  logbuf'[w][m].gid < logbuf'[w][n].gid
      <4>1. m \in 1 .. Len(logbuf[w])
        BY <1>3, <1>5, <3>3
      <4>2. CASE n \in 1 .. Len(logbuf[w])
        BY <1>5, <2>1, <2>4, <3>3, <4>1, <4>2
      <4>3. CASE n = Len(logbuf[w]) + 1
        BY <1>3, <1>4, <1>5, <2>1, <2>2, <2>4, <4>1, <4>3
      <4> QED BY <3>1, <4>2, <4>3
    <3> QED BY <2>4, <3>2, <3>3
  <2> QED BY <2>3, <2>4
<1>10. WatchersOK'
  <2> SUFFICES ASSUME NEW x \in Used PROVE ServedOK(x)'
    BY <1>2 DEF WatchersOK, Used
  <2>1. x \in Slots /\ ServedOK(x)
    BY DEF IInv, WatchersOK, Used
  <2>2. Stream(x)' = Stream(x)
    BY <1>2 DEF Stream
  <2>3. Behind(x, Stream(x))'
    <3> SUFFICES ASSUME NEW n \in Numbered(Stream(x))
                 PROVE  /\ Stream(x)[n].gid <= gid'
                        /\ \A m \in 1 .. Len(logbuf'[Stream(x)[n].from]) :
                             \/ Passed(x, Stream(x)[n].from, m)'
                             \/ Stream(x)[n].gid < logbuf'[Stream(x)[n].from][m].gid
      BY <2>2 DEF Behind
    <3>0. PICK v, g : v = Stream(x)[n].from /\ g = Stream(x)[n].gid
      OBVIOUS
    <3>1. v \in Loggers /\ g \in Nat
      BY <1>3, <2>1, <3>0, StreamType, NumberedIs, LineIs
    <3>2. g <= gid /\ \A m \in 1 .. Len(logbuf[v]) : Passed(x, v, m) \/ g < logbuf[v][m].gid
      BY <2>1, <3>0 DEF ServedOK, Behind
    <3>3. \A m : Passed(x, v, m)' <=> Passed(x, v, m)
      BY <1>2 DEF Passed
    <3>4. ASSUME NEW m \in 1 .. Len(logbuf'[v]) PROVE Passed(x, v, m)' \/ g < logbuf'[v][m].gid
      <4>1. CASE v # w
        BY <1>5, <3>1, <3>2, <3>3, <4>1
      <4>2. CASE v = w
        <5>1. m = Len(logbuf[w]) + 1 \/ m \in 1 .. Len(logbuf[w])
          BY <1>3, <1>5, <4>2
        <5>2. CASE m = Len(logbuf[w]) + 1
          BY <1>3, <1>4, <1>5, <3>1, <3>2, <4>2, <5>2
        <5>3. CASE m \in 1 .. Len(logbuf[w])
          BY <1>5, <3>2, <3>3, <4>2, <5>3
        <5> QED BY <5>1, <5>2, <5>3
      <4> QED BY <4>1, <4>2
    <3>5. g <= gid'
      BY <1>2, <1>3, <3>1, <3>2
    <3> QED BY <2>2, <3>0, <3>4, <3>5
  <2> QED BY <1>2, <2>1, <2>2, <2>3, StaysServed
<1>11. WrittenExact'
  <2> DEFINE p == [v \in Loggers |-> logged[v].written]
             q == [v \in Loggers |-> logged'[v].written]
  <2>1. p \in [Loggers -> Nat] /\ q \in [Loggers -> Nat]
    BY <1>3, <1>6 DEF TypesOK
  <2>2. q[w] = p[w] + 1 /\ \A v \in Loggers : v # w => q[v] = p[v]
    BY <1>2, <1>3 DEF TypesOK
  <2>3. /\ written \in [Loggers -> Nat] /\ written' \in [Loggers -> Nat]
        /\ written'[w] = written[w] + 1 /\ \A v \in Loggers : v # w => written'[v] = written[v]
    BY <1>2, <1>3, <1>6 DEF TypesOK
  <2>4. Sum(p) = stats.written + Sum(written) /\ stats.written \in Nat
    BY <1>3 DEF IInv, WrittenExact, TypesOK
  <2>5. WrittenExact' <=> Sum(q) = stats.written + Sum(written')
    BY <1>2 DEF WrittenExact
  <2> HIDE DEF p, q
  <2>6. /\ Sum(q) = Sum(p) - p[w] + q[w]
        /\ Sum(written') = Sum(written) - written[w] + written'[w]
    <3>1. IsFiniteSet(Loggers)
      BY LoggerAssumption
    <3>2. Sum(q) = Sum(p) - p[w] + q[w]
      BY <2>1, <2>2, <3>1, SumChange
    <3>3. Sum(written') = Sum(written) - written[w] + written'[w]
      <4>1. PICK f0, h0 : f0 = written /\ h0 = written'
        OBVIOUS
      <4>2. f0 \in [Loggers -> Nat] /\ h0 \in [Loggers -> Nat] /\ \A v \in Loggers : v # w => h0[v] = f0[v]
        BY <2>3, <4>1
      <4>3. Sum(h0) = Sum(f0) - f0[w] + h0[w]
        BY <3>1, <4>2, SumChange
      <4> QED BY <4>1, <4>3
    <3> QED BY <3>2, <3>3
  <2>7. Sum(p) \in Nat /\ Sum(written) \in Nat /\ p[w] \in Nat /\ written[w] \in Nat
    BY <2>1, <2>3, SumType, LoggerAssumption
  <2>8. Sum(q) = Sum(p) + 1 /\ Sum(written') = Sum(written) + 1
    BY <2>2, <2>3, <2>6, <2>7
  <2> QED BY <2>4, <2>5, <2>7, <2>8
<1> QED BY <1>6, <1>7, <1>8, <1>9, <1>10, <1>11 DEF IInv

-----------------------------------------------------------------------------

(* Steps that change the watcher of one slot.                              *)

LEMMA OthersServed ==
    ASSUME IInv, NEW x \in Slots, UNCHANGED <<logbuf, gid>>, Onward,
           \A y \in Slots \ {x} : watchers'[y] = watchers[y] /\ sockets'[y].got = sockets[y].got,
           x \in Used' => ServedOK(x)'
    PROVE  WatchersOK'
<1> SUFFICES ASSUME NEW y \in Slots, y # x, y \in Used' PROVE ServedOK(y)'
  BY DEF WatchersOK, Used
<1>1. watchers'[y] = watchers[y] /\ Stream(y)' = Stream(y)
  BY DEF Stream
<1>2. y \in Used /\ ServedOK(y) /\ TypesOK
  BY <1>1 DEF Used, IInv, WatchersOK
<1>3. Behind(y, Stream(y))'
  BY <1>1, <1>2, StaysBehind DEF ServedOK
<1> QED BY <1>1, <1>2, <1>3, StaysServed

LEMMA FlagsStay ==
    ASSUME FlagsOK, UNCHANGED eflags, \A y \in Slots : watchers'[y].eflags = watchers[y].eflags
    PROVE  FlagsOK'
<1>1. {watchers'[y].eflags : y \in Slots} = {watchers[y].eflags : y \in Slots}
  OBVIOUS
<1> QED BY <1>1 DEF FlagsOK, logger_set_flags

LEMMA NoLines == /\ <<>> \in Seq(LineSet) /\ Numbered(<<>>) = {} /\ Total(<<>>) = 0
<1>1. 1 .. Len(<<>>) = {}
  OBVIOUS
<1>2. [n \in 1 .. Len(<<>>) |-> <<>>[n].n] \in [{} -> Nat]
  BY <1>1
<1>3. Total(<<>>) = 0
  BY <1>1, <1>2, SumNone DEF Total
<1> QED BY <1>1, <1>3 DEF Numbered

\* A new watcher is owed nothing, and the line it gets is no entry.
LEMMA AddKeeps == ASSUME IInv, NEW w \in Loggers, logger_add_watcher(w) PROVE IInv'
<1>0. PICK x : x = CHOOSE z \in Slots \ Used : \A y \in Slots \ Used : z <= y
  OBVIOUS
<1> DEFINE ok == [gid |-> 0, from |-> w, n |-> 0]
<1>1. x \in Slots \ Used
  <2>1. Slots \ Used # {} /\ Slots \ Used \subseteq Nat /\ Slots \subseteq Nat
    BY LoggerAssumption, FS_CardinalityType, SMTT(30) DEF logger_add_watcher, Used
  <2>2. \E y \in Slots \ Used : \A z \in Slots \ Used : ~(z < y)
    BY <2>1, LeastOf
  <2>3. \E y \in Slots \ Used : \A z \in Slots \ Used : y <= z
    BY <2>1, <2>2
  <2> QED BY <1>0, <2>3
<1>2. PICK fs \in SUBSET Flags \ {{}} :
           watchers' = [watchers EXCEPT ![x] = [NoWatcher EXCEPT !.eflags = fs, !.buf = <<ok>>]]
  BY <1>0 DEF logger_add_watcher
<1>3. /\ sockets' = [sockets EXCEPT ![x] = [state |-> "open", got |-> <<>>]]
      /\ eflags' = logger_set_flags(watchers')
      /\ UNCHANGED <<logbuf, written, dropped, gid, logged, log_pc, lpc, stats, stack_lock>>
  BY <1>0 DEF logger_add_watcher
<1>4. TypesOK /\ x \in Slots
  BY <1>1 DEF IInv
<1> DEFINE new == [NoWatcher EXCEPT !.eflags = fs, !.buf = <<ok>>]
<1>5. ok \in LineSet /\ <<ok>> \in Seq(LineSet) /\ Len(<<ok>>) = 1 /\ <<>> \in Seq(LineSet)
  BY DEF LineSet
<1>6. /\ watchers' = [watchers EXCEPT ![x] = new]
      /\ new \in [eflags : SUBSET Flags, buf : Seq(LineSet), failed_flush : BOOLEAN, skipped : Nat, due : Nat]
  <2> HIDE DEF ok
  <2>1. \A b \in Seq(LineSet) :
          [NoWatcher EXCEPT !.eflags = fs, !.buf = b]
            \in [eflags : SUBSET Flags, buf : Seq(LineSet), failed_flush : BOOLEAN, skipped : Nat, due : Nat]
    BY <1>5 DEF NoWatcher
  <2> QED BY <1>2, <1>5, <2>1
<1>7. new.buf = <<ok>> /\ new.due = 0 /\ new.skipped = 0
  BY DEF NoWatcher
<1> HIDE DEF new
<1>8. /\ watchers' \in [Slots -> [eflags : SUBSET Flags, buf : Seq(LineSet), failed_flush : BOOLEAN,
                               skipped : Nat, due : Nat]]
      /\ watchers'[x] = new /\ \A y \in Slots \ {x} : watchers'[y] = watchers[y]
  BY <1>4, <1>6 DEF TypesOK
<1>9. /\ sockets' \in [Slots -> [state : {"none", "open", "full", "gone"}, got : Seq(LineSet)]]
      /\ sockets'[x].got = <<>> /\ \A y \in Slots \ {x} : sockets'[y].got = sockets[y].got
  <2>1. sockets \in [Slots -> [state : {"none", "open", "full", "gone"}, got : Seq(LineSet)]]
    BY <1>4 DEF TypesOK
  <2> QED BY <1>3, <1>4, <1>5, <2>1
<1>10. TypesOK'
  <2>1. \A y \in Slots : watchers'[y].eflags \in SUBSET Flags
    BY <1>8
  <2>2. eflags' \in [Loggers -> SUBSET Flags]
    BY <1>3, <2>1 DEF logger_set_flags
  <2> QED BY <1>3, <1>4, <1>8, <1>9, <2>2 DEF TypesOK
<1>11. BuffersOK'
  <2>0. 1 <= WatcherSize
    BY LoggerAssumption
  <2>1. \A y \in Slots : Len(watchers'[y].buf) <= WatcherSize
    <3> HIDE DEF ok
    <3>1. \A y \in Slots \ {x} : Len(watchers'[y].buf) <= WatcherSize
      BY <1>8 DEF IInv, BuffersOK
    <3>2. Len(watchers'[x].buf) = 1
      BY <1>5, <1>7, <1>8
    <3> QED BY <2>0, <3>1, <3>2
  <2> QED BY <1>3, <2>1 DEF IInv, BuffersOK
<1>12. ScanOK' /\ EntriesOK' /\ FlagsOK' /\ Onward
  BY <1>3, <1>4, OnwardIs DEF IInv, ScanOK, EntriesOK, FlagsOK
<1>13. WrittenExact'
  BY <1>3, <1>4, <1>10, WrittenStays DEF IInv
<1>14. ServedOK(x)'
  <2>0. ok.gid = 0 /\ ok.n = 0
    OBVIOUS
  <2> HIDE DEF ok
  <2>1. Stream(x)' = Append(<<>>, ok)
    <3>1. Stream(x)' = <<>> \o <<ok>>
      BY <1>7, <1>8, <1>9 DEF Stream
    <3> QED BY <3>1
  <2>2. Numbered(Append(<<>>, ok)) = {} /\ Total(Append(<<>>, ok)) = 0
    <3>1. /\ Numbered(Append(<<>>, ok)) = Numbered(<<>>) \cup (IF ok.gid = 0 THEN {} ELSE {Len(<<>>) + 1})
          /\ Total(Append(<<>>, ok)) = Total(<<>>) + ok.n
      BY <1>5, OneMoreLine, Zenon
    <3> QED BY <2>0, <3>1, NoLines
  <2>3. Cardinality({}) = 0
    BY FS_EmptySet
  <2>4. Announced(watchers[x], Stream(x))'
    <3>1. watchers'[x].due = 0 /\ watchers'[x].skipped = 0
      BY <1>7, <1>8
    <3>2. Cardinality(Numbered(Stream(x)')) = 0 /\ Total(Stream(x)') = 0
      BY <2>1, <2>2, <2>3
    <3> QED BY <3>1, <3>2 DEF Announced
  <2>5. Ordered(Stream(x))' /\ Behind(x, Stream(x))'
    BY <2>1, <2>2 DEF Ordered, Behind
  <2> QED BY <2>4, <2>5 DEF ServedOK
<1>15. WatchersOK'
  BY <1>3, <1>4, <1>8, <1>9, <1>12, <1>14, OthersServed
<1> QED BY <1>10, <1>11, <1>12, <1>13, <1>15 DEF IInv

-----------------------------------------------------------------------------
(* The steps of the logger thread.                                         *)

PassSet == [at : {"sleep", "peek", "entry", "poll"}, l : Loggers \cup {NoLogger}, size : Nat,
            pos : Nat, slot : Nat]

\* Where the pass goes next.
LEMMA NextIs ==
    ASSUME NEW l \in Loggers \cup {NoLogger}
    PROVE  /\ ToNext(l) \in PassSet /\ ToNext(l).pos = 0 /\ ToNext(l).size = 0
           /\ ToNext(l).at = "poll" \/ (ToNext(l).at = "peek" /\ ToNext(l).l \in Loggers)
<1>1. NextLogger[l] \in Loggers \cup {NoLogger}
  BY LoggerAssumption
<1> QED BY <1>1 DEF ToNext, Idle, PassSet

LEMMA StartKeeps == ASSUME IInv, StartPass PROVE IInv'
<1>1. /\ UNCHANGED <<logbuf, eflags, gid, watchers, sockets, written, stats, logged, dropped, log_pc>>
      /\ stack_lock' = "logger" /\ lpc' = ToNext(NoLogger) /\ lpc.at = "sleep"
  BY DEF StartPass, watching, logState, Doing
<1>2. TypesOK'
  BY <1>1, NextIs DEF IInv, TypesOK, PassSet
<1>3. WrittenExact'
  BY <1>1, <1>2, WrittenStays DEF IInv
<1>4. Onward
  BY <1>1, OnwardIs DEF IInv
<1>5. ScanOK'
  BY <1>1, NextIs DEF ScanOK
<1> QED BY <1>1, <1>2, <1>3, <1>4, <1>5, QuietKeeps

LEMMA PeekKeeps == ASSUME IInv, Peek PROVE IInv'
<1>1. /\ UNCHANGED <<logbuf, eflags, gid, watchers, sockets, written, stats, logged, dropped, log_pc, stack_lock>>
      /\ lpc.at = "peek"
  BY DEF Peek, watching, logState, Doing
<1>2. lpc.l \in Loggers /\ TypesOK /\ Len(logbuf[lpc.l]) \in Nat
  BY <1>1, SMTT(30) DEF IInv, ScanOK, TypesOK
<1>3. CASE lpc' = ToNext(lpc.l)
  <2>0. /\ lpc' \in PassSet /\ lpc'.pos = 0 /\ lpc'.size = 0
        /\ lpc'.at = "poll" \/ (lpc'.at = "peek" /\ lpc'.l \in Loggers)
    BY <1>2, <1>3, NextIs
  <2>1. TypesOK' /\ ScanOK'
    <3>1. TypesOK'
      BY <1>1, <1>2, <2>0 DEF TypesOK, PassSet
    <3>2. ScanOK'
      BY <2>0 DEF ScanOK
    <3> QED BY <3>1, <3>2
  <2>2. WrittenExact'
    BY <1>1, <1>2, <2>1, WrittenStays DEF IInv
  <2>3. Onward
    BY <1>1, <1>2, OnwardIs
  <2> QED BY <1>1, <2>1, <2>2, <2>3, QuietKeeps
<1>4. ASSUME NEW n \in 1 .. Len(logbuf[lpc.l]),
             lpc' = [lpc EXCEPT !.at = "entry", !.size = n, !.pos = 1, !.slot = 1]
      PROVE  IInv'
  <2>1. n \in Nat /\ n <= Len(logbuf[lpc.l]) /\ n >= 1
    BY <1>2
  <2>2. lpc' \in PassSet /\ lpc'.l = lpc.l /\ lpc'.size = n /\ lpc'.pos = 1
    BY <1>2, <1>4, <2>1 DEF TypesOK, PassSet
  <2>3. TypesOK' /\ ScanOK'
    <3>1. TypesOK'
      BY <1>1, <1>2, <2>2 DEF TypesOK, PassSet
    <3>2. ScanOK'
      BY <1>1, <1>2, <2>1, <2>2 DEF ScanOK
    <3> QED BY <3>1, <3>2
  <2>4. WrittenExact'
    BY <1>1, <1>2, <2>3, WrittenStays DEF IInv
  <2>5. Onward
    BY <1>1, <1>2, OnwardIs
  <2> QED BY <1>1, <2>3, <2>4, <2>5, QuietKeeps
<1> QED BY <1>3, <1>4 DEF Peek

\* One slot on.
LEMMA SlotOn ==
    ASSUME IInv, Writing, lpc' = AfterSlot, UNCHANGED logbuf
    PROVE  /\ lpc' \in PassSet /\ ScanOK' /\ Onward
           /\ lpc'.at = "entry" /\ lpc'.l = lpc.l /\ lpc'.size = lpc.size
           /\ lpc.pos < lpc'.pos \/ (lpc.pos = lpc'.pos /\ lpc.slot < lpc'.slot)
           /\ lpc.l \in Loggers /\ lpc.pos \in 1 .. Len(logbuf[lpc.l])
<1>1. lpc.at = "entry" /\ lpc.pos <= lpc.size
  BY DEF Writing, Doing
<1>2. lpc \in PassSet /\ lpc.pos \in Nat /\ lpc.slot \in Nat /\ lpc.size \in Nat
  BY DEF IInv, TypesOK, PassSet
<1>3. lpc.l \in Loggers /\ lpc.size <= Len(logbuf[lpc.l]) /\ lpc.pos >= 1
  BY <1>1 DEF IInv, ScanOK
<1>4. Len(logbuf[lpc.l]) \in Nat
  BY <1>3 DEF IInv, TypesOK
<1>5. /\ lpc' \in PassSet /\ lpc'.at = "entry" /\ lpc'.l = lpc.l /\ lpc'.size = lpc.size
      /\ \/ lpc'.pos = lpc.pos + 1
         \/ lpc'.pos = lpc.pos /\ lpc'.slot = lpc.slot + 1
  <2> DEFINE A == [lpc EXCEPT !.pos = lpc.pos + 1, !.slot = 1]
             B == [lpc EXCEPT !.slot = lpc.slot + 1]
  <2>1. A \in PassSet /\ A.at = "entry" /\ A.l = lpc.l /\ A.size = lpc.size /\ A.pos = lpc.pos + 1
    <3>1. ASSUME NEW a \in Nat, NEW b \in Nat, NEW c, c = [lpc EXCEPT !.pos = a, !.slot = b]
          PROVE  c \in PassSet /\ c.at = "entry" /\ c.l = lpc.l /\ c.size = lpc.size /\ c.pos = a
      BY <1>1, <1>2, <3>1 DEF PassSet
    <3>2. lpc.pos + 1 \in Nat /\ 1 \in Nat
      BY <1>2
    <3> QED BY <3>1, <3>2
  <2>2. /\ B \in PassSet /\ B.at = "entry" /\ B.l = lpc.l /\ B.size = lpc.size /\ B.pos = lpc.pos
        /\ B.slot = lpc.slot + 1
    BY <1>1, <1>2 DEF PassSet
  <2>3. lpc' = A \/ lpc' = B
    BY Zenon DEF AfterSlot
  <2> HIDE DEF A, B
  <2> QED BY <2>1, <2>2, <2>3
<1>6. ScanOK'
  BY <1>1, <1>2, <1>3, <1>5 DEF ScanOK
<1>7. Onward
  BY OnwardIs DEF IInv
<1> QED BY <1>1, <1>2, <1>3, <1>4, <1>5, <1>6, <1>7

LEMMA NotWantedKeeps == ASSUME IInv, NotWanted PROVE IInv'
<1>1. /\ UNCHANGED <<logbuf, eflags, gid, watchers, sockets, written, stats, logged, dropped, log_pc, stack_lock>>
      /\ Writing /\ lpc' = AfterSlot
  BY DEF NotWanted, watching, logState
<1>2. lpc' \in PassSet /\ ScanOK' /\ Onward
  BY <1>1, SlotOn
<1>3. TypesOK'
  BY <1>1, <1>2 DEF IInv, TypesOK, PassSet
<1>4. WrittenExact'
  BY <1>1, <1>3, WrittenStays DEF IInv
<1> QED BY <1>1, <1>2, <1>3, <1>4, QuietKeeps

-----------------------------------------------------------------------------

LEMMA SkipKeeps == ASSUME IInv, SkipEntry PROVE IInv'
<1>0. PICK x : x = lpc.slot
  OBVIOUS
<1>1. /\ UNCHANGED <<logbuf, eflags, gid, sockets, written, stats, logged, dropped, log_pc, stack_lock>>
      /\ watchers' = [watchers EXCEPT ![x].skipped = @ + 1, ![x].due = @ + 1]
      /\ Writing /\ lpc' = AfterSlot /\ x \in Used
  BY <1>0 DEF SkipEntry, logState, Wants
<1>2. lpc' \in PassSet /\ ScanOK' /\ Onward /\ x \in Slots /\ TypesOK
  BY <1>1, SlotOn DEF IInv, Used
<1> DEFINE WS == [eflags : SUBSET Flags, buf : Seq(LineSet), failed_flush : BOOLEAN, skipped : Nat, due : Nat]
<1>3. watchers \in [Slots -> WS] /\ watchers[x].skipped \in Nat /\ watchers[x].due \in Nat
  BY <1>2 DEF TypesOK
<1>4. /\ watchers' \in [Slots -> WS] /\ \A y \in Slots \ {x} : watchers'[y] = watchers[y]
      /\ watchers'[x].skipped = watchers[x].skipped + 1 /\ watchers'[x].due = watchers[x].due + 1
      /\ watchers'[x].buf = watchers[x].buf /\ watchers'[x].eflags = watchers[x].eflags
  BY <1>1, <1>2, <1>3, SMTT(30)
<1>5. TypesOK'
  BY <1>1, <1>2, <1>4 DEF TypesOK, PassSet
<1>6. BuffersOK'
  BY <1>1, <1>4 DEF IInv, BuffersOK
<1>7. FlagsOK'
  BY <1>1, <1>4, FlagsStay DEF IInv
<1>8. EntriesOK'
  BY <1>1 DEF IInv, EntriesOK
<1>9. WrittenExact'
  BY <1>1, <1>2, <1>5, WrittenStays DEF IInv
<1>10. ServedOK(x)'
  <2>1. ServedOK(x) /\ Stream(x)' = Stream(x)
    BY <1>1, <1>4 DEF IInv, WatchersOK, Stream
  <2>2. Behind(x, Stream(x))'
    BY <1>1, <1>2, <2>1, StaysBehind DEF ServedOK
  <2>3. Cardinality(Numbered(Stream(x))) \in Nat /\ Total(Stream(x)) \in Nat
    BY <1>2, StreamType, NumberedIs, TotalType
  <2>4. watchers[x].due = Cardinality(Numbered(Stream(x))) + watchers[x].skipped + Total(Stream(x))
    BY <2>1 DEF ServedOK, Announced
  <2>5. watchers'[x].due = Cardinality(Numbered(Stream(x))) + watchers'[x].skipped + Total(Stream(x))
    BY <1>3, <1>4, <2>3, <2>4
  <2> QED BY <2>1, <2>2, <2>5 DEF ServedOK, Announced, Ordered
<1>11. WatchersOK'
  BY <1>1, <1>2, <1>4, <1>10, OthersServed
<1> QED BY <1>2, <1>5, <1>6, <1>7, <1>8, <1>9, <1>11 DEF IInv

\* One more line: in order when it is newer than the lines of its worker, and
\* behind when it is older than what is to come from there.
LEMMA OneMoreServed ==
    ASSUME NEW s \in Seq(LineSet), NEW e \in LineSet, Ordered(s),
           e.gid # 0 => \A n \in Numbered(s) : s[n].from = e.from => s[n].gid < e.gid
    PROVE  Ordered(Append(s, e))
<1> DEFINE t == Append(s, e)
           N == Len(s) + 1
<1>1. /\ N \in Nat /\ Len(s) \in Nat /\ t[N] = e /\ \A n \in 1 .. Len(s) : t[n] = s[n]
      /\ Numbered(t) = Numbered(s) \cup (IF e.gid = 0 THEN {} ELSE {N})
  BY OneMoreLine
<1>2. Numbered(s) \subseteq 1 .. Len(s)
  BY NumberedIs
<1> HIDE DEF t
<1> SUFFICES ASSUME NEW m \in Numbered(t), NEW n \in Numbered(t), m < n, t[m].from = t[n].from
             PROVE  t[m].gid < t[n].gid
  BY DEF Ordered, t
<1>3. (m \in Numbered(s) \/ (m = N /\ e.gid # 0)) /\ (n \in Numbered(s) \/ (n = N /\ e.gid # 0))
  BY <1>1
<1>4. m \in Numbered(s) /\ m \in 1 .. Len(s)
  <2>1. n <= N
    BY <1>1, <1>2, <1>3
  <2> QED BY <1>1, <1>2, <1>3, <2>1
<1>5. CASE n \in Numbered(s)
  BY <1>1, <1>2, <1>4, <1>5 DEF Ordered
<1>6. CASE n = N /\ e.gid # 0
  BY <1>1, <1>4, <1>6
<1> QED BY <1>3, <1>5, <1>6

\* A line whose entry has been passed, for this slot.
GrowsBehind ==
    \A x \in Slots, s \in Seq(LineSet), e \in LineSet :
      /\ Behind(x, s)
      /\ e.gid # 0 => /\ e.gid <= gid
                      /\ \A m \in 1 .. Len(logbuf[e.from]) :
                           Passed(x, e.from, m) \/ e.gid < logbuf[e.from][m].gid
      => Behind(x, Append(s, e))

LEMMA OneMoreBehind == GrowsBehind
<1> SUFFICES ASSUME NEW x \in Slots, NEW s \in Seq(LineSet), NEW e \in LineSet, Behind(x, s),
                    e.gid # 0 => /\ e.gid <= gid
                                 /\ \A m \in 1 .. Len(logbuf[e.from]) :
                                      Passed(x, e.from, m) \/ e.gid < logbuf[e.from][m].gid
             PROVE  Behind(x, Append(s, e))
  BY DEF GrowsBehind
<1> DEFINE t == Append(s, e)
           N == Len(s) + 1
<1>1. /\ N \in Nat /\ Len(s) \in Nat /\ t[N] = e /\ \A n \in 1 .. Len(s) : t[n] = s[n]
      /\ Numbered(t) = Numbered(s) \cup (IF e.gid = 0 THEN {} ELSE {N})
  BY OneMoreLine
<1>2. Numbered(s) \subseteq 1 .. Len(s)
  BY NumberedIs
<1> HIDE DEF t
<1> SUFFICES ASSUME NEW n \in Numbered(t)
             PROVE  /\ t[n].gid <= gid
                    /\ \A m \in 1 .. Len(logbuf[t[n].from]) :
                         Passed(x, t[n].from, m) \/ t[n].gid < logbuf[t[n].from][m].gid
  BY DEF Behind, t
<1>3. CASE n \in Numbered(s)
  <2>1. t[n] = s[n]
    BY <1>1, <1>2, <1>3
  <2> QED BY <1>3, <2>1 DEF Behind
<1>4. CASE n = N /\ e.gid # 0
  BY <1>1, <1>4
<1> QED BY <1>1, <1>3, <1>4

\* What a watcher that has room gets: the number of the entries it missed, if
\* it missed any, and the entry.
LEMMA WriteKeeps == ASSUME IInv, WriteLine PROVE IInv'
<1> DEFINE WS == [eflags : SUBSET Flags, buf : Seq(LineSet), failed_flush : BOOLEAN, skipped : Nat, due : Nat]
<1>0. PICK x, l, p, w, old, ent : /\ x = lpc.slot /\ l = lpc.l /\ p = lpc.pos /\ w = watchers[x]
                                  /\ old = Stream(x) /\ ent = logbuf[l][p]
  OBVIOUS
<1>a. PICK line, note : /\ line = [gid |-> ent.gid, from |-> l, n |-> 0]
                        /\ note = [gid |-> 0, from |-> l, n |-> w.skipped]
  OBVIOUS
<1>b. PICK mid, given : /\ mid = IF w.skipped > 0 THEN Append(w.buf, note) ELSE w.buf
                        /\ given = IF w.skipped > 0 THEN Append(old, note) ELSE old
  OBVIOUS
<1>1. /\ UNCHANGED <<logbuf, eflags, gid, sockets, written, stats, logged, dropped, log_pc, stack_lock>>
      /\ Writing /\ lpc' = AfterSlot /\ x \in Used /\ HasRoom(x)
      /\ watchers' = [watchers EXCEPT ![x] =
             [w EXCEPT !.buf = (w.buf \o SkipLine(w)) \o <<line>>, !.skipped = 0, !.due = w.due + 1]]
  BY <1>0, <1>a DEF WriteLine, logState, Wants, ParsedLine, Entry
<1>2. /\ lpc' \in PassSet /\ ScanOK' /\ Onward /\ x \in Slots /\ TypesOK /\ ServedOK(x)
      /\ l \in Loggers /\ p \in 1 .. Len(logbuf[l])
  BY <1>0, <1>1, SlotOn DEF IInv, Used, WatchersOK
<1>3. watchers \in [Slots -> WS] /\ w \in WS /\ logbuf[l] \in Seq(Entries) /\ gid \in Nat
  BY <1>0, <1>2 DEF TypesOK
<1>4. ent \in Entries /\ 1 <= ent.gid /\ ent.gid <= gid
  <2>1. ent \in Entries
    BY <1>0, <1>2, <1>3, ElementOfSeq
  <2>2. 1 <= ent.gid /\ ent.gid <= gid
    BY <1>0, <1>2 DEF IInv, EntriesOK
  <2> QED BY <2>1, <2>2
<1>5. /\ line \in LineSet /\ line.gid = ent.gid /\ line.gid # 0 /\ line.n = 0 /\ line.from = l
      /\ note \in LineSet /\ note.gid = 0 /\ note.n = w.skipped
      /\ w.skipped \in Nat /\ w.due \in Nat /\ w.buf \in Seq(LineSet)
  BY <1>a, <1>2, <1>3, <1>4 DEF LineSet, Entries
<1>6. \A m \in 1 .. Len(logbuf[l]) : m < p \/ m = p \/ ent.gid < logbuf[l][m].gid
  <2>1. \A m, n \in 1 .. Len(logbuf[l]) : m < n => logbuf[l][m].gid < logbuf[l][n].gid
    BY <1>2 DEF IInv, EntriesOK
  <2>2. \A m \in 1 .. Len(logbuf[l]) : m < p \/ m = p \/ p < m
    BY <1>2
  <2> QED BY <1>0, <1>2, <2>1, <2>2
<1>7. SkipLine(w) = IF w.skipped > 0 THEN <<note>> ELSE <<>>
  BY <1>0, <1>a DEF SkipLine
<1>8. (w.buf \o SkipLine(w)) \o <<line>> = Append(mid, line) /\ mid \in Seq(LineSet)
  <2>1. w.buf \o SkipLine(w) = mid
    <3>1. w.buf \o <<>> = w.buf
      BY <1>5, ConcatEmptySeq
    <3>2. w.buf \o <<note>> = Append(w.buf, note)
      BY <1>5
    <3> QED BY <1>b, <1>7, <3>1, <3>2
  <2>2. Append(w.buf, note) \in Seq(LineSet)
    BY <1>5
  <2>3. mid \in Seq(LineSet)
    BY <1>b, <1>5, <2>2
  <2>4. mid \o <<line>> = Append(mid, line)
    BY <1>5, <2>3
  <2> QED BY <2>1, <2>3, <2>4
<1>9. /\ watchers' \in [Slots -> WS] /\ \A y \in Slots \ {x} : watchers'[y] = watchers[y]
      /\ watchers'[x].buf = Append(mid, line) /\ watchers'[x].skipped = 0 /\ watchers'[x].due = w.due + 1
      /\ watchers'[x].eflags = watchers[x].eflags
  <2>1. Append(mid, line) \in Seq(LineSet) /\ w.due + 1 \in Nat
    BY <1>5, <1>8, OneMoreLine
  <2>2. PICK v : v = [w EXCEPT !.buf = Append(mid, line), !.skipped = 0, !.due = w.due + 1]
    OBVIOUS
  <2>3. v \in WS /\ v.buf = Append(mid, line) /\ v.skipped = 0 /\ v.due = w.due + 1 /\ v.eflags = w.eflags
    BY <1>3, <2>1, <2>2
  <2>4. watchers' = [watchers EXCEPT ![x] = v]
    BY <1>1, <1>8, <2>2
  <2> HIDE DEF WS
  <2> QED BY <1>0, <1>2, <1>3, <2>3, <2>4
<1>10. Stream(x)' = Append(given, line) /\ given \in Seq(LineSet) /\ old \in Seq(LineSet)
  <2>1. PICK got : got = sockets[x].got
    OBVIOUS
  <2>2. got \in Seq(LineSet) /\ old = got \o w.buf /\ old \in Seq(LineSet)
    BY <1>0, <1>2, <2>1, StreamType DEF Stream
  <2>3. got \o Append(w.buf, note) = Append(old, note) /\ Append(old, note) \in Seq(LineSet)
    BY <1>5, <2>2, StreamGrows, OneMoreLine
  <2>4. got \o mid = given /\ given \in Seq(LineSet)
    BY <1>b, <2>2, <2>3
  <2>5. got \o Append(mid, line) = Append(given, line)
    BY <1>5, <1>8, <2>2, <2>4, StreamGrows
  <2> QED BY <1>1, <1>9, <2>1, <2>2, <2>4, <2>5 DEF Stream
<1>11. TypesOK'
  BY <1>1, <1>2, <1>9 DEF TypesOK, PassSet
<1>12. BuffersOK'
  <2>1. Len(mid) <= Len(w.buf) + 1 /\ Len(w.buf) \in Nat /\ Len(mid) \in Nat
    BY <1>b, <1>5, OneMoreLine
  <2>2. Len(w.buf) <= WatcherSize - 2 /\ WatcherSize \in Nat
    BY <1>0, <1>1, LoggerAssumption DEF HasRoom
  <2>3. Len(Append(mid, line)) = Len(mid) + 1
    BY <1>8, <1>5, OneMoreLine
  <2>4. Len(watchers'[x].buf) <= WatcherSize
    BY <1>9, <2>1, <2>2, <2>3
  <2>5. \A y \in Slots \ {x} : Len(watchers'[y].buf) <= WatcherSize
    BY <1>9 DEF IInv, BuffersOK
  <2> QED BY <1>1, <2>4, <2>5 DEF IInv, BuffersOK
<1>13. FlagsOK'
  BY <1>1, <1>9, FlagsStay DEF IInv
<1>14. EntriesOK'
  BY <1>1 DEF IInv, EntriesOK
<1>15. WrittenExact'
  BY <1>1, <1>2, <1>11, WrittenStays DEF IInv
<1>16. ServedOK(x)'
  <2>1. /\ w.due = Cardinality(Numbered(old)) + w.skipped + Total(old)
        /\ Ordered(old) /\ Behind(x, old)
    BY <1>0, <1>2 DEF ServedOK, Announced
  <2>2. Cardinality(Numbered(old)) \in Nat /\ Total(old) \in Nat
    BY <1>10, NumberedIs, TotalType
  <2>3. /\ Cardinality(Numbered(given)) = Cardinality(Numbered(old))
        /\ Total(given) = Total(old) + w.skipped
        /\ Ordered(given) /\ Behind(x, given)
    <3>1. CASE w.skipped > 0
      <4>1. given = Append(old, note)
        BY <1>b, <3>1
      <4>2. Cardinality(Numbered(given)) = Cardinality(Numbered(old)) /\ Total(given) = Total(old) + w.skipped
        BY <1>5, <1>10, <2>2, <4>1, OneMoreLine
      <4>3. Ordered(given)
        BY <1>5, <1>10, <2>1, <4>1, OneMoreServed
      <4>4. Behind(x, given)
        BY <1>2, <1>5, <1>10, <2>1, <4>1, OneMoreBehind DEF GrowsBehind
      <4> QED BY <4>2, <4>3, <4>4
    <3>2. CASE ~(w.skipped > 0)
      <4>1. w.skipped = 0 /\ given = old
        BY <1>b, <1>5, <3>2
      <4> QED BY <2>1, <2>2, <4>1
    <3> QED BY <3>1, <3>2
  <2>4. Announced(watchers[x], Stream(x))'
    <3>1. /\ Cardinality(Numbered(Append(given, line))) = Cardinality(Numbered(given)) + 1
          /\ Total(Append(given, line)) = Total(given) + 0
      BY <1>5, <1>10, OneMoreLine
    <3>2. w.due + 1 = Cardinality(Numbered(Append(given, line))) + 0 + Total(Append(given, line))
      BY <1>5, <2>1, <2>2, <2>3, <3>1
    <3> QED BY <1>9, <1>10, <3>2 DEF Announced
  <2>5. \A n \in Numbered(given) : given[n].from = l => given[n].gid < ent.gid
    <3> SUFFICES ASSUME NEW n \in Numbered(given), given[n].from = l PROVE given[n].gid < ent.gid
      OBVIOUS
    <3>1. ~Passed(x, l, p)
      <4>1. p \in Nat /\ lpc.slot \in Nat
        BY <1>2 DEF TypesOK
      <4> QED BY <1>0, <4>1 DEF Passed
    <3> QED BY <1>0, <1>2, <2>3, <3>1 DEF Behind
  <2>6. Ordered(Stream(x))'
    <3>1. Ordered(Append(given, line))
      BY <1>5, <1>10, <2>3, <2>5, OneMoreServed
    <3> QED BY <1>10, <3>1 DEF Ordered
  <2>7. Behind(x, Stream(x))'
    <3>1. Behind(x, given)'
      <4>1. \A n \in Numbered(given) : given[n].from \in Loggers
        BY <1>10, NumberedIs, LineIs
      <4> QED BY <1>1, <1>2, <2>3 DEF Behind, Onward
    <3>2. \A m \in 1 .. Len(logbuf[l]) : Passed(x, l, m)' \/ ent.gid < logbuf[l][m].gid
      <4> SUFFICES ASSUME NEW m \in 1 .. Len(logbuf[l]), ~(ent.gid < logbuf[l][m].gid) PROVE Passed(x, l, m)'
        OBVIOUS
      <4>1. m \in Nat /\ (m < p \/ m = p) /\ p <= lpc.size /\ lpc.size \in Nat /\ p \in Nat /\ x \in Nat
        <5>1. lpc.size \in Nat /\ x \in Nat
          BY <1>0, <1>2 DEF TypesOK
        <5>2. m \in Nat /\ p \in Nat /\ (m < p \/ m = p)
          BY <1>2, <1>6
        <5> QED BY <1>0, <1>1, <5>1, <5>2 DEF Writing
      <4>2. /\ lpc'.at = "entry" /\ lpc'.l = l /\ lpc'.size = lpc.size
            /\ p < lpc'.pos \/ (p = lpc'.pos /\ x < lpc'.slot)
        BY <1>0, <1>1, SlotOn
      <4>3. lpc'.pos \in Nat
        BY <1>2 DEF PassSet
      <4> QED BY <4>1, <4>2, <4>3 DEF Passed
    <3>3. GrowsBehind'
      BY OneMoreBehind, PTL
    <3>4. line.gid <= gid' /\ \A m \in 1 .. Len(logbuf'[line.from]) :
                                Passed(x, line.from, m)' \/ line.gid < logbuf'[line.from][m].gid
      BY <1>1, <1>4, <1>5, <3>2
    <3>5. Behind(x, Append(given, line))'
      BY <1>2, <1>5, <1>10, <3>1, <3>3, <3>4 DEF GrowsBehind
    <3> QED BY <1>10, <3>5 DEF Behind
  <2> QED BY <2>4, <2>6, <2>7 DEF ServedOK
<1>17. WatchersOK'
  BY <1>1, <1>2, <1>9, <1>16, OthersServed
<1> QED BY <1>2, <1>11, <1>12, <1>13, <1>14, <1>15, <1>17 DEF IInv

-----------------------------------------------------------------------------

\* The entries that were looked at leave the worker's buffer; all that were
\* sent were among them.
LEMMA ConsumeKeeps == ASSUME IInv, Consume PROVE IInv'
<1>0. PICK l, k : l = lpc.l /\ k = lpc.size
  OBVIOUS
<1>1. /\ UNCHANGED <<eflags, stack_lock, watchers, sockets, gid, logged, log_pc>>
      /\ lpc.at = "entry" /\ (lpc.pos > k \/ Used = {})
      /\ logbuf' = [logbuf EXCEPT ![l] = SubSeq(logbuf[l], k + 1, Len(logbuf[l]))]
      /\ stats' = [written |-> stats.written + written[l], dropped |-> stats.dropped + dropped[l]]
      /\ written' = [written EXCEPT ![l] = 0] /\ dropped' = [dropped EXCEPT ![l] = 0]
      /\ lpc' = ToNext(l)
  BY <1>0 DEF Consume, Doing, LogRest, watching, Rest, ResetCount
<1>2. /\ TypesOK /\ l \in Loggers /\ k \in Nat /\ k <= Len(logbuf[l]) /\ Len(logbuf[l]) \in Nat
      /\ logbuf[l] \in Seq(Entries) /\ logbuf \in [Loggers -> Seq(Entries)]
      /\ lpc.pos \in Nat /\ lpc.pos <= k + 1
  <2>1. TypesOK /\ l \in Loggers /\ k <= Len(logbuf[l]) /\ lpc.pos <= k + 1
    BY <1>0, <1>1 DEF IInv, ScanOK
  <2>2. logbuf \in [Loggers -> Seq(Entries)] /\ k \in Nat /\ lpc.pos \in Nat
    BY <1>0, <2>1 DEF TypesOK
  <2> QED BY <2>1, <2>2
<1>3. /\ logbuf'[l] \in Seq(Entries) /\ Len(logbuf'[l]) = Len(logbuf[l]) - k
      /\ \A m \in 1 .. Len(logbuf'[l]) :
           /\ m + k \in 1 .. Len(logbuf[l]) /\ logbuf'[l][m] = logbuf[l][m + k] /\ m \in Nat /\ m >= 1
      /\ \A v \in Loggers : v # l => logbuf'[v] = logbuf[v]
  <2>1. PICK s, t : s = logbuf[l] /\ t = SubSeq(s, k + 1, Len(s))
    OBVIOUS
  <2>2. s \in Seq(Entries) /\ Len(s) \in Nat /\ k <= Len(s)
    BY <1>2, <2>1
  <2>3. \A i \in k + 1 .. Len(s) : s[i] \in Entries
    BY <1>2, <2>2, ElementOfSeq
  <2>4. /\ t \in Seq(Entries) /\ Len(t) = (IF k + 1 <= Len(s) THEN Len(s) - (k + 1) + 1 ELSE 0)
        /\ \A i \in 1 .. Len(s) - (k + 1) + 1 : t[i] = s[(k + 1) + i - 1]
    <3>1. k + 1 \in Int /\ Len(s) \in Int
      BY <1>2, <2>2
    <3> QED BY <2>1, <2>3, <3>1, SubSeqProperties
  <2>5. Len(t) = Len(s) - k
    BY <1>2, <2>2, <2>4
  <2>6. ASSUME NEW m \in 1 .. Len(t) PROVE m + k \in 1 .. Len(s) /\ t[m] = s[m + k] /\ m \in Nat /\ m >= 1
    <3>1. m \in Nat /\ m >= 1 /\ m <= Len(s) - k
      BY <1>2, <2>2, <2>5
    <3>2. m + k \in 1 .. Len(s) /\ m \in 1 .. Len(s) - (k + 1) + 1 /\ (k + 1) + m - 1 = m + k
      BY <1>2, <2>2, <3>1
    <3> QED BY <2>4, <3>1, <3>2
  <2>7. logbuf'[l] = t /\ \A v \in Loggers : v # l => logbuf'[v] = logbuf[v]
    BY <1>1, <1>2, <2>1
  <2> QED BY <2>1, <2>4, <2>5, <2>6, <2>7
<1>4. /\ lpc' \in PassSet /\ lpc'.pos = 0 /\ lpc'.size = 0
      /\ lpc'.at = "poll" \/ (lpc'.at = "peek" /\ lpc'.l \in Loggers)
  BY <1>1, <1>2, NextIs
<1>5. TypesOK'
  <2>1. logbuf' \in [Loggers -> Seq(Entries)]
    BY <1>1, <1>2, <1>3
  <2>2. written \in [Loggers -> Nat] /\ dropped \in [Loggers -> Nat] /\ stats.written \in Nat /\ stats.dropped \in Nat
    BY <1>2 DEF TypesOK
  <2>3. written' \in [Loggers -> Nat] /\ dropped' \in [Loggers -> Nat]
    BY <1>1, <2>2
  <2>4. stats' \in [written : Nat, dropped : Nat]
    <3>1. stats.written + written[l] \in Nat /\ stats.dropped + dropped[l] \in Nat
      BY <1>2, <2>2
    <3> QED BY <1>1, <3>1
  <2> QED BY <1>1, <1>2, <1>4, <2>1, <2>3, <2>4 DEF TypesOK, PassSet
<1>6. BuffersOK' /\ FlagsOK'
  <2>1. \A v \in Loggers : Len(logbuf'[v]) <= LogSize
    <3>1. \A v \in Loggers : Len(logbuf[v]) <= LogSize
      BY DEF IInv, BuffersOK
    <3>2. Len(logbuf[l]) \in Nat /\ Len(logbuf'[l]) <= Len(logbuf[l])
      BY <1>2, <1>3
    <3>3. LogSize \in Nat
      BY LoggerAssumption
    <3> SUFFICES ASSUME NEW v \in Loggers PROVE Len(logbuf'[v]) <= LogSize
      OBVIOUS
    <3>4. CASE v = l
      <4>1. Len(logbuf'[l]) \in Nat /\ Len(logbuf[l]) <= LogSize
        BY <1>2, <1>3, <3>1
      <4> QED BY <3>2, <3>3, <3>4, <4>1
    <3>5. CASE v # l
      BY <1>3, <3>1, <3>5
    <3> QED BY <3>4, <3>5
  <2> QED BY <1>1, <2>1 DEF IInv, BuffersOK, FlagsOK, logger_set_flags
<1>7. ScanOK'
  BY <1>4 DEF ScanOK
<1>8. EntriesOK'
  <2> SUFFICES ASSUME NEW v \in Loggers
               PROVE  /\ \A m \in 1 .. Len(logbuf'[v]) : 1 <= logbuf'[v][m].gid /\ logbuf'[v][m].gid <= gid
                      /\ \A m, n \in 1 .. Len(logbuf'[v]) : m < n => logbuf'[v][m].gid < logbuf'[v][n].gid
    BY <1>1 DEF EntriesOK
  <2>1. /\ \A m \in 1 .. Len(logbuf[v]) : 1 <= logbuf[v][m].gid /\ logbuf[v][m].gid <= gid
        /\ \A m, n \in 1 .. Len(logbuf[v]) : m < n => logbuf[v][m].gid < logbuf[v][n].gid
    BY DEF IInv, EntriesOK
  <2>2. CASE v # l
    BY <1>3, <2>1, <2>2
  <2>3. CASE v = l
    <3>1. \A m \in 1 .. Len(logbuf'[l]) : 1 <= logbuf'[l][m].gid /\ logbuf'[l][m].gid <= gid
      BY <1>3, <2>1, <2>3
    <3>2. ASSUME NEW m \in 1 .. Len(logbuf'[l]), NEW n \in 1 .. Len(logbuf'[l]), m < n
          PROVE  logbuf'[l][m].gid < logbuf'[l][n].gid
      <4>1. m + k < n + k
        BY <1>2, <1>3, <3>2
      <4> QED BY <1>3, <2>1, <2>3, <4>1
    <3> QED BY <2>3, <3>1, <3>2
  <2> QED BY <2>2, <2>3
<1>9. WatchersOK'
  <2> SUFFICES ASSUME NEW x \in Used PROVE ServedOK(x)'
    BY <1>1 DEF WatchersOK, Used
  <2>1. x \in Slots /\ ServedOK(x) /\ lpc.pos > k
    BY <1>1 DEF IInv, WatchersOK, Used
  <2>2. Stream(x)' = Stream(x)
    BY <1>1 DEF Stream
  <2>3. Behind(x, Stream(x))'
    <3> SUFFICES ASSUME NEW n \in Numbered(Stream(x))
                 PROVE  /\ Stream(x)[n].gid <= gid'
                        /\ \A m \in 1 .. Len(logbuf'[Stream(x)[n].from]) :
                             Stream(x)[n].gid < logbuf'[Stream(x)[n].from][m].gid
      BY <2>2 DEF Behind
    <3>0. PICK v, g : v = Stream(x)[n].from /\ g = Stream(x)[n].gid
      OBVIOUS
    <3>1. v \in Loggers /\ g \in Nat
      BY <1>2, <2>1, <3>0, StreamType, NumberedIs, LineIs
    <3>2. g <= gid /\ \A m \in 1 .. Len(logbuf[v]) : Passed(x, v, m) \/ g < logbuf[v][m].gid
      BY <2>1, <3>0 DEF ServedOK, Behind
    <3>3. ASSUME NEW m \in 1 .. Len(logbuf'[v]) PROVE g < logbuf'[v][m].gid
      <4>1. CASE v # l
        <5>1. ~Passed(x, v, m)
          BY <1>0, <4>1 DEF Passed
        <5> QED BY <1>3, <3>1, <3>2, <4>1, <5>1
      <4>2. CASE v = l
        <5>1. m + k \in 1 .. Len(logbuf[l]) /\ logbuf'[l][m] = logbuf[l][m + k] /\ m \in Nat /\ m >= 1
          BY <1>3, <4>2
        <5>2. ~(m + k <= lpc.size)
          BY <1>0, <1>2, <5>1
        <5>3. ~Passed(x, v, m + k)
          BY <5>2 DEF Passed
        <5> QED BY <3>2, <4>2, <5>1, <5>3
      <4> QED BY <4>1, <4>2
    <3> QED BY <1>1, <3>0, <3>2, <3>3
  <2> QED BY <1>1, <2>1, <2>2, <2>3, StaysServed
<1>10. WrittenExact'
  <2>1. PICK f0, h0, s0 : f0 = written /\ h0 = written' /\ s0 = Sum([v \in Loggers |-> logged[v].written])
    OBVIOUS
  <2>2. /\ f0 \in [Loggers -> Nat] /\ h0 \in [Loggers -> Nat] /\ h0[l] = 0
        /\ \A v \in Loggers : v # l => h0[v] = f0[v]
    <3>1. written \in [Loggers -> Nat]
      BY <1>2 DEF TypesOK
    <3> QED BY <1>1, <1>2, <2>1, <3>1
  <2>3. Sum(h0) = Sum(f0) - f0[l] + h0[l] /\ Sum(f0) \in Nat /\ f0[l] \in Nat
    <3>1. IsFiniteSet(Loggers)
      BY LoggerAssumption
    <3>2. Sum(h0) = Sum(f0) - f0[l] + h0[l]
      <4>1. l \in Loggers
        BY <1>2
      <4>2. \A v \in Loggers : v # l => h0[v] = f0[v]
        BY <2>2
      <4> QED BY <2>2, <3>1, <4>1, <4>2, SumChange
    <3>3. Sum(f0) \in Nat
      BY <2>2, <3>1, SumType
    <3> QED BY <1>2, <2>2, <3>2, <3>3
  <2>4. s0 = stats.written + Sum(f0) /\ stats.written \in Nat
    BY <1>2, <2>1 DEF IInv, WrittenExact, TypesOK
  <2>5. stats'.written = stats.written + f0[l]
    BY <1>1, <2>1
  <2>6. s0 = stats'.written + Sum(h0)
    BY <2>2, <2>3, <2>4, <2>5
  <2> QED BY <1>1, <2>1, <2>6 DEF WrittenExact
<1> QED BY <1>5, <1>6, <1>7, <1>8, <1>9, <1>10 DEF IInv

-----------------------------------------------------------------------------
(* Polling the watchers.                                                   *)

WatcherSet == [eflags : SUBSET Flags, buf : Seq(LineSet), failed_flush : BOOLEAN, skipped : Nat, due : Nat]
SocketSet == [state : {"none", "open", "full", "gone"}, got : Seq(LineSet)]

\* w and s can be what becomes of watcher x, and of its socket: some of its
\* lines have moved from the buffer to the socket, or it is closed.
KeptOpen(x, w, s) ==
    /\ x \in Used /\ w.eflags = watchers[x].eflags
    /\ w.due = watchers[x].due /\ w.skipped = watchers[x].skipped
    /\ s.got \o w.buf = Stream(x) /\ Len(w.buf) <= Len(watchers[x].buf)

PolledTo(x, w, s) ==
    w \in WatcherSet /\ s \in SocketSet /\ (w = NoWatcher \/ KeptOpen(x, w, s))

LEMMA NobodyIs == NoWatcher \in WatcherSet /\ NoSocket \in SocketSet /\ Len(NoWatcher.buf) = 0
<1>1. <<>> \in Seq(LineSet)
  BY NoLines
<1> QED BY <1>1 DEF NoWatcher, NoSocket, WatcherSet, SocketSet

LEMMA PollIs ==
    ASSUME TypesOK, NEW which, NEW rev, NEW much \in Nat, NEW x \in Slots
    PROVE  LET a == AfterPoll(which, rev, much)
           IN  /\ PolledTo(x, a.watchers[x], a.sockets[x])
               /\ (x \in Used /\ ~Dies(x, rev[Rank(Used, x)])) => KeptOpen(x, a.watchers[x], a.sockets[x])
               /\ DOMAIN a.watchers = Slots /\ DOMAIN a.sockets = Slots
<1>0. PICK a, cut, r, buf, got : /\ a = AfterPoll(which, rev, much) /\ r = rev[Rank(Used, x)]
                                 /\ cut = Prefix(watchers[x].buf, much)
                                 /\ buf = watchers[x].buf /\ got = sockets[x].got
  OBVIOUS
<1>1. /\ watchers[x] \in WatcherSet /\ sockets[x] \in SocketSet
      /\ buf \in Seq(LineSet) /\ got \in Seq(LineSet) /\ Stream(x) = got \o buf
  BY <1>0, StreamType DEF TypesOK, Stream, WatcherSet, SocketSet
<1>2. DOMAIN a.watchers = Slots /\ DOMAIN a.sockets = Slots
  BY <1>0 DEF AfterPoll
<1>3. cut \in 0 .. Len(buf)
  BY <1>0, <1>1 DEF Prefix
<1>4. CASE x \notin Used \/ Dies(x, r)
  <2>1. a.watchers[x] = NoWatcher /\ a.sockets[x] = NoSocket
    BY <1>0, <1>4 DEF AfterPoll
  <2> QED BY <1>0, <1>2, <1>4, <2>1, NobodyIs DEF PolledTo
<1>5. CASE x \in Used /\ ~Dies(x, r)
  <2>2. a.watchers[x] = [watchers[x] EXCEPT
                           !.failed_flush = watchers[x].failed_flush /\ ~(which = 0 \/ x = which),
                           !.buf = IF Flushes(x, r) THEN SubSeq(buf, cut + 1, Len(buf)) ELSE buf]
    BY <1>0, <1>5 DEF AfterPoll
  <2>3. a.sockets[x] = IF Flushes(x, r) THEN [sockets[x] EXCEPT !.got = got \o SubSeq(buf, 1, cut)]
                       ELSE sockets[x]
    BY <1>0, <1>5 DEF AfterPoll
  <2>4. /\ got \o SubSeq(buf, 1, cut) \in Seq(LineSet) /\ SubSeq(buf, cut + 1, Len(buf)) \in Seq(LineSet)
        /\ Len(SubSeq(buf, cut + 1, Len(buf))) <= Len(buf)
        /\ (got \o SubSeq(buf, 1, cut)) \o SubSeq(buf, cut + 1, Len(buf)) = got \o buf
    BY <1>1, <1>3, StreamMoves
  <2>5. ASSUME NEW d \in Seq(LineSet), NEW s, s = [sockets[x] EXCEPT !.got = d]
        PROVE  s \in SocketSet /\ s.got = d
    BY <1>1, <2>5 DEF SocketSet
  <2>8. CASE Flushes(x, r)
    <3>1. PICK d, e : d = SubSeq(buf, cut + 1, Len(buf)) /\ e = got \o SubSeq(buf, 1, cut)
      OBVIOUS
    <3>2. a.watchers[x] = [watchers[x] EXCEPT !.failed_flush = watchers[x].failed_flush /\ ~(which = 0 \/ x = which), !.buf = d]
      BY <2>2, <2>8, <3>1
    <3>3. a.sockets[x] = [sockets[x] EXCEPT !.got = e]
      BY <2>3, <2>8, <3>1
    <3>4. d \in Seq(LineSet) /\ e \in Seq(LineSet) /\ Len(d) <= Len(buf) /\ e \o d = got \o buf
      BY <2>4, <3>1
    <3>5. PolledTo(x, a.watchers[x], a.sockets[x]) /\ KeptOpen(x, a.watchers[x], a.sockets[x])
      <4>1. PICK w, s : w = a.watchers[x] /\ s = a.sockets[x]
        OBVIOUS
      <4>2. /\ w \in WatcherSet /\ w.buf = d /\ w.due = watchers[x].due /\ w.skipped = watchers[x].skipped
            /\ w.eflags = watchers[x].eflags
        <5>1. w = [watchers[x] EXCEPT !.failed_flush = watchers[x].failed_flush /\ ~(which = 0 \/ x = which), !.buf = d]
          BY <3>2, <4>1
        <5> QED BY <1>1, <3>4, <5>1 DEF WatcherSet
      <4>3. s \in SocketSet /\ s.got = e
        BY <2>5, <3>3, <3>4, <4>1
      <4>4. PolledTo(x, w, s) /\ KeptOpen(x, w, s)
        BY <1>0, <1>1, <1>5, <3>4, <4>2, <4>3 DEF PolledTo, KeptOpen
      <4> QED BY <4>1, <4>2, <4>4
    <3> QED BY <1>0, <1>2, <3>5
  <2>9. CASE ~Flushes(x, r)
    <3>1. a.watchers[x] = [watchers[x] EXCEPT !.failed_flush = watchers[x].failed_flush /\ ~(which = 0 \/ x = which), !.buf = buf]
      BY <2>2, <2>9
    <3>2. a.sockets[x] = sockets[x]
      BY <2>3, <2>9
    <3>3. Len(buf) <= Len(buf)
      BY <1>1
    <3>4. PolledTo(x, a.watchers[x], a.sockets[x]) /\ KeptOpen(x, a.watchers[x], a.sockets[x])
      <4>1. PICK w, s : w = a.watchers[x] /\ s = a.sockets[x]
        OBVIOUS
      <4>2. /\ w \in WatcherSet /\ w.buf = buf /\ w.due = watchers[x].due /\ w.skipped = watchers[x].skipped
            /\ w.eflags = watchers[x].eflags
        <5>1. w = [watchers[x] EXCEPT !.failed_flush = watchers[x].failed_flush /\ ~(which = 0 \/ x = which), !.buf = buf]
          BY <3>1, <4>1
        <5> QED BY <1>1, <5>1 DEF WatcherSet
      <4>3. s \in SocketSet /\ s.got = got
        BY <1>0, <1>1, <3>2, <4>1
      <4>4. PolledTo(x, w, s) /\ KeptOpen(x, w, s)
        BY <1>0, <1>1, <1>5, <3>3, <4>2, <4>3 DEF PolledTo, KeptOpen
      <4> QED BY <4>1, <4>2, <4>4
    <3> QED BY <1>0, <1>2, <3>4
  <2> QED BY <2>8, <2>9
<1> QED BY <1>4, <1>5

\* Polling takes nothing from what a watcher is given and owed.
LEMMA PolledKeeps ==
    ASSUME IInv, UNCHANGED <<logbuf, written, stats, gid, logged>>, Onward, ScanOK',
           dropped' \in [Loggers -> Nat], log_pc' = log_pc, lpc' \in PassSet,
           stack_lock' \in Loggers \cup {"free", "logger"},
           DOMAIN watchers' = Slots, watchers' = [x \in Slots |-> watchers'[x]],
           sockets' = [x \in Slots |-> sockets'[x]],
           \A x \in Slots : PolledTo(x, watchers'[x], sockets'[x]),
           \/ eflags' = logger_set_flags(watchers')
           \/ eflags' = eflags /\ \A x \in Slots : watchers'[x].eflags = watchers[x].eflags
    PROVE  IInv'
<1>1. watchers' \in [Slots -> WatcherSet] /\ sockets' \in [Slots -> SocketSet]
  BY DEF PolledTo
<1>2. TypesOK
  BY DEF IInv
<1>3. FlagsOK'
  <2>1. CASE eflags' = logger_set_flags(watchers')
    BY <2>1 DEF FlagsOK, logger_set_flags
  <2>2. CASE eflags' = eflags /\ \A x \in Slots : watchers'[x].eflags = watchers[x].eflags
    BY <2>2, FlagsStay DEF IInv
  <2> QED BY <2>1, <2>2
<1>4. TypesOK'
  <2>1. \A x \in Slots : watchers'[x].eflags \in SUBSET Flags
    BY <1>1 DEF WatcherSet
  <2>2. eflags' \in [Loggers -> SUBSET Flags]
    BY <1>3, <2>1 DEF FlagsOK, logger_set_flags
  <2> QED BY <1>1, <1>2, <2>2 DEF TypesOK, WatcherSet, SocketSet, PassSet
<1>5. BuffersOK'
  <2>1. ASSUME NEW x \in Slots PROVE Len(watchers'[x].buf) <= WatcherSize
    <3>1. Len(watchers[x].buf) <= WatcherSize /\ WatcherSize \in Nat /\ Len(watchers[x].buf) \in Nat
      BY <1>2, StreamType, LoggerAssumption DEF IInv, BuffersOK
    <3>2. CASE watchers'[x] = NoWatcher
      BY <3>1, <3>2, NobodyIs
    <3>3. CASE Len(watchers'[x].buf) <= Len(watchers[x].buf)
      <4>1. Len(watchers'[x].buf) \in Nat
        BY <1>1 DEF WatcherSet
      <4> QED BY <3>1, <3>3, <4>1
    <3> QED BY <3>2, <3>3 DEF PolledTo, KeptOpen
  <2> QED BY <2>1 DEF IInv, BuffersOK
<1>6. EntriesOK'
  BY DEF IInv, EntriesOK
<1>7. WrittenExact'
  BY <1>2, <1>4, WrittenStays DEF IInv
<1>8. WatchersOK'
  <2> SUFFICES ASSUME NEW x \in Slots, watchers'[x] # NoWatcher PROVE ServedOK(x)'
    BY DEF WatchersOK, Used
  <2>1. /\ x \in Used /\ Stream(x)' = Stream(x) /\ watchers'[x].due = watchers[x].due
        /\ watchers'[x].skipped = watchers[x].skipped
    BY DEF PolledTo, KeptOpen, Stream
  <2>2. ServedOK(x)
    BY <2>1 DEF IInv, WatchersOK
  <2>3. Behind(x, Stream(x))'
    BY <1>2, <2>1, <2>2, StaysBehind DEF ServedOK
  <2> QED BY <2>1, <2>2, <2>3, StaysServed
<1> QED BY <1>3, <1>4, <1>5, <1>6, <1>7, <1>8 DEF IInv

-----------------------------------------------------------------------------

LEMMA FlagsAfterIs ==
    ASSUME NEW rev, eflags' = FlagsAfter(rev),
           \A x \in Slots : \/ x \notin Used /\ watchers'[x] = NoWatcher
                            \/ x \in Used /\ Dies(x, rev[Rank(Used, x)])
                            \/ watchers'[x].eflags = watchers[x].eflags
    PROVE  \/ eflags' = logger_set_flags(watchers')
           \/ eflags' = eflags /\ \A x \in Slots : watchers'[x].eflags = watchers[x].eflags
<1>1. CASE \E x \in Used : Dies(x, rev[Rank(Used, x)])
  BY <1>1 DEF FlagsAfter
<1>2. CASE ~\E x \in Used : Dies(x, rev[Rank(Used, x)])
  <2>1. eflags' = eflags
    BY <1>2 DEF FlagsAfter
  <2>2. \A x \in Slots : x \notin Used => watchers[x] = NoWatcher
    BY DEF Used
  <2> QED BY <1>2, <2>1, <2>2
<1> QED BY <1>1, <1>2

\* What is left of a watcher that is not in use.
LEMMA UnusedIs ==
    ASSUME NEW which, NEW rev, NEW much, NEW x \in Slots, x \notin Used
    PROVE  AfterPoll(which, rev, much).watchers[x] = NoWatcher
BY DEF AfterPoll

LEMMA FlushKeeps == ASSUME IInv, FlushWatcher PROVE IInv'
<1>0. PICK x, rev : x = lpc.slot /\ rev = Revents(Polled(FALSE, x))
  OBVIOUS
<1>1. /\ UNCHANGED <<logbuf, written, dropped, stack_lock, lpc, stats, gid, logged, log_pc>>
      /\ x \in Used /\ x \in Slots
  BY <1>0 DEF FlushWatcher, LogRest, Wants, Used
<1>2. TypesOK /\ ScanOK' /\ Onward
  BY <1>1, OnwardIs DEF IInv, ScanOK
<1>3. CASE UNCHANGED <<watching, eflags>>
  <2>1. UNCHANGED <<watchers, sockets, eflags>>
    BY <1>3 DEF watching
  <2>2. TypesOK'
    BY <1>1, <1>2, <2>1 DEF TypesOK
  <2>3. WrittenExact'
    BY <1>1, <1>2, <2>2, WrittenStays DEF IInv
  <2> QED BY <1>1, <1>2, <2>1, <2>2, <2>3, QuietKeeps
<1>4. CASE ~Dies(x, rev[Rank(Used, x)]) /\ ~UNCHANGED <<watching, eflags>>
  <2>1. PICK much \in Much, f \in BOOLEAN :
           /\ watchers' = [AfterPoll(x, rev, much).watchers EXCEPT ![x].failed_flush = f]
           /\ sockets' = AfterPoll(x, rev, much).sockets
           /\ eflags' = FlagsAfter(rev)
    <3>1. PICK much \in Much :
             /\ watchers' = [AfterPoll(x, rev, much).watchers EXCEPT ![x].failed_flush =
                               FailsFlush(\E y \in Used : Flushes(y, rev[Rank(Used, y)]))]
             /\ sockets' = AfterPoll(x, rev, much).sockets
             /\ eflags' = FlagsAfter(rev)
      BY <1>0, <1>4 DEF FlushWatcher
    <3>2. FailsFlush(\E y \in Used : Flushes(y, rev[Rank(Used, y)])) \in BOOLEAN
      BY DEF FailsFlush
    <3> QED BY <3>1, <3>2, Zenon
  <2>2. PICK ws, ss : ws = AfterPoll(x, rev, much).watchers /\ ss = AfterPoll(x, rev, much).sockets
    OBVIOUS
  <2>3. much \in Nat
    BY LoggerAssumption DEF Much
  <2>4. /\ \A y \in Slots : PolledTo(y, ws[y], ss[y])
        /\ \A y \in Slots : y \in Used /\ ~Dies(y, rev[Rank(Used, y)]) => KeptOpen(y, ws[y], ss[y])
        /\ DOMAIN ws = Slots /\ DOMAIN ss = Slots
        /\ \A y \in Slots : y \notin Used => ws[y] = NoWatcher
    BY <1>1, <1>2, <2>2, <2>3, PollIs, UnusedIs
  <2>5. watchers' = [ws EXCEPT ![x].failed_flush = f] /\ sockets' = ss
    BY <2>1, <2>2
  <2>6. /\ ws[x] \in WatcherSet /\ watchers'[x] \in WatcherSet
        /\ watchers'[x].eflags = ws[x].eflags /\ watchers'[x].due = ws[x].due
        /\ watchers'[x].skipped = ws[x].skipped /\ watchers'[x].buf = ws[x].buf
    <3>1. ws[x] \in WatcherSet
      BY <1>1, <2>4 DEF PolledTo
    <3>2. watchers'[x] = [ws[x] EXCEPT !.failed_flush = f]
      BY <1>1, <2>4, <2>5
    <3> QED BY <3>1, <3>2 DEF WatcherSet
  <2>7. DOMAIN watchers' = Slots /\ \A y \in Slots \ {x} : watchers'[y] = ws[y]
    BY <2>4, <2>5
  <2>8. PolledTo(x, watchers'[x], ss[x]) /\ watchers'[x].eflags = watchers[x].eflags
    <3>1. KeptOpen(x, ws[x], ss[x]) /\ PolledTo(x, ws[x], ss[x])
      BY <1>1, <1>4, <2>4
    <3> QED BY <2>6, <3>1 DEF PolledTo, KeptOpen
  <2>9. \A y \in Slots : PolledTo(y, watchers'[y], sockets'[y])
    BY <2>4, <2>5, <2>7, <2>8
  <2>10. \/ eflags' = logger_set_flags(watchers')
         \/ eflags' = eflags /\ \A y \in Slots : watchers'[y].eflags = watchers[y].eflags
    <3>1. ASSUME NEW y \in Slots
          PROVE  \/ y \notin Used /\ watchers'[y] = NoWatcher
                 \/ y \in Used /\ Dies(y, rev[Rank(Used, y)])
                 \/ watchers'[y].eflags = watchers[y].eflags
      <4>1. CASE y = x
        BY <2>8, <4>1
      <4>2. CASE y # x
        <5>1. watchers'[y] = ws[y]
          BY <2>7, <4>2
        <5> QED BY <2>4, <5>1 DEF KeptOpen
      <4> QED BY <4>1, <4>2
    <3> QED BY <2>1, <3>1, FlagsAfterIs
  <2>11. watchers' = [y \in Slots |-> watchers'[y]] /\ sockets' = [y \in Slots |-> sockets'[y]]
    <3>1. ss = [y \in Slots |-> ss[y]]
      BY <2>2 DEF AfterPoll
    <3>2. ws = [y \in Slots |-> ws[y]]
      BY <2>2 DEF AfterPoll
    <3> QED BY <2>5, <2>7, <3>1, <3>2
  <2>12. dropped' \in [Loggers -> Nat] /\ lpc' \in PassSet /\ stack_lock' \in Loggers \cup {"free", "logger"}
    BY <1>1, <1>2 DEF TypesOK, PassSet
  <2> QED BY <1>1, <1>2, <2>7, <2>9, <2>10, <2>11, <2>12, PolledKeeps
<1> QED BY <1>0, <1>3, <1>4 DEF FlushWatcher

LEMMA PollKeeps == ASSUME IInv, PollWatchers PROVE IInv'
<1>0. PICK rev : rev = Revents(Polled(TRUE, 0))
  OBVIOUS
<1>1. /\ UNCHANGED <<logbuf, written, dropped, stats, gid, logged, log_pc>> /\ lpc.at = "poll"
      /\ lpc' = Idle /\ stack_lock' = "free"
  BY DEF PollWatchers, LogRest, Doing
<1>2. TypesOK /\ ScanOK' /\ Onward
  BY <1>1, OnwardIs DEF IInv, ScanOK, Idle
<1>3. dropped' \in [Loggers -> Nat] /\ lpc' \in PassSet /\ stack_lock' \in Loggers \cup {"free", "logger"}
  <2>1. Idle \in PassSet
    BY DEF Idle, PassSet
  <2> QED BY <1>1, <1>2, <2>1 DEF TypesOK
<1>4. CASE UNCHANGED <<watching, eflags>>
  <2>1. UNCHANGED <<watchers, sockets, eflags>>
    BY <1>4 DEF watching
  <2>2. TypesOK'
    BY <1>1, <1>2, <1>3, <2>1 DEF TypesOK, PassSet
  <2>3. WrittenExact'
    BY <1>1, <1>2, <2>2, WrittenStays DEF IInv
  <2> QED BY <1>1, <1>2, <2>1, <2>2, <2>3, QuietKeeps
<1>5. CASE ~UNCHANGED <<watching, eflags>>
  <2>1. PICK much \in Much :
           /\ watchers' = AfterPoll(0, rev, much).watchers
           /\ sockets' = AfterPoll(0, rev, much).sockets
           /\ eflags' = FlagsAfter(rev)
    BY <1>0, <1>5 DEF PollWatchers
  <2>2. much \in Nat
    BY LoggerAssumption DEF Much
  <2>3. /\ \A y \in Slots : PolledTo(y, watchers'[y], sockets'[y])
        /\ \A y \in Slots : y \in Used /\ ~Dies(y, rev[Rank(Used, y)])
                             => KeptOpen(y, watchers'[y], sockets'[y])
        /\ DOMAIN watchers' = Slots
        /\ \A y \in Slots : y \notin Used => watchers'[y] = NoWatcher
    <3>1. PICK ws, ss : ws = AfterPoll(0, rev, much).watchers /\ ss = AfterPoll(0, rev, much).sockets
      OBVIOUS
    <3>2. /\ \A y \in Slots : PolledTo(y, ws[y], ss[y])
          /\ \A y \in Slots : y \in Used /\ ~Dies(y, rev[Rank(Used, y)]) => KeptOpen(y, ws[y], ss[y])
          /\ DOMAIN ws = Slots /\ \A y \in Slots : y \notin Used => ws[y] = NoWatcher
      <4>1. DOMAIN ws = Slots
        BY <3>1 DEF AfterPoll
      <4> QED BY <1>2, <2>2, <3>1, <4>1, PollIs, UnusedIs
    <3>3. watchers' = ws /\ sockets' = ss
      BY <2>1, <3>1
    <3> QED BY <3>2, <3>3
  <2>4. \/ eflags' = logger_set_flags(watchers')
        \/ eflags' = eflags /\ \A y \in Slots : watchers'[y].eflags = watchers[y].eflags
    <3>1. ASSUME NEW y \in Slots
          PROVE  \/ y \notin Used /\ watchers'[y] = NoWatcher
                 \/ y \in Used /\ Dies(y, rev[Rank(Used, y)])
                 \/ watchers'[y].eflags = watchers[y].eflags
      BY <2>3 DEF KeptOpen
    <3> QED BY <2>1, <3>1, FlagsAfterIs
  <2>5. watchers' = [y \in Slots |-> watchers'[y]] /\ sockets' = [y \in Slots |-> sockets'[y]]
    BY <2>1 DEF AfterPoll
  <2> QED BY <1>1, <1>2, <1>3, <2>3, <2>4, <2>5, PolledKeeps
<1> QED BY <1>4, <1>5

-----------------------------------------------------------------------------
(* The theorem.                                                            *)

LEMMA InitIsFine == LoggerInit => IInv
<1> SUFFICES ASSUME LoggerInit PROVE IInv
  OBVIOUS
<1> USE DEF LoggerInit
<1>1. NoWatcher \in WatcherSet /\ NoSocket \in SocketSet /\ Idle \in PassSet /\ <<>> \in Seq(Entries)
  <2>1. <<>> \in Seq(Entries)
    OBVIOUS
  <2> QED BY <2>1, NobodyIs DEF Idle, PassSet
<1>2. TypesOK
  BY <1>1 DEF TypesOK, WatcherSet, SocketSet, PassSet
<1>3. BuffersOK
  <2>1. \A x \in Slots : Len(watchers[x].buf) = 0
    BY NobodyIs
  <2>2. \A w \in Loggers : Len(logbuf[w]) = 0
    OBVIOUS
  <2> QED BY <2>1, <2>2, LoggerAssumption DEF BuffersOK
<1>4. ScanOK /\ EntriesOK /\ WatchersOK
  BY DEF ScanOK, EntriesOK, WatchersOK, Used, Idle
<1>5. FlagsOK
  <2>1. UNION {watchers[x].eflags : x \in Slots} = {}
    BY DEF NoWatcher
  <2> QED BY <2>1 DEF FlagsOK, logger_set_flags
<1>6. WrittenExact
  <2>1. PICK f : f = [w \in Loggers |-> 0]
    OBVIOUS
  <2>2. [w \in Loggers |-> logged[w].written] = f /\ written = f /\ stats.written = 0
    BY <2>1
  <2>3. Sum(f) \in Nat
    BY <2>1, SumType, LoggerAssumption
  <2> QED BY <2>2, <2>3 DEF WrittenExact
<1> QED BY <1>2, <1>3, <1>4, <1>5, <1>6 DEF IInv

LEMMA StepKeeps == IInv /\ [LoggerNext]_loggerVars => IInv'
<1> SUFFICES ASSUME IInv, [LoggerNext]_loggerVars PROVE IInv'
  OBVIOUS
<1>1. CASE logger_thread
  BY <1>1, StartKeeps, PeekKeeps, NotWantedKeeps, WriteKeeps, SkipKeeps, FlushKeeps, ConsumeKeeps,
     PollKeeps DEF logger_thread
<1>2. ASSUME NEW w \in Loggers, logger_log(w) \/ LogRefused(w) \/ LogDropped(w)
                                 \/ logger_add_watcher(w) \/ TooManyWatchers(w)
      PROVE  IInv'
  BY <1>2, LogKeeps, RefusedKeeps, DroppedKeeps, AddKeeps, TooManyKeeps
<1>3. ASSUME NEW x \in Slots, Client(x) PROVE IInv'
  BY <1>3, ClientKeeps
<1>4. CASE UNCHANGED loggerVars
  <2>1. UNCHANGED <<logbuf, eflags, gid, watchers, sockets, lpc, written, stats, logged, dropped, log_pc, stack_lock>>
    BY <1>4 DEF loggerVars
  <2>2. TypesOK'
    BY <2>1 DEF IInv, TypesOK
  <2>3. WrittenExact' /\ ScanOK' /\ Onward
    BY <2>1, <2>2, WrittenStays, OnwardIs DEF IInv, ScanOK
  <2> QED BY <2>1, <2>2, <2>3, QuietKeeps
<1> QED BY <1>1, <1>2, <1>3, <1>4 DEF LoggerNext

LEMMA Served == IInv => WatchersServed
<1> SUFFICES ASSUME IInv PROVE WatchersServed
  OBVIOUS
<1>1. LoggerTypeOK
  <2>1. \A w \in Loggers : Len(logbuf[w]) <= LogSize /\ eflags[w] \subseteq Flags
    BY DEF IInv, TypesOK, BuffersOK
  <2>2. \A x \in Slots : /\ Len(watchers[x].buf) <= WatcherSize
                          /\ watchers[x].skipped \in Nat /\ watchers[x].failed_flush \in BOOLEAN
                          /\ sockets[x].state \in {"none", "open", "full", "gone"}
    BY DEF IInv, TypesOK, BuffersOK
  <2>3. stack_lock \in Loggers \cup {"free", "logger"} /\ lpc.pos <= lpc.size + 1
    BY DEF IInv, TypesOK, ScanOK
  <2> QED BY <2>1, <2>2, <2>3 DEF LoggerTypeOK
<1>2. \A x \in Used : Announced(watchers[x], Stream(x)) /\ Ordered(Stream(x))
  BY DEF IInv, WatchersOK, ServedOK
<1>3. \A x \in Used : Lines(x) = Numbered(Stream(x))
  BY DEF Lines, Numbered
<1>4. SkipsAnnounced
  BY <1>2, <1>3 DEF SkipsAnnounced, Announced, Total
<1>5. WorkerOrderKept
  BY <1>2, <1>3 DEF WorkerOrderKept, Ordered
<1>6. FlagsExact
  <2>1. UNION {watchers[x].eflags : x \in Slots} = UNION {watchers[x].eflags : x \in Used}
    <3>1. \A x \in Slots : x \notin Used => watchers[x].eflags = {}
      BY DEF Used, NoWatcher
    <3> QED BY <3>1 DEF Used
  <2> QED BY <2>1 DEF IInv, FlagsOK, logger_set_flags, FlagsExact
<1> QED BY <1>1, <1>4, <1>5, <1>6 DEF WatchersServed, IInv

\* The log that a watcher is sent is true: in the order of each worker, with
\* what it missed announced, for the watchers there are, and counted right,
\* whatever the clients of the watchers do and however the logger thread and
\* the workers interleave.
THEOREM WatchersStayServed == LoggerSpec => []WatchersServed
<1>1. LoggerSpec => []IInv
  BY InitIsFine, StepKeeps, PTL DEF LoggerSpec
<1> QED BY <1>1, Served, PTL

=============================================================================
