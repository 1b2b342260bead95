------------------------------ MODULE BipBuffer ------------------------------
(***************************************************************************)
(* The bipartite circular buffer of bipbuffer.c, as its users drive it:    *)
(* the LRU bump buffers (items.c), the loggers and watchers (logger.c) and *)
(* the crawler client (crawler.c).                                         *)
(*                                                                         *)
(* The producer reserves a contiguous slot with bipbuf_request, fills it   *)
(* and commits with bipbuf_push while it holds the buffer's mutex, or      *)
(* copies with bipbuf_offer.  The consumer takes a pointer with            *)
(* bipbuf_peek_all under the mutex, reads the bytes WITHOUT the mutex and  *)
(* later consumes them with bipbuf_poll.  A call that fails returns 0 or   *)
(* NULL and changes nothing, so it is a stuttering step.                   *)
(***************************************************************************)
EXTENDS Integers, Sequences

CONSTANTS Size,     \* bytes of the buffer (me->size)
          Val,      \* what a byte of the buffer can hold
          MaxReq    \* bound: the largest request, push, offer

ASSUME SizeAssumption == Size \in Nat \ {0}
ASSUME ValAssumption == Val # {}
ASSUME MaxReqAssumption == MaxReq \in Nat

VARIABLES a_start, a_end,   \* region A is [a_start, a_end)
          b_end, b_inuse,   \* region B is [0, b_end)
          data,             \* the bytes
          slot,             \* pointer the producer got from bipbuf_request
          room,             \* bytes it has been promised and not yet used
          peek_pos, peek_n, \* the region the consumer is reading; n = 0: none
          sent              \* history: the bytes of the latest push or offer

region == <<a_start, a_end, b_end, b_inuse>>
vars == <<a_start, a_end, b_end, b_inuse, data, slot, room, peek_pos, peek_n, sent>>
reader == <<peek_pos, peek_n>>

None == -1
Index == 0 .. Size - 1
Bytes(n) == [1 .. n -> Val]

-----------------------------------------------------------------------------
bipbuf_unused == IF b_inuse = 1 THEN a_start - b_end ELSE Size - a_end

bipbuf_used == (a_end - a_start) + b_end

bipbuf_is_empty == a_start = a_end

\* Where the next byte goes: the pointer bipbuf_request returns.
WritePos == IF b_inuse = 1 THEN b_end ELSE a_end

\* Mutant: switch to B as soon as there is any room before A.
SwitchEager(as, ae, be, bi) == IF as > be THEN 1 ELSE bi

\* __check_for_switch_to_b, on the values the caller has just assigned.
SwitchToB(as, ae, be, bi) == IF Size - ae < as - be THEN 1 ELSE bi

Copy(pos, s, n) ==
    [i \in Index |-> IF pos <= i /\ i < pos + n THEN s[i - pos + 1] ELSE data[i]]

\* The index update shared by bipbuf_push and bipbuf_offer.
Advance(n) ==
    /\ IF b_inuse = 1 THEN b_end' = b_end + n /\ UNCHANGED a_end
                  ELSE a_end' = a_end + n /\ UNCHANGED b_end
    /\ UNCHANGED a_start
    /\ b_inuse' = SwitchToB(a_start, a_end', b_end', b_inuse)
-----------------------------------------------------------------------------
Init ==
    /\ a_start = 0 /\ a_end = 0 /\ b_end = 0
    /\ b_inuse = 0
    /\ data \in [Index -> Val]      \* malloc does not clear it
    /\ slot = None /\ room = 0
    /\ peek_pos = 0 /\ peek_n = 0
    /\ sent = <<>>

\* bipbuf_request: the caller takes the mutex and gets n contiguous bytes.
Request(n) ==
    /\ slot = None
    /\ n <= bipbuf_unused
    /\ slot' = WritePos
    /\ room' = n
    /\ UNCHANGED <<region, data, reader, sent>>

\* The producer fills the slot with n <= room bytes, then bipbuf_push; the
\* bytes land where bipbuf_request pointed, whatever push does with indices.
Push(n, s) ==
    /\ slot # None
    /\ n <= room
    /\ n <= bipbuf_unused
    /\ data' = Copy(slot, s, n)
    /\ Advance(n)
    /\ sent' = s
    /\ room' = room - n
    /\ slot' = None
    /\ UNCHANGED reader

\* bipbuf_offer; the bytes promised by an earlier request may be used by it
\* (logger_thread_write_entry pushes a note, then offers the line).
Offer(n, s) ==
    /\ slot = None
    /\ n <= bipbuf_unused
    /\ data' = Copy(WritePos, s, n)
    /\ Advance(n)
    /\ sent' = s
    /\ room' = IF room < n THEN 0 ELSE room - n
    /\ UNCHANGED <<slot, reader>>

\* Mutant: everything used is reported, although only A is contiguous.
PeekAllUsed ==
    /\ slot = None
    /\ peek_n = 0
    /\ ~bipbuf_is_empty
    /\ peek_pos' = a_start
    /\ peek_n' = bipbuf_used
    /\ UNCHANGED <<region, data, slot, room, sent>>

\* bipbuf_peek_all under the mutex.
PeekAll ==
    /\ slot = None
    /\ peek_n = 0
    /\ ~bipbuf_is_empty
    /\ peek_pos' = a_start
    /\ peek_n' = a_end - a_start
    /\ UNCHANGED <<region, data, slot, room, sent>>

\* The index update of bipbuf_poll: when A runs empty, B takes its place.
PollIndices(n) ==
    IF a_start + n = a_end
    THEN /\ a_start' = 0
         /\ a_end' = IF b_inuse = 1 THEN b_end ELSE 0
         /\ b_end' = IF b_inuse = 1 THEN 0 ELSE b_end
         /\ b_inuse' = SwitchToB(0, a_end', b_end', 0)
    ELSE /\ a_start' = a_start + n
         /\ UNCHANGED <<a_end, b_end>>
         /\ b_inuse' = SwitchToB(a_start + n, a_end, b_end, b_inuse)

\* Mutant: the consumer polls without the mutex.
PollUnlocked(n) ==
    /\ n \in 1 .. peek_n
    /\ ~bipbuf_is_empty
    /\ a_start + n <= Size
    /\ PollIndices(n)
    /\ peek_n' = 0
    /\ UNCHANGED <<peek_pos, data, slot, room, sent>>

\* bipbuf_poll under the mutex, for n of the bytes the consumer peeked at.
Poll(n) ==
    /\ slot = None
    /\ n \in 1 .. peek_n
    /\ ~bipbuf_is_empty
    /\ a_start + n <= Size
    /\ PollIndices(n)
    /\ peek_n' = 0
    /\ UNCHANGED <<peek_pos, data, slot, room, sent>>

Next ==
    \/ \E n \in 1 .. MaxReq : Request(n)
    \/ \E n \in 1 .. MaxReq : \E s \in Bytes(n) : Push(n, s)
    \/ \E n \in 1 .. MaxReq : \E s \in Bytes(n) : Offer(n, s)
    \/ PeekAll
    \/ \E n \in 1 .. Size : Poll(n)

Spec == Init /\ [][Next]_vars
-----------------------------------------------------------------------------
\* The sets the values stay in: no index of bipbuffer.c leaves the buffer.
TypeOK ==
    /\ a_start \in 0 .. Size /\ a_end \in 0 .. Size /\ b_end \in 0 .. Size
    /\ b_inuse \in {0, 1}
    /\ data \in [Index -> Val]
    /\ slot \in Index \cup {None}
    /\ room \in 0 .. Size
    /\ peek_pos \in Index /\ peek_n \in 0 .. Size
    /\ sent \in Seq(Val)

\* The regions never overlap nor leave the buffer, and A is never left behind
\* empty while B holds bytes (bipbuf_is_empty looks at A only, so the bytes
\* of B would be out of reach of bipbuf_poll for good).
RegionsOK ==
    /\ a_start <= a_end /\ a_end <= Size
    /\ IF b_inuse = 1 THEN b_end <= a_start /\ a_start < a_end ELSE b_end = 0
    /\ a_start = a_end => a_start = 0

\* The consumer reads outside the mutex: the bytes it was given are still the
\* head of region A, however many requests and pushes happen meanwhile.
PeekStable ==
    peek_n > 0 => peek_pos = a_start /\ peek_pos + peek_n <= a_end

\* The logger thread writes to the socket from the buffer itself: the regions
\* stay well formed and the part being read stays where it is.
ReadInPlace == TypeOK /\ RegionsOK /\ PeekStable

\* bipbuf_push commits the bytes where bipbuf_request had them written.
SlotCurrent ==
    slot # None => slot = WritePos

\* logger.c, "Can't fail because bipbuf_request succeeded": after a request of
\* n bytes and a push of m of them, n - m bytes can still be offered even
\* when the push made the buffer switch to region B, and even when the
\* consumer polled in between.
OfferCannotFail ==
    room <= bipbuf_unused

\* The bytes of regions A and B, in the order in which they will be polled.
Contents == [i \in 1 .. bipbuf_used |->
                IF i <= a_end - a_start THEN data[a_start + i - 1]
                                        ELSE data[i - (a_end - a_start) - 1]]

PeekedBytes == [i \in 1 .. peek_n |-> data[peek_pos + i - 1]]

Fifo == INSTANCE ByteFifo WITH queue <- Contents, view <- PeekedBytes

\* bipbuffer.c behind its users' locking implements a FIFO of bytes whose
\* consumer can read in place: nothing is lost, duplicated, reordered, or
\* overwritten while it is being read.
ImplementsFifo == Fifo!Spec
=============================================================================
