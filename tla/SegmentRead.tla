----------------------------- MODULE SegmentRead -----------------------------
(***************************************************************************)
(* How GraphCached::read (include/GraphCached.h) places a segment in       *)
(* memory and reads it from disk: the room do_item_alloc (or new char[])   *)
(* gives, the page-aligned address of DiskComponent::data, and the pread   *)
(* loop.  Addresses and lengths are in bytes and have their real values.   *)
(*                                                                         *)
(* The loop passes the same buffer, length and offset to every pread, so   *)
(* what the buffer holds of the segment is the longest single read, while  *)
(* bytes adds them up.                                                     *)
(***************************************************************************)
EXTENDS Integers

CONSTANTS
    Sizes,       \* _size of the segments plocate gives (external code)
    KeySizes,    \* sizeof(KeyTy)
    DSize,       \* sizeof(ValueTy), where _data begins
    UseCas,      \* settings.use_cas
    Places,      \* addresses of chunks and heap blocks
    Rests,       \* bytes the file has from _offset on
    ShortReads   \* pread may return less than the file has

GCPAGESIZE == 4096
CHUNK_ALIGN_BYTES == 8
ItemHeader == 48      \* sizeof(item)

\* plocate in tests/ returns page multiples; DSize is a multiple of the
\* alignment of the pointers in DiskComponent.
ASSUME SizesAssumption == Sizes \subseteq {s \in Nat : s % 4096 = 0}
ASSUME ObjectAssumption == DSize \in Nat /\ DSize % 8 = 0
ASSUME InputsAssumption == KeySizes \subseteq Nat /\ UseCas \in BOOLEAN /\ Rests \subseteq Nat
ASSUME PlacesAssumption == Places \subseteq {p \in Nat : p % 8 = 0}
ASSUME ShortReadsAssumption == ShortReads \in BOOLEAN

VARIABLES
    pc,
    size,        \* dsi._size
    rest,        \* what the file has of it
    start, end,  \* the memory obtained: chunk or heap block, first and behind
    object,      \* address of the DiskComponent, ITEM_data(it) or tmpbuffer
    bytes,       \* the loop's counter
    filled       \* bytes of the segment that are in the buffer

segVars == <<pc, size, rest, start, end, object, bytes, filled>>

CasBytes == IF UseCas THEN 8 ELSE 0
-----------------------------------------------------------------------------
\* DiskComponent::data.
DiskComponent_data(ptr) ==
    LET off == ptr % GCPAGESIZE
    IN  ptr - off + (IF off = 0 THEN 0 ELSE GCPAGESIZE)

\* The length read passes to pread: whole pages.
ReadSize(s) == DiskComponent_data(s)

\* do_item_alloc asks for this much.
ntotal(nkey, nbytes) == ItemHeader + nkey + nbytes + GCPAGESIZE - 1 + CasBytes

\* ITEM_data: behind header, CAS, key and the key's terminating byte.
ITEM_data(it, nkey) == it + ItemHeader + nkey + 1 + CasBytes

SegInit ==
    /\ pc = "idle" /\ size = 0 /\ rest = 0
    /\ start = 0 /\ end = 0 /\ object = 0 /\ bytes = 0 /\ filled = 0

Aligned(n) == n % CHUNK_ALIGN_BYTES = 0

\* slabs_clsid finds a class with chunks of at least ntotal bytes; slack is how
\* much larger its chunks are.
ChunkSize(nkey, s, slack) == ntotal(nkey, s + DSize) + slack

\* Mutant: slabs_init does not round chunk sizes up to the alignment.
ReadIntoItemTight(nkey, s, r, it, slack) ==
    /\ pc = "idle"
    /\ start' = it /\ end' = it + ChunkSize(nkey, s, slack)
    /\ object' = ITEM_data(it, nkey)
    /\ size' = s /\ rest' = r
    /\ pc' = "loop"
    /\ UNCHANGED <<bytes, filled>>

\* A miss with memory for an item.  slabs_init rounds chunk sizes up.
ReadIntoItem(nkey, s, r, it, slack) ==
    /\ pc = "idle"
    /\ Aligned(ChunkSize(nkey, s, slack))
    /\ start' = it /\ end' = it + ChunkSize(nkey, s, slack)
    /\ object' = ITEM_data(it, nkey)
    /\ size' = s /\ rest' = r
    /\ pc' = "loop"
    /\ UNCHANGED <<bytes, filled>>

\* Without: a heap block.
ReadIntoHeap(s, r, tmpbuffer) ==
    /\ pc = "idle"
    /\ start' = tmpbuffer /\ end' = tmpbuffer + DSize + s + GCPAGESIZE - 1
    /\ object' = tmpbuffer
    /\ size' = s /\ rest' = r
    /\ pc' = "loop"
    /\ UNCHANGED <<bytes, filled>>

Least(a, b) == IF a <= b THEN a ELSE b
Most(a, b) == IF a >= b THEN a ELSE b

\* pread is external: as many bytes as the file has, or only half of them.
pread(n) ==
    LET all == Least(n, rest)
    IN  {all} \cup IF ShortReads /\ all > 1 THEN {all \div 2} ELSE {}

\* Mutant: one page at a time, at the same offset.
ReadPage ==
    /\ pc = "loop" /\ bytes < size
    /\ \E cur \in pread(GCPAGESIZE) :
          /\ bytes' = bytes + cur
          /\ filled' = Most(filled, cur)
    /\ UNCHANGED <<pc, size, rest, start, end, object>>

\* One turn of the loop.
Read ==
    /\ pc = "loop" /\ bytes < size
    /\ \E cur \in pread(ReadSize(size)) :
          /\ bytes' = bytes + cur
          /\ filled' = Most(filled, cur)
    /\ UNCHANGED <<pc, size, rest, start, end, object>>

\* pread returned -1: exit(0).
ReadError ==
    /\ pc = "loop" /\ bytes < size
    /\ pc' = "exit"
    /\ UNCHANGED <<size, rest, start, end, object, bytes, filled>>

\* Mutant: the loop runs while bytes <= size, but pread is not called again.
DoneBeyond ==
    /\ pc = "loop" /\ bytes > size
    /\ pc' = "done"
    /\ UNCHANGED <<size, rest, start, end, object, bytes, filled>>

\* The loop ends; read returns the segment.
Done ==
    /\ pc = "loop" /\ bytes >= size
    /\ pc' = "done"
    /\ UNCHANGED <<size, rest, start, end, object, bytes, filled>>

\* The application is finished with it, and may read another one.
Release ==
    /\ pc = "done"
    /\ pc' = "idle" /\ size' = 0 /\ rest' = 0
    /\ start' = 0 /\ end' = 0 /\ object' = 0 /\ bytes' = 0 /\ filled' = 0

Loop == Read \/ ReadError \/ Done

Call ==
    /\ pc = "idle"
    /\ \E s \in Sizes, r \in Rests, p \in Places :
          \/ ReadIntoHeap(s, r, p)
          \/ \E nkey \in KeySizes, slack \in 0 .. CHUNK_ALIGN_BYTES - 1 :
                ReadIntoItem(nkey, s, r, p, slack)

SegNext == Call \/ Loop \/ Release

SegSpec == SegInit /\ [][SegNext]_segVars

\* The thread keeps running; the disk need not fail.
SegFairSpec == SegSpec /\ WF_segVars(Read \/ Done)
-----------------------------------------------------------------------------
\* The sets the values stay in: a failed pread is never counted as bytes.
SegTypeOK ==
    /\ pc \in {"idle", "loop", "done", "exit"}
    /\ size \in Nat /\ rest \in Nat
    /\ start \in Nat /\ end \in Nat /\ object \in Nat
    /\ bytes \in Nat /\ filled \in Nat

\* pread writes whole pages to a page-aligned address behind the DiskComponent
\* object and within the memory that was allocated, wherever the chunk lies in
\* its page.  do_item_alloc leaves out the key's terminating byte; what saves
\* the last byte is that chunk sizes are multiples of 8.
TargetInRoom ==
    pc = "loop" =>
        /\ DiskComponent_data(object + DSize) % GCPAGESIZE = 0
        /\ start <= object /\ object + DSize <= DiskComponent_data(object + DSize)
        /\ DiskComponent_data(object + DSize) + ReadSize(size) <= end

\* Where read put the segment is a place for it as long as it is read.
Placed == SegTypeOK /\ TargetInRoom

\* A segment that read returns has been read to its last byte.
SegmentComplete == pc = "done" => filled >= size

\* A call of read ends: it returns, or the process exits on an I/O error.
ReadTerminates == (pc = "loop") ~> (pc \in {"done", "exit"})
=============================================================================
