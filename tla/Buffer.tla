------------------------------- MODULE Buffer -------------------------------
(***************************************************************************)
(* The segmented byte buffer of src/mordor/common/streams/buffer.cpp.     *)
(*                                                                         *)
(* A Buffer is a std::list<Data> m_bufs, an iterator m_writeIt into it,   *)
(* and the counters m_readAvailable / m_writeAvailable.  A Data is a      *)
(* slice of a shared byte array (m_buf, of length len) with a write index *)
(* w: bytes [0, w) are readable, [w, len) writable.                       *)
(*                                                                         *)
(* Abstraction.  A Data is the record [len, w, data] where data is the    *)
(* sequence of its w readable bytes; the bytes of the writable region are *)
(* not kept (they become data only when produced).  Bytes are named by    *)
(* the order in which they were first written (nextByte), so that a lost, *)
(* duplicated or reordered byte shows.  Shared ownership of arrays is not *)
(* kept: slices handed to another Data only ever cover readable bytes,    *)
(* which no operation writes again.  m_writeIt is the index wi of the     *)
(* segment it denotes, Len(segs) + 1 standing for m_bufs.end().           *)
(***************************************************************************)
EXTENDS Integers, Sequences, SequencesExt

CONSTANTS
  Buffers,              \* the Buffer objects in play
  Lens,                 \* the lengths passed to the operations
  MaxBytes,             \* bound on the bytes ever written (names 0..MaxBytes-1)
  Garbage,              \* the values an uninitialized size_t member may hold
  ReserveKeepsWriteIt,  \* FALSE: reserve() as in buffer.cpp:150-154;
                        \* TRUE: it moves m_writeIt only when it was end()
  CopyInProduces        \* FALSE: copyIn(ptr) as in buffer.cpp:384-387;
                        \* TRUE: the new Data is produce()d after memcpy

ASSUME Lens \subseteq Nat /\ MaxBytes \in Nat /\ Garbage \subseteq Nat
ASSUME ReserveKeepsWriteIt \in BOOLEAN /\ CopyInProduces \in BOOLEAN

VARIABLES
  buf,       \* buf[b] = [segs, wi, ra, wa]: m_bufs, m_writeIt,
             \*          m_readAvailable, m_writeAvailable
  nextByte   \* the name of the next byte a caller writes

vars == <<buf, nextByte>>

MinOf(a, b) == IF a <= b THEN a ELSE b

-----------------------------------------------------------------------------
(* Buffer::Data and Buffer::DataBuf                                        *)

RA(d) == d.w            \* Data::readAvailable
WA(d) == d.len - d.w    \* Data::writeAvailable

\* Data(size_t len): a fresh array of len bytes, none readable yet
NewData(n) == [len |-> n, w |-> 0, data |-> <<>>]

\* Data(DataBuf): a slice all of whose bytes are readable
SliceData(bytes) == [len |-> Len(bytes), w |-> Len(bytes), data |-> bytes]

\* Data::produce: the caller's bytes in the writable region become readable
DataProduce(d, bytes) == [d EXCEPT !.w = @ + Len(bytes), !.data = @ \o bytes]

\* Seeded bugs for the mutation checks: Data::consume that forgets
\* m_writeIndex -= len, and one that slices the wrong end of m_buf.
DataConsumeKeepsIndex(d, k) ==
  [len |-> d.len - k, w |-> d.w, data |-> SubSeq(d.data, k + 1, d.w)]
DataConsumeFromBack(d, k) ==
  [len |-> d.len - k, w |-> d.w - k, data |-> SubSeq(d.data, 1, d.w - k)]

\* Data::consume: m_writeIndex -= len; m_buf = m_buf.slice(len)
DataConsume(d, k) ==
  [len |-> d.len - k, w |-> d.w - k, data |-> SubSeq(d.data, k + 1, d.w)]

-----------------------------------------------------------------------------
(* Buffer operations, as functions of one buffer's state s.               *)

End(s) == Len(s.segs) + 1

\* Where reserve() leaves m_writeIt after push_back of a new Data
AppendedWriteIt(s) ==
  IF ReserveKeepsWriteIt /\ s.wi # End(s) THEN s.wi ELSE End(s)

\* Buffer::reserve: over-reserve 2*len - writeAvailable; at the front when
\* nothing is readable, else at the back
Reserve(s, n) ==
  IF s.wa >= n THEN s
  ELSE LET nb == NewData(2 * n - s.wa)
       IN IF s.ra = 0
          THEN [s EXCEPT !.segs = <<nb>> \o @, !.wi = 1, !.wa = @ + nb.len]
          ELSE [s EXCEPT !.segs = Append(@, nb), !.wi = AppendedWriteIt(s),
                         !.wa = @ + nb.len]

\* Seeded bug: compact() without m_writeAvailable = 0
CompactKeepsCounter(s) ==
  IF s.wi = End(s) THEN s
  ELSE LET w    == s.segs[s.wi]
           kept == SubSeq(s.segs, 1, s.wi - 1)
                     \o (IF RA(w) > 0 THEN <<SliceData(w.data)>> ELSE <<>>)
       IN [s EXCEPT !.segs = kept, !.wi = Len(kept) + 1]

\* Buffer::compact: keep the readable part of m_writeIt, erase it to end()
Compact(s) ==
  IF s.wi = End(s) THEN s
  ELSE LET w    == s.segs[s.wi]
           kept == SubSeq(s.segs, 1, s.wi - 1)
                     \o (IF RA(w) > 0 THEN <<SliceData(w.data)>> ELSE <<>>)
       IN [s EXCEPT !.segs = kept, !.wi = Len(kept) + 1, !.wa = 0]

\* Buffer::clear
Clear(s) == [segs |-> <<>>, wi |-> 1, ra |-> 0, wa |-> 0]

\* The loop of Buffer::produce: fill m_writeIt, step it when full.  The
\* loop stops at end(), where the code would dereference end().
RECURSIVE ProduceLoop(_, _, _)
ProduceLoop(segs, wi, bytes) ==
  IF bytes = <<>> \/ wi > Len(segs) THEN [segs |-> segs, wi |-> wi]
  ELSE LET k == MinOf(WA(segs[wi]), Len(bytes))
           d == DataProduce(segs[wi], SubSeq(bytes, 1, k))
       IN ProduceLoop([segs EXCEPT ![wi] = d],
                      IF WA(d) = 0 THEN wi + 1 ELSE wi,
                      SubSeq(bytes, k + 1, Len(bytes)))

\* Buffer::produce(len) of the bytes the caller wrote into writeBuf(s)
Produce(s, bytes) ==
  LET r == ProduceLoop(s.segs, s.wi, bytes)
  IN [s EXCEPT !.segs = r.segs, !.wi = r.wi,
               !.ra = @ + Len(bytes), !.wa = @ - Len(bytes)]

\* The loop of Buffer::consume: retire from the front, pop emptied Data.
\* A front Data with nothing readable but some length never empties: the
\* code spins there; the model stops.
RECURSIVE ConsumeLoop(_, _, _)
ConsumeLoop(segs, wi, k) ==
  IF k = 0 \/ segs = <<>> THEN [segs |-> segs, wi |-> wi]
  ELSE LET t == MinOf(RA(segs[1]), k)
           d == DataConsume(segs[1], t)
       IN CASE d.len = 0 -> ConsumeLoop(Tail(segs), wi - 1, k - t)
            [] t = 0     -> [segs |-> segs, wi |-> wi]
            [] OTHER     -> ConsumeLoop([segs EXCEPT ![1] = d], wi, k - t)

\* Buffer::consume
Consume(s, n) ==
  LET r == ConsumeLoop(s.segs, s.wi, n)
  IN [s EXCEPT !.segs = r.segs, !.wi = r.wi, !.ra = @ - n]

-----------------------------------------------------------------------------
(* Queries and the remaining operations                                   *)

\* The loop of Buffer::readBufs: one slice per Data, from the front, of
\* min(readAvailable, remaining) bytes, until nothing remains
RECURSIVE ReadBufsFrom(_, _, _)
ReadBufsFrom(segs, i, k) ==
  IF i > Len(segs) THEN <<>>
  ELSE LET t == MinOf(RA(segs[i]), k)
       IN <<SubSeq(segs[i].data, 1, t)>>
            \o (IF k - t = 0 THEN <<>> ELSE ReadBufsFrom(segs, i + 1, k - t))

\* Buffer::readBufs(len): the slices it returns
ReadBufs(s, n) == ReadBufsFrom(s.segs, 1, n)

\* Buffer::copyOut(buf, len): the bytes it copies out
RECURSIVE CopyOutFrom(_, _, _)
CopyOutFrom(segs, i, k) ==
  IF i > Len(segs) THEN <<>>
  ELSE LET t == MinOf(k, RA(segs[i]))
       IN SubSeq(segs[i].data, 1, t)
            \o (IF k - t = 0 THEN <<>> ELSE CopyOutFrom(segs, i + 1, k - t))

CopyOut(s, n) == CopyOutFrom(s.segs, 1, n)

\* Seeded bug: readBuf() taking the fast path whenever the first Data
\* holds any readable byte
ReadBufAnyFront(s, n) ==
  IF s.ra = 0 \/ RA(s.segs[1]) > 0 THEN s
  ELSE [s EXCEPT !.segs = <<SliceData(CopyOut(s, s.ra))>>, !.wi = 2, !.wa = 0]

\* Buffer::readBuf(len): the buffer after the call.  Unless the first Data
\* holds len bytes, all readable bytes are copied into one Data (into the
\* writable region of m_writeIt when it is large enough, else into a new
\* array) which replaces the list; all writable space is dropped.
ReadBuf(s, n) ==
  IF s.ra = 0 \/ RA(s.segs[1]) >= n THEN s
  ELSE [s EXCEPT !.segs = <<SliceData(CopyOut(s, s.ra))>>, !.wi = 2, !.wa = 0]

\* The readable bytes of the slice readBuf(len) returns: slice(0, len) of
\* the first Data (a slice past its readable bytes shows only those)
ReadBufResult(s, n) ==
  IF s.ra = 0 THEN <<>>
  ELSE LET d == ReadBuf(s, n).segs[1] IN SubSeq(d.data, 1, MinOf(n, d.w))

\* Buffer::writeBufs(len) reserves, then hands out the writable slices
\* from m_writeIt on
WriteBufs(s, n) == Reserve(s, n)

\* Seeded bug: writeBuf() reserving without compact() first
WriteBufNoCompact(s, n) ==
  CASE s.wa = 0                -> Reserve(s, n)
    [] WA(s.segs[s.wi]) >= n   -> s
    [] OTHER                   -> Reserve(s, n)

\* Buffer::writeBuf(len): one contiguous writable slice
WriteBuf(s, n) ==
  CASE s.wa = 0                -> Reserve(s, n)
    [] WA(s.segs[s.wi]) >= n   -> s
    [] OTHER                   -> Reserve(Reserve(Compact(s), n), n)

\* The split at the top of both copyIn()s: the readable part of a mixed
\* m_writeIt becomes a Data of its own, inserted before it
SplitMixed(s) ==
  IF s.wi # End(s) /\ RA(s.segs[s.wi]) # 0
  THEN LET w == s.segs[s.wi]
       IN [s EXCEPT !.segs = InsertAt([@ EXCEPT ![s.wi] = DataConsume(w, RA(w))],
                                      s.wi, SliceData(w.data)),
                    !.wi = @ + 1]
  ELSE s

\* m_bufs.insert(m_writeIt, ...) of a sequence of Data
InsertBeforeWriteIt(s, ds) ==
  [s EXCEPT !.segs = SubSeq(@, 1, s.wi - 1) \o ds \o SubSeq(@, s.wi, Len(@)),
            !.wi = @ + Len(ds)]

\* Seeded bug: the copyIn loop slicing the tail of each source Data
RECURSIVE SlicesFromBack(_, _, _)
SlicesFromBack(segs, i, k) ==
  IF i > Len(segs) THEN <<>>
  ELSE LET t == MinOf(RA(segs[i]), k)
       IN <<SliceData(SubSeq(segs[i].data, RA(segs[i]) - t + 1, RA(segs[i])))>>
            \o (IF k - t = 0 THEN <<>> ELSE SlicesFromBack(segs, i + 1, k - t))

\* The loop of copyIn(const Buffer &, len): one slice of each source Data
RECURSIVE SlicesOf(_, _, _)
SlicesOf(segs, i, k) ==
  IF i > Len(segs) THEN <<>>
  ELSE LET t == MinOf(RA(segs[i]), k)
       IN <<SliceData(SubSeq(segs[i].data, 1, t))>>
            \o (IF k - t = 0 THEN <<>> ELSE SlicesOf(segs, i + 1, k - t))

\* Seeded bug: copyIn(Buffer) without m_readAvailable += toConsume
CopyInBufferNoCount(s, src, n) ==
  InsertBeforeWriteIt(SplitMixed(s), SlicesOf(src.segs, 1, n))

\* Buffer::copyIn(const Buffer &buf, len): zero-copy append
CopyInBuffer(s, src, n) ==
  [InsertBeforeWriteIt(SplitMixed(s), SlicesOf(src.segs, 1, n))
     EXCEPT !.ra = @ + n]

\* Buffer::copyIn(const void *, len): a new Data the bytes are memcpy'd into
CopyInPtr(s, bytes) ==
  LET fresh == NewData(Len(bytes))
      nb    == IF CopyInProduces THEN DataProduce(fresh, bytes) ELSE fresh
  IN [InsertBeforeWriteIt(SplitMixed(s), <<nb>>) EXCEPT !.ra = @ + Len(bytes)]

\* Seeded bug: findDelimited() that forgets len -= toscan
RECURSIVE FindFromNoLimit(_, _, _, _, _)
FindFromNoLimit(segs, i, delim, k, total) ==
  IF i > Len(segs) THEN -1
  ELSE LET t   == MinOf(k, RA(segs[i]))
           hit == {j \in 1..t : segs[i].data[j] = delim}
       IN IF hit # {} THEN total + Min(hit)
          ELSE IF k - t = 0 THEN -1
          ELSE FindFromNoLimit(segs, i + 1, delim, k, total + t)

\* The loop of Buffer::findDelimited: memchr over min(len, readAvailable)
\* bytes of each Data; offset of the delimiter + 1, or -1
RECURSIVE FindFrom(_, _, _, _, _)
FindFrom(segs, i, delim, k, total) ==
  IF i > Len(segs) THEN -1
  ELSE LET t   == MinOf(k, RA(segs[i]))
           hit == {j \in 1..t : segs[i].data[j] = delim}
       IN IF hit # {} THEN total + Min(hit)
          ELSE IF k - t = 0 THEN -1
          ELSE FindFrom(segs, i + 1, delim, k - t, total + t)

FindDelimited(s, delim, n) == FindFrom(s.segs, 1, delim, n, 0)

-----------------------------------------------------------------------------
(* One action per public operation of Buffer; b is the object called.     *)

Fresh(k) == [i \in 1..k |-> nextByte + i - 1]

Apply(b, s) == buf' = [buf EXCEPT ![b] = s]

\* Buffer::Buffer(): only m_writeIt is set; the counters are not
Init ==
  /\ buf \in [Buffers -> [segs : {<<>>}, wi : {1}, ra : Garbage, wa : Garbage]]
  /\ nextByte = 0

ReserveOp(b, n) == Apply(b, Reserve(buf[b], n)) /\ UNCHANGED nextByte

CompactOp(b) == Apply(b, Compact(buf[b])) /\ UNCHANGED nextByte

ClearOp(b) == Apply(b, Clear(buf[b])) /\ UNCHANGED nextByte

\* the caller writes n bytes into what writeBuf(s) returned, then produce(n)
ProduceOp(b, n) ==
  /\ n <= buf[b].wa
  /\ nextByte + n <= MaxBytes
  /\ Apply(b, Produce(buf[b], Fresh(n)))
  /\ nextByte' = nextByte + n

ConsumeOp(b, n) ==
  /\ n <= buf[b].ra
  /\ Apply(b, Consume(buf[b], n))
  /\ UNCHANGED nextByte

ReadBufOp(b, n) ==
  /\ n <= buf[b].ra
  /\ Apply(b, ReadBuf(buf[b], n))
  /\ UNCHANGED nextByte

WriteBufsOp(b, n) == Apply(b, WriteBufs(buf[b], n)) /\ UNCHANGED nextByte

WriteBufOp(b, n) == Apply(b, WriteBuf(buf[b], n)) /\ UNCHANGED nextByte

CopyInBufferOp(b, src, n) ==
  /\ n <= buf[src].ra
  /\ Apply(b, CopyInBuffer(buf[b], buf[src], n))
  /\ UNCHANGED nextByte

CopyInPtrOp(b, n) ==
  /\ nextByte + n <= MaxBytes
  /\ Apply(b, CopyInPtr(buf[b], Fresh(n)))
  /\ nextByte' = nextByte + n

Next ==
  \E b \in Buffers :
    \/ CompactOp(b)
    \/ ClearOp(b)
    \/ \E n \in Lens :
         \/ ReserveOp(b, n)
         \/ ProduceOp(b, n)
         \/ ConsumeOp(b, n)
         \/ ReadBufOp(b, n)
         \/ WriteBufsOp(b, n)
         \/ WriteBufOp(b, n)
         \/ CopyInPtrOp(b, n)
         \/ \E src \in Buffers : CopyInBufferOp(b, src, n)

Spec == Init /\ [][Next]_vars


-----------------------------------------------------------------------------
(* Properties                                                              *)

\* The readable bytes of a buffer, front to back
Content(s) == FlattenSeq([i \in 1..Len(s.segs) |-> s.segs[i].data])

\* Every Data keeps Data::invariant (m_writeIndex <= m_buf.m_length),
\* m_writeIt lies in [begin, end], and the counters are sizes.
TypeOK ==
  /\ nextByte \in 0..MaxBytes
  /\ \A b \in Buffers :
       /\ buf[b].wi \in 1..End(buf[b])
       /\ buf[b].ra \in Nat /\ buf[b].wa \in Nat
       /\ \A i \in 1..Len(buf[b].segs) :
            LET d == buf[b].segs[i]
            IN d.len \in Nat /\ d.w \in 0..d.len /\ Len(d.data) = d.w

RASum(s) == FoldLeft(LAMBDA acc, d : acc + RA(d), 0, s.segs)
WASum(s) == FoldLeft(LAMBDA acc, d : acc + WA(d), 0, s.segs)

\* Buffer::invariant() (buffer.cpp:446-467), which the code asserts on
\* entry to and exit from most operations: no readable byte follows a
\* writable one; m_writeIt is the first Data with writable bytes, or end()
\* when there are none; the counters equal the sums over the list.  Long
\* sequences of reserve / produce / copyIn / consume are needed to break it.
BufferInvariant ==
  \A b \in Buffers :
    LET s == buf[b]
        writable == {i \in 1..Len(s.segs) : WA(s.segs[i]) # 0}
    IN /\ \A i \in writable : \A j \in i + 1..Len(s.segs) : RA(s.segs[j]) = 0
       /\ writable # {} => s.wi = Min(writable)
       /\ RASum(s) = s.ra
       /\ WASum(s) = s.wa
       /\ s.wa = 0 => s.wi = End(s)

\* The read queries agree with the bytes the buffer holds: readBufs(n) and
\* copyOut(n) return exactly the first n readable bytes, in order, for every
\* n <= readAvailable(), and readBuf(n) returns them as one contiguous
\* slice.  The loops walk the list by the per-Data counts and stop on the
\* global count, so they go wrong when the two disagree.
QueriesAgreeWithContent ==
  \A b \in Buffers : \A n \in 0..buf[b].ra :
    LET s == buf[b]  prefix == SubSeq(Content(s), 1, n)
    IN /\ FlattenSeq(ReadBufs(s, n)) = prefix
       /\ Len(prefix) = n
       /\ CopyOut(s, n) = prefix
       /\ ReadBufResult(s, n) = prefix

\* The reference for findDelimited: 1 + the offset of the first delim among
\* the first n readable bytes, -1 when there is none.
FirstDelimiter(c, delim, n) ==
  LET hit == {j \in 1..n : c[j] = delim}
  IN IF hit = {} THEN -1 ELSE Min(hit)

\* findDelimited(delim, n), which scans Data by Data with memchr, agrees
\* with the reference on every reachable layout, delimiter and limit.
FindDelimitedCorrect ==
  \A b \in Buffers : \A n \in 0..buf[b].ra : \A delim \in 0..MaxBytes - 1 :
    FindDelimited(buf[b], delim, n) = FirstDelimiter(Content(buf[b]), delim, n)

\* Room after a write request, from every reachable state: writeBuf(n)
\* leaves m_writeIt on a Data with n contiguous writable bytes (the slice
\* it returns), and writeBufs(n) leaves n writable bytes in the Data from
\* m_writeIt on (its loop never steps past end()).
WritableFrom(s) == FoldLeft(LAMBDA acc, d : acc + WA(d), 0,
                            SubSeq(s.segs, s.wi, Len(s.segs)))

WriteBufHasRoom ==
  \A b \in Buffers : \A n \in Lens :
    LET one == WriteBuf(buf[b], n)  many == WriteBufs(buf[b], n)
    IN /\ one.wi # End(one) /\ WA(one.segs[one.wi]) >= n
       /\ WritableFrom(many) >= n

\* The buffer implements BufferContents: every operation changes the
\* readable bytes only as produce / consume / copyIn / clear promise, and
\* the layout operations (reserve, compact, readBuf, writeBuf(s)) not at all.
Contents == INSTANCE BufferContents
              WITH content <- [b \in Buffers |-> Content(buf[b])]

ContentsRefined == Contents!Spec

=============================================================================
