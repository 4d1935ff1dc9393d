--------------------------- MODULE BufferContents ---------------------------
(***************************************************************************)
(* What a Buffer promises its callers (spec.md 3, 4.1), with segments,    *)
(* write cursors and capacity abstracted away: each Buffer is the          *)
(* sequence of its readable bytes.  Bytes are named by the order in which *)
(* they were first written (0, 1, 2, ...), so that a byte that is lost,   *)
(* duplicated or moved is visible in the sequence.                        *)
(*                                                                         *)
(*   Write  - produce() after writeBuf(s), or copyIn(ptr): fresh bytes    *)
(*            are appended;                                                *)
(*   Read   - consume(): a prefix is retired;                              *)
(*   Copy   - copyIn(Buffer): a prefix of another buffer is appended;     *)
(*   Empty  - clear().                                                     *)
(* reserve, compact, readBuf(s), writeBuf(s), copyOut and findDelimited    *)
(* change the layout only, never the readable bytes: they are stutters.   *)
(***************************************************************************)
EXTENDS Naturals, Sequences

CONSTANTS
  Buffers,   \* the Buffer objects
  MaxBytes   \* bound on the bytes ever written

VARIABLES
  content,   \* content[b]: the readable bytes of buffer b, oldest first
  nextByte   \* the name of the next byte to be written

vars == <<content, nextByte>>

Init ==
  /\ content = [b \in Buffers |-> <<>>]
  /\ nextByte = 0

Write(b, k) ==
  /\ nextByte + k <= MaxBytes
  /\ content' = [content EXCEPT ![b] = @ \o [i \in 1..k |-> nextByte + i - 1]]
  /\ nextByte' = nextByte + k

Read(b, k) ==
  /\ k <= Len(content[b])
  /\ content' = [content EXCEPT ![b] = SubSeq(@, k + 1, Len(@))]
  /\ UNCHANGED nextByte

Copy(dst, src, k) ==
  /\ k <= Len(content[src])
  /\ content' = [content EXCEPT ![dst] = @ \o SubSeq(content[src], 1, k)]
  /\ UNCHANGED nextByte

Empty(b) ==
  /\ content' = [content EXCEPT ![b] = <<>>]
  /\ UNCHANGED nextByte

Next ==
  \E b \in Buffers :
    \/ \E k \in 0..MaxBytes : Write(b, k)
    \/ \E k \in 0..Len(content[b]) : Read(b, k)
    \/ \E src \in Buffers : \E k \in 0..Len(content[src]) : Copy(b, src, k)
    \/ Empty(b)

Spec == Init /\ [][Next]_vars

=============================================================================
