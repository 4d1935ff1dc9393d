------------------------------ MODULE MC_Buffer ------------------------------
(***************************************************************************)
(* Model-checking instance of Buffer.  Lengths 1..2 give segments of 1 to *)
(* 4 bytes, so that coalescing, splitting and produce/consume across      *)
(* several Data all happen.  The cfgs choose one Buffer object (deep      *)
(* bounds, copyIn of a buffer into itself) or two (copyIn between lists). *)
(***************************************************************************)
EXTENDS Buffer, TLC

CONSTANTS
  A, B,          \* Buffer objects (model values)
  MaxReadable,   \* bound on one buffer's readable bytes: copyIn(Buffer)
                 \* grows a buffer without writing new bytes
  MaxSegments    \* bound on the length of one buffer's Data list

StateBound ==
  \A b \in Buffers :
    /\ buf[b].ra <= MaxReadable
    /\ Len(buf[b].segs) <= MaxSegments
=============================================================================
