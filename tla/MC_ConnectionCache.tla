------------------------- MODULE MC_ConnectionCache -------------------------
(* Two fibers sharing one Connection's cache of two keys *)
EXTENDS ConnectionCache

CONSTANTS p, q, k1, k2

MCFibers == {p, q}
MCKeys == {k1, k2}
=============================================================================
