----------------------------- MODULE CacheAtomic -----------------------------
(***************************************************************************)
(* What HTTP::Connection's per-connection cache promises (spec.md 5 and   *)
(* 6): a key -> value map whose get, set and update each take effect at   *)
(* one instant, as if no other caller ran meanwhile.  A key never set     *)
(* reads as the value type's default, which operator[] inserts.           *)
(***************************************************************************)
EXTENDS Naturals

CONSTANTS
  Fibers,    \* callers of the cache
  Keys,      \* cache keys (tags)
  Values,    \* values callers set
  Default    \* TagType::value_type(): a default-constructed value

VARIABLES
  cache,     \* cache[k]: the value of k
  got        \* got[f]: the value the last get of fiber f returned

vars == <<cache, got>>

Init ==
  /\ cache = [k \in Keys |-> Default]
  /\ got = [f \in Fibers |-> Default]

Get(f, k) == got' = [got EXCEPT ![f] = cache[k]] /\ UNCHANGED cache

Set(k, v) == cache' = [cache EXCEPT ![k] = v] /\ UNCHANGED got

\* An increment done at once: no other write comes between its read and write
Update(k) == cache' = [cache EXCEPT ![k] = @ + 1] /\ UNCHANGED got

Next ==
  \E k \in Keys :
    \/ \E f \in Fibers : Get(f, k)
    \/ \E v \in Values : Set(k, v)
    \/ Update(k)

Spec == Init /\ [][Next]_vars
=============================================================================
