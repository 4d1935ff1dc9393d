--------------------------- MODULE ConnectionCache ---------------------------
(***************************************************************************)
(* The per-connection cache of HTTP::Connection (src/mordor/http/          *)
(* connection.h:28-46, 63-64): an anymap m_cache guarded by the            *)
(* non-recursive std::mutex m_cacheMutex.  Fibers, which a scheduler may  *)
(* run on several threads, use it in three ways:                          *)
(*   getCache(key)  lock; copy m_cache[key] (operator[] inserts a default *)
(*                  on a miss); unlock                                     *)
(*   setCache(k, v) lock; m_cache[key] = value; unlock                     *)
(*   update         the idiom the @note on cache() and cacheMutex()        *)
(*                  prescribes: lock cacheMutex(), read cache()[key],      *)
(*                  write cache()[key] = old + 1, unlock                   *)
(* Lock acquisition is its own step, so fibers interleave at the mutex.   *)
(***************************************************************************)
EXTENDS Naturals

CONSTANTS
  Fibers,     \* fibers using one Connection's cache
  Keys,       \* cache keys (tags)
  Values,     \* values setCache is called with
  NoFiber,    \* the mutex is free
  Absent,     \* m_cache has no entry for the key
  MaxOps      \* bound on the cache operations begun, all fibers together

Default == 0  \* TagType::value_type() for a counter-like tag

VARIABLES
  cache,      \* m_cache: key -> value or Absent
  holder,     \* the fiber owning m_cacheMutex, or NoFiber
  op,         \* op[f]: the operation fiber f is in: "get", "set" or "update"
  key,        \* key[f]: its key
  val,        \* val[f]: setCache's value argument
  stage,      \* stage[f]: "idle", "locking", "locked", "writing" or "relock"
  local,      \* local[f]: the value the update idiom read
  got,        \* got[f]: the copy the last getCache of f returned
  ops         \* cache operations begun

vars == <<cache, holder, op, key, val, stage, local, got, ops>>

\* anymap::operator[]: the entry, or the default it inserts
Lookup(k) == IF cache[k] = Absent THEN Default ELSE cache[k]

\* operator[]'s insertion of a default on a miss
Touch(k) == [cache EXCEPT ![k] = Lookup(k)]

Init ==
  /\ cache = [k \in Keys |-> Absent]
  /\ holder = NoFiber
  /\ op = [f \in Fibers |-> "get"]
  /\ key = [f \in Fibers |-> CHOOSE k \in Keys : TRUE]
  /\ val = [f \in Fibers |-> CHOOSE v \in Values : TRUE]
  /\ stage = [f \in Fibers |-> "idle"]
  /\ local = [f \in Fibers |-> Default]
  /\ got = [f \in Fibers |-> Default]
  /\ ops = 0

\* A fiber calls getCache or setCache, or enters the update idiom
Begin(f) ==
  /\ stage[f] = "idle" /\ ops < MaxOps
  /\ \E o \in {"get", "set", "update"}, k \in Keys, v \in Values :
       /\ op' = [op EXCEPT ![f] = o]
       /\ key' = [key EXCEPT ![f] = k]
       /\ val' = [val EXCEPT ![f] = v]
  /\ stage' = [stage EXCEPT ![f] = "locking"]
  /\ ops' = ops + 1
  /\ UNCHANGED <<cache, holder, local, got>>

\* std::mutex::lock() (lock_guard's constructor, 36 and 44, or the
\* caller's lock of cacheMutex()): blocks while any fiber, f included,
\* owns the mutex.  "relock" is a second lock taken before writing back.
Acquire(f) ==
  /\ stage[f] \in {"locking", "relock"} /\ holder = NoFiber
  /\ holder' = f
  /\ stage' = [stage EXCEPT ![f] =
                 [locking |-> "locked", relock |-> "writing"][stage[f]]]
  /\ UNCHANGED <<cache, op, key, val, local, got, ops>>

\* Seeded bug: getCache returns the map's raw entry, no default on a miss
GetCacheNoDefault(f) ==
  /\ stage[f] = "locked" /\ op[f] = "get"
  /\ got' = [got EXCEPT ![f] = cache[key[f]]]
  /\ cache' = Touch(key[f])
  /\ holder' = NoFiber
  /\ stage' = [stage EXCEPT ![f] = "idle"]
  /\ UNCHANGED <<op, key, val, local, ops>>

\* getCache (33-38): copy m_cache[key] under the lock; the lock_guard
\* releases the mutex on return
GetCache(f) ==
  /\ stage[f] = "locked" /\ op[f] = "get"
  /\ got' = [got EXCEPT ![f] = Lookup(key[f])]
  /\ cache' = Touch(key[f])
  /\ holder' = NoFiber
  /\ stage' = [stage EXCEPT ![f] = "idle"]
  /\ UNCHANGED <<op, key, val, local, ops>>

\* setCache (41-46): assign under the lock, release on return
SetCache(f) ==
  /\ stage[f] = "locked" /\ op[f] = "set"
  /\ cache' = [cache EXCEPT ![key[f]] = val[f]]
  /\ holder' = NoFiber
  /\ stage' = [stage EXCEPT ![f] = "idle"]
  /\ UNCHANGED <<op, key, val, local, got, ops>>

\* Seeded bug: the update written as getCache then setCache; the mutex is
\* released between the read and the write
UpdReadReleases(f) ==
  /\ stage[f] = "locked" /\ op[f] = "update"
  /\ local' = [local EXCEPT ![f] = Lookup(key[f])]
  /\ cache' = Touch(key[f])
  /\ holder' = NoFiber
  /\ stage' = [stage EXCEPT ![f] = "relock"]
  /\ UNCHANGED <<op, key, val, got, ops>>

\* Seeded bug: the read inside the idiom calls getCache, which locks the
\* non-recursive mutex f already owns
UpdReadNestedLock(f) ==
  /\ stage[f] = "locked" /\ op[f] = "update"
  /\ stage' = [stage EXCEPT ![f] = "relock"]
  /\ UNCHANGED <<cache, holder, op, key, val, local, got, ops>>

\* The update idiom's read: cache()[key] with cacheMutex() held
UpdRead(f) ==
  /\ stage[f] = "locked" /\ op[f] = "update"
  /\ local' = [local EXCEPT ![f] = Lookup(key[f])]
  /\ cache' = Touch(key[f])
  /\ stage' = [stage EXCEPT ![f] = "writing"]
  /\ UNCHANGED <<holder, op, key, val, got, ops>>

\* The update idiom's write of old + 1, then the unlock
UpdWrite(f) ==
  /\ stage[f] = "writing"
  /\ cache' = [cache EXCEPT ![key[f]] = local[f] + 1]
  /\ holder' = NoFiber
  /\ stage' = [stage EXCEPT ![f] = "idle"]
  /\ UNCHANGED <<op, key, val, local, got, ops>>

\* All operations done and no budget left: the model stops
Terminating ==
  /\ ops = MaxOps /\ \A f \in Fibers : stage[f] = "idle"
  /\ UNCHANGED vars

\* A fiber's steps once it has begun an operation
Step(f) == Acquire(f) \/ GetCache(f) \/ SetCache(f) \/ UpdRead(f) \/ UpdWrite(f)

Next == (\E f \in Fibers : Begin(f) \/ Step(f)) \/ Terminating

\* A fiber that has begun an operation keeps being scheduled; whether a
\* fiber begins one is up to the application
Spec == Init /\ [][Next]_vars /\ \A f \in Fibers : WF_vars(Step(f))

-----------------------------------------------------------------------------
(* Properties                                                              *)

TypeOK ==
  /\ cache \in [Keys -> Nat \cup {Absent}]
  /\ holder \in Fibers \cup {NoFiber}
  /\ op \in [Fibers -> {"get", "set", "update"}]
  /\ key \in [Fibers -> Keys]
  /\ val \in [Fibers -> Values]
  /\ stage \in [Fibers -> {"idle", "locking", "locked", "writing", "relock"}]
  /\ local \in [Fibers -> Nat]
  /\ got \in [Fibers -> Nat]
  /\ ops \in 0..MaxOps

\* The cache as callers see it: an absent entry reads as the default
Atomic == INSTANCE CacheAtomic WITH
  cache <- [k \in Keys |-> Lookup(k)], got <- got, Default <- Default

\* Every getCache, setCache and locked update takes effect at one instant
\* (connection.h:28-46): no update's write overwrites a value another
\* fiber wrote after the update read, and every get returns the value of the
\* last set or update taking effect before it.
CacheLinearizable == Atomic!Spec

\* Every cache operation a fiber begins returns: the mutex is always
\* released and never locked twice by its owner (connection.h:36, 44).
AllFinish == \A f \in Fibers : stage[f] # "idle" ~> stage[f] = "idle"
=============================================================================
