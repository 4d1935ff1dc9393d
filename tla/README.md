# TLA+ models of mordor's buffer, HTTP body framing, connection cache and auth retry loop

This directory holds TLA+ specifications of the parts of the mordor sources
(`src/`) that carry state and control, the TLC configurations that check
them, and `PROJECT.json`, the machine-readable index of components, runs,
mutants, the definition-to-source map, findings and hazards.

## The system and its parts

The repository is a slice of mordor, a C++ fiber/stream library. Only three
`.cpp` files are present; everything else under `src/` is a header.

| Part | Source | What it does | Model |
|---|---|---|---|
| `Buffer` | `common/streams/buffer.cpp` | A segmented byte buffer: a `std::list<Data>` of slices, an iterator `m_writeIt` to the first Data with write space, and the counters `m_readAvailable` and `m_writeAvailable`. Streams read and write through it. | `Buffer`, abstract `BufferContents` |
| `HTTP::Connection` | `common/http/connection.cpp` | The constructor, which wraps a transport without `findDelimited` in a BufferedStream and records who owns what; the destructor; `hasMessageBody` (RFC 2616 4.4) and `getStream`, which stacks ChunkedStream and NotifyStream over the transport to give the caller a body stream. It calls `notifyOnEof` when the body is done, so the connection can move to the next message. | `HttpConnection`, `HttpConnectionLife` |
| `AuthRequestBroker` | `http/auth.cpp` | Sends a request. On 401 or 407 with a Basic or Digest challenge (on Windows also Negotiate or NTLM), it asks a credential callback (for example `getCredentialsFromKeychain`), authorizes the request, and retries. On Windows, Negotiate and NTLM run a multi-request SSPI handshake (`NegotiateAuth`, `http/negotiate.h`). | `AuthRequestBroker` |
| `HTTP::Connection` cache | `http/connection.h` | A per-connection `anymap` guarded by a `std::mutex`: `getCache` and `setCache` lock it internally, and `cache()`/`cacheMutex()` expose both for callers that lock themselves. | `ConnectionCache`, abstract `CacheAtomic` |
| header-only parts | `pq/connection.h`, `openssl_lock.h`, `http/negotiate.h`, `socks.h`, `http/multipart.h`, `streams/memory.h`, `date_time.*`, `pq/tests/pq.cpp` | Declarations, a libpq wrapper, a test harness | not modelled (see below) |

How they interact:
- The HTTP connection reads through a BufferedStream whose storage is a Buffer. The constructor wraps the transport in one when it does not support `findDelimited`.
- `getStream` hands the caller a layered body stream.
- `AuthRequestBroker` sits above a request broker that uses such connections.
- Fibers serving requests on one connection share its cache.

Each model takes its neighbour as an environment:
- `HttpConnection` abstracts the transport to a sequence of tokens read in arbitrary partial reads.
- `AuthRequestBroker` abstracts `parent()->request()` to "any response".

## Modules

### `BufferContents` (abstract)
What a Buffer promises:
- **State:** each buffer is the sequence of its readable bytes.
- **Byte names:** bytes are named by the order in which they were first written, so a lost, duplicated or reordered byte is visible.
- **Actions:**
  - `Write`: fresh bytes appended, from `produce` or `copyIn(ptr)`.
  - `Read`: a prefix dropped, from `consume`.
  - `Copy`: a prefix of another buffer appended, from `copyIn(Buffer)`.
  - `Empty`: from `clear`.
- Every other operation only changes the layout, so at this level it is a stutter.

### `Buffer` (detailed)
State (`buf[b] = [segs, wi, ra, wa]`):
- `segs`: the `std::list<Data>`. A Data is `[len, w, data]`, where `w` is `m_writeIndex` and `data` holds the bytes written so far.
- `wi`: `m_writeIt` as an index, with `Len(segs) + 1` standing for `end()`.
- `ra`, `wa`: the two counters.

Operations:
- Each public method is one operator on a buffer's state, with its loops as RECURSIVE operators: `Reserve`, `Compact`, `Clear`, `Produce`, `Consume`, `ReadBuf`, `WriteBufs`, `WriteBuf`, `CopyInBuffer` and `CopyInPtr`.
- Each has one action (`...Op`) that applies it, with the method's `assert` preconditions (`len <= readAvailable()` and so on) as guards.
- The queries `readBufs`, `copyOut` and `findDelimited` are pure operators.
- `Init` is the constructor. It leaves the counters at values drawn from `Garbage`, because the code never initializes them.
- Two constants select between the code as written and the fix that makes the rest checkable:
  - `ReserveKeepsWriteIt`: whether reserve() keeps `m_writeIt` when earlier write space exists.
  - `CopyInProduces`: whether copyIn(ptr) produces its bytes.

Refinement: `Buffer` implements `BufferContents` under the mapping `content <- [b |-> Content(buf[b])]`, where Content concatenates the readable bytes of `segs`. The check is `ContentsRefined`.

### `HttpConnection`
State:
- The message headers, as a record `[method, status, cl, te, close]`.
- The transport's unread tokens: body bytes, chunk-size lines, CRLF, a malformed size line, and the first byte of the next message. Also whether the peer closed.
- The layers `getStream` stacked.
- The ChunkedStream decoder state.
- The bytes returned to the caller.
- The NotifyStream handlers fired and the `done` count.

Actions:
- `GetStream` is the whole of `getStream`. The caller calls it only when `hasMessageBody` holds, as the code asserts.
- `ReadBody` is one `read()` of the top layer.
- `CloseBody` is the caller's `close()`.
- FilterStream, ChunkedStream and NotifyStream are not in the repository. Their read and close semantics are modelled from spec.md 4.3-4.6 and are marked `spec_modelled` in the map.
- `DebugBuild` chooses whether `assert()` aborts.

Init chooses:
- a wire carrying the body in every chunking in `Chunkings`;
- or a malformed size line;
- or any prefix of the body with the peer closing early.

### `CacheAtomic` (abstract)
What the cache promises: a map from keys to values in which `Get`, `Set` and `Update` (an increment) each happen at one instant. A key never set reads as the default value.

### `ConnectionCache` (detailed)
State:
- `cache`: `m_cache`, with `Absent` for a key with no entry.
- `holder`: the fiber that owns `m_cacheMutex`, or `NoFiber`.
- Per fiber: the operation it is in (`get`, `set`, `update`), its key and value, its `stage`, the value its update read (`local`), and the copy its last `getCache` returned (`got`).
- `ops`: operations begun, bounded by `MaxOps`.

Actions:
- `Begin(f)`: a fiber calls `getCache` or `setCache`, or starts the update idiom.
- `Acquire(f)`: `std::mutex::lock()`. It is its own step, and it blocks while any fiber, the owner included, holds the mutex (std::mutex is not recursive).
- `GetCache(f)`: connection.h:33-38. It copies `m_cache[key]` under the lock, and `operator[]` inserts the default on a miss (`Touch`). Then it releases the lock.
- `SetCache(f)`: connection.h:41-46.
- `UpdRead(f)` and `UpdWrite(f)`: the idiom the `@note` at connection.h:28 prescribes for `cache()`. Lock `cacheMutex()`, read `cache()[key]`, write it back plus one, unlock. No caller in the repository uses the idiom; the model follows the note.

Refinement: `ConnectionCache` implements `CacheAtomic` under the mapping `cache <- [k |-> Lookup(k)]`, which reads an absent entry as the default. The check is `CacheLinearizable`.

### `HttpConnectionLife`
This module EXTENDS `HttpConnection` with the Connection object's life and the ownership of its streams.

State:
- `own`: the constructor's argument.
- `findDelim`: whether the transport supports `findDelimited`.
- `life`: `unbuilt`, `live`, `threw` or `destroyed`.
- `mStream`, `mOwn`: `m_stream` and `m_own`.
- `bufOwn`: the BufferedStream's own bit.
- `allocated`: the objects that exist or existed.
- `deleted`: per object, how many times it was deleted.
- `callerOwes`: whether a caller that kept the transport still has to delete it.

Actions:
- `Construct`: connection.cpp:9-29.
  - A transport without `findDelimited` is wrapped (`Wrap`). The BufferedStream owns the transport iff `own`, and `m_own = true`.
  - Otherwise `new BufferedStream` throws `bad_alloc` and the catch runs (`CtorCatch`).
- `Destroy`: the destructor, 31-36. The Connection's owner calls it once the body stream is done with: never opened, closed, finished, or failed.
- `CallerDelete`: a caller that passed `own = false` deletes the transport after the Connection is gone.
- The body-framing actions of `HttpConnection` run only while `life = "live"`.
- Deleting a BufferedStream deletes its parent iff its own bit is set. This is FilterStream's drop behaviour (spec.md 4.3), marked `spec_modelled`.

### `AuthRequestBroker`
State:
- the build (`posix` or `windows`), chosen in `Init`, so one run checks both;
- the loop position (`top`, `www`, `proxy`, `send`, or a terminal `returned`, `asserted` or `crashed`);
- the prior response;
- `attempts` and `proxyAttempts`;
- which callback each side has (`none`, an arbitrary application callback `user`, or `keychain` = `getCredentialsFromKeychain`);
- how often each callback was called;
- the scheme in each authorization header;
- requests sent;
- on Windows: the `scheme` out-parameter both callbacks share, whether each `NegotiateAuth` is set (`nego`), and a history variable `negoScheme` recording the scheme each handshake started with. No guard reads `negoScheme`; only the property does.

Actions:
- `Top` is the Windows loop top (auth.cpp:51-78). A handshake is kept only if the new challenge for its kind still offers `scheme` and `NegotiateAuth::authorize` succeeds. That call's result is any boolean (`NegotiateSteps`), because the SSPI code is not in the repository. While a handshake is kept, the credential blocks are skipped. `Offers(k)` assumes a 401 carries only WWW-Authenticate and a 407 only Proxy-Authenticate.
- `Ask(k)` is one credential block (auth.cpp:79-116 or 117-156, identical but for www and proxy).
- `Send` is 160-184. On Windows it also goes round on a Negotiate or NTLM challenge (`Continued`), and goes back to `Top` (`LoopHead`).
- In `Ask`, a Negotiate or NTLM result creates the `NegotiateAuth` (97-104). On the pre-emptive pass that step dereferences the NULL `priorRequest` (`crashed`).
- On Windows the keychain callback does not exist, so `Init` excludes it.
- `PostIncrement` is `attempts++` passed as an argument.
- `Keychain` is the callback at 188-262. It consults the keychain only when `attempts == 1`, and dereferences `priorRequest` otherwise.

## Runs

| Run | Cfg | Expect | What it shows |
|---|---|---|---|
| buffer_ops | MC_Buffer.cfg | pass | One buffer; all operations; reserve/copyIn fixed. Checks `invariant()` (BufferInvariant), the queries against the bytes, findDelimited against a reference, writeBuf's room, and refinement of BufferContents. |
| buffer_two | MC_Buffer_two.cfg | pass | Two buffers: copyIn(Buffer) across and into itself keeps `invariant()` in both and keeps both byte sequences (refinement). Type and query checks are left to buffer_ops. |
| buffer_reserve | MC_Buffer_reserve.cfg | violation | reserve() as written breaks invariant() after reserve, produce, reserve. |
| buffer_copyin | MC_Buffer_copyin.cfg | violation | copyIn(ptr) as written never produces its bytes. |
| buffer_empty | MC_Buffer_empty.cfg | violation | copyIn of 0 bytes leaves an empty Data that strands m_writeIt. |
| buffer_zero | MC_Buffer_zero.cfg | violation | writeBuf(0) with no write space dereferences end(). |
| http_framing | MC_HttpConnection.cfg | pass | From construction to destruction, for either `own`, with or without `findDelimited`, and with a failing BufferedStream allocation, no stream is deleted twice or while still in use (`OwnershipSafe`), and every stream is eventually deleted (`NoLeak`). Chunked (kept alive or closed) and Content-Length-with-close bodies are read exactly, under any partial read, chunking, malformed chunk or early close. onDone eventually fires. hasMessageBody matches spec.md 4.7, including Content-Length 0. |
| http_length_keepalive | MC_HttpConnection_length.cfg | violation | A Content-Length body on a kept-alive connection reads into the next message (no LimitedStream). |
| http_close_delimited | MC_HttpConnection_close.cfg | violation | A close-delimited body never signals done (no NotifyStream). |
| http_done_twice | MC_HttpConnection_done.cfg | violation | A body stream that reaches EOF and is then closed fires onDone twice (`DoneFiresOnce`). In the trace, the body is a Content-Length body that the peer cut short. |
| cache_ops | MC_ConnectionCache.cfg | pass | Two fibers, two keys, four operations, in every interleaving at the mutex. Every get, set and locked update is atomic (refinement of CacheAtomic), and every begun operation returns (`AllFinish`). |
| auth_retry | MC_AuthRequestBroker.cfg | pass | Both builds. For every response sequence and callback kind, the attempt counters count callback calls. On Windows, a Negotiate/NTLM handshake is only ever continued with the scheme it was started with (`NegotiateContinuesOwnScheme`). With the keychain callback, no NULL dereference and at most three requests. |

Every property of a passing run has a mutant in `PROJECT.json`. Each mutant is a plausible bug in the mapped code, written as an operator defined just before the code it replaces and marked "Seeded bug". For example: `Data::consume` that forgets `m_writeIndex -= len`, `findDelimited` that forgets `len -= toscan`, `++attempts` instead of `attempts++`, an update written as `getCache` then `setCache` (a lost update), or `getCache` called while `cacheMutex()` is already held (a self-deadlock). With the mutant in place, TLC finds the property violated.

## Findings

- **Buffer code bugs:**
  - `reserve` misplaces m_writeIt (buffer.cpp:150).
  - `copyIn(ptr)` never calls produce (384).
  - A zero-length copyIn leaves an empty Data (364).
  - `writeBuf(0)` hits assert and dereferences end() (330).
- **Buffer counters never initialized (not checked by any run):** `Buffer::Buffer()` (buffer.cpp:119) leaves `m_readAvailable` and `m_writeAvailable` uninitialized. `Init` draws them from `Garbage`, and any nonzero value breaks `BufferInvariant` in the initial state. The passing runs set `Garbage = {0}`, the value a zeroed heap gives, so that the rest of the Buffer can be checked.
- **HTTP divergences from spec.md 4.7:**
  - No LimitedStream (connection.cpp:133).
  - No NotifyStream for close-delimited bodies (144).
- **HTTP spec gap:** onDone is bound to both close and EOF (connection.cpp:114-115, 137-138). spec.md 4.7 prescribes this binding. spec.md 4.5 fires each event kind once. So reading to EOF and then closing fires onDone twice, and spec.md 7 says it fires exactly once. The spec does not say which rule wins.
- **Transfer-Encoding: identity (not checked by any run):** the source shows it hits `assert(false)` (connection.cpp:125), where the spec treats it as no coding. No property compares getStream's accept/reject decision with the spec. Such a comparison would have to leave identity out of its message set to pass.

## Bounds, and why they suffice

- **Buffer:**
  - Sizes `Lens = {1, 2}`. The violation runs use `{0, 1, 2}` to reach the zero boundary.
  - `MaxBytes` 5, and a state constraint of at most 5 readable bytes and 4 Data.
  - A reserve of 2 over-reserves to 3 or 4 bytes. So within these bounds a buffer has mixed read/write Data, several writable Data, a writeBuf that does not fit m_writeIt, and a readBuf spanning Data. Every branch of every method is taken.
  - The two-buffer run is smaller (2 bytes, 3 Data), because the product of two buffers grows fast. It still covers cross-buffer and self copies of split Data.
- **HTTP:**
  - `own` and `findDelim` range over both values, and the BufferedStream allocation either succeeds or throws. So every path through the constructor and destructor is taken, each with every message.
  - `BodyLen = 2` with chunkings `<<2>>` and `<<1,1>>`. A read can end inside a chunk, at a chunk boundary, and at the last chunk.
  - Every prefix of the wire is a possible early close.
  - Ten header sets cover both request and response rules, the no-body statuses, an unsupported coding, and each framing.
- **Cache:**
  - Two fibers are enough for a lost update (one fiber's write between the other's read and write) and for one fiber to wait on the other's lock.
  - Two keys show that operations on different keys do not interfere.
  - `MaxOps = 4` lets both fibers run two operations each, so that an update can race an update or a set.
  - One set value (7) is enough. It differs from every value an update of a never-set key can write (1 to 4), so an update that overwrites a set is visible.
- **Auth:**
  - `MaxRequests = 4`, one more than the keychain's bound of 3, so the mutants that loop forever are caught.
  - Challenges offer any subset of Basic, Digest and NTLM. The POSIX loop does not accept NTLM; on Windows, an NTLM challenge lets a handshake continue across passes, and a Basic or Digest challenge beside it tempts a credential block to run mid-handshake.
  - `MaxRequests = 4` allows a handshake started after the first challenge to continue for two more requests.

## Fairness

- `HttpConnectionLife` also assumes weak fairness of `Construct`, `Destroy` and `CallerDelete`. Each owner releases what it holds when it goes out of scope, so the Connection and a transport the caller kept are eventually deleted.
- `HttpConnection` assumes weak fairness of `GetStream` and `ReadBody`. The caller's loop reads the body until `read()` returns 0, and ReadBody is disabled only while the transport blocks. `CloseBody` is not fair: a caller may or may not close.
- `AuthRequestBroker` assumes weak fairness of the loop, because `request()` is one thread running straight through. Its bounds are stated as safety (`KeychainBounded`), which implies termination under this fairness.
- `ConnectionCache` assumes weak fairness of each fiber's steps once it has begun an operation. Whether a fiber begins one is up to the application, so `Begin` is not fair. `std::mutex` promises no fairness between waiters, but each fiber begins only finitely many operations (`MaxOps`). So a waiter with the lock free, and no one else left to take it, gets it under weak fairness alone. The model stops (`Terminating`) only once the budget is spent and every fiber is idle. Its deadlock check is on, so a fiber stuck on the mutex with nothing else able to move is reported.
- The Buffer models are safety-only: every method is a synchronous call.
- Deadlock checking is off (`CHECK_DEADLOCK FALSE`) only in:
  - HttpConnection, which stops once the Connection and its streams are deleted;
  - AuthRequestBroker, whose `request()` returns.

  In both, stopping is the intended end.

## Not modelled, and why

- Cache values are abstracted to natural numbers, because the `anymap` tag types are not in the repository. The update idiom is modelled as an increment, the read-modify-write the `@note` exists for.
- `getStream(forRead = false)`: its branch is identical to the read side (a non-owning FilterStream), so it is the same action.
- A BufferedStream constructor that throws after its FilterStream base took the transport: the base destructor and the catch would both delete the transport. BufferedStream's constructor is not in the repository, so whether it can throw there is unknown. The modelled fault is `bad_alloc` from `new`, which happens before any object exists.
- `pq/connection.h`, `openssl_lock.h`, `negotiate.h`, `socks.h`, `multipart.h`, `memory.h`: declarations whose behaviour lives in sources not in the repository. `pq/tests/pq.cpp` is a test harness against a live server. `date_time` is stateless conversion.
- `NegotiateAuth` itself (`negotiate.h`): only declared in the repository. Its `authorize` is an unconstrained environment choice, so the loop's termination during a handshake is not checked.
- `pq/connection.h`: only the `execute` wrappers that set `m_exceptioned` and rethrow are defined. `connect`, `reset`, `prepare` and the libpq calls they depend on are not in the repository, so the recovery after an exception (the `queryAfterDisconnect` test) has no code to model.

## What is left

Each of these would need a run, and the project already has the 12 it can hold:
1. A release-build run of `HttpConnection` (`DebugBuild = FALSE`), where unsupported codings pass through silently. The model already supports it through the `DebugBuild` constant.
2. A composition in which the HTTP body stream reads from a `Buffer`-backed BufferedStream. BufferedStream is not in the repository, so its read would be modelled from spec.md 4.4.
