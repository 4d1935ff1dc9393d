------------------------- MODULE HttpConnectionLife -------------------------
(***************************************************************************)
(* The life of an HTTP::Connection around the body framing of             *)
(* HttpConnection: the constructor (src/mordor/common/http/connection.cpp *)
(* :9-29), which wraps a transport that lacks findDelimited in a          *)
(* BufferedStream; the caller's use of the body stream while the          *)
(* Connection lives; and the destructor (31-36).  What is added is        *)
(* ownership: which of the transport and the BufferedStream each party    *)
(* deletes, and when.                                                      *)
(*                                                                         *)
(* The caller passes own = TRUE to hand the transport over, or keeps it    *)
(* and deletes it itself once the Connection is gone.  A FilterStream,     *)
(* BufferedStream included, deletes its parent when it is deleted iff its  *)
(* own bit is set (spec.md 4.3; FilterStream is not in the repository).   *)
(* `new BufferedStream` either succeeds or throws bad_alloc before any     *)
(* object is built.                                                        *)
(***************************************************************************)
EXTENDS HttpConnection

Objects == {"transport", "buffered"}

VARIABLES
  own,         \* the constructor's own argument
  findDelim,   \* transport->supportsFindDelimited()
  life,        \* the Connection: "unbuilt" | "live" | "threw" | "destroyed"
  mStream,     \* m_stream: "transport" or "buffered"
  mOwn,        \* m_own
  bufOwn,      \* the BufferedStream's own bit over the transport
  allocated,   \* the objects that exist or existed
  deleted,     \* deleted[o]: how many times o was deleted
  callerOwes   \* the caller kept the transport and has not deleted it yet

lifeVars == <<own, findDelim, life, mStream, mOwn, bufOwn, allocated, deleted,
              callerOwes>>
allVars == <<vars, lifeVars>>

\* What deleting o destroys: o, and the transport too when o is a
\* BufferedStream that owns it (~FilterStream, spec.md 4.3)
Destroys(o) == {o} \cup (IF o = "buffered" /\ bufOwn THEN {"transport"} ELSE {})

Delete(o) ==
  deleted' = [q \in Objects |-> deleted[q] + (IF q \in Destroys(o) THEN 1 ELSE 0)]

LifeInit ==
  /\ Init
  /\ own \in BOOLEAN /\ findDelim \in BOOLEAN
  /\ life = "unbuilt"
  /\ mStream = "transport" /\ mOwn = FALSE /\ bufOwn = FALSE
  /\ allocated = {"transport"}
  /\ deleted = [o \in Objects |-> 0]
  /\ callerOwes = ~own

\* Seeded bug: the catch deletes the transport whether or not it was given
CtorCatchAlwaysDeletes == Delete("transport")

\* 22-27: catch (...) { if (own) delete stream; throw; }
CtorCatch == IF own THEN Delete("transport") ELSE UNCHANGED deleted

\* Seeded bug: m_own = true is missing, m_own stays the caller's own
WrapKeepsOwn ==
  /\ mStream' = "buffered" /\ bufOwn' = own /\ mOwn' = own

\* 18-21: the BufferedStream takes the transport with the caller's own;
\* the Connection's m_stream becomes it, and m_own = true
Wrap ==
  /\ mStream' = "buffered" /\ bufOwn' = own /\ mOwn' = TRUE

\* Connection(stream, own) (9-29): m_stream(stream), m_own(own); wrap a
\* transport without findDelimited; if new BufferedStream throws, the
\* catch runs and the exception leaves the constructor
Construct ==
  /\ life = "unbuilt"
  /\ IF findDelim
     THEN /\ mOwn' = own /\ life' = "live"
          /\ UNCHANGED <<mStream, bufOwn, allocated, deleted>>
     ELSE \/ /\ allocated' = allocated \cup {"buffered"}
             /\ Wrap /\ life' = "live"
             /\ UNCHANGED deleted
          \/ /\ CtorCatch /\ life' = "threw"
             /\ UNCHANGED <<mStream, mOwn, bufOwn, allocated>>
  /\ UNCHANGED <<own, findDelim, callerOwes>>
  /\ UNCHANGED vars


\* ~Connection (31-36): if (m_own) delete m_stream;
DtorDelete == IF mOwn THEN Delete(mStream) ELSE UNCHANGED deleted

\* The Connection's owner destroys it once the body stream is done with:
\* never read, closed, finished (onDone) or failed
Destroy ==
  /\ life = "live"
  /\ phase # "open" \/ bodyClosed \/ done > 0
  /\ DtorDelete
  /\ life' = "destroyed"
  /\ UNCHANGED <<own, findDelim, mStream, mOwn, bufOwn, allocated, callerOwes>>
  /\ UNCHANGED vars

\* A caller that kept the transport deletes it when the Connection is gone
CallerDelete ==
  /\ callerOwes /\ life \in {"threw", "destroyed"}
  /\ Delete("transport")
  /\ callerOwes' = FALSE
  /\ UNCHANGED <<own, findDelim, life, mStream, mOwn, bufOwn, allocated>>
  /\ UNCHANGED vars

\* The body-framing steps happen only on a live Connection
LiveGetStream == life = "live" /\ GetStream /\ UNCHANGED lifeVars
LiveReadBody  == life = "live" /\ ReadBody /\ UNCHANGED lifeVars
LiveCloseBody == life = "live" /\ CloseBody /\ UNCHANGED lifeVars

LifeNext ==
  \/ Construct \/ Destroy \/ CallerDelete
  \/ LiveGetStream \/ LiveReadBody \/ LiveCloseBody

\* Besides the caller's read loop, the objects' owners release them when
\* they go out of scope: the Connection's owner and a caller that kept the
\* transport both eventually delete what they hold
LifeSpec ==
  /\ LifeInit /\ [][LifeNext]_allVars
  /\ WF_allVars(Construct) /\ WF_allVars(LiveGetStream) /\ WF_allVars(LiveReadBody)
  /\ WF_allVars(Destroy) /\ WF_allVars(CallerDelete)

-----------------------------------------------------------------------------
(* Properties                                                              *)

\* The objects the live Connection reaches through m_stream
Reachable == {mStream} \cup (IF mStream = "buffered" THEN {"transport"} ELSE {})

\* Ownership of the transport and the BufferedStream is never shared: no
\* object is deleted twice, none while the live Connection still reaches it
\* (constructor, catch and destructor, connection.cpp:9-36), and a
\* transport the caller kept is not deleted behind its back.
OwnershipSafe ==
  /\ \A o \in Objects : deleted[o] <= 1
  /\ life = "live" => \A o \in Reachable : deleted[o] = 0
  /\ callerOwes => deleted["transport"] = 0

\* Every object allocated is eventually deleted, whichever of own and
\* supportsFindDelimited the Connection was built with and whether the
\* constructor threw: neither the BufferedStream nor the transport leaks.
NoLeak == <>[](\A o \in allocated : deleted[o] > 0)
=============================================================================
