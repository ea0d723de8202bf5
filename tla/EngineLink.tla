----------------------------- MODULE EngineLink -----------------------------
(***************************************************************************)
(* engine-connection.js over the socket transport of transport.js: framed   *)
(* messages out through a chain of sends, a read loop that delivers the     *)
(* messages of each chunk, and a close that must not pull the descriptor    *)
(* from under a pending recv() or send().                                   *)
(*                                                                          *)
(* The socket itself (AsyncSocket) and the peer are outside the repository: *)
(* one recv and one send may be pending, a second send throws; after a      *)
(* shutdown, or once the peer is gone, both complete, unless the descriptor *)
(* was closed under them.                                                   *)
(***************************************************************************)
EXTENDS Naturals, FiniteSets

CONSTANTS
  MaxFrames,        \* bound on the messages sent
  MaxChunks,        \* bound on the chunks received
  MaxPerChunk,      \* bound on the messages of a chunk
  HandlerMayClose   \* may a message handler call close()?

ASSUME MaxFramesAssumption == MaxFrames \in Nat
ASSUME MaxChunksAssumption == MaxChunks \in Nat
ASSUME MaxPerChunkAssumption == MaxPerChunk \in Nat
ASSUME HandlerAssumption == HandlerMayClose \in BOOLEAN

Frames == 1 .. MaxFrames

VARIABLES
  taken,       \* sends accepted: links 1..taken are in the chain #sendq
  fate,        \* the promise of each send
  connected,   \* #transport is set
  closed,      \* #closed of the connection
  closes,      \* times onclose was called
  fd,          \* #sock is set, the descriptor is open
  reading, writing, closing,   \* the flags of SocketTransport
  reader,      \* the read loop: pending in recv, handling a chunk, or over
  left,        \* messages of the current chunk still to deliver
  inKernel,    \* frames whose send() is pending in the socket
  received,    \* chunks received so far
  gone         \* the peer has closed its end, or is dead

conn   == <<connected, closed, closes>>
sends  == <<taken, fate, writing, inKernel>>
socket == <<fd, closing>>
input  == <<reading, reader, left, received>>
vars == <<conn, sends, socket, input, gone>>

TypeOK ==
  /\ taken \in 0 .. MaxFrames
  /\ fate \in [Frames -> {"none", "queued", "writing", "sent", "failed"}]
  /\ connected \in BOOLEAN /\ closed \in BOOLEAN /\ closes \in Nat
  /\ fd \in BOOLEAN /\ reading \in BOOLEAN /\ closing \in BOOLEAN
  /\ writing \in Nat
  /\ reader \in {"recv", "chunk", "over"}
  /\ left \in 0 .. MaxPerChunk
  /\ inKernel \subseteq Frames
  /\ received \in 0 .. MaxChunks
  /\ gone \in BOOLEAN

\* A connected transport; the constructor has started the read loop, which is
\* pending in its first recv().
Init ==
  /\ taken = 0 /\ fate = [n \in Frames |-> "none"]
  /\ connected = TRUE /\ closed = FALSE /\ closes = 0
  /\ fd = TRUE /\ reading = TRUE /\ writing = 0 /\ closing = FALSE
  /\ reader = "recv" /\ left = 0 /\ inKernel = {}
  /\ received = 0 /\ gone = FALSE

-----------------------------------------------------------------------------
(* Closing                                                                  *)

\* Wrong: only a pending recv() is waited for.
ReleaseUnlessReading(stillReading, stillWriting) == fd' = (fd /\ stillReading)

\* #release(): the descriptor goes once nothing is pending on it.
Release(stillReading, stillWriting) ==
  fd' = (fd /\ (stillReading \/ stillWriting > 0))

\* close() of the connection: once; shut the transport down, tell the owner.
Close(stillReading) ==
  \/ /\ closed
     /\ IF closing THEN Release(stillReading, writing) ELSE UNCHANGED fd
     /\ UNCHANGED <<conn, closing>>
  \/ /\ ~closed
     /\ closed' = TRUE /\ connected' = FALSE /\ closing' = TRUE
     /\ closes' = closes + 1
     /\ Release(stillReading, writing)

\* The owner closes the connection between two events.
UserClose ==
  /\ ~closed /\ left = 0
  /\ Close(reading)
  /\ UNCHANGED <<sends, input, gone>>

-----------------------------------------------------------------------------
(* Sending                                                                  *)

\* sendMessage(): throws when not connected; otherwise one more link of the
\* chain.
SendMessage ==
  /\ connected
  /\ taken + 1 \in Frames
  /\ taken' = taken + 1
  /\ fate' = [fate EXCEPT ![taken + 1] = "queued"]
  /\ UNCHANGED <<conn, writing, inKernel, socket, input, gone>>

\* Wrong: a link does not wait for the one before it.
Unchained(n) == fate[n] = "queued"
NextLink(n) == fate[n] = "queued" /\ \A m \in Frames : m < n => fate[m] \in {"sent", "failed"}

\* A link of the chain runs once the one before it has settled: it fails when
\* the connection is closed by now, else the frame goes to the socket.  There
\* writing is counted up before the send, which throws if one is pending.
RunLink(n) ==
  /\ NextLink(n)
  /\ \/ /\ ~connected
        /\ fate' = [fate EXCEPT ![n] = "failed"]
        /\ UNCHANGED <<writing, inKernel>>
     \/ /\ connected /\ inKernel = {}
        /\ writing' = writing + 1
        /\ inKernel' = {n}
        /\ fate' = [fate EXCEPT ![n] = "writing"]
     \/ /\ connected /\ inKernel # {}
        /\ writing' = writing + 1
        /\ fate' = [fate EXCEPT ![n] = "failed"]
        /\ UNCHANGED inKernel
  /\ UNCHANGED <<taken, conn, socket, input, gone>>

\* Wrong: the completion of a send does not look at closing.
DoneOnly == UNCHANGED fd
DoneReleases == IF closing THEN Release(reading, writing') ELSE UNCHANGED fd

\* The pending send completes; done() counts it down.
WriteDone(n) ==
  /\ fd /\ n \in inKernel
  /\ inKernel' = inKernel \ {n}
  /\ \E how \in {"sent", "failed"} : fate' = [fate EXCEPT ![n] = how]
  /\ writing' = writing - 1
  /\ DoneReleases
  /\ UNCHANGED <<taken, conn, closing, input, gone>>

-----------------------------------------------------------------------------
(* Receiving                                                                *)

\* The end of the iterator, of the for-await and of #readLoop(): both finally
\* clauses run, the second one closes the connection.
LoopEnds ==
  /\ reading' = FALSE /\ reader' = "over" /\ left' = 0
  /\ Close(FALSE)

\* recv() returns data: the chunk is handed on, unless the transport is closing.
RecvData ==
  /\ fd /\ reader = "recv" /\ received < MaxChunks
  /\ received' = received + 1
  /\ \/ /\ ~closing
        /\ reading' = FALSE /\ reader' = "chunk"
        /\ left' \in 0 .. MaxPerChunk
        /\ UNCHANGED <<conn, socket>>
     \/ /\ closing
        /\ LoopEnds
  /\ UNCHANGED <<sends, gone>>

\* recv() returns nothing, or fails: the peer is gone or we have shut down.
RecvEnd ==
  /\ fd /\ reader = "recv" /\ (gone \/ closing)
  /\ LoopEnds
  /\ UNCHANGED <<sends, received, gone>>

\* Wrong: push() looks for one message more than it has.
AlwaysMore == TRUE
More == left > 0

\* One message of the chunk is dispatched; its handler may close the connection.
\* The rest of the chunk is dispatched all the same.
Deliver ==
  /\ reader = "chunk" /\ More
  /\ left' = left - 1
  /\ \/ UNCHANGED <<conn, socket>>
     \/ HandlerMayClose /\ ~closed /\ Close(reading)
  /\ UNCHANGED <<sends, reading, reader, received, gone>>

\* A byte that cannot start a frame, or a handler that throws: so does push(),
\* and the loop is over.
BadFrame ==
  /\ reader = "chunk" /\ left > 0
  /\ LoopEnds
  /\ UNCHANGED <<sends, received, gone>>

\* The chunk is done: back to recv(), which throws when #sock is gone.
NextRecv ==
  /\ reader = "chunk" /\ left = 0
  /\ \/ /\ fd
        /\ reading' = TRUE /\ reader' = "recv"
        /\ UNCHANGED <<conn, socket, left>>
     \/ /\ ~fd
        /\ LoopEnds
  /\ UNCHANGED <<sends, received, gone>>

PeerGone == ~gone /\ gone' = TRUE /\ UNCHANGED <<conn, sends, socket, input>>

-----------------------------------------------------------------------------
Next ==
  \/ UserClose \/ SendMessage
  \/ \E n \in Frames : RunLink(n) \/ WriteDone(n)
  \/ RecvData \/ RecvEnd \/ Deliver \/ BadFrame \/ NextRecv
  \/ PeerGone

Spec == Init /\ [][Next]_vars

\* The event loop runs ready links and the read loop; a pending send completes,
\* because the engine reads its socket, or is gone, or we shut down.
Fairness ==
  /\ \A n \in Frames : WF_vars(RunLink(n)) /\ WF_vars(WriteDone(n))
  /\ WF_vars(RecvEnd) /\ WF_vars(Deliver) /\ WF_vars(NextRecv)

FairSpec == Spec /\ Fairness

-----------------------------------------------------------------------------
(* Properties                                                               *)

\* What is pending on the descriptor is known.  "transports may permit only one
\* in-flight send" (engine-connection.js 75-77): the chain never starts a send while
\* one is pending, and the transport's count of pending sends is the truth, so that
\* close() can wait for them; for "closing the fd under a pending recv()/send()
\* leaves its poll handler behind and the event loop spins on the dead fd"
\* (transport.js 122-124): a closed descriptor has nothing pending on it.  Nor is one
\* kept for nothing: once the connection is closed something pending has yet to give it
\* back; and until then somebody reads, so that the end of the peer is noticed.
PendingIsKnown ==
  /\ writing = Cardinality(inKernel) /\ writing <= 1
  /\ ~fd => reader # "recv" /\ inKernel = {}
  /\ closed /\ fd => reader = "recv" \/ inKernel # {}
  /\ ~closed => reader # "over"

\* Why it holds: the flags mirror what is pending, the close flags move
\* together, and a send is started only when all earlier ones are concluded.
IInv ==
  /\ TypeOK
  /\ reading <=> reader = "recv"
  /\ (connected <=> ~closed) /\ (closing <=> closed) /\ (~fd => closing)
  /\ closes = IF closed THEN 1 ELSE 0
  /\ \A n \in Frames : n \in inKernel <=> fate[n] = "writing"
  /\ \A n \in Frames : fate[n] = "none" <=> n > taken
  /\ \A n \in Frames : fate[n] \in {"writing", "sent", "failed"} =>
        \A m \in Frames : m < n => fate[m] \in {"sent", "failed"}
  /\ writing = IF inKernel = {} THEN 0 ELSE 1
  /\ ~fd => ~reading /\ writing = 0
  /\ closed /\ fd => reading \/ writing > 0
  /\ ~closed => reader # "over"

\* A connection implements the abstract channel: sends conclude in the order they
\* were made, each once; none is taken after the close, of which the owner is told
\* once, however the read loop, the handlers and the owner race to close it
\* (engine-connection.js 69-101).
Channel == INSTANCE FifoChannel WITH
  fate <- [n \in Frames |-> IF fate[n] = "writing" THEN "queued" ELSE fate[n]],
  told <- closes
ChannelSpec == Channel!Spec

\* A link comes to its end: every send that was taken is concluded, across the
\* close; when the engine goes away the owner is told; and a closed connection
\* gives its descriptor back, although it may have to wait for a recv and a send
\* to come back first (engine-connection.js 62-73, transport.js 113-143).
LinkEnds == Channel!Live /\ (gone ~> closed) /\ (closed ~> ~fd)
=============================================================================
