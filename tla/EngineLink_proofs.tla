------------------------- MODULE EngineLink_proofs -------------------------
(***************************************************************************)
(* Theorems about EngineLink, for any number of messages and chunks.        *)
(***************************************************************************)
EXTENDS EngineLink, FiniteSetTheorems, TLAPS

USE MaxFramesAssumption, MaxChunksAssumption, MaxPerChunkAssumption, HandlerAssumption

\* What every way to close does: nothing the second time, all of it the first.
LEMMA CloseEffect ==
  ASSUME IInv, NEW still \in BOOLEAN, Close(still)
  PROVE  /\ closed' = TRUE /\ connected' = FALSE /\ closing' = TRUE /\ closes' = 1
         /\ fd' \in BOOLEAN /\ (fd' <=> fd /\ (still \/ writing > 0))
<1>1. CASE closed
  <2>1. closed = TRUE /\ connected = FALSE /\ closing = TRUE /\ closes = 1
    BY <1>1 DEF IInv, TypeOK
  <2>2. UNCHANGED <<closed, connected, closing, closes>> /\ Release(still, writing)
    BY <1>1, <2>1 DEF Close, conn
  <2>3. QED
    BY <2>1, <2>2 DEF Release
<1>2. CASE ~closed
  <2>1. closes = 0
    BY <1>2 DEF IInv
  <2>2. /\ closed' = TRUE /\ connected' = FALSE /\ closing' = TRUE /\ closes' = closes + 1
        /\ Release(still, writing)
    BY <1>2 DEF Close
  <2>3. closes' = 1
    BY <2>1, <2>2
  <2>4. fd' \in BOOLEAN /\ (fd' <=> fd /\ (still \/ writing > 0))
    BY <2>2 DEF Release
  <2>5. QED
    BY <2>2, <2>3, <2>4
<1>3. QED
  BY <1>1, <1>2

\* The parts of the invariant about sends, when no send is touched.
SendPart ==
  /\ \A n \in Frames : n \in inKernel <=> fate[n] = "writing"
  /\ \A n \in Frames : fate[n] = "none" <=> n > taken
  /\ \A n \in Frames : fate[n] \in {"writing", "sent", "failed"} =>
        \A m \in Frames : m < n => fate[m] \in {"sent", "failed"}
  /\ writing = IF inKernel = {} THEN 0 ELSE 1

LEMMA SendsUntouched == IInv /\ UNCHANGED sends => SendPart'
BY DEF IInv, SendPart, sends

LEMMA LoopEndsKeeps ==
  ASSUME IInv, LoopEnds, UNCHANGED sends, received' \in 0 .. MaxChunks, gone' \in BOOLEAN
  PROVE  IInv'
<1>1. /\ closed' = TRUE /\ connected' = FALSE /\ closing' = TRUE /\ closes' = 1
      /\ fd' \in BOOLEAN /\ (fd' <=> fd /\ writing > 0)
  BY CloseEffect DEF LoopEnds
<1>2. reading' = FALSE /\ reader' = "over" /\ left' = 0
  BY DEF LoopEnds
<1>3. TypeOK'
  <2>1. left' \in 0 .. MaxPerChunk
    BY <1>2
  <2>2. closes' \in Nat
    BY <1>1
  <2>3. QED
    BY <1>1, <1>2, <2>1, <2>2 DEF IInv, TypeOK, sends
<1>4. QED
  BY <1>1, <1>2, <1>3, SendsUntouched DEF IInv, SendPart, sends, TypeOK

LEMMA StepKeepsIInv == IInv /\ [Next]_vars => IInv'
<1> SUFFICES ASSUME IInv, [Next]_vars PROVE IInv'
  OBVIOUS
<1>1. CASE UserClose
  <2>1. /\ closed' = TRUE /\ connected' = FALSE /\ closing' = TRUE /\ closes' = 1
        /\ fd' \in BOOLEAN /\ (fd' <=> fd /\ (reading \/ writing > 0))
    BY <1>1, CloseEffect DEF UserClose, IInv, TypeOK
  <2>2. UNCHANGED <<sends, input, gone>>
    BY <1>1 DEF UserClose
  <2>3. TypeOK'
    BY <2>1, <2>2 DEF IInv, TypeOK, sends, input
  <2>4. QED
    BY <2>1, <2>2, <2>3, SendsUntouched DEF IInv, SendPart, sends, input, TypeOK
<1>2. CASE SendMessage
  <2>1. TypeOK'
    BY <1>2 DEF SendMessage, IInv, TypeOK, Frames, conn, socket, input
  <2>2. \A n \in Frames : fate'[n] = IF n = taken + 1 THEN "queued" ELSE fate[n]
    BY <1>2 DEF SendMessage, IInv, TypeOK
  <2>3. QED
    BY <1>2, <2>1, <2>2 DEF SendMessage, IInv, TypeOK, Frames, conn, socket, input
<1>3. ASSUME NEW n \in Frames, RunLink(n) PROVE IInv'
  <2>1. UNCHANGED <<taken, conn, socket, input, gone>>
    BY <1>3 DEF RunLink
  <2>2. fate[n] = "queued" /\ \A m \in Frames : m < n => fate[m] \in {"sent", "failed"}
    BY <1>3 DEF RunLink, NextLink
  <2>3. inKernel = {}
    <3> SUFFICES ASSUME NEW k \in inKernel PROVE FALSE
      OBVIOUS
    <3>1. k \in Frames /\ fate[k] = "writing"
      BY DEF IInv, TypeOK
    <3>2. k \in Nat /\ n \in Nat
      BY <3>1 DEF Frames
    <3>3. CASE k < n
      BY <2>2, <3>1, <3>3
    <3>4. CASE n < k
      BY <2>2, <3>1, <3>4 DEF IInv
    <3>5. CASE k = n
      BY <2>2, <3>1, <3>5
    <3>6. QED
      BY <3>2, <3>3, <3>4, <3>5
  <2>4. CASE ~connected
    <3>1. fate' = [fate EXCEPT ![n] = "failed"] /\ UNCHANGED <<writing, inKernel>>
      BY <1>3, <2>4 DEF RunLink
    <3>2. \A m \in Frames : fate'[m] = IF m = n THEN "failed" ELSE fate[m]
      BY <3>1 DEF IInv, TypeOK
    <3>3. TypeOK'
      BY <2>1, <3>1 DEF IInv, TypeOK, conn, socket, input
    <3>4. QED
      BY <2>1, <2>2, <3>1, <3>2, <3>3 DEF IInv, conn, socket, input
  <2>5. CASE connected
    <3>1. writing' = writing + 1 /\ inKernel' = {n} /\ fate' = [fate EXCEPT ![n] = "writing"]
      BY <1>3, <2>3, <2>5 DEF RunLink
    <3>2. \A m \in Frames : fate'[m] = IF m = n THEN "writing" ELSE fate[m]
      BY <3>1 DEF IInv, TypeOK
    <3>3. TypeOK'
      BY <2>1, <3>1 DEF IInv, TypeOK, conn, socket, input
    <3>4. fd /\ writing = 0
      BY <2>3, <2>5 DEF IInv, TypeOK
    <3>5. QED
      BY <2>1, <2>2, <2>3, <3>1, <3>2, <3>3, <3>4 DEF IInv, conn, socket, input
  <2>6. QED
    BY <2>4, <2>5 DEF IInv, TypeOK
<1>4. ASSUME NEW n \in Frames, WriteDone(n) PROVE IInv'
  <2>1. UNCHANGED <<taken, conn, closing, input, gone>> /\ n \in inKernel /\ fd
    BY <1>4 DEF WriteDone
  <2>2. PICK how \in {"sent", "failed"} : fate' = [fate EXCEPT ![n] = how]
    BY <1>4 DEF WriteDone
  <2>3. inKernel = {n} /\ writing = 1
    <3>1. \A k \in inKernel : k \in Frames /\ fate[k] = "writing"
      BY DEF IInv, TypeOK
    <3>2. \A k \in inKernel : ~(k < n) /\ ~(n < k)
      BY <2>1, <3>1 DEF IInv
    <3>3. \A k \in inKernel : k = n
      BY <3>1, <3>2 DEF Frames
    <3>4. QED
      BY <2>1, <3>3 DEF IInv
  <2>4. inKernel' = {} /\ writing' = 0
    BY <1>4, <2>3 DEF WriteDone
  <2>5. \A m \in Frames : fate'[m] = IF m = n THEN how ELSE fate[m]
    BY <2>2 DEF IInv, TypeOK
  <2>6. fd' \in BOOLEAN /\ (~fd' => closing /\ ~reading) /\ (closed /\ fd' => reading)
    <3>1. CASE closing
      BY <1>4, <2>1, <2>4, <3>1 DEF WriteDone, DoneReleases, Release, IInv, TypeOK
    <3>2. CASE ~closing
      BY <1>4, <2>1, <3>2 DEF WriteDone, DoneReleases, IInv
    <3>3. QED
      BY <3>1, <3>2
  <2>7. TypeOK'
    BY <2>1, <2>2, <2>4, <2>6 DEF IInv, TypeOK, conn, input
  <2>8. fate[n] = "writing"
    BY <2>1 DEF IInv, TypeOK
  <2>9. QED
    BY <2>1, <2>3, <2>4, <2>5, <2>6, <2>7, <2>8 DEF IInv, conn, input
<1>5. CASE RecvData
  <2>1. CASE closing
    BY <1>5, <2>1, LoopEndsKeeps DEF RecvData, IInv, TypeOK
  <2>2. CASE ~closing
    <3>1. UNCHANGED <<sends, gone, conn, socket>> /\ reading' = FALSE /\ reader' = "chunk"
          /\ left' \in 0 .. MaxPerChunk /\ received' = received + 1 /\ received < MaxChunks
      BY <1>5, <2>2 DEF RecvData
    <3>2. received' \in 0 .. MaxChunks
      BY <3>1 DEF IInv, TypeOK
    <3>3. TypeOK'
      BY <3>1, <3>2 DEF IInv, TypeOK, sends, conn, socket
    <3>4. QED
      BY <2>2, <3>1, <3>3, SendsUntouched DEF IInv, SendPart, sends, conn, socket
  <2>3. QED
    BY <2>1, <2>2
<1>6. CASE RecvEnd \/ BadFrame
  BY <1>6, LoopEndsKeeps DEF RecvEnd, BadFrame, IInv, TypeOK
<1>7. CASE Deliver
  <2>1. UNCHANGED <<sends, reading, reader, received, gone>> /\ left' = left - 1 /\ left > 0
        /\ reader = "chunk"
    BY <1>7 DEF Deliver, More
  <2>2. \/ UNCHANGED <<conn, socket>>
        \/ /\ closed' = TRUE /\ connected' = FALSE /\ closing' = TRUE /\ closes' = 1
           /\ fd' \in BOOLEAN /\ (fd' <=> fd /\ (reading \/ writing > 0))
    BY <1>7, CloseEffect DEF Deliver, IInv, TypeOK
  <2>3. TypeOK'
    <3>1. left' \in 0 .. MaxPerChunk
      BY <2>1 DEF IInv, TypeOK
    <3>2. closes' \in Nat /\ closed' \in BOOLEAN /\ connected' \in BOOLEAN
          /\ closing' \in BOOLEAN /\ fd' \in BOOLEAN
      <4>1. CASE UNCHANGED <<conn, socket>>
        BY <4>1 DEF IInv, TypeOK, conn, socket
      <4>2. CASE ~UNCHANGED <<conn, socket>>
        <5>1. closes' = 1 /\ 1 \in Nat
          BY <2>2, <4>2
        <5>2. QED
          BY <2>2, <4>2, <5>1, Zenon
      <4>3. QED
        BY <4>1, <4>2
    <3>3. QED
      BY <2>1, <3>1, <3>2 DEF IInv, TypeOK, sends
  <2>4. QED
    BY <2>1, <2>2, <2>3, SendsUntouched DEF IInv, SendPart, sends, conn, socket, TypeOK
<1>8. CASE NextRecv
  <2>1. CASE fd
    <3>1. UNCHANGED <<sends, received, gone, conn, socket, left>> /\ reading' = TRUE /\ reader' = "recv"
      BY <1>8, <2>1 DEF NextRecv
    <3>2. TypeOK'
      BY <3>1 DEF IInv, TypeOK, sends, conn, socket
    <3>3. QED
      BY <2>1, <3>1, <3>2, SendsUntouched DEF IInv, SendPart, sends, conn, socket
  <2>2. CASE ~fd
    BY <1>8, <2>2, LoopEndsKeeps DEF NextRecv, IInv, TypeOK
  <2>3. QED
    BY <2>1, <2>2
<1>9. CASE PeerGone \/ UNCHANGED vars
  <2>1. UNCHANGED <<conn, sends, socket, input>> /\ gone' \in BOOLEAN
    BY <1>9 DEF PeerGone, vars, IInv, TypeOK
  <2>2. TypeOK'
    BY <2>1 DEF conn, sends, socket, input, IInv, TypeOK
  <2>3. QED
    BY <2>1, <2>2, SendsUntouched DEF conn, sends, socket, input, IInv, SendPart
<1>10. QED
  BY <1>1, <1>2, <1>3, <1>4, <1>5, <1>6, <1>7, <1>8, <1>9 DEF Next

\* The inductive invariant as a theorem.
THEOREM Invariance == Spec => []IInv
<1>1. Init => IInv
  <2> SUFFICES ASSUME Init PROVE IInv
    OBVIOUS
  <2>1. TypeOK
    <3>1. taken \in 0 .. MaxFrames /\ left \in 0 .. MaxPerChunk /\ received \in 0 .. MaxChunks
      BY DEF Init
    <3>2. fate \in [Frames -> {"none", "queued", "writing", "sent", "failed"}]
      BY DEF Init
    <3>3. closes \in Nat /\ writing \in Nat /\ inKernel \subseteq Frames
      BY DEF Init
    <3>4. QED
      BY <3>1, <3>2, <3>3 DEF Init, TypeOK
  <2>2. \A n \in Frames : fate[n] = "none" /\ n > 0
    BY DEF Init, Frames
  <2>3. QED
    BY <2>1, <2>2 DEF Init, IInv
<1>2. QED
  BY <1>1, StepKeepsIInv, PTL DEF Spec

\* At most one send is pending in the socket, the transport counts it
\* (engine-connection.js 75-91, transport.js 109-120), the descriptor is never closed
\* under a pending recv() or send(), nor kept for nothing once the connection is closed
\* (transport.js 122-143), and an open connection has its reader.
THEOREM PendingCorrect == Spec => []PendingIsKnown
<1>1. IInv => PendingIsKnown
  <2> SUFFICES ASSUME IInv PROVE PendingIsKnown
    OBVIOUS
  <2>1. ~fd => reader # "recv" /\ inKernel = {}
    BY DEF IInv
  <2>2. CASE inKernel = {}
    BY <2>1, <2>2, FS_EmptySet DEF IInv, PendingIsKnown
  <2>3. CASE inKernel # {}
    <3>1. PICK n \in inKernel : TRUE
      BY <2>3
    <3>2. \A k \in inKernel : k \in Frames /\ fate[k] = "writing"
      BY DEF IInv, TypeOK
    <3>3. \A k \in inKernel : ~(k < n) /\ ~(n < k)
      BY <3>1, <3>2 DEF IInv
    <3>4. inKernel = {n}
      BY <3>1, <3>2, <3>3 DEF Frames
    <3>5. Cardinality(inKernel) = 1
      BY <3>4, FS_Singleton
    <3>6. QED
      BY <2>1, <2>3, <3>5 DEF IInv, PendingIsKnown
  <2>4. QED
    BY <2>2, <2>3
<1>2. QED
  BY <1>1, Invariance, PTL

\* Every variable keeps its type, the flags and counts of both classes included.
THEOREM TypeCorrect == Spec => []TypeOK
<1>1. IInv => TypeOK
  BY DEF IInv
<1>2. QED
  BY <1>1, Invariance, PTL

-----------------------------------------------------------------------------
(* The refinement: a frame that is being written is still queued for whoever *)
(* sent it.                                                                  *)

Seen(f) == [n \in Frames |-> IF f[n] = "writing" THEN "queued" ELSE f[n]]

\* What the change of one frame's fate is, seen from outside.
LEMMA SeenOne ==
  ASSUME TypeOK, NEW n \in Frames,
         NEW to \in {"queued", "writing", "sent", "failed"},
         fate' = [fate EXCEPT ![n] = to]
  PROVE  Seen(fate)' = [Seen(fate) EXCEPT ![n] = IF to = "writing" THEN "queued" ELSE to]
<1>1. \A m \in Frames : fate'[m] = IF m = n THEN to ELSE fate[m]
  BY DEF TypeOK
<1>2. QED
  BY <1>1 DEF Seen

\* Closing is going down and telling so, once; to close again changes nothing.
LEMMA CloseIsGoDown ==
  ASSUME IInv, NEW still \in BOOLEAN, Close(still), fate' = fate
  PROVE  Channel!GoDown \/ UNCHANGED <<Seen(fate), closes>>
<1>1. Seen(fate)' = Seen(fate)
  BY DEF Seen
<1>2. closes' = 1
  BY CloseEffect
<1>3. closes = 0 \/ closes = 1
  BY DEF IInv
<1>4. QED
  BY <1>1, <1>2, <1>3 DEF Channel!GoDown, Seen

\* Sends conclude in the order they were made, each once, none is taken after the
\* close, and the owner is told of it once (engine-connection.js 69-101): the
\* connection implements the abstract channel.
THEOREM Refinement == Spec => ChannelSpec
<1>1. Init => Channel!Init
  BY DEF Init, Channel!Init, Frames, Channel!Frames
<1>2. IInv /\ [Next]_vars => [Channel!Next]_<<Seen(fate), closes>>
  <2> SUFFICES ASSUME IInv, [Next]_vars
               PROVE  Channel!Next \/ UNCHANGED <<Seen(fate), closes>>
    OBVIOUS
  <2> USE DEF Frames, Channel!Frames
  <2>0. TypeOK /\ \A n \in Frames : Seen(fate)[n] = IF fate[n] = "writing" THEN "queued" ELSE fate[n]
    BY DEF IInv, Seen
  <2>1. ASSUME UNCHANGED <<fate, closes>> PROVE UNCHANGED <<Seen(fate), closes>>
    BY <2>1 DEF Seen
  <2>2. ASSUME NEW still \in BOOLEAN, Close(still), UNCHANGED fate
        PROVE  Channel!Next \/ UNCHANGED <<Seen(fate), closes>>
    BY <2>2, CloseIsGoDown DEF Channel!Next
  <2>3. CASE SendMessage
    <3>1. PICK n \in Frames : n = taken + 1
      BY <2>3 DEF SendMessage
    <3>2. fate' = [fate EXCEPT ![n] = "queued"] /\ closes' = closes
      BY <2>3, <3>1 DEF SendMessage, conn
    <3>3. closes = 0 /\ fate[n] = "none" /\ \A m \in Frames : m < n => fate[m] # "none"
      BY <2>3, <3>1 DEF SendMessage, IInv, TypeOK
    <3>4. Seen(fate)' = [Seen(fate) EXCEPT ![n] = "queued"]
      BY <2>0, <3>2, SeenOne
    <3>5. Channel!Take(n)
      BY <2>0, <3>2, <3>3, <3>4 DEF Channel!Take, Seen
    <3>6. QED
      BY <3>5 DEF Channel!Next
  <2>4. ASSUME NEW n \in Frames, RunLink(n) \/ WriteDone(n)
        PROVE  Channel!Next \/ UNCHANGED <<Seen(fate), closes>>
    <3>1. closes' = closes
      BY <2>4 DEF RunLink, WriteDone, conn
    <3>2. fate[n] \in {"queued", "writing"} /\ \A m \in Frames : m < n => fate[m] \in {"sent", "failed"}
      BY <2>0, <2>4 DEF RunLink, NextLink, WriteDone, IInv
    <3>3. CASE fate' = [fate EXCEPT ![n] = "writing"]
      BY <2>0, <3>1, <3>2, <3>3, SeenOne DEF Seen
    <3>4. ASSUME NEW how \in {"sent", "failed"}, fate' = [fate EXCEPT ![n] = how]
          PROVE  Channel!Next
      <4>1. Seen(fate)' = [Seen(fate) EXCEPT ![n] = how]
        BY <2>0, <3>4, SeenOne
      <4>2. Channel!Conclude(n, how)
        BY <2>0, <3>1, <3>2, <4>1 DEF Channel!Conclude, Seen
      <4>3. QED
        BY <3>4, <4>2 DEF Channel!Next
    <3>5. \E how \in {"writing", "sent", "failed"} : fate' = [fate EXCEPT ![n] = how]
      BY <2>4 DEF RunLink, WriteDone
    <3>6. QED
      BY <3>3, <3>4, <3>5
  <2>5. CASE UserClose
    BY <2>0, <2>2, <2>5 DEF UserClose, sends, TypeOK
  <2>6. CASE RecvData \/ RecvEnd \/ BadFrame \/ NextRecv
    BY <2>1, <2>2, <2>6 DEF RecvData, RecvEnd, BadFrame, NextRecv, LoopEnds, sends, conn
  <2>7. CASE Deliver
    BY <2>0, <2>1, <2>2, <2>7 DEF Deliver, sends, conn, TypeOK
  <2>8. CASE PeerGone \/ UNCHANGED vars
    BY <2>1, <2>8 DEF PeerGone, vars, sends, conn
  <2>9. QED
    BY <2>3, <2>4, <2>5, <2>6, <2>7, <2>8 DEF Next
<1>3. Channel!vars = <<Seen(fate), closes>>
  BY DEF Channel!vars, Seen
<1>4. IInv /\ [Next]_vars => [Channel!Next]_(Channel!vars)
  BY <1>2 DEF Channel!vars, Seen
<1>5. QED
  BY <1>1, <1>4, Invariance, PTL DEF Spec, ChannelSpec, Channel!Spec
=============================================================================
