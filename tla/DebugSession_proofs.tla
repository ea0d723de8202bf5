------------------------ MODULE DebugSession_proofs ------------------------
(***************************************************************************)
(* Theorems about DebugSession, for any set of calls, any files and any     *)
(* bound on the request numbers, with and without a timeout.                *)
(***************************************************************************)
EXTENDS DebugSession, TLAPS

USE KindsAssumption, MaxSeqAssumption, TimeoutOnAssumption, NothingAssumption

\* What the next message of the engine can be, by its type.
LEMMA HeadIncoming ==
  ASSUME TypeOK, fromEngine # <<>>
  PROVE  /\ Head(fromEngine) \in Incoming
         /\ Tail(fromEngine) \in Seq(Incoming)
         /\ Head(fromEngine).type = "response" =>
              Head(fromEngine).seq \in Seqs /\ Head(fromEngine).success \in BOOLEAN
         /\ Head(fromEngine).type = "breakpoints" => Head(fromEngine).path \in Paths
<1>1. Head(fromEngine) \in Incoming /\ Tail(fromEngine) \in Seq(Incoming)
  BY DEF TypeOK
<1>2. QED
  BY <1>1 DEF Incoming

LEMMA HeadOutgoing ==
  ASSUME TypeOK, toEngine # <<>>
  PROVE  /\ Head(toEngine) \in Outgoing
         /\ Tail(toEngine) \in Seq(Outgoing)
         /\ Head(toEngine).cmd = "ask" => Head(toEngine).path \in Paths
         /\ Head(toEngine).cmd # "ask" => Head(toEngine).seq \in Seqs
<1>1. Head(toEngine) \in Outgoing /\ Tail(toEngine) \in Seq(Outgoing)
  BY DEF TypeOK
<1>2. QED
  BY <1>1 DEF Outgoing

LEMMA AppendType ==
  ASSUME NEW S, NEW q \in Seq(S), NEW e \in S
  PROVE  Append(q, e) \in Seq(S)
OBVIOUS

\* The part of TypeOK about the variables that request() touches.
RequestPart ==
  /\ seq \in 0 .. MaxSeq
  /\ req \in [Calls -> 0 .. MaxSeq]
  /\ pending \subseteq Seqs
  /\ timers \subseteq Seqs
  /\ outcome \in [Seqs -> {"unsent", "open", "resolved", "rejected"}]
  /\ pc \in [Calls -> Places]
  /\ toEngine \in Seq(Outgoing)

LEMMA RequestType ==
  ASSUME TypeOK, NEW c \in Calls, NEW cmd \in {"resume", "read"},
         NEW at \in Places, Request(c, cmd, at)
  PROVE  RequestPart'
<1>1. seq + 1 \in Seqs /\ seq' = seq + 1 /\ req' = [req EXCEPT ![c] = seq + 1]
  BY DEF Request, Number
<1>2. seq' \in 0 .. MaxSeq /\ req' \in [Calls -> 0 .. MaxSeq]
  BY <1>1 DEF TypeOK, Seqs
<1>3. [cmd |-> cmd, seq |-> seq + 1] \in Outgoing
  BY <1>1 DEF Outgoing
<1>4. toEngine' \in Seq(Outgoing)
  <2>1. toEngine' = Append(toEngine, [cmd |-> cmd, seq |-> seq + 1]) \/ toEngine' = toEngine
    BY DEF Request, Number
  <2>2. toEngine \in Seq(Outgoing)
    BY DEF TypeOK
  <2>3. QED
    BY <1>3, <2>1, <2>2
<1>5. /\ pending' \subseteq Seqs /\ timers' \subseteq Seqs
      /\ outcome' \in [Seqs -> {"unsent", "open", "resolved", "rejected"}]
  BY <1>1 DEF TypeOK, Request, Number, Timer
<1>6. pc' \in [Calls -> Places]
  BY DEF TypeOK, Request, Places
<1>7. QED
  BY <1>2, <1>4, <1>5, <1>6 DEF RequestPart

\* Type correctness: the variables of the session, of its callers and of the
\* engine keep the shapes the code relies on (session.js 19-28, 90-162).
THEOREM TypeCorrect == Spec => []TypeOK
<1>1. Init => TypeOK
  <2>1. <<>> \in Seq(Outgoing) /\ <<>> \in Seq(Incoming)
    OBVIOUS
  <2>2. 0 \in 0 .. MaxSeq
    OBVIOUS
  <2>3. ASSUME Init PROVE RequestPart
    BY <2>1, <2>2, <2>3 DEF Init, RequestPart, Places
  <2>4. ASSUME Init
        PROVE  /\ kind \in [Calls -> AllKinds \cup {Nothing}]
               /\ path \in [Calls -> Paths \cup {Nothing}]
               /\ heard \in [Calls -> Paths \cup {"stop", Nothing}]
               /\ waiters \in [{"stopped", "breakpoints"} -> SUBSET Calls]
    BY <2>4 DEF Init
  <2>5. QED
    BY <2>1, <2>3, <2>4 DEF Init, RequestPart, TypeOK
<1>2. TypeOK /\ [Next]_vars => TypeOK'
  <2> SUFFICES ASSUME TypeOK, [Next]_vars PROVE TypeOK'
    OBVIOUS
  <2>1. CASE \E c \in Calls : Begins(c)
    <3>1. PICK c \in Calls : Begins(c)
      BY <2>1
    <3>2. CASE CallRequest(c)
      <4>1. "response" \in Places
        BY DEF Places
      <4>2. RequestPart'
        BY <3>2, <4>1, RequestType DEF CallRequest
      <4>3. kind' \in [Calls -> AllKinds \cup {Nothing}]
        BY <3>2, KindsAssumption DEF CallRequest, Begin, TypeOK
      <4>4. QED
        BY <3>2, <4>2, <4>3 DEF CallRequest, RequestPart, TypeOK, history
    <3>3. CASE CallContinue(c)
      <4>1. "response" \in Places
        BY DEF Places
      <4>2. RequestPart'
        BY <3>3, <4>1, RequestType DEF CallContinue
      <4>3. kind' \in [Calls -> AllKinds \cup {Nothing}]
        BY <3>3, KindsAssumption DEF CallContinue, Begin, TypeOK
      <4>4. QED
        BY <3>3, <4>2, <4>3 DEF CallContinue, RequestPart, TypeOK, history
    <3>4. CASE CallStep(c)
      <4>1. "response" \in Places
        BY DEF Places
      <4>2. RequestPart'
        BY <3>4, <4>1, RequestType DEF CallStep
      <4>3. kind' \in [Calls -> AllKinds \cup {Nothing}]
        BY <3>4, KindsAssumption DEF CallStep, Begin, TypeOK
      <4>4. QED
        BY <3>4, <4>2, <4>3 DEF CallStep, RequestPart, WaitEvent, TypeOK, history
    <3>5. CASE \E p \in Paths : CallQuery(c, p)
      <4>1. PICK p \in Paths : CallQuery(c, p)
        BY <3>5
      <4>2. [cmd |-> "ask", path |-> p] \in Outgoing
        BY DEF Outgoing
      <4>3. toEngine' \in Seq(Outgoing)
        BY <4>1, <4>2 DEF CallQuery, TypeOK
      <4>4. QED
        BY <4>1, <4>3
        DEF CallQuery, Begin, WaitEvent, TypeOK, Places, history, session
    <3>6. QED
      BY <3>1, <3>2, <3>3, <3>4, <3>5 DEF Begins
  <2>2. CASE \E c \in Calls : Continue(c)
    <3>1. PICK c \in Calls : Continue(c)
      BY <2>2
    <3>2. CASE ReturnAnswer(c)
      BY <3>2 DEF ReturnAnswer, TypeOK, Places, session, engine, history
    <3>3. CASE AwaitStop(c)
      BY <3>3 DEF AwaitStop, WaitEvent, TypeOK, Places, session, engine, history
    <3>4. CASE Throw(c)
      BY <3>4 DEF Throw, TypeOK, Places, session, engine, history
    <3>5. CASE StepStopped(c)
      <4>1. "trace" \in Places
        BY DEF Places
      <4>2. RequestPart'
        BY <3>5, <4>1, RequestType DEF StepStopped
      <4>3. QED
        BY <3>5, <4>2 DEF StepStopped, RequestPart, TypeOK, history
    <3>6. CASE ReturnEvent(c)
      BY <3>6 DEF ReturnEvent, TypeOK, Places, session, engine, history
    <3>7. QED
      BY <3>1, <3>2, <3>3, <3>4, <3>5, <3>6 DEF Continue
  <2>3. CASE DispatchResponse
    <3>1. /\ fromEngine' \in Seq(Incoming)
          /\ UNCHANGED <<seq, running, waiters, pc, kind, req, path, heard, open, toEngine, stopped, stopSeen>>
      BY <2>3, HeadIncoming DEF DispatchResponse, TypeOK, calls
    <3>2. /\ outcome' \in [Seqs -> {"unsent", "open", "resolved", "rejected"}]
          /\ pending' \subseteq Seqs /\ timers' \subseteq Seqs
      BY <2>3 DEF DispatchResponse, Settle, Forget, TypeOK
    <3>3. QED
      BY <3>1, <3>2 DEF TypeOK
  <2>4. CASE DispatchStopped
    BY <2>4, HeadIncoming
    DEF DispatchStopped, Emit, ResolveWaiters, TypeOK, session, calls
  <2>5. CASE DispatchBreakpoints
    BY <2>5, HeadIncoming
    DEF DispatchBreakpoints, Emit, ResolveWaiters, TypeOK, session, calls, history
  <2>6. CASE \E s \in Seqs : Expire(s)
    BY <2>6 DEF Expire, Settle, Forget, TypeOK, calls, engine, history
  <2>7. CASE Abort
    BY <2>7 DEF Abort, Settle, Forget, TypeOK, calls, engine, history
  <2>8. CASE EngineServe
    <3> DEFINE msg == Head(toEngine)
    <3>1. CASE msg.cmd = "ask"
      <4>1. [type |-> "breakpoints", path |-> msg.path] \in Incoming
        BY <2>8, <3>1, HeadOutgoing DEF EngineServe, Incoming
      <4>2. fromEngine' = Append(fromEngine, [type |-> "breakpoints", path |-> msg.path])
        BY <2>8, <3>1 DEF EngineServe
      <4>3. fromEngine' \in Seq(Incoming)
        BY <4>1, <4>2 DEF TypeOK
      <4>4. QED
        BY <2>8, <3>1, <4>3, HeadOutgoing DEF EngineServe, TypeOK, session, calls, history
    <3>2. CASE msg.cmd # "ask"
      <4>1. \A ok \in BOOLEAN : Response(msg.seq, ok) \in Incoming
        BY <2>8, <3>2, HeadOutgoing DEF EngineServe, Incoming, Response
      <4>2. Stop \in Incoming
        BY DEF Incoming, Stop
      <4>3. \/ fromEngine' = Append(fromEngine, Response(msg.seq, FALSE))
            \/ fromEngine' = Append(fromEngine, Response(msg.seq, TRUE))
            \/ fromEngine' = Append(Append(fromEngine, Stop), Response(msg.seq, TRUE))
        BY <2>8, <3>2 DEF EngineServe
      <4>4. fromEngine' \in Seq(Incoming)
        <5> HIDE DEF msg
        <5>1. fromEngine \in Seq(Incoming)
          BY DEF TypeOK
        <5>2. Append(fromEngine, Stop) \in Seq(Incoming)
          BY <4>2, <5>1
        <5>3. Response(msg.seq, TRUE) \in Incoming /\ Response(msg.seq, FALSE) \in Incoming
          BY <4>1
        <5>4. Append(Append(fromEngine, Stop), Response(msg.seq, TRUE)) \in Seq(Incoming)
          BY ONLY <5>2, <5>3, AppendType
        <5>5. QED
          BY ONLY <4>3, <5>1, <5>3, <5>4, AppendType
      <4>5. QED
        BY <2>8, <3>2, <4>4, HeadOutgoing DEF EngineServe, TypeOK, session, calls, history
    <3>3. QED
      BY <3>1, <3>2
  <2>9. CASE EngineStop
    <3>1. Stop \in Incoming
      BY DEF Incoming, Stop
    <3>2. QED
      BY <2>9, <3>1 DEF EngineStop, TypeOK, session, calls, history
  <2>10. CASE UNCHANGED vars
    BY <2>10 DEF vars, session, calls, engine, history, TypeOK
  <2>11. QED
    BY <2>1, <2>2, <2>3, <2>4, <2>5, <2>6, <2>7, <2>8, <2>9, <2>10 DEF Next, Dispatch
<1>3. QED
  BY <1>1, <1>2, PTL DEF Spec

-----------------------------------------------------------------------------
\* What request() keeps of the invariant, whoever calls it.
LEMMA RequestKeeps ==
  ASSUME TypeOK, IInv, NEW c \in Calls, NEW cmd, NEW at \in Places,
         Request(c, cmd, at), open' = open
  PROVE  /\ PendingIsOpen' /\ TimersArePending' /\ NothingPendingOnceClosed'
         /\ NumbersAreNotShared'
         /\ seq' = seq + 1 /\ seq' \in Seqs /\ req' = [req EXCEPT ![c] = seq']
         /\ \A s \in Seqs : s # seq' => outcome'[s] = outcome[s]
         /\ outcome'[seq'] \in {"open", "rejected"}
         /\ outcome[seq'] = "unsent"
         /\ pc' \in {[pc EXCEPT ![c] = at], [pc EXCEPT ![c] = "threw"]}
         /\ (\A s \in Seqs : outcome[s] = "unsent" <=> s > seq)'
         /\ (\A d \in Calls : req[d] <= seq)'
         /\ req'[c] # 0
<1> USE DEF Seqs
<1>1. /\ seq' = seq + 1 /\ seq' \in Seqs /\ req' = [req EXCEPT ![c] = seq']
      /\ pc' \in {[pc EXCEPT ![c] = at], [pc EXCEPT ![c] = "threw"]}
  BY DEF Request, Number
<1>2. outcome' = [outcome EXCEPT ![seq'] = "open"] \/ outcome' = [outcome EXCEPT ![seq'] = "rejected"]
  BY DEF Request, Number
<1>3. outcome[seq'] = "unsent"
  BY <1>1 DEF IInv, NumbersInOrder, TypeOK
<1>4. /\ \A s \in Seqs : s # seq' => outcome'[s] = outcome[s]
      /\ outcome'[seq'] \in {"open", "rejected"}
  BY <1>1, <1>2 DEF TypeOK
<1>5. PendingIsOpen'
  <2>1. CASE CanSend
    <3>1. pending' = pending \cup {seq'} /\ outcome'[seq'] = "open"
      BY <2>1, <1>1 DEF Request, Number, TypeOK
    <3>2. QED
      BY <3>1, <1>1, <1>4 DEF IInv, PendingIsOpen
  <2>2. CASE ~CanSend
    <3>1. pending' = pending /\ outcome'[seq'] = "rejected"
      BY <2>2, <1>1 DEF Request, Number, TypeOK
    <3>2. QED
      BY <3>1, <1>1, <1>3, <1>4 DEF IInv, PendingIsOpen
  <2>3. QED
    BY <2>1, <2>2
<1>6. TimersArePending'
  BY DEF Request, Number, IInv, TimersArePending, Timer
<1>7. NothingPendingOnceClosed'
  BY DEF Request, CanSend, IInv, NothingPendingOnceClosed
<1>8. \A d \in Calls : req'[d] = IF d = c THEN seq' ELSE req[d]
  BY <1>1 DEF TypeOK
<1>9. (\A d \in Calls : req[d] <= seq)' /\ req'[c] # 0
  BY <1>1, <1>8 DEF IInv, NumbersInOrder, TypeOK
<1>10. NumbersAreNotShared'
  <2> SUFFICES ASSUME NEW d \in Calls, NEW e \in Calls, d # e, req'[d] # 0
               PROVE  req'[d] # req'[e]
    BY DEF NumbersAreNotShared
  <2>1. \A f \in Calls : req[f] <= seq /\ req[f] \in Nat
    BY DEF IInv, NumbersInOrder, TypeOK
  <2>2. QED
    BY <2>1, <1>1, <1>8 DEF IInv, NumbersAreNotShared, TypeOK
<1>11. (\A s \in Seqs : outcome[s] = "unsent" <=> s > seq)'
  BY <1>1, <1>4 DEF IInv, NumbersInOrder, TypeOK
<1>12. QED
  BY <1>1, <1>3, <1>4, <1>5, <1>6, <1>7, <1>9, <1>10, <1>11

\* The same for the invariants about calls: the caller goes on to wait, the
\* others stay where they are.
LEMMA RequestKeepsCalls ==
  ASSUME TypeOK, TypeOK', IInv, NEW c \in Calls, NEW cmd, NEW at \in {"response", "trace"},
         Request(c, cmd, at), UNCHANGED <<open, heard>>,
         \A d \in Calls : d # c => kind'[d] = kind[d],
         waiters["stopped"] \subseteq waiters'["stopped"],
         (kind'[c] = "step" /\ at = "response") => c \in waiters'["stopped"]
  PROVE  IInv'
<1>1. at \in Places
  BY DEF Places
<1>2. /\ PendingIsOpen' /\ TimersArePending' /\ NothingPendingOnceClosed'
      /\ NumbersAreNotShared'
      /\ seq' = seq + 1 /\ seq' \in Seqs /\ req' = [req EXCEPT ![c] = seq']
      /\ \A s \in Seqs : s # seq' => outcome'[s] = outcome[s]
      /\ outcome'[seq'] \in {"open", "rejected"}
      /\ outcome[seq'] = "unsent"
      /\ pc' \in {[pc EXCEPT ![c] = at], [pc EXCEPT ![c] = "threw"]}
      /\ (\A s \in Seqs : outcome[s] = "unsent" <=> s > seq)'
      /\ (\A d \in Calls : req[d] <= seq)'
      /\ req'[c] # 0
  BY <1>1, RequestKeeps
<1>3. ASSUME NEW d \in Calls, d # c
      PROVE  /\ pc'[d] = pc[d] /\ req'[d] = req[d] /\ req[d] # seq'
             /\ req[d] # 0 => outcome'[req[d]] = outcome[req[d]]
  <2>1. pc'[d] = pc[d] /\ req'[d] = req[d]
    BY <1>2, <1>3 DEF TypeOK
  <2>2. req[d] <= seq /\ req[d] \in 0 .. MaxSeq /\ seq \in 0 .. MaxSeq
    BY DEF IInv, NumbersInOrder, TypeOK
  <2>3. req[d] # seq' /\ (req[d] # 0 => req[d] \in Seqs)
    BY <1>2, <2>2 DEF Seqs
  <2>4. QED
    BY <1>2, <2>1, <2>3
<1>4. pc'[c] \in {at, "threw"} /\ req'[c] = seq'
  BY <1>2 DEF TypeOK
<1>5. NumbersInOrder'
  BY <1>2, <1>3, <1>4 DEF IInv, NumbersInOrder
<1>6. StepsListen'
  BY <1>3, <1>4 DEF IInv, StepsListen
<1>7. CallsMatchRequests'
  BY <1>2, <1>3, <1>4 DEF IInv, CallsMatchRequests, NumbersInOrder
<1>8. QED
  BY <1>2, <1>5, <1>6, <1>7 DEF IInv

\* What settling requests keeps of the invariant.
LEMMA SettleKeeps ==
  ASSUME TypeOK, IInv, NEW S \in SUBSET Seqs, NEW how \in {"resolved", "rejected"},
         S \subseteq pending, Settle(S, how), open' = open \/ S = pending,
         UNCHANGED <<seq, req, pc, kind, heard, waiters>>
  PROVE  IInv'
<1>1. \A s \in Seqs : outcome'[s] = IF s \in S THEN how ELSE outcome[s]
  BY DEF Settle
<1>2. pending' = pending \ S /\ timers' = timers \ S
  BY DEF Settle, Forget
<1>3. \A s \in S : outcome[s] = "open"
  BY DEF IInv, PendingIsOpen
<1>4. PendingIsOpen' /\ TimersArePending' /\ NothingPendingOnceClosed'
  BY <1>1, <1>2 DEF IInv, PendingIsOpen, TimersArePending, NothingPendingOnceClosed, TypeOK
<1>5. NumbersAreNotShared' /\ NumbersInOrder'
  BY <1>1, <1>3 DEF IInv, NumbersAreNotShared, NumbersInOrder
<1>6. StepsListen'
  BY DEF IInv, StepsListen
<1>7. \A c \in Calls : pc[c] \in {"response", "stopped", "trace"} => req[c] \in Seqs
  BY DEF IInv, NumbersInOrder, TypeOK, Seqs
<1>8. \A s \in Seqs :
        /\ outcome[s] # "unsent" => outcome'[s] # "unsent"
        /\ outcome[s] = "resolved" => outcome'[s] = "resolved"
  BY <1>1, <1>3
<1>9. CallsMatchRequests'
  <2> SUFFICES ASSUME NEW c \in Calls
      PROVE  /\ pc[c] \in {"response", "trace"} => outcome'[req[c]] # "unsent"
             /\ pc[c] = "stopped" => outcome'[req[c]] = "resolved"
             /\ (pc[c] = "stopped" /\ heard[c] = Nothing) => c \in waiters["stopped"]
    BY DEF CallsMatchRequests
  <2>1. CASE pc[c] \in {"response", "trace"}
    <3>1. req[c] \in Seqs /\ outcome[req[c]] # "unsent"
      BY <1>7, <2>1 DEF IInv, CallsMatchRequests
    <3>2. outcome'[req[c]] # "unsent"
      BY ONLY <1>8, <3>1
    <3>3. QED
      BY <2>1, <3>2
  <2>2. CASE pc[c] = "stopped"
    <3>1. req[c] \in Seqs /\ outcome[req[c]] = "resolved"
      BY <1>7, <2>2 DEF IInv, CallsMatchRequests
    <3>2. outcome'[req[c]] = "resolved"
      BY ONLY <1>8, <3>1
    <3>3. QED
      BY <2>2, <3>2 DEF IInv, CallsMatchRequests
  <2>3. QED
    BY <2>1, <2>2
<1>10. QED
  BY <1>4, <1>5, <1>6, <1>9 DEF IInv

\* Whatever is resolved, a promise that has its value keeps one.
LEMMA EmitKeeps ==
  ASSUME TypeOK, NEW event \in {"stopped", "breakpoints"}, NEW value,
         value # Nothing, Emit(event, value)
  PROVE  \A c \in Calls : heard'[c] = Nothing =>
            heard[c] = Nothing /\ (c \in waiters["stopped"] => c \in waiters'["stopped"])
BY DEF Emit, ResolveWaiters, TypeOK

\* Every step keeps the invariant: the map of pending requests, their timers,
\* the promises and the places of the callers stay consistent.
LEMMA StepKeepsIInv == TypeOK /\ TypeOK' /\ IInv /\ [Next]_vars => IInv'
<1> SUFFICES ASSUME TypeOK, TypeOK', IInv, [Next]_vars PROVE IInv'
  OBVIOUS
<1>1. ASSUME NEW c \in Calls, CallRequest(c) PROVE IInv'
  <2>1. open' = open /\ Request(c, "read", "response") /\ heard' = heard /\ waiters' = waiters
        /\ kind'[c] = "request" /\ \A d \in Calls : d # c => kind'[d] = kind[d]
    BY <1>1 DEF CallRequest, Begin, TypeOK
  <2>2. QED
    BY <2>1, RequestKeepsCalls
<1>2. ASSUME NEW c \in Calls, CallContinue(c) PROVE IInv'
  <2>1. open' = open /\ Request(c, "resume", "response") /\ heard' = heard /\ waiters' = waiters
        /\ kind'[c] # "step" /\ \A d \in Calls : d # c => kind'[d] = kind[d]
    BY <1>2 DEF CallContinue, Begin, TypeOK
  <2>2. QED
    BY <2>1, RequestKeepsCalls
<1>3. ASSUME NEW c \in Calls, CallStep(c) PROVE IInv'
  <2>1. open' = open /\ Request(c, "resume", "response") /\ heard' = heard
        /\ waiters'["stopped"] = waiters["stopped"] \cup {c}
        /\ \A d \in Calls : d # c => kind'[d] = kind[d]
    BY <1>3 DEF CallStep, Begin, WaitEvent, TypeOK
  <2>2. QED
    BY <2>1, RequestKeepsCalls
<1>4. ASSUME NEW c \in Calls, NEW p \in Paths, CallQuery(c, p) PROVE IInv'
  <2>1. UNCHANGED <<session, req, heard, open>> /\ waiters'["stopped"] = waiters["stopped"]
        /\ pc'[c] \in {"reply", "threw"} /\ \A d \in Calls : d # c => pc'[d] = pc[d] /\ kind'[d] = kind[d]
    BY <1>4 DEF CallQuery, Begin, WaitEvent, TypeOK
  <2>2. QED
    BY <2>1 DEF session, IInv, PendingIsOpen, TimersArePending, NothingPendingOnceClosed,
                NumbersAreNotShared, CallsMatchRequests, NumbersInOrder, StepsListen
<1>5. ASSUME NEW c \in Calls, ReturnAnswer(c) \/ Throw(c) \/ ReturnEvent(c) PROVE IInv'
  <2>1. UNCHANGED <<session, waiters, kind, req, heard, open>>
        /\ pc'[c] \in {"returned", "threw"} /\ \A d \in Calls : d # c => pc'[d] = pc[d]
    BY <1>5 DEF ReturnAnswer, Throw, ReturnEvent, TypeOK
  <2>2. QED
    BY <2>1 DEF session, IInv, PendingIsOpen, TimersArePending, NothingPendingOnceClosed,
                NumbersAreNotShared, CallsMatchRequests, NumbersInOrder, StepsListen
<1>6. ASSUME NEW c \in Calls, AwaitStop(c) PROVE IInv'
  <2>1. UNCHANGED <<session, kind, req, heard, open>> /\ outcome[req[c]] = "resolved"
        /\ pc[c] = "response" /\ kind[c] \in {"step", "wait"}
        /\ pc'[c] = "stopped" /\ \A d \in Calls : d # c => pc'[d] = pc[d]
    BY <1>6 DEF AwaitStop, Answered, TypeOK
  <2>2. waiters["stopped"] \subseteq waiters'["stopped"] /\ (kind[c] = "wait" => c \in waiters'["stopped"])
    BY <1>6 DEF AwaitStop, WaitEvent, TypeOK
  <2>3. QED
    BY <2>1, <2>2 DEF session, IInv, PendingIsOpen, TimersArePending, NothingPendingOnceClosed,
                NumbersAreNotShared, CallsMatchRequests, NumbersInOrder, StepsListen
<1>7. ASSUME NEW c \in Calls, StepStopped(c) PROVE IInv'
  <2>1. open' = open /\ Request(c, "read", "trace") /\ UNCHANGED <<heard, waiters, kind>>
        /\ heard[c] # Nothing
    BY <1>7 DEF StepStopped
  <2>2. QED
    BY <2>1, RequestKeepsCalls
<1>8. CASE DispatchResponse
  <2>1. UNCHANGED <<seq, req, pc, kind, heard, waiters, open>>
    BY <1>8 DEF DispatchResponse, calls
  <2>2. CASE Head(fromEngine).seq \in pending
    <3> DEFINE s == Head(fromEngine).seq
               how == IF Head(fromEngine).success THEN "resolved" ELSE "rejected"
    <3>1. Settle({s}, how) /\ how \in {"resolved", "rejected"} /\ {s} \subseteq pending
      BY <1>8, <2>2 DEF DispatchResponse
    <3>2. {s} \in SUBSET Seqs
      BY <2>2 DEF TypeOK
    <3> HIDE DEF s, how
    <3>3. QED
      BY <2>1, <3>1, <3>2, SettleKeeps
  <2>3. CASE Head(fromEngine).seq \notin pending
    <3>1. UNCHANGED <<pending, timers, outcome>>
      BY <1>8, <2>3 DEF DispatchResponse
    <3>2. QED
      BY <2>1, <3>1 DEF IInv, PendingIsOpen, TimersArePending, NothingPendingOnceClosed,
                NumbersAreNotShared, CallsMatchRequests, NumbersInOrder, StepsListen
  <2>4. QED
    BY <2>2, <2>3
<1>9. CASE DispatchStopped \/ DispatchBreakpoints
  <2>1. PICK event \in {"stopped", "breakpoints"} : \E value : value # Nothing /\ Emit(event, value)
    BY <1>9, HeadIncoming DEF DispatchStopped, DispatchBreakpoints
  <2>2. UNCHANGED <<session, calls, open>>
    BY <1>9 DEF DispatchStopped, DispatchBreakpoints
  <2>3. QED
    BY <2>1, <2>2, EmitKeeps
    DEF session, calls, IInv, PendingIsOpen, TimersArePending, NothingPendingOnceClosed,
        NumbersAreNotShared, CallsMatchRequests, NumbersInOrder, StepsListen
<1>10. ASSUME NEW S \in SUBSET Seqs, S \subseteq pending, Settle(S, "rejected"),
              open' = open \/ S = pending, UNCHANGED <<seq, calls, heard, waiters>>
       PROVE  IInv'
  BY <1>10, SettleKeeps DEF calls
<1>11. ASSUME NEW s \in Seqs, Expire(s) PROVE IInv'
  BY <1>10, <1>11 DEF Expire, Due, IInv, TimersArePending
<1>12. CASE Abort
  BY <1>10, <1>12 DEF Abort, TypeOK
<1>13. CASE UNCHANGED <<session, calls, heard, waiters, open>>
  BY <1>13 DEF session, calls, IInv, PendingIsOpen, TimersArePending, NothingPendingOnceClosed,
        NumbersAreNotShared, CallsMatchRequests, NumbersInOrder, StepsListen
<1>14. CASE EngineServe \/ EngineStop \/ UNCHANGED vars
  BY <1>13, <1>14 DEF EngineServe, EngineStop, vars
<1>15. QED
  BY <1>1, <1>2, <1>3, <1>4, <1>5, <1>6, <1>7, <1>8, <1>9, <1>11, <1>12, <1>14
  DEF Next, Begins, Continue, Dispatch

\* The invariant as a theorem of the specification.
THEOREM Invariance == Spec => []IInv
<1>1. Init => IInv
  BY DEF Init, IInv, PendingIsOpen, TimersArePending, NothingPendingOnceClosed,
         NumbersAreNotShared, CallsMatchRequests, NumbersInOrder, StepsListen, Seqs
<1>2. QED
  BY <1>1, StepKeepsIInv, TypeCorrect, PTL DEF Spec

\* #pending and the promises agree in every reachable state: nothing is settled
\* twice, nothing forgotten (session.js 90-162).
THEOREM PendingCorrect == Spec => []PendingIsOpen
<1>1. IInv => PendingIsOpen
  BY DEF IInv
<1>2. QED
  BY <1>1, Invariance, PTL

\* Callers wait only for what can still come, and never share a number.
THEOREM CallsCorrect == Spec => [](CallsMatchRequests /\ NumbersAreNotShared)
<1>1. IInv => CallsMatchRequests /\ NumbersAreNotShared
  BY DEF IInv
<1>2. QED
  BY <1>1, Invariance, PTL

-----------------------------------------------------------------------------
\* The session implements the abstract ledger of requests (RequestLedger): a
\* request() takes a number, an answer resolves it, an error answer, a timeout
\* or the end of the connection rejects it, and everything else is a stutter.
THEOREM Refinement == Spec => LedgerSpec
<1>1. Init => Ledger!Init
  BY DEF Init, Ledger!Init, Seqs, Ledger!Seqs
<1>2. TypeOK /\ IInv /\ [Next]_vars => [Ledger!Next]_outcome
  <2> SUFFICES ASSUME TypeOK, IInv, [Next]_vars PROVE Ledger!Next \/ UNCHANGED outcome
    OBVIOUS
  <2> USE DEF Seqs, Ledger!Seqs
  <2>1. ASSUME NEW c \in Calls, NEW cmd, NEW at, Request(c, cmd, at) PROVE Ledger!Next
    <3>1. seq + 1 \in Seqs /\ outcome[seq + 1] = "unsent"
          /\ \A r \in Seqs : r < seq + 1 => outcome[r] # "unsent"
      BY <2>1 DEF Request, Number, IInv, NumbersInOrder, TypeOK
    <3>2. \/ outcome' = [outcome EXCEPT ![seq + 1] = "open"]
          \/ outcome' = [outcome EXCEPT ![seq + 1] = "rejected"]
      BY <2>1 DEF Request, Number
    <3>3. Ledger!Open(seq + 1) \/ Ledger!Refuse(seq + 1)
      BY <3>1, <3>2 DEF Ledger!Open, Ledger!Refuse
    <3>4. QED
      BY <3>1, <3>3 DEF Ledger!Next
  <2>2. ASSUME NEW S \in SUBSET Seqs, S \subseteq pending, Settle(S, "rejected")
        PROVE  Ledger!Next \/ UNCHANGED outcome
    <3>1. CASE S = {}
      BY <2>2, <3>1 DEF Settle, TypeOK
    <3>2. CASE S # {}
      <4>1. Ledger!Reject(S)
        BY <2>2, <3>2 DEF Ledger!Reject, Settle, IInv, PendingIsOpen
      <4>2. QED
        BY <4>1 DEF Ledger!Next
    <3>3. QED
      BY <3>1, <3>2
  <2>3. CASE DispatchResponse
    <3> DEFINE s == Head(fromEngine).seq
    <3>1. CASE s \in pending /\ Settle({s}, "resolved")
      <4>1. s \in Seqs /\ outcome[s] = "open" /\ outcome' = [outcome EXCEPT ![s] = "resolved"]
        BY <3>1 DEF Settle, IInv, PendingIsOpen, TypeOK
      <4>2. Ledger!Resolve(s)
        BY <4>1 DEF Ledger!Resolve
      <4>3. QED
        BY <4>1, <4>2 DEF Ledger!Next
    <3>2. CASE s \in pending /\ Settle({s}, "rejected")
      <4>1. {s} \in SUBSET Seqs /\ {s} \subseteq pending
        BY <3>2 DEF TypeOK
      <4>2. QED
        BY <2>2, <3>2, <4>1
    <3>3. CASE UNCHANGED outcome
      BY <3>3
    <3>4. QED
      BY <2>3, <3>1, <3>2, <3>3 DEF DispatchResponse
  <2>4. ASSUME NEW s \in Seqs, Expire(s) PROVE Ledger!Next \/ UNCHANGED outcome
    BY <2>2, <2>4 DEF Expire, Due, IInv, TimersArePending
  <2>5. CASE Abort
    BY <2>2, <2>5 DEF Abort, TypeOK
  <2>6. ASSUME NEW c \in Calls, Begins(c) \/ Continue(c) PROVE Ledger!Next \/ UNCHANGED outcome
    BY <2>1, <2>6 DEF Begins, Continue, CallRequest, CallContinue, CallStep, CallQuery, ReturnAnswer,
        AwaitStop, Throw, StepStopped, ReturnEvent, session
  <2>7. CASE DispatchStopped \/ DispatchBreakpoints \/ EngineServe \/ EngineStop \/ UNCHANGED vars
    BY <2>7 DEF DispatchStopped, DispatchBreakpoints, EngineServe, EngineStop, vars, session
  <2>8. QED
    BY <2>3, <2>4, <2>5, <2>6, <2>7 DEF Next, Dispatch
<1>3. QED
  BY <1>1, <1>2, TypeCorrect, Invariance, PTL DEF Spec, LedgerSpec, Ledger!Spec
=============================================================================
