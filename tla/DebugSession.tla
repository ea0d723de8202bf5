---------------------------- MODULE DebugSession ----------------------------
(***************************************************************************)
(* session.js: the protocol state machine every front end drives the       *)
(* debuggee with.  Several calls run on one session at once; each is a      *)
(* chain of promises, so between two of its steps any other call, any       *)
(* incoming message, any timer and the loss of the connection can run.      *)
(*                                                                          *)
(* A call is of one of five kinds:                                          *)
(*   "request"   request() and its wrappers stackTrace(), evaluate(), ...   *)
(*   "continue"  continue(), which returns once the engine has answered     *)
(*   "step"      #step() and continueUntilStopped(): subscribe to the next  *)
(*               stop, resume, await both, then fetch the stack             *)
(*   "wait"      continue(), then waitEvent('stopped')                      *)
(*   "query"     breakpoints(path) without a set, answered by a message     *)
(*               that carries no sequence number                            *)
(*                                                                          *)
(* The engine (the QuickJS fork) is outside the repository: it answers      *)
(* requests in order, perhaps late, perhaps never, with success or failure, *)
(* and reports the stop that a resume leads to before or after it answers   *)
(* the resume (vscode-dap.js, 91-94).                                       *)
(***************************************************************************)
EXTENDS Naturals, Sequences

CONSTANTS
  Calls,      \* calls made on the session, each at most once
  Kinds,      \* the kinds of call that are made
  Paths,      \* source files a breakpoint query may ask about
  MaxSeq,     \* bound on the request numbers used
  TimeoutOn,  \* is the session's `timeout` greater than 0?
  Nothing     \* what a promise that has not been resolved holds

AllKinds == {"request", "continue", "step", "wait", "query"}

ASSUME KindsAssumption == Kinds \subseteq AllKinds
ASSUME MaxSeqAssumption == MaxSeq \in Nat
ASSUME TimeoutOnAssumption == TimeoutOn \in BOOLEAN
ASSUME NothingAssumption == Nothing \notin Paths \cup {"stop"}

Seqs == 1 .. MaxSeq

VARIABLES
  seq,         \* #seq: the last request number taken
  pending,     \* the keys of #pending
  timers,      \* requests whose timeout is armed
  waiters,     \* #waiters: event name -> calls holding a one-shot promise
  running,     \* the session's running flag
  outcome,     \* the promise of each request
  pc, kind,    \* where each call is, and what it is
  req,         \* the request each call made last
  path,        \* what a query asks for
  heard,       \* what the call's event promise was resolved with
  open,        \* the connection underneath
  toEngine, fromEngine, stopped,   \* the engine and the two directions
  stopSeen     \* calls in progress when a stop was dispatched

session == <<seq, pending, timers, running, outcome>>
calls   == <<pc, kind, req, path>>
engine  == <<toEngine, fromEngine, stopped>>
history == stopSeen
vars == <<session, waiters, calls, heard, open, engine, history>>

Places == {"idle", "response", "stopped", "trace", "reply", "returned", "threw"}
Outgoing == [cmd : {"resume", "read"}, seq : Seqs] \cup [cmd : {"ask"}, path : Paths]
Incoming == [type : {"response"}, seq : Seqs, success : BOOLEAN]
              \cup [type : {"stopped"}]
              \cup [type : {"breakpoints"}, path : Paths]

TypeOK ==
  /\ seq \in 0 .. MaxSeq
  /\ pending \subseteq Seqs
  /\ timers \subseteq Seqs
  /\ waiters \in [{"stopped", "breakpoints"} -> SUBSET Calls]
  /\ running \in BOOLEAN
  /\ outcome \in [Seqs -> {"unsent", "open", "resolved", "rejected"}]
  /\ pc \in [Calls -> Places]
  /\ kind \in [Calls -> AllKinds \cup {Nothing}]
  /\ req \in [Calls -> 0 .. MaxSeq]
  /\ path \in [Calls -> Paths \cup {Nothing}]
  /\ heard \in [Calls -> Paths \cup {"stop", Nothing}]
  /\ open \in BOOLEAN
  /\ toEngine \in Seq(Outgoing)
  /\ fromEngine \in Seq(Incoming)
  /\ stopped \in BOOLEAN
  /\ stopSeen \subseteq Calls

\* A session is attached to a debuggee stopped at its entry point.
Init ==
  /\ seq = 0 /\ pending = {} /\ timers = {}
  /\ waiters = [e \in {"stopped", "breakpoints"} |-> {}]
  /\ running = FALSE
  /\ outcome = [s \in Seqs |-> "unsent"]
  /\ pc = [c \in Calls |-> "idle"]
  /\ kind = [c \in Calls |-> Nothing]
  /\ req = [c \in Calls |-> 0]
  /\ path = [c \in Calls |-> Nothing]
  /\ heard = [c \in Calls |-> Nothing]
  /\ open = TRUE
  /\ toEngine = <<>> /\ fromEngine = <<>> /\ stopped = TRUE
  /\ stopSeen = {}

-----------------------------------------------------------------------------
(* Calls                                                                    *)

Number == seq + 1
CanSend == open
\* Wrong: no timeout is armed.
NoTimer(s) == {}
Timer(s) == IF TimeoutOn THEN {s} ELSE {}

\* request(): the number is taken first, then the message is sent; on a closed
\* connection send() throws, before anything was registered.
Request(c, cmd, at) ==
  LET s == Number IN
  /\ s \in Seqs
  /\ seq' = s
  /\ req' = [req EXCEPT ![c] = s]
  /\ \/ /\ CanSend
        /\ toEngine' = Append(toEngine, [cmd |-> cmd, seq |-> s])
        /\ outcome' = [outcome EXCEPT ![s] = "open"]
        /\ pending' = pending \cup {s}
        /\ timers' = timers \cup Timer(s)
        /\ pc' = [pc EXCEPT ![c] = at]
     \/ /\ ~CanSend
        /\ outcome' = [outcome EXCEPT ![s] = "rejected"]
        /\ pc' = [pc EXCEPT ![c] = "threw"]
        /\ UNCHANGED <<toEngine, pending, timers>>

\* Wrong: a second waiter replaces the first.
WaitEventOneSlot(c, event) == waiters' = [waiters EXCEPT ![event] = {c}]
\* waitEvent(): a one-shot promise for the next occurrence of an event.
WaitEvent(c, event) == waiters' = [waiters EXCEPT ![event] = @ \cup {c}]

Begin(c, k) ==
  /\ pc[c] = "idle"
  /\ k \in Kinds
  /\ kind' = [kind EXCEPT ![c] = k]

CallRequest(c) ==
  /\ Begin(c, "request")
  /\ Request(c, "read", "response")
  /\ UNCHANGED <<waiters, running, path, heard, open, fromEngine, stopped, history>>

CallContinue(c) ==
  /\ Begin(c, "continue") \/ Begin(c, "wait")
  /\ running' = TRUE
  /\ Request(c, "resume", "response")
  /\ UNCHANGED <<waiters, path, heard, open, fromEngine, stopped, history>>

\* #step(), continueUntilStopped(): the subscription comes before the request.
CallStep(c) ==
  /\ Begin(c, "step")
  /\ WaitEvent(c, "stopped")
  /\ running' = TRUE
  /\ Request(c, "resume", "response")
  /\ UNCHANGED <<path, heard, open, fromEngine, stopped, history>>

\* breakpoints(path): subscribe, then send; nothing is pending for a query.
CallQuery(c, p) ==
  /\ Begin(c, "query")
  /\ WaitEvent(c, "breakpoints")
  /\ path' = [path EXCEPT ![c] = p]
  /\ toEngine' = IF open THEN Append(toEngine, [cmd |-> "ask", path |-> p]) ELSE toEngine
  /\ pc' = [pc EXCEPT ![c] = IF open THEN "reply" ELSE "threw"]
  /\ UNCHANGED <<session, req, heard, open, fromEngine, stopped, history>>

-----------------------------------------------------------------------------
(* Continuations: what a call does once the promise it awaits has settled.  *)

Answered(c) == pc[c] \in {"response", "trace"} /\ outcome[req[c]] = "resolved"

ReturnAnswer(c) ==
  /\ Answered(c)
  /\ pc[c] = "trace" \/ kind[c] \in {"request", "continue"}
  /\ pc' = [pc EXCEPT ![c] = "returned"]
  /\ UNCHANGED <<session, waiters, kind, req, path, heard, open, engine, history>>

\* The resume was answered: go on to await the stop.  Only the "wait" kind
\* subscribes now.
AwaitStop(c) ==
  /\ Answered(c)
  /\ pc[c] = "response" /\ kind[c] \in {"step", "wait"}
  /\ pc' = [pc EXCEPT ![c] = "stopped"]
  /\ IF kind[c] = "wait" THEN WaitEvent(c, "stopped") ELSE UNCHANGED waiters
  /\ UNCHANGED <<session, kind, req, path, heard, open, engine, history>>

Throw(c) ==
  /\ pc[c] \in {"response", "trace"} /\ outcome[req[c]] = "rejected"
  /\ pc' = [pc EXCEPT ![c] = "threw"]
  /\ UNCHANGED <<session, waiters, kind, req, path, heard, open, engine, history>>

StepStopped(c) ==
  /\ pc[c] = "stopped" /\ kind[c] = "step" /\ heard[c] # Nothing
  /\ running' = FALSE
  /\ Request(c, "read", "trace")
  /\ UNCHANGED <<waiters, kind, path, heard, open, fromEngine, stopped, history>>

ReturnEvent(c) ==
  /\ heard[c] # Nothing
  /\ pc[c] = "reply" \/ (pc[c] = "stopped" /\ kind[c] = "wait")
  /\ pc' = [pc EXCEPT ![c] = "returned"]
  /\ UNCHANGED <<session, waiters, kind, req, path, heard, open, engine, history>>

-----------------------------------------------------------------------------
(* Inbound messages, timers, the end of the connection                      *)

\* Wrong: the entry stays in #pending.
ForgetTimer(S) == timers' = timers \ S /\ UNCHANGED pending

Forget(S) == pending' = pending \ S /\ timers' = timers \ S

Settle(S, how) ==
  /\ outcome' = [s \in Seqs |-> IF s \in S THEN how ELSE outcome[s]]
  /\ Forget(S)

\* Wrong: the name of the event is passed on; only one waiter is resolved.
ResolveWithName(S, value) == heard' = [c \in Calls |-> IF c \in S THEN "event" ELSE heard[c]]
ResolveOne(S, value) == \E c \in S : heard' = [heard EXCEPT ![c] = value]

ResolveWaiters(S, value) == heard' = [c \in Calls |-> IF c \in S THEN value ELSE heard[c]]

\* emit(): every waiter of the event is resolved, and forgotten.
Emit(event, value) ==
  /\ ResolveWaiters(waiters[event], value)
  /\ waiters' = [waiters EXCEPT ![event] = {}]

DispatchResponse ==
  LET msg == Head(fromEngine) IN
  /\ fromEngine # <<>> /\ msg.type = "response"
  /\ fromEngine' = Tail(fromEngine)
  /\ \/ /\ msg.seq \in pending
        /\ Settle({msg.seq}, IF msg.success THEN "resolved" ELSE "rejected")
     \/ /\ msg.seq \notin pending
        /\ UNCHANGED <<outcome, pending, timers>>
  /\ UNCHANGED <<seq, running, waiters, calls, heard, open, toEngine, stopped, stopSeen>>

InProgress(c) == pc[c] \in {"response", "stopped"} /\ kind[c] \in {"step", "wait"}

DispatchStopped ==
  /\ fromEngine # <<>> /\ Head(fromEngine).type = "stopped"
  /\ fromEngine' = Tail(fromEngine)
  /\ Emit("stopped", "stop")
  /\ stopSeen' = stopSeen \cup {c \in Calls : InProgress(c)}
  /\ UNCHANGED <<session, calls, open, toEngine, stopped>>

DispatchBreakpoints ==
  /\ fromEngine # <<>> /\ Head(fromEngine).type = "breakpoints"
  /\ fromEngine' = Tail(fromEngine)
  /\ Emit("breakpoints", Head(fromEngine).path)
  /\ UNCHANGED <<session, calls, open, toEngine, stopped, history>>

\* Wrong: a timeout fires for any request already made.
EverDue == 1 .. seq
Due == timers

Expire(s) ==
  /\ s \in Due
  /\ Settle({s}, "rejected")
  /\ UNCHANGED <<seq, running, waiters, calls, heard, open, engine, history>>

\* The connection is gone: sends throw from now on, then the session's abort()
\* rejects whatever is pending.  It leaves #waiters alone.
Abort ==
  /\ open
  /\ open' = FALSE
  /\ Settle(pending, "rejected")
  /\ UNCHANGED <<seq, running, waiters, calls, heard, engine, history>>

-----------------------------------------------------------------------------
(* The engine (external)                                                    *)

Response(s, ok) == [type |-> "response", seq |-> s, success |-> ok]
Stop == [type |-> "stopped"]

\* Read requests and queries are answered; a resume may fail, may be answered
\* before the program stops again, or after.
EngineServe ==
  LET msg == Head(toEngine) IN
  /\ toEngine # <<>>
  /\ toEngine' = Tail(toEngine)
  /\ \/ /\ msg.cmd = "ask"
        /\ fromEngine' = Append(fromEngine, [type |-> "breakpoints", path |-> msg.path])
        /\ UNCHANGED stopped
     \/ /\ msg.cmd # "ask"
        /\ fromEngine' = Append(fromEngine, Response(msg.seq, FALSE))
        /\ UNCHANGED stopped
     \/ /\ msg.cmd # "ask"
        /\ fromEngine' = Append(fromEngine, Response(msg.seq, TRUE))
        /\ stopped' = (stopped /\ msg.cmd = "read")
     \/ /\ msg.cmd = "resume" /\ stopped
        /\ fromEngine' = Append(Append(fromEngine, Stop), Response(msg.seq, TRUE))
        /\ UNCHANGED stopped
  /\ UNCHANGED <<session, waiters, calls, heard, open, history>>

EngineStop ==
  /\ ~stopped
  /\ stopped' = TRUE
  /\ fromEngine' = Append(fromEngine, Stop)
  /\ UNCHANGED <<session, waiters, calls, heard, open, toEngine, history>>

-----------------------------------------------------------------------------
Begins(c) == CallRequest(c) \/ CallContinue(c) \/ CallStep(c) \/ \E p \in Paths : CallQuery(c, p)

Continue(c) ==
  ReturnAnswer(c) \/ AwaitStop(c) \/ Throw(c) \/ StepStopped(c) \/ ReturnEvent(c)

Dispatch == DispatchResponse \/ DispatchStopped \/ DispatchBreakpoints

Next ==
  \/ \E c \in Calls : Begins(c) \/ Continue(c)
  \/ Dispatch
  \/ \E s \in Seqs : Expire(s)
  \/ Abort
  \/ EngineServe \/ EngineStop

Spec == Init /\ [][Next]_vars

\* The event loop runs ready continuations, reads what has arrived and fires
\* due timers.  Nothing is assumed of the engine, of callers or of the network.
Fairness ==
  /\ \A c \in Calls : WF_vars(Continue(c))
  /\ \A s \in Seqs : WF_vars(Expire(s))
  /\ WF_vars(Dispatch)

FairSpec == Spec /\ Fairness

-----------------------------------------------------------------------------
(* Properties                                                               *)

\* #pending and the promises agree: a request is in the map exactly while its
\* promise is unsettled, so no promise is forgotten and none is settled twice
\* (dispatch 92-106, abort 128-135, the timeout 154-158).
PendingIsOpen == pending = {s \in Seqs : outcome[s] = "open"}

\* A call that has got past its request holds a settled one, and a call that
\* waits for an answer waits for one that can still come (147-162, 221-229).
CallsMatchRequests ==
  \A c \in Calls :
    /\ pc[c] \in {"response", "trace"} => outcome[req[c]] # "unsent"
    /\ pc[c] = "stopped" => outcome[req[c]] = "resolved"
    /\ (pc[c] = "stopped" /\ heard[c] = Nothing) => c \in waiters["stopped"]

\* Why the above hold, step by step: a timeout is armed only for a request still
\* pending, nothing is pending on a connection that is gone, calls do not share
\* numbers, numbers are taken in order, the ones beyond #seq are untouched, and a
\* step listens for the stop before its answer comes.
TimersArePending == timers \subseteq pending
NothingPendingOnceClosed == ~open => pending = {}
NumbersAreNotShared ==
  \A c, d \in Calls : (c # d /\ req[c] # 0) => req[c] # req[d]

NumbersInOrder ==
  /\ \A s \in Seqs : outcome[s] = "unsent" <=> s > seq
  /\ \A c \in Calls : req[c] <= seq
  /\ \A c \in Calls : pc[c] \in {"response", "stopped", "trace"} => req[c] # 0

StepsListen ==
  \A c \in Calls : (kind[c] = "step" /\ pc[c] = "response" /\ heard[c] = Nothing)
                    => c \in waiters["stopped"]

IInv ==
  /\ PendingIsOpen /\ TimersArePending /\ NothingPendingOnceClosed
  /\ CallsMatchRequests /\ NumbersAreNotShared
  /\ NumbersInOrder /\ StepsListen

\* A session implements the abstract ledger of requests: numbers used once and
\* in order, each request settled once and for good.
Ledger == INSTANCE RequestLedger WITH status <- outcome
LedgerSpec == Ledger!Spec

\* With a timeout, every request is settled in the end, even if the engine
\* never answers and the connection stays up (154-158).
RequestsSettle == Ledger!Live

\* A step never misses the stop it waits for: if a stop is dispatched at any
\* time after the step was called, the step comes to an end (219-230, 251-257).
StepSeesTheStop ==
  \A c \in Calls :
    (kind[c] = "step" /\ c \in stopSeen) ~> pc[c] \in {"returned", "threw"}
=============================================================================
