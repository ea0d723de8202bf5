----------------------------- MODULE DAPAdapter -----------------------------
(***************************************************************************)
(* vscode-dap.js with the hooks StartDAP (qjs-debugger.js) gives it: what a *)
(* debug adapter client sees, in which order.  Requests are dispatched as   *)
(* they are read, without waiting for the one before; responses and state   *)
(* events share one output stream.                                          *)
(*                                                                          *)
(* A stop is caused by one resume request (continue, next, stepIn, stepOut, *)
(* pause).  The engine, outside the repository, answers each request it is  *)
(* given, or dies, and may report the stop before it answers.               *)
(***************************************************************************)
EXTENDS Naturals, Sequences, FiniteSets

CONSTANTS
  Resumes,      \* continue, next, stepIn, stepOut, pause requests
  Queries,      \* stackTrace, scopes, variables, evaluate, ... requests
  Launches, Attaches, Configurations, Disconnects

Starts == Launches \cup Attaches
Requests == Resumes \cup Queries \cup Starts \cup Configurations \cup Disconnects

\* What may make the engine run, and so stop.
Movers == Resumes \cup Configurations

\* A request has one command.
ASSUME KindsAssumption ==
  /\ Resumes \cap (Queries \cup Starts \cup Configurations \cup Disconnects) = {}
  /\ Queries \cap (Starts \cup Configurations \cup Disconnects) = {}
  /\ Starts \cap (Configurations \cup Disconnects) = {}
  /\ Configurations \cap Disconnects = {}
  /\ Launches \cap Attaches = {}

VARIABLES
  state,       \* what became of each request
  session,     \* none, starting, killed (starting, its program killed by a disconnect),
               \* attached to the adapter, or aborted
  resuming, holding, deferred,   \* #resuming, #holding, #deferred
  holds,       \* hold timers that have not fired
  terminated,  \* the flag of attachSession()
  out,         \* everything sent to the client
  arrived,     \* the state events of the session, as they came
  caused,      \* requests whose stop the engine has reported
  hasty        \* has the client resumed without waiting for the last stop?

hold == <<resuming, holding, deferred, holds>>
vars == <<state, session, hold, terminated, out, arrived, caused, hasty>>

Response(r) == [what |-> "response", of |-> r]
Stopped(r)  == [what |-> "stopped", of |-> r]
Terminated  == [what |-> "terminated"]
Initialized == [what |-> "initialized"]
EntryStop(r) == [what |-> "entry", of |-> r]
Refusal(r) == [what |-> "refusal", of |-> r]
StateEvents == {Stopped(r) : r \in Movers} \cup {Terminated}
Messages == StateEvents \cup {Response(r) : r \in Requests} \cup {Initialized}
              \cup {EntryStop(r) : r \in Configurations} \cup {Refusal(r) : r \in Configurations}

InFlight == {r \in Resumes : state[r] \in {"waiting", "resolved", "rejected"}}

\* Where a launch or an attach waits: for accept(), for connect(), for the entry stop.
Starting == {"accepting", "connecting", "entering"}

\* #resuming counts exactly the resume requests that have no response yet, also
\* through errors and aborts, and no message is sent twice (100-116, 260-262).  A
\* request may still get two responses: a configurationDone that finds the connection
\* closed has its response and then a refusal.
TypeOK ==
  /\ resuming = Cardinality(InFlight)
  /\ \A i, j \in DOMAIN out : out[i] = out[j] => i = j
  /\ state \in [Requests -> {"unsent", "accepting", "connecting", "entering", "waiting",
                           "resolved", "rejected", "answered", "failed", "stayed"}]
  /\ session \in {"none", "starting", "killed", "attached", "aborted"}
  /\ holds \in Nat /\ holding \in BOOLEAN
  /\ deferred \in Seq(StateEvents)
  /\ terminated \in BOOLEAN
  /\ out \in Seq(Messages)
  /\ arrived \in Seq(StateEvents)
  /\ caused \subseteq Movers
  /\ hasty \in BOOLEAN

Init ==
  /\ state = [r \in Requests |-> "unsent"]
  /\ session = "none"
  /\ resuming = 0 /\ holding = FALSE /\ deferred = <<>> /\ holds = 0
  /\ terminated = FALSE
  /\ out = <<>> /\ arrived = <<>> /\ caused = {} /\ hasty = FALSE

Waiting == {r \in Requests : state[r] = "waiting"}

\* The session has settled the request: the continuation is a microtask.
Settling == {r \in Requests : state[r] \in {"resolved", "rejected"}}
Sent(msg) == \E i \in DOMAIN out : out[i] = msg

-----------------------------------------------------------------------------
(* State events and the end of a resume                                     *)

\* Wrong: only the in-flight response is waited for.
HeldWhileResuming == resuming > 0
Held == resuming > 0 \/ holding

\* #stateEvent(): out at once, or held back.
StateEvent(ev) ==
  /\ arrived' = Append(arrived, ev)
  /\ IF Held
     THEN deferred' = Append(deferred, ev) /\ UNCHANGED out
     ELSE out' = Append(out, ev) /\ UNCHANGED deferred

\* Wrong: no `finally`, so an error skips the hold.
HoldAfterSuccess(ok) == ok /\ resuming = 1
HoldStarts(ok) == resuming = 1

\* The response (or error response) of a resume, and the end of #resume():
\* the last one in flight starts the hold.
EndResume(r, ok) ==
  /\ state' = [state EXCEPT ![r] = IF ok THEN "answered" ELSE "failed"]
  /\ out' = Append(out, Response(r))
  /\ resuming' = resuming - 1
  /\ IF HoldStarts(ok)
     THEN holding' = TRUE /\ holds' = holds + 1
     ELSE UNCHANGED <<holding, holds>>
  /\ UNCHANGED deferred

Answer(r, ok) ==
  IF r \in Resumes THEN EndResume(r, ok)
  ELSE /\ state' = [state EXCEPT ![r] = IF ok THEN "answered" ELSE "failed"]
       /\ out' = Append(out, Response(r))
       /\ UNCHANGED hold

\* The deferred function: whatever is held goes out.  Microtasks run first.
HoldOver ==
  /\ holds > 0 /\ Settling = {}
  /\ holds' = holds - 1
  /\ holding' = FALSE
  /\ out' = out \o deferred
  /\ deferred' = <<>>
  /\ UNCHANGED <<state, session, resuming, terminated, arrived, caused, hasty>>

-----------------------------------------------------------------------------
(* The client                                                               *)

\* A patient client has the stop of every resume it sent; after one that failed
\* it lets the hold go by.
Over(q) == state[q] \in {"unsent", "stayed"} \/ Sent(Stopped(q)) \/ (state[q] = "failed" /\ holds = 0)

\* Wrong: the request is not counted on the way in.
NotCounted(r) == resuming
CountIn(r) == IF r \in Resumes THEN resuming + 1 ELSE resuming

\* 'disconnect' and 'terminate' are the last a client sends.
Leaving == \E r \in Disconnects : state[r] # "unsent"

\* A request that goes to the session: without one, or on a closed connection,
\* it is rejected at once.  A client offers to resume, and ends the
\* configuration, when it has seen 'initialized'.
Forward(r) ==
  /\ state[r] = "unsent" /\ r \in Resumes \cup Queries /\ ~Leaving
  /\ r \in Resumes => Sent(Initialized)
  /\ hasty' = (hasty \/ (r \in Resumes /\ \E q \in Movers : ~Over(q)))
  /\ state' = [state EXCEPT ![r] = IF session = "attached" THEN "waiting" ELSE "rejected"]
  /\ resuming' = CountIn(r)
  /\ UNCHANGED <<session, holding, deferred, holds, terminated, out, arrived, caused>>

\* configurationDone: the response, then either the entry stop is reported, or
\* the engine is sent a continue nobody waits for.  On a closed connection request()
\* throws before there is a promise to catch on, and dispatch() answers again.
Configure(r, stopOnEntry) ==
  /\ state[r] = "unsent" /\ r \in Configurations
  /\ Sent(Initialized) /\ ~Leaving
  /\ \E how \in {"stayed", "answered", "failed"} :
       /\ how = "stayed" <=> stopOnEntry
       /\ how = "failed" <=> ~stopOnEntry /\ session = "aborted"
       /\ state' = [state EXCEPT ![r] = how]
       /\ out' = out \o <<Response(r)>> \o (CASE how = "stayed" -> <<EntryStop(r)>>
                                           [] how = "failed" -> <<Refusal(r)>>
                                           [] how = "answered" -> <<>>)
  /\ UNCHANGED <<session, hold, terminated, arrived, caused, hasty>>

-----------------------------------------------------------------------------
(* The start of a session: launchEngine() and onAttach()                    *)

\* launch, attach: a client sends one of them, once.  It listens for the engine,
\* connects to it, or fails at once (no program, an address in use).
Start(r) ==
  /\ state[r] = "unsent" /\ r \in Starts
  /\ session = "none" /\ ~Leaving
  /\ \E how \in {"accepting", "connecting", "rejected"} :
       /\ state' = [state EXCEPT ![r] = how]
       /\ session' = IF how = "rejected" THEN "aborted" ELSE "starting"
  /\ UNCHANGED <<hold, terminated, out, arrived, caused, hasty>>

InStart == session \in {"starting", "killed"}

\* There is a connection: the entry stop is awaited.
Connected(r) ==
  /\ InStart /\ state[r] \in {"accepting", "connecting"}
  /\ state' = [state EXCEPT ![r] = "entering"]
  /\ UNCHANGED <<session, hold, terminated, out, arrived, caused, hasty>>

\* connect() has tried often enough, or accept() fails.
GiveUp(r) ==
  /\ InStart /\ state[r] \in {"accepting", "connecting"}
  /\ session' = "aborted"
  /\ Answer(r, FALSE)
  /\ UNCHANGED <<terminated, arrived, caused, hasty>>

Succeed(r) ==
  /\ state' = [state EXCEPT ![r] = "answered"]
  /\ out' = out \o <<Initialized, Response(r)>>
  /\ UNCHANGED hold

\* The engine stopped at entry: the session is handed to the adapter, the
\* request answered.
Started(r) ==
  /\ InStart /\ state[r] = "entering"
  /\ session' = "attached"
  /\ Succeed(r)
  /\ UNCHANGED <<terminated, arrived, caused, hasty>>

\* Nobody will come any more: accept() has no timeout, and an abort does not end
\* waitEvent(), which onAttach() awaits.
Stranded(r) ==
  /\ session = "aborted"
  /\ state[r] = "accepting" \/ (state[r] = "entering" /\ r \in Attaches)

\* The program is gone, or its connection, before it stopped at entry.
\* launchEngine() notices the end of a connection: #terminated() takes the session
\* away, so that attachSession() throws; but not when a disconnect had killed the
\* program before there was a session: then the launch succeeds with a dead one.
StartLost(r) ==
  /\ InStart /\ state[r] \in {"accepting", "entering"}
  /\ session' = "aborted"
  /\ IF state[r] = "accepting" \/ r \in Attaches
     THEN UNCHANGED <<state, hold, out>>
     ELSE IF session = "killed" THEN Succeed(r) ELSE Answer(r, FALSE)
  /\ UNCHANGED <<terminated, arrived, caused, hasty>>

-----------------------------------------------------------------------------
(* The session                                                              *)

\* sendTerminated(): for the engine's message and for the abort alike.
SendTerminated ==
  /\ terminated' = TRUE
  /\ IF terminated THEN UNCHANGED <<deferred, out, arrived>> ELSE StateEvent(Terminated)

EngineAnswers(r) ==
  /\ session = "attached" /\ state[r] = "waiting"
  /\ \E how \in {"resolved", "rejected"} :
       /\ how = "rejected" => r \notin caused
       /\ state' = [state EXCEPT ![r] = how]
  /\ UNCHANGED <<session, hold, terminated, out, arrived, caused, hasty>>

\* The stop of a request the engine has, or has answered; the entry stop itself
\* is not passed on.
EngineStops(r) ==
  /\ session = "attached" /\ r \in Movers \ caused
  /\ state[r] \in {"waiting", "resolved", "answered"}
  /\ caused' = caused \cup {r}
  /\ StateEvent(Stopped(r))
  /\ UNCHANGED <<state, session, resuming, holding, holds, terminated, hasty>>

EngineTerminates ==
  /\ session = "attached" /\ ~terminated
  /\ SendTerminated
  /\ UNCHANGED <<state, session, resuming, holding, holds, caused, hasty>>

\* Wrong: the requests in flight are left alone.
RejectNone == UNCHANGED state
RejectWaiting == state' = [r \in Requests |-> IF r \in Waiting THEN "rejected" ELSE state[r]]

\* The connection closes: abort() rejects what is in flight, then tells.
Abort ==
  /\ session = "attached"
  /\ session' = "aborted"
  /\ RejectWaiting
  /\ SendTerminated
  /\ UNCHANGED <<resuming, holding, holds, caused, hasty>>

\* The continuation of a settled request: the response or an error response.
Continuation(r) ==
  /\ r \in Settling
  /\ Answer(r, state[r] = "resolved")
  /\ UNCHANGED <<session, terminated, arrived, caused, hasty>>

LaunchAt(place) == session = "starting" /\ \E l \in Launches : state[l] = place

\* disconnect, terminate: the hook kills the program or closes the connection,
\* which aborts the session now or a little later; then the response goes out.  A
\* launch that has no connection yet loses its program and goes on waiting; before
\* the listener is bound there is no program to kill.
Disconnect(r) ==
  /\ state[r] = "unsent" /\ r \in Disconnects
  /\ state' = [state EXCEPT ![r] = "answered"]
  /\ out' = Append(out, Response(r))
  /\ \/ session' = "killed" /\ (LaunchAt("accepting") \/ LaunchAt("connecting"))
     \/ UNCHANGED session /\ ~LaunchAt("connecting")
  /\ UNCHANGED <<hold, terminated, arrived, caused, hasty>>

-----------------------------------------------------------------------------
Engine(r) == EngineAnswers(r) \/ EngineStops(r)
Reached(r) == Connected(r) \/ GiveUp(r) \/ Started(r) \/ StartLost(r)

Next ==
  \/ \E r \in Requests : \/ Forward(r) \/ Start(r) \/ Reached(r) \/ Disconnect(r)
                         \/ Continuation(r) \/ Engine(r)
                         \/ \E stopOnEntry \in BOOLEAN : Configure(r, stopOnEntry)
  \/ EngineTerminates \/ Abort \/ HoldOver

Spec == Init /\ [][Next]_vars

\* Timers fire and continuations run; an engine that is waited for connects and
\* reaches its entry point, or is gone; a running one answers or the connection goes.
Fairness ==
  /\ WF_vars(HoldOver)
  /\ \A r \in Requests :
       /\ WF_vars(Continuation(r))
       /\ WF_vars(EngineAnswers(r) \/ Abort)
       /\ WF_vars(Reached(r))

FairSpec == Spec /\ Fairness

-----------------------------------------------------------------------------
(* Properties                                                               *)

\* Of the state events that came, this many have been sent; the rest are held.
Seen == Len(arrived) - Len(deferred)

\* Holding events back never reorders them, and never loses or repeats one: what
\* the client has seen and what is held, together, is what came (95-98, 110-113).
\* And it serves its purpose: "the response to continue/next/stepIn/stepOut/pause
\* must precede the 'stopped'/'terminated' it causes, but the engine reports the
\* stop first" (91-94), for a client that waits for one stop before it resumes
\* again; the hold of a resume lets out the stop of the next.
EventsInOrder ==
  /\ Seen \in Nat
  /\ \A i \in DOMAIN deferred : deferred[i] = arrived[Seen + i]
  /\ \A i \in 1 .. Seen : Sent(arrived[i])
  /\ \A p \in DOMAIN out : out[p] \in StateEvents => \E i \in 1 .. Seen : out[p] = arrived[i]
  /\ \A p, q \in DOMAIN out : \A i, j \in 1 .. Seen :
       p < q /\ out[p] = arrived[i] /\ out[q] = arrived[j] => i < j
  /\ ~hasty => \A r \in Resumes : Sent(Stopped(r)) => Sent(Response(r))

\* Every request is answered, whatever happens to the engine (137-263), except a
\* launch or an attach that listens for an engine that never comes, and an attach
\* whose engine goes away before it stopped at entry.
RequestsAnswered ==
  \A r \in Requests : state[r] # "unsent" ~> Sent(Response(r)) \/ Stranded(r)

\* Every state event reaches the client in the end.
EventsReachTheClient == [](deferred # <<>> => <>(deferred = <<>>))

\* A request is with the session only while there is one that can answer it or be
\* aborted; a start waits for one that is being started, or is stranded.
InHand ==
  /\ \A r \in Requests : state[r] = "waiting" => session = "attached"
  /\ \A r \in Requests : state[r] \in Starting => InStart \/ Stranded(r)

\* Nothing waits in vain, neither a request nor an event that is held back: that needs
\* a resume in flight, or a timer of a hold that is set (vscode-dap.js 91-116).
NoneWaitsInVain == InHand /\ (deferred # <<>> => InFlight # {} \/ holds > 0)

-----------------------------------------------------------------------------
(* The inductive invariant the theorems of DAPAdapter_proofs rest on.  The  *)
(* order of the events needs that each comes once (Reported), that held     *)
(* ones wait for something (Kept), that a response is out exactly when its  *)
(* request is over (Responded), and that the hold of a patient client's     *)
(* resume ends before the next is in flight (Patient).                      *)

Counted == IsFiniteSet(InFlight)

Responded ==
  \A r \in Requests : Sent(Response(r)) <=> state[r] \in {"answered", "failed", "stayed"}

Announced ==
  /\ Sent(Initialized) => session \in {"attached", "aborted"}
  /\ \A r \in Configurations : Sent(EntryStop(r)) => state[r] = "stayed"
  /\ \A r \in Configurations : Sent(Refusal(r)) => state[r] = "failed"

Reported ==
  /\ \A i \in DOMAIN arrived : \/ arrived[i] = Terminated /\ terminated
                               \/ \E r \in caused : arrived[i] = Stopped(r)
  /\ \A i, j \in DOMAIN arrived : arrived[i] = arrived[j] => i = j
  /\ \A r \in caused : state[r] \in {"waiting", "resolved", "rejected", "answered", "failed"}

Kept == deferred # <<>> => Held

Patient ==
  ~hasty /\ holds > 0 =>
    /\ resuming = 0 /\ holding /\ holds = 1
    /\ \E q \in Resumes : state[q] \in {"answered", "failed"} /\ ~Sent(Stopped(q))

\* Why nothing waits in vain: only a launch or an attach starts a session, one at a time,
\* and a hold has its timer.
Awaited ==
  /\ InHand
  /\ \A r \in Requests : state[r] \in Starting => r \in Starts
  /\ \A q, r \in Requests : state[q] \in Starting /\ state[r] \in Starting => q = r
  /\ holding => holds > 0

IInv == TypeOK /\ EventsInOrder /\ Counted /\ Responded /\ Announced /\ Reported /\ Kept /\ Patient
=============================================================================
