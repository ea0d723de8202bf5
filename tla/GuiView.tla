------------------------------ MODULE GuiView ------------------------------
(***************************************************************************)
(* gui/main.js and gui/toolbar.js: the views of the GUI over a debugger they *)
(* share with a console.  The controller asks the engine for variables,       *)
(* children and displays and notes under which snapshot number it asked;      *)
(* buttons execute commands at once, console lines one after the other.       *)
(*                                                                          *)
(* One section of variables stands for the three, which are fetched alike,    *)
(* and one reference for all rows that can be expanded.  What the engine says  *)
(* of a variable is named by the pause it says it in.  Everything the GUI     *)
(* asks is answered in the order it was asked; a program that runs answers a   *)
(* question with an error, or when it stops.  Drawing is left out.             *)
(***************************************************************************)
EXTENDS Naturals, Sequences, Functions

CONSTANTS
  Words,        \* the commands that may be given
  Overlaps,     \* whether console and toolbar may have commands in progress at once
  MaxCommands, MaxQueue, MaxPauses, MaxDepth, MaxClicks, MaxDisplays \* bounds

AllWords == {"run", "starti", "continue", "print", "frame", "kill"}

ASSUME WordsAssumption == Words \subseteq AllWords /\ Overlaps \in BOOLEAN
ASSUME BoundsAssumption ==
  /\ MaxCommands \in Nat /\ MaxQueue \in Nat /\ MaxPauses \in Nat
  /\ MaxDepth \in Nat \ {0} /\ MaxClicks \in Nat /\ MaxDisplays \in Nat

VARIABLES
  child, session, lost,        \* the debugger: is there a debuggee, a session; has that lost its connection
  stack, stackPause, frame,    \* length of the stack and the pause it is of; the selected frame
  busy, displays,              \* dbg.busy; the numbers of the displays
  commands,                    \* commands executed so far: word, origin, place
  queued, cmdBusy,             \* lines in #cmdQueue; #cmdBusy
  told,                        \* the last event the debugger told of
  vars, varsSeq,               \* the variables shown, and the number of their snapshot
  kids, expanded,              \* the children of the reference; is it expanded
  values, dispSeq,             \* the values shown beside the displays
  engine, pause, wire, inbox,  \* the engine, its pauses, what it has not read, what it has said
  clicks, nextDisplay          \* clicks so far; dbg.nextDisplayNum

debugger == <<child, session, lost, stack, stackPause, frame>>
control  == <<busy, commands, queued, cmdBusy>>
shown    == <<vars, varsSeq, kids, expanded, values, dispSeq>>
link     == <<engine, pause, wire, inbox>>
clicking == <<clicks, displays, nextDisplay>>
all == <<debugger, control, shown, told, link, clicking>>

Places == {"launch", "entry", "entered", "running", "stopped", "stack", "judge", "eval", "hung", "over"}
Command == [word : Words, from : {"console", "toolbar"}, place : Places]
View == [is : {"nothing", "pending", "gone", "said"}, seq : Nat, pause : 0 .. MaxPauses]
Ask == [what : {"vars", "kids", "values", "stack", "eval", "resume"}, seq : Nat]

\* The selected frame is one of the stack; there is no stack without a session.
TypeOK ==
  /\ child \in BOOLEAN /\ session \in BOOLEAN /\ lost \in BOOLEAN
  /\ stack \in 0 .. MaxDepth /\ stackPause \in 0 .. MaxPauses
  /\ (frame = 0 \/ frame \in 1 .. stack - 1)
  /\ (stack > 0 => session) /\ (session => child)
  /\ busy \in BOOLEAN /\ displays \subseteq 1 .. MaxDisplays
  /\ commands \in Seq(Command)
  /\ queued \in 0 .. MaxQueue /\ cmdBusy \in BOOLEAN
  /\ told \in {"none", "running", "stopped", "exited"}
  /\ vars \in View /\ kids \in View /\ values \in View
  /\ varsSeq \in Nat /\ dispSeq \in Nat /\ expanded \in BOOLEAN
  /\ engine \in {"none", "running", "halted"} /\ pause \in 0 .. MaxPauses
  /\ wire \in Seq(Ask)
  /\ clicks \in 0 .. MaxClicks /\ nextDisplay \in 1 .. MaxDisplays + 1

Nothing == [is |-> "nothing", seq |-> 0, pause |-> 0]
Pending == [Nothing EXCEPT !.is = "pending"]
Gone == [Nothing EXCEPT !.is = "gone"]
Says(seq, p) == [is |-> "said", seq |-> seq, pause |-> p]

Init ==
  /\ child = FALSE /\ session = FALSE /\ lost = FALSE
  /\ stack = 0 /\ stackPause = 0 /\ frame = 0
  /\ busy = FALSE /\ displays = {} /\ commands = <<>> /\ queued = 0 /\ cmdBusy = FALSE
  /\ told = "none" /\ vars = Nothing /\ varsSeq = 0 /\ kids = Nothing /\ expanded = FALSE
  /\ values = Nothing /\ dispSeq = 0
  /\ engine = "none" /\ pause = 0 /\ wire = <<>> /\ inbox = <<>>
  /\ clicks = 0 /\ nextDisplay = 1

Ids == DOMAIN commands
Place(c) == commands[c].place
At(place) == {c \in Ids : Place(c) = place}
InProgress == {c \in Ids : Place(c) \notin {"over", "hung"}}
Resuming == {c \in Ids : Place(c) \in {"running", "stopped", "stack", "judge"}}
Connected == session /\ ~lost

\* Promise callbacks that are due run before anything else happens.
Settled == At("stopped") \cup At("entered") = {}

Question(what, seq) == [what |-> what, seq |-> seq]
Asked(questions) == IF Connected THEN wire \o questions ELSE wire

\* C go on to a place; where that is "over", execute() ends, and with it, for a
\* line of the console, #cmdBusy.
Moved(C, place) == [c \in Ids |-> IF c \in C THEN [commands[c] EXCEPT !.place = place] ELSE commands[c]]
Goes(C, place) ==
  /\ commands' = Moved(C, place)
  /\ busy' = (busy /\ (C = {} \/ place # "over"))
  /\ cmdBusy' = (cmdBusy /\ (place # "over" \/ \A c \in C : commands[c].from # "console"))

-----------------------------------------------------------------------------
(* The controller's snapshots                                               *)

\* Wrong: whatever comes is shown.
Whatever(a) == TRUE
Newest(a) == a.seq = IF a.what = "values" THEN dispSeq ELSE varsSeq

\* #onDebugEvent() but for 'stopped'.
Reset(kind) ==
  /\ told' = kind
  /\ vars' = Nothing /\ kids' = Nothing /\ expanded' = FALSE /\ values' = Nothing
  /\ varsSeq' = varsSeq + 1 /\ dispSeq' = dispSeq + 1

\* refreshDisplays() sends this, if there is something to evaluate.
AskValues == IF displays # {} THEN <<Question("values", dispSeq + 1)>> ELSE <<>>

\* #refreshVars() for a stack of n frames.
RefreshVars(n) ==
  /\ kids' = Nothing /\ expanded' = FALSE
  /\ IF session /\ n > 0
     THEN /\ varsSeq' = varsSeq + 1
          /\ vars' = IF lost THEN Gone ELSE Pending
          /\ values' = IF lost /\ displays # {} THEN Gone ELSE Nothing
          /\ dispSeq' = dispSeq + Len(AskValues)
          /\ wire' = Asked(<<Question("vars", varsSeq + 1)>> \o AskValues)
     ELSE vars' = Nothing /\ values' = Nothing /\ UNCHANGED <<varsSeq, dispSeq, wire>>

\* Wrong: a failure leaves the section as it was.
Unheard(asks, v, what) == v
\* The catch handlers of what was asked.
Failed(asks, v, what) == IF \E a \in asks : a.what = what /\ Newest(a) THEN Gone ELSE v

Reject(asks) ==
  /\ vars' = Failed(asks, vars, "vars")
  /\ kids' = Failed(asks, kids, "kids")
  /\ values' = Failed(asks, values, "values")
  /\ UNCHANGED <<varsSeq, dispSeq, expanded>>

Outstanding == {a \in Range(wire) \cup Range(inbox) : a.what \notin {"resume", "stop", "closed"}}

-----------------------------------------------------------------------------
(* The debugger's commands                                                  *)

\* Wrong: the stack is left to be drawn.
ForgetButStack ==
  /\ child' = FALSE /\ session' = FALSE /\ lost' = FALSE
  /\ UNCHANGED <<stack, stackPause, frame>>
\* Nothing is left of the debuggee; the connection is closed.
Forget ==
  /\ child' = FALSE /\ session' = FALSE /\ lost' = FALSE
  /\ stack' = 0 /\ frame' = 0 /\ UNCHANGED stackPause
Hangup == engine' = "none" /\ wire' = <<>> /\ inbox' = <<>> /\ UNCHANGED pause

\* The commands that end with the connection.
Ended == At("entry") \cup At("running") \cup At("stack") \cup At("eval")

\* onEvent('running') and the request of #resumeOnce().
SendResume ==
  /\ Reset("running") /\ wire' = Append(wire, Question("resume", 0))
  /\ UNCHANGED <<debugger, engine, pause, inbox>>

\* On a lost connection #terminated() follows at once.
Exit == Reset("exited") /\ Forget /\ Hangup

\* A command is executed up to its first await, `place`; if kills, the commands
\* that wait on the connection end, and launches wait on for a debuggee that is
\* gone (accept() has no timeout).
Executed(w, from, place, kills) ==
  LET over == IF kills THEN Ended ELSE {} IN
  /\ commands' = Append([c \in Ids |->
        IF c \in over THEN [commands[c] EXCEPT !.place = "over"]
        ELSE IF kills /\ Place(c) = "launch" THEN [commands[c] EXCEPT !.place = "hung"]
        ELSE commands[c]], [word |-> w, from |-> from, place |-> place])
  /\ busy' = (place # "over" /\ over = {})
  /\ cmdBusy' = \/ from = "console" /\ place # "over"
                \/ cmdBusy /\ \A c \in over : commands[c].from # "console"

Refused(w) ==
  \/ w = "continue" /\ ~session
  \/ w = "kill" /\ ~child
  \/ w \in {"print", "frame"} /\ (~session \/ stack = 0)

\* #start(), with the cmdKill() of a session there is.
Run(w, from) ==
  /\ Reset("running") /\ Hangup
  /\ Executed(w, from, "launch", TRUE)
  /\ child' = TRUE /\ session' = FALSE /\ lost' = FALSE
  /\ stack' = (IF session THEN 0 ELSE stack) /\ frame' = (IF session THEN 0 ELSE frame)
  /\ UNCHANGED stackPause

Continue(from) ==
  \/ Connected /\ SendResume /\ Executed("continue", from, "running", FALSE)
  \/ lost /\ Exit /\ Executed("continue", from, "over", TRUE)

Evaluate(from) ==
  /\ wire' = Asked(<<Question("eval", Len(commands) + 1)>>)
  /\ Executed("print", from, IF lost THEN "over" ELSE "eval", FALSE)
  /\ UNCHANGED <<debugger, shown, told, engine, pause, inbox>>

\* cmdFrame(): the views are not refreshed.
Frame(from) ==
  /\ frame' \in 0 .. stack - 1
  /\ Executed("frame", from, "over", FALSE)
  /\ UNCHANGED <<child, session, lost, stack, stackPause, shown, told, link>>

\* cmdKill(): no event is told of.
Kill(from) ==
  /\ Forget /\ Hangup /\ Reject(Outstanding)
  /\ Executed("kill", from, "over", TRUE)
  /\ UNCHANGED told

Execute(w, from) ==
  \/ Refused(w) /\ Executed(w, from, "over", FALSE) /\ UNCHANGED <<debugger, shown, told, link>>
  \/ w \in {"run", "starti"} /\ Run(w, from)
  \/ /\ ~Refused(w)
     /\ \/ w = "continue" /\ Continue(from)
        \/ w = "print" /\ Evaluate(from)
        \/ w = "frame" /\ Frame(from)
        \/ w = "kill" /\ Kill(from)

-----------------------------------------------------------------------------
(* Who gives commands                                                       *)

Fits(w) == Overlaps \/ w = "kill" \/ InProgress = {}

\* Wrong: the buttons do not look at `busy`.
Always == TRUE
Idle == ~busy

\* "Is the target stopped at a frame (resuming commands make sense)?"
Stopped == session /\ Idle /\ stack > 0

Enabled(w) ==
  \/ w = "run" /\ Idle
  \/ w = "continue" /\ Stopped
  \/ w = "starti" /\ ~child /\ Idle
  \/ w = "kill" /\ child

Press(w) ==
  /\ Settled /\ Len(commands) < MaxCommands
  /\ Enabled(w) /\ Fits(w) /\ Execute(w, "toolbar")
  /\ UNCHANGED <<queued, clicking>>

\* submitCommand(); what the line says is chosen when its turn comes.
Submit ==
  /\ Settled /\ queued < MaxQueue
  /\ queued' = queued + 1
  /\ UNCHANGED <<debugger, busy, commands, cmdBusy, shown, told, link, clicking>>

\* #drainCommands()
Drain(w) ==
  /\ Settled /\ queued > 0 /\ ~cmdBusy /\ Len(commands) < MaxCommands
  /\ Fits(w) /\ Execute(w, "console") /\ queued' = queued - 1
  /\ UNCHANGED clicking

-----------------------------------------------------------------------------
(* Commands from await to await                                             *)

Idling == UNCHANGED <<queued, clicking>>

\* The debuggee connects; it will stop at its entry.
Connects(c) ==
  /\ Settled /\ Place(c) = "launch"
  /\ session' = TRUE /\ engine' = "running" /\ Goes({c}, "entry")
  /\ UNCHANGED <<child, lost, stack, stackPause, frame, shown, told, pause, wire, inbox>> /\ Idling

\* #start() after the entry stop: run goes on.
Entered(c) ==
  /\ Place(c) = "entered" /\ commands[c].word = "run"
  /\ SendResume /\ Goes({c}, "running") /\ Idling

\* The stack is asked for.
AskStack(c) ==
  /\ Place(c) = "stopped" \/ (Place(c) = "entered" /\ commands[c].word = "starti")
  /\ wire' = Asked(<<Question("stack", c)>>) /\ Goes({c}, "stack")
  /\ UNCHANGED <<debugger, shown, told, engine, pause, inbox>> /\ Idling

\* #onStopped() with a stack of n frames, and what the GUI does about it: one run
\* without an await.
OnStopped(c, n) ==
  /\ told' = "stopped" /\ frame' = 0 /\ RefreshVars(n)
  /\ Goes({c}, "over")

\* #nextStop() has awaited what it had to of watches and conditions.
Report(c) ==
  /\ Settled /\ Place(c) = "judge"
  /\ OnStopped(c, stack)
  /\ UNCHANGED <<child, session, lost, stack, stackPause, engine, pause, inbox>> /\ Idling

\* A condition is false, or a step of a watched continue: #resumeOnce() again.
PassOver(c) ==
  /\ Settled /\ Place(c) = "judge"
  /\ \/ Connected /\ SendResume /\ Goes({c}, "running")
     \/ lost /\ Exit /\ Goes({c}, "over")
     \/ ~session /\ Reset("running") /\ Goes({c}, "over") /\ UNCHANGED <<debugger, link>>
  /\ Idling

-----------------------------------------------------------------------------
(* Clicks                                                                   *)

Clicks ==
  /\ Settled /\ clicks < MaxClicks /\ clicks' = clicks + 1
  /\ UNCHANGED <<child, session, lost, stack, stackPause, control, told, engine, pause, inbox>>

\* A row of the stack, which is drawn while the program runs as well.
SelectFrame(i) ==
  /\ Clicks
  /\ i < stack /\ i # frame /\ frame' = i
  /\ RefreshVars(stack)
  /\ UNCHANGED <<displays, nextDisplay>>

\* cmdDisplay() and refreshDisplays()
AddWatch ==
  /\ Clicks /\ nextDisplay <= MaxDisplays
  /\ displays' = displays \cup {nextDisplay} /\ nextDisplay' = nextDisplay + 1
  /\ IF session /\ stack > 0
     THEN /\ dispSeq' = dispSeq + 1 /\ wire' = Asked(<<Question("values", dispSeq + 1)>>)
          /\ values' = IF lost THEN Gone ELSE values
     ELSE values' = Nothing /\ UNCHANGED <<dispSeq, wire>>
  /\ UNCHANGED <<frame, vars, varsSeq, kids, expanded>>

RemoveWatch(n) ==
  /\ Clicks /\ n \in displays /\ displays' = displays \ {n}
  /\ UNCHANGED <<nextDisplay, frame, shown, wire>>

\* A row that can be expanded; it may be of the drawing before the last event.
ToggleVar ==
  /\ Clicks /\ stackPause > 0
  /\ expanded' = ~expanded
  /\ IF ~expanded /\ kids = Nothing
     THEN /\ kids' = IF lost THEN Gone ELSE Pending
          /\ wire' = Asked(<<Question("kids", varsSeq)>>)
     ELSE UNCHANGED <<kids, wire>>
  /\ UNCHANGED <<displays, nextDisplay, frame, vars, varsSeq, values, dispSeq>>

-----------------------------------------------------------------------------
(* The engine (external)                                                    *)

EngineOnly == Settled /\ UNCHANGED <<debugger, control, shown, told, clicking>>

Serve ==
  /\ EngineOnly /\ wire # <<>> /\ wire' = Tail(wire)
  /\ LET q == Head(wire) IN
     \/ /\ q.what = "resume" /\ engine = "halted"
        /\ engine' = "running" /\ UNCHANGED inbox
     \/ /\ q.what # "resume" /\ engine # "none"
        /\ inbox' = Append(inbox, [what |-> q.what, seq |-> q.seq,
                                    pause |-> IF engine = "halted" THEN pause ELSE 0])
        /\ UNCHANGED engine
  /\ UNCHANGED pause

Halts ==
  /\ EngineOnly /\ engine = "running" /\ pause < MaxPauses
  /\ engine' = "halted" /\ pause' = pause + 1
  /\ inbox' = Append(inbox, [what |-> "stop", seq |-> 0, pause |-> pause + 1])
  /\ UNCHANGED wire

Dies ==
  /\ EngineOnly /\ engine # "none"
  /\ engine' = "none" /\ inbox' = Append(inbox, [what |-> "closed", seq |-> 0, pause |-> 0])
  /\ UNCHANGED <<pause, wire>>

-----------------------------------------------------------------------------
(* What the engine said arrives                                             *)

Deliver == Settled /\ inbox # <<>> /\ Idling
Next_ == inbox' = Tail(inbox) /\ UNCHANGED <<engine, pause, wire>>

\* The stop resolves every waiter.
DeliverStop ==
  /\ Deliver /\ Head(inbox).what = "stop" /\ Next_
  /\ commands' = [c \in Ids |->
        CASE Place(c) = "running" -> [commands[c] EXCEPT !.place = "stopped"]
          [] Place(c) = "entry" -> [commands[c] EXCEPT !.place = "entered"]
          [] OTHER -> commands[c]]
  /\ UNCHANGED <<debugger, busy, cmdBusy, shown, told>>

\* pause 0: the engine refused.
Answer(a) == IF a.pause = 0 THEN Gone ELSE Says(a.seq, a.pause)

DeliverAnswer ==
  /\ Deliver /\ Head(inbox).what \in {"vars", "kids", "values"} /\ Next_
  /\ LET a == Head(inbox) IN
     /\ vars' = IF a.what = "vars" /\ Newest(a) THEN Answer(a) ELSE vars
     /\ kids' = IF a.what = "kids" /\ Newest(a) THEN Answer(a) ELSE kids
     /\ values' = IF a.what = "values" /\ Newest(a) THEN Answer(a) ELSE values
  /\ UNCHANGED <<varsSeq, dispSeq, expanded, debugger, control, told>>

\* #nextStop() has its stack and judges the stop; starti reports it at once.
GetStack(a, n) ==
  /\ stack' = n /\ stackPause' = a.pause /\ UNCHANGED <<child, session, lost>>
  /\ \/ /\ commands[a.seq].word # "starti" /\ frame' = 0
        /\ Goes({a.seq}, "judge") /\ UNCHANGED <<shown, told, wire>>
     \/ commands[a.seq].word = "starti" /\ OnStopped(a.seq, n)

\* The stack has come, or a print's value; an error ends the command.
DeliverResult ==
  /\ Deliver /\ inbox' = Tail(inbox) /\ UNCHANGED <<engine, pause>>
  /\ LET a == Head(inbox) IN
     \/ a.what = "stack" /\ a.pause > 0 /\ \E n \in 1 .. MaxDepth : GetStack(a, n)
     \/ /\ a.what = "eval" \/ (a.what = "stack" /\ a.pause = 0)
        /\ Goes({a.seq}, "over") /\ UNCHANGED <<debugger, shown, told, wire>>

\* abort() and the race of #closed: a resuming command goes on to #terminated(),
\* others fail.
DeliverClose ==
  /\ Deliver /\ Head(inbox).what = "closed"
  /\ IF At("running") \cup At("entry") # {} THEN Exit
     ELSE /\ lost' = TRUE /\ Reject(Outstanding) /\ Hangup
          /\ UNCHANGED <<child, session, stack, stackPause, frame, told>>
  /\ Goes(Ended, "over")

-----------------------------------------------------------------------------
Continuation == \E c \in Ids : Entered(c) \/ AskStack(c) \/ Report(c) \/ PassOver(c)

Delivery == DeliverStop \/ DeliverAnswer \/ DeliverResult \/ DeliverClose

Next ==
  \/ \E w \in Words : Press(w) \/ Drain(w)
  \/ Submit \/ Continuation \/ (\E c \in Ids : Connects(c))
  \/ (\E i \in 0 .. MaxDepth - 1 : SelectFrame(i))
  \/ AddWatch \/ (\E n \in 1 .. MaxDisplays : RemoveWatch(n)) \/ ToggleVar
  \/ Serve \/ Halts \/ Dies \/ Delivery

Spec == Init /\ [][Next]_all

\* The event loop; an engine that is stopped answers what it is asked, or dies.
FairSpec ==
  /\ Spec
  /\ WF_all(Continuation) /\ WF_all(Delivery)
  /\ WF_all(engine = "halted" /\ Serve)

-----------------------------------------------------------------------------
(* Properties                                                               *)

\* Said in the pause whose stack is shown, for a snapshot numbered so far.
OfThisPause(v) == v.is = "said" => v.pause = stackPause
Current(v, seq) == v.is = "said" => v.seq = seq

\* While the GUI shows a stop, everything it shows was said in the pause whose
\* stack it shows, and for the snapshot asked for last: no late answer, of a
\* pause before, of another frame, or to a row clicked in an old drawing, comes
\* to be seen ("variablesReferences are only valid within one pause", main.js 121,
\* 65-67, 135-145, 163-173, 201-208).  Beside the displays, the values before stay
\* until those for a display that was added are there (addWatch, main.js 177-183).
ShownIsCurrent ==
  (told = "stopped" /\ stack > 0) =>
    /\ OfThisPause(vars) /\ OfThisPause(kids) /\ OfThisPause(values)
    /\ Current(vars, varsSeq) /\ Current(kids, varsSeq)
    /\ Current(values, dispSeq) \/ \E a \in Outstanding : a.what = "values" /\ a.seq = dispSeq

\* "Is the target stopped at a frame (resuming commands make sense)?"
\* (toolbar.js 22): it offers to continue only while no resume is on its way.
ToolbarTells == Stopped => Resuming = {} /\ engine # "running"

\* The least of it: what it takes for a stopped target does not run (toolbar.js 22),
\* even if console and toolbar have commands in progress at the same time.
NeverOffersRunning == Stopped => engine # "running"

\* What is awaited at a stop is shown in the end, whether the engine answers,
\* refuses or dies ("panes render 'pending' meanwhile", main.js 117).
PendingIsShown == (told = "stopped" /\ vars = Pending) ~> vars # Pending

\* At any moment it can still be: the variables that are pending were asked for under
\* the newest number and no answer to that was thrown away, and there is an engine to
\* answer, or the end of the connection is about to be heard of.
PendingIsAsked ==
  /\ vars = Pending => \E a \in Outstanding : a.what = "vars" /\ a.seq = varsSeq
  /\ Connected => engine # "none" \/ \E a \in Range(inbox) : a.what = "closed"

-----------------------------------------------------------------------------
(* The inductive invariant                                                  *)

Said == [what : {"vars", "kids", "values", "stack", "eval", "stop", "closed"},
         seq : Nat, pause : 0 .. MaxPauses]

\* Nothing is on its way where there is no connection; one launch at most waits for it.
Linked ==
  /\ inbox \in Seq(Said)
  /\ (engine # "none" \/ wire # <<>> \/ inbox # <<>> \/ ~Settled) => Connected
  /\ lost => session
  /\ \A c \in At("launch") : child /\ ~session /\ \A d \in At("launch") : c = d

\* One command at a time, and busy tells of it as long as there is a session.
OneCommand ==
  /\ \A c, d \in InProgress : c = d
  /\ (session /\ InProgress # {}) \/ At("launch") # {} => busy

\* What a command waits for: the stop after its resume, the stack, a value.
Token(q) == q.what \in {"resume", "stop", "stack", "eval"}
Waits(q) == CASE q.what = "resume" -> At("running")
              [] q.what = "stop"   -> At("running") \cup At("entry")
              [] OTHER -> At(q.what) \cap {q.seq}

\* That is one thing, and it is waited for.
OneToken ==
  /\ \A i \in DOMAIN wire : Token(wire[i]) =>
       /\ engine # "running" /\ Waits(wire[i]) # {}
       /\ \A j \in DOMAIN wire : Token(wire[j]) => i = j
       /\ \A j \in DOMAIN inbox : ~Token(inbox[j])
  /\ \A i \in DOMAIN inbox : Token(inbox[i]) =>
       /\ engine # "running" /\ Waits(inbox[i]) # {}
       /\ \A j \in DOMAIN inbox : Token(inbox[j]) => i = j
  /\ engine = "running" => At("running") \cup At("entry") # {}

\* While a stop is looked at or shown, the pause does not pass.
PauseHolds ==
  /\ At("launch") \cup At("entry") \cup At("running") # {} => told = "running"
  /\ (told = "stopped" \/ At("judge") # {}) /\ stack > 0 => stackPause = pause
  /\ \A i \in DOMAIN inbox : inbox[i].what = "stack" => inbox[i].pause \in {0, pause}

\* The engine runs, or will when it reads what it was sent.
Resumed == engine = "running" \/ \E i \in DOMAIN wire : wire[i].what = "resume"
ForView(q) == q.what \in {"vars", "kids", "values"}

\* Snapshot numbers only grow; what is asked under the newest comes behind the resume.
Numbered ==
  /\ \A i \in DOMAIN wire : ForView(wire[i]) =>
       /\ wire[i].seq <= IF wire[i].what = "values" THEN dispSeq ELSE varsSeq
       /\ Newest(wire[i]) => \A j \in DOMAIN wire : wire[j].what = "resume" => j < i
  /\ \A i \in DOMAIN inbox : ForView(inbox[i]) =>
       inbox[i].seq <= IF inbox[i].what = "values" THEN dispSeq ELSE varsSeq

\* What is said under the newest numbers is said in this pause, and not outdated by a resume.
Fresh ==
  /\ \A i \in DOMAIN inbox : ForView(inbox[i]) /\ Newest(inbox[i]) /\ inbox[i].pause # 0 =>
       inbox[i].pause = pause /\ ~Resumed
  /\ \A v \in {vars, kids, values} : v.is = "said" => v.pause = pause /\ ~Resumed /\ At("launch") = {}
  /\ Current(vars, varsSeq) /\ Current(kids, varsSeq)
  /\ Current(values, dispSeq) \/ \E a \in Outstanding : a.what = "values" /\ a.seq = dispSeq

TInv == TypeOK /\ Linked
IInv == TInv /\ OneCommand /\ OneToken /\ PauseHolds /\ Numbered /\ Fresh
=============================================================================
