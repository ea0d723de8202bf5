------------------------------ MODULE Commands ------------------------------
(***************************************************************************)
(* debugger.js and qjs-debugger.js: command lines, the front ends that read  *)
(* them one by one (batch mode and the REPL), the commands that begin and     *)
(* end a debuggee, and the records and the exit status that tell of it.       *)
(*                                                                          *)
(* Lines are numbered; the debuggee that line n starts is debuggee n, and 0   *)
(* stands for null.  A command runs up to its first await when its line is    *)
(* taken, and in one action from each await to the next.  Debuggees are       *)
(* external: they may end at any moment, before they connect, running or      *)
(* stopped, and the end of their connection is noticed some time later.       *)
(* What #nextStop() does between a stop and its report is in ResumeLoop.      *)
(***************************************************************************)
EXTENDS Naturals, Sequences

CONSTANTS
  Fronts,    \* who reads the lines: of "batch", "repl"
  Modes,     \* how debuggees are reached: "listen", "connect", "external"
  Words,     \* the commands that may be given
  MaxLines,  \* bound on lines
  MaxDepth   \* bound on the length of a stack

AllWords == {"info", "print", "locals", "display", "frame", "interrupt", "continue", "run", "starti",
             "kill", "quit", "quitN"}

ASSUME FrontsAssumption == Fronts \subseteq {"batch", "repl"}
ASSUME ModesAssumption == Modes \subseteq {"listen", "connect", "external"}
ASSUME WordsAssumption == Words \subseteq AllWords
ASSUME BoundsAssumption == MaxLines \in Nat /\ MaxDepth \in Nat \ {0}

Lines == 1 .. MaxLines

VARIABLES
  front, mode, strict, timer,          \* how the program was called
  child, session,                      \* whose process, whose connection and session
  stack, frame,                        \* length of the stack; the selected frame
  lastError, lastStop, exitCode,
  word, pc,                            \* of each line: its command, where that is
  outcome,                             \* of each line: the record its command returned
  proc, link,                          \* of each debuggee: its process, its connection
  lines, input, awaiting,              \* lines read; the input; a command is awaited
  status, failed, exit,                \* of batch mode; the exit status
  records                              \* what was reported

config   == <<front, mode, strict, timer>>
target   == <<child, session, stack, frame, lastStop, exitCode>>
debuggee == <<proc, link>>
reader   == <<word, lines, input, awaiting>>
batch    == <<status, failed>>
vars == <<config, target, lastError, pc, outcome, debuggee, reader, batch, exit, records>>

Places == {"none", "queued", "binding", "connecting", "entry", "running", "stack",
           "report", "eval", "show", "throw", "finish", "over"}
Record == [what : {"stopped", "exited"}, run : Lines, how : {"", "ok", "fails", "killed"}]
            \cup [what : {"result"}, line : Lines, ok : BOOLEAN, state : {"none", "stopped", "exited"}]

\* The selected frame is a frame of the stack at hand.
TypeOK ==
  /\ front \in Fronts /\ mode \in Modes /\ strict \in BOOLEAN /\ timer \in BOOLEAN
  /\ child \in Lines \cup {0} /\ session \in {0, child}
  /\ stack \in 0 .. MaxDepth /\ (frame = 0 \/ frame \in 1 .. stack - 1)
  /\ (stack > 0 => session # 0)
  /\ lastError \in BOOLEAN /\ lastStop \in {"none", "stopped", "exited"}
  /\ exitCode \in {"null", "ok", "fails"}
  /\ word \in [Lines -> Words \cup {"none"}] /\ pc \in [Lines -> Places]
  /\ outcome \in [Lines -> {"none", "stopped", "exited"}]
  /\ proc \in [Lines -> {"none", "alive", "ok", "fails", "killed"}]
  /\ link \in [Lines -> {"none", "running", "stopped", "closed"}]
  /\ lines \in 0 .. MaxLines /\ input \in {"open", "ended"} /\ awaiting \in BOOLEAN
  /\ status \in {"null", "plain", "N"} /\ failed \in BOOLEAN
  /\ exit \in {"none", "0", "1", "N", "124", "fails"}
  /\ records \in Seq(Record)

Init ==
  /\ front \in Fronts /\ mode \in Modes
  /\ strict \in BOOLEAN /\ timer \in BOOLEAN /\ (front = "repl" => ~strict /\ ~timer)
  /\ child = 0 /\ session = 0 /\ stack = 0 /\ frame = 0
  /\ lastError = FALSE /\ lastStop = "none" /\ exitCode = "null"
  /\ word = [n \in Lines |-> "none"] /\ pc = [n \in Lines |-> "none"]
  /\ outcome = [n \in Lines |-> "none"]
  /\ proc = [n \in Lines |-> "none"] /\ link = [n \in Lines |-> "none"]
  /\ lines = 0 /\ input = "open" /\ awaiting = FALSE
  /\ status = "null" /\ failed = FALSE /\ exit = "none" /\ records = <<>>

Goes(n, place) == pc' = [pc EXCEPT ![n] = place]
Open(n) == link[n] \in {"running", "stopped"}

-----------------------------------------------------------------------------
(* Ending a debuggee                                                        *)

\* Wrong: the process is left to itself.
Abandoned == proc
\* child.kill() and child.wait(); an external debuggee is only let go.
Killed ==
  IF child # 0 /\ mode # "external" /\ proc[child] = "alive"
  THEN [proc EXCEPT ![child] = "killed"] ELSE proc

Dropped == IF session # 0 THEN [link EXCEPT ![session] = "closed"] ELSE link

\* Wrong: the stack of the debuggee before is kept.
StackKept == child' = 0 /\ session' = 0 /\ UNCHANGED <<stack, frame>>
NoTarget == child' = 0 /\ session' = 0 /\ stack' = 0 /\ frame' = 0

Told(how) == Append(records, [what |-> "exited", run |-> child, how |-> how])

\* cmdKill() with a debuggee.
CmdKill ==
  /\ proc' = Killed /\ link' = Dropped
  /\ NoTarget /\ lastStop' = "exited" /\ records' = Told("killed")
  /\ UNCHANGED exitCode

KillIfAny ==
  \/ child # 0 /\ CmdKill
  \/ child = 0 /\ UNCHANGED <<target, debuggee, records>>

\* #terminated(): wait() returns the status at once, the process has ended.
Terminated(n) ==
  /\ \/ /\ child # 0
        /\ mode = "external" \/ proc[child] # "alive"
        /\ LET how == IF mode = "external" THEN "ok" ELSE proc[child] IN
             /\ records' = Told(how)
             /\ exitCode' = IF mode = "external" THEN "null" ELSE how
        /\ link' = Dropped
        /\ NoTarget /\ lastStop' = "exited"
     \/ child = 0 /\ UNCHANGED <<target, link, records>>
  /\ outcome' = [outcome EXCEPT ![n] = lastStop']
  /\ UNCHANGED proc

-----------------------------------------------------------------------------
(* Commands, up to their first await.  execute() has reset lastError.        *)

Fails(n) ==
  /\ lastError' = TRUE /\ Goes(n, "finish")
  /\ UNCHANGED <<target, outcome, debuggee, status, exit, records>>

Proceeds(n, place) ==
  /\ lastError' = FALSE /\ Goes(n, place)
  /\ UNCHANGED <<target, outcome, debuggee, status, exit, records>>

\* What there is to say is at hand, or the line is wrong.
Info(n) == Fails(n) \/ Proceeds(n, "finish")

\* The engine is asked for a pause.
Interrupt(n) ==
  \/ session = 0 /\ Fails(n)
  \/ session # 0 /\ Proceeds(n, "finish")

\* #requireStopped() looks at session and stack.
Stopped == session # 0 /\ stack > 0

\* print, info locals, set var.
Evaluate(n) ==
  \/ ~Stopped /\ Fails(n)
  \/ Stopped /\ Proceeds(n, "eval")

\* display with an expression adds it, and shows it if there is a stop.
Display(n) ==
  \/ ~Stopped /\ Info(n)
  \/ Stopped /\ Proceeds(n, "show")

\* frame, up and down.
SelectFrame(n) ==
  \/ Fails(n)
  \/ /\ Stopped /\ frame' \in 0 .. stack - 1
     /\ Goes(n, "finish") /\ lastError' = FALSE
     /\ UNCHANGED <<child, session, stack, lastStop, exitCode, outcome, debuggee, status, exit, records>>

\* #resumeOnce(): the request goes out; on a lost connection it is rejected.
Resumed(n) == IF link[n] = "stopped" THEN [link EXCEPT ![n] = "running"] ELSE link

Resume(n) ==
  \/ session = 0 /\ Fails(n)
  \/ /\ session # 0 /\ link' = Resumed(session)
     /\ Goes(n, "running") /\ lastError' = FALSE
     /\ UNCHANGED <<target, outcome, proc, status, exit, records>>

\* Wrong: the status of the run before is kept.
OldExitCode == exitCode
NoExitCode == "null"

\* #start(): a debuggee with a session is killed first.  launchEngine(): with a
\* listener, the process is started when that is bound, else at once.
Run(n) ==
  LET old == session # 0
      left == IF old THEN Killed ELSE proc
      here == IF old THEN 0 ELSE child IN
  /\ records' = IF old THEN Told("killed") ELSE records
  /\ lastStop' = IF old THEN "exited" ELSE lastStop
  /\ link' = Dropped
  /\ session' = 0 /\ exitCode' = NoExitCode
  /\ stack' = IF old THEN 0 ELSE stack
  /\ frame' = IF old THEN 0 ELSE frame
  /\ proc' = IF mode = "listen" THEN left ELSE [left EXCEPT ![n] = "alive"]
  /\ child' = IF mode = "listen" THEN here ELSE n
  /\ Goes(n, IF mode = "listen" THEN "binding" ELSE "connecting")
  /\ lastError' = FALSE
  /\ UNCHANGED <<outcome, status, exit>>

KillCommand(n) ==
  \/ child = 0 /\ Fails(n)
  \/ /\ child # 0 /\ CmdKill
     /\ Goes(n, "finish") /\ lastError' = FALSE
     /\ UNCHANGED <<outcome, status, exit>>

\* In batch mode onQuit() notes the status; otherwise the program exits here.
Quit(n, code) ==
  /\ KillIfAny
  /\ lastError' = FALSE /\ Goes(n, "finish")
  /\ \/ front = "batch" /\ status' = code /\ UNCHANGED exit
     \/ front = "repl" /\ exit' = (IF code = "N" THEN "N" ELSE "0") /\ UNCHANGED status
  /\ UNCHANGED outcome

Perform(n, w) ==
  \/ w = "info" /\ Info(n)
  \/ w \in {"print", "locals"} /\ Evaluate(n)
  \/ w = "display" /\ Display(n)
  \/ w = "interrupt" /\ Interrupt(n)
  \/ w = "frame" /\ SelectFrame(n)
  \/ w = "continue" /\ Resume(n)
  \/ w \in {"run", "starti"} /\ Run(n)
  \/ w = "kill" /\ KillCommand(n)
  \/ w = "quit" /\ Quit(n, "plain")
  \/ w = "quitN" /\ Quit(n, "N")

-----------------------------------------------------------------------------
(* Commands, from await to await                                            *)

Steps(n, place) == exit = "none" /\ pc[n] = place
Throw(n) == Goes(n, "throw") /\ UNCHANGED <<target, outcome, debuggee, records>>
Quiet == UNCHANGED <<config, lastError, reader, batch, exit>>

\* The listener is bound and the process started, or the address is in use.
Bind(n) ==
  /\ Steps(n, "binding")
  /\ \/ Throw(n)
     \/ /\ proc' = [proc EXCEPT ![n] = "alive"] /\ child' = n
        /\ Goes(n, "connecting")
        /\ UNCHANGED <<session, stack, frame, lastStop, exitCode, outcome, link, records>>
  /\ Quiet

Connect(n) ==
  /\ Steps(n, "connecting") /\ proc[n] = "alive"
  /\ link' = [link EXCEPT ![n] = "running"] /\ session' = n
  /\ Goes(n, "entry")
  /\ UNCHANGED <<child, stack, frame, lastStop, exitCode, outcome, proc, records>> /\ Quiet

\* connect() gives up after its retries; accept() never does.
GiveUp(n) ==
  /\ Steps(n, "connecting") /\ mode = "connect"
  /\ proc' = Killed /\ child' = 0
  /\ Goes(n, "throw")
  /\ UNCHANGED <<session, stack, frame, lastStop, exitCode, outcome, link, records>> /\ Quiet

\* The entry stop: run goes on, starti reports it.
Entry(n) ==
  /\ Steps(n, "entry") /\ link[n] = "stopped"
  /\ \/ word[n] = "run" /\ link' = Resumed(n) /\ Goes(n, "running")
     \/ word[n] = "starti" /\ Goes(n, "stack") /\ UNCHANGED link
  /\ UNCHANGED <<target, outcome, proc, records>> /\ Quiet

\* The race of the stop and #closed.
\* Wrong: the stop only is awaited.
StopOnly(n) == FALSE
Lost(n) == session # 0 /\ link[session] = "closed"

Stop(n) ==
  /\ Steps(n, "running") /\ session # 0 /\ link[session] = "stopped"
  /\ Goes(n, "stack")
  /\ UNCHANGED <<target, outcome, debuggee, records>> /\ Quiet

Closed(n) ==
  /\ Steps(n, "entry") \/ Steps(n, "running")
  /\ Lost(n) /\ Terminated(n) /\ Goes(n, "finish") /\ Quiet

\* The stack is fetched; if the connection went after the stop, that throws.
Fetch(n) ==
  /\ Steps(n, "stack")
  /\ \/ /\ Open(session) /\ stack' \in 1 .. MaxDepth /\ frame' = 0
        /\ Goes(n, "report")
        /\ UNCHANGED <<child, session, lastStop, exitCode, outcome, debuggee, records>>
     \/ ~Open(session) /\ Throw(n)
  /\ Quiet

\* #onStopped(); failures in displays and locals are caught on the way.
OnStopped(n) ==
  /\ Steps(n, "report")
  /\ records' = Append(records, [what |-> "stopped", run |-> session, how |-> ""])
  /\ lastStop' = "stopped" /\ outcome' = [outcome EXCEPT ![n] = "stopped"]
  /\ Goes(n, "finish")
  /\ UNCHANGED <<child, session, stack, frame, exitCode, debuggee>> /\ Quiet

Evaluated(n) ==
  /\ Steps(n, "eval")
  /\ \/ /\ Open(session) /\ Goes(n, IF word[n] = "locals" THEN "show" ELSE "finish")
        /\ UNCHANGED <<target, outcome, debuggee, records>>
     \/ ~Open(session) /\ Throw(n)
  /\ Quiet

\* #showDisplay() and #locals() catch what fails.
Shown(n) ==
  /\ Steps(n, "show") /\ Goes(n, "finish")
  /\ UNCHANGED <<target, outcome, debuggee, records>> /\ Quiet

\* execute() ends: a result; batch mode looks at lastError.
Finish(n) ==
  /\ exit = "none" /\ pc[n] \in {"throw", "finish"}
  /\ lastError' = (pc[n] = "throw" \/ lastError)
  /\ records' = Append(records, [what |-> "result", line |-> n, ok |-> ~lastError', state |-> outcome[n]])
  /\ failed' = (failed \/ lastError')
  /\ Goes(n, "over")
  /\ UNCHANGED <<config, target, outcome, debuggee, reader, status, exit>>

-----------------------------------------------------------------------------
(* The front ends                                                           *)

\* No command is in progress.
Over == \A n \in Lines : pc[n] \in {"none", "queued", "over"}

\* The batch loop: it reads a line when the command before is over.
Looping == front = "batch" /\ exit = "none" /\ Over /\ ~(strict /\ failed)

Batch(w) ==
  /\ Looping /\ status = "null" /\ input = "open" /\ lines < MaxLines
  /\ lines' = lines + 1 /\ word' = [word EXCEPT ![lines + 1] = w]
  /\ Perform(lines + 1, w)
  /\ UNCHANGED <<config, input, awaiting, failed>>

BatchStatus ==
  CASE status = "N" -> "N"
    [] status # "N" /\ failed -> "1"
    [] OTHER -> IF exitCode = "fails" THEN "fails" ELSE "0"

\* The loop ends with the input, at the first failure if strict, and with the
\* line after a quit.
Leave ==
  /\ front = "batch" /\ exit = "none" /\ Over
  /\ \/ input = "ended" \/ (strict /\ failed)
     \/ status # "null" /\ lines < MaxLines
  /\ KillIfAny /\ exit' = BatchStatus
  /\ UNCHANGED <<config, lastError, pc, outcome, reader, batch>>

Timeout ==
  /\ front = "batch" /\ timer /\ exit = "none"
  /\ KillIfAny /\ exit' = "124"
  /\ UNCHANGED <<config, lastError, pc, outcome, reader, batch>>

\* Wrong: a line is executed as it comes.
AtOnce == TRUE
Ready == ~awaiting

\* REPL: handleCmd() queues lines while a command runs.
Type(w) ==
  /\ front = "repl" /\ exit = "none" /\ input = "open" /\ lines < MaxLines
  /\ lines' = lines + 1 /\ word' = [word EXCEPT ![lines + 1] = w]
  /\ \/ Ready /\ Perform(lines + 1, w) /\ awaiting' = TRUE
     \/ /\ ~Ready /\ Goes(lines + 1, "queued")
        /\ UNCHANGED <<target, lastError, outcome, debuggee, awaiting, status, exit, records>>
  /\ UNCHANGED <<config, input, failed>>

Queued == {n \in Lines : pc[n] = "queued"}

\* A command is over: the next in the queue, or the prompt.
NextLine ==
  /\ front = "repl" /\ exit = "none" /\ awaiting /\ Over
  /\ \/ /\ Queued = {} /\ awaiting' = FALSE
        /\ UNCHANGED <<target, lastError, pc, outcome, debuggee, status, exit, records>>
     \/ \E n \in Queued :
          /\ \A m \in Queued : n <= m
          /\ Perform(n, word[n]) /\ UNCHANGED awaiting
  /\ UNCHANGED <<config, word, lines, input, failed>>

\* The end of the terminal's input; the cleanup handler.
CleanUp ==
  /\ front = "repl" /\ exit = "none" /\ input = "ended"
  /\ KillIfAny /\ exit' = "0"
  /\ UNCHANGED <<config, lastError, pc, outcome, reader, batch>>

EndInput ==
  /\ exit = "none" /\ input = "open" /\ input' = "ended"
  /\ UNCHANGED <<config, target, lastError, pc, outcome, debuggee, word, lines, awaiting, batch, exit, records>>

-----------------------------------------------------------------------------
(* Debuggees (external)                                                     *)

Outside == UNCHANGED <<config, target, lastError, pc, outcome, reader, batch, exit, records>>

Halts(g) ==
  /\ exit = "none" /\ link[g] = "running" /\ proc[g] = "alive"
  /\ link' = [link EXCEPT ![g] = "stopped"]
  /\ UNCHANGED proc /\ Outside

Ends(g, how) ==
  /\ exit = "none" /\ proc[g] = "alive"
  /\ proc' = [proc EXCEPT ![g] = how]
  /\ UNCHANGED link /\ Outside

Closes(g) ==
  /\ exit = "none" /\ Open(g) /\ proc[g] # "alive"
  /\ link' = [link EXCEPT ![g] = "closed"]
  /\ UNCHANGED proc /\ Outside

-----------------------------------------------------------------------------
Continuation == \E n \in Lines :
  \/ Bind(n) \/ Connect(n) \/ GiveUp(n) \/ Entry(n) \/ Stop(n) \/ Closed(n) \/ Fetch(n)
  \/ OnStopped(n) \/ Evaluated(n) \/ Shown(n) \/ Finish(n)

Next ==
  \/ Continuation
  \/ \E w \in Words : Batch(w) \/ Type(w)
  \/ Leave \/ Timeout \/ NextLine \/ CleanUp \/ EndInput
  \/ \E g \in Lines : Halts(g) \/ Closes(g) \/ \E how \in {"ok", "fails"} : Ends(g, how)

Spec == Init /\ [][Next]_vars

\* The event loop runs what is ready, notices closed connections and timers;
\* a resumed program stops some time (if it does not end).
FairSpec ==
  /\ Spec
  /\ WF_vars(Continuation) /\ WF_vars(Leave) /\ WF_vars(NextLine) /\ WF_vars(Timeout)
  /\ WF_vars(\E g \in Lines : Halts(g) \/ Closes(g))

-----------------------------------------------------------------------------
(* Properties                                                               *)

\* There is at most one debuggee, and the debugger knows it: whatever fails on
\* the way, no process that was started is forgotten, and none outlives the
\* debugger: "At the end of input a running debuggee is killed"
\* (json-protocol.md 34; debugger.js 368-409, 466-493, 1474-1506).
OneDebuggee ==
  mode # "external" => \A g \in Lines : proc[g] = "alive" => (g = child /\ exit = "none")

Resuming(n) == word[n] \in {"run", "starti", "continue"}
States == {i \in DOMAIN records : records[i].what # "result"}

\* "A command that resumes the program first emits the [...] stopped or exited
\* records it caused, then its result" (json-protocol.md 69), whoever ends the
\* program and wherever its end is noticed; and a debuggee's 'exited' comes
\* once, as the last record about it.
RecordsTell ==
  /\ \A i \in DOMAIN records :
       (records[i].what = "result" /\ records[i].ok /\ Resuming(records[i].line)) =>
          i > 1 /\ records[i].state # "none" /\ records[i - 1].what = records[i].state
  /\ \A i, j \in States : (i < j /\ records[i].run = records[j].run) => records[i].what = "stopped"

Exited == {i \in States : records[i].what = "exited"}
LastExit == CHOOSE i \in Exited : \A j \in Exited : j <= i

\* The exit status of a batch follows from what it reported: the quit CODE, else
\* 1 if a result was an error, else how the last debuggee ended if it was not
\* killed (json-protocol.md 36-44, qjs-debugger.js 82-93).
ExitStatus ==
  (front = "batch" /\ exit \notin {"none", "124"}) =>
    exit = CASE \E n \in Lines : word[n] = "quitN" -> "N"
             [] (\A n \in Lines : word[n] # "quitN")
                  /\ \E i \in DOMAIN records : records[i].what = "result" /\ ~records[i].ok -> "1"
             [] OTHER -> IF Exited # {} /\ records[LastExit].how = "fails" THEN "fails" ELSE "0"

\* Why all this holds.  One command is in progress at a time, and what it waits for
\* agrees with the child and the session there are: a child without a session is
\* one that is being connected to.
Busy(n) == pc[n] \notin {"none", "queued", "over"}

OneAtATime ==
  /\ \A m, n \in Lines : Busy(m) /\ Busy(n) => m = n
  /\ front = "repl" /\ ~awaiting => Over
  /\ \A n \in Lines : n > lines => pc[n] = "none"

Unlaunched == {"none", "queued", "binding", "connecting"}

InStep ==
  /\ child # 0 => proc[child] \in {"alive", "ok", "fails"}
  /\ session # 0 => pc[session] \notin Unlaunched
  /\ exit = "none" =>
       /\ child # 0 /\ session = 0 => pc[child] = "connecting"
       /\ \A n \in Lines :
            /\ pc[n] = "binding" => child = 0
            /\ pc[n] = "connecting" => child = n /\ session = 0
            /\ pc[n] = "entry" => session = n
            /\ pc[n] \in {"running", "stack", "report", "eval"} => session # 0

TInv == TypeOK /\ OneDebuggee /\ OneAtATime /\ InStep

\* What was reported belongs to lines that were read and debuggees that were
\* reached; a resuming command that is over without an error has just reported why;
\* the exit code is that of the last 'exited', unless another debuggee was started
\* since, or could not be.
ReportedInTime ==
  /\ \A i \in DOMAIN records : records[i].what = "result" => records[i].line <= lines
  /\ exit = "none" =>
       /\ \A i \in Exited : records[i].run # child /\ pc[records[i].run] \notin Unlaunched
       /\ \A n \in Lines : (pc[n] = "finish" /\ Resuming(n) /\ ~lastError) =>
            records # <<>> /\ outcome[n] # "none" /\ records[Len(records)].what = outcome[n]
       /\ \A n \in Lines : pc[n] \in {"eval", "show"} => ~Resuming(n)

StatusFollows ==
  /\ Exited # {} => LastExit \in Exited /\ \A i \in Exited : i <= LastExit
  /\ exit = "none" =>
       /\ front = "batch" => (status = "N" <=> \E n \in Lines : word[n] = "quitN")
       /\ failed <=> \E i \in DOMAIN records : records[i].what = "result" /\ ~records[i].ok
       /\ (child # 0 \/ \E n \in Lines : pc[n] = "binding") => exitCode # "fails"
       /\ (child = 0 /\ ~failed /\ \A n \in Lines : pc[n] \notin {"throw", "binding"}) =>
            (exitCode = "fails" <=> Exited # {} /\ records[LastExit].how = "fails")

RInv == RecordsTell /\ ExitStatus /\ ReportedInTime /\ StatusFollows

\* accept() waits for a debuggee that is gone (transport.js 83): known to last.
Unreached == mode # "connect" /\ \E n \in Lines : pc[n] = "connecting" /\ proc[n] # "alive"

\* What a command waits for can come.  It is connecting to the child there is; and when it
\* waits for the program, that has a connection, and once that is closed the process has
\* ended, so that #terminated() has its status at once (466-512).
NoneWaitsInVain ==
  exit = "none" => \A n \in Lines :
    /\ pc[n] = "connecting" => child = n /\ session = 0
    /\ pc[n] \in {"entry", "running"} =>
         /\ session # 0 /\ child = session
         /\ Open(session) \/ (link[session] = "closed" /\ proc[session] # "alive")

\* A batch ends: after its input, unless the launch waits for a dead debuggee;
\* with --timeout, always.
BatchEnds ==
  /\ (front = "batch" /\ input = "ended") ~> (exit # "none" \/ Unreached)
  /\ (front = "batch" /\ timer) ~> exit # "none"
=============================================================================
