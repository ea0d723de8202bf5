--------------------------- MODULE Commands_proofs ---------------------------
(***************************************************************************)
(* Theorems about Commands, for any number of command lines and any stack   *)
(* depth, in every mode and with every subset of the commands.              *)
(***************************************************************************)
EXTENDS Commands, TLAPS

USE FrontsAssumption, ModesAssumption, WordsAssumption, BoundsAssumption

-----------------------------------------------------------------------------
(* The invariant TInv: the debuggee and the command in progress.  CmdPart is  *)
(* what a command can disturb, ReadPart what only the front ends do.          *)

CmdTypes ==
  /\ child \in Lines \cup {0} /\ session \in {0, child}
  /\ stack \in 0 .. MaxDepth /\ (frame = 0 \/ frame \in 1 .. stack - 1)
  /\ (stack > 0 => session # 0)
  /\ lastError \in BOOLEAN /\ lastStop \in {"none", "stopped", "exited"}
  /\ exitCode \in {"null", "ok", "fails"}
  /\ pc \in [Lines -> Places]
  /\ outcome \in [Lines -> {"none", "stopped", "exited"}]
  /\ proc \in [Lines -> {"none", "alive", "ok", "fails", "killed"}]
  /\ link \in [Lines -> {"none", "running", "stopped", "closed"}]
  /\ status \in {"null", "plain", "N"}
  /\ exit \in {"none", "0", "1", "N", "124", "fails"}
  /\ records \in Seq(Record)

CmdPart == CmdTypes /\ OneDebuggee /\ InStep

ReadTypes ==
  /\ word \in [Lines -> Words \cup {"none"}]
  /\ lines \in 0 .. MaxLines /\ input \in {"open", "ended"} /\ awaiting \in BOOLEAN
  /\ failed \in BOOLEAN

ConfigTypes ==
  front \in Fronts /\ mode \in Modes /\ strict \in BOOLEAN /\ timer \in BOOLEAN

LEMMA Parts == TInv <=> CmdPart /\ ReadTypes /\ ConfigTypes /\ OneAtATime
BY DEF TInv, TypeOK, CmdPart, CmdTypes, ReadTypes, ConfigTypes

LEMMA PartsNext == CmdPart' /\ ReadTypes' /\ ConfigTypes' /\ OneAtATime' => TInv'
BY DEF TInv, TypeOK, CmdPart, CmdTypes, ReadTypes, ConfigTypes

LEMMA LinesFact == Lines \subseteq Nat /\ 0 \notin Lines
BY DEF Lines

LEMMA AppendType ==
  ASSUME NEW S, NEW s \in Seq(S), NEW e \in S
  PROVE  Append(s, e) \in Seq(S)
OBVIOUS

\* The record of a debuggee's end is a record.
LEMMA ToldType ==
  ASSUME CmdTypes, child # 0, NEW how \in {"", "ok", "fails", "killed"}
  PROVE  Told(how) \in Seq(Record)
<1>1. [what |-> "exited", run |-> child, how |-> how] \in Record
  BY DEF CmdTypes, Record
<1>2. records \in Seq(Record)
  BY DEF CmdTypes
<1>3. QED
  BY <1>1, <1>2, AppendType DEF Told

\* Between two commands, a child is one with a session.
LEMMA ChildHasSession ==
  ASSUME CmdPart, exit = "none", Over
  PROVE  child # 0 => session = child /\ pc[child] \notin Unlaunched
BY DEF CmdPart, CmdTypes, InStep, Over, Unlaunched

\* What killing does to processes and connections.
LEMMA KilledEffect ==
  ASSUME CmdPart
  PROVE  /\ Killed \in [Lines -> {"none", "alive", "ok", "fails", "killed"}]
         /\ Dropped \in [Lines -> {"none", "running", "stopped", "closed"}]
         /\ mode # "external" => \A g \in Lines : Killed[g] # "alive"
<1>1. Killed \in [Lines -> {"none", "alive", "ok", "fails", "killed"}]
  BY DEF CmdPart, CmdTypes, Killed
<1>2. Dropped \in [Lines -> {"none", "running", "stopped", "closed"}]
  BY DEF CmdPart, CmdTypes, Dropped
<1>3. ASSUME mode # "external", NEW g \in Lines PROVE Killed[g] # "alive"
  <2>1. proc[g] = "alive" => g = child
    BY <1>3 DEF CmdPart, OneDebuggee
  <2>2. QED
    BY <1>3, <2>1, LinesFact DEF CmdPart, CmdTypes, Killed
<1>4. QED
  BY <1>1, <1>2, <1>3

\* The kill at the end: there is no debuggee any more.
LEMMA KillIfAnyEffect ==
  ASSUME CmdPart, KillIfAny
  PROVE  /\ child' = 0 /\ session' = 0 /\ stack' = 0 /\ frame' = 0 /\ exitCode' = exitCode
         /\ lastStop' \in {"none", "stopped", "exited"}
         /\ proc' \in [Lines -> {"none", "alive", "ok", "fails", "killed"}]
         /\ link' \in [Lines -> {"none", "running", "stopped", "closed"}]
         /\ mode # "external" => \A g \in Lines : proc'[g] # "alive"
         /\ records' \in Seq(Record)
<1>1. CASE child # 0
  <2>1. CmdKill
    BY <1>1 DEF KillIfAny
  <2>2. records' \in Seq(Record)
    BY <1>1, <2>1, ToldType DEF CmdKill, CmdPart
  <2>3. QED
    BY <2>1, <2>2, KilledEffect DEF CmdKill, NoTarget
<1>2. CASE child = 0
  <2>1. UNCHANGED <<target, debuggee, records>>
    BY <1>2 DEF KillIfAny
  <2>2. \A g \in Lines : mode # "external" => proc[g] # "alive"
    BY <1>2, LinesFact DEF CmdPart, OneDebuggee
  <2>3. QED
    BY <1>2, <2>1, <2>2 DEF target, debuggee, CmdPart, CmdTypes
<1>3. QED
  BY <1>1, <1>2

-----------------------------------------------------------------------------
(* A command taken from a line: the beginnings of commands.                 *)

\* What a command may rely on when its line is taken.
Taken(n) == exit = "none" /\ Over /\ pc[n] \in {"none", "queued"}

\* Only one command is at a place where it waits for something.
LEMMA OnlyOne ==
  ASSUME CmdPart, NEW n \in Lines, Taken(n), NEW place \in Places, Goes(n, place)
  PROVE  /\ pc' \in [Lines -> Places]
         /\ \A m \in Lines : pc'[m] = IF m = n THEN place ELSE pc[m]
         /\ \A m \in Lines : m # n => pc'[m] \in {"none", "queued", "over"}
         /\ child # 0 => session = child /\ child # n /\ pc'[child] \notin Unlaunched
<1>1. pc' = [pc EXCEPT ![n] = place]
  BY DEF Goes
<1>2. child # 0 => session = child /\ pc[child] \notin Unlaunched
  BY ChildHasSession DEF Taken
<1>3. \A m \in Lines : pc'[m] = IF m = n THEN place ELSE pc[m]
  BY <1>1 DEF CmdPart, CmdTypes
<1>4. QED
  BY <1>1, <1>2, <1>3 DEF CmdPart, CmdTypes, Taken, Over, Unlaunched

\* A command that leaves the debuggee alone, but for its program.
LEMMA PlainKeeps ==
  ASSUME CmdPart, mode' = mode, NEW n \in Lines, Taken(n),
         NEW place \in {"eval", "show", "finish", "running"}, Goes(n, place),
         place \in {"eval", "running"} => session # 0,
         lastError' \in BOOLEAN,
         UNCHANGED <<child, session, stack, lastStop, exitCode, outcome, proc, status, exit, records>>,
         frame' = 0 \/ frame' \in 1 .. stack - 1,
         link' \in [Lines -> {"none", "running", "stopped", "closed"}]
  PROVE  CmdPart'
<1>1. /\ pc' \in [Lines -> Places]
      /\ \A m \in Lines : m # n => pc'[m] \in {"none", "queued", "over"}
      /\ pc'[n] = place
      /\ child # 0 => session = child /\ pc'[child] \notin Unlaunched
  BY OnlyOne DEF Places
<1>2. CmdTypes'
  BY <1>1 DEF CmdPart, CmdTypes
<1>3. OneDebuggee'
  BY DEF CmdPart, OneDebuggee
<1>4. InStep'
  BY <1>1 DEF CmdPart, InStep, CmdTypes
<1>5. QED
  BY <1>2, <1>3, <1>4 DEF CmdPart

\* run and starti, up to the process that is started or the listener that is not
\* yet bound.
LEMMA RunKeeps ==
  ASSUME CmdPart, ConfigTypes, mode' = mode, NEW n \in Lines, Taken(n), Run(n)
  PROVE  CmdPart'
<1> DEFINE place == IF mode = "listen" THEN "binding" ELSE "connecting"
           left == IF session # 0 THEN Killed ELSE proc
<1>1. /\ pc' \in [Lines -> Places]
      /\ \A m \in Lines : m # n => pc'[m] \in {"none", "queued", "over"}
      /\ pc'[n] = place
      /\ child # 0 => session = child
  BY OnlyOne DEF Run, Places
<1>2. left \in [Lines -> {"none", "alive", "ok", "fails", "killed"}]
      /\ (mode # "external" => \A g \in Lines : left[g] # "alive")
  <2>1. CASE session # 0
    BY <2>1, KilledEffect
  <2>2. CASE session = 0
    BY <1>1, <2>2, LinesFact DEF CmdPart, CmdTypes, OneDebuggee
  <2>3. QED
    BY <2>1, <2>2
<1>3. /\ proc' = (IF mode = "listen" THEN left ELSE [left EXCEPT ![n] = "alive"])
      /\ child' = (IF mode = "listen" THEN 0 ELSE n)
  BY <1>1 DEF Run
<1>4. /\ session' = 0 /\ stack' = 0 /\ frame' = 0 /\ exitCode' = "null"
      /\ link' \in [Lines -> {"none", "running", "stopped", "closed"}]
      /\ lastStop' \in {"none", "stopped", "exited"} /\ lastError' = FALSE
      /\ UNCHANGED <<outcome, status, exit>>
  <2>1. session = 0 => stack = 0 /\ frame = 0
    BY DEF CmdPart, CmdTypes
  <2>2. QED
    BY <2>1, KilledEffect DEF Run, NoExitCode, CmdPart, CmdTypes
<1>5. records' \in Seq(Record)
  BY ToldType DEF Run, CmdPart, CmdTypes
<1>6. proc' \in [Lines -> {"none", "alive", "ok", "fails", "killed"}]
  BY <1>2, <1>3
<1>7. CmdTypes'
  <2>1. child' \in Lines \cup {0} /\ session' \in {0, child'} /\ stack' \in 0 .. MaxDepth
    BY <1>3, <1>4
  <2>2. UNCHANGED <<outcome, status, exit>>
    BY <1>4
  <2>3. (frame' = 0 \/ frame' \in 1 .. stack' - 1) /\ (stack' > 0 => session' # 0)
    BY <1>4
  <2>4. /\ outcome' \in [Lines -> {"none", "stopped", "exited"}]
        /\ status' \in {"null", "plain", "N"}
        /\ exit' \in {"none", "0", "1", "N", "124", "fails"}
    BY <2>2 DEF CmdPart, CmdTypes
  <2>5. pc' \in [Lines -> Places]
    BY <1>1
  <2>6. QED
    BY <1>4, <1>5, <1>6, <2>1, <2>3, <2>4, <2>5 DEF CmdTypes
<1>8. OneDebuggee'
  BY <1>2, <1>3, <1>4 DEF OneDebuggee, Taken
<1>9. InStep'
  BY <1>1, <1>2, <1>3, <1>4, LinesFact DEF InStep
<1>10. QED
  BY <1>7, <1>8, <1>9 DEF CmdPart

\* kill and quit: the debuggee, if there is one, is gone.
LEMMA KillKeeps ==
  ASSUME CmdPart, mode' = mode, NEW n \in Lines, Taken(n), KillIfAny, Goes(n, "finish"),
         lastError' \in BOOLEAN, outcome' = outcome,
         status' \in {"null", "plain", "N"}, exit' \in {"none", "0", "1", "N", "124", "fails"}
  PROVE  CmdPart'
<1>1. /\ pc' \in [Lines -> Places]
      /\ \A m \in Lines : pc'[m] \in {"none", "queued", "over", "finish"}
  BY OnlyOne DEF Places
<1>2. CmdTypes'
  BY <1>1, KillIfAnyEffect DEF CmdPart, CmdTypes
<1>3. OneDebuggee'
  BY KillIfAnyEffect DEF OneDebuggee
<1>4. InStep'
  BY <1>1, KillIfAnyEffect DEF InStep
<1>5. QED
  BY <1>2, <1>3, <1>4 DEF CmdPart

-----------------------------------------------------------------------------
(* A command that goes on after an await.                                   *)

\* The others are not at any place.
Sole(n) == exit = "none" /\ \A m \in Lines : m # n => pc[m] \in {"none", "queued", "over"}

LEMMA SoleWhenBusy ==
  ASSUME OneAtATime, exit = "none", NEW n \in Lines, Busy(n)
  PROVE  Sole(n)
BY DEF OneAtATime, Busy, Sole

LEMMA Placed ==
  ASSUME CmdPart, NEW n \in Lines, Sole(n), NEW place \in Places, Goes(n, place)
  PROVE  /\ pc' \in [Lines -> Places]
         /\ pc'[n] = place
         /\ \A m \in Lines : m # n => pc'[m] = pc[m] /\ pc[m] \in {"none", "queued", "over"}
BY DEF CmdPart, CmdTypes, Sole, Goes

\* The steps after the connection that leave child and session as they are.
LEMMA GoesOnKeeps ==
  ASSUME CmdPart, mode' = mode, NEW n \in Lines, Sole(n), pc[n] \notin Unlaunched,
         NEW place \in {"running", "stack", "report", "show", "throw", "finish", "over"},
         Goes(n, place), place \in {"running", "stack", "report"} => session # 0,
         UNCHANGED <<child, session, exitCode, proc, status, exit>>,
         stack' \in 0 .. MaxDepth, frame' = 0 \/ frame' \in 1 .. stack' - 1,
         stack' > 0 => session # 0,
         lastError' \in BOOLEAN, lastStop' \in {"none", "stopped", "exited"},
         outcome' \in [Lines -> {"none", "stopped", "exited"}],
         link' \in [Lines -> {"none", "running", "stopped", "closed"}],
         records' \in Seq(Record)
  PROVE  CmdPart'
<1>1. /\ pc' \in [Lines -> Places]
      /\ pc'[n] = place
      /\ \A m \in Lines : m # n => pc'[m] = pc[m] /\ pc[m] \in {"none", "queued", "over"}
  BY Placed DEF Places
<1>2. CmdTypes'
  BY <1>1 DEF CmdPart, CmdTypes
<1>3. OneDebuggee'
  BY DEF CmdPart, OneDebuggee
<1>4. child # 0 => session = child
  BY DEF CmdPart, CmdTypes, InStep, Sole, Unlaunched
<1>5. session # 0 => pc'[session] \notin Unlaunched
  BY <1>1 DEF CmdPart, CmdTypes, InStep, Unlaunched
<1>6. InStep'
  BY <1>1, <1>4, <1>5 DEF CmdPart, InStep
<1>7. QED
  BY <1>2, <1>3, <1>6 DEF CmdPart

LEMMA BindKeeps ==
  ASSUME CmdPart, mode' = mode, NEW n \in Lines, Sole(n), Bind(n)
  PROVE  CmdPart'
<1>0. pc[n] = "binding" /\ child = 0 /\ session = 0
  BY DEF Bind, Steps, CmdPart, CmdTypes, InStep, Sole
<1>1. UNCHANGED <<lastError, status, exit>>
  BY DEF Bind, Quiet, batch
<1>2. CASE Throw(n)
  <2>1. /\ pc' \in [Lines -> Places] /\ pc'[n] = "throw"
        /\ \A m \in Lines : m # n => pc'[m] = pc[m] /\ pc[m] \in {"none", "queued", "over"}
    BY <1>2, Placed DEF Throw, Places
  <2>2. UNCHANGED <<target, outcome, debuggee, records>>
    BY <1>2 DEF Throw
  <2>3. CmdTypes'
    BY <1>1, <2>1, <2>2 DEF CmdPart, CmdTypes, target, debuggee
  <2>4. QED
    BY <1>0, <1>1, <2>1, <2>2, <2>3 DEF CmdPart, OneDebuggee, InStep, target, debuggee
<1>3. CASE ~Throw(n)
  <2>1. /\ pc' \in [Lines -> Places] /\ pc'[n] = "connecting"
        /\ \A m \in Lines : m # n => pc'[m] = pc[m] /\ pc[m] \in {"none", "queued", "over"}
    BY <1>3, Placed DEF Bind, Places
  <2>2. /\ proc' = [proc EXCEPT ![n] = "alive"] /\ child' = n
        /\ UNCHANGED <<session, stack, frame, lastStop, exitCode, outcome, link, records>>
    BY <1>3 DEF Bind
  <2>3. CmdTypes'
    BY <1>0, <1>1, <2>1, <2>2 DEF CmdPart, CmdTypes
  <2>4. OneDebuggee'
    BY <1>0, <1>1, <2>2, LinesFact DEF CmdPart, CmdTypes, OneDebuggee, Sole
  <2>5. InStep'
    BY <1>0, <1>1, <2>1, <2>2, LinesFact DEF CmdPart, CmdTypes, InStep
  <2>6. QED
    BY <2>3, <2>4, <2>5 DEF CmdPart
<1>4. QED
  BY <1>2, <1>3

LEMMA ConnectKeeps ==
  ASSUME CmdPart, mode' = mode, NEW n \in Lines, Sole(n), Connect(n)
  PROVE  CmdPart'
<1>0. pc[n] = "connecting" /\ child = n /\ session = 0 /\ proc[n] = "alive"
  BY DEF Connect, Steps, CmdPart, InStep, Sole
<1>1. /\ pc' \in [Lines -> Places] /\ pc'[n] = "entry"
      /\ \A m \in Lines : m # n => pc'[m] = pc[m] /\ pc[m] \in {"none", "queued", "over"}
  BY Placed DEF Connect, Places
<1>2. /\ link' = [link EXCEPT ![n] = "running"] /\ session' = n
      /\ UNCHANGED <<child, stack, frame, lastStop, exitCode, outcome, proc, records, lastError, status, exit>>
  BY DEF Connect, Quiet, batch
<1>3. CmdTypes'
  BY <1>0, <1>1, <1>2, LinesFact DEF CmdPart, CmdTypes
<1>4. OneDebuggee' /\ InStep'
  BY <1>0, <1>1, <1>2, LinesFact DEF CmdPart, OneDebuggee, InStep, Unlaunched
<1>5. QED
  BY <1>3, <1>4 DEF CmdPart

LEMMA GiveUpKeeps ==
  ASSUME CmdPart, mode' = mode, NEW n \in Lines, Sole(n), GiveUp(n)
  PROVE  CmdPart'
<1>0. pc[n] = "connecting" /\ session = 0
  BY DEF GiveUp, Steps, CmdPart, InStep, Sole
<1>1. /\ pc' \in [Lines -> Places] /\ pc'[n] = "throw"
      /\ \A m \in Lines : m # n => pc'[m] = pc[m] /\ pc[m] \in {"none", "queued", "over"}
  BY Placed DEF GiveUp, Places
<1>2. /\ proc' = Killed /\ child' = 0
      /\ UNCHANGED <<session, stack, frame, lastStop, exitCode, outcome, link, records, lastError, status, exit>>
  BY DEF GiveUp, Quiet, batch
<1>3. CmdTypes'
  BY <1>0, <1>1, <1>2, KilledEffect DEF CmdPart, CmdTypes
<1>4. OneDebuggee' /\ InStep'
  BY <1>0, <1>1, <1>2, KilledEffect DEF OneDebuggee, InStep
<1>5. QED
  BY <1>3, <1>4 DEF CmdPart

\* The end of the connection is noticed by the command that waits: the process
\* has ended, and is let go with its status.
LEMMA ClosedKeeps ==
  ASSUME CmdPart, ConfigTypes, mode' = mode, NEW n \in Lines, Sole(n), Closed(n)
  PROVE  CmdPart'
<1>1. /\ pc' \in [Lines -> Places] /\ pc'[n] = "finish"
      /\ \A m \in Lines : m # n => pc'[m] = pc[m] /\ pc[m] \in {"none", "queued", "over"}
  BY Placed DEF Closed, Places
<1>2. session # 0 /\ child # 0 /\ child \in Lines
  BY DEF Closed, Lost, CmdPart, CmdTypes
<1>3. PICK how \in {"ok", "fails"} :
         /\ records' = Told(how)
         /\ exitCode' = IF mode = "external" THEN "null" ELSE how
  <2>1. CASE mode = "external"
    BY <1>2, <2>1 DEF Closed, Terminated
  <2>2. CASE mode # "external"
    <3>1. proc[child] # "alive" /\ records' = Told(proc[child]) /\ exitCode' = proc[child]
      BY <1>2, <2>2 DEF Closed, Terminated
    <3>2. proc[child] \in {"ok", "fails"}
      BY <1>2, <3>1 DEF CmdPart, InStep
    <3>3. QED
      BY <2>2, <3>1, <3>2
  <2>3. QED
    BY <2>1, <2>2
<1>4. /\ link' = Dropped /\ child' = 0 /\ session' = 0 /\ stack' = 0 /\ frame' = 0
      /\ lastStop' = "exited" /\ outcome' = [outcome EXCEPT ![n] = "exited"] /\ proc' = proc
      /\ UNCHANGED <<lastError, status, exit>>
  BY <1>2 DEF Closed, Terminated, NoTarget, Quiet, batch
<1>5. mode # "external" => \A g \in Lines : proc[g] # "alive"
  <2> SUFFICES ASSUME mode # "external", NEW g \in Lines, proc[g] = "alive" PROVE FALSE
    OBVIOUS
  <2>1. g = child
    BY DEF CmdPart, OneDebuggee
  <2>2. QED
    BY <1>2, <2>1 DEF Closed, Terminated
<1>6. records' \in Seq(Record)
  BY <1>2, <1>3, ToldType DEF CmdPart
<1>7. exitCode' \in {"null", "ok", "fails"}
  BY <1>3
<1>8. CmdTypes'
  <2>1. child' \in Lines \cup {0} /\ session' \in {0, child'} /\ stack' \in 0 .. MaxDepth
        /\ (frame' = 0 \/ frame' \in 1 .. stack' - 1) /\ (stack' > 0 => session' # 0)
    BY <1>4
  <2>2. link' \in [Lines -> {"none", "running", "stopped", "closed"}]
    BY <1>4, KilledEffect
  <2>3. QED
    BY <1>1, <1>4, <1>6, <1>7, <2>1, <2>2 DEF CmdPart, CmdTypes
<1>9. OneDebuggee' /\ InStep'
  BY <1>1, <1>4, <1>5 DEF OneDebuggee, InStep
<1>10. QED
  BY <1>8, <1>9 DEF CmdPart

\* Every other continuation.
LEMMA ContinuationKeeps ==
  ASSUME TInv, mode' = mode, NEW n \in Lines,
         \/ Bind(n) \/ Connect(n) \/ GiveUp(n) \/ Entry(n) \/ Stop(n) \/ Closed(n) \/ Fetch(n)
         \/ OnStopped(n) \/ Evaluated(n) \/ Shown(n) \/ Finish(n)
  PROVE  CmdPart' /\ Sole(n) /\ \E place \in Places \ {"none", "queued"} : Goes(n, place)
<1> USE DEF Steps, Quiet, target, debuggee, batch
<1>0. CmdPart /\ ConfigTypes /\ OneAtATime
  BY Parts
<1>1. exit = "none" /\ Busy(n)
  BY DEF Bind, Connect, GiveUp, Entry, Stop, Closed, Fetch, OnStopped, Evaluated, Shown, Finish, Busy
<1>2. Sole(n)
  BY <1>0, <1>1, SoleWhenBusy
<1>3. \E place \in Places \ {"none", "queued"} : Goes(n, place)
  BY DEF Bind, Connect, GiveUp, Entry, Stop, Closed, Fetch, OnStopped, Evaluated, Shown, Finish, Throw, Places
<1>4. CASE Bind(n) \/ Connect(n) \/ GiveUp(n) \/ Closed(n)
  BY <1>0, <1>2, <1>3, <1>4, BindKeeps, ConnectKeeps, GiveUpKeeps, ClosedKeeps
<1>5. CASE Entry(n) \/ Stop(n) \/ Evaluated(n) \/ Shown(n)
  <2>1. UNCHANGED <<target, outcome, proc, records, lastError, status, exit>>
    BY <1>5 DEF Entry, Stop, Evaluated, Shown, Throw
  <2>2. link' \in [Lines -> {"none", "running", "stopped", "closed"}]
    BY <1>0, <1>5 DEF Entry, Stop, Evaluated, Shown, Throw, Resumed, CmdPart, CmdTypes
  <2>3. pc[n] \notin Unlaunched /\ (pc[n] \in {"entry", "running", "eval"} => session # 0)
    BY <1>0, <1>1, <1>5, LinesFact DEF Entry, Stop, Evaluated, Shown, Unlaunched, CmdPart, InStep
  <2>4. \E place \in {"running", "stack", "show", "throw", "finish"} :
          Goes(n, place) /\ (place \in {"running", "stack"} => pc[n] \in {"entry", "running"})
    BY <1>5 DEF Entry, Stop, Evaluated, Shown, Throw
  <2>5. QED
    BY <1>0, <1>2, <1>3, <2>1, <2>2, <2>3, <2>4, GoesOnKeeps DEF CmdPart, CmdTypes
<1>6. CASE Fetch(n)
  <2>1. pc[n] = "stack" /\ session # 0 /\ UNCHANGED <<child, session, lastStop, exitCode, outcome, proc, link, records, lastError, status, exit>>
    BY <1>0, <1>1, <1>6 DEF Fetch, Throw, CmdPart, InStep
  <2>2. /\ stack' \in 0 .. MaxDepth /\ (frame' = 0 \/ frame' \in 1 .. stack' - 1)
        /\ \E place \in {"report", "throw"} : Goes(n, place)
    BY <1>0, <1>6 DEF Fetch, Throw, CmdPart, CmdTypes
  <2>3. QED
    BY <1>0, <1>2, <1>3, <2>1, <2>2, GoesOnKeeps DEF CmdPart, CmdTypes, Unlaunched
<1>7. CASE OnStopped(n)
  <2>1. pc[n] = "report" /\ session # 0 /\ session \in Lines
    BY <1>0, <1>1, <1>7 DEF OnStopped, CmdPart, CmdTypes, InStep
  <2>2. [what |-> "stopped", run |-> session, how |-> ""] \in Record
    BY <2>1 DEF Record
  <2>3. records' \in Seq(Record)
    BY <1>0, <1>7, <2>2, AppendType DEF OnStopped, CmdPart, CmdTypes
  <2>4. QED
    BY <1>0, <1>2, <1>3, <1>7, <2>1, <2>3, GoesOnKeeps DEF OnStopped, CmdPart, CmdTypes, Unlaunched
<1>8. CASE Finish(n)
  <2>1. [what |-> "result", line |-> n, ok |-> ~lastError', state |-> outcome[n]] \in Record
    BY <1>0, <1>8 DEF Finish, Record, CmdPart, CmdTypes
  <2>2. records' \in Seq(Record)
    BY <1>0, <1>8, <2>1, AppendType DEF Finish, CmdPart, CmdTypes
  <2>3. lastError' \in BOOLEAN
    BY <1>0, <1>8 DEF Finish, CmdPart, CmdTypes
  <2>4. QED
    BY <1>0, <1>2, <1>3, <1>8, <2>2, <2>3, GoesOnKeeps DEF Finish, CmdPart, CmdTypes, Unlaunched
<1>9. QED
  BY <1>2, <1>3, <1>4, <1>5, <1>6, <1>7, <1>8

-----------------------------------------------------------------------------
(* Lines and the outside.                                                   *)

\* A line is performed up to its first await, whatever its command.
LEMMA PerformKeeps ==
  ASSUME CmdPart, ConfigTypes, UNCHANGED config, NEW n \in Lines, Taken(n), NEW w, Perform(n, w)
  PROVE  CmdPart' /\ \E place \in Places \ {"none", "queued", "over"} : Goes(n, place)
<1> USE DEF target, debuggee
<1>0. mode' = mode
  BY DEF config
<1>1. \E place \in Places \ {"none", "queued", "over"} : Goes(n, place)
  BY DEF Perform, Info, Evaluate, Display, Interrupt, SelectFrame, Resume, Run, KillCommand, Quit,
      Fails, Proceeds, Places
<1>2. CASE Fails(n) \/ Info(n) \/ Evaluate(n) \/ Display(n) \/ Interrupt(n)
  <2>1. UNCHANGED <<target, outcome, debuggee, status, exit, records>> /\ lastError' \in BOOLEAN
    BY <1>2 DEF Info, Evaluate, Display, Interrupt, Fails, Proceeds
  <2>2. \E place \in {"eval", "show", "finish"} : Goes(n, place) /\ (place = "eval" => session # 0)
    BY <1>2 DEF Info, Evaluate, Display, Interrupt, Fails, Proceeds, Stopped
  <2>3. frame' = 0 \/ frame' \in 1 .. stack - 1
    BY <2>1 DEF CmdPart, CmdTypes
  <2>4. link' \in [Lines -> {"none", "running", "stopped", "closed"}]
    BY <2>1 DEF CmdPart, CmdTypes
  <2>5. QED
    BY <1>0, <1>1, <2>1, <2>2, <2>3, <2>4, PlainKeeps
<1>3. CASE SelectFrame(n) /\ ~Fails(n)
  <2>1. /\ Stopped /\ frame' \in 0 .. stack - 1 /\ Goes(n, "finish") /\ lastError' = FALSE
        /\ UNCHANGED <<child, session, stack, lastStop, exitCode, outcome, debuggee, status, exit, records>>
    BY <1>3 DEF SelectFrame
  <2>2. frame' = 0 \/ frame' \in 1 .. stack - 1
    BY <2>1 DEF CmdPart, CmdTypes
  <2>3. link' \in [Lines -> {"none", "running", "stopped", "closed"}]
    BY <2>1 DEF CmdPart, CmdTypes
  <2>4. QED
    BY <1>0, <1>1, <2>1, <2>2, <2>3, PlainKeeps
<1>4. CASE Resume(n) /\ ~Fails(n)
  <2>1. /\ session # 0 /\ link' = Resumed(session) /\ Goes(n, "running") /\ lastError' = FALSE
        /\ UNCHANGED <<target, outcome, proc, status, exit, records>>
    BY <1>4 DEF Resume
  <2>2. link' \in [Lines -> {"none", "running", "stopped", "closed"}]
    BY <2>1 DEF CmdPart, CmdTypes, Resumed
  <2>3. frame' = 0 \/ frame' \in 1 .. stack - 1
    BY <2>1 DEF CmdPart, CmdTypes
  <2>4. QED
    BY <1>0, <1>1, <2>1, <2>2, <2>3, PlainKeeps
<1>5. CASE Run(n)
  BY <1>0, <1>1, <1>5, RunKeeps
<1>6. CASE KillCommand(n) /\ ~Fails(n)
  <2>1. KillIfAny /\ Goes(n, "finish") /\ lastError' = FALSE /\ UNCHANGED <<outcome, status, exit>>
    BY <1>6 DEF KillCommand, KillIfAny
  <2>2. status' \in {"null", "plain", "N"} /\ exit' \in {"none", "0", "1", "N", "124", "fails"}
    BY <2>1 DEF CmdPart, CmdTypes
  <2>3. QED
    BY <1>0, <1>1, <2>1, <2>2, KillKeeps
<1>7. ASSUME NEW code \in {"plain", "N"}, Quit(n, code) PROVE CmdPart'
  <2>1. KillIfAny /\ Goes(n, "finish") /\ lastError' = FALSE /\ UNCHANGED outcome
    BY <1>7 DEF Quit
  <2>2. status' \in {"null", "plain", "N"} /\ exit' \in {"none", "0", "1", "N", "124", "fails"}
    BY <1>7 DEF Quit, CmdPart, CmdTypes
  <2>3. QED
    BY <1>0, <2>1, <2>2, KillKeeps
<1>8. QED
  BY <1>1, <1>2, <1>3, <1>4, <1>5, <1>6, <1>7 DEF Perform

\* The program exits: nothing waits for anything any more.
LEMMA ExitKeeps ==
  ASSUME TInv, KillIfAny, exit' \in {"0", "1", "N", "124", "fails"},
         UNCHANGED <<config, lastError, pc, outcome, reader, batch>>
  PROVE  TInv'
<1> USE DEF config, reader, batch
<1>1. CmdPart /\ ConfigTypes /\ ReadTypes /\ OneAtATime
  BY Parts
<1>2. CmdTypes'
  BY <1>1, KillIfAnyEffect DEF CmdPart, CmdTypes
<1>3. OneDebuggee' /\ InStep'
  BY <1>1, KillIfAnyEffect DEF OneDebuggee, InStep
<1>4. ConfigTypes' /\ ReadTypes'
  BY <1>1 DEF ConfigTypes, ReadTypes
<1>5. OneAtATime'
  BY <1>1 DEF OneAtATime, Busy, Over
<1>6. QED
  BY <1>2, <1>3, <1>4, <1>5, PartsNext DEF CmdPart

\* A debuggee stops, ends, or its connection closes.
LEMMA OutsideKeeps ==
  ASSUME TInv, Outside, exit = "none",
         \/ proc' = proc
         \/ \E g \in Lines, how \in {"ok", "fails"} :
              proc[g] = "alive" /\ proc' = [proc EXCEPT ![g] = how],
         link' \in [Lines -> {"none", "running", "stopped", "closed"}]
  PROVE  TInv'
<1> USE DEF Outside, config, target, reader, batch
<1>1. CmdPart /\ ConfigTypes /\ ReadTypes /\ OneAtATime
  BY Parts
<1>2. /\ proc' \in [Lines -> {"none", "alive", "ok", "fails", "killed"}]
      /\ \A g \in Lines : proc'[g] = proc[g] \/ (proc[g] = "alive" /\ proc'[g] \in {"ok", "fails"})
  BY <1>1 DEF CmdPart, CmdTypes
<1>3. CmdTypes'
  BY <1>1, <1>2 DEF CmdPart, CmdTypes
<1>4. OneDebuggee' /\ InStep'
  BY <1>1, <1>2 DEF CmdPart, CmdTypes, OneDebuggee, InStep
<1>5. ConfigTypes' /\ ReadTypes' /\ OneAtATime'
  BY <1>1 DEF ConfigTypes, ReadTypes, OneAtATime, Busy, Over
<1>6. QED
  BY <1>3, <1>4, <1>5, PartsNext DEF CmdPart

\* One command more is in progress, where there was none.
LEMMA TakenKeepsOrder ==
  ASSUME TInv, NEW n \in Lines, Taken(n),
         NEW place \in Places \ {"none", "queued", "over"}, Goes(n, place),
         front' = front, front = "repl" => awaiting', n <= lines', lines <= lines', lines' \in Nat
  PROVE  OneAtATime'
<1>1. \A m \in Lines : pc'[m] = IF m = n THEN place ELSE pc[m]
  BY DEF TInv, TypeOK, Goes
<1>2. \A m \in Lines : m # n => ~Busy(m)'
  BY <1>1 DEF Taken, Over, Busy
<1>3. \A m \in Lines : m > lines' => m # n /\ m > lines
  BY DEF TInv, TypeOK, Lines
<1>4. QED
  BY <1>1, <1>2, <1>3 DEF OneAtATime, TInv

LEMMA StepKeepsTInv == TInv /\ [Next]_vars => TInv'
<1> SUFFICES ASSUME TInv, [Next]_vars PROVE TInv'
  OBVIOUS
<1>0. CmdPart /\ ConfigTypes /\ ReadTypes /\ OneAtATime
  BY Parts
<1>1. ASSUME NEW n \in Lines,
             \/ Bind(n) \/ Connect(n) \/ GiveUp(n) \/ Entry(n) \/ Stop(n) \/ Closed(n) \/ Fetch(n)
             \/ OnStopped(n) \/ Evaluated(n) \/ Shown(n) \/ Finish(n)
      PROVE  TInv'
  <2>1. UNCHANGED config /\ UNCHANGED reader /\ failed' \in BOOLEAN
    BY <1>0, <1>1 DEF Bind, Connect, GiveUp, Entry, Stop, Closed, Fetch, OnStopped, Evaluated, Shown, Finish,
        Quiet, batch, ReadTypes, CmdPart, CmdTypes
  <2>2. CmdPart' /\ Sole(n) /\ \E place \in Places \ {"none", "queued"} : Goes(n, place)
    BY <1>1, <2>1, ContinuationKeeps DEF config
  <2>3. \A m \in Lines : m # n => pc'[m] = pc[m] /\ pc[m] \in {"none", "queued", "over"}
    BY <1>0, <2>2 DEF CmdPart, CmdTypes, Sole, Goes
  <2>4. pc[n] # "none" /\ Busy(n)
    BY <1>1 DEF Bind, Connect, GiveUp, Entry, Stop, Closed, Fetch, OnStopped, Evaluated, Shown, Finish, Steps, Busy
  <2>5. OneAtATime'
    BY <1>0, <2>1, <2>3, <2>4 DEF OneAtATime, Busy, Over, config, reader
  <2>6. ConfigTypes' /\ ReadTypes'
    BY <1>0, <2>1 DEF ConfigTypes, ReadTypes, config, reader
  <2>7. QED
    BY <2>2, <2>5, <2>6, PartsNext
<1>2. ASSUME NEW w \in Words, Batch(w) PROVE TInv'
  <2>1. PICK n \in Lines : n = lines + 1
    BY <1>0, <1>2 DEF Batch, ReadTypes, Lines
  <2>2. /\ UNCHANGED config /\ Taken(n) /\ Perform(n, w) /\ front' = front /\ front # "repl"
        /\ lines' = n /\ word' = [word EXCEPT ![n] = w] /\ UNCHANGED <<input, awaiting, failed>>
    BY <1>0, <1>2, <2>1 DEF Batch, Looping, Taken, OneAtATime, ReadTypes, config
  <2>3. CmdPart' /\ \E place \in Places \ {"none", "queued", "over"} : Goes(n, place)
    BY <1>0, <2>2, PerformKeeps
  <2>4. ConfigTypes' /\ ReadTypes'
    BY <1>0, <2>1, <2>2 DEF ConfigTypes, ReadTypes, config, Lines
  <2>5. lines <= lines' /\ n <= lines' /\ lines' \in Nat
    BY <1>0, <2>1, <2>2 DEF ReadTypes, Lines
  <2>6. OneAtATime'
    BY <2>2, <2>3, <2>5, TakenKeepsOrder
  <2>7. QED
    BY <2>3, <2>4, <2>6, PartsNext
<1>3. ASSUME NEW w \in Words, Type(w) PROVE TInv'
  <2>1. PICK n \in Lines : n = lines + 1
    BY <1>0, <1>3 DEF Type, ReadTypes, Lines
  <2>2. /\ UNCHANGED config /\ exit = "none" /\ front = "repl" /\ front' = front /\ pc[n] = "none"
        /\ lines' = n /\ word' = [word EXCEPT ![n] = w] /\ UNCHANGED <<input, failed>>
    BY <1>0, <1>3, <2>1 DEF Type, OneAtATime, ReadTypes, config
  <2>3. lines <= lines' /\ n <= lines' /\ lines' \in Nat /\ lines' \in 0 .. MaxLines
    BY <1>0, <2>1, <2>2 DEF ReadTypes, Lines
  <2>4. CASE Ready /\ Perform(n, w) /\ awaiting' = TRUE
    <3>1. Taken(n)
      BY <1>0, <2>2, <2>4 DEF Taken, Ready, OneAtATime
    <3>2. CmdPart' /\ \E place \in Places \ {"none", "queued", "over"} : Goes(n, place)
      BY <1>0, <2>2, <2>4, <3>1, PerformKeeps
    <3>3. ConfigTypes' /\ ReadTypes'
      BY <1>0, <2>2, <2>3, <2>4 DEF ConfigTypes, ReadTypes, config
    <3>4. OneAtATime'
      BY <2>2, <2>3, <2>4, <3>1, <3>2, TakenKeepsOrder
    <3>5. QED
      BY <3>2, <3>3, <3>4, PartsNext
  <2>5. CASE ~Ready /\ Goes(n, "queued")
             /\ UNCHANGED <<target, lastError, outcome, debuggee, awaiting, status, exit, records>>
    <3>1. /\ pc' \in [Lines -> Places] /\ pc'[n] = "queued"
          /\ \A m \in Lines : m # n => pc'[m] = pc[m]
      BY <1>0, <2>5 DEF Goes, CmdPart, CmdTypes, Places
    <3>2. CmdTypes'
      BY <1>0, <2>5, <3>1 DEF CmdPart, CmdTypes, target, debuggee
    <3>3. child # 0 => child # n \/ session # 0
      BY <1>0, <2>2 DEF CmdPart, CmdTypes, InStep
    <3>4. session # n
      BY <1>0, <2>2, LinesFact DEF CmdPart, InStep, Unlaunched
    <3>5. OneDebuggee' /\ InStep'
      BY <1>0, <2>2, <2>5, <3>1, <3>3, <3>4 DEF CmdPart, CmdTypes, OneDebuggee, InStep, target, debuggee, config
    <3>6. ConfigTypes' /\ ReadTypes'
      BY <1>0, <2>2, <2>3, <2>5 DEF ConfigTypes, ReadTypes, config
    <3>7. OneAtATime'
      BY <1>0, <2>1, <2>2, <2>5, <3>1 DEF OneAtATime, Busy, Ready, Over, ReadTypes, Lines
    <3>8. QED
      BY <3>2, <3>5, <3>6, <3>7, PartsNext DEF CmdPart
  <2>6. QED
    BY <1>3, <2>1, <2>4, <2>5 DEF Type
<1>4. CASE NextLine
  <2>1. UNCHANGED <<config, word, lines, input, failed>> /\ exit = "none" /\ front = "repl" /\ awaiting /\ Over
    BY <1>4 DEF NextLine
  <2>2. ASSUME UNCHANGED <<target, lastError, pc, outcome, debuggee, status, exit, records>>, awaiting' = FALSE
        PROVE  TInv'
    <3>1. CmdPart'
      BY <1>0, <2>1, <2>2 DEF CmdPart, CmdTypes, OneDebuggee, InStep, target, debuggee, config
    <3>2. ConfigTypes' /\ ReadTypes'
      BY <1>0, <2>1, <2>2 DEF ConfigTypes, ReadTypes, config
    <3>3. OneAtATime'
      BY <1>0, <2>1, <2>2 DEF OneAtATime, Busy, Over
    <3>4. QED
      BY <3>1, <3>2, <3>3, PartsNext
  <2>3. ASSUME NEW n \in Queued, Perform(n, word[n]), UNCHANGED awaiting PROVE TInv'
    <3>1. Taken(n) /\ n \in Lines /\ front' = front
      BY <2>1, <2>3 DEF Taken, Queued, config
    <3>2. CmdPart' /\ \E place \in Places \ {"none", "queued", "over"} : Goes(n, place)
      BY <1>0, <2>1, <2>3, <3>1, PerformKeeps
    <3>3. ConfigTypes' /\ ReadTypes'
      BY <1>0, <2>1, <2>3 DEF ConfigTypes, ReadTypes, config
    <3>4. n <= lines' /\ lines <= lines' /\ lines' \in Nat
      BY <1>0, <2>1, <2>3 DEF OneAtATime, Queued, ReadTypes, Lines
    <3>5. OneAtATime'
      BY <2>1, <2>3, <3>1, <3>2, <3>4, TakenKeepsOrder
    <3>6. QED
      BY <3>2, <3>3, <3>5, PartsNext
  <2>4. QED
    BY <1>4, <2>2, <2>3 DEF NextLine
<1>5. CASE Leave \/ Timeout \/ CleanUp
  <2>1. exit' \in {"0", "1", "N", "124", "fails"} /\ KillIfAny
        /\ UNCHANGED <<config, lastError, pc, outcome, reader, batch>>
    BY <1>5 DEF Leave, Timeout, CleanUp, BatchStatus
  <2>2. QED
    BY <2>1, ExitKeeps
<1>6. CASE EndInput \/ UNCHANGED vars
  BY <1>0, <1>6, PartsNext DEF EndInput, vars, CmdPart, CmdTypes, OneDebuggee, InStep, ConfigTypes, ReadTypes,
      OneAtATime, Busy, Over, target, debuggee, config, reader, batch
<1>7. ASSUME NEW g \in Lines, Halts(g) \/ Closes(g) \/ \E how \in {"ok", "fails"} : Ends(g, how)
      PROVE  TInv'
  BY <1>0, <1>7, OutsideKeeps DEF Halts, Closes, Ends, CmdPart, CmdTypes
<1>8. QED
  BY <1>1, <1>2, <1>3, <1>4, <1>5, <1>6, <1>7 DEF Next, Continuation

-----------------------------------------------------------------------------
\* The first inductive invariant as a theorem.
THEOREM Invariance == Spec => []TInv
<1>1. Init => TInv
  <2> SUFFICES ASSUME Init PROVE TInv
    OBVIOUS
  <2>1. CmdTypes
    <3>1. /\ child \in Lines \cup {0} /\ session \in {0, child} /\ stack \in 0 .. MaxDepth
          /\ frame = 0 /\ ~(stack > 0)
      BY DEF Init
    <3>2. /\ pc \in [Lines -> Places]
          /\ outcome \in [Lines -> {"none", "stopped", "exited"}]
          /\ proc \in [Lines -> {"none", "alive", "ok", "fails", "killed"}]
          /\ link \in [Lines -> {"none", "running", "stopped", "closed"}]
      BY DEF Init, Places
    <3>3. records \in Seq(Record)
      BY DEF Init
    <3>4. QED
      BY <3>1, <3>2, <3>3 DEF Init, CmdTypes
  <2>2. OneDebuggee /\ InStep /\ OneAtATime
    BY DEF Init, OneDebuggee, InStep, OneAtATime, Busy, Over
  <2>3. ConfigTypes /\ ReadTypes
    <3>1. word \in [Lines -> Words \cup {"none"}] /\ lines \in 0 .. MaxLines
      BY DEF Init
    <3>2. QED
      BY <3>1 DEF Init, ConfigTypes, ReadTypes
  <2>4. QED
    BY <2>1, <2>2, <2>3, Parts DEF CmdPart
<1>2. QED
  BY <1>1, StepKeepsTInv, PTL DEF Spec

\* Every variable keeps its type; in particular the selected frame is one of the
\* stack at hand, and there is a stack only while there is a session
\* (debugger.js 466-493, 526-536, 848-870).
THEOREM TypeCorrect == Spec => []TypeOK
<1>1. TInv => TypeOK
  BY DEF TInv
<1>2. QED
  BY <1>1, Invariance, PTL

\* At most one process is alive, the one the debugger knows, and none once it has
\* exited (debugger.js 368-409, 466-493, 1474-1506).
THEOREM DebuggeeCorrect == Spec => []OneDebuggee
<1>1. TInv => OneDebuggee
  BY DEF TInv
<1>2. QED
  BY <1>1, Invariance, PTL

-----------------------------------------------------------------------------
(* The second invariant, RInv, on top of TInv: the records and the exit       *)
(* status.  Log is what is true of the records in themselves; Now ties the    *)
(* last of them to the command in progress and to the status.                 *)

Log ==
  /\ RecordsTell
  /\ \A i \in DOMAIN records : records[i].what = "result" => records[i].line <= lines
  /\ Exited # {} => LastExit \in Exited /\ \A i \in Exited : i <= LastExit

Failure == \E i \in DOMAIN records : records[i].what = "result" /\ ~records[i].ok

Now ==
  /\ \A i \in Exited : records[i].run # child /\ pc[records[i].run] \notin Unlaunched
  /\ \A n \in Lines : (pc[n] = "finish" /\ Resuming(n) /\ ~lastError) =>
        records # <<>> /\ outcome[n] # "none" /\ records[Len(records)].what = outcome[n]
  /\ \A n \in Lines : pc[n] \in {"eval", "show"} => ~Resuming(n)
  /\ front = "batch" => (status = "N" <=> \E n \in Lines : word[n] = "quitN")
  /\ failed <=> Failure
  /\ (child # 0 \/ \E n \in Lines : pc[n] = "binding") => exitCode # "fails"
  /\ (child = 0 /\ ~failed /\ \A n \in Lines : pc[n] \notin {"throw", "binding"}) =>
        (exitCode = "fails" <=> Exited # {} /\ records[LastExit].how = "fails")

LEMMA LogAndNow == RInv <=> Log /\ ExitStatus /\ (exit = "none" => Now)
BY DEF RInv, Log, Now, Failure, ReportedInTime, StatusFollows

LEMMA LogAndNowNext == Log' /\ ExitStatus' /\ (exit' = "none" => Now') => RInv'
BY DEF RInv, Log, Now, Failure, ReportedInTime, StatusFollows

\* The fields of a record, by its kind.
LEMMA RecordFields ==
  ASSUME NEW r \in Record
  PROVE  /\ r.what \in {"stopped", "exited", "result"}
         /\ r.what = "result" => r.line \in Lines /\ r.ok \in BOOLEAN
         /\ r.what # "result" => r.run \in Lines
BY DEF Record

LEMMA LogFields ==
  ASSUME TInv
  PROVE  /\ records \in Seq(Record) /\ Len(records) \in Nat /\ DOMAIN records = 1 .. Len(records)
         /\ \A i \in DOMAIN records :
              /\ records[i].what \in {"stopped", "exited", "result"}
              /\ records[i].what = "result" => records[i].line \in Lines /\ records[i].ok \in BOOLEAN
              /\ records[i].what # "result" => records[i].run \in Lines
<1>1. records \in Seq(Record)
  BY DEF TInv, TypeOK
<1>2. \A i \in DOMAIN records : records[i] \in Record
  BY <1>1
<1>3. QED
  BY <1>1, <1>2, RecordFields

LEMMA AppendAt ==
  ASSUME NEW S, NEW s \in Seq(S), NEW e
  PROVE  /\ DOMAIN Append(s, e) = 1 .. Len(s) + 1 /\ Len(Append(s, e)) = Len(s) + 1
         /\ \A i \in 1 .. Len(s) : Append(s, e)[i] = s[i]
         /\ Append(s, e)[Len(s) + 1] = e
         /\ Append(s, e) # <<>>
<1>1. /\ DOMAIN Append(s, e) = 1 .. Len(s) + 1 /\ Len(Append(s, e)) = Len(s) + 1
      /\ \A i \in 1 .. Len(s) : Append(s, e)[i] = s[i]
      /\ Append(s, e)[Len(s) + 1] = e
  OBVIOUS
<1>2. Append(s, e) # <<>>
  OBVIOUS
<1>3. QED
  BY <1>1, <1>2

\* The commands of the lines read stay what they were.
WordsKept == lines' \in Nat /\ lines <= lines' /\ \A n \in Lines : n <= lines => word'[n] = word[n]

\* Nothing is reported.
LEMMA LogSame ==
  ASSUME TInv, Log, WordsKept, records' = records
  PROVE  /\ Log' /\ Exited' = Exited /\ LastExit' = LastExit /\ (Failure' <=> Failure)
         /\ \A i \in Exited : i \in DOMAIN records /\ records[i].run \in Lines
<1>1. Exited' = Exited /\ LastExit' = LastExit /\ States' = States
  BY DEF Exited, LastExit, States
<1>2. \A i \in DOMAIN records : records[i].what = "result" =>
         records[i].line <= lines' /\ (Resuming(records[i].line)' <=> Resuming(records[i].line))
  BY LogFields DEF Log, WordsKept, Resuming, Lines, TInv, TypeOK
<1>3. RecordsTell'
  BY <1>1, <1>2 DEF Log, RecordsTell
<1>4. Exited \subseteq DOMAIN records /\ \A i \in Exited : records[i].what # "result"
  BY DEF Exited, States
<1>5. QED
  BY <1>1, <1>2, <1>3, <1>4, LogFields DEF Log, Failure

\* What an appended record does to the sets of records.
LEMMA Appended ==
  ASSUME TInv, NEW e, records' = Append(records, e)
  PROVE  /\ DOMAIN records' = DOMAIN records \cup {Len(records) + 1}
         /\ \A i \in DOMAIN records : records'[i] = records[i] /\ i < Len(records) + 1 /\ i \in Nat
         /\ records'[Len(records) + 1] = e
         /\ records' # <<>> /\ Len(records') = Len(records) + 1
         /\ States' = IF e.what # "result" THEN States \cup {Len(records) + 1} ELSE States
         /\ Exited' = IF e.what = "exited" THEN Exited \cup {Len(records) + 1} ELSE Exited
<1>1. /\ DOMAIN records' = 1 .. Len(records) + 1 /\ Len(records') = Len(records) + 1
      /\ \A i \in 1 .. Len(records) : records'[i] = records[i]
      /\ records'[Len(records) + 1] = e
      /\ records' # <<>>
  BY LogFields, AppendAt
<1>2. DOMAIN records' = DOMAIN records \cup {Len(records) + 1}
  BY <1>1, LogFields
<1>3. \A i \in DOMAIN records : records'[i] = records[i] /\ i < Len(records) + 1 /\ i \in Nat
  BY <1>1, LogFields
<1>4. States' = IF e.what # "result" THEN States \cup {Len(records) + 1} ELSE States
  BY <1>1, <1>2, <1>3 DEF States
<1>5. Len(records) + 1 \notin DOMAIN records
  BY LogFields
<1>6. Exited' = IF e.what = "exited" THEN Exited \cup {Len(records) + 1} ELSE Exited
  BY <1>1, <1>2, <1>3, <1>4, <1>5 DEF Exited, States
<1>7. QED
  BY <1>1, <1>2, <1>3, <1>4, <1>6

\* The part of the records that is about results, when something else is appended.
ResultsTell ==
  \A i \in DOMAIN records : records[i].what = "result" =>
    /\ records[i].line <= lines
    /\ (records[i].ok /\ Resuming(records[i].line)) =>
          i > 1 /\ records[i].state # "none" /\ records[i - 1].what = records[i].state

LEMMA WordsOfResults ==
  ASSUME TInv, Log, WordsKept
  PROVE  \A i \in DOMAIN records : records[i].what = "result" =>
           records[i].line <= lines' /\ word'[records[i].line] = word[records[i].line]
BY LogFields DEF Log, WordsKept, Lines, TInv, TypeOK

LEMMA ResultsKept ==
  ASSUME TInv, Log, WordsKept, NEW e, records' = Append(records, e), e.what # "result"
  PROVE  (Failure' <=> Failure) /\ ResultsTell'
<1>1. /\ DOMAIN records' = DOMAIN records \cup {Len(records) + 1}
      /\ \A i \in DOMAIN records : records'[i] = records[i]
      /\ records'[Len(records) + 1] = e
  BY Appended
<1>2. \A i \in DOMAIN records' : records'[i].what = "result" => i \in DOMAIN records /\ records'[i] = records[i]
  BY <1>1
<1>3. Failure' <=> Failure
  BY <1>1, <1>2 DEF Failure
<1>4. ASSUME NEW i \in DOMAIN records', records'[i].what = "result"
      PROVE  /\ records'[i].line <= lines'
             /\ (records'[i].ok /\ word'[records'[i].line] \in {"run", "starti", "continue"}) =>
                  i > 1 /\ records'[i].state # "none" /\ records'[i - 1].what = records'[i].state
  <2>1. i \in DOMAIN records /\ records'[i] = records[i] /\ records[i].what = "result"
    BY <1>2, <1>4
  <2>2. records[i].line <= lines' /\ word'[records[i].line] = word[records[i].line]
    BY <2>1, WordsOfResults
  <2>3. (records[i].ok /\ word[records[i].line] \in {"run", "starti", "continue"}) =>
          i > 1 /\ records[i].state # "none" /\ records[i - 1].what = records[i].state
    BY <2>1 DEF Log, RecordsTell, Resuming
  <2>4. i > 1 => records'[i - 1] = records[i - 1]
    BY <1>1, <2>1, LogFields
  <2>5. QED
    BY <2>1, <2>2, <2>3, <2>4
<1>5. ResultsTell'
  BY <1>4 DEF ResultsTell, Resuming
<1>6. QED
  BY <1>3, <1>5

\* Of two records of states, the earlier was there before.
LEMMA EarlierState ==
  ASSUME TInv, NEW e, records' = Append(records, e), e.what # "result",
         NEW i \in States', NEW j \in States', i < j
  PROVE  /\ i \in States /\ i \in DOMAIN records /\ records'[i] = records[i]
         /\ j = Len(records) + 1 \/ (j \in States /\ records'[j] = records[j])
<1>1. States' = States \cup {Len(records) + 1} /\ States \subseteq DOMAIN records
  BY Appended DEF States
<1>2. \A k \in DOMAIN records : records'[k] = records[k] /\ k < Len(records) + 1 /\ k \in Nat
  BY Appended
<1>3. Len(records) + 1 \in Nat
  BY LogFields
<1>4. i # Len(records) + 1
  <2> SUFFICES ASSUME i = Len(records) + 1 PROVE FALSE
    OBVIOUS
  <2>1. j \in States
    BY <1>1, <1>3
  <2>2. j < i /\ j \in Nat /\ i \in Nat
    BY <1>1, <1>2, <1>3, <2>1
  <2>3. QED
    BY <2>2
<1>5. QED
  BY <1>1, <1>2, <1>4

\* The end of the debuggee is reported.
LEMMA LogExited ==
  ASSUME TInv, Log, WordsKept, child # 0, NEW how, records' = Told(how),
         \A i \in Exited : records[i].run # child
  PROVE  /\ Log' /\ (Failure' <=> Failure)
         /\ Exited' # {} /\ records'[LastExit'].how = how
         /\ records' # <<>> /\ records'[Len(records')].what = "exited"
         /\ \A i \in Exited' : records'[i].run = child \/ (i \in Exited /\ records'[i] = records[i])
<1> DEFINE e == [what |-> "exited", run |-> child, how |-> how]
           last == Len(records) + 1
<1>1. records' = Append(records, e) /\ e.what = "exited" /\ e.run = child /\ e.how = how
  BY DEF Told
<1>2. /\ DOMAIN records' = DOMAIN records \cup {last}
      /\ \A i \in DOMAIN records : records'[i] = records[i] /\ i < last /\ i \in Nat
      /\ records'[last] = e /\ records' # <<>> /\ Len(records') = last
      /\ States' = States \cup {last} /\ Exited' = Exited \cup {last}
  BY <1>1, Appended
<1>3. Exited \subseteq States /\ States \subseteq DOMAIN records
  BY DEF Exited, States
<1>4. LastExit' = last
  <2>1. \A i \in Exited' : i <= last
    BY <1>2, <1>3, LogFields
  <2>2. ASSUME NEW k \in Exited', \A i \in Exited' : i <= k PROVE k = last
    BY <1>2, <1>3, <2>1, <2>2, LogFields
  <2>3. QED
    BY <1>2, <2>1, <2>2 DEF LastExit
<1>5. \A i, j \in States' : (i < j /\ records'[i].run = records'[j].run) => records'[i].what = "stopped"
  <2> SUFFICES ASSUME NEW i \in States', NEW j \in States', i < j, records'[i].run = records'[j].run
               PROVE  records'[i].what = "stopped"
    OBVIOUS
  <2>1. /\ i \in States /\ i \in DOMAIN records /\ records'[i] = records[i]
        /\ j = last \/ (j \in States /\ records'[j] = records[j])
    BY <1>1, EarlierState
  <2>2. CASE j = last
    <3>1. records[i].run = child
      BY <1>1, <1>2, <2>1, <2>2
    <3>2. i \notin Exited
      BY <3>1
    <3>3. QED
      BY <2>1, <3>2, LogFields DEF Exited, States
  <2>3. CASE j # last
    BY <2>1, <2>3 DEF Log, RecordsTell
  <2>4. QED
    BY <2>2, <2>3
<1>6. RecordsTell' /\ \A i \in DOMAIN records' : records'[i].what = "result" => records'[i].line <= lines'
  <2>1. ResultsTell'
    BY <1>1, ResultsKept
  <2>2. QED
    BY <1>5, <2>1 DEF RecordsTell, ResultsTell
<1>7. LastExit' \in Exited' /\ \A i \in Exited' : i <= LastExit'
  BY <1>2, <1>3, <1>4, LogFields
<1>8. Log'
  BY <1>6, <1>7 DEF Log
<1>9. QED
  BY <1>1, <1>2, <1>3, <1>4, <1>8, ResultsKept

\* A stop is reported.
LEMMA LogStopped ==
  ASSUME TInv, Log, WordsKept, session # 0, \A i \in Exited : records[i].run # child,
         records' = Append(records, [what |-> "stopped", run |-> session, how |-> ""])
  PROVE  /\ Log' /\ (Failure' <=> Failure)
         /\ Exited' = Exited /\ \A i \in Exited : records'[i] = records[i] /\ records[i].run \in Lines
         /\ records' # <<>> /\ records'[Len(records')].what = "stopped"
<1> DEFINE e == [what |-> "stopped", run |-> session, how |-> ""]
           last == Len(records) + 1
<1>1. records' = Append(records, e) /\ e.what = "stopped" /\ e.run = child
  BY DEF TInv, TypeOK
<1> HIDE DEF e
<1>2. /\ DOMAIN records' = DOMAIN records \cup {last}
      /\ \A i \in DOMAIN records : records'[i] = records[i] /\ i < last /\ i \in Nat
      /\ records'[last] = e /\ records' # <<>> /\ Len(records') = last
      /\ States' = States \cup {last} /\ Exited' = Exited
  BY <1>1, Appended
<1>3. Exited \subseteq States /\ States \subseteq DOMAIN records
  BY DEF Exited, States
<1>4. LastExit' = LastExit
  BY <1>2 DEF LastExit
<1>5. \A i, j \in States' : (i < j /\ records'[i].run = records'[j].run) => records'[i].what = "stopped"
  <2> SUFFICES ASSUME NEW i \in States', NEW j \in States', i < j, records'[i].run = records'[j].run
               PROVE  records'[i].what = "stopped"
    OBVIOUS
  <2>1. /\ i \in States /\ i \in DOMAIN records /\ records'[i] = records[i]
        /\ j = last \/ (j \in States /\ records'[j] = records[j])
    BY <1>1, EarlierState
  <2>2. CASE j = last
    <3>1. i \notin Exited
      BY <1>1, <1>2, <2>1, <2>2
    <3>2. QED
      BY <2>1, <3>1, LogFields DEF Exited, States
  <2>3. CASE j # last
    BY <2>1, <2>3 DEF Log, RecordsTell
  <2>4. QED
    BY <2>2, <2>3
<1>6. RecordsTell' /\ \A i \in DOMAIN records' : records'[i].what = "result" => records'[i].line <= lines'
  <2>1. ResultsTell'
    BY <1>1, ResultsKept
  <2>2. QED
    BY <1>5, <2>1 DEF RecordsTell, ResultsTell
<1>7. Log'
  BY <1>2, <1>4, <1>6 DEF Log
<1>8. \A i \in Exited : records[i].run \in Lines
  BY <1>3, LogFields DEF Exited, States
<1>9. QED
  BY <1>1, <1>2, <1>3, <1>7, <1>8, ResultsKept

\* A result is reported.
LEMMA LogResult ==
  ASSUME TInv, Log, UNCHANGED <<word, lines>>, NEW n \in Lines, n <= lines, NEW ok \in BOOLEAN, NEW st,
         records' = Append(records, [what |-> "result", line |-> n, ok |-> ok, state |-> st]),
         (ok /\ Resuming(n)) => records # <<>> /\ st # "none" /\ records[Len(records)].what = st
  PROVE  /\ Log' /\ (Failure' <=> Failure \/ ~ok)
         /\ Exited' = Exited /\ LastExit' = LastExit
         /\ \A i \in Exited : records'[i] = records[i] /\ records[i].run \in Lines
<1> DEFINE e == [what |-> "result", line |-> n, ok |-> ok, state |-> st]
           last == Len(records) + 1
<1>1. records' = Append(records, e) /\ e.what = "result" /\ e.line = n /\ e.ok = ok /\ e.state = st
  OBVIOUS
<1> HIDE DEF e
<1>2. /\ DOMAIN records' = DOMAIN records \cup {last}
      /\ \A i \in DOMAIN records : records'[i] = records[i] /\ i < last /\ i \in Nat
      /\ records'[last] = e
      /\ States' = States /\ Exited' = Exited
  BY <1>1, Appended
<1>3. Exited \subseteq States /\ States \subseteq DOMAIN records
  BY DEF Exited, States
<1>4. LastExit' = LastExit
  BY <1>2 DEF LastExit
<1>5. Failure' <=> Failure \/ ~ok
  BY <1>1, <1>2 DEF Failure
<1>6. ResultsTell'
  <2> SUFFICES ASSUME NEW i \in DOMAIN records', records'[i].what = "result"
               PROVE  /\ records'[i].line <= lines
                      /\ (records'[i].ok /\ word[records'[i].line] \in {"run", "starti", "continue"}) =>
                           i > 1 /\ records'[i].state # "none" /\ records'[i - 1].what = records'[i].state
    BY DEF ResultsTell, Resuming
  <2>1. CASE i = last
    <3>1. records # <<>> => last > 1 /\ last - 1 = Len(records) /\ Len(records) \in DOMAIN records
      <4>1. records # <<>> => Len(records) # 0
        BY LogFields
      <4>2. QED
        BY <4>1, LogFields
    <3>2. records'[last] = e
      BY <1>2
    <3>3. records # <<>> => records'[last - 1] = records[Len(records)]
      BY <1>2, <3>1
    <3>4. QED
      BY <1>1, <2>1, <3>1, <3>2, <3>3 DEF Resuming
  <2>2. CASE i # last
    <3>1. i \in DOMAIN records /\ records'[i] = records[i]
      BY <1>2, <2>2
    <3>2. i > 1 => i - 1 \in DOMAIN records
      BY <3>1, LogFields
    <3>3. i > 1 => records'[i - 1] = records[i - 1]
      BY <1>2, <3>2
    <3>4. QED
      BY <3>1, <3>3 DEF Log, RecordsTell, Resuming
  <2>3. QED
    BY <2>1, <2>2
<1>7. \A i, j \in States' : (i < j /\ records'[i].run = records'[j].run) => records'[i].what = "stopped"
  <2>1. \A i \in States : records'[i] = records[i]
    BY <1>2, <1>3
  <2>2. QED
    BY <1>2, <2>1 DEF Log, RecordsTell
<1>8. Log'
  BY <1>2, <1>4, <1>6, <1>7 DEF Log, RecordsTell, ResultsTell
<1>9. \A i \in Exited : records'[i] = records[i] /\ records[i].run \in Lines
  BY <1>2, <1>3, LogFields DEF Exited, States
<1>10. QED
  BY <1>2, <1>4, <1>5, <1>8, <1>9

\* Debuggees that are reported as ended.
LEMMA ExitedThen ==
  ASSUME TInv, Now
  PROVE  \A i \in Exited : /\ records[i].run # child /\ records[i].run \in Lines
                           /\ pc[records[i].run] \notin Unlaunched
<1>1. \A i \in Exited : i \in DOMAIN records /\ records[i].what # "result"
  BY DEF Exited, States
<1>2. QED
  BY <1>1, LogFields DEF Now

\* Where nothing is reported and no debuggee is begun or ended, the rest follows
\* from where the command goes.
LEMMA QuietKeepsNow ==
  ASSUME TInv, Log, Now, NEW n \in Lines,
         NEW place \in {"eval", "show", "finish", "running", "stack", "report", "throw", "entry"},
         Goes(n, place), WordsKept, \A m \in Lines : m # n => word'[m] = word[m],
         UNCHANGED <<front, records, child, exitCode, failed>>,
         \A m \in Lines : m # n => pc[m] \in {"none", "queued", "over"},
         pc[n] \notin {"throw", "binding"},
         place = "finish" => (Resuming(n)' => lastError'),
         place \in {"eval", "show"} => ~Resuming(n)',
         front = "batch" => (status' = "N" <=> \E m \in Lines : word'[m] = "quitN")
  PROVE  Log' /\ Now'
<1>1. \A m \in Lines : pc'[m] = IF m = n THEN place ELSE pc[m]
  BY DEF TInv, TypeOK, Goes
<1>2. /\ Log' /\ Exited' = Exited /\ LastExit' = LastExit /\ (Failure' <=> Failure)
      /\ \A i \in Exited : records[i].run \in Lines
  BY LogSame
<1>3. \A i \in Exited : records[i].run # child /\ pc'[records[i].run] \notin Unlaunched
  BY <1>1, <1>2 DEF Now, Unlaunched
<1>4. \A m \in Lines : (pc'[m] = "finish" /\ Resuming(m)' /\ ~lastError') => FALSE
  BY <1>1
<1>5. \A m \in Lines : pc'[m] \in {"eval", "show"} => ~Resuming(m)'
  BY <1>1
<1>6. (\E m \in Lines : pc'[m] = "binding") => FALSE
  BY <1>1
<1>7. (\A m \in Lines : pc'[m] \notin {"throw", "binding"}) => \A m \in Lines : pc[m] \notin {"throw", "binding"}
  BY <1>1
<1>8. QED
  BY <1>2, <1>3, <1>4, <1>5, <1>6, <1>7 DEF Now

-----------------------------------------------------------------------------
(* A line that is taken, in RInv.                                           *)

\* The word of line n is w, and no other changes; a batch goes on only without quit.
Given(n, w) ==
  /\ WordsKept /\ word'[n] = w /\ \A m \in Lines : m # n => word'[m] = word[m]
  /\ front = "batch" => status = "null"

LEMMA RunKeepsNow ==
  ASSUME TInv, Log, Now, NEW n \in Lines, Taken(n), NEW w \in {"run", "starti"}, Given(n, w), Run(n),
         front' = front, failed' = failed
  PROVE  Log' /\ Now'
<1> DEFINE place == IF mode = "listen" THEN "binding" ELSE "connecting"
<1>0. CmdPart
  BY Parts
<1>1. /\ \A m \in Lines : pc'[m] = IF m = n THEN place ELSE pc[m]
      /\ \A m \in Lines : m # n => pc'[m] \in {"none", "queued", "over"}
      /\ child # 0 => session = child /\ child # n /\ child \in Lines /\ pc'[child] \notin Unlaunched
  BY <1>0, OnlyOne DEF Run, Places, CmdPart, CmdTypes
<1>2. /\ exitCode' = "null" /\ status' = status
      /\ child' = IF mode = "listen" THEN 0 ELSE n
  BY <1>1 DEF Run, NoExitCode
<1>3. \A i \in Exited : /\ records[i].run # child /\ records[i].run \in Lines /\ records[i].run # n
                        /\ pc[records[i].run] \notin Unlaunched
  <2>1. pc[n] \in Unlaunched
    BY DEF Taken, Unlaunched
  <2>2. QED
    BY <2>1, ExitedThen
<1>4. WordsKept
  BY DEF Given
<1>5. /\ Log' /\ (Failure' <=> Failure)
      /\ \A i \in Exited' : records'[i].run \in Lines /\ records'[i].run # n /\ pc'[records'[i].run] \notin Unlaunched
  <2>1. CASE session = 0
    <3>1. records' = records
      BY <2>1 DEF Run
    <3>2. Log' /\ Exited' = Exited /\ (Failure' <=> Failure)
      BY <1>4, <3>1, LogSame
    <3>3. QED
      BY <1>1, <1>3, <3>1, <3>2
  <2>2. CASE session # 0
    <3>1. child # 0 /\ records' = Told("killed")
      BY <2>2 DEF Run, TInv, TypeOK
    <3>2. /\ Log' /\ (Failure' <=> Failure)
          /\ \A i \in Exited' : records'[i].run = child \/ (i \in Exited /\ records'[i] = records[i])
      BY <1>3, <1>4, <3>1, LogExited
    <3>3. QED
      BY <1>1, <1>3, <3>1, <3>2
  <2>3. QED
    BY <2>1, <2>2
<1>6. \A i \in Exited' : records'[i].run # child'
  BY <1>2, <1>5, LinesFact
<1>7. \A m \in Lines : pc'[m] \notin {"finish", "eval", "show"}
  BY <1>1
<1>8. front = "batch" => (status' = "N" <=> \E m \in Lines : word'[m] = "quitN")
  BY <1>2 DEF Given, Now
<1>9. (child' = 0 /\ \A m \in Lines : pc'[m] \notin {"throw", "binding"}) => FALSE
  BY <1>1, <1>2, LinesFact
<1>10. QED
  BY <1>2, <1>5, <1>6, <1>7, <1>8, <1>9 DEF Now

\* The debuggee, if there is one, is killed.
LEMMA LogKilled ==
  ASSUME TInv, Log, WordsKept, KillIfAny, \A i \in Exited : records[i].run # child
  PROVE  /\ Log' /\ (Failure' <=> Failure) /\ child' = 0 /\ exitCode' = exitCode
         /\ child = 0 => records' = records /\ Exited' = Exited /\ LastExit' = LastExit
         /\ child # 0 => Exited' # {} /\ records'[LastExit'].how = "killed"
         /\ \A i \in Exited' : records'[i].run = child \/ (i \in Exited /\ records'[i] = records[i])
<1>1. child' = 0 /\ exitCode' = exitCode
  BY Parts, KillIfAnyEffect
<1>2. CASE child # 0
  <2>1. records' = Told("killed")
    BY <1>2 DEF KillIfAny, CmdKill
  <2>2. QED
    BY <1>1, <1>2, <2>1, LogExited
<1>3. CASE child = 0
  <2>1. records' = records
    BY <1>3 DEF KillIfAny
  <2>2. QED
    BY <1>1, <1>3, <2>1, LogSame
<1>4. QED
  BY <1>2, <1>3

LEMMA KillKeepsNow ==
  ASSUME TInv, Log, Now, NEW n \in Lines, Taken(n), NEW w \in {"kill", "quit", "quitN"}, Given(n, w),
         KillIfAny, Goes(n, "finish"), front' = front, failed' = failed
  PROVE  Log' /\ ((front = "batch" => (status' = "N" <=> w = "quitN")) => Now')
<1>0. CmdPart /\ WordsKept
  BY Parts DEF Given
<1>1. /\ \A m \in Lines : pc'[m] = IF m = n THEN "finish" ELSE pc[m]
      /\ \A m \in Lines : m # n => pc'[m] \in {"none", "queued", "over"}
      /\ child # 0 => child \in Lines /\ pc'[child] \notin Unlaunched
  BY <1>0, OnlyOne DEF Places, CmdPart, CmdTypes
<1>2. \A i \in Exited : records[i].run # child /\ records[i].run \in Lines /\ pc'[records[i].run] \notin Unlaunched
  <2>1. "finish" \notin Unlaunched
    BY DEF Unlaunched
  <2>2. QED
    BY <1>1, <2>1, ExitedThen
<1>3. /\ Log' /\ (Failure' <=> Failure) /\ child' = 0 /\ exitCode' = exitCode
      /\ child = 0 => records' = records /\ Exited' = Exited /\ LastExit' = LastExit
      /\ child # 0 => Exited' # {} /\ records'[LastExit'].how = "killed"
      /\ \A i \in Exited' : records'[i].run = child \/ (i \in Exited /\ records'[i] = records[i])
  BY <1>0, <1>2, LogKilled
<1>4. \A i \in Exited' : records'[i].run # child' /\ pc'[records'[i].run] \notin Unlaunched
  <2> SUFFICES ASSUME NEW i \in Exited' PROVE records'[i].run # child' /\ pc'[records'[i].run] \notin Unlaunched
    OBVIOUS
  <2>1. CASE i \in Exited /\ records'[i] = records[i]
    BY <1>2, <1>3, <2>1, LinesFact
  <2>2. CASE records'[i].run = child /\ child # 0
    BY <1>1, <1>3, <2>2
  <2>3. child = 0 => i \in Exited /\ records'[i] = records[i]
    BY <1>3
  <2>4. QED
    BY <1>3, <2>1, <2>2, <2>3
<1>5. ~(Resuming(n)') /\ \A m \in Lines : pc'[m] \notin {"eval", "show", "throw", "binding"} /\ (pc'[m] = "finish" => m = n)
  BY <1>1 DEF Given, Resuming
<1>6. (front = "batch" => (status' = "N" <=> w = "quitN")) =>
        (front = "batch" => (status' = "N" <=> \E m \in Lines : word'[m] = "quitN"))
  BY DEF Given, Now
<1>7. ~failed => (exitCode' = "fails" <=> Exited' # {} /\ records'[LastExit'].how = "fails")
  <2>1. CASE child # 0
    BY <1>3, <2>1 DEF Now
  <2>2. CASE child = 0
    <3>1. \A m \in Lines : pc[m] \notin {"throw", "binding"}
      BY DEF Taken, Over
    <3>2. QED
      BY <1>3, <2>2, <3>1 DEF Now
  <2>3. QED
    BY <2>1, <2>2
<1>8. QED
  BY <1>3, <1>4, <1>5, <1>6, <1>7 DEF Now

LEMMA PerformKeepsRInv ==
  ASSUME TInv, Log, Now, UNCHANGED <<config, failed>>, NEW n \in Lines, Taken(n), NEW w \in Words,
         Given(n, w), Perform(n, w)
  PROVE  RInv'
<1> USE DEF target, debuggee, config
<1>0. WordsKept /\ \A m \in Lines : m # n => word'[m] = word[m]
  BY DEF Given
<1>1. CASE w \in {"info", "print", "locals", "display", "interrupt", "frame", "continue"}
  <2>1. /\ UNCHANGED <<front, records, child, exitCode, failed, status, exit>>
        /\ \E place \in {"eval", "show", "finish", "running"} :
             /\ Goes(n, place)
             /\ place \in {"eval", "show"} => w # "continue"
             /\ place = "finish" => (w = "continue" => lastError')
    BY <1>1 DEF Perform, Info, Evaluate, Display, Interrupt, SelectFrame, Resume, Fails, Proceeds
  <2>2. PICK place \in {"eval", "show", "finish", "running"} :
             /\ Goes(n, place)
             /\ place \in {"eval", "show"} => w # "continue"
             /\ place = "finish" => (w = "continue" => lastError')
    BY <2>1
  <2>3. Resuming(n)' <=> w = "continue"
    BY <1>1 DEF Given, Resuming
  <2>4. front = "batch" => (status' = "N" <=> \E m \in Lines : word'[m] = "quitN")
    BY <1>1, <2>1 DEF Given, Now
  <2>5. pc[n] \notin {"throw", "binding"} /\ \A m \in Lines : m # n => pc[m] \in {"none", "queued", "over"}
    BY DEF Taken, Over
  <2>6. Log' /\ Now'
    BY <1>0, <2>1, <2>2, <2>3, <2>4, <2>5, QuietKeepsNow
  <2>7. ExitStatus'
    BY <2>1 DEF ExitStatus, Taken
  <2>8. QED
    BY <2>6, <2>7, LogAndNowNext
<1>2. CASE w \in {"run", "starti"}
  <2>1. Run(n) /\ exit' = exit
    BY <1>2 DEF Perform, Run
  <2>2. Log' /\ Now'
    BY <1>2, <2>1, RunKeepsNow
  <2>3. ExitStatus'
    BY <2>1 DEF ExitStatus, Taken
  <2>4. QED
    BY <2>2, <2>3, LogAndNowNext
<1>3. CASE w = "kill"
  <2>1. CASE Fails(n)
    <3>1. UNCHANGED <<front, records, child, exitCode, failed, status, exit>> /\ Goes(n, "finish") /\ lastError'
      BY <2>1 DEF Fails
    <3>2. front = "batch" => (status' = "N" <=> \E m \in Lines : word'[m] = "quitN")
      BY <1>3, <3>1 DEF Given, Now
    <3>3. pc[n] \notin {"throw", "binding"} /\ \A m \in Lines : m # n => pc[m] \in {"none", "queued", "over"}
      BY DEF Taken, Over
    <3>4. Log' /\ Now'
      BY <1>0, <3>1, <3>2, <3>3, QuietKeepsNow
    <3>5. ExitStatus'
      BY <3>1 DEF ExitStatus, Taken
    <3>6. QED
      BY <3>4, <3>5, LogAndNowNext
  <2>2. CASE ~Fails(n)
    <3>1. KillIfAny /\ Goes(n, "finish") /\ UNCHANGED <<front, status, exit>>
      BY <1>3, <2>2 DEF Perform, KillCommand, KillIfAny
    <3>2. Log' /\ ((front = "batch" => (status' = "N" <=> w = "quitN")) => Now')
      BY <1>3, <3>1, KillKeepsNow
    <3>3. front = "batch" => (status' = "N" <=> w = "quitN")
      BY <1>3, <3>1 DEF Given
    <3>4. ExitStatus'
      BY <3>1 DEF ExitStatus, Taken
    <3>5. QED
      BY <3>2, <3>3, <3>4, LogAndNowNext
  <2>3. QED
    BY <2>1, <2>2
<1>4. ASSUME NEW code \in {"plain", "N"}, Quit(n, code), w = IF code = "N" THEN "quitN" ELSE "quit"
      PROVE  RInv'
  <2>1. KillIfAny /\ Goes(n, "finish") /\ front' = front
    BY <1>4 DEF Quit
  <2>2. Log' /\ ((front = "batch" => (status' = "N" <=> w = "quitN")) => Now')
    BY <1>4, <2>1, KillKeepsNow
  <2>3. front = "batch" => (status' = "N" <=> w = "quitN") /\ exit' = exit
    BY <1>4 DEF Quit
  <2>4. ExitStatus'
    BY <2>1, <2>3 DEF ExitStatus, Taken
  <2>5. QED
    BY <2>2, <2>3, <2>4, LogAndNowNext
<1>5. QED
  <2>1. w = "quit" => Quit(n, "plain")
    BY DEF Perform
  <2>2. w = "quitN" => Quit(n, "N")
    BY DEF Perform
  <2>3. w \in AllWords
    OBVIOUS
  <2>4. QED
    BY <1>1, <1>2, <1>3, <1>4, <2>1, <2>2, <2>3 DEF AllWords

-----------------------------------------------------------------------------
(* A command that goes on, in RInv.                                         *)

LEMMA LaunchKeepsRInv ==
  ASSUME TInv, Log, Now, NEW n \in Lines, Sole(n), Bind(n) \/ Connect(n) \/ GiveUp(n)
  PROVE  RInv'
<1> USE DEF Steps, Quiet, target, debuggee, config, reader, batch
<1>0. CmdPart
  BY Parts
<1>1. \E place \in {"throw", "connecting", "entry"} : Goes(n, place) /\ (place # "throw" => child' = n)
  BY <1>0 DEF Bind, Connect, GiveUp, Throw, CmdPart, InStep
<1>2. PICK place \in {"throw", "connecting", "entry"} : Goes(n, place) /\ (place # "throw" => child' = n)
  BY <1>1
<1>3. \A m \in Lines : pc'[m] = IF m = n THEN place ELSE pc[m]
  BY <1>2 DEF TInv, TypeOK, Goes
<1>4. /\ UNCHANGED <<front, records, exitCode, failed, status, exit, word, lines>>
      /\ pc[n] \in {"binding", "connecting"}
      /\ child' \in {0, n, child}
  BY DEF Bind, Connect, GiveUp, Throw
<1>5. WordsKept
  BY <1>4 DEF WordsKept, TInv, TypeOK
<1>6. /\ Log' /\ Exited' = Exited /\ LastExit' = LastExit /\ (Failure' <=> Failure)
      /\ \A i \in Exited : records[i].run \in Lines
  BY <1>4, <1>5, LogSame
<1>7. pc[n] \in Unlaunched
  BY <1>4 DEF Unlaunched
<1>8. \A i \in Exited : records[i].run # child' /\ pc'[records[i].run] \notin Unlaunched
  <2>1. \A i \in Exited : records[i].run # n
    BY <1>7, ExitedThen
  <2>2. QED
    BY <1>3, <1>4, <2>1, ExitedThen, LinesFact
<1>9. exitCode # "fails"
  <2>1. (child # 0 \/ \E m \in Lines : pc[m] = "binding") => exitCode # "fails"
    BY DEF Now
  <2>2. pc[n] = "connecting" => child = n
    BY <1>0 DEF CmdPart, InStep, Sole
  <2>3. QED
    BY <1>4, <2>1, <2>2, LinesFact
<1>10. (child' = 0 /\ \A m \in Lines : pc'[m] \notin {"throw", "binding"}) => FALSE
  BY <1>2, <1>3, LinesFact
<1>11. \A m \in Lines : pc'[m] \notin {"finish", "eval", "show"}
  BY <1>3 DEF Sole
<1>12. front = "batch" => (status' = "N" <=> \E m \in Lines : word'[m] = "quitN")
  BY <1>4 DEF Now
<1>13. Now'
  BY <1>4, <1>6, <1>8, <1>9, <1>10, <1>11, <1>12 DEF Now
<1>14. ExitStatus'
  BY <1>4 DEF ExitStatus, Sole
<1>15. QED
  BY <1>6, <1>13, <1>14, LogAndNowNext

\* From the entry stop to the report of a stop, and between evaluations.
LEMMA OnTheWayKeepsRInv ==
  ASSUME TInv, Log, Now, NEW n \in Lines, Sole(n),
         Entry(n) \/ Stop(n) \/ Fetch(n) \/ Evaluated(n) \/ Shown(n)
  PROVE  RInv'
<1> USE DEF Steps, Quiet, target, debuggee, config, reader, batch
<1>1. /\ UNCHANGED <<front, records, child, exitCode, failed, status, exit, word, lines>>
      /\ pc[n] \in {"entry", "running", "stack", "eval", "show"}
  BY DEF Entry, Stop, Fetch, Evaluated, Shown, Throw
<1>2. \E place \in {"running", "stack", "report", "show", "finish", "throw"} :
         Goes(n, place) /\ (place \in {"show", "finish"} => pc[n] \in {"eval", "show"})
  BY DEF Entry, Stop, Fetch, Evaluated, Shown, Throw
<1>3. WordsKept /\ \A m \in Lines : m # n => word'[m] = word[m]
  BY <1>1 DEF WordsKept, TInv, TypeOK
<1>4. pc[n] \in {"eval", "show"} => ~(Resuming(n)')
  BY <1>1 DEF Now, Resuming
<1>5. front = "batch" => (status' = "N" <=> \E m \in Lines : word'[m] = "quitN")
  BY <1>1 DEF Now
<1>6. Log' /\ Now'
  BY <1>1, <1>2, <1>3, <1>4, <1>5, QuietKeepsNow DEF Sole
<1>7. ExitStatus'
  BY <1>1 DEF ExitStatus, Sole
<1>8. QED
  BY <1>6, <1>7, LogAndNowNext

LEMMA ClosedKeepsRInv ==
  ASSUME TInv, Log, Now, NEW n \in Lines, Sole(n), Closed(n)
  PROVE  RInv'
<1> USE DEF Steps, Quiet, target, debuggee, config, reader, batch
<1>0. CmdPart
  BY Parts
<1>1. \A m \in Lines : pc'[m] = IF m = n THEN "finish" ELSE pc[m]
  BY DEF Closed, TInv, TypeOK, Goes
<1>2. session # 0 /\ child = session /\ child \in Lines /\ pc[child] \notin Unlaunched
  BY <1>0 DEF Closed, Lost, CmdPart, CmdTypes, InStep
<1>3. PICK how \in {"ok", "fails"} :
         /\ records' = Told(how)
         /\ exitCode' = "fails" <=> how = "fails"
  <2>1. CASE mode = "external"
    BY <1>2, <2>1 DEF Closed, Terminated
  <2>2. CASE mode # "external"
    <3>1. proc[child] # "alive" /\ records' = Told(proc[child]) /\ exitCode' = proc[child]
      BY <1>2, <2>2 DEF Closed, Terminated
    <3>2. proc[child] \in {"ok", "fails"}
      BY <1>0, <1>2, <3>1 DEF CmdPart, InStep
    <3>3. QED
      BY <3>1, <3>2
  <2>3. QED
    BY <2>1, <2>2
<1>4. /\ child' = 0 /\ lastStop' = "exited" /\ outcome' = [outcome EXCEPT ![n] = lastStop']
      /\ UNCHANGED <<front, failed, status, exit, word, lines>>
      /\ pc[n] \in {"entry", "running"}
  BY <1>2 DEF Closed, Terminated, NoTarget
<1>5. WordsKept
  BY <1>4 DEF WordsKept, TInv, TypeOK
<1>6. \A i \in Exited : records[i].run # child /\ records[i].run \in Lines /\ pc[records[i].run] \notin Unlaunched
  BY ExitedThen
<1>7. /\ Log' /\ (Failure' <=> Failure)
      /\ Exited' # {} /\ records'[LastExit'].how = how
      /\ records' # <<>> /\ records'[Len(records')].what = "exited"
      /\ \A i \in Exited' : records'[i].run = child \/ (i \in Exited /\ records'[i] = records[i])
  BY <1>2, <1>3, <1>5, <1>6, LogExited
<1>8. \A i \in Exited' : records'[i].run \in Lines /\ pc'[records'[i].run] \notin Unlaunched
  <2>1. \A m \in Lines : pc[m] \notin Unlaunched => pc'[m] \notin Unlaunched
    BY <1>1 DEF Unlaunched
  <2>2. QED
    BY <1>2, <1>6, <1>7, <2>1
<1>9. outcome'[n] = "exited" /\ \A m \in Lines : pc'[m] = "finish" => m = n
  BY <1>1, <1>4 DEF Sole, TInv, TypeOK
<1>10. \A m \in Lines : pc'[m] \notin {"eval", "show", "binding"}
  BY <1>1 DEF Sole
<1>11. front = "batch" => (status' = "N" <=> \E m \in Lines : word'[m] = "quitN")
  BY <1>4 DEF Now
<1>12. failed' <=> Failure'
  BY <1>4, <1>7 DEF Now
<1>13. \A i \in Exited' : records'[i].run # child'
  BY <1>4, <1>8, LinesFact
<1>14. Now'
  BY <1>3, <1>4, <1>7, <1>8, <1>9, <1>10, <1>11, <1>12, <1>13 DEF Now
<1>15. ExitStatus'
  BY <1>4 DEF ExitStatus, Sole
<1>16. QED
  BY <1>7, <1>14, <1>15, LogAndNowNext

LEMMA StoppedKeepsRInv ==
  ASSUME TInv, Log, Now, NEW n \in Lines, Sole(n), OnStopped(n)
  PROVE  RInv'
<1> USE DEF Steps, Quiet, target, debuggee, config, reader, batch
<1>0. CmdPart
  BY Parts
<1>1. \A m \in Lines : pc'[m] = IF m = n THEN "finish" ELSE pc[m]
  BY DEF OnStopped, TInv, TypeOK, Goes
<1>2. /\ session # 0 /\ pc[n] = "report" /\ outcome'[n] = "stopped"
      /\ UNCHANGED <<front, failed, status, exit, word, lines, child, exitCode>>
  BY <1>0 DEF OnStopped, CmdPart, InStep, Sole, TInv, TypeOK
<1>3. WordsKept
  <2>1. lines' = lines /\ word' = word /\ lines \in Nat
    BY <1>2 DEF TInv, TypeOK
  <2>2. QED
    BY <2>1 DEF WordsKept
<1>4. \A i \in Exited : records[i].run # child
  BY DEF Now
<1>5. /\ Log' /\ (Failure' <=> Failure)
      /\ Exited' = Exited /\ \A i \in Exited : records'[i] = records[i] /\ records[i].run \in Lines
      /\ records' # <<>> /\ records'[Len(records')].what = "stopped"
  <2>1. records' = Append(records, [what |-> "stopped", run |-> session, how |-> ""])
    BY DEF OnStopped
  <2>2. QED
    BY <1>2, <1>3, <1>4, <2>1, LogStopped
<1>6. child # 0
  BY <1>2 DEF TInv, TypeOK
<1>7. \A i \in Exited' : records'[i].run # child' /\ pc'[records'[i].run] \notin Unlaunched
  <2>1. "finish" \notin Unlaunched
    BY DEF Unlaunched
  <2>2. QED
    BY <1>1, <1>2, <1>5, <2>1, ExitedThen
<1>8. \A m \in Lines : pc'[m] \notin {"eval", "show", "binding"} /\ (pc'[m] = "finish" => m = n)
  BY <1>1 DEF Sole
<1>9. Now'
  BY <1>2, <1>5, <1>6, <1>7, <1>8 DEF Now
<1>10. ExitStatus'
  BY <1>2 DEF ExitStatus, Sole
<1>11. QED
  BY <1>5, <1>9, <1>10, LogAndNowNext

LEMMA FinishKeepsRInv ==
  ASSUME TInv, Log, Now, NEW n \in Lines, Sole(n), Finish(n)
  PROVE  RInv'
<1> USE DEF target, debuggee, config, reader
<1>1. \A m \in Lines : pc'[m] = IF m = n THEN "over" ELSE pc[m]
  BY DEF Finish, TInv, TypeOK, Goes
<1> DEFINE ok == ~lastError'
<1>2. /\ pc[n] \in {"throw", "finish"} /\ ok \in BOOLEAN /\ (ok => pc[n] = "finish" /\ ~lastError)
      /\ failed' = (failed \/ ~ok)
      /\ UNCHANGED <<front, status, exit, word, lines, child, exitCode>>
  BY DEF Finish, TInv, TypeOK
<1>0. records' = Append(records, [what |-> "result", line |-> n, ok |-> ok, state |-> outcome[n]])
  BY DEF Finish
<1> HIDE DEF ok
<1>3. n <= lines
  BY <1>2 DEF TInv, OneAtATime, TypeOK, Lines
<1>4. (ok /\ Resuming(n)) => records # <<>> /\ outcome[n] # "none" /\ records[Len(records)].what = outcome[n]
  BY <1>2 DEF Now
<1>5. /\ Log' /\ (Failure' <=> Failure \/ ~ok)
      /\ Exited' = Exited /\ LastExit' = LastExit
      /\ \A i \in Exited : records'[i] = records[i] /\ records[i].run \in Lines
  BY <1>0, <1>2, <1>3, <1>4, LogResult
<1>6. \A i \in Exited' : records'[i].run # child' /\ pc'[records'[i].run] \notin Unlaunched
  <2>1. "over" \notin Unlaunched
    BY DEF Unlaunched
  <2>2. QED
    BY <1>1, <1>2, <1>5, <2>1, ExitedThen
<1>7. \A m \in Lines : pc'[m] \notin {"eval", "show", "binding", "finish", "throw"}
  BY <1>1 DEF Sole
<1>8. failed' <=> Failure'
  BY <1>2, <1>5 DEF Now
<1>9. ~failed' => \A m \in Lines : pc[m] \notin {"throw", "binding"}
  BY <1>2 DEF Sole
<1>10. (child' = 0 /\ ~failed') => (exitCode' = "fails" <=> Exited' # {} /\ records'[LastExit'].how = "fails")
  <2>1. Exited # {} => LastExit \in Exited
    BY DEF Log
  <2>2. QED
    BY <1>2, <1>5, <1>9, <2>1 DEF Now
<1>11. front = "batch" => (status' = "N" <=> \E m \in Lines : word'[m] = "quitN")
  BY <1>2 DEF Now
<1>12. (child' # 0 \/ \E m \in Lines : pc'[m] = "binding") => exitCode' # "fails"
  BY <1>2, <1>7 DEF Now
<1>13. Now'
  BY <1>2, <1>6, <1>7, <1>8, <1>10, <1>11, <1>12 DEF Now
<1>14. ExitStatus'
  BY <1>2 DEF ExitStatus, Sole
<1>15. QED
  BY <1>5, <1>13, <1>14, LogAndNowNext

-----------------------------------------------------------------------------
(* The end of the program, and every other step.                            *)

\* The status the batch ends with is the one that was reported.
LEMMA LeaveKeepsRInv ==
  ASSUME TInv, Log, Now, exit = "none", KillIfAny, UNCHANGED <<config, lastError, pc, outcome, reader, batch>>,
         exit' # "none",
         (front = "batch" /\ exit' # "124") => exit' = BatchStatus /\ Over
  PROVE  RInv'
<1> USE DEF config, reader, batch
<1>1. WordsKept
  BY DEF WordsKept, TInv, TypeOK
<1>2. /\ Log' /\ (Failure' <=> Failure) /\ child' = 0 /\ exitCode' = exitCode
      /\ child = 0 => records' = records /\ Exited' = Exited /\ LastExit' = LastExit
      /\ child # 0 => Exited' # {} /\ records'[LastExit'].how = "killed"
  BY <1>1, LogKilled, ExitedThen
<1>3. ASSUME front = "batch", exit' # "124"
      PROVE  exit' = CASE \E n \in Lines : word[n] = "quitN" -> "N"
                       [] (\A n \in Lines : word[n] # "quitN") /\ Failure' -> "1"
                       [] OTHER -> IF Exited' # {} /\ records'[LastExit'].how = "fails" THEN "fails" ELSE "0"
  <2>1. status = "N" <=> \E n \in Lines : word[n] = "quitN"
    BY <1>3 DEF Now
  <2>2. failed <=> Failure'
    BY <1>2 DEF Now
  <2>3. ~failed => (exitCode = "fails" <=> Exited' # {} /\ records'[LastExit'].how = "fails")
    <3>1. CASE child # 0
      BY <1>2, <3>1 DEF Now
    <3>2. CASE child = 0
      <4>1. \A m \in Lines : pc[m] \notin {"throw", "binding"}
        BY <1>3 DEF Over
      <4>2. QED
        BY <1>2, <3>2, <4>1 DEF Now
    <3>3. QED
      BY <3>1, <3>2
  <2>4. exit' = BatchStatus
    BY <1>3
  <2>5. CASE status = "N"
    BY <2>1, <2>4, <2>5 DEF BatchStatus
  <2>6. CASE status # "N" /\ failed
    BY <2>1, <2>2, <2>4, <2>6 DEF BatchStatus
  <2>7. CASE status # "N" /\ ~failed
    BY <2>1, <2>2, <2>3, <2>4, <2>7 DEF BatchStatus
  <2>8. QED
    BY <2>5, <2>6, <2>7
<1>4. ExitStatus'
  BY <1>3 DEF ExitStatus, Failure
<1>5. QED
  BY <1>2, <1>4, LogAndNowNext

\* What the records and the command in progress do not depend on.
LEMMA IdleKeepsRInv ==
  ASSUME TInv, RInv, UNCHANGED <<front, records, child, exitCode, pc, outcome, lastError, word, lines, status, failed, exit>>
  PROVE  RInv'
BY DEF RInv, RecordsTell, ExitStatus, ReportedInTime, StatusFollows, Exited, States, LastExit, Resuming

\* A line is queued: none of the commands goes on.
LEMMA QueuedKeepsRInv ==
  ASSUME TInv, Log, Now, exit = "none", front = "repl", NEW n \in Lines, n = lines + 1, NEW w \in Words,
         word' = [word EXCEPT ![n] = w], lines' = n, Goes(n, "queued"), UNCHANGED <<config, failed>>,
         UNCHANGED <<target, lastError, outcome, debuggee, awaiting, status, exit, records>>
  PROVE  RInv'
<1> USE DEF config, target
<1>1. pc[n] = "none" /\ \A m \in Lines : pc'[m] = IF m = n THEN "queued" ELSE pc[m]
  BY DEF TInv, TypeOK, OneAtATime, Lines, Goes
<1>2. \A m \in Lines : m # n => word'[m] = word[m]
  BY DEF TInv, TypeOK
<1>3. WordsKept
  BY <1>2 DEF WordsKept, TInv, TypeOK, Lines
<1>4. Log' /\ Exited' = Exited /\ LastExit' = LastExit /\ (Failure' <=> Failure)
  BY <1>3, LogSame
<1>5. \A i \in Exited : records'[i].run # child' /\ pc'[records'[i].run] \notin Unlaunched
  <2>1. pc[n] \in Unlaunched
    BY <1>1 DEF Unlaunched
  <2>2. QED
    BY <1>1, <2>1, ExitedThen
<1>6. ASSUME NEW m \in Lines, pc'[m] \notin {"none", "queued"}
      PROVE  pc[m] = pc'[m] /\ (Resuming(m)' <=> Resuming(m))
  BY <1>1, <1>2, <1>6 DEF Resuming
<1>7. \A m \in Lines : pc[m] \in {"throw", "binding"} => pc'[m] = pc[m]
  BY <1>1
<1>8. /\ \A m \in Lines : (pc'[m] = "finish" /\ Resuming(m)' /\ ~lastError') =>
             records' # <<>> /\ outcome'[m] # "none" /\ records'[Len(records')].what = outcome'[m]
      /\ \A m \in Lines : pc'[m] \in {"eval", "show"} => ~(Resuming(m)')
  BY <1>6 DEF Now
<1>9. Now'
  BY <1>4, <1>5, <1>6, <1>7, <1>8 DEF Now
<1>10. ExitStatus'
  BY DEF ExitStatus
<1>11. QED
  BY <1>4, <1>9, <1>10, LogAndNowNext

LEMMA StepKeepsRInv == TInv /\ RInv /\ [Next]_vars => RInv'
<1> SUFFICES ASSUME TInv, RInv, [Next]_vars PROVE RInv'
  OBVIOUS
<1>0. Log /\ (exit = "none" => Now) /\ ReadTypes /\ OneAtATime
  BY LogAndNow, Parts
<1>1. ASSUME NEW n \in Lines,
             \/ Bind(n) \/ Connect(n) \/ GiveUp(n) \/ Entry(n) \/ Stop(n) \/ Closed(n) \/ Fetch(n)
             \/ OnStopped(n) \/ Evaluated(n) \/ Shown(n) \/ Finish(n)
      PROVE  RInv'
  <2>1. exit = "none" /\ Busy(n)
    BY <1>1 DEF Bind, Connect, GiveUp, Entry, Stop, Closed, Fetch, OnStopped, Evaluated, Shown, Finish, Steps, Busy
  <2>2. Sole(n)
    BY <1>0, <2>1, SoleWhenBusy
  <2>3. QED
    BY <1>0, <1>1, <2>1, <2>2, LaunchKeepsRInv, OnTheWayKeepsRInv, ClosedKeepsRInv, StoppedKeepsRInv, FinishKeepsRInv
<1>2. ASSUME NEW w \in Words, Batch(w) PROVE RInv'
  <2>1. PICK n \in Lines : n = lines + 1
    BY <1>0, <1>2 DEF Batch, ReadTypes, Lines
  <2>2. /\ UNCHANGED <<config, failed>> /\ Taken(n) /\ Perform(n, w)
        /\ lines' = n /\ word' = [word EXCEPT ![n] = w] /\ status = "null"
    BY <1>0, <1>2, <2>1 DEF Batch, Looping, Taken, OneAtATime, ReadTypes
  <2>3. Given(n, w)
    BY <1>0, <2>1, <2>2 DEF Given, WordsKept, ReadTypes, Lines
  <2>4. QED
    BY <1>0, <2>2, <2>3, PerformKeepsRInv DEF Taken
<1>3. ASSUME NEW w \in Words, Type(w) PROVE RInv'
  <2>1. PICK n \in Lines : n = lines + 1
    BY <1>0, <1>3 DEF Type, ReadTypes, Lines
  <2>2. /\ UNCHANGED <<config, failed>> /\ exit = "none" /\ front = "repl" /\ pc[n] = "none"
        /\ lines' = n /\ word' = [word EXCEPT ![n] = w]
    BY <1>0, <1>3, <2>1 DEF Type, OneAtATime, ReadTypes
  <2>3. CASE Ready /\ Perform(n, w)
    <3>1. Taken(n)
      BY <1>0, <2>2, <2>3 DEF Taken, Ready, OneAtATime
    <3>2. Given(n, w)
      BY <1>0, <2>1, <2>2 DEF Given, WordsKept, ReadTypes, Lines
    <3>3. QED
      BY <1>0, <2>2, <2>3, <3>1, <3>2, PerformKeepsRInv
  <2>4. CASE /\ Goes(n, "queued")
             /\ UNCHANGED <<target, lastError, outcome, debuggee, awaiting, status, exit, records>>
    BY <1>0, <2>1, <2>2, <2>4, QueuedKeepsRInv
  <2>5. QED
    BY <1>3, <2>1, <2>3, <2>4 DEF Type
<1>4. CASE NextLine
  <2>1. UNCHANGED <<config, word, lines, input, failed>> /\ exit = "none" /\ front = "repl" /\ Over
    BY <1>4 DEF NextLine
  <2>2. ASSUME UNCHANGED <<target, lastError, pc, outcome, debuggee, status, exit, records>> PROVE RInv'
    BY <2>1, <2>2, IdleKeepsRInv DEF config, target
  <2>3. ASSUME NEW n \in Queued, Perform(n, word[n]) PROVE RInv'
    <3>1. Taken(n) /\ n \in Lines
      BY <2>1, <2>3 DEF Taken, Queued
    <3>2. n <= lines /\ n \in Nat
      BY <1>0, <2>3 DEF OneAtATime, Queued, ReadTypes, Lines
    <3>3. PICK w \in Words \cup {"none"} : w = word[n]
      BY <1>0, <3>1 DEF ReadTypes
    <3>4. w \in Words
      BY <2>3, <3>3 DEF Perform
    <3>5. Given(n, w)
      BY <1>0, <2>1, <3>3 DEF Given, WordsKept, ReadTypes
    <3>6. QED
      BY <1>0, <2>1, <2>3, <3>1, <3>3, <3>4, <3>5, PerformKeepsRInv
  <2>4. QED
    BY <1>4, <2>2, <2>3 DEF NextLine
<1>5. CASE Leave \/ Timeout \/ CleanUp
  <2>1. /\ exit = "none" /\ exit' # "none" /\ KillIfAny
        /\ UNCHANGED <<config, lastError, pc, outcome, reader, batch>>
    BY <1>5 DEF Leave, Timeout, CleanUp, BatchStatus
  <2>2. (front = "batch" /\ exit' # "124") => exit' = BatchStatus /\ Over
    BY <1>5 DEF Leave, Timeout, CleanUp
  <2>3. QED
    BY <1>0, <2>1, <2>2, LeaveKeepsRInv
<1>6. CASE EndInput \/ UNCHANGED vars
  BY <1>6, IdleKeepsRInv DEF EndInput, vars, config, target, reader, batch
<1>7. ASSUME NEW g \in Lines, Halts(g) \/ Closes(g) \/ \E how \in {"ok", "fails"} : Ends(g, how)
      PROVE  RInv'
  BY <1>7, IdleKeepsRInv DEF Halts, Closes, Ends, Outside, config, target, reader, batch
<1>8. QED
  BY <1>1, <1>2, <1>3, <1>4, <1>5, <1>6, <1>7 DEF Next, Continuation

-----------------------------------------------------------------------------
\* The second inductive invariant as a theorem.
THEOREM RInvariance == Spec => []RInv
<1>1. Init => RInv
  BY DEF Init, RInv, RecordsTell, ExitStatus, ReportedInTime, StatusFollows, Exited, States, LastExit, Resuming
<1>2. QED
  BY <1>1, Invariance, StepKeepsRInv, PTL DEF Spec

\* A resuming command that does not fail has just reported a stop or an end, the
\* very one its result tells of, whoever noticed that; a debuggee's end is reported
\* once and after everything else about it (debugger.js 466-536, 565-640, 1474-1506).
THEOREM RecordsCorrect == Spec => []RecordsTell
<1>1. RInv => RecordsTell
  BY DEF RInv
<1>2. QED
  BY <1>1, RInvariance, PTL

\* A batch that ends without a timeout exits with the status that its reports imply
\* (qjs-debugger.js 82-93, 640-700).
THEOREM StatusCorrect == Spec => []ExitStatus
<1>1. RInv => ExitStatus
  BY DEF RInv
<1>2. QED
  BY <1>1, RInvariance, PTL


-----------------------------------------------------------------------------
(* What a command waits for can come                                        *)

\* A connection that is closed is that of a process that has ended.
EndIsKnown ==
  exit = "none" /\ session # 0 =>
    link[session] # "none" /\ (link[session] = "closed" => proc[session] # "alive")

LEMMA EndSame ==
  ASSUME EndIsKnown, UNCHANGED <<session, link, proc>>, exit' = "none" => exit = "none"
  PROVE  EndIsKnown'
BY DEF EndIsKnown

LEMMA EndGone ==
  ASSUME session' = 0 \/ exit' # "none"
  PROVE  EndIsKnown'
BY DEF EndIsKnown

\* A resume wakes a program that has stopped, and no other.
LEMMA EndResumed ==
  ASSUME CmdPart, EndIsKnown, exit = "none", session # 0, link' = Resumed(session),
         session' = session, proc' = proc
  PROVE  EndIsKnown'
<1>1. session \in Lines
  BY DEF CmdPart, CmdTypes
<1>2. link'[session] \in {link[session], "running"}
  BY <1>1 DEF Resumed, CmdPart, CmdTypes
<1>3. QED
  BY <1>2 DEF EndIsKnown

LEMMA PerformEnd ==
  ASSUME CmdPart, EndIsKnown, exit = "none", NEW n \in Lines, NEW w, Perform(n, w)
  PROVE  EndIsKnown'
<1> USE DEF target, debuggee
<1>1. CASE UNCHANGED <<session, link, proc>>
  BY <1>1, EndSame
<1>2. CASE Resume(n)
  BY <1>1, <1>2, EndResumed DEF Resume, Fails
<1>3. CASE Run(n)
  BY <1>3, EndGone DEF Run
<1>4. CASE KillCommand(n)
  BY <1>1, <1>4, EndGone DEF KillCommand, CmdKill, NoTarget, Fails
<1>5. CASE \E code : Quit(n, code)
  BY <1>1, <1>5, EndGone DEF Quit, KillIfAny, CmdKill, NoTarget
<1>6. CASE SelectFrame(n)
  BY <1>1, <1>6 DEF SelectFrame, Fails
<1>7. CASE Info(n) \/ Evaluate(n) \/ Display(n) \/ Interrupt(n)
  BY <1>1, <1>7 DEF Info, Evaluate, Display, Interrupt, Fails, Proceeds
<1>8. QED
  BY <1>2, <1>3, <1>4, <1>5, <1>6, <1>7 DEF Perform

LEMMA ContinuationEnd ==
  ASSUME CmdPart, EndIsKnown, NEW n \in Lines,
         \/ Bind(n) \/ Connect(n) \/ GiveUp(n) \/ Entry(n) \/ Stop(n) \/ Closed(n) \/ Fetch(n)
         \/ OnStopped(n) \/ Evaluated(n) \/ Shown(n) \/ Finish(n)
  PROVE  EndIsKnown'
<1> USE DEF target, debuggee, Steps, Throw
<1>0. exit = "none"
  BY DEF Bind, Connect, GiveUp, Entry, Stop, Closed, Fetch, OnStopped, Evaluated, Shown, Finish
<1>1. CASE Bind(n)
  <2>1. child = 0 /\ session = 0 /\ session' = session
    BY <1>0, <1>1 DEF Bind, CmdPart, CmdTypes, InStep
  <2>2. QED
    BY <2>1, EndGone
<1>2. CASE Connect(n)
  <2>1. session' = n /\ link'[n] = "running"
    BY <1>2 DEF Connect, CmdPart, CmdTypes
  <2>2. "running" # "none" /\ "running" # "closed"
    OBVIOUS
  <2>3. QED
    BY <2>1, <2>2 DEF EndIsKnown
<1>3. CASE GiveUp(n)
  <2>1. session = 0 /\ session' = session
    BY <1>0, <1>3 DEF GiveUp, CmdPart, InStep
  <2>2. QED
    BY <2>1, EndGone
<1>4. CASE Entry(n)
  <2>1. session = n /\ session # 0 /\ session' = session /\ proc' = proc
    BY <1>0, <1>4, LinesFact DEF Entry, CmdPart, InStep
  <2>2. link' = Resumed(session) \/ link' = link
    BY <1>4, <2>1 DEF Entry
  <2>3. QED
    BY <1>0, <2>1, <2>2, EndResumed, EndSame
<1>5. CASE Closed(n)
  <2>1. session' = 0
    BY <1>5 DEF Closed, Terminated, NoTarget, CmdPart, CmdTypes
  <2>2. QED
    BY <2>1, EndGone
<1>6. CASE Stop(n) \/ Fetch(n) \/ OnStopped(n) \/ Evaluated(n) \/ Shown(n) \/ Finish(n)
  <2>1. UNCHANGED <<session, link, proc>>
    BY <1>6 DEF Stop, Fetch, OnStopped, Evaluated, Shown, Finish
  <2>2. QED
    BY <1>0, <2>1, EndSame
<1>7. QED
  BY <1>1, <1>2, <1>3, <1>4, <1>5, <1>6

\* A program stops, ends, and then its connection closes.
LEMMA OutsideEnd ==
  ASSUME CmdPart, EndIsKnown, NEW g \in Lines,
         Halts(g) \/ Closes(g) \/ \E how \in {"ok", "fails"} : Ends(g, how)
  PROVE  EndIsKnown'
<1>0. exit = "none" /\ session' = session
  BY DEF Halts, Closes, Ends, Outside, target
<1> SUFFICES ASSUME session # 0
             PROVE  link'[session] # "none" /\ (link'[session] = "closed" => proc'[session] # "alive")
  BY <1>0 DEF EndIsKnown
<1>1. session \in Lines /\ link[session] # "none" /\ (link[session] = "closed" => proc[session] # "alive")
  BY <1>0 DEF CmdPart, CmdTypes, EndIsKnown
<1>2. CASE Halts(g)
  <2>1. link' = [link EXCEPT ![g] = "stopped"] /\ proc' = proc
    BY <1>2 DEF Halts
  <2>2. QED
    BY <1>1, <2>1 DEF CmdPart, CmdTypes
<1>3. CASE Closes(g)
  <2>1. link' = [link EXCEPT ![g] = "closed"] /\ proc' = proc /\ proc[g] # "alive"
    BY <1>3 DEF Closes
  <2>2. QED
    BY <1>1, <2>1 DEF CmdPart, CmdTypes
<1>4. ASSUME NEW how \in {"ok", "fails"}, Ends(g, how)
      PROVE  link'[session] # "none" /\ (link'[session] = "closed" => proc'[session] # "alive")
  <2>1. proc' = [proc EXCEPT ![g] = how] /\ link' = link
    BY <1>4 DEF Ends
  <2>2. QED
    BY <1>1, <2>1 DEF CmdPart, CmdTypes
<1>5. QED
  BY <1>2, <1>3, <1>4

LEMMA StepEnd == TInv /\ EndIsKnown /\ [Next]_vars => EndIsKnown'
<1> SUFFICES ASSUME TInv, EndIsKnown, [Next]_vars PROVE EndIsKnown'
  OBVIOUS
<1>0. CmdPart /\ ReadTypes
  BY Parts
<1>1. CASE Continuation
  BY <1>0, <1>1, ContinuationEnd DEF Continuation
<1>2. ASSUME NEW w \in Words, Batch(w) PROVE EndIsKnown'
  <2>1. PICK n \in Lines : n = lines + 1
    BY <1>0, <1>2 DEF Batch, ReadTypes, Lines
  <2>2. exit = "none" /\ Perform(n, w)
    BY <1>2, <2>1 DEF Batch, Looping
  <2>3. QED
    BY <1>0, <2>2, PerformEnd
<1>3. ASSUME NEW w \in Words, Type(w) PROVE EndIsKnown'
  <2>1. PICK n \in Lines : n = lines + 1
    BY <1>0, <1>3 DEF Type, ReadTypes, Lines
  <2>2. CASE Perform(lines + 1, w)
    <3>1. exit = "none" /\ Perform(n, w)
      BY <1>3, <2>1, <2>2 DEF Type
    <3>2. QED
      BY <1>0, <3>1, PerformEnd
  <2>3. CASE UNCHANGED <<target, debuggee, exit>>
    BY <2>3, EndSame DEF target, debuggee
  <2>4. QED
    BY <1>3, <2>2, <2>3 DEF Type
<1>4. CASE NextLine
  <2>1. CASE \E n \in Queued : Perform(n, word[n])
    <3>1. exit = "none" /\ Queued \subseteq Lines
      BY <1>4 DEF NextLine, Queued
    <3>2. QED
      BY <1>0, <2>1, <3>1, PerformEnd
  <2>2. CASE UNCHANGED <<target, debuggee, exit>>
    BY <2>2, EndSame DEF target, debuggee
  <2>3. QED
    BY <1>4, <2>1, <2>2 DEF NextLine
<1>5. CASE Leave \/ Timeout \/ CleanUp
  <2>1. exit' # "none"
    BY <1>5 DEF Leave, Timeout, CleanUp, BatchStatus
  <2>2. QED
    BY <2>1, EndGone
<1>6. CASE EndInput \/ UNCHANGED vars
  BY <1>6, EndSame DEF EndInput, vars, target, debuggee
<1>7. ASSUME NEW g \in Lines, Halts(g) \/ Closes(g) \/ \E how \in {"ok", "fails"} : Ends(g, how)
      PROVE  EndIsKnown'
  BY <1>0, <1>7, OutsideEnd
<1>8. QED
  BY <1>1, <1>2, <1>3, <1>4, <1>5, <1>6, <1>7 DEF Next

\* A launch connects to the child there is; a command that waits for the program has a
\* connection to it, and when that is closed the process has ended, so that the end is
\* reported at once and nothing waits in vain, in any mode and whoever ends the debuggee
\* (debugger.js 368-409, 466-514): the safety core of BatchEnds.
THEOREM NoneInVain == Spec => []NoneWaitsInVain
<1>1. Init => EndIsKnown
  BY DEF Init, EndIsKnown
<1>2. Spec => []EndIsKnown
  BY <1>1, StepEnd, Invariance, PTL DEF Spec
<1>3. TInv /\ EndIsKnown => NoneWaitsInVain
  <2> SUFFICES ASSUME TInv, EndIsKnown, exit = "none", NEW n \in Lines
               PROVE  /\ pc[n] = "connecting" => child = n /\ session = 0
                      /\ pc[n] \in {"entry", "running"} =>
                           /\ session # 0 /\ child = session
                           /\ Open(session) \/ (link[session] = "closed" /\ proc[session] # "alive")
    BY DEF NoneWaitsInVain
  <2>1. /\ pc[n] = "connecting" => child = n /\ session = 0
        /\ pc[n] \in {"entry", "running"} => session # 0 /\ child = session
    BY LinesFact DEF TInv, TypeOK, InStep
  <2>2. session # 0 => Open(session) \/ (link[session] = "closed" /\ proc[session] # "alive")
    BY DEF EndIsKnown, Open, TInv, TypeOK
  <2>3. QED
    BY <2>1, <2>2
<1>4. QED
  BY <1>2, <1>3, Invariance, PTL
=============================================================================
