----------------------------- MODULE ResumeLoop -----------------------------
(***************************************************************************)
(* debugger.js: one resuming command (continue, next, step, finish, until)  *)
(* from the request to the stop it reports.  #nextStop() looks at every     *)
(* stop of the engine and resumes again when the breakpoints there have a   *)
(* false condition, or when it is only single-stepping for a watchpoint.    *)
(* While it awaits the engine, other callers (a GUI, server clients) edit   *)
(* breakpoints, conditions and watchpoints, and the program may end.        *)
(*                                                                          *)
(* The engine (external) runs the program line by line, stops where its     *)
(* breakpoint table says so or a step ends, and reads its messages in       *)
(* order, also while the program runs.  One variable x stands for what a    *)
(* condition tests and a watchpoint watches; evaluating it may throw.       *)
(***************************************************************************)
EXTENDS Naturals, Sequences

CONSTANTS
  Lines,      \* lines of the program, numbers
  MaxNum,     \* bound on breakpoint numbers
  MaxInbox,   \* bound on messages on the way when a user edits
  Commands    \* the commands the user gives

AllCommands == {"continue", "next", "stepIn", "stepOut", "until"}

ASSUME LinesAssumption == Lines \subseteq Nat \ {0}
ASSUME BoundsAssumption == MaxNum \in Nat /\ MaxInbox \in Nat
ASSUME CommandsAssumption == Commands \subseteq AllCommands

Nums == 1 .. MaxNum
Values == {"false", "true", "throws"}
Seen == (Values \ {"throws"}) \cup {"unavailable", "undefined"}
Nobody == 0

VARIABLES
  bps,        \* breakpoints: their numbers; the list is in the order of numbers
  line, temp, cond,   \* of each number: where, is it one-shot, has it a condition
  nextNum,    \* nextBpNum
  watch,      \* is there a watchpoint, and
  last,       \*   the value it has seen last
  told,       \*   the value the user was last shown; of a watchpoint set before the
              \*   program ran, at first the value its first stop found
  pc,         \* where the command is
  command, stepping, watching, start,   \* locals of #nextStop() and until()
  hits, hold, reason,                   \*   likewise
  session,    \* is session set?  Not after #terminated()
  up,         \* the connection
  touched,    \* numbers edited since the engine stopped; 0 for the watchpoint
  at, x, mode, stops, table, inbox      \* the engine

points == <<bps, line, temp, cond, nextNum>>
loop   == <<command, stepping, watching, start>>
judge  == <<hits, hold, reason>>
engine == <<at, x, mode, stops, table>>
seen   == <<watch, last, told>>
vars == <<points, seen, pc, loop, judge, session, up, touched, engine, inbox>>

Reasons == {"none", "breakpoint", "step", "pause", "watchpoint"}
Message == [what : {"table"}, lines : SUBSET Lines]
             \cup [what : {"resume"}, cmd : AllCommands \ {"until"}] \cup [what : {"pause"}]

TypeOK ==
  /\ bps \subseteq Nums /\ nextNum \in 1 .. MaxNum + 1
  /\ line \in [Nums -> Lines] /\ temp \in [Nums -> BOOLEAN] /\ cond \in [Nums -> BOOLEAN]
  /\ watch \in BOOLEAN /\ last \in Seen /\ told \in Seen
  /\ pc \in {"idle", "running", "stack", "watch", "judge", "cond", "report"}
  /\ command \in AllCommands \ {"until"} /\ stepping \in BOOLEAN /\ watching \in BOOLEAN
  /\ start \in Lines \cup {Nobody}
  /\ hits \subseteq Nums /\ hold \in BOOLEAN /\ reason \in Reasons
  /\ session \in BOOLEAN /\ up \in BOOLEAN /\ touched \subseteq Nums \cup {0}
  /\ at \in Lines /\ x \in Values /\ mode \in {"stopped", "continue", "next", "stepIn", "stepOut"}
  /\ stops \in {"none", "breakpoint", "step", "pause"}
  /\ table \subseteq Lines
  /\ inbox \in Seq(Message)

\* launchEngine() has returned the entry stop, and it was reported.  A watchpoint
\* set before that, with no session and no stack, has no value yet.
Init ==
  /\ bps = {} /\ nextNum = 1
  /\ line = [n \in Nums |-> CHOOSE l \in Lines : TRUE]
  /\ temp = [n \in Nums |-> FALSE] /\ cond = [n \in Nums |-> FALSE]
  /\ watch \in BOOLEAN /\ last = "undefined" /\ told = "undefined"
  /\ pc = "idle" /\ command = "continue" /\ stepping = FALSE /\ watching = FALSE /\ start = Nobody
  /\ hits = {} /\ hold = FALSE /\ reason = "none"
  /\ session = TRUE /\ up = TRUE /\ touched = {}
  /\ at \in Lines /\ x = "false" /\ mode = "stopped" /\ stops = "none" /\ table = {} /\ inbox = <<>>

Send(msg) == inbox' = IF up THEN Append(inbox, msg) ELSE inbox
Table(S) == [what |-> "table", lines |-> {line[n] : n \in S}]
At(S) == {n \in S : line[n] = at}
Touch(n) == touched' = IF pc \in {"idle", "running"} THEN {} ELSE touched \cup {n}
First(S) == CHOOSE n \in S : \A m \in S : n <= m

-----------------------------------------------------------------------------
(* The command                                                              *)

\* What is sent: with a watchpoint, a continue goes statement by statement.
Resuming(c, step) == IF watch /\ ~step THEN "next" ELSE c

\* #resumeOnce(): the request goes out, the stop and the end are awaited.
ResumeOnce(c, step) ==
  /\ pc' = "running"
  /\ command' = c /\ stepping' = step /\ watching' = watch
  /\ Send([what |-> "resume", cmd |-> Resuming(c, step)])

Resume(c) ==
  /\ pc = "idle" /\ session /\ c \in Commands
  /\ ResumeOnce(IF c = "until" THEN "next" ELSE c, c # "continue")
  /\ start' = IF c = "until" THEN at ELSE Nobody
  /\ UNCHANGED <<points, seen, judge, session, up, touched, engine>>

\* The engine's stop has arrived: fetch the stack.
Stopped ==
  /\ pc = "running" /\ stops # "none"
  /\ pc' = "stack" /\ reason' = stops /\ stops' = "none"
  /\ touched' = {}
  /\ UNCHANGED <<points, seen, loop, hits, hold, session, up, at, x, mode, table, inbox>>

Stack ==
  /\ pc = "stack" /\ up
  /\ pc' = IF watching THEN "watch" ELSE "judge"
  /\ UNCHANGED <<points, seen, loop, judge, session, up, touched, engine, inbox>>

\* #watchValue(): an exception, or a lost connection, leaves the old value.
Evaluates == x # "throws" /\ up

\* Wrong: the text of an error is taken for a value.
ValueOrError == x
WatchValue ==
  CASE Evaluates -> x
    [] ~Evaluates /\ last = "undefined" -> "unavailable"
    [] OTHER -> last

Changed == watch /\ last # "undefined" /\ WatchValue # last

\* The first look at a watchpoint that has no value yet.
FirstLook == watch /\ last = "undefined"
Found == IF Evaluates THEN x ELSE "unavailable"

\* #changedWatch(): a changed value is reported, before any breakpoint is; the
\* first value is noted without a word.
CheckWatch ==
  /\ pc = "watch"
  /\ last' = IF watch THEN WatchValue ELSE last
  /\ told' = IF FirstLook THEN Found ELSE told
  /\ \/ /\ Changed
        /\ reason' = "watchpoint" /\ pc' = "report"
     \/ /\ ~Changed
        /\ pc' = "judge" /\ UNCHANGED reason
  /\ UNCHANGED <<points, watch, loop, hits, hold, session, up, touched, engine, inbox>>

NoneHere == At(bps) = {}

\* At a breakpoint the conditions there are tested.  A step that was not the
\* user's goes on; any other stop is reported.
Judge ==
  /\ pc = "judge"
  /\ \/ /\ reason = "breakpoint"
        /\ hits' = At(bps) /\ hold' = NoneHere
        /\ pc' = "cond"
        /\ UNCHANGED <<loop, inbox>>
     \/ /\ reason = "step" /\ watching /\ ~stepping
        /\ ResumeOnce(command, stepping)
        /\ UNCHANGED <<start, hits, hold>>
     \/ /\ reason # "breakpoint" /\ ~(reason = "step" /\ watching /\ ~stepping)
        /\ pc' = "report"
        /\ UNCHANGED <<loop, hits, hold, inbox>>
  /\ UNCHANGED <<points, seen, reason, session, up, touched, engine>>

\* #conditionHolds(): true, or an error of any kind.
Holds(n) == ~cond[n] \/ x # "false" \/ ~up

\* Wrong: the last breakpoint decides.
LastDecides(n) == Holds(n)
AnyHolds(n) == hold \/ Holds(n)

TestCondition ==
  /\ pc = "cond" /\ hits # {}
  /\ hold' = AnyHolds(First(hits))
  /\ hits' = hits \ {First(hits)}
  /\ UNCHANGED <<points, seen, pc, loop, reason, session, up, touched, engine, inbox>>

Decide ==
  /\ pc = "cond" /\ hits = {}
  /\ \/ /\ hold /\ pc' = "report" /\ UNCHANGED <<loop, inbox>>
     \/ /\ ~hold /\ ResumeOnce("continue", stepping) /\ UNCHANGED start
  /\ UNCHANGED <<points, seen, judge, session, up, touched, engine>>

\* The command is over, its locals are gone.
Returns ==
  /\ pc' = "idle"
  /\ command' = "continue" /\ stepping' = FALSE /\ watching' = FALSE /\ start' = Nobody
  /\ hits' = {} /\ hold' = FALSE /\ reason' = "none" /\ touched' = {}

\* until() without a location goes on while it has not passed its line; a call
\* it has not returned from, or a return, ends it too.
\* Wrong: until() goes on whatever the stop was for.
NotPastAtAll == start # Nobody /\ at <= start
NotPast == start # Nobody /\ reason = "step" /\ at <= start

UntilGoesOn ==
  /\ pc = "report" /\ NotPast
  /\ ResumeOnce("next", TRUE)
  /\ UNCHANGED <<points, seen, start, judge, session, up, touched, engine>>

\* Wrong: a one-shot breakpoint goes, but the engine is not told.
DropSilently(n) == bps' = bps \ {n} /\ UNCHANGED inbox
Drop(n) == bps' = bps \ {n} /\ Send(Table(bps \ {n}))

\* #onStopped(): the stop is put down to the first breakpoint on the line; a
\* one-shot breakpoint goes.
OnStopped ==
  /\ pc = "report" /\ ~NotPast
  /\ LET bp == First(At(bps)) IN
       IF reason = "breakpoint" /\ At(bps) # {} /\ temp[bp]
       THEN Drop(bp) ELSE UNCHANGED <<bps, inbox>>
  /\ told' = IF reason = "watchpoint" THEN last ELSE told
  /\ Returns
  /\ UNCHANGED <<line, temp, cond, nextNum, watch, last, session, up, engine>>

\* Wrong: only the stop is awaited.
StopOnly == FALSE
Closed == ~up

\* The race is won by the end of the connection: #terminated().  If the stop
\* arrived before, fetching the stack fails and the command throws.
Ended ==
  /\ \/ pc = "running" /\ Closed /\ stops = "none"
     \/ pc = "stack" /\ ~up
  /\ session' = (pc # "running")
  /\ Returns
  /\ UNCHANGED <<points, seen, up, engine, inbox>>

-----------------------------------------------------------------------------
(* Edits, at any time                                                       *)

MayEdit == Len(inbox) < MaxInbox /\ session

\* break, tbreak, a click in the gutter.
AddBreakpoint(l, once, conditional) ==
  /\ MayEdit /\ nextNum \in Nums
  /\ nextNum' = nextNum + 1
  /\ line' = [line EXCEPT ![nextNum] = l]
  /\ temp' = [temp EXCEPT ![nextNum] = once]
  /\ cond' = [cond EXCEPT ![nextNum] = conditional]
  /\ bps' = bps \cup {nextNum}
  /\ Send([what |-> "table", lines |-> {line'[n] : n \in bps'}])
  /\ Touch(nextNum)
  /\ UNCHANGED <<seen, pc, loop, judge, session, up, engine>>

\* delete NUM, a click in the gutter.
DeleteBreakpoint(n) ==
  /\ MayEdit /\ n \in bps
  /\ bps' = bps \ {n}
  /\ Send(Table(bps \ {n}))
  /\ Touch(n)
  /\ UNCHANGED <<line, temp, cond, nextNum, seen, pc, loop, judge, session, up, engine>>

\* condition NUM [EXPR]; the engine is not told.
Condition(n) ==
  /\ MayEdit /\ n \in bps
  /\ cond' = [cond EXCEPT ![n] = ~@]
  /\ Touch(n)
  /\ UNCHANGED <<bps, line, temp, nextNum, seen, pc, loop, judge, session, up, engine, inbox>>

\* watch EXPR takes the value of now, if the engine evaluates it; delete NUM.
Watch ==
  /\ MayEdit
  /\ watch' = ~watch
  /\ \/ watch /\ last' = "undefined"
     \/ ~watch /\ ~(Evaluates /\ mode = "stopped") /\ last' = "unavailable"
     \/ ~watch /\ Evaluates /\ last' = x
  /\ told' = last'
  /\ Touch(0)
  /\ UNCHANGED <<points, pc, loop, judge, session, up, engine, inbox>>

Interrupt ==
  /\ MayEdit /\ pc # "idle"
  /\ Send([what |-> "pause"])
  /\ UNCHANGED <<points, seen, pc, loop, judge, session, up, touched, engine>>

\* The program ends, is killed, or the connection breaks.
Close ==
  /\ up /\ up' = FALSE
  /\ inbox' = <<>>
  /\ UNCHANGED <<points, seen, pc, loop, judge, session, touched, engine>>

-----------------------------------------------------------------------------
(* The engine (external)                                                    *)

Takes ==
  /\ up /\ inbox # <<>>
  /\ inbox' = Tail(inbox)
  /\ LET msg == Head(inbox) IN
       \/ /\ msg.what = "table" /\ table' = msg.lines /\ UNCHANGED <<mode, stops>>
       \/ /\ msg.what = "resume" /\ mode' = msg.cmd /\ UNCHANGED <<table, stops>>
       \/ /\ msg.what = "pause" /\ mode # "stopped"
          /\ mode' = "stopped" /\ stops' = "pause" /\ UNCHANGED table
       \/ /\ msg.what = "pause" /\ mode = "stopped" /\ UNCHANGED <<mode, stops, table>>
  /\ UNCHANGED <<points, seen, pc, loop, judge, session, up, touched, at, x>>

\* One line of the program; a call that is stepped over or out of runs on.
Runs ==
  /\ up /\ mode # "stopped"
  /\ at' \in Lines /\ x' \in Values
  /\ \/ /\ at' \in table /\ mode' = "stopped" /\ stops' = "breakpoint"
     \/ /\ at' \notin table /\ mode # "continue" /\ mode' = "stopped" /\ stops' = "step"
     \/ /\ at' \notin table /\ mode # "stepIn" /\ UNCHANGED <<mode, stops>>
  /\ UNCHANGED <<points, seen, pc, loop, judge, session, up, touched, table, inbox>>

-----------------------------------------------------------------------------
Command == Stopped \/ Stack \/ CheckWatch \/ Judge \/ TestCondition \/ Decide
             \/ UntilGoesOn \/ OnStopped \/ Ended

Edits == \/ \E l \in Lines, once \in BOOLEAN, conditional \in BOOLEAN : AddBreakpoint(l, once, conditional)
         \/ \E n \in Nums : DeleteBreakpoint(n) \/ Condition(n)
         \/ Watch \/ Interrupt

Next == (\E c \in Commands : Resume(c)) \/ Command \/ Edits \/ Close \/ Takes \/ Runs

Spec == Init /\ [][Next]_vars

\* The event loop runs the command's continuations.
FairSpec == Spec /\ WF_vars(Command)

-----------------------------------------------------------------------------
(* Properties                                                               *)

\* The engine's table follows the debugger's list through edits in mid-run and
\* one-shot breakpoints that go: with no update on the way they agree (720-729).
EngineKnowsBreakpoints ==
  (up /\ \A i \in DOMAIN inbox : inbox[i].what # "table") => table = {line[n] : n \in bps}

GoesOn == pc \in {"judge", "cond"} /\ pc' = "running"

\* A stop is passed over only if the condition of every breakpoint there that was
\* not edited meanwhile was tested and false, and reported only if one of them,
\* if there still is one, is unconditional, true or in error: "Skips breakpoints
\* whose `if` condition is false" (571, 593-600), "stop only when EXPR is true"
\* (json-protocol.md 93).
StopsRightly ==
  /\ [][(GoesOn /\ reason = "breakpoint") =>
          \A n \in At(bps) \ touched : cond[n] /\ x = "false"]_vars
  /\ [][(pc = "cond" /\ pc' = "report" /\ touched = {} /\ up /\ At(bps) # {}) =>
          \E n \in At(bps) : ~cond[n] \/ x # "false"]_vars

\* A watchpoint that was there when the program was resumed: the program never goes
\* on by itself from a stop where the watched value differs from what the user was
\* last shown of it, and what it is compared with is what the user was last shown;
\* a change is noted only together with the stop that reports it, through the loops
\* of #nextStop() and until() (559-568, 576-602, 1105-1112).  Of a watchpoint set
\* before the program ran, the value its first stop found stands for what was
\* shown: 563 notes it without reporting it.  A watchpoint set while the program
\* runs is looked at from the next resumption on (580).
WatchIsKept ==
  /\ []((watch /\ pc \in {"idle", "running"}) => told = last)
  /\ [][(GoesOn /\ watching /\ watch /\ 0 \notin touched /\ Evaluates) => told = x]_vars

\* Why the safety properties hold.  The last update of the table that is on the way,
\* if any is, is the list of now; the program stands still while a stop is looked
\* at, for there is one request to resume at a time; the conditions tested so far
\* were false, but for edits; and what a watchpoint saw last was shown, but for a
\* change that is about to be.
TableFollows ==
  up => \/ table = {line[n] : n \in bps} /\ \A i \in DOMAIN inbox : inbox[i].what # "table"
        \/ \E i \in DOMAIN inbox :
             /\ inbox[i].what = "table" /\ inbox[i].lines = {line[n] : n \in bps}
             /\ \A j \in DOMAIN inbox : j > i => inbox[j].what # "table"

Sent == {i \in DOMAIN inbox : inbox[i].what = "resume"}

StandsStill ==
  up => /\ \A i, j \in Sent : i = j
        /\ pc # "running" => Sent = {} /\ mode = "stopped" /\ stops = "none"
        /\ mode # "stopped" => Sent = {} /\ stops = "none"
        /\ stops # "none" => Sent = {}

Tested ==
  pc = "cond" =>
    /\ reason = "breakpoint"
    /\ ~hold => \A n \in (At(bps) \ touched) \ hits : cond[n] /\ x = "false"
    /\ touched = {} => hits \subseteq At(bps)
    /\ (touched = {} /\ hold /\ up /\ At(bps) # {}) => \E n \in At(bps) : ~cond[n] \/ x # "false"

Shown ==
  /\ told = last \/ (pc = "report" /\ reason = "watchpoint")
  /\ (pc \in {"judge", "cond"} /\ watching /\ watch /\ 0 \notin touched /\ Evaluates) => last = x

IInv == TypeOK /\ TableFollows /\ StandsStill /\ Tested /\ Shown

\* A command waits for a stop only while one can come: its request is on the way, the
\* program runs, or the stop is there; or the connection has ended (499-512).
ServedOrLost == pc = "running" => ~up \/ Sent # {} \/ mode # "stopped" \/ stops # "none"

\* A command in progress comes to an end when the connection does, wherever in
\* the loop that catches it (509-510, 537-555, 582).
CommandEnds == (~up /\ pc # "idle") ~> pc = "idle"
=============================================================================
