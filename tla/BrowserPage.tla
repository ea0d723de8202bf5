---------------------------- MODULE BrowserPage ----------------------------
(***************************************************************************)
(* The browser page of server mode (examples/browser/ide.js) and the server   *)
(* it talks to (StartServer in qjs-debugger.js, Debugger.adopt()): the page    *)
(* refreshes at every stop, with awaits on the engine and on source files; its *)
(* gutter shows a copy of the server's breakpoint table and edits it by        *)
(* number.                                                                  *)
(*                                                                          *)
(* Stops are numbered; a frame, a location, a variable stand for the stop     *)
(* they are of.  The engine (external) answers requests in order while it is   *)
(* stopped.  How the server adapter routes them is in ServerAdapter.          *)
(***************************************************************************)
EXTENDS Naturals, Sequences, FiniteSets

CONSTANTS
  Files,         \* source files
  Lines,         \* lines of the file in the gutter
  MainLine,      \* the line of main
  Scopes,        \* how many scopes a frame has whose variables are shown
  SlowSources,   \* may a source file take longer than the engine's next message?
  MaxStops, MaxRefreshes, MaxCommands   \* bounds

ASSUME SlowAssumption == SlowSources \in BOOLEAN
ASSUME LinesAssumption == MainLine \in Lines
ASSUME FilesAssumption == Files # {}
ASSUME BoundsAssumption == {Scopes, MaxStops, MaxRefreshes, MaxCommands} \subseteq Nat \ {0}

Stops == 1 .. MaxStops
Refreshes == 1 .. MaxRefreshes
Query == 0                         \* the page's first stack trace
Nums == 1 .. MaxCommands + 1       \* one for each command, and for main

VARIABLES
  page,        \* "closed" until the web socket is open
  at,          \* of each refresh, and the query: where it is
  got, mine, left, data,   \* its stop, its number, scopes to come, what it collected
  refreshSeq, stop, source, scopeData, bpList,
  cache, fetches,          \* sourceCache; of each file, the fetches in flight
  up, down,    \* the web socket
  commands,    \* how many there were
  table, lineOf, nextBpNum, temp,       \* the server's breakpoints; which is main's
  adopting, resuming, reporting,        \* Debugger: adopt(), commands that await a stop
  engine, stops, fileOf, asked   \* the engine; the file of each stop; what it was asked

refreshing == <<at, got, mine, left, data, refreshSeq>>
shown   == <<stop, source, scopeData>>
sources == <<cache, fetches>>
points  == <<table, lineOf, nextBpNum, temp>>
interpreter == <<adopting, resuming, reporting>>
target  == <<engine, stops, fileOf>>
vars == <<page, refreshing, shown, bpList, sources, up, down, commands, points, interpreter, target, asked>>

Places == {"none", "stack", "source", "scopes", "variables", "over"}

\* "one fetch per file at a time" (ide.js 223); refreshes are numbered one by one,
\* and so are breakpoints.
TypeOK ==
  /\ page \in {"closed", "open"}
  /\ at \in [Refreshes \cup {Query} -> Places]
  /\ got \in [Refreshes -> 0 .. stops] /\ mine \in [Refreshes -> 0 .. MaxRefreshes]
  /\ left \in [Refreshes -> 0 .. Scopes] /\ data \in [Refreshes -> SUBSET (0 .. stops)]
  /\ refreshSeq = Cardinality({r \in Refreshes : mine[r] > 0})
  /\ {stop, source} \subseteq 0 .. stops
  /\ scopeData \in [of : 0 .. stops, from : SUBSET (0 .. stops)]
  /\ cache \subseteq Files /\ fetches \in [Files -> 0 .. 1]
  /\ commands \in 0 .. MaxCommands
  /\ table \subseteq 1 .. nextBpNum - 1 /\ lineOf \in [Nums -> Lines] /\ nextBpNum \in 1 .. MaxCommands + 2
  /\ temp \in Nums \cup {0}
  /\ adopting \in {"entry", "stopped", "resumed", "report", "over", "failed"}
  /\ resuming \in Nat /\ reporting \in Nat
  /\ engine \in {"running", "stopped", "gone"} /\ stops \in 0 .. MaxStops
  /\ fileOf \in [Stops -> Files]

Init ==
  /\ page = "closed" /\ at = [r \in Refreshes \cup {Query} |-> "none"]
  /\ got = [r \in Refreshes |-> 0] /\ mine = [r \in Refreshes |-> 0]
  /\ left = [r \in Refreshes |-> 0] /\ data = [r \in Refreshes |-> {}]
  /\ refreshSeq = 0 /\ stop = 0 /\ source = 0 /\ scopeData = [of |-> 0, from |-> {}] /\ bpList = {}
  /\ cache = {} /\ fetches = [f \in Files |-> 0]
  /\ up = <<>> /\ down = <<>> /\ commands = 0
  /\ table = {} /\ lineOf = [n \in Nums |-> CHOOSE l \in Lines : TRUE] /\ nextBpNum = 1 /\ temp = 0
  /\ adopting = "entry" /\ resuming = 0 /\ reporting = 0
  /\ engine = "running" /\ stops = 0
  /\ fileOf = [n \in Stops |-> CHOOSE f \in Files : TRUE]
  /\ asked = <<>>

Ask(r, what) == [what |-> what, of |-> r]
Command(c, l, n) == [what |-> c, line |-> l, num |-> n]
Answer(q, ok) == [what |-> "answer", to |-> q, ok |-> ok, stop |-> stops]
Labels(T, on) == {[num |-> n, line |-> on[n]] : n \in T}
Published(T, on) == [what |-> "breakpoints", table |-> Labels(T, on)]

\* What the page is sent: broadcasts reach it when it is there.
Broadcast(msgs) == down' = IF page = "open" THEN down \o msgs ELSE down

-----------------------------------------------------------------------------
(* The page: refresh()                                                      *)

Unused == {r \in Refreshes : at[r] = "none"}
NextRefresh == CHOOSE r \in Unused : \A q \in Unused : r <= q
Goes(r, place) == at' = [at EXCEPT ![r] = place]

\* onopen: publish the table, ask for the stack.
OnOpen ==
  /\ page = "closed" /\ page' = "open"
  /\ up' = <<Command("empty", 0, 0), Ask(Query, "stack")>>
  /\ Goes(Query, "stack")
  /\ UNCHANGED <<got, mine, left, data, refreshSeq, shown, bpList, sources, down, commands, points,
                 interpreter, target, asked>>

\* refresh(): the stack is asked for.  places is `at` after what calls it.
RefreshStarts(places) ==
  /\ Unused # {} /\ at' = [places EXCEPT ![NextRefresh] = "stack"]
  /\ up' = Append(up, Ask(NextRefresh, "stack"))
  /\ UNCHANGED <<got, mine, left, data, refreshSeq, shown, sources, bpList>>

\* Wrong: a refresh in progress will do.
BeginAlone(places) ==
  \/ (\A r \in Refreshes : at[r] \in {"none", "over"}) /\ RefreshStarts(places)
  \/ /\ \E r \in Refreshes : at[r] \notin {"none", "over"}
     /\ at' = places
     /\ UNCHANGED <<got, mine, left, data, refreshSeq, shown, sources, bpList, up>>

\* A refresh begins: at every stop, and when the query was answered in time, also if
\* the page has heard of a stop since it asked.
Begin(places) == RefreshStarts(places)

\* From here a refresh has a number: its source is shown, the scopes are asked
\* for.  W are the refreshes that go on, in the order they came.
Number(W) ==
  LET rank(r) == Cardinality({q \in W : q <= r})
      inOrder == [i \in 1 .. Cardinality(W) |-> CHOOSE r \in W : rank(r) = i] IN
  /\ mine' = [r \in Refreshes |-> IF r \in W THEN refreshSeq + rank(r) ELSE mine[r]]
  /\ refreshSeq' = refreshSeq + Cardinality(W)
  /\ at' = [r \in DOMAIN at |-> IF r \in W THEN "scopes" ELSE at[r]]
  /\ up' = up \o [i \in DOMAIN inOrder |-> Ask(inOrder[i], "scopes")]

\* The stack of refresh r: the stop is noted, its source is shown or fetched.
OnStack(r, m) ==
  \/ /\ ~m.ok /\ Goes(r, "over")
     /\ UNCHANGED <<got, mine, left, data, refreshSeq, shown, sources, up, bpList>>
  \/ /\ m.ok /\ got' = [got EXCEPT ![r] = m.stop] /\ stop' = m.stop
     /\ LET f == fileOf[m.stop] IN
          \/ /\ f \in cache /\ source' = m.stop /\ Number({r}) /\ UNCHANGED fetches
          \/ /\ f \notin cache /\ fetches' = [fetches EXCEPT ![f] = 1] /\ Goes(r, "source")
             /\ UNCHANGED <<source, mine, refreshSeq, up>>
     /\ UNCHANGED <<left, data, scopeData, cache, bpList>>

Newest(r) == mine[r] = refreshSeq

\* Wrong: where the debuggee is, is shown with its variables.
ShownAtTheEnd(r, s) ==
  /\ Goes(r, "over") /\ stop' = got[r]
  /\ scopeData' = IF Newest(r) THEN [of |-> got[r], from |-> data[r] \cup s] ELSE scopeData
  /\ UNCHANGED <<got, mine, left, data, refreshSeq, source, up, bpList, sources>>

\* The scopes and variables have come, the last of them from the stop s.
Collected(r, s) ==
  /\ Goes(r, "over")
  /\ scopeData' = IF Newest(r) THEN [of |-> got[r], from |-> data[r] \cup s] ELSE scopeData
  /\ UNCHANGED <<got, mine, left, data, refreshSeq, stop, source, up, bpList, sources>>

OnScopes(r, m) ==
  \/ /\ ~m.ok /\ Goes(r, "over")
     /\ UNCHANGED <<got, mine, left, data, refreshSeq, shown, up, bpList, sources>>
  \/ /\ m.ok /\ left' = [left EXCEPT ![r] = Scopes]
     /\ up' = Append(up, Ask(r, "variables")) /\ Goes(r, "variables")
     /\ UNCHANGED <<got, mine, data, refreshSeq, shown, bpList, sources>>

\* A failed answer is an answer without variables.
OnVariables(r, m) ==
  LET s == IF m.ok THEN {m.stop} ELSE {0} IN
  \/ left[r] = 1 /\ Collected(r, s)
  \/ /\ left[r] > 1 /\ left' = [left EXCEPT ![r] = @ - 1]
     /\ data' = [data EXCEPT ![r] = @ \cup s]
     /\ up' = Append(up, Ask(r, "variables"))
     /\ UNCHANGED <<at, got, mine, refreshSeq, shown, bpList, sources>>

\* A response resolves the request of its number.
OnAnswer(m) ==
  LET r == m.to.of IN
  \/ r = Query /\ at[Query] = "stack" /\ m.ok /\ Begin([at EXCEPT ![Query] = "over"])
  \/ /\ r = Query /\ (at[Query] = "over" \/ ~m.ok) /\ Goes(Query, "over")
     /\ UNCHANGED <<got, mine, left, data, refreshSeq, shown, sources, up, bpList>>
  \/ r # Query /\ at[r] = "stack" /\ OnStack(r, m)
  \/ r # Query /\ at[r] = "scopes" /\ OnScopes(r, m)
  \/ r # Query /\ at[r] = "variables" /\ OnVariables(r, m)

\* onFrame(): the next message of the server.
OnFrame ==
  /\ down # <<>> /\ (~SlowSources => \A f \in Files : fetches[f] = 0)
  /\ down' = Tail(down)
  /\ LET m == Head(down) IN
       \/ m.what = "answer" /\ OnAnswer(m)
       \/ m.what = "stopped" /\ Begin(at)
       \/ /\ m.what = "breakpoints" /\ bpList' = m.table
          /\ UNCHANGED <<refreshing, shown, sources, up>>
       \/ m.what = "terminated" /\ UNCHANGED <<refreshing, shown, sources, up, bpList>>
  /\ UNCHANGED <<page, commands, points, interpreter, target, asked>>

\* The query is not waited for any longer than two seconds.
Timeout ==
  /\ at[Query] = "stack" /\ Goes(Query, "over")
  /\ UNCHANGED <<page, got, mine, left, data, refreshSeq, shown, bpList, sources, up, down, commands, points,
                 interpreter, target, asked>>

\* loadSource(): a file has come, or failed and is shown but not kept.
Fetched(f) ==
  /\ fetches[f] > 0 /\ fetches' = [fetches EXCEPT ![f] = @ - 1]
  /\ \/ cache' = cache \cup {f}
     \/ UNCHANGED cache
  /\ LET W == {r \in Refreshes : at[r] = "source" /\ fileOf[got[r]] = f} IN
       /\ Number(W)
       /\ source' = IF W = {} THEN source ELSE got[CHOOSE r \in W : \A q \in W : q <= r]
  /\ UNCHANGED <<page, got, left, data, stop, scopeData, bpList, down, commands, points, interpreter,
                 target, asked>>

-----------------------------------------------------------------------------
(* The page: the gutter and the buttons                                     *)

Sends(c) ==
  /\ page = "open" /\ commands < MaxCommands /\ commands' = commands + 1
  /\ up' = Append(up, c)
  /\ UNCHANGED <<page, refreshing, shown, bpList, sources, down, points, interpreter, target, asked>>

\* toggleBreakpoint(): by the copy of the table at hand.
Toggle(l) ==
  LET here == {b \in bpList : b.line = l} IN
  \/ here = {} /\ Sends(Command("break", l, 0))
  \/ here # {} /\ Sends(Command("delete", l, (CHOOSE b \in here : \A c \in here : b.num <= c.num).num))

Resume == Sends(Command("continue", 0, 0))

-----------------------------------------------------------------------------
(* The server                                                               *)

\* Wrong: the next number, not this one.
Skipping == nextBpNum + 1
\* Wrong: the numbers of deleted breakpoints are given again.
LeastFree == CHOOSE n \in Nums : n \notin table /\ \A m \in 1 .. n - 1 : m \in table
NewNumber == nextBpNum

Page == UNCHANGED <<page, refreshing, shown, bpList, sources, commands>>

\* break(): the breakpoint, and what is then published.
Break(l, isTemp) ==
  /\ table' = table \cup {NewNumber} /\ lineOf' = [lineOf EXCEPT ![NewNumber] = l]
  /\ nextBpNum' = nextBpNum + 1 /\ temp' = IF isTemp THEN NewNumber ELSE temp

\* oncommand(): the command is executed, the table published.  A command that
\* resumes publishes when it is over.
Execute(c) ==
  \/ c.what = "empty" /\ UNCHANGED <<points, resuming, engine>> /\ Broadcast(<<Published(table, lineOf)>>)
  \/ /\ c.what = "break" /\ Break(c.line, FALSE)
     /\ Broadcast(<<Published(table', lineOf')>>) /\ UNCHANGED <<resuming, engine>>
  \/ /\ c.what = "delete" /\ table' = table \ {c.num}
     /\ Broadcast(<<Published(table', lineOf)>>)
     /\ UNCHANGED <<lineOf, nextBpNum, temp, resuming, engine>>
  \/ /\ c.what = "continue" /\ engine # "gone"
     /\ engine' = "running" /\ resuming' = resuming + 1
     /\ UNCHANGED <<points, down>>
  \/ /\ c.what = "continue" /\ engine = "gone"
     /\ Broadcast(<<Published(table, lineOf)>>) /\ UNCHANGED <<points, resuming, engine>>

\* clientMessage(): a command, or a request for the engine.
ClientMessage ==
  /\ up # <<>> /\ up' = Tail(up)
  /\ LET m == Head(up) IN
       \/ m.what \in {"empty", "break", "delete", "continue"} /\ Execute(m) /\ UNCHANGED asked
       \/ /\ m.what \in {"stack", "scopes", "variables"}
          /\ \/ engine # "gone" /\ asked' = Append(asked, m) /\ UNCHANGED down
             \/ engine = "gone" /\ Broadcast(<<Answer(m, FALSE)>>) /\ UNCHANGED asked
          /\ UNCHANGED <<points, resuming, engine>>
  /\ UNCHANGED <<adopting, reporting, stops, fileOf>> /\ Page

\* Another client edits the table.
OtherClient ==
  /\ commands < MaxCommands /\ commands' = commands + 1
  /\ \E c \in {Command("break", l, 0) : l \in Lines} \cup {Command("delete", 0, n) : n \in table} : Execute(c)
  /\ UNCHANGED <<page, refreshing, shown, bpList, sources, up, adopting, reporting, stops, fileOf, asked>>

\* adopt() after the entry stop: a one-shot breakpoint at main, and on to it; or,
\* if there is no main, the entry stop is reported.
AdoptMain ==
  /\ adopting = "stopped"
  /\ \/ Break(MainLine, TRUE) /\ engine' = "running" /\ adopting' = "resumed" /\ UNCHANGED down
     \/ /\ adopting' = "over" /\ Broadcast(<<Published(table, lineOf)>>) /\ UNCHANGED <<points, engine>>
  /\ UNCHANGED <<resuming, reporting, stops, fileOf, up, asked>> /\ Page

\* A command that awaited a stop is over: #onStopped() has used up the one-shot
\* breakpoint if that was hit.
Over ==
  /\ table' \in {table, table \ {temp}}
  /\ (engine = "gone" => table' = table)
  /\ Broadcast(<<Published(table', lineOf)>>)
  /\ UNCHANGED <<lineOf, nextBpNum, temp, target, up, asked>> /\ Page

Reported == reporting > 0 /\ reporting' = reporting - 1 /\ UNCHANGED <<adopting, resuming>> /\ Over

\* adopt() is over; it throws, and nothing is published, if the engine is gone
\* before the stack was fetched.
Adopted ==
  /\ adopting = "report" /\ UNCHANGED <<resuming, reporting>>
  /\ \/ adopting' = "over" /\ Over
     \/ /\ engine = "gone" /\ adopting' = "failed"
        /\ UNCHANGED <<down, points, target, up, asked>> /\ Page

-----------------------------------------------------------------------------
(* The engine (external)                                                    *)

\* It stops; adopt() or the commands that wait hear of it.
EngineStops(f) ==
  /\ engine = "running" /\ stops < MaxStops
  /\ engine' = "stopped" /\ stops' = stops + 1
  /\ fileOf' = [fileOf EXCEPT ![stops + 1] = f]
  /\ Broadcast(<<[what |-> "stopped"]>>)
  /\ adopting' = CASE adopting = "entry" -> "stopped" [] adopting = "resumed" -> "report" [] OTHER -> adopting
  /\ reporting' = reporting + resuming /\ resuming' = 0
  /\ UNCHANGED <<points, up, asked>> /\ Page

EngineAnswers ==
  /\ engine = "stopped" /\ asked # <<>>
  /\ asked' = Tail(asked) /\ Broadcast(<<Answer(Head(asked), TRUE)>>)
  /\ UNCHANGED <<points, interpreter, target, up>> /\ Page

\* Wrong: requests the engine had not answered yet are forgotten.
Forgotten == <<>>
Rejected == [i \in DOMAIN asked |-> Answer(asked[i], FALSE)]

\* It ends: the clients are told, the requests in flight are rejected.
EngineEnds ==
  /\ engine # "gone" /\ engine' = "gone"
  /\ Broadcast(<<[what |-> "terminated"]>> \o Rejected)
  /\ asked' = <<>>
  /\ adopting' = CASE adopting = "resumed" -> "report" [] adopting \in {"entry", "stopped"} -> "over" [] OTHER -> adopting
  /\ reporting' = reporting + resuming /\ resuming' = 0
  /\ UNCHANGED <<points, stops, fileOf, up>> /\ Page

-----------------------------------------------------------------------------
Next ==
  \/ OnOpen \/ OnFrame \/ Timeout \/ Resume
  \/ \E f \in Files : Fetched(f)
  \/ \E l \in Lines : Toggle(l)
  \/ ClientMessage \/ OtherClient \/ AdoptMain \/ Reported \/ Adopted
  \/ \E f \in Files : EngineStops(f)
  \/ EngineAnswers \/ EngineEnds

Spec == Init /\ [][Next]_vars

-----------------------------------------------------------------------------
(* Properties                                                               *)

\* Nothing is on its way, and no refresh is in progress.
Quiet ==
  /\ page = "open" /\ up = <<>> /\ down = <<>> /\ asked = <<>>
  /\ at[Query] = "over" /\ \A r \in Refreshes : at[r] \in {"none", "over"}

\* The page shows the newest stop, its source and its variables and nothing of
\* the ones before, however refreshes overlap: "collect locally, drop stale
\* results" (ide.js 304).  A page whose first question was not answered in time
\* shows nothing until the next stop (464-468).
ShownIsNewest ==
  (Quiet /\ engine = "stopped" /\ stop # 0) =>
    /\ stop = stops /\ source = stops
    /\ scopeData.of = stops /\ scopeData.from \subseteq {stops}

\* "the breakpoint table is published after each command so the clients' gutters
\* follow it" (qjs-debugger.js 291-293), also when a stop used one up; a click
\* on the gutter never deletes a breakpoint that was not shown there, though the
\* copy may be old (ide.js 68-83).  An adopt() that throws publishes nothing.
GutterIsTrue ==
  /\ (Quiet /\ reporting = 0 /\ adopting \notin {"resumed", "report", "failed"}) =>
        bpList = Labels(table, lineOf)
  /\ \A i \in DOMAIN up :
        (up[i].what = "delete" /\ up[i].num \in table) => lineOf[up[i].num] = up[i].line

\* How many of the messages of a queue are in a set.
Hits(q, S) == Cardinality({i \in DOMAIN q : q[i] \in S})

Asks == [what : {"stack", "scopes", "variables"}, of : Refreshes \cup {Query}]
AnswersTo(q) == [what : {"answer"}, to : {q}, ok : BOOLEAN, stop : 0 .. MaxStops]

\* The question is on its way, with the engine, or answered.
OnItsWay(q) == Hits(up, {q}) + Hits(asked, {q}) + Hits(down, AnswersTo(q))

\* A refresh that awaits something is always answered: its request, or the
\* answer, is on its way, once, or its file is being fetched, also when the engine
\* ends with requests in flight (138-142, server-adapter.js 125-132).
NoRefreshIsLost ==
  \A r \in DOMAIN at :
    /\ at[r] \in {"stack", "scopes", "variables"} => OnItsWay(Ask(r, at[r])) = 1
    /\ at[r] = "source" => fetches[fileOf[got[r]]] = 1

\* The page never goes back to a stop before the one it shows, whatever refreshes
\* overtake each other, also while they are in progress, and when they fail: nor,
\* where source files are quick, to an older source or older variables (ide.js
\* 304).
NeverBack ==
  [][/\ stop' >= stop
     /\ ~SlowSources => source' >= source /\ scopeData'.of >= scopeData.of]_vars

-----------------------------------------------------------------------------
(* The inductive invariant the theorems of BrowserPage_proofs rest on: what *)
(* messages say (Spoken); that a breakpoint keeps its line, so that an old    *)
(* copy of the table names the right one (Labelled); where the newest table   *)
(* is (Followed); that every breakpoint was asked for (Numbered); and that    *)
(* there is no question but that of a refresh that awaits it (Awaited).       *)

Commands == [what : {"empty", "break", "delete", "continue"}, line : Lines \cup {0}, num : Nums \cup {0}]
Labelling == SUBSET [num : Nums, line : Lines]
Notices == {[what |-> "stopped"], [what |-> "terminated"]}
Messages == [what : {"answer"}, to : Asks, ok : BOOLEAN, stop : 0 .. MaxStops]
              \cup [what : {"breakpoints"}, table : Labelling] \cup Notices

Spoken ==
  /\ up \in Seq(Asks \cup Commands) /\ asked \in Seq(Asks) /\ down \in Seq(Messages)
  /\ bpList \in Labelling
  /\ \A i \in DOMAIN up : up[i].what = "break" => up[i].line \in Lines
  /\ \A i \in DOMAIN down : down[i].what = "answer" => /\ down[i].stop <= stops
                                                       /\ down[i].ok => down[i].stop > 0
  /\ engine = "stopped" => stops > 0
  /\ page = "closed" => up = <<>> /\ asked = <<>> /\ down = <<>> /\ bpList = {}

StillTrue(b) == b.num < nextBpNum /\ lineOf[b.num] = b.line

Labelled ==
  /\ \A b \in bpList : StillTrue(b)
  /\ \A i \in DOMAIN down : down[i].what = "breakpoints" => \A b \in down[i].table : StillTrue(b)
  /\ \A i \in DOMAIN up : up[i].what = "delete" => up[i].num > 0 /\ StillTrue(up[i])

IsTable(i) == down[i].what = "breakpoints"
LastTable(i) == IsTable(i) /\ \A j \in DOMAIN down : j > i => ~IsTable(j)

Followed ==
  (/\ page = "open" /\ adopting \notin {"resumed", "report", "failed"}
   /\ \A i \in DOMAIN up : up[i].what # "empty") =>
    /\ \A i \in DOMAIN down : LastTable(i) => down[i].table = Labels(table, lineOf)
    /\ (\A i \in DOMAIN down : ~IsTable(i)) => bpList = Labels(table, lineOf)

Breaks == {c \in Commands : c.what = "break"}

Numbered ==
  /\ nextBpNum + Hits(up, Breaks) <= commands + (IF adopting \in {"entry", "stopped"} THEN 1 ELSE 2)
  /\ lineOf \in [Nums -> Lines] /\ nextBpNum \in Nat \ {0}

Awaited ==
  /\ \A r \in Refreshes : \A what \in {"stack", "scopes", "variables"} :
       OnItsWay(Ask(r, what)) = IF at[r] = what THEN 1 ELSE 0
  /\ at[Query] \in {"none", "stack", "over"} /\ OnItsWay(Ask(Query, "stack")) \in {0, 1}
  /\ at[Query] = "stack" => OnItsWay(Ask(Query, "stack")) = 1
  /\ page = "closed" => \A r \in DOMAIN at : at[r] = "none"
  /\ \A what \in {"scopes", "variables"} : OnItsWay(Ask(Query, what)) = 0
  /\ \A r \in Refreshes : /\ at[r] \in {"none", "stack", "source"} => mine[r] = 0
                          /\ at[r] \in {"source", "scopes", "variables"} => got[r] > 0
                          /\ at[r] = "source" => fetches[fileOf[got[r]]] = 1

IInv == TypeOK /\ Spoken /\ Labelled /\ Followed /\ Numbered /\ Awaited

-----------------------------------------------------------------------------
(* What ShownIsNewest rests on besides, while the engine lives and source    *)
(* files are quick: messages keep their order from the page to the engine and *)
(* back (InLine), so refreshes have their stacks, and so their numbers, in the *)
(* order they began (Turns); once no stop is left to be told of, the last to    *)
(* begin is told of the newest (LastIsFresh).  adopt() never takes over an     *)
(* engine that is gone.                                                      *)

\* The refresh whose stack a message asks for or tells; 0 if it does neither.
StackOf(m) ==
  LET q == IF m.what = "answer" THEN m.to ELSE m IN IF q.what = "stack" THEN q.of ELSE 0

Rising(q) == \A i, j \in DOMAIN q : i < j /\ StackOf(q[j]) > 0 => StackOf(q[i]) < StackOf(q[j])
Below(p, q) == \A i \in DOMAIN p : \A j \in DOMAIN q : StackOf(q[j]) > 0 => StackOf(p[i]) < StackOf(q[j])

InLine ==
  /\ Rising(down) /\ Rising(asked) /\ Rising(up)
  /\ Below(down, asked) /\ Below(down, up) /\ Below(asked, up)

Turns ==
  /\ \A r, q \in Refreshes : r < q /\ at[r] = "none" => at[q] = "none"
  /\ \A r, q \in Refreshes : r < q /\ at[r] \in {"stack", "source"} => at[q] \in {"none", "stack"}
  /\ \A r, q \in Refreshes : mine[r] = mine[q] /\ mine[r] > 0 => r = q
  /\ \A r \in Refreshes : mine[r] <= refreshSeq

Answered ==
  /\ \A i \in DOMAIN down : down[i].what = "answer" => down[i].ok
  /\ \A r \in Refreshes : at[r] = "none" => data[r] = {}
  /\ (\A r \in Refreshes : at[r] = "none") => stop = 0

\* All that refresh r was told, and has shown, is of the newest stop.
OfNewest(r) ==
  /\ data[r] \subseteq {stops}
  /\ \A i \in DOMAIN down : (down[i].what = "answer" /\ down[i].to.of = r) => down[i].stop = stops
  /\ at[r] # "stack" => got[r] = stops /\ stop = stops
  /\ at[r] \in {"scopes", "variables", "over"} => source = stops /\ mine[r] = refreshSeq /\ mine[r] > 0
  /\ at[r] = "over" => scopeData.of = stops /\ scopeData.from \subseteq {stops}

Last(r) == at[r] # "none" /\ \A q \in Refreshes : q > r => at[q] = "none"

LastIsFresh ==
  (\A i \in DOMAIN down : down[i].what # "stopped") => \A r \in Refreshes : Last(r) => OfNewest(r)

NInv ==
  /\ adopting = "stopped" => engine # "gone"
  /\ engine # "gone" => InLine /\ Turns /\ Answered /\ LastIsFresh

-----------------------------------------------------------------------------
(* What NeverBack rests on besides: the page is told of stops in their order  *)
(* (StopsInOrder), so that the numbers of refreshes follow those of their      *)
(* stops where source files are quick (NumbersInOrder).                       *)

Tells(m) == m.what = "answer" /\ m.ok

\* The messages of q tell of stops in their order, and of none before s.
InOrder(q, s) ==
  /\ \A i \in DOMAIN q : Tells(q[i]) => s <= q[i].stop
  /\ \A i, j \in DOMAIN q : i < j /\ Tells(q[i]) /\ Tells(q[j]) => q[i].stop <= q[j].stop

StopsInOrder == InOrder(down, stop) /\ source <= stop /\ \A r \in Refreshes : got[r] <= stop

NumbersInOrder ==
  /\ \A r \in Refreshes : at[r] = "source" => got[r] = stop
  /\ \A q, r \in Refreshes : at[q] = "source" /\ at[r] = "source" => q = r
  /\ \A r \in Refreshes : /\ mine[r] > 0 => got[r] <= source
                          /\ at[r] \in {"scopes", "variables"} => mine[r] > 0
                          /\ mine[r] <= refreshSeq
  /\ \A q, r \in Refreshes : mine[q] > 0 /\ mine[q] <= mine[r] => got[q] <= got[r]
  /\ scopeData.of = 0 \/ \E q \in Refreshes : mine[q] > 0 /\ got[q] = scopeData.of

OInv == StopsInOrder /\ (~SlowSources => NumbersInOrder)
=============================================================================
