# A TLA+ verification of qjs-debugger

qjs-debugger is a source-level debugger for programs run by a QuickJS interpreter
with a debugger extension ("the engine", not in this repository).  It is one
JavaScript program with several front ends (terminal, batch, JSON, GUI, Debug
Adapter Protocol, web server) over one protocol core.  Everything runs on one event
loop: there are no threads, but nearly every operation is a chain of promises, and
between two links of a chain anything else may run: another command, an incoming
message, a timer, the end of the connection, the end of the debuggee.

This directory states what that code promises under such interleavings, checks it with
TLC on small instances, and proves the central parts with TLAPS for every instance.
Line numbers in comments are those of the source file a module models, unless another
file is named.

## 1. Inventory

| part | source | state | operations | talks to |
| --- | --- | --- | --- | --- |
| framing | `codec.js`, `LineReader` and `DAPFrameDecoder` in `qjs-debugger.js`, `handleText` in `connector-lws.js`, `decodeFrames` in `ide.js`, `pushRaw` in `console-pane.js` | bytes not yet decoded, length wanted, lines and waiters | `frameMessage`, `push`, `readLine`, `drainOutput` | link, front ends |
| transport | `transport.js` | descriptor, `#reading`, `#writing`, `#closing` | `connect` (retries), `accept`, iterate, `send`, `close`, `#release` | socket library (external) |
| connection | `engine-connection.js` | `#transport`, `#closed`, `#sendq`, decoder | `sendMessage`, `#readLoop`, `close`, `attachSession`, `StartEngine` | transport below, session above |
| session | `session.js` | `#seq`, `#pending`, timers, `#waiters`, `#listeners`, `running` | `request` and wrappers, `continue`, `#step`, `waitEvent`, `breakpoints`, `dispatch`, `abort` | connection; every front end |
| debugger | `debugger.js` | breakpoints, watchpoints, displays, stack, `child`, `connection`, `session`, `lastError`, `lastStop` | about 35 commands; `launchEngine`, `adopt`, `#resume`, `#nextStop`, `#onStopped`, `#terminated`, `execute` | session; front ends by callbacks |
| DAP | `vscode-dap.js`, `StartDAP` in `qjs-debugger.js` | `#resuming`, `#holding`, `#deferred`, `terminated` | `dispatch`, `#resume`, `#stateEvent`, `attachSession`, hooks | session; editor |
| server | `server-adapter.js`, `connector-lws.js`, `connector-qjsnet.js`, `client.js` | `#engine`, `session`, `#ports`, entries of sockets, promises of clients | `attachEngine`, `detachEngine`, `connect`, `launch`, `clientMessage`, `broadcast`, `close` | one engine, many web clients |
| front ends | `qjs-debugger.js` | line buffers, queue, exit status | `StartBatch`, `StartREPL`, `StartServer`, `StartDAP` | debugger |
| GUI | `gui/` | snapshots of variables and displays with sequence numbers, command queue | `#refreshVars`, `refreshDisplays`, `toggleVar`, `submitCommand`, `command` | debugger |
| browser page | `examples/browser/ide.js` | refresh numbers, source cache, copy of the breakpoint table | `refresh`, `onFrame`, `toggleBreakpoint`, `loadSource` | server |
| prototype, editor stub | `imgui/`, `extension.js` | | superseded or presentation only | |

What is hard, and what makes each part correct:

* **session**: requests, answers, timeouts and the end of the connection race.  A
  promise must be settled once, and in the end; a stop must reach those who wait for
  it although the engine reports it before it answers the resume.
* **link**: the socket allows one pending write and must not be closed under a pending
  operation; close is reached from the owner, the read loop and message handlers.
* **framing**: streams are cut anywhere, also inside a header or a character.
* **DAP adapter**: state events must follow the response of the request that caused
  them, in order, and none may be lost or held for ever.
* **server adapter**: requests of several clients share one engine and must be answered
  to whom they belong, while engines are replaced and lost and sockets break.
* **debugger, resume loop**: it decides stop by stop whether the user sees it, awaiting
  conditions and watched values, while others edit what it is looking at.
* **debugger, commands**: debuggees begin, end and are killed at any await of a command;
  none may be forgotten, and what is reported must agree with what happened.
* **GUI, browser page**: what they show is fetched with awaits and must be of the stop
  they show; the page edits a table it has a copy of.

`PROJECT.json` lists every hazard found in the code, at its line, with the property that
covers it or the reason why none does.

## 2. The modules

| module | models | promise it is held against |
| --- | --- | --- |
| `RequestLedger` | (abstract) a request number is used once, in order, settled once and for good | |
| `DebugSession` | `session.js`, over the send of a connection | `RequestLedger` |
| `DebugSession_proofs` | theorems about `DebugSession` | |
| `FifoChannel` | (abstract) sends conclude once, in order, none is taken after the close, and the owner is told of that once | |
| `EngineLink` | `engine-connection.js` and the socket transport of `transport.js` | `FifoChannel` |
| `EngineLink_proofs` | theorems about `EngineLink` | |
| `Framing`, `MCFraming` | the readers of byte streams; the streams they are checked on | the texts that were sent |
| `DAPAdapter` | `vscode-dap.js` and the hooks of `StartDAP` | |
| `DAPAdapter_proofs` | theorems about `DAPAdapter` | |
| `ServerAdapter` | `server-adapter.js` with the two sorts of engine connection, `client.js`, the connectors | |
| `ServerAdapter_proofs` | theorems about `ServerAdapter` | |
| `ResumeLoop` | `debugger.js`: resuming commands, breakpoints, conditions, watchpoints | |
| `ResumeLoop_proofs` | theorems about `ResumeLoop` | |
| `Commands` | `debugger.js`: `execute()`, the life of a debuggee, records; `StartBatch`, `StartREPL` | |
| `Commands_proofs` | theorems about `Commands` | |
| `GuiView` | `gui/main.js`, `gui/toolbar.js` over a shared debugger | |
| `GuiView_proofs` | theorems about `GuiView` | |
| `BrowserPage` | `examples/browser/ide.js`, `StartServer`, `Debugger.adopt()` | |
| `BrowserPage_proofs` | theorems about `BrowserPage` | |

How they meet: `DebugSession` assumes of its connection what `EngineLink` establishes
(messages in order, a send that throws once closed, one notice of the close), and
`EngineLink` of its decoder what `Framing` does; `DAPAdapter`, `ServerAdapter`,
`ResumeLoop` and `Commands` assume of their session what `DebugSession` establishes (a
request is settled once, an abort rejects what is in flight, a stop resolves all
waiters); `Commands`, `GuiView` and `BrowserPage` assume of the resume loop that it ends
with a report, or with the connection.  They use those promises instead of the modules
themselves, so that each stays small enough to be checked thoroughly.

### Correspondence

One action is one synchronous run of the code: from being called, or from the promise
it awaited being settled, to the next `await` or return.  `PROJECT.json` ("map") gives
the lines of every definition.

* **DebugSession.**  A call is of one of five kinds (request, continue, step, "continue
  then waitEvent", breakpoint query).  `pc` is the `await` a call is at, `outcome` the
  promise of each request, `pending` and `timers` the two halves of `#pending`,
  `waiters` the one-shot promises.  `Request` takes the number before it sends, so a
  send that throws uses a number up.  The engine answers in order, late or never, with
  success or failure, and reports a stop before or after the answer of its resume.
  `orphans` and `stopSeen` are history.
* **EngineLink.**  `fate` is the promise of each send, `inKernel` the send pending in
  the socket (a second one throws, as the comment in the code says), `reader` the place
  of the read loop.  Messages within a chunk are delivered in one run of the code; they
  are separate actions here (`Deliver`): a handler may send or close in mid-chunk, the
  owner's own close comes between chunks.  That links of the send chain may also run
  between two messages of a chunk is more than the code allows, and does no harm.
* **Framing.**  A run chooses a reader and a stream of texts; `Receive(n)` hands over the
  next n bytes.  One character takes two bytes; JSON is a text in braces; a header has two
  digits instead of eight.  The readers are functions of the decoder's state, as `push()` is.
  Noise in the stream makes a header throw: the engine's link is then closed, the other
  readers keep their state.  Output is looked at without the wide character (the code
  decodes its chunks one by one), and web-socket text is cut between characters.
* **DAPAdapter.**  `out` is everything the client was sent, `arrived` the state events
  the session produced.  A stop is named by the request that caused it.  The engine
  may report a stop before the response.  Timers run after all microtasks
  (`Settling = {}` in `HoldOver`).  `hasty` records whether the client ever resumed
  before it had seen the last stop.  A launch over a listener whose debuggee dies before it connects
  is never answered, as `accept()` has no timeout, nor is an attach whose program is gone
  at its entry stop (`Stranded`); a launch fails in the other cases.  A `disconnect`
  meanwhile ends the debuggee (session "killed").  `configurationDone` on a connection that
  has ended is answered, and then answered again by the error of the `continue` that it
  cannot send, as in the code.
* **ServerAdapter.**  A session is named by the connection it was made for.  `SyncClose`
  distinguishes `EngineConnection`, whose `close()` calls `onclose` before it returns,
  from the connection of `LWSEngineConnector`, whose `onclose` comes later.  The handlers
  use the adapter's session of the moment they run, as the code does.  `promise` is what
  the client's `DebuggerClient` holds, `state` what the adapter does with the request;
  between them messages travel, and are dropped when a socket breaks (`broken`), which the
  client notices (`ClientCloses`) and the connector notices (`DetachClient`) in either order.
  A client whose session was aborted makes no more requests.  The
  session's own timeout is left out: server mode sets none.
* **ResumeLoop.**  One command runs through the loop (`pc`); edits come at any time.
  The engine has lines, a table of breakpoint lines and one variable `x`, which is what
  conditions test and what the watchpoint watches; evaluating it may throw.  One source
  file, one watchpoint, one call frame.  `told` (what the user was last shown of the
  watched value) and `touched` (what was edited since the stop) are history.  A
  watchpoint set before the program runs has no value; its first stop notes one without a
  word, and this value counts as shown.  A watchpoint set while the program runs is looked
  at from the next resumption on, so `WatchIsKept` is about those that were there when the
  program was resumed.
* **Commands.**  The debuggee that line n starts is debuggee n.  `proc` and `link` are the
  truth about processes and connections, `child` and `session` what the debugger knows.
  `pc` says at which `await` of its command a line is.  Many commands only compute text;
  "info" stands for those.  What the resume loop does between two stops is one step.  The front
  ends read line by line; batch mode with `--strict`, `--timeout` and its exit status, the
  terminal with its queue and cleanup.
* **GuiView.**  Console lines are executed one after the other (`#cmdQueue`), buttons at
  once; `Overlaps` says whether the two may have commands in progress at the same time.
  An answer is named by the snapshot number it was asked under and the pause the engine
  was in.  One section of variables stands for three, one reference for all rows.  "judge" is
  where `continue` and `run` may await watches and conditions, after which a stop is reported or
  passed over; for `starti` the arrival of the stack and the report are one run of the code.
* **BrowserPage.**  Several refreshes are at their awaits (`at`) at once, one begun by each stop
  and one by the answer of the query a new page makes (`Query`), which may come after the page
  has heard of a stop; `got` is the stop a refresh read, `mine` its number.  The server executes what the page sends and
  publishes the table; `adopt()` and another client edit it as well.  `SlowSources` says
  whether a source file may take longer than the engine's next message.

Definitions marked "Wrong:" are plausible mistakes in the definition beside them;
`PROJECT.json` ("mutants") names the property each one breaks.  The specifications do
not use them.

## 3. What TLC checks

| run | question | bounds | distinct states |
| --- | --- | --- | --- |
| `session` | bookkeeping of requests, timers, waiters; refinement of `RequestLedger`; requests settle, overlapping steps see the stop | 2 calls of all kinds, 4 request numbers | 43 241 |
| `link` | what is pending on the descriptor is known (one send, nothing after the release, no release missed); refinement of `FifoChannel`; the link comes to its end | 3 messages out, 2 chunks of up to 2 messages in | 1 406 |
| `framing` | what is delivered is what was sent, for eight readers | 6 streams of 3 to 5 texts, every cut, every end, 2 connections | 4 142 |
| `dap` | order and completeness of events, response before its stop for a patient client; requests answered, events delivered | 2 resumes, launch, attach, configurationDone, disconnect | 353 581 |
| `server_sync` | answers come from the right engine and are told truly; one engine; no promise of a client is left behind with an engine that is gone, or waits for ever | 2 clients, 2 requests, 2 engines, 1 broken socket | 668 578 |
| `server_async` | finding 1 | 1 client, 2 requests, 3 engines | |
| `loop` | which stops are passed over, the engine's table, no change of a watchpoint passed over or noted unseen; commands end with the connection | 2 breakpoints on 1 line, 1 watchpoint, continue and until, 1 message on the way | 1 889 273 |
| `commands` | no process is forgotten, records and results agree, exit status, a batch ends | 2 lines of 12 commands, both front ends, 3 ways to reach a debuggee | 170 048 |
| `gui` | what is shown is of the stop that is shown; what is pending is shown in the end; the toolbar tells the truth while commands do not overlap | 2 commands, 1 waiting line, 3 pauses, 2 clicks, 2 displays | 674 494 |
| `gui_overlap` | finding 2 | 3 commands that overlap, 2 pauses, 1 display | |
| `page` | the newest stop is shown, the page never goes back to an older one, the gutter follows the table, no refresh is lost | 2 stops, 2 refreshes, 2 commands, 1 file, 2 scopes | 5 900 464 |
| `page_refresh` | finding 3 | 2 stops, 3 refreshes, 2 files | |

Why the bounds are enough to be interesting: two calls are what it takes for one to
disturb another (a session with more is what the proofs are about); two engines are what it
takes for one to replace another; two breakpoints on one line are what it takes for one
condition to hide another; the bound on messages on the way (`MaxInbox`) lets an edit
follow a resume the engine has not read yet; two lines let a second command meet what the first
left behind, and the debuggee of the first die while the second starts its own; three pauses
let an answer of the first come to a snapshot of the third; two refreshes overlap
in each of the ways there are, that of the query with that of a stop, before or after it, and those
of two stops (a third cannot begin in that run, and is left to the proofs); two displays let the values of the first stay on
view while those of both are fetched; a header of two digits has a digit and a letter.
Request numbers (`MaxSeq`) cover every request the calls of a run can make.

Deadlock is not checked: every instance makes a bounded number of calls and then
rests, and a debuggee that has ended stays so.

### Fairness

* `DebugSession`: continuations, dispatching what has arrived, and due timers: the
  event loop.  Nothing of the engine; so `RequestsSettle` rests on the timeout alone.
* `EngineLink`: links of the send chain, the read loop, and the completion of a
  pending send.  The last holds because the engine reads its socket, or is gone, or
  the socket was shut down, unless the descriptor was closed under it (`fd` in the
  guard), which is part of what `PendingIsKnown` forbids.
* `DAPAdapter`: timers and continuations; a program that is started connects and reaches its
  entry point, or dies; the engine answers or the connection ends.
* `ServerAdapter`: continuations; a message of a web socket arrives or is lost, and then the
  client hears that the socket is closed (of the connector nothing is assumed); a connection
  asked to close does; an engine answers or its connection ends.
* `ResumeLoop`: continuations only.
* `Commands`: continuations, the front end's loop, the `--timeout` timer; the end of a
  process is noticed, and a program that was resumed stops some time or ends.
* `GuiView`: continuations and deliveries; an engine that is stopped answers what it is asked,
  or dies.  Nothing is assumed of a program that runs.
* `Framing` and `BrowserPage` state safety only.

### Findings

Where a run is expected to be violated, the code departs from what its own comments or
documents say; `PROJECT.json` quotes them.

1. `server_async`: the late `onclose` of an engine that was replaced aborts the requests
   of the new one.
2. `gui_overlap`: `dbg.busy` is one flag for all commands; of two in progress the first to end
   clears it for both, and the toolbar offers to continue a program that runs.  In the run a
   `continue` is typed while the toolbar's `starti` awaits its stack; a `frame 0` typed while
   the toolbar's `continue` is awaited does the same.
3. `page_refresh`: a refresh awaits its source file before it takes its number.  If the file of an
   older stop comes after that of a newer one, the source pane goes back to the older stop and
   stays there, beside the location of the newer; and the refresh of the older stop takes the
   higher number, so that the results of the newer one are dropped.  The run `page` therefore
   assumes quick sources.

More is visible in the models without a run of its own:

* `continue()` then `waitEvent('stopped')`, as the comment on `continue()` recommends, can
  miss the stop (`DebugSession`, kind "wait"); the debugger itself subscribes first.
* The hold timer of one resume lets out the stop of the next one, which may overtake its
  response if a client resumes again within 30 ms (`DAPAdapter`; `EventsInOrder` claims the
  order for a client that is not `hasty`).
* `next` over a breakpoint whose condition is false goes on as a plain `continue`, past
  changes of a watched value (`Decide` in `ResumeLoop`); a one-shot breakpoint behind another one on
  its line is not used up (`OnStopped`).
* A connection that ends between a stop and the fetching of its stack makes the command throw, and
  the `exited` record appears only with the next resuming command (`ResumeLoop`, `Commands`).
* A launch over a listener waits for ever for a debuggee that died before it connected
  (`Unreached` in `Commands`, `Stranded` in `DAPAdapter`, "hung" in `GuiView`).
* `configurationDone` on a connection that has ended is answered twice: the response goes out
  before the `continue`, which throws (`Configure` in `DAPAdapter`).
* Outside the models: a `run` while another command's resume is awaited (possible in the
  GUI and in server mode), without a listener, sets the new child before the old resume reaches
  `#terminated()`, which then waits for the new child and clears it; and of two `run`s
  that overlap, the second does not know the process of the first.

## 4. What TLAPS proves

All theorems hold for every value of the constants allowed by the named assumptions.

**DebugSession_proofs**

* `TypeCorrect`: `Spec => []TypeOK`, one step per action, with lemmas on what `Request`
  and the two directions of the link do to the types.
* `Invariance`: `Spec => []IInv`.  The properties are not inductive as they stand.  That
  two calls never hold the same number needs that numbers beyond `#seq` are unsent and
  that no call holds a number beyond `#seq` (`NumbersInOrder`); that a step at its
  second `await` is still subscribed needs that it subscribed before its answer came
  (`StepsListen`).
* From it `PendingCorrect`, `CallsCorrect`: the map of requests holds exactly the
  unsettled ones, callers never share a number, and a call that waits waits for
  something that can still come.
* `Refinement`: a session implements `RequestLedger`.  Each action maps to opening,
  refusing, resolving or rejecting, or to a stutter; `PendingIsOpen` is what makes a
  settled request stay settled.

**EngineLink_proofs**

* `Invariance`, `TypeCorrect`, `PendingCorrect` (`PendingIsKnown`).  The invariant
  says that the flags of the transport mirror what is pending, that the flags of the close
  move together, and that a send is started only when all earlier ones are concluded; the
  last is why at most one is in flight (a cardinality, from `FiniteSetTheorems`).  That a
  closed connection still holding its descriptor has something pending, which will give it
  back, is the safety core of `LinkEnds`.
* `Refinement`: a link implements `FifoChannel`.  Each action maps to taking, concluding or
  failing a send, to closing, to telling the owner of that, or to a stutter.

**ServerAdapter_proofs**

* On any connections: `PromiseInvariance` (`PromisesKept`), which relates what a client knows of
  its promise to what the adapter and the sockets do with the request.
* `TypeCorrect`, `EngineCorrect` (`OneEngine`), `AnswersCorrect` (`SettledByItsEngine`) and
  `NoneIsLost` are under the hypothesis `SyncClose`: the connections call `onclose` before
  `close()` returns, as `EngineConnection` does (`engine-connection.js`).  Without it the first
  three are false, as the run `server_async` shows; the hypothesis is exactly what separates
  the two sorts of connection the repository has.
  The invariant adds that what is in flight is in flight with the engine of now
  (`InFlightHere`), so that whoever ends that engine aborts all of it, and that a
  session's count is that of the requests it took (`CountedOnce`, a cardinality), so that a
  response finds one request at most: its own.
* `NoneIsLost` (`NoPromiseIsLost`) rests on both and is the safety core of `RequestsAnswered`: a promise that waits has its request
  on the way, with an engine that is there and was asked, or its reply due, or its client is
  about to hear that the socket is gone.

**ResumeLoop_proofs**, for any lines, breakpoints and messages on the way

* `TypeCorrect`; `TableCorrect` (`EngineKnowsBreakpoints`): either the engine has the list of
  now, or the last update on the way is that list (`TableFollows`).
* `StopsCorrect` (`StopsRightly`) and `WatchCorrect` (`WatchIsKept`), action properties.  That
  the conditions tested so far were false (`Tested`) is worth something only because the
  program stands still meanwhile, and that needs that there is one request to resume at a
  time (`StandsStill`); `Shown` relates what a watchpoint saw last to what was shown of it, or
  to what its first stop found.
* `ServedCorrect` (`ServedOrLost`): a command awaits a stop only while its request is on the
  way, the program runs or the stop is there, or the connection has ended; an `interrupt` that
  the engine reads before the request cannot use up the stop.

**Commands_proofs**, for any script of the commands, any modes and stack depths

* `Invariance` (`TInv`), `TypeCorrect`, `DebuggeeCorrect` (`OneDebuggee`).  One command is in
  progress at a time (`OneAtATime`), and the await it is at agrees with the child and the
  session there are (`InStep`): a child without a session is being connected to.
* `RInvariance` (`RInv`), `RecordsCorrect` (`RecordsTell`), `StatusCorrect` (`ExitStatus`), which
  look at the whole history of records.  `ReportedInTime` says which records there can be yet,
  `StatusFollows` that the exit code the debugger holds is that of the last `exited` record,
  unless a debuggee was started since; it rests on `TInv`.
* `NoneInVain` (`NoneWaitsInVain`): a command that is connecting waits for the child there is; one
  that waits for the program has a connection, and when that is closed the process has ended,
  so that `#terminated()` has its status at once.  It needs that a connection
  closes by itself only after its process ended, and that every other way to close it also ends
  the session (`EndIsKnown`).

**DAPAdapter_proofs**, for any requests of each kind (`KindsAssumption`: a request has one command)

* `TypeCorrect`, `OrderCorrect` (`EventsInOrder`): every event is sent once, in the order of
  arrival, whatever is held in between; and, for a patient client, after the response of its
  request.  The first needs that no event comes twice (`Reported`) and that held events have
  something to wait for (`Kept`); the second that the hold of a patient client's resume ends
  before the next resume is in flight (`Patient`).  `#resuming` is the number of resumes in
  flight (a cardinality).
* `NoneInVain` (`NoneWaitsInVain`): a request without a response is with a session that starts or
  runs, or is stranded: a launch whose program died before it connected to the listener, or an
  attach whose program is gone at its entry stop, the two cases the code leaves waiting; and
  events are held back only while a resume is in flight or the timer of a hold is set.  `Awaited`
  says the same of each state a request passes through, and is inductive.

**BrowserPage_proofs**, for any files (at least one), lines and bounds, and whether source files are
slow or not, except where said

* `TypeCorrect`, `GutterCorrect` (`GutterIsTrue`): the last table on its way, or if none is the
  page's copy, is the server's (`Followed`), unless a command is yet to be executed; and an
  old copy still names the right breakpoints, for numbers are not used again and a
  breakpoint keeps its line (`Labelled`).
* `RefreshesCorrect` (`NoRefreshIsLost`): the questions in the three queues between page and
  engine are counted, and there is one for each await and none else (`Awaited`); the lemmas on
  how `Hits` changes with `Append`, `Tail` and `\o` carry the proof.
* `NewestCorrect` (`ShownIsNewest`) and its invariant (`NewestInvariance`, `NInv`), under
  `~SlowSources`, as in the run `page`; with slow sources the page may show an older stop's
  source (run `page_refresh`).  Stack requests and answers never overtake each other in the
  three queues (`InLine`), so refreshes are numbered in the order they began (`Turns`), and no
  request is refused while the engine lives (`Answered`).  Once the page has read of every
  stop, whatever the last refresh was told is of the newest one, and its number is the
  highest when it shows its variables (`LastIsFresh`).
* `NeverBackCorrect` (`NeverBack`), an action property, with its invariant (`OrderInvariance`,
  `OInv`): no step takes the page back to an older stop, nor, with quick sources, to the
  source or the variables of one.  What is on its way to the page is in the order it was
  sent, and older than nothing it has shown (`StopsInOrder`); refreshes take their
  numbers in the order of the stops they read (`NumbersInOrder`).  It also holds when the engine dies in between.

**GuiView_proofs**

* `TypeCorrect`, whether commands overlap or not.
* `ViewsCorrect` (`ShownIsCurrent`) and `ToolbarCorrect` (`ToolbarTells`), under `~Overlaps`; with
  overlapping commands even the weaker `NeverOffersRunning` is false (run `gui_overlap`).  One command is in
  progress (`OneCommand`), it waits for one thing, which is on its way (`OneToken`), so the
  pause does not pass while a stop is shown (`PauseHolds`); snapshot numbers only grow, and
  what was asked under the newest was asked after the last resume (`Numbered`), so an answer that
  bears the newest number is of this pause (`Fresh`).
* `PendingCorrect` (`PendingIsAsked`), whether commands overlap or not: the safety core of
  `PendingIsShown`.  While the variables are shown as pending, the question that bears the newest
  number, or its answer, is on its way, and a connection whose engine is gone is about to be
  known as lost.
* The attempt to prove `ShownIsCurrent` corrected it.  It used to say that the values beside the
  displays bear the newest number, which TLC confirmed with one display; but `addWatch`
  leaves the values of the displays there were on view until those for the longer list are
  there (`main.js` 177-183).  The property now says so, and the run has two displays.

Only model-checked, and why:

* every liveness property (`RequestsSettle`, `LinkEnds`, `RequestsAnswered`, `EventsReachTheClient`,
  `CommandEnds`, `BatchEnds`, `PendingIsShown`, `StepSeesTheStop`): the prover has no rules for
  fairness.  What is proved instead is the safety core of most of them: that whatever waits
  has something to wait for (`CallsMatchRequests`, `PendingIsKnown`, `NoPromiseIsLost`, the two
  `NoneWaitsInVain`, `ServedOrLost`, `PendingIsAsked`), so that only fairness is left to TLC;
* `Framing`: its decoders are recursive, which puts them out of the prover's reach, and what
  they compute for every input would need induction over the stream.

## 5. What is not modelled

* The engine, the socket library and the web server are modelled only as the code uses
  them: any order and timing the protocol allows.
* Text: what is printed, source lines, completion, expression formatting, value
  rendering, option parsing, breakpoint locations (`resolveLocation`), the HTTP side of the
  web server (files, mounts).
* Partial writes of the socket (the code ignores the count `send()` resolves with) and
  the address handling of `connect()`.
* `StreamTransport`: a variant of the transport without the bookkeeping that makes
  `SocketTransport` worth a model.
* The child process of `DebuggerServerAdapter.launch()`, which is not killed when the
  connection to it fails.
* Requests a client makes on a web socket that is closed, which only a timeout settles.
* Commands that overlap, except in `GuiView`: the front ends of `Commands` await each command.
* The GUI's drawing and hover values, the `imgui/` prototype, the editor extension stub.

## 6. Plan

Done, in order of importance: the session, the link below it, the two adapters above it, the
debugger's resume loop; then commands and the life of a debuggee with the front ends that
read lines, framing, the GUI's controller, the browser page, and the client's side of the
server adapter.  Then the proofs of section 4: every invariant the runs
check, but for those of `Framing`, the two refinements, the action properties of
`ResumeLoop` and `BrowserPage`, and the safety cores of the liveness properties.  Next:

1. `RecordsTell` and `OneDebuggee` with commands that overlap, as in server mode, if the model
   is extended to them.
2. `GutterIsTrue` and `NoRefreshIsLost` with several pages at once, which the server treats alike.
