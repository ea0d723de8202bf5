-------------------------- MODULE ResumeLoop_proofs --------------------------
(***************************************************************************)
(* Theorems about ResumeLoop, for any program, any number of breakpoints    *)
(* and of messages on the way, and any subset of the resuming commands.     *)
(***************************************************************************)
EXTENDS ResumeLoop, TLAPS, WellFoundedInduction

USE LinesAssumption, BoundsAssumption, CommandsAssumption

-----------------------------------------------------------------------------
(* Sequences of messages.                                                   *)

LEMMA AppendAt ==
  ASSUME NEW S, NEW s \in Seq(S), NEW e \in S
  PROVE  /\ Append(s, e) \in Seq(S)
         /\ DOMAIN s = 1 .. Len(s) /\ Len(s) \in Nat
         /\ DOMAIN Append(s, e) = 1 .. Len(s) + 1
         /\ \A i \in 1 .. Len(s) : Append(s, e)[i] = s[i]
         /\ Append(s, e)[Len(s) + 1] = e
OBVIOUS

LEMMA TailAt ==
  ASSUME NEW S, NEW s \in Seq(S), s # <<>>
  PROVE  /\ Tail(s) \in Seq(S) /\ Head(s) = s[1] /\ Head(s) \in S
         /\ DOMAIN s = 1 .. Len(s) /\ Len(s) \in Nat \ {0}
         /\ DOMAIN Tail(s) = 1 .. Len(s) - 1
         /\ \A i \in 1 .. Len(s) - 1 : Tail(s)[i] = s[i + 1]
OBVIOUS

LEMMA SendType ==
  ASSUME inbox \in Seq(Message), NEW msg \in Message, Send(msg)
  PROVE  inbox' \in Seq(Message)
BY AppendAt DEF Send

\* The messages a command or an edit sends.
LEMMA Messages ==
  /\ [what |-> "pause"] \in Message
  /\ \A S \in SUBSET Lines : [what |-> "table", lines |-> S] \in Message
  /\ \A c \in AllCommands \ {"until"} : [what |-> "resume", cmd |-> c] \in Message
BY DEF Message

LEMMA MessageFields ==
  ASSUME NEW m \in Message
  PROVE  /\ m.what \in {"table", "resume", "pause"}
         /\ m.what = "table" => m.lines \in SUBSET Lines
         /\ m.what = "resume" => m.cmd \in AllCommands \ {"until"}
BY DEF Message

-----------------------------------------------------------------------------
(* Types.                                                                   *)

PointTypes ==
  /\ bps \subseteq Nums /\ nextNum \in 1 .. MaxNum + 1
  /\ line \in [Nums -> Lines] /\ temp \in [Nums -> BOOLEAN] /\ cond \in [Nums -> BOOLEAN]

LoopTypes ==
  /\ pc \in {"idle", "running", "stack", "watch", "judge", "cond", "report"}
  /\ command \in AllCommands \ {"until"} /\ stepping \in BOOLEAN /\ watching \in BOOLEAN
  /\ start \in Lines \cup {Nobody}
  /\ hits \subseteq Nums /\ hold \in BOOLEAN /\ reason \in Reasons
  /\ session \in BOOLEAN /\ up \in BOOLEAN /\ touched \subseteq Nums \cup {0}

SeenTypes == watch \in BOOLEAN /\ last \in Seen /\ told \in Seen

EngineTypes ==
  /\ at \in Lines /\ x \in Values /\ mode \in {"stopped", "continue", "next", "stepIn", "stepOut"}
  /\ stops \in {"none", "breakpoint", "step", "pause"}
  /\ table \subseteq Lines
  /\ inbox \in Seq(Message)

LEMMA Types == TypeOK <=> PointTypes /\ LoopTypes /\ SeenTypes /\ EngineTypes
BY DEF TypeOK, PointTypes, LoopTypes, SeenTypes, EngineTypes

LEMMA TypesNext == PointTypes' /\ LoopTypes' /\ SeenTypes' /\ EngineTypes' => TypeOK'
BY DEF TypeOK, PointTypes, LoopTypes, SeenTypes, EngineTypes

\* A request to resume is sent.
LEMMA ResumeOnceTypes ==
  ASSUME TypeOK, NEW c \in AllCommands \ {"until"}, NEW step \in BOOLEAN, ResumeOnce(c, step)
  PROVE  /\ pc' = "running" /\ command' \in AllCommands \ {"until"}
         /\ stepping' \in BOOLEAN /\ watching' \in BOOLEAN
         /\ \E m \in Message : m.what = "resume" /\ Send(m)
         /\ inbox' \in Seq(Message)
<1>1. Resuming(c, step) \in AllCommands \ {"until"}
  BY DEF Resuming, AllCommands
<1>2. [what |-> "resume", cmd |-> Resuming(c, step)] \in Message
  BY <1>1, Messages
<1>3. \E m \in Message : m.what = "resume" /\ Send(m)
  BY <1>2 DEF ResumeOnce
<1>4. QED
  BY <1>3, SendType DEF ResumeOnce, TypeOK

LEMMA CommandTypes ==
  ASSUME TypeOK, Command \/ \E c \in Commands : Resume(c)
  PROVE  TypeOK'
<1> USE DEF points, seen, loop, judge, engine
<1>0. PointTypes /\ LoopTypes /\ SeenTypes /\ EngineTypes
  BY Types
<1>1. ASSUME NEW c \in Commands, Resume(c) PROVE TypeOK'
  <2>1. ResumeOnce(IF c = "until" THEN "next" ELSE c, c # "continue")
    BY <1>1 DEF Resume
  <2>2. (IF c = "until" THEN "next" ELSE c) \in AllCommands \ {"until"} /\ (c # "continue") \in BOOLEAN
    BY DEF AllCommands
  <2>3. /\ pc' = "running" /\ command' \in AllCommands \ {"until"}
        /\ stepping' \in BOOLEAN /\ watching' \in BOOLEAN /\ inbox' \in Seq(Message)
    BY <2>1, <2>2, ResumeOnceTypes
  <2>4. LoopTypes'
    BY <1>0, <1>1, <2>3 DEF Resume, LoopTypes, EngineTypes
  <2>5. PointTypes' /\ SeenTypes' /\ EngineTypes'
    BY <1>0, <1>1, <2>3 DEF Resume, PointTypes, SeenTypes, EngineTypes
  <2>6. QED
    BY <2>4, <2>5, TypesNext
<1>2. CASE Stopped \/ Stack \/ TestCondition
  <2>1. UNCHANGED <<points, seen, at, x, mode, table, inbox>> /\ (stops' = stops \/ stops' = "none")
    BY <1>2 DEF Stopped, Stack, TestCondition
  <2>2. LoopTypes'
    BY <1>0, <1>2 DEF Stopped, Stack, TestCondition, AnyHolds, Holds, LoopTypes, EngineTypes, PointTypes, Reasons
  <2>3. PointTypes' /\ SeenTypes' /\ EngineTypes'
    BY <1>0, <2>1 DEF PointTypes, SeenTypes, EngineTypes
  <2>4. QED
    BY <2>2, <2>3, TypesNext
<1>3. CASE CheckWatch
  <2>1. last' \in Seen /\ told' \in Seen
    BY <1>0, <1>3 DEF CheckWatch, WatchValue, Found, Evaluates, SeenTypes, EngineTypes, Seen, Values
  <2>2. LoopTypes'
    BY <1>0, <1>3 DEF CheckWatch, LoopTypes, Reasons
  <2>3. PointTypes' /\ SeenTypes' /\ EngineTypes'
    BY <1>0, <1>3, <2>1 DEF CheckWatch, PointTypes, SeenTypes, EngineTypes
  <2>4. QED
    BY <2>2, <2>3, TypesNext
<1>4. ASSUME UNCHANGED <<points, seen, start, reason, session, up, touched, engine>>,
             hits' \subseteq Nums, hold' \in BOOLEAN,
             \/ ResumeOnce(command, stepping) \/ ResumeOnce("continue", stepping) \/ ResumeOnce("next", TRUE)
             \/ /\ pc' \in {"cond", "report"} /\ UNCHANGED <<loop, inbox>>
      PROVE  TypeOK'
  <2>1. /\ pc' \in {"running", "cond", "report"} /\ command' \in AllCommands \ {"until"}
        /\ stepping' \in BOOLEAN /\ watching' \in BOOLEAN /\ inbox' \in Seq(Message)
    BY <1>0, <1>4, ResumeOnceTypes DEF LoopTypes, AllCommands, EngineTypes
  <2>2. LoopTypes'
    BY <1>0, <1>4, <2>1 DEF LoopTypes
  <2>3. PointTypes' /\ SeenTypes' /\ EngineTypes'
    BY <1>0, <1>4, <2>1 DEF PointTypes, SeenTypes, EngineTypes
  <2>4. QED
    BY <2>2, <2>3, TypesNext
<1>5. CASE Judge
  <2>1. At(bps) \subseteq Nums /\ NoneHere \in BOOLEAN
    BY <1>0 DEF At, NoneHere, PointTypes
  <2>2. hits' \subseteq Nums /\ hold' \in BOOLEAN
    BY <1>0, <1>5, <2>1 DEF Judge, LoopTypes
  <2>3. QED
    BY <1>4, <1>5, <2>2 DEF Judge
<1>6. CASE Decide \/ UntilGoesOn
  <2>1. hits' \subseteq Nums /\ hold' \in BOOLEAN
    BY <1>0, <1>6 DEF Decide, UntilGoesOn, LoopTypes
  <2>2. QED
    BY <1>4, <1>6, <2>1 DEF Decide, UntilGoesOn
<1>7. CASE OnStopped \/ Ended
  <2>1. LoopTypes'
    BY <1>0, <1>7 DEF OnStopped, Ended, Returns, LoopTypes, AllCommands, Reasons
  <2>2. bps' \subseteq Nums /\ inbox' \in Seq(Message)
    <3>1. ASSUME NEW n PROVE [what |-> "table", lines |-> {line[m] : m \in bps \ {n}}] \in Message
      BY <1>0, Messages DEF PointTypes
    <3>2. QED
      BY <1>0, <1>7, <3>1, SendType DEF OnStopped, Ended, Drop, Table, PointTypes, EngineTypes
  <2>3. PointTypes' /\ SeenTypes' /\ EngineTypes'
    BY <1>0, <1>7, <2>2 DEF OnStopped, Ended, PointTypes, SeenTypes, EngineTypes
  <2>4. QED
    BY <2>1, <2>3, TypesNext
<1>8. QED
  BY <1>1, <1>2, <1>3, <1>5, <1>6, <1>7 DEF Command

LEMMA EditTypes ==
  ASSUME TypeOK, Edits
  PROVE  TypeOK'
<1> USE DEF points, seen, loop, judge, engine
<1>0. PointTypes /\ LoopTypes /\ SeenTypes /\ EngineTypes
  BY Types
<1>1. ASSUME NEW l \in Lines, NEW once \in BOOLEAN, NEW conditional \in BOOLEAN, AddBreakpoint(l, once, conditional)
      PROVE  TypeOK'
  <2>1. PointTypes'
    BY <1>0, <1>1 DEF AddBreakpoint, PointTypes, Nums
  <2>2. [what |-> "table", lines |-> {line'[n] : n \in bps'}] \in Message
    BY <2>1, Messages DEF PointTypes
  <2>3. inbox' \in Seq(Message)
    BY <1>0, <1>1, <2>2, SendType DEF AddBreakpoint, EngineTypes
  <2>4. LoopTypes' /\ SeenTypes' /\ EngineTypes'
    BY <1>0, <1>1, <2>3 DEF AddBreakpoint, Touch, LoopTypes, SeenTypes, EngineTypes
  <2>5. QED
    BY <2>1, <2>4, TypesNext
<1>2. ASSUME NEW n \in Nums, DeleteBreakpoint(n) PROVE TypeOK'
  <2>1. PointTypes'
    BY <1>0, <1>2 DEF DeleteBreakpoint, PointTypes
  <2>2. Table(bps \ {n}) \in Message
    BY <1>0, Messages DEF Table, PointTypes
  <2>3. inbox' \in Seq(Message)
    BY <1>0, <1>2, <2>2, SendType DEF DeleteBreakpoint, EngineTypes
  <2>4. LoopTypes' /\ SeenTypes' /\ EngineTypes'
    BY <1>0, <1>2, <2>3 DEF DeleteBreakpoint, Touch, LoopTypes, SeenTypes, EngineTypes
  <2>5. QED
    BY <2>1, <2>4, TypesNext
<1>3. ASSUME NEW n \in Nums, Condition(n) PROVE TypeOK'
  <2>1. PointTypes'
    BY <1>0, <1>3 DEF Condition, PointTypes
  <2>2. LoopTypes' /\ SeenTypes' /\ EngineTypes'
    BY <1>0, <1>3 DEF Condition, Touch, LoopTypes, SeenTypes, EngineTypes
  <2>3. QED
    BY <2>1, <2>2, TypesNext
<1>4. CASE Watch
  <2>1. last' \in Seen
    BY <1>0, <1>4 DEF Watch, Evaluates, EngineTypes, Seen, Values
  <2>2. PointTypes' /\ LoopTypes' /\ SeenTypes' /\ EngineTypes'
    BY <1>0, <1>4, <2>1 DEF Watch, Touch, PointTypes, LoopTypes, SeenTypes, EngineTypes
  <2>3. QED
    BY <2>2, TypesNext
<1>5. CASE Interrupt
  <2>1. inbox' \in Seq(Message)
    BY <1>0, <1>5, SendType, Messages DEF Interrupt, EngineTypes
  <2>2. PointTypes' /\ LoopTypes' /\ SeenTypes' /\ EngineTypes'
    BY <1>0, <1>5, <2>1 DEF Interrupt, PointTypes, LoopTypes, SeenTypes, EngineTypes
  <2>3. QED
    BY <2>2, TypesNext
<1>6. QED
  BY <1>1, <1>2, <1>3, <1>4, <1>5 DEF Edits

LEMMA EngineStepTypes ==
  ASSUME TypeOK, Takes \/ Runs \/ Close \/ UNCHANGED vars
  PROVE  TypeOK'
<1> USE DEF points, seen, loop, judge, engine
<1>0. PointTypes /\ LoopTypes /\ SeenTypes /\ EngineTypes
  BY Types
<1>1. CASE Takes
  <2>1. Head(inbox) \in Message /\ inbox' \in Seq(Message)
    BY <1>0, <1>1, TailAt DEF Takes, EngineTypes
  <2>2. EngineTypes'
    BY <1>0, <1>1, <2>1, MessageFields DEF Takes, EngineTypes, AllCommands
  <2>3. PointTypes' /\ LoopTypes' /\ SeenTypes'
    BY <1>0, <1>1 DEF Takes, PointTypes, LoopTypes, SeenTypes
  <2>4. QED
    BY <2>2, <2>3, TypesNext
<1>2. CASE Runs
  <2>1. EngineTypes'
    BY <1>0, <1>2 DEF Runs, EngineTypes
  <2>2. PointTypes' /\ LoopTypes' /\ SeenTypes'
    BY <1>0, <1>2 DEF Runs, PointTypes, LoopTypes, SeenTypes
  <2>3. QED
    BY <2>1, <2>2, TypesNext
<1>3. CASE Close
  <2>1. inbox' \in Seq(Message) /\ UNCHANGED engine
    BY <1>3 DEF Close
  <2>2. EngineTypes'
    BY <1>0, <2>1 DEF EngineTypes
  <2>3. PointTypes' /\ LoopTypes' /\ SeenTypes'
    BY <1>0, <1>3 DEF Close, PointTypes, LoopTypes, SeenTypes
  <2>4. QED
    BY <2>2, <2>3, TypesNext
<1>4. CASE UNCHANGED vars
  BY <1>4 DEF vars, TypeOK
<1>5. QED
  BY <1>1, <1>2, <1>3, <1>4

LEMMA StepTypes == TypeOK /\ [Next]_vars => TypeOK'
BY CommandTypes, EditTypes, EngineStepTypes DEF Next

-----------------------------------------------------------------------------
(* The engine's table.                                                      *)

Now == {line[n] : n \in bps}

\* Messages that are not about the table, and steps that send nothing.
LEMMA OtherSent ==
  ASSUME TypeOK, TableFollows, UNCHANGED <<bps, line, table>>, up' => up,
         inbox' = inbox \/ ~(up') \/ \E m \in Message : m.what # "table" /\ Send(m)
  PROVE  TableFollows'
<1> SUFFICES ASSUME up' PROVE TableFollows'
  BY DEF TableFollows
<1>1. inbox \in Seq(Message) /\ up
  BY DEF TypeOK
<1>2. CASE inbox' = inbox
  BY <1>1, <1>2 DEF TableFollows
<1>3. ASSUME NEW m \in Message, m.what # "table", Send(m) PROVE TableFollows'
  <2>1. /\ DOMAIN inbox = 1 .. Len(inbox) /\ Len(inbox) \in Nat
        /\ DOMAIN inbox' = 1 .. Len(inbox) + 1
        /\ \A i \in 1 .. Len(inbox) : inbox'[i] = inbox[i]
        /\ inbox'[Len(inbox) + 1] = m
    BY <1>1, <1>3, AppendAt DEF Send
  <2>2. Now' = Now /\ table' = table
    BY DEF Now
  <2>3. CASE table = Now /\ \A i \in DOMAIN inbox : inbox[i].what # "table"
    BY <1>3, <2>1, <2>2, <2>3 DEF TableFollows, Now
  <2>4. ASSUME NEW i \in DOMAIN inbox, inbox[i].what = "table", inbox[i].lines = Now,
               \A j \in DOMAIN inbox : j > i => inbox[j].what # "table"
        PROVE  TableFollows'
    <3>1. /\ i \in DOMAIN inbox' /\ inbox'[i].what = "table" /\ inbox'[i].lines = Now'
          /\ \A j \in DOMAIN inbox' : j > i => inbox'[j].what # "table"
      BY <1>3, <2>1, <2>2, <2>4
    <3>2. QED
      BY <3>1 DEF TableFollows, Now
  <2>5. QED
    BY <1>1, <2>3, <2>4 DEF TableFollows, Now
<1>4. QED
  BY <1>2, <1>3

\* The list of now is sent.
LEMMA TableSent ==
  ASSUME TypeOK, up' = up, NEW m \in Message, Send(m), m.what = "table", m.lines = Now'
  PROVE  TableFollows'
<1> SUFFICES ASSUME up' PROVE TableFollows'
  BY DEF TableFollows
<1>1. inbox \in Seq(Message) /\ up
  BY DEF TypeOK
<1>2. /\ Len(inbox) \in Nat
      /\ DOMAIN inbox' = 1 .. Len(inbox) + 1
      /\ inbox'[Len(inbox) + 1] = m
  BY <1>1, AppendAt DEF Send
<1>3. /\ Len(inbox) + 1 \in DOMAIN inbox'
      /\ \A j \in DOMAIN inbox' : ~(j > Len(inbox) + 1)
  BY <1>2
<1>4. QED
  BY <1>2, <1>3 DEF TableFollows, Now

LEMMA TakesKeepsTable ==
  ASSUME TypeOK, TableFollows, Takes
  PROVE  TableFollows'
<1>1. /\ up /\ inbox \in Seq(Message) /\ inbox # <<>> /\ inbox' = Tail(inbox)
      /\ UNCHANGED <<bps, line, up>>
  BY DEF Takes, TypeOK, points
<1>2. /\ DOMAIN inbox = 1 .. Len(inbox) /\ Len(inbox) \in Nat \ {0}
      /\ DOMAIN inbox' = 1 .. Len(inbox) - 1
      /\ \A i \in 1 .. Len(inbox) - 1 : inbox'[i] = inbox[i + 1]
      /\ Head(inbox) = inbox[1]
  BY <1>1, TailAt
<1>3. /\ Head(inbox).what = "table" => table' = Head(inbox).lines
      /\ Head(inbox).what # "table" => table' = table
  BY DEF Takes
<1>4. Now' = Now
  BY <1>1 DEF Now
<1>5. CASE table = Now /\ \A i \in DOMAIN inbox : inbox[i].what # "table"
  <2>1. \A i \in DOMAIN inbox' : inbox'[i].what # "table"
    BY <1>2, <1>5
  <2>2. table' = table
    BY <1>2, <1>3, <1>5
  <2>3. QED
    BY <1>4, <1>5, <2>1, <2>2 DEF TableFollows, Now
<1>6. ASSUME NEW i \in DOMAIN inbox, inbox[i].what = "table", inbox[i].lines = Now,
             \A j \in DOMAIN inbox : j > i => inbox[j].what # "table"
      PROVE  TableFollows'
  <2>1. CASE i = 1
    <3>1. table' = Now'
      BY <1>2, <1>3, <1>4, <1>6, <2>1
    <3>2. \A j \in DOMAIN inbox' : inbox'[j].what # "table"
      BY <1>2, <1>6, <2>1
    <3>3. QED
      BY <3>1, <3>2 DEF TableFollows, Now
  <2>2. CASE i # 1
    <3>1. PICK k \in DOMAIN inbox' : k = i - 1
      BY <1>2, <2>2
    <3>2. inbox'[k] = inbox[i]
      BY <1>2, <3>1
    <3>3. \A j \in DOMAIN inbox' : j > k => inbox'[j].what # "table"
      BY <1>2, <1>6, <3>1
    <3>4. QED
      BY <1>4, <1>6, <3>2, <3>3 DEF TableFollows, Now
  <2>3. QED
    BY <2>1, <2>2
<1>7. QED
  BY <1>1, <1>5, <1>6 DEF TableFollows, Now

\* What a resuming command sends is not about the table, but when a one-shot
\* breakpoint goes.
LEMMA StepKeepsTable == TypeOK /\ TableFollows /\ [Next]_vars => TableFollows'
<1> SUFFICES ASSUME TypeOK, TableFollows, [Next]_vars PROVE TableFollows'
  OBVIOUS
<1> USE DEF points, seen, loop, judge, engine
<1>1. ASSUME NEW c \in AllCommands \ {"until"}, NEW step \in BOOLEAN, ResumeOnce(c, step)
      PROVE  \E m \in Message : m.what # "table" /\ Send(m)
  BY <1>1, ResumeOnceTypes
<1>2. ASSUME NEW c \in Commands, Resume(c) PROVE TableFollows'
  <2>1. (IF c = "until" THEN "next" ELSE c) \in AllCommands \ {"until"} /\ (c # "continue") \in BOOLEAN
    BY DEF AllCommands
  <2>2. ResumeOnce(IF c = "until" THEN "next" ELSE c, c # "continue")
    BY <1>2 DEF Resume
  <2>3. QED
    BY <1>1, <1>2, <2>1, <2>2, OtherSent DEF Resume
<1>3. CASE Stopped \/ Stack \/ CheckWatch \/ TestCondition \/ Ended
  BY <1>3, OtherSent DEF Stopped, Stack, CheckWatch, TestCondition, Ended
<1>4. CASE Judge \/ Decide \/ UntilGoesOn
  <2>1. /\ UNCHANGED <<bps, line, table, up>>
        /\ inbox' = inbox \/ ResumeOnce(command, stepping) \/ ResumeOnce("continue", stepping) \/ ResumeOnce("next", TRUE)
    BY <1>4 DEF Judge, Decide, UntilGoesOn
  <2>2. command \in AllCommands \ {"until"} /\ stepping \in BOOLEAN /\ {"continue", "next"} \subseteq AllCommands \ {"until"}
    BY DEF TypeOK, AllCommands
  <2>3. QED
    BY <1>1, <2>1, <2>2, OtherSent
<1>5. CASE OnStopped
  <2>1. CASE UNCHANGED <<bps, inbox>>
    BY <1>5, <2>1, OtherSent DEF OnStopped
  <2>2. ASSUME NEW n, Drop(n) PROVE TableFollows'
    <3>1. bps' = bps \ {n} /\ line' = line /\ up' = up /\ Send(Table(bps \ {n}))
      BY <1>5, <2>2 DEF OnStopped, Drop
    <3>2. Table(bps \ {n}).what = "table" /\ Table(bps \ {n}).lines = Now'
      BY <3>1 DEF Table, Now
    <3>3. Table(bps \ {n}) \in Message
      BY Messages DEF Table, TypeOK
    <3>4. QED
      BY <3>1, <3>2, <3>3, TableSent
  <2>3. QED
    BY <1>5, <2>1, <2>2 DEF OnStopped
<1>6. ASSUME NEW l \in Lines, NEW once \in BOOLEAN, NEW conditional \in BOOLEAN, AddBreakpoint(l, once, conditional)
      PROVE  TableFollows'
  <2>1. TypeOK'
    BY <1>6, EditTypes DEF Edits
  <2>2. PICK m : m = [what |-> "table", lines |-> Now']
    OBVIOUS
  <2>3. m \in Message
    BY <2>1, <2>2, Messages DEF TypeOK, Now
  <2>4. Send(m) /\ up' = up
    BY <1>6, <2>2 DEF AddBreakpoint, Now
  <2>5. QED
    BY <2>2, <2>3, <2>4, TableSent
<1>7. ASSUME NEW n \in Nums, DeleteBreakpoint(n) PROVE TableFollows'
  <2>1. bps' = bps \ {n} /\ line' = line /\ up' = up /\ Send(Table(bps \ {n}))
    BY <1>7 DEF DeleteBreakpoint
  <2>2. Table(bps \ {n}).what = "table" /\ Table(bps \ {n}).lines = Now'
    BY <2>1 DEF Table, Now
  <2>3. Table(bps \ {n}) \in Message
    BY Messages DEF Table, TypeOK
  <2>4. QED
    BY <2>1, <2>2, <2>3, TableSent
<1>8. ASSUME NEW n \in Nums, Condition(n) PROVE TableFollows'
  BY <1>8, OtherSent DEF Condition
<1>9. CASE Watch
  BY <1>9, OtherSent DEF Watch
<1>10. CASE Interrupt
  BY <1>10, OtherSent, Messages DEF Interrupt
<1>11. CASE Close
  BY <1>11, OtherSent DEF Close
<1>12. CASE Takes
  BY <1>12, TakesKeepsTable
<1>13. CASE Runs \/ UNCHANGED vars
  BY <1>13, OtherSent DEF Runs, vars
<1>14. QED
  BY <1>2, <1>3, <1>4, <1>5, <1>6, <1>7, <1>8, <1>9, <1>10, <1>11, <1>12, <1>13 DEF Next, Command, Edits

-----------------------------------------------------------------------------
(* The program stands still while a stop is looked at.                      *)

\* Neither the engine nor what is on the way to it changes.
LEMMA StillSame ==
  ASSUME StandsStill, Sent' = Sent, UNCHANGED <<mode, stops>>, up' => up, pc' # "running" => pc # "running"
  PROVE  StandsStill'
BY DEF StandsStill

LEMMA OtherKeepsSent ==
  ASSUME TypeOK, up' = up, NEW m \in Message, Send(m), m.what # "resume"
  PROVE  Sent' = Sent
<1>1. inbox \in Seq(Message)
  BY DEF TypeOK
<1>2. CASE up
  <2>1. /\ DOMAIN inbox = 1 .. Len(inbox) /\ Len(inbox) \in Nat
        /\ DOMAIN inbox' = 1 .. Len(inbox) + 1
        /\ \A i \in 1 .. Len(inbox) : inbox'[i] = inbox[i]
        /\ inbox'[Len(inbox) + 1] = m
    BY <1>1, <1>2, AppendAt DEF Send
  <2>2. \A i \in DOMAIN inbox' : i \in DOMAIN inbox \/ i = Len(inbox) + 1
    BY <2>1
  <2>3. QED
    BY <2>1, <2>2 DEF Sent
<1>3. CASE ~up
  BY <1>3 DEF Send, Sent
<1>4. QED
  BY <1>2, <1>3

LEMMA EditsKeepSent ==
  ASSUME TypeOK, Edits \/ OnStopped
  PROVE  Sent' = Sent /\ up' = up
<1>1. ASSUME inbox' = inbox PROVE Sent' = Sent
  BY <1>1 DEF Sent
<1>2. ASSUME NEW S \in SUBSET Lines, Send([what |-> "table", lines |-> S]), up' = up PROVE Sent' = Sent
  BY <1>2, Messages, OtherKeepsSent
<1>3. \A n : {line[m] : m \in bps \ {n}} \in SUBSET Lines
  BY DEF TypeOK
<1>4. ASSUME NEW l \in Lines, NEW once \in BOOLEAN, NEW conditional \in BOOLEAN, AddBreakpoint(l, once, conditional)
      PROVE  Sent' = Sent /\ up' = up
  <2>1. TypeOK'
    BY <1>4, EditTypes DEF Edits
  <2>2. PICK S \in SUBSET Lines : S = {line'[n] : n \in bps'}
    BY <2>1 DEF TypeOK
  <2>3. Send([what |-> "table", lines |-> S]) /\ up' = up
    BY <1>4, <2>2 DEF AddBreakpoint
  <2>4. QED
    BY <1>2, <2>3
<1>5. ASSUME NEW n \in Nums, DeleteBreakpoint(n) \/ Condition(n) PROVE Sent' = Sent /\ up' = up
  BY <1>1, <1>2, <1>3, <1>5 DEF DeleteBreakpoint, Condition, Table
<1>6. CASE Watch
  BY <1>1, <1>6 DEF Watch
<1>7. CASE Interrupt
  BY <1>7, Messages, OtherKeepsSent DEF Interrupt
<1>8. CASE OnStopped
  BY <1>1, <1>2, <1>3, <1>8 DEF OnStopped, Drop, Table
<1>9. QED
  BY <1>4, <1>5, <1>6, <1>7, <1>8 DEF Edits

\* A command resumes the program only when that stands still.
LEMMA ResumeOnceKeepsStill ==
  ASSUME TypeOK, StandsStill, pc # "running", UNCHANGED <<up, mode, stops>>,
         NEW c \in AllCommands \ {"until"}, NEW step \in BOOLEAN, ResumeOnce(c, step)
  PROVE  StandsStill'
<1> SUFFICES ASSUME up' PROVE StandsStill'
  BY DEF StandsStill
<1>1. up /\ inbox \in Seq(Message) /\ pc' = "running"
  BY DEF TypeOK, ResumeOnce
<1>2. PICK m \in Message : m.what = "resume" /\ Send(m)
  BY ResumeOnceTypes
<1>3. /\ DOMAIN inbox = 1 .. Len(inbox) /\ Len(inbox) \in Nat
      /\ DOMAIN inbox' = 1 .. Len(inbox) + 1
      /\ \A i \in 1 .. Len(inbox) : inbox'[i] = inbox[i]
  BY <1>1, <1>2, AppendAt DEF Send
<1>4. Sent = {} /\ mode = "stopped" /\ stops = "none"
  BY <1>1 DEF StandsStill
<1>5. \A i \in Sent' : i = Len(inbox) + 1
  BY <1>3, <1>4 DEF Sent
<1>6. QED
  BY <1>1, <1>4, <1>5 DEF StandsStill

LEMMA TakesKeepsStill ==
  ASSUME TypeOK, StandsStill, Takes
  PROVE  StandsStill'
<1>1. /\ up /\ inbox \in Seq(Message) /\ inbox # <<>> /\ inbox' = Tail(inbox) /\ UNCHANGED <<pc, up>>
  BY DEF Takes, TypeOK
<1>2. /\ DOMAIN inbox = 1 .. Len(inbox) /\ Len(inbox) \in Nat \ {0}
      /\ DOMAIN inbox' = 1 .. Len(inbox) - 1
      /\ \A i \in 1 .. Len(inbox) - 1 : inbox'[i] = inbox[i + 1]
      /\ Head(inbox) = inbox[1]
  BY <1>1, TailAt
<1>3. \A i \in Sent' : i \in Nat /\ i + 1 \in Sent /\ i + 1 # 1
  BY <1>2 DEF Sent
<1>4. \A i, j \in Sent' : i = j
  BY <1>1, <1>3 DEF StandsStill
<1>5. Sent = {} => Sent' = {}
  BY <1>3
<1>6. CASE Head(inbox).what = "resume"
  <2>1. 1 \in Sent
    BY <1>2, <1>6 DEF Sent
  <2>2. \A i \in Sent : i = 1
    BY <1>1, <2>1 DEF StandsStill
  <2>3. Sent' = {}
    BY <1>3, <2>2
  <2>4. pc = "running" /\ mode = "stopped" /\ stops = "none" /\ stops' = stops
    BY <1>1, <1>6, <2>1 DEF StandsStill, Takes
  <2>5. QED
    BY <1>1, <2>3, <2>4 DEF StandsStill
<1>7. CASE Head(inbox).what # "resume" /\ UNCHANGED <<mode, stops>>
  BY <1>1, <1>4, <1>5, <1>7 DEF StandsStill
<1>8. CASE mode # "stopped" /\ mode' = "stopped" /\ stops' = "pause"
  BY <1>1, <1>4, <1>5, <1>8 DEF StandsStill
<1>9. QED
  BY <1>6, <1>7, <1>8 DEF Takes

LEMMA StepKeepsStill == TypeOK /\ StandsStill /\ [Next]_vars => StandsStill'
<1> SUFFICES ASSUME TypeOK, StandsStill, [Next]_vars PROVE StandsStill'
  OBVIOUS
<1> USE DEF points, seen, loop, judge, engine
<1>1. ASSUME NEW c \in Commands, Resume(c) PROVE StandsStill'
  <2>1. (IF c = "until" THEN "next" ELSE c) \in AllCommands \ {"until"} /\ (c # "continue") \in BOOLEAN
    BY DEF AllCommands
  <2>2. /\ ResumeOnce(IF c = "until" THEN "next" ELSE c, c # "continue")
        /\ pc = "idle" /\ UNCHANGED <<up, mode, stops>>
    BY <1>1 DEF Resume
  <2>3. QED
    BY <2>1, <2>2, ResumeOnceKeepsStill
<1>2. CASE Stack \/ CheckWatch \/ TestCondition \/ Ended
  <2>1. inbox' = inbox /\ UNCHANGED <<mode, stops, up>> /\ (pc' # "running" => pc # "running" \/ ~up)
    BY <1>2 DEF Stack, CheckWatch, TestCondition, Ended, Closed
  <2>2. Sent' = Sent
    BY <2>1 DEF Sent
  <2>3. QED
    BY <2>1, <2>2 DEF StandsStill
<1>3. CASE Stopped
  <2>1. inbox' = inbox /\ UNCHANGED <<mode, up>> /\ stops' = "none" /\ pc' = "stack" /\ stops # "none"
    BY <1>3 DEF Stopped
  <2>2. Sent' = Sent
    BY <2>1 DEF Sent
  <2>3. QED
    BY <2>1, <2>2 DEF StandsStill
<1>4. CASE Judge \/ Decide \/ UntilGoesOn
  <2>1. /\ UNCHANGED <<mode, stops, up>> /\ pc # "running"
        /\ \/ inbox' = inbox /\ pc' # "running"
           \/ ResumeOnce(command, stepping) \/ ResumeOnce("continue", stepping) \/ ResumeOnce("next", TRUE)
    BY <1>4 DEF Judge, Decide, UntilGoesOn
  <2>2. command \in AllCommands \ {"until"} /\ stepping \in BOOLEAN /\ {"continue", "next"} \subseteq AllCommands \ {"until"}
    BY DEF TypeOK, AllCommands
  <2>3. inbox' = inbox => Sent' = Sent
    BY DEF Sent
  <2>4. QED
    BY <2>1, <2>2, <2>3, ResumeOnceKeepsStill, StillSame
<1>5. CASE OnStopped
  BY <1>5, EditsKeepSent, StillSame DEF OnStopped, Returns
<1>6. CASE Edits
  <2>1. UNCHANGED <<pc, mode, stops>>
    BY <1>6 DEF Edits, AddBreakpoint, DeleteBreakpoint, Condition, Watch, Interrupt
  <2>2. QED
    BY <1>6, <2>1, EditsKeepSent, StillSame
<1>7. CASE Close
  BY <1>7 DEF Close, StandsStill
<1>8. CASE Takes
  BY <1>8, TakesKeepsStill
<1>9. CASE Runs
  <2>1. inbox' = inbox /\ UNCHANGED <<pc, up>> /\ up /\ mode # "stopped"
        /\ ((mode' = mode /\ stops' = stops) \/ mode' = "stopped")
    BY <1>9 DEF Runs
  <2>2. Sent' = Sent
    BY <2>1 DEF Sent
  <2>3. QED
    BY <2>1, <2>2 DEF StandsStill
<1>10. CASE UNCHANGED vars
  BY <1>10 DEF vars, StandsStill, Sent
<1>11. QED
  BY <1>1, <1>2, <1>3, <1>4, <1>5, <1>6, <1>7, <1>8, <1>9, <1>10 DEF Next, Command

-----------------------------------------------------------------------------
(* Conditions and the watchpoint.                                           *)

\* Breakpoints have a first: the numbers are well ordered.
LEMMA FirstIsMember ==
  ASSUME NEW S, S \subseteq Nat, S # {}
  PROVE  First(S) \in S
<1>1. IsWellFoundedOn(OpToRel(<, Nat), Nat)
  BY NatLessThanWellFounded
<1>2. PICK n \in S : \A m \in S : ~(<<m, n>> \in OpToRel(<, Nat))
  BY <1>1, WFMin
<1>3. ASSUME NEW m \in S PROVE ~(m < n)
  <2>1. m \in Nat /\ n \in Nat
    OBVIOUS
  <2>2. m < n => <<m, n>> \in OpToRel(<, Nat)
    BY <2>1, Zenon DEF OpToRel
  <2>3. QED
    BY <1>2, <2>2, Zenon
<1>4. \A m \in S : n <= m
  BY <1>3
<1>5. QED
  BY <1>4 DEF First

\* Nothing the conditions depend on changes.
LEMMA TestedSame ==
  ASSUME Tested, UNCHANGED <<pc, reason, hold, hits, bps, line, cond, at, x, touched>>, up' => up
  PROVE  Tested'
BY DEF Tested, At

LEMMA TestConditionKeeps ==
  ASSUME TypeOK, Tested, TestCondition
  PROVE  Tested'
<1> USE DEF points, seen, engine
<1>1. /\ pc = "cond" /\ hits # {} /\ hits \subseteq Nums /\ First(hits) \in hits
      /\ hold' = (hold \/ Holds(First(hits))) /\ hits' = hits \ {First(hits)}
      /\ UNCHANGED <<pc, reason, bps, line, cond, at, x, touched, up>>
  <2>1. hits \subseteq Nat
    BY DEF TypeOK, Nums
  <2>2. QED
    BY <2>1, FirstIsMember DEF TestCondition, AnyHolds, TypeOK
<1>2. At(bps)' = At(bps) /\ At(bps) \subseteq bps /\ bps \subseteq Nums
  BY <1>1 DEF At, TypeOK
<1>3. Holds(First(hits)) <=> ~cond[First(hits)] \/ x # "false" \/ ~up
  BY DEF Holds
<1>4. ~hold' => \A n \in (At(bps) \ touched) \ hits' : cond[n] /\ x = "false"
  BY <1>1, <1>3 DEF Tested
<1>5. touched = {} => hits' \subseteq At(bps)
  BY <1>1 DEF Tested
<1>6. (touched = {} /\ hold' /\ up /\ At(bps) # {}) => \E n \in At(bps) : ~cond[n] \/ x # "false"
  <2> SUFFICES ASSUME touched = {}, hold', up, At(bps) # {} PROVE \E n \in At(bps) : ~cond[n] \/ x # "false"
    OBVIOUS
  <2>1. CASE hold
    BY <1>1, <2>1 DEF Tested
  <2>2. CASE Holds(First(hits))
    BY <1>1, <1>3, <2>2 DEF Tested
  <2>3. QED
    BY <1>1, <2>1, <2>2
<1>7. reason = "breakpoint"
  BY <1>1 DEF Tested
<1>8. QED
  BY <1>1, <1>2, <1>4, <1>5, <1>6, <1>7 DEF Tested

\* An edit is remembered: what was tested is no longer claimed of it.
LEMMA EditsKeepTested ==
  ASSUME TypeOK, Tested, Edits
  PROVE  Tested'
<1> USE DEF points, seen, loop, judge, engine
<1>1. UNCHANGED <<pc, reason, hold, hits, at, x, up>>
  BY DEF Edits, AddBreakpoint, DeleteBreakpoint, Condition, Watch, Interrupt
<1> SUFFICES ASSUME pc = "cond" PROVE Tested'
  BY <1>1 DEF Tested
<1>2. ASSUME NEW t, touched' = touched \cup {t},
             \A n \in At(bps)' \ {t} : n \in At(bps) /\ cond'[n] = cond[n]
      PROVE  Tested'
  <2>1. t \in touched' /\ touched' # {}
    BY <1>2
  <2>2. \A n \in (At(bps)' \ touched') \ hits : n \in (At(bps) \ touched) \ hits /\ cond'[n] = cond[n]
    BY <1>2
  <2>3. QED
    BY <1>1, <2>1, <2>2 DEF Tested
<1>3. ASSUME NEW l \in Lines, NEW once \in BOOLEAN, NEW conditional \in BOOLEAN, AddBreakpoint(l, once, conditional)
      PROVE  Tested'
  <2>1. /\ touched' = touched \cup {nextNum} /\ bps' = bps \cup {nextNum} /\ at' = at
        /\ \A n \in bps \ {nextNum} : line'[n] = line[n] /\ cond'[n] = cond[n]
    BY <1>3 DEF AddBreakpoint, Touch, TypeOK
  <2>2. QED
    BY <1>2, <2>1 DEF At
<1>4. ASSUME NEW n \in Nums, DeleteBreakpoint(n) PROVE Tested'
  <2>1. touched' = touched \cup {n} /\ bps' = bps \ {n} /\ UNCHANGED <<at, line, cond>>
    BY <1>4 DEF DeleteBreakpoint, Touch
  <2>2. QED
    BY <1>2, <2>1 DEF At
<1>5. ASSUME NEW n \in Nums, Condition(n) PROVE Tested'
  <2>1. /\ touched' = touched \cup {n} /\ UNCHANGED <<bps, at, line>>
        /\ \A m \in bps \ {n} : cond'[m] = cond[m]
    BY <1>5 DEF Condition, Touch, TypeOK
  <2>2. QED
    BY <1>2, <2>1 DEF At
<1>6. CASE Watch
  <2>1. touched' = touched \cup {0} /\ UNCHANGED <<bps, at, line, cond>>
    BY <1>6 DEF Watch, Touch
  <2>2. QED
    BY <1>2, <2>1 DEF At
<1>7. CASE Interrupt
  BY <1>7, TestedSame DEF Interrupt
<1>8. QED
  BY <1>3, <1>4, <1>5, <1>6, <1>7 DEF Edits

LEMMA StepKeepsTested == TypeOK /\ StandsStill /\ Tested /\ [Next]_vars => Tested'
<1> SUFFICES ASSUME TypeOK, StandsStill, Tested, [Next]_vars PROVE Tested'
  OBVIOUS
<1> USE DEF points, seen, loop, judge, engine
<1>1. CASE (\E c \in Commands : Resume(c)) \/ Stopped \/ Stack \/ CheckWatch \/ Decide \/ UntilGoesOn \/ OnStopped \/ Ended
  <2>1. pc' # "cond"
    BY <1>1 DEF Resume, ResumeOnce, Stopped, Stack, CheckWatch, Decide, UntilGoesOn, OnStopped, Ended, Returns
  <2>2. QED
    BY <2>1 DEF Tested
<1>2. CASE Judge
  <2>1. CASE /\ reason = "breakpoint" /\ hits' = At(bps) /\ hold' = NoneHere
    <3>1. UNCHANGED <<bps, line, cond, at, x, reason, touched>>
      BY <1>2 DEF Judge
    <3>2. At(bps)' = At(bps)
      BY <3>1 DEF At
    <3>3. QED
      BY <2>1, <3>1, <3>2 DEF Tested, NoneHere
  <2>2. CASE pc' # "cond"
    BY <2>2 DEF Tested
  <2>3. QED
    BY <1>2, <2>1, <2>2 DEF Judge, ResumeOnce
<1>3. CASE TestCondition
  BY <1>3, TestConditionKeeps
<1>4. CASE Edits
  BY <1>4, EditsKeepTested
<1>5. CASE Close \/ Takes \/ UNCHANGED vars
  BY <1>5, TestedSame DEF Close, Takes, vars
<1>6. CASE Runs
  <2>1. pc' = pc /\ pc = "running"
    BY <1>6 DEF Runs, StandsStill
  <2>2. QED
    BY <2>1 DEF Tested
<1>7. QED
  BY <1>1, <1>2, <1>3, <1>4, <1>5, <1>6 DEF Next, Command

LEMMA StepKeepsShown == TypeOK /\ StandsStill /\ Shown /\ [Next]_vars => Shown'
<1> SUFFICES ASSUME TypeOK, StandsStill, Shown, [Next]_vars PROVE Shown'
  OBVIOUS
<1> USE DEF points, seen, loop, judge, engine
<1>1. CASE (\E c \in Commands : Resume(c)) \/ Stopped \/ UntilGoesOn \/ Ended
  <2>1. UNCHANGED <<watch, last, told>> /\ pc' \notin {"judge", "cond"} /\ ~(pc = "report" /\ reason = "watchpoint")
    BY <1>1 DEF Resume, ResumeOnce, Stopped, UntilGoesOn, NotPast, Ended, Returns
  <2>2. QED
    BY <2>1 DEF Shown
<1>2. CASE Stack
  <2>1. UNCHANGED <<watch, last, told, watching>> /\ (pc' = "judge" => ~watching) /\ pc' # "cond" /\ pc = "stack"
    BY <1>2 DEF Stack
  <2>2. QED
    BY <2>1 DEF Shown
<1>3. CASE CheckWatch
  <2>1. UNCHANGED <<watch, watching, x, up>> /\ pc = "watch" /\ told = last
    BY <1>3 DEF CheckWatch, Shown
  <2>2. CASE Changed /\ reason' = "watchpoint" /\ pc' = "report"
    BY <2>2 DEF Shown
  <2>3. CASE ~Changed /\ pc' = "judge"
    <3>1. last' = told' /\ (watch => last' = WatchValue)
      <4>1. CASE FirstLook
        BY <1>3, <4>1 DEF CheckWatch, FirstLook, Found, WatchValue
      <4>2. CASE ~FirstLook
        BY <1>3, <2>1, <2>3, <4>2 DEF CheckWatch, Changed, FirstLook
      <4>3. QED
        BY <4>1, <4>2
    <3>2. (watch /\ Evaluates) => last' = x
      BY <3>1 DEF WatchValue
    <3>3. Evaluates' = Evaluates
      BY <2>1 DEF Evaluates
    <3>4. QED
      BY <2>1, <2>3, <3>1, <3>2, <3>3 DEF Shown
  <2>4. QED
    BY <1>3, <2>2, <2>3 DEF CheckWatch
<1>4. CASE Judge \/ TestCondition \/ Decide
  <2>1. UNCHANGED <<watch, last, told, x, up, reason, touched>> /\ pc \in {"judge", "cond"}
        /\ (pc' \in {"judge", "cond"} => watching' = watching)
    BY <1>4 DEF Judge, TestCondition, Decide, ResumeOnce
  <2>2. Evaluates' = Evaluates
    BY <2>1 DEF Evaluates
  <2>3. QED
    BY <2>1, <2>2 DEF Shown
<1>5. CASE OnStopped
  <2>1. /\ UNCHANGED <<watch, last>> /\ pc = "report" /\ pc' = "idle"
        /\ told' = IF reason = "watchpoint" THEN last ELSE told
    BY <1>5 DEF OnStopped, Returns
  <2>2. QED
    BY <2>1 DEF Shown
<1>6. CASE Watch
  <2>1. UNCHANGED <<pc, reason, watching>> /\ told' = last'
        /\ (pc \in {"judge", "cond"} => 0 \in touched') /\ watch' = ~watch
    BY <1>6 DEF Watch, Touch
  <2>2. QED
    BY <2>1 DEF Shown
<1>7. CASE Edits /\ ~Watch
  <2>1. UNCHANGED <<watch, last, told, pc, reason, watching, x, up>>
        /\ (pc \in {"judge", "cond"} => touched \subseteq touched')
    BY <1>7 DEF Edits, AddBreakpoint, DeleteBreakpoint, Condition, Interrupt, Touch
  <2>2. Evaluates' = Evaluates
    BY <2>1 DEF Evaluates
  <2>3. QED
    BY <2>1, <2>2 DEF Shown
<1>8. CASE Close \/ Takes \/ UNCHANGED vars
  <2>1. UNCHANGED <<watch, last, told, pc, reason, watching, x, touched>> /\ (up' => up)
    BY <1>8 DEF Close, Takes, vars
  <2>2. Evaluates' => Evaluates
    BY <2>1 DEF Evaluates
  <2>3. QED
    BY <2>1, <2>2 DEF Shown
<1>9. CASE Runs
  <2>1. UNCHANGED <<watch, last, told, pc, reason>> /\ pc = "running"
    BY <1>9 DEF Runs, StandsStill
  <2>2. QED
    BY <2>1 DEF Shown
<1>10. QED
  BY <1>1, <1>2, <1>3, <1>4, <1>5, <1>6, <1>7, <1>8, <1>9 DEF Next, Command

-----------------------------------------------------------------------------
\* The inductive invariant as a theorem.
THEOREM Invariance == Spec => []IInv
<1>1. Init => IInv
  <2> SUFFICES ASSUME Init PROVE IInv
    OBVIOUS
  <2>1. PointTypes
    <3>1. (CHOOSE l \in Lines : TRUE) \in Lines
      BY DEF Init
    <3>2. PICK l \in Lines : line = [n \in Nums |-> l]
      BY <3>1 DEF Init
    <3>3. line \in [Nums -> Lines]
      BY <3>2
    <3>4. /\ temp \in [Nums -> BOOLEAN] /\ cond \in [Nums -> BOOLEAN]
          /\ bps \subseteq Nums /\ nextNum \in 1 .. MaxNum + 1
      BY DEF Init
    <3>5. QED
      BY <3>3, <3>4 DEF PointTypes
  <2>2. LoopTypes /\ SeenTypes
    BY DEF Init, LoopTypes, SeenTypes, AllCommands, Seen, Values, Reasons
  <2>3. EngineTypes
    BY DEF Init, EngineTypes, Values
  <2>4. TableFollows /\ StandsStill
    BY DEF Init, TableFollows, StandsStill, Sent
  <2>5. Tested /\ Shown
    BY DEF Init, Tested, Shown
  <2>6. QED
    BY <2>1, <2>2, <2>3, <2>4, <2>5, Types DEF IInv
<1>2. IInv /\ [Next]_vars => IInv'
  BY StepTypes, StepKeepsTable, StepKeepsStill, StepKeepsTested, StepKeepsShown DEF IInv
<1>3. QED
  BY <1>1, <1>2, PTL DEF Spec

\* Every variable keeps its type (debugger.js 459-602).
THEOREM TypeCorrect == Spec => []TypeOK
<1>1. IInv => TypeOK
  BY DEF IInv
<1>2. QED
  BY <1>1, Invariance, PTL

\* With no update on the way, the engine's table is the debugger's list, for any
\* number of breakpoints and of updates in mid-run (debugger.js 720-729).
THEOREM TableCorrect == Spec => []EngineKnowsBreakpoints
<1>1. IInv => EngineKnowsBreakpoints
  BY DEF IInv, TableFollows, EngineKnowsBreakpoints
<1>2. QED
  BY <1>1, Invariance, PTL

\* A stop is passed over only where every condition is false, and reported only
\* where one of them is not, but for edits made meanwhile (debugger.js 571-600).
THEOREM StopsCorrect == Spec => StopsRightly
<1> DEFINE Passed == (GoesOn /\ reason = "breakpoint") =>
                       \A n \in At(bps) \ touched : cond[n] /\ x = "false"
           Reported == (pc = "cond" /\ pc' = "report" /\ touched = {} /\ up /\ At(bps) # {}) =>
                         \E n \in At(bps) : ~cond[n] \/ x # "false"
<1>1. IInv /\ [Next]_vars => [Passed /\ Reported]_vars
  <2> SUFFICES ASSUME IInv, Next PROVE Passed /\ Reported
    OBVIOUS
  <2>1. CASE Decide
    BY <2>1 DEF Decide, ResumeOnce, GoesOn, IInv, Tested
  <2>2. CASE Judge
    BY <2>2 DEF Judge, ResumeOnce, GoesOn
  <2>3. CASE ~Decide /\ ~Judge
    <3>1. pc \in {"judge", "cond"} => pc' \notin {"running", "report"}
      BY <2>3 DEF Next, Command, Edits, Resume, Stopped, Stack, CheckWatch, TestCondition, UntilGoesOn, OnStopped,
          Ended, AddBreakpoint, DeleteBreakpoint, Condition, Watch, Interrupt, Close, Takes, Runs, IInv, TypeOK
    <3>2. QED
      BY <3>1 DEF GoesOn
  <2>4. QED
    BY <2>1, <2>2, <2>3
<1>2. [][Passed /\ Reported]_vars => [][Passed]_vars /\ [][Reported]_vars
  BY PTL
<1>3. QED
  BY <1>1, <1>2, Invariance, PTL DEF Spec, StopsRightly

\* Of a watchpoint that was there when the program was resumed, the program never
\* goes on by itself past a change that the user was not shown, counted from what the
\* first stop found if it was set before the program ran (debugger.js 559-568,
\* 576-602, 1005-1007, 1105-1112).
THEOREM WatchCorrect == Spec => WatchIsKept
<1> DEFINE Told == (watch /\ pc \in {"idle", "running"}) => told = last
           Passed == (GoesOn /\ watching /\ watch /\ 0 \notin touched /\ Evaluates) => told = x
<1>1. IInv => Told
  BY DEF IInv, Shown
<1>2. IInv => [Passed]_vars
  BY DEF IInv, Shown, GoesOn
<1>3. QED
  BY <1>1, <1>2, Invariance, PTL DEF WatchIsKept

-----------------------------------------------------------------------------
(* What a command waits for can come.                                       *)

\* The command does not wait, or has just sent its request.
LEMMA ResumeOnceServes ==
  ASSUME TypeOK, up' = up,
         NEW c \in AllCommands \ {"until"}, NEW step \in BOOLEAN, ResumeOnce(c, step)
  PROVE  ServedOrLost'
<1> SUFFICES ASSUME up' PROVE Sent' # {}
  BY DEF ServedOrLost
<1>1. up /\ inbox \in Seq(Message)
  BY DEF TypeOK
<1>2. PICK m \in Message : m.what = "resume" /\ Send(m)
  BY ResumeOnceTypes
<1>3. /\ Len(inbox) \in Nat
      /\ DOMAIN inbox' = 1 .. Len(inbox) + 1
      /\ inbox'[Len(inbox) + 1] = m
  BY <1>1, <1>2, AppendAt DEF Send
<1>4. Len(inbox) + 1 \in Sent'
  BY <1>2, <1>3 DEF Sent
<1>5. QED
  BY <1>4

\* The request is taken, and the program runs; or it is still on the way.
LEMMA TakesServes ==
  ASSUME TypeOK, ServedOrLost, Takes
  PROVE  ServedOrLost'
<1> SUFFICES ASSUME pc = "running" PROVE Sent' # {} \/ mode' # "stopped" \/ stops' # "none"
  BY DEF ServedOrLost, Takes
<1>1. /\ up /\ inbox \in Seq(Message) /\ inbox # <<>> /\ inbox' = Tail(inbox)
  BY DEF Takes, TypeOK
<1>2. /\ DOMAIN inbox = 1 .. Len(inbox) /\ Len(inbox) \in Nat \ {0}
      /\ DOMAIN inbox' = 1 .. Len(inbox) - 1
      /\ \A i \in 1 .. Len(inbox) - 1 : inbox'[i] = inbox[i + 1]
      /\ Head(inbox) = inbox[1] /\ Head(inbox) \in Message
  BY <1>1, TailAt
<1>3. CASE Head(inbox).what = "resume"
  <2>1. mode' = Head(inbox).cmd /\ Head(inbox).cmd \in AllCommands \ {"until"}
    BY <1>2, <1>3, MessageFields DEF Takes
  <2>2. QED
    BY <2>1 DEF AllCommands
<1>4. CASE Head(inbox).what # "resume"
  <2>1. CASE Sent # {}
    <3>1. PICK i \in Sent : i \in 1 .. Len(inbox) /\ i # 1
      BY <1>2, <1>4, <2>1 DEF Sent
    <3>2. PICK k \in 1 .. Len(inbox) - 1 : i = k + 1
      BY <1>2, <3>1
    <3>3. k \in Sent'
      BY <1>2, <3>1, <3>2 DEF Sent
    <3>4. QED
      BY <3>3
  <2>2. CASE mode # "stopped" \/ stops # "none"
    BY <1>4, <2>2 DEF Takes
  <2>3. QED
    BY <1>1, <2>1, <2>2 DEF ServedOrLost
<1>5. QED
  BY <1>3, <1>4

LEMMA StepKeepsServed == TypeOK /\ ServedOrLost /\ [Next]_vars => ServedOrLost'
<1> SUFFICES ASSUME TypeOK, ServedOrLost, [Next]_vars PROVE ServedOrLost'
  OBVIOUS
<1> USE DEF points, seen, loop, judge, engine
<1>1. ASSUME NEW c \in Commands, Resume(c) PROVE ServedOrLost'
  <2>1. (IF c = "until" THEN "next" ELSE c) \in AllCommands \ {"until"} /\ (c # "continue") \in BOOLEAN
    BY DEF AllCommands
  <2>2. ResumeOnce(IF c = "until" THEN "next" ELSE c, c # "continue") /\ up' = up
    BY <1>1 DEF Resume
  <2>3. QED
    BY <2>1, <2>2, ResumeOnceServes
<1>2. CASE Judge \/ Decide \/ UntilGoesOn
  <2>1. /\ up' = up
        /\ \/ pc' # "running"
           \/ ResumeOnce(command, stepping) \/ ResumeOnce("continue", stepping) \/ ResumeOnce("next", TRUE)
    BY <1>2 DEF Judge, Decide, UntilGoesOn
  <2>2. command \in AllCommands \ {"until"} /\ stepping \in BOOLEAN /\ {"continue", "next"} \subseteq AllCommands \ {"until"}
    BY DEF TypeOK, AllCommands
  <2>3. pc' # "running" => ServedOrLost'
    BY DEF ServedOrLost
  <2>4. QED
    BY <2>1, <2>2, <2>3, ResumeOnceServes
<1>3. CASE Stopped \/ Stack \/ CheckWatch \/ TestCondition \/ OnStopped \/ Ended
  <2>1. pc' # "running"
    BY <1>3 DEF Stopped, Stack, CheckWatch, TestCondition, OnStopped, Ended, Returns
  <2>2. QED
    BY <2>1 DEF ServedOrLost
<1>4. CASE Edits
  <2>1. UNCHANGED <<pc, mode, stops>>
    BY <1>4 DEF Edits, AddBreakpoint, DeleteBreakpoint, Condition, Watch, Interrupt
  <2>2. QED
    BY <1>4, <2>1, EditsKeepSent DEF ServedOrLost
<1>5. CASE Close
  BY <1>5 DEF Close, ServedOrLost
<1>6. CASE Takes
  BY <1>6, TakesServes
<1>7. CASE Runs
  <2>1. mode' # "stopped" \/ stops' # "none"
    BY <1>7 DEF Runs
  <2>2. QED
    BY <2>1 DEF ServedOrLost
<1>8. CASE UNCHANGED vars
  BY <1>8 DEF vars, ServedOrLost, Sent
<1>9. QED
  BY <1>1, <1>2, <1>3, <1>4, <1>5, <1>6, <1>7, <1>8 DEF Next, Command

\* A command waits for a stop only while one can come or the connection has ended,
\* whatever is edited or interrupted meanwhile (debugger.js 499-512, 576-602).
THEOREM ServedCorrect == Spec => []ServedOrLost
<1>1. Init => ServedOrLost
  BY DEF Init, ServedOrLost
<1>2. IInv /\ ServedOrLost /\ [Next]_vars => ServedOrLost'
  BY StepKeepsServed DEF IInv
<1>3. QED
  BY <1>1, <1>2, Invariance, PTL DEF Spec
=============================================================================
