--------------------------- MODULE GuiView_proofs ---------------------------
(***************************************************************************)
(* Theorems about the GUI's views, for any numbers of commands, pauses,     *)
(* clicks and displays.                                                      *)
(***************************************************************************)
EXTENDS GuiView, SequenceTheorems, TLAPS

-----------------------------------------------------------------------------
(* Sequences                                                                *)

LEMMA AppendFacts ==
  ASSUME NEW T, NEW q \in Seq(T), NEW x \in T, NEW r, r = Append(q, x)
  PROVE  /\ r \in Seq(T) /\ DOMAIN r = DOMAIN q \cup {Len(q) + 1}
         /\ \A i \in DOMAIN q : r[i] = q[i] /\ i < Len(q) + 1
         /\ r[Len(q) + 1] = x
  OBVIOUS

LEMMA TailFacts ==
  ASSUME NEW T, NEW q \in Seq(T), q # <<>>, NEW r, r = Tail(q)
  PROVE  /\ r \in Seq(T) /\ Head(q) \in T /\ Head(q) = q[1] /\ 1 \in DOMAIN q
         /\ \A i \in DOMAIN r : i + 1 \in DOMAIN q /\ r[i] = q[i + 1] /\ i + 1 # 1
         /\ \A i \in DOMAIN q : i = 1 \/ (i - 1 \in DOMAIN r /\ r[i - 1] = q[i])
  OBVIOUS

LEMMA EmptyFacts == ASSUME NEW T PROVE <<>> \in Seq(T) /\ DOMAIN <<>> = {}
  OBVIOUS

-----------------------------------------------------------------------------
(* Types                                                                    *)

DebuggerOK ==
  /\ child \in BOOLEAN /\ session \in BOOLEAN /\ lost \in BOOLEAN
  /\ stack \in 0 .. MaxDepth /\ stackPause \in 0 .. MaxPauses
  /\ (frame = 0 \/ frame \in 1 .. stack - 1)
  /\ (stack > 0 => session) /\ (session => child)
ControlOK == busy \in BOOLEAN /\ commands \in Seq(Command) /\ queued \in 0 .. MaxQueue /\ cmdBusy \in BOOLEAN
ShownOK ==
  /\ vars \in View /\ kids \in View /\ values \in View
  /\ varsSeq \in Nat /\ dispSeq \in Nat /\ expanded \in BOOLEAN
LinkOK ==
  /\ engine \in {"none", "running", "halted"} /\ pause \in 0 .. MaxPauses
  /\ wire \in Seq(Ask)
ClickOK ==
  /\ displays \subseteq 1 .. MaxDisplays
  /\ clicks \in 0 .. MaxClicks /\ nextDisplay \in 1 .. MaxDisplays + 1
ToldOK == told \in {"none", "running", "stopped", "exited"}

LEMMA TypeParts == TypeOK <=> DebuggerOK /\ ControlOK /\ ShownOK /\ LinkOK /\ ClickOK /\ ToldOK
  BY DEF TypeOK, DebuggerOK, ControlOK, ShownOK, LinkOK, ClickOK, ToldOK

LEMMA Bounds ==
  /\ MaxCommands \in Nat /\ MaxQueue \in Nat /\ MaxPauses \in Nat
  /\ MaxDepth \in Nat /\ MaxDepth > 0 /\ MaxClicks \in Nat /\ MaxDisplays \in Nat
  BY BoundsAssumption

\* What the views may hold.
LEMMA Views ==
  /\ Nothing \in View /\ Pending \in View /\ Gone \in View
  /\ Nothing.is = "nothing" /\ Pending.is = "pending" /\ Gone.is = "gone"
  /\ \A n \in Nat, p \in 0 .. MaxPauses :
       Says(n, p) \in View /\ Says(n, p).is = "said" /\ Says(n, p).seq = n /\ Says(n, p).pause = p
  BY Bounds DEF View, Nothing, Pending, Gone, Says

LEMMA Questions ==
  \A what \in {"vars", "kids", "values", "stack", "eval", "resume"}, n \in Nat :
     /\ Question(what, n) \in Ask /\ Question(what, n).what = what /\ Question(what, n).seq = n
  BY DEF Question, Ask

-----------------------------------------------------------------------------
(* Commands and their places                                                *)

LEMMA Moving ==
  ASSUME commands \in Seq(Command), NEW C, NEW place \in Places, NEW next, next = Moved(C, place)
  PROVE  /\ next \in Seq(Command) /\ DOMAIN next = Ids /\ Len(next) = Len(commands)
         /\ \A c \in Ids : next[c].place = IF c \in C THEN place ELSE commands[c].place
<1>1. Ids = 1 .. Len(commands) /\ Len(commands) \in Nat
  BY DEF Ids
<1>2. DOMAIN next = Ids
  BY DEF Moved
<1>3. ASSUME NEW c \in Ids
      PROVE  /\ next[c] \in Command
             /\ next[c].place = IF c \in C THEN place ELSE commands[c].place
  <2>1. commands[c] \in Command
    BY <1>1
  <2>2. next[c] = IF c \in C THEN [commands[c] EXCEPT !.place = place] ELSE commands[c]
    BY <1>3 DEF Moved
  <2>3. QED
    BY <2>1, <2>2 DEF Command
<1>4. next \in [1 .. Len(commands) -> Command]
  BY <1>1, <1>2, <1>3 DEF Moved
<1>5. QED
  BY <1>1, <1>2, <1>3, <1>4


\* Where commands are once those of C have gone on.
LEMMA GoesFacts ==
  ASSUME ControlOK, NEW C, NEW place \in Places, Goes(C, place)
  PROVE  /\ commands' \in Seq(Command) /\ Ids' = Ids /\ Len(commands') = Len(commands)
         /\ \A p : At(p)' = (At(p) \ C) \cup (IF p = place THEN C \cap Ids ELSE {})
         /\ InProgress' = (InProgress \ C) \cup (IF place \in {"over", "hung"} THEN {} ELSE C \cap Ids)
         /\ busy' \in BOOLEAN /\ cmdBusy' \in BOOLEAN
         /\ busy' <=> busy /\ (C = {} \/ place # "over")
<1>1. commands' = Moved(C, place) /\ commands \in Seq(Command)
  BY DEF Goes, ControlOK
<1> PICK next : next = Moved(C, place)
  OBVIOUS
<1>2. /\ next \in Seq(Command) /\ DOMAIN next = Ids /\ Len(next) = Len(commands)
      /\ \A c \in Ids : next[c].place = IF c \in C THEN place ELSE commands[c].place
  BY <1>1, Moving
<1>3. commands' = next
  BY <1>1
<1>4. Ids' = Ids
  BY <1>2, <1>3 DEF Ids
<1>5. \A p : At(p)' = {c \in Ids : next[c].place = p} /\ At(p) = {c \in Ids : commands[c].place = p}
  BY <1>3, <1>4 DEF At, Place
<1>6. ASSUME NEW p
      PROVE  At(p)' = (At(p) \ C) \cup (IF p = place THEN C \cap Ids ELSE {})
  BY <1>2, <1>5
<1>7. InProgress' = (InProgress \ C) \cup (IF place \in {"over", "hung"} THEN {} ELSE C \cap Ids)
  <2>1. InProgress' = {c \in Ids : next[c].place \notin {"over", "hung"}}
    BY <1>3, <1>4 DEF InProgress, Place
  <2>2. InProgress = {c \in Ids : commands[c].place \notin {"over", "hung"}}
    BY DEF InProgress, Place
  <2>3. QED
    BY <1>2, <2>1, <2>2
<1>8. busy' = (busy /\ (C = {} \/ place # "over"))
  BY DEF Goes
<1>9. cmdBusy' \in BOOLEAN
  BY DEF Goes
<1>10. busy' \in BOOLEAN /\ (busy' <=> busy /\ (C = {} \/ place # "over"))
  BY <1>8
<1>11. QED
  BY <1>2, <1>3, <1>4, <1>6, <1>7, <1>9, <1>10

\* The commands at a place, when one comes and others are ended or left hanging.
LEMMA OneMore ==
  ASSUME NEW I, NEW n, n \notin I, NEW f, NEW g, NEW over, NEW hang, NEW place,
         over \subseteq I, hang \subseteq I, over \cap hang = {},
         \A c \in I : g[c].place = IF c \in over THEN "over" ELSE IF c \in hang THEN "hung" ELSE f[c].place,
         g[n].place = place
  PROVE  /\ \A p : {c \in I \cup {n} : g[c].place = p} =
                     ({c \in I : f[c].place = p} \ (over \cup hang)) \cup (IF p = "over" THEN over ELSE {})
                       \cup (IF p = "hung" THEN hang ELSE {}) \cup (IF p = place THEN {n} ELSE {})
         /\ {c \in I \cup {n} : g[c].place \notin {"over", "hung"}} =
              ({c \in I : f[c].place \notin {"over", "hung"}} \ (over \cup hang))
                \cup (IF place \in {"over", "hung"} THEN {} ELSE {n})
<1>1. ASSUME NEW p
      PROVE  {c \in I \cup {n} : g[c].place = p} =
               ({c \in I : f[c].place = p} \ (over \cup hang)) \cup (IF p = "over" THEN over ELSE {})
                 \cup (IF p = "hung" THEN hang ELSE {}) \cup (IF p = place THEN {n} ELSE {})
  OBVIOUS
<1>2. {c \in I \cup {n} : g[c].place \notin {"over", "hung"}} =
        ({c \in I : f[c].place \notin {"over", "hung"}} \ (over \cup hang))
          \cup (IF place \in {"over", "hung"} THEN {} ELSE {n})
  OBVIOUS
<1>3. QED
  BY <1>1, <1>2

\* Where commands are once another one is given.
NextId == Len(commands) + 1
EndedBy(kills) == IF kills THEN Ended ELSE {}
LeftBy(kills) == IF kills THEN At("launch") ELSE {}

Given(place, over, hang) ==
  /\ commands' \in Seq(Command) /\ Ids' = Ids \cup {NextId} /\ NextId \notin Ids /\ NextId \in Nat
  /\ \A p : At(p)' = (At(p) \ (over \cup hang)) \cup (IF p = "over" THEN over ELSE {})
                      \cup (IF p = "hung" THEN hang ELSE {}) \cup (IF p = place THEN {NextId} ELSE {})
  /\ InProgress' = (InProgress \ (over \cup hang)) \cup (IF place \in {"over", "hung"} THEN {} ELSE {NextId})
  /\ busy' \in BOOLEAN /\ cmdBusy' \in BOOLEAN
  /\ busy' <=> place # "over" /\ over = {}

LEMMA ExecutedFacts ==
  ASSUME ControlOK, NEW w \in Words, NEW from \in {"console", "toolbar"}, NEW place \in Places,
         NEW kills \in BOOLEAN, Executed(w, from, place, kills)
  PROVE  Given(place, EndedBy(kills), LeftBy(kills))
<1> PICK n : n = Len(commands) + 1
  OBVIOUS
<1> PICK over : over = (IF kills THEN Ended ELSE {})
  OBVIOUS
<1> PICK hang : hang = (IF kills THEN At("launch") ELSE {})
  OBVIOUS
<1>1. commands \in Seq(Command) /\ Ids = 1 .. Len(commands) /\ Len(commands) \in Nat
  BY DEF ControlOK, Ids
<1>2. over \subseteq Ids /\ hang \subseteq Ids /\ over \cap hang = {}
  BY DEF Ended, At
<1>a. PICK old : old = [c \in Ids |-> IF c \in over THEN [commands[c] EXCEPT !.place = "over"]
                                    ELSE IF kills /\ Place(c) = "launch" THEN [commands[c] EXCEPT !.place = "hung"]
                                    ELSE commands[c]]
  OBVIOUS
<1>b. PICK x : x = [word |-> w, from |-> from, place |-> place]
  OBVIOUS
<1>3. commands' = Append(old, x)
  BY <1>a, <1>b DEF Executed
<1>4. x \in Command /\ x.place = place
  BY <1>b DEF Command
<1>5. ASSUME NEW c \in Ids
      PROVE  /\ old[c] \in Command
             /\ old[c].place = IF c \in over THEN "over" ELSE IF c \in hang THEN "hung" ELSE commands[c].place
  <2>1. commands[c] \in Command
    BY <1>1
  <2>2. c \in hang <=> kills /\ Place(c) = "launch"
    BY DEF At
  <2>3. "over" \in Places /\ "hung" \in Places
    BY DEF Places
  <2>4. QED
    BY <1>a, <2>1, <2>2, <2>3 DEF Command
<1>6. old \in Seq(Command) /\ Len(old) = Len(commands) /\ DOMAIN old = Ids
  <2>1. old \in [1 .. Len(commands) -> Command] /\ DOMAIN old = Ids
    BY <1>1, <1>5, <1>a
  <2>2. QED
    BY <1>1, <2>1
<1>c. PICK next : next = Append(old, x)
  OBVIOUS
<1>7. /\ next \in Seq(Command) /\ DOMAIN next = Ids \cup {n}
      /\ \A c \in Ids : next[c] = old[c] /\ c < n
      /\ next[n] = x
  BY <1>4, <1>6, <1>c, AppendFacts
<1>8. n \notin Ids /\ n \in Nat
  BY <1>1
<1>9. commands' = next
  BY <1>3, <1>c
<1>10. Ids' = Ids \cup {n}
  BY <1>7, <1>9 DEF Ids
<1>11. \A p : At(p)' = {c \in Ids \cup {n} : next[c].place = p} /\ At(p) = {c \in Ids : commands[c].place = p}
  BY <1>9, <1>10 DEF At, Place
<1>12. /\ \A c \in Ids : next[c].place = IF c \in over THEN "over" ELSE IF c \in hang THEN "hung"
                                           ELSE commands[c].place
       /\ next[n].place = place
  BY <1>4, <1>5, <1>7
<1>13. /\ \A p : At(p)' = (At(p) \ (over \cup hang)) \cup (IF p = "over" THEN over ELSE {})
                            \cup (IF p = "hung" THEN hang ELSE {}) \cup (IF p = place THEN {n} ELSE {})
       /\ InProgress' = (InProgress \ (over \cup hang)) \cup (IF place \in {"over", "hung"} THEN {} ELSE {n})
  <2>1. InProgress' = {c \in Ids \cup {n} : next[c].place \notin {"over", "hung"}}
    BY <1>9, <1>10 DEF InProgress, Place
  <2>2. InProgress = {c \in Ids : commands[c].place \notin {"over", "hung"}}
    BY DEF InProgress, Place
  <2>3. QED
    BY <1>2, <1>8, <1>11, <1>12, <2>1, <2>2, OneMore
<1>14. busy' = (place # "over" /\ over = {}) /\ cmdBusy' \in BOOLEAN
  BY DEF Executed
<1>15. QED
  BY <1>7, <1>8, <1>9, <1>10, <1>13, <1>14 DEF NextId, EndedBy, LeftBy, Given

LEMMA ExecutedQuietly ==
  ASSUME ControlOK, NEW w \in Words, NEW from \in {"console", "toolbar"}, NEW place \in Places,
         Executed(w, from, place, FALSE)
  PROVE  Given(place, {}, {})
<1>1. EndedBy(FALSE) = {} /\ LeftBy(FALSE) = {} /\ FALSE \in BOOLEAN
  BY DEF EndedBy, LeftBy
<1>2. Given(place, EndedBy(FALSE), LeftBy(FALSE))
  BY <1>1, ExecutedFacts
<1>3. QED
  BY <1>1, <1>2

LEMMA ExecutedKilling ==
  ASSUME ControlOK, NEW w \in Words, NEW from \in {"console", "toolbar"}, NEW place \in Places,
         Executed(w, from, place, TRUE)
  PROVE  Given(place, Ended, At("launch"))
<1>1. EndedBy(TRUE) = Ended /\ LeftBy(TRUE) = At("launch") /\ TRUE \in BOOLEAN
  BY DEF EndedBy, LeftBy
<1>2. Given(place, EndedBy(TRUE), LeftBy(TRUE))
  BY <1>1, ExecutedFacts
<1>3. QED
  BY <1>1, <1>2

\* The commands at a place, when those at "running" and "entry" go on.
LEMMA StopMoves ==
  ASSUME NEW I, NEW f, NEW g,
         \A c \in I : /\ f[c].place = "running" => g[c].place = "stopped"
                      /\ f[c].place = "entry" => g[c].place = "entered"
                      /\ f[c].place \notin {"running", "entry"} => g[c].place = f[c].place
  PROVE  /\ \A c \in I :
              /\ g[c].place \notin {"running", "entry"}
              /\ g[c].place = "stopped" <=> f[c].place \in {"stopped", "running"}
              /\ g[c].place = "entered" <=> f[c].place \in {"entered", "entry"}
              /\ \A p \in {"launch", "stack", "judge", "eval", "hung", "over"} : g[c].place = p <=> f[c].place = p
         /\ {c \in I : g[c].place \notin {"over", "hung"}} = {c \in I : f[c].place \notin {"over", "hung"}}
<1>1. ASSUME NEW c \in I
      PROVE  /\ g[c].place \notin {"running", "entry"}
             /\ g[c].place = "stopped" <=> f[c].place \in {"stopped", "running"}
             /\ g[c].place = "entered" <=> f[c].place \in {"entered", "entry"}
             /\ \A p \in {"launch", "stack", "judge", "eval", "hung", "over"} : g[c].place = p <=> f[c].place = p
  <2>1. CASE f[c].place = "running"
    BY <2>1
  <2>2. CASE f[c].place = "entry"
    BY <2>2
  <2>3. CASE f[c].place \notin {"running", "entry"}
    BY <2>3
  <2>4. QED
    BY <2>1, <2>2, <2>3
<1>2. {c \in I : g[c].place \notin {"over", "hung"}} = {c \in I : f[c].place \notin {"over", "hung"}}
  BY <1>1
<1>3. QED
  BY <1>1, <1>2

\* Where commands are once a stop is delivered.
LEMMA StopFacts ==
  ASSUME ControlOK, DeliverStop
  PROVE  /\ commands' \in Seq(Command) /\ Ids' = Ids
         /\ At("running")' = {} /\ At("entry")' = {}
         /\ At("stopped")' = At("stopped") \cup At("running")
         /\ At("entered")' = At("entered") \cup At("entry")
         /\ \A p \in {"launch", "stack", "judge", "eval", "hung", "over"} : At(p)' = At(p)
         /\ InProgress' = InProgress
<1>1. commands \in Seq(Command) /\ Ids = 1 .. Len(commands) /\ Len(commands) \in Nat
  BY DEF ControlOK, Ids
<1>a. PICK next : next = [c \in Ids |->
        CASE Place(c) = "running" -> [commands[c] EXCEPT !.place = "stopped"]
          [] Place(c) = "entry" -> [commands[c] EXCEPT !.place = "entered"]
          [] OTHER -> commands[c]]
  OBVIOUS
<1>2. commands' = next
  BY <1>a DEF DeliverStop
<1>3. ASSUME NEW c \in Ids
      PROVE  /\ next[c] \in Command
             /\ commands[c].place = "running" => next[c].place = "stopped"
             /\ commands[c].place = "entry" => next[c].place = "entered"
             /\ commands[c].place \notin {"running", "entry"} => next[c].place = commands[c].place
  <2>1. commands[c] \in Command /\ "stopped" \in Places /\ "entered" \in Places
    BY <1>1 DEF Places
  <2>2. CASE commands[c].place = "running"
    BY <1>a, <2>1, <2>2 DEF Command, Place
  <2>3. CASE commands[c].place = "entry"
    BY <1>a, <2>1, <2>3 DEF Command, Place
  <2>4. CASE commands[c].place \notin {"running", "entry"}
    BY <1>a, <2>1, <2>4 DEF Command, Place
  <2>5. QED
    BY <2>2, <2>3, <2>4
<1>4. next \in Seq(Command) /\ DOMAIN next = Ids
  <2>1. next \in [1 .. Len(commands) -> Command] /\ DOMAIN next = Ids
    BY <1>1, <1>3, <1>a
  <2>2. QED
    BY <1>1, <2>1
<1>5. Ids' = Ids
  BY <1>2, <1>4 DEF Ids
<1>6. \A p : At(p)' = {c \in Ids : next[c].place = p} /\ At(p) = {c \in Ids : commands[c].place = p}
  BY <1>2, <1>5 DEF At, Place
<1>7. /\ At("running")' = {} /\ At("entry")' = {}
      /\ At("stopped")' = At("stopped") \cup At("running")
      /\ At("entered")' = At("entered") \cup At("entry")
      /\ \A p \in {"launch", "stack", "judge", "eval", "hung", "over"} : At(p)' = At(p)
  <2>1. \A c \in Ids : /\ commands[c].place = "running" => next[c].place = "stopped"
                       /\ commands[c].place = "entry" => next[c].place = "entered"
                       /\ commands[c].place \notin {"running", "entry"} => next[c].place = commands[c].place
    BY <1>3
  <2>2. QED
    <3>1. ASSUME NEW c \in Ids
          PROVE  /\ next[c].place \notin {"running", "entry"}
                 /\ next[c].place = "stopped" <=> commands[c].place \in {"stopped", "running"}
                 /\ next[c].place = "entered" <=> commands[c].place \in {"entered", "entry"}
                 /\ \A p \in {"launch", "stack", "judge", "eval", "hung", "over"} :
                      next[c].place = p <=> commands[c].place = p
      BY <2>1, StopMoves
    <3>2. ASSUME NEW p \in {"launch", "stack", "judge", "eval", "hung", "over"}
          PROVE  At(p)' = At(p)
      BY <1>6, <3>1
    <3>3. /\ At("running")' = {} /\ At("entry")' = {}
          /\ At("stopped")' = At("stopped") \cup At("running")
          /\ At("entered")' = At("entered") \cup At("entry")
      BY <1>6, <3>1
    <3>4. QED
      BY <3>2, <3>3
<1>8. InProgress' = InProgress
  <2>1. InProgress' = {c \in Ids : next[c].place \notin {"over", "hung"}}
    BY <1>2, <1>5 DEF InProgress, Place
  <2>2. InProgress = {c \in Ids : commands[c].place \notin {"over", "hung"}}
    BY DEF InProgress, Place
  <2>3. QED
    BY <1>3, <2>1, <2>2, StopMoves
<1>9. QED
  BY <1>2, <1>4, <1>5, <1>7, <1>8


-----------------------------------------------------------------------------
(* Asking for views                                                         *)

\* Questions qs follow on the wire, each under the newest number there is then.
AsksForViews(qs) ==
  /\ qs \in Seq(Ask) /\ wire' = wire \o qs /\ (qs # <<>> => Connected)
  /\ varsSeq' \in Nat /\ dispSeq' \in Nat /\ varsSeq <= varsSeq' /\ dispSeq <= dispSeq'
  /\ \A k \in DOMAIN qs : ForView(qs[k]) /\ qs[k].seq = IF qs[k].what = "values" THEN dispSeq' ELSE varsSeq'
  /\ UNCHANGED <<engine, pause>>

LEMMA OneQuestion ==
  ASSUME NEW T, NEW a \in T
  PROVE  <<a>> \in Seq(T) /\ <<a>> # <<>> /\ Len(<<a>>) = 1 /\ \A k \in DOMAIN <<a>> : <<a>>[k] = a
  OBVIOUS

LEMMA TwoQuestions ==
  ASSUME NEW T, NEW a \in T, NEW b \in T
  PROVE  /\ <<a, b>> \in Seq(T) /\ <<a, b>> # <<>> /\ <<a>> \o <<b>> = <<a, b>> /\ <<a>> \o <<>> = <<a>>
         /\ \A k \in DOMAIN <<a, b>> : <<a, b>>[k] \in {a, b}
<1>1. <<a, b>> \in Seq(T) /\ <<a, b>> # <<>>
  OBVIOUS
<1>2. <<a>> \o <<b>> = <<a, b>>
  <2>1. <<a>> \in Seq(T) /\ <<b>> \in Seq(T) /\ Len(<<a>>) = 1 /\ Len(<<b>>) = 1 /\ <<a>>[1] = a /\ <<b>>[1] = b
    OBVIOUS
  <2> PICK s : s = <<a>> \o <<b>>
    OBVIOUS
  <2>2. s \in Seq(T) /\ Len(s) = 2 /\ s[1] = a /\ s[2] = b
    BY <2>1
  <2>3. Len(<<a, b>>) = 2 /\ <<a, b>>[1] = a /\ <<a, b>>[2] = b
    OBVIOUS
  <2>4. ASSUME NEW i \in 1 .. 2 PROVE s[i] = <<a, b>>[i]
    <3>1. i = 1 \/ i = 2
      OBVIOUS
    <3>2. QED
      BY <2>2, <2>3, <3>1
  <2>5. s = <<a, b>>
    BY <1>1, <2>2, <2>3, <2>4, SeqEqual
  <2>6. QED
    BY <2>5
<1>3. <<a>> \o <<>> = <<a>>
  OBVIOUS
<1>4. \A k \in DOMAIN <<a, b>> : <<a, b>>[k] \in {a, b}
  OBVIOUS
<1>5. QED
  BY <1>1, <1>2, <1>3, <1>4

LEMMA NoQuestion ==
  ASSUME NEW T, NEW q \in Seq(T)
  PROVE  q \o <<>> = q
  OBVIOUS

LEMMA Follows == \A m, n \in Nat : n <= n /\ n <= n + 1 /\ n + 1 \in Nat /\ n <= m => n <= m
  OBVIOUS

\* A refresh forgets what is shown; what it asks it asks under new numbers.
LEMMA RefreshFacts ==
  ASSUME ShownOK, LinkOK, NEW n \in Nat, RefreshVars(n), UNCHANGED <<engine, pause>>
  PROVE  /\ ShownOK' /\ \E qs : AsksForViews(qs)
         /\ vars'.is # "said" /\ kids'.is # "said" /\ values'.is # "said"
         /\ session /\ n > 0 => varsSeq' = varsSeq + 1
<1>1. ShownOK' /\ vars'.is # "said" /\ kids'.is # "said" /\ values'.is # "said"
  <2>1. varsSeq \in Nat /\ dispSeq \in Nat
    BY DEF ShownOK
  <2>2. Len(AskValues) \in Nat
    BY Questions DEF AskValues
  <2>3. kids' = Nothing /\ expanded' = FALSE
    BY DEF RefreshVars
  <2>4. CASE session /\ n > 0
    <3>1. /\ varsSeq' = varsSeq + 1 /\ dispSeq' = dispSeq + Len(AskValues)
          /\ vars' \in {Gone, Pending} /\ values' \in {Gone, Nothing}
      BY <2>4 DEF RefreshVars
    <3>2. varsSeq' \in Nat /\ dispSeq' \in Nat
      BY <2>1, <2>2, <3>1
    <3>3. vars' \in View /\ values' \in View /\ vars'.is # "said" /\ values'.is # "said"
      BY <3>1, Views
    <3>4. QED
      BY <2>3, <3>2, <3>3, Views DEF ShownOK
  <2>5. CASE ~(session /\ n > 0)
    <3>1. vars' = Nothing /\ values' = Nothing /\ varsSeq' = varsSeq /\ dispSeq' = dispSeq
      BY <2>5 DEF RefreshVars
    <3>2. QED
      BY <2>1, <2>3, <3>1, Views DEF ShownOK
  <2>6. QED
    BY <2>4, <2>5
<1>2. CASE session /\ n > 0
  <2>1. /\ varsSeq \in Nat /\ dispSeq \in Nat /\ varsSeq' = varsSeq + 1
        /\ dispSeq' = dispSeq + Len(AskValues)
        /\ wire' = Asked(<<Question("vars", varsSeq + 1)>> \o AskValues)
    BY <1>2 DEF RefreshVars, ShownOK
  <2> PICK a : a = Question("vars", varsSeq + 1)
    OBVIOUS
  <2> PICK b : b = Question("values", dispSeq + 1)
    OBVIOUS
  <2>2. /\ a \in Ask /\ a.what = "vars" /\ a.seq = varsSeq + 1
        /\ b \in Ask /\ b.what = "values" /\ b.seq = dispSeq + 1
    BY <2>1, Questions
  <2>3. wire \in Seq(Ask)
    BY DEF LinkOK
  <2>4. CASE ~Connected
    <3>1. wire' = wire \o <<>> /\ <<>> \in Seq(Ask) /\ DOMAIN <<>> = {}
      BY <2>1, <2>3, <2>4, NoQuestion, EmptyFacts DEF Asked
    <3>2. Len(AskValues) \in Nat
      BY Questions DEF AskValues
    <3>3. AsksForViews(<<>>)
      BY <2>1, <3>1, <3>2 DEF AsksForViews
    <3>4. QED
      BY <1>1, <2>1, <3>3
  <2>5. CASE Connected /\ displays = {}
    <3>1. AskValues = <<>>
      BY <2>5 DEF AskValues
    <3>2. wire' = wire \o <<a>> /\ dispSeq' = dispSeq
      BY <2>1, <2>2, <2>5, <3>1, TwoQuestions DEF Asked
    <3>3. <<a>> \in Seq(Ask) /\ \A k \in DOMAIN <<a>> : <<a>>[k] = a
      BY <2>2, OneQuestion
    <3>4. /\ varsSeq' \in Nat /\ dispSeq' \in Nat /\ varsSeq <= varsSeq' /\ dispSeq <= dispSeq'
      BY <2>1, <3>2
    <3>5. AsksForViews(<<a>>)
      BY <2>1, <2>2, <2>5, <3>2, <3>3, <3>4 DEF AsksForViews, ForView
    <3>6. QED
      BY <1>1, <2>1, <3>5
  <2>6. CASE Connected /\ displays # {}
    <3>1. AskValues = <<b>> /\ Len(<<b>>) = 1
      BY <2>6 DEF AskValues
    <3>2. wire' = wire \o <<a, b>> /\ dispSeq' = dispSeq + 1
      BY <2>1, <2>2, <2>6, <3>1, TwoQuestions DEF Asked
    <3>3. <<a, b>> \in Seq(Ask) /\ \A k \in DOMAIN <<a, b>> : <<a, b>>[k] \in {a, b}
      BY <2>2, TwoQuestions
    <3>4. /\ varsSeq' \in Nat /\ dispSeq' \in Nat /\ varsSeq <= varsSeq' /\ dispSeq <= dispSeq'
      BY <2>1, <3>2
    <3>5. AsksForViews(<<a, b>>)
      BY <2>1, <2>2, <2>6, <3>2, <3>3, <3>4 DEF AsksForViews, ForView
    <3>6. QED
      BY <1>1, <2>1, <3>5
  <2>7. QED
    BY <2>4, <2>5, <2>6
<1>3. CASE ~(session /\ n > 0)
  <2>1. varsSeq' = varsSeq /\ dispSeq' = dispSeq /\ wire' = wire /\ varsSeq \in Nat /\ dispSeq \in Nat
    BY <1>3 DEF RefreshVars, ShownOK
  <2>2. wire' = wire \o <<>> /\ <<>> \in Seq(Ask) /\ DOMAIN <<>> = {}
    BY <2>1, NoQuestion, EmptyFacts DEF LinkOK
  <2>3. AsksForViews(<<>>)
    BY <2>1, <2>2 DEF AsksForViews
  <2>4. QED
    BY <1>1, <1>3, <2>3
<1>4. QED
  BY <1>2, <1>3


\* The rest of a refresh is told of once: what a click on the displays or on a row asks.
LEMMA AddFacts ==
  ASSUME ShownOK, LinkOK, AddWatch
  PROVE  /\ ShownOK' /\ \E qs : AsksForViews(qs)
         /\ varsSeq' = varsSeq /\ vars' = vars /\ kids' = kids
         /\ values' = values \/ values'.is # "said"
         /\ \/ values'.is # "said"
            \/ /\ Connected /\ wire' = Append(wire, Question("values", dispSeq')) /\ values' = values
<1> PICK b : b = Question("values", dispSeq + 1)
  OBVIOUS
<1>1. /\ varsSeq \in Nat /\ dispSeq \in Nat /\ dispSeq + 1 \in Nat /\ dispSeq <= dispSeq + 1
      /\ dispSeq <= dispSeq /\ varsSeq <= varsSeq
  BY DEF ShownOK
<1>2. b \in Ask /\ b.what = "values" /\ b.seq = dispSeq + 1
  BY <1>1, Questions
<1>3. wire \in Seq(Ask) /\ wire \o <<>> = wire
  BY NoQuestion DEF LinkOK
<1>4. UNCHANGED <<engine, pause, inbox, vars, varsSeq, kids, expanded>>
  BY DEF AddWatch, Clicks
<1>5. CASE session /\ stack > 0 /\ ~lost
  <2>1. dispSeq' = dispSeq + 1 /\ wire' = wire \o <<b>> /\ values' = values /\ Connected
    BY <1>5 DEF AddWatch, Asked, Connected
  <2>2. <<b>> \in Seq(Ask) /\ \A k \in DOMAIN <<b>> : <<b>>[k] = b
    BY <1>2, OneQuestion
  <2>3. AsksForViews(<<b>>)
    BY <1>1, <1>2, <1>4, <2>1, <2>2 DEF AsksForViews, ForView
  <2>4. wire' = Append(wire, b)
    BY <1>2, <1>3, <2>1
  <2>5. QED
    BY <1>1, <1>4, <2>1, <2>3, <2>4 DEF ShownOK
<1>6. CASE ~(session /\ stack > 0 /\ ~lost)
  <2>1. /\ wire' = wire /\ values' \in {Gone, Nothing} /\ dispSeq' \in {dispSeq, dispSeq + 1}
    BY <1>6 DEF AddWatch, Asked, Connected
  <2>2. values' \in View /\ values'.is # "said"
    BY <2>1, Views
  <2>3. AsksForViews(<<>>)
    BY <1>1, <1>3, <1>4, <2>1, EmptyFacts DEF AsksForViews
  <2>4. QED
    BY <1>1, <1>4, <2>1, <2>2, <2>3 DEF ShownOK
<1>7. QED
  BY <1>5, <1>6

LEMMA ToggleFacts ==
  ASSUME ShownOK, LinkOK, ToggleVar
  PROVE  /\ ShownOK' /\ \E qs : AsksForViews(qs)
         /\ varsSeq' = varsSeq /\ vars' = vars /\ values' = values /\ dispSeq' = dispSeq
         /\ kids' = kids \/ kids'.is # "said"
<1> PICK b : b = Question("kids", varsSeq)
  OBVIOUS
<1>1. varsSeq \in Nat /\ dispSeq \in Nat /\ dispSeq <= dispSeq /\ varsSeq <= varsSeq
  BY DEF ShownOK
<1>2. b \in Ask /\ b.what = "kids" /\ b.seq = varsSeq
  BY <1>1, Questions
<1>3. wire \in Seq(Ask) /\ wire \o <<>> = wire
  BY NoQuestion DEF LinkOK
<1>4. UNCHANGED <<engine, pause, inbox, vars, varsSeq, values, dispSeq>> /\ expanded' \in BOOLEAN
  BY DEF ToggleVar, Clicks
<1>5. CASE ~expanded /\ kids = Nothing /\ Connected
  <2>1. kids' \in {Gone, Pending} /\ wire' = wire \o <<b>>
    BY <1>5 DEF ToggleVar, Asked
  <2>2. <<b>> \in Seq(Ask) /\ \A k \in DOMAIN <<b>> : <<b>>[k] = b
    BY <1>2, OneQuestion
  <2>3. AsksForViews(<<b>>)
    BY <1>1, <1>2, <1>4, <1>5, <2>1, <2>2 DEF AsksForViews, ForView
  <2>4. kids' \in View /\ kids'.is # "said"
    BY <2>1, Views
  <2>5. QED
    BY <1>1, <1>4, <2>3, <2>4 DEF ShownOK
<1>6. CASE ~(~expanded /\ kids = Nothing /\ Connected)
  <2>1. wire' = wire /\ (kids' = kids \/ kids' \in {Gone, Pending})
    BY <1>6 DEF ToggleVar, Asked
  <2>2. kids' \in View /\ (kids' = kids \/ kids'.is # "said")
    BY <2>1, Views DEF ShownOK
  <2>3. AsksForViews(<<>>)
    BY <1>1, <1>3, <1>4, <2>1, EmptyFacts DEF AsksForViews
  <2>4. QED
    BY <1>1, <1>4, <2>2, <2>3 DEF ShownOK
<1>7. QED
  BY <1>5, <1>6

-----------------------------------------------------------------------------
(* Types and connections                                                    *)

LEMMA TParts ==
  TInv <=> DebuggerOK /\ ControlOK /\ ShownOK /\ LinkOK /\ ClickOK /\ ToldOK /\ Linked
  BY TypeParts DEF TInv

LEMMA TKeeps ==
  ASSUME DebuggerOK', ControlOK', ShownOK', LinkOK', ClickOK', ToldOK', Linked'
  PROVE  TInv'
  BY DEF TInv, TypeOK, DebuggerOK, ControlOK, ShownOK, LinkOK, ClickOK, ToldOK

LEMMA AsksLink ==
  ASSUME LinkOK, Linked, NEW qs, AsksForViews(qs), UNCHANGED <<child, session, lost, inbox>>,
         At("launch")' \subseteq At("launch"), Settled => Settled'
  PROVE  LinkOK' /\ Linked'
<1>1. wire' \in Seq(Ask)
  BY DEF LinkOK, AsksForViews
<1>2. wire' # <<>> => wire # <<>> \/ Connected
  <2>1. CASE qs = <<>>
    BY <2>1, NoQuestion DEF AsksForViews, LinkOK
  <2>2. CASE qs # <<>>
    BY <2>2 DEF AsksForViews
  <2>3. QED
    BY <2>1, <2>2
<1>3. /\ engine' = engine /\ pause' = pause /\ inbox' = inbox /\ Connected' = Connected
  BY DEF AsksForViews, Connected
<1>4. QED
  BY <1>1, <1>2, <1>3 DEF LinkOK, Linked

LEMMA ViewsLink ==
  ASSUME LinkOK, Linked, NEW qs, AsksForViews(qs), UNCHANGED <<child, session, lost, inbox, commands>>
  PROVE  LinkOK' /\ Linked'
<1>1. Settled' = Settled /\ At("launch")' = At("launch")
  BY DEF Settled, At, Ids, Place
<1>2. QED
  BY <1>1, AsksLink

LEMMA SelectTypes == ASSUME TInv, NEW i \in 0 .. MaxDepth - 1, SelectFrame(i) PROVE TInv'
<1>1. DebuggerOK /\ ControlOK /\ ShownOK /\ LinkOK /\ ClickOK /\ ToldOK /\ Linked
  BY TParts
<1>2. /\ UNCHANGED <<child, session, lost, stack, stackPause, control, told, engine, pause, inbox>>
      /\ UNCHANGED <<displays, nextDisplay>> /\ clicks < MaxClicks /\ clicks' = clicks + 1
      /\ i < stack /\ frame' = i /\ RefreshVars(stack) /\ stack \in Nat
  BY <1>1, Bounds DEF SelectFrame, Clicks, DebuggerOK
<1>3. ShownOK' /\ \E qs : AsksForViews(qs)
  BY <1>1, <1>2, RefreshFacts
<1>4. LinkOK' /\ Linked'
  BY <1>1, <1>2, <1>3, ViewsLink DEF control
<1>5. DebuggerOK' /\ ClickOK'
  BY <1>1, <1>2, Bounds DEF DebuggerOK, ClickOK
<1>6. ControlOK' /\ ToldOK'
  BY <1>1, <1>2 DEF ControlOK, ToldOK, control
<1>7. QED
  BY <1>3, <1>4, <1>5, <1>6, TKeeps

LEMMA AddTypes == ASSUME TInv, AddWatch PROVE TInv'
<1>1. DebuggerOK /\ ControlOK /\ ShownOK /\ LinkOK /\ ClickOK /\ ToldOK /\ Linked
  BY TParts
<1>2. /\ UNCHANGED <<child, session, lost, stack, stackPause, frame, control, told, inbox>>
      /\ clicks < MaxClicks /\ clicks' = clicks + 1 /\ nextDisplay <= MaxDisplays
      /\ displays' = displays \cup {nextDisplay} /\ nextDisplay' = nextDisplay + 1
  BY DEF AddWatch, Clicks
<1>3. ShownOK' /\ \E qs : AsksForViews(qs)
  BY <1>1, AddFacts
<1>4. LinkOK' /\ Linked'
  BY <1>1, <1>2, <1>3, ViewsLink DEF control
<1>5. DebuggerOK' /\ ClickOK'
  BY <1>1, <1>2, Bounds DEF DebuggerOK, ClickOK
<1>6. ControlOK' /\ ToldOK'
  BY <1>1, <1>2 DEF ControlOK, ToldOK, control
<1>7. QED
  BY <1>3, <1>4, <1>5, <1>6, TKeeps

LEMMA ToggleTypes == ASSUME TInv, ToggleVar PROVE TInv'
<1>1. DebuggerOK /\ ControlOK /\ ShownOK /\ LinkOK /\ ClickOK /\ ToldOK /\ Linked
  BY TParts
<1>2. /\ UNCHANGED <<child, session, lost, stack, stackPause, frame, control, told, inbox, displays, nextDisplay>>
      /\ clicks < MaxClicks /\ clicks' = clicks + 1
  BY DEF ToggleVar, Clicks
<1>3. ShownOK' /\ \E qs : AsksForViews(qs)
  BY <1>1, ToggleFacts
<1>4. LinkOK' /\ Linked'
  BY <1>1, <1>2, <1>3, ViewsLink DEF control
<1>5. DebuggerOK' /\ ClickOK'
  BY <1>1, <1>2, Bounds DEF DebuggerOK, ClickOK
<1>6. ControlOK' /\ ToldOK'
  BY <1>1, <1>2 DEF ControlOK, ToldOK, control
<1>7. QED
  BY <1>3, <1>4, <1>5, <1>6, TKeeps

LEMMA RemoveTypes == ASSUME TInv, NEW n \in 1 .. MaxDisplays, RemoveWatch(n) PROVE TInv'
<1>1. DebuggerOK /\ ControlOK /\ ShownOK /\ LinkOK /\ ClickOK /\ ToldOK /\ Linked
  BY TParts
<1>2. /\ UNCHANGED <<child, session, lost, stack, stackPause, frame, control, told, shown, wire, engine, pause, inbox>>
      /\ clicks < MaxClicks /\ clicks' = clicks + 1 /\ displays' = displays \ {n} /\ nextDisplay' = nextDisplay
  BY DEF RemoveWatch, Clicks
<1>3. DebuggerOK' /\ ClickOK' /\ ShownOK' /\ LinkOK' /\ ControlOK' /\ ToldOK'
  BY <1>1, <1>2, Bounds DEF DebuggerOK, ClickOK, ShownOK, LinkOK, ControlOK, ToldOK, control, shown
<1>4. Linked'
  <2>1. Connected' = Connected /\ Settled' = Settled /\ At("launch")' = At("launch")
    BY <1>2 DEF Connected, Settled, At, Ids, Place, control
  <2>2. QED
    BY <1>1, <1>2, <2>1 DEF Linked
<1>5. QED
  BY <1>3, <1>4, TKeeps


\* What leaves the debugger, the commands and the clicks alone need not be looked at for them.
LEMMA Untouched ==
  ASSUME TInv, UNCHANGED <<debugger, control, told, clicking>>
  PROVE  /\ DebuggerOK' /\ ControlOK' /\ ClickOK' /\ ToldOK'
         /\ Connected' = Connected /\ Settled' = Settled /\ At("launch")' = At("launch")
         /\ session' = session /\ lost' = lost /\ child' = child
<1>1. DebuggerOK /\ ControlOK /\ ClickOK /\ ToldOK
  BY TParts
<1>2. DebuggerOK' /\ ControlOK' /\ ClickOK' /\ ToldOK'
  BY <1>1 DEF DebuggerOK, ControlOK, ClickOK, ToldOK, debugger, control, clicking
<1>3. /\ Connected' = Connected /\ Settled' = Settled /\ At("launch")' = At("launch")
      /\ session' = session /\ lost' = lost /\ child' = child
  BY DEF Connected, Settled, At, Ids, Place, debugger, control
<1>4. QED
  BY <1>2, <1>3

\* What the engine says of a question.
Reply(q) == [what |-> q.what, seq |-> q.seq, pause |-> IF engine = "halted" THEN pause ELSE 0]

LEMMA ReplyFacts ==
  ASSUME LinkOK, NEW q \in Ask, q.what # "resume"
  PROVE  /\ Reply(q) \in Said /\ Reply(q).what = q.what /\ Reply(q).seq = q.seq
         /\ Reply(q).pause \in {0, pause} /\ (engine # "halted" => Reply(q).pause = 0)
<1>1. pause \in 0 .. MaxPauses /\ 0 \in 0 .. MaxPauses
  BY Bounds DEF LinkOK
<1>2. (IF engine = "halted" THEN pause ELSE 0) \in 0 .. MaxPauses
  BY <1>1
<1>3. q.what \in {"vars", "kids", "values", "stack", "eval"} /\ q.seq \in Nat
  BY DEF Ask
<1>4. QED
  BY <1>2, <1>3 DEF Reply, Said

LEMMA ServeTypes == ASSUME TInv, Serve PROVE TInv'
<1>1. LinkOK /\ ShownOK /\ Linked
  BY TParts
<1>2. UNCHANGED <<debugger, control, told, clicking>> /\ UNCHANGED shown /\ pause' = pause
  BY DEF Serve, EngineOnly
<1>3. wire # <<>> /\ wire' = Tail(wire) /\ wire \in Seq(Ask) /\ Head(wire) \in Ask
  BY <1>1 DEF Serve, LinkOK
<1>4. engine' \in {"none", "running", "halted"} /\ inbox' \in Seq(Said)
  <2>1. CASE Head(wire).what = "resume"
    BY <1>1, <2>1 DEF Serve, LinkOK, Linked
  <2>2. CASE Head(wire).what # "resume"
    <3>1. engine' = engine /\ inbox' = Append(inbox, Reply(Head(wire)))
      BY <2>2 DEF Serve, Reply
    <3>2. Reply(Head(wire)) \in Said
      BY <1>1, <1>3, <2>2, ReplyFacts
    <3>3. QED
      BY <1>1, <3>1, <3>2 DEF LinkOK, Linked
  <2>3. QED
    BY <2>1, <2>2
<1>5. LinkOK' /\ ShownOK'
  BY <1>1, <1>2, <1>3, <1>4 DEF LinkOK, ShownOK, shown
<1>6. Linked'
  BY <1>1, <1>2, <1>3, <1>4, Untouched DEF Linked
<1>7. QED
  BY <1>2, <1>5, <1>6, Untouched, TKeeps

LEMMA HaltsTypes == ASSUME TInv, Halts PROVE TInv'
<1>1. LinkOK /\ ShownOK /\ Linked
  BY TParts
<1>2. /\ UNCHANGED <<debugger, control, told, clicking>> /\ UNCHANGED shown
      /\ engine = "running" /\ pause < MaxPauses /\ engine' = "halted" /\ pause' = pause + 1 /\ wire' = wire
      /\ inbox' = Append(inbox, [what |-> "stop", seq |-> 0, pause |-> pause + 1])
  BY DEF Halts, EngineOnly
<1>3. pause' \in 0 .. MaxPauses
  BY <1>1, <1>2, Bounds DEF LinkOK
<1>4. [what |-> "stop", seq |-> 0, pause |-> pause + 1] \in Said
  BY <1>2, <1>3 DEF Said
<1>5. LinkOK' /\ ShownOK'
  BY <1>1, <1>2, <1>3 DEF LinkOK, ShownOK, shown
<1>6. Linked'
  BY <1>1, <1>2, <1>4, Untouched DEF Linked
<1>7. QED
  BY <1>2, <1>5, <1>6, Untouched, TKeeps

LEMMA DiesTypes == ASSUME TInv, Dies PROVE TInv'
<1>1. LinkOK /\ ShownOK /\ Linked
  BY TParts
<1>2. /\ UNCHANGED <<debugger, control, told, clicking>> /\ UNCHANGED shown
      /\ engine # "none" /\ engine' = "none" /\ pause' = pause /\ wire' = wire
      /\ inbox' = Append(inbox, [what |-> "closed", seq |-> 0, pause |-> 0])
  BY DEF Dies, EngineOnly
<1>3. [what |-> "closed", seq |-> 0, pause |-> 0] \in Said
  BY Bounds DEF Said
<1>4. LinkOK' /\ ShownOK'
  BY <1>1, <1>2 DEF LinkOK, ShownOK, shown
<1>5. Linked'
  BY <1>1, <1>2, <1>3, Untouched DEF Linked
<1>6. QED
  BY <1>2, <1>4, <1>5, Untouched, TKeeps


\* What is delivered is taken from the inbox.
LEMMA Taken ==
  ASSUME LinkOK, Linked, inbox # <<>>, Next_
  PROVE  LinkOK' /\ inbox' \in Seq(Said) /\ Connected /\ Head(inbox) \in Said
         /\ engine' = engine /\ pause' = pause /\ wire' = wire
  BY DEF Next_, LinkOK, Linked

LEMMA StopTypes == ASSUME TInv, DeliverStop PROVE TInv'
<1>1. DebuggerOK /\ ControlOK /\ ShownOK /\ LinkOK /\ ClickOK /\ ToldOK /\ Linked
  BY TParts
<1>2. /\ UNCHANGED <<debugger, busy, cmdBusy, shown, told, queued, clicking>> /\ Next_ /\ inbox # <<>>
  BY DEF DeliverStop, Deliver, Idling
<1>3. LinkOK' /\ inbox' \in Seq(Said) /\ Connected
  BY <1>1, <1>2, Taken
<1>4. DebuggerOK' /\ ShownOK' /\ ClickOK' /\ ToldOK'
  BY <1>1, <1>2 DEF DebuggerOK, ShownOK, ClickOK, ToldOK, debugger, shown, clicking
<1>5. commands' \in Seq(Command) /\ At("launch")' = At("launch")
  BY <1>1, StopFacts
<1>6. ControlOK'
  BY <1>1, <1>2, <1>5 DEF ControlOK
<1>7. Linked'
  BY <1>1, <1>2, <1>3, <1>5 DEF Linked, Connected, debugger
<1>8. QED
  BY <1>3, <1>4, <1>6, <1>7, TKeeps

LEMMA AnswerFacts ==
  ASSUME ShownOK, NEW a \in Said
  PROVE  Answer(a) \in View /\ (Answer(a).is = "said" => a.pause # 0 /\ Answer(a).seq = a.seq /\ Answer(a).pause = a.pause)
  BY Views DEF Answer, Said

LEMMA AnswerTypes == ASSUME TInv, DeliverAnswer PROVE TInv'
<1>1. ShownOK /\ LinkOK /\ Linked
  BY TParts
<1>2. /\ UNCHANGED <<debugger, control, told, clicking>> /\ Next_ /\ inbox # <<>>
      /\ UNCHANGED <<varsSeq, dispSeq, expanded>>
  BY DEF DeliverAnswer, Deliver, Idling, control
<1>3. LinkOK' /\ inbox' \in Seq(Said) /\ Connected /\ Head(inbox) \in Said
  BY <1>1, <1>2, Taken
<1>4. /\ vars' \in {vars, Answer(Head(inbox))} /\ kids' \in {kids, Answer(Head(inbox))}
      /\ values' \in {values, Answer(Head(inbox))}
  BY DEF DeliverAnswer
<1>5. ShownOK'
  BY <1>1, <1>2, <1>3, <1>4, AnswerFacts DEF ShownOK
<1>6. Linked'
  BY <1>1, <1>2, <1>3, Untouched DEF Linked
<1>7. QED
  BY <1>2, <1>3, <1>5, <1>6, Untouched, TKeeps

LEMMA ResultTypes == ASSUME TInv, DeliverResult PROVE TInv'
<1>1. DebuggerOK /\ ControlOK /\ ShownOK /\ LinkOK /\ ClickOK /\ ToldOK /\ Linked
  BY TParts
<1> PICK a : a = Head(inbox)
  OBVIOUS
<1>2. /\ UNCHANGED <<queued, clicking>> /\ inbox' = Tail(inbox) /\ UNCHANGED <<engine, pause>>
      /\ inbox # <<>> /\ Settled
      /\ UNCHANGED <<child, session, lost>>
  BY DEF DeliverResult, GetStack, Deliver, Idling, debugger
<1>3. inbox' \in Seq(Said) /\ Connected /\ a \in Said
  BY <1>1, <1>2 DEF Linked
<1>4. ShownOK' /\ LinkOK' /\ ClickOK' /\ ToldOK'
  <2>1. CASE UNCHANGED <<shown, told, wire>>
    BY <1>1, <1>2, <2>1 DEF ShownOK, LinkOK, ClickOK, ToldOK, shown, clicking
  <2>2. ASSUME NEW n \in 1 .. MaxDepth, OnStopped(a.seq, n) PROVE ShownOK' /\ LinkOK' /\ ClickOK' /\ ToldOK'
    <3>1. n \in Nat /\ RefreshVars(n) /\ told' = "stopped"
      BY <2>2, Bounds DEF OnStopped
    <3>2. ShownOK' /\ \E qs : AsksForViews(qs)
      BY <1>1, <1>2, <3>1, RefreshFacts
    <3>3. LinkOK'
      BY <1>1, <1>2, <3>2 DEF LinkOK, AsksForViews
    <3>4. QED
      BY <1>1, <1>2, <3>1, <3>2, <3>3 DEF ClickOK, ToldOK, clicking
  <2>3. QED
    BY <2>1, <2>2 DEF DeliverResult, GetStack
<1>5. PICK place \in {"judge", "over"} : Goes({a.seq}, place)
  BY DEF DeliverResult, GetStack, OnStopped
<1>6. /\ commands' \in Seq(Command) /\ busy' \in BOOLEAN /\ cmdBusy' \in BOOLEAN
      /\ \A p \in {"launch", "stopped", "entered"} : At(p)' \subseteq At(p)
  <2>1. place \in Places /\ place \notin {"launch", "stopped", "entered"}
    BY <1>5 DEF Places
  <2>2. QED
    BY <1>1, <1>5, <2>1, GoesFacts
<1>7. ControlOK'
  BY <1>1, <1>2, <1>6 DEF ControlOK
<1>8. DebuggerOK'
  <2>1. CASE UNCHANGED debugger
    BY <1>1, <2>1 DEF DebuggerOK, debugger
  <2>2. CASE ~UNCHANGED debugger
    <3>1. stack' \in 1 .. MaxDepth /\ frame' = 0 /\ stackPause' = a.pause
      BY <2>2 DEF DeliverResult, GetStack, OnStopped
    <3>2. a.pause \in 0 .. MaxPauses
      BY <1>3 DEF Said
    <3>3. QED
      BY <1>1, <1>2, <1>3, <3>1, <3>2, Bounds DEF DebuggerOK, Connected
  <2>3. QED
    BY <2>1, <2>2
<1>9. Linked'
  <2>1. Connected' /\ (lost' => session')
    BY <1>1, <1>2, <1>3 DEF Connected, Linked
  <2>2. At("launch") = {}
    BY <1>1, <1>3 DEF Linked, Connected
  <2>3. At("launch")' = {}
    BY <1>6, <2>2
  <2>4. QED
    BY <1>3, <2>1, <2>3 DEF Linked
<1>10. QED
  BY <1>4, <1>7, <1>8, <1>9, TKeeps

\* What ends with the connection.
LEMMA EndedFacts ==
  /\ Ended \subseteq InProgress
  /\ \A p \in {"launch", "entered", "stopped", "judge", "hung", "over"} : At(p) \cap Ended = {}
  /\ At("entry") \subseteq Ended /\ At("running") \subseteq Ended /\ At("stack") \subseteq Ended /\ At("eval") \subseteq Ended
  BY DEF Ended, At, InProgress

LEMMA ResetFacts ==
  ASSUME ShownOK, NEW kind \in {"running", "exited"}, Reset(kind)
  PROVE  /\ ShownOK' /\ ToldOK' /\ told' = kind /\ varsSeq' = varsSeq + 1 /\ dispSeq' = dispSeq + 1
         /\ vars' = Nothing /\ kids' = Nothing /\ values' = Nothing
<1>1. /\ varsSeq' = varsSeq + 1 /\ dispSeq' = dispSeq + 1 /\ told' = kind /\ expanded' = FALSE
      /\ vars' = Nothing /\ kids' = Nothing /\ values' = Nothing
  BY DEF Reset
<1>2. Nothing \in View
  BY Views
<1>3. varsSeq \in Nat /\ dispSeq \in Nat
  BY DEF ShownOK
<1>4. varsSeq' \in Nat /\ dispSeq' \in Nat
  BY <1>1, <1>3
<1>5. vars' \in View /\ kids' \in View /\ values' \in View /\ expanded' \in BOOLEAN
  BY <1>1, <1>2
<1>6. ShownOK'
  BY <1>4, <1>5 DEF ShownOK
<1>7. ToldOK'
  BY <1>1 DEF ToldOK
<1>8. QED
  BY <1>1, <1>6, <1>7

LEMMA RejectFacts ==
  ASSUME ShownOK, NEW asks, Reject(asks)
  PROVE  /\ ShownOK' /\ UNCHANGED <<varsSeq, dispSeq>>
         /\ vars' \in {vars, Gone} /\ kids' \in {kids, Gone} /\ values' \in {values, Gone}
  BY Views DEF Reject, ShownOK, Failed

LEMMA ForgetFacts ==
  ASSUME DebuggerOK, Forget
  PROVE  DebuggerOK' /\ ~session' /\ ~child' /\ ~lost' /\ stack' = 0 /\ stackPause' = stackPause
<1>1. /\ child' = FALSE /\ session' = FALSE /\ lost' = FALSE /\ stack' = 0 /\ frame' = 0
      /\ stackPause' = stackPause
  BY DEF Forget
<1>2. stackPause' \in 0 .. MaxPauses /\ stack' \in 0 .. MaxDepth /\ ~(stack' > 0)
  BY <1>1, Bounds DEF DebuggerOK
<1>3. DebuggerOK'
  BY <1>1, <1>2 DEF DebuggerOK
<1>4. QED
  BY <1>1, <1>3

LEMMA HangupFacts ==
  ASSUME LinkOK, Hangup
  PROVE  LinkOK' /\ inbox' \in Seq(Said) /\ engine' = "none" /\ wire' = <<>> /\ inbox' = <<>> /\ pause' = pause
  BY EmptyFacts DEF Hangup, LinkOK

LEMMA CloseTypes == ASSUME TInv, DeliverClose PROVE TInv'
<1>1. DebuggerOK /\ ControlOK /\ ShownOK /\ LinkOK /\ ClickOK /\ ToldOK /\ Linked
  BY TParts
<1>2. /\ UNCHANGED <<queued, clicking>> /\ Hangup /\ inbox # <<>> /\ Settled /\ Goes(Ended, "over")
  BY DEF DeliverClose, Deliver, Idling, Exit
<1>3. Connected /\ At("launch") = {}
  BY <1>1, <1>2 DEF Linked, Connected
<1>4. LinkOK' /\ inbox' \in Seq(Said) /\ engine' = "none" /\ wire' = <<>> /\ inbox' = <<>>
  BY <1>1, <1>2, HangupFacts
<1>5. /\ commands' \in Seq(Command) /\ busy' \in BOOLEAN /\ cmdBusy' \in BOOLEAN
      /\ \A p \in {"launch", "stopped", "entered"} : At(p)' \subseteq At(p)
  <2>1. "over" \in Places /\ "over" \notin {"launch", "stopped", "entered"}
    BY DEF Places
  <2>2. QED
    BY <1>1, <1>2, <2>1, GoesFacts
<1>6. ControlOK' /\ ClickOK'
  BY <1>1, <1>2, <1>5 DEF ControlOK, ClickOK, clicking
<1>7. At("launch")' = {} /\ At("stopped")' = {} /\ At("entered")' = {}
  BY <1>2, <1>3, <1>5 DEF Settled
<1>8. CASE At("running") \cup At("entry") # {}
  <2>1. Reset("exited") /\ Forget
    BY <1>8 DEF DeliverClose, Exit
  <2>2. ShownOK' /\ ToldOK' /\ DebuggerOK' /\ ~lost'
    BY <1>1, <2>1, ResetFacts, ForgetFacts
  <2>3. Linked'
    BY <1>4, <1>7, <2>2 DEF Linked, Settled
  <2>4. QED
    BY <1>4, <1>6, <2>2, <2>3, TKeeps
<1>9. CASE At("running") \cup At("entry") = {}
  <2>1. lost' = TRUE /\ Reject(Outstanding) /\ UNCHANGED <<child, session, stack, stackPause, frame, told>>
    BY <1>9 DEF DeliverClose
  <2>2. ShownOK' /\ ToldOK' /\ DebuggerOK' /\ session'
    BY <1>1, <1>3, <2>1, RejectFacts DEF ToldOK, DebuggerOK, Connected
  <2>3. Linked'
    BY <1>4, <1>7, <2>1, <2>2 DEF Linked, Settled
  <2>4. QED
    BY <1>4, <1>6, <2>2, <2>3, TKeeps
<1>10. QED
  BY <1>8, <1>9


LEMMA SubmitTypes == ASSUME TInv, Submit PROVE TInv'
<1>1. DebuggerOK /\ ControlOK /\ ShownOK /\ LinkOK /\ ClickOK /\ ToldOK /\ Linked
  BY TParts
<1>2. /\ UNCHANGED <<debugger, busy, commands, cmdBusy, shown, told, link, clicking>>
      /\ queued < MaxQueue /\ queued' = queued + 1
  BY DEF Submit
<1>3. DebuggerOK' /\ ShownOK' /\ LinkOK' /\ ClickOK' /\ ToldOK'
  BY <1>1, <1>2 DEF DebuggerOK, ShownOK, LinkOK, ClickOK, ToldOK, debugger, shown, link, clicking
<1>4. ControlOK'
  BY <1>1, <1>2, Bounds DEF ControlOK
<1>5. Linked'
  <2>1. Connected' = Connected /\ Settled' = Settled /\ At("launch")' = At("launch")
    BY <1>2 DEF Connected, Settled, At, Ids, Place, debugger
  <2>2. QED
    BY <1>1, <1>2, <2>1 DEF Linked, debugger, link
<1>6. QED
  BY <1>3, <1>4, <1>5, TKeeps

LEMMA ConnectsTypes == ASSUME TInv, NEW c \in Ids, Connects(c) PROVE TInv'
<1>1. DebuggerOK /\ ControlOK /\ ShownOK /\ LinkOK /\ ClickOK /\ ToldOK /\ Linked
  BY TParts
<1>2. /\ UNCHANGED <<child, lost, stack, stackPause, frame, shown, told, pause, wire, inbox, queued, clicking>>
      /\ Settled /\ Place(c) = "launch" /\ session' = TRUE /\ engine' = "running" /\ Goes({c}, "entry")
  BY DEF Connects, Idling
<1>3. c \in At("launch") /\ child /\ ~session /\ ~lost /\ At("launch") = {c}
  <2>1. c \in At("launch")
    BY <1>2 DEF At
  <2>2. QED
    BY <1>1, <2>1 DEF Linked
<1>4. /\ commands' \in Seq(Command) /\ busy' \in BOOLEAN /\ cmdBusy' \in BOOLEAN
      /\ At("launch")' = {} /\ At("stopped")' = At("stopped") \ {c} /\ At("entered")' = At("entered") \ {c}
  <2>1. "entry" \in Places
    BY DEF Places
  <2>2. QED
    BY <1>1, <1>2, <1>3, <2>1, GoesFacts
<1>5. DebuggerOK'
  BY <1>1, <1>2, <1>3 DEF DebuggerOK
<1>6. ShownOK' /\ LinkOK' /\ ClickOK' /\ ToldOK'
  BY <1>1, <1>2 DEF ShownOK, LinkOK, ClickOK, ToldOK, shown, clicking
<1>7. ControlOK'
  BY <1>1, <1>2, <1>4 DEF ControlOK
<1>8. Linked'
  <2>1. Connected' /\ session'
    BY <1>2, <1>3 DEF Connected
  <2>2. QED
    BY <1>1, <1>2, <1>4, <2>1 DEF Linked
<1>9. QED
  BY <1>5, <1>6, <1>7, <1>8, TKeeps

\* A command goes on that is at none of the places the types look at, or leaves one.
LEMMA GoesTypes ==
  ASSUME ControlOK, NEW c \in Ids, NEW place \in Places \ {"launch", "stopped", "entered"}, Goes({c}, place),
         queued' = queued
  PROVE  /\ ControlOK' /\ At("launch")' \subseteq At("launch")
         /\ At("stopped")' \subseteq At("stopped") /\ At("entered")' \subseteq At("entered")
         /\ Settled => Settled'
<1>1. place \in Places /\ place \notin {"launch", "stopped", "entered"}
  OBVIOUS
<1>2. /\ commands' \in Seq(Command) /\ busy' \in BOOLEAN /\ cmdBusy' \in BOOLEAN
      /\ \A p : At(p)' = (At(p) \ {c}) \cup (IF p = place THEN {c} \cap Ids ELSE {})
  BY <1>1, GoesFacts
<1>3. /\ At("launch")' \subseteq At("launch")
      /\ At("stopped")' \subseteq At("stopped") /\ At("entered")' \subseteq At("entered")
  BY <1>1, <1>2
<1>4. QED
  BY <1>2, <1>3 DEF ControlOK, Settled

LEMMA SendFacts ==
  ASSUME TInv, Connected, SendResume, At("launch")' \subseteq At("launch")
  PROVE  DebuggerOK' /\ ShownOK' /\ LinkOK' /\ ToldOK' /\ Linked'
<1>1. DebuggerOK /\ ShownOK /\ LinkOK /\ Linked
  BY TParts
<1>2. /\ Reset("running") /\ wire' = Append(wire, Question("resume", 0))
      /\ UNCHANGED <<debugger, engine, pause, inbox>>
  BY DEF SendResume
<1>3. ShownOK' /\ ToldOK'
  BY <1>1, <1>2, ResetFacts
<1>4. wire' \in Seq(Ask)
  BY <1>1, <1>2, Questions DEF LinkOK
<1>5. DebuggerOK' /\ LinkOK'
  BY <1>1, <1>2, <1>4 DEF DebuggerOK, LinkOK, debugger
<1>6. Connected'
  BY <1>2 DEF Connected, debugger
<1>7. Linked'
  BY <1>1, <1>2, <1>6 DEF Linked, debugger
<1>8. QED
  BY <1>3, <1>5, <1>7

LEMMA EnteredTypes == ASSUME TInv, NEW c \in Ids, Entered(c) PROVE TInv'
<1>1. DebuggerOK /\ ControlOK /\ ShownOK /\ LinkOK /\ ClickOK /\ ToldOK /\ Linked
  BY TParts
<1>2. Place(c) = "entered" /\ SendResume /\ Goes({c}, "running") /\ UNCHANGED <<queued, clicking>>
  BY DEF Entered, Idling
<1>3. Connected
  <2>1. c \in At("entered")
    BY <1>2 DEF At
  <2>2. QED
    BY <1>1, <2>1 DEF Linked, Settled
<1>4. "running" \in Places \ {"launch", "stopped", "entered"}
  BY DEF Places
<1>5. ControlOK' /\ At("launch")' \subseteq At("launch")
  BY <1>1, <1>2, <1>4, GoesTypes
<1>6. DebuggerOK' /\ ShownOK' /\ LinkOK' /\ ToldOK' /\ Linked'
  BY <1>2, <1>3, <1>5, SendFacts
<1>7. ClickOK'
  BY <1>1, <1>2 DEF ClickOK, clicking
<1>8. QED
  BY <1>5, <1>6, <1>7, TKeeps

LEMMA AskStackTypes == ASSUME TInv, NEW c \in Ids, AskStack(c) PROVE TInv'
<1>1. DebuggerOK /\ ControlOK /\ ShownOK /\ LinkOK /\ ClickOK /\ ToldOK /\ Linked
  BY TParts
<1>2. /\ Place(c) \in {"stopped", "entered"} /\ Goes({c}, "stack") /\ wire' = Asked(<<Question("stack", c)>>)
      /\ UNCHANGED <<debugger, shown, told, engine, pause, inbox, queued, clicking>>
  BY DEF AskStack, Idling
<1>3. Connected
  <2>1. c \in At("stopped") \cup At("entered")
    BY <1>2 DEF At
  <2>2. QED
    BY <1>1, <2>1 DEF Linked, Settled
<1>4. "stack" \in Places \ {"launch", "stopped", "entered"}
  BY DEF Places
<1>5. ControlOK' /\ At("launch")' \subseteq At("launch")
  BY <1>1, <1>2, <1>4, GoesTypes
<1>6. wire' \in Seq(Ask)
  <2>1. c \in Nat
    BY <1>1 DEF ControlOK, Ids
  <2>2. Question("stack", c) \in Ask
    BY <2>1, Questions
  <2>3. QED
    BY <1>1, <1>2, <2>2 DEF Asked, LinkOK
<1>7. DebuggerOK' /\ ShownOK' /\ LinkOK' /\ ClickOK' /\ ToldOK'
  BY <1>1, <1>2, <1>6 DEF DebuggerOK, ShownOK, LinkOK, ClickOK, ToldOK, debugger, shown, clicking
<1>8. Linked'
  <2>1. Connected' /\ session' = session /\ lost' = lost /\ child' = child
    BY <1>2, <1>3 DEF Connected, debugger
  <2>2. QED
    BY <1>1, <1>2, <1>5, <2>1 DEF Linked
<1>9. QED
  BY <1>5, <1>7, <1>8, TKeeps

LEMMA ReportTypes == ASSUME TInv, NEW c \in Ids, Report(c) PROVE TInv'
<1>1. DebuggerOK /\ ControlOK /\ ShownOK /\ LinkOK /\ ClickOK /\ ToldOK /\ Linked
  BY TParts
<1>2. /\ told' = "stopped" /\ frame' = 0 /\ RefreshVars(stack) /\ Goes({c}, "over") /\ stack \in Nat
      /\ UNCHANGED <<child, session, lost, stack, stackPause, engine, pause, inbox, queued, clicking>>
  BY <1>1, Bounds DEF Report, OnStopped, Idling, DebuggerOK
<1>3. ShownOK' /\ \E qs : AsksForViews(qs)
  BY <1>1, <1>2, RefreshFacts
<1>4. "over" \in Places \ {"launch", "stopped", "entered"}
  BY DEF Places
<1>5. ControlOK' /\ At("launch")' \subseteq At("launch") /\ (Settled => Settled')
  BY <1>1, <1>2, <1>4, GoesTypes
<1>6. LinkOK' /\ Linked'
  BY <1>1, <1>2, <1>3, <1>5, AsksLink
<1>7. DebuggerOK' /\ ClickOK' /\ ToldOK'
  BY <1>1, <1>2 DEF DebuggerOK, ClickOK, ToldOK, clicking
<1>8. QED
  BY <1>3, <1>5, <1>6, <1>7, TKeeps


\* The debuggee is gone, and all that was on its way with it.
LEMMA ExitFacts ==
  ASSUME TInv, Exit, At("launch")' = {}, Settled'
  PROVE  DebuggerOK' /\ ShownOK' /\ LinkOK' /\ ToldOK' /\ Linked'
<1>1. DebuggerOK /\ ShownOK /\ LinkOK /\ Linked
  BY TParts
<1>2. Reset("exited") /\ Forget /\ Hangup
  BY DEF Exit
<1>3. ShownOK' /\ ToldOK' /\ DebuggerOK' /\ ~lost'
  BY <1>1, <1>2, ResetFacts, ForgetFacts
<1>4. LinkOK' /\ inbox' \in Seq(Said) /\ engine' = "none" /\ wire' = <<>> /\ inbox' = <<>>
  BY <1>1, <1>2, HangupFacts
<1>5. Linked'
  BY <1>3, <1>4 DEF Linked
<1>6. QED
  BY <1>3, <1>4, <1>5

LEMMA PassOverTypes == ASSUME TInv, NEW c \in Ids, PassOver(c) PROVE TInv'
<1>1. DebuggerOK /\ ControlOK /\ ShownOK /\ LinkOK /\ ClickOK /\ ToldOK /\ Linked
  BY TParts
<1>2. Settled /\ UNCHANGED <<queued, clicking>>
  BY DEF PassOver, Idling
<1>3. "over" \in Places \ {"launch", "stopped", "entered"} /\ "running" \in Places \ {"launch", "stopped", "entered"}
  BY DEF Places
<1>4. ClickOK'
  BY <1>1, <1>2 DEF ClickOK, clicking
<1>5. CASE Connected /\ SendResume /\ Goes({c}, "running")
  <2>1. ControlOK' /\ At("launch")' \subseteq At("launch")
    BY <1>1, <1>2, <1>3, <1>5, GoesTypes
  <2>2. DebuggerOK' /\ ShownOK' /\ LinkOK' /\ ToldOK' /\ Linked'
    BY <1>5, <2>1, SendFacts
  <2>3. QED
    BY <1>4, <2>1, <2>2, TKeeps
<1>6. CASE lost /\ Exit /\ Goes({c}, "over")
  <2>1. ControlOK' /\ At("launch")' \subseteq At("launch") /\ Settled'
    BY <1>1, <1>2, <1>3, <1>6, GoesTypes
  <2>2. At("launch") = {}
    BY <1>1, <1>6 DEF Linked
  <2>3. DebuggerOK' /\ ShownOK' /\ LinkOK' /\ ToldOK' /\ Linked'
    BY <1>6, <2>1, <2>2, ExitFacts
  <2>4. QED
    BY <1>4, <2>1, <2>3, TKeeps
<1>7. CASE ~session /\ Reset("running") /\ Goes({c}, "over") /\ UNCHANGED <<debugger, link>>
  <2>1. ControlOK' /\ At("launch")' \subseteq At("launch") /\ Settled'
    BY <1>1, <1>2, <1>3, <1>7, GoesTypes
  <2>2. ShownOK' /\ ToldOK'
    BY <1>1, <1>7, ResetFacts
  <2>3. DebuggerOK' /\ LinkOK'
    BY <1>1, <1>7 DEF DebuggerOK, LinkOK, debugger, link
  <2>4. Connected' = Connected
    BY <1>7 DEF Connected, debugger
  <2>5. Linked'
    BY <1>1, <1>2, <1>7, <2>1, <2>4 DEF Linked, debugger, link
  <2>6. QED
    BY <1>4, <2>1, <2>2, <2>3, <2>5, TKeeps
<1>8. QED
  BY <1>5, <1>6, <1>7 DEF PassOver

\* A command is given that does not launch.
LEMMA GivenTypes ==
  ASSUME ControlOK, Settled, NEW w \in Words, NEW from \in {"console", "toolbar"},
         NEW place \in {"over", "running", "eval"}, NEW kills \in BOOLEAN,
         Executed(w, from, place, kills), queued' \in 0 .. MaxQueue
  PROVE  ControlOK' /\ At("launch")' \subseteq At("launch") /\ Settled' /\ (kills => At("launch")' = {})
<1>1. place \in Places /\ place \notin {"launch", "stopped", "entered", "hung"}
  BY DEF Places
<1>2. /\ commands' \in Seq(Command) /\ busy' \in BOOLEAN /\ cmdBusy' \in BOOLEAN
      /\ \A p \in {"launch", "stopped", "entered"} : At(p)' \subseteq At(p)
      /\ kills => At("launch")' = {}
  <2>1. CASE kills = FALSE
    <3>1. Executed(w, from, place, FALSE)
      BY <2>1
    <3>2. Given(place, {}, {})
      BY <1>1, <3>1, ExecutedQuietly
    <3>3. QED
      BY <1>1, <2>1, <3>2 DEF Given
  <2>2. CASE kills = TRUE
    <3>1. Executed(w, from, place, TRUE)
      BY <2>2
    <3>2. Given(place, Ended, At("launch"))
      BY <1>1, <3>1, ExecutedKilling
    <3>3. QED
      BY <1>1, <3>2 DEF Given
  <2>3. QED
    BY <2>1, <2>2
<1>3. At("stopped")' = {} /\ At("entered")' = {}
  BY <1>2 DEF Settled
<1>4. QED
  BY <1>2, <1>3 DEF ControlOK, Settled

LEMMA RunTypes ==
  ASSUME TInv, Settled, NEW w \in Words, NEW from \in {"console", "toolbar"}, Run(w, from),
         queued' \in 0 .. MaxQueue, UNCHANGED clicking
  PROVE  TInv'
<1>1. DebuggerOK /\ ControlOK /\ ShownOK /\ LinkOK /\ ClickOK /\ ToldOK /\ Linked
  BY TParts
<1>2. /\ Reset("running") /\ Hangup /\ Executed(w, from, "launch", TRUE)
      /\ child' = TRUE /\ session' = FALSE /\ lost' = FALSE
      /\ stack' = (IF session THEN 0 ELSE stack) /\ frame' = (IF session THEN 0 ELSE frame) /\ stackPause' = stackPause
  BY DEF Run
<1>3. ShownOK' /\ ToldOK'
  BY <1>1, <1>2, ResetFacts
<1>4. LinkOK' /\ inbox' \in Seq(Said) /\ engine' = "none" /\ wire' = <<>> /\ inbox' = <<>>
  BY <1>1, <1>2, HangupFacts
<1>5. stack' = 0 /\ frame' = 0
  BY <1>1, <1>2 DEF DebuggerOK
<1>6. DebuggerOK'
  <2>1. child' = TRUE /\ session' = FALSE /\ lost' = FALSE /\ stackPause' \in 0 .. MaxPauses
    BY <1>1, <1>2 DEF DebuggerOK
  <2>2. stack' \in 0 .. MaxDepth /\ ~(stack' > 0)
    BY <1>5, Bounds
  <2>3. QED
    BY <1>5, <2>1, <2>2 DEF DebuggerOK
<1>7. /\ commands' \in Seq(Command) /\ busy' \in BOOLEAN /\ cmdBusy' \in BOOLEAN
      /\ At("launch")' = {NextId} /\ At("stopped")' = {} /\ At("entered")' = {}
  <2>1. "launch" \in Places /\ TRUE \in BOOLEAN
    BY DEF Places
  <2>2. Given("launch", Ended, At("launch"))
    BY <1>1, <1>2, <2>1, ExecutedKilling
  <2>3. At("stopped") = {} /\ At("entered") = {}
    BY DEF Settled
  <2>4. QED
    BY <2>2, <2>3 DEF Given
<1>8. ControlOK' /\ ClickOK'
  BY <1>1, <1>7 DEF ControlOK, ClickOK, clicking
<1>9. Linked'
  BY <1>2, <1>4, <1>7 DEF Linked, Settled
<1>10. QED
  BY <1>3, <1>4, <1>6, <1>8, <1>9, TKeeps

LEMMA ExecuteTypes ==
  ASSUME TInv, Settled, NEW w \in Words, NEW from \in {"console", "toolbar"}, Execute(w, from),
         queued' \in 0 .. MaxQueue, UNCHANGED clicking
  PROVE  TInv'
<1>1. DebuggerOK /\ ControlOK /\ ShownOK /\ LinkOK /\ ClickOK /\ ToldOK /\ Linked
  BY TParts
<1>2. ClickOK'
  BY <1>1 DEF ClickOK, clicking
<1>3. CASE Refused(w) /\ Executed(w, from, "over", FALSE) /\ UNCHANGED <<debugger, shown, told, link>>
  <2>1. ControlOK' /\ At("launch")' \subseteq At("launch") /\ Settled'
    BY <1>1, <1>3, GivenTypes
  <2>2. DebuggerOK' /\ ShownOK' /\ LinkOK' /\ ToldOK'
    BY <1>1, <1>3 DEF DebuggerOK, ShownOK, LinkOK, ToldOK, debugger, shown, link
  <2>3. Connected' = Connected
    BY <1>3 DEF Connected, debugger
  <2>4. Linked'
    BY <1>1, <1>3, <2>1, <2>3 DEF Linked, debugger, link
  <2>5. QED
    BY <1>2, <2>1, <2>2, <2>4, TKeeps
<1>4. CASE w \in {"run", "starti"} /\ Run(w, from)
  BY <1>4, RunTypes
<1>5. CASE w = "continue" /\ Connected /\ SendResume /\ Executed("continue", from, "running", FALSE)
  <2>1. ControlOK' /\ At("launch")' \subseteq At("launch")
    BY <1>1, <1>5, GivenTypes
  <2>2. DebuggerOK' /\ ShownOK' /\ LinkOK' /\ ToldOK' /\ Linked'
    BY <1>5, <2>1, SendFacts
  <2>3. QED
    BY <1>2, <2>1, <2>2, TKeeps
<1>6. CASE w = "continue" /\ lost /\ Exit /\ Executed("continue", from, "over", TRUE)
  <2>1. ControlOK' /\ At("launch")' = {} /\ Settled'
    BY <1>1, <1>6, GivenTypes
  <2>2. DebuggerOK' /\ ShownOK' /\ LinkOK' /\ ToldOK' /\ Linked'
    BY <1>6, <2>1, ExitFacts
  <2>3. QED
    BY <1>2, <2>1, <2>2, TKeeps
<1>7. CASE w = "print" /\ Evaluate(from)
  <2>1. /\ wire' = Asked(<<Question("eval", Len(commands) + 1)>>)
        /\ Executed("print", from, IF lost THEN "over" ELSE "eval", FALSE)
        /\ UNCHANGED <<debugger, shown, told, engine, pause, inbox>>
    BY <1>7 DEF Evaluate
  <2>2. ControlOK' /\ At("launch")' \subseteq At("launch") /\ Settled'
    BY <1>1, <1>7, <2>1, GivenTypes
  <2>3. wire' \in Seq(Ask) /\ (wire' # <<>> => wire # <<>> \/ Connected)
    <3>1. Len(commands) + 1 \in Nat
      BY <1>1 DEF ControlOK
    <3>2. Question("eval", Len(commands) + 1) \in Ask
      BY <3>1, Questions
    <3>3. QED
      BY <1>1, <2>1, <3>2 DEF Asked, LinkOK
  <2>4. DebuggerOK' /\ ShownOK' /\ LinkOK' /\ ToldOK'
    BY <1>1, <2>1, <2>3 DEF DebuggerOK, ShownOK, LinkOK, ToldOK, debugger, shown
  <2>5. Connected' = Connected
    BY <2>1 DEF Connected, debugger
  <2>6. Linked'
    BY <1>1, <2>1, <2>2, <2>3, <2>5 DEF Linked, debugger
  <2>7. QED
    BY <1>2, <2>2, <2>4, <2>6, TKeeps
<1>8. CASE w = "frame" /\ ~Refused(w) /\ Frame(from)
  <2>1. /\ frame' \in 0 .. stack - 1 /\ Executed("frame", from, "over", FALSE)
        /\ UNCHANGED <<child, session, lost, stack, stackPause, shown, told, link>>
    BY <1>8 DEF Frame
  <2>2. ControlOK' /\ At("launch")' \subseteq At("launch") /\ Settled'
    BY <1>1, <1>8, <2>1, GivenTypes
  <2>3. DebuggerOK' /\ ShownOK' /\ LinkOK' /\ ToldOK'
    BY <1>1, <2>1, Bounds DEF DebuggerOK, ShownOK, LinkOK, ToldOK, shown, link
  <2>4. Connected' = Connected
    BY <2>1 DEF Connected
  <2>5. Linked'
    BY <1>1, <2>1, <2>2, <2>4 DEF Linked, link
  <2>6. QED
    BY <1>2, <2>2, <2>3, <2>5, TKeeps
<1>9. CASE w = "kill" /\ Kill(from)
  <2>1. Forget /\ Hangup /\ Reject(Outstanding) /\ Executed("kill", from, "over", TRUE) /\ told' = told
    BY <1>9 DEF Kill
  <2>2. ControlOK' /\ At("launch")' = {} /\ Settled'
    BY <1>1, <1>9, <2>1, GivenTypes
  <2>3. ShownOK' /\ ToldOK' /\ DebuggerOK' /\ ~lost'
    BY <1>1, <2>1, RejectFacts, ForgetFacts DEF ToldOK
  <2>4. LinkOK' /\ inbox' \in Seq(Said) /\ engine' = "none" /\ wire' = <<>> /\ inbox' = <<>>
    BY <1>1, <2>1, HangupFacts
  <2>5. Linked'
    BY <2>2, <2>3, <2>4 DEF Linked
  <2>6. QED
    BY <1>2, <2>2, <2>3, <2>4, <2>5, TKeeps
<1>10. QED
  BY <1>3, <1>4, <1>5, <1>6, <1>7, <1>8, <1>9 DEF Execute, Continue


LEMMA PressTypes == ASSUME TInv, NEW w \in Words, Press(w) PROVE TInv'
<1>1. Settled /\ Execute(w, "toolbar") /\ UNCHANGED <<queued, clicking>>
  BY DEF Press
<1>2. queued' \in 0 .. MaxQueue
  BY <1>1, TParts DEF ControlOK
<1>3. QED
  BY <1>1, <1>2, ExecuteTypes

LEMMA DrainTypes == ASSUME TInv, NEW w \in Words, Drain(w) PROVE TInv'
<1>1. Settled /\ Execute(w, "console") /\ queued > 0 /\ queued' = queued - 1 /\ UNCHANGED clicking
  BY DEF Drain
<1>2. queued' \in 0 .. MaxQueue
  BY <1>1, TParts, Bounds DEF ControlOK
<1>3. QED
  BY <1>1, <1>2, ExecuteTypes

LEMMA InitTypes == Init => TInv
<1> SUFFICES ASSUME Init PROVE TInv
  OBVIOUS
<1> PICK none : none = <<>>
  OBVIOUS
<1>a. none \in Seq(Command) /\ none \in Seq(Ask)
  BY EmptyFacts
<1>b. /\ child = FALSE /\ session = FALSE /\ lost = FALSE /\ stack = 0 /\ stackPause = 0 /\ frame = 0
      /\ busy = FALSE /\ displays = {} /\ commands = none /\ queued = 0 /\ cmdBusy = FALSE /\ told = "none"
      /\ engine = "none" /\ pause = 0 /\ wire = none /\ clicks = 0 /\ nextDisplay = 1
  BY DEF Init
<1>c. /\ stack \in 0 .. MaxDepth /\ stackPause \in 0 .. MaxPauses /\ ~(stack > 0) /\ queued \in 0 .. MaxQueue
      /\ pause \in 0 .. MaxPauses /\ clicks \in 0 .. MaxClicks /\ nextDisplay \in 1 .. MaxDisplays + 1
  BY <1>b, Bounds
<1>1. DebuggerOK /\ ClickOK /\ ToldOK
  BY <1>b, <1>c DEF DebuggerOK, ClickOK, ToldOK
<1>2. ControlOK /\ LinkOK
  BY <1>a, <1>b, <1>c DEF ControlOK, LinkOK
<1>3. ShownOK
  BY Views DEF Init, ShownOK
<1>4. Ids = {}
  BY EmptyFacts DEF Init, Ids
<1>5. \A p : At(p) = {}
  BY <1>4 DEF At
<1>6. Linked
  BY <1>5, EmptyFacts DEF Init, Linked, Settled
<1>7. QED
  BY <1>1, <1>2, <1>3, <1>6, TParts

LEMMA NextTypes == TInv /\ [Next]_all => TInv'
<1> SUFFICES ASSUME TInv, [Next]_all PROVE TInv'
  OBVIOUS
<1>1. CASE \E w \in Words : Press(w) \/ Drain(w)
  BY <1>1, PressTypes, DrainTypes
<1>2. CASE Submit
  BY <1>2, SubmitTypes
<1>3. CASE Continuation
  BY <1>3, EnteredTypes, AskStackTypes, ReportTypes, PassOverTypes DEF Continuation
<1>4. CASE \E c \in Ids : Connects(c)
  BY <1>4, ConnectsTypes
<1>5. CASE \E i \in 0 .. MaxDepth - 1 : SelectFrame(i)
  BY <1>5, SelectTypes
<1>6. CASE AddWatch \/ ToggleVar \/ \E n \in 1 .. MaxDisplays : RemoveWatch(n)
  BY <1>6, AddTypes, ToggleTypes, RemoveTypes
<1>7. CASE Serve \/ Halts \/ Dies
  BY <1>7, ServeTypes, HaltsTypes, DiesTypes
<1>8. CASE Delivery
  BY <1>8, StopTypes, AnswerTypes, ResultTypes, CloseTypes DEF Delivery
<1>9. CASE UNCHANGED all
  <2>1. UNCHANGED <<debugger, control, told, clicking>> /\ UNCHANGED <<shown, link>>
    BY <1>9 DEF all
  <2>2. LinkOK' /\ ShownOK'
    BY <2>1, TParts DEF LinkOK, ShownOK, shown, link
  <2>3. Linked'
    BY <2>1, TParts, Untouched DEF Linked, link
  <2>4. QED
    BY <2>1, <2>2, <2>3, Untouched, TKeeps
<1>10. QED
  BY <1>1, <1>2, <1>3, <1>4, <1>5, <1>6, <1>7, <1>8, <1>9 DEF Next

\* Every variable of the GUI keeps its type, and nothing is on its way where there
\* is no connection, whether or not commands overlap.
THEOREM TypeInvariance == Spec => []TInv
<1>1. TInv /\ [Next]_all => TInv'
  BY NextTypes
<1>2. QED
  BY InitTypes, <1>1, PTL DEF Spec

\* The selected frame is one of the stack, and there is no stack without a session,
\* whatever commands, clicks and answers come in which order.
THEOREM TypeCorrect == Spec => []TypeOK
<1>1. TInv => TypeOK
  BY DEF TInv
<1>2. QED
  BY TypeInvariance, <1>1, PTL


-----------------------------------------------------------------------------
(* One command, waiting for one thing                                       *)

Walking == {"launch", "entry", "entered", "running", "stopped", "stack", "judge", "eval"}

LEMMA PlacesFacts ==
  /\ \A p \in Walking : At(p) \subseteq InProgress
  /\ \A c \in Ids : c \in At(Place(c))
  /\ InProgress \subseteq Ids
  BY DEF Walking, At, InProgress

\* No command is at two places.
LEMMA Elsewhere ==
  ASSUME NEW p, NEW q, p # q
  PROVE  At(p) \cap At(q) = {}
  BY DEF At

\* Where one command is, no other is anywhere.
LEMMA Alone ==
  ASSUME OneCommand, NEW p \in Walking, NEW c \in At(p)
  PROVE  /\ InProgress = {c} /\ At(p) = {c}
         /\ \A q \in Walking : q # p => At(q) = {}
<1>1. c \in InProgress
  BY PlacesFacts
<1>2. InProgress = {c}
  BY <1>1 DEF OneCommand
<1>3. ASSUME NEW q \in Walking, q # p
      PROVE  At(q) = {}
  BY <1>2, <1>3, PlacesFacts, Elsewhere
<1>4. QED
  BY <1>2, <1>3, PlacesFacts

LEMMA OneGoes ==
  ASSUME ControlOK, OneCommand, NEW C, C \subseteq InProgress, NEW place \in Places \ {"launch", "hung"},
         Goes(C, place), session' => session \/ At("launch") # {}
  PROVE  OneCommand'
<1>1. place \in Places /\ place # "launch" /\ place # "hung"
  OBVIOUS
<1>2. /\ \A p : At(p)' = (At(p) \ C) \cup (IF p = place THEN C \cap Ids ELSE {})
      /\ InProgress' = (InProgress \ C) \cup (IF place \in {"over", "hung"} THEN {} ELSE C \cap Ids)
      /\ busy' <=> busy /\ (C = {} \/ place # "over")
  BY <1>1, GoesFacts
<1>3. At("launch")' \subseteq At("launch") /\ InProgress' \subseteq InProgress
  BY <1>1, <1>2
<1>4. \A c, d \in InProgress' : c = d
  BY <1>3 DEF OneCommand
<1>5. CASE C = {} \/ place # "over"
  BY <1>2, <1>3, <1>4, <1>5 DEF OneCommand
<1>6. CASE C # {} /\ place = "over"
  <2>1. InProgress' = {}
    BY <1>2, <1>6 DEF OneCommand
  <2>2. At("launch") \subseteq InProgress
    BY PlacesFacts DEF Walking
  <2>3. At("launch")' = {}
    BY <1>2, <1>6, <2>2 DEF OneCommand
  <2>4. QED
    BY <2>1, <2>3 DEF OneCommand
<1>7. QED
  BY <1>5, <1>6

\* A command is given when none is in progress.
LEMMA OneFirst ==
  ASSUME InProgress = {}, NEW place \in Places \ {"hung"}, Given(place, {}, {})
  PROVE  /\ OneCommand' /\ InProgress' = IF place = "over" THEN {} ELSE {NextId}
         /\ \A p \in Walking : At(p)' = IF p = place THEN {NextId} ELSE {}
<1>1. \A p \in Walking : At(p) = {}
  BY PlacesFacts
<1>2. /\ \A p : At(p)' = At(p) \cup (IF p = place THEN {NextId} ELSE {})
      /\ InProgress' = IF place = "over" THEN {} ELSE {NextId}
      /\ busy' <=> place # "over"
  BY DEF Given
<1>3. \A p \in Walking : At(p)' = IF p = place THEN {NextId} ELSE {}
  BY <1>1, <1>2
<1>4. At("launch")' = IF "launch" = place THEN {NextId} ELSE {}
  BY <1>3 DEF Walking
<1>5. QED
  BY <1>2, <1>3, <1>4 DEF OneCommand

NoTokens ==
  /\ engine # "running"
  /\ \A i \in DOMAIN wire : ~Token(wire[i])
  /\ \A i \in DOMAIN inbox : ~Token(inbox[i])

LEMMA Quiet ==
  ASSUME OneToken, At("running") \cup At("entry") \cup At("stack") \cup At("eval") = {}
  PROVE  NoTokens
<1>1. ASSUME NEW q, Token(q)
      PROVE  Waits(q) = {}
  BY <1>1 DEF Token, Waits
<1>2. QED
  BY <1>1 DEF OneToken, NoTokens

LEMMA NoneLeft == ASSUME NoTokens' PROVE OneToken'
  BY DEF NoTokens, OneToken

\* A command that is not at one of these places waits for nothing of the engine.
LEMMA QuietAlone ==
  ASSUME OneCommand, OneToken, NEW p \in {"launch", "entered", "stopped", "judge"}, NEW c \in At(p)
  PROVE  NoTokens /\ At("running") = {} /\ At("entry") = {} /\ At("stack") = {} /\ At("eval") = {}
<1>1. p \in Walking /\ p \notin {"running", "entry", "stack", "eval"}
  BY DEF Walking
<1>2. \A q \in Walking : q # p => At(q) = {}
  BY <1>1, Alone
<1>3. At("running") = {} /\ At("entry") = {} /\ At("stack") = {} /\ At("eval") = {}
  BY <1>1, <1>2 DEF Walking
<1>4. QED
  BY <1>3, Quiet

LEMMA QuietIdle ==
  ASSUME OneToken, InProgress = {}
  PROVE  NoTokens
  BY Quiet, PlacesFacts DEF Walking


-----------------------------------------------------------------------------
(* What is on its way                                                       *)

(* The parts of the invariant that are about the two queues, said of any    *)
(* queues w and b, so that the lemmas below hold of those before a step and  *)
(* of those after it.                                                        *)

\* The newest number of what a question is about.
Number(q, vs, ds) == IF q.what = "values" THEN ds ELSE vs
\* The commands that wait, R at "running", E at "entry", S at "stack", V at "eval".
Waiting(q, R, E, S, V) == CASE q.what = "resume" -> R
                            [] q.what = "stop"   -> R \cup E
                            [] q.what = "stack"  -> S \cap {q.seq}
                            [] OTHER -> V \cap {q.seq}
Runs(e) == e = "running"
NoTokensIn(w, b) == (\A i \in DOMAIN w : ~Token(w[i])) /\ (\A i \in DOMAIN b : ~Token(b[i]))
OneTokenIn(w, b, e, R, E, S, V) ==
  /\ \A i \in DOMAIN w : Token(w[i]) =>
       /\ e # "running" /\ Waiting(w[i], R, E, S, V) # {}
       /\ \A j \in DOMAIN w : Token(w[j]) => i = j
       /\ \A j \in DOMAIN b : ~Token(b[j])
  /\ \A i \in DOMAIN b : Token(b[i]) =>
       /\ e # "running" /\ Waiting(b[i], R, E, S, V) # {}
       /\ \A j \in DOMAIN b : Token(b[j]) => i = j
  /\ e = "running" => R \cup E # {}
ResumedIn(w, e) == e = "running" \/ \E i \in DOMAIN w : w[i].what = "resume"
NumberedIn(w, b, vs, ds) ==
  /\ \A i \in DOMAIN w : ForView(w[i]) =>
       /\ w[i].seq <= Number(w[i], vs, ds)
       /\ w[i].seq = Number(w[i], vs, ds) => \A j \in DOMAIN w : w[j].what = "resume" => j < i
  /\ \A i \in DOMAIN b : ForView(b[i]) => b[i].seq <= Number(b[i], vs, ds)
FreshIn(w, b, e, vs, ds, p) ==
  \A i \in DOMAIN b : ForView(b[i]) /\ b[i].seq = Number(b[i], vs, ds) /\ b[i].pause # 0 =>
     b[i].pause = p /\ ~ResumedIn(w, e)
AskedIn(w, b, ds) ==
  \/ \E i \in DOMAIN w : w[i].what = "values" /\ w[i].seq = ds
  \/ \E i \in DOMAIN b : b[i].what = "values" /\ b[i].seq = ds

\* Only a stack or a value is waited for by number.
LEMMA TokenKinds ==
  \A q : /\ Token(q) <=> q.what \in {"resume", "stop", "stack", "eval"}
         /\ ForView(q) <=> q.what \in {"vars", "kids", "values"}
         /\ ForView(q) => ~Token(q) /\ q.what # "resume"
  BY DEF Token, ForView

LEMMA WaitsIs ==
  \A q : Token(q) => Waits(q) = Waiting(q, At("running"), At("entry"), At("stack"), At("eval"))
  BY DEF Token, Waits, Waiting
LEMMA WaitsNext ==
  \A q : Token(q) => Waits(q)' = Waiting(q, At("running")', At("entry")', At("stack")', At("eval")')
<1> TAKE q
<1>1. CASE q.what = "resume"
  BY <1>1 DEF Token, Waits, Waiting
<1>2. CASE q.what = "stop"
  BY <1>2 DEF Token, Waits, Waiting
<1>3. CASE q.what = "stack"
  BY <1>3 DEF Token, Waits, Waiting
<1>4. CASE q.what = "eval"
  BY <1>4 DEF Token, Waits, Waiting
<1>5. QED
  BY <1>1, <1>2, <1>3, <1>4 DEF Token

\* Elements of a queue that is joined with another one.
LEMMA Joined ==
  ASSUME NEW T, NEW w \in Seq(T), NEW qs \in Seq(T), NEW r, r = w \o qs
  PROVE  /\ \A i \in DOMAIN w : i \in DOMAIN r /\ r[i] = w[i] /\ i <= Len(w) /\ i \in Nat
         /\ \A i \in DOMAIN r : i \in Nat /\ (i \in DOMAIN w \/ (i - Len(w) \in DOMAIN qs /\ r[i] = qs[i - Len(w)] /\ i > Len(w)))
         /\ Len(w) \in Nat
  OBVIOUS

\* Nothing on its way.
LEMMA EmptyQueues ==
  ASSUME NEW e, e # "running", NEW R, NEW E, NEW S, NEW V, NEW vs, NEW ds, NEW p
  PROVE  /\ OneTokenIn(<<>>, <<>>, e, R, E, S, V) /\ NumberedIn(<<>>, <<>>, vs, ds)
         /\ FreshIn(<<>>, <<>>, e, vs, ds, p) /\ ~ResumedIn(<<>>, e) /\ ~AskedIn(<<>>, <<>>, ds)
<1>1. DOMAIN <<>> = {}
  BY EmptyFacts
<1>2. QED
  BY <1>1 DEF OneTokenIn, NumberedIn, FreshIn, ResumedIn, AskedIn

\* Questions for the views are asked, each under the newest number.
LEMMA AskToken ==
  ASSUME NEW T, NEW w \in Seq(T), NEW qs \in Seq(T), NEW r, r = w \o qs, NEW b,
         \A k \in DOMAIN qs : ~Token(qs[k]),
         NEW e, NEW R, NEW E, NEW S, NEW V, OneTokenIn(w, b, e, R, E, S, V)
  PROVE  OneTokenIn(r, b, e, R, E, S, V)
<1>1. /\ \A i \in DOMAIN w : r[i] = w[i]
      /\ \A i \in DOMAIN r : i \in DOMAIN w \/ (i - Len(w) \in DOMAIN qs /\ r[i] = qs[i - Len(w)])
  BY Joined
<1>2. \A i \in DOMAIN r : Token(r[i]) => i \in DOMAIN w /\ r[i] = w[i]
  BY <1>1
<1>3. QED
  BY <1>2 DEF OneTokenIn

LEMMA AskResumed ==
  ASSUME NEW T, NEW w \in Seq(T), NEW qs \in Seq(T), NEW r, r = w \o qs,
         \A k \in DOMAIN qs : qs[k].what # "resume", NEW e
  PROVE  ResumedIn(r, e) <=> ResumedIn(w, e)
<1>1. /\ \A i \in DOMAIN w : i \in DOMAIN r /\ r[i] = w[i]
      /\ \A i \in DOMAIN r : i \in DOMAIN w \/ (i - Len(w) \in DOMAIN qs /\ r[i] = qs[i - Len(w)])
  BY Joined
<1>2. QED
  BY <1>1 DEF ResumedIn

LEMMA NumberGrows ==
  ASSUME NEW vs \in Nat, NEW ds \in Nat, NEW vn \in Nat, NEW dn \in Nat, vs <= vn, ds <= dn,
         NEW q, q.seq \in Nat, q.seq <= Number(q, vs, ds)
  PROVE  q.seq <= Number(q, vn, dn) /\ (q.seq = Number(q, vn, dn) => q.seq = Number(q, vs, ds))
<1>1. CASE q.what = "values"
  BY <1>1 DEF Number
<1>2. CASE q.what # "values"
  BY <1>2 DEF Number
<1>3. QED
  BY <1>1, <1>2

LEMMA Kinds ==
  /\ \A q \in Ask : q.seq \in Nat
  /\ \A q \in Said : q.seq \in Nat
  BY DEF Ask, Said

LEMMA AskNumbered ==
  ASSUME NEW w \in Seq(Ask), NEW qs \in Seq(Ask), NEW r, r = w \o qs,
         NEW b \in Seq(Said),
         NEW vs \in Nat, NEW ds \in Nat, NEW vn \in Nat, NEW dn \in Nat, vs <= vn, ds <= dn,
         \A k \in DOMAIN qs : ForView(qs[k]) /\ qs[k].seq = Number(qs[k], vn, dn),
         NumberedIn(w, b, vs, ds)
  PROVE  NumberedIn(r, b, vn, dn)
<1>1. /\ \A i \in DOMAIN w : i \in DOMAIN r /\ r[i] = w[i] /\ i <= Len(w) /\ i \in Nat
      /\ \A i \in DOMAIN r : i \in Nat /\ (i \in DOMAIN w \/ (i - Len(w) \in DOMAIN qs /\ r[i] = qs[i - Len(w)] /\ i > Len(w)))
      /\ Len(w) \in Nat
  BY Joined
<1>2. ASSUME NEW j \in DOMAIN r, r[j].what = "resume"
      PROVE  j \in DOMAIN w /\ w[j].what = "resume" /\ j <= Len(w)
  BY <1>1, <1>2, TokenKinds
<1>3. ASSUME NEW i \in DOMAIN w, ForView(w[i])
      PROVE  /\ w[i].seq <= Number(w[i], vn, dn)
             /\ w[i].seq = Number(w[i], vn, dn) => \A j \in DOMAIN r : r[j].what = "resume" => j < i
  <2>1. w[i].seq \in Nat
    BY Kinds
  <2>2. w[i].seq <= Number(w[i], vs, ds)
    BY <1>3 DEF NumberedIn
  <2>3. w[i].seq = Number(w[i], vs, ds) => \A j \in DOMAIN w : w[j].what = "resume" => j < i
    BY <1>3 DEF NumberedIn
  <2>4. w[i].seq <= Number(w[i], vn, dn) /\ (w[i].seq = Number(w[i], vn, dn) => w[i].seq = Number(w[i], vs, ds))
    BY <2>1, <2>2, NumberGrows
  <2>5. QED
    BY <1>2, <2>3, <2>4
<1>4. ASSUME NEW i \in DOMAIN r, i \notin DOMAIN w
      PROVE  /\ r[i].seq <= Number(r[i], vn, dn)
             /\ \A j \in DOMAIN r : r[j].what = "resume" => j < i
  <2>1. i - Len(w) \in DOMAIN qs /\ r[i] = qs[i - Len(w)] /\ i > Len(w) /\ i \in Nat
    BY <1>1, <1>4
  <2>2. r[i].seq \in Nat /\ r[i].seq = Number(r[i], vn, dn)
    BY <2>1, Kinds
  <2>3. r[i].seq <= Number(r[i], vn, dn)
    BY <2>2
  <2>4. ASSUME NEW j \in DOMAIN r, r[j].what = "resume"
        PROVE  j < i
    <3>1. j <= Len(w) /\ j \in Nat
      BY <1>1, <1>2, <2>4
    <3>2. QED
      BY <1>1, <2>1, <3>1
  <2>5. QED
    BY <2>3, <2>4
<1>5. ASSUME NEW i \in DOMAIN b, ForView(b[i])
      PROVE  b[i].seq <= Number(b[i], vn, dn)
  <2>1. b[i].seq \in Nat
    BY Kinds
  <2>2. b[i].seq <= Number(b[i], vs, ds)
    BY <1>5 DEF NumberedIn
  <2>3. QED
    BY <2>1, <2>2, NumberGrows
<1>6. \A i \in DOMAIN r : ForView(r[i]) =>
        /\ r[i].seq <= Number(r[i], vn, dn)
        /\ r[i].seq = Number(r[i], vn, dn) => \A j \in DOMAIN r : r[j].what = "resume" => j < i
  BY <1>1, <1>3, <1>4
<1>7. QED
  BY <1>5, <1>6 DEF NumberedIn

LEMMA AskFresh ==
  ASSUME NEW w \in Seq(Ask), NEW qs \in Seq(Ask), NEW r, r = w \o qs,
         NEW b \in Seq(Said),
         NEW vs \in Nat, NEW ds \in Nat, NEW vn \in Nat, NEW dn \in Nat, vs <= vn, ds <= dn,
         \A k \in DOMAIN qs : qs[k].what # "resume",
         NumberedIn(w, b, vs, ds), NEW e, NEW p, FreshIn(w, b, e, vs, ds, p)
  PROVE  FreshIn(r, b, e, vn, dn, p)
<1>1. ResumedIn(r, e) <=> ResumedIn(w, e)
  <2>1. /\ \A i \in DOMAIN w : i \in DOMAIN r /\ r[i] = w[i]
        /\ \A i \in DOMAIN r : i \in DOMAIN w \/ (i - Len(w) \in DOMAIN qs /\ r[i] = qs[i - Len(w)])
    BY Joined
  <2>2. QED
    BY <2>1 DEF ResumedIn
<1>2. ASSUME NEW i \in DOMAIN b, ForView(b[i]), b[i].seq = Number(b[i], vn, dn)
      PROVE  b[i].seq = Number(b[i], vs, ds)
  <2>1. b[i].seq \in Nat
    BY Kinds
  <2>2. b[i].seq <= Number(b[i], vs, ds)
    BY <1>2 DEF NumberedIn
  <2>3. QED
    BY <1>2, <2>1, <2>2, NumberGrows
<1>3. QED
  BY <1>1, <1>2 DEF FreshIn

LEMMA AskAsked ==
  ASSUME NEW T, NEW w \in Seq(T), NEW qs \in Seq(T), NEW r, r = w \o qs, NEW b, NEW ds, AskedIn(w, b, ds)
  PROVE  AskedIn(r, b, ds)
<1>1. \A i \in DOMAIN w : i \in DOMAIN r /\ r[i] = w[i]
  BY Joined
<1>2. QED
  BY <1>1 DEF AskedIn

\* A command sends what it will wait for, when nothing else is waited for.
LEMMA SendToken ==
  ASSUME NEW T, NEW w \in Seq(T), NEW x \in T, NEW r, r = Append(w, x), NEW b,
         NoTokensIn(w, b), NEW e, e # "running", NEW R, NEW E, NEW S, NEW V, Waiting(x, R, E, S, V) # {}
  PROVE  OneTokenIn(r, b, e, R, E, S, V)
<1>1. /\ DOMAIN r = DOMAIN w \cup {Len(w) + 1} /\ r[Len(w) + 1] = x
      /\ \A i \in DOMAIN w : r[i] = w[i]
  BY AppendFacts
<1>2. \A i \in DOMAIN r : Token(r[i]) => i = Len(w) + 1 /\ r[i] = x
  BY <1>1 DEF NoTokensIn
<1>3. QED
  BY <1>2 DEF OneTokenIn, NoTokensIn

\* What is not for a view outdates nothing that is, unless it is a resume.
LEMMA SendNumbered ==
  ASSUME NEW T, NEW w \in Seq(T), NEW x \in T, NEW r, r = Append(w, x), NEW b, NEW vs, NEW ds,
         ~ForView(x), x.what # "resume", NumberedIn(w, b, vs, ds)
  PROVE  NumberedIn(r, b, vs, ds)
<1>1. /\ DOMAIN r = DOMAIN w \cup {Len(w) + 1} /\ r[Len(w) + 1] = x
      /\ \A i \in DOMAIN w : r[i] = w[i]
  BY AppendFacts
<1>2. QED
  BY <1>1 DEF NumberedIn

LEMMA SendFresh ==
  ASSUME NEW T, NEW w \in Seq(T), NEW x \in T, NEW r, r = Append(w, x), NEW b, NEW vs, NEW ds,
         x.what # "resume", NEW e, NEW p
  PROVE  /\ ResumedIn(r, e) <=> ResumedIn(w, e)
         /\ FreshIn(w, b, e, vs, ds, p) => FreshIn(r, b, e, vs, ds, p)
         /\ AskedIn(w, b, ds) => AskedIn(r, b, ds)
<1>1. /\ DOMAIN r = DOMAIN w \cup {Len(w) + 1} /\ r[Len(w) + 1] = x
      /\ \A i \in DOMAIN w : r[i] = w[i]
  BY AppendFacts
<1>2. ResumedIn(r, e) <=> ResumedIn(w, e)
  BY <1>1 DEF ResumedIn
<1>3. AskedIn(w, b, ds) => AskedIn(r, b, ds)
  BY <1>1 DEF AskedIn
<1>4. QED
  BY <1>2, <1>3 DEF FreshIn

\* New numbers: nothing that is on its way has them.
LEMMA NoneNewest ==
  ASSUME NEW vs \in Nat, NEW ds \in Nat, NEW q, q.seq \in Nat, q.seq <= Number(q, vs, ds)
  PROVE  q.seq <= Number(q, vs + 1, ds + 1) /\ q.seq # Number(q, vs + 1, ds + 1)
<1>1. CASE q.what = "values"
  BY <1>1 DEF Number
<1>2. CASE q.what # "values"
  BY <1>2 DEF Number
<1>3. QED
  BY <1>1, <1>2

LEMMA ResumeNumbered ==
  ASSUME NEW w \in Seq(Ask), NEW x \in Ask, NEW r, r = Append(w, x), ~ForView(x),
         NEW b \in Seq(Said),
         NEW vs \in Nat, NEW ds \in Nat, NumberedIn(w, b, vs, ds), NEW e, NEW p
  PROVE  NumberedIn(r, b, vs + 1, ds + 1) /\ FreshIn(r, b, e, vs + 1, ds + 1, p)
<1>1. /\ DOMAIN r = DOMAIN w \cup {Len(w) + 1} /\ r[Len(w) + 1] = x
      /\ \A i \in DOMAIN w : r[i] = w[i]
  BY AppendFacts
<1>2. ASSUME NEW i \in DOMAIN w, ForView(w[i])
      PROVE  w[i].seq <= Number(w[i], vs + 1, ds + 1) /\ w[i].seq # Number(w[i], vs + 1, ds + 1)
  <2>1. w[i].seq \in Nat
    BY Kinds
  <2>2. w[i].seq <= Number(w[i], vs, ds)
    BY <1>2 DEF NumberedIn
  <2>3. QED
    BY <2>1, <2>2, NoneNewest
<1>3. ASSUME NEW i \in DOMAIN b, ForView(b[i])
      PROVE  b[i].seq <= Number(b[i], vs + 1, ds + 1) /\ b[i].seq # Number(b[i], vs + 1, ds + 1)
  <2>1. b[i].seq \in Nat
    BY Kinds
  <2>2. b[i].seq <= Number(b[i], vs, ds)
    BY <1>3 DEF NumberedIn
  <2>3. QED
    BY <2>1, <2>2, NoneNewest
<1>4. \A i \in DOMAIN r : ForView(r[i]) => i \in DOMAIN w /\ r[i] = w[i]
  BY <1>1
<1>5. QED
  BY <1>2, <1>3, <1>4 DEF NumberedIn, FreshIn

\* The engine reads a question, and what it says of it follows what it said.
LEMMA ServeQueues ==
  ASSUME NEW T, NEW w \in Seq(T), w # <<>>, NEW r, r = Tail(w),
         NEW D, NEW b \in Seq(D), NEW y \in D, NEW s, s = Append(b, y)
  PROVE  /\ 1 \in DOMAIN w /\ Head(w) = w[1]
         /\ \A i \in DOMAIN r : i \in Nat /\ i + 1 \in DOMAIN w /\ r[i] = w[i + 1] /\ i + 1 # 1
         /\ \A i \in DOMAIN w : i = 1 \/ (i - 1 \in DOMAIN r /\ r[i - 1] = w[i])
         /\ \A i \in DOMAIN b : i \in DOMAIN s /\ s[i] = b[i] /\ i # Len(b) + 1
         /\ \A i \in DOMAIN s : i \in DOMAIN b \/ i = Len(b) + 1
         /\ s[Len(b) + 1] = y /\ Len(b) + 1 \in DOMAIN s
<1>1. /\ 1 \in DOMAIN w /\ Head(w) = w[1]
      /\ \A i \in DOMAIN r : i \in Nat /\ i + 1 \in DOMAIN w /\ r[i] = w[i + 1] /\ i + 1 # 1
      /\ \A i \in DOMAIN w : i = 1 \/ (i - 1 \in DOMAIN r /\ r[i - 1] = w[i])
  OBVIOUS
<1>2. /\ \A i \in DOMAIN b : i \in DOMAIN s /\ s[i] = b[i] /\ i # Len(b) + 1
      /\ \A i \in DOMAIN s : i \in DOMAIN b \/ i = Len(b) + 1
      /\ s[Len(b) + 1] = y /\ Len(b) + 1 \in DOMAIN s
  OBVIOUS
<1>3. QED
  BY <1>1, <1>2

LEMMA Successors == \A i, j \in Nat : i + 1 = j + 1 => i = j
  OBVIOUS

LEMMA ServeToken ==
  ASSUME NEW T, NEW w \in Seq(T), w # <<>>, NEW r, r = Tail(w),
         NEW D, NEW b \in Seq(D), NEW y \in D, NEW s, s = Append(b, y),
         y.what = Head(w).what, y.seq = Head(w).seq,
         NEW e, NEW R, NEW E, NEW S, NEW V, OneTokenIn(w, b, e, R, E, S, V)
  PROVE  OneTokenIn(r, s, e, R, E, S, V)
<1>1. /\ 1 \in DOMAIN w /\ Head(w) = w[1]
      /\ \A i \in DOMAIN r : i \in Nat /\ i + 1 \in DOMAIN w /\ r[i] = w[i + 1] /\ i + 1 # 1
      /\ \A i \in DOMAIN b : i \in DOMAIN s /\ s[i] = b[i] /\ i # Len(b) + 1
      /\ \A i \in DOMAIN s : i \in DOMAIN b \/ i = Len(b) + 1
      /\ s[Len(b) + 1] = y
  BY ServeQueues
<1>2. /\ Token(y) <=> Token(w[1])
      /\ Waiting(y, R, E, S, V) = Waiting(w[1], R, E, S, V)
  BY <1>1 DEF Token, Waiting
<1>3. CASE Token(w[1])
  <2>1. /\ \A i \in DOMAIN w : Token(w[i]) => i = 1
        /\ \A i \in DOMAIN b : ~Token(b[i])
        /\ e # "running" /\ Waiting(w[1], R, E, S, V) # {}
    BY <1>1, <1>3 DEF OneTokenIn
  <2>2. \A i \in DOMAIN r : ~Token(r[i])
    BY <1>1, <2>1
  <2>3. \A i \in DOMAIN s : Token(s[i]) => i = Len(b) + 1 /\ s[i] = y
    BY <1>1, <2>1
  <2>4. QED
    BY <1>2, <2>1, <2>2, <2>3 DEF OneTokenIn
<1>4. CASE ~Token(w[1])
  <2>1. \A i \in DOMAIN s : Token(s[i]) => i \in DOMAIN b /\ s[i] = b[i]
    BY <1>1, <1>2, <1>4
  <2>2. ASSUME NEW i \in DOMAIN r, Token(r[i])
        PROVE  /\ e # "running" /\ Waiting(r[i], R, E, S, V) # {}
               /\ \A j \in DOMAIN r : Token(r[j]) => i = j
               /\ \A j \in DOMAIN s : ~Token(s[j])
    <3>1. i + 1 \in DOMAIN w /\ r[i] = w[i + 1] /\ i \in Nat
      BY <1>1, <2>2
    <3>2. /\ e # "running" /\ Waiting(r[i], R, E, S, V) # {}
          /\ \A j \in DOMAIN w : Token(w[j]) => i + 1 = j
          /\ \A j \in DOMAIN b : ~Token(b[j])
      BY <2>2, <3>1 DEF OneTokenIn
    <3>3. ASSUME NEW j \in DOMAIN r, Token(r[j])
          PROVE  i = j
      <4>1. j \in Nat /\ j + 1 \in DOMAIN w /\ r[j] = w[j + 1]
        BY <1>1, <3>3
      <4>2. i + 1 = j + 1
        BY <3>2, <3>3, <4>1
      <4>3. QED
        BY <3>1, <4>1, <4>2, Successors
    <3>4. QED
      BY <2>1, <3>2, <3>3
  <2>3. ASSUME NEW i \in DOMAIN s, Token(s[i])
        PROVE  /\ e # "running" /\ Waiting(s[i], R, E, S, V) # {}
               /\ \A j \in DOMAIN s : Token(s[j]) => i = j
    BY <2>1, <2>3 DEF OneTokenIn
  <2>4. QED
    BY <2>2, <2>3 DEF OneTokenIn
<1>5. QED
  BY <1>3, <1>4

\* What is left of a queue.
LEMMA RestNumbered ==
  ASSUME NEW T, NEW w \in Seq(T), w # <<>>, NEW r, r = Tail(w), NEW b, NEW vs, NEW ds, NumberedIn(w, b, vs, ds)
  PROVE  NumberedIn(r, b, vs, ds)
<1>1. \A i \in DOMAIN r : i \in Nat /\ i + 1 \in DOMAIN w /\ r[i] = w[i + 1]
  OBVIOUS
<1>2. ASSUME NEW i \in DOMAIN r, ForView(r[i])
      PROVE  /\ r[i].seq <= Number(r[i], vs, ds)
             /\ r[i].seq = Number(r[i], vs, ds) => \A j \in DOMAIN r : r[j].what = "resume" => j < i
  <2>1. i \in Nat /\ i + 1 \in DOMAIN w /\ r[i] = w[i + 1]
    BY <1>1
  <2>2. /\ w[i + 1].seq <= Number(w[i + 1], vs, ds)
        /\ w[i + 1].seq = Number(w[i + 1], vs, ds) => \A j \in DOMAIN w : w[j].what = "resume" => j < i + 1
    BY <1>2, <2>1 DEF NumberedIn
  <2>3. ASSUME NEW j \in DOMAIN r, r[j].what = "resume", r[i].seq = Number(r[i], vs, ds)
        PROVE  j < i
    <3>1. j \in Nat /\ j + 1 \in DOMAIN w /\ r[j] = w[j + 1]
      BY <1>1
    <3>2. j + 1 < i + 1
      BY <2>1, <2>2, <2>3, <3>1
    <3>3. QED
      BY <2>1, <3>1, <3>2
  <2>4. QED
    BY <2>1, <2>2, <2>3
<1>3. QED
  BY <1>2 DEF NumberedIn

LEMMA ServeNumbered ==
  ASSUME NEW T, NEW w \in Seq(T), w # <<>>, NEW r, r = Tail(w),
         NEW D, NEW b \in Seq(D), NEW y \in D, NEW s, s = Append(b, y),
         y.what = Head(w).what, y.seq = Head(w).seq, NEW vs, NEW ds, NumberedIn(w, b, vs, ds)
  PROVE  NumberedIn(r, s, vs, ds)
<1>1. /\ 1 \in DOMAIN w /\ Head(w) = w[1]
      /\ \A i \in DOMAIN b : i \in DOMAIN s /\ s[i] = b[i]
      /\ \A i \in DOMAIN s : i \in DOMAIN b \/ i = Len(b) + 1
      /\ s[Len(b) + 1] = y
  BY ServeQueues
<1>2. NumberedIn(r, b, vs, ds)
  BY RestNumbered
<1>3. ForView(y) => y.seq <= Number(y, vs, ds)
  <2>1. ForView(y) <=> ForView(w[1])
    BY <1>1 DEF ForView
  <2>2. Number(y, vs, ds) = Number(w[1], vs, ds) /\ y.seq = w[1].seq
    BY <1>1 DEF Number
  <2>3. ForView(w[1]) => w[1].seq <= Number(w[1], vs, ds)
    BY <1>1 DEF NumberedIn
  <2>4. QED
    BY <2>1, <2>2, <2>3
<1>4. \A i \in DOMAIN s : ForView(s[i]) => s[i].seq <= Number(s[i], vs, ds)
  BY <1>1, <1>3 DEF NumberedIn
<1>5. QED
  BY <1>2, <1>4 DEF NumberedIn

LEMMA RestResumed ==
  ASSUME NEW T, NEW w \in Seq(T), w # <<>>, NEW r, r = Tail(w), NEW e
  PROVE  ResumedIn(r, e) => ResumedIn(w, e)
<1>1. \A i \in DOMAIN r : i \in Nat /\ i + 1 \in DOMAIN w /\ r[i] = w[i + 1]
  OBVIOUS
<1>2. QED
  BY <1>1 DEF ResumedIn

\* What is read under the newest number has no resume behind it.
LEMMA ServeFresh ==
  ASSUME NEW T, NEW w \in Seq(T), w # <<>>, NEW r, r = Tail(w),
         NEW D, NEW b \in Seq(D), NEW y \in D, NEW s, s = Append(b, y),
         y.what = Head(w).what, y.seq = Head(w).seq, NEW vs, NEW ds, NumberedIn(w, b, vs, ds),
         NEW e, NEW p, y.pause # 0 => y.pause = p /\ ~Runs(e), FreshIn(w, b, e, vs, ds, p)
  PROVE  FreshIn(r, s, e, vs, ds, p)
<1>1. /\ 1 \in DOMAIN w /\ Head(w) = w[1]
      /\ \A i \in DOMAIN r : i \in Nat /\ i + 1 \in DOMAIN w /\ r[i] = w[i + 1] /\ i + 1 # 1
      /\ \A i \in DOMAIN b : i \in DOMAIN s /\ s[i] = b[i]
      /\ \A i \in DOMAIN s : i \in DOMAIN b \/ i = Len(b) + 1
      /\ s[Len(b) + 1] = y
  BY ServeQueues
<1>2. ResumedIn(r, e) => ResumedIn(w, e)
  BY RestResumed
<1>3. ASSUME ForView(y), y.seq = Number(y, vs, ds), y.pause # 0
      PROVE  y.pause = p /\ ~ResumedIn(r, e)
  <2>1. e # "running"
    BY <1>3 DEF Runs
  <2>2. ForView(w[1]) /\ w[1].seq = Number(w[1], vs, ds)
    BY <1>1, <1>3 DEF ForView, Number
  <2>3. \A j \in DOMAIN w : w[j].what = "resume" => j < 1
    BY <1>1, <2>2 DEF NumberedIn
  <2>4. ASSUME NEW i \in DOMAIN r
        PROVE  r[i].what # "resume"
    <3>1. i \in Nat /\ i + 1 \in DOMAIN w /\ r[i] = w[i + 1]
      BY <1>1
    <3>2. ~(i + 1 < 1)
      BY <3>1
    <3>3. QED
      BY <2>3, <3>1, <3>2
  <2>5. ~ResumedIn(r, e)
    BY <2>1, <2>4 DEF ResumedIn
  <2>6. QED
    BY <1>3, <2>5
<1>4. QED
  BY <1>1, <1>2, <1>3 DEF FreshIn

LEMMA ServeAsked ==
  ASSUME NEW T, NEW w \in Seq(T), w # <<>>, NEW r, r = Tail(w),
         NEW D, NEW b \in Seq(D), NEW y \in D, NEW s, s = Append(b, y),
         y.what = Head(w).what, y.seq = Head(w).seq, NEW ds, AskedIn(w, b, ds)
  PROVE  AskedIn(r, s, ds)
<1>1. /\ 1 \in DOMAIN w /\ Head(w) = w[1]
      /\ \A i \in DOMAIN w : i = 1 \/ (i - 1 \in DOMAIN r /\ r[i - 1] = w[i])
      /\ \A i \in DOMAIN b : i \in DOMAIN s /\ s[i] = b[i]
      /\ s[Len(b) + 1] = y /\ Len(b) + 1 \in DOMAIN s
  BY ServeQueues
<1>2. QED
  BY <1>1 DEF AskedIn

\* The engine reads a resume, and runs.
LEMMA RunQueues ==
  ASSUME NEW T, NEW w \in Seq(T), w # <<>>, NEW r, r = Tail(w), Head(w).what = "resume", NEW b,
         NEW e, NEW R, NEW E, NEW S, NEW V, OneTokenIn(w, b, e, R, E, S, V),
         NEW vs, NEW ds, NEW p, NumberedIn(w, b, vs, ds), FreshIn(w, b, e, vs, ds, p)
  PROVE  /\ OneTokenIn(r, b, "running", R, E, S, V) /\ NumberedIn(r, b, vs, ds)
         /\ FreshIn(r, b, "running", vs, ds, p) /\ ResumedIn(w, e)
         /\ AskedIn(w, b, ds) => AskedIn(r, b, ds)
<1>1. /\ 1 \in DOMAIN w /\ w[1].what = "resume"
      /\ \A i \in DOMAIN r : i \in Nat /\ i + 1 \in DOMAIN w /\ r[i] = w[i + 1] /\ i + 1 # 1
      /\ \A i \in DOMAIN w : i = 1 \/ (i - 1 \in DOMAIN r /\ r[i - 1] = w[i])
  OBVIOUS
<1>2. Token(w[1]) /\ Waiting(w[1], R, E, S, V) = R
  BY <1>1 DEF Token, Waiting
<1>3. /\ \A i \in DOMAIN w : Token(w[i]) => i = 1
      /\ \A i \in DOMAIN b : ~Token(b[i])
      /\ R # {}
  BY <1>1, <1>2 DEF OneTokenIn
<1>4. \A i \in DOMAIN r : ~Token(r[i])
  BY <1>1, <1>3
<1>5. OneTokenIn(r, b, "running", R, E, S, V)
  BY <1>3, <1>4 DEF OneTokenIn
<1>6. NumberedIn(r, b, vs, ds)
  BY RestNumbered
<1>7. ResumedIn(w, e)
  BY <1>1 DEF ResumedIn
<1>8. FreshIn(r, b, "running", vs, ds, p)
  BY <1>7 DEF FreshIn
<1>9. AskedIn(w, b, ds) => AskedIn(r, b, ds)
  BY <1>1 DEF AskedIn
<1>10. QED
  BY <1>5, <1>6, <1>7, <1>8, <1>9

\* The engine says something of its own.
LEMMA SaysOf ==
  ASSUME NEW D, NEW b \in Seq(D), NEW y \in D, NEW s, s = Append(b, y), ~ForView(y), NEW w,
         NEW e, NEW f, ~Runs(f), NEW vs, NEW ds, NEW p, NEW x, x = p \/ ResumedIn(w, e),
         NumberedIn(w, b, vs, ds), FreshIn(w, b, e, vs, ds, p)
  PROVE  /\ NumberedIn(w, s, vs, ds) /\ FreshIn(w, s, f, vs, ds, x)
         /\ ResumedIn(w, f) => ResumedIn(w, e)
         /\ AskedIn(w, b, ds) => AskedIn(w, s, ds)
<1>1. /\ DOMAIN s = DOMAIN b \cup {Len(b) + 1} /\ s[Len(b) + 1] = y
      /\ \A i \in DOMAIN b : s[i] = b[i]
  BY AppendFacts
<1>2. \A i \in DOMAIN s : ForView(s[i]) => i \in DOMAIN b /\ s[i] = b[i]
  BY <1>1
<1>3. ResumedIn(w, f) => ResumedIn(w, e)
  BY DEF ResumedIn, Runs
<1>4. NumberedIn(w, s, vs, ds)
  BY <1>2 DEF NumberedIn
<1>5. FreshIn(w, s, f, vs, ds, x)
  BY <1>2, <1>3 DEF FreshIn
<1>6. AskedIn(w, b, ds) => AskedIn(w, s, ds)
  BY <1>1 DEF AskedIn
<1>7. QED
  BY <1>3, <1>4, <1>5, <1>6

LEMMA RunningAlone ==
  ASSUME NEW w, NEW b, NEW R, NEW E, NEW S, NEW V, OneTokenIn(w, b, "running", R, E, S, V)
  PROVE  NoTokensIn(w, b) /\ R \cup E # {}
  BY DEF OneTokenIn, NoTokensIn

LEMMA StopToken ==
  ASSUME NEW D, NEW b \in Seq(D), NEW y \in D, NEW s, s = Append(b, y), y.what = "stop", NEW w,
         NEW R, NEW E, NEW S, NEW V, OneTokenIn(w, b, "running", R, E, S, V)
  PROVE  OneTokenIn(w, s, "halted", R, E, S, V)
<1>1. /\ DOMAIN s = DOMAIN b \cup {Len(b) + 1} /\ s[Len(b) + 1] = y
      /\ \A i \in DOMAIN b : s[i] = b[i]
  BY AppendFacts
<1>2. (\A i \in DOMAIN w : ~Token(w[i])) /\ (\A i \in DOMAIN b : ~Token(b[i])) /\ R \cup E # {}
  BY RunningAlone DEF NoTokensIn
<1>3. Waiting(y, R, E, S, V) = R \cup E
  BY DEF Waiting
<1>4. \A i \in DOMAIN s : Token(s[i]) => i = Len(b) + 1 /\ s[i] = y
  BY <1>1, <1>2
<1>5. QED
  BY <1>2, <1>3, <1>4 DEF OneTokenIn

LEMMA OtherToken ==
  ASSUME NEW D, NEW b \in Seq(D), NEW y \in D, NEW s, s = Append(b, y), ~Token(y), NEW w,
         NEW e, NEW f, ~Runs(f),
         NEW R, NEW E, NEW S, NEW V, OneTokenIn(w, b, e, R, E, S, V)
  PROVE  OneTokenIn(w, s, f, R, E, S, V)
<1>1. /\ DOMAIN s = DOMAIN b \cup {Len(b) + 1} /\ s[Len(b) + 1] = y
      /\ \A i \in DOMAIN b : s[i] = b[i]
  BY AppendFacts
<1>2. \A i \in DOMAIN s : Token(s[i]) => i \in DOMAIN b /\ s[i] = b[i]
  BY <1>1
<1>3. QED
  BY <1>2 DEF OneTokenIn, Runs

\* What the engine said is taken.
LEMMA TakeQueues ==
  ASSUME NEW D, NEW b \in Seq(D), b # <<>>, NEW s, s = Tail(b)
  PROVE  /\ 1 \in DOMAIN b /\ Head(b) = b[1]
         /\ \A i \in DOMAIN s : i \in Nat /\ i + 1 \in DOMAIN b /\ s[i] = b[i + 1] /\ i + 1 # 1
         /\ \A i \in DOMAIN b : i = 1 \/ (i - 1 \in DOMAIN s /\ s[i - 1] = b[i])
  OBVIOUS

LEMMA TakeViews ==
  ASSUME NEW D, NEW b \in Seq(D), b # <<>>, NEW s, s = Tail(b), NEW w,
         NEW e, NEW vs, NEW ds, NEW p, NumberedIn(w, b, vs, ds), FreshIn(w, b, e, vs, ds, p)
  PROVE  /\ NumberedIn(w, s, vs, ds) /\ FreshIn(w, s, e, vs, ds, p)
         /\ AskedIn(w, b, ds) => AskedIn(w, s, ds) \/ (Head(b).what = "values" /\ Head(b).seq = ds)
<1>1. /\ 1 \in DOMAIN b /\ Head(b) = b[1]
      /\ \A i \in DOMAIN s : i \in Nat /\ i + 1 \in DOMAIN b /\ s[i] = b[i + 1] /\ i + 1 # 1
      /\ \A i \in DOMAIN b : i = 1 \/ (i - 1 \in DOMAIN s /\ s[i - 1] = b[i])
  BY TakeQueues
<1>2. NumberedIn(w, s, vs, ds) /\ FreshIn(w, s, e, vs, ds, p)
  BY <1>1 DEF NumberedIn, FreshIn
<1>3. AskedIn(w, b, ds) => AskedIn(w, s, ds) \/ (Head(b).what = "values" /\ Head(b).seq = ds)
  BY <1>1 DEF AskedIn
<1>4. QED
  BY <1>2, <1>3

LEMMA TakeOther ==
  ASSUME NEW D, NEW b \in Seq(D), b # <<>>, NEW s, s = Tail(b), NEW w,
         NEW e, NEW R, NEW E, NEW S, NEW V, OneTokenIn(w, b, e, R, E, S, V)
  PROVE  OneTokenIn(w, s, e, R, E, S, V)
<1>1. /\ \A i \in DOMAIN s : i \in Nat /\ i + 1 \in DOMAIN b /\ s[i] = b[i + 1] /\ i + 1 # 1
  BY TakeQueues
<1>2. ASSUME NEW i \in DOMAIN s, Token(s[i])
      PROVE  /\ e # "running" /\ Waiting(s[i], R, E, S, V) # {}
             /\ \A j \in DOMAIN s : Token(s[j]) => i = j
  <2>1. i + 1 \in DOMAIN b /\ s[i] = b[i + 1] /\ i \in Nat
    BY <1>1
  <2>2. /\ e # "running" /\ Waiting(s[i], R, E, S, V) # {}
        /\ \A j \in DOMAIN b : Token(b[j]) => i + 1 = j
    BY <1>2, <2>1 DEF OneTokenIn
  <2>3. ASSUME NEW j \in DOMAIN s, Token(s[j])
        PROVE  i = j
    <3>1. j \in Nat /\ j + 1 \in DOMAIN b /\ s[j] = b[j + 1]
      BY <1>1
    <3>2. i + 1 = j + 1
      BY <2>2, <2>3, <3>1
    <3>3. QED
      BY <2>1, <3>1, <3>2, Successors
  <2>4. QED
    BY <2>2, <2>3
<1>3. ASSUME NEW i \in DOMAIN w, Token(w[i])
      PROVE  \A j \in DOMAIN s : ~Token(s[j])
  <2>1. \A j \in DOMAIN b : ~Token(b[j])
    BY <1>3 DEF OneTokenIn
  <2>2. QED
    BY <1>1, <2>1
<1>4. QED
  BY <1>2, <1>3 DEF OneTokenIn

LEMMA TakeToken ==
  ASSUME NEW D, NEW b \in Seq(D), b # <<>>, NEW s, s = Tail(b), NEW w, Token(Head(b)),
         NEW e, NEW R, NEW E, NEW S, NEW V, OneTokenIn(w, b, e, R, E, S, V)
  PROVE  NoTokensIn(w, s) /\ e # "running" /\ Waiting(Head(b), R, E, S, V) # {}
<1>1. /\ 1 \in DOMAIN b /\ Head(b) = b[1]
      /\ \A i \in DOMAIN s : i \in Nat /\ i + 1 \in DOMAIN b /\ s[i] = b[i + 1] /\ i + 1 # 1
  BY TakeQueues
<1>2. /\ e # "running" /\ Waiting(Head(b), R, E, S, V) # {}
      /\ \A j \in DOMAIN b : Token(b[j]) => 1 = j
  BY <1>1 DEF OneTokenIn
<1>3. \A j \in DOMAIN w : ~Token(w[j])
  BY <1>1 DEF OneTokenIn
<1>4. \A j \in DOMAIN s : ~Token(s[j])
  <2>1. ASSUME NEW j \in DOMAIN s, Token(s[j]) PROVE FALSE
    <3>1. j + 1 \in DOMAIN b /\ s[j] = b[j + 1] /\ j + 1 # 1
      BY <1>1
    <3>2. QED
      BY <1>2, <2>1, <3>1
  <2>2. QED
    BY <2>1
<1>5. QED
  BY <1>2, <1>3, <1>4 DEF NoTokensIn

LEMMA NoTokensOne ==
  ASSUME NEW w, NEW b, NoTokensIn(w, b), NEW e, NEW R, NEW E, NEW S, NEW V, e = "running" => R \cup E # {}
  PROVE  OneTokenIn(w, b, e, R, E, S, V)
  BY DEF NoTokensIn, OneTokenIn

-----------------------------------------------------------------------------
(* The invariant, said of the queues                                        *)

\* What a view may show under number n: what was said in pause p, while no
\* resume is on its way and nothing is launched.
ViewIn(v, n, p, w, e, L) == v.is = "said" => v.seq = n /\ v.pause = p /\ ~ResumedIn(w, e) /\ L = {}
ValuesIn(v, n, p, w, b, e, L) ==
  v.is = "said" => (v.seq = n \/ AskedIn(w, b, n)) /\ v.pause = p /\ ~ResumedIn(w, e) /\ L = {}

TokenPart == OneTokenIn(wire, inbox, engine, At("running"), At("entry"), At("stack"), At("eval"))
TokenNext == OneTokenIn(wire', inbox', engine', At("running")', At("entry")', At("stack")', At("eval")')
NumberPart == NumberedIn(wire, inbox, varsSeq, dispSeq)
NumberNext == NumberedIn(wire', inbox', varsSeq', dispSeq')
InboxPart == FreshIn(wire, inbox, engine, varsSeq, dispSeq, pause)
InboxNext == FreshIn(wire', inbox', engine', varsSeq', dispSeq', pause')
ViewsPart ==
  /\ ViewIn(vars, varsSeq, pause, wire, engine, At("launch"))
  /\ ViewIn(kids, varsSeq, pause, wire, engine, At("launch"))
  /\ ValuesIn(values, dispSeq, pause, wire, inbox, engine, At("launch"))
ViewsNext ==
  /\ ViewIn(vars', varsSeq', pause', wire', engine', At("launch")')
  /\ ViewIn(kids', varsSeq', pause', wire', engine', At("launch")')
  /\ ValuesIn(values', dispSeq', pause', wire', inbox', engine', At("launch")')

LEMMA AskedOf ==
  ASSUME NEW w, NEW b, NEW n
  PROVE  (\E a \in {x \in Range(w) \cup Range(b) : x.what \notin {"resume", "stop", "closed"}} :
             a.what = "values" /\ a.seq = n) <=> AskedIn(w, b, n)
  BY DEF AskedIn, Range

LEMMA PartsOf == OneToken /\ Numbered /\ Fresh <=> TokenPart /\ NumberPart /\ InboxPart /\ ViewsPart
<1>1. OneToken <=> TokenPart
  BY WaitsIs DEF OneToken, TokenPart, OneTokenIn
<1>2. Numbered <=> NumberPart
  BY DEF Numbered, NumberPart, NumberedIn, Newest, Number
<1>3. Resumed <=> ResumedIn(wire, engine)
  BY DEF Resumed, ResumedIn
<1>4. (\E a \in Outstanding : a.what = "values" /\ a.seq = dispSeq) <=> AskedIn(wire, inbox, dispSeq)
  BY AskedOf DEF Outstanding
<1>5. (\A i \in DOMAIN inbox : ForView(inbox[i]) /\ Newest(inbox[i]) /\ inbox[i].pause # 0 =>
         inbox[i].pause = pause /\ ~Resumed) <=> InboxPart
  BY <1>3 DEF InboxPart, FreshIn, Newest, Number
<1>6. ViewsPart <=>
        /\ \A v \in {vars, kids, values} : v.is = "said" => v.pause = pause /\ ~Resumed /\ At("launch") = {}
        /\ Current(vars, varsSeq) /\ Current(kids, varsSeq)
        /\ Current(values, dispSeq) \/ \E a \in Outstanding : a.what = "values" /\ a.seq = dispSeq
  BY <1>3, <1>4, Zenon DEF ViewsPart, ViewIn, ValuesIn, Current
<1>7. QED
  BY <1>1, <1>2, <1>5, <1>6 DEF Fresh

LEMMA PartsNext ==
  ASSUME TokenNext, NumberNext, InboxNext, ViewsNext
  PROVE  OneToken' /\ Numbered' /\ Fresh'
<1>1. OneToken'
  BY WaitsNext DEF OneToken, TokenNext, OneTokenIn
<1>2. Numbered'
  BY DEF Numbered, NumberNext, NumberedIn, Newest, Number
<1>3. Resumed' <=> ResumedIn(wire', engine')
  BY DEF Resumed, ResumedIn
<1>4. (\E a \in Outstanding' : a.what = "values" /\ a.seq = dispSeq') <=> AskedIn(wire', inbox', dispSeq')
  BY AskedOf DEF Outstanding
<1>5. \A i \in DOMAIN inbox' : ForView(inbox'[i]) /\ inbox'[i].seq = Number(inbox'[i], varsSeq', dispSeq')
                                 /\ inbox'[i].pause # 0 => inbox'[i].pause = pause' /\ ~Resumed'
  BY <1>3 DEF InboxNext, FreshIn
<1>6. /\ \A v \in {vars', kids', values'} : v.is = "said" => v.pause = pause' /\ ~Resumed' /\ At("launch")' = {}
      /\ Current(vars, varsSeq)' /\ Current(kids, varsSeq)'
      /\ Current(values, dispSeq)' \/ \E a \in Outstanding' : a.what = "values" /\ a.seq = dispSeq'
  BY <1>3, <1>4, Zenon DEF ViewsNext, ViewIn, ValuesIn, Current
<1>7. Fresh'
  BY <1>5, <1>6 DEF Fresh, Newest, Number
<1>8. QED
  BY <1>1, <1>2, <1>7

LEMMA IParts ==
  IInv => /\ TInv /\ OneCommand /\ PauseHolds /\ TokenPart /\ NumberPart /\ InboxPart /\ ViewsPart
          /\ DebuggerOK /\ ControlOK /\ ShownOK /\ LinkOK /\ ClickOK /\ ToldOK /\ Linked /\ OneToken
<1> SUFFICES ASSUME IInv
             PROVE  /\ TInv /\ OneCommand /\ PauseHolds /\ TokenPart /\ NumberPart /\ InboxPart /\ ViewsPart
                    /\ DebuggerOK /\ ControlOK /\ ShownOK /\ LinkOK /\ ClickOK /\ ToldOK /\ Linked /\ OneToken
  OBVIOUS
<1>1. TInv /\ OneCommand /\ PauseHolds /\ OneToken /\ Numbered /\ Fresh
  BY DEF IInv
<1>2. TokenPart /\ NumberPart /\ InboxPart /\ ViewsPart
  BY <1>1, PartsOf
<1>3. DebuggerOK /\ ControlOK /\ ShownOK /\ LinkOK /\ ClickOK /\ ToldOK /\ Linked
  BY <1>1, TParts
<1>4. QED
  BY <1>1, <1>2, <1>3

LEMMA IKeeps ==
  ASSUME TInv', OneCommand', PauseHolds', TokenNext, NumberNext, InboxNext, ViewsNext
  PROVE  IInv'
<1>1. OneToken' /\ Numbered' /\ Fresh'
  BY PartsNext
<1>2. QED
  BY <1>1 DEF IInv

\* The connection is closed.
LEMMA Closed ==
  ASSUME Hangup
  PROVE  TokenNext /\ NumberNext /\ InboxNext /\ ~ResumedIn(wire', engine') /\ pause' = pause
<1>1. engine' = "none" /\ wire' = <<>> /\ inbox' = <<>> /\ pause' = pause
  BY DEF Hangup
<1>2. "none" # "running"
  OBVIOUS
<1>3. TokenNext
  BY <1>1, <1>2, EmptyQueues DEF TokenNext
<1>4. NumberNext
  BY <1>1, <1>2, EmptyQueues DEF NumberNext
<1>5. InboxNext
  BY <1>1, <1>2, EmptyQueues DEF InboxNext
<1>6. ~ResumedIn(wire', engine')
  BY <1>1, <1>2, EmptyQueues
<1>7. QED
  BY <1>1, <1>3, <1>4, <1>5, <1>6

\* The connection is closed, and the views are empty.
LEMMA ClearedEmpty ==
  ASSUME Hangup, vars'.is # "said", kids'.is # "said", values'.is # "said"
  PROVE  TokenNext /\ NumberNext /\ InboxNext /\ ViewsNext
<1>1. ViewsNext
  BY DEF ViewsNext, ViewIn, ValuesIn
<1>2. QED
  BY <1>1, Closed

\* The connection is closed, and what was asked fails.
LEMMA ClearedFailed ==
  ASSUME IInv, Hangup, Reject(Outstanding), At("launch")' = {}
  PROVE  TokenNext /\ NumberNext /\ InboxNext /\ ViewsNext
<1>1. pause' = pause
  BY Closed
<1>2. TokenNext /\ NumberNext /\ InboxNext
  BY Closed
<1>3. ~ResumedIn(wire', engine')
  BY Closed
<1>4. ViewsPart
  BY IParts
<1>5. /\ vars' \in {vars, Gone} /\ kids' \in {kids, Gone} /\ varsSeq' = varsSeq /\ dispSeq' = dispSeq
      /\ values' = IF \E a \in Outstanding : a.what = "values" /\ Newest(a) THEN Gone ELSE values
  BY DEF Reject, Failed
<1>6. Gone.is # "said"
  BY Views
<1>7. ViewIn(vars', varsSeq', pause', wire', engine', At("launch")') /\ ViewIn(kids', varsSeq', pause', wire', engine', At("launch")')
  BY <1>1, <1>3, <1>4, <1>5, <1>6 DEF ViewsPart, ViewIn
<1>8. ValuesIn(values', dispSeq', pause', wire', inbox', engine', At("launch")')
  <2>1. CASE \E a \in Outstanding : a.what = "values" /\ Newest(a)
    BY <1>5, <1>6, <2>1 DEF ValuesIn
  <2>2. CASE ~\E a \in Outstanding : a.what = "values" /\ Newest(a)
    <3>1. ~AskedIn(wire, inbox, dispSeq)
      BY <2>2, AskedOf DEF Newest, Outstanding
    <3>2. values' = values
      BY <1>5, <2>2
    <3>3. values.is = "said" => values.seq = dispSeq /\ values.pause = pause
      BY <1>4, <3>1 DEF ViewsPart, ValuesIn
    <3>4. QED
      BY <1>1, <1>3, <1>5, <3>2, <3>3 DEF ValuesIn
  <2>3. QED
    BY <2>1, <2>2
<1>9. QED
  BY <1>2, <1>7, <1>8 DEF ViewsNext

\* The debuggee is gone.
LEMMA ExitParts ==
  ASSUME ShownOK, DebuggerOK, Exit, At("launch")' = {}, At("entry")' = {}, At("running")' = {}
  PROVE  PauseHolds' /\ TokenNext /\ NumberNext /\ InboxNext /\ ViewsNext
<1>1. Reset("exited") /\ Forget /\ Hangup
  BY DEF Exit
<1>2. vars' = Nothing /\ kids' = Nothing /\ values' = Nothing /\ stack' = 0 /\ inbox' = <<>>
  BY <1>1, ResetFacts, ForgetFacts DEF Hangup
<1>3. DOMAIN inbox' = {}
  BY <1>2, EmptyFacts
<1>4. PauseHolds'
  <2>1. At("launch")' \cup At("entry")' \cup At("running")' = {}
    OBVIOUS
  <2>2. ~(stack' > 0)
    BY <1>2
  <2>3. QED
    BY <1>3, <2>1, <2>2 DEF PauseHolds
<1>5. Nothing.is # "said"
  BY Views
<1>6. QED
  BY <1>1, <1>2, <1>4, <1>5, ClearedEmpty

-----------------------------------------------------------------------------
(* Steps that ask for views, or leave the queues alone                      *)

LEMMA AskParts ==
  ASSUME IInv, NEW qs, AsksForViews(qs), inbox' = inbox,
         At("running")' = At("running"), At("entry")' = At("entry"), At("stack")' = At("stack"), At("eval")' = At("eval")
  PROVE  /\ TokenNext /\ NumberNext /\ InboxNext
         /\ ResumedIn(wire', engine') <=> ResumedIn(wire, engine)
         /\ AskedIn(wire, inbox, dispSeq) => AskedIn(wire', inbox', dispSeq)
<1> PICK r : r = wire'
  OBVIOUS
<1> PICK vn : vn = varsSeq'
  OBVIOUS
<1> PICK dn : dn = dispSeq'
  OBVIOUS
<1>1. /\ wire \in Seq(Ask) /\ inbox \in Seq(Said) /\ varsSeq \in Nat /\ dispSeq \in Nat
      /\ TokenPart /\ NumberPart /\ InboxPart
  BY IParts DEF LinkOK, Linked, ShownOK
<1>2. /\ qs \in Seq(Ask) /\ r = wire \o qs /\ engine' = engine /\ pause' = pause /\ inbox' = inbox
      /\ vn \in Nat /\ dn \in Nat /\ varsSeq <= vn /\ dispSeq <= dn
      /\ \A k \in DOMAIN qs : ForView(qs[k]) /\ qs[k].seq = Number(qs[k], vn, dn)
  BY DEF AsksForViews, Number
<1>3. \A k \in DOMAIN qs : ~Token(qs[k]) /\ qs[k].what # "resume"
  BY <1>2, TokenKinds
<1>4. OneTokenIn(r, inbox, engine, At("running"), At("entry"), At("stack"), At("eval"))
  <2>1. OneTokenIn(wire, inbox, engine, At("running"), At("entry"), At("stack"), At("eval"))
    BY <1>1 DEF TokenPart
  <2>2. wire \in Seq(Ask) /\ qs \in Seq(Ask) /\ r = wire \o qs /\ \A k \in DOMAIN qs : ~Token(qs[k])
    BY <1>1, <1>2, <1>3
  <2>3. QED
    BY <2>1, <2>2, AskToken
<1>5. NumberedIn(r, inbox, vn, dn)
  BY <1>1, <1>2, AskNumbered DEF NumberPart
<1>6. FreshIn(r, inbox, engine, vn, dn, pause)
  BY <1>1, <1>2, <1>3, AskFresh DEF NumberPart, InboxPart
<1>7. ResumedIn(r, engine) <=> ResumedIn(wire, engine)
  BY <1>1, <1>2, <1>3, AskResumed
<1>8. AskedIn(wire, inbox, dispSeq) => AskedIn(r, inbox, dispSeq)
  BY <1>1, <1>2, AskAsked
<1>9. TokenNext /\ NumberNext /\ InboxNext
  BY <1>2, <1>4, <1>5, <1>6 DEF TokenNext, NumberNext, InboxNext
<1>10. QED
  BY <1>2, <1>7, <1>8, <1>9

LEMMA StillParts ==
  ASSUME IInv, UNCHANGED <<engine, pause, wire, inbox, varsSeq, dispSeq, vars, kids, values>>,
         At("running")' = At("running"), At("entry")' = At("entry"), At("stack")' = At("stack"), At("eval")' = At("eval"),
         At("launch")' \subseteq At("launch")
  PROVE  TokenNext /\ NumberNext /\ InboxNext /\ ViewsNext
<1>1. TokenPart /\ NumberPart /\ InboxPart /\ ViewsPart
  BY IParts
<1>2. TokenNext /\ NumberNext /\ InboxNext
  BY <1>1 DEF TokenNext, NumberNext, InboxNext, TokenPart, NumberPart, InboxPart
<1>3. At("launch") = {} => At("launch")' = {}
  OBVIOUS
<1>4. ViewIn(vars', varsSeq', pause', wire', engine', At("launch")') /\ ViewIn(kids', varsSeq', pause', wire', engine', At("launch")')
  BY <1>1, <1>3 DEF ViewsPart, ViewIn
<1>5. ValuesIn(values', dispSeq', pause', wire', inbox', engine', At("launch")')
  BY <1>1, <1>3 DEF ViewsPart, ValuesIn
<1>6. QED
  BY <1>2, <1>4, <1>5 DEF ViewsNext

\* No command moves.
LEMMA SamePlaces ==
  ASSUME commands' = commands
  PROVE  (\A p : At(p)' = At(p)) /\ InProgress' = InProgress /\ Ids' = Ids /\ Settled' = Settled
  BY DEF At, InProgress, Ids, Place, Settled

LEMMA SameCommand ==
  ASSUME OneCommand, commands' = commands, busy' = busy, session' = session
  PROVE  OneCommand'
<1>1. At("launch")' = At("launch") /\ InProgress' = InProgress
  BY SamePlaces
<1>2. QED
  BY <1>1 DEF OneCommand

LEMMA SamePause ==
  ASSUME PauseHolds, commands' = commands, told' = told, stack' = stack, stackPause' = stackPause,
         pause' = pause, inbox' = inbox
  PROVE  PauseHolds'
<1>1. \A p : At(p)' = At(p)
  BY SamePlaces
<1>2. QED
  BY <1>1 DEF PauseHolds

LEMMA SelectKeeps == ASSUME IInv, NEW i \in 0 .. MaxDepth - 1, SelectFrame(i) PROVE IInv'
<1>1. TInv'
  BY IParts, SelectTypes
<1>2. /\ UNCHANGED <<child, session, lost, stack, stackPause, told, engine, pause, inbox, commands, busy>>
      /\ RefreshVars(stack) /\ stack \in Nat
  BY IParts, Bounds DEF SelectFrame, Clicks, DebuggerOK, control
<1>3. /\ \E qs : AsksForViews(qs)
      /\ vars'.is # "said" /\ kids'.is # "said" /\ values'.is # "said"
  BY <1>2, IParts, RefreshFacts
<1>4. TokenNext /\ NumberNext /\ InboxNext
  BY <1>2, <1>3, SamePlaces, AskParts
<1>5. ViewsNext
  BY <1>3 DEF ViewsNext, ViewIn, ValuesIn
<1>6. OneCommand' /\ PauseHolds'
  BY <1>2, IParts, SameCommand, SamePause
<1>7. QED
  BY <1>1, <1>4, <1>5, <1>6, IKeeps

LEMMA AddKeeps == ASSUME IInv, AddWatch PROVE IInv'
<1>1. TInv'
  BY IParts, AddTypes
<1>2. UNCHANGED <<child, session, lost, stack, stackPause, told, engine, pause, inbox, commands, busy>>
  BY DEF AddWatch, Clicks, control
<1>3. /\ \E qs : AsksForViews(qs)
      /\ varsSeq' = varsSeq /\ vars' = vars /\ kids' = kids
      /\ \/ values'.is # "said"
         \/ wire' = Append(wire, Question("values", dispSeq')) /\ values' = values
  BY IParts, AddFacts
<1>4. TokenNext /\ NumberNext /\ InboxNext /\ (ResumedIn(wire', engine') <=> ResumedIn(wire, engine))
  BY <1>2, <1>3, SamePlaces, AskParts
<1>5. ViewsPart /\ At("launch")' = At("launch")
  BY <1>2, IParts, SamePlaces
<1>6. ViewIn(vars', varsSeq', pause', wire', engine', At("launch")') /\ ViewIn(kids', varsSeq', pause', wire', engine', At("launch")')
  BY <1>2, <1>3, <1>4, <1>5 DEF ViewsPart, ViewIn
<1>7. ValuesIn(values', dispSeq', pause', wire', inbox', engine', At("launch")')
  <2>1. CASE values'.is # "said"
    BY <2>1 DEF ValuesIn
  <2>2. CASE wire' = Append(wire, Question("values", dispSeq')) /\ values' = values
    <3> PICK w : w = wire'
      OBVIOUS
    <3> PICK n : n = dispSeq'
      OBVIOUS
    <3>1. n \in Nat /\ wire \in Seq(Ask)
      BY <1>1, IParts, TParts DEF LinkOK, TInv, TypeOK
    <3>2. Question("values", n) \in Ask /\ Question("values", n).what = "values" /\ Question("values", n).seq = n
      BY <3>1, Questions
    <3>3. w = Append(wire, Question("values", n))
      BY <2>2
    <3>4. Len(wire) + 1 \in DOMAIN w /\ w[Len(wire) + 1] = Question("values", n)
      BY <3>1, <3>2, <3>3, AppendFacts
    <3>5. AskedIn(w, inbox', n)
      BY <3>2, <3>4 DEF AskedIn
    <3>6. QED
      BY <1>2, <1>4, <1>5, <2>2, <3>5 DEF ViewsPart, ValuesIn
  <2>3. QED
    BY <1>3, <2>1, <2>2
<1>8. OneCommand' /\ PauseHolds'
  BY <1>2, IParts, SameCommand, SamePause
<1>9. QED
  BY <1>1, <1>4, <1>6, <1>7, <1>8, IKeeps DEF ViewsNext

LEMMA ToggleKeeps == ASSUME IInv, ToggleVar PROVE IInv'
<1>1. TInv'
  BY IParts, ToggleTypes
<1>2. UNCHANGED <<child, session, lost, stack, stackPause, told, engine, pause, inbox, commands, busy>>
  BY DEF ToggleVar, Clicks, control
<1>3. /\ \E qs : AsksForViews(qs)
      /\ varsSeq' = varsSeq /\ vars' = vars /\ values' = values /\ dispSeq' = dispSeq
      /\ kids' = kids \/ kids'.is # "said"
  BY IParts, ToggleFacts
<1>4. /\ TokenNext /\ NumberNext /\ InboxNext /\ (ResumedIn(wire', engine') <=> ResumedIn(wire, engine))
      /\ AskedIn(wire, inbox, dispSeq) => AskedIn(wire', inbox', dispSeq)
  BY <1>2, <1>3, SamePlaces, AskParts
<1>5. ViewsPart /\ At("launch")' = At("launch")
  BY <1>2, IParts, SamePlaces
<1>6. ViewIn(vars', varsSeq', pause', wire', engine', At("launch")') /\ ViewIn(kids', varsSeq', pause', wire', engine', At("launch")')
  BY <1>2, <1>3, <1>4, <1>5 DEF ViewsPart, ViewIn
<1>7. ValuesIn(values', dispSeq', pause', wire', inbox', engine', At("launch")')
  BY <1>2, <1>3, <1>4, <1>5 DEF ViewsPart, ValuesIn
<1>8. OneCommand' /\ PauseHolds'
  BY <1>2, IParts, SameCommand, SamePause
<1>9. QED
  BY <1>1, <1>4, <1>6, <1>7, <1>8, IKeeps DEF ViewsNext

LEMMA RemoveKeeps == ASSUME IInv, NEW n \in 1 .. MaxDisplays, RemoveWatch(n) PROVE IInv'
<1>1. TInv'
  BY IParts, RemoveTypes
<1>2. /\ UNCHANGED <<session, stack, stackPause, told, commands, busy>>
      /\ UNCHANGED <<engine, pause, wire, inbox, varsSeq, dispSeq, vars, kids, values>>
  BY DEF RemoveWatch, Clicks, control, shown
<1>3. TokenNext /\ NumberNext /\ InboxNext /\ ViewsNext
  BY <1>2, SamePlaces, StillParts
<1>4. OneCommand' /\ PauseHolds'
  BY <1>2, IParts, SameCommand, SamePause
<1>5. QED
  BY <1>1, <1>3, <1>4, IKeeps

LEMMA SubmitKeeps == ASSUME IInv, Submit PROVE IInv'
<1>1. TInv'
  BY IParts, SubmitTypes
<1>2. /\ UNCHANGED <<session, stack, stackPause, told, commands, busy>>
      /\ UNCHANGED <<engine, pause, wire, inbox, varsSeq, dispSeq, vars, kids, values>>
  BY DEF Submit, debugger, shown, link
<1>3. TokenNext /\ NumberNext /\ InboxNext /\ ViewsNext
  BY <1>2, SamePlaces, StillParts
<1>4. OneCommand' /\ PauseHolds'
  BY <1>2, IParts, SameCommand, SamePause
<1>5. QED
  BY <1>1, <1>3, <1>4, IKeeps

-----------------------------------------------------------------------------
(* Steps that send what a command waits for                                 *)

LEMMA NoTokensHere == NoTokens <=> engine # "running" /\ NoTokensIn(wire, inbox)
  BY DEF NoTokens, NoTokensIn

LEMMA SendParts ==
  ASSUME IInv, NoTokens, SendResume, At("running")' # {}
  PROVE  /\ TokenNext /\ NumberNext /\ InboxNext /\ ViewsNext
         /\ \A i \in DOMAIN inbox' : inbox'[i].what # "stack"
<1> PICK r : r = wire'
  OBVIOUS
<1> PICK x : x = Question("resume", 0)
  OBVIOUS
<1>1. /\ wire \in Seq(Ask) /\ inbox \in Seq(Said) /\ varsSeq \in Nat /\ dispSeq \in Nat
      /\ NumberPart /\ ShownOK
  BY IParts DEF LinkOK, Linked, ShownOK
<1>2. x \in Ask /\ x.what = "resume"
  BY Questions
<1>3. r = Append(wire, x) /\ engine' = engine /\ pause' = pause /\ inbox' = inbox /\ Reset("running")
  BY DEF SendResume
<1>4. varsSeq' = varsSeq + 1 /\ dispSeq' = dispSeq + 1 /\ vars' = Nothing /\ kids' = Nothing /\ values' = Nothing
  BY <1>1, <1>3, ResetFacts
<1>5. NoTokensIn(wire, inbox) /\ engine # "running"
  BY NoTokensHere
<1>6. ~ForView(x)
  BY <1>2, TokenKinds
<1>7. NumberedIn(r, inbox, varsSeq + 1, dispSeq + 1) /\ FreshIn(r, inbox, engine, varsSeq + 1, dispSeq + 1, pause)
  <2>1. NumberedIn(wire, inbox, varsSeq, dispSeq)
    BY <1>1 DEF NumberPart
  <2>2. QED
    BY <1>1, <1>2, <1>3, <1>6, <2>1, ResumeNumbered
<1>8. TokenNext
  <2> PICK R : R = At("running")'
    OBVIOUS
  <2> PICK E : E = At("entry")'
    OBVIOUS
  <2> PICK S : S = At("stack")'
    OBVIOUS
  <2> PICK V : V = At("eval")'
    OBVIOUS
  <2>1. Waiting(x, R, E, S, V) # {}
    BY <1>2 DEF Waiting
  <2>2. OneTokenIn(r, inbox, engine, R, E, S, V)
    BY <1>1, <1>2, <1>3, <1>5, <2>1, SendToken
  <2>3. QED
    BY <1>3, <2>2 DEF TokenNext
<1>9. ViewsNext
  BY <1>4, Views DEF ViewsNext, ViewIn, ValuesIn
<1>10. \A i \in DOMAIN inbox' : inbox'[i].what # "stack"
  BY <1>3, <1>5, TokenKinds DEF NoTokensIn
<1>11. QED
  BY <1>3, <1>4, <1>7, <1>8, <1>9, <1>10 DEF NumberNext, InboxNext

LEMMA SendPause ==
  ASSUME SendResume, At("judge")' = {}, \A i \in DOMAIN inbox' : inbox'[i].what # "stack"
  PROVE  PauseHolds'
  BY DEF PauseHolds, SendResume, Reset

LEMMA OtherParts ==
  ASSUME IInv, NoTokens, NEW x \in Ask, ~ForView(x), x.what # "resume", wire' = Append(wire, x),
         UNCHANGED <<engine, pause, inbox, varsSeq, dispSeq, vars, kids, values>>,
         Waiting(x, At("running")', At("entry")', At("stack")', At("eval")') # {}, At("launch")' \subseteq At("launch")
  PROVE  TokenNext /\ NumberNext /\ InboxNext /\ ViewsNext
<1> PICK r : r = wire'
  OBVIOUS
<1>1. wire \in Seq(Ask) /\ NumberPart /\ InboxPart /\ ViewsPart
  BY IParts DEF LinkOK
<1>2. r = Append(wire, x)
  OBVIOUS
<1>3. NoTokensIn(wire, inbox) /\ engine # "running"
  BY NoTokensHere
<1>4. TokenNext
  <2> PICK R : R = At("running")'
    OBVIOUS
  <2> PICK E : E = At("entry")'
    OBVIOUS
  <2> PICK S : S = At("stack")'
    OBVIOUS
  <2> PICK V : V = At("eval")'
    OBVIOUS
  <2>1. OneTokenIn(r, inbox, engine, R, E, S, V)
    BY <1>1, <1>2, <1>3, SendToken
  <2>2. QED
    BY <2>1 DEF TokenNext
<1>5. NumberedIn(r, inbox, varsSeq, dispSeq)
  BY <1>1, <1>2, SendNumbered DEF NumberPart
<1>6. /\ ResumedIn(r, engine) <=> ResumedIn(wire, engine)
      /\ FreshIn(r, inbox, engine, varsSeq, dispSeq, pause)
      /\ AskedIn(wire, inbox, dispSeq) => AskedIn(r, inbox, dispSeq)
  BY <1>1, <1>2, SendFresh DEF InboxPart
<1>7. NumberNext /\ InboxNext
  BY <1>5, <1>6 DEF NumberNext, InboxNext
<1>8. At("launch") = {} => At("launch")' = {}
  OBVIOUS
<1>9. ViewIn(vars', varsSeq', pause', wire', engine', At("launch")') /\ ViewIn(kids', varsSeq', pause', wire', engine', At("launch")')
  BY <1>1, <1>6, <1>8 DEF ViewsPart, ViewIn
<1>10. ValuesIn(values', dispSeq', pause', wire', inbox', engine', At("launch")')
  BY <1>1, <1>6, <1>8 DEF ViewsPart, ValuesIn
<1>11. QED
  BY <1>4, <1>7, <1>9, <1>10 DEF ViewsNext

\* Where one command goes that no other one is beside.
LEMMA OneMoves ==
  ASSUME ControlOK, OneCommand, NEW p \in Walking, NEW c \in Ids, Place(c) = p,
         NEW place \in Places \ {"launch", "hung"}, Goes({c}, place), session' = session
  PROVE  /\ OneCommand'
         /\ \A q \in Walking : At(q)' = IF q = place THEN {c} ELSE {}
<1>1. c \in At(p) /\ place \in Places
  BY DEF At
<1>2. InProgress = {c} /\ At(p) = {c} /\ \A q \in Walking : q # p => At(q) = {}
  BY <1>1, Alone
<1>3. \A q : At(q)' = (At(q) \ {c}) \cup (IF q = place THEN {c} \cap Ids ELSE {})
  BY <1>1, GoesFacts
<1>4. ASSUME NEW q \in Walking
      PROVE  At(q)' = IF q = place THEN {c} ELSE {}
  <2>1. At(q) \ {c} = {}
    BY <1>2
  <2>2. QED
    BY <1>3, <2>1
<1>5. {c} \subseteq InProgress
  BY <1>2
<1>6. OneCommand'
  BY <1>5, OneGoes
<1>7. QED
  BY <1>4, <1>6

LEMMA EnteredKeeps == ASSUME IInv, NEW c \in Ids, Entered(c) PROVE IInv'
<1>1. TInv'
  BY IParts, EnteredTypes
<1>2. Place(c) = "entered" /\ SendResume /\ Goes({c}, "running") /\ session' = session
  BY DEF Entered, SendResume, debugger
<1>3. "entered" \in Walking /\ "running" \in Walking /\ "judge" \in Walking /\ "running" \in Places \ {"launch", "hung"}
  BY DEF Walking, Places
<1>4. OneCommand' /\ At("running")' = {c} /\ At("judge")' = {}
  BY <1>2, <1>3, IParts, OneMoves
<1>5. NoTokens
  <2>1. c \in At("entered")
    BY <1>2 DEF At
  <2>2. QED
    BY <2>1, IParts, QuietAlone
<1>6. TokenNext /\ NumberNext /\ InboxNext /\ ViewsNext /\ PauseHolds'
  BY <1>2, <1>4, <1>5, SendParts, SendPause
<1>7. QED
  BY <1>1, <1>4, <1>6, IKeeps

LEMMA AskStackKeeps == ASSUME IInv, NEW c \in Ids, AskStack(c) PROVE IInv'
<1>1. TInv'
  BY IParts, AskStackTypes
<1>2. PICK p \in {"stopped", "entered"} : Place(c) = p
  BY DEF AskStack
<1>3. /\ Goes({c}, "stack") /\ wire' = Asked(<<Question("stack", c)>>) /\ session' = session
      /\ UNCHANGED <<told, engine, pause, inbox, stack, stackPause>>
      /\ UNCHANGED <<varsSeq, dispSeq, vars, kids, values>>
  BY DEF AskStack, debugger, shown
<1>4. p \in Walking /\ "stack" \in Places \ {"launch", "hung"}
  BY DEF Walking, Places
<1>5. OneCommand' /\ \A q \in Walking : At(q)' = IF q = "stack" THEN {c} ELSE {}
  BY <1>2, <1>3, <1>4, IParts, OneMoves
<1>6. /\ At("stack")' = {c} /\ At("launch")' = {} /\ At("entry")' = {} /\ At("running")' = {} /\ At("judge")' = {}
  BY <1>5 DEF Walking
<1>7. c \in At(p)
  BY <1>2 DEF At
<1>8. NoTokens
  BY <1>7, IParts, QuietAlone
<1>9. Connected
  BY <1>7, IParts DEF Linked, Settled
<1> PICK x : x = Question("stack", c)
  OBVIOUS
<1>10. x \in Ask /\ x.what = "stack" /\ x.seq = c
  BY IParts, Questions DEF ControlOK, Ids
<1>11. wire' = Append(wire, x)
  BY <1>3, <1>9, <1>10, IParts DEF Asked, LinkOK
<1>12. Waiting(x, At("running")', At("entry")', At("stack")', At("eval")') # {}
  BY <1>6, <1>10 DEF Waiting
<1>13. ~ForView(x)
  BY <1>10, TokenKinds
<1>14. TokenNext /\ NumberNext /\ InboxNext /\ ViewsNext
  BY <1>3, <1>6, <1>8, <1>10, <1>11, <1>12, <1>13, OtherParts
<1>15. PauseHolds'
  BY <1>3, <1>6, IParts DEF PauseHolds
<1>16. QED
  BY <1>1, <1>5, <1>14, <1>15, IKeeps

\* A command that judges a stop is the only one, and the engine is still.
LEMMA JudgeAlone ==
  ASSUME IInv, NEW c \in Ids, Place(c) = "judge"
  PROVE  /\ NoTokens /\ At("judge") # {}
         /\ At("launch") = {} /\ At("entry") = {} /\ At("running") = {} /\ At("stack") = {} /\ At("eval") = {}
<1>1. c \in At("judge") /\ OneCommand /\ OneToken
  BY IParts DEF At
<1>2. "judge" \in Walking /\ "launch" \in Walking /\ "launch" # "judge"
  BY DEF Walking
<1>3. At("launch") = {}
  BY <1>1, <1>2, Alone
<1>4. QED
  BY <1>1, <1>3, QuietAlone

LEMMA ReportKeeps == ASSUME IInv, NEW c \in Ids, Report(c) PROVE IInv'
<1>1. TInv'
  BY IParts, ReportTypes
<1>2. /\ Place(c) = "judge" /\ told' = "stopped" /\ RefreshVars(stack) /\ Goes({c}, "over") /\ stack \in Nat
      /\ UNCHANGED <<session, stack, stackPause, engine, pause, inbox>>
  BY IParts, Bounds DEF Report, OnStopped, DebuggerOK
<1>3. "judge" \in Walking /\ "over" \notin Walking /\ "over" \in Places \ {"launch", "hung"}
  BY DEF Walking, Places
<1>4. OneCommand' /\ \A q \in Walking : At(q)' = {}
  BY <1>2, <1>3, IParts, OneMoves
<1>5. /\ At("launch")' = {} /\ At("entry")' = {} /\ At("running")' = {} /\ At("stack")' = {} /\ At("eval")' = {}
      /\ At("judge")' = {}
  BY <1>4 DEF Walking
<1>6. /\ At("judge") # {}
      /\ At("entry") = {} /\ At("running") = {} /\ At("stack") = {} /\ At("eval") = {}
  BY <1>2, JudgeAlone
<1>7. /\ \E qs : AsksForViews(qs)
      /\ vars'.is # "said" /\ kids'.is # "said" /\ values'.is # "said"
  BY <1>2, IParts, RefreshFacts
<1>8. TokenNext /\ NumberNext /\ InboxNext
  BY <1>2, <1>5, <1>6, <1>7, AskParts
<1>9. ViewsNext
  BY <1>7 DEF ViewsNext, ViewIn, ValuesIn
<1>10. PauseHolds'
  BY <1>2, <1>5, <1>6, IParts DEF PauseHolds
<1>11. QED
  BY <1>1, <1>4, <1>8, <1>9, <1>10, IKeeps

\* Where there is no connection, nothing is on its way.
LEMMA Nowhere ==
  ASSUME Linked, ~Connected
  PROVE  engine = "none" /\ wire = <<>> /\ inbox = <<>>
  BY DEF Linked

LEMMA PassOverKeeps == ASSUME IInv, NEW c \in Ids, PassOver(c) PROVE IInv'
<1>1. TInv'
  BY IParts, PassOverTypes
<1>2. Place(c) = "judge"
  BY DEF PassOver
<1>3. /\ "judge" \in Walking /\ "over" \notin Walking
      /\ "over" \in Places \ {"launch", "hung"} /\ "running" \in Places \ {"launch", "hung"}
  BY DEF Walking, Places
<1>4. NoTokens
  BY <1>2, JudgeAlone
<1>5. CASE Connected /\ SendResume /\ Goes({c}, "running")
  <2>1. session' = session
    BY <1>5 DEF SendResume, debugger
  <2>2. OneCommand' /\ \A q \in Walking : At(q)' = IF q = "running" THEN {c} ELSE {}
    BY <1>2, <1>3, <1>5, <2>1, IParts, OneMoves
  <2>3. At("running")' = {c} /\ At("judge")' = {}
    BY <2>2 DEF Walking
  <2>4. TokenNext /\ NumberNext /\ InboxNext /\ ViewsNext /\ PauseHolds'
    BY <1>4, <1>5, <2>3, SendParts, SendPause
  <2>5. QED
    BY <1>1, <2>2, <2>4, IKeeps
<1>6. CASE lost /\ Exit /\ Goes({c}, "over")
  <2>1. c \in InProgress
    BY <1>2, <1>3 DEF InProgress
  <2>2. InProgress = {c} /\ \A p : At(p)' = (At(p) \ {c}) \cup (IF p = "over" THEN {c} \cap Ids ELSE {})
    BY <1>3, <1>6, <2>1, IParts, GoesFacts DEF OneCommand
  <2>3. InProgress' = {}
    BY <1>3, <1>6, <2>2, IParts, GoesFacts
  <2>4. \A q \in Walking : At(q)' = {}
    BY <1>3, <2>2, PlacesFacts
  <2>5. At("launch")' = {} /\ At("entry")' = {} /\ At("running")' = {}
    BY <2>4 DEF Walking
  <2>6. OneCommand'
    BY <2>3, <2>5 DEF OneCommand
  <2>7. PauseHolds' /\ TokenNext /\ NumberNext /\ InboxNext /\ ViewsNext
    BY <1>6, <2>5, IParts, ExitParts
  <2>8. QED
    BY <1>1, <2>6, <2>7, IKeeps
<1>7. CASE ~session /\ Reset("running") /\ Goes({c}, "over") /\ UNCHANGED <<debugger, link>>
  <2>1. /\ UNCHANGED <<session, stack, stackPause>> /\ UNCHANGED <<engine, pause, wire, inbox>> /\ told' = "running"
    BY <1>7 DEF debugger, link, Reset
  <2>2. OneCommand' /\ \A q \in Walking : At(q)' = {}
    BY <1>2, <1>3, <1>7, <2>1, IParts, OneMoves
  <2>3. engine = "none" /\ wire = <<>> /\ inbox = <<>>
    BY <1>7, IParts, Nowhere DEF Connected
  <2>4. Hangup
    BY <2>1, <2>3 DEF Hangup
  <2>5. TokenNext /\ NumberNext /\ InboxNext /\ ViewsNext
    BY <1>7, <2>4, ClearedEmpty, IParts, ResetFacts, Views
  <2>6. At("judge")' = {}
    BY <2>2 DEF Walking
  <2>7. PauseHolds'
    BY <2>1, <2>3, <2>6, EmptyFacts DEF PauseHolds
  <2>8. QED
    BY <1>1, <2>2, <2>5, <2>7, IKeeps
<1>8. QED
  BY <1>5, <1>6, <1>7 DEF PassOver

LEMMA ConnectsKeeps == ASSUME IInv, NEW c \in Ids, Connects(c) PROVE IInv'
<1>1. TInv'
  BY IParts, ConnectsTypes
<1>2. /\ Place(c) = "launch" /\ Goes({c}, "entry") /\ engine' = "running"
      /\ UNCHANGED <<stack, stackPause, told, pause, wire, inbox>> /\ UNCHANGED <<varsSeq, dispSeq, vars, kids, values>>
  BY DEF Connects, shown
<1>3. c \in At("launch") /\ "launch" \in Walking /\ "entry" \in Places \ {"launch", "hung"} /\ "entry" \in Walking
  BY <1>2 DEF At, Walking, Places
<1>4. InProgress = {c} /\ At("launch") = {c} /\ \A q \in Walking : q # "launch" => At(q) = {}
  BY <1>3, IParts, Alone
<1>5. \A q : At(q)' = (At(q) \ {c}) \cup (IF q = "entry" THEN {c} \cap Ids ELSE {})
  BY <1>2, <1>3, IParts, GoesFacts
<1>6. At("entry")' = {c} /\ At("launch")' = {} /\ At("judge")' = {}
  <2>1. At("entry") = {} /\ At("judge") = {}
    BY <1>4 DEF Walking
  <2>2. QED
    BY <1>3, <1>4, <1>5, <2>1
<1>7. OneCommand'
  <2>1. {c} \subseteq InProgress /\ At("launch") # {}
    BY <1>4
  <2>2. QED
    BY <1>2, <1>3, <2>1, IParts, OneGoes
<1>8. ~Connected /\ told = "running"
  BY <1>3, IParts DEF Linked, Connected, PauseHolds
<1>9. engine = "none" /\ wire = <<>> /\ inbox = <<>>
  BY <1>8, IParts, Nowhere
<1>10. DOMAIN wire' = {} /\ DOMAIN inbox' = {}
  BY <1>2, <1>9, EmptyFacts
<1>11. TokenNext /\ NumberNext /\ InboxNext
  BY <1>6, <1>10 DEF TokenNext, NumberNext, InboxNext, OneTokenIn, NumberedIn, FreshIn
<1>12. ViewsNext
  <2>1. vars.is # "said" /\ kids.is # "said" /\ values.is # "said"
    BY <1>4, IParts DEF ViewsPart, ViewIn, ValuesIn
  <2>2. QED
    BY <1>2, <2>1 DEF ViewsNext, ViewIn, ValuesIn
<1>13. PauseHolds'
  BY <1>2, <1>6, <1>8, <1>10 DEF PauseHolds
<1>14. QED
  BY <1>1, <1>7, <1>11, <1>12, <1>13, IKeeps

-----------------------------------------------------------------------------
(* The engine's steps, and what they say                                    *)

\* The controls are not touched by the engine.
LEMMA EngineLeaves ==
  ASSUME EngineOnly
  PROVE  /\ UNCHANGED <<session, stack, stackPause, told, commands, busy>>
         /\ UNCHANGED <<varsSeq, dispSeq, vars, kids, values>>
         /\ (\A p : At(p)' = At(p)) /\ Settled
         /\ OneCommand => OneCommand'
<1>1. /\ UNCHANGED <<session, stack, stackPause, told, commands, busy>>
      /\ UNCHANGED <<varsSeq, dispSeq, vars, kids, values>> /\ Settled
  BY DEF EngineOnly, debugger, control, shown
<1>2. \A p : At(p)' = At(p)
  BY <1>1, SamePlaces
<1>3. OneCommand => OneCommand'
  BY <1>1, SameCommand
<1>4. QED
  BY <1>1, <1>2, <1>3

\* The views may keep what they show when no resume comes to be on its way.
LEMMA ViewsKeep ==
  ASSUME ViewsPart, UNCHANGED <<vars, kids, values, varsSeq, dispSeq, pause>>, At("launch")' \subseteq At("launch"),
         ResumedIn(wire', engine') => ResumedIn(wire, engine),
         AskedIn(wire, inbox, dispSeq) => AskedIn(wire', inbox', dispSeq)
  PROVE  ViewsNext
<1>1. At("launch") = {} => At("launch")' = {}
  OBVIOUS
<1>2. ViewIn(vars', varsSeq', pause', wire', engine', At("launch")') /\ ViewIn(kids', varsSeq', pause', wire', engine', At("launch")')
  BY <1>1 DEF ViewsPart, ViewIn
<1>3. ValuesIn(values', dispSeq', pause', wire', inbox', engine', At("launch")')
  BY <1>1 DEF ViewsPart, ValuesIn
<1>4. QED
  BY <1>2, <1>3 DEF ViewsNext

LEMMA ServeKeeps == ASSUME IInv, Serve PROVE IInv'
<1>r. PICK r : r = wire'
  OBVIOUS
<1>s. PICK s : s = inbox'
  OBVIOUS
<1>1. TInv'
  BY IParts, ServeTypes
<1>2. /\ UNCHANGED <<session, stack, stackPause, told, commands, busy>>
      /\ UNCHANGED <<varsSeq, dispSeq, vars, kids, values>>
      /\ (\A p : At(p)' = At(p)) /\ OneCommand'
  BY IParts, EngineLeaves DEF Serve
<1>3. /\ wire # <<>> /\ r = Tail(wire) /\ wire' = r /\ inbox' = s /\ pause' = pause /\ wire \in Seq(Ask) /\ inbox \in Seq(Said)
      /\ Head(wire) \in Ask
  BY <1>r, <1>s, IParts DEF Serve, LinkOK, Linked
<1>4. TokenPart /\ NumberPart /\ InboxPart /\ ViewsPart /\ PauseHolds
  BY IParts
<1>5. CASE Head(wire).what = "resume"
  <2>1. engine' = "running" /\ inbox' = inbox
    BY <1>5 DEF Serve
  <2>2. /\ OneTokenIn(r, inbox, "running", At("running"), At("entry"), At("stack"), At("eval"))
        /\ NumberedIn(r, inbox, varsSeq, dispSeq) /\ FreshIn(r, inbox, "running", varsSeq, dispSeq, pause)
        /\ ResumedIn(wire, engine)
        /\ AskedIn(wire, inbox, dispSeq) => AskedIn(r, inbox, dispSeq)
    BY <1>3, <1>4, <1>5, RunQueues DEF TokenPart, NumberPart, InboxPart
  <2>3. TokenNext /\ NumberNext /\ InboxNext
    BY <1>2, <1>3, <2>1, <2>2 DEF TokenNext, NumberNext, InboxNext
  <2>4. ViewsNext
    BY <1>2, <1>3, <1>4, <2>1, <2>2, ViewsKeep
  <2>5. PauseHolds'
    BY <1>2, <1>3, <1>4, <2>1, SamePause
  <2>6. QED
    BY <1>1, <1>2, <2>3, <2>4, <2>5, IKeeps
<1>6. CASE Head(wire).what # "resume"
  <2>y. PICK y : y = Reply(Head(wire))
    OBVIOUS
  <2>1. engine' = engine /\ s = Append(inbox, y)
    BY <1>s, <1>6, <2>y DEF Serve, Reply
  <2>2. /\ y \in Said /\ y.what = Head(wire).what /\ y.seq = Head(wire).seq
        /\ y.pause \in {0, pause} /\ (engine # "halted" => y.pause = 0)
    BY <1>3, <1>6, <2>y, IParts, ReplyFacts
  <2>3. OneTokenIn(r, s, engine, At("running"), At("entry"), At("stack"), At("eval"))
    BY <1>3, <1>4, <2>1, <2>2, ServeToken DEF TokenPart
  <2>4. NumberedIn(r, s, varsSeq, dispSeq)
    BY <1>3, <1>4, <2>1, <2>2, ServeNumbered DEF NumberPart
  <2>5. FreshIn(r, s, engine, varsSeq, dispSeq, pause)
    <3>1. NumberedIn(wire, inbox, varsSeq, dispSeq) /\ FreshIn(wire, inbox, engine, varsSeq, dispSeq, pause)
      BY <1>4 DEF NumberPart, InboxPart
    <3>2. /\ wire \in Seq(Ask) /\ wire # <<>> /\ r = Tail(wire) /\ inbox \in Seq(Said) /\ y \in Said
          /\ s = Append(inbox, y) /\ y.what = Head(wire).what /\ y.seq = Head(wire).seq
      BY <1>3, <2>1, <2>2
    <3>3. y.pause # 0 => y.pause = pause /\ ~Runs(engine)
      BY <2>2 DEF Runs
    <3>4. QED
      BY <3>1, <3>2, <3>3, ServeFresh
  <2>6. ResumedIn(r, engine) => ResumedIn(wire, engine)
    BY <1>3, RestResumed
  <2>7. AskedIn(wire, inbox, dispSeq) => AskedIn(r, s, dispSeq)
    BY <1>3, <2>1, <2>2, ServeAsked
  <2>8. TokenNext /\ NumberNext /\ InboxNext
    BY <1>2, <1>3, <2>1, <2>3, <2>4, <2>5 DEF TokenNext, NumberNext, InboxNext
  <2>9. ViewsNext
    BY <1>2, <1>3, <1>4, <2>1, <2>6, <2>7, ViewsKeep
  <2>10. PauseHolds'
    <3>1. \A i \in DOMAIN s : s[i].what = "stack" => s[i].pause \in {0, pause}
      <4>1. /\ DOMAIN s = DOMAIN inbox \cup {Len(inbox) + 1} /\ s[Len(inbox) + 1] = y
            /\ \A i \in DOMAIN inbox : s[i] = inbox[i]
        BY <1>3, <2>1, <2>2, AppendFacts
      <4>2. \A i \in DOMAIN inbox : inbox[i].what = "stack" => inbox[i].pause \in {0, pause}
        BY <1>4 DEF PauseHolds
      <4>3. QED
        BY <2>2, <4>1, <4>2
    <3>2. QED
      BY <1>2, <1>3, <1>4, <3>1 DEF PauseHolds
  <2>11. QED
    BY <1>1, <1>2, <2>8, <2>9, <2>10, IKeeps
<1>7. QED
  BY <1>5, <1>6

\* While the engine runs, a command waits for it to stop, and nothing is looked at.
LEMMA RunningFacts ==
  ASSUME IInv, engine = "running"
  PROVE  /\ told = "running" /\ At("judge") = {} /\ NoTokensIn(wire, inbox)
         /\ vars.is # "said" /\ kids.is # "said" /\ values.is # "said"
<1>1. NoTokensIn(wire, inbox) /\ At("running") \cup At("entry") # {}
  BY IParts, RunningAlone DEF TokenPart
<1>2. told = "running"
  BY <1>1, IParts DEF PauseHolds
<1>3. At("judge") = {}
  <2>1. PICK p \in {"running", "entry"}, c \in Ids : c \in At(p)
    BY <1>1 DEF At
  <2>2. p \in Walking /\ "judge" \in Walking /\ p # "judge"
    BY DEF Walking
  <2>3. QED
    BY <2>1, <2>2, IParts, Alone
<1>4. ResumedIn(wire, engine)
  BY DEF ResumedIn
<1>5. QED
  BY <1>1, <1>2, <1>3, <1>4, IParts DEF ViewsPart, ViewIn, ValuesIn

LEMMA HaltsKeeps == ASSUME IInv, Halts PROVE IInv'
<1>s. PICK s : s = inbox'
  OBVIOUS
<1>y. PICK y : y = [what |-> "stop", seq |-> 0, pause |-> pause + 1]
  OBVIOUS
<1>1. TInv'
  BY IParts, HaltsTypes
<1>2. /\ UNCHANGED <<session, stack, stackPause, told, commands, busy>>
      /\ UNCHANGED <<varsSeq, dispSeq, vars, kids, values>>
      /\ (\A p : At(p)' = At(p)) /\ OneCommand'
  BY IParts, EngineLeaves DEF Halts
<1>3. /\ engine = "running" /\ engine' = "halted" /\ pause < MaxPauses /\ pause' = pause + 1 /\ wire' = wire
      /\ inbox' = s /\ s = Append(inbox, y) /\ inbox \in Seq(Said)
  BY <1>s, <1>y, IParts DEF Halts, Linked
<1>4. y \in Said /\ y.what = "stop"
  <2>1. pause + 1 \in 0 .. MaxPauses
    BY <1>3, IParts, Bounds DEF LinkOK
  <2>2. QED
    BY <1>y, <2>1 DEF Said
<1>5. ~ForView(y)
  BY <1>4, TokenKinds
<1>6. TokenPart /\ NumberPart /\ InboxPart
  BY IParts
<1>7. OneTokenIn(wire, s, "halted", At("running"), At("entry"), At("stack"), At("eval"))
  BY <1>3, <1>4, <1>6, StopToken DEF TokenPart
<1>8. NumberedIn(wire, s, varsSeq, dispSeq) /\ FreshIn(wire, s, "halted", varsSeq, dispSeq, pause + 1)
  <2>1. ResumedIn(wire, engine) /\ ~Runs("halted")
    BY <1>3 DEF ResumedIn, Runs
  <2>2. NumberedIn(wire, inbox, varsSeq, dispSeq) /\ FreshIn(wire, inbox, engine, varsSeq, dispSeq, pause)
    BY <1>6 DEF NumberPart, InboxPart
  <2>3. inbox \in Seq(Said) /\ y \in Said /\ s = Append(inbox, y) /\ ~ForView(y)
    BY <1>3, <1>4, <1>5
  <2>4. QED
    BY <2>1, <2>2, <2>3, SaysOf
<1>9. TokenNext /\ NumberNext /\ InboxNext
  BY <1>2, <1>3, <1>7, <1>8 DEF TokenNext, NumberNext, InboxNext
<1>10. /\ told = "running" /\ At("judge") = {} /\ NoTokensIn(wire, inbox)
       /\ vars.is # "said" /\ kids.is # "said" /\ values.is # "said"
  BY <1>3, RunningFacts
<1>11. ViewsNext
  BY <1>2, <1>10 DEF ViewsNext, ViewIn, ValuesIn
<1>12. \A i \in DOMAIN s : s[i].what # "stack"
  <2>1. /\ DOMAIN s = DOMAIN inbox \cup {Len(inbox) + 1} /\ s[Len(inbox) + 1] = y
        /\ \A i \in DOMAIN inbox : s[i] = inbox[i]
    BY <1>3, <1>4, AppendFacts
  <2>2. \A i \in DOMAIN inbox : inbox[i].what # "stack"
    BY <1>10, TokenKinds DEF NoTokensIn
  <2>3. QED
    BY <1>4, <2>1, <2>2
<1>13. PauseHolds'
  BY <1>2, <1>3, <1>10, <1>12 DEF PauseHolds
<1>14. QED
  BY <1>1, <1>2, <1>9, <1>11, <1>13, IKeeps

LEMMA DiesKeeps == ASSUME IInv, Dies PROVE IInv'
<1>s. PICK s : s = inbox'
  OBVIOUS
<1>y. PICK y : y = [what |-> "closed", seq |-> 0, pause |-> 0]
  OBVIOUS
<1>1. TInv'
  BY IParts, DiesTypes
<1>2. /\ UNCHANGED <<session, stack, stackPause, told, commands, busy>>
      /\ UNCHANGED <<varsSeq, dispSeq, vars, kids, values>>
      /\ (\A p : At(p)' = At(p)) /\ OneCommand'
  BY IParts, EngineLeaves DEF Dies
<1>3. /\ engine' = "none" /\ pause' = pause /\ wire' = wire
      /\ inbox' = s /\ s = Append(inbox, y) /\ inbox \in Seq(Said)
  BY <1>s, <1>y, IParts DEF Dies, Linked
<1>4. y \in Said /\ y.what = "closed"
  BY <1>y, Bounds DEF Said
<1>5. ~ForView(y) /\ ~Token(y)
  BY <1>4, TokenKinds
<1>6. TokenPart /\ NumberPart /\ InboxPart /\ ViewsPart /\ PauseHolds
  BY IParts
<1>7. OneTokenIn(wire, s, "none", At("running"), At("entry"), At("stack"), At("eval"))
  <2>1. ~Runs("none")
    BY DEF Runs
  <2>2. inbox \in Seq(Said) /\ y \in Said /\ s = Append(inbox, y) /\ ~Token(y)
    BY <1>3, <1>4, <1>5
  <2>3. OneTokenIn(wire, inbox, engine, At("running"), At("entry"), At("stack"), At("eval"))
    BY <1>6 DEF TokenPart
  <2>4. QED
    BY <2>1, <2>2, <2>3, OtherToken
<1>8. /\ NumberedIn(wire, s, varsSeq, dispSeq) /\ FreshIn(wire, s, "none", varsSeq, dispSeq, pause)
      /\ ResumedIn(wire, "none") => ResumedIn(wire, engine)
      /\ AskedIn(wire, inbox, dispSeq) => AskedIn(wire, s, dispSeq)
  <2>1. NumberedIn(wire, inbox, varsSeq, dispSeq) /\ FreshIn(wire, inbox, engine, varsSeq, dispSeq, pause)
    BY <1>6 DEF NumberPart, InboxPart
  <2>2. ~Runs("none")
    BY DEF Runs
  <2>3. inbox \in Seq(Said) /\ y \in Said /\ s = Append(inbox, y) /\ ~ForView(y)
    BY <1>3, <1>4, <1>5
  <2>4. QED
    BY <2>1, <2>2, <2>3, SaysOf
<1>9. TokenNext /\ NumberNext /\ InboxNext
  BY <1>2, <1>3, <1>7, <1>8 DEF TokenNext, NumberNext, InboxNext
<1>10. ViewsNext
  BY <1>2, <1>3, <1>6, <1>8, ViewsKeep
<1>11. \A i \in DOMAIN s : s[i].what = "stack" => s[i].pause \in {0, pause}
  <2>1. /\ DOMAIN s = DOMAIN inbox \cup {Len(inbox) + 1} /\ s[Len(inbox) + 1] = y
        /\ \A i \in DOMAIN inbox : s[i] = inbox[i]
    BY <1>3, <1>4, AppendFacts
  <2>2. \A i \in DOMAIN inbox : inbox[i].what = "stack" => inbox[i].pause \in {0, pause}
    BY <1>6 DEF PauseHolds
  <2>3. QED
    BY <1>4, <2>1, <2>2
<1>12. PauseHolds'
  BY <1>2, <1>3, <1>6, <1>11 DEF PauseHolds
<1>13. QED
  BY <1>1, <1>2, <1>9, <1>10, <1>12, IKeeps

-----------------------------------------------------------------------------
(* What the engine said arrives                                             *)

\* Something is taken that is no value asked for last.
LEMMA TakenParts ==
  ASSUME IInv, Next_, inbox # <<>>
  PROVE  /\ UNCHANGED <<varsSeq, dispSeq>> => NumberNext /\ InboxNext
         /\ AskedIn(wire, inbox, dispSeq) =>
              AskedIn(wire', inbox', dispSeq) \/ (Head(inbox).what = "values" /\ Head(inbox).seq = dispSeq)
         /\ \A i \in DOMAIN inbox' : inbox'[i].what = "stack" => inbox'[i].pause \in {0, pause}
         /\ wire' = wire /\ engine' = engine /\ pause' = pause /\ inbox \in Seq(Said) /\ Head(inbox) \in Said
         /\ Head(inbox) = inbox[1] /\ 1 \in DOMAIN inbox /\ At("launch") = {} /\ Connected
<1>s. PICK s : s = inbox'
  OBVIOUS
<1>1. /\ wire' = wire /\ engine' = engine /\ pause' = pause /\ inbox \in Seq(Said) /\ s = Tail(inbox)
      /\ NumberPart /\ InboxPart /\ PauseHolds /\ Connected /\ At("launch") = {} /\ inbox' = s
  BY <1>s, IParts DEF Next_, Linked, Connected
<1>2. /\ NumberedIn(wire, s, varsSeq, dispSeq) /\ FreshIn(wire, s, engine, varsSeq, dispSeq, pause)
      /\ AskedIn(wire, inbox, dispSeq) =>
           AskedIn(wire, s, dispSeq) \/ (Head(inbox).what = "values" /\ Head(inbox).seq = dispSeq)
  BY <1>1, TakeViews DEF NumberPart, InboxPart
<1>3. /\ 1 \in DOMAIN inbox /\ Head(inbox) = inbox[1] /\ Head(inbox) \in Said
      /\ \A i \in DOMAIN s : i + 1 \in DOMAIN inbox /\ s[i] = inbox[i + 1]
  BY <1>1, TakeQueues
<1>4. \A i \in DOMAIN s : s[i].what = "stack" => s[i].pause \in {0, pause}
  BY <1>1, <1>3 DEF PauseHolds
<1>5. UNCHANGED <<varsSeq, dispSeq>> => NumberNext /\ InboxNext
  BY <1>1, <1>2 DEF NumberNext, InboxNext
<1>6. QED
  BY <1>1, <1>2, <1>3, <1>4, <1>5

\* What a command waited for is taken: nothing is waited for.
LEMMA TakenToken ==
  ASSUME IInv, Next_, inbox # <<>>, Token(Head(inbox))
  PROVE  TokenNext /\ Waiting(Head(inbox), At("running"), At("entry"), At("stack"), At("eval")) # {}
<1>s. PICK s : s = inbox'
  OBVIOUS
<1>1. /\ wire' = wire /\ engine' = engine /\ inbox \in Seq(Said) /\ s = Tail(inbox) /\ TokenPart /\ inbox' = s
  BY <1>s, IParts DEF Next_, Linked
<1>2. /\ NoTokensIn(wire, s) /\ engine # "running"
      /\ Waiting(Head(inbox), At("running"), At("entry"), At("stack"), At("eval")) # {}
  BY <1>1, TakeToken DEF TokenPart
<1>3. TokenNext
  BY <1>1, <1>2 DEF TokenNext, NoTokensIn, OneTokenIn
<1>4. QED
  BY <1>2, <1>3

LEMMA StopKeeps == ASSUME IInv, DeliverStop PROVE IInv'
<1>1. TInv'
  BY IParts, StopTypes
<1>2. /\ Next_ /\ inbox # <<>> /\ Head(inbox).what = "stop"
      /\ UNCHANGED <<session, stack, stackPause, told, busy>> /\ UNCHANGED <<varsSeq, dispSeq, vars, kids, values>>
  BY DEF DeliverStop, Deliver, debugger, shown
<1>3. /\ At("running")' = {} /\ At("entry")' = {} /\ InProgress' = InProgress
      /\ At("launch")' = At("launch") /\ At("judge")' = At("judge")
  BY IParts, StopFacts
<1>4. /\ NumberNext /\ InboxNext /\ wire' = wire /\ engine' = engine /\ pause' = pause
      /\ AskedIn(wire, inbox, dispSeq) => AskedIn(wire', inbox', dispSeq)
      /\ \A i \in DOMAIN inbox' : inbox'[i].what = "stack" => inbox'[i].pause \in {0, pause}
      /\ At("launch") = {}
  BY <1>2, TakenParts
<1>5. TokenNext
  BY <1>2, TakenToken, TokenKinds
<1>6. ViewsNext
  BY <1>2, <1>3, <1>4, IParts, ViewsKeep
<1>7. OneCommand'
  BY <1>2, <1>3, IParts DEF OneCommand
<1>8. PauseHolds'
  BY <1>2, <1>3, <1>4, IParts DEF PauseHolds
<1>9. QED
  BY <1>1, <1>4, <1>5, <1>6, <1>7, <1>8, IKeeps

LEMMA AnswerKeeps == ASSUME IInv, DeliverAnswer PROVE IInv'
<1>a. PICK a : a = Head(inbox)
  OBVIOUS
<1>1. TInv'
  BY IParts, AnswerTypes
<1>2. /\ Next_ /\ inbox # <<>> /\ a.what \in {"vars", "kids", "values"}
      /\ UNCHANGED <<session, stack, stackPause, told, busy, commands>> /\ UNCHANGED <<varsSeq, dispSeq>>
      /\ vars' = IF a.what = "vars" /\ Newest(a) THEN Answer(a) ELSE vars
      /\ kids' = IF a.what = "kids" /\ Newest(a) THEN Answer(a) ELSE kids
      /\ values' = IF a.what = "values" /\ Newest(a) THEN Answer(a) ELSE values
  BY <1>a DEF DeliverAnswer, Deliver, debugger, control
<1>3. (\A p : At(p)' = At(p)) /\ OneCommand'
  BY <1>2, IParts, SamePlaces, SameCommand
<1>4. /\ NumberNext /\ InboxNext /\ wire' = wire /\ engine' = engine /\ pause' = pause
      /\ AskedIn(wire, inbox, dispSeq) =>
           AskedIn(wire', inbox', dispSeq) \/ (a.what = "values" /\ a.seq = dispSeq)
      /\ \A i \in DOMAIN inbox' : inbox'[i].what = "stack" => inbox'[i].pause \in {0, pause}
      /\ At("launch") = {} /\ inbox \in Seq(Said) /\ a \in Said /\ a = inbox[1] /\ 1 \in DOMAIN inbox
  BY <1>a, <1>2, TakenParts
<1>5. TokenNext
  <2>s. PICK s : s = inbox'
    OBVIOUS
  <2>1. inbox \in Seq(Said) /\ inbox # <<>> /\ s = Tail(inbox)
    BY <1>2, <1>4, <2>s DEF Next_
  <2>2. OneTokenIn(wire, inbox, engine, At("running"), At("entry"), At("stack"), At("eval"))
    BY IParts DEF TokenPart
  <2>3. OneTokenIn(wire, s, engine, At("running"), At("entry"), At("stack"), At("eval"))
    BY <2>1, <2>2, TakeOther
  <2>4. QED
    BY <1>3, <1>4, <2>s, <2>3 DEF TokenNext
<1>6. ForView(a)
  BY <1>2, TokenKinds
<1>7. Newest(a) /\ Answer(a).is = "said" =>
        Answer(a).seq = a.seq /\ Answer(a).pause = pause /\ ~ResumedIn(wire, engine)
  <2>1. SUFFICES ASSUME Newest(a), Answer(a).is = "said"
                 PROVE  Answer(a).seq = a.seq /\ Answer(a).pause = pause /\ ~ResumedIn(wire, engine)
    OBVIOUS
  <2>2. a.pause # 0 /\ Answer(a).seq = a.seq /\ Answer(a).pause = a.pause
    BY <1>4, <2>1, IParts, AnswerFacts
  <2>3. a.seq = Number(a, varsSeq, dispSeq)
    BY <2>1 DEF Newest, Number
  <2>4. InboxPart
    BY IParts
  <2>5. a.pause = pause /\ ~ResumedIn(wire, engine)
    BY <1>4, <1>6, <2>2, <2>3, <2>4 DEF InboxPart, FreshIn
  <2>6. QED
    BY <2>2, <2>5
<1>8. ViewsPart
  BY IParts
<1>9. a.what # "values" /\ Newest(a) => a.seq = varsSeq
  BY DEF Newest
<1>10. a.what = "values" => (Newest(a) <=> a.seq = dispSeq)
  BY DEF Newest
<1>11. ViewIn(vars', varsSeq', pause', wire', engine', At("launch")')
  <2>1. CASE a.what = "vars" /\ Newest(a)
    BY <1>2, <1>3, <1>4, <1>7, <1>9, <2>1 DEF ViewIn
  <2>2. CASE ~(a.what = "vars" /\ Newest(a))
    BY <1>2, <1>3, <1>4, <1>8, <2>2 DEF ViewIn, ViewsPart
  <2>3. QED
    BY <2>1, <2>2
<1>12. ViewIn(kids', varsSeq', pause', wire', engine', At("launch")')
  <2>1. CASE a.what = "kids" /\ Newest(a)
    BY <1>2, <1>3, <1>4, <1>7, <1>9, <2>1 DEF ViewIn
  <2>2. CASE ~(a.what = "kids" /\ Newest(a))
    BY <1>2, <1>3, <1>4, <1>8, <2>2 DEF ViewIn, ViewsPart
  <2>3. QED
    BY <2>1, <2>2
<1>13. ValuesIn(values', dispSeq', pause', wire', inbox', engine', At("launch")')
  <2>1. CASE a.what = "values" /\ Newest(a)
    BY <1>2, <1>3, <1>4, <1>7, <1>10, <2>1 DEF ValuesIn
  <2>2. CASE ~(a.what = "values" /\ Newest(a))
    <3>1. values' = values
      BY <1>2, <2>2
    <3>2. AskedIn(wire, inbox, dispSeq) => AskedIn(wire', inbox', dispSeq)
      BY <1>4, <1>10, <2>2
    <3>3. QED
      BY <1>2, <1>3, <1>4, <1>8, <3>1, <3>2 DEF ValuesIn, ViewsPart
  <2>3. QED
    BY <2>1, <2>2
<1>14. PauseHolds'
  BY <1>2, <1>3, <1>4, IParts DEF PauseHolds
<1>15. QED
  BY <1>1, <1>3, <1>4, <1>5, <1>11, <1>12, <1>13, <1>14, IKeeps DEF ViewsNext

\* A result is taken, and with it views may be asked for.
LEMMA TakenAsks ==
  ASSUME IInv, inbox # <<>>, inbox' = Tail(inbox), Token(Head(inbox)), NEW qs, AsksForViews(qs)
  PROVE  /\ TokenNext /\ NumberNext /\ InboxNext /\ wire' = wire \o qs
         /\ Waiting(Head(inbox), At("running"), At("entry"), At("stack"), At("eval")) # {}
<1> PICK r : r = wire'
  OBVIOUS
<1> PICK s : s = inbox'
  OBVIOUS
<1> PICK vn : vn = varsSeq'
  OBVIOUS
<1> PICK dn : dn = dispSeq'
  OBVIOUS
<1>1. /\ wire \in Seq(Ask) /\ inbox \in Seq(Said) /\ s = Tail(inbox) /\ s \in Seq(Said)
      /\ varsSeq \in Nat /\ dispSeq \in Nat /\ TokenPart /\ NumberPart /\ InboxPart
  BY IParts DEF LinkOK, Linked, ShownOK
<1>2. /\ qs \in Seq(Ask) /\ r = wire \o qs /\ engine' = engine /\ pause' = pause
      /\ vn \in Nat /\ dn \in Nat /\ varsSeq <= vn /\ dispSeq <= dn
      /\ \A k \in DOMAIN qs : ForView(qs[k]) /\ qs[k].seq = Number(qs[k], vn, dn)
  BY DEF AsksForViews, Number
<1>3. \A k \in DOMAIN qs : ~Token(qs[k]) /\ qs[k].what # "resume"
  BY <1>2, TokenKinds
<1>4. /\ NoTokensIn(wire, s) /\ engine # "running"
      /\ Waiting(Head(inbox), At("running"), At("entry"), At("stack"), At("eval")) # {}
  BY <1>1, TakeToken DEF TokenPart
<1>5. TokenNext
  <2>1. \A i \in DOMAIN r : i \in DOMAIN wire \/ (i - Len(wire) \in DOMAIN qs /\ r[i] = qs[i - Len(wire)])
    BY <1>1, <1>2, Joined
  <2>2. \A i \in DOMAIN wire : r[i] = wire[i]
    BY <1>1, <1>2, Joined
  <2>3. NoTokensIn(r, s)
    BY <1>3, <1>4, <2>1, <2>2 DEF NoTokensIn
  <2>4. QED
    BY <1>2, <1>4, <2>3, NoTokensOne DEF TokenNext
<1>6. NumberedIn(wire, s, varsSeq, dispSeq) /\ FreshIn(wire, s, engine, varsSeq, dispSeq, pause)
  BY <1>1, TakeViews DEF NumberPart, InboxPart
<1>7. NumberedIn(r, s, vn, dn)
  BY <1>1, <1>2, <1>6, AskNumbered
<1>8. FreshIn(r, s, engine, vn, dn, pause)
  BY <1>1, <1>2, <1>3, <1>6, AskFresh
<1>9. NumberNext /\ InboxNext
  BY <1>2, <1>7, <1>8 DEF NumberNext, InboxNext
<1>10. QED
  BY <1>2, <1>4, <1>5, <1>9

\* starti has its stack, and reports its stop.
LEMMA EntryKeeps ==
  ASSUME IInv, DeliverResult, NEW a, a = Head(inbox), a.what = "stack", a.pause > 0, NEW n \in 1 .. MaxDepth,
         stackPause' = a.pause, OnStopped(a.seq, n)
  PROVE  IInv'
<1>1. TInv'
  BY IParts, ResultTypes
<1>2. /\ inbox # <<>> /\ inbox' = Tail(inbox) /\ engine' = engine /\ pause' = pause /\ session' = session
      /\ told' = "stopped" /\ RefreshVars(n) /\ Goes({a.seq}, "over") /\ n \in Nat
  BY Bounds DEF DeliverResult, GetStack, Deliver, debugger, OnStopped
<1>3. /\ \E qs : AsksForViews(qs)
      /\ vars'.is # "said" /\ kids'.is # "said" /\ values'.is # "said"
  BY <1>2, IParts, RefreshFacts
<1>4. Token(a)
  BY TokenKinds
<1>5. /\ TokenNext /\ NumberNext /\ InboxNext
      /\ Waiting(a, At("running"), At("entry"), At("stack"), At("eval")) # {}
  BY <1>2, <1>3, <1>4, TakenAsks
<1>6. ViewsNext
  BY <1>3 DEF ViewsNext, ViewIn, ValuesIn
<1>7. a.seq \in At("stack")
  BY <1>5 DEF Waiting
<1>8. /\ a.seq \in Ids /\ Place(a.seq) = "stack" /\ "stack" \in Walking /\ "over" \notin Walking
      /\ "over" \in Places \ {"launch", "hung"}
  BY <1>7 DEF At, Walking, Places
<1>9. OneCommand' /\ \A q \in Walking : At(q)' = IF q = "over" THEN {a.seq} ELSE {}
  BY <1>2, <1>8, IParts, OneMoves
<1>10. At("launch")' = {} /\ At("entry")' = {} /\ At("running")' = {}
  BY <1>8, <1>9 DEF Walking
<1>11. /\ inbox \in Seq(Said) /\ 1 \in DOMAIN inbox /\ a = inbox[1]
       /\ \A i \in DOMAIN inbox' : i + 1 \in DOMAIN inbox /\ inbox'[i] = inbox[i + 1]
  <2> PICK s : s = inbox'
    OBVIOUS
  <2>1. inbox \in Seq(Said) /\ s = Tail(inbox)
    BY <1>2, IParts DEF Linked
  <2>2. QED
    BY <1>2, <2>1, TakeQueues
<1>12. PauseHolds
  BY IParts
<1>13. a.pause = pause
  BY <1>11, <1>12 DEF PauseHolds
<1>14. \A i \in DOMAIN inbox' : inbox'[i].what = "stack" => inbox'[i].pause \in {0, pause}
  BY <1>11, <1>12 DEF PauseHolds
<1>15. PauseHolds'
  BY <1>2, <1>10, <1>13, <1>14 DEF PauseHolds
<1>16. QED
  BY <1>1, <1>5, <1>6, <1>9, <1>15, IKeeps

LEMMA ResultKeeps == ASSUME IInv, DeliverResult PROVE IInv'
<1>a. PICK a : a = Head(inbox)
  OBVIOUS
<1>1. TInv'
  BY IParts, ResultTypes
<1>e. ASSUME NEW n \in 1 .. MaxDepth, a.what = "stack", a.pause > 0, stackPause' = a.pause, OnStopped(a.seq, n)
      PROVE  IInv'
  BY <1>a, <1>e, EntryKeeps
<1> SUFFICES ASSUME UNCHANGED <<shown, told, wire>>,
                    \/ a.what = "stack" /\ a.pause > 0 /\ Goes({a.seq}, "judge") /\ stackPause' = a.pause
                    \/ /\ a.what = "eval" \/ (a.what = "stack" /\ a.pause = 0)
                       /\ Goes({a.seq}, "over") /\ UNCHANGED <<stack, stackPause>>
             PROVE  IInv'
  BY <1>a, <1>e DEF DeliverResult, GetStack, debugger
<1>2. /\ Next_ /\ inbox # <<>> /\ UNCHANGED <<session, told>> /\ UNCHANGED <<varsSeq, dispSeq, vars, kids, values>>
      /\ \/ a.what = "stack" /\ a.pause > 0 /\ Goes({a.seq}, "judge") /\ stackPause' = a.pause
         \/ /\ a.what = "eval" \/ (a.what = "stack" /\ a.pause = 0)
            /\ Goes({a.seq}, "over") /\ UNCHANGED <<stack, stackPause>>
  BY <1>a DEF DeliverResult, GetStack, Deliver, Next_, shown, debugger
<1>3. a.what \in {"stack", "eval"}
  BY <1>2
<1>4. /\ NumberNext /\ InboxNext /\ wire' = wire /\ engine' = engine /\ pause' = pause
      /\ AskedIn(wire, inbox, dispSeq) => AskedIn(wire', inbox', dispSeq)
      /\ \A i \in DOMAIN inbox' : inbox'[i].what = "stack" => inbox'[i].pause \in {0, pause}
      /\ At("launch") = {} /\ inbox \in Seq(Said) /\ a \in Said /\ a = inbox[1] /\ 1 \in DOMAIN inbox
  BY <1>a, <1>2, <1>3, TakenParts
<1>5. TokenNext /\ Waiting(a, At("running"), At("entry"), At("stack"), At("eval")) # {}
  BY <1>a, <1>2, <1>3, TakenToken, TokenKinds
<1>6. a.seq \in At(a.what)
  BY <1>3, <1>5 DEF Waiting
<1>7. a.seq \in Ids /\ Place(a.seq) = a.what /\ a.what \in Walking
  BY <1>3, <1>6 DEF At, Walking
<1>8. PICK place \in {"judge", "over"} : Goes({a.seq}, place)
  BY <1>2
<1>9. place \in Places \ {"launch", "hung"}
  BY DEF Places
<1>10. OneCommand' /\ \A q \in Walking : At(q)' = IF q = place THEN {a.seq} ELSE {}
  BY <1>2, <1>7, <1>8, <1>9, IParts, OneMoves
<1>11. At("launch")' = {} /\ At("entry")' = {} /\ At("running")' = {}
  BY <1>10 DEF Walking
<1>12. ViewsNext
  BY <1>2, <1>4, <1>11, IParts, ViewsKeep
<1>13. PauseHolds'
  <2>1. CASE a.what = "stack" /\ a.pause > 0 /\ Goes({a.seq}, "judge") /\ stackPause' = a.pause
    <3>1. a.pause \in {0, pause}
      BY <1>4, <2>1, IParts DEF PauseHolds
    <3>2. a.pause # 0
      BY <2>1
    <3>3. stackPause' = pause
      BY <2>1, <3>1, <3>2
    <3>4. QED
      BY <1>4, <1>11, <3>3 DEF PauseHolds
  <2>2. CASE Goes({a.seq}, "over") /\ UNCHANGED <<stack, stackPause>>
    <3>1. "over" \in Places \ {"launch", "hung"} /\ "judge" \in Walking
      BY DEF Places, Walking
    <3>2. \A q \in Walking : At(q)' = IF q = "over" THEN {a.seq} ELSE {}
      BY <1>2, <1>7, <2>2, <3>1, IParts, OneMoves
    <3>3. At("judge")' = {}
      BY <3>1, <3>2
    <3>4. QED
      BY <1>2, <1>4, <1>11, <2>2, <3>3, IParts DEF PauseHolds
  <2>3. QED
    BY <1>2, <2>1, <2>2
<1>14. QED
  BY <1>1, <1>4, <1>5, <1>10, <1>12, <1>13, IKeeps

LEMMA CloseKeeps == ASSUME IInv, DeliverClose PROVE IInv'
<1>1. TInv'
  BY IParts, CloseTypes
<1>2. /\ inbox # <<>> /\ Goes(Ended, "over")
  BY DEF DeliverClose, Deliver
<1>3. Connected /\ At("launch") = {}
  BY <1>2, IParts DEF Linked, Connected
<1>4. "over" \in Places \ {"launch", "hung"} /\ "over" \in Places
  BY DEF Places
<1>5. \A p : At(p)' = (At(p) \ Ended) \cup (IF p = "over" THEN Ended \cap Ids ELSE {})
  BY <1>2, <1>4, IParts, GoesFacts
<1>6. /\ At("launch")' = {} /\ At("entry")' = {} /\ At("running")' = {}
      /\ At("judge")' \subseteq At("judge")
  <2>1. /\ At("launch")' = At("launch") \ Ended /\ At("entry")' = At("entry") \ Ended
        /\ At("running")' = At("running") \ Ended /\ At("judge")' = At("judge") \ Ended
    BY <1>5
  <2>2. QED
    BY <1>3, <2>1, EndedFacts
<1>7. session' => session
  BY <1>3 DEF Connected
<1>8. OneCommand'
  BY <1>2, <1>4, <1>7, IParts, EndedFacts, OneGoes
<1>9. CASE At("running") \cup At("entry") # {}
  <2>1. Exit
    BY <1>9 DEF DeliverClose
  <2>2. PauseHolds' /\ TokenNext /\ NumberNext /\ InboxNext /\ ViewsNext
    BY <1>6, <2>1, IParts, ExitParts
  <2>3. QED
    BY <1>1, <1>8, <2>2, IKeeps
<1>10. CASE At("running") \cup At("entry") = {}
  <2>1. Reject(Outstanding) /\ Hangup /\ UNCHANGED <<stack, stackPause, told>>
    BY <1>10 DEF DeliverClose
  <2>2. TokenNext /\ NumberNext /\ InboxNext /\ ViewsNext
    BY <1>6, <2>1, ClearedFailed
  <2>3. DOMAIN inbox' = {} /\ pause' = pause
    BY <2>1, EmptyFacts DEF Hangup
  <2>4. PauseHolds'
    BY <1>6, <2>1, <2>3, IParts DEF PauseHolds
  <2>5. QED
    BY <1>1, <1>8, <2>2, <2>4, IKeeps
<1>11. QED
  BY <1>9, <1>10

-----------------------------------------------------------------------------
(* Commands are given                                                       *)

\* A command is given when none is in progress, and is over at once.
LEMMA AtOnce ==
  ASSUME InProgress = {}, Given("over", {}, {})
  PROVE  /\ OneCommand' /\ \A q \in Walking : At(q)' = {} /\ At(q) = {}
<1>1. "over" \in Places \ {"hung"} /\ "over" \notin Walking
  BY DEF Places, Walking
<1>2. OneCommand' /\ \A q \in Walking : At(q)' = {}
  BY <1>1, OneFirst
<1>3. \A q \in Walking : At(q) = {}
  BY PlacesFacts
<1>4. QED
  BY <1>2, <1>3

LEMMA RefusedKeeps ==
  ASSUME IInv, TInv', NEW w \in Words, w = "kill" \/ InProgress = {}, Refused(w), Given("over", {}, {}),
         UNCHANGED <<debugger, shown, told, link>>
  PROVE  IInv'
<1>1. /\ UNCHANGED <<session, stack, stackPause, told>>
      /\ UNCHANGED <<engine, pause, wire, inbox, varsSeq, dispSeq, vars, kids, values>>
  BY DEF debugger, shown, link
<1>2. (\A p : p # "over" => At(p)' = At(p)) /\ InProgress' = InProgress
  BY DEF Given
<1>3. /\ At("launch")' = At("launch") /\ At("entry")' = At("entry") /\ At("running")' = At("running")
      /\ At("stack")' = At("stack") /\ At("eval")' = At("eval") /\ At("judge")' = At("judge")
  BY <1>2
<1>4. OneCommand'
  <2>1. \A c, d \in InProgress' : c = d
    BY <1>2, IParts DEF OneCommand
  <2>2. ~(session' /\ InProgress' # {}) /\ At("launch")' = {}
    <3>1. CASE InProgress = {}
      BY <1>2, <1>3, <3>1, PlacesFacts DEF Walking
    <3>2. CASE w = "kill" /\ w # "continue" /\ w \notin {"print", "frame"}
      <4>1. ~child
        BY <3>2 DEF Refused
      <4>2. ~session /\ At("launch") = {}
        BY <4>1, IParts DEF DebuggerOK, Linked
      <4>3. QED
        BY <1>1, <1>3, <4>2
    <3>3. QED
      BY <3>1, <3>2
  <2>3. QED
    BY <2>1, <2>2 DEF OneCommand
<1>5. TokenNext /\ NumberNext /\ InboxNext /\ ViewsNext
  BY <1>1, <1>3, StillParts
<1>6. PauseHolds'
  BY <1>1, <1>3, IParts DEF PauseHolds
<1>7. QED
  BY <1>4, <1>5, <1>6, IKeeps

LEMMA RunKeeps ==
  ASSUME IInv, TInv', InProgress = {}, NEW w \in Words, NEW from \in {"console", "toolbar"}, Run(w, from)
  PROVE  IInv'
<1>1. /\ Reset("running") /\ Hangup /\ Executed(w, from, "launch", TRUE)
      /\ stack' = (IF session THEN 0 ELSE stack)
  BY DEF Run
<1>2. Ended = {} /\ At("launch") = {}
  BY EndedFacts, PlacesFacts DEF Walking
<1>3. "launch" \in Places \ {"hung"} /\ "launch" \in Places
  BY DEF Places
<1>4. Given("launch", {}, {})
  <2>1. Given("launch", Ended, At("launch"))
    BY <1>1, <1>3, IParts, ExecutedKilling
  <2>2. QED
    BY <1>2, <2>1
<1>5. OneCommand'
  BY <1>3, <1>4, OneFirst
<1>6. told' = "running" /\ vars' = Nothing /\ kids' = Nothing /\ values' = Nothing
  BY <1>1 DEF Reset
<1>7. TokenNext /\ NumberNext /\ InboxNext /\ ViewsNext
  BY <1>1, <1>6, Views, ClearedEmpty
<1>8. ~(stack' > 0) /\ DOMAIN inbox' = {}
  <2>1. stack' = 0
    BY <1>1, IParts, Bounds DEF DebuggerOK
  <2>2. QED
    BY <1>1, <2>1, EmptyFacts DEF Hangup
<1>9. PauseHolds'
  BY <1>6, <1>8 DEF PauseHolds
<1>10. QED
  BY <1>5, <1>7, <1>9, IKeeps

LEMMA ContinueKeeps ==
  ASSUME IInv, TInv', InProgress = {}, "continue" \in Words, NEW from \in {"console", "toolbar"}, Continue(from)
  PROVE  IInv'
<1>1. CASE SendResume /\ Executed("continue", from, "running", FALSE)
  <2>1. "running" \in Places \ {"hung"} /\ "running" \in Places /\ "running" \in Walking /\ "judge" \in Walking
    BY DEF Places, Walking
  <2>2. Given("running", {}, {})
    BY <1>1, <2>1, IParts, ExecutedQuietly
  <2>3. OneCommand' /\ At("running")' # {} /\ At("judge")' = {}
    BY <2>1, <2>2, OneFirst
  <2>4. NoTokens
    BY IParts, QuietIdle
  <2>5. TokenNext /\ NumberNext /\ InboxNext /\ ViewsNext /\ PauseHolds'
    BY <1>1, <2>3, <2>4, SendParts, SendPause
  <2>6. QED
    BY <2>3, <2>5, IKeeps
<1>2. CASE Exit /\ Executed("continue", from, "over", TRUE)
  <2>1. Ended = {} /\ At("launch") = {} /\ "over" \in Places
    BY EndedFacts, PlacesFacts DEF Walking, Places
  <2>2. Given("over", {}, {})
    <3>1. Given("over", Ended, At("launch"))
      BY <1>2, <2>1, IParts, ExecutedKilling
    <3>2. QED
      BY <2>1, <3>1
  <2>3. OneCommand' /\ At("launch")' = {} /\ At("entry")' = {} /\ At("running")' = {}
    BY <2>2, AtOnce DEF Walking
  <2>4. PauseHolds' /\ TokenNext /\ NumberNext /\ InboxNext /\ ViewsNext
    BY <1>2, <2>3, IParts, ExitParts
  <2>5. QED
    BY <2>3, <2>4, IKeeps
<1>3. QED
  BY <1>1, <1>2 DEF Continue

\* A command that is over at once and leaves the views and the queues alone.
LEMMA LeavesKeeps ==
  ASSUME IInv, TInv', InProgress = {}, Given("over", {}, {}), UNCHANGED <<stack, stackPause, told>>,
         UNCHANGED <<engine, pause, wire, inbox, varsSeq, dispSeq, vars, kids, values>>
  PROVE  IInv'
<1>1. /\ OneCommand'
      /\ At("launch")' = {} /\ At("entry")' = {} /\ At("running")' = {}
      /\ At("stack")' = {} /\ At("eval")' = {} /\ At("judge")' = {}
      /\ At("entry") = {} /\ At("running") = {} /\ At("stack") = {} /\ At("eval") = {}
  BY AtOnce DEF Walking
<1>2. TokenNext /\ NumberNext /\ InboxNext /\ ViewsNext
  BY <1>1, StillParts
<1>3. PauseHolds'
  BY <1>1, IParts DEF PauseHolds
<1>4. QED
  BY <1>1, <1>2, <1>3, IKeeps

LEMMA EvaluateKeeps ==
  ASSUME IInv, TInv', InProgress = {}, "print" \in Words, NEW from \in {"console", "toolbar"},
         ~Refused("print"), Evaluate(from)
  PROVE  IInv'
<1>1. /\ wire' = Asked(<<Question("eval", NextId)>>)
      /\ Executed("print", from, IF lost THEN "over" ELSE "eval", FALSE)
      /\ UNCHANGED <<stack, stackPause, told, engine, pause, inbox>>
      /\ UNCHANGED <<varsSeq, dispSeq, vars, kids, values>>
  BY DEF Evaluate, NextId, debugger, shown
<1>2. session
  BY DEF Refused
<1>3. CASE lost
  <2>1. Given("over", {}, {})
    <3>1. "over" \in Places /\ Executed("print", from, "over", FALSE)
      BY <1>1, <1>3 DEF Places
    <3>2. QED
      BY <3>1, IParts, ExecutedQuietly
  <2>2. wire' = wire
    BY <1>1, <1>3 DEF Asked, Connected
  <2>3. QED
    BY <1>1, <2>1, <2>2, LeavesKeeps
<1>4. CASE ~lost
  <2>1. "eval" \in Places \ {"hung"} /\ "eval" \in Walking
    BY DEF Places, Walking
  <2>2. Given("eval", {}, {})
    <3>1. "eval" \in Places /\ Executed("print", from, "eval", FALSE)
      BY <1>1, <1>4 DEF Places
    <3>2. QED
      BY <3>1, IParts, ExecutedQuietly
  <2>3. OneCommand' /\ \A q \in Walking : At(q)' = IF q = "eval" THEN {NextId} ELSE {}
    BY <2>1, <2>2, OneFirst
  <2>4. /\ At("eval")' = {NextId} /\ At("launch")' = {} /\ At("entry")' = {} /\ At("running")' = {}
        /\ At("judge")' = {}
    BY <2>3 DEF Walking
  <2>5. NoTokens
    BY IParts, QuietIdle
  <2>x. PICK x : x = Question("eval", NextId)
    OBVIOUS
  <2>6. x \in Ask /\ x.what = "eval" /\ x.seq = NextId
    <3>1. NextId \in Nat
      BY <2>2 DEF Given
    <3>2. QED
      BY <2>x, <3>1, Questions
  <2>7. wire' = Append(wire, x)
    BY <1>1, <1>2, <1>4, <2>6, <2>x, IParts DEF Asked, Connected, LinkOK
  <2>8. Waiting(x, At("running")', At("entry")', At("stack")', At("eval")') # {}
    BY <2>4, <2>6 DEF Waiting
  <2>9. ~ForView(x) /\ x.what # "resume"
    BY <2>6, TokenKinds
  <2>10. TokenNext /\ NumberNext /\ InboxNext /\ ViewsNext
    BY <1>1, <2>4, <2>5, <2>6, <2>7, <2>8, <2>9, OtherParts
  <2>11. PauseHolds'
    BY <1>1, <2>4, IParts DEF PauseHolds
  <2>12. QED
    BY <2>3, <2>10, <2>11, IKeeps
<1>5. QED
  BY <1>3, <1>4

LEMMA KillKeeps ==
  ASSUME IInv, TInv', "kill" \in Words, NEW from \in {"console", "toolbar"}, Kill(from)
  PROVE  IInv'
<1>1. Forget /\ Hangup /\ Reject(Outstanding) /\ Executed("kill", from, "over", TRUE) /\ told' = told
  BY DEF Kill
<1>2. Given("over", Ended, At("launch"))
  <2>1. "over" \in Places
    BY DEF Places
  <2>2. QED
    BY <1>1, <2>1, IParts, ExecutedKilling
<1>3. (\A p : p \notin {"over", "hung"} => At(p)' = At(p) \ (Ended \cup At("launch"))) /\ InProgress' \subseteq InProgress
  BY <1>2 DEF Given
<1>4. At("launch")' = {} /\ At("entry")' = {} /\ At("running")' = {}
  BY <1>3, EndedFacts
<1>5. session' = FALSE /\ stack' = 0 /\ DOMAIN inbox' = {}
  BY <1>1, EmptyFacts DEF Forget, Hangup
<1>6. OneCommand'
  <2>1. \A c, d \in InProgress' : c = d
    BY <1>3, IParts DEF OneCommand
  <2>2. QED
    BY <1>4, <1>5, <2>1 DEF OneCommand
<1>7. TokenNext /\ NumberNext /\ InboxNext /\ ViewsNext
  BY <1>1, <1>4, ClearedFailed
<1>8. PauseHolds'
  <2>1. ~(stack' > 0)
    BY <1>5
  <2>2. QED
    BY <1>4, <1>5, <2>1 DEF PauseHolds
<1>9. QED
  BY <1>6, <1>7, <1>8, IKeeps

LEMMA ExecuteKeeps ==
  ASSUME IInv, TInv', ~Overlaps, NEW w \in Words, NEW from \in {"console", "toolbar"}, Fits(w), Execute(w, from)
  PROVE  IInv'
<1>1. w = "kill" \/ InProgress = {}
  BY DEF Fits
<1>2. CASE Refused(w) /\ Executed(w, from, "over", FALSE) /\ UNCHANGED <<debugger, shown, told, link>>
  <2>1. "over" \in Places
    BY DEF Places
  <2>2. Given("over", {}, {})
    BY <1>2, <2>1, IParts, ExecutedQuietly
  <2>3. QED
    BY <1>1, <1>2, <2>2, RefusedKeeps
<1>3. CASE w \in {"run", "starti"} /\ Run(w, from)
  <2>1. InProgress = {}
    BY <1>1, <1>3
  <2>2. QED
    BY <1>3, <2>1, RunKeeps
<1>4. CASE w = "continue" /\ Continue(from)
  BY <1>1, <1>4, ContinueKeeps
<1>5. CASE w = "print" /\ ~Refused(w) /\ Evaluate(from)
  BY <1>1, <1>5, EvaluateKeeps
<1>6. CASE w = "frame" /\ Frame(from)
  <2>1. /\ Executed("frame", from, "over", FALSE) /\ UNCHANGED <<stack, stackPause, told>>
        /\ UNCHANGED <<engine, pause, wire, inbox, varsSeq, dispSeq, vars, kids, values>>
    BY <1>6 DEF Frame, shown, link
  <2>2. Given("over", {}, {})
    <3>1. "over" \in Places /\ "frame" \in Words
      BY <1>6 DEF Places
    <3>2. QED
      BY <2>1, <3>1, IParts, ExecutedQuietly
  <2>3. InProgress = {}
    BY <1>1, <1>6
  <2>4. QED
    BY <2>1, <2>2, <2>3, LeavesKeeps
<1>7. CASE w = "kill" /\ Kill(from)
  BY <1>7, KillKeeps
<1>8. QED
  BY <1>2, <1>3, <1>4, <1>5, <1>6, <1>7 DEF Execute

-----------------------------------------------------------------------------
(* The theorems                                                             *)

LEMMA InitHolds == Init => IInv
<1> SUFFICES ASSUME Init PROVE IInv
  OBVIOUS
<1>1. TInv
  BY InitTypes
<1>2. /\ commands = <<>> /\ engine = "none" /\ wire = <<>> /\ inbox = <<>> /\ stack = 0
      /\ vars = Nothing /\ kids = Nothing /\ values = Nothing
  BY DEF Init
<1>3. Ids = {} /\ DOMAIN wire = {} /\ DOMAIN inbox = {}
  BY <1>2, EmptyFacts DEF Ids
<1>4. (\A p : At(p) = {}) /\ InProgress = {}
  BY <1>3 DEF At, InProgress
<1>5. OneCommand
  BY <1>4 DEF OneCommand
<1>6. PauseHolds
  BY <1>2, <1>3, <1>4 DEF PauseHolds
<1>7. TokenPart /\ NumberPart /\ InboxPart
  <2>1. "none" # "running"
    OBVIOUS
  <2>2. QED
    BY <1>2, <1>3, <2>1 DEF TokenPart, NumberPart, InboxPart, OneTokenIn, NumberedIn, FreshIn
<1>8. ViewsPart
  BY <1>2, Views DEF ViewsPart, ViewIn, ValuesIn
<1>9. OneToken /\ Numbered /\ Fresh
  BY <1>7, <1>8, PartsOf
<1>10. QED
  BY <1>1, <1>5, <1>6, <1>9 DEF IInv

LEMMA NextKeeps == ~Overlaps /\ IInv /\ [Next]_all => IInv'
<1> SUFFICES ASSUME ~Overlaps, IInv, [Next]_all PROVE IInv'
  OBVIOUS
<1>0. TInv'
  BY IParts, NextTypes
<1>1. CASE \E w \in Words : Press(w) \/ Drain(w)
  BY <1>0, <1>1, ExecuteKeeps DEF Press, Drain
<1>2. CASE Submit
  BY <1>2, SubmitKeeps
<1>3. CASE Continuation
  BY <1>3, EnteredKeeps, AskStackKeeps, ReportKeeps, PassOverKeeps DEF Continuation
<1>4. CASE \E c \in Ids : Connects(c)
  BY <1>4, ConnectsKeeps
<1>5. CASE \E i \in 0 .. MaxDepth - 1 : SelectFrame(i)
  BY <1>5, SelectKeeps
<1>6. CASE AddWatch \/ ToggleVar \/ \E n \in 1 .. MaxDisplays : RemoveWatch(n)
  BY <1>6, AddKeeps, ToggleKeeps, RemoveKeeps
<1>7. CASE Serve \/ Halts \/ Dies
  BY <1>7, ServeKeeps, HaltsKeeps, DiesKeeps
<1>8. CASE Delivery
  BY <1>8, StopKeeps, AnswerKeeps, ResultKeeps, CloseKeeps DEF Delivery
<1>9. CASE UNCHANGED all
  <2>1. UNCHANGED <<debugger, control, shown, told, link>>
    BY <1>9 DEF all
  <2>2. /\ UNCHANGED <<session, stack, stackPause, told, commands, busy>>
        /\ UNCHANGED <<engine, pause, wire, inbox, varsSeq, dispSeq, vars, kids, values>>
    BY <2>1 DEF debugger, control, shown, link
  <2>3. TokenNext /\ NumberNext /\ InboxNext /\ ViewsNext
    BY <2>2, SamePlaces, StillParts
  <2>4. OneCommand' /\ PauseHolds'
    BY <2>2, IParts, SameCommand, SamePause
  <2>5. QED
    BY <1>0, <2>3, <2>4, IKeeps
<1>10. QED
  BY <1>1, <1>2, <1>3, <1>4, <1>5, <1>6, <1>7, <1>8, <1>9 DEF Next

\* As long as console and toolbar do not have commands in progress at once, one
\* command is in progress, it waits for one thing, and what the engine says under
\* the newest snapshot numbers it says in the pause that is shown.
THEOREM Invariance ==
  ASSUME ~Overlaps
  PROVE  Spec => []IInv
<1>1. IInv /\ [Next]_all => IInv'
  BY NextKeeps
<1>2. QED
  BY InitHolds, <1>1, PTL DEF Spec

LEMMA ShowsCurrent == IInv => ShownIsCurrent
<1> SUFFICES ASSUME IInv, told = "stopped", stack > 0
             PROVE  /\ OfThisPause(vars) /\ OfThisPause(kids) /\ OfThisPause(values)
                    /\ Current(vars, varsSeq) /\ Current(kids, varsSeq)
                    /\ Current(values, dispSeq) \/ \E a \in Outstanding : a.what = "values" /\ a.seq = dispSeq
  BY DEF ShownIsCurrent
<1>1. stackPause = pause
  BY IParts DEF PauseHolds
<1>2. Fresh
  BY DEF IInv
<1>3. OfThisPause(vars) /\ OfThisPause(kids) /\ OfThisPause(values)
  BY <1>1, <1>2 DEF Fresh, OfThisPause
<1>4. QED
  BY <1>2, <1>3 DEF Fresh

\* While the GUI shows a stop, everything it shows was said in the pause whose
\* stack it shows and for the snapshot asked for last, whatever late answers,
\* clicks and commands come in between.
THEOREM ViewsCorrect ==
  ASSUME ~Overlaps
  PROVE  Spec => []ShownIsCurrent
  BY Invariance, ShowsCurrent, PTL

LEMMA ToolbarKnows == IInv => ToolbarTells
<1> SUFFICES ASSUME IInv, Stopped
             PROVE  Resuming = {} /\ engine # "running"
  BY DEF ToolbarTells
<1>1. session /\ busy = FALSE
  BY IParts DEF Stopped, Idle, ControlOK
<1>2. InProgress = {}
  BY <1>1, IParts DEF OneCommand
<1>3. Resuming = {}
  BY <1>2 DEF Resuming, InProgress
<1>4. engine # "running"
  BY <1>2, IParts, QuietIdle DEF NoTokens
<1>5. QED
  BY <1>3, <1>4

\* The toolbar offers to continue only while no resume is on its way and the
\* program stands still, as long as commands do not overlap: the run
\* gui_overlap shows that they must not.
THEOREM ToolbarCorrect ==
  ASSUME ~Overlaps
  PROVE  Spec => []ToolbarTells
  BY Invariance, ToolbarKnows, PTL


-----------------------------------------------------------------------------
(* What is pending was asked, whether commands overlap or not               *)

VarsIn(w, b, n) ==
  \/ \E i \in DOMAIN w : w[i].what = "vars" /\ w[i].seq = n
  \/ \E i \in DOMAIN b : b[i].what = "vars" /\ b[i].seq = n
CloseIn(b) == \E i \in DOMAIN b : b[i].what = "closed"

VarsAsked == vars = Pending => VarsIn(wire, inbox, varsSeq)
EndHeard == session /\ ~lost => engine # "none" \/ CloseIn(inbox)
PInv == TInv /\ VarsAsked /\ EndHeard

\* The same of the next state, on its own variables.
VarsNext == vars' = Pending => VarsIn(wire', inbox', varsSeq')
EndNext == session' /\ ~lost' => engine' # "none" \/ CloseIn(inbox')

LEMMA PKeeps ==
  ASSUME TInv', VarsNext, EndNext
  PROVE  PInv'
BY DEF PInv, VarsAsked, EndHeard, VarsNext, EndNext, VarsIn, CloseIn

LEMMA WayOf ==
  ASSUME NEW w, NEW b, NEW n
  PROVE  /\ (\E a \in {x \in Range(w) \cup Range(b) : x.what \notin {"resume", "stop", "closed"}} :
               a.what = "vars" /\ a.seq = n) <=> VarsIn(w, b, n)
         /\ (\E a \in Range(b) : a.what = "closed") <=> CloseIn(b)
  BY DEF VarsIn, CloseIn, Range

\* What is on the wire stays there while more is asked.
LEMMA MoreFacts ==
  ASSUME NEW T, NEW w \in Seq(T), NEW t \in Seq(T), NEW r, r = w \o t
  PROVE  \A i \in DOMAIN w : i \in DOMAIN r /\ r[i] = w[i]
  OBVIOUS

LEMMA MoreAsked ==
  ASSUME NEW w, NEW r, \A i \in DOMAIN w : i \in DOMAIN r /\ r[i] = w[i], NEW b, NEW n, VarsIn(w, b, n)
  PROVE  VarsIn(r, b, n)
  BY DEF VarsIn

LEMMA FirstAsked ==
  ASSUME NEW T, NEW w \in Seq(T), NEW a \in T, NEW t \in Seq(T), NEW r, r = w \o (<<a>> \o t)
  PROVE  Len(w) + 1 \in DOMAIN r /\ r[Len(w) + 1] = a
<1> PICK s : s = <<a>> \o t
  OBVIOUS
<1>1. s \in Seq(T) /\ Len(s) = 1 + Len(t) /\ s[1] = a
  OBVIOUS
<1>2. r = w \o s /\ Len(t) \in Nat /\ Len(w) \in Nat
  OBVIOUS
<1>3. Len(r) = Len(w) + Len(s) /\ r[Len(w) + 1] = s[1]
  BY <1>1, <1>2
<1>4. QED
  BY <1>1, <1>2, <1>3

\* The engine reads a question and answers it.
LEMMA ServeVars ==
  ASSUME NEW T, NEW w \in Seq(T), w # <<>>, NEW r, r = Tail(w),
         NEW D, NEW b \in Seq(D), NEW y \in D, NEW s, s = Append(b, y),
         y.what = Head(w).what, y.seq = Head(w).seq
  PROVE  /\ \A n : VarsIn(w, b, n) => VarsIn(r, s, n)
         /\ CloseIn(b) => CloseIn(s)
<1>1. /\ 1 \in DOMAIN w /\ Head(w) = w[1]
      /\ \A i \in DOMAIN w : i = 1 \/ (i - 1 \in DOMAIN r /\ r[i - 1] = w[i])
      /\ \A i \in DOMAIN b : i \in DOMAIN s /\ s[i] = b[i]
      /\ s[Len(b) + 1] = y /\ Len(b) + 1 \in DOMAIN s
  BY ServeQueues
<1>2. QED
  BY <1>1 DEF VarsIn, CloseIn

\* It reads something else.
LEMMA ReadOther ==
  ASSUME NEW T, NEW w \in Seq(T), w # <<>>, NEW r, r = Tail(w), Head(w).what # "vars"
  PROVE  \A b, n : VarsIn(w, b, n) => VarsIn(r, b, n)
<1>1. /\ Head(w) = w[1]
      /\ \A i \in DOMAIN w : i = 1 \/ (i - 1 \in DOMAIN r /\ r[i - 1] = w[i])
  BY TakeQueues
<1>2. QED
  BY <1>1 DEF VarsIn

\* It says something.
LEMMA SaidMore ==
  ASSUME NEW D, NEW b \in Seq(D), NEW y \in D, NEW s, s = Append(b, y)
  PROVE  /\ \A w, n : VarsIn(w, b, n) => VarsIn(w, s, n)
         /\ CloseIn(b) => CloseIn(s)
<1>1. /\ \A i \in DOMAIN b : i \in DOMAIN s /\ s[i] = b[i]
      /\ s[Len(b) + 1] = y /\ Len(b) + 1 \in DOMAIN s
  BY AppendFacts
<1>2. QED
  BY <1>1 DEF VarsIn, CloseIn

\* Something it said is delivered.
LEMMA TakenVars ==
  ASSUME NEW D, NEW b \in Seq(D), b # <<>>, NEW s, s = Tail(b)
  PROVE  /\ \A w, n : VarsIn(w, b, n) /\ ~(Head(b).what = "vars" /\ Head(b).seq = n) => VarsIn(w, s, n)
         /\ CloseIn(b) /\ Head(b).what # "closed" => CloseIn(s)
<1>1. /\ Head(b) = b[1]
      /\ \A i \in DOMAIN b : i = 1 \/ (i - 1 \in DOMAIN s /\ s[i - 1] = b[i])
  BY TakeQueues
<1>2. QED
  BY <1>1 DEF VarsIn, CloseIn

LEMMA NotPending ==
  /\ Nothing # Pending /\ Gone # Pending
  /\ \A n \in Nat, p \in 0 .. MaxPauses : Says(n, p) # Pending
  BY Views

-----------------------------------------------------------------------------
(* Steps of one kind                                                        *)

PParts == ShownOK /\ LinkOK /\ inbox \in Seq(Said) /\ VarsAsked /\ EndHeard

LEMMA PartsOfP == PInv => PParts
  BY TParts DEF PInv, PParts, Linked

\* Neither the connection nor the variables change; the wire may grow.
LEMMA AskingKeeps ==
  ASSUME PParts, NEW t \in Seq(Ask), wire' = wire \o t,
         UNCHANGED <<vars, varsSeq, session, lost, engine, inbox>>
  PROVE  VarsNext /\ EndNext
<1>1. \A i \in DOMAIN wire : i \in DOMAIN wire' /\ wire'[i] = wire[i]
  BY MoreFacts DEF PParts, LinkOK
<1>2. VarsNext
  BY <1>1, MoreAsked DEF PParts, VarsAsked, VarsNext
<1>3. EndNext
  BY DEF PParts, EndHeard, EndNext
<1>4. QED
  BY <1>2, <1>3

LEMMA StillKeeps ==
  ASSUME PParts, UNCHANGED <<vars, varsSeq, session, lost, engine, wire, inbox>>
  PROVE  VarsNext /\ EndNext
BY DEF PParts, VarsAsked, EndHeard, VarsNext, EndNext

\* One question more, if there is a connection.
LEMMA AskedKeeps ==
  ASSUME PParts, NEW q \in Ask, wire' \in {wire, Asked(<<q>>)},
         UNCHANGED <<vars, varsSeq, session, lost, engine, inbox>>
  PROVE  VarsNext /\ EndNext
<1>1. CASE wire' = wire
  BY <1>1, StillKeeps
<1>2. CASE wire' = wire \o <<q>>
  BY <1>2, OneQuestion, AskingKeeps
<1>3. QED
  BY <1>1, <1>2 DEF Asked

\* Nothing is pending in an empty view.
LEMMA ResetKeeps ==
  ASSUME PParts, NEW kind, Reset(kind), UNCHANGED <<session, lost, engine, inbox>>
  PROVE  VarsNext /\ EndNext
BY NotPending DEF Reset, PParts, EndHeard, VarsNext, EndNext

LEMMA GoneKeeps ==
  ASSUME NEW kind, Reset(kind), ~session' \/ lost'
  PROVE  VarsNext /\ EndNext
BY NotPending DEF Reset, VarsNext, EndNext

\* What is pending is outstanding, so it fails.
LEMMA RejectedKeeps ==
  ASSUME PParts, Reject(Outstanding), ~session' \/ lost'
  PROVE  VarsNext /\ EndNext
<1>1. vars' = IF \E a \in Outstanding : a.what = "vars" /\ Newest(a) THEN Gone ELSE vars
  BY DEF Reject, Failed
<1>2. vars = Pending => \E a \in Outstanding : a.what = "vars" /\ a.seq = varsSeq
  BY WayOf DEF PParts, VarsAsked, Outstanding
<1>3. vars = Pending => \E a \in Outstanding : a.what = "vars" /\ Newest(a)
  BY <1>2 DEF Newest
<1>4. vars' # Pending
  BY <1>1, <1>3, NotPending
<1>5. QED
  BY <1>4 DEF VarsNext, EndNext

\* #refreshVars() asks, or shows that there is nothing to ask.
LEMMA RefreshKeeps ==
  ASSUME PParts, NEW n \in Nat, RefreshVars(n), UNCHANGED <<session, lost, engine>>,
         CloseIn(inbox) => CloseIn(inbox')
  PROVE  VarsNext /\ EndNext
<1>1. EndNext
  BY DEF PParts, EndHeard, EndNext
<1>2. CASE session /\ n > 0 /\ ~lost
  <2>1. varsSeq' = varsSeq + 1 /\ wire' = Asked(<<Question("vars", varsSeq + 1)>> \o AskValues)
    BY <1>2 DEF RefreshVars
  <2> PICK a : a = Question("vars", varsSeq + 1)
    OBVIOUS
  <2>2. varsSeq + 1 \in Nat /\ dispSeq + 1 \in Nat
    BY DEF PParts, ShownOK
  <2>3. a \in Ask /\ a.what = "vars" /\ a.seq = varsSeq + 1
    BY <2>2, Questions
  <2> PICK t : t = AskValues
    OBVIOUS
  <2>4. t \in Seq(Ask)
    <3>1. Question("values", dispSeq + 1) \in Ask
      BY <2>2, Questions
    <3>2. CASE displays # {}
      BY <3>1, <3>2 DEF AskValues
    <3>3. CASE displays = {}
      BY <3>3 DEF AskValues
    <3>4. QED
      BY <3>2, <3>3
  <2>5. wire' = wire \o (<<a>> \o t)
    BY <1>2, <2>1 DEF Asked, Connected
  <2>6. wire \in Seq(Ask)
    BY DEF PParts, LinkOK
  <2>7. Len(wire) + 1 \in DOMAIN wire' /\ wire'[Len(wire) + 1] = a
    BY <2>3, <2>4, <2>5, <2>6, FirstAsked
  <2>8. VarsIn(wire', inbox', varsSeq')
    BY <2>1, <2>3, <2>7 DEF VarsIn
  <2>9. QED
    BY <1>1, <2>8 DEF VarsNext
<1>3. CASE ~(session /\ n > 0 /\ ~lost)
  <2>1. vars' \in {Gone, Nothing}
    BY <1>3 DEF RefreshVars, PParts, EndHeard
  <2>2. QED
    BY <1>1, <2>1, NotPending DEF VarsNext
<1>4. QED
  BY <1>2, <1>3

-----------------------------------------------------------------------------
(* The steps                                                                *)

LEMMA SendAsked ==
  ASSUME PParts, SendResume
  PROVE  VarsNext /\ EndNext
<1>1. Reset("running") /\ UNCHANGED <<session, lost, engine, inbox>>
  BY DEF SendResume, debugger
<1>2. QED
  BY <1>1, ResetKeeps

LEMMA ExitAsked ==
  ASSUME Exit
  PROVE  VarsNext /\ EndNext
<1>1. Reset("exited") /\ ~session'
  BY DEF Exit, Forget
<1>2. QED
  BY <1>1, GoneKeeps

LEMMA ExecuteAsked ==
  ASSUME PParts, NEW w \in Words, NEW from, Execute(w, from)
  PROVE  VarsNext /\ EndNext
<1>1. CASE Refused(w) /\ UNCHANGED <<debugger, shown, told, link>>
  <2>1. UNCHANGED <<vars, varsSeq, session, lost, engine, wire, inbox>>
    BY <1>1 DEF debugger, shown, link
  <2>2. QED
    BY <2>1, StillKeeps
<1>2. CASE Run(w, from)
  <2>1. Reset("running") /\ ~session'
    BY <1>2 DEF Run
  <2>2. QED
    BY <2>1, GoneKeeps
<1>3. CASE Continue(from)
  BY <1>3, SendAsked, ExitAsked DEF Continue
<1>4. CASE Evaluate(from)
  <2> PICK q : q = Question("eval", Len(commands) + 1)
    OBVIOUS
  <2>1. /\ wire' = Asked(<<q>>)
        /\ UNCHANGED <<debugger, shown, engine, inbox>>
    BY <1>4 DEF Evaluate
  <2>2. UNCHANGED <<vars, varsSeq, session, lost, engine, inbox>>
    BY <2>1 DEF debugger, shown
  <2>3. CASE Connected
    <3>1. /\ \A i \in DOMAIN wire : i \in DOMAIN wire' /\ wire'[i] = wire[i]
      BY <2>1, <2>3 DEF Asked, PParts, LinkOK
    <3>2. QED
      BY <2>2, <3>1, MoreAsked DEF PParts, VarsAsked, EndHeard, VarsNext, EndNext
  <2>4. CASE ~Connected
    BY <2>1, <2>2, <2>4, StillKeeps DEF Asked
  <2>5. QED
    BY <2>3, <2>4
<1>5. CASE Frame(from)
  <2>1. UNCHANGED <<vars, varsSeq, session, lost, engine, wire, inbox>>
    BY <1>5 DEF Frame, shown, link
  <2>2. QED
    BY <2>1, StillKeeps
<1>6. CASE Kill(from)
  <2>1. Reject(Outstanding) /\ ~session'
    BY <1>6 DEF Kill, Forget
  <2>2. QED
    BY <2>1, RejectedKeeps
<1>7. QED
  BY <1>1, <1>2, <1>3, <1>4, <1>5, <1>6 DEF Execute

LEMMA ContinuationAsked ==
  ASSUME TInv, PParts, Continuation
  PROVE  VarsNext /\ EndNext
<1> PICK c \in Ids : Entered(c) \/ AskStack(c) \/ Report(c) \/ PassOver(c)
  BY DEF Continuation
<1>1. CASE Entered(c)
  BY <1>1, SendAsked DEF Entered
<1>2. CASE AskStack(c)
  <2> PICK q : q = Question("stack", c)
    OBVIOUS
  <2>1. wire' = Asked(<<q>>) /\ UNCHANGED <<vars, varsSeq, session, lost, engine, inbox>>
    BY <1>2 DEF AskStack, debugger, shown
  <2>2. c \in Nat
    BY TParts DEF ControlOK, Ids
  <2>3. q \in Ask
    BY <2>2, Questions
  <2>4. QED
    BY <2>1, <2>3, AskedKeeps
<1>3. CASE Report(c)
  <2>1. RefreshVars(stack) /\ UNCHANGED <<session, lost, engine, inbox>>
    BY <1>3 DEF Report, OnStopped
  <2>2. stack \in Nat
    BY TParts, Bounds DEF DebuggerOK
  <2>3. QED
    BY <2>1, <2>2, RefreshKeeps
<1>4. CASE PassOver(c)
  <2>1. CASE SendResume \/ Exit
    BY <2>1, SendAsked, ExitAsked
  <2>2. CASE Reset("running") /\ UNCHANGED <<debugger, link>>
    <3>1. UNCHANGED <<session, lost, engine, inbox>>
      BY <2>2 DEF debugger, link
    <3>2. QED
      BY <2>2, <3>1, ResetKeeps
  <2>3. QED
    BY <1>4, <2>1, <2>2 DEF PassOver
<1>5. QED
  BY <1>1, <1>2, <1>3, <1>4

LEMMA ConnectsAsked ==
  ASSUME PParts, NEW c \in Ids, Connects(c)
  PROVE  VarsNext /\ EndNext
<1>1. engine' = "running" /\ UNCHANGED <<vars, varsSeq, wire, inbox>>
  BY DEF Connects, shown
<1>2. "running" # "none"
  OBVIOUS
<1>3. QED
  BY <1>1, <1>2 DEF PParts, VarsAsked, VarsNext, EndNext

LEMMA ClicksAsked ==
  ASSUME TInv, PParts,
         \/ \E i \in 0 .. MaxDepth - 1 : SelectFrame(i)
         \/ AddWatch \/ (\E n \in 1 .. MaxDisplays : RemoveWatch(n)) \/ ToggleVar
  PROVE  VarsNext /\ EndNext
<1>1. varsSeq \in Nat /\ dispSeq + 1 \in Nat
  BY DEF PParts, ShownOK
<1>2. ASSUME NEW i \in 0 .. MaxDepth - 1, SelectFrame(i) PROVE VarsNext /\ EndNext
  <2>1. RefreshVars(stack) /\ UNCHANGED <<session, lost, engine, inbox>>
    BY <1>2 DEF SelectFrame, Clicks
  <2>2. stack \in Nat
    BY TParts, Bounds DEF DebuggerOK
  <2>3. QED
    BY <2>1, <2>2, RefreshKeeps
<1>3. CASE AddWatch
  <2> PICK q : q = Question("values", dispSeq + 1)
    OBVIOUS
  <2>1. /\ wire' \in {wire, Asked(<<q>>)}
        /\ UNCHANGED <<vars, varsSeq, session, lost, engine, inbox>>
    BY <1>3 DEF AddWatch, Clicks
  <2>2. q \in Ask
    BY <1>1, Questions
  <2>3. QED
    BY <2>1, <2>2, AskedKeeps
<1>4. ASSUME NEW n \in 1 .. MaxDisplays, RemoveWatch(n) PROVE VarsNext /\ EndNext
  <2>1. UNCHANGED <<vars, varsSeq, session, lost, engine, wire, inbox>>
    BY <1>4 DEF RemoveWatch, Clicks, shown
  <2>2. QED
    BY <2>1, StillKeeps
<1>5. CASE ToggleVar
  <2> PICK q : q = Question("kids", varsSeq)
    OBVIOUS
  <2>1. /\ wire' \in {wire, Asked(<<q>>)}
        /\ UNCHANGED <<vars, varsSeq, session, lost, engine, inbox>>
    BY <1>5 DEF ToggleVar, Clicks
  <2>2. q \in Ask
    BY <1>1, Questions
  <2>3. QED
    BY <2>1, <2>2, AskedKeeps
<1>6. QED
  BY <1>2, <1>3, <1>4, <1>5

LEMMA ServeAsksVars ==
  ASSUME TInv, PParts, Serve
  PROVE  VarsNext /\ EndNext
<1>1. /\ UNCHANGED <<vars, varsSeq, session, lost>>
      /\ wire # <<>> /\ wire' = Tail(wire) /\ wire \in Seq(Ask) /\ Head(wire) \in Ask
  BY DEF Serve, EngineOnly, debugger, shown, PParts, LinkOK
<1>2. CASE Head(wire).what = "resume"
  <2>1. engine' = "running" /\ inbox' = inbox
    BY <1>2 DEF Serve
  <2>2. \A b, n : VarsIn(wire, b, n) => VarsIn(wire', b, n)
    BY <1>1, <1>2, ReadOther
  <2>3. "running" # "none"
    OBVIOUS
  <2>4. QED
    BY <1>1, <2>1, <2>2, <2>3 DEF PParts, VarsAsked, VarsNext, EndNext
<1>3. CASE Head(wire).what # "resume"
  <2>1. engine' = engine /\ inbox' = Append(inbox, Reply(Head(wire)))
    BY <1>3 DEF Serve, Reply
  <2> PICK y : y = Reply(Head(wire))
    OBVIOUS
  <2>2. y \in Said /\ y.what = Head(wire).what /\ y.seq = Head(wire).seq
    BY <1>1, <1>3, ReplyFacts DEF PParts
  <2>3. inbox \in Seq(Said)
    BY DEF PParts
  <2>4. /\ \A n : VarsIn(wire, inbox, n) => VarsIn(wire', inbox', n)
        /\ CloseIn(inbox) => CloseIn(inbox')
    BY <1>1, <2>1, <2>2, <2>3, ServeVars
  <2>5. QED
    BY <1>1, <2>1, <2>4 DEF PParts, VarsAsked, EndHeard, VarsNext, EndNext
<1>4. QED
  BY <1>2, <1>3

LEMMA EngineAsked ==
  ASSUME PParts, Halts \/ Dies
  PROVE  VarsNext /\ EndNext
<1>1. UNCHANGED <<vars, varsSeq, session, lost, wire>> /\ inbox \in Seq(Said)
  BY DEF Halts, Dies, EngineOnly, debugger, shown, PParts
<1>2. CASE Halts
  <2> PICK y : y = [what |-> "stop", seq |-> 0, pause |-> pause + 1]
    OBVIOUS
  <2>1. engine' = "halted" /\ inbox' = Append(inbox, y) /\ pause < MaxPauses
    BY <1>2 DEF Halts
  <2>2. y \in Said
    BY <2>1, Bounds DEF Said, PParts, LinkOK
  <2>3. \A n : VarsIn(wire, inbox, n) => VarsIn(wire, inbox', n)
    BY <1>1, <2>1, <2>2, SaidMore
  <2>4. "halted" # "none"
    OBVIOUS
  <2>5. QED
    BY <1>1, <2>1, <2>3, <2>4 DEF PParts, VarsAsked, VarsNext, EndNext
<1>3. CASE Dies
  <2> PICK y : y = [what |-> "closed", seq |-> 0, pause |-> 0]
    OBVIOUS
  <2>1. inbox' = Append(inbox, y)
    BY <1>3 DEF Dies
  <2>2. y \in Said /\ y.what = "closed"
    BY Bounds DEF Said
  <2>3. \A n : VarsIn(wire, inbox, n) => VarsIn(wire, inbox', n)
    BY <1>1, <2>1, <2>2, SaidMore
  <2>4. CloseIn(inbox')
    <3>1. Len(inbox) + 1 \in DOMAIN inbox' /\ inbox'[Len(inbox) + 1] = y
      BY <1>1, <2>1, <2>2
    <3>2. QED
      BY <2>2, <3>1 DEF CloseIn
  <2>5. QED
    BY <1>1, <2>3, <2>4 DEF PParts, VarsAsked, VarsNext, EndNext
<1>4. QED
  BY <1>2, <1>3

LEMMA DeliveryAsked ==
  ASSUME TInv, PParts, Delivery
  PROVE  VarsNext /\ EndNext
<1>1. inbox # <<>> /\ inbox \in Seq(Said) /\ Head(inbox) \in Said
  BY DEF Delivery, DeliverStop, DeliverAnswer, DeliverResult, DeliverClose, Deliver, PParts
<1>2. ASSUME Next_, UNCHANGED <<varsSeq, session, lost>>, Head(inbox).what # "closed",
             vars' = vars \/ vars' # Pending,
             Head(inbox).what = "vars" /\ Head(inbox).seq = varsSeq => vars' # Pending
      PROVE  VarsNext /\ EndNext
  <2>1. inbox' = Tail(inbox) /\ UNCHANGED <<engine, wire>>
    BY <1>2 DEF Next_
  <2>2. /\ \A n : /\ VarsIn(wire, inbox, n) /\ ~(Head(inbox).what = "vars" /\ Head(inbox).seq = n)
                  => VarsIn(wire, inbox', n)
        /\ CloseIn(inbox) => CloseIn(inbox')
    BY <1>1, <1>2, <2>1, TakenVars
  <2>3. VarsNext
    BY <1>2, <2>1, <2>2 DEF PParts, VarsAsked, VarsNext
  <2>4. EndNext
    BY <1>2, <2>1, <2>2 DEF PParts, EndHeard, EndNext
  <2>5. QED
    BY <2>3, <2>4
<1>3. CASE DeliverStop
  <2>1. Next_ /\ UNCHANGED <<vars, varsSeq, session, lost>> /\ Head(inbox).what = "stop"
    BY <1>3 DEF DeliverStop, debugger, shown
  <2>2. QED
    BY <1>2, <2>1
<1>4. CASE DeliverAnswer
  <2> PICK a : a = Head(inbox)
    OBVIOUS
  <2>1. /\ Next_ /\ UNCHANGED <<varsSeq, session, lost>> /\ a.what \in {"vars", "kids", "values"}
        /\ vars' = IF a.what = "vars" /\ Newest(a) THEN Answer(a) ELSE vars
    BY <1>4 DEF DeliverAnswer, debugger
  <2>2. Answer(a) # Pending
    BY <1>1, NotPending DEF Answer, Said
  <2>3. a.what = "vars" /\ a.seq = varsSeq => vars' # Pending
    BY <2>1, <2>2 DEF Newest
  <2>4. vars' = vars \/ vars' # Pending
    BY <2>1, <2>2
  <2>5. QED
    BY <1>2, <2>1, <2>3, <2>4
<1>5. CASE DeliverResult
  <2>1. /\ inbox' = Tail(inbox) /\ UNCHANGED <<engine, pause>> /\ Head(inbox).what \in {"stack", "eval"}
        /\ UNCHANGED <<session, lost>>
    BY <1>5 DEF DeliverResult, GetStack, debugger
  <2>2. CASE UNCHANGED <<shown, wire>>
    <3>1. Next_ /\ UNCHANGED <<vars, varsSeq>>
      BY <2>1, <2>2 DEF Next_, shown
    <3>2. QED
      BY <1>2, <2>1, <3>1
  <2>3. ASSUME NEW n \in 1 .. MaxDepth, RefreshVars(n) PROVE VarsNext /\ EndNext
    <3>1. n \in Nat
      BY Bounds
    <3>2. CloseIn(inbox) => CloseIn(inbox')
      BY <1>1, <2>1, TakenVars
    <3>3. QED
      BY <2>1, <2>3, <3>1, <3>2, RefreshKeeps
  <2>4. QED
    BY <1>5, <2>2, <2>3 DEF DeliverResult, GetStack, OnStopped
<1>6. CASE DeliverClose
  <2>1. CASE Exit
    BY <2>1, ExitAsked
  <2>2. CASE lost' = TRUE /\ Reject(Outstanding)
    BY <2>2, RejectedKeeps
  <2>3. QED
    BY <1>6, <2>1, <2>2 DEF DeliverClose
<1>7. QED
  BY <1>3, <1>4, <1>5, <1>6 DEF Delivery

LEMMA NextAsked == PInv /\ [Next]_all => PInv'
<1> SUFFICES ASSUME PInv, [Next]_all PROVE PInv'
  OBVIOUS
<1>1. TInv /\ PParts /\ TInv'
  BY PartsOfP, NextTypes DEF PInv
<1>2. VarsNext /\ EndNext
  <2>1. CASE \E w \in Words : Press(w) \/ Drain(w)
    BY <1>1, <2>1, ExecuteAsked DEF Press, Drain
  <2>2. CASE Submit
    <3>1. UNCHANGED <<vars, varsSeq, session, lost, engine, wire, inbox>>
      BY <2>2 DEF Submit, debugger, shown, link
    <3>2. QED
      BY <1>1, <3>1, StillKeeps
  <2>3. CASE Continuation
    BY <1>1, <2>3, ContinuationAsked
  <2>4. CASE \E c \in Ids : Connects(c)
    BY <1>1, <2>4, ConnectsAsked
  <2>5. CASE \/ \E i \in 0 .. MaxDepth - 1 : SelectFrame(i)
             \/ AddWatch \/ (\E n \in 1 .. MaxDisplays : RemoveWatch(n)) \/ ToggleVar
    BY <1>1, <2>5, ClicksAsked
  <2>6. CASE Serve \/ Halts \/ Dies
    BY <1>1, <2>6, ServeAsksVars, EngineAsked
  <2>7. CASE Delivery
    BY <1>1, <2>7, DeliveryAsked
  <2>8. CASE UNCHANGED all
    <3>1. UNCHANGED <<vars, varsSeq, session, lost, engine, wire, inbox>>
      BY <2>8 DEF all, debugger, shown, link
    <3>2. QED
      BY <1>1, <3>1, StillKeeps
  <2>9. QED
    BY <2>1, <2>2, <2>3, <2>4, <2>5, <2>6, <2>7, <2>8 DEF Next
<1>3. QED
  BY <1>1, <1>2, PKeeps

\* Whatever is given, clicked and answered in whatever order, with commands that overlap
\* or not: the variables that are shown as pending were asked for under the newest number,
\* the question or its answer is on its way, and a connection without an engine is about
\* to be known as lost (main.js 117-148): the safety core of PendingIsShown.
THEOREM PendingCorrect == Spec => []PendingIsAsked
<1>1. Init => PInv
  <2> SUFFICES ASSUME Init PROVE PInv
    OBVIOUS
  <2>1. vars # Pending /\ ~session
    BY NotPending DEF Init
  <2>2. QED
    BY <2>1, InitTypes DEF PInv, VarsAsked, EndHeard
<1>2. PInv => PendingIsAsked
  <2> SUFFICES ASSUME PInv PROVE PendingIsAsked
    OBVIOUS
  <2>1. vars = Pending => \E a \in Outstanding : a.what = "vars" /\ a.seq = varsSeq
    BY WayOf DEF PInv, VarsAsked, Outstanding
  <2>2. Connected => engine # "none" \/ \E a \in Range(inbox) : a.what = "closed"
    BY WayOf DEF PInv, EndHeard, Connected
  <2>3. QED
    BY <2>1, <2>2 DEF PendingIsAsked
<1>3. QED
  BY <1>1, <1>2, NextAsked, PTL DEF Spec
=============================================================================
