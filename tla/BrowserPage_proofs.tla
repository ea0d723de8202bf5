------------------------ MODULE BrowserPage_proofs ------------------------
(***************************************************************************)
(* Theorems about BrowserPage, for any files, lines and bounds, and, but for  *)
(* NewestInvariance and NewestCorrect, however slow the source files are.      *)
(***************************************************************************)
EXTENDS BrowserPage, FiniteSetTheorems, WellFoundedInduction, TLAPS

-----------------------------------------------------------------------------
(* Counting the messages of a queue                                         *)

Where(q, S) == {i \in DOMAIN q : q[i] \in S}

LEMMA HitsType ==
  ASSUME NEW T, NEW q \in Seq(T), NEW S
  PROVE  IsFiniteSet(Where(q, S)) /\ Hits(q, S) = Cardinality(Where(q, S)) /\ Hits(q, S) \in Nat
<1>1. Len(q) \in Nat /\ DOMAIN q = 1 .. Len(q)
  OBVIOUS
<1>2. Where(q, S) \in SUBSET (1 .. Len(q))
  BY <1>1 DEF Where
<1>3. IsFiniteSet(1 .. Len(q))
  BY <1>1, FS_Interval
<1>4. IsFiniteSet(Where(q, S))
  BY <1>2, <1>3, FS_Subset
<1>5. Hits(q, S) = Cardinality(Where(q, S))
  BY DEF Hits, Where
<1>6. QED
  BY <1>4, <1>5, FS_CardinalityType

LEMMA HitsConcat ==
  ASSUME NEW T, NEW q \in Seq(T), NEW s \in Seq(T), NEW S
  PROVE  Hits(q \o s, S) = Hits(q, S) + Hits(s, S)
<1> DEFINE n == Len(q)
           B == {n + k : k \in Where(s, S)}
           f == [k \in Where(s, S) |-> n + k]
           t == q \o s
<1>1. /\ n \in Nat /\ Len(s) \in Nat /\ DOMAIN q = 1 .. n /\ DOMAIN s = 1 .. Len(s)
      /\ t \in Seq(T) /\ DOMAIN t = 1 .. n + Len(s)
      /\ \A i \in DOMAIN q : t[i] = q[i]
      /\ \A k \in DOMAIN s : t[n + k] = s[k]
  OBVIOUS
<1> HIDE DEF n, t
<1>2. Where(s, S) \subseteq Nat /\ Where(q, S) \subseteq 1 .. n
  BY <1>1 DEF Where
<1>3. f \in Bijection(Where(s, S), B)
  <2>1. f \in [Where(s, S) -> B] /\ \A k \in Where(s, S) : f[k] = n + k
    OBVIOUS
  <2>2. \A j, k \in Where(s, S) : n + j = n + k => j = k
    BY <1>1, <1>2
  <2>3. \A b \in B : \E k \in Where(s, S) : f[k] = b
    BY <2>1
  <2> HIDE DEF f, B
  <2>4. QED
    BY <2>1, <2>2, <2>3 DEF Bijection, Injection, Surjection, IsInjective
<1>4. IsFiniteSet(B) /\ Cardinality(B) = Hits(s, S)
  <2>1. ExistsBijection(Where(s, S), B)
    BY <1>3 DEF ExistsBijection
  <2>2. QED
    BY <2>1, FS_Bijection, HitsType
<1>5. Where(t, S) = Where(q, S) \cup B
  <2>1. ASSUME NEW i \in Where(t, S) PROVE i \in Where(q, S) \cup B
    <3>1. i \in DOMAIN t /\ t[i] \in S
      BY <2>1 DEF Where
    <3>2. CASE i \in DOMAIN q
      BY <1>1, <3>1, <3>2 DEF Where
    <3>3. CASE i \notin DOMAIN q
      <4>1. i - n \in DOMAIN s /\ n + (i - n) = i
        BY <1>1, <3>1, <3>3
      <4>2. i - n \in Where(s, S)
        BY <1>1, <3>1, <4>1 DEF Where
      <4>3. QED
        BY <4>1, <4>2
    <3>4. QED
      BY <3>2, <3>3
  <2>2. ASSUME NEW i \in Where(q, S) PROVE i \in Where(t, S)
    BY <1>1, <2>2 DEF Where
  <2>3. ASSUME NEW k \in Where(s, S) PROVE n + k \in Where(t, S)
    BY <1>1, <2>3 DEF Where
  <2>4. QED
    BY <2>1, <2>2, <2>3
<1>6. Where(q, S) \cap B = {}
  BY <1>1, <1>2 DEF Where
<1>7. Cardinality(Where(q, S) \cap B) = 0
  BY <1>6, FS_EmptySet
<1>8. Hits(q, S) \in Nat /\ Hits(s, S) \in Nat /\ IsFiniteSet(Where(q, S))
  BY HitsType
<1>9. Cardinality(Where(q, S) \cup B) = Cardinality(Where(q, S)) + Cardinality(B) - Cardinality(Where(q, S) \cap B)
  <2> HIDE DEF B
  <2>1. QED
    BY <1>4, <1>8, FS_Union
<1>10. Hits(t, S) = Cardinality(Where(t, S)) /\ Hits(q, S) = Cardinality(Where(q, S))
  BY <1>1, HitsType
<1>11. Hits(t, S) = Hits(q, S) + Hits(s, S) - 0
  BY <1>4, <1>5, <1>7, <1>9, <1>10
<1>12. QED
  BY <1>8, <1>11 DEF t

LEMMA HitsOne ==
  ASSUME NEW m, NEW S
  PROVE  Hits(<<m>>, S) = IF m \in S THEN 1 ELSE 0
<1>1. DOMAIN <<m>> = {1} /\ <<m>>[1] = m
  OBVIOUS
<1>2. {i \in DOMAIN <<m>> : <<m>>[i] \in S} = IF m \in S THEN {1} ELSE {}
  BY <1>1
<1>3. QED
  BY <1>2, FS_EmptySet, FS_Singleton DEF Hits

LEMMA HitsNone ==
  ASSUME NEW S
  PROVE  Hits(<<>>, S) = 0
<1>1. {i \in DOMAIN <<>> : <<>>[i] \in S} = {}
  OBVIOUS
<1>2. QED
  BY <1>1, FS_EmptySet DEF Hits

LEMMA HitsAppend ==
  ASSUME NEW T, NEW q \in Seq(T), NEW m \in T, NEW S
  PROVE  Hits(Append(q, m), S) = Hits(q, S) + (IF m \in S THEN 1 ELSE 0)
<1>1. <<m>> \in Seq(T)
  OBVIOUS
<1>2. Append(q, m) = q \o <<m>>
  OBVIOUS
<1>3. Hits(q \o <<m>>, S) = Hits(q, S) + Hits(<<m>>, S)
  BY <1>1, HitsConcat
<1>4. QED
  BY <1>2, <1>3, HitsOne

LEMMA HitsTail ==
  ASSUME NEW T, NEW q \in Seq(T), q # <<>>, NEW S
  PROVE  /\ Tail(q) \in Seq(T) /\ Head(q) \in T
         /\ Hits(q, S) = Hits(Tail(q), S) + (IF Head(q) \in S THEN 1 ELSE 0)
<1>1. /\ Tail(q) \in Seq(T) /\ Head(q) \in T
      /\ <<Head(q)>> \in Seq(T) /\ q = <<Head(q)>> \o Tail(q)
  OBVIOUS
<1>2. Hits(q, S) = Hits(<<Head(q)>>, S) + Hits(Tail(q), S)
  BY <1>1, HitsConcat
<1>3. Hits(Tail(q), S) \in Nat
  BY <1>1, HitsType
<1>4. QED
  BY <1>1, <1>2, <1>3, HitsOne

LEMMA Positions ==
  ASSUME NEW T, NEW q \in Seq(T)
  PROVE  DOMAIN q = 1 .. Len(q) /\ Len(q) \in Nat /\ \A i \in DOMAIN q : i \in Nat
OBVIOUS

LEMMA TwoMessages ==
  ASSUME NEW T, NEW x \in T, NEW y \in T
  PROVE  /\ <<x>> \in Seq(T) /\ <<y>> \in Seq(T)
         /\ <<x, y>> = <<x>> \o <<y>> /\ <<x, y>> \in Seq(T)
         /\ DOMAIN <<x, y>> = 1 .. 2 /\ <<x, y>>[1] = x /\ <<x, y>>[2] = y
<1>1. <<x>> \in Seq(T) /\ <<y>> \in Seq(T) /\ <<x, y>> \in Seq(T)
  OBVIOUS
<1>2. DOMAIN <<x, y>> = 1 .. 2 /\ <<x, y>>[1] = x /\ <<x, y>>[2] = y
  OBVIOUS
<1>3. <<x, y>> = <<x>> \o <<y>>
  <2>1. /\ <<x>> \o <<y>> \in Seq(T) /\ Len(<<x>> \o <<y>>) = 2
        /\ (<<x>> \o <<y>>)[1] = x /\ (<<x>> \o <<y>>)[2] = y
    BY <1>1
  <2>2. \A u \in Seq(T) : Len(u) = 2 => u = <<u[1], u[2]>>
    OBVIOUS
  <2>3. QED
    BY <2>1, <2>2
<1>4. QED
  BY <1>1, <1>2, <1>3

LEMMA OneMessage ==
  ASSUME NEW T, NEW x \in T
  PROVE  <<x>> \in Seq(T) /\ \A k \in DOMAIN <<x>> : <<x>>[k] = x
OBVIOUS

LEMMA EmptyBehind ==
  ASSUME NEW T, NEW q \in Seq(T), q # <<>>, Head(q).what # "empty",
         \A i \in DOMAIN Tail(q) : Tail(q)[i].what # "empty"
  PROVE  \A i \in DOMAIN q : q[i].what # "empty"
<1>1. q = <<Head(q)>> \o Tail(q) /\ Head(q) = q[1]
  OBVIOUS
<1>2. \A i \in DOMAIN q : i = 1 \/ (i - 1 \in DOMAIN Tail(q) /\ Tail(q)[i - 1] = q[i])
  OBVIOUS
<1>3. QED
  BY <1>1, <1>2

LEMMA OneBefore == \A i, j \in Nat : (j > i + 1 => j - 1 > i /\ j # 1) /\ (j > 1 => j # 1)
OBVIOUS

\* The messages of a queue behind its first.
LEMMA Behind ==
  ASSUME NEW T, NEW q \in Seq(T), q # <<>>
  PROVE  /\ Len(Tail(q)) = Len(q) - 1 /\ DOMAIN Tail(q) = 1 .. Len(q) - 1
         /\ \A i \in DOMAIN Tail(q) : i + 1 \in DOMAIN q /\ Tail(q)[i] = q[i + 1]
         /\ 1 \in DOMAIN q /\ Head(q) = q[1]
OBVIOUS

LEMMA HitsSome ==
  ASSUME NEW T, NEW q \in Seq(T), NEW S
  PROVE  Hits(q, S) > 0 <=> \E i \in DOMAIN q : q[i] \in S
<1>1. Hits(q, S) > 0 <=> Where(q, S) # {}
  BY HitsType, FS_EmptySet
<1>2. QED
  BY <1>1 DEF Where

\* Two queues of one length with hits at the same places.
LEMMA HitsSame ==
  ASSUME NEW p, NEW q, NEW R, NEW S, DOMAIN p = DOMAIN q,
         \A i \in DOMAIN q : p[i] \in R <=> q[i] \in S
  PROVE  Hits(p, R) = Hits(q, S)
<1>1. {i \in DOMAIN p : p[i] \in R} = {i \in DOMAIN q : q[i] \in S}
  OBVIOUS
<1>2. QED
  BY <1>1 DEF Hits

LEMMA HitsDistinct ==
  ASSUME NEW s, \A i, j \in DOMAIN s : s[i] = s[j] => i = j, NEW x
  PROVE  Hits(s, {x}) = IF \E i \in DOMAIN s : s[i] = x THEN 1 ELSE 0
<1>1. CASE \E i \in DOMAIN s : s[i] = x
  <2>1. PICK i \in DOMAIN s : s[i] = x
    BY <1>1
  <2>2. {k \in DOMAIN s : s[k] \in {x}} = {i}
    BY <2>1
  <2>3. QED
    BY <1>1, <2>2, FS_Singleton DEF Hits
<1>2. CASE ~\E i \in DOMAIN s : s[i] = x
  <2>1. {k \in DOMAIN s : s[k] \in {x}} = {}
    BY <1>2
  <2>2. QED
    BY <1>2, <2>1, FS_EmptySet DEF Hits
<1>3. QED
  BY <1>1, <1>2

-----------------------------------------------------------------------------
(* Messages                                                                 *)

Whats == {"stack", "scopes", "variables"}

LEMMA AskFacts ==
  /\ \A r \in Refreshes \cup {Query} : \A w \in Whats : Ask(r, w) \in Asks
  /\ \A r, q, w, v : Ask(r, w) = Ask(q, v) <=> r = q /\ w = v
  /\ \A r, w : Ask(r, w).of = r /\ Ask(r, w).what = w
  /\ \A q \in Asks : q = Ask(q.of, q.what) /\ q.what \in Whats /\ q.of \in Refreshes \cup {Query}
  /\ \A c \in Commands : c \notin Asks /\ c.what \notin Whats
<1>1. \A r, q, w, v : Ask(r, w) = Ask(q, v) <=> r = q /\ w = v
  BY DEF Ask
<1>2. \A q \in Asks : q = Ask(q.of, q.what) /\ q.what \in Whats /\ q.of \in Refreshes \cup {Query}
  BY DEF Ask, Asks, Whats
<1>3. \A c \in Commands : c.what \notin Whats
  BY DEF Commands, Whats
<1>4. QED
  BY <1>1, <1>2, <1>3 DEF Ask, Asks, Whats

LEMMA MessageFacts ==
  ASSUME NEW m \in Messages
  PROVE  /\ m.what \in {"answer", "breakpoints", "stopped", "terminated"}
         /\ m.what = "answer" => /\ m.to \in Asks /\ m.ok \in BOOLEAN /\ m.stop \in 0 .. MaxStops
                                 /\ \A q : m \in AnswersTo(q) <=> m.to = q
         /\ m.what # "answer" => \A q : m \notin AnswersTo(q)
         /\ m.what = "breakpoints" => m.table \in Labelling
BY DEF Messages, Notices, AnswersTo

\* What the server sends.
LEMMA SentFacts ==
  ASSUME stops \in 0 .. MaxStops
  PROVE  /\ \A q \in Asks : \A ok \in BOOLEAN :
              /\ Answer(q, ok) \in Messages /\ Answer(q, ok).what = "answer" /\ Answer(q, ok).stop = stops
              /\ Answer(q, ok).ok = ok
              /\ \A p : Answer(q, ok) \in AnswersTo(p) <=> p = q
         /\ \A T \in SUBSET Nums : \A on \in [Nums -> Lines] :
              /\ Published(T, on) \in Messages /\ Published(T, on).what = "breakpoints"
              /\ Published(T, on).table = Labels(T, on) /\ Labels(T, on) \in Labelling
BY DEF Answer, Messages, AnswersTo, Published, Labels, Labelling

-----------------------------------------------------------------------------
(* The invariant in parts: what the page keeps and what the server keeps;    *)
(* the questions that are on their way; what the page knows of a refresh.     *)

PageTyped ==
  /\ at \in [Refreshes \cup {Query} -> Places]
  /\ got \in [Refreshes -> 0 .. stops] /\ mine \in [Refreshes -> 0 .. MaxRefreshes]
  /\ left \in [Refreshes -> 0 .. Scopes] /\ data \in [Refreshes -> SUBSET (0 .. stops)]
  /\ refreshSeq = Cardinality({r \in Refreshes : mine[r] > 0})
  /\ {stop, source} \subseteq 0 .. stops
  /\ scopeData \in [of : 0 .. stops, from : SUBSET (0 .. stops)]
  /\ cache \subseteq Files /\ fetches \in [Files -> 0 .. 1]

ServerTyped ==
  /\ page \in {"closed", "open"}
  /\ commands \in 0 .. MaxCommands
  /\ table \subseteq 1 .. nextBpNum - 1 /\ lineOf \in [Nums -> Lines] /\ nextBpNum \in 1 .. MaxCommands + 2
  /\ temp \in Nums \cup {0}
  /\ adopting \in {"entry", "stopped", "resumed", "report", "over", "failed"}
  /\ resuming \in Nat /\ reporting \in Nat
  /\ engine \in {"running", "stopped", "gone"} /\ stops \in 0 .. MaxStops
  /\ fileOf \in [Stops -> Files]

Counts ==
  /\ \A r \in Refreshes : \A what \in Whats :
       OnItsWay(Ask(r, what)) = IF at[r] = what THEN 1 ELSE 0
  /\ at[Query] \in {"none", "stack", "over"} /\ OnItsWay(Ask(Query, "stack")) \in {0, 1}
  /\ at[Query] = "stack" => OnItsWay(Ask(Query, "stack")) = 1
  /\ \A what \in {"scopes", "variables"} : OnItsWay(Ask(Query, what)) = 0

Held ==
  /\ page = "closed" => \A r \in DOMAIN at : at[r] = "none"
  /\ \A r \in Refreshes : /\ at[r] \in {"none", "stack", "source"} => mine[r] = 0
                          /\ at[r] \in {"source", "scopes", "variables"} => got[r] > 0
                          /\ at[r] = "source" => fetches[fileOf[got[r]]] = 1

Talk == Spoken /\ Labelled /\ Followed /\ Numbered

LEMMA Parts == IInv <=> PageTyped /\ ServerTyped /\ Talk /\ Counts /\ Held
<1>1. TypeOK <=> PageTyped /\ ServerTyped
  BY DEF TypeOK, PageTyped, ServerTyped
<1>2. Awaited <=> Counts /\ Held
  BY DEF Awaited, Counts, Held, Whats
<1>3. QED
  BY <1>1, <1>2 DEF IInv, Talk

LEMMA PartsNext == IInv' <=> PageTyped' /\ ServerTyped' /\ Talk' /\ Counts' /\ Held'
<1>1. TypeOK' <=> PageTyped' /\ ServerTyped'
  BY DEF TypeOK, PageTyped, ServerTyped
<1>2. Awaited' <=> Counts' /\ Held'
  BY DEF Awaited, Counts, Held, Whats
<1>3. QED
  BY <1>1, <1>2 DEF IInv, Talk

LEMMA Bounds ==
  /\ Scopes \in Nat \ {0} /\ MaxStops \in Nat \ {0} /\ MaxRefreshes \in Nat \ {0} /\ MaxCommands \in Nat \ {0}
  /\ Query \notin Refreshes
BY BoundsAssumption DEF Query, Refreshes

LEMMA InitHolds == Init => IInv
<1> SUFFICES ASSUME Init PROVE IInv
  OBVIOUS
<1>1. PageTyped
  <2>1. {r \in Refreshes : mine[r] > 0} = {}
    BY DEF Init
  <2>2. refreshSeq = Cardinality({r \in Refreshes : mine[r] > 0})
    BY <2>1, FS_EmptySet DEF Init
  <2>3. QED
    BY <2>2, Bounds DEF Init, PageTyped, Places
<1>2. ServerTyped
  <2>1. (CHOOSE l \in Lines : TRUE) \in Lines /\ (CHOOSE f \in Files : TRUE) \in Files
    BY LinesAssumption, FilesAssumption
  <2>2. lineOf \in [Nums -> Lines] /\ fileOf \in [Stops -> Files]
    BY <2>1 DEF Init
  <2>3. 0 \in 0 .. MaxCommands /\ 1 \in 1 .. MaxCommands + 2 /\ 0 \in 0 .. MaxStops /\ {} \subseteq 1 .. 0
    BY Bounds
  <2>4. QED
    BY <2>2, <2>3 DEF Init, ServerTyped
<1>3. Talk
  <2>1. up = <<>> /\ down = <<>> /\ asked = <<>> /\ bpList = {} /\ engine = "running" /\ page = "closed"
        /\ commands = 0 /\ adopting = "entry" /\ nextBpNum = 1
    BY DEF Init
  <2>2. Hits(up, Breaks) = 0
    BY <2>1, HitsNone
  <2>3. Spoken /\ Labelled /\ Followed
    BY <2>1 DEF Spoken, Labelled, Followed, Labelling
  <2>4. Numbered
    BY <1>2, <2>1, <2>2 DEF Numbered, ServerTyped
  <2>5. QED
    BY <2>3, <2>4 DEF Talk
<1>4. Counts
  <2>1. ASSUME NEW q PROVE OnItsWay(q) = 0
    BY HitsNone DEF OnItsWay, Init
  <2>2. QED
    BY <2>1 DEF Counts, Init, Whats
<1>5. Held
  BY DEF Held, Init
<1>6. QED
  BY <1>1, <1>2, <1>3, <1>4, <1>5, Parts

-----------------------------------------------------------------------------
(* The questions that are on their way, step by step                        *)

\* The page takes a message, or none, and asks.
LEMMA PageCount ==
  ASSUME Spoken, NEW s \in Seq(Asks), up' = up \o s, asked' = asked, NEW q \in Asks
  PROVE  /\ OnItsWay(q) \in Nat /\ Hits(s, {q}) \in Nat
         /\ down' = down => OnItsWay(q)' = OnItsWay(q) + Hits(s, {q})
         /\ (down # <<>> /\ down' = Tail(down)) =>
              /\ OnItsWay(q)' \in Nat
              /\ OnItsWay(q)' + (IF Head(down) \in AnswersTo(q) THEN 1 ELSE 0) = OnItsWay(q) + Hits(s, {q})
              /\ Head(down) \in AnswersTo(q) => OnItsWay(q) > 0
<1>1. /\ up \in Seq(Asks \cup Commands) /\ asked \in Seq(Asks) /\ down \in Seq(Messages)
      /\ s \in Seq(Asks \cup Commands)
  BY DEF Spoken
<1>2. /\ Hits(up, {q}) \in Nat /\ Hits(asked, {q}) \in Nat /\ Hits(down, AnswersTo(q)) \in Nat
      /\ Hits(s, {q}) \in Nat
  BY <1>1, HitsType
<1>3. Hits(up \o s, {q}) = Hits(up, {q}) + Hits(s, {q})
  BY <1>1, HitsConcat
<1>4. OnItsWay(q)' = Hits(up, {q}) + Hits(s, {q}) + Hits(asked, {q}) + Hits(down', AnswersTo(q))
  BY <1>3 DEF OnItsWay
<1>5. OnItsWay(q) = Hits(up, {q}) + Hits(asked, {q}) + Hits(down, AnswersTo(q))
  BY DEF OnItsWay
<1>6. ASSUME down # <<>>
      PROVE  /\ Hits(Tail(down), AnswersTo(q)) \in Nat
             /\ Hits(down, AnswersTo(q)) =
                  Hits(Tail(down), AnswersTo(q)) + (IF Head(down) \in AnswersTo(q) THEN 1 ELSE 0)
  <2>1. /\ Tail(down) \in Seq(Messages)
        /\ Hits(down, AnswersTo(q)) =
             Hits(Tail(down), AnswersTo(q)) + (IF Head(down) \in AnswersTo(q) THEN 1 ELSE 0)
    BY <1>1, <1>6, HitsTail
  <2>2. Hits(Tail(down), AnswersTo(q)) \in Nat
    BY <2>1, HitsType
  <2>3. QED
    BY <2>1, <2>2
<1>7. ASSUME down' = down PROVE OnItsWay(q)' = OnItsWay(q) + Hits(s, {q})
  BY <1>2, <1>4, <1>5, <1>7
<1>8. ASSUME down # <<>>, down' = Tail(down)
      PROVE  /\ OnItsWay(q)' \in Nat
             /\ OnItsWay(q)' + (IF Head(down) \in AnswersTo(q) THEN 1 ELSE 0) = OnItsWay(q) + Hits(s, {q})
             /\ Head(down) \in AnswersTo(q) => OnItsWay(q) > 0
  <2>1. OnItsWay(q)' = Hits(up, {q}) + Hits(s, {q}) + Hits(asked, {q}) + Hits(Tail(down), AnswersTo(q))
    BY <1>4, <1>8
  <2>2. CASE Head(down) \in AnswersTo(q)
    BY <1>2, <1>5, <1>6, <1>8, <2>1, <2>2
  <2>3. CASE Head(down) \notin AnswersTo(q)
    BY <1>2, <1>5, <1>6, <1>8, <2>1, <2>3
  <2>4. QED
    BY <2>2, <2>3
<1>9. QED
  BY <1>2, <1>5, <1>7, <1>8

\* The answer to what a refresh asked last, and what it asks then.
LEMMA OneMoves ==
  ASSUME PageTyped, Counts, Spoken, down # <<>>, down' = Tail(down), asked' = asked,
         NEW m \in Messages, m = Head(down), m.what = "answer",
         NEW r \in Refreshes, m.to.of = r,
         NEW w \in Places, at' = [at EXCEPT ![r] = w],
         NEW s \in Seq(Asks), up' = up \o s,
         \A q \in Asks : Hits(s, {q}) = IF q = Ask(r, w) THEN 1 ELSE 0
  PROVE  Counts' /\ at[r] = m.to.what
<1>1. \A q \in Asks :
        /\ OnItsWay(q) \in Nat /\ OnItsWay(q)' \in Nat
        /\ OnItsWay(q)' + (IF q = m.to THEN 1 ELSE 0) = OnItsWay(q) + (IF q = Ask(r, w) THEN 1 ELSE 0)
        /\ q = m.to => OnItsWay(q) > 0
  <2> TAKE q \in Asks
  <2>1. Head(down) \in AnswersTo(q) <=> q = m.to
    BY MessageFacts
  <2>2. /\ OnItsWay(q) \in Nat /\ OnItsWay(q)' \in Nat
        /\ OnItsWay(q)' + (IF Head(down) \in AnswersTo(q) THEN 1 ELSE 0) = OnItsWay(q) + Hits(s, {q})
        /\ Head(down) \in AnswersTo(q) => OnItsWay(q) > 0
    BY PageCount
  <2>3. QED
    BY <2>1, <2>2
<1>2. m.to \in Asks /\ m.to = Ask(r, m.to.what) /\ m.to.what \in Whats
  BY MessageFacts, AskFacts
<1>3. at[r] = m.to.what
  BY <1>1, <1>2 DEF Counts
<1>4. at'[r] = w /\ \A q \in Refreshes \cup {Query} : q # r => at'[q] = at[q]
  BY DEF PageTyped
<1>5. ASSUME NEW q \in Refreshes, NEW what \in Whats
      PROVE  OnItsWay(Ask(q, what))' = IF at'[q] = what THEN 1 ELSE 0
  <2>1. Ask(q, what) \in Asks /\ OnItsWay(Ask(q, what)) = IF at[q] = what THEN 1 ELSE 0
    BY AskFacts DEF Counts
  <2>2. Ask(q, what) = m.to <=> q = r /\ what = at[r]
    BY <1>2, <1>3, AskFacts
  <2>3. Ask(q, what) = Ask(r, w) <=> q = r /\ what = w
    BY AskFacts
  <2>4. QED
    BY <1>1, <1>4, <2>1, <2>2, <2>3
<1>6. \A what \in Whats : OnItsWay(Ask(Query, what))' = OnItsWay(Ask(Query, what)) /\ at'[Query] = at[Query]
  <2>1. \A what \in Whats : Ask(Query, what) \in Asks /\ Ask(Query, what) # m.to /\ Ask(Query, what) # Ask(r, w)
    BY <1>2, AskFacts, Bounds
  <2>2. QED
    BY <1>1, <1>4, <2>1, Bounds
<1>7. QED
  BY <1>3, <1>5, <1>6 DEF Counts, Whats

\* The same questions are on their way.
LEMMA NoneMoves ==
  ASSUME Counts, at' = at, \A q \in Asks : OnItsWay(q)' = OnItsWay(q)
  PROVE  Counts'
<1>1. \A r \in Refreshes \cup {Query} : \A w \in Whats : OnItsWay(Ask(r, w))' = OnItsWay(Ask(r, w))
  BY AskFacts
<1>2. QED
  BY <1>1 DEF Counts, Whats

-----------------------------------------------------------------------------
(* Refreshes that begin, and that get their number                          *)

LEMMA LeastOf ==
  ASSUME NEW S, S \subseteq Nat, S # {}
  PROVE  \E n \in S : \A m \in S : n <= m
<1>1. IsWellFoundedOn(OpToRel(<, Nat), Nat)
  BY NatLessThanWellFounded
<1>2. PICK n \in S : \A m \in S : ~(<<m, n>> \in OpToRel(<, Nat))
  BY <1>1, WFMin
<1>3. ASSUME NEW m \in S PROVE ~(m < n)
  <2>1. m \in Nat /\ n \in Nat
    OBVIOUS
  <2>2. m < n => <<m, n>> \in OpToRel(<, Nat)
    BY <2>1, Zenon DEF OpToRel
  <2>3. QED
    BY <1>2, <2>2, Zenon
<1>4. \A m \in S : n <= m
  BY <1>3
<1>5. QED
  BY <1>4

LEMMA GreatestOf ==
  ASSUME NEW W, W \subseteq Refreshes, W # {}
  PROVE  \E n \in W : \A m \in W : m <= n
<1> DEFINE S == {MaxRefreshes - r : r \in W}
<1>1. \A r \in W : r \in Nat /\ r <= MaxRefreshes
  BY Bounds DEF Refreshes
<1>2. \A r \in W : MaxRefreshes - r \in Nat
  BY <1>1, Bounds
<1>3. S \subseteq Nat /\ S # {}
  BY <1>2
<1>4. PICK k \in S : \A m \in S : k <= m
  <2> HIDE DEF S
  <2>1. QED
    BY <1>3, LeastOf
<1>5. PICK n \in W : k = MaxRefreshes - n
  BY <1>4
<1>6. ASSUME NEW m \in W PROVE m <= n
  <2>1. MaxRefreshes - m \in S
    OBVIOUS
  <2>2. MaxRefreshes - n <= MaxRefreshes - m
    BY <1>4, <1>5, <2>1
  <2>3. QED
    BY <1>1, <2>2, Bounds
<1>7. QED
  BY <1>6

LEMMA NextIsUnused ==
  ASSUME Unused # {}
  PROVE  NextRefresh \in Refreshes /\ at[NextRefresh] = "none"
<1>1. Unused \subseteq Nat
  BY DEF Unused, Refreshes
<1>2. \E n \in Unused : \A m \in Unused : n <= m
  BY <1>1, LeastOf
<1>3. NextRefresh \in Unused
  BY <1>2 DEF NextRefresh
<1>4. QED
  BY <1>3 DEF Unused

LEMMA OneAsk ==
  ASSUME NEW r \in Refreshes \cup {Query}, NEW w \in Whats
  PROVE  <<Ask(r, w)>> \in Seq(Asks) /\ \A q \in Asks : Hits(<<Ask(r, w)>>, {q}) = IF q = Ask(r, w) THEN 1 ELSE 0
<1>1. Ask(r, w) \in Asks
  BY AskFacts
<1>2. \A q : Hits(<<Ask(r, w)>>, {q}) = IF Ask(r, w) \in {q} THEN 1 ELSE 0
  BY HitsOne
<1>3. QED
  BY <1>1, <1>2

\* A refresh begins at message m: the answer of the query, or one that is no answer.
Begins(m) ==
  \/ m.what = "answer" /\ m.to.of = Query /\ RefreshStarts([at EXCEPT ![Query] = "over"])
  \/ m.what # "answer" /\ RefreshStarts(at)

\* Where the query is then.
QueryAfter(m) == IF m.what = "answer" THEN "over" ELSE at[Query]

LEMMA BeginsHow ==
  ASSUME PageTyped, NEW m, Begins(m)
  PROVE  /\ Unused # {} /\ NextRefresh \in Refreshes /\ at[NextRefresh] = "none"
         /\ m.what = "answer" => m.to.of = Query
         /\ at' = [at EXCEPT ![NextRefresh] = "stack", ![Query] = QueryAfter(m)]
         /\ up' = Append(up, Ask(NextRefresh, "stack"))
         /\ UNCHANGED <<got, mine, left, data, refreshSeq, shown, sources, bpList>>
<1>1. /\ Unused # {} /\ up' = Append(up, Ask(NextRefresh, "stack"))
      /\ m.what = "answer" => m.to.of = Query
      /\ UNCHANGED <<got, mine, left, data, refreshSeq, shown, sources, bpList>>
  BY DEF Begins, RefreshStarts
<1>2. NextRefresh \in Refreshes /\ at[NextRefresh] = "none"
  BY <1>1, NextIsUnused
<1>3. \A n \in Refreshes : n # Query
  BY Bounds
<1>4. CASE m.what = "answer"
  <2>1. at' = [[at EXCEPT ![Query] = "over"] EXCEPT ![NextRefresh] = "stack"]
    BY <1>4 DEF Begins, RefreshStarts
  <2>2. QED
    BY <1>1, <1>2, <1>3, <1>4, <2>1 DEF QueryAfter
<1>5. CASE m.what # "answer"
  <2>1. at' = [at EXCEPT ![NextRefresh] = "stack"]
    BY <1>5 DEF Begins, RefreshStarts
  <2>2. [at EXCEPT ![NextRefresh] = "stack"] = [at EXCEPT ![NextRefresh] = "stack", ![Query] = at[Query]]
    BY <1>2, <1>3 DEF PageTyped
  <2>3. QED
    BY <1>1, <1>2, <1>5, <2>1, <2>2 DEF QueryAfter
<1>6. QED
  BY <1>4, <1>5

\* The next refresh begins at a stop, or when the query is answered, which is over then.
LEMMA Begun ==
  ASSUME PageTyped, Counts, Spoken, down # <<>>, down' = Tail(down), asked' = asked,
         NEW m \in Messages, m = Head(down), Begins(m)
  PROVE  Counts'
<1> PICK r : r = NextRefresh
  OBVIOUS
<1>1. /\ r \in Refreshes /\ at[r] = "none" /\ up' = Append(up, Ask(r, "stack"))
      /\ at' = [at EXCEPT ![r] = "stack", ![Query] = QueryAfter(m)]
      /\ m.what = "answer" => m.to.of = Query
  BY BeginsHow
<1>2. PICK s : s = <<Ask(r, "stack")>>
  OBVIOUS
<1>3. s \in Seq(Asks) /\ \A q \in Asks : Hits(s, {q}) = IF q = Ask(r, "stack") THEN 1 ELSE 0
  BY <1>1, <1>2, OneAsk DEF Whats
<1>4. up' = up \o s
  BY <1>1, <1>2 DEF Spoken
<1>5. \A q \in Asks :
        /\ OnItsWay(q) \in Nat /\ OnItsWay(q)' \in Nat
        /\ OnItsWay(q)' + (IF Head(down) \in AnswersTo(q) THEN 1 ELSE 0)
             = OnItsWay(q) + (IF q = Ask(r, "stack") THEN 1 ELSE 0)
        /\ Head(down) \in AnswersTo(q) => OnItsWay(q) > 0
  <2> TAKE q \in Asks
  <2>1. /\ OnItsWay(q) \in Nat /\ OnItsWay(q)' \in Nat
        /\ OnItsWay(q)' + (IF Head(down) \in AnswersTo(q) THEN 1 ELSE 0) = OnItsWay(q) + Hits(s, {q})
        /\ Head(down) \in AnswersTo(q) => OnItsWay(q) > 0
    BY <1>3, <1>4, PageCount
  <2>2. QED
    BY <1>3, <2>1
<1>6. \A q \in Asks : Head(down) \in AnswersTo(q) => q = Ask(Query, "stack")
  <2> SUFFICES ASSUME NEW q \in Asks, Head(down) \in AnswersTo(q) PROVE q = Ask(Query, "stack")
    OBVIOUS
  <2>1. m.what = "answer" /\ m.to = q /\ q.of = Query
    BY <1>1, MessageFacts
  <2>2. q = Ask(Query, q.what) /\ q.what \in Whats /\ OnItsWay(q) > 0
    BY <1>5, <2>1, AskFacts
  <2>3. QED
    BY <2>2 DEF Counts, Whats
<1>7. /\ at'[r] = "stack" /\ at'[Query] = QueryAfter(m)
      /\ \A q \in Refreshes : q # r => at'[q] = at[q]
  BY <1>1, Bounds DEF PageTyped
<1>8. ASSUME NEW q \in Refreshes, NEW what \in Whats
      PROVE  OnItsWay(Ask(q, what))' = IF at'[q] = what THEN 1 ELSE 0
  <2>1. Ask(q, what) \in Asks /\ OnItsWay(Ask(q, what)) = IF at[q] = what THEN 1 ELSE 0
    BY AskFacts DEF Counts
  <2>2. Head(down) \notin AnswersTo(Ask(q, what))
    BY <1>6, <2>1, AskFacts, Bounds
  <2>3. Ask(q, what) = Ask(r, "stack") <=> q = r /\ what = "stack"
    BY AskFacts
  <2>4. "none" \notin Whats
    BY DEF Whats
  <2>5. /\ OnItsWay(Ask(q, what))' \in Nat
        /\ OnItsWay(Ask(q, what))' = OnItsWay(Ask(q, what)) + (IF q = r /\ what = "stack" THEN 1 ELSE 0)
    BY <1>5, <2>1, <2>2, <2>3
  <2>6. CASE q = r
    BY <1>1, <1>7, <2>1, <2>4, <2>5, <2>6
  <2>7. CASE q # r
    BY <1>7, <2>1, <2>5, <2>7
  <2>8. QED
    BY <2>6, <2>7
<1>9. ASSUME NEW what \in Whats
      PROVE  /\ OnItsWay(Ask(Query, what))' \in Nat /\ OnItsWay(Ask(Query, what))' <= OnItsWay(Ask(Query, what))
             /\ OnItsWay(Ask(Query, what)) \in Nat
  <2>1. Ask(Query, what) \in Asks /\ Ask(Query, what) # Ask(r, "stack")
    BY <1>1, AskFacts, Bounds
  <2>2. QED
    BY <1>5, <2>1
<1>10. \A what \in {"scopes", "variables"} : OnItsWay(Ask(Query, what))' = 0
  BY <1>9 DEF Counts, Whats
<1>11. OnItsWay(Ask(Query, "stack"))' \in {0, 1}
  BY <1>9 DEF Counts, Whats
<1>12. at'[Query] \in {"none", "stack", "over"}
  BY <1>7 DEF QueryAfter, Counts
<1>13. at'[Query] = "stack" => OnItsWay(Ask(Query, "stack"))' = 1
  <2> SUFFICES ASSUME at'[Query] = "stack" PROVE OnItsWay(Ask(Query, "stack"))' = 1
    OBVIOUS
  <2>1. m.what # "answer" /\ at[Query] = "stack"
    BY <1>7 DEF QueryAfter
  <2>2. Ask(Query, "stack") \in Asks /\ Ask(Query, "stack") # Ask(r, "stack")
    BY <1>1, AskFacts, Bounds DEF Whats
  <2>3. Head(down) \notin AnswersTo(Ask(Query, "stack"))
    BY <2>1, MessageFacts
  <2>4. OnItsWay(Ask(Query, "stack")) = 1
    BY <2>1 DEF Counts
  <2>5. QED
    BY <1>5, <2>2, <2>3, <2>4
<1>14. QED
  BY <1>8, <1>10, <1>11, <1>12, <1>13 DEF Counts

LEMMA RefreshesFinite ==
  ASSUME NEW W, W \subseteq Refreshes
  PROVE  IsFiniteSet(W) /\ Cardinality(W) \in Nat /\ Cardinality(W) <= MaxRefreshes
<1>1. IsFiniteSet(Refreshes) /\ Cardinality(Refreshes) = MaxRefreshes
  BY Bounds, FS_Interval DEF Refreshes
<1>2. IsFiniteSet(W) /\ Cardinality(W) <= Cardinality(Refreshes)
  BY <1>1, FS_Subset
<1>3. QED
  BY <1>1, <1>2, FS_CardinalityType

\* How many of W come no later than r.
Rank(W, r) == Cardinality({q \in W : q <= r})

LEMMA RankGrows ==
  ASSUME NEW W, W \subseteq Refreshes, NEW r \in W, NEW p \in W, r < p
  PROVE  Rank(W, r) < Rank(W, p)
<1> DEFINE R == {q \in W : q <= r}
           P == {q \in W : q <= p}
<1>1. \A q \in W : q \in Nat
  BY Bounds DEF Refreshes
<1>2. R \subseteq P /\ p \in P /\ p \notin R
  BY <1>1
<1>3. P \subseteq Refreshes /\ R \subseteq Refreshes
  OBVIOUS
<1>4. Rank(W, r) = Cardinality(R) /\ Rank(W, p) = Cardinality(P)
  BY DEF Rank
<1> HIDE DEF R, P
<1>5. IsFiniteSet(P) /\ Cardinality(P) \in Nat /\ Cardinality(R) \in Nat
  BY <1>3, RefreshesFinite
<1>6. Cardinality(R) <= Cardinality(P) /\ (Cardinality(P) = Cardinality(R) => P = R)
  BY <1>2, <1>5, FS_Subset
<1>7. QED
  BY <1>2, <1>4, <1>5, <1>6

\* The ranks of W are 1, 2, ... up to its size, each of them once.
LEMMA RankNumbers ==
  ASSUME NEW W, W \subseteq Refreshes
  PROVE  /\ \A r \in W : Rank(W, r) \in 1 .. Cardinality(W)
         /\ \A r, p \in W : Rank(W, r) = Rank(W, p) => r = p
         /\ \A i \in 1 .. Cardinality(W) : \E r \in W : Rank(W, r) = i
<1> DEFINE n == Cardinality(W)
           f == [r \in W |-> Rank(W, r)]
<1>1. IsFiniteSet(W) /\ n \in Nat /\ \A q \in W : q \in Nat
  <2>1. \A q \in W : q \in Nat
    BY Bounds DEF Refreshes
  <2>2. QED
    BY <2>1, RefreshesFinite
<1>2. ASSUME NEW r \in W PROVE Rank(W, r) \in 1 .. n
  <2> DEFINE R == {q \in W : q <= r}
  <2>1. r \in R /\ R \subseteq W /\ R \subseteq Refreshes /\ Rank(W, r) = Cardinality(R)
    BY <1>1 DEF Rank
  <2> HIDE DEF R
  <2>2. IsFiniteSet(R) /\ Cardinality(R) \in Nat
    BY <2>1, RefreshesFinite
  <2>3. Cardinality(R) # 0 /\ Cardinality(R) <= n
    BY <1>1, <2>1, <2>2, FS_EmptySet, FS_Subset
  <2>4. QED
    BY <1>1, <2>1, <2>2, <2>3
<1>3. ASSUME NEW r \in W, NEW p \in W, Rank(W, r) = Rank(W, p) PROVE r = p
  <2>1. Rank(W, r) \in Nat
    BY <1>1, <1>2
  <2>2. ~(r < p) /\ ~(p < r)
    BY <1>3, <2>1, RankGrows
  <2>3. QED
    BY <1>1, <2>2
<1>4. f \in [W -> 1 .. n] /\ \A r \in W : f[r] = Rank(W, r)
  BY <1>2
<1>5. f \in Injection(W, 1 .. n)
  <2> HIDE DEF f
  <2>1. QED
    BY <1>3, <1>4 DEF Injection, IsInjective
<1>6. IsFiniteSet(1 .. n) /\ Cardinality(1 .. n) = n
  BY <1>1, FS_Interval
<1>7. f \in Surjection(W, 1 .. n)
  <2> HIDE DEF f
  <2>1. QED
    BY <1>5, <1>6, FS_Injection
<1>8. \A i \in 1 .. n : \E r \in W : f[r] = i
  <2> HIDE DEF f
  <2>1. QED
    BY <1>7 DEF Surjection
<1>9. QED
  BY <1>2, <1>3, <1>4, <1>8

\* The refreshes of W ask for their scopes, each of them once.
LEMMA NumberAsks ==
  ASSUME NEW W, W \subseteq Refreshes, Number(W)
  PROVE  \E s \in Seq(Asks) :
           /\ up' = up \o s
           /\ \A q \in Asks : Hits(s, {q}) = IF q.of \in W /\ q.what = "scopes" THEN 1 ELSE 0
<1> DEFINE n == Cardinality(W)
           inOrder == [i \in 1 .. n |-> CHOOSE r \in W : Rank(W, r) = i]
           s == [i \in DOMAIN inOrder |-> Ask(inOrder[i], "scopes")]
<1>1. up' = up \o s
  BY DEF Number, Rank
<1>2. n \in Nat
  BY RefreshesFinite
<1>3. \A i \in 1 .. n : inOrder[i] \in W /\ Rank(W, inOrder[i]) = i
  <2> TAKE i \in 1 .. n
  <2>1. \E r \in W : Rank(W, r) = i
    BY RankNumbers
  <2>2. inOrder[i] = CHOOSE r \in W : Rank(W, r) = i
    OBVIOUS
  <2>3. QED
    BY <2>1, <2>2
<1>4. DOMAIN inOrder = 1 .. n
  OBVIOUS
<1> HIDE DEF n, inOrder
<1>5. DOMAIN s = 1 .. n /\ \A i \in 1 .. n : s[i] = Ask(inOrder[i], "scopes")
  BY <1>4
<1>6. s \in Seq(Asks)
  <2>1. \A i \in 1 .. n : Ask(inOrder[i], "scopes") \in Asks
    BY <1>3, AskFacts DEF Whats
  <2>2. s \in [1 .. n -> Asks]
    BY <1>4, <2>1
  <2>3. QED
    BY <1>2, <2>2
<1> HIDE DEF s
<1>7. \A i, j \in DOMAIN s : s[i] = s[j] => i = j
  BY <1>3, <1>5, AskFacts
<1>8. ASSUME NEW q \in Asks
      PROVE  (\E i \in DOMAIN s : s[i] = q) <=> q.of \in W /\ q.what = "scopes"
  <2>1. ASSUME NEW i \in DOMAIN s, s[i] = q PROVE q.of \in W /\ q.what = "scopes"
    BY <1>3, <1>5, <2>1, AskFacts
  <2>2. ASSUME q.of \in W, q.what = "scopes" PROVE \E i \in DOMAIN s : s[i] = q
    <3> DEFINE i == Rank(W, q.of)
    <3>1. i \in 1 .. n
      BY <2>2, RankNumbers DEF n
    <3>2. inOrder[i] = q.of
      BY <1>3, <2>2, <3>1, RankNumbers
    <3>3. q = Ask(q.of, "scopes")
      BY <2>2, AskFacts
    <3>4. QED
      BY <1>5, <3>1, <3>2, <3>3
  <2>3. QED
    BY <2>1, <2>2
<1>9. \A q \in Asks : Hits(s, {q}) = IF q.of \in W /\ q.what = "scopes" THEN 1 ELSE 0
  BY <1>7, <1>8, HitsDistinct
<1>10. QED
  BY <1>1, <1>6, <1>9

\* Refreshes that had none get the next numbers.
LEMMA NumberGives ==
  ASSUME PageTyped, NEW W, W \subseteq Refreshes, \A r \in W : mine[r] = 0, Number(W)
  PROVE  /\ mine' \in [Refreshes -> 0 .. MaxRefreshes]
         /\ refreshSeq' = Cardinality({r \in Refreshes : mine'[r] > 0})
         /\ \A r \in Refreshes \ W : mine'[r] = mine[r]
<1> DEFINE M == {r \in Refreshes : mine[r] > 0}
           G == {r \in Refreshes : mine'[r] > 0}
<1>1. /\ \A r \in Refreshes : mine'[r] = IF r \in W THEN refreshSeq + Rank(W, r) ELSE mine[r]
      /\ DOMAIN mine' = Refreshes /\ mine' = [r \in Refreshes |-> mine'[r]]
      /\ refreshSeq' = refreshSeq + Cardinality(W)
  BY DEF Number, Rank
<1>2. refreshSeq = Cardinality(M) /\ mine \in [Refreshes -> 0 .. MaxRefreshes]
  BY DEF PageTyped
<1>3. /\ IsFiniteSet(M) /\ IsFiniteSet(W) /\ Cardinality(M) \in Nat /\ Cardinality(W) \in Nat
      /\ M \cap W = {} /\ M \cup W \subseteq Refreshes
  <2>1. M \subseteq Refreshes /\ M \cap W = {} /\ M \cup W \subseteq Refreshes
    OBVIOUS
  <2> HIDE DEF M
  <2>2. QED
    BY <2>1, RefreshesFinite
<1>4. Cardinality(M \cup W) = Cardinality(M) + Cardinality(W) /\ Cardinality(M \cup W) <= MaxRefreshes
  <2> HIDE DEF M
  <2>1. Cardinality(M \cup W) = Cardinality(M) + Cardinality(W) - Cardinality(M \cap W)
    BY <1>3, FS_Union
  <2>2. Cardinality(M \cap W) = 0
    BY <1>3, FS_EmptySet
  <2>3. QED
    BY <1>3, <2>1, <2>2, RefreshesFinite
<1>5. \A r \in W : Rank(W, r) \in 1 .. Cardinality(W)
  BY RankNumbers
<1>6. G = M \cup W
  <2>1. \A r \in W : refreshSeq + Rank(W, r) > 0
    <3> HIDE DEF M
    <3>1. QED
      BY <1>2, <1>3, <1>5
  <2>2. QED
    BY <1>1, <2>1
<1>7. \A r \in Refreshes : mine'[r] \in 0 .. MaxRefreshes
  <2> TAKE r \in Refreshes
  <2> HIDE DEF M
  <2>1. CASE r \in W
    <3>1. Rank(W, r) \in 1 .. Cardinality(W) /\ mine'[r] = Cardinality(M) + Rank(W, r)
      BY <1>1, <1>2, <1>5, <2>1
    <3>2. QED
      BY <1>3, <1>4, <3>1, Bounds
  <2>2. CASE r \notin W
    BY <1>1, <1>2, <2>2
  <2>3. QED
    BY <2>1, <2>2
<1>8. mine' \in [Refreshes -> 0 .. MaxRefreshes]
  BY <1>1, <1>7
<1>9. refreshSeq' = Cardinality(G)
  <2> HIDE DEF M, G
  <2>1. QED
    BY <1>1, <1>2, <1>4, <1>6
<1>10. QED
  BY <1>1, <1>8, <1>9

\* Refreshes whose file has come go on.
LEMMA NumberMoves ==
  ASSUME PageTyped, Counts, Spoken, down' = down, asked' = asked,
         NEW W, W \subseteq Refreshes, \A r \in W : at[r] = "source", Number(W)
  PROVE  Counts'
<1>1. PICK s \in Seq(Asks) :
        /\ up' = up \o s
        /\ \A q \in Asks : Hits(s, {q}) = IF q.of \in W /\ q.what = "scopes" THEN 1 ELSE 0
  BY NumberAsks
<1>2. \A q \in Asks : /\ OnItsWay(q) \in Nat
                      /\ OnItsWay(q)' = OnItsWay(q) + Hits(s, {q})
  BY <1>1, PageCount
<1>3. \A q \in Refreshes \cup {Query} : at'[q] = IF q \in W THEN "scopes" ELSE at[q]
  BY DEF Number, PageTyped
<1>4. ASSUME NEW q \in Refreshes, NEW what \in Whats
      PROVE  OnItsWay(Ask(q, what))' = IF at'[q] = what THEN 1 ELSE 0
  <2>1. /\ Ask(q, what) \in Asks /\ Ask(q, what).of = q /\ Ask(q, what).what = what
        /\ OnItsWay(Ask(q, what)) = IF at[q] = what THEN 1 ELSE 0
    BY AskFacts DEF Counts
  <2>2. "source" \notin Whats
    BY DEF Whats
  <2>3. Hits(s, {Ask(q, what)}) = IF q \in W /\ what = "scopes" THEN 1 ELSE 0
    BY <1>1, <2>1
  <2>4. OnItsWay(Ask(q, what))' = OnItsWay(Ask(q, what)) + Hits(s, {Ask(q, what)})
    BY <1>2, <2>1
  <2>5. CASE q \in W
    BY <1>3, <2>1, <2>2, <2>3, <2>4, <2>5
  <2>6. CASE q \notin W
    BY <1>3, <2>1, <2>3, <2>4, <2>6
  <2>7. QED
    BY <2>5, <2>6
<1>5. ASSUME NEW what \in Whats PROVE OnItsWay(Ask(Query, what))' = OnItsWay(Ask(Query, what))
  <2>1. /\ Ask(Query, what) \in Asks /\ Ask(Query, what).of = Query
    BY AskFacts
  <2>2. Query \notin W
    BY Bounds
  <2>3. Hits(s, {Ask(Query, what)}) = 0
    BY <1>1, <2>1, <2>2
  <2>4. QED
    BY <1>2, <2>1, <2>3
<1>6. at'[Query] = at[Query]
  BY <1>3, Bounds
<1>7. QED
  BY <1>4, <1>5, <1>6 DEF Counts, Whats

-----------------------------------------------------------------------------
(* What is said, when the page takes a message and asks                     *)

LEMMA PageTalks ==
  ASSUME ServerTyped, Talk, NEW s \in Seq(Asks), up' = up \o s, page = "open",
         UNCHANGED <<page, bpList, commands, points, interpreter, target, asked>>,
         \/ down' = down
         \/ down # <<>> /\ down' = Tail(down) /\ Head(down).what # "breakpoints"
  PROVE  Talk'
<1> USE DEF Talk
<1>1. /\ up \in Seq(Asks \cup Commands) /\ down \in Seq(Messages) /\ s \in Seq(Asks \cup Commands)
      /\ up \o s \in Seq(Asks \cup Commands)
  BY DEF Spoken
<1>2. /\ \A i \in DOMAIN up' : (i \in DOMAIN up /\ up'[i] = up[i]) \/ up'[i] \in Asks
      /\ \A i \in DOMAIN up : i \in DOMAIN up' /\ up'[i] = up[i]
  <2> PICK t \in Seq(Asks \cup Commands) : t = up \o s
    BY <1>1
  <2>1. /\ \A i \in DOMAIN t : (i \in DOMAIN up /\ t[i] = up[i]) \/ t[i] \in Asks
        /\ \A i \in DOMAIN up : i \in DOMAIN t /\ t[i] = up[i]
    BY <1>1
  <2>2. QED
    BY <2>1
<1>3. \A q \in Asks : q.what \in Whats
  BY AskFacts
<1>4. /\ down' \in Seq(Messages)
      /\ \A i \in DOMAIN down' : \E j \in DOMAIN down : down'[i] = down[j]
      /\ \/ down' = down
         \/ /\ \A i \in DOMAIN down' : i + 1 \in DOMAIN down /\ down'[i] = down[i + 1]
            /\ \A j \in DOMAIN down : j # 1 => j - 1 \in DOMAIN down' /\ j = (j - 1) + 1
            /\ down[1].what # "breakpoints" /\ 1 \in DOMAIN down
  <2>1. CASE down' = down
    BY <1>1, <2>1
  <2>2. CASE down # <<>> /\ down' = Tail(down) /\ Head(down).what # "breakpoints"
    <3>1. Tail(down) \in Seq(Messages)
      BY <1>1, <2>2
    <3>2. /\ DOMAIN Tail(down) = 1 .. Len(down) - 1
          /\ \A i \in DOMAIN Tail(down) : i + 1 \in DOMAIN down /\ Tail(down)[i] = down[i + 1]
          /\ 1 \in DOMAIN down /\ Head(down) = down[1]
          /\ DOMAIN down = 1 .. Len(down) /\ Len(down) \in Nat
      BY <1>1, <2>2, Behind
    <3>3. \A j \in DOMAIN down : j # 1 => j - 1 \in DOMAIN Tail(down) /\ j = (j - 1) + 1
      BY <3>2
    <3>4. \A i \in DOMAIN Tail(down) : \E j \in DOMAIN down : Tail(down)[i] = down[j]
      BY <3>2
    <3>5. QED
      BY <2>2, <3>1, <3>2, <3>3, <3>4
  <2>3. QED
    BY <2>1, <2>2
<1>5. Spoken'
  <2>1. up' \in Seq(Asks \cup Commands)
    BY <1>1
  <2>2. \A i \in DOMAIN up' : up'[i].what = "break" => up'[i].line \in Lines
    BY <1>2, <1>3 DEF Spoken, Whats
  <2>3. \A i \in DOMAIN down' : down'[i].what = "answer" => /\ down'[i].stop <= stops
                                                            /\ down'[i].ok => down'[i].stop > 0
    BY <1>4 DEF Spoken
  <2>4. QED
    BY <1>4, <2>1, <2>2, <2>3 DEF Spoken, target
<1>6. Labelled'
  <2>1. \A b : StillTrue(b)' <=> StillTrue(b)
    BY DEF StillTrue, points
  <2>2. \A b \in bpList' : StillTrue(b)'
    BY <2>1 DEF Labelled
  <2>3. \A i \in DOMAIN down' : down'[i].what = "breakpoints" => \A b \in down'[i].table : StillTrue(b)'
    BY <1>4, <2>1 DEF Labelled
  <2>4. \A i \in DOMAIN up' : up'[i].what = "delete" => up'[i].num > 0 /\ StillTrue(up[i])'
    <3>1. ASSUME NEW i \in DOMAIN up', up'[i].what = "delete"
          PROVE  up'[i].num > 0 /\ up'[i].num < nextBpNum /\ lineOf[up'[i].num] = up'[i].line
      <4>1. i \in DOMAIN up /\ up'[i] = up[i]
        BY <1>2, <1>3, <3>1 DEF Whats
      <4>2. QED
        BY <3>1, <4>1 DEF Labelled, StillTrue
    <3>2. QED
      BY <3>1 DEF StillTrue, points
  <2>5. QED
    BY <2>2, <2>3, <2>4 DEF Labelled
<1>7. Followed'
  <2> SUFFICES ASSUME page' = "open", adopting' \notin {"resumed", "report", "failed"},
                      \A i \in DOMAIN up' : up'[i].what # "empty"
               PROVE  /\ \A i \in DOMAIN down' : LastTable(i)' => down'[i].table = Labels(table, lineOf)
                      /\ (\A i \in DOMAIN down' : ~IsTable(i)') => bpList = Labels(table, lineOf)
    BY DEF Followed, points
  <2>1. /\ \A i \in DOMAIN down : LastTable(i) => down[i].table = Labels(table, lineOf)
        /\ (\A i \in DOMAIN down : ~IsTable(i)) => bpList = Labels(table, lineOf)
    BY <1>2 DEF Followed, interpreter
  <2>2. CASE down' = down
    BY <2>1, <2>2 DEF LastTable, IsTable
  <2>3. CASE /\ \A i \in DOMAIN down' : i + 1 \in DOMAIN down /\ down'[i] = down[i + 1]
             /\ \A j \in DOMAIN down : j # 1 => j - 1 \in DOMAIN down' /\ j = (j - 1) + 1
             /\ down[1].what # "breakpoints" /\ 1 \in DOMAIN down
    <3>1. \A j \in DOMAIN down : IsTable(j) => j # 1 /\ IsTable(j - 1)'
      BY <2>3 DEF IsTable
    <3>2. ASSUME NEW i \in DOMAIN down', LastTable(i)' PROVE LastTable(i + 1)
      <4>1. \A j \in DOMAIN down' : j > i => ~IsTable(j)'
        BY <3>2 DEF LastTable
      <4>2. i \in Nat /\ \A j \in DOMAIN down : j \in Nat
        <5>1. \A j \in DOMAIN down : j \in Nat
          BY <1>1, Positions
        <5>2. \A j \in DOMAIN down' : j \in Nat
          BY <1>4, Positions
        <5>3. QED
          BY <3>2, <5>1, <5>2
      <4>3. ASSUME NEW j \in DOMAIN down, j > i + 1, IsTable(j) PROVE FALSE
        <5>1. j # 1 /\ j - 1 \in DOMAIN down' /\ IsTable(j - 1)'
          BY <2>3, <3>1, <4>3
        <5>2. j - 1 > i
          <6>1. j \in Nat /\ i \in Nat /\ j > i + 1
            BY <4>2, <4>3
          <6>2. QED
            BY <6>1, OneBefore
        <5>3. QED
          BY <4>1, <5>1, <5>2
      <4>4. IsTable(i + 1)
        BY <2>3, <3>2 DEF LastTable, IsTable
      <4>5. QED
        BY <4>3, <4>4 DEF LastTable
    <3>3. QED
      BY <2>1, <2>3, <3>1, <3>2
  <2>4. QED
    BY <1>4, <2>2, <2>3
<1>8. Numbered'
  <2>1. Hits(s, Breaks) = 0
    <3>1. \A i \in DOMAIN s : s[i] \notin Breaks
      <4>1. \A i \in DOMAIN s : s[i] \in Asks
        OBVIOUS
      <4>2. \A c \in Breaks : c.what = "break"
        BY DEF Breaks
      <4>3. QED
        BY <1>3, <4>1, <4>2 DEF Whats
    <3>2. Hits(s, Breaks) \in Nat /\ ~(Hits(s, Breaks) > 0)
      BY <1>1, <3>1, HitsSome, HitsType
    <3>3. QED
      BY <3>2
  <2>2. Hits(up \o s, Breaks) = Hits(up, Breaks) + 0 /\ Hits(up, Breaks) \in Nat
    BY <1>1, <2>1, HitsConcat, HitsType
  <2>3. QED
    BY <2>2 DEF Numbered, points, interpreter
<1>9. QED
  BY <1>5, <1>6, <1>7, <1>8

-----------------------------------------------------------------------------
(* The page takes the message m                                             *)

Frame(m) ==
  /\ down # <<>> /\ m = Head(down) /\ down' = Tail(down)
  /\ UNCHANGED <<page, commands, points, interpreter, target, asked>>

\* What becomes of the refreshes, and what is asked.
Went ==
  /\ PageTyped' /\ Counts' /\ Held' /\ bpList' = bpList
  /\ \E s \in Seq(Asks) : up' = up \o s

LEMMA FrameFacts ==
  ASSUME ServerTyped, Spoken, NEW m, Frame(m)
  PROVE  /\ m \in Messages /\ page = "open"
         /\ m.what = "answer" => /\ m.stop \in 0 .. stops
                                 /\ m.ok => m.stop \in Stops /\ m.stop > 0 /\ fileOf[m.stop] \in Files
<1>1. down \in Seq(Messages) /\ down # <<>> /\ m = Head(down)
  BY DEF Spoken, Frame
<1>2. m \in Messages /\ 1 \in DOMAIN down /\ m = down[1]
  BY <1>1, Behind, HitsTail
<1>3. page = "open"
  BY <1>1 DEF Spoken, ServerTyped
<1>4. ASSUME m.what = "answer" PROVE m.stop \in 0 .. stops /\ (m.ok => m.stop > 0)
  <2>1. m.stop <= stops /\ (m.ok => m.stop > 0)
    BY <1>2, <1>4 DEF Spoken
  <2>2. m.stop \in 0 .. MaxStops /\ stops \in Nat
    BY <1>2, <1>4, MessageFacts, Bounds DEF ServerTyped
  <2>3. QED
    BY <2>1, <2>2, Bounds
<1>5. ASSUME m.what = "answer", m.ok PROVE m.stop \in Stops /\ fileOf[m.stop] \in Files
  <2>1. m.stop \in 0 .. stops /\ m.stop > 0 /\ stops \in 0 .. MaxStops
    BY <1>4, <1>5 DEF ServerTyped
  <2>2. m.stop \in 1 .. MaxStops
    BY <2>1, Bounds
  <2>3. QED
    BY <2>2 DEF ServerTyped, Stops
<1>6. QED
  BY <1>2, <1>3, <1>4, <1>5

\* Nothing is asked, and the refresh is over or waits for its file.
LEMMA AsksNothing ==
  ASSUME Spoken, NEW r, NEW w, w \notin Whats
  PROVE  <<>> \in Seq(Asks) /\ up = up \o <<>> /\ \A q \in Asks : Hits(<<>>, {q}) = IF q = Ask(r, w) THEN 1 ELSE 0
<1>1. up \in Seq(Asks \cup Commands)
  BY DEF Spoken
<1>2. \A q \in Asks : q # Ask(r, w)
  BY AskFacts
<1>3. \A q : Hits(<<>>, {q}) = 0
  BY HitsNone
<1>4. <<>> \in Seq(Asks) /\ up = up \o <<>>
  BY <1>1
<1>5. QED
  BY <1>2, <1>3, <1>4

LEMMA RefreshOver ==
  ASSUME PageTyped, ServerTyped, Spoken, Counts, Held, NEW m, Frame(m), m.what = "answer",
         NEW r \in Refreshes, m.to.of = r, Goes(r, "over"), up' = up,
         UNCHANGED <<got, mine, left, data, refreshSeq, stop, source, bpList, sources>>,
         scopeData' \in [of : 0 .. stops, from : SUBSET (0 .. stops)]
  PROVE  Went
<1>1. m \in Messages /\ page = "open"
  BY FrameFacts
<1>2. at' = [at EXCEPT ![r] = "over"] /\ "over" \in Places /\ "over" \notin Whats
  BY DEF Goes, Places, Whats
<1>s. PICK s : s = <<>>
  OBVIOUS
<1>3. s \in Seq(Asks) /\ up' = up \o s /\ \A q \in Asks : Hits(s, {q}) = IF q = Ask(r, "over") THEN 1 ELSE 0
  BY <1>2, <1>s, AsksNothing
<1>4. Counts'
  <2>1. down # <<>> /\ down' = Tail(down) /\ asked' = asked /\ m = Head(down)
    BY DEF Frame
  <2>2. QED
    BY <1>1, <1>2, <1>3, <2>1, OneMoves
<1>5. PageTyped'
  BY <1>2 DEF PageTyped, sources, Frame, target
<1>6. Held'
  BY <1>1, <1>2 DEF Held, PageTyped, sources, Frame, target
<1>7. QED
  BY <1>3, <1>4, <1>5, <1>6 DEF Went

LEMMA StackGoes ==
  ASSUME PageTyped, ServerTyped, Spoken, Counts, Held, NEW m, Frame(m), m.what = "answer",
         NEW r \in Refreshes, m.to.of = r, at[r] = "stack", OnStack(r, m)
  PROVE  Went
<1>1. m \in Messages /\ page = "open" /\ m.stop \in 0 .. stops
      /\ (m.ok => m.stop \in Stops /\ m.stop > 0 /\ fileOf[m.stop] \in Files)
  BY FrameFacts
<1>2. CASE ~m.ok
  <2>1. /\ Goes(r, "over") /\ up' = up
        /\ UNCHANGED <<got, mine, left, data, refreshSeq, stop, source, bpList, sources, scopeData>>
    BY <1>2 DEF OnStack, shown
  <2>2. QED
    BY <2>1, RefreshOver DEF PageTyped
<1>3. CASE m.ok
  <2> PICK f : f = fileOf[m.stop]
    OBVIOUS
  <2>1. /\ got' = [got EXCEPT ![r] = m.stop] /\ stop' = m.stop /\ f \in Files
        /\ UNCHANGED <<left, data, scopeData, cache, bpList>>
        /\ \/ /\ f \in cache /\ source' = m.stop /\ Number({r}) /\ UNCHANGED fetches
           \/ /\ f \notin cache /\ fetches' = [fetches EXCEPT ![f] = 1] /\ Goes(r, "source")
              /\ UNCHANGED <<source, mine, refreshSeq, up>>
    BY <1>1, <1>3 DEF OnStack
  <2>2. mine[r] = 0
    BY DEF Held
  <2>3. /\ got'[r] = m.stop /\ \A q \in Refreshes : q # r => got'[q] = got[q]
        /\ got' \in [Refreshes -> 0 .. stops]
    BY <1>1, <2>1 DEF PageTyped
  <2>4. CASE /\ f \in cache /\ source' = m.stop /\ Number({r}) /\ UNCHANGED fetches
    <3>1. /\ mine' \in [Refreshes -> 0 .. MaxRefreshes]
          /\ refreshSeq' = Cardinality({q \in Refreshes : mine'[q] > 0})
          /\ \A q \in Refreshes \ {r} : mine'[q] = mine[q]
      BY <2>2, <2>4, NumberGives
    <3>2. PICK s \in Seq(Asks) :
            /\ up' = up \o s
            /\ \A q \in Asks : Hits(s, {q}) = IF q.of \in {r} /\ q.what = "scopes" THEN 1 ELSE 0
      BY <2>4, NumberAsks
    <3>3. \A q \in Asks : q.of \in {r} /\ q.what = "scopes" <=> q = Ask(r, "scopes")
      BY AskFacts
    <3>4. at' = [at EXCEPT ![r] = "scopes"] /\ "scopes" \in Places
      BY <2>4 DEF Number, PageTyped, Places
    <3>5. Counts'
      BY <1>1, <3>2, <3>3, <3>4, OneMoves DEF Frame
    <3>6. PageTyped'
      BY <1>1, <2>1, <2>3, <2>4, <3>1, <3>4 DEF PageTyped, Frame, target
    <3>7. /\ at'[r] = "scopes" /\ \A q \in Refreshes : q # r => at'[q] = at[q]
          /\ fetches' = fetches /\ fileOf' = fileOf /\ page' = page
      BY <2>4, <3>4 DEF PageTyped, Frame, target
    <3>8. ASSUME NEW q \in Refreshes
          PROVE  /\ at'[q] \in {"none", "stack", "source"} => mine'[q] = 0
                 /\ at'[q] \in {"source", "scopes", "variables"} => got'[q] > 0
                 /\ at'[q] = "source" => fetches'[fileOf'[got'[q]]] = 1
      <4>1. CASE q = r
        BY <1>1, <1>3, <2>3, <3>7, <4>1
      <4>2. CASE q # r
        <5>1. at'[q] = at[q] /\ got'[q] = got[q] /\ mine'[q] = mine[q]
          BY <2>3, <3>1, <3>7, <4>2
        <5>2. QED
          BY <3>7, <5>1 DEF Held
      <4>3. QED
        BY <4>1, <4>2
    <3>9. Held'
      BY <1>1, <3>7, <3>8 DEF Held
    <3>10. QED
      BY <2>1, <3>2, <3>5, <3>6, <3>9 DEF Went
  <2>5. CASE /\ f \notin cache /\ fetches' = [fetches EXCEPT ![f] = 1] /\ Goes(r, "source")
             /\ UNCHANGED <<source, mine, refreshSeq, up>>
    <3>1. at' = [at EXCEPT ![r] = "source"] /\ "source" \in Places /\ "source" \notin Whats
      BY <2>5 DEF Goes, Places, Whats
    <3> PICK s : s = <<>>
      OBVIOUS
    <3>2. s \in Seq(Asks) /\ up' = up \o s /\ \A q \in Asks : Hits(s, {q}) = IF q = Ask(r, "source") THEN 1 ELSE 0
      BY <2>5, <3>1, AsksNothing
    <3>3. Counts'
      BY <1>1, <3>1, <3>2, OneMoves DEF Frame
    <3>4. PageTyped'
      BY <1>1, <2>1, <2>3, <2>5, <3>1 DEF PageTyped, Frame, target
    <3>5. fetches'[f] = 1 /\ \A g \in Files : fetches[g] = 1 => fetches'[g] = 1
      BY <2>1, <2>5 DEF PageTyped
    <3>6. \A q \in Refreshes : got[q] > 0 => fileOf[got[q]] \in Files
      <4>1. \A q \in Refreshes : got[q] \in 0 .. stops /\ stops \in 0 .. MaxStops
        BY DEF PageTyped, ServerTyped
      <4>2. \A q \in Refreshes : got[q] > 0 => got[q] \in 1 .. MaxStops
        BY <4>1, Bounds
      <4>3. QED
        BY <4>2 DEF ServerTyped, Stops
    <3>7. /\ at'[r] = "source" /\ \A q \in Refreshes : q # r => at'[q] = at[q]
          /\ mine' = mine /\ fileOf' = fileOf /\ page' = page
      BY <2>5, <3>1 DEF PageTyped, Frame, target
    <3>8. ASSUME NEW q \in Refreshes
          PROVE  /\ at'[q] \in {"none", "stack", "source"} => mine'[q] = 0
                 /\ at'[q] \in {"source", "scopes", "variables"} => got'[q] > 0
                 /\ at'[q] = "source" => fetches'[fileOf'[got'[q]]] = 1
      <4>1. CASE q = r
        BY <1>1, <1>3, <2>2, <2>3, <3>5, <3>7, <4>1
      <4>2. CASE q # r
        <5>1. at'[q] = at[q] /\ got'[q] = got[q]
          BY <2>3, <3>7, <4>2
        <5>2. QED
          BY <3>5, <3>6, <3>7, <5>1 DEF Held
      <4>3. QED
        BY <4>1, <4>2
    <3>9. Held'
      BY <1>1, <3>7, <3>8 DEF Held
    <3>10. QED
      BY <2>1, <3>2, <3>3, <3>4, <3>9 DEF Went
  <2>6. QED
    BY <2>1, <2>4, <2>5
<1>4. QED
  BY <1>2, <1>3

\* The variables of one scope more are asked for.
LEMMA AsksVariables ==
  ASSUME PageTyped, ServerTyped, Spoken, Counts, Held, NEW m, Frame(m), m.what = "answer",
         NEW r \in Refreshes, m.to.of = r, at[r] \in {"scopes", "variables"},
         at' = [at EXCEPT ![r] = "variables"], up' = Append(up, Ask(r, "variables")),
         left' \in [Refreshes -> 0 .. Scopes], data' \in [Refreshes -> SUBSET (0 .. stops)],
         UNCHANGED <<got, mine, refreshSeq, shown, bpList, sources>>
  PROVE  Went
<1>1. m \in Messages /\ page = "open"
  BY FrameFacts
<1>2. "variables" \in Places
  BY DEF Places
<1> PICK s : s = <<Ask(r, "variables")>>
  OBVIOUS
<1>3. s \in Seq(Asks) /\ \A q \in Asks : Hits(s, {q}) = IF q = Ask(r, "variables") THEN 1 ELSE 0
  BY OneAsk DEF Whats
<1>4. up' = up \o s
  BY <1>3 DEF Spoken
<1>5. Counts'
  <2>1. down # <<>> /\ down' = Tail(down) /\ asked' = asked /\ m = Head(down)
    BY DEF Frame
  <2>2. QED
    BY <1>1, <1>2, <1>3, <1>4, <2>1, OneMoves
<1>6. PageTyped'
  BY <1>2 DEF PageTyped, shown, sources, Frame, target
<1>7. Held'
  BY <1>1 DEF Held, PageTyped, sources, Frame, target
<1>8. QED
  BY <1>3, <1>4, <1>5, <1>6, <1>7 DEF Went

LEMMA ScopesGo ==
  ASSUME PageTyped, ServerTyped, Spoken, Counts, Held, NEW m, Frame(m), m.what = "answer",
         NEW r \in Refreshes, m.to.of = r, at[r] = "scopes", OnScopes(r, m)
  PROVE  Went
<1>1. CASE /\ ~m.ok /\ Goes(r, "over")
           /\ UNCHANGED <<got, mine, left, data, refreshSeq, shown, up, bpList, sources>>
  BY <1>1, RefreshOver DEF PageTyped, shown
<1>2. CASE /\ m.ok /\ left' = [left EXCEPT ![r] = Scopes]
           /\ up' = Append(up, Ask(r, "variables")) /\ Goes(r, "variables")
           /\ UNCHANGED <<got, mine, data, refreshSeq, shown, bpList, sources>>
  <2>1. left' \in [Refreshes -> 0 .. Scopes] /\ data' \in [Refreshes -> SUBSET (0 .. stops)]
    BY <1>2, Bounds DEF PageTyped
  <2>2. QED
    BY <1>2, <2>1, AsksVariables DEF Goes
<1>3. QED
  BY <1>1, <1>2 DEF OnScopes

LEMMA VariablesGo ==
  ASSUME PageTyped, ServerTyped, Spoken, Counts, Held, NEW m, Frame(m), m.what = "answer",
         NEW r \in Refreshes, m.to.of = r, at[r] = "variables", OnVariables(r, m)
  PROVE  Went
<1> PICK d : d = IF m.ok THEN {m.stop} ELSE {0}
  OBVIOUS
<1>1. d \in SUBSET (0 .. stops) /\ data[r] \in SUBSET (0 .. stops) /\ got[r] \in 0 .. stops
  <2>1. stops \in Nat /\ m.stop \in 0 .. stops
    BY FrameFacts, Bounds DEF ServerTyped
  <2>2. QED
    BY <2>1 DEF PageTyped
<1>2. CASE left[r] = 1 /\ Collected(r, d)
  <2>1. [of |-> got[r], from |-> data[r] \cup d] \in [of : 0 .. stops, from : SUBSET (0 .. stops)]
    BY <1>1
  <2>2. scopeData' \in [of : 0 .. stops, from : SUBSET (0 .. stops)]
    BY <1>2, <2>1 DEF Collected, PageTyped
  <2>3. QED
    BY <1>2, <2>2, RefreshOver DEF Collected
<1>3. CASE /\ left[r] > 1 /\ left' = [left EXCEPT ![r] = @ - 1]
           /\ data' = [data EXCEPT ![r] = @ \cup d]
           /\ up' = Append(up, Ask(r, "variables"))
           /\ UNCHANGED <<at, got, mine, refreshSeq, shown, bpList, sources>>
  <2>1. left[r] \in 0 .. Scopes
    BY DEF PageTyped
  <2>2. left[r] - 1 \in 0 .. Scopes
    BY <1>3, <2>1, Bounds
  <2>3. left' \in [Refreshes -> 0 .. Scopes]
    BY <1>3, <2>2 DEF PageTyped
  <2>4. data' \in [Refreshes -> SUBSET (0 .. stops)]
    BY <1>1, <1>3 DEF PageTyped
  <2>5. at' = [at EXCEPT ![r] = "variables"]
    BY <1>3 DEF PageTyped
  <2>6. QED
    BY <1>3, <2>3, <2>4, <2>5, AsksVariables
<1>4. QED
  BY <1>2, <1>3 DEF OnVariables

LEMMA BeginGoes ==
  ASSUME PageTyped, ServerTyped, Spoken, Counts, Held, NEW m, Frame(m), Begins(m)
  PROVE  Went
<1>1. m \in Messages /\ page = "open"
  BY FrameFacts
<1>2. Counts'
  BY <1>1, Begun DEF Frame
<1> PICK r : r = NextRefresh
  OBVIOUS
<1>3. /\ r \in Refreshes /\ at[r] = "none" /\ up' = Append(up, Ask(r, "stack"))
      /\ at' = [at EXCEPT ![r] = "stack", ![Query] = QueryAfter(m)]
      /\ UNCHANGED <<got, mine, left, data, refreshSeq, shown, sources, bpList>>
  BY BeginsHow
<1>4. <<Ask(r, "stack")>> \in Seq(Asks) /\ up' = up \o <<Ask(r, "stack")>>
  <2>1. <<Ask(r, "stack")>> \in Seq(Asks)
    BY <1>3, OneAsk DEF Whats
  <2>2. QED
    BY <1>3, <2>1 DEF Spoken
<1>5. PageTyped'
  <2>1. QueryAfter(m) \in Places
    BY DEF QueryAfter, PageTyped, Places
  <2>2. at' \in [Refreshes \cup {Query} -> Places]
    BY <1>3, <2>1 DEF PageTyped, Places
  <2>3. QED
    BY <1>3, <2>2 DEF PageTyped, shown, sources, Frame, target
<1>6. Held'
  BY <1>1, <1>3, Bounds DEF Held, PageTyped, sources, Frame, target
<1>7. QED
  BY <1>2, <1>3, <1>4, <1>5, <1>6 DEF Went

\* The query is answered without a stack, or too late.
LEMMA QueryOver ==
  ASSUME PageTyped, ServerTyped, Spoken, Counts, Held, NEW m, Frame(m), m.what = "answer",
         m.to.of = Query, Goes(Query, "over"),
         UNCHANGED <<got, mine, left, data, refreshSeq, shown, sources, up, bpList>>
  PROVE  Went
<1>1. m \in Messages /\ page = "open" /\ m.to \in Asks
  BY FrameFacts, MessageFacts
<1>2. <<>> \in Seq(Asks) /\ up' = up \o <<>> /\ \A q \in Asks : Hits(<<>>, {q}) = 0
  BY HitsNone DEF Spoken
<1> PICK s : s = <<>>
  OBVIOUS
<1>3. \A q \in Asks :
        /\ OnItsWay(q) \in Nat /\ OnItsWay(q)' \in Nat
        /\ OnItsWay(q)' + (IF q = m.to THEN 1 ELSE 0) = OnItsWay(q)
        /\ q = m.to => OnItsWay(q) > 0
  <2> TAKE q \in Asks
  <2>1. Head(down) \in AnswersTo(q) <=> q = m.to
    BY <1>1, MessageFacts DEF Frame
  <2>2. s \in Seq(Asks) /\ up' = up \o s /\ Hits(s, {q}) = 0
    BY <1>2
  <2>3. /\ OnItsWay(q) \in Nat /\ OnItsWay(q)' \in Nat
        /\ OnItsWay(q)' + (IF Head(down) \in AnswersTo(q) THEN 1 ELSE 0) = OnItsWay(q) + Hits(s, {q})
        /\ Head(down) \in AnswersTo(q) => OnItsWay(q) > 0
    BY <2>2, PageCount DEF Frame
  <2>4. QED
    BY <2>1, <2>2, <2>3
<1>4. m.to = Ask(Query, "stack")
  <2>1. m.to = Ask(Query, m.to.what) /\ m.to.what \in Whats /\ OnItsWay(m.to) > 0
    BY <1>1, <1>3, AskFacts
  <2>2. QED
    BY <2>1 DEF Counts, Whats
<1>5. at' = [at EXCEPT ![Query] = "over"]
  BY DEF Goes
<1>6. at'[Query] = "over" /\ \A r \in Refreshes : at'[r] = at[r]
  BY <1>5, Bounds DEF PageTyped
<1>7. \A r \in Refreshes : \A what \in Whats :
        OnItsWay(Ask(r, what))' = IF at'[r] = what THEN 1 ELSE 0
  <2> TAKE r \in Refreshes
  <2> TAKE what \in Whats
  <2>1. Ask(r, what) \in Asks /\ Ask(r, what) # m.to
    BY <1>4, AskFacts, Bounds
  <2>2. OnItsWay(Ask(r, what))' = OnItsWay(Ask(r, what))
    BY <1>3, <2>1
  <2>3. QED
    BY <1>6, <2>2 DEF Counts
<1>8. \A what \in {"scopes", "variables"} : OnItsWay(Ask(Query, what))' = 0
  <2> TAKE what \in {"scopes", "variables"}
  <2>1. Ask(Query, what) \in Asks /\ Ask(Query, what) # m.to
    BY <1>4, AskFacts DEF Whats
  <2>2. OnItsWay(Ask(Query, what))' = OnItsWay(Ask(Query, what))
    BY <1>3, <2>1
  <2>3. QED
    BY <2>2 DEF Counts
<1>9. OnItsWay(Ask(Query, "stack"))' \in {0, 1}
  <2>1. OnItsWay(Ask(Query, "stack"))' \in Nat /\ OnItsWay(Ask(Query, "stack"))' + 1 = OnItsWay(Ask(Query, "stack"))
    BY <1>1, <1>3, <1>4
  <2>2. QED
    BY <2>1 DEF Counts
<1>10. Counts'
  BY <1>6, <1>7, <1>8, <1>9 DEF Counts
<1>11. PageTyped'
  BY <1>5 DEF PageTyped, shown, sources, Frame, target, Places
<1>12. Held'
  BY <1>1, <1>5, <1>6 DEF Held, PageTyped, sources, Frame, target
<1>13. QED
  BY <1>2, <1>10, <1>11, <1>12 DEF Went

\* The table that was sent is shown in the gutter.
LEMMA TableTaken ==
  ASSUME ServerTyped, Talk, down # <<>>, down' = Tail(down), up' = up,
         UNCHANGED <<page, commands, points, interpreter, target, asked>>,
         NEW m \in Messages, m = Head(down), m.what = "breakpoints", bpList' = m.table
  PROVE  Talk'
<1> USE DEF Talk
<1>1. up \in Seq(Asks \cup Commands) /\ down \in Seq(Messages) /\ Tail(down) \in Seq(Messages)
  BY DEF Spoken
<1>2. /\ \A i \in DOMAIN Tail(down) : i + 1 \in DOMAIN down /\ Tail(down)[i] = down[i + 1]
      /\ DOMAIN Tail(down) = 1 .. Len(down) - 1
      /\ 1 \in DOMAIN down /\ m = down[1]
      /\ DOMAIN down = 1 .. Len(down) /\ Len(down) \in Nat
  BY <1>1, Behind
<1>3. \A j \in DOMAIN down : j # 1 => j - 1 \in DOMAIN Tail(down) /\ Tail(down)[j - 1] = down[j]
  BY <1>2
<1>4. m.table \in Labelling
  BY MessageFacts
<1>5. Spoken'
  <2>1. \A i \in DOMAIN down' : down'[i].what = "answer" => /\ down'[i].stop <= stops
                                                            /\ down'[i].ok => down'[i].stop > 0
    BY <1>2 DEF Spoken
  <2>2. page' = "open"
    BY DEF Spoken, ServerTyped
  <2>3. QED
    BY <1>1, <1>4, <2>1, <2>2 DEF Spoken, target
<1>6. Labelled'
  <2>1. \A b : StillTrue(b)' <=> StillTrue(b)
    BY DEF StillTrue, points
  <2>2. \A b \in bpList' : StillTrue(b)'
    BY <1>2, <2>1 DEF Labelled
  <2>3. \A i \in DOMAIN down' : down'[i].what = "breakpoints" => \A b \in down'[i].table : StillTrue(b)'
    BY <1>2, <2>1 DEF Labelled
  <2>4. \A i \in DOMAIN up : up[i].what = "delete" => up[i].num > 0 /\ StillTrue(up[i])
    BY DEF Labelled
  <2>5. \A i \in DOMAIN up' : up'[i].what = "delete" => up'[i].num > 0 /\ StillTrue(up[i])'
    BY <2>4 DEF StillTrue, points
  <2>6. QED
    BY <2>2, <2>3, <2>5 DEF Labelled
<1>7. Followed'
  <2> SUFFICES ASSUME page' = "open", adopting' \notin {"resumed", "report", "failed"},
                      \A i \in DOMAIN up' : up'[i].what # "empty"
               PROVE  /\ \A i \in DOMAIN down' : LastTable(i)' => down'[i].table = Labels(table, lineOf)
                      /\ (\A i \in DOMAIN down' : ~IsTable(i)') => bpList' = Labels(table, lineOf)
    BY DEF Followed, points
  <2>1. \A i \in DOMAIN down : LastTable(i) => down[i].table = Labels(table, lineOf)
    BY DEF Followed, interpreter
  <2>2. \A j \in DOMAIN down : IsTable(j) => j = 1 \/ (j - 1 \in DOMAIN down' /\ IsTable(j - 1)')
    BY <1>3 DEF IsTable
  <2>3. ASSUME NEW i \in DOMAIN down', LastTable(i)' PROVE down'[i].table = Labels(table, lineOf)
    <3>1. \A j \in DOMAIN down' : j > i => ~IsTable(j)'
      BY <2>3 DEF LastTable
    <3>2. i \in Nat /\ \A j \in DOMAIN down : j \in Nat
      <4>1. \A j \in DOMAIN down : j \in Nat
        BY <1>1, Positions
      <4>2. \A j \in DOMAIN down' : j \in Nat
        BY <1>1, Positions
      <4>3. QED
        BY <2>3, <4>1, <4>2
    <3>3. ASSUME NEW j \in DOMAIN down, j > i + 1, IsTable(j) PROVE FALSE
      <4>1. j \in Nat /\ j > i + 1
        BY <3>2, <3>3
      <4>2. j - 1 > i /\ j # 1
        BY <3>2, <4>1, OneBefore
      <4>3. QED
        BY <2>2, <3>1, <3>3, <4>2
    <3>4. IsTable(i + 1) /\ i + 1 \in DOMAIN down /\ down'[i] = down[i + 1]
      BY <1>2, <2>3 DEF LastTable, IsTable
    <3>5. LastTable(i + 1)
      BY <3>3, <3>4 DEF LastTable
    <3>6. QED
      BY <2>1, <3>4, <3>5
  <2>4. ASSUME \A i \in DOMAIN down' : ~IsTable(i)' PROVE bpList' = Labels(table, lineOf)
    <3>1. \A j \in DOMAIN down : IsTable(j) => j = 1
      BY <2>2, <2>4
    <3>2. \A j \in DOMAIN down : j > 1 => j # 1
      BY <1>1, Positions, OneBefore
    <3>3. LastTable(1)
      BY <1>2, <3>1, <3>2 DEF LastTable, IsTable
    <3>4. QED
      BY <1>2, <2>1, <3>3
  <2>5. QED
    BY <2>3, <2>4
<1>8. Numbered'
  BY DEF Numbered, points, interpreter
<1>9. QED
  BY <1>5, <1>6, <1>7, <1>8

LEMMA OnFrameKeeps ==
  ASSUME IInv, OnFrame
  PROVE  IInv'
<1>1. PageTyped /\ ServerTyped /\ Talk /\ Spoken /\ Counts /\ Held
  BY Parts DEF Talk
<1> PICK m : m = Head(down)
  OBVIOUS
<1>2. /\ Frame(m)
      /\ \/ m.what = "answer" /\ OnAnswer(m)
         \/ m.what = "stopped" /\ Begin(at)
         \/ /\ m.what = "breakpoints" /\ bpList' = m.table
            /\ UNCHANGED <<refreshing, shown, sources, up>>
         \/ m.what = "terminated" /\ UNCHANGED <<refreshing, shown, sources, up, bpList>>
  BY DEF OnFrame, Frame
<1>3. m \in Messages /\ page = "open"
  BY <1>1, <1>2, FrameFacts
<1>4. ServerTyped'
  BY <1>1, <1>2 DEF Frame, ServerTyped, points, interpreter, target
<1>5. ASSUME Went, m.what # "breakpoints" PROVE IInv'
  <2>1. PICK s \in Seq(Asks) : up' = up \o s
    BY <1>5 DEF Went
  <2>2. Talk'
    BY <1>1, <1>2, <1>3, <1>5, <2>1, PageTalks DEF Frame, Went
  <2>3. QED
    BY <1>4, <1>5, <2>2, PartsNext DEF Went
<1>6. CASE m.what = "answer" /\ OnAnswer(m)
  <2> PICK r : r = m.to.of
    OBVIOUS
  <2>1. r \in Refreshes \cup {Query}
    BY <1>3, <1>6, MessageFacts, AskFacts
  <2>2. CASE r = Query /\ at[Query] = "stack" /\ m.ok /\ Begin([at EXCEPT ![Query] = "over"])
    <3>1. Begins(m)
      BY <1>6, <2>2 DEF Begin, Begins
    <3>2. QED
      BY <1>1, <1>2, <1>5, <1>6, <3>1, BeginGoes
  <2>3. CASE /\ r = Query /\ Goes(Query, "over")
             /\ UNCHANGED <<got, mine, left, data, refreshSeq, shown, sources, up, bpList>>
    BY <1>1, <1>2, <1>5, <1>6, <2>3, QueryOver
  <2>4. CASE r # Query /\ at[r] = "stack" /\ OnStack(r, m)
    BY <1>1, <1>2, <1>5, <1>6, <2>1, <2>4, StackGoes
  <2>5. CASE r # Query /\ at[r] = "scopes" /\ OnScopes(r, m)
    BY <1>1, <1>2, <1>5, <1>6, <2>1, <2>5, ScopesGo
  <2>6. CASE r # Query /\ at[r] = "variables" /\ OnVariables(r, m)
    BY <1>1, <1>2, <1>5, <1>6, <2>1, <2>6, VariablesGo
  <2>7. QED
    BY <1>6, <2>2, <2>3, <2>4, <2>5, <2>6 DEF OnAnswer
<1>7. CASE m.what = "stopped" /\ Begin(at)
  <2>1. Begins(m)
    BY <1>7 DEF Begin, Begins
  <2>2. QED
    BY <1>1, <1>2, <1>5, <1>7, <2>1, BeginGoes
<1>8. ASSUME m.what \in {"breakpoints", "terminated"}, UNCHANGED <<refreshing, shown, sources, up>>
      PROVE  PageTyped' /\ Counts' /\ Held' /\ <<>> \in Seq(Asks) /\ up' = up \o <<>>
  <2>1. <<>> \in Seq(Asks) /\ up' = up \o <<>>
    BY <1>1, <1>8 DEF Spoken
  <2>2. PageTyped' /\ Held'
    BY <1>1, <1>2, <1>8 DEF PageTyped, Held, refreshing, shown, sources, Frame, target
  <2> PICK s : s = <<>>
    OBVIOUS
  <2>3. ASSUME NEW q \in Asks PROVE OnItsWay(q)' = OnItsWay(q)
    <3>1. Head(down) \notin AnswersTo(q) /\ Hits(s, {q}) = 0
      BY <1>2, <1>3, <1>8, MessageFacts, HitsNone DEF Frame
    <3>2. s \in Seq(Asks) /\ up' = up \o s /\ down # <<>> /\ down' = Tail(down) /\ asked' = asked
      BY <1>2, <2>1 DEF Frame
    <3>3. /\ OnItsWay(q) \in Nat /\ OnItsWay(q)' \in Nat
          /\ OnItsWay(q)' + (IF Head(down) \in AnswersTo(q) THEN 1 ELSE 0) = OnItsWay(q) + Hits(s, {q})
      BY <1>1, <3>2, PageCount
    <3>4. QED
      BY <3>1, <3>3
  <2>4. at' = at
    BY <1>8 DEF refreshing
  <2>5. Counts'
    BY <1>1, <2>3, <2>4, NoneMoves
  <2>6. QED
    BY <2>1, <2>2, <2>5
<1>9. CASE m.what = "terminated" /\ UNCHANGED <<refreshing, shown, sources, up, bpList>>
  <2>1. Went
    BY <1>8, <1>9 DEF Went
  <2>2. QED
    BY <1>5, <1>9, <2>1
<1>10. CASE m.what = "breakpoints" /\ bpList' = m.table /\ UNCHANGED <<refreshing, shown, sources, up>>
  <2>1. PageTyped' /\ Counts' /\ Held'
    BY <1>8, <1>10
  <2>2. Talk'
    BY <1>1, <1>2, <1>3, <1>10, TableTaken DEF Frame
  <2>3. QED
    BY <1>4, <2>1, <2>2, PartsNext
<1>11. QED
  BY <1>2, <1>6, <1>7, <1>9, <1>10

-----------------------------------------------------------------------------
(* What else the page does                                                  *)

LEMMA TalkSame ==
  ASSUME Talk, UNCHANGED <<page, bpList, commands, points, interpreter, target, asked, up, down>>
  PROVE  Talk'
BY DEF Talk, Spoken, Labelled, StillTrue, Followed, LastTable, IsTable, Numbered, points, interpreter, target

LEMMA FetchedKeeps ==
  ASSUME IInv, NEW f \in Files, Fetched(f)
  PROVE  IInv'
<1>1. PageTyped /\ ServerTyped /\ Talk /\ Spoken /\ Counts /\ Held
  BY Parts DEF Talk
<1> PICK W : W = {r \in Refreshes : at[r] = "source" /\ fileOf[got[r]] = f}
  OBVIOUS
<1>2. /\ fetches[f] > 0 /\ fetches' = [fetches EXCEPT ![f] = @ - 1]
      /\ cache' = cache \cup {f} \/ cache' = cache
      /\ Number(W)
      /\ source' = IF W = {} THEN source ELSE got[CHOOSE r \in W : \A q \in W : q <= r]
      /\ UNCHANGED <<page, got, left, data, stop, scopeData, bpList, down, commands, points, interpreter,
                     target, asked>>
  BY DEF Fetched
<1>3. W \subseteq Refreshes /\ \A r \in W : at[r] = "source" /\ mine[r] = 0 /\ got[r] > 0
  BY <1>1 DEF Held
<1>4. ServerTyped'
  BY <1>1, <1>2 DEF ServerTyped, points, interpreter, target
<1>5. Counts'
  BY <1>1, <1>2, <1>3, NumberMoves
<1>6. /\ mine' \in [Refreshes -> 0 .. MaxRefreshes]
      /\ refreshSeq' = Cardinality({r \in Refreshes : mine'[r] > 0})
      /\ \A r \in Refreshes \ W : mine'[r] = mine[r]
  BY <1>1, <1>2, <1>3, NumberGives
<1>7. /\ at' \in [Refreshes \cup {Query} -> Places]
      /\ \A r \in Refreshes \cup {Query} : at'[r] = IF r \in W THEN "scopes" ELSE at[r]
  BY <1>1, <1>2 DEF Number, PageTyped, Places
<1>8. source' \in 0 .. stops
  <2>1. CASE W = {}
    BY <1>1, <1>2, <2>1 DEF PageTyped
  <2>2. CASE W # {}
    <3>1. \E r \in W : \A q \in W : q <= r
      <4>1. IsFiniteSet(W)
        BY <1>3, RefreshesFinite
      <4>2. QED
        BY <1>3, <2>2, GreatestOf
    <3>2. (CHOOSE r \in W : \A q \in W : q <= r) \in W
      BY <3>1
    <3>3. QED
      BY <1>1, <1>2, <1>3, <2>2, <3>2 DEF PageTyped
  <2>3. QED
    BY <2>1, <2>2
<1>9. fetches' \in [Files -> 0 .. 1] /\ \A g \in Files : g # f => fetches'[g] = fetches[g]
  BY <1>1, <1>2 DEF PageTyped
<1>10. PageTyped'
  BY <1>1, <1>2, <1>6, <1>7, <1>8, <1>9 DEF PageTyped, target
<1>11. Held'
  <2>1. ASSUME page' = "closed", NEW r \in DOMAIN at' PROVE at'[r] = "none"
    <3>1. at[r] = "none" /\ r \in Refreshes \cup {Query}
      BY <1>1, <1>2, <1>7, <2>1 DEF Held, PageTyped
    <3>2. r \notin W
      BY <1>3, <3>1
    <3>3. QED
      BY <1>7, <3>1, <3>2
  <2>2. ASSUME NEW r \in Refreshes
        PROVE  /\ at'[r] \in {"none", "stack", "source"} => mine'[r] = 0
               /\ at'[r] \in {"source", "scopes", "variables"} => got'[r] > 0
               /\ at'[r] = "source" => fetches'[fileOf'[got'[r]]] = 1
    <3>1. CASE r \in W
      BY <1>2, <1>3, <1>7, <3>1
    <3>2. CASE r \notin W
      <4>1. at'[r] = at[r] /\ mine'[r] = mine[r] /\ got' = got /\ fileOf' = fileOf
        BY <1>2, <1>6, <1>7, <3>2 DEF target
      <4>2. ASSUME at[r] = "source" PROVE fetches'[fileOf[got[r]]] = 1
        <5>1. got[r] \in 1 .. MaxStops
          <6>1. got[r] \in 0 .. stops /\ stops \in 0 .. MaxStops /\ got[r] > 0
            BY <1>1, <4>2 DEF PageTyped, ServerTyped, Held
          <6>2. QED
            BY <6>1, Bounds
        <5>2. fileOf[got[r]] \in Files /\ fileOf[got[r]] # f
          BY <1>1, <3>2, <4>2, <5>1 DEF ServerTyped, Stops
        <5>3. QED
          BY <1>1, <1>9, <4>2, <5>2 DEF Held
      <4>3. QED
        BY <1>1, <4>1, <4>2 DEF Held
    <3>3. QED
      BY <3>1, <3>2
  <2>3. QED
    BY <2>1, <2>2 DEF Held
<1>12. Talk'
  <2>1. PICK s \in Seq(Asks) :
          /\ up' = up \o s
          /\ \A q \in Asks : Hits(s, {q}) = IF q.of \in W /\ q.what = "scopes" THEN 1 ELSE 0
    BY <1>2, <1>3, NumberAsks
  <2>2. CASE page = "open"
    BY <1>1, <1>2, <2>1, <2>2, PageTalks
  <2>3. CASE page # "open"
    <3>1. page = "closed" /\ W = {}
      BY <1>1, <1>3, <2>3 DEF ServerTyped, Held, PageTyped
    <3>2. \A i \in DOMAIN s : s[i] \in Asks /\ Hits(s, {s[i]}) = 0
      <4>1. \A q \in Asks : Hits(s, {q}) = 0
        BY <2>1, <3>1
      <4>2. \A i \in DOMAIN s : s[i] \in Asks
        OBVIOUS
      <4>3. QED
        BY <4>1, <4>2, Zenon
    <3>3. ~ \E i \in DOMAIN s : s[i] \in Asks
      <4> SUFFICES ASSUME NEW i \in DOMAIN s PROVE FALSE
        OBVIOUS
      <4>1. Hits(s, {s[i]}) > 0
        BY HitsSome
      <4>2. QED
        BY <3>2, <4>1
    <3>4. s = <<>>
      BY <3>2, <3>3
    <3>5. up' = up
      BY <1>1, <2>1, <3>4 DEF Spoken
    <3>6. QED
      BY <1>1, <1>2, <3>5, TalkSame
  <2>4. QED
    BY <2>2, <2>3
<1>13. QED
  BY <1>4, <1>5, <1>10, <1>11, <1>12, PartsNext

LEMMA TimeoutKeeps ==
  ASSUME IInv, Timeout
  PROVE  IInv'
<1>1. PageTyped /\ ServerTyped /\ Talk /\ Counts /\ Held
  BY Parts
<1>2. /\ at[Query] = "stack" /\ at' = [at EXCEPT ![Query] = "over"]
      /\ UNCHANGED <<page, got, mine, left, data, refreshSeq, shown, bpList, sources, up, down, commands, points,
                     interpreter, target, asked>>
  BY DEF Timeout, Goes
<1>3. at'[Query] = "over" /\ \A r \in Refreshes : at'[r] = at[r]
  BY <1>1, <1>2, Bounds DEF PageTyped
<1>4. Talk'
  BY <1>1, <1>2, TalkSame
<1>5. PageTyped' /\ ServerTyped'
  BY <1>1, <1>2 DEF PageTyped, ServerTyped, Places, shown, sources, points, interpreter, target
<1>6. \A q : OnItsWay(q)' = OnItsWay(q)
  BY <1>2 DEF OnItsWay
<1>7. Counts'
  BY <1>1, <1>3, <1>6 DEF Counts
<1>8. page = "open"
  BY <1>1, <1>2 DEF Held, ServerTyped, PageTyped
<1>9. Held'
  BY <1>1, <1>2, <1>3, <1>8 DEF Held, sources, target
<1>10. QED
  BY <1>4, <1>5, <1>7, <1>9, PartsNext

LEMMA OnOpenKeeps ==
  ASSUME IInv, OnOpen
  PROVE  IInv'
<1>1. PageTyped /\ ServerTyped /\ Spoken /\ Labelled /\ Numbered /\ Counts /\ Held
  BY Parts DEF Talk
<1>0. PICK c, a : c = Command("empty", 0, 0) /\ a = Ask(Query, "stack")
  OBVIOUS
<1>2. /\ page = "closed" /\ page' = "open" /\ up' = <<c, a>>
      /\ at' = [at EXCEPT ![Query] = "stack"]
      /\ UNCHANGED <<got, mine, left, data, refreshSeq, shown, bpList, sources, down, commands, points,
                     interpreter, target, asked>>
  BY <1>0 DEF OnOpen, Goes
<1>3. up = <<>> /\ down = <<>> /\ asked = <<>> /\ bpList = {}
  BY <1>1, <1>2 DEF Spoken
<1>4. c \in Commands /\ c.what = "empty" /\ a \in Asks /\ a.what = "stack" /\ c \notin Asks /\ a \notin Breaks /\ c \notin Breaks
  BY <1>0, AskFacts DEF Command, Commands, Ask, Breaks, Whats
<1>5. /\ <<c>> \in Seq(Asks \cup Commands) /\ <<a>> \in Seq(Asks \cup Commands)
      /\ <<c, a>> = <<c>> \o <<a>> /\ <<c, a>> \in Seq(Asks \cup Commands)
      /\ DOMAIN <<c, a>> = 1 .. 2 /\ <<c, a>>[1] = c /\ <<c, a>>[2] = a
  <2>2. c \in Asks \cup Commands /\ a \in Asks \cup Commands
    BY <1>4
  <2>3. QED
    BY <2>2, TwoMessages
<1>6. \A S : Hits(up', S) = (IF c \in S THEN 1 ELSE 0) + (IF a \in S THEN 1 ELSE 0)
  <2> TAKE S
  <2>1. Hits(<<c>> \o <<a>>, S) = Hits(<<c>>, S) + Hits(<<a>>, S)
    BY <1>5, HitsConcat
  <2>2. Hits(<<c>>, S) = (IF c \in S THEN 1 ELSE 0) /\ Hits(<<a>>, S) = (IF a \in S THEN 1 ELSE 0)
    BY HitsOne
  <2>3. Hits(up', S) = Hits(<<c>> \o <<a>>, S)
    BY <1>2, <1>5
  <2>4. QED
    BY <2>1, <2>2, <2>3
<1>7. \A q \in Asks : OnItsWay(q)' = IF q = a THEN 1 ELSE 0
  <2> TAKE q \in Asks
  <2>1. OnItsWay(q)' = Hits(up', {q}) + Hits(<<>>, {q}) + Hits(<<>>, AnswersTo(q))
    BY <1>2, <1>3 DEF OnItsWay
  <2>2. Hits(<<>>, {q}) = 0 /\ Hits(<<>>, AnswersTo(q)) = 0
    BY HitsNone
  <2>3. Hits(up', {q}) = IF q = a THEN 1 ELSE 0
    BY <1>4, <1>6
  <2>4. QED
    BY <2>1, <2>2, <2>3
<1>8. /\ \A r \in Refreshes : at'[r] = "none" /\ at[r] = "none"
      /\ at'[Query] = "stack"
  BY <1>1, <1>2, Bounds DEF Held, PageTyped
<1>9. Counts'
  <2>1. \A r \in Refreshes : \A w \in Whats : OnItsWay(Ask(r, w))' = 0
    <3> TAKE r \in Refreshes
    <3> TAKE w \in Whats
    <3>1. Ask(r, w) \in Asks /\ Ask(r, w) # a
      BY <1>0, AskFacts, Bounds
    <3>2. QED
      BY <1>7, <3>1
  <2>2. \A w \in {"scopes", "variables"} : OnItsWay(Ask(Query, w))' = 0
    <3> TAKE w \in {"scopes", "variables"}
    <3>1. Ask(Query, w) \in Asks /\ Ask(Query, w) # a
      BY <1>0, AskFacts DEF Whats
    <3>2. QED
      BY <1>7, <3>1
  <2>3. OnItsWay(Ask(Query, "stack"))' = 1
    BY <1>0, <1>4, <1>7
  <2>4. QED
    BY <1>8, <2>1, <2>2, <2>3 DEF Counts, Whats
<1>10. Held'
  BY <1>1, <1>2, <1>8 DEF Held
<1>11. PageTyped' /\ ServerTyped'
  BY <1>1, <1>2 DEF PageTyped, ServerTyped, Places, shown, sources, points, interpreter, target
<1>12. Spoken'
  <2>1. \A i \in DOMAIN up' : up'[i].what = "break" => up'[i].line \in Lines
    BY <1>2, <1>4, <1>5
  <2>2. up' \in Seq(Asks \cup Commands)
    BY <1>2, <1>5
  <2>3. QED
    BY <1>1, <1>2, <1>3, <2>1, <2>2 DEF Spoken, target
<1>13. Labelled'
  <2>1. \A i \in DOMAIN up' : up'[i].what # "delete"
    BY <1>2, <1>4, <1>5
  <2>2. bpList' = {} /\ DOMAIN down' = {}
    BY <1>2, <1>3
  <2>3. QED
    BY <2>1, <2>2 DEF Labelled
<1>14. Followed'
  <2>1. 1 \in DOMAIN up' /\ up'[1].what = "empty"
    BY <1>2, <1>4, <1>5
  <2>2. QED
    BY <2>1 DEF Followed
<1>15. Numbered'
  <2>1. Hits(up', Breaks) = 0 /\ Hits(up, Breaks) = 0
    BY <1>3, <1>4, <1>6, HitsNone
  <2>2. QED
    BY <1>1, <1>2, <2>1 DEF Numbered, points, interpreter
<1>16. QED
  BY <1>9, <1>10, <1>11, <1>12, <1>13, <1>14, <1>15, PartsNext DEF Talk

\* A command of the page: a breakpoint of a line, or the deletion of one by number.
LEMMA SendsKeeps ==
  ASSUME IInv, NEW c \in Commands, Sends(c), c.what \in {"break", "delete", "continue"},
         c.what = "break" => c.line \in Lines,
         c.what = "delete" => c.num > 0 /\ StillTrue(c)
  PROVE  IInv'
<1>1. PageTyped /\ ServerTyped /\ Spoken /\ Labelled /\ Followed /\ Numbered /\ Counts /\ Held
  BY Parts DEF Talk
<1>2. /\ page = "open" /\ commands < MaxCommands /\ commands' = commands + 1 /\ up' = Append(up, c)
      /\ UNCHANGED <<page, refreshing, shown, bpList, sources, down, points, interpreter, target, asked>>
  BY DEF Sends
<1>0. up \in Seq(Asks \cup Commands) /\ c \in Asks \cup Commands
  BY <1>1 DEF Spoken
<1>00. Append(up, c) \in Seq(Asks \cup Commands)
  BY <1>0
<1> PICK u \in Seq(Asks \cup Commands) : u = Append(up, c)
  BY <1>00
<1>3. up \in Seq(Asks \cup Commands) /\ up' = u
  BY <1>1, <1>2 DEF Spoken
<1>4. /\ \A i \in DOMAIN u : (i \in DOMAIN up /\ u[i] = up[i]) \/ u[i] = c
      /\ \A i \in DOMAIN up : i \in DOMAIN u /\ u[i] = up[i]
  BY <1>3
<1>5. \A S : Hits(u, S) = Hits(up, S) + (IF c \in S THEN 1 ELSE 0) /\ Hits(up, S) \in Nat
  BY <1>3, HitsAppend, HitsType
<1>6. ASSUME NEW q \in Asks PROVE OnItsWay(q)' = OnItsWay(q)
  <2>1. c \notin {q}
    BY <1>6, AskFacts
  <2>2. Hits(u, {q}) = Hits(up, {q})
    BY <1>5, <2>1
  <2>3. QED
    BY <1>2, <1>3, <2>2 DEF OnItsWay
<1>7. Counts'
  <2>1. at' = at
    BY <1>2 DEF refreshing
  <2>2. QED
    BY <1>1, <1>6, <2>1, NoneMoves
<1>8. Held' /\ PageTyped'
  BY <1>1, <1>2 DEF Held, PageTyped, refreshing, shown, sources, target
<1>9. ServerTyped'
  <2>1. commands' \in 0 .. MaxCommands
    BY <1>1, <1>2, Bounds DEF ServerTyped
  <2>2. QED
    BY <1>1, <1>2, <2>1 DEF ServerTyped, points, interpreter, target
<1>10. Spoken'
  <2>1. \A i \in DOMAIN u : u[i].what = "break" => u[i].line \in Lines
    BY <1>1, <1>4 DEF Spoken
  <2>2. QED
    BY <1>1, <1>2, <1>3, <2>1 DEF Spoken, target
<1>11. Labelled'
  <2>1. \A i \in DOMAIN u : u[i].what = "delete" => u[i].num > 0 /\ StillTrue(u[i])
    BY <1>1, <1>4 DEF Labelled
  <2>2. QED
    BY <1>1, <1>2, <1>3, <2>1 DEF Labelled, StillTrue, points
<1>12. Followed'
  <2>1. (\A i \in DOMAIN u : u[i].what # "empty") => \A i \in DOMAIN up : up[i].what # "empty"
    BY <1>4
  <2>2. QED
    BY <1>1, <1>2, <1>3, <2>1 DEF Followed, LastTable, IsTable, points, interpreter
<1>13. Numbered'
  <2>1. /\ Hits(u, Breaks) <= Hits(up, Breaks) + 1 /\ Hits(u, Breaks) \in Nat /\ Hits(up, Breaks) \in Nat
    BY <1>5
  <2>2. /\ commands' = commands + 1 /\ nextBpNum' = nextBpNum /\ lineOf' = lineOf /\ adopting' = adopting
        /\ commands \in Nat /\ nextBpNum \in Nat
    BY <1>1, <1>2 DEF points, interpreter, ServerTyped, Numbered
  <2>3. nextBpNum + Hits(up, Breaks) <= commands + (IF adopting \in {"entry", "stopped"} THEN 1 ELSE 2)
    BY <1>1 DEF Numbered
  <2>4. nextBpNum + Hits(u, Breaks) <= commands + 1 + (IF adopting \in {"entry", "stopped"} THEN 1 ELSE 2)
    BY <2>1, <2>2, <2>3
  <2>5. QED
    BY <1>1, <1>3, <2>2, <2>4 DEF Numbered
<1>14. QED
  BY <1>7, <1>8, <1>9, <1>10, <1>11, <1>12, <1>13, PartsNext DEF Talk

LEMMA ToggleKeeps ==
  ASSUME IInv, NEW l \in Lines, Toggle(l)
  PROVE  IInv'
<1> PICK here : here = {b \in bpList : b.line = l}
  OBVIOUS
<1>1. Spoken /\ Labelled
  BY Parts DEF Talk
<1>2. CASE here = {} /\ Sends(Command("break", l, 0))
  <2>1. /\ Command("break", l, 0) \in Commands /\ Command("break", l, 0).what = "break"
        /\ Command("break", l, 0).line = l
    BY DEF Command, Commands
  <2> PICK c : c = Command("break", l, 0)
    OBVIOUS
  <2>2. c \in Commands /\ c.what = "break" /\ c.line = l /\ Sends(c)
    BY <1>2, <2>1
  <2>3. QED
    BY <2>2, SendsKeeps
<1>3. CASE here # {} /\ Sends(Command("delete", l, (CHOOSE b \in here : \A c \in here : b.num <= c.num).num))
  <2> DEFINE N == {b.num : b \in here}
  <2>1. \A b \in here : b \in bpList /\ b.line = l /\ b.num \in Nums /\ StillTrue(b)
    BY <1>1 DEF Spoken, Labelled, Labelling
  <2>2. N \subseteq Nat /\ N # {}
    BY <1>3, <2>1, Bounds DEF Nums
  <2>3. PICK k \in N : \A m \in N : k <= m
    <3> HIDE DEF N
    <3>1. QED
      BY <2>2, LeastOf
  <2>4. \E b \in here : \A c \in here : b.num <= c.num
    BY <2>3
  <2> PICK d : d = CHOOSE b \in here : \A c \in here : b.num <= c.num
    OBVIOUS
  <2>5. d \in here
    BY <2>4
  <2> PICK c : c = Command("delete", l, d.num)
    OBVIOUS
  <2>6. d.num \in Nums /\ d.num > 0 /\ StillTrue(d) /\ d.line = l
    BY <2>1, <2>5, Bounds DEF Nums
  <2>7. c \in Commands /\ c.what = "delete" /\ c.num = d.num /\ c.line = l
    BY <2>6 DEF Command, Commands
  <2>8. StillTrue(c)
    BY <2>6, <2>7 DEF StillTrue
  <2>9. Sends(c)
    BY <1>3
  <2>10. QED
    BY <2>6, <2>7, <2>8, <2>9, SendsKeeps
<1>4. QED
  BY <1>2, <1>3 DEF Toggle

LEMMA ResumeKeeps ==
  ASSUME IInv, Resume
  PROVE  IInv'
<1>1. Command("continue", 0, 0) \in Commands /\ Command("continue", 0, 0).what = "continue"
  BY DEF Command, Commands
<1> PICK c : c = Command("continue", 0, 0)
  OBVIOUS
<1>2. QED
  BY <1>1, SendsKeeps DEF Resume

-----------------------------------------------------------------------------
(* The server and the engine: what the page is sent                         *)

Sent(msgs) == down' = IF page = "open" THEN down \o msgs ELSE down

\* Every message of the longer queue was there or was sent.
LEMMA SentMessages ==
  ASSUME Spoken, NEW msgs \in Seq(Messages), Sent(msgs)
  PROVE  /\ down' \in Seq(Messages)
         /\ \A i \in DOMAIN down : i \in DOMAIN down' /\ down'[i] = down[i]
         /\ \A i \in DOMAIN down' : \/ i \in DOMAIN down
                                    \/ page = "open" /\ \E k \in DOMAIN msgs : down'[i] = msgs[k]
<1>1. down \in Seq(Messages)
  BY DEF Spoken
<1>0. down \o msgs \in Seq(Messages)
  BY <1>1
<1> PICK d \in Seq(Messages) : d = down \o msgs
  BY <1>0
<1>2. /\ \A i \in DOMAIN down : i \in DOMAIN d /\ d[i] = down[i]
      /\ \A i \in DOMAIN d : i \in DOMAIN down \/ \E k \in DOMAIN msgs : d[i] = msgs[k]
  <2>1. /\ DOMAIN down = 1 .. Len(down) /\ Len(down) \in Nat /\ DOMAIN msgs = 1 .. Len(msgs) /\ Len(msgs) \in Nat
        /\ DOMAIN d = 1 .. Len(down) + Len(msgs)
        /\ \A i \in DOMAIN down : d[i] = down[i]
        /\ \A i \in DOMAIN d : i > Len(down) => d[i] = msgs[i - Len(down)]
    BY <1>1
  <2>2. \A i \in DOMAIN d : i > Len(down) => i - Len(down) \in DOMAIN msgs
    BY <2>1
  <2>3. \A i \in DOMAIN d : ~(i > Len(down)) => i \in DOMAIN down
    BY <2>1
  <2>4. \A i \in DOMAIN down : i \in DOMAIN d
    BY <2>1
  <2>5. QED
    BY <2>1, <2>2, <2>3, <2>4
<1>3. CASE page = "open"
  BY <1>2, <1>3 DEF Sent
<1>4. CASE page # "open"
  BY <1>1, <1>4 DEF Sent
<1>5. QED
  BY <1>3, <1>4

LEMMA SentCount ==
  ASSUME Spoken, NEW msgs \in Seq(Messages), Sent(msgs), NEW q
  PROVE  /\ Hits(down', AnswersTo(q)) =
              Hits(down, AnswersTo(q)) + (IF page = "open" THEN Hits(msgs, AnswersTo(q)) ELSE 0)
         /\ Hits(down, AnswersTo(q)) \in Nat /\ Hits(msgs, AnswersTo(q)) \in Nat
<1>1. down \in Seq(Messages)
  BY DEF Spoken
<1>2. Hits(down, AnswersTo(q)) \in Nat /\ Hits(msgs, AnswersTo(q)) \in Nat
  BY <1>1, HitsType
<1>3. Hits(down \o msgs, AnswersTo(q)) = Hits(down, AnswersTo(q)) + Hits(msgs, AnswersTo(q))
  BY <1>1, HitsConcat
<1>4. CASE page = "open"
  BY <1>2, <1>3, <1>4 DEF Sent
<1>5. CASE page # "open"
  BY <1>2, <1>5 DEF Sent
<1>6. QED
  BY <1>4, <1>5

\* A step of the server that leaves the breakpoints there were as they are.
Serves ==
  /\ UNCHANGED <<page, refreshing, shown, bpList, sources>>
  /\ \/ up' = up
     \/ up # <<>> /\ up' = Tail(up)
  /\ asked' \in Seq(Asks) /\ (page = "closed" => asked' = <<>>)
  /\ nextBpNum <= nextBpNum' /\ \A n \in Nums : n < nextBpNum => lineOf'[n] = lineOf[n]
  /\ stops <= stops' /\ \A n \in Stops : n <= stops => fileOf'[n] = fileOf[n]
  /\ engine' = "stopped" => stops' > 0

LEMMA ServesUp ==
  ASSUME Spoken, Serves
  PROVE  /\ up' \in Seq(Asks \cup Commands)
         /\ \A i \in DOMAIN up' : \E j \in DOMAIN up : up'[i] = up[j]
<1>1. up \in Seq(Asks \cup Commands)
  BY DEF Spoken
<1>2. CASE up' = up
  BY <1>1, <1>2
<1>3. CASE up # <<>> /\ up' = Tail(up)
  BY <1>1, <1>3, Behind
<1>4. QED
  BY <1>2, <1>3 DEF Serves

LEMMA PageKept ==
  ASSUME PageTyped, ServerTyped, Held, Serves, ServerTyped'
  PROVE  PageTyped' /\ Held'
<1>1. stops \in Nat /\ stops' \in Nat /\ stops <= stops' /\ 0 .. stops \subseteq 0 .. stops' /\ stops <= MaxStops
  BY Bounds DEF Serves, ServerTyped
<1>2. UNCHANGED <<page, at, got, mine, left, data, refreshSeq, stop, source, scopeData, cache, fetches>>
  BY DEF Serves, refreshing, shown, sources
<1>3. /\ got \in [Refreshes -> 0 .. stops'] /\ data \in [Refreshes -> SUBSET (0 .. stops')]
      /\ {stop, source} \subseteq 0 .. stops'
      /\ scopeData \in [of : 0 .. stops', from : SUBSET (0 .. stops')]
  BY <1>1 DEF PageTyped
<1>4. PageTyped'
  BY <1>2, <1>3 DEF PageTyped
<1>5. \A r \in Refreshes : got[r] > 0 => fileOf'[got[r]] = fileOf[got[r]]
  <2> SUFFICES ASSUME NEW r \in Refreshes, got[r] > 0 PROVE fileOf'[got[r]] = fileOf[got[r]]
    OBVIOUS
  <2>1. got[r] \in 0 .. stops
    BY DEF PageTyped
  <2>2. got[r] \in 1 .. MaxStops /\ got[r] <= stops
    BY <1>1, <2>1, Bounds
  <2>3. QED
    BY <2>2 DEF Serves, Stops
<1>6. Held'
  BY <1>2, <1>5 DEF Held
<1>7. QED
  BY <1>4, <1>6

\* What the tables that are on their way, and the one in the gutter, say stays true.
LEMMA ServerTalks ==
  ASSUME ServerTyped, Spoken, Labelled, Serves, ServerTyped', NEW msgs \in Seq(Messages), Sent(msgs),
         \A k \in DOMAIN msgs : msgs[k].what = "answer" =>
            msgs[k].stop <= stops' /\ (msgs[k].ok => msgs[k].stop > 0),
         \A k \in DOMAIN msgs : msgs[k].what = "breakpoints" =>
            \A b \in msgs[k].table : b.num < nextBpNum' /\ lineOf'[b.num] = b.line
  PROVE  Spoken' /\ Labelled'
<1>1. /\ nextBpNum \in Nat /\ nextBpNum' \in Nat /\ nextBpNum <= nextBpNum'
      /\ stops \in Nat /\ stops' \in Nat /\ stops <= stops'
  BY Bounds DEF Serves, ServerTyped
<1>2. /\ down' \in Seq(Messages)
      /\ \A i \in DOMAIN down' : \/ i \in DOMAIN down /\ down'[i] = down[i]
                                 \/ page = "open" /\ \E k \in DOMAIN msgs : down'[i] = msgs[k]
  BY SentMessages
<1>3. /\ up' \in Seq(Asks \cup Commands)
      /\ \A i \in DOMAIN up' : \E j \in DOMAIN up : up'[i] = up[j]
  BY ServesUp
<1>4. ASSUME NEW n \in Nums, NEW l, n < nextBpNum, lineOf[n] = l PROVE n < nextBpNum' /\ lineOf'[n] = l
  <2>1. n \in Nat
    BY Bounds DEF Nums
  <2>2. QED
    BY <1>1, <1>4, <2>1 DEF Serves
<1>5. \A i \in DOMAIN down : down[i] \in Messages /\ (down[i].what = "breakpoints" => down[i].table \in Labelling)
  <2>1. \A i \in DOMAIN down : down[i] \in Messages
    BY DEF Spoken
  <2>2. QED
    BY <2>1, MessageFacts
<1>6. Spoken'
  <2>1. ASSUME NEW i \in DOMAIN down', down'[i].what = "answer"
        PROVE  down'[i].stop <= stops' /\ (down'[i].ok => down'[i].stop > 0)
    <3>1. CASE i \in DOMAIN down /\ down'[i] = down[i]
      <4>1. down[i].stop <= stops /\ (down[i].ok => down[i].stop > 0) /\ down[i].stop \in 0 .. MaxStops
        BY <1>5, <2>1, <3>1, MessageFacts DEF Spoken
      <4>2. QED
        BY <1>1, <3>1, <4>1, Bounds
    <3>2. CASE \E k \in DOMAIN msgs : down'[i] = msgs[k]
      BY <2>1, <3>2
    <3>3. QED
      BY <1>2, <3>1, <3>2
  <2>2. \A i \in DOMAIN up' : up'[i].what = "break" => up'[i].line \in Lines
    BY <1>3 DEF Spoken
  <2>3. page' = "closed" => up' = <<>> /\ asked' = <<>> /\ down' = <<>> /\ bpList' = {}
    BY DEF Spoken, Serves, Sent
  <2>4. QED
    BY <1>2, <1>3, <2>1, <2>2, <2>3 DEF Spoken, Serves
<1>7. Labelled'
  <2>1. \A b \in bpList : b.num < nextBpNum' /\ lineOf'[b.num] = b.line
    <3> TAKE b \in bpList
    <3>1. b.num \in Nums /\ b.num < nextBpNum /\ lineOf[b.num] = b.line
      BY DEF Spoken, Labelled, Labelling, StillTrue
    <3>2. QED
      BY <1>4, <3>1
  <2>2. ASSUME NEW i \in DOMAIN down', down'[i].what = "breakpoints"
        PROVE  \A b \in down'[i].table : b.num < nextBpNum' /\ lineOf'[b.num] = b.line
    <3>1. CASE i \in DOMAIN down /\ down'[i] = down[i]
      <4> TAKE b \in down'[i].table
      <4>1. b.num \in Nums /\ b.num < nextBpNum /\ lineOf[b.num] = b.line
        BY <1>5, <2>2, <3>1 DEF Labelled, Labelling, StillTrue
      <4>2. QED
        BY <1>4, <4>1
    <3>2. CASE \E k \in DOMAIN msgs : down'[i] = msgs[k]
      BY <2>2, <3>2
    <3>3. QED
      BY <1>2, <3>1, <3>2
  <2>3. ASSUME NEW i \in DOMAIN up', up'[i].what = "delete"
        PROVE  up'[i].num > 0 /\ up'[i].num < nextBpNum' /\ lineOf'[up'[i].num] = up'[i].line
    <3>1. PICK j \in DOMAIN up : up'[i] = up[j]
      BY <1>3
    <3>2. up[j].num > 0 /\ up[j].num < nextBpNum /\ lineOf[up[j].num] = up[j].line
      BY <2>3, <3>1 DEF Labelled, StillTrue
    <3>3. up[j] \in Commands
      <4>1. up[j] \in Asks \cup Commands
        BY DEF Spoken
      <4>2. QED
        BY <2>3, <3>1, <4>1, AskFacts DEF Whats
    <3>4. up[j].num \in Nums \cup {0}
      BY <3>3 DEF Commands
    <3>5. up[j].num \in Nums
      BY <3>2, <3>4
    <3>6. QED
      BY <1>4, <3>1, <3>2, <3>5
  <2>4. QED
    BY <2>1, <2>2, <2>3 DEF Labelled, StillTrue, Serves
<1>8. QED
  BY <1>6, <1>7

\* The table as it is now goes to the page.
LEMMA FollowedByTable ==
  ASSUME ServerTyped, Spoken, page' = page, NEW m \in Messages, m.what = "breakpoints",
         m.table = Labels(table', lineOf'), Sent(<<m>>)
  PROVE  Followed'
<1>1. /\ down \in Seq(Messages) /\ <<m>> \in Seq(Messages)
  BY DEF Spoken
<1> SUFFICES ASSUME page = "open"
             PROVE  /\ \A i \in DOMAIN down' : LastTable(i)' => down'[i].table = Labels(table', lineOf')
                    /\ \E i \in DOMAIN down' : IsTable(i)'
  BY DEF Followed
<1>0. Append(down, m) \in Seq(Messages)
  BY <1>1
<1> PICK d \in Seq(Messages) : d = Append(down, m)
  BY <1>0
<1>2. down' = d
  BY <1>1 DEF Sent
<1>3. /\ DOMAIN down = 1 .. Len(down) /\ Len(down) \in Nat
      /\ DOMAIN d = 1 .. Len(down) + 1 /\ d[Len(down) + 1] = m
  BY <1>1
<1> PICK k : k = Len(down) + 1
  OBVIOUS
<1>4. k \in DOMAIN d /\ d[k] = m /\ \A i \in DOMAIN d : i # k => k > i
  BY <1>3
<1>5. IsTable(k)'
  BY <1>2, <1>4 DEF IsTable
<1>6. ASSUME NEW i \in DOMAIN down', LastTable(i)' PROVE i = k
  BY <1>2, <1>4, <1>5, <1>6 DEF LastTable
<1>7. QED
  BY <1>2, <1>4, <1>5, <1>6

\* No table is sent, and none is due.
LEMMA FollowedStill ==
  ASSUME ServerTyped, Spoken, Followed, page' = page, bpList' = bpList,
         Labels(table', lineOf') = Labels(table, lineOf),
         NEW msgs \in Seq(Messages), Sent(msgs), \A k \in DOMAIN msgs : msgs[k].what # "breakpoints",
         adopting' \notin {"resumed", "report", "failed"} => adopting \notin {"resumed", "report", "failed"},
         (\A i \in DOMAIN up' : up'[i].what # "empty") => \A i \in DOMAIN up : up[i].what # "empty"
  PROVE  Followed'
<1> SUFFICES ASSUME page' = "open", adopting' \notin {"resumed", "report", "failed"},
                    \A i \in DOMAIN up' : up'[i].what # "empty"
             PROVE  /\ \A i \in DOMAIN down' : LastTable(i)' => down'[i].table = Labels(table', lineOf')
                    /\ (\A i \in DOMAIN down' : ~IsTable(i)') => bpList = Labels(table', lineOf')
  BY DEF Followed
<1>1. /\ \A i \in DOMAIN down : LastTable(i) => down[i].table = Labels(table, lineOf)
      /\ (\A i \in DOMAIN down : ~IsTable(i)) => bpList = Labels(table, lineOf)
  BY DEF Followed
<1>2. /\ \A i \in DOMAIN down : i \in DOMAIN down' /\ down'[i] = down[i]
      /\ \A i \in DOMAIN down' : i \in DOMAIN down \/ \E k \in DOMAIN msgs : down'[i] = msgs[k]
  BY SentMessages
<1>3. \A i \in DOMAIN down' : IsTable(i)' => i \in DOMAIN down /\ IsTable(i)
  BY <1>2 DEF IsTable
<1>4. \A i \in DOMAIN down : IsTable(i) => IsTable(i)'
  BY <1>2 DEF IsTable
<1>5. ASSUME NEW i \in DOMAIN down', LastTable(i)' PROVE down'[i].table = Labels(table, lineOf)
  <2>1. i \in DOMAIN down /\ IsTable(i)
    BY <1>3, <1>5 DEF LastTable
  <2>2. \A j \in DOMAIN down : j > i => ~IsTable(j)
    BY <1>2, <1>4, <1>5 DEF LastTable
  <2>3. QED
    BY <1>1, <1>2, <2>1, <2>2 DEF LastTable
<1>6. QED
  BY <1>1, <1>2, <1>4, <1>5

\* A step of the server keeps the invariant if it keeps what it knows itself, and
\* no question is lost.
LEMMA ServerStep ==
  ASSUME IInv, Serves, ServerTyped', Numbered', Followed',
         NEW msgs \in Seq(Messages), Sent(msgs),
         \A k \in DOMAIN msgs : msgs[k].what = "answer" =>
            msgs[k].stop <= stops' /\ (msgs[k].ok => msgs[k].stop > 0),
         \A k \in DOMAIN msgs : msgs[k].what = "breakpoints" =>
            \A b \in msgs[k].table : b.num < nextBpNum' /\ lineOf'[b.num] = b.line,
         \A q \in Asks : Hits(up', {q}) + Hits(asked', {q}) + (IF page = "open" THEN Hits(msgs, AnswersTo(q)) ELSE 0)
                           = Hits(up, {q}) + Hits(asked, {q})
  PROVE  IInv'
<1>1. PageTyped /\ ServerTyped /\ Spoken /\ Labelled /\ Counts /\ Held
  BY Parts DEF Talk
<1>2. Spoken' /\ Labelled'
  BY <1>1, ServerTalks
<1>3. PageTyped' /\ Held'
  BY <1>1, PageKept
<1>4. ASSUME NEW q \in Asks PROVE OnItsWay(q)' = OnItsWay(q)
  <2>1. /\ Hits(down', AnswersTo(q)) =
             Hits(down, AnswersTo(q)) + (IF page = "open" THEN Hits(msgs, AnswersTo(q)) ELSE 0)
        /\ Hits(down, AnswersTo(q)) \in Nat /\ Hits(msgs, AnswersTo(q)) \in Nat
    BY <1>1, SentCount
  <2>2. up' \in Seq(Asks \cup Commands) /\ asked' \in Seq(Asks) /\ up \in Seq(Asks \cup Commands) /\ asked \in Seq(Asks)
    BY <1>1, ServesUp DEF Serves, Spoken
  <2>3. /\ Hits(up', {q}) \in Nat /\ Hits(asked', {q}) \in Nat /\ Hits(up, {q}) \in Nat /\ Hits(asked, {q}) \in Nat
    <3>1. PICK u \in Seq(Asks \cup Commands), a \in Seq(Asks) : u = up' /\ a = asked'
      BY <2>2
    <3>2. Hits(u, {q}) \in Nat /\ Hits(a, {q}) \in Nat /\ Hits(up, {q}) \in Nat /\ Hits(asked, {q}) \in Nat
      BY <2>2, HitsType
    <3>3. QED
      BY <3>1, <3>2
  <2>4. Hits(up', {q}) + Hits(asked', {q}) + (IF page = "open" THEN Hits(msgs, AnswersTo(q)) ELSE 0)
          = Hits(up, {q}) + Hits(asked, {q})
    OBVIOUS
  <2>5. OnItsWay(q)' = Hits(up', {q}) + Hits(asked', {q}) + Hits(down', AnswersTo(q))
    BY DEF OnItsWay
  <2>6. CASE page = "open"
    BY <2>1, <2>3, <2>4, <2>5, <2>6 DEF OnItsWay
  <2>7. CASE page # "open"
    BY <2>1, <2>3, <2>4, <2>5, <2>7 DEF OnItsWay
  <2>8. QED
    BY <2>6, <2>7
<1>5. Counts'
  <2>1. at' = at
    BY DEF Serves, refreshing
  <2>2. QED
    BY <1>1, <1>4, <2>1, NoneMoves
<1>6. QED
  BY <1>2, <1>3, <1>5, PartsNext DEF Talk

\* No question is taken from the page.
NoAskTaken == up' = up \/ (up # <<>> /\ up' = Tail(up) /\ Head(up) \notin Asks)

LEMMA NoAskHits ==
  ASSUME Spoken, NoAskTaken, NEW q \in Asks
  PROVE  Hits(up', {q}) = Hits(up, {q})
<1>1. up \in Seq(Asks \cup Commands)
  BY DEF Spoken
<1>2. ASSUME up # <<>>, Head(up) \notin Asks PROVE Hits(Tail(up), {q}) = Hits(up, {q})
  <2>1. /\ Tail(up) \in Seq(Asks \cup Commands)
        /\ Hits(up, {q}) = Hits(Tail(up), {q}) + (IF Head(up) \in {q} THEN 1 ELSE 0)
    BY <1>1, <1>2, HitsTail
  <2>2. Hits(Tail(up), {q}) \in Nat
    BY <2>1, HitsType
  <2>3. QED
    BY <1>2, <2>1, <2>2
<1>3. QED
  BY <1>2 DEF NoAskTaken

LEMMA TableStep ==
  ASSUME IInv, Serves, ServerTyped', Numbered', asked' = asked, NoAskTaken,
         Sent(<<Published(table', lineOf')>>)
  PROVE  IInv'
<1>1. ServerTyped /\ Spoken
  BY Parts DEF Talk
<1> PICK T, on, m : T = table' /\ on = lineOf' /\ m = Published(T, on)
  OBVIOUS
<1>2. T \in SUBSET Nums /\ on \in [Nums -> Lines] /\ \A n \in T : n < nextBpNum'
  <2>1. /\ table' \subseteq 1 .. nextBpNum' - 1 /\ lineOf' \in [Nums -> Lines]
        /\ nextBpNum' \in 1 .. MaxCommands + 2
    BY DEF ServerTyped
  <2>2. PICK k \in 1 .. MaxCommands + 2 : k = nextBpNum'
    BY <2>1
  <2>3. \A n \in 1 .. k - 1 : n \in 1 .. MaxCommands + 1 /\ n < k
    BY Bounds
  <2>4. QED
    BY <2>1, <2>2, <2>3 DEF Nums
<1>3. /\ m \in Messages /\ m.what = "breakpoints" /\ m.table = Labels(T, on) /\ Labels(T, on) \in Labelling
      /\ Sent(<<m>>)
  BY <1>1, <1>2, SentFacts DEF ServerTyped
<1>4. Followed'
  BY <1>1, <1>3, FollowedByTable DEF Serves
<1> PICK msgs : msgs = <<m>>
  OBVIOUS
<1>5. msgs \in Seq(Messages) /\ Sent(msgs) /\ \A k \in DOMAIN msgs : msgs[k] = m
  BY <1>3
<1>6. \A b \in m.table : b.num < nextBpNum' /\ lineOf'[b.num] = b.line
  BY <1>2, <1>3 DEF Labels
<1>7. \A q \in Asks : Hits(msgs, AnswersTo(q)) = 0
  BY <1>3, HitsOne, MessageFacts
<1>8. ASSUME NEW q \in Asks
      PROVE  Hits(up', {q}) + Hits(asked', {q}) + (IF page = "open" THEN Hits(msgs, AnswersTo(q)) ELSE 0)
               = Hits(up, {q}) + Hits(asked, {q})
  <2>1. Hits(up', {q}) = Hits(up, {q}) /\ Hits(asked', {q}) = Hits(asked, {q})
    BY <1>1, NoAskHits
  <2>2. Hits(up, {q}) \in Nat /\ Hits(asked, {q}) \in Nat
    BY <1>1, HitsType DEF Spoken
  <2>3. QED
    BY <1>7, <2>1, <2>2
<1>9. QED
  BY <1>3, <1>4, <1>5, <1>6, <1>8, ServerStep

LEMMA SilentStep ==
  ASSUME IInv, Serves, ServerTyped', Numbered', Followed', asked' = asked, NoAskTaken, down' = down
  PROVE  IInv'
<1>1. Spoken
  BY Parts DEF Talk
<1> PICK msgs : msgs = <<>>
  OBVIOUS
<1>2. msgs \in Seq(Messages) /\ DOMAIN msgs = {} /\ \A S : Hits(msgs, S) = 0
  BY HitsNone
<1>3. Sent(msgs)
  BY <1>1, <1>2 DEF Sent, Spoken
<1>4. ASSUME NEW q \in Asks
      PROVE  Hits(up', {q}) + Hits(asked', {q}) + (IF page = "open" THEN Hits(msgs, AnswersTo(q)) ELSE 0)
               = Hits(up, {q}) + Hits(asked, {q})
  <2>1. Hits(up', {q}) = Hits(up, {q}) /\ Hits(asked', {q}) = Hits(asked, {q})
    BY <1>1, NoAskHits
  <2>2. Hits(up, {q}) \in Nat /\ Hits(asked, {q}) \in Nat
    BY <1>1, HitsType DEF Spoken
  <2>3. QED
    BY <1>2, <2>1, <2>2
<1>5. QED
  BY <1>2, <1>3, <1>4, ServerStep

\* A new breakpoint.
LEMMA BreakFacts ==
  ASSUME ServerTyped, nextBpNum <= MaxCommands + 1, NEW l \in Lines, NEW isTemp \in BOOLEAN, Break(l, isTemp)
  PROVE  /\ table' \subseteq 1 .. nextBpNum' - 1 /\ lineOf' \in [Nums -> Lines]
         /\ nextBpNum' \in 1 .. MaxCommands + 2 /\ temp' \in Nums \cup {0}
         /\ nextBpNum' = nextBpNum + 1 /\ nextBpNum <= nextBpNum'
         /\ \A n \in Nums : n < nextBpNum => lineOf'[n] = lineOf[n]
<1>1. /\ table' = table \cup {nextBpNum} /\ lineOf' = [lineOf EXCEPT ![nextBpNum] = l]
      /\ nextBpNum' = nextBpNum + 1 /\ temp' = IF isTemp THEN nextBpNum ELSE temp
  BY DEF Break, NewNumber
<1>2. nextBpNum \in 1 .. MaxCommands + 1 /\ nextBpNum \in Nums
  BY Bounds DEF ServerTyped, Nums
<1>3. lineOf' \in [Nums -> Lines] /\ temp' \in Nums \cup {0}
  BY <1>1, <1>2 DEF ServerTyped
<1>4. nextBpNum' \in 1 .. MaxCommands + 2 /\ nextBpNum <= nextBpNum' /\ nextBpNum \in 1 .. nextBpNum' - 1
  BY <1>1, <1>2, Bounds
<1>5. \A n \in 1 .. nextBpNum - 1 : n \in 1 .. nextBpNum' - 1
  BY <1>1, <1>2, Bounds
<1>6. table' \subseteq 1 .. nextBpNum' - 1
  BY <1>1, <1>4, <1>5 DEF ServerTyped
<1>7. \A n \in Nums : n < nextBpNum => n # nextBpNum
  BY <1>2, Bounds DEF Nums
<1>8. \A n \in Nums : n < nextBpNum => lineOf'[n] = lineOf[n]
  BY <1>1, <1>7 DEF ServerTyped
<1>9. QED
  BY <1>1, <1>3, <1>4, <1>6, <1>8

Limit(where) == IF where \in {"entry", "stopped"} THEN 1 ELSE 2

\* A command is executed.
LEMMA ExecuteKeeps ==
  ASSUME IInv, NEW c \in Commands, Execute(c),
         c.what = "break" => c.line \in Lines /\ nextBpNum <= MaxCommands + 1,
         UNCHANGED <<page, refreshing, shown, bpList, sources, adopting, reporting, stops, fileOf, asked>>,
         commands' \in 0 .. MaxCommands, NoAskTaken,
         up' = up \/ c.what = "empty" \/ (up # <<>> /\ Head(up).what # "empty"),
         nextBpNum + (IF c.what = "break" THEN 1 ELSE 0) + Hits(up', Breaks) <= commands' + Limit(adopting)
  PROVE  IInv'
<1>1. ServerTyped /\ Spoken /\ Followed /\ Numbered
  BY Parts DEF Talk
<1>2. /\ nextBpNum \in Nat \ {0} /\ nextBpNum <= nextBpNum /\ stops <= stops /\ resuming \in Nat
      /\ lineOf \in [Nums -> Lines] /\ stops \in Nat
  BY <1>1, Bounds DEF ServerTyped, Numbered
<1>3. /\ UNCHANGED <<page, refreshing, shown, bpList, sources, adopting, reporting, stops, fileOf, asked>>
      /\ up' = up \/ (up # <<>> /\ up' = Tail(up))
      /\ asked' \in Seq(Asks) /\ (page = "closed" => asked' = <<>>)
      /\ (engine = "stopped" => stops > 0)
  BY <1>1 DEF Spoken, NoAskTaken
<1>4. /\ Hits(up', Breaks) \in Nat /\ commands' \in Nat /\ Limit(adopting) \in Nat
      /\ nextBpNum + Hits(up', Breaks) <= commands' + Limit(adopting)
      /\ c.what = "break" => nextBpNum + 1 + Hits(up', Breaks) <= commands' + Limit(adopting)
  <2>1. up' \in Seq(Asks \cup Commands)
    <3>1. up \in Seq(Asks \cup Commands)
      BY <1>1 DEF Spoken
    <3>2. up # <<>> => Tail(up) \in Seq(Asks \cup Commands)
      BY <3>1, HitsTail
    <3>3. QED
      BY <1>3, <3>1, <3>2
  <2>2. PICK u \in Seq(Asks \cup Commands) : u = up'
    BY <2>1
  <2>3. Hits(u, Breaks) \in Nat
    BY HitsType
  <2>4. commands' \in Nat /\ Limit(adopting) \in Nat
    BY Bounds DEF Limit
  <2>5. CASE c.what = "break"
    BY <1>2, <2>2, <2>3, <2>4, <2>5
  <2>6. CASE c.what # "break"
    BY <1>2, <2>2, <2>3, <2>4, <2>6
  <2>7. QED
    BY <2>5, <2>6
<1>5. ASSUME UNCHANGED <<lineOf, nextBpNum, temp>>, table' \subseteq table,
             engine' = engine, resuming' = resuming,
             Broadcast(<<Published(table', lineOf')>>)
      PROVE  IInv'
  <2>1. Serves
    BY <1>2, <1>3, <1>5 DEF Serves
  <2>2. ServerTyped'
    BY <1>1, <1>3, <1>5 DEF ServerTyped
  <2>3. Numbered'
    BY <1>1, <1>3, <1>4, <1>5 DEF Numbered, Limit
  <2>4. Sent(<<Published(table', lineOf')>>)
    BY <1>5 DEF Sent, Broadcast
  <2>5. QED
    BY <1>3, <2>1, <2>2, <2>3, <2>4, TableStep
<1>6. CASE c.what = "empty" /\ UNCHANGED <<points, resuming, engine>> /\ Broadcast(<<Published(table, lineOf)>>)
  <2>1. Broadcast(<<Published(table', lineOf')>>)
    BY <1>6 DEF Broadcast, points
  <2>2. QED
    BY <1>5, <1>6, <2>1 DEF points
<1>7. CASE /\ c.what = "break" /\ Break(c.line, FALSE)
           /\ Broadcast(<<Published(table', lineOf')>>) /\ UNCHANGED <<resuming, engine>>
  <2>1. /\ table' \subseteq 1 .. nextBpNum' - 1 /\ lineOf' \in [Nums -> Lines]
        /\ nextBpNum' \in 1 .. MaxCommands + 2 /\ temp' \in Nums \cup {0}
        /\ nextBpNum' = nextBpNum + 1 /\ nextBpNum <= nextBpNum'
        /\ \A n \in Nums : n < nextBpNum => lineOf'[n] = lineOf[n]
    BY <1>1, <1>7, BreakFacts
  <2>2. Serves
    BY <1>2, <1>3, <1>7, <2>1 DEF Serves
  <2>3. ServerTyped'
    BY <1>1, <1>3, <1>7, <2>1 DEF ServerTyped
  <2>4. Numbered'
    BY <1>2, <1>3, <1>4, <1>7, <2>1 DEF Numbered, Limit
  <2>5. Sent(<<Published(table', lineOf')>>)
    BY <1>7 DEF Sent, Broadcast
  <2>6. QED
    BY <1>3, <2>2, <2>3, <2>4, <2>5, TableStep
<1>8. CASE /\ c.what = "delete" /\ table' = table \ {c.num}
           /\ Broadcast(<<Published(table', lineOf)>>)
           /\ UNCHANGED <<lineOf, nextBpNum, temp, resuming, engine>>
  <2>1. Broadcast(<<Published(table', lineOf')>>)
    BY <1>8 DEF Broadcast
  <2>2. QED
    BY <1>5, <1>8, <2>1
<1>9. CASE /\ c.what = "continue" /\ engine # "gone"
           /\ engine' = "running" /\ resuming' = resuming + 1
           /\ UNCHANGED <<points, down>>
  <2>1. Serves
    BY <1>2, <1>3, <1>9 DEF Serves, points
  <2>2. ServerTyped'
    BY <1>1, <1>2, <1>3, <1>9 DEF ServerTyped, points
  <2>3. Numbered'
    BY <1>1, <1>3, <1>4, <1>9 DEF Numbered, Limit, points
  <2>4. (\A i \in DOMAIN up' : up'[i].what # "empty") => \A i \in DOMAIN up : up[i].what # "empty"
    <3>1. CASE up' = up
      BY <3>1
    <3>2. CASE up # <<>> /\ up' = Tail(up) /\ Head(up).what # "empty"
      BY <1>1, <3>2, EmptyBehind DEF Spoken
    <3>3. QED
      BY <1>3, <1>9, <3>1, <3>2
  <2> PICK msgs : msgs = <<>>
    OBVIOUS
  <2>5. msgs \in Seq(Messages) /\ DOMAIN msgs = {} /\ Sent(msgs)
    BY <1>1, <1>9 DEF Sent, Spoken
  <2>6. Labels(table', lineOf') = Labels(table, lineOf)
    BY <1>9 DEF points
  <2>7. Followed'
    BY <1>1, <1>3, <2>4, <2>5, <2>6, FollowedStill
  <2>8. QED
    BY <1>3, <1>9, <2>1, <2>2, <2>3, <2>7, SilentStep
<1>10. CASE /\ c.what = "continue" /\ engine = "gone"
            /\ Broadcast(<<Published(table, lineOf)>>) /\ UNCHANGED <<points, resuming, engine>>
  <2>1. Broadcast(<<Published(table', lineOf')>>)
    BY <1>10 DEF Broadcast, points
  <2>2. QED
    BY <1>5, <1>10, <2>1 DEF points
<1>11. QED
  BY <1>6, <1>7, <1>8, <1>9, <1>10 DEF Execute

LEMMA ClientMessageKeeps ==
  ASSUME IInv, ClientMessage
  PROVE  IInv'
<1>1. ServerTyped /\ Spoken /\ Followed /\ Numbered
  BY Parts DEF Talk
<1> PICK m : m = Head(up)
  OBVIOUS
<1>2. /\ up # <<>> /\ up' = Tail(up)
      /\ \/ m.what \in {"empty", "break", "delete", "continue"} /\ Execute(m) /\ UNCHANGED asked
         \/ /\ m.what \in {"stack", "scopes", "variables"}
            /\ \/ engine # "gone" /\ asked' = Append(asked, m) /\ UNCHANGED down
               \/ engine = "gone" /\ Broadcast(<<Answer(m, FALSE)>>) /\ UNCHANGED asked
            /\ UNCHANGED <<points, resuming, engine>>
      /\ UNCHANGED <<adopting, reporting, stops, fileOf>>
      /\ UNCHANGED <<page, refreshing, shown, bpList, sources, commands>>
  BY DEF ClientMessage, Page
<1>3. up \in Seq(Asks \cup Commands)
  BY <1>1 DEF Spoken
<1>4. /\ m \in Asks \cup Commands /\ 1 \in DOMAIN up /\ m = up[1]
      /\ up' \in Seq(Asks \cup Commands)
      /\ \A S : Hits(up, S) = Hits(up', S) + (IF m \in S THEN 1 ELSE 0)
      /\ \A S : Hits(up', S) \in Nat
  <2> PICK u : u = Tail(up)
    OBVIOUS
  <2>1. u \in Seq(Asks \cup Commands) /\ \A S : Hits(up, S) = Hits(u, S) + (IF m \in S THEN 1 ELSE 0)
    BY <1>2, <1>3, HitsTail
  <2>2. \A S : Hits(u, S) \in Nat
    BY <2>1, HitsType
  <2>3. m \in Asks \cup Commands /\ 1 \in DOMAIN up /\ m = up[1]
    BY <1>2, <1>3
  <2>4. QED
    BY <1>2, <2>1, <2>2, <2>3
<1>5. nextBpNum + Hits(up, Breaks) <= commands + Limit(adopting) /\ nextBpNum \in Nat \ {0}
      /\ lineOf \in [Nums -> Lines] /\ commands \in 0 .. MaxCommands /\ Limit(adopting) \in {1, 2}
  BY <1>1 DEF Numbered, Limit, ServerTyped
<1>6. CASE m.what \in {"empty", "break", "delete", "continue"} /\ Execute(m) /\ UNCHANGED asked
  <2>1. m \in Commands /\ m \notin Asks /\ (m \in Breaks <=> m.what = "break")
    BY <1>4, <1>6, AskFacts DEF Whats, Breaks
  <2>2. m.what = "break" => m.line \in Lines
    BY <1>1, <1>4 DEF Spoken
  <2>3. nextBpNum + (IF m.what = "break" THEN 1 ELSE 0) + Hits(up', Breaks) <= commands' + Limit(adopting)
    <3>1. Hits(up, Breaks) = Hits(up', Breaks) + (IF m.what = "break" THEN 1 ELSE 0) /\ Hits(up', Breaks) \in Nat
      BY <1>4, <2>1
    <3>2. commands' = commands
      BY <1>2
    <3>3. CASE m.what = "break"
      BY <1>5, <3>1, <3>2, <3>3
    <3>4. CASE m.what # "break"
      BY <1>5, <3>1, <3>2, <3>4
    <3>5. QED
      BY <3>3, <3>4
  <2>4. m.what = "break" => nextBpNum <= MaxCommands + 1
    <3>1. Hits(up', Breaks) \in Nat /\ commands' = commands
      BY <1>2, <1>4
    <3>2. QED
      BY <1>5, <2>3, <3>1, Bounds
  <2>5. NoAskTaken
    BY <1>2, <2>1 DEF NoAskTaken
  <2>6. up' = up \/ m.what = "empty" \/ (up # <<>> /\ Head(up).what # "empty")
    BY <1>2
  <2>7. commands' \in 0 .. MaxCommands
    BY <1>2, <1>5
  <2>8. QED
    BY <1>2, <1>6, <2>1, <2>2, <2>3, <2>4, <2>5, <2>6, <2>7, ExecuteKeeps
<1>7. CASE /\ m.what \in {"stack", "scopes", "variables"}
           /\ \/ engine # "gone" /\ asked' = Append(asked, m) /\ UNCHANGED down
              \/ engine = "gone" /\ Broadcast(<<Answer(m, FALSE)>>) /\ UNCHANGED asked
           /\ UNCHANGED <<points, resuming, engine>>
  <2>1. m \in Asks /\ m \notin Breaks /\ asked \in Seq(Asks) /\ page = "open"
    BY <1>1, <1>2, <1>4, <1>7 DEF Commands, Breaks, Spoken, ServerTyped
  <2>2. /\ asked' \in Seq(Asks)
        /\ \A q : /\ Hits(asked, {q}) \in Nat
                  /\ asked' = Append(asked, m) => Hits(asked', {q}) = Hits(asked, {q}) + (IF m \in {q} THEN 1 ELSE 0)
    <3>1. Append(asked, m) \in Seq(Asks)
      BY <2>1
    <3>2. \A q : /\ Hits(asked, {q}) \in Nat
                 /\ Hits(Append(asked, m), {q}) = Hits(asked, {q}) + (IF m \in {q} THEN 1 ELSE 0)
      BY <2>1, HitsAppend, HitsType
    <3>3. asked' = Append(asked, m) \/ asked' = asked
      BY <1>7
    <3>4. QED
      BY <2>1, <3>1, <3>2, <3>3
  <2>3. Serves
    <3>1. nextBpNum <= nextBpNum /\ stops <= stops /\ (engine = "stopped" => stops > 0)
      BY <1>1, <1>5, Bounds DEF ServerTyped, Spoken
    <3>2. QED
      BY <1>2, <1>7, <2>1, <2>2, <3>1 DEF Serves, points
  <2>4. ServerTyped'
    BY <1>1, <1>2, <1>7 DEF ServerTyped, points
  <2>5. Numbered'
    <3>1. Hits(up', Breaks) = Hits(up, Breaks)
      <4>1. Hits(up, Breaks) = Hits(up', Breaks) + 0 /\ Hits(up', Breaks) \in Nat
        BY <1>4, <2>1
      <4>2. QED
        BY <4>1
    <3>2. QED
      BY <1>2, <1>5, <1>7, <3>1 DEF Numbered, Limit, points
  <2>6. (\A i \in DOMAIN up' : up'[i].what # "empty") => \A i \in DOMAIN up : up[i].what # "empty"
    BY <1>2, <1>3, <1>7, EmptyBehind
  <2>7. Labels(table', lineOf') = Labels(table, lineOf)
    BY <1>7 DEF points
  <2>8. CASE engine # "gone" /\ asked' = Append(asked, m) /\ UNCHANGED down
    <3> PICK msgs : msgs = <<>>
      OBVIOUS
    <3>1. msgs \in Seq(Messages) /\ DOMAIN msgs = {} /\ Sent(msgs) /\ \A S : Hits(msgs, S) = 0
      BY <1>1, <2>8, HitsNone DEF Sent, Spoken
    <3>2. Followed'
      BY <1>1, <1>2, <2>6, <2>7, <3>1, FollowedStill
    <3>3. ASSUME NEW q \in Asks
          PROVE  Hits(up', {q}) + Hits(asked', {q}) + (IF page = "open" THEN Hits(msgs, AnswersTo(q)) ELSE 0)
                   = Hits(up, {q}) + Hits(asked, {q})
      <4>1. /\ Hits(up, {q}) = Hits(up', {q}) + (IF m \in {q} THEN 1 ELSE 0) /\ Hits(up', {q}) \in Nat
            /\ Hits(asked', {q}) = Hits(asked, {q}) + (IF m \in {q} THEN 1 ELSE 0) /\ Hits(asked, {q}) \in Nat
        BY <1>4, <2>2, <2>8
      <4>2. Hits(msgs, AnswersTo(q)) = 0
        BY <3>1
      <4>3. QED
        BY <4>1, <4>2
    <3>4. QED
      BY <2>3, <2>4, <2>5, <3>1, <3>2, <3>3, ServerStep
  <2>9. CASE engine = "gone" /\ Broadcast(<<Answer(m, FALSE)>>) /\ UNCHANGED asked
    <3> PICK a : a = Answer(m, FALSE)
      OBVIOUS
    <3>1. a \in Messages /\ a.what = "answer" /\ a.stop = stops /\ ~a.ok /\ \A q : a \in AnswersTo(q) <=> q = m
      BY <1>1, <2>1, SentFacts DEF ServerTyped
    <3> PICK msgs : msgs = <<a>>
      OBVIOUS
    <3>2. msgs \in Seq(Messages) /\ \A k \in DOMAIN msgs : msgs[k] = a
      BY <3>1, OneMessage
    <3>3. Sent(msgs)
      BY <2>9 DEF Sent, Broadcast
    <3>4. Followed'
      BY <1>1, <1>2, <2>6, <2>7, <3>1, <3>2, <3>3, FollowedStill
    <3>5. ASSUME NEW q \in Asks
          PROVE  Hits(up', {q}) + Hits(asked', {q}) + (IF page = "open" THEN Hits(msgs, AnswersTo(q)) ELSE 0)
                   = Hits(up, {q}) + Hits(asked, {q})
      <4>1. /\ Hits(up, {q}) = Hits(up', {q}) + (IF m \in {q} THEN 1 ELSE 0) /\ Hits(up', {q}) \in Nat
            /\ Hits(asked', {q}) = Hits(asked, {q}) /\ Hits(asked, {q}) \in Nat
        BY <1>4, <2>2, <2>9
      <4>2. Hits(msgs, AnswersTo(q)) = IF q = m THEN 1 ELSE 0
        BY <3>1, HitsOne
      <4>3. QED
        BY <2>1, <4>1, <4>2
    <3>6. stops' = stops /\ stops \in Nat
      BY <1>1, <1>2, Bounds DEF ServerTyped
    <3>7. \A k \in DOMAIN msgs : /\ msgs[k].stop <= stops' /\ ~msgs[k].ok
                                  /\ msgs[k].what # "breakpoints"
      <4>1. a.stop <= stops'
        <5>1. \A n \in Nat : n <= n
          OBVIOUS
        <5>2. stops <= stops
          BY <3>6, <5>1
        <5>3. a.stop = stops /\ stops' = stops
          BY <3>1, <3>6
        <5>4. QED
          BY <5>2, <5>3, Zenon
      <4>2. ~a.ok
        BY <3>1
      <4>3. a.what # "breakpoints"
        BY <3>1
      <4>4. QED
        BY <3>2, <4>1, <4>2, <4>3
    <3>8. QED
      BY <2>3, <2>4, <2>5, <3>2, <3>3, <3>4, <3>5, <3>7, ServerStep
  <2>10. QED
    BY <1>7, <2>8, <2>9
<1>8. QED
  BY <1>2, <1>6, <1>7

LEMMA OtherClientKeeps ==
  ASSUME IInv, OtherClient
  PROVE  IInv'
<1>1. ServerTyped /\ Numbered
  BY Parts DEF Talk
<1>2. /\ commands < MaxCommands /\ commands' = commands + 1
      /\ UNCHANGED <<page, refreshing, shown, bpList, sources, up, adopting, reporting, stops, fileOf, asked>>
  BY DEF OtherClient
<1>3. PICK c : /\ c \in {Command("break", l, 0) : l \in Lines} \cup {Command("delete", 0, n) : n \in table}
               /\ Execute(c)
  BY DEF OtherClient
<1>4. c \in Commands /\ (c.what = "break" => c.line \in Lines)
  <2>1. CASE c \in {Command("break", l, 0) : l \in Lines}
    BY <2>1 DEF Command, Commands
  <2>2. CASE c \in {Command("delete", 0, n) : n \in table}
    <3>1. table \subseteq Nums
      BY <1>1, Bounds DEF ServerTyped, Nums
    <3>2. QED
      BY <2>2, <3>1 DEF Command, Commands
  <2>3. QED
    BY <1>3, <2>1, <2>2
<1>5. /\ nextBpNum + Hits(up, Breaks) <= commands + Limit(adopting) /\ nextBpNum \in Nat \ {0}
      /\ commands \in 0 .. MaxCommands /\ Limit(adopting) \in {1, 2} /\ Hits(up, Breaks) \in Nat
  <2>1. Hits(up, Breaks) \in Nat
    BY Parts, HitsType DEF Talk, Spoken
  <2>2. QED
    BY <1>1, <2>1 DEF Numbered, Limit, ServerTyped
<1>6. nextBpNum <= MaxCommands + 1 /\ commands' \in 0 .. MaxCommands
  BY <1>2, <1>5, Bounds
<1>7. nextBpNum + (IF c.what = "break" THEN 1 ELSE 0) + Hits(up', Breaks) <= commands' + Limit(adopting)
  <2>1. up' = up
    BY <1>2
  <2>2. CASE c.what = "break"
    BY <1>2, <1>5, <2>1, <2>2
  <2>3. CASE c.what # "break"
    BY <1>2, <1>5, <2>1, <2>3
  <2>4. QED
    BY <2>2, <2>3
<1>8. NoAskTaken
  BY <1>2 DEF NoAskTaken
<1>9. QED
  BY <1>2, <1>3, <1>4, <1>6, <1>7, <1>8, ExecuteKeeps

LEMMA AdoptMainKeeps ==
  ASSUME IInv, AdoptMain
  PROVE  IInv'
<1>1. ServerTyped /\ Numbered /\ Spoken
  BY Parts DEF Talk
<1>2. /\ adopting = "stopped"
      /\ UNCHANGED <<resuming, reporting, stops, fileOf, up, asked>>
      /\ UNCHANGED <<page, refreshing, shown, bpList, sources, commands>>
      /\ \/ Break(MainLine, TRUE) /\ engine' = "running" /\ adopting' = "resumed" /\ UNCHANGED down
         \/ /\ adopting' = "over" /\ Broadcast(<<Published(table, lineOf)>>) /\ UNCHANGED <<points, engine>>
  BY DEF AdoptMain, Page
<1>3. /\ nextBpNum + Hits(up, Breaks) <= commands + 1 /\ nextBpNum \in Nat \ {0} /\ lineOf \in [Nums -> Lines]
      /\ commands \in 0 .. MaxCommands /\ Hits(up, Breaks) \in Nat /\ stops \in Nat
      /\ asked \in Seq(Asks) /\ (page = "closed" => asked = <<>>) /\ (engine = "stopped" => stops > 0)
  <2>1. Hits(up, Breaks) \in Nat
    BY <1>1, HitsType DEF Spoken
  <2>2. QED
    BY <1>1, <1>2, <2>1, Bounds DEF Numbered, ServerTyped, Spoken
<1>4. NoAskTaken
  BY <1>2 DEF NoAskTaken
<1>5. nextBpNum <= MaxCommands + 1 /\ stops <= stops /\ nextBpNum <= nextBpNum
  BY <1>3, Bounds
<1>6. CASE Break(MainLine, TRUE) /\ engine' = "running" /\ adopting' = "resumed" /\ UNCHANGED down
  <2>1. /\ table' \subseteq 1 .. nextBpNum' - 1 /\ lineOf' \in [Nums -> Lines]
        /\ nextBpNum' \in 1 .. MaxCommands + 2 /\ temp' \in Nums \cup {0}
        /\ nextBpNum' = nextBpNum + 1 /\ nextBpNum <= nextBpNum'
        /\ \A n \in Nums : n < nextBpNum => lineOf'[n] = lineOf[n]
    BY <1>1, <1>5, <1>6, BreakFacts, LinesAssumption
  <2>2. Serves
    BY <1>2, <1>3, <1>5, <1>6, <2>1 DEF Serves
  <2>3. ServerTyped'
    BY <1>1, <1>2, <1>6, <2>1 DEF ServerTyped
  <2>4. Numbered'
    BY <1>2, <1>3, <1>6, <2>1 DEF Numbered
  <2>5. Followed'
    BY <1>6 DEF Followed
  <2>6. QED
    BY <1>2, <1>4, <1>6, <2>2, <2>3, <2>4, <2>5, SilentStep
<1>7. CASE adopting' = "over" /\ Broadcast(<<Published(table, lineOf)>>) /\ UNCHANGED <<points, engine>>
  <2>1. Serves
    BY <1>2, <1>3, <1>5, <1>7 DEF Serves, points
  <2>2. ServerTyped'
    BY <1>1, <1>2, <1>7 DEF ServerTyped, points
  <2>3. Numbered'
    BY <1>2, <1>3, <1>7 DEF Numbered, points
  <2>4. Sent(<<Published(table', lineOf')>>)
    BY <1>7 DEF Sent, Broadcast, points
  <2>5. QED
    BY <1>2, <1>4, <2>1, <2>2, <2>3, <2>4, TableStep
<1>8. QED
  BY <1>2, <1>6, <1>7

\* A command that awaited a stop is over, or adopt() is.
LEMMA OverKeeps ==
  ASSUME IInv, Over, adopting' \in {"entry", "stopped", "resumed", "report", "over", "failed"},
         Limit(adopting') = Limit(adopting), resuming' = resuming, reporting' \in Nat
  PROVE  IInv'
<1>1. ServerTyped /\ Numbered /\ Spoken
  BY Parts DEF Talk
<1>2. /\ table' \subseteq table /\ Broadcast(<<Published(table', lineOf')>>)
      /\ UNCHANGED <<lineOf, nextBpNum, temp, target, up, asked>>
      /\ UNCHANGED <<page, refreshing, shown, bpList, sources, commands>>
  BY DEF Over, Page, Broadcast
<1>3. /\ nextBpNum \in Nat \ {0} /\ stops \in Nat /\ nextBpNum <= nextBpNum /\ stops <= stops
      /\ asked \in Seq(Asks) /\ (page = "closed" => asked = <<>>) /\ (engine = "stopped" => stops > 0)
  BY <1>1, Bounds DEF Numbered, ServerTyped, Spoken
<1>4. NoAskTaken
  BY <1>2 DEF NoAskTaken
<1>5. Serves
  BY <1>2, <1>3 DEF Serves, target
<1>6. ServerTyped'
  BY <1>1, <1>2 DEF ServerTyped, target
<1>7. Numbered'
  BY <1>1, <1>2 DEF Numbered, Limit
<1>8. Sent(<<Published(table', lineOf')>>)
  BY <1>2 DEF Sent, Broadcast
<1>9. QED
  BY <1>2, <1>4, <1>5, <1>6, <1>7, <1>8, TableStep

LEMMA ReportedKeeps ==
  ASSUME IInv, Reported
  PROVE  IInv'
<1>1. ServerTyped
  BY Parts
<1>2. Over /\ reporting' = reporting - 1 /\ reporting > 0 /\ adopting' = adopting /\ resuming' = resuming
  BY DEF Reported
<1>3. reporting' \in Nat /\ adopting \in {"entry", "stopped", "resumed", "report", "over", "failed"}
  BY <1>1, <1>2 DEF ServerTyped
<1>4. QED
  BY <1>2, <1>3, OverKeeps

LEMMA AdoptedKeeps ==
  ASSUME IInv, Adopted
  PROVE  IInv'
<1>1. ServerTyped /\ Numbered /\ Spoken
  BY Parts DEF Talk
<1>2. adopting = "report" /\ UNCHANGED <<resuming, reporting>>
  BY DEF Adopted
<1>3. CASE adopting' = "over" /\ Over
  <2>1. Limit(adopting') = Limit(adopting) /\ reporting' \in Nat
    BY <1>1, <1>2, <1>3 DEF Limit, ServerTyped
  <2>2. QED
    BY <1>2, <1>3, <2>1, OverKeeps
<1>4. CASE /\ engine = "gone" /\ adopting' = "failed"
           /\ UNCHANGED <<down, points, target, up, asked>> /\ Page
  <2>1. /\ nextBpNum \in Nat \ {0} /\ stops \in Nat /\ nextBpNum <= nextBpNum /\ stops <= stops
        /\ asked \in Seq(Asks) /\ (page = "closed" => asked = <<>>) /\ (engine = "stopped" => stops > 0)
    BY <1>1, Bounds DEF Numbered, ServerTyped, Spoken
  <2>2. NoAskTaken
    BY <1>4 DEF NoAskTaken
  <2>3. Serves
    BY <1>4, <2>1 DEF Serves, target, points, Page
  <2>4. ServerTyped'
    BY <1>1, <1>2, <1>4 DEF ServerTyped, target, points, Page
  <2>5. Numbered'
    BY <1>1, <1>2, <1>4 DEF Numbered, points, Page
  <2>6. Followed'
    BY <1>4 DEF Followed
  <2>7. QED
    BY <1>4, <2>2, <2>3, <2>4, <2>5, <2>6, SilentStep
<1>5. QED
  BY <1>3, <1>4 DEF Adopted

\* The first of the engine's questions is answered.
LEMMA EngineAnswersKeeps ==
  ASSUME IInv, EngineAnswers
  PROVE  IInv'
<1>1. ServerTyped /\ Numbered /\ Spoken /\ Followed
  BY Parts DEF Talk
<1> PICK m : m = Head(asked)
  OBVIOUS
<1> PICK a : a = Answer(m, TRUE)
  OBVIOUS
<1> PICK msgs : msgs = <<a>>
  OBVIOUS
<1>2. /\ engine = "stopped" /\ asked # <<>> /\ asked' = Tail(asked) /\ Sent(msgs)
      /\ UNCHANGED <<points, interpreter, target, up>>
      /\ UNCHANGED <<page, refreshing, shown, bpList, sources, commands>>
  BY DEF EngineAnswers, Page, Sent, Broadcast
<1>3. /\ m \in Asks /\ page = "open" /\ stops > 0 /\ stops \in Nat
      /\ asked' \in Seq(Asks)
  <2>1. asked \in Seq(Asks)
    BY <1>1 DEF Spoken
  <2>2. m \in Asks /\ Tail(asked) \in Seq(Asks)
    BY <1>2, <2>1, HitsTail
  <2>3. QED
    BY <1>1, <1>2, <2>2, Bounds DEF Spoken, ServerTyped
<1>4. a \in Messages /\ a.what = "answer" /\ a.stop = stops /\ \A q : a \in AnswersTo(q) <=> q = m
  BY <1>1, <1>3, SentFacts DEF ServerTyped
<1>5. msgs \in Seq(Messages) /\ \A k \in DOMAIN msgs : msgs[k] = a
  BY <1>4, OneMessage
<1>6. Serves
  <2>1. nextBpNum <= nextBpNum /\ stops <= stops
    BY <1>1, <1>3 DEF Numbered
  <2>2. QED
    BY <1>2, <1>3, <2>1 DEF Serves, points, target
<1>7. ServerTyped' /\ Numbered'
  BY <1>1, <1>2 DEF ServerTyped, Numbered, points, interpreter, target
<1>8. Followed'
  <2>1. /\ Labels(table', lineOf') = Labels(table, lineOf) /\ adopting' = adopting /\ up' = up
        /\ page' = page /\ bpList' = bpList
    BY <1>2 DEF points, interpreter
  <2>2. \A k \in DOMAIN msgs : msgs[k].what # "breakpoints"
    BY <1>4, <1>5
  <2>3. QED
    BY <1>1, <1>2, <1>5, <2>1, <2>2, FollowedStill
<1>9. ASSUME NEW q \in Asks
      PROVE  Hits(up', {q}) + Hits(asked', {q}) + (IF page = "open" THEN Hits(msgs, AnswersTo(q)) ELSE 0)
               = Hits(up, {q}) + Hits(asked, {q})
  <2> PICK t : t = Tail(asked)
    OBVIOUS
  <2>1. /\ t \in Seq(Asks) /\ Hits(asked, {q}) = Hits(t, {q}) + (IF m \in {q} THEN 1 ELSE 0)
        /\ asked' = t
    BY <1>1, <1>2, HitsTail DEF Spoken
  <2>2. Hits(t, {q}) \in Nat /\ Hits(up, {q}) \in Nat
    BY <1>1, <2>1, HitsType DEF Spoken
  <2>3. Hits(msgs, AnswersTo(q)) = IF m \in {q} THEN 1 ELSE 0
    BY <1>4, HitsOne
  <2>4. up' = up
    BY <1>2
  <2>5. QED
    BY <1>3, <2>1, <2>2, <2>3, <2>4
<1>10. \A k \in DOMAIN msgs : /\ msgs[k].stop <= stops' /\ (msgs[k].ok => msgs[k].stop > 0)
                              /\ msgs[k].what # "breakpoints"
  <2>1. \A n \in Nat : n <= n
    OBVIOUS
  <2>2. stops <= stops /\ stops' = stops
    BY <1>2, <1>3, <2>1 DEF target
  <2>3. a.stop <= stops' /\ a.stop > 0
    BY <1>3, <1>4, <2>2, Zenon
  <2>4. a.what # "breakpoints"
    BY <1>4
  <2>5. QED
    BY <1>5, <2>3, <2>4
<1>11. QED
  BY <1>2, <1>5, <1>6, <1>7, <1>8, <1>9, <1>10, ServerStep

LEMMA EngineStopsKeeps ==
  ASSUME IInv, NEW f \in Files, EngineStops(f)
  PROVE  IInv'
<1>1. ServerTyped /\ Numbered /\ Spoken /\ Followed
  BY Parts DEF Talk
<1> PICK m : m = [what |-> "stopped"]
  OBVIOUS
<1> PICK msgs : msgs = <<m>>
  OBVIOUS
<1>2. /\ engine = "running" /\ stops < MaxStops /\ engine' = "stopped" /\ stops' = stops + 1
      /\ fileOf' = [fileOf EXCEPT ![stops + 1] = f] /\ Sent(msgs)
      /\ reporting' = reporting + resuming /\ resuming' = 0
      /\ adopting' = CASE adopting = "entry" -> "stopped" [] adopting = "resumed" -> "report" [] OTHER -> adopting
      /\ UNCHANGED <<points, up, asked>>
      /\ UNCHANGED <<page, refreshing, shown, bpList, sources, commands>>
  BY DEF EngineStops, Page, Sent, Broadcast
<1>3. /\ m \in Messages /\ m.what = "stopped"
  BY DEF Messages, Notices
<1>4. msgs \in Seq(Messages) /\ \A k \in DOMAIN msgs : msgs[k] = m
  BY <1>3, OneMessage
<1>5. /\ stops \in Nat /\ stops' \in 0 .. MaxStops /\ stops <= stops' /\ stops' > 0 /\ stops + 1 \in Stops
      /\ \A n \in Stops : n <= stops => n # stops + 1
  BY <1>1, <1>2, Bounds DEF ServerTyped, Stops
<1>6. /\ adopting' \in {"entry", "stopped", "resumed", "report", "over", "failed"}
      /\ adopting' \in {"entry", "stopped"} <=> adopting \in {"entry", "stopped"}
      /\ adopting' \in {"resumed", "report", "failed"} <=> adopting \in {"resumed", "report", "failed"}
  <2>1. CASE adopting = "entry"
    BY <1>2, <2>1
  <2>2. CASE adopting = "resumed"
    BY <1>2, <2>2
  <2>3. CASE adopting \notin {"entry", "resumed"}
    BY <1>1, <1>2, <2>3 DEF ServerTyped
  <2>4. QED
    BY <2>1, <2>2, <2>3
<1>7. fileOf' \in [Stops -> Files] /\ \A n \in Stops : n <= stops => fileOf'[n] = fileOf[n]
  BY <1>1, <1>2, <1>5 DEF ServerTyped
<1>8. Serves
  <2>1. nextBpNum <= nextBpNum /\ asked \in Seq(Asks) /\ (page = "closed" => asked = <<>>)
    BY <1>1 DEF Numbered, Spoken
  <2>2. QED
    BY <1>2, <1>5, <1>7, <2>1 DEF Serves, points
<1>9. ServerTyped'
  BY <1>1, <1>2, <1>5, <1>6, <1>7 DEF ServerTyped, points
<1>10. Numbered'
  BY <1>1, <1>2, <1>6 DEF Numbered, points
<1>11. Followed'
  <2>1. /\ Labels(table', lineOf') = Labels(table, lineOf) /\ up' = up /\ page' = page /\ bpList' = bpList
    BY <1>2 DEF points
  <2>2. \A k \in DOMAIN msgs : msgs[k].what # "breakpoints"
    BY <1>3, <1>4
  <2>3. QED
    BY <1>1, <1>2, <1>4, <1>6, <2>1, <2>2, FollowedStill
<1>12. ASSUME NEW q \in Asks
       PROVE  Hits(up', {q}) + Hits(asked', {q}) + (IF page = "open" THEN Hits(msgs, AnswersTo(q)) ELSE 0)
                = Hits(up, {q}) + Hits(asked, {q})
  <2>1. Hits(msgs, AnswersTo(q)) = 0
    BY <1>3, HitsOne, MessageFacts
  <2>2. Hits(up, {q}) \in Nat /\ Hits(asked, {q}) \in Nat
    BY <1>1, HitsType DEF Spoken
  <2>3. up' = up /\ asked' = asked
    BY <1>2
  <2>4. QED
    BY <2>1, <2>2, <2>3
<1>13. \A k \in DOMAIN msgs : msgs[k].what \notin {"answer", "breakpoints"}
  BY <1>3, <1>4
<1>14. QED
  BY <1>2, <1>4, <1>8, <1>9, <1>10, <1>11, <1>12, <1>13, ServerStep

\* A function on 1 .. n is a sequence of length n.
LEMMA SequenceOf ==
  ASSUME NEW T, NEW n \in Nat, NEW s \in [1 .. n -> T]
  PROVE  s \in Seq(T)
OBVIOUS

\* What follows one message in front is the rest.
LEMMA InFront ==
  ASSUME NEW T, NEW x, NEW s, NEW all, x \in T, s \in Seq(T), all = <<x>> \o s
  PROVE  /\ all \in Seq(T)
         /\ \A k \in DOMAIN all : all[k] = x \/ \E i \in DOMAIN s : all[k] = s[i]
<1>1. <<x>> \in Seq(T) /\ Len(<<x>>) = 1 /\ <<x>>[1] = x
  OBVIOUS
<1>2. all \in Seq(T)
  BY <1>1
<1>3. ASSUME NEW k \in DOMAIN all
      PROVE  all[k] = x \/ \E i \in DOMAIN s : all[k] = s[i]
  <2>1. k \in 1 .. 1 + Len(s) /\ Len(s) \in Nat /\ DOMAIN s = 1 .. Len(s)
    BY <1>1
  <2>2. CASE k = 1
    BY <1>1, <2>1, <2>2
  <2>3. CASE k # 1
    <3>1. k - 1 \in DOMAIN s
      BY <2>1, <2>3
    <3>2. all[k] = s[k - 1]
      BY <1>1, <2>1, <2>3
    <3>3. QED
      BY <3>1, <3>2
  <2>4. QED
    BY <2>2, <2>3
<1>4. QED
  BY <1>2, <1>3

LEMMA MessagesInFront ==
  ASSUME NEW m \in Messages, NEW r \in Seq(Messages), NEW msgs, msgs = <<m>> \o r
  PROVE  /\ msgs \in Seq(Messages)
         /\ \A k \in DOMAIN msgs : msgs[k] = m \/ \E i \in DOMAIN r : msgs[k] = r[i]
<1>1. /\ msgs \in Seq(Messages)
      /\ \A k \in DOMAIN msgs : msgs[k] = m \/ \E i \in DOMAIN r : msgs[k] = r[i]
  BY InFront
<1>2. QED
  BY <1>1

\* The engine ends: whatever it was asked and did not answer is answered by a rejection.
LEMMA EngineEndsKeeps ==
  ASSUME IInv, EngineEnds
  PROVE  IInv'
<1>1. ServerTyped /\ Numbered /\ Spoken /\ Followed
  BY Parts DEF Talk
<1>a. PICK m : m = [what |-> "terminated"]
  OBVIOUS
<1>b. PICK rejected : rejected = [i \in DOMAIN asked |-> Answer(asked[i], FALSE)]
  OBVIOUS
<1>c. PICK msgs : msgs = <<m>> \o rejected
  OBVIOUS
<1>2. /\ engine # "gone" /\ engine' = "gone" /\ Sent(msgs) /\ asked' = <<>>
      /\ reporting' = reporting + resuming /\ resuming' = 0
      /\ adopting' = CASE adopting = "resumed" -> "report" [] adopting \in {"entry", "stopped"} -> "over"
                       [] OTHER -> adopting
      /\ UNCHANGED <<points, stops, fileOf, up>>
      /\ UNCHANGED <<page, refreshing, shown, bpList, sources, commands>>
  BY <1>a, <1>b, <1>c DEF EngineEnds, Page, Sent, Broadcast, Rejected
<1>3. /\ m \in Messages /\ m.what = "terminated" /\ <<m>> \in Seq(Messages)
  BY <1>a DEF Messages, Notices
<1>4. asked \in Seq(Asks) /\ DOMAIN asked = 1 .. Len(asked) /\ Len(asked) \in Nat
      /\ \A i \in DOMAIN asked : asked[i] \in Asks
  BY <1>1 DEF Spoken
<1>5. \A i \in DOMAIN asked :
        /\ rejected[i] \in Messages /\ rejected[i].what = "answer" /\ rejected[i].stop = stops
        /\ rejected[i].ok = FALSE
        /\ \A q : rejected[i] \in AnswersTo(q) <=> asked[i] \in {q}
  <2> TAKE i \in DOMAIN asked
  <2>1. rejected[i] = Answer(asked[i], FALSE) /\ asked[i] \in Asks
    BY <1>b, <1>4
  <2>2. QED
    BY <1>b, <1>1, <2>1, SentFacts DEF ServerTyped
<1>6. DOMAIN rejected = DOMAIN asked /\ rejected \in Seq(Messages)
  <2>1. DOMAIN rejected = DOMAIN asked
    BY <1>b
  <2>2. rejected \in [1 .. Len(asked) -> Messages]
    BY <1>b, <1>4, <1>5, <2>1
  <2>3. rejected \in Seq(Messages)
    BY <1>4, <2>2, SequenceOf, Zenon
  <2>4. QED
    BY <2>1, <2>3, Zenon
<1>7. /\ msgs \in Seq(Messages)
      /\ \A k \in DOMAIN msgs : msgs[k] = m \/ \E i \in DOMAIN asked : msgs[k] = rejected[i]
  <2>1. m \in Messages
    BY <1>3
  <2>2. /\ msgs \in Seq(Messages)
        /\ \A k \in DOMAIN msgs : msgs[k] = m \/ \E i \in DOMAIN rejected : msgs[k] = rejected[i]
    BY <1>6, <2>1, <1>c, MessagesInFront
  <2>3. QED
    BY <1>6, <2>2, Zenon
<1>8. /\ stops \in Nat /\ stops <= stops /\ nextBpNum <= nextBpNum
  BY <1>1, Bounds DEF ServerTyped, Numbered
<1>9. /\ adopting' \in {"entry", "stopped", "resumed", "report", "over", "failed"}
      /\ adopting' \in {"entry", "stopped"} => adopting \in {"entry", "stopped"}
      /\ adopting' \in {"resumed", "report", "failed"} <=> adopting \in {"resumed", "report", "failed"}
  <2>1. CASE adopting \in {"entry", "stopped"}
    BY <1>2, <2>1
  <2>2. CASE adopting = "resumed"
    BY <1>2, <2>2
  <2>3. CASE adopting \notin {"entry", "stopped", "resumed"}
    BY <1>1, <1>2, <2>3 DEF ServerTyped
  <2>4. QED
    BY <2>1, <2>2, <2>3
<1>10. Serves
  <2>1. asked' \in Seq(Asks)
    BY <1>2
  <2>2. QED
    BY <1>2, <1>8, <2>1 DEF Serves, points
<1>11. ServerTyped'
  BY <1>1, <1>2, <1>9 DEF ServerTyped, points
<1>12. Numbered'
  <2>1. Hits(up, Breaks) \in Nat /\ commands \in Nat
    BY <1>1, HitsType, Bounds DEF Spoken, ServerTyped
  <2>2. QED
    BY <1>1, <1>2, <1>9, <2>1 DEF Numbered, points
<1>13. Followed'
  <2>1. /\ Labels(table', lineOf') = Labels(table, lineOf) /\ up' = up /\ page' = page /\ bpList' = bpList
    BY <1>2 DEF points
  <2>2. \A k \in DOMAIN msgs : msgs[k].what # "breakpoints"
    BY <1>3, <1>5, <1>7
  <2>3. QED
    BY <1>1, <1>2, <1>7, <1>9, <2>1, <2>2, FollowedStill
<1>14. ASSUME NEW q \in Asks
       PROVE  Hits(up', {q}) + Hits(asked', {q}) + (IF page = "open" THEN Hits(msgs, AnswersTo(q)) ELSE 0)
                = Hits(up, {q}) + Hits(asked, {q})
  <2>1. Hits(msgs, AnswersTo(q)) = Hits(<<m>>, AnswersTo(q)) + Hits(rejected, AnswersTo(q))
    BY <1>3, <1>6, <1>c, HitsConcat
  <2>2. Hits(<<m>>, AnswersTo(q)) = 0
    BY <1>3, HitsOne, MessageFacts
  <2>3. Hits(rejected, AnswersTo(q)) = Hits(asked, {q})
    <3>1. DOMAIN rejected = DOMAIN asked /\ \A i \in DOMAIN asked : rejected[i] \in AnswersTo(q) <=> asked[i] \in {q}
      BY <1>5, <1>6, Zenon
    <3>2. {i \in DOMAIN rejected : rejected[i] \in AnswersTo(q)} = {i \in DOMAIN asked : asked[i] \in {q}}
      BY <3>1, Zenon
    <3>3. QED
      BY <3>2, Zenon DEF Hits
  <2>4. Hits(up, {q}) \in Nat /\ Hits(asked, {q}) \in Nat
    BY <1>1, HitsType DEF Spoken
  <2>5. Hits(asked', {q}) = 0 /\ Hits(up', {q}) = Hits(up, {q})
    BY <1>2, HitsNone
  <2>6. CASE page = "open"
    BY <2>1, <2>2, <2>3, <2>4, <2>5, <2>6
  <2>7. CASE page # "open"
    <3>1. asked = <<>>
      BY <1>1, <2>7 DEF Spoken, ServerTyped
    <3>2. Hits(asked, {q}) = 0
      BY <3>1, HitsNone
    <3>3. QED
      BY <2>4, <2>5, <2>7, <3>2
  <2>8. QED
    BY <2>6, <2>7
<1>15. \A k \in DOMAIN msgs :
         /\ msgs[k].what = "answer" => msgs[k].stop <= stops' /\ (msgs[k].ok => msgs[k].stop > 0)
         /\ msgs[k].what # "breakpoints"
  <2> TAKE k \in DOMAIN msgs
  <2>1. CASE msgs[k] = m
    BY <1>3, <2>1
  <2>2. CASE \E i \in DOMAIN asked : msgs[k] = rejected[i]
    <3>1. PICK i \in DOMAIN asked : msgs[k] = rejected[i]
      BY <2>2
    <3>2. msgs[k].stop = stops /\ msgs[k].ok = FALSE /\ msgs[k].what = "answer" /\ stops' = stops
      BY <1>2, <1>5, <3>1
    <3>3. msgs[k].stop <= stops'
      BY <1>8, <3>2, Zenon
    <3>4. QED
      BY <3>2, <3>3
  <2>3. QED
    BY <1>7, <2>1, <2>2
<1>16. QED
  BY <1>2, <1>7, <1>10, <1>11, <1>12, <1>13, <1>14, <1>15, ServerStep

-----------------------------------------------------------------------------
(* The theorems                                                             *)

LEMMA NextKeeps == IInv /\ [Next]_vars => IInv'
<1> SUFFICES ASSUME IInv, [Next]_vars PROVE IInv'
  OBVIOUS
<1>1. CASE OnOpen
  BY <1>1, OnOpenKeeps
<1>2. CASE OnFrame
  BY <1>2, OnFrameKeeps
<1>3. CASE Timeout
  BY <1>3, TimeoutKeeps
<1>4. CASE Resume
  BY <1>4, ResumeKeeps
<1>5. ASSUME NEW f \in Files, Fetched(f) PROVE IInv'
  BY <1>5, FetchedKeeps
<1>6. ASSUME NEW l \in Lines, Toggle(l) PROVE IInv'
  BY <1>6, ToggleKeeps
<1>7. CASE ClientMessage
  BY <1>7, ClientMessageKeeps
<1>8. CASE OtherClient
  BY <1>8, OtherClientKeeps
<1>9. CASE AdoptMain
  BY <1>9, AdoptMainKeeps
<1>10. CASE Reported
  BY <1>10, ReportedKeeps
<1>11. CASE Adopted
  BY <1>11, AdoptedKeeps
<1>12. ASSUME NEW f \in Files, EngineStops(f) PROVE IInv'
  BY <1>12, EngineStopsKeeps
<1>13. CASE EngineAnswers
  BY <1>13, EngineAnswersKeeps
<1>14. CASE EngineEnds
  BY <1>14, EngineEndsKeeps
<1>15. CASE UNCHANGED vars
  <2>1. Talk /\ PageTyped /\ ServerTyped /\ Counts /\ Held
    BY Parts
  <2>2. Talk'
    BY <1>15, <2>1, TalkSame DEF vars
  <2>3. PageTyped' /\ ServerTyped' /\ Held'
    BY <1>15, <2>1 DEF vars, PageTyped, ServerTyped, Held, refreshing, shown, sources, points, interpreter, target
  <2>4. at' = at /\ \A q \in Asks : OnItsWay(q)' = OnItsWay(q)
    BY <1>15 DEF vars, OnItsWay, refreshing
  <2>5. Counts'
    BY <2>1, <2>4, NoneMoves
  <2>6. QED
    BY <2>2, <2>3, <2>5, PartsNext
<1>16. QED
  BY <1>1, <1>2, <1>3, <1>4, <1>5, <1>6, <1>7, <1>8, <1>9, <1>10, <1>11, <1>12, <1>13, <1>14, <1>15 DEF Next

\* The inductive invariant: what is known of every message that is on its way, in
\* every state of the page, the server and the engine.
THEOREM Invariance == Spec => []IInv
<1>1. Init => IInv
  BY InitHolds
<1>2. IInv /\ [Next]_vars => IInv'
  BY NextKeeps
<1>3. QED
  BY <1>1, <1>2, PTL DEF Spec

\* The variables have their types: no number is given to two refreshes, no file is
\* fetched twice at a time, and breakpoints are numbered one by one.
THEOREM TypeCorrect == Spec => []TypeOK
<1>1. IInv => TypeOK
  BY DEF IInv
<1>2. QED
  BY <1>1, Invariance, PTL

\* When everything has arrived the gutter shows the server's table, whatever else
\* edits it; and a click never deletes a breakpoint of another line.
THEOREM GutterCorrect == Spec => []GutterIsTrue
<1>1. IInv => GutterIsTrue
  <2> SUFFICES ASSUME IInv PROVE GutterIsTrue
    OBVIOUS
  <2>1. Followed /\ Labelled
    BY DEF IInv
  <2>2. ASSUME Quiet, adopting \notin {"resumed", "report", "failed"} PROVE bpList = Labels(table, lineOf)
    BY <2>1, <2>2 DEF Quiet, Followed
  <2>3. ASSUME NEW i \in DOMAIN up, up[i].what = "delete" PROVE lineOf[up[i].num] = up[i].line
    BY <2>1, <2>3 DEF Labelled, StillTrue
  <2>4. QED
    BY <2>2, <2>3 DEF GutterIsTrue
<1>2. QED
  BY <1>1, Invariance, PTL

\* A refresh that awaits an answer has exactly one question on its way, with the
\* engine or answered; one that awaits a file has its fetch.
THEOREM RefreshesCorrect == Spec => []NoRefreshIsLost
<1>1. IInv => NoRefreshIsLost
  <2> SUFFICES ASSUME IInv, NEW r \in DOMAIN at
               PROVE  /\ at[r] \in {"stack", "scopes", "variables"} => OnItsWay(Ask(r, at[r])) = 1
                      /\ at[r] = "source" => fetches[fileOf[got[r]]] = 1
    BY DEF NoRefreshIsLost
  <2>1. Counts /\ Held /\ PageTyped
    BY Parts
  <2>2. r \in Refreshes \/ r = Query
    BY <2>1 DEF PageTyped
  <2>3. CASE r \in Refreshes
    BY <2>1, <2>3 DEF Counts, Held, Whats
  <2>4. CASE r = Query
    BY <2>1, <2>4 DEF Counts
  <2>5. QED
    BY <2>2, <2>3, <2>4
<1>2. QED
  BY <1>1, Invariance, PTL

-----------------------------------------------------------------------------
(* The order of stack requests                                              *)

Asked(m) == StackOf(m) \in Refreshes \cup {0}

LEMMA StackOfAsks ==
  /\ \A q \in Asks : StackOf(q) = IF q.what = "stack" THEN q.of ELSE 0
  /\ \A m \in Messages : m.what = "answer" => StackOf(m) = StackOf(m.to)
  /\ \A m \in Messages : m.what # "answer" => StackOf(m) = 0
  /\ \A c \in Commands : StackOf(c) = 0
<1>1. \A q \in Asks : q.what \in Whats
  BY AskFacts
<1>2. \A c \in Commands : c.what \in {"empty", "break", "delete", "continue"}
  BY DEF Commands
<1>3. \A q \in Asks : StackOf(q) = IF q.what = "stack" THEN q.of ELSE 0
  BY <1>1 DEF StackOf, Whats
<1>4. \A c \in Commands : StackOf(c) = 0
  BY <1>2 DEF StackOf
<1>5. \A m \in Messages : m.what # "answer" => StackOf(m) = 0
  BY MessageFacts DEF StackOf
<1>6. ASSUME NEW m \in Messages, m.what = "answer" PROVE StackOf(m) = StackOf(m.to)
  <2>1. m.to \in Asks
    BY <1>6, MessageFacts
  <2>2. QED
    BY <1>3, <1>6, <2>1 DEF StackOf
<1>7. QED
  BY <1>3, <1>4, <1>5, <1>6

LEMMA AskedAll == \A m \in Asks \cup Commands \cup Messages : Asked(m)
<1>1. \A q \in Asks : Asked(q)
  BY StackOfAsks, AskFacts DEF Asked, Query
<1>2. \A m \in Messages : Asked(m)
  BY <1>1, StackOfAsks, MessageFacts DEF Asked
<1>3. QED
  BY <1>1, <1>2, StackOfAsks DEF Asked

LEMMA AskedNat == \A m : Asked(m) => StackOf(m) \in Nat
BY DEF Asked, Refreshes

LEMMA ConcatAt ==
  ASSUME NEW T, NEW q \in Seq(T), NEW s \in Seq(T), NEW r, r = q \o s
  PROVE  /\ r \in Seq(T) /\ Len(q) \in Nat /\ DOMAIN q = 1 .. Len(q)
         /\ \A i \in DOMAIN r : i \in Nat
         /\ \A i \in DOMAIN r : \/ i \in DOMAIN q /\ r[i] = q[i]
                                \/ i > Len(q) /\ i - Len(q) \in DOMAIN s /\ r[i] = s[i - Len(q)]
OBVIOUS

LEMMA AppendAt ==
  ASSUME NEW T, NEW q \in Seq(T), NEW x \in T, NEW r, r = Append(q, x)
  PROVE  /\ r \in Seq(T) /\ Len(q) \in Nat /\ DOMAIN q = 1 .. Len(q)
         /\ \A i \in DOMAIN r : i \in Nat
         /\ \A i \in DOMAIN r : \/ i \in DOMAIN q /\ r[i] = q[i]
                                \/ i = Len(q) + 1 /\ r[i] = x
OBVIOUS

LEMMA TailAt ==
  ASSUME NEW T, NEW q \in Seq(T), q # <<>>, NEW r, r = Tail(q)
  PROVE  /\ r \in Seq(T) /\ 1 \in DOMAIN q /\ q[1] = Head(q) /\ Head(q) \in T
         /\ \A i \in DOMAIN q : i \in Nat
         /\ \A i \in DOMAIN r : i + 1 \in DOMAIN q /\ r[i] = q[i + 1] /\ i \in Nat
         /\ \A i \in DOMAIN q : i # 1 => i > 1
OBVIOUS

\* Messages that ask for no stack change no order.
LEMMA RisingExtends ==
  ASSUME NEW T, NEW q \in Seq(T), NEW s \in Seq(T), Rising(q),
         \A k \in DOMAIN s : StackOf(s[k]) = 0, NEW r, r = q \o s
  PROVE  Rising(r)
<1> SUFFICES ASSUME NEW i \in DOMAIN r, NEW j \in DOMAIN r, i < j, StackOf(r[j]) > 0
             PROVE  StackOf(r[i]) < StackOf(r[j])
  BY DEF Rising
<1>1. j \in DOMAIN q /\ r[j] = q[j]
  <2>1. \/ j \in DOMAIN q /\ r[j] = q[j]
        \/ j - Len(q) \in DOMAIN s /\ r[j] = s[j - Len(q)]
    BY ConcatAt
  <2>2. \A n : n = 0 => ~(n > 0)
    OBVIOUS
  <2>3. QED
    BY <2>1, <2>2
<1>2. i \in DOMAIN q /\ r[i] = q[i]
  <2>1. /\ \/ i \in DOMAIN q /\ r[i] = q[i]
           \/ i > Len(q)
        /\ i \in Nat /\ j \in Nat /\ Len(q) \in Nat /\ DOMAIN q = 1 .. Len(q)
    BY ConcatAt
  <2>2. QED
    BY <1>1, <2>1
<1>3. QED
  BY <1>1, <1>2 DEF Rising

LEMMA RisingAppend ==
  ASSUME NEW T, NEW q \in Seq(T), NEW x \in T, Rising(q),
         StackOf(x) > 0 => \A i \in DOMAIN q : StackOf(q[i]) < StackOf(x), NEW r, r = Append(q, x)
  PROVE  Rising(r)
<1> SUFFICES ASSUME NEW i \in DOMAIN r, NEW j \in DOMAIN r, i < j, StackOf(r[j]) > 0
             PROVE  StackOf(r[i]) < StackOf(r[j])
  BY DEF Rising
<1>1. /\ i \in DOMAIN q /\ r[i] = q[i]
      /\ \/ j \in DOMAIN q /\ r[j] = q[j]
         \/ r[j] = x
  <2>1. /\ \/ i \in DOMAIN q /\ r[i] = q[i]
           \/ i = Len(q) + 1
        /\ \/ j \in DOMAIN q /\ r[j] = q[j]
           \/ j = Len(q) + 1 /\ r[j] = x
        /\ i \in Nat /\ j \in Nat /\ Len(q) \in Nat /\ DOMAIN q = 1 .. Len(q)
    BY AppendAt
  <2>2. QED
    BY <2>1
<1>2. QED
  BY <1>1 DEF Rising

LEMMA RisingTail ==
  ASSUME NEW T, NEW q \in Seq(T), q # <<>>, Rising(q), NEW r, r = Tail(q)
  PROVE  /\ Rising(r)
         /\ \A i \in DOMAIN r : StackOf(r[i]) > 0 => StackOf(Head(q)) < StackOf(r[i])
<1>1. /\ 1 \in DOMAIN q /\ q[1] = Head(q)
      /\ \A i \in DOMAIN r : i + 1 \in DOMAIN q /\ r[i] = q[i + 1] /\ i \in Nat
      /\ \A i \in DOMAIN q : i \in Nat /\ (i # 1 => i > 1)
  BY TailAt
<1>2. ASSUME NEW i \in DOMAIN r, NEW j \in DOMAIN r, i < j, StackOf(r[j]) > 0
      PROVE  StackOf(r[i]) < StackOf(r[j])
  <2>1. i + 1 < j + 1 /\ i + 1 \in DOMAIN q /\ j + 1 \in DOMAIN q /\ r[i] = q[i + 1] /\ r[j] = q[j + 1]
    BY <1>1, <1>2
  <2>2. QED
    BY <1>2, <2>1 DEF Rising
<1>3. ASSUME NEW i \in DOMAIN r, StackOf(r[i]) > 0 PROVE StackOf(Head(q)) < StackOf(r[i])
  <2>1. 1 < i + 1 /\ i + 1 \in DOMAIN q /\ r[i] = q[i + 1]
    BY <1>1, <1>3
  <2>2. QED
    BY <1>1, <1>3, <2>1 DEF Rising
<1>4. QED
  BY <1>2, <1>3 DEF Rising

\* Every message of a queue asks for no stack, or was in another before.
Within(p, q) == \A i \in DOMAIN p : StackOf(p[i]) = 0 \/ \E j \in DOMAIN q : StackOf(p[i]) = StackOf(q[j])

LEMMA WithinExtends ==
  ASSUME NEW T, NEW q \in Seq(T), NEW s \in Seq(T), \A k \in DOMAIN s : StackOf(s[k]) = 0, NEW r, r = q \o s
  PROVE  Within(r, q)
<1> SUFFICES ASSUME NEW i \in DOMAIN r PROVE StackOf(r[i]) = 0 \/ \E j \in DOMAIN q : StackOf(r[i]) = StackOf(q[j])
  BY DEF Within
<1>1. \/ i \in DOMAIN q /\ r[i] = q[i]
      \/ i - Len(q) \in DOMAIN s /\ r[i] = s[i - Len(q)]
  BY ConcatAt
<1>2. QED
  BY <1>1

LEMMA WithinTail ==
  ASSUME NEW T, NEW q \in Seq(T), q # <<>>, NEW r, r = Tail(q)
  PROVE  Within(r, q)
<1>1. \A i \in DOMAIN r : i + 1 \in DOMAIN q /\ r[i] = q[i + 1]
  BY TailAt
<1>2. QED
  BY <1>1 DEF Within

LEMMA WithinSelf == \A q : Within(q, q)
BY DEF Within

LEMMA BelowWithin ==
  ASSUME NEW p, NEW q, NEW p1, NEW q1, Below(p, q), Within(p1, p), Within(q1, q)
  PROVE  Below(p1, q1)
<1> SUFFICES ASSUME NEW i \in DOMAIN p1, NEW j \in DOMAIN q1, StackOf(q1[j]) > 0
             PROVE  StackOf(p1[i]) < StackOf(q1[j])
  BY DEF Below
<1>1. PICK k \in DOMAIN q : StackOf(q1[j]) = StackOf(q[k])
  <2>1. \A n : n = 0 => ~(n > 0)
    OBVIOUS
  <2>2. QED
    BY <2>1 DEF Within
<1>2. CASE StackOf(p1[i]) = 0
  <2>1. \A n : n > 0 => 0 < n
    OBVIOUS
  <2>2. QED
    BY <1>2, <2>1
<1>3. CASE \E h \in DOMAIN p : StackOf(p1[i]) = StackOf(p[h])
  BY <1>1, <1>3 DEF Below
<1>4. QED
  BY <1>2, <1>3 DEF Within

LEMMA BelowAppend ==
  ASSUME NEW T, NEW p, NEW q \in Seq(T), NEW x \in T, Below(p, q),
         StackOf(x) > 0 => \A i \in DOMAIN p : StackOf(p[i]) < StackOf(x), NEW r, r = Append(q, x)
  PROVE  Below(p, r)
<1> SUFFICES ASSUME NEW i \in DOMAIN p, NEW j \in DOMAIN r, StackOf(r[j]) > 0
             PROVE  StackOf(p[i]) < StackOf(r[j])
  BY DEF Below
<1>1. \/ j \in DOMAIN q /\ r[j] = q[j]
      \/ r[j] = x
  BY AppendAt
<1>2. QED
  BY <1>1 DEF Below

LEMMA AppendBelow ==
  ASSUME NEW T, NEW p \in Seq(T), NEW q, NEW x \in T, Below(p, q),
         \A j \in DOMAIN q : StackOf(q[j]) > 0 => StackOf(x) < StackOf(q[j]), NEW r, r = Append(p, x)
  PROVE  Below(r, q)
<1> SUFFICES ASSUME NEW i \in DOMAIN r, NEW j \in DOMAIN q, StackOf(q[j]) > 0
             PROVE  StackOf(r[i]) < StackOf(q[j])
  BY DEF Below
<1>1. \/ i \in DOMAIN p /\ r[i] = p[i]
      \/ r[i] = x
  BY AppendAt
<1>2. QED
  BY <1>1 DEF Below

LEMMA InLineNext ==
  InLine' <=> /\ Rising(down') /\ Rising(asked') /\ Rising(up')
              /\ Below(down', asked') /\ Below(down', up') /\ Below(asked', up')
BY DEF InLine, Rising, Below

\* The page takes a message, or none, and asks for no stack.
LEMMA PageInLine ==
  ASSUME Spoken, InLine, asked' = asked, down' = down \/ (down # <<>> /\ down' = Tail(down)),
         NEW s \in Seq(Asks \cup Commands), \A k \in DOMAIN s : StackOf(s[k]) = 0, up' = up \o s
  PROVE  InLine'
<1>1. up \in Seq(Asks \cup Commands) /\ down \in Seq(Messages)
  BY DEF Spoken
<1>2. Rising(up') /\ Within(up', up)
  BY <1>1, RisingExtends, WithinExtends DEF InLine
<1>3. Rising(down') /\ Within(down', down)
  <2>1. CASE down' = down
    BY <2>1, WithinSelf DEF InLine
  <2>2. CASE down # <<>> /\ down' = Tail(down)
    BY <1>1, <2>2, RisingTail, WithinTail DEF InLine
  <2>3. QED
    BY <2>1, <2>2
<1>4. Below(down', asked') /\ Below(down', up') /\ Below(asked', up')
  BY <1>2, <1>3, WithinSelf, BelowWithin DEF InLine
<1>5. QED
  BY <1>2, <1>3, <1>4, InLineNext DEF InLine

\* A refresh that comes after all others asks for its stack.
LEMMA BeginInLine ==
  ASSUME Spoken, InLine, asked' = asked, down # <<>>, down' = Tail(down),
         NEW r \in Refreshes, up' = Append(up, Ask(r, "stack")),
         \A i \in DOMAIN up : StackOf(up[i]) < r,
         \A i \in DOMAIN asked : StackOf(asked[i]) < r,
         \A i \in DOMAIN down : StackOf(down[i]) < r
  PROVE  InLine'
<1>1. up \in Seq(Asks \cup Commands) /\ down \in Seq(Messages)
  BY DEF Spoken
<1>2. Ask(r, "stack") \in Asks /\ StackOf(Ask(r, "stack")) = r
  BY AskFacts, StackOfAsks DEF Whats
<1>3. Rising(down') /\ Within(down', down)
  BY <1>1, RisingTail, WithinTail DEF InLine
<1> PICK x : x = Ask(r, "stack")
  OBVIOUS
<1> PICK u : u = up'
  OBVIOUS
<1>4. /\ x \in Asks \cup Commands /\ StackOf(x) = r /\ u = Append(up, x) /\ up' = u
      /\ \A i \in DOMAIN up : StackOf(up[i]) < StackOf(x)
      /\ \A i \in DOMAIN asked : StackOf(asked[i]) < StackOf(x)
      /\ \A i \in DOMAIN down : StackOf(down[i]) < StackOf(x)
  BY <1>2
<1>5. Rising(u)
  BY <1>1, <1>4, RisingAppend DEF InLine
<1>6. Below(down, u) /\ Below(asked, u)
  BY <1>1, <1>4, BelowAppend DEF InLine
<1>7. Below(down', asked') /\ Below(down', u) /\ Below(asked', u)
  BY <1>3, <1>6, WithinSelf, BelowWithin DEF InLine
<1>8. QED
  BY <1>3, <1>4, <1>5, <1>7, InLineNext DEF InLine

\* The server passes a question on.
LEMMA PassedInLine ==
  ASSUME Spoken, InLine, up # <<>>, up' = Tail(up), Head(up) \in Asks, asked' = Append(asked, Head(up)),
         down' = down
  PROVE  InLine'
<1>1. up \in Seq(Asks \cup Commands) /\ down \in Seq(Messages) /\ asked \in Seq(Asks)
  BY DEF Spoken
<1> PICK x : x = Head(up)
  OBVIOUS
<1> PICK u : u = Tail(up)
  OBVIOUS
<1> PICK a : a = Append(asked, x)
  OBVIOUS
<1>2. x \in Asks /\ up' = u /\ asked' = a
  OBVIOUS
<1>3. Rising(u) /\ Within(u, up) /\ \A i \in DOMAIN u : StackOf(u[i]) > 0 => StackOf(x) < StackOf(u[i])
  BY <1>1, RisingTail, WithinTail DEF InLine
<1>4. 1 \in DOMAIN up /\ up[1] = x
  BY <1>1, TailAt
<1>5. /\ StackOf(x) > 0 => \A i \in DOMAIN asked : StackOf(asked[i]) < StackOf(x)
      /\ StackOf(x) > 0 => \A i \in DOMAIN down : StackOf(down[i]) < StackOf(x)
  BY <1>4 DEF InLine, Below
<1>6. Rising(a)
  BY <1>1, <1>2, <1>5, RisingAppend DEF InLine
<1>7. Below(down, a)
  BY <1>1, <1>2, <1>5, BelowAppend DEF InLine
<1>8. Below(asked, u) /\ Below(down, u)
  BY <1>3, WithinSelf, BelowWithin DEF InLine
<1>9. Below(a, u)
  BY <1>1, <1>2, <1>3, <1>8, AppendBelow
<1>10. QED
  BY <1>2, <1>3, <1>6, <1>7, <1>8, <1>9, InLineNext DEF InLine

\* The engine answers.
LEMMA AnsweredInLine ==
  ASSUME Spoken, InLine, asked # <<>>, asked' = Tail(asked), up' = up,
         NEW m \in Messages, StackOf(m) = StackOf(Head(asked)), down' = Append(down, m)
  PROVE  InLine'
<1>1. up \in Seq(Asks \cup Commands) /\ down \in Seq(Messages) /\ asked \in Seq(Asks)
  BY DEF Spoken
<1> PICK x : x = Head(asked)
  OBVIOUS
<1> PICK a : a = Tail(asked)
  OBVIOUS
<1> PICK d : d = Append(down, m)
  OBVIOUS
<1>2. StackOf(m) = StackOf(x) /\ asked' = a /\ down' = d
  OBVIOUS
<1>3. Rising(a) /\ Within(a, asked) /\ \A i \in DOMAIN a : StackOf(a[i]) > 0 => StackOf(m) < StackOf(a[i])
  BY <1>1, <1>2, RisingTail, WithinTail DEF InLine
<1>4. 1 \in DOMAIN asked /\ asked[1] = x
  BY <1>1, TailAt
<1>5. /\ StackOf(m) > 0 => \A i \in DOMAIN down : StackOf(down[i]) < StackOf(m)
      /\ \A i \in DOMAIN up : StackOf(up[i]) > 0 => StackOf(m) < StackOf(up[i])
  BY <1>2, <1>4 DEF InLine, Below
<1>6. Rising(d)
  BY <1>1, <1>5, RisingAppend DEF InLine
<1>7. Below(down, a) /\ Below(a, up)
  BY <1>3, WithinSelf, BelowWithin DEF InLine
<1>8. Below(d, up)
  BY <1>1, <1>5, AppendBelow DEF InLine
<1>9. Below(d, a)
  BY <1>1, <1>3, <1>7, AppendBelow
<1>10. QED
  BY <1>2, <1>3, <1>6, <1>7, <1>8, <1>9, InLineNext DEF InLine

\* The server takes a command, or nothing, and tells of no stack.
LEMMA ServerInLine ==
  ASSUME Spoken, InLine, asked' = asked, up' = up \/ (up # <<>> /\ up' = Tail(up)),
         NEW msgs \in Seq(Messages), \A k \in DOMAIN msgs : StackOf(msgs[k]) = 0,
         down' = down \/ down' = down \o msgs
  PROVE  InLine'
<1>1. up \in Seq(Asks \cup Commands) /\ down \in Seq(Messages)
  BY DEF Spoken
<1>2. Rising(up') /\ Within(up', up)
  <2>1. CASE up' = up
    BY <2>1, WithinSelf DEF InLine
  <2>2. CASE up # <<>> /\ up' = Tail(up)
    BY <1>1, <2>2, RisingTail, WithinTail DEF InLine
  <2>3. QED
    BY <2>1, <2>2
<1>3. Rising(down') /\ Within(down', down)
  <2>1. CASE down' = down
    BY <2>1, WithinSelf DEF InLine
  <2>2. CASE down' = down \o msgs
    BY <1>1, <2>2, RisingExtends, WithinExtends DEF InLine
  <2>3. QED
    BY <2>1, <2>2
<1>4. Below(down', asked') /\ Below(down', up') /\ Below(asked', up')
  BY <1>2, <1>3, WithinSelf, BelowWithin DEF InLine
<1>5. QED
  BY <1>2, <1>3, <1>4, InLineNext DEF InLine

-----------------------------------------------------------------------------
(* Whose turn it is                                                          *)

\* A message that asks for, or tells, the stack of a refresh: that refresh awaits it.
LEMMA OnTheirWay ==
  ASSUME IInv
  PROVE  /\ \A i \in DOMAIN up : StackOf(up[i]) \in Refreshes \cup {0} /\ (StackOf(up[i]) > 0 => at[StackOf(up[i])] = "stack")
         /\ \A i \in DOMAIN asked : StackOf(asked[i]) \in Refreshes \cup {0} /\ (StackOf(asked[i]) > 0 => at[StackOf(asked[i])] = "stack")
         /\ \A i \in DOMAIN down : StackOf(down[i]) \in Refreshes \cup {0} /\ (StackOf(down[i]) > 0 => at[StackOf(down[i])] = "stack")
<1>1. up \in Seq(Asks \cup Commands) /\ down \in Seq(Messages) /\ asked \in Seq(Asks) /\ Counts
  BY Parts DEF Talk, Spoken
<1>2. ASSUME NEW q \in Asks
      PROVE  /\ Hits(up, {q}) \in Nat /\ Hits(asked, {q}) \in Nat /\ Hits(down, AnswersTo(q)) \in Nat
             /\ (Hits(up, {q}) > 0 \/ Hits(asked, {q}) > 0 \/ Hits(down, AnswersTo(q)) > 0) => OnItsWay(q) > 0
  <2>1. /\ Hits(up, {q}) \in Nat /\ Hits(asked, {q}) \in Nat /\ Hits(down, AnswersTo(q)) \in Nat
        /\ OnItsWay(q) = Hits(up, {q}) + Hits(asked, {q}) + Hits(down, AnswersTo(q))
    BY <1>1, HitsType DEF OnItsWay
  <2>2. QED
    BY <2>1
<1>3. ASSUME NEW q \in Asks, OnItsWay(q) > 0, StackOf(q) > 0 PROVE at[StackOf(q)] = "stack"
  <2>1. q.what = "stack" /\ StackOf(q) = q.of /\ q.of \in Refreshes /\ q = Ask(q.of, "stack")
    BY <1>3, StackOfAsks, AskFacts DEF Query
  <2>2. OnItsWay(Ask(q.of, "stack")) = IF at[q.of] = "stack" THEN 1 ELSE 0
    BY <1>1, <2>1 DEF Counts, Whats
  <2>3. QED
    BY <1>3, <2>1, <2>2
<1>4. ASSUME NEW i \in DOMAIN up
      PROVE  Asked(up[i]) /\ (StackOf(up[i]) > 0 => at[StackOf(up[i])] = "stack")
  <2>1. up[i] \in Asks \cup Commands
    BY <1>1
  <2>2. ASSUME StackOf(up[i]) > 0 PROVE at[StackOf(up[i])] = "stack"
    <3>1. up[i] \in Asks
      BY <2>1, <2>2, StackOfAsks
    <3>2. Hits(up, {up[i]}) > 0
      BY <1>1, HitsSome
    <3>3. OnItsWay(up[i]) > 0
      BY <1>2, <3>1, <3>2
    <3>4. QED
      BY <1>3, <2>2, <3>1, <3>3
  <2>3. QED
    BY <2>1, <2>2, AskedAll
<1>5. ASSUME NEW i \in DOMAIN asked
      PROVE  Asked(asked[i]) /\ (StackOf(asked[i]) > 0 => at[StackOf(asked[i])] = "stack")
  <2>1. asked[i] \in Asks
    BY <1>1
  <2>2. Hits(asked, {asked[i]}) > 0
    BY <1>1, HitsSome
  <2>3. OnItsWay(asked[i]) > 0
    BY <1>2, <2>1, <2>2
  <2>4. QED
    BY <1>3, <2>1, <2>3, AskedAll
<1>6. ASSUME NEW i \in DOMAIN down
      PROVE  Asked(down[i]) /\ (StackOf(down[i]) > 0 => at[StackOf(down[i])] = "stack")
  <2>1. down[i] \in Messages
    BY <1>1
  <2>2. ASSUME StackOf(down[i]) > 0 PROVE at[StackOf(down[i])] = "stack"
    <3>1. down[i].what = "answer" /\ down[i].to \in Asks /\ down[i] \in AnswersTo(down[i].to)
      BY <2>1, <2>2, StackOfAsks, MessageFacts
    <3>2. Hits(down, AnswersTo(down[i].to)) > 0
      BY <1>1, <3>1, HitsSome
    <3>3. OnItsWay(down[i].to) > 0
      BY <1>2, <3>1, <3>2
    <3>4. StackOf(down[i]) = StackOf(down[i].to)
      BY <2>1, <3>1, StackOfAsks
    <3>5. QED
      BY <1>3, <2>2, <3>1, <3>3, <3>4
  <2>3. QED
    BY <2>1, <2>2, AskedAll
<1>7. QED
  BY <1>4, <1>5, <1>6 DEF Asked

\* A refresh that awaits its stack has its question in one of the queues.
LEMMA OneOfThem ==
  ASSUME IInv, NEW r \in Refreshes, at[r] = "stack"
  PROVE  \/ \E i \in DOMAIN up : StackOf(up[i]) = r
         \/ \E i \in DOMAIN asked : StackOf(asked[i]) = r
         \/ \E i \in DOMAIN down : StackOf(down[i]) = r
<1>1. up \in Seq(Asks \cup Commands) /\ down \in Seq(Messages) /\ asked \in Seq(Asks) /\ Counts
  BY Parts DEF Talk, Spoken
<1> PICK q : q = Ask(r, "stack")
  OBVIOUS
<1>2. q \in Asks /\ StackOf(q) = r /\ OnItsWay(q) = 1
  BY <1>1, AskFacts, StackOfAsks DEF Counts, Whats
<1>3. /\ Hits(up, {q}) \in Nat /\ Hits(asked, {q}) \in Nat /\ Hits(down, AnswersTo(q)) \in Nat
      /\ Hits(up, {q}) + Hits(asked, {q}) + Hits(down, AnswersTo(q)) = 1
  BY <1>1, <1>2, HitsType DEF OnItsWay
<1>4. Hits(up, {q}) > 0 \/ Hits(asked, {q}) > 0 \/ Hits(down, AnswersTo(q)) > 0
  BY <1>3
<1>5. CASE Hits(up, {q}) > 0
  <2>1. PICK i \in DOMAIN up : up[i] \in {q}
    BY <1>1, <1>5, HitsSome
  <2>2. QED
    BY <1>2, <2>1
<1>6. CASE Hits(asked, {q}) > 0
  <2>1. PICK i \in DOMAIN asked : asked[i] \in {q}
    BY <1>1, <1>6, HitsSome
  <2>2. QED
    BY <1>2, <2>1
<1>7. CASE Hits(down, AnswersTo(q)) > 0
  <2>1. PICK i \in DOMAIN down : down[i] \in AnswersTo(q)
    BY <1>1, <1>7, HitsSome
  <2>2. down[i] \in Messages /\ down[i].what = "answer" /\ down[i].to = q
    BY <1>1, <2>1, MessageFacts
  <2>3. StackOf(down[i]) = r
    BY <1>2, <2>2, StackOfAsks
  <2>4. QED
    BY <2>3
<1>8. QED
  BY <1>4, <1>5, <1>6, <1>7

\* The refresh whose stack comes is the first of those that await theirs.
LEMMA FirstInLine ==
  ASSUME IInv, InLine, down # <<>>, NEW r \in Refreshes, StackOf(Head(down)) = r,
         NEW q \in Refreshes, at[q] = "stack"
  PROVE  q = r \/ r < q
<1>1. down \in Seq(Messages)
  BY Parts DEF Talk, Spoken
<1>2. 1 \in DOMAIN down /\ down[1] = Head(down) /\ \A i \in DOMAIN down : i # 1 => i > 1
  BY <1>1, TailAt
<1>3. q > 0
  BY DEF Refreshes
<1>4. CASE \E i \in DOMAIN up : StackOf(up[i]) = q
  BY <1>2, <1>3, <1>4 DEF InLine, Below
<1>5. CASE \E i \in DOMAIN asked : StackOf(asked[i]) = q
  BY <1>2, <1>3, <1>5 DEF InLine, Below
<1>6. CASE \E i \in DOMAIN down : StackOf(down[i]) = q
  <2>1. PICK i \in DOMAIN down : StackOf(down[i]) = q
    BY <1>6
  <2>2. i = 1 \/ 1 < i
    BY <1>2
  <2>3. QED
    BY <1>2, <1>3, <2>1, <2>2 DEF InLine, Rising
<1>7. QED
  BY <1>4, <1>5, <1>6, OneOfThem

LEMMA SeqNat ==
  ASSUME PageTyped
  PROVE  refreshSeq \in Nat /\ \A r \in Refreshes : mine[r] \in Nat
<1>1. refreshSeq \in Nat
  BY RefreshesFinite DEF PageTyped
<1>2. QED
  BY <1>1, Bounds DEF PageTyped

\* The scopes that are asked for are no stacks.
LEMMA NumberAsksScopes ==
  ASSUME NEW W, W \subseteq Refreshes, Number(W)
  PROVE  \E s \in Seq(Asks \cup Commands) : up' = up \o s /\ \A k \in DOMAIN s : StackOf(s[k]) = 0
<1>1. PICK s \in Seq(Asks) :
        /\ up' = up \o s
        /\ \A q \in Asks : Hits(s, {q}) = IF q.of \in W /\ q.what = "scopes" THEN 1 ELSE 0
  BY NumberAsks
<1>2. ASSUME NEW k \in DOMAIN s PROVE StackOf(s[k]) = 0
  <2>1. s[k] \in Asks
    OBVIOUS
  <2>2. Hits(s, {s[k]}) > 0
    BY HitsSome
  <2>3. s[k].what = "scopes"
    BY <1>1, <2>1, <2>2
  <2>4. QED
    BY <2>1, <2>3, StackOfAsks
<1>3. s \in Seq(Asks \cup Commands)
  OBVIOUS
<1>4. QED
  BY <1>1, <1>2, <1>3

LEMMA NumberOne ==
  ASSUME PageTyped, NEW r \in Refreshes, Number({r})
  PROVE  /\ mine' = [mine EXCEPT ![r] = refreshSeq + 1] /\ refreshSeq' = refreshSeq + 1
         /\ at' = [at EXCEPT ![r] = "scopes"]
<1>1. {q \in {r} : q <= r} = {r}
  BY DEF Refreshes
<1>2. Cardinality({r}) = 1
  BY FS_Singleton
<1>3. /\ mine' = [q \in Refreshes |-> IF q \in {r} THEN refreshSeq + Cardinality({p \in {r} : p <= q}) ELSE mine[q]]
      /\ refreshSeq' = refreshSeq + Cardinality({r})
      /\ at' = [q \in DOMAIN at |-> IF q \in {r} THEN "scopes" ELSE at[q]]
  BY DEF Number
<1>4. mine' = [mine EXCEPT ![r] = refreshSeq + 1]
  <2>1. \A q \in Refreshes : mine'[q] = IF q = r THEN refreshSeq + 1 ELSE mine[q]
    BY <1>1, <1>2, <1>3
  <2>2. QED
    BY <1>3, <2>1 DEF PageTyped
<1>5. at' = [at EXCEPT ![r] = "scopes"]
  BY <1>3
<1>6. QED
  BY <1>2, <1>3, <1>4, <1>5

LEMMA NumberNone ==
  ASSUME PageTyped, Number({})
  PROVE  mine' = mine /\ refreshSeq' = refreshSeq /\ at' = at
<1>1. Cardinality({}) = 0 /\ refreshSeq \in Nat
  BY FS_EmptySet, SeqNat
<1>2. /\ mine' = [q \in Refreshes |-> mine[q]]
      /\ refreshSeq' = refreshSeq + Cardinality({})
      /\ at' = [q \in DOMAIN at |-> at[q]]
  BY DEF Number
<1>3. QED
  BY <1>1, <1>2 DEF PageTyped

\* What the server sends does not make the last refresh stale.
LEMMA ServerViews ==
  ASSUME Turns, Answered, LastIsFresh, UNCHANGED <<refreshing, shown>>, stops' = stops,
         \A i \in DOMAIN down : i \in DOMAIN down' /\ down'[i] = down[i],
         \A i \in DOMAIN down' : \/ i \in DOMAIN down
                                 \/ down'[i].what = "answer" => down'[i].ok /\ down'[i].stop = stops
  PROVE  Turns' /\ Answered' /\ LastIsFresh'
<1>1. Turns'
  BY DEF Turns, refreshing
<1>2. Answered'
  BY DEF Answered, refreshing, shown
<1>3. LastIsFresh'
  <2> SUFFICES ASSUME \A i \in DOMAIN down' : down'[i].what # "stopped", NEW r \in Refreshes, Last(r)'
               PROVE  OfNewest(r)'
    BY DEF LastIsFresh
  <2>1. (\A i \in DOMAIN down : down[i].what # "stopped") /\ Last(r)
    BY DEF Last, refreshing
  <2>2. OfNewest(r)
    BY <2>1 DEF LastIsFresh
  <2>3. QED
    BY <2>2 DEF OfNewest, refreshing, shown
<1>4. QED
  BY <1>1, <1>2, <1>3

\* What the page has not read of its messages was there before.
LEMMA Unread ==
  ASSUME Spoken, down # <<>>, down' = Tail(down)
  PROVE  /\ \A i \in DOMAIN down' : \E j \in DOMAIN down : down'[i] = down[j]
         /\ \A i \in DOMAIN down : down[i] = Head(down) \/ \E j \in DOMAIN down' : down'[j] = down[i]
         /\ \E i \in DOMAIN down : down[i] = Head(down)
<1>1. down \in Seq(Messages)
  BY DEF Spoken
<1> PICK r : r = Tail(down)
  OBVIOUS
<1>2. /\ 1 \in DOMAIN down /\ down[1] = Head(down)
      /\ \A i \in DOMAIN r : i + 1 \in DOMAIN down /\ r[i] = down[i + 1]
  BY <1>1, TailAt
<1>3. \A i \in DOMAIN down : i = 1 \/ (i - 1 \in DOMAIN r /\ r[i - 1] = down[i])
  BY <1>1
<1>4. QED
  BY <1>2, <1>3

\* The page reads a message, or none, and what refresh r does then keeps the last fresh.
LEMMA MovesFresh ==
  ASSUME PageTyped, LastIsFresh, Answered, NEW r \in Refreshes, at[r] # "none", NEW w \in Places, w # "none",
         at' = [at EXCEPT ![r] = w],
         \A i \in DOMAIN down' : \E j \in DOMAIN down : down'[i] = down[j],
         \A i \in DOMAIN down : down[i].what # "stopped" \/ \E j \in DOMAIN down' : down'[j] = down[i],
         Last(r) /\ OfNewest(r) => OfNewest(r)',
         \A q \in Refreshes : (q > r /\ Last(q) /\ OfNewest(q)) => OfNewest(q)',
         \A q \in Refreshes : at[q] = "none" => data'[q] = data[q]
  PROVE  LastIsFresh' /\ Answered'
<1>1. \A q \in Refreshes : at'[q] = IF q = r THEN w ELSE at[q]
  BY DEF PageTyped
<1>2. LastIsFresh'
  <2> SUFFICES ASSUME \A i \in DOMAIN down' : down'[i].what # "stopped", NEW q \in Refreshes, Last(q)'
               PROVE  OfNewest(q)'
    BY DEF LastIsFresh
  <2>1. \A i \in DOMAIN down : down[i].what # "stopped"
    OBVIOUS
  <2>2. Last(q)
    BY <1>1 DEF Last
  <2>3. OfNewest(q)
    BY <2>1, <2>2 DEF LastIsFresh
  <2>4. q = r \/ q > r
    BY <2>2 DEF Last, Refreshes
  <2>5. QED
    BY <2>2, <2>3, <2>4
<1>3. Answered'
  <2>1. \A i \in DOMAIN down' : down'[i].what = "answer" => down'[i].ok
    BY DEF Answered
  <2>2. \A q \in Refreshes : at'[q] = "none" => at[q] = "none" /\ data'[q] = {}
    BY <1>1 DEF Answered
  <2>3. ~\A q \in Refreshes : at'[q] = "none"
    BY <1>1
  <2>4. QED
    BY <2>1, <2>2, <2>3 DEF Answered
<1>4. QED
  BY <1>2, <1>3

\* What is answered is what the refresh awaits.
LEMMA AwaitedIsAnswered ==
  ASSUME IInv, NEW i \in DOMAIN down, down[i].what = "answer", NEW r \in Refreshes, down[i].to.of = r
  PROVE  at[r] = down[i].to.what /\ at[r] # "none" /\ (at[r] = "stack" => StackOf(down[i]) = r)
<1>1. up \in Seq(Asks \cup Commands) /\ down \in Seq(Messages) /\ asked \in Seq(Asks) /\ Counts
  BY Parts DEF Talk, Spoken
<1> PICK q : q = down[i].to
  OBVIOUS
<1>2. down[i] \in Messages /\ q \in Asks /\ down[i] \in AnswersTo(q)
  BY <1>1, MessageFacts
<1>3. Hits(down, AnswersTo(q)) > 0
  BY <1>1, <1>2, HitsSome
<1>4. Hits(up, {q}) \in Nat /\ Hits(asked, {q}) \in Nat /\ Hits(down, AnswersTo(q)) \in Nat
  BY <1>1, HitsType
<1>5. OnItsWay(q) > 0
  BY <1>3, <1>4 DEF OnItsWay
<1>6. q = Ask(r, q.what) /\ q.what \in Whats
  BY <1>2, AskFacts
<1>7. OnItsWay(q) = IF at[r] = q.what THEN 1 ELSE 0
  BY <1>1, <1>6 DEF Counts
<1>8. at[r] = q.what
  BY <1>5, <1>7
<1>9. at[r] = "stack" => StackOf(down[i]) = r
  BY <1>2, <1>8, StackOfAsks
<1>10. QED
  BY <1>6, <1>8, <1>9 DEF Whats

LEMMA HeadIsAwaited ==
  ASSUME IInv, NEW m, Frame(m), m.what = "answer", NEW r \in Refreshes, m.to.of = r
  PROVE  m \in Messages /\ at[r] = m.to.what /\ (at[r] = "stack" => StackOf(m) = r)
<1>1. Spoken /\ ServerTyped
  BY Parts DEF Talk
<1>2. m \in Messages /\ \E i \in DOMAIN down : down[i] = m
  BY <1>1, FrameFacts, Unread DEF Frame
<1>3. QED
  BY <1>2, AwaitedIsAnswered

LEMMA NoSource ==
  ASSUME IInv, \A f \in Files : fetches[f] = 0
  PROVE  \A r \in Refreshes : at[r] # "source"
<1> SUFFICES ASSUME NEW r \in Refreshes, at[r] = "source" PROVE FALSE
  OBVIOUS
<1>1. PageTyped /\ ServerTyped /\ Held
  BY Parts
<1>2. got[r] \in 0 .. stops /\ got[r] > 0 /\ stops \in 0 .. MaxStops /\ fetches[fileOf[got[r]]] = 1
  BY <1>1 DEF PageTyped, ServerTyped, Held
<1>3. got[r] \in Stops
  BY <1>2, Bounds DEF Stops
<1>4. fileOf[got[r]] \in Files
  BY <1>1, <1>3 DEF ServerTyped
<1>5. QED
  BY <1>2, <1>4

\* One more refresh has its number, the highest.
LEMMA TurnsNumbered ==
  ASSUME PageTyped, Turns, NEW r \in Refreshes, at[r] \in {"stack", "source"},
         mine' = [mine EXCEPT ![r] = refreshSeq + 1], refreshSeq' = refreshSeq + 1,
         at' = [at EXCEPT ![r] = "scopes"],
         \A q \in Refreshes : (q # r /\ at[q] \in {"stack", "source"}) => r < q
  PROVE  Turns'
<1>1. refreshSeq \in Nat /\ \A q \in Refreshes : mine[q] \in Nat
  BY SeqNat
<1>2. \A q \in Refreshes : at'[q] = IF q = r THEN "scopes" ELSE at[q]
  BY DEF PageTyped
<1>3. \A q \in Refreshes : mine'[q] = IF q = r THEN refreshSeq + 1 ELSE mine[q]
  BY DEF PageTyped
<1>4. \A p, q \in Refreshes : p < q /\ at'[p] = "none" => at'[q] = "none"
  BY <1>2 DEF Turns
<1>5. ASSUME NEW p \in Refreshes, NEW q \in Refreshes, p < q, at'[p] \in {"stack", "source"}
      PROVE  at'[q] \in {"none", "stack"}
  <2>1. p # r /\ at[p] \in {"stack", "source"} /\ at'[p] = at[p]
    BY <1>2, <1>5
  <2>2. r < p /\ q # r
    BY <1>5, <2>1 DEF Refreshes
  <2>3. QED
    BY <1>2, <1>5, <2>1, <2>2 DEF Turns
<1>6. ASSUME NEW p \in Refreshes, NEW q \in Refreshes, mine'[p] = mine'[q], mine'[p] > 0 PROVE p = q
  <2>1. mine[p] <= refreshSeq /\ mine[q] <= refreshSeq
    BY DEF Turns
  <2>2. QED
    BY <1>1, <1>3, <1>6, <2>1 DEF Turns
<1>7. ASSUME NEW q \in Refreshes PROVE mine'[q] <= refreshSeq'
  <2>1. mine[q] <= refreshSeq
    BY DEF Turns
  <2>2. QED
    BY <1>1, <1>3, <2>1
<1>8. QED
  BY <1>4, <1>5, <1>6, <1>7 DEF Turns

\* Nothing is asked.
LEMMA AsksNoStack ==
  ASSUME Spoken, up' = up
  PROVE  \E s \in Seq(Asks \cup Commands) : up' = up \o s /\ \A k \in DOMAIN s : StackOf(s[k]) = 0
<1> PICK s : s = <<>>
  OBVIOUS
<1>1. s \in Seq(Asks \cup Commands) /\ DOMAIN s = {} /\ up' = up \o s
  BY DEF Spoken
<1>2. QED
  BY <1>1

\* The stack of refresh r comes.
LEMMA StackViews ==
  ASSUME IInv, InLine, Turns, Answered, LastIsFresh, NEW m, Frame(m), m.what = "answer",
         \A q \in Refreshes : at[q] # "source",
         NEW r \in Refreshes, m.to.of = r, at[r] = "stack", OnStack(r, m)
  PROVE  /\ Turns' /\ Answered' /\ LastIsFresh'
         /\ \E s \in Seq(Asks \cup Commands) : up' = up \o s /\ \A k \in DOMAIN s : StackOf(s[k]) = 0
<1>1. PageTyped /\ ServerTyped /\ Spoken /\ Held
  BY Parts DEF Talk
<1>2. m \in Messages /\ StackOf(m) = r /\ down # <<>> /\ down' = Tail(down) /\ m = Head(down)
  BY HeadIsAwaited DEF Frame
<1>3. \A q \in Refreshes : (q # r /\ at[q] \in {"stack", "source"}) => r < q
  BY <1>2, FirstInLine
<1>4. \A q \in Refreshes : r < q => at[q] \in {"none", "stack"}
  BY DEF Turns
<1>5. /\ \A i \in DOMAIN down' : \E j \in DOMAIN down : down'[i] = down[j]
      /\ \A i \in DOMAIN down : down[i].what # "stopped" \/ \E j \in DOMAIN down' : down'[j] = down[i]
      /\ \E i \in DOMAIN down : down[i] = m
  BY <1>1, <1>2, Unread
<1>6. m.ok
  BY <1>5 DEF Answered
<1> PICK f : f = fileOf[m.stop]
  OBVIOUS
<1>7. /\ got' = [got EXCEPT ![r] = m.stop] /\ stop' = m.stop /\ stops' = stops
      /\ UNCHANGED <<left, data, scopeData, cache, bpList>>
      /\ \/ source' = m.stop /\ Number({r})
         \/ /\ Goes(r, "source") /\ UNCHANGED <<source, mine, refreshSeq, up>>
  BY <1>6 DEF OnStack, Frame, target
<1>8. got'[r] = m.stop /\ \A q \in Refreshes : q # r => got'[q] = got[q]
  BY <1>1, <1>7 DEF PageTyped
<1>9. \A q \in Refreshes : (q > r /\ at'[q] = at[q] /\ Last(q) /\ OfNewest(q)) => OfNewest(q)'
  <2> SUFFICES ASSUME NEW q \in Refreshes, q > r, at'[q] = at[q], Last(q), OfNewest(q) PROVE OfNewest(q)'
    OBVIOUS
  <2>1. at[q] = "stack"
    BY <1>4 DEF Last, Refreshes
  <2>2. QED
    BY <1>5, <1>7, <2>1 DEF OfNewest
<1>10. OfNewest(r) => m.stop = stops
  BY <1>5 DEF OfNewest
<1>11. CASE Goes(r, "source") /\ UNCHANGED <<source, mine, refreshSeq, up>>
  <2>1. at' = [at EXCEPT ![r] = "source"] /\ \A q \in Refreshes : at'[q] = IF q = r THEN "source" ELSE at[q]
    BY <1>1, <1>11 DEF Goes, PageTyped
  <2>2. OfNewest(r) => OfNewest(r)'
    BY <1>5, <1>7, <1>8, <1>10, <2>1 DEF OfNewest
  <2>3. LastIsFresh' /\ Answered'
    <3>1. \A q \in Refreshes : (q > r /\ Last(q) /\ OfNewest(q)) => OfNewest(q)'
      BY <1>9, <2>1 DEF Refreshes
    <3>2. "source" \in Places /\ "source" # "none" /\ at[r] # "none"
      BY DEF Places
    <3>3. \A q \in Refreshes : at[q] = "none" => data'[q] = data[q]
      BY <1>7
    <3>4. QED
      BY <1>1, <1>5, <2>1, <2>2, <3>1, <3>2, <3>3, MovesFresh
  <2>4. Turns'
    <3>1. \A p, q \in Refreshes : p < q /\ at'[p] = "none" => at'[q] = "none"
      BY <2>1 DEF Turns
    <3>2. \A p, q \in Refreshes : p < q /\ at'[p] \in {"stack", "source"} => at'[q] \in {"none", "stack"}
      <4> SUFFICES ASSUME NEW p \in Refreshes, NEW q \in Refreshes, p < q, at'[p] \in {"stack", "source"}
                   PROVE  at'[q] \in {"none", "stack"}
        OBVIOUS
      <4>1. q # r
        BY <1>3, <2>1 DEF Refreshes
      <4>2. at[p] \in {"stack", "source"}
        BY <2>1
      <4>3. QED
        BY <2>1, <4>1, <4>2 DEF Turns
    <3>3. QED
      BY <1>11, <3>1, <3>2 DEF Turns
  <2>5. \E s \in Seq(Asks \cup Commands) : up' = up \o s /\ \A k \in DOMAIN s : StackOf(s[k]) = 0
    BY <1>1, <1>11, AsksNoStack
  <2>6. QED
    BY <2>3, <2>4, <2>5
<1>12. CASE source' = m.stop /\ Number({r})
  <2>1. /\ mine' = [mine EXCEPT ![r] = refreshSeq + 1] /\ refreshSeq' = refreshSeq + 1
        /\ at' = [at EXCEPT ![r] = "scopes"]
    BY <1>1, <1>12, NumberOne
  <2>2. /\ at'[r] = "scopes" /\ mine'[r] = refreshSeq' /\ mine'[r] > 0
        /\ \A q \in Refreshes : q # r => at'[q] = at[q]
    BY <1>1, <2>1, SeqNat DEF PageTyped
  <2>3. OfNewest(r) => OfNewest(r)'
    BY <1>5, <1>7, <1>8, <1>10, <1>12, <2>2 DEF OfNewest
  <2>4. LastIsFresh' /\ Answered'
    <3>1. \A q \in Refreshes : (q > r /\ Last(q) /\ OfNewest(q)) => OfNewest(q)'
      BY <1>9, <2>2 DEF Refreshes
    <3>2. "scopes" \in Places /\ "scopes" # "none" /\ at[r] # "none"
      BY DEF Places
    <3>3. \A q \in Refreshes : at[q] = "none" => data'[q] = data[q]
      BY <1>7
    <3>4. QED
      BY <1>1, <1>5, <2>1, <2>3, <3>1, <3>2, <3>3, MovesFresh
  <2>5. Turns'
    BY <1>1, <1>3, <2>1, TurnsNumbered
  <2>6. \E s \in Seq(Asks \cup Commands) : up' = up \o s /\ \A k \in DOMAIN s : StackOf(s[k]) = 0
    BY <1>12, NumberAsksScopes
  <2>7. QED
    BY <2>4, <2>5, <2>6
<1>13. QED
  BY <1>7, <1>11, <1>12

LEMMA AsksOneMore ==
  ASSUME Spoken, NEW q \in Asks, q.what # "stack", up' = Append(up, q)
  PROVE  \E s \in Seq(Asks \cup Commands) : up' = up \o s /\ \A k \in DOMAIN s : StackOf(s[k]) = 0
<1> PICK s : s = <<q>>
  OBVIOUS
<1>1. StackOf(q) = 0 /\ s \in Seq(Asks \cup Commands) /\ \A k \in DOMAIN s : s[k] = q
  BY StackOfAsks
<1>2. up' = up \o s
  BY DEF Spoken
<1>3. QED
  BY <1>1, <1>2

\* A refresh that is past its stack goes on.
LEMMA TurnsPast ==
  ASSUME PageTyped, Turns, NEW r \in Refreshes, at[r] \in {"scopes", "variables"},
         NEW w \in {"variables", "over"}, at' = [at EXCEPT ![r] = w], mine' = mine, refreshSeq' = refreshSeq
  PROVE  Turns'
<1>1. \A q \in Refreshes : at'[q] = IF q = r THEN w ELSE at[q]
  BY DEF PageTyped
<1>2. \A p, q \in Refreshes : p < q /\ at'[p] = "none" => at'[q] = "none"
  BY <1>1 DEF Turns
<1>3. ASSUME NEW p \in Refreshes, NEW q \in Refreshes, p < q, at'[p] \in {"stack", "source"}
      PROVE  at'[q] \in {"none", "stack"}
  <2>1. p # r /\ at[p] \in {"stack", "source"}
    BY <1>1, <1>3
  <2>2. at[q] \in {"none", "stack"}
    BY <1>3, <2>1 DEF Turns
  <2>3. q # r
    BY <2>2
  <2>4. QED
    BY <1>1, <2>2, <2>3
<1>4. QED
  BY <1>2, <1>3 DEF Turns

\* Scopes or variables of refresh r come.
LEMMA RestViews ==
  ASSUME IInv, Turns, Answered, LastIsFresh, NEW m, Frame(m), m.what = "answer",
         NEW r \in Refreshes, m.to.of = r,
         \/ at[r] = "scopes" /\ OnScopes(r, m)
         \/ at[r] = "variables" /\ OnVariables(r, m)
  PROVE  /\ Turns' /\ Answered' /\ LastIsFresh'
         /\ \E s \in Seq(Asks \cup Commands) : up' = up \o s /\ \A k \in DOMAIN s : StackOf(s[k]) = 0
<1>1. PageTyped /\ ServerTyped /\ Spoken
  BY Parts DEF Talk
<1>2. m \in Messages /\ down # <<>> /\ down' = Tail(down) /\ m = Head(down) /\ stops' = stops
  BY HeadIsAwaited DEF Frame, target
<1>3. /\ \A i \in DOMAIN down' : \E j \in DOMAIN down : down'[i] = down[j]
      /\ \A i \in DOMAIN down : down[i].what # "stopped" \/ \E j \in DOMAIN down' : down'[j] = down[i]
      /\ \E i \in DOMAIN down : down[i] = m
  BY <1>1, <1>2, Unread
<1>4. m.ok
  BY <1>3 DEF Answered
<1>5. OfNewest(r) => m.stop = stops
  BY <1>3 DEF OfNewest
<1>6. UNCHANGED <<got, mine, refreshSeq, stop, source>>
  BY <1>4 DEF OnScopes, OnVariables, Collected, shown
<1>7. \A q \in Refreshes : q # r => data'[q] = data[q]
  BY <1>1, <1>4 DEF OnScopes, OnVariables, Collected, PageTyped
<1>8. CASE /\ at' = [at EXCEPT ![r] = "variables"] /\ up' = Append(up, Ask(r, "variables"))
           /\ scopeData' = scopeData /\ (data' = data \/ data' = [data EXCEPT ![r] = @ \cup {m.stop}])
  <2>1. \A q \in Refreshes : at'[q] = IF q = r THEN "variables" ELSE at[q]
    BY <1>1, <1>8 DEF PageTyped
  <2>2. OfNewest(r) => data'[r] \subseteq {stops}
    BY <1>1, <1>5, <1>8 DEF OfNewest, PageTyped
  <2>3. OfNewest(r) => OfNewest(r)'
    BY <1>2, <1>3, <1>6, <2>1, <2>2 DEF OfNewest
  <2>4. \A q \in Refreshes : (q > r /\ Last(q) /\ OfNewest(q)) => OfNewest(q)'
    <3> SUFFICES ASSUME NEW q \in Refreshes, q > r, OfNewest(q) PROVE OfNewest(q)'
      OBVIOUS
    <3>1. q # r
      BY DEF Refreshes
    <3>2. at'[q] = at[q] /\ data'[q] = data[q]
      BY <1>7, <2>1, <3>1
    <3>3. QED
      BY <1>2, <1>3, <1>6, <1>8, <3>2 DEF OfNewest
  <2>5. LastIsFresh' /\ Answered'
    <3>1. "variables" \in Places /\ "variables" # "none" /\ at[r] # "none"
      BY DEF Places
    <3>2. \A q \in Refreshes : at[q] = "none" => data'[q] = data[q]
      BY <1>7, <3>1
    <3>3. QED
      BY <1>1, <1>3, <1>8, <2>3, <2>4, <3>1, <3>2, MovesFresh
  <2>6. Turns'
    BY <1>1, <1>6, <1>8, TurnsPast
  <2>7. Ask(r, "variables") \in Asks /\ Ask(r, "variables").what # "stack"
    BY AskFacts DEF Whats
  <2>8. QED
    BY <1>1, <1>8, <2>5, <2>6, <2>7, AsksOneMore
<1>9. CASE at[r] = "variables" /\ Collected(r, {m.stop})
  <2>1. /\ at' = [at EXCEPT ![r] = "over"] /\ \A q \in Refreshes : at'[q] = IF q = r THEN "over" ELSE at[q]
        /\ scopeData' = IF Newest(r) THEN [of |-> got[r], from |-> data[r] \cup {m.stop}] ELSE scopeData
        /\ UNCHANGED <<data, up>>
    BY <1>1, <1>9 DEF Collected, Goes, PageTyped
  <2>2. OfNewest(r) => OfNewest(r)'
    <3> SUFFICES ASSUME OfNewest(r) PROVE OfNewest(r)'
      OBVIOUS
    <3>1. Newest(r) /\ got[r] = stops /\ m.stop = stops /\ data[r] \subseteq {stops}
      BY <1>5, <1>9 DEF OfNewest, Newest
    <3>2. scopeData'.of = stops /\ scopeData'.from \subseteq {stops}
      BY <2>1, <3>1
    <3>3. QED
      BY <1>2, <1>3, <1>6, <1>9, <2>1, <3>2 DEF OfNewest
  <2>3. \A q \in Refreshes : (q > r /\ Last(q) /\ OfNewest(q)) => OfNewest(q)'
    <3> SUFFICES ASSUME NEW q \in Refreshes, q > r, OfNewest(q) PROVE OfNewest(q)'
      OBVIOUS
    <3>1. q # r
      BY DEF Refreshes
    <3>2. at'[q] = at[q] /\ data'[q] = data[q]
      BY <1>7, <2>1, <3>1
    <3>3. at[q] = "over" => ~Newest(r)
      BY <3>1 DEF OfNewest, Newest, Turns
    <3>4. at[q] = "over" => scopeData' = scopeData
      BY <2>1, <3>3
    <3>5. QED
      BY <1>2, <1>3, <1>6, <3>2, <3>4 DEF OfNewest
  <2>4. LastIsFresh' /\ Answered'
    <3>1. "over" \in Places /\ "over" # "none" /\ at[r] # "none"
      BY <1>9 DEF Places
    <3>2. \A q \in Refreshes : at[q] = "none" => data'[q] = data[q]
      BY <2>1
    <3>3. QED
      BY <1>1, <1>3, <2>1, <2>2, <2>3, <3>1, <3>2, MovesFresh
  <2>5. Turns'
    BY <1>1, <1>6, <1>9, <2>1, TurnsPast
  <2>6. QED
    BY <1>1, <2>1, <2>4, <2>5, AsksNoStack
<1>10. QED
  <2>1. CASE at[r] = "scopes" /\ OnScopes(r, m)
    BY <1>4, <1>8, <2>1 DEF OnScopes, Goes, shown
  <2>2. CASE at[r] = "variables" /\ OnVariables(r, m) /\ left[r] = 1
    BY <1>4, <1>9, <2>2 DEF OnVariables
  <2>3. CASE at[r] = "variables" /\ OnVariables(r, m) /\ left[r] # 1
    <3>1. /\ data' = [data EXCEPT ![r] = @ \cup {m.stop}] /\ up' = Append(up, Ask(r, "variables"))
          /\ at' = at /\ scopeData' = scopeData
      BY <1>4, <2>3 DEF OnVariables, shown
    <3>2. at' = [at EXCEPT ![r] = "variables"]
      BY <1>1, <2>3, <3>1 DEF PageTyped
    <3>3. QED
      BY <1>8, <3>1, <3>2
  <2>4. QED
    BY <2>1, <2>2, <2>3

LEMMA NextIsFirst ==
  ASSUME Unused # {}
  PROVE  /\ NextRefresh \in Refreshes /\ at[NextRefresh] = "none"
         /\ \A q \in Refreshes : q < NextRefresh => at[q] # "none"
<1>1. Unused \subseteq Nat
  BY DEF Unused, Refreshes
<1>2. \E n \in Unused : \A m \in Unused : n <= m
  BY <1>1, LeastOf
<1>3. NextRefresh \in Unused /\ \A m \in Unused : NextRefresh <= m
  BY <1>2 DEF NextRefresh
<1>4. QED
  BY <1>1, <1>3 DEF Unused, Refreshes

\* A refresh begins.  It is the last, and is yet to be told of any stop.
LEMMA BeginViews ==
  ASSUME IInv, InLine, Turns, Answered, NEW m, Frame(m), Begins(m)
  PROVE  InLine' /\ Turns' /\ Answered' /\ LastIsFresh'
<1>1. PageTyped /\ Spoken /\ Held
  BY Parts DEF Talk
<1>n. PICK n : n = NextRefresh
  OBVIOUS
<1>2. /\ n \in Refreshes /\ at[n] = "none" /\ up' = Append(up, Ask(n, "stack"))
      /\ at' = [at EXCEPT ![n] = "stack", ![Query] = QueryAfter(m)]
      /\ \A q \in Refreshes : q < n => at[q] # "none"
      /\ down # <<>> /\ down' = Tail(down) /\ asked' = asked
      /\ UNCHANGED <<mine, data, refreshSeq, stop>>
  BY <1>1, <1>n, BeginsHow, NextIsFirst DEF Frame, shown
<1>3. \A q \in Refreshes : q > n => at[q] = "none"
  BY <1>2 DEF Turns, Refreshes
<1>4. \A q \in Refreshes : at'[q] = IF q = n THEN "stack" ELSE at[q]
  BY <1>1, <1>2, Bounds DEF PageTyped
<1>2a. n \in Refreshes /\ at'[n] = "stack"
  BY <1>2, <1>4, Zenon
<1>5. \A k \in Refreshes \cup {0} : (k > 0 => at[k] = "stack") => k < n
  <2> SUFFICES ASSUME NEW k \in Refreshes \cup {0}, k > 0 => at[k] = "stack" PROVE k < n
    OBVIOUS
  <2>1. CASE k = 0
    BY <1>2, <2>1 DEF Refreshes
  <2>2. CASE k \in Refreshes
    <3>1. at[k] = "stack"
      BY <2>2 DEF Refreshes
    <3>2. ~(k > n) /\ k # n
      BY <1>2, <1>3, <2>2, <3>1
    <3>3. QED
      BY <1>2, <2>2, <3>2 DEF Refreshes
  <2>3. QED
    BY <2>1, <2>2
<1>6. /\ \A i \in DOMAIN up : StackOf(up[i]) < n
      /\ \A i \in DOMAIN asked : StackOf(asked[i]) < n
      /\ \A i \in DOMAIN down : StackOf(down[i]) < n
  BY <1>5, OnTheirWay
<1>7. InLine'
  BY <1>1, <1>2, <1>6, BeginInLine
<1>8. Turns'
  <2>1. \A p, q \in Refreshes : p < q /\ at'[p] = "none" => at'[q] = "none"
    <3> SUFFICES ASSUME NEW p \in Refreshes, NEW q \in Refreshes, p < q, at'[p] = "none" PROVE at'[q] = "none"
      OBVIOUS
    <3>1. p # n /\ at[p] = "none"
      BY <1>4
    <3>2. at[q] = "none" /\ q # n
      BY <1>2, <3>1 DEF Turns
    <3>3. QED
      BY <1>4, <3>2
  <2>2. \A p, q \in Refreshes : p < q /\ at'[p] \in {"stack", "source"} => at'[q] \in {"none", "stack"}
    <3> SUFFICES ASSUME NEW p \in Refreshes, NEW q \in Refreshes, p < q, at'[p] \in {"stack", "source"}
                 PROVE  at'[q] \in {"none", "stack"}
      OBVIOUS
    <3>1. CASE p = n
      BY <1>3, <1>4, <3>1 DEF Refreshes
    <3>2. CASE p # n
      BY <1>4, <3>2 DEF Turns
    <3>3. QED
      BY <3>1, <3>2
  <2>3. QED
    BY <1>2, <2>1, <2>2 DEF Turns
<1>9. \A i \in DOMAIN down' : \E j \in DOMAIN down : down'[i] = down[j]
  BY <1>1, <1>2, Unread
<1>10. Answered'
  <2>1. \A i \in DOMAIN down' : down'[i].what = "answer" => down'[i].ok
    BY <1>9 DEF Answered
  <2>2. \A q \in Refreshes : at'[q] = "none" => data'[q] = {}
    BY <1>2, <1>4 DEF Answered
  <2>3. ~\A q \in Refreshes : at'[q] = "none"
    BY <1>2a
  <2>4. QED
    BY <2>1, <2>2, <2>3 DEF Answered
<1>11. \A i \in DOMAIN down' : ~(down'[i].what = "answer" /\ down'[i].to.of = n)
  BY <1>2, <1>9, AwaitedIsAnswered
<1>12. OfNewest(n)'
  <2>1. data'[n] = {}
    BY <1>2, Zenon DEF Answered
  <2>2. at'[n] = "stack"
    BY <1>2a
  <2>3. QED
    BY <1>11, <2>1, <2>2 DEF OfNewest
<1>13. \A q \in Refreshes : Last(q)' => q = n
  <2> SUFFICES ASSUME NEW q \in Refreshes, Last(q)' PROVE q = n
    OBVIOUS
  <2>1. at'[q] # "none" /\ \A p \in Refreshes : p > q => at'[p] = "none"
    BY DEF Last
  <2>2. ~(n > q)
    BY <1>2a, <2>1
  <2>3. ~(q > n)
    <3>1. SUFFICES ASSUME q > n PROVE FALSE
      OBVIOUS
    <3>2. at[q] = "none" /\ q # n
      BY <1>3, <1>2a, <3>1 DEF Refreshes
    <3>3. at'[q] = "none"
      BY <1>4, <3>2, Zenon
    <3>4. QED
      BY <2>1, <3>3
  <2>4. QED
    BY <1>2a, <2>2, <2>3 DEF Refreshes
<1>14. LastIsFresh'
  BY <1>12, <1>13 DEF LastIsFresh
<1>15. QED
  BY <1>7, <1>8, <1>10, <1>14

\* No refresh moves.
LEMMA NoneViews ==
  ASSUME Turns, Answered, LastIsFresh, \A r \in Refreshes : at'[r] = at[r],
         UNCHANGED <<got, mine, data, refreshSeq, shown>>, stops' = stops,
         \A i \in DOMAIN down' : \E j \in DOMAIN down : down'[i] = down[j],
         \A i \in DOMAIN down : down[i].what # "stopped" \/ \E j \in DOMAIN down' : down'[j] = down[i]
  PROVE  Turns' /\ Answered' /\ LastIsFresh'
<1>1. Turns'
  BY DEF Turns
<1>2. Answered'
  BY DEF Answered, shown
<1>3. LastIsFresh'
  <2> SUFFICES ASSUME \A i \in DOMAIN down' : down'[i].what # "stopped", NEW r \in Refreshes, Last(r)'
               PROVE  OfNewest(r)'
    BY DEF LastIsFresh
  <2>1. (\A i \in DOMAIN down : down[i].what # "stopped") /\ Last(r)
    BY DEF Last
  <2>2. OfNewest(r)
    BY <2>1 DEF LastIsFresh
  <2>3. QED
    BY <2>2 DEF OfNewest, shown
<1>4. QED
  BY <1>1, <1>2, <1>3

LEMMA OnFrameViews ==
  ASSUME IInv, ~SlowSources, InLine, Turns, Answered, LastIsFresh, OnFrame
  PROVE  InLine' /\ Turns' /\ Answered' /\ LastIsFresh'
<1>1. PageTyped /\ ServerTyped /\ Spoken
  BY Parts DEF Talk
<1>m. PICK m : m = Head(down)
  OBVIOUS
<1>2. /\ Frame(m) /\ \A f \in Files : fetches[f] = 0
      /\ \/ m.what = "answer" /\ OnAnswer(m)
         \/ m.what = "stopped" /\ Begin(at)
         \/ m.what \in {"breakpoints", "terminated"} /\ UNCHANGED <<refreshing, shown, sources, up>>
  BY <1>m DEF OnFrame, Frame
<1>3. /\ m \in Messages /\ down # <<>> /\ down' = Tail(down) /\ asked' = asked /\ stops' = stops
  BY <1>1, <1>2, FrameFacts DEF Frame, target
<1>4. /\ \A i \in DOMAIN down' : \E j \in DOMAIN down : down'[i] = down[j]
      /\ m.what # "stopped" =>
           \A i \in DOMAIN down : down[i].what # "stopped" \/ \E j \in DOMAIN down' : down'[j] = down[i]
  BY <1>1, <1>3, <1>m, Unread
<1>5. ASSUME \E s \in Seq(Asks \cup Commands) : up' = up \o s /\ \A k \in DOMAIN s : StackOf(s[k]) = 0
      PROVE  InLine'
  <2>1. PICK s \in Seq(Asks \cup Commands) : up' = up \o s /\ \A k \in DOMAIN s : StackOf(s[k]) = 0
    BY <1>5
  <2>2. QED
    BY <1>1, <1>3, <2>1, PageInLine
<1>6. CASE m.what = "answer" /\ OnAnswer(m)
  <2>r. PICK r : r = m.to.of
    OBVIOUS
  <2>1. r \in Refreshes \cup {Query}
    BY <1>3, <1>6, <2>r, MessageFacts, AskFacts
  <2>2. CASE r = Query /\ Begin([at EXCEPT ![Query] = "over"])
    <3>1. Begins(m)
      BY <1>6, <2>2, <2>r DEF Begin, Begins
    <3>2. QED
      BY <1>2, <3>1, BeginViews
  <2>3. CASE /\ Goes(Query, "over")
             /\ UNCHANGED <<got, mine, left, data, refreshSeq, shown, sources, up, bpList>>
    <3>1. \A q \in Refreshes : at'[q] = at[q]
      BY <1>1, <2>3, Bounds DEF Goes, PageTyped
    <3>2. Turns' /\ Answered' /\ LastIsFresh'
      BY <1>3, <1>4, <1>6, <2>3, <3>1, NoneViews
    <3>3. InLine'
      BY <1>1, <1>5, <2>3, AsksNoStack
    <3>4. QED
      BY <3>2, <3>3
  <2>4. CASE r # Query /\ at[r] = "stack" /\ OnStack(r, m)
    <3>1. \A q \in Refreshes : at[q] # "source"
      BY <1>2, NoSource
    <3>2. r \in Refreshes /\ m.to.of = r
      BY <2>1, <2>4, <2>r
    <3>3. QED
      BY <1>2, <1>5, <1>6, <2>4, <3>1, <3>2, StackViews
  <2>5. CASE \/ r # Query /\ at[r] = "scopes" /\ OnScopes(r, m)
             \/ r # Query /\ at[r] = "variables" /\ OnVariables(r, m)
    <3>1. r \in Refreshes /\ m.to.of = r
      BY <2>1, <2>5, <2>r
    <3>2. QED
      BY <1>2, <1>5, <1>6, <2>5, <3>1, RestViews
  <2>6. QED
    BY <1>6, <2>2, <2>3, <2>4, <2>5, <2>r DEF OnAnswer
<1>7. CASE m.what = "stopped" /\ Begin(at)
  <2>1. Begins(m)
    BY <1>7 DEF Begin, Begins
  <2>2. QED
    BY <1>2, <2>1, BeginViews
<1>8. CASE m.what \in {"breakpoints", "terminated"} /\ UNCHANGED <<refreshing, shown, sources, up>>
  <2>1. Turns' /\ Answered' /\ LastIsFresh'
    BY <1>3, <1>4, <1>8, NoneViews DEF refreshing
  <2>2. InLine'
    BY <1>1, <1>5, <1>8, AsksNoStack
  <2>3. QED
    BY <2>1, <2>2
<1>9. QED
  BY <1>2, <1>6, <1>7, <1>8

\* A file has come: one refresh at most waited for it.
LEMMA FetchedViews ==
  ASSUME IInv, InLine, Turns, Answered, LastIsFresh, NEW f \in Files, Fetched(f)
  PROVE  InLine' /\ Turns' /\ Answered' /\ LastIsFresh'
<1>1. PageTyped /\ Spoken
  BY Parts DEF Talk
<1>W. PICK W : W = {r \in Refreshes : at[r] = "source" /\ fileOf[got[r]] = f}
  OBVIOUS
<1>2. /\ Number(W) /\ source' = IF W = {} THEN source ELSE got[CHOOSE r \in W : \A q \in W : q <= r]
      /\ UNCHANGED <<got, data, stop, scopeData, down, asked>> /\ stops' = stops
  BY <1>W DEF Fetched, target
<1>3. InLine'
  <2>1. PICK s \in Seq(Asks \cup Commands) : up' = up \o s /\ \A k \in DOMAIN s : StackOf(s[k]) = 0
    BY <1>2, <1>W, NumberAsksScopes
  <2>2. QED
    BY <1>1, <1>2, <2>1, PageInLine
<1>4. CASE W = {}
  <2>1. UNCHANGED <<at, got, mine, data, refreshSeq, shown, down>> /\ stops' = stops
    BY <1>1, <1>2, <1>4, NumberNone DEF shown
  <2>2. Turns' /\ Answered' /\ LastIsFresh'
    BY <2>1, NoneViews
  <2>3. QED
    BY <1>3, <2>2
<1>5. CASE W # {}
  <2>1. PICK r \in W : TRUE
    BY <1>5
  <2>2. r \in Refreshes /\ at[r] = "source"
    BY <2>1, <1>W
  <2>3. \A q \in Refreshes : (q # r /\ at[q] \in {"stack", "source"}) => r < q
    <3> SUFFICES ASSUME NEW q \in Refreshes, q # r, at[q] \in {"stack", "source"} PROVE r < q
      OBVIOUS
    <3>1. ~(q < r)
      BY <2>2 DEF Turns
    <3>2. QED
      BY <2>2, <3>1 DEF Refreshes
  <2>4. \A q \in Refreshes : r < q => at[q] \in {"none", "stack"}
    BY <2>2 DEF Turns
  <2>5. W = {r}
    <3>1. \A q \in W : q \in Refreshes /\ at[q] = "source"
      BY <1>W
    <3>2. \A q \in W : q = r
      BY <2>3, <2>4, <3>1
    <3>3. QED
      BY <2>1, <3>2
  <2>6. source' = got[r]
    <3>1. r <= r
      BY <2>2 DEF Refreshes
    <3>2. (CHOOSE p \in {r} : \A q \in {r} : q <= p) = r
      BY <3>1
    <3>3. QED
      BY <1>2, <2>5, <3>2
  <2>7. /\ mine' = [mine EXCEPT ![r] = refreshSeq + 1] /\ refreshSeq' = refreshSeq + 1
        /\ at' = [at EXCEPT ![r] = "scopes"]
    BY <1>1, <1>2, <2>2, <2>5, NumberOne
  <2>8. /\ at'[r] = "scopes" /\ mine'[r] = refreshSeq' /\ mine'[r] > 0
        /\ \A q \in Refreshes : q # r => at'[q] = at[q]
    BY <1>1, <2>2, <2>7, SeqNat DEF PageTyped
  <2>9. OfNewest(r) => OfNewest(r)'
    BY <1>2, <2>2, <2>6, <2>8 DEF OfNewest
  <2>10. \A q \in Refreshes : (q > r /\ Last(q) /\ OfNewest(q)) => OfNewest(q)'
    <3> SUFFICES ASSUME NEW q \in Refreshes, q > r, Last(q), OfNewest(q) PROVE OfNewest(q)'
      OBVIOUS
    <3>1. at[q] = "stack" /\ q # r
      BY <2>2, <2>4 DEF Last, Refreshes
    <3>2. QED
      BY <1>2, <2>8, <3>1 DEF OfNewest
  <2>11. LastIsFresh' /\ Answered'
    <3>1. "scopes" \in Places /\ "scopes" # "none" /\ at[r] # "none"
      BY <2>2 DEF Places
    <3>2. \A q \in Refreshes : at[q] = "none" => data'[q] = data[q]
      BY <1>2
    <3>3. /\ \A i \in DOMAIN down' : \E j \in DOMAIN down : down'[i] = down[j]
          /\ \A i \in DOMAIN down : down[i].what # "stopped" \/ \E j \in DOMAIN down' : down'[j] = down[i]
      BY <1>2
    <3>4. QED
      BY <1>1, <2>2, <2>7, <2>9, <2>10, <3>1, <3>2, <3>3, MovesFresh
  <2>12. Turns'
    BY <1>1, <2>2, <2>3, <2>7, TurnsNumbered
  <2>13. QED
    BY <1>3, <2>11, <2>12
<1>6. QED
  BY <1>4, <1>5

Views == InLine /\ Turns /\ Answered /\ LastIsFresh

LEMMA ViewsNext == Views' <=> InLine' /\ Turns' /\ Answered' /\ LastIsFresh'
BY DEF Views

\* The page asks for no stack, and no refresh moves.
LEMMA NoMoveViews ==
  ASSUME IInv, Views, \A r \in Refreshes : at'[r] = at[r],
         UNCHANGED <<got, mine, data, refreshSeq, shown, down, asked>>, stops' = stops,
         \E s \in Seq(Asks \cup Commands) : up' = up \o s /\ \A k \in DOMAIN s : StackOf(s[k]) = 0
  PROVE  Views'
<1>1. Spoken
  BY Parts DEF Talk
<1>2. Turns' /\ Answered' /\ LastIsFresh'
  BY NoneViews DEF Views
<1>3. PICK s \in Seq(Asks \cup Commands) : up' = up \o s /\ \A k \in DOMAIN s : StackOf(s[k]) = 0
  OBVIOUS
<1>4. InLine'
  BY <1>1, <1>3, PageInLine DEF Views
<1>5. QED
  BY <1>2, <1>4, ViewsNext

LEMMA OnOpenViews ==
  ASSUME IInv, Views, OnOpen
  PROVE  Views'
<1>1. PageTyped /\ Spoken
  BY Parts DEF Talk
<1>c. PICK c : c = Command("empty", 0, 0)
  OBVIOUS
<1>q. PICK q : q = Ask(Query, "stack")
  OBVIOUS
<1>2. c \in Commands /\ StackOf(c) = 0
  BY <1>c, StackOfAsks DEF Commands, Command
<1>3. q \in Asks /\ StackOf(q) = 0
  BY <1>q, AskFacts, StackOfAsks DEF Query, Whats
<1>4. up = <<>> /\ up' = <<c, q>> /\ at' = [at EXCEPT ![Query] = "stack"]
  BY <1>1, <1>c, <1>q DEF OnOpen, Spoken, Goes
<1>5. \A r \in Refreshes : at'[r] = at[r]
  BY <1>1, <1>4, Bounds DEF PageTyped
<1>s. PICK s : s = <<c, q>>
  OBVIOUS
<1>6. s \in Seq(Asks \cup Commands) /\ \A k \in DOMAIN s : StackOf(s[k]) = 0
  BY <1>2, <1>3, <1>s
<1>7. up' = up \o s
  BY <1>4, <1>6, <1>s
<1>8. UNCHANGED <<got, mine, data, refreshSeq, shown, down, asked>> /\ stops' = stops
  BY DEF OnOpen, target
<1>9. QED
  BY <1>5, <1>6, <1>7, <1>8, NoMoveViews

LEMMA TimeoutViews ==
  ASSUME IInv, Views, Timeout
  PROVE  Views'
<1>1. PageTyped /\ Spoken
  BY Parts DEF Talk
<1>2. \A r \in Refreshes : at'[r] = at[r]
  BY <1>1, Bounds DEF PageTyped, Timeout, Goes
<1>3. UNCHANGED <<got, mine, data, refreshSeq, shown, down, asked, up>> /\ stops' = stops
  BY DEF Timeout, target
<1>4. QED
  BY <1>1, <1>2, <1>3, AsksNoStack, NoMoveViews

LEMMA SendsViews ==
  ASSUME IInv, IInv', Views, NEW c, StackOf(c) = 0, Sends(c)
  PROVE  Views'
<1>1. Spoken /\ Spoken'
  BY Parts, PartsNext DEF Talk
<1>u. PICK u : u = up'
  OBVIOUS
<1>2. u = Append(up, c) /\ up \in Seq(Asks \cup Commands) /\ u \in Seq(Asks \cup Commands)
  BY <1>1, <1>u DEF Sends, Spoken
<1>3. u[Len(u)] = c /\ Len(u) \in DOMAIN u
  BY <1>2
<1>4. c \in Asks \cup Commands
  BY <1>2, <1>3
<1>s. PICK s : s = <<c>>
  OBVIOUS
<1>5. s \in Seq(Asks \cup Commands) /\ \A k \in DOMAIN s : StackOf(s[k]) = 0
  BY <1>4, <1>s
<1>6. up' = up \o s
  <2>1. \A T : \A q \in Seq(T) : \A x \in T : Append(q, x) = q \o <<x>>
    OBVIOUS
  <2>2. up \in Seq(Asks \cup Commands)
    BY <1>2
  <2>3. Append(up, c) = up \o <<c>>
    BY <1>4, <2>1, <2>2
  <2>4. QED
    BY <1>2, <1>s, <1>u, <2>3
<1>7. /\ UNCHANGED <<got, mine, data, refreshSeq, shown, down, asked>> /\ stops' = stops
      /\ \A r \in Refreshes : at'[r] = at[r]
  BY DEF Sends, target, refreshing
<1>8. QED
  BY <1>5, <1>6, <1>7, NoMoveViews

\* A command or a stop that tells of no answer: the server sends msgs, or nothing.
LEMMA NoticeViews ==
  ASSUME IInv, Views, UNCHANGED <<refreshing, shown, asked>>, stops' = stops,
         up' = up \/ (up # <<>> /\ up' = Tail(up)),
         NEW m \in Messages, m.what # "answer", down' = down \/ Broadcast(<<m>>)
  PROVE  Views'
<1>1. Spoken
  BY Parts DEF Talk
<1>s. PICK msgs : msgs = <<m>>
  OBVIOUS
<1>2. msgs \in Seq(Messages) /\ \A k \in DOMAIN msgs : msgs[k] = m
  BY <1>s, OneMessage
<1>3. \A k \in DOMAIN msgs : StackOf(msgs[k]) = 0
  BY <1>2, StackOfAsks
<1>4. down' = down \/ Sent(msgs)
  BY <1>s DEF Broadcast, Sent
<1>5. InLine'
  <2>1. down' = down \/ down' = down \o msgs
    BY <1>4 DEF Sent
  <2>2. QED
    BY <1>1, <1>2, <1>3, <2>1, ServerInLine DEF Views
<1>6. /\ \A i \in DOMAIN down : i \in DOMAIN down' /\ down'[i] = down[i]
      /\ \A i \in DOMAIN down' : i \in DOMAIN down \/ down'[i] = m
  <2>1. CASE down' = down
    BY <2>1
  <2>2. CASE Sent(msgs)
    BY <1>1, <1>2, <2>2, SentMessages
  <2>3. QED
    BY <1>4, <2>1, <2>2
<1>7. Turns' /\ Answered' /\ LastIsFresh'
  BY <1>6, ServerViews DEF Views
<1>8. QED
  BY <1>5, <1>7, ViewsNext

LEMMA TableViews ==
  ASSUME IInv, IInv', Views, UNCHANGED <<refreshing, shown, asked>>, stops' = stops,
         up' = up \/ (up # <<>> /\ up' = Tail(up)),
         down' = down \/ Broadcast(<<Published(table', lineOf')>>)
  PROVE  Views'
<1>1. ServerTyped /\ ServerTyped'
  BY Parts, PartsNext
<1>T. PICK T : T = table'
  OBVIOUS
<1>on. PICK on : on = lineOf'
  OBVIOUS
<1>p. PICK p : p = Published(table', lineOf')
  OBVIOUS
<1>2. T \in SUBSET Nums /\ on \in [Nums -> Lines] /\ stops \in 0 .. MaxStops
  <2>1. T \subseteq 1 .. nextBpNum' - 1 /\ nextBpNum' \in 1 .. MaxCommands + 2
    BY <1>1, <1>T DEF ServerTyped
  <2>b. PICK b : b = nextBpNum'
    OBVIOUS
  <2>2. T \subseteq Nums
    <3>0. \A M \in Nat : \A k \in 1 .. M + 2 : k \in Nat /\ k - 1 <= M + 1
      OBVIOUS
    <3>1. b \in Nat /\ b - 1 <= MaxCommands + 1 /\ MaxCommands \in Nat
      <4>1. b \in 1 .. MaxCommands + 2
        BY <2>1, <2>b
      <4>2. MaxCommands \in Nat
        BY Bounds
      <4>3. QED
        BY <3>0, <4>1, <4>2
    <3>2. T \subseteq 1 .. b - 1
      BY <2>1, <2>b
    <3>3. QED
      BY <3>1, <3>2 DEF Nums
  <2>3. QED
    BY <1>1, <1>on, <2>2 DEF ServerTyped
<1>3. p = Published(T, on)
  BY <1>T, <1>on, <1>p
<1>4. p \in Messages /\ p.what # "answer"
  BY <1>2, <1>3, SentFacts
<1>5. down' = down \/ Broadcast(<<p>>)
  BY <1>p
<1>6. QED
  BY <1>4, <1>5, NoticeViews

LEMMA ExecuteSends ==
  ASSUME NEW c, Execute(c)
  PROVE  down' = down \/ Broadcast(<<Published(table', lineOf')>>)
<1>1. CASE c.what = "empty" \/ (c.what = "continue" /\ engine = "gone")
  <2>1. Broadcast(<<Published(table, lineOf)>>) /\ table' = table /\ lineOf' = lineOf
    BY <1>1 DEF Execute, points
  <2>2. Published(table', lineOf') = Published(table, lineOf)
    BY <2>1 DEF Published
  <2>3. QED
    BY <2>1, <2>2 DEF Broadcast
<1>2. CASE c.what = "break"
  BY <1>2 DEF Execute
<1>3. CASE c.what = "delete"
  <2>1. Broadcast(<<Published(table', lineOf)>>) /\ lineOf' = lineOf
    BY <1>3 DEF Execute
  <2>2. Published(table', lineOf') = Published(table', lineOf)
    BY <2>1 DEF Published
  <2>3. QED
    BY <2>1, <2>2 DEF Broadcast
<1>4. CASE c.what = "continue" /\ engine # "gone"
  BY <1>4 DEF Execute
<1>5. QED
  BY <1>1, <1>2, <1>3, <1>4 DEF Execute

LEMMA ClientMessageViews ==
  ASSUME IInv, IInv', Views, engine # "gone", ClientMessage
  PROVE  Views'
<1>1. Spoken
  BY Parts DEF Talk
<1>m. PICK m : m = Head(up)
  OBVIOUS
<1>2. /\ up # <<>> /\ up' = Tail(up) /\ UNCHANGED <<refreshing, shown>> /\ stops' = stops
      /\ \/ Execute(m) /\ UNCHANGED asked
         \/ m.what \in Whats /\ asked' = Append(asked, m) /\ down' = down
  BY <1>m DEF ClientMessage, Page, Whats
<1>3. CASE Execute(m) /\ UNCHANGED asked
  BY <1>2, <1>3, ExecuteSends, TableViews
<1>4. CASE m.what \in Whats /\ asked' = Append(asked, m) /\ down' = down
  <2>1. m \in Asks \cup Commands
    BY <1>1, <1>2, <1>m DEF Spoken
  <2>2. m \notin Commands
    BY <1>4 DEF Whats, Commands
  <2>3. InLine'
    BY <1>1, <1>2, <1>4, <1>m, <2>1, <2>2, PassedInLine DEF Views
  <2>4. Turns' /\ Answered' /\ LastIsFresh'
    BY <1>2, <1>4, ServerViews DEF Views
  <2>5. QED
    BY <2>3, <2>4, ViewsNext
<1>5. QED
  BY <1>2, <1>3, <1>4

LEMMA OverSends == Over => UNCHANGED <<refreshing, shown, asked, up>> /\ stops' = stops
                           /\ Broadcast(<<Published(table', lineOf')>>)
<1> SUFFICES ASSUME Over
             PROVE  UNCHANGED <<refreshing, shown, asked, up>> /\ stops' = stops
                    /\ Broadcast(<<Published(table', lineOf')>>)
  OBVIOUS
<1>1. Broadcast(<<Published(table', lineOf)>>) \/ Broadcast(<<Published(table', lineOf')>>)
  BY DEF Over
<1>2. lineOf' = lineOf
  BY DEF Over
<1>3. Published(table', lineOf') = Published(table', lineOf)
  BY <1>2 DEF Published
<1>4. QED
  BY <1>1, <1>3 DEF Over, Page, target, Broadcast

LEMMA AdoptMainSends ==
  ASSUME AdoptMain
  PROVE  /\ UNCHANGED <<refreshing, shown, asked, up>> /\ stops' = stops
         /\ down' = down \/ Broadcast(<<Published(table', lineOf')>>)
<1>1. UNCHANGED <<refreshing, shown, asked, up>> /\ stops' = stops
  BY DEF AdoptMain, Page
<1>2. CASE down' = down
  BY <1>1, <1>2
<1>3. CASE Broadcast(<<Published(table, lineOf)>>) /\ UNCHANGED points
  <2>1. Published(table', lineOf') = Published(table, lineOf)
    BY <1>3 DEF Published, points
  <2>2. QED
    BY <1>1, <1>3, <2>1 DEF Broadcast
<1>4. QED
  BY <1>2, <1>3 DEF AdoptMain

LEMMA EngineAnswersViews ==
  ASSUME IInv, Views, EngineAnswers
  PROVE  Views'
<1>1. ServerTyped /\ Spoken
  BY Parts DEF Talk
<1>q. PICK q : q = Head(asked)
  OBVIOUS
<1>a. PICK a : a = Answer(q, TRUE)
  OBVIOUS
<1>s. PICK msgs : msgs = <<a>>
  OBVIOUS
<1>2. /\ asked # <<>> /\ asked' = Tail(asked) /\ Sent(msgs) /\ up' = up /\ stops' = stops
      /\ UNCHANGED <<refreshing, shown>>
  BY <1>q, <1>a, <1>s DEF EngineAnswers, Page, Sent, Broadcast, target
<1>3. q \in Asks /\ page = "open"
  BY <1>1, <1>2, <1>q DEF Spoken, ServerTyped
<1>4. a \in Messages /\ a.ok /\ a.stop = stops /\ a.what = "answer" /\ StackOf(a) = StackOf(q)
  <2>1. /\ a \in Messages /\ a.ok = TRUE /\ a.stop = stops /\ a.what = "answer" /\ a.to = q
    BY <1>1, <1>3, <1>a, SentFacts DEF ServerTyped, Answer
  <2>2. QED
    BY <2>1, StackOfAsks
<1>5. msgs \in Seq(Messages) /\ \A k \in DOMAIN msgs : msgs[k] = a
  BY <1>4, <1>s, OneMessage
<1>6. down' = Append(down, a)
  BY <1>1, <1>2, <1>3, <1>4, <1>s DEF Sent, Spoken
<1>7. InLine'
  BY <1>1, <1>2, <1>4, <1>6, <1>q, AnsweredInLine DEF Views
<1>8. /\ \A i \in DOMAIN down : i \in DOMAIN down' /\ down'[i] = down[i]
      /\ \A i \in DOMAIN down' : i \in DOMAIN down \/ down'[i] = a
  BY <1>1, <1>2, <1>5, SentMessages
<1>9. Turns' /\ Answered' /\ LastIsFresh'
  BY <1>2, <1>4, <1>8, ServerViews DEF Views
<1>10. QED
  BY <1>7, <1>9, ViewsNext

\* A page that is there has yet to hear of the stop; one that is not has no refresh.
LEMMA EngineStopsViews ==
  ASSUME IInv, Views, NEW f \in Files, EngineStops(f)
  PROVE  Views'
<1>1. ServerTyped /\ Spoken /\ Held /\ PageTyped
  BY Parts DEF Talk
<1>m. PICK m : m = [what |-> "stopped"]
  OBVIOUS
<1>s. PICK msgs : msgs = <<m>>
  OBVIOUS
<1>2. Sent(msgs) /\ up' = up /\ asked' = asked /\ UNCHANGED <<refreshing, shown>>
  BY <1>m, <1>s DEF EngineStops, Page, Sent, Broadcast
<1>3. m \in Messages /\ m.what = "stopped"
  BY <1>m DEF Messages, Notices
<1>4. msgs \in Seq(Messages) /\ \A k \in DOMAIN msgs : msgs[k] = m
  BY <1>3, <1>s, OneMessage
<1>5. \A k \in DOMAIN msgs : StackOf(msgs[k]) = 0
  BY <1>3, <1>4, StackOfAsks
<1>6. InLine'
  <2>1. down' = down \/ down' = down \o msgs
    BY <1>2 DEF Sent
  <2>2. QED
    BY <1>1, <1>2, <1>4, <1>5, <2>1, ServerInLine DEF Views
<1>7. /\ \A i \in DOMAIN down : i \in DOMAIN down' /\ down'[i] = down[i]
      /\ \A i \in DOMAIN down' : i \in DOMAIN down \/ down'[i] = m
  BY <1>1, <1>2, <1>4, SentMessages
<1>8. Turns'
  BY <1>2 DEF Views, Turns, refreshing
<1>9. Answered'
  BY <1>2, <1>3, <1>7 DEF Views, Answered, refreshing, shown
<1>10. CASE page = "open"
  <2>1. down \in Seq(Messages) /\ down' = down \o <<m>>
    BY <1>1, <1>2, <1>10, <1>s DEF Spoken, Sent
  <2>d. PICK d : d = down \o <<m>>
    OBVIOUS
  <2>2. Len(down) + 1 \in DOMAIN d /\ d[Len(down) + 1] = m
    BY <2>1, <2>d, <1>3
  <2>3. \E i \in DOMAIN down' : down'[i].what = "stopped"
    BY <1>3, <2>1, <2>2, <2>d
  <2>4. LastIsFresh'
    BY <2>3 DEF LastIsFresh
  <2>5. QED
    BY <1>6, <1>8, <1>9, <2>4, ViewsNext
<1>11. CASE page # "open"
  <2>1. \A r \in Refreshes : at[r] = "none"
    <3>1. page = "closed" /\ \A r \in Refreshes : r \in DOMAIN at
      BY <1>1, <1>11 DEF ServerTyped, PageTyped
    <3>2. QED
      BY <1>1, <3>1 DEF Held, Counts
  <2>2. \A r \in Refreshes : ~Last(r)'
    BY <1>2, <2>1 DEF Last, refreshing
  <2>3. LastIsFresh'
    BY <2>2 DEF LastIsFresh
  <2>4. QED
    BY <1>6, <1>8, <1>9, <2>3, ViewsNext
<1>12. QED
  BY <1>10, <1>11

-----------------------------------------------------------------------------
(* The newest stop                                                           *)

LEMMA InitViews == Init => Views
<1> SUFFICES ASSUME Init PROVE Views
  OBVIOUS
<1>1. /\ up = <<>> /\ down = <<>> /\ asked = <<>> /\ stop = 0 /\ refreshSeq = 0
      /\ \A r \in Refreshes : at[r] = "none" /\ mine[r] = 0 /\ data[r] = {}
  BY DEF Init
<1>2. DOMAIN up = {} /\ DOMAIN down = {} /\ DOMAIN asked = {}
  BY <1>1
<1>3. InLine
  BY <1>2 DEF InLine, Rising, Below
<1>4. Turns
  BY <1>1 DEF Turns
<1>5. Answered /\ LastIsFresh
  BY <1>1, <1>2 DEF Answered, LastIsFresh, Last
<1>6. QED
  BY <1>3, <1>4, <1>5 DEF Views

LEMMA NextAdopts ==
  ASSUME [Next]_vars, adopting' = "stopped", engine' = "gone"
  PROVE  adopting = "stopped" /\ engine = "gone"
<1>1. Next \/ UNCHANGED vars
  OBVIOUS
<1>2. \A c : Execute(c) => engine = "gone"
  BY DEF Execute
<1>3. CASE OnOpen \/ OnFrame \/ Timeout \/ Resume \/ (\E f \in Files : Fetched(f)) \/ (\E l \in Lines : Toggle(l))
  BY <1>3 DEF OnOpen, OnFrame, Timeout, Resume, Fetched, Toggle, Sends, target, interpreter
<1>4. CASE ClientMessage \/ OtherClient
  BY <1>2, <1>4 DEF ClientMessage, OtherClient
<1>5. CASE Reported \/ Adopted \/ AdoptMain
  BY <1>5 DEF Reported, Adopted, AdoptMain, Over, target
<1>6. CASE (\E f \in Files : EngineStops(f)) \/ EngineAnswers
  BY <1>6 DEF EngineStops, EngineAnswers, target, interpreter
<1>7. CASE EngineEnds
  <2>1. adopting' = CASE adopting = "resumed" -> "report" [] adopting \in {"entry", "stopped"} -> "over" [] OTHER -> adopting
    BY <1>7 DEF EngineEnds
  <2>2. CASE adopting = "resumed"
    BY <2>1, <2>2
  <2>3. CASE adopting \in {"entry", "stopped"}
    BY <2>1, <2>3
  <2>4. CASE adopting \notin {"resumed", "entry", "stopped"}
    BY <2>1, <2>4
  <2>5. QED
    BY <2>2, <2>3, <2>4
<1>8. CASE UNCHANGED vars
  BY <1>8 DEF vars, target, interpreter
<1>9. QED
  BY <1>1, <1>3, <1>4, <1>5, <1>6, <1>7, <1>8 DEF Next

LEMMA NextViews ==
  ASSUME ~SlowSources, IInv, IInv', NInv, [Next]_vars
  PROVE  NInv'
<1>a. adopting' = "stopped" => engine' # "gone"
  <2>1. adopting' = "stopped" /\ engine' = "gone" => adopting = "stopped" /\ engine = "gone"
    BY NextAdopts
  <2>2. QED
    BY <2>1 DEF NInv
<1> SUFFICES ASSUME engine' # "gone" PROVE Views'
  BY <1>a DEF NInv, Views
<1>0. engine # "gone"
  <2>1. Next \/ UNCHANGED vars
    OBVIOUS
  <2>2. SUFFICES ASSUME engine = "gone" PROVE engine' = "gone"
    OBVIOUS
  <2>3. \A c : Execute(c) => engine' = "gone"
    BY <2>2 DEF Execute
  <2>4. CASE OnOpen \/ OnFrame \/ Timeout \/ Resume \/ (\E f \in Files : Fetched(f)) \/ (\E l \in Lines : Toggle(l))
    BY <2>2, <2>4 DEF OnOpen, OnFrame, Timeout, Resume, Fetched, Toggle, Sends, target
  <2>5. CASE ClientMessage \/ OtherClient
    BY <2>2, <2>3, <2>5 DEF ClientMessage, OtherClient
  <2>6. CASE Reported \/ Adopted
    BY <2>2, <2>6 DEF Reported, Adopted, Over, target
  <2>7. CASE AdoptMain
    BY <2>2, <2>7 DEF AdoptMain, NInv
  <2>8. CASE (\E f \in Files : EngineStops(f)) \/ EngineAnswers \/ EngineEnds
    BY <2>2, <2>8 DEF EngineStops, EngineAnswers, EngineEnds
  <2>9. CASE UNCHANGED vars
    BY <2>2, <2>9 DEF vars, target
  <2>10. QED
    BY <2>1, <2>4, <2>5, <2>6, <2>7, <2>8, <2>9 DEF Next
<1>1. Views
  BY <1>0 DEF NInv, Views
<1>2. CASE OnOpen
  BY <1>1, <1>2, OnOpenViews
<1>3. CASE OnFrame
  BY <1>1, <1>3, OnFrameViews, ViewsNext DEF Views
<1>4. CASE Timeout
  BY <1>1, <1>4, TimeoutViews
<1>5. ASSUME NEW c \in {"break", "delete", "continue"}, NEW l, NEW n, Sends(Command(c, l, n)) PROVE Views'
  <2>1. StackOf(Command(c, l, n)) = 0
    BY DEF StackOf, Command
  <2>2. QED
    BY <1>1, <1>5, <2>1, SendsViews
<1>6. CASE Resume
  BY <1>5, <1>6 DEF Resume
<1>7. ASSUME NEW l \in Lines, Toggle(l) PROVE Views'
  BY <1>5, <1>7 DEF Toggle
<1>8. ASSUME NEW f \in Files, Fetched(f) PROVE Views'
  BY <1>1, <1>8, FetchedViews, ViewsNext DEF Views
<1>9. CASE ClientMessage
  BY <1>0, <1>1, <1>9, ClientMessageViews
<1>10. CASE OtherClient
  <2>1. PICK c : Execute(c)
    BY <1>10 DEF OtherClient
  <2>2. UNCHANGED <<refreshing, shown, asked, up>> /\ stops' = stops
    BY <1>10 DEF OtherClient
  <2>3. QED
    BY <1>1, <2>1, <2>2, ExecuteSends, TableViews
<1>11. CASE AdoptMain
  BY <1>1, <1>11, AdoptMainSends, TableViews
<1>12. CASE Reported
  BY <1>1, <1>12, OverSends, TableViews DEF Reported
<1>13. CASE Adopted
  <2>1. Over \/ (UNCHANGED <<refreshing, shown, asked, up, down>> /\ stops' = stops)
    BY <1>13 DEF Adopted, Page, target
  <2>2. QED
    BY <1>1, <2>1, OverSends, TableViews
<1>14. ASSUME NEW f \in Files, EngineStops(f) PROVE Views'
  BY <1>1, <1>14, EngineStopsViews
<1>15. CASE EngineAnswers
  BY <1>1, <1>15, EngineAnswersViews
<1>16. CASE EngineEnds
  BY <1>16 DEF EngineEnds
<1>17. CASE UNCHANGED vars
  <2>1. /\ UNCHANGED <<got, mine, data, refreshSeq, shown, down, asked, up>> /\ stops' = stops
        /\ \A r \in Refreshes : at'[r] = at[r]
    BY <1>17 DEF vars, refreshing, target
  <2>2. Spoken
    BY Parts DEF Talk
  <2>3. QED
    BY <1>1, <2>1, <2>2, AsksNoStack, NoMoveViews
<1>18. QED
  BY <1>2, <1>3, <1>4, <1>6, <1>7, <1>8, <1>9, <1>10, <1>11, <1>12, <1>13, <1>14, <1>15, <1>16, <1>17 DEF Next

\* While the engine lives messages stay in line, refreshes are numbered in the order
\* they began, and the last of them is told of the newest stop: if a source file is
\* never slower than the engine's next message.
THEOREM NewestInvariance == ASSUME ~SlowSources PROVE Spec => []NInv
<1>1. Init => NInv
  BY InitViews DEF NInv, Views, Init
<1>2. IInv /\ IInv' /\ NInv /\ [Next]_vars => NInv'
  BY NextViews
<1>3. QED
  BY <1>1, <1>2, Invariance, PTL DEF Spec

\* When nothing is on its way, the page shows the newest stop, its source and its
\* variables, however refreshes overlapped: if source files are quick.
THEOREM NewestCorrect == ASSUME ~SlowSources PROVE Spec => []ShownIsNewest
<1>1. IInv /\ NInv => ShownIsNewest
  <2> SUFFICES ASSUME IInv, NInv, Quiet, engine = "stopped", stop # 0
               PROVE  /\ stop = stops /\ source = stops
                      /\ scopeData.of = stops /\ scopeData.from \subseteq {stops}
    BY DEF ShownIsNewest
  <2>1. Answered /\ LastIsFresh /\ down = <<>>
    BY DEF NInv, Quiet
  <2>U. PICK U : U = {r \in Refreshes : at[r] # "none"}
    OBVIOUS
  <2>2. U # {} /\ U \subseteq Refreshes
    BY <2>1, <2>U DEF Answered
  <2>3. PICK r \in U : \A q \in U : q <= r
    BY <2>2, GreatestOf
  <2>4. r \in Refreshes /\ at[r] = "over"
    BY <2>2, <2>3, <2>U DEF Quiet
  <2>5. ASSUME NEW q \in Refreshes, q > r PROVE at[q] = "none"
    <3>1. ~(q <= r)
      BY <2>4, <2>5 DEF Refreshes
    <3>2. QED
      BY <2>3, <2>U, <3>1
  <2>6. Last(r)
    BY <2>4, <2>5 DEF Last
  <2>7. OfNewest(r)
    BY <2>1, <2>4, <2>6 DEF LastIsFresh
  <2>8. QED
    BY <2>4, <2>7 DEF OfNewest
<1>2. QED
  BY <1>1, Invariance, NewestInvariance, PTL

-----------------------------------------------------------------------------
(* Stops in their order                                                     *)

\* Another message has been read.
LEMMA InOrderTail ==
  ASSUME NEW T, NEW q \in Seq(T), q # <<>>, NEW s, InOrder(q, s), NEW m, m = Head(q), NEW r, r = Tail(q)
  PROVE  InOrder(r, s) /\ (Tells(m) => s <= m.stop /\ InOrder(r, m.stop))
<1>1. /\ 1 \in DOMAIN q /\ q[1] = m
      /\ \A i \in DOMAIN r : i + 1 \in DOMAIN q /\ r[i] = q[i + 1] /\ i \in Nat
      /\ \A i \in DOMAIN r : i \in DOMAIN r
  BY TailAt
<1>2. \A i \in DOMAIN r : 1 < i + 1
  BY <1>1
<1>3. \A i, j \in DOMAIN r : i < j => i + 1 < j + 1
  BY <1>1
<1>4. \A i \in DOMAIN r : Tells(r[i]) => s <= r[i].stop
  BY <1>1 DEF InOrder
<1>5. \A i, j \in DOMAIN r : i < j /\ Tells(r[i]) /\ Tells(r[j]) => r[i].stop <= r[j].stop
  BY <1>1, <1>3 DEF InOrder
<1>6. Tells(m) => s <= m.stop /\ \A i \in DOMAIN r : Tells(r[i]) => m.stop <= r[i].stop
  BY <1>1, <1>2 DEF InOrder
<1>7. QED
  BY <1>4, <1>5, <1>6 DEF InOrder

\* More is told, of a stop no older than any told before.
LEMMA InOrderExtends ==
  ASSUME NEW T, NEW q \in Seq(T), NEW t \in Seq(T), NEW s \in Nat, NEW n \in Nat, InOrder(q, s), s <= n,
         \A i \in DOMAIN q : Tells(q[i]) => q[i].stop <= n,
         \A k \in DOMAIN t : Tells(t[k]) => t[k].stop = n, NEW r, r = q \o t
  PROVE  InOrder(r, s)
<1>1. /\ \A i \in DOMAIN r : i \in Nat
      /\ \A i \in DOMAIN r : \/ i \in DOMAIN q /\ r[i] = q[i]
                             \/ i > Len(q) /\ i - Len(q) \in DOMAIN t /\ r[i] = t[i - Len(q)]
      /\ Len(q) \in Nat /\ DOMAIN q = 1 .. Len(q)
  BY ConcatAt
<1>2. \A i \in DOMAIN r : \/ i \in DOMAIN q /\ r[i] = q[i]
                          \/ i > Len(q) /\ (Tells(r[i]) => r[i].stop = n)
  BY <1>1
<1>3. \A i \in DOMAIN r : Tells(r[i]) => s <= r[i].stop
  BY <1>2 DEF InOrder
<1>4. ASSUME NEW i \in DOMAIN r, NEW j \in DOMAIN r, i < j, Tells(r[i]), Tells(r[j])
      PROVE  r[i].stop <= r[j].stop
  <2>1. CASE j \in DOMAIN q /\ r[j] = q[j]
    <3>1. ~(i > Len(q))
      BY <1>1, <1>4, <2>1
    <3>2. i \in DOMAIN q /\ r[i] = q[i]
      BY <1>2, <3>1
    <3>3. QED
      BY <1>4, <2>1, <3>2 DEF InOrder
  <2>2. CASE r[j].stop = n
    <3>1. CASE i \in DOMAIN q /\ r[i] = q[i]
      BY <1>4, <2>2, <3>1
    <3>2. CASE r[i].stop = n
      BY <2>2, <3>2
    <3>3. QED
      BY <1>2, <1>4, <3>1, <3>2
  <2>3. QED
    BY <1>2, <1>4, <2>1, <2>2
<1>5. QED
  BY <1>3, <1>4 DEF InOrder

\* Of the stop that is shown and of those the page has.
LEMMA StopTypes ==
  ASSUME IInv
  PROVE  /\ stops \in Nat /\ stop \in Nat /\ source \in Nat /\ stop <= stops
         /\ \A r \in Refreshes : got[r] \in Nat /\ mine[r] \in Nat
         /\ scopeData.of \in Nat /\ refreshSeq \in Nat
         /\ \A i \in DOMAIN down : Tells(down[i]) => down[i].stop <= stops
<1>1. PageTyped /\ ServerTyped /\ Spoken
  BY Parts DEF Talk
<1>2. stops \in Nat
  BY <1>1, Bounds DEF ServerTyped
<1>3. stop \in 0 .. stops /\ source \in 0 .. stops /\ scopeData.of \in 0 .. stops
      /\ \A r \in Refreshes : got[r] \in 0 .. stops
  BY <1>1 DEF PageTyped
<1>4. refreshSeq \in Nat /\ \A r \in Refreshes : mine[r] \in Nat
  BY <1>1, SeqNat
<1>5. QED
  BY <1>1, <1>2, <1>3, <1>4 DEF Spoken, Tells

\* Nothing that is shown changes, and the refreshes stay where they were.
LEMMA StaysInOrder ==
  ASSUME OInv, InOrder(down', stop), UNCHANGED <<got, mine, refreshSeq, shown>>,
         \A r \in Refreshes : at'[r] = at[r]
  PROVE  OInv'
<1>1. StopsInOrder'
  BY DEF OInv, StopsInOrder, shown
<1>2. NumbersInOrder => NumbersInOrder'
  BY DEF NumbersInOrder, shown
<1>3. QED
  BY <1>1, <1>2 DEF OInv

\* The server says more, of the newest stop if of any.
LEMMA SaysInOrder ==
  ASSUME IInv, OInv, UNCHANGED <<refreshing, shown>>, NEW msgs, msgs \in Seq(Messages),
         \A k \in DOMAIN msgs : Tells(msgs[k]) => msgs[k].stop = stops,
         down' = down \/ Broadcast(msgs)
  PROVE  OInv'
<1>1. down \in Seq(Messages)
  BY Parts DEF Talk, Spoken
<1>2. stops \in Nat /\ stop \in Nat /\ stop <= stops /\ \A i \in DOMAIN down : Tells(down[i]) => down[i].stop <= stops
  BY StopTypes
<1>3. InOrder(down, stop)
  BY DEF OInv, StopsInOrder
<1>r. PICK r : r = down \o msgs
  OBVIOUS
<1>4. InOrder(r, stop)
  BY <1>1, <1>2, <1>3, <1>r, InOrderExtends
<1>5. InOrder(down', stop)
  <2>1. down' = down \/ down' = r
    BY <1>r DEF Broadcast
  <2>2. CASE down' = down
    BY <1>3, <2>2
  <2>3. CASE down' = r
    BY <1>4, <2>3
  <2>4. QED
    BY <2>1, <2>2, <2>3
<1>6. QED
  BY <1>5, StaysInOrder DEF refreshing

\* The server publishes its table, or says nothing.
LEMMA TableInOrder ==
  ASSUME IInv, IInv', OInv, UNCHANGED <<refreshing, shown>>,
         down' = down \/ Broadcast(<<Published(table', lineOf')>>)
  PROVE  OInv'
<1>p. PICK p : p = Published(table', lineOf')
  OBVIOUS
<1>s. PICK msgs : msgs = <<p>>
  OBVIOUS
<1>1. p.what = "breakpoints"
  BY <1>p DEF Published
<1>2. CASE down' = down
  <2>1. InOrder(down', stop)
    BY <1>2 DEF OInv, StopsInOrder
  <2>2. QED
    BY <2>1, StaysInOrder DEF refreshing
<1>3. CASE Broadcast(msgs)
  <2>1. CASE p \in Messages
    <3>1. msgs \in Seq(Messages) /\ \A k \in DOMAIN msgs : msgs[k] = p
      BY <1>s, <2>1, OneMessage
    <3>2. \A k \in DOMAIN msgs : Tells(msgs[k]) => msgs[k].stop = stops
      BY <1>1, <3>1 DEF Tells
    <3>3. QED
      BY <1>3, <3>1, <3>2, SaysInOrder
  <2>2. CASE page # "open"
    BY <1>2, <1>3, <2>2 DEF Broadcast
  <2>3. CASE page = "open"
    <3>1. down' = down \o msgs /\ down \in Seq(Messages) /\ down' \in Seq(Messages)
      BY <1>3, <2>3, Parts, PartsNext DEF Broadcast, Talk, Spoken
    <3>d. PICK d \in Seq(Messages) : d = down \o <<p>>
      BY <1>s, <3>1
    <3>2. Len(down) + 1 \in DOMAIN d /\ d[Len(down) + 1] = p
      BY <3>1, <3>d
    <3>3. p \in Messages
      BY <3>d, <3>2
    <3>4. QED
      BY <2>1, <3>3
  <2>4. QED
    BY <2>2, <2>3
<1>4. QED
  BY <1>2, <1>3, <1>p, <1>s

\* What NeverBack says of a step.
Forward ==
  /\ stop' >= stop
  /\ ~SlowSources => source' >= source /\ scopeData'.of >= scopeData.of

LEMMA ShownStays == IInv /\ UNCHANGED shown => Forward
<1> SUFFICES ASSUME IInv, UNCHANGED shown PROVE Forward
  OBVIOUS
<1>1. stop' = stop /\ source' = source /\ scopeData' = scopeData
  BY DEF shown
<1>2. stop \in Nat /\ source \in Nat /\ scopeData.of \in Nat
  BY StopTypes
<1>3. QED
  BY <1>1, <1>2 DEF Forward

\* The page reads a message.
LEMMA ReadInOrder ==
  ASSUME IInv, OInv, NEW m, Frame(m)
  PROVE  InOrder(down', stop) /\ (Tells(m) => stop <= m.stop /\ m.stop \in Nat /\ InOrder(down', m.stop))
<1>1. down \in Seq(Messages) /\ ServerTyped /\ Spoken
  BY Parts DEF Talk, Spoken
<1>2. down # <<>> /\ m = Head(down) /\ down' = Tail(down)
  BY DEF Frame
<1>3. InOrder(down, stop)
  BY DEF OInv, StopsInOrder
<1>4. InOrder(down', stop) /\ (Tells(m) => stop <= m.stop /\ InOrder(down', m.stop))
  BY <1>1, <1>2, <1>3, InOrderTail
<1>5. Tells(m) => m.stop \in Nat
  <2>1. Tells(m) => m.stop \in 0 .. stops
    BY <1>1, FrameFacts DEF Tells
  <2>2. QED
    BY <2>1
<1>6. QED
  BY <1>4, <1>5

\* Refresh r goes on, or is over, without a number; its variables are shown if it is
\* the newest.
LEMMA MovesInOrder ==
  ASSUME IInv, OInv, InOrder(down', stop), NEW r \in Refreshes, NEW w, w # "source",
         w \in {"scopes", "variables"} => at[r] \in {"scopes", "variables"},
         at' = [at EXCEPT ![r] = w], UNCHANGED <<got, mine, refreshSeq, stop, source>>,
         \/ scopeData'.of = scopeData.of
         \/ at[r] = "variables" /\ mine[r] = refreshSeq /\ scopeData'.of = got[r]
  PROVE  OInv' /\ Forward
<1>1. /\ stop \in Nat /\ source \in Nat /\ scopeData.of \in Nat /\ refreshSeq \in Nat
      /\ \A q \in Refreshes : got[q] \in Nat /\ mine[q] \in Nat
  BY StopTypes
<1>2. \A q \in Refreshes : at'[q] = IF q = r THEN w ELSE at[q]
  BY Parts DEF PageTyped
<1>3. StopsInOrder'
  BY DEF OInv, StopsInOrder
<1>4. ASSUME NumbersInOrder
      PROVE  NumbersInOrder' /\ scopeData'.of >= scopeData.of
  <2>1. CASE scopeData'.of = scopeData.of
    <3>1. NumbersInOrder'
      BY <1>2, <1>4, <2>1 DEF NumbersInOrder
    <3>2. QED
      BY <1>1, <2>1, <3>1
  <2>2. CASE at[r] = "variables" /\ mine[r] = refreshSeq /\ scopeData'.of = got[r]
    <3>1. mine[r] > 0
      BY <1>4, <2>2 DEF NumbersInOrder
    <3>2. \A q \in Refreshes : mine[q] > 0 => got[q] <= got[r]
      BY <1>4, <2>2 DEF NumbersInOrder
    <3>3. scopeData.of <= got[r]
      BY <1>1, <1>4, <3>2 DEF NumbersInOrder
    <3>4. NumbersInOrder'
      BY <1>2, <1>4, <2>2, <3>1 DEF NumbersInOrder
    <3>5. QED
      BY <1>1, <2>2, <3>3, <3>4
  <2>3. QED
    BY <2>1, <2>2
<1>5. QED
  BY <1>1, <1>3, <1>4 DEF OInv, Forward

\* Refresh r has its number, and shows its source.
LEMMA NumberInOrder ==
  ASSUME IInv, OInv, ~SlowSources, NEW r \in Refreshes, mine[r] = 0, Number({r}), scopeData' = scopeData,
         source' = stop', got'[r] = stop', stop <= stop', stop' \in Nat,
         \A q \in Refreshes : q # r => got'[q] = got[q] /\ at[q] # "source"
  PROVE  NumbersInOrder' /\ source' >= source /\ scopeData'.of >= scopeData.of
<1>1. /\ stop \in Nat /\ source \in Nat /\ scopeData.of \in Nat /\ refreshSeq \in Nat
      /\ \A q \in Refreshes : got[q] \in Nat /\ mine[q] \in Nat
  BY StopTypes
<1>2. PageTyped
  BY Parts
<1>3. /\ mine' = [mine EXCEPT ![r] = refreshSeq + 1] /\ refreshSeq' = refreshSeq + 1
      /\ at' = [at EXCEPT ![r] = "scopes"]
  BY <1>2, NumberOne
<1>4. /\ \A q \in Refreshes : at'[q] = IF q = r THEN "scopes" ELSE at[q]
      /\ \A q \in Refreshes : mine'[q] = IF q = r THEN refreshSeq + 1 ELSE mine[q]
  BY <1>2, <1>3 DEF PageTyped
<1>5. NumbersInOrder /\ StopsInOrder
  BY DEF OInv
<1>6. \A q \in Refreshes : got[q] <= stop' /\ mine[q] <= refreshSeq
  <2>1. \A q \in Refreshes : got[q] <= stop /\ mine[q] <= refreshSeq
    BY <1>5 DEF StopsInOrder, NumbersInOrder
  <2>2. QED
    BY <1>1, <2>1
<1>7. \A q \in Refreshes : at'[q] # "source"
  BY <1>4
<1>8. \A q \in Refreshes : got'[q] <= source'
  BY <1>6
<1>9. \A q \in Refreshes : /\ at'[q] \in {"scopes", "variables"} => mine'[q] > 0
                           /\ mine'[q] <= refreshSeq'
  BY <1>1, <1>3, <1>4, <1>5, <1>6 DEF NumbersInOrder
<1>10. ASSUME NEW p \in Refreshes, NEW q \in Refreshes, mine'[p] > 0, mine'[p] <= mine'[q]
       PROVE  got'[p] <= got'[q]
  <2>1. CASE q = r
    BY <1>8, <2>1
  <2>2. CASE q # r
    <3>1. mine'[q] = mine[q] /\ mine[q] <= refreshSeq
      BY <1>4, <1>6, <2>2
    <3>2. p # r
      BY <1>1, <1>4, <1>10, <3>1
    <3>3. QED
      BY <1>4, <1>5, <1>10, <2>2, <3>2 DEF NumbersInOrder
  <2>3. QED
    BY <2>1, <2>2
<1>11. scopeData'.of = 0 \/ \E q \in Refreshes : mine'[q] > 0 /\ got'[q] = scopeData'.of
  <2>1. CASE scopeData.of = 0
    BY <2>1
  <2>2. CASE scopeData.of # 0
    <3>1. PICK q \in Refreshes : mine[q] > 0 /\ got[q] = scopeData.of
      BY <1>5, <2>2 DEF NumbersInOrder
    <3>2. q # r
      BY <3>1
    <3>3. mine'[q] > 0 /\ got'[q] = scopeData'.of
      BY <1>4, <3>1, <3>2
    <3>4. QED
      BY <3>3
  <2>3. QED
    BY <2>1, <2>2
<1>12. NumbersInOrder'
  BY <1>7, <1>8, <1>9, <1>10, <1>11 DEF NumbersInOrder
<1>13. source' >= source
  BY <1>1, <1>5 DEF StopsInOrder
<1>14. QED
  BY <1>1, <1>12, <1>13

\* The stack of refresh r comes.
LEMMA StackInOrder ==
  ASSUME IInv, OInv, NEW m, Frame(m), m.what = "answer", ~SlowSources => \A q \in Refreshes : at[q] # "source",
         NEW r \in Refreshes, at[r] = "stack", OnStack(r, m)
  PROVE  OInv' /\ Forward
<1>1. PageTyped /\ ServerTyped /\ Spoken /\ Held
  BY Parts DEF Talk
<1>2. InOrder(down', stop) /\ (Tells(m) => stop <= m.stop /\ m.stop \in Nat /\ InOrder(down', m.stop))
  BY ReadInOrder
<1>3. /\ stop \in Nat /\ source \in Nat /\ scopeData.of \in Nat
      /\ \A q \in Refreshes : got[q] \in Nat /\ mine[q] \in Nat
  BY StopTypes
<1>4. CASE ~m.ok
  <2>1. at' = [at EXCEPT ![r] = "over"] /\ UNCHANGED <<got, mine, refreshSeq, shown>>
    BY <1>4 DEF OnStack, Goes
  <2>2. UNCHANGED <<stop, source>> /\ scopeData'.of = scopeData.of
    BY <2>1 DEF shown
  <2>3. QED
    BY <1>2, <2>1, <2>2, MovesInOrder
<1>5. CASE m.ok
  <2>f. PICK f : f = fileOf[m.stop]
    OBVIOUS
  <2>1. /\ got' = [got EXCEPT ![r] = m.stop] /\ stop' = m.stop /\ scopeData' = scopeData
        /\ \/ source' = m.stop /\ Number({r})
           \/ Goes(r, "source") /\ UNCHANGED <<source, mine, refreshSeq>>
    BY <1>5, <2>f DEF OnStack
  <2>2. stop <= m.stop /\ m.stop \in Nat /\ InOrder(down', m.stop)
    BY <1>2, <1>5 DEF Tells
  <2>3. got'[r] = m.stop /\ \A q \in Refreshes : q # r => got'[q] = got[q]
    BY <1>1, <2>1 DEF PageTyped
  <2>4. mine[r] = 0
    BY <1>1 DEF Held
  <2>5. source <= stop /\ \A q \in Refreshes : got[q] <= stop
    BY DEF OInv, StopsInOrder
  <2>6. StopsInOrder' /\ stop' >= stop
    <3>1. source' <= m.stop /\ \A q \in Refreshes : got'[q] <= m.stop
      BY <1>3, <2>1, <2>2, <2>3, <2>5
    <3>2. QED
      BY <1>3, <2>1, <2>2, <3>1 DEF StopsInOrder
  <2>7. CASE SlowSources
    BY <2>6, <2>7 DEF OInv, Forward
  <2>8. CASE ~SlowSources /\ source' = m.stop /\ Number({r})
    <3>1. NumbersInOrder' /\ source' >= source /\ scopeData'.of >= scopeData.of
      BY <2>1, <2>2, <2>3, <2>4, <2>8, NumberInOrder
    <3>2. QED
      BY <2>6, <3>1 DEF OInv, Forward
  <2>9. CASE ~SlowSources /\ Goes(r, "source") /\ UNCHANGED <<source, mine, refreshSeq>>
    <3>1. \A q \in Refreshes : at'[q] = IF q = r THEN "source" ELSE at[q]
      BY <1>1, <2>9 DEF Goes, PageTyped
    <3>2. NumbersInOrder
      BY <2>9 DEF OInv
    <3>3. \A q \in Refreshes : at'[q] = "source" => q = r
      BY <2>9, <3>1
    <3>4. \A q \in Refreshes : mine'[q] > 0 => q # r
      BY <2>4, <2>9
    <3>5. \A q \in Refreshes : mine[q] > 0 => got'[q] = got[q]
      BY <2>3, <2>4
    <3>6. \A q \in Refreshes : /\ mine'[q] > 0 => got'[q] <= source'
                               /\ at'[q] \in {"scopes", "variables"} => mine'[q] > 0
                               /\ mine'[q] <= refreshSeq'
      BY <2>9, <3>1, <3>2, <3>5 DEF NumbersInOrder
    <3>7. \A p, q \in Refreshes : mine'[p] > 0 /\ mine'[p] <= mine'[q] => got'[p] <= got'[q]
      <4> SUFFICES ASSUME NEW p \in Refreshes, NEW q \in Refreshes, mine[p] > 0, mine[p] <= mine[q]
                   PROVE  got'[p] <= got'[q]
        BY <2>9
      <4>1. mine[q] > 0
        BY <1>3
      <4>2. QED
        BY <3>2, <3>5, <4>1 DEF NumbersInOrder
    <3>8. scopeData'.of = 0 \/ \E q \in Refreshes : mine'[q] > 0 /\ got'[q] = scopeData'.of
      BY <2>1, <2>9, <3>2, <3>5 DEF NumbersInOrder
    <3>9. NumbersInOrder'
      BY <2>1, <2>3, <3>3, <3>6, <3>7, <3>8 DEF NumbersInOrder
    <3>10. QED
      BY <1>3, <2>1, <2>6, <2>9, <3>9 DEF OInv, Forward
  <2>10. QED
    BY <2>1, <2>7, <2>8, <2>9
<1>6. QED
  BY <1>4, <1>5

\* A file comes.
LEMMA FetchedInOrder ==
  ASSUME IInv, OInv, NEW f \in Files, Fetched(f)
  PROVE  OInv' /\ Forward
<1>1. PageTyped /\ Held
  BY Parts
<1>2. /\ stop \in Nat /\ source \in Nat /\ scopeData.of \in Nat
      /\ \A q \in Refreshes : got[q] \in Nat /\ mine[q] \in Nat
  BY StopTypes
<1>W. PICK W : W = {r \in Refreshes : at[r] = "source" /\ fileOf[got[r]] = f}
  OBVIOUS
<1>3. /\ Number(W) /\ source' = IF W = {} THEN source ELSE got[CHOOSE r \in W : \A q \in W : q <= r]
      /\ UNCHANGED <<got, data, stop, scopeData, down>>
  BY <1>W DEF Fetched
<1>4. StopsInOrder /\ InOrder(down', stop)
  BY <1>3 DEF OInv, StopsInOrder
<1>5. CASE W = {}
  <2>1. source' = source /\ at' = at /\ mine' = mine /\ refreshSeq' = refreshSeq
    BY <1>1, <1>3, <1>5, NumberNone
  <2>2. OInv'
    BY <1>3, <1>4, <2>1, StaysInOrder DEF shown
  <2>3. QED
    BY <1>3, <2>1, <2>2, ShownStays DEF shown
<1>6. CASE W # {}
  <2>r. PICK r : r = CHOOSE p \in W : \A q \in W : q <= p
    OBVIOUS
  <2>1. r \in W
    <3>1. W \subseteq Refreshes
      BY <1>W
    <3>2. \E q \in W : \A p \in W : p <= q
      BY <1>6, <3>1, GreatestOf
    <3>3. QED
      BY <2>r, <3>2
  <2>2. r \in Refreshes /\ at[r] = "source" /\ mine[r] = 0 /\ source' = got[r]
    BY <1>1, <1>3, <1>6, <1>W, <2>1, <2>r DEF Held
  <2>3. StopsInOrder'
    BY <1>3, <1>4, <2>2 DEF StopsInOrder
  <2>4. CASE SlowSources
    BY <1>2, <1>3, <2>3, <2>4 DEF OInv, Forward
  <2>5. CASE ~SlowSources
    <3>1. NumbersInOrder
      BY <2>5 DEF OInv
    <3>2. got[r] = stop /\ \A q \in Refreshes : q # r => at[q] # "source"
      BY <2>2, <3>1 DEF NumbersInOrder
    <3>3. W = {r}
      BY <1>W, <2>1, <3>2
    <3>4. Number({r})
      BY <1>3, <3>3
    <3>5. stop' = stop /\ source' = stop' /\ got'[r] = stop' /\ scopeData' = scopeData
          /\ stop <= stop' /\ stop' \in Nat
          /\ \A q \in Refreshes : q # r => got'[q] = got[q] /\ at[q] # "source"
      BY <1>2, <1>3, <2>2, <3>2
    <3>6. NumbersInOrder' /\ source' >= source /\ scopeData'.of >= scopeData.of
      BY <2>2, <2>5, <3>4, <3>5, NumberInOrder
    <3>7. QED
      BY <1>2, <2>3, <3>5, <3>6 DEF OInv, Forward
  <2>6. QED
    BY <2>4, <2>5
<1>7. QED
  BY <1>5, <1>6

LEMMA OnFrameInOrder ==
  ASSUME IInv, OInv, OnFrame
  PROVE  OInv' /\ Forward
<1>1. PageTyped /\ ServerTyped /\ Spoken
  BY Parts DEF Talk
<1>m. PICK m : m = Head(down)
  OBVIOUS
<1>2. /\ Frame(m) /\ (~SlowSources => \A f \in Files : fetches[f] = 0)
      /\ \/ m.what = "answer" /\ OnAnswer(m)
         \/ m.what = "stopped" /\ Begin(at)
         \/ m.what \in {"breakpoints", "terminated"} /\ UNCHANGED <<refreshing, shown, sources, up>>
  BY <1>m DEF OnFrame, Frame
<1>3. InOrder(down', stop)
  BY <1>2, ReadInOrder
<1>4. ASSUME UNCHANGED <<got, mine, refreshSeq, shown>>, \A q \in Refreshes : at'[q] = at[q]
      PROVE  OInv' /\ Forward
  BY <1>3, <1>4, StaysInOrder, ShownStays
<1>5. ASSUME Begins(m) PROVE OInv' /\ Forward
  <2>n. PICK n : n = NextRefresh
    OBVIOUS
  <2>1. /\ n \in Refreshes /\ at[n] = "none" /\ UNCHANGED <<got, mine, refreshSeq, shown>>
        /\ at' = [at EXCEPT ![n] = "stack", ![Query] = QueryAfter(m)]
    BY <1>1, <1>5, <2>n, BeginsHow
  <2>2. \A q \in Refreshes : at'[q] = IF q = n THEN "stack" ELSE at[q]
    BY <1>1, <2>1, Bounds DEF PageTyped
  <2>3. StopsInOrder'
    BY <1>3, <2>1 DEF OInv, StopsInOrder, shown
  <2>4. NumbersInOrder => NumbersInOrder'
    <3> SUFFICES ASSUME NumbersInOrder PROVE NumbersInOrder'
      OBVIOUS
    <3>1. /\ \A q \in Refreshes : at'[q] = "source" => at[q] = "source"
          /\ \A q \in Refreshes : at'[q] \in {"scopes", "variables"} => at[q] \in {"scopes", "variables"}
      BY <2>2
    <3>2. QED
      BY <2>1, <3>1 DEF NumbersInOrder, shown
  <2>5. QED
    BY <2>1, <2>3, <2>4, ShownStays DEF OInv
<1>6. CASE m.what = "answer" /\ OnAnswer(m)
  <2>r. PICK r : r = m.to.of
    OBVIOUS
  <2>1. r \in Refreshes \cup {Query}
    <3>1. m \in Messages
      BY <1>1, <1>2, FrameFacts
    <3>2. QED
      BY <1>6, <2>r, <3>1, MessageFacts, AskFacts
  <2>2. CASE r = Query /\ Begin([at EXCEPT ![Query] = "over"])
    <3>1. Begins(m)
      BY <1>6, <2>2, <2>r DEF Begin, Begins
    <3>2. QED
      BY <1>5, <3>1
  <2>3. CASE /\ Goes(Query, "over")
             /\ UNCHANGED <<got, mine, left, data, refreshSeq, shown, sources, up, bpList>>
    <3>1. \A q \in Refreshes : at'[q] = at[q]
      BY <1>1, <2>3, Bounds DEF Goes, PageTyped
    <3>2. QED
      BY <1>4, <2>3, <3>1
  <2>4. CASE r # Query /\ at[r] = "stack" /\ OnStack(r, m)
    <3>1. ~SlowSources => \A q \in Refreshes : at[q] # "source"
      BY <1>2, NoSource
    <3>2. QED
      BY <1>2, <1>6, <2>1, <2>4, <3>1, StackInOrder
  <2>5. CASE r # Query /\ at[r] = "scopes" /\ OnScopes(r, m)
    <3>w. PICK w : w = IF m.ok THEN "variables" ELSE "over"
      OBVIOUS
    <3>1. at' = [at EXCEPT ![r] = w] /\ UNCHANGED <<got, mine, refreshSeq, shown>>
      BY <2>5, <3>w DEF OnScopes, Goes
    <3>2. UNCHANGED <<stop, source>> /\ scopeData'.of = scopeData.of
      BY <3>1 DEF shown
    <3>3. w # "source" /\ r \in Refreshes /\ at[r] \in {"scopes", "variables"}
      BY <2>1, <2>5, <3>w
    <3>4. QED
      BY <1>3, <3>1, <3>2, <3>3, MovesInOrder
  <2>6. CASE r # Query /\ at[r] = "variables" /\ OnVariables(r, m)
    <3>0. r \in Refreshes
      BY <2>1, <2>6
    <3>s. PICK s : s = IF m.ok THEN {m.stop} ELSE {0}
      OBVIOUS
    <3>1. CASE UNCHANGED <<at, got, mine, refreshSeq, shown>>
      BY <1>4, <3>1
    <3>2. CASE Collected(r, s)
      <4>1. at' = [at EXCEPT ![r] = "over"] /\ UNCHANGED <<got, mine, refreshSeq, stop, source>>
        BY <3>2 DEF Collected, Goes
      <4>2. scopeData' = scopeData \/ (mine[r] = refreshSeq /\ scopeData' = [of |-> got[r], from |-> data[r] \cup s])
        BY <3>2 DEF Collected, Newest
      <4>3. \/ scopeData'.of = scopeData.of
            \/ at[r] = "variables" /\ mine[r] = refreshSeq /\ scopeData'.of = got[r]
        BY <2>6, <4>2
      <4>4. QED
        BY <1>3, <3>0, <4>1, <4>3, MovesInOrder
    <3>3. QED
      BY <2>6, <3>1, <3>2, <3>s DEF OnVariables
  <2>7. QED
    BY <1>6, <2>2, <2>3, <2>4, <2>5, <2>6, <2>r DEF OnAnswer
<1>7. CASE m.what = "stopped" /\ Begin(at)
  <2>1. Begins(m)
    BY <1>7 DEF Begin, Begins
  <2>2. QED
    BY <1>5, <2>1
<1>8. CASE m.what \in {"breakpoints", "terminated"} /\ UNCHANGED <<refreshing, shown, sources, up>>
  BY <1>4, <1>8 DEF refreshing
<1>9. QED
  BY <1>2, <1>6, <1>7, <1>8

\* What comes from the engine, or of what it was asked.
LEMMA EngineInOrder ==
  ASSUME IInv, OInv, UNCHANGED <<refreshing, shown>>, NEW a \in Messages, Broadcast(<<a>>),
         Tells(a) => a.stop = stops
  PROVE  OInv'
<1>s. PICK msgs : msgs = <<a>>
  OBVIOUS
<1>1. msgs \in Seq(Messages) /\ \A k \in DOMAIN msgs : msgs[k] = a
  BY <1>s, OneMessage
<1>2. \A k \in DOMAIN msgs : Tells(msgs[k]) => msgs[k].stop = stops
  BY <1>1
<1>3. Broadcast(msgs)
  BY <1>s
<1>4. QED
  BY <1>1, <1>2, <1>3, SaysInOrder

LEMMA ClientMessageInOrder ==
  ASSUME IInv, IInv', OInv, ClientMessage
  PROVE  OInv'
<1>1. Spoken /\ ServerTyped
  BY Parts DEF Talk
<1>m. PICK m : m = Head(up)
  OBVIOUS
<1>2. /\ up # <<>> /\ UNCHANGED <<refreshing, shown>>
      /\ \/ Execute(m)
         \/ m.what \in Whats /\ (down' = down \/ Broadcast(<<Answer(m, FALSE)>>))
  BY <1>m DEF ClientMessage, Page, Whats
<1>3. CASE Execute(m) \/ down' = down
  BY <1>2, <1>3, ExecuteSends, TableInOrder
<1>4. CASE m.what \in Whats /\ Broadcast(<<Answer(m, FALSE)>>)
  <2>1. m \in Asks \cup Commands
    BY <1>1, <1>2, <1>m DEF Spoken
  <2>2. m \in Asks
    BY <1>4, <2>1, AskFacts
  <2>a. PICK a : a = Answer(m, FALSE)
    OBVIOUS
  <2>3. a \in Messages /\ ~Tells(a)
    BY <1>1, <2>2, <2>a, SentFacts DEF ServerTyped, Tells
  <2>4. Broadcast(<<a>>)
    BY <1>4, <2>a
  <2>5. QED
    BY <1>2, <2>3, <2>4, EngineInOrder
<1>5. QED
  BY <1>2, <1>3, <1>4

LEMMA EngineEndsInOrder ==
  ASSUME IInv, OInv, EngineEnds
  PROVE  OInv'
<1>1. Spoken /\ ServerTyped
  BY Parts DEF Talk
<1>2. asked \in Seq(Asks) /\ stops \in 0 .. MaxStops
  BY <1>1 DEF Spoken, ServerTyped
<1>r. PICK r : r = Rejected
  OBVIOUS
<1>3. /\ r \in Seq(Messages)
      /\ \A i \in DOMAIN r : ~Tells(r[i])
  <2>1. r = [i \in 1 .. Len(asked) |-> Answer(asked[i], FALSE)] /\ Len(asked) \in Nat
    BY <1>2, <1>r DEF Rejected
  <2>2. \A i \in 1 .. Len(asked) : asked[i] \in Asks
    BY <1>2
  <2>3. \A i \in 1 .. Len(asked) : Answer(asked[i], FALSE) \in Messages /\ ~Tells(Answer(asked[i], FALSE))
    BY <1>2, <2>2, SentFacts DEF Tells
  <2>4. r \in [1 .. Len(asked) -> Messages] /\ DOMAIN r = 1 .. Len(asked)
    BY <2>1, <2>3
  <2>5. r \in Seq(Messages)
    BY <2>1, <2>4, SequenceOf
  <2>6. QED
    BY <2>1, <2>3, <2>4, <2>5
<1>m. PICK m : m = [what |-> "terminated"]
  OBVIOUS
<1>4. m \in Messages /\ ~Tells(m)
  BY <1>m DEF Messages, Notices, Tells
<1>s. PICK msgs : msgs = <<m>> \o r
  OBVIOUS
<1>5. /\ msgs \in Seq(Messages)
      /\ \A k \in DOMAIN msgs : msgs[k] = m \/ \E i \in DOMAIN r : msgs[k] = r[i]
  BY <1>3, <1>4, <1>s, MessagesInFront
<1>6. \A k \in DOMAIN msgs : ~Tells(msgs[k])
  BY <1>3, <1>4, <1>5
<1>7. Broadcast(msgs) /\ UNCHANGED <<refreshing, shown>>
  BY <1>m, <1>r, <1>s DEF EngineEnds, Page
<1>8. QED
  BY <1>5, <1>6, <1>7, SaysInOrder

\* Every step keeps the order of stops, and shows none before the one that is shown.
LEMMA NextInOrder == IInv /\ IInv' /\ OInv /\ [Next]_vars => OInv' /\ Forward
<1> SUFFICES ASSUME IInv, IInv', OInv, [Next]_vars PROVE OInv' /\ Forward
  OBVIOUS
<1>1. PageTyped /\ ServerTyped /\ Spoken
  BY Parts DEF Talk
<1>2. ASSUME UNCHANGED <<got, mine, refreshSeq, shown, down>>, \A q \in Refreshes : at'[q] = at[q]
      PROVE  OInv' /\ Forward
  <2>1. InOrder(down', stop)
    BY <1>2 DEF OInv, StopsInOrder
  <2>2. QED
    BY <1>2, <2>1, StaysInOrder, ShownStays
<1>3. ASSUME UNCHANGED <<refreshing, shown>>, down' = down \/ Broadcast(<<Published(table', lineOf')>>)
      PROVE  OInv' /\ Forward
  BY <1>3, TableInOrder, ShownStays
<1>4. CASE OnOpen \/ Timeout
  <2>1. UNCHANGED <<got, mine, refreshSeq, shown, down>> /\ at' = [at EXCEPT ![Query] = at'[Query]]
    BY <1>1, <1>4 DEF OnOpen, Timeout, Goes, PageTyped
  <2>2. \A q \in Refreshes : at'[q] = at[q]
    BY <1>1, <2>1, Bounds DEF PageTyped
  <2>3. QED
    BY <1>2, <2>1, <2>2
<1>5. CASE OnFrame
  BY <1>5, OnFrameInOrder
<1>6. CASE Resume \/ (\E l \in Lines : Toggle(l))
  <2>1. UNCHANGED <<refreshing, shown, down>>
    BY <1>6 DEF Resume, Toggle, Sends
  <2>2. QED
    BY <1>2, <2>1 DEF refreshing
<1>7. ASSUME NEW f \in Files, Fetched(f) PROVE OInv' /\ Forward
  BY <1>7, FetchedInOrder
<1>8. CASE ClientMessage
  <2>1. UNCHANGED shown
    BY <1>8 DEF ClientMessage, Page
  <2>2. QED
    BY <1>8, <2>1, ClientMessageInOrder, ShownStays
<1>9. CASE OtherClient
  <2>1. PICK c : Execute(c)
    BY <1>9 DEF OtherClient
  <2>2. UNCHANGED <<refreshing, shown>>
    BY <1>9 DEF OtherClient
  <2>3. QED
    BY <1>3, <2>1, <2>2, ExecuteSends
<1>10. CASE AdoptMain
  BY <1>3, <1>10, AdoptMainSends
<1>11. CASE Reported
  BY <1>3, <1>11, OverSends DEF Reported
<1>12. CASE Adopted
  <2>1. Over \/ UNCHANGED <<refreshing, shown, down>>
    BY <1>12 DEF Adopted, Page
  <2>2. QED
    BY <1>3, <2>1, OverSends
<1>13. ASSUME NEW f \in Files, EngineStops(f) PROVE OInv' /\ Forward
  <2>m. PICK m : m = [what |-> "stopped"]
    OBVIOUS
  <2>1. m \in Messages /\ ~Tells(m)
    BY <2>m DEF Messages, Notices, Tells
  <2>2. Broadcast(<<m>>) /\ UNCHANGED <<refreshing, shown>>
    BY <1>13, <2>m DEF EngineStops, Page
  <2>3. QED
    BY <2>1, <2>2, EngineInOrder, ShownStays
<1>14. CASE EngineAnswers
  <2>q. PICK q : q = Head(asked)
    OBVIOUS
  <2>a. PICK a : a = Answer(q, TRUE)
    OBVIOUS
  <2>1. asked # <<>> /\ Broadcast(<<a>>) /\ UNCHANGED <<refreshing, shown>>
    BY <1>14, <2>q, <2>a DEF EngineAnswers, Page
  <2>2. q \in Asks
    BY <1>1, <2>1, <2>q DEF Spoken
  <2>3. a \in Messages /\ a.stop = stops
    BY <1>1, <2>2, <2>a, SentFacts DEF ServerTyped
  <2>4. QED
    BY <2>1, <2>3, EngineInOrder, ShownStays
<1>15. CASE EngineEnds
  <2>1. UNCHANGED shown
    BY <1>15 DEF EngineEnds, Page
  <2>2. QED
    BY <1>15, <2>1, EngineEndsInOrder, ShownStays
<1>16. CASE UNCHANGED vars
  BY <1>2, <1>16 DEF vars, refreshing
<1>17. QED
  BY <1>4, <1>5, <1>6, <1>7, <1>8, <1>9, <1>10, <1>11, <1>12, <1>13, <1>14, <1>15, <1>16 DEF Next

LEMMA InitInOrder == Init => OInv
<1> SUFFICES ASSUME Init PROVE OInv
  OBVIOUS
<1>1. InOrder(down, stop)
  BY DEF Init, InOrder
<1>2. StopsInOrder
  BY <1>1 DEF Init, StopsInOrder
<1>3. NumbersInOrder
  BY DEF Init, NumbersInOrder
<1>4. QED
  BY <1>2, <1>3 DEF OInv

\* The page is told of stops in their order, and, where source files are quick, the
\* numbers of its refreshes follow that order, whether the engine lives or not.
THEOREM OrderInvariance == Spec => []OInv
<1>1. IInv /\ IInv' /\ OInv /\ [Next]_vars => OInv'
  BY NextInOrder
<1>2. QED
  BY <1>1, InitInOrder, Invariance, PTL DEF Spec

\* No step takes the page back to a stop before the one it shows, nor, where source
\* files are quick, to the source or the variables of one (ide.js 304).
THEOREM NeverBackCorrect == Spec => NeverBack
<1>1. IInv /\ IInv' /\ OInv /\ [Next]_vars =>
        [/\ stop' >= stop
         /\ ~SlowSources => source' >= source /\ scopeData'.of >= scopeData.of]_vars
  BY NextInOrder DEF Forward
<1>2. QED
  BY <1>1, Invariance, OrderInvariance, PTL DEF Spec, NeverBack
=============================================================================
