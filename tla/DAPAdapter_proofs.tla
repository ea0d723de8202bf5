------------------------- MODULE DAPAdapter_proofs -------------------------
(***************************************************************************)
(* Theorems about DAPAdapter, for any requests of each kind.                *)
(***************************************************************************)
EXTENDS DAPAdapter, FiniteSetTheorems, TLAPS

-----------------------------------------------------------------------------
(* The invariant in parts, by what they are about.                          *)

Types ==
  /\ state \in [Requests -> {"unsent", "accepting", "connecting", "entering", "waiting",
                             "resolved", "rejected", "answered", "failed", "stayed"}]
  /\ session \in {"none", "starting", "killed", "attached", "aborted"}
  /\ holds \in Nat /\ holding \in BOOLEAN
  /\ deferred \in Seq(StateEvents)
  /\ terminated \in BOOLEAN
  /\ out \in Seq(Messages)
  /\ arrived \in Seq(StateEvents)
  /\ caused \subseteq Movers
  /\ hasty \in BOOLEAN

Count == IsFiniteSet(InFlight) /\ resuming = Cardinality(InFlight)

Once == \A i, j \in DOMAIN out : out[i] = out[j] => i = j

Order ==
  /\ Seen \in Nat
  /\ \A i \in DOMAIN deferred : deferred[i] = arrived[Seen + i]
  /\ \A i \in 1 .. Seen : Sent(arrived[i])
  /\ \A p \in DOMAIN out : out[p] \in StateEvents => \E i \in 1 .. Seen : out[p] = arrived[i]
  /\ \A p, q \in DOMAIN out : \A i, j \in 1 .. Seen :
       p < q /\ out[p] = arrived[i] /\ out[q] = arrived[j] => i < j

AnswerFirst == ~hasty => \A r \in Resumes : Sent(Stopped(r)) => Sent(Response(r))

LEMMA Parts ==
  IInv <=> /\ Types /\ Count /\ Once /\ Order /\ AnswerFirst
           /\ Responded /\ Announced /\ Reported /\ Kept /\ Patient
BY DEF IInv, TypeOK, EventsInOrder, Counted, Types, Count, Once, Order, AnswerFirst

LEMMA PartsNext ==
  ASSUME Types', Count', Once', Order', AnswerFirst',
         Responded', Announced', Reported', Kept', Patient'
  PROVE  IInv'
BY DEF IInv, TypeOK, EventsInOrder, Counted, Types, Count, Once, Order, AnswerFirst

-----------------------------------------------------------------------------
(* Messages                                                                 *)

\* What is sent for one reason is not sent for another.
LEMMA Distinct ==
  ASSUME NEW r, NEW q
  PROVE  /\ Response(r) = Response(q) => r = q
         /\ Stopped(r) = Stopped(q) => r = q
         /\ EntryStop(r) = EntryStop(q) => r = q
         /\ Refusal(r) = Refusal(q) => r = q
         /\ Response(r) # Stopped(q) /\ Response(r) # Terminated
         /\ Response(r) # Initialized /\ Response(r) # EntryStop(q)
         /\ Stopped(r) # Terminated /\ Stopped(r) # Initialized /\ Stopped(r) # EntryStop(q)
         /\ Terminated # Initialized /\ Terminated # EntryStop(q)
         /\ Initialized # EntryStop(q)
         /\ Refusal(r) # Response(q) /\ Refusal(r) # Stopped(q) /\ Refusal(r) # Terminated
         /\ Refusal(r) # Initialized /\ Refusal(r) # EntryStop(q)
BY DEF Refusal, Response, Stopped, Terminated, Initialized, EntryStop

LEMMA Kinds ==
  /\ \A r \in Requests : Response(r) \in Messages \ StateEvents
  /\ \A r \in Configurations : EntryStop(r) \in Messages \ StateEvents
  /\ \A r \in Configurations : Refusal(r) \in Messages \ StateEvents
  /\ Initialized \in Messages \ StateEvents
  /\ StateEvents \subseteq Messages
  /\ \A r \in Movers : Stopped(r) \in StateEvents
  /\ Terminated \in StateEvents
BY Distinct DEF Messages, StateEvents

\* Messages are appended to what was sent.
LEMMA Grows ==
  ASSUME out \in Seq(Messages), NEW s \in Seq(Messages), out' = out \o s
  PROVE  /\ out' \in Seq(Messages)
         /\ Len(out') = Len(out) + Len(s)
         /\ \A p \in DOMAIN out : p \in DOMAIN out' /\ out'[p] = out[p]
         /\ \A k \in DOMAIN s : Len(out) + k \in DOMAIN out' /\ out'[Len(out) + k] = s[k]
         /\ \A p \in DOMAIN out' : p \in DOMAIN out \/ \E k \in DOMAIN s : p = Len(out) + k
         /\ \A m : Sent(m)' <=> Sent(m) \/ \E k \in DOMAIN s : s[k] = m
<1>1. /\ out' \in Seq(Messages)
      /\ Len(out') = Len(out) + Len(s)
      /\ \A p \in DOMAIN out : p \in DOMAIN out' /\ out'[p] = out[p]
      /\ \A k \in DOMAIN s : Len(out) + k \in DOMAIN out' /\ out'[Len(out) + k] = s[k]
  OBVIOUS
<1>2. \A p \in DOMAIN out' : p \in DOMAIN out \/ \E k \in DOMAIN s : p = Len(out) + k
  <2>1. TAKE p \in DOMAIN out'
  <2>2. p \in 1 .. Len(out) \/ p - Len(out) \in 1 .. Len(s)
    BY <1>1
  <2>3. QED
    BY <2>2
<1>3. ASSUME NEW m PROVE Sent(m)' <=> Sent(m) \/ \E k \in DOMAIN s : s[k] = m
  <2>1. ASSUME NEW p \in DOMAIN out', out'[p] = m PROVE Sent(m) \/ \E k \in DOMAIN s : s[k] = m
    <3>1. CASE p \in DOMAIN out
      BY <1>1, <2>1, <3>1 DEF Sent
    <3>2. CASE \E k \in DOMAIN s : p = Len(out) + k
      BY <1>1, <2>1, <3>2
    <3>3. QED
      BY <1>2, <2>1, <3>1, <3>2
  <2>2. ASSUME NEW p \in DOMAIN out, out[p] = m PROVE Sent(m)'
    <3>1. p \in DOMAIN out' /\ out'[p] = m
      BY <1>1, <2>2
    <3>2. QED
      BY <3>1 DEF Sent
  <2>3. ASSUME NEW k \in DOMAIN s, s[k] = m PROVE Sent(m)'
    <3>1. Len(out) + k \in DOMAIN out' /\ out'[Len(out) + k] = m
      BY <1>1, <2>3
    <3>2. QED
      BY <3>1 DEF Sent
  <2>4. QED
    BY <2>1, <2>2, <2>3 DEF Sent
<1>4. QED
  BY <1>1, <1>2, <1>3

\* What was not sent before is sent once.
LEMMA GrowsOnce ==
  ASSUME out \in Seq(Messages), Once, NEW s \in Seq(Messages), out' = out \o s,
         \A i, j \in DOMAIN s : s[i] = s[j] => i = j,
         \A k \in DOMAIN s : ~Sent(s[k])
  PROVE  Once'
<1> SUFFICES ASSUME NEW i \in DOMAIN out', NEW j \in DOMAIN out', out'[i] = out'[j]
             PROVE  i = j
  BY DEF Once
<1>1. \A k \in DOMAIN s : \A p \in DOMAIN out : out[p] # s[k]
  BY DEF Sent
<1>2. CASE i \in DOMAIN out /\ j \in DOMAIN out
  BY <1>2, Grows DEF Once
<1>3. CASE i \notin DOMAIN out /\ j \notin DOMAIN out
  BY <1>3, Grows
<1>4. CASE i \in DOMAIN out /\ j \notin DOMAIN out
  BY <1>1, <1>4, Grows
<1>5. CASE i \notin DOMAIN out /\ j \in DOMAIN out
  BY <1>1, <1>5, Grows
<1>6. QED
  BY <1>2, <1>3, <1>4, <1>5

\* Responses do not disturb the order of the events.
LEMMA OthersKeepOrder ==
  ASSUME Types, Order, NEW s \in Seq(Messages), out' = out \o s,
         \A k \in DOMAIN s : s[k] \notin StateEvents,
         UNCHANGED <<arrived, deferred>>
  PROVE  Order'
<1>1. out \in Seq(Messages) /\ arrived \in Seq(StateEvents) /\ Seen' = Seen
  BY DEF Types, Seen
<1>2. \A i \in 1 .. Seen : i \in DOMAIN arrived
  BY DEF Order, Seen, Types
<1>3. \A i \in 1 .. Seen : arrived[i] \in StateEvents
  BY <1>1, <1>2
<1>4. \A i \in 1 .. Seen : Sent(arrived[i])'
  <2>1. TAKE i \in 1 .. Seen
  <2>2. PICK p \in DOMAIN out : out[p] = arrived[i]
    BY DEF Order, Sent
  <2>3. QED
    BY <1>1, <2>2, Grows DEF Sent
<1>5. \A p \in DOMAIN out' : out'[p] \in StateEvents => p \in DOMAIN out /\ out'[p] = out[p]
  BY <1>1, Grows
<1>6. \A p \in DOMAIN out' : out'[p] \in StateEvents => \E i \in 1 .. Seen : out'[p] = arrived[i]
  BY <1>5 DEF Order
<1>7. \A p, q \in DOMAIN out' : \A i, j \in 1 .. Seen :
        p < q /\ out'[p] = arrived[i] /\ out'[q] = arrived[j] => i < j
  BY <1>3, <1>5 DEF Order
<1>8. QED
  BY <1>1, <1>4, <1>6, <1>7 DEF Order

\* An event that is held.
LEMMA HeldKeepsOrder ==
  ASSUME Types, Order, NEW ev \in StateEvents, out' = out,
         arrived' = Append(arrived, ev), deferred' = Append(deferred, ev)
  PROVE  Order'
<1>1. /\ Len(arrived') = Len(arrived) + 1 /\ Len(deferred') = Len(deferred) + 1
      /\ \A i \in DOMAIN arrived : arrived'[i] = arrived[i]
      /\ \A i \in DOMAIN deferred : deferred'[i] = deferred[i]
      /\ arrived'[Len(arrived) + 1] = ev /\ deferred'[Len(deferred) + 1] = ev
      /\ DOMAIN arrived = 1 .. Len(arrived) /\ DOMAIN deferred = 1 .. Len(deferred)
      /\ \A i \in DOMAIN deferred' : i \in DOMAIN deferred \/ i = Len(deferred) + 1
      /\ Len(arrived) \in Nat /\ Len(deferred) \in Nat
  BY DEF Types
<1>2. Seen' = Seen /\ Seen \in Nat /\ Seen + Len(deferred) = Len(arrived)
  BY <1>1 DEF Seen, Order
<1>3. \A i \in 1 .. Seen : arrived'[i] = arrived[i]
  BY <1>1, <1>2
<1>4. \A i \in DOMAIN deferred' : deferred'[i] = arrived'[Seen + i]
  <2>1. TAKE i \in DOMAIN deferred'
  <2>2. CASE i \in DOMAIN deferred
    <3>1. Seen + i \in 1 .. Len(arrived)
      BY <1>1, <1>2, <2>2
    <3>2. QED
      BY <1>1, <2>2, <3>1 DEF Order
  <2>3. CASE i = Len(deferred) + 1
    <3>1. Seen + i = Len(arrived) + 1
      BY <1>1, <1>2, <2>3
    <3>2. QED
      BY <1>1, <2>3, <3>1
  <2>4. QED
    BY <1>1, <2>2, <2>3
<1>5. \A i \in 1 .. Seen : Sent(arrived[i])'
  BY <1>3 DEF Order, Sent
<1>6. \A p \in DOMAIN out' : out'[p] \in StateEvents => \E i \in 1 .. Seen : out'[p] = arrived'[i]
  BY <1>3 DEF Order
<1>7. \A p, q \in DOMAIN out' : \A i, j \in 1 .. Seen :
        p < q /\ out'[p] = arrived'[i] /\ out'[q] = arrived'[j] => i < j
  <2>1. TAKE p, q \in DOMAIN out'
  <2>2. TAKE i, j \in 1 .. Seen
  <2>3. arrived'[i] = arrived[i] /\ arrived'[j] = arrived[j]
    BY <1>3
  <2>4. QED
    BY <2>3 DEF Order
<1>8. QED
  BY <1>2, <1>4, <1>5, <1>6, <1>7 DEF Order

\* Each event comes once.
Distinguished == \A i, j \in DOMAIN arrived : arrived[i] = arrived[j] => i = j

\* The events that have been sent are the first that came.
LEMMA FirstSent ==
  ASSUME Types, Order, Distinguished, NEW p \in DOMAIN out, NEW i \in DOMAIN arrived,
         out[p] = arrived[i]
  PROVE  i \in 1 .. Seen
<1>1. arrived[i] \in StateEvents /\ 1 .. Seen \subseteq DOMAIN arrived
  BY DEF Types, Order, Seen
<1>2. PICK j \in 1 .. Seen : out[p] = arrived[j]
  BY <1>1 DEF Order
<1>3. QED
  BY <1>1, <1>2 DEF Distinguished

\* An event that goes out at once, with none held.
LEMMA SentKeepsOrder ==
  ASSUME Types, Order, Distinguished, NEW ev \in StateEvents, deferred = <<>>, deferred' = deferred,
         arrived' = Append(arrived, ev), out' = Append(out, ev),
         \A i \in DOMAIN arrived : arrived[i] # ev
  PROVE  Order'
<1>1. /\ Len(arrived') = Len(arrived) + 1
      /\ \A i \in DOMAIN arrived : arrived'[i] = arrived[i]
      /\ arrived'[Len(arrived) + 1] = ev
      /\ DOMAIN arrived = 1 .. Len(arrived) /\ Len(arrived) \in Nat
  BY DEF Types
<1>2. /\ DOMAIN out = 1 .. Len(out) /\ Len(out) \in Nat
      /\ DOMAIN out \subseteq DOMAIN out' /\ Len(out) + 1 \in DOMAIN out'
      /\ \A p \in DOMAIN out' : p \in DOMAIN out \/ p = Len(out) + 1
      /\ \A p \in DOMAIN out' : p \in Nat /\ p <= Len(out) + 1
      /\ \A p \in DOMAIN out : out'[p] = out[p]
      /\ out'[Len(out) + 1] = ev
  BY DEF Types
<1>3. Seen = Len(arrived) /\ Seen' = Len(arrived) + 1
  BY <1>1 DEF Seen
<1>4. \A i \in 1 .. Seen' : i \in 1 .. Seen \/ i = Len(arrived) + 1
  BY <1>1, <1>3
<1>5. ASSUME NEW i \in 1 .. Seen' PROVE Sent(arrived[i])'
  <2>1. CASE i \in 1 .. Seen
    <3>1. PICK p \in DOMAIN out : out[p] = arrived[i]
      BY <2>1 DEF Order, Sent
    <3>2. p \in DOMAIN out' /\ out'[p] = arrived'[i]
      BY <1>1, <1>2, <1>3, <2>1, <3>1
    <3>3. QED
      BY <3>2 DEF Sent
  <2>2. CASE i = Len(arrived) + 1
    <3>1. Len(out) + 1 \in DOMAIN out' /\ out'[Len(out) + 1] = arrived'[i]
      BY <1>1, <1>2, <2>2
    <3>2. QED
      BY <3>1 DEF Sent
  <2>3. QED
    BY <1>4, <2>1, <2>2
<1>6. ASSUME NEW p \in DOMAIN out', out'[p] \in StateEvents
      PROVE  \E i \in 1 .. Seen' : out'[p] = arrived'[i]
  <2>1. CASE p \in DOMAIN out
    <3>1. PICK i \in 1 .. Seen : out[p] = arrived[i]
      BY <1>2, <1>6, <2>1 DEF Order
    <3>2. i \in 1 .. Seen' /\ out'[p] = arrived'[i]
      BY <1>1, <1>2, <1>3, <2>1, <3>1
    <3>3. QED
      BY <3>2
  <2>2. CASE p = Len(out) + 1
    BY <1>1, <1>2, <1>3, <2>2
  <2>3. QED
    BY <1>2, <2>1, <2>2
<1>7. ASSUME NEW p \in DOMAIN out', NEW q \in DOMAIN out', NEW i \in 1 .. Seen', NEW j \in 1 .. Seen',
             p < q, out'[p] = arrived'[i], out'[q] = arrived'[j]
      PROVE  i < j
  <2>1. p \in DOMAIN out /\ out'[p] = out[p]
    <3>1. p # Len(out) + 1
      BY <1>2, <1>7
    <3>2. QED
      BY <1>2, <1>7, <3>1
  <2>2. arrived'[i] \in StateEvents
    BY <1>1, <1>3, <1>4 DEF Types
  <2>3. PICK k \in 1 .. Seen : out[p] = arrived[k]
    BY <1>7, <2>1, <2>2 DEF Order
  <2>4. i \in 1 .. Seen
    BY <1>1, <1>3, <1>4, <1>7, <2>1, <2>3
  <2>5. CASE q \in DOMAIN out
    <3>1. out'[q] = out[q] /\ arrived'[j] \in StateEvents
      BY <1>1, <1>2, <1>3, <1>4, <2>5 DEF Types
    <3>2. PICK l \in 1 .. Seen : out[q] = arrived[l]
      BY <1>7, <2>5, <3>1 DEF Order
    <3>3. j \in 1 .. Seen
      BY <1>1, <1>3, <1>4, <1>7, <3>1, <3>2
    <3>4. arrived'[i] = arrived[i] /\ arrived'[j] = arrived[j]
      BY <1>1, <1>3, <2>4, <3>3
    <3>5. QED
      BY <1>7, <2>1, <2>4, <2>5, <3>1, <3>3, <3>4 DEF Order
  <2>6. CASE q = Len(out) + 1
    <3>1. j = Len(arrived) + 1
      BY <1>1, <1>2, <1>3, <1>4, <1>7, <2>6
    <3>2. QED
      BY <1>1, <1>3, <1>7, <2>4, <3>1
  <2>7. QED
    BY <1>2, <2>5, <2>6
<1>8. \A i \in DOMAIN deferred' : deferred'[i] = arrived'[Seen' + i]
  OBVIOUS
<1>9. Seen' \in Nat
  BY <1>1, <1>3
<1>10. \A p, q \in DOMAIN out' : \A i, j \in 1 .. Seen' :
         p < q /\ out'[p] = arrived'[i] /\ out'[q] = arrived'[j] => i < j
  <2>1. TAKE p, q \in DOMAIN out'
  <2>2. TAKE i, j \in 1 .. Seen'
  <2>3. QED
    BY <1>7, Zenon
<1>11. QED
  BY <1>5, <1>6, <1>8, <1>9, <1>10 DEF Order

\* The held events go out, in their order.
LEMMA ReleaseKeepsOrder ==
  ASSUME Types, Order, Distinguished, out' = out \o deferred, deferred' = <<>>, arrived' = arrived
  PROVE  Order'
<1>1. PICK s \in Seq(StateEvents) : s = deferred
  BY DEF Types
<1>2. /\ s \in Seq(Messages) /\ out' = out \o s /\ out \in Seq(Messages)
      /\ DOMAIN arrived = 1 .. Len(arrived) /\ Len(arrived) \in Nat
      /\ DOMAIN s = 1 .. Len(s) /\ Len(s) \in Nat
      /\ \A i \in DOMAIN arrived : arrived[i] \in StateEvents
  BY <1>1, Kinds DEF Types
<1>3. Seen \in Nat /\ Seen + Len(s) = Len(arrived) /\ Seen' = Len(arrived)
  BY <1>1, <1>2 DEF Order, Seen
<1>4. \A k \in DOMAIN s : Seen + k \in DOMAIN arrived /\ s[k] = arrived[Seen + k]
  BY <1>1, <1>2, <1>3 DEF Order
<1>5. ASSUME NEW i \in 1 .. Seen' PROVE Sent(arrived[i])'
  <2>1. CASE i \in 1 .. Seen
    <3>1. PICK p \in DOMAIN out : out[p] = arrived[i]
      BY <2>1 DEF Order, Sent
    <3>2. p \in DOMAIN out' /\ out'[p] = arrived[i]
      BY <1>2, <3>1, Grows
    <3>3. QED
      BY <3>2 DEF Sent
  <2>2. CASE i \notin 1 .. Seen
    <3>1. i - Seen \in DOMAIN s /\ s[i - Seen] = arrived[i]
      <4>1. i \in Nat /\ i > Seen /\ i <= Seen + Len(s)
        BY <1>2, <1>3, <2>2
      <4>2. PICK k \in DOMAIN s : k = i - Seen
        BY <1>2, <1>3, <4>1
      <4>3. s[k] = arrived[Seen + k]
        BY <1>4
      <4>4. Seen + k = i
        BY <1>3, <4>1, <4>2
      <4>5. QED
        BY <4>2, <4>3, <4>4
    <3>2. Len(out) + (i - Seen) \in DOMAIN out' /\ out'[Len(out) + (i - Seen)] = arrived[i]
      BY <1>2, <3>1, Grows
    <3>3. QED
      BY <3>2 DEF Sent
  <2>3. QED
    BY <2>1, <2>2
\* Where a message of the new stream comes from.
<1>6. ASSUME NEW p \in DOMAIN out', NEW i \in DOMAIN arrived, out'[p] = arrived[i]
      PROVE  \/ p \in DOMAIN out /\ out[p] = arrived[i] /\ i \in 1 .. Seen
             \/ \E k \in DOMAIN s : p = Len(out) + k /\ i = Seen + k
  <2>1. CASE p \in DOMAIN out
    <3>1. out[p] = arrived[i]
      BY <1>2, <1>6, <2>1, Grows
    <3>2. QED
      BY <2>1, <3>1, FirstSent
  <2>2. CASE p \notin DOMAIN out
    <3>1. PICK k \in DOMAIN s : p = Len(out) + k
      BY <1>2, <2>2, Grows
    <3>2. arrived[i] = arrived[Seen + k] /\ Seen + k \in DOMAIN arrived
      BY <1>2, <1>4, <1>6, <3>1, Grows
    <3>3. i = Seen + k
      BY <3>2 DEF Distinguished
    <3>4. QED
      BY <3>1, <3>3
  <2>3. QED
    BY <2>1, <2>2
<1>7. ASSUME NEW p \in DOMAIN out', out'[p] \in StateEvents
      PROVE  \E i \in 1 .. Seen' : out'[p] = arrived[i]
  <2>1. CASE p \in DOMAIN out
    <3>1. PICK i \in 1 .. Seen : out[p] = arrived[i]
      BY <1>2, <1>7, <2>1, Grows DEF Order
    <3>2. i \in 1 .. Seen' /\ out'[p] = arrived[i]
      BY <1>2, <1>3, <2>1, <3>1, Grows
    <3>3. QED
      BY <3>2
  <2>2. CASE p \notin DOMAIN out
    <3>1. PICK k \in DOMAIN s : p = Len(out) + k
      BY <1>2, <2>2, Grows
    <3>2. Seen + k \in 1 .. Seen' /\ out'[p] = arrived[Seen + k]
      BY <1>2, <1>3, <1>4, <3>1, Grows
    <3>3. QED
      BY <3>2
  <2>3. QED
    BY <2>1, <2>2
<1>8. ASSUME NEW p \in DOMAIN out', NEW q \in DOMAIN out', NEW i \in 1 .. Seen', NEW j \in 1 .. Seen',
             p < q, out'[p] = arrived[i], out'[q] = arrived[j]
      PROVE  i < j
  <2>1. i \in DOMAIN arrived /\ j \in DOMAIN arrived
    BY <1>2, <1>3
  <2>2. DOMAIN out = 1 .. Len(out) /\ Len(out) \in Nat
    BY <1>2
  <2>3. CASE p \in DOMAIN out /\ out[p] = arrived[i] /\ i \in 1 .. Seen
    <3>1. CASE q \in DOMAIN out /\ out[q] = arrived[j] /\ j \in 1 .. Seen
      BY <1>8, <2>3, <3>1 DEF Order
    <3>2. CASE \E k \in DOMAIN s : q = Len(out) + k /\ j = Seen + k
      BY <1>2, <1>3, <2>3, <3>2
    <3>3. QED
      BY <1>6, <1>8, <2>1, <3>1, <3>2
  <2>4. CASE \E k \in DOMAIN s : p = Len(out) + k /\ i = Seen + k
    <3>1. CASE q \in DOMAIN out
      BY <1>2, <1>8, <2>2, <2>4, <3>1
    <3>2. CASE \E k \in DOMAIN s : q = Len(out) + k /\ j = Seen + k
      BY <1>2, <1>3, <1>8, <2>2, <2>4, <3>2
    <3>3. QED
      BY <1>6, <1>8, <2>1, <3>1, <3>2
  <2>5. QED
    BY <1>6, <1>8, <2>1, <2>3, <2>4
<1>9. \A i \in DOMAIN deferred' : deferred'[i] = arrived[Seen' + i]
  OBVIOUS
<1>10. Seen' \in Nat
  BY <1>2, <1>3
<1>11. QED
  BY <1>5, <1>7, <1>8, <1>9, <1>10 DEF Order

-----------------------------------------------------------------------------
(* What the steps have in common                                            *)

Flying == {"waiting", "resolved", "rejected"}

LEMMA CountStays ==
  ASSUME Count, resuming' = resuming,
         \A q \in Resumes : state[q] \in Flying <=> state'[q] \in Flying
  PROVE  Count'
<1>1. InFlight' = InFlight
  BY DEF InFlight, Flying
<1>2. QED
  BY <1>1 DEF Count

\* One request is sent, or answered.
LEMMA CountMoves ==
  ASSUME Count, NEW r \in Resumes,
         \A q \in Resumes : q # r => (state[q] \in Flying <=> state'[q] \in Flying)
  PROVE  /\ resuming \in Nat
         /\ state[r] \notin Flying /\ state'[r] \in Flying /\ resuming' = resuming + 1 => Count'
         /\ state[r] \in Flying => resuming > 0
         /\ state[r] \in Flying /\ state'[r] \notin Flying /\ resuming' = resuming - 1 => Count'
<1>1. resuming \in Nat
  BY FS_CardinalityType DEF Count
<1>2. ASSUME state[r] \notin Flying, state'[r] \in Flying, resuming' = resuming + 1 PROVE Count'
  <2>1. InFlight' = InFlight \cup {r} /\ r \notin InFlight
    BY <1>2 DEF InFlight, Flying
  <2>2. QED
    BY <1>2, <2>1, FS_AddElement DEF Count
<1>3. ASSUME state[r] \in Flying PROVE resuming > 0
  <2>1. r \in InFlight
    BY <1>3 DEF InFlight, Flying
  <2>2. resuming # 0
    BY <2>1, FS_EmptySet DEF Count
  <2>3. QED
    BY <1>1, <2>2
<1>4. ASSUME state[r] \in Flying, state'[r] \notin Flying, resuming' = resuming - 1 PROVE Count'
  <2>1. InFlight' = InFlight \ {r} /\ r \in InFlight
    BY <1>4 DEF InFlight, Flying
  <2>2. QED
    BY <1>4, <2>1, FS_RemoveElement DEF Count
<1>5. QED
  BY <1>1, <1>2, <1>3, <1>4

LEMMA NoneInFlight ==
  ASSUME Count, resuming = 0
  PROVE  \A r \in Resumes : state[r] \notin Flying
BY FS_EmptySet DEF Count, InFlight, Flying

\* Nothing is sent, and nothing comes.
LEMMA Quiet ==
  ASSUME IInv, UNCHANGED <<out, arrived, deferred>>
  PROVE  Once' /\ Order' /\ \A m : Sent(m)' <=> Sent(m)
<1>1. \A m : Sent(m)' <=> Sent(m)
  BY DEF Sent
<1>2. Once'
  BY Parts DEF Once
<1>3. Order'
  BY <1>1, Parts DEF Order, Seen
<1>4. QED
  BY <1>1, <1>2, <1>3

\* The adapter speaks for itself.
LEMMA Says ==
  ASSUME IInv, NEW s \in Seq(Messages), out' = out \o s, UNCHANGED <<arrived, deferred>>,
         \A k \in DOMAIN s : s[k] \notin StateEvents /\ ~Sent(s[k]),
         \A i, j \in DOMAIN s : s[i] = s[j] => i = j
  PROVE  /\ out' \in Seq(Messages) /\ Once' /\ Order'
         /\ \A m : Sent(m)' <=> Sent(m) \/ \E k \in DOMAIN s : s[k] = m
         /\ \A r \in Movers : Sent(Stopped(r))' <=> Sent(Stopped(r))
<1>1. out \in Seq(Messages) /\ Types /\ Once /\ Order
  BY Parts DEF Types
<1>2. \A m : Sent(m)' <=> Sent(m) \/ \E k \in DOMAIN s : s[k] = m
  BY <1>1, Grows
<1>3. \A r \in Movers : Sent(Stopped(r))' <=> Sent(Stopped(r))
  BY <1>2, Kinds
<1>4. QED
  BY <1>1, <1>2, <1>3, Grows, GrowsOnce, OthersKeepOrder

LEMMA AppendAt ==
  ASSUME NEW S, NEW s \in Seq(S), NEW e \in S
  PROVE  /\ Append(s, e) \in Seq(S)
         /\ \A i \in DOMAIN Append(s, e) : \/ i \in DOMAIN s /\ Append(s, e)[i] = s[i]
                                           \/ i = Len(s) + 1 /\ Append(s, e)[i] = e
<1> DEFINE t == Append(s, e)
<1>1. /\ t \in Seq(S) /\ Len(t) = Len(s) + 1 /\ Len(s) \in Nat
      /\ DOMAIN t = 1 .. Len(t) /\ DOMAIN s = 1 .. Len(s)
      /\ \A i \in 1 .. Len(s) : t[i] = s[i]
      /\ t[Len(s) + 1] = e
  OBVIOUS
<1> HIDE DEF t
<1>2. ASSUME NEW i \in DOMAIN t
      PROVE  (i \in DOMAIN s /\ t[i] = s[i]) \/ (i = Len(s) + 1 /\ t[i] = e)
  BY <1>1, <1>2
<1>3. t \in Seq(S) /\ \A i \in DOMAIN t : \/ i \in DOMAIN s /\ t[i] = s[i]
                                          \/ i = Len(s) + 1 /\ t[i] = e
  BY <1>1, <1>2
<1>4. QED
  BY <1>3 DEF t

\* A state event comes.
LEMMA Comes ==
  ASSUME IInv, NEW ev \in StateEvents, StateEvent(ev), UNCHANGED <<resuming, holding>>,
         \A i \in DOMAIN arrived : arrived[i] # ev
  PROVE  /\ out' \in Seq(Messages) /\ deferred' \in Seq(StateEvents) /\ arrived' \in Seq(StateEvents)
         /\ Once' /\ Order' /\ Kept' /\ Distinguished'
         /\ \A i \in DOMAIN arrived' : arrived'[i] = ev \/ \E k \in DOMAIN arrived : arrived'[i] = arrived[k]
         /\ \A m : Sent(m) => Sent(m)'
         /\ \A m : Sent(m)' => Sent(m) \/ (m = ev /\ ~Held)
<1>1. /\ out \in Seq(Messages) /\ Types /\ Once /\ Order /\ Distinguished /\ Kept /\ ev \in Messages
      /\ Held' = Held
  BY Parts, Kinds DEF Types, Reported, Distinguished, Held
<1>2. arrived' = Append(arrived, ev) /\ arrived \in Seq(StateEvents)
  BY <1>1 DEF StateEvent, Types
<1>3. /\ arrived' \in Seq(StateEvents)
      /\ \A i \in DOMAIN arrived' : \/ i \in DOMAIN arrived /\ arrived'[i] = arrived[i]
                                    \/ i = Len(arrived) + 1 /\ arrived'[i] = ev
  BY <1>2, AppendAt
<1>4. Distinguished'
  BY <1>1, <1>3 DEF Distinguished
<1>5. CASE Held
  <2>1. deferred' = Append(deferred, ev) /\ out' = out
    BY <1>5 DEF StateEvent
  <2>2. deferred' \in Seq(StateEvents)
    BY <1>1, <2>1 DEF Types
  <2>3. Once' /\ Order' /\ \A m : Sent(m)' <=> Sent(m)
    BY <1>1, <1>2, <2>1, HeldKeepsOrder DEF Once, Sent
  <2>4. Kept'
    BY <1>1, <1>5 DEF Kept
  <2>5. QED
    BY <1>1, <1>3, <1>4, <2>1, <2>2, <2>3, <2>4
<1>6. CASE ~Held
  <2>1. deferred' = deferred /\ out' = Append(out, ev) /\ deferred = <<>>
    BY <1>1, <1>6 DEF StateEvent, Kept
  <2>2. Order' /\ Kept' /\ deferred' \in Seq(StateEvents)
    BY <1>1, <1>2, <2>1, SentKeepsOrder DEF Kept, Types
  <2>3. ~Sent(ev)
    <3>1. SUFFICES ASSUME NEW p \in DOMAIN out, out[p] = ev PROVE FALSE
      BY DEF Sent
    <3>2. PICK i \in 1 .. Seen : out[p] = arrived[i]
      BY <1>1, <3>1 DEF Order
    <3>3. i \in DOMAIN arrived
      BY <1>1, <3>2 DEF Order, Seen, Types
    <3>4. QED
      BY <3>1, <3>2, <3>3
  <2>4. PICK s \in Seq(Messages) : s = <<ev>>
    <3>1. <<ev>> \in Seq(Messages)
      BY <1>1
    <3>2. QED
      BY <3>1
  <2>5. DOMAIN s = {1} /\ s[1] = ev /\ out' = out \o s
    BY <1>1, <2>1, <2>4
  <2>6. /\ out' \in Seq(Messages) /\ Once'
        /\ \A m : Sent(m)' <=> Sent(m) \/ m = ev
    BY <1>1, <2>3, <2>5, Grows, GrowsOnce
  <2>7. QED
    BY <1>3, <1>4, <1>6, <2>2, <2>6
<1>7. QED
  BY <1>5, <1>6

\* A request is answered, by itself or with another message of the adapter.
LEMMA Responds ==
  ASSUME IInv, NEW r \in Requests, NEW v \in {"answered", "failed", "stayed"},
         state[r] \notin {"answered", "failed", "stayed"}, state' = [state EXCEPT ![r] = v],
         NEW s \in Seq(Messages), out' = out \o s,
         \A k \in DOMAIN s : /\ s[k] \in {Response(r), Initialized, EntryStop(r), Refusal(r)}
                             /\ ~Sent(s[k]),
         \A i, j \in DOMAIN s : s[i] = s[j] => i = j,
         \E k \in DOMAIN s : s[k] = Response(r),
         \A k \in DOMAIN s : s[k] = EntryStop(r) => v = "stayed",
         \A k \in DOMAIN s : s[k] = Refusal(r) => v = "failed",
         \A k \in DOMAIN s : s[k] = Initialized => session' \in {"attached", "aborted"},
         session \in {"attached", "aborted"} => session' \in {"attached", "aborted"},
         v = "stayed" => r \notin caused,
         UNCHANGED <<arrived, deferred, caused, terminated, hasty>>
  PROVE  /\ state' \in [Requests -> {"unsent", "accepting", "connecting", "entering", "waiting",
                                     "resolved", "rejected", "answered", "failed", "stayed"}]
         /\ \A q \in Requests : state'[q] = IF q = r THEN v ELSE state[q]
         /\ out' \in Seq(Messages) /\ Once' /\ Order' /\ AnswerFirst' /\ Responded' /\ Announced' /\ Reported'
         /\ \A q \in Movers : Sent(Stopped(q))' <=> Sent(Stopped(q))
<1>1. state \in [Requests -> {"unsent", "accepting", "connecting", "entering", "waiting",
                              "resolved", "rejected", "answered", "failed", "stayed"}]
  BY Parts DEF Types
<1>2. \A q \in Requests : state'[q] = IF q = r THEN v ELSE state[q]
  BY <1>1
<1>3. \A k \in DOMAIN s : s[k] \notin StateEvents
  BY Distinct DEF StateEvents
<1>4. /\ out' \in Seq(Messages) /\ Once' /\ Order'
      /\ \A m : Sent(m)' <=> Sent(m) \/ \E k \in DOMAIN s : s[k] = m
      /\ \A q \in Movers : Sent(Stopped(q))' <=> Sent(Stopped(q))
  BY <1>3, Says
<1>5. \A q \in Requests : Sent(Response(q))' <=> Sent(Response(q)) \/ q = r
  <2>1. TAKE q \in Requests
  <2>2. (\E k \in DOMAIN s : s[k] = Response(q)) <=> q = r
    BY Distinct
  <2>3. QED
    BY <1>4, <2>2
<1>6. \A q \in Configurations :
        /\ Sent(EntryStop(q))' => Sent(EntryStop(q)) \/ (q = r /\ v = "stayed")
        /\ Sent(Refusal(q))' => Sent(Refusal(q)) \/ (q = r /\ v = "failed")
  <2>1. TAKE q \in Configurations
  <2>2. /\ (\E k \in DOMAIN s : s[k] = EntryStop(q)) => q = r /\ v = "stayed"
        /\ (\E k \in DOMAIN s : s[k] = Refusal(q)) => q = r /\ v = "failed"
    BY Distinct
  <2>3. QED
    BY <1>4, <2>2
<1>7. AnswerFirst'
  <2>1. \A q \in Resumes : q \in Movers /\ q \in Requests
    BY DEF Movers, Requests
  <2>2. QED
    BY <1>4, <1>5, <2>1, Parts DEF AnswerFirst
<1>8. Responded'
  BY <1>2, <1>5, Parts DEF Responded
<1>9. Announced'
  <2>1. Sent(Initialized)' => session' \in {"attached", "aborted"}
    BY <1>4, Parts DEF Announced
  <2>2. /\ \A q \in Configurations : Sent(EntryStop(q))' => state'[q] = "stayed"
        /\ \A q \in Configurations : Sent(Refusal(q))' => state'[q] = "failed"
    <3>1. Announced /\ Configurations \subseteq Requests
      BY Parts DEF Requests
    <3>2. QED
      BY <1>2, <1>6, <3>1 DEF Announced
  <2>3. QED
    BY <2>1, <2>2 DEF Announced
<1>10. Reported'
  <2>1. caused \subseteq Requests
    BY Parts DEF Types, Movers, Requests
  <2>2. \A q \in caused : state'[q] \in {"waiting", "resolved", "rejected", "answered", "failed"}
    BY <1>2, <2>1, Parts DEF Reported
  <2>3. QED
    BY <2>2, Parts DEF Reported
<1>11. QED
  BY <1>1, <1>2, <1>4, <1>7, <1>8, <1>9, <1>10

\* As Responds, when the response is all that is sent.
LEMMA RespondsOnly ==
  ASSUME IInv, NEW r \in Requests, NEW v \in {"answered", "failed"},
         state[r] \notin {"answered", "failed", "stayed"}, state' = [state EXCEPT ![r] = v],
         out' = Append(out, Response(r)),
         session \in {"attached", "aborted"} => session' \in {"attached", "aborted"},
         UNCHANGED <<arrived, deferred, caused, terminated, hasty>>
  PROVE  /\ state' \in [Requests -> {"unsent", "accepting", "connecting", "entering", "waiting",
                                     "resolved", "rejected", "answered", "failed", "stayed"}]
         /\ \A q \in Requests : state'[q] = IF q = r THEN v ELSE state[q]
         /\ out' \in Seq(Messages) /\ Once' /\ Order' /\ AnswerFirst' /\ Responded' /\ Announced' /\ Reported'
         /\ \A q \in Movers : Sent(Stopped(q))' <=> Sent(Stopped(q))
<1>1. Response(r) \in Messages /\ out \in Seq(Messages)
  BY Kinds, Parts DEF Types
<1>2. <<Response(r)>> \in Seq(Messages)
  BY <1>1
<1>3. PICK s \in Seq(Messages) : s = <<Response(r)>>
  BY <1>2
<1>4. DOMAIN s = {1} /\ s[1] = Response(r) /\ out' = out \o s
  BY <1>1, <1>3
<1>5. ~Sent(Response(r))
  BY Parts DEF Responded
<1>6. Response(r) # Initialized /\ Response(r) # EntryStop(r) /\ Response(r) # Refusal(r)
  BY Distinct
<1>7. QED
  BY <1>4, <1>5, <1>6, Responds

\* A request goes to where it waits, or is refused.
LEMMA MovesOn ==
  ASSUME IInv, NEW r \in Requests, NEW v \in {"accepting", "connecting", "entering", "waiting", "resolved", "rejected"},
         state[r] \notin {"answered", "failed", "stayed"}, state' = [state EXCEPT ![r] = v],
         r \in caused => v \in Flying,
         session \in {"attached", "aborted"} => session' \in {"attached", "aborted"},
         hasty => hasty',
         UNCHANGED <<out, arrived, deferred, caused, terminated>>
  PROVE  /\ state' \in [Requests -> {"unsent", "accepting", "connecting", "entering", "waiting",
                                     "resolved", "rejected", "answered", "failed", "stayed"}]
         /\ \A q \in Requests : state'[q] = IF q = r THEN v ELSE state[q]
         /\ Once' /\ Order' /\ AnswerFirst' /\ Responded' /\ Announced' /\ Reported'
         /\ \A m : Sent(m)' <=> Sent(m)
<1>1. state \in [Requests -> {"unsent", "accepting", "connecting", "entering", "waiting",
                              "resolved", "rejected", "answered", "failed", "stayed"}]
  BY Parts DEF Types
<1>2. \A q \in Requests : state'[q] = IF q = r THEN v ELSE state[q]
  BY <1>1
<1>3. Once' /\ Order' /\ \A m : Sent(m)' <=> Sent(m)
  BY Quiet
<1>4. AnswerFirst'
  BY <1>3, Parts DEF AnswerFirst
<1>5. Responded'
  BY <1>2, <1>3, Parts DEF Responded
<1>6. Announced'
  BY <1>2, <1>3, Parts DEF Announced, Requests
<1>7. Reported'
  <2>1. caused \subseteq Requests
    BY Parts DEF Types, Movers, Requests
  <2>2. \A q \in caused : state'[q] \in {"waiting", "resolved", "rejected", "answered", "failed"}
    BY <1>2, <2>1, Parts DEF Reported, Flying
  <2>3. QED
    BY <2>2, Parts DEF Reported
<1>8. QED
  BY <1>1, <1>2, <1>3, <1>4, <1>5, <1>6, <1>7

-----------------------------------------------------------------------------
(* The steps                                                                *)

LEMMA ForwardKeeps ==
  ASSUME IInv, NEW r \in Requests, Forward(r)
  PROVE  IInv'
<1>1. /\ state[r] = "unsent" /\ r \in Resumes \cup Queries
      /\ hasty' = (hasty \/ (r \in Resumes /\ \E q \in Movers : ~Over(q)))
      /\ resuming' = CountIn(r)
      /\ UNCHANGED <<session, holding, deferred, holds, terminated, out, arrived, caused>>
  BY DEF Forward
<1>2. PICK v \in {"waiting", "rejected"} : state' = [state EXCEPT ![r] = v]
  BY DEF Forward
<1>3. /\ state' \in [Requests -> {"unsent", "accepting", "connecting", "entering", "waiting",
                                  "resolved", "rejected", "answered", "failed", "stayed"}]
      /\ \A q \in Requests : state'[q] = IF q = r THEN v ELSE state[q]
      /\ Once' /\ Order' /\ AnswerFirst' /\ Responded' /\ Announced' /\ Reported'
      /\ \A m : Sent(m)' <=> Sent(m)
  BY <1>1, <1>2, MovesOn DEF Flying
<1>4. Types'
  BY <1>1, <1>3, Parts DEF Types
<1>5. Count' /\ resuming \in Nat /\ resuming' >= resuming
  <2>1. \A q \in Resumes : q \in Requests
    BY DEF Requests
  <2>2. CASE r \in Resumes
    BY <1>1, <1>3, <2>1, <2>2, CountMoves, Parts DEF CountIn, Flying
  <2>3. CASE r \notin Resumes
    <3>1. resuming \in Nat
      BY FS_CardinalityType, Parts DEF Count
    <3>2. QED
      BY <1>1, <1>3, <2>1, <2>3, <3>1, CountStays, Parts DEF CountIn
  <2>4. QED
    BY <2>2, <2>3
<1>6. Kept'
  <2>1. resuming > 0 => resuming' > 0
    BY <1>1, <1>5 DEF CountIn
  <2>2. Held => Held'
    BY <1>1, <2>1 DEF Held
  <2>3. QED
    BY <1>1, <2>2, Parts DEF Kept
<1>7. Patient'
  <2>1. SUFFICES ASSUME ~hasty', holds > 0
                 PROVE  /\ resuming' = 0 /\ holding /\ holds = 1
                        /\ \E q \in Resumes : state'[q] \in {"answered", "failed"} /\ ~Sent(Stopped(q))
    BY <1>1, <1>3 DEF Patient
  <2>2. ~hasty
    BY <1>1, <2>1
  <2>3. PICK q \in Resumes : state[q] \in {"answered", "failed"} /\ ~Sent(Stopped(q))
    BY <2>1, <2>2, Parts DEF Patient
  <2>4. ~Over(q)
    BY <2>1, <2>3, Parts DEF Over, Types
  <2>5. r \notin Resumes
    BY <1>1, <2>1, <2>4 DEF Movers
  <2>6. q # r /\ q \in Requests
    BY <1>1, <2>3 DEF Requests
  <2>7. QED
    BY <1>1, <1>3, <2>1, <2>2, <2>3, <2>5, <2>6, Parts DEF Patient, CountIn
<1>8. QED
  BY <1>3, <1>4, <1>5, <1>6, <1>7, PartsNext

\* What happens to other requests leaves the hold alone.
LEMMA PatientStays ==
  ASSUME IInv, UNCHANGED <<resuming, holding, holds, hasty>>,
         \A q \in Resumes : state[q] \in {"answered", "failed"} => state'[q] = state[q],
         \A q \in Resumes : Sent(Stopped(q))' => Sent(Stopped(q))
  PROVE  Patient'
<1>1. SUFFICES ASSUME ~hasty, holds > 0
               PROVE  \E q \in Resumes : state'[q] \in {"answered", "failed"} /\ ~Sent(Stopped(q))'
  BY Parts DEF Patient
<1>2. PICK q \in Resumes : state[q] \in {"answered", "failed"} /\ ~Sent(Stopped(q))
  BY <1>1, Parts DEF Patient
<1>3. QED
  BY <1>2

\* A launch or an attach begins, or has its connection.
LEMMA StartingKeeps ==
  ASSUME IInv, NEW r \in Requests, NEW v \in {"accepting", "connecting", "entering", "rejected"},
         state[r] \in {"unsent", "accepting", "connecting", "entering"}, state' = [state EXCEPT ![r] = v],
         r \notin Resumes, session' \in {"starting", "killed", "aborted"},
         session \notin {"attached", "aborted"},
         UNCHANGED <<hold, terminated, out, arrived, caused, hasty>>
  PROVE  IInv'
<1>1. UNCHANGED <<resuming, holding, deferred, holds, terminated, out, arrived, caused, hasty>>
  BY DEF hold
<1>2. r \notin caused
  BY <1>1, Parts DEF Reported
<1>3. /\ state' \in [Requests -> {"unsent", "accepting", "connecting", "entering", "waiting",
                                  "resolved", "rejected", "answered", "failed", "stayed"}]
      /\ \A q \in Requests : state'[q] = IF q = r THEN v ELSE state[q]
      /\ Once' /\ Order' /\ AnswerFirst' /\ Responded' /\ Announced' /\ Reported'
      /\ \A m : Sent(m)' <=> Sent(m)
  <2>1. /\ v \in {"accepting", "connecting", "entering", "waiting", "resolved", "rejected"}
        /\ state[r] \notin {"answered", "failed", "stayed"}
        /\ UNCHANGED <<out, arrived, deferred, caused, terminated>> /\ (hasty => hasty')
    BY <1>1
  <2>2. QED
    BY <1>2, <2>1, MovesOn
<1>4. Types'
  BY <1>1, <1>3, Parts DEF Types
<1>5. \A q \in Resumes : q \in Requests /\ q # r
  BY DEF Requests
<1>6. Count'
  BY <1>1, <1>3, <1>5, CountStays, Parts
<1>7. Kept'
  BY <1>1, Parts DEF Kept, Held
<1>8. Patient'
  BY <1>1, <1>3, <1>5, PatientStays
<1>9. QED
  BY <1>3, <1>4, <1>6, <1>7, <1>8, PartsNext

LEMMA StartKeeps ==
  ASSUME IInv, NEW r \in Requests, Start(r)
  PROVE  IInv'
<1>1. PICK how \in {"accepting", "connecting", "rejected"} :
        /\ state' = [state EXCEPT ![r] = how]
        /\ session' = IF how = "rejected" THEN "aborted" ELSE "starting"
  BY DEF Start
<1>2. r \notin Resumes
  BY KindsAssumption DEF Start
<1>3. session' \in {"starting", "aborted"}
  BY <1>1
<1>4. QED
  BY <1>1, <1>2, <1>3, StartingKeeps DEF Start

LEMMA ConnectedKeeps ==
  ASSUME IInv, Awaited, NEW r \in Requests, Connected(r)
  PROVE  IInv'
<1>1. r \notin Resumes
  BY KindsAssumption DEF Awaited, Connected, Starting
<1>2. QED
  BY <1>1, StartingKeeps DEF Connected, InStart

LEMMA EngineAnswersKeeps ==
  ASSUME IInv, NEW r \in Requests, EngineAnswers(r)
  PROVE  IInv'
<1>1. /\ state[r] = "waiting"
      /\ UNCHANGED <<session, resuming, holding, deferred, holds, terminated, out, arrived, caused, hasty>>
  BY DEF EngineAnswers, hold
<1>2. PICK v \in {"resolved", "rejected"} : state' = [state EXCEPT ![r] = v]
  BY DEF EngineAnswers
<1>3. /\ state' \in [Requests -> {"unsent", "accepting", "connecting", "entering", "waiting",
                                  "resolved", "rejected", "answered", "failed", "stayed"}]
      /\ \A q \in Requests : state'[q] = IF q = r THEN v ELSE state[q]
      /\ Once' /\ Order' /\ AnswerFirst' /\ Responded' /\ Announced' /\ Reported'
      /\ \A m : Sent(m)' <=> Sent(m)
  BY <1>1, <1>2, MovesOn DEF Flying
<1>4. Types'
  BY <1>1, <1>3, Parts DEF Types
<1>5. \A q \in Resumes : q \in Requests
  BY DEF Requests
<1>6. Count'
  BY <1>1, <1>3, <1>5, CountStays, Parts DEF Flying
<1>7. Kept'
  BY <1>1, Parts DEF Kept, Held
<1>8. Patient'
  BY <1>1, <1>3, <1>5, PatientStays
<1>9. QED
  BY <1>3, <1>4, <1>6, <1>7, <1>8, PartsNext

LEMMA DisconnectKeeps ==
  ASSUME IInv, NEW r \in Requests, Disconnect(r)
  PROVE  IInv'
<1>1. /\ state[r] = "unsent" /\ r \in Disconnects
      /\ state' = [state EXCEPT ![r] = "answered"]
      /\ out' = Append(out, Response(r))
      /\ session' = session \/ (session = "starting" /\ session' = "killed")
      /\ UNCHANGED <<resuming, holding, deferred, holds, terminated, arrived, caused, hasty>>
  BY DEF Disconnect, LaunchAt, hold
<1>2. /\ state' \in [Requests -> {"unsent", "accepting", "connecting", "entering", "waiting",
                                  "resolved", "rejected", "answered", "failed", "stayed"}]
      /\ \A q \in Requests : state'[q] = IF q = r THEN "answered" ELSE state[q]
      /\ out' \in Seq(Messages) /\ Once' /\ Order' /\ AnswerFirst' /\ Responded' /\ Announced' /\ Reported'
      /\ \A q \in Movers : Sent(Stopped(q))' <=> Sent(Stopped(q))
  BY <1>1, RespondsOnly
<1>3. Types'
  BY <1>1, <1>2, Parts DEF Types
<1>4. \A q \in Resumes : q \in Requests /\ q \in Movers
  BY DEF Requests, Movers
<1>5. Count'
  BY <1>1, <1>2, <1>4, CountStays, Parts DEF Flying
<1>6. Kept'
  BY <1>1, Parts DEF Kept, Held
<1>7. Patient'
  BY <1>1, <1>2, <1>4, PatientStays
<1>8. QED
  BY <1>2, <1>3, <1>5, <1>6, <1>7, PartsNext

\* A launch or an attach is answered.
LEMMA SucceedKeeps ==
  ASSUME IInv, NEW r \in Requests, state[r] \in Starting, InStart, Succeed(r),
         session' \in {"attached", "aborted"}, UNCHANGED <<terminated, arrived, caused, hasty>>
  PROVE  IInv'
<1>1. /\ state[r] \in {"accepting", "connecting", "entering"} /\ session \in {"starting", "killed"}
      /\ state' = [state EXCEPT ![r] = "answered"]
      /\ out' = out \o <<Initialized, Response(r)>>
      /\ UNCHANGED <<resuming, holding, deferred, holds, terminated, arrived, caused, hasty>>
  BY DEF Starting, InStart, Succeed, hold
<1>2. <<Initialized, Response(r)>> \in Seq(Messages)
  <2>1. Initialized \in Messages /\ Response(r) \in Messages
    BY Kinds
  <2>2. QED
    BY <2>1
<1>3. PICK s \in Seq(Messages) : s = <<Initialized, Response(r)>>
  BY <1>2
<1>4. DOMAIN s = {1, 2} /\ s[1] = Initialized /\ s[2] = Response(r) /\ out' = out \o s
  BY <1>1, <1>3
<1>5. ~Sent(Response(r)) /\ ~Sent(Initialized)
  BY <1>1, Parts DEF Responded, Announced
<1>6. Response(r) # Initialized /\ Response(r) # EntryStop(r) /\ Initialized # EntryStop(r)
      /\ Refusal(r) # Initialized /\ Refusal(r) # Response(r)
  BY Distinct
<1>7. /\ state' \in [Requests -> {"unsent", "accepting", "connecting", "entering", "waiting",
                                  "resolved", "rejected", "answered", "failed", "stayed"}]
      /\ \A q \in Requests : state'[q] = IF q = r THEN "answered" ELSE state[q]
      /\ out' \in Seq(Messages) /\ Once' /\ Order' /\ AnswerFirst' /\ Responded' /\ Announced' /\ Reported'
      /\ \A q \in Movers : Sent(Stopped(q))' <=> Sent(Stopped(q))
  <2>1. /\ \A k \in DOMAIN s : s[k] \in {Response(r), Initialized} /\ ~Sent(s[k])
        /\ \A k \in DOMAIN s : s[k] # EntryStop(r) /\ s[k] # Refusal(r)
        /\ \E k \in DOMAIN s : s[k] = Response(r)
        /\ \A i, j \in DOMAIN s : s[i] = s[j] => i = j
    BY <1>4, <1>5, <1>6
  <2>2. QED
    BY <1>1, <1>4, <2>1, Responds
<1>8. Types'
  BY <1>1, <1>7, Parts DEF Types
<1>9. \A q \in Resumes : q \in Requests /\ q \in Movers
  BY DEF Requests, Movers
<1>10. Count'
  BY <1>1, <1>7, <1>9, CountStays, Parts DEF Flying
<1>11. Kept'
  BY <1>1, Parts DEF Kept, Held
<1>12. Patient'
  BY <1>1, <1>7, <1>9, PatientStays
<1>13. QED
  BY <1>7, <1>8, <1>10, <1>11, <1>12, PartsNext

LEMMA ConfigureKeeps ==
  ASSUME IInv, NEW r \in Requests, NEW stopOnEntry \in BOOLEAN, Configure(r, stopOnEntry)
  PROVE  IInv'
<1>1. /\ state[r] = "unsent" /\ r \in Configurations
      /\ UNCHANGED <<session, resuming, holding, deferred, holds, terminated, arrived, caused, hasty>>
  BY DEF Configure, hold
<1>2. r \notin caused
  BY <1>1, Parts DEF Reported
<1>3. /\ Response(r) \in Messages /\ EntryStop(r) \in Messages /\ Refusal(r) \in Messages
      /\ out \in Seq(Messages)
      /\ Response(r) # Initialized /\ Response(r) # EntryStop(r) /\ Initialized # EntryStop(r)
      /\ Refusal(r) # Response(r) /\ Refusal(r) # Initialized /\ Refusal(r) # EntryStop(r)
  BY <1>1, Kinds, Distinct, Parts DEF Types
<1>4. ~Sent(Response(r)) /\ ~Sent(EntryStop(r)) /\ ~Sent(Refusal(r))
  <2>1. Responded /\ Announced
    BY Parts
  <2>2. QED
    BY <1>1, <2>1 DEF Responded, Announced
<1>5. PICK v \in {"stayed", "answered", "failed"} :
        /\ v = "stayed" <=> stopOnEntry
        /\ v = "failed" <=> ~stopOnEntry /\ session = "aborted"
        /\ state' = [state EXCEPT ![r] = v]
        /\ out' = out \o <<Response(r)>> \o (CASE v = "stayed" -> <<EntryStop(r)>>
                                            [] v = "failed" -> <<Refusal(r)>>
                                            [] v = "answered" -> <<>>)
  BY DEF Configure
<1>6. /\ \A q \in Requests : state'[q] = IF q = r THEN v ELSE state[q]
      /\ state' \in [Requests -> {"unsent", "accepting", "connecting", "entering", "waiting",
                                  "resolved", "rejected", "answered", "failed", "stayed"}]
      /\ out' \in Seq(Messages) /\ Once' /\ Order' /\ AnswerFirst' /\ Responded' /\ Announced' /\ Reported'
      /\ \A q \in Movers : Sent(Stopped(q))' <=> Sent(Stopped(q))
  <2>1. ASSUME NEW m \in {EntryStop(r), Refusal(r)}, out' = out \o <<Response(r)>> \o <<m>>,
               m = EntryStop(r) => v = "stayed", m = Refusal(r) => v = "failed"
        PROVE  <1>6
    <3>1. m \in Messages /\ ~Sent(m) /\ m # Response(r) /\ m # Initialized
      BY <1>3, <1>4
    <3>2. <<Response(r), m>> \in Seq(Messages)
      BY <1>3, <3>1
    <3>3. PICK s \in Seq(Messages) : s = <<Response(r), m>>
      BY <3>2
    <3>4. DOMAIN s = {1, 2} /\ s[1] = Response(r) /\ s[2] = m
      BY <3>3
    <3>5. out' = out \o s
      BY <1>3, <2>1, <3>1, <3>3
    <3>6. /\ \A k \in DOMAIN s : s[k] \in {Response(r), EntryStop(r), Refusal(r)} /\ ~Sent(s[k])
          /\ \A k \in DOMAIN s : s[k] # Initialized
          /\ \A k \in DOMAIN s : s[k] = EntryStop(r) => v = "stayed"
          /\ \A k \in DOMAIN s : s[k] = Refusal(r) => v = "failed"
          /\ \E k \in DOMAIN s : s[k] = Response(r)
          /\ \A i, j \in DOMAIN s : s[i] = s[j] => i = j
      BY <1>3, <1>4, <2>1, <3>1, <3>4
    <3>7. QED
      BY <1>1, <1>2, <1>5, <3>5, <3>6, Responds
  <2>2. CASE v = "stayed"
    <3>1. EntryStop(r) # Refusal(r) /\ out' = out \o <<Response(r)>> \o <<EntryStop(r)>>
      BY <1>3, <1>5, <2>2
    <3>2. QED
      BY <2>1, <2>2, <3>1
  <2>3. CASE v = "failed"
    <3>1. EntryStop(r) # Refusal(r) /\ out' = out \o <<Response(r)>> \o <<Refusal(r)>>
      BY <1>3, <1>5, <2>3
    <3>2. QED
      BY <2>1, <2>3, <3>1
  <2>4. CASE v = "answered"
    <3>1. out' = out \o <<Response(r)>> \o <<>>
      BY <1>5, <2>4
    <3>2. out' = Append(out, Response(r))
      BY <1>3, <3>1
    <3>3. QED
      BY <1>1, <1>5, <2>4, <3>2, RespondsOnly
  <2>5. QED
    BY <2>2, <2>3, <2>4
<1>7. Types'
  BY <1>1, <1>6, Parts DEF Types
<1>8. \A q \in Resumes : q \in Requests /\ q \in Movers
  BY DEF Requests, Movers
<1>9. Count'
  BY <1>1, <1>6, <1>8, CountStays, Parts DEF Flying
<1>10. Kept'
  BY <1>1, Parts DEF Kept, Held
<1>11. Patient'
  BY <1>1, <1>6, <1>8, PatientStays
<1>12. QED
  BY <1>6, <1>7, <1>9, <1>10, <1>11, PartsNext

\* The end of a resume: the last in flight starts the hold.
LEMMA EndResumeKeeps ==
  ASSUME IInv, NEW r \in Resumes, NEW ok \in BOOLEAN, state[r] \in Flying, EndResume(r, ok),
         UNCHANGED <<session, terminated, arrived, caused, hasty>>
  PROVE  IInv'
<1>1. /\ r \in Requests /\ r \in Movers /\ state[r] \notin {"answered", "failed", "stayed"}
      /\ \A q \in Resumes : q \in Requests /\ q \in Movers
  BY DEF Requests, Movers, Flying
<1>2. PICK v \in {"answered", "failed"} : state' = [state EXCEPT ![r] = v]
  BY DEF EndResume
<1>3. /\ out' = Append(out, Response(r)) /\ resuming' = resuming - 1 /\ deferred' = deferred
      /\ IF resuming = 1 THEN holding' = TRUE /\ holds' = holds + 1 ELSE UNCHANGED <<holding, holds>>
  BY DEF EndResume, HoldStarts
<1>4. /\ state' \in [Requests -> {"unsent", "accepting", "connecting", "entering", "waiting",
                                  "resolved", "rejected", "answered", "failed", "stayed"}]
      /\ \A q \in Requests : state'[q] = IF q = r THEN v ELSE state[q]
      /\ out' \in Seq(Messages) /\ Once' /\ Order' /\ AnswerFirst' /\ Responded' /\ Announced' /\ Reported'
      /\ \A q \in Movers : Sent(Stopped(q))' <=> Sent(Stopped(q))
  BY <1>1, <1>2, <1>3, RespondsOnly
<1>5. holds \in Nat /\ holding \in BOOLEAN
  BY Parts DEF Types
<1>6. holds' \in Nat /\ holding' \in BOOLEAN
  <2>1. CASE resuming = 1
    BY <1>3, <1>5, <2>1
  <2>2. CASE resuming # 1
    <3>1. holds' = holds /\ holding' = holding
      BY <1>3, <2>2
    <3>2. QED
      BY <1>5, <3>1
  <2>3. QED
    BY <2>1, <2>2
<1>7. Types'
  BY <1>3, <1>4, <1>6, Parts DEF Types
<1>8. Count' /\ resuming \in Nat /\ resuming > 0
  BY <1>1, <1>3, <1>4, CountMoves, Parts DEF Flying
<1>9. Kept'
  <2>1. CASE resuming = 1
    BY <1>3, <2>1 DEF Kept, Held
  <2>2. CASE resuming # 1
    BY <1>3, <1>8, <2>2 DEF Kept, Held
  <2>3. QED
    BY <2>1, <2>2
<1>10. Patient'
  <2>1. SUFFICES ASSUME ~hasty, holds' > 0
                 PROVE  /\ resuming' = 0 /\ holding' /\ holds' = 1
                        /\ \E q \in Resumes : state'[q] \in {"answered", "failed"} /\ ~Sent(Stopped(q))'
    BY DEF Patient
  <2>2. ~(holds > 0)
    BY <1>8, <2>1, Parts DEF Patient
  <2>3. resuming = 1
    BY <1>3, <2>1, <2>2
  <2>4. ~Sent(Response(r))
    BY <1>1, Parts DEF Responded
  <2>5. ~Sent(Stopped(r))
    BY <2>1, <2>4, Parts DEF AnswerFirst
  <2>6. resuming' = 0 /\ holding' /\ holds' = 1
    BY <1>3, <1>5, <2>2, <2>3
  <2>7. state'[r] \in {"answered", "failed"} /\ ~Sent(Stopped(r))'
    BY <1>1, <1>4, <2>5
  <2>8. QED
    BY <2>6, <2>7
<1>11. QED
  BY <1>4, <1>7, <1>8, <1>9, <1>10, PartsNext

\* The answer to another request.
LEMMA OtherAnswerKeeps ==
  ASSUME IInv, NEW r \in Requests \ Resumes, NEW ok \in BOOLEAN,
         state[r] \notin {"answered", "failed", "stayed"}, Answer(r, ok),
         session' \in {session, "aborted"},
         UNCHANGED <<terminated, arrived, caused, hasty>>
  PROVE  IInv'
<1>1. PICK v \in {"answered", "failed"} : state' = [state EXCEPT ![r] = v]
  BY DEF Answer
<1>2. out' = Append(out, Response(r)) /\ UNCHANGED <<resuming, holding, deferred, holds>>
  BY DEF Answer, hold
<1>3. /\ state' \in [Requests -> {"unsent", "accepting", "connecting", "entering", "waiting",
                                  "resolved", "rejected", "answered", "failed", "stayed"}]
      /\ \A q \in Requests : state'[q] = IF q = r THEN v ELSE state[q]
      /\ out' \in Seq(Messages) /\ Once' /\ Order' /\ AnswerFirst' /\ Responded' /\ Announced' /\ Reported'
      /\ \A q \in Movers : Sent(Stopped(q))' <=> Sent(Stopped(q))
  BY <1>1, <1>2, RespondsOnly
<1>4. Types'
  BY <1>2, <1>3, Parts DEF Types
<1>5. \A q \in Resumes : q \in Requests /\ q \in Movers /\ q # r
  BY DEF Requests, Movers
<1>6. Count'
  BY <1>2, <1>3, <1>5, CountStays, Parts DEF Flying
<1>7. Kept'
  BY <1>2, Parts DEF Kept, Held
<1>8. Patient'
  BY <1>2, <1>3, <1>5, PatientStays
<1>9. QED
  BY <1>3, <1>4, <1>6, <1>7, <1>8, PartsNext

LEMMA ContinuationKeeps ==
  ASSUME IInv, NEW r \in Requests, Continuation(r)
  PROVE  IInv'
<1>1. /\ state[r] \in {"resolved", "rejected"} /\ Answer(r, state[r] = "resolved")
      /\ UNCHANGED <<session, terminated, arrived, caused, hasty>>
  BY DEF Continuation, Settling
<1>2. PICK ok \in BOOLEAN : ok = (state[r] = "resolved")
  OBVIOUS
<1>3. Answer(r, ok)
  BY <1>1, <1>2
<1>4. CASE r \in Resumes
  BY <1>1, <1>3, <1>4, EndResumeKeeps DEF Answer, Flying
<1>5. CASE r \notin Resumes
  BY <1>1, <1>3, <1>5, OtherAnswerKeeps
<1>6. QED
  BY <1>4, <1>5

LEMMA GiveUpKeeps ==
  ASSUME IInv, Awaited, NEW r \in Requests, GiveUp(r)
  PROVE  IInv'
<1>1. r \notin Resumes
  BY KindsAssumption DEF Awaited, GiveUp, Starting
<1>2. QED
  BY <1>1, OtherAnswerKeeps DEF GiveUp

LEMMA StartLostKeeps ==
  ASSUME IInv, Awaited, NEW r \in Requests, StartLost(r)
  PROVE  IInv'
<1>1. /\ session \in {"starting", "killed"} /\ session' = "aborted"
      /\ state[r] \in {"accepting", "entering"}
      /\ UNCHANGED <<terminated, arrived, caused, hasty>>
  BY DEF StartLost, InStart
<1>2. r \notin Resumes
  BY <1>1, KindsAssumption DEF Awaited, Starting
<1>3. CASE UNCHANGED <<state, hold, out>>
  <2>1. UNCHANGED <<state, resuming, holding, deferred, holds, out>>
    BY <1>3 DEF hold
  <2>2. Once' /\ Order' /\ \A m : Sent(m)' <=> Sent(m)
    BY <1>1, <2>1, Quiet
  <2>3. AnswerFirst' /\ Responded' /\ Announced' /\ Reported'
    BY <1>1, <2>1, <2>2, Parts DEF AnswerFirst, Responded, Announced, Reported
  <2>4. Types' /\ Count' /\ Kept'
    BY <1>1, <2>1, Parts DEF Types, Count, InFlight, Kept, Held
  <2>5. Patient'
    BY <1>1, <2>1, <2>2, PatientStays
  <2>6. QED
    BY <2>2, <2>3, <2>4, <2>5, PartsNext
<1>4. CASE Succeed(r)
  BY <1>1, <1>4, SucceedKeeps DEF InStart, Starting
<1>5. CASE Answer(r, FALSE)
  BY <1>1, <1>2, <1>5, OtherAnswerKeeps
<1>6. QED
  BY <1>3, <1>4, <1>5 DEF StartLost

LEMMA ReachedKeeps ==
  ASSUME IInv, Awaited, NEW r \in Requests, Reached(r)
  PROVE  IInv'
<1>1. CASE Started(r)
  BY <1>1, SucceedKeeps DEF Started, Starting
<1>2. QED
  BY <1>1, ConnectedKeeps, GiveUpKeeps, StartLostKeeps DEF Reached

\* A state event comes and its request, if it has one, is on its way or over.
LEMMA EventKeeps ==
  ASSUME IInv, NEW ev \in StateEvents, StateEvent(ev), \A i \in DOMAIN arrived : arrived[i] # ev,
         UNCHANGED <<resuming, holding, holds, hasty>>, session' \in {session, "aborted"},
         terminated' \in BOOLEAN, terminated => terminated',
         caused \subseteq caused', caused' \subseteq Movers,
         (ev = Terminated /\ terminated') \/ (\E r \in caused' : ev = Stopped(r)),
         state' \in [Requests -> {"unsent", "accepting", "connecting", "entering", "waiting",
                                  "resolved", "rejected", "answered", "failed", "stayed"}],
         \A q \in Requests : state'[q] = state[q] \/ (state[q] \in Flying /\ state'[q] \in Flying),
         \A q \in caused' : state[q] \in {"waiting", "resolved", "rejected", "answered", "failed"},
         \A q \in Resumes : ev = Stopped(q) => state[q] \in {"waiting", "resolved", "answered"}
  PROVE  IInv'
<1>1. /\ out' \in Seq(Messages) /\ deferred' \in Seq(StateEvents) /\ arrived' \in Seq(StateEvents)
      /\ Once' /\ Order' /\ Kept' /\ Distinguished'
      /\ \A i \in DOMAIN arrived' : arrived'[i] = ev \/ \E k \in DOMAIN arrived : arrived'[i] = arrived[k]
      /\ \A m : Sent(m) => Sent(m)'
      /\ \A m : Sent(m)' => Sent(m) \/ (m = ev /\ ~Held)
  BY Comes
<1>2. \A q \in Resumes : q \in Requests /\ q \in Movers
  BY DEF Requests, Movers
<1>3. Types'
  BY <1>1, Parts DEF Types
<1>4. Count'
  BY <1>2, CountStays, Parts
<1>5. \A q \in Requests : Sent(Response(q))' <=> Sent(Response(q))
  <2>1. TAKE q \in Requests
  <2>2. Response(q) # ev
    BY Kinds
  <2>3. QED
    BY <1>1, <2>2
<1>6. Responded'
  BY <1>5, Parts DEF Responded, Flying
<1>7. Announced'
  <2>1. Sent(Initialized)' => Sent(Initialized)
    BY <1>1, Kinds
  <2>2. /\ \A q \in Configurations : q \in Requests
        /\ \A q \in Configurations : Sent(EntryStop(q))' => Sent(EntryStop(q))
        /\ \A q \in Configurations : Sent(Refusal(q))' => Sent(Refusal(q))
    BY <1>1, Kinds DEF Requests
  <2>3. /\ Announced
        /\ session \in {"attached", "aborted"} => session' \in {"attached", "aborted"}
        /\ \A q \in Requests : state[q] \in {"stayed", "failed"} => state'[q] = state[q]
    BY Parts DEF Flying
  <2>4. QED
    BY <2>1, <2>2, <2>3 DEF Announced
<1>8. Reported'
  <2>1. \A i \in DOMAIN arrived' : \/ arrived'[i] = Terminated /\ terminated'
                                   \/ \E r \in caused' : arrived'[i] = Stopped(r)
    BY <1>1, Parts DEF Reported
  <2>2. \A q \in caused' : state'[q] \in {"waiting", "resolved", "rejected", "answered", "failed"}
    BY DEF Movers, Requests, Flying
  <2>3. QED
    BY <1>1, <2>1, <2>2 DEF Reported, Distinguished
<1>9. AnswerFirst'
  <2>1. SUFFICES ASSUME ~hasty, NEW q \in Resumes, Sent(Stopped(q))'
                 PROVE  Sent(Response(q))'
    BY DEF AnswerFirst
  <2>2. CASE Sent(Stopped(q))
    BY <1>2, <1>5, <2>1, <2>2, Parts DEF AnswerFirst
  <2>3. CASE Stopped(q) = ev /\ ~Held
    <3>1. state[q] \notin Flying
      BY <1>2, <2>3, FS_CardinalityType, FS_EmptySet, NoneInFlight, Parts DEF Held, Count
    <3>2. state[q] = "answered"
      BY <2>3, <3>1 DEF Flying
    <3>3. QED
      BY <1>2, <1>5, <3>2, Parts DEF Responded
  <2>4. QED
    BY <1>1, <2>1, <2>2, <2>3
<1>10. Patient'
  <2>1. SUFFICES ASSUME ~hasty, holds > 0
                 PROVE  \E q \in Resumes : state'[q] \in {"answered", "failed"} /\ ~Sent(Stopped(q))'
    BY Parts DEF Patient
  <2>2. Held /\ \E q \in Resumes : state[q] \in {"answered", "failed"} /\ ~Sent(Stopped(q))
    BY <2>1, Parts DEF Patient, Held
  <2>3. QED
    BY <1>1, <1>2, <2>2 DEF Flying
<1>11. QED
  BY <1>1, <1>3, <1>4, <1>6, <1>7, <1>8, <1>9, <1>10, PartsNext

LEMMA EngineStopsKeeps ==
  ASSUME IInv, NEW r \in Requests, EngineStops(r)
  PROVE  IInv'
<1>1. /\ r \in Movers \ caused /\ state[r] \in {"waiting", "resolved", "answered"}
      /\ caused' = caused \cup {r} /\ StateEvent(Stopped(r))
      /\ UNCHANGED <<state, session, resuming, holding, holds, terminated, hasty>>
  BY DEF EngineStops
<1>2. PICK ev \in StateEvents : ev = Stopped(r)
  BY <1>1, Kinds
<1>3. \A i \in DOMAIN arrived : arrived[i] # ev
  BY <1>1, <1>2, Distinct, Parts DEF Reported
<1>4. /\ caused' \subseteq Movers /\ caused \subseteq caused' /\ \E q \in caused' : ev = Stopped(q)
      /\ \A q \in caused' : state[q] \in {"waiting", "resolved", "rejected", "answered", "failed"}
  BY <1>1, <1>2, Parts DEF Types, Reported
<1>5. \A q \in Resumes : ev = Stopped(q) => state[q] \in {"waiting", "resolved", "answered"}
  BY <1>1, <1>2, Distinct
<1>6. QED
  BY <1>1, <1>2, <1>3, <1>4, <1>5, EventKeeps, Parts DEF Types

\* The program's end, or the connection's, told the first time.
LEMMA TerminatedKeeps ==
  ASSUME IInv, ~terminated, terminated' = TRUE, StateEvent(Terminated),
         UNCHANGED <<resuming, holding, holds, caused, hasty>>, session' \in {session, "aborted"},
         state' \in [Requests -> {"unsent", "accepting", "connecting", "entering", "waiting",
                                  "resolved", "rejected", "answered", "failed", "stayed"}],
         \A q \in Requests : state'[q] = state[q] \/ (state[q] \in Flying /\ state'[q] \in Flying)
  PROVE  IInv'
<1>1. PICK ev \in StateEvents : ev = Terminated
  BY Kinds
<1>2. \A i \in DOMAIN arrived : arrived[i] # ev
  BY <1>1, Distinct, Parts DEF Reported
<1>3. /\ caused' \subseteq Movers
      /\ \A q \in caused' : state[q] \in {"waiting", "resolved", "rejected", "answered", "failed"}
  BY Parts DEF Types, Reported
<1>4. \A q \in Resumes : ev # Stopped(q)
  BY <1>1, Distinct
<1>5. QED
  BY <1>1, <1>2, <1>3, <1>4, EventKeeps

LEMMA EngineTerminatesKeeps ==
  ASSUME IInv, EngineTerminates
  PROVE  IInv'
<1>1. /\ ~terminated /\ terminated' = TRUE /\ StateEvent(Terminated)
      /\ UNCHANGED <<state, session, resuming, holding, holds, caused, hasty>>
  BY DEF EngineTerminates, SendTerminated
<1>2. QED
  BY <1>1, TerminatedKeeps, Parts DEF Types

LEMMA AbortKeeps ==
  ASSUME IInv, Abort
  PROVE  IInv'
<1>1. /\ session' = "aborted" /\ terminated' = TRUE
      /\ UNCHANGED <<resuming, holding, holds, caused, hasty>>
      /\ state' = [r \in Requests |-> IF r \in Waiting THEN "rejected" ELSE state[r]]
  BY DEF Abort, RejectWaiting, SendTerminated
<1>2. state' \in [Requests -> {"unsent", "accepting", "connecting", "entering", "waiting",
                               "resolved", "rejected", "answered", "failed", "stayed"}]
  BY <1>1, Parts DEF Types
<1>3. \A q \in Requests : state'[q] = IF state[q] = "waiting" THEN "rejected" ELSE state[q]
  BY <1>1 DEF Waiting
<1>4. CASE ~terminated
  <2>1. StateEvent(Terminated)
    BY <1>4 DEF Abort, SendTerminated
  <2>2. QED
    BY <1>1, <1>2, <1>3, <1>4, <2>1, TerminatedKeeps DEF Flying
<1>5. CASE terminated
  <2>1. UNCHANGED <<deferred, out, arrived>> /\ terminated' = terminated
    BY <1>1, <1>5, Parts DEF Abort, SendTerminated, Types
  <2>2. Once' /\ Order' /\ \A m : Sent(m)' <=> Sent(m)
    BY <2>1, Quiet
  <2>3. \A q \in Resumes : q \in Requests
    BY DEF Requests
  <2>4. AnswerFirst' /\ Responded' /\ Announced'
    BY <1>1, <1>3, <2>2, Parts DEF AnswerFirst, Responded, Announced, Requests
  <2>5. Reported'
    <3>1. caused \subseteq Requests
      BY Parts DEF Types, Movers, Requests
    <3>2. \A q \in caused : state'[q] \in {"waiting", "resolved", "rejected", "answered", "failed"}
      BY <1>3, <3>1, Parts DEF Reported
    <3>3. QED
      BY <1>1, <2>1, <3>2, Parts DEF Reported
  <2>6. Types'
    BY <1>1, <1>2, <2>1, Parts DEF Types
  <2>7. Count'
    BY <1>1, <1>3, <2>3, CountStays, Parts DEF Flying
  <2>8. Kept'
    BY <1>1, <2>1, Parts DEF Kept, Held
  <2>9. Patient'
    BY <1>1, <1>3, <2>2, <2>3, PatientStays
  <2>10. QED
    BY <2>2, <2>4, <2>5, <2>6, <2>7, <2>8, <2>9, PartsNext
<1>6. QED
  BY <1>4, <1>5

\* The deferred function lets out what is held.  A patient client's resumes are
\* all answered by then.
LEMMA HoldOverKeeps ==
  ASSUME IInv, HoldOver
  PROVE  IInv'
<1>1. /\ holds > 0 /\ holds' = holds - 1 /\ holding' = FALSE
      /\ out' = out \o deferred /\ deferred' = <<>>
      /\ UNCHANGED <<state, session, resuming, terminated, arrived, caused, hasty>>
  BY DEF HoldOver
<1>2. Types /\ Once /\ Order /\ Distinguished /\ out \in Seq(Messages)
  BY Parts DEF Types, Reported, Distinguished
<1>3. Order'
  BY <1>1, <1>2, ReleaseKeepsOrder
<1>4. PICK s \in Seq(StateEvents) : s = deferred
  BY <1>2 DEF Types
<1>5. /\ DOMAIN s = 1 .. Len(s) /\ Len(s) \in Nat /\ Len(arrived) \in Nat
      /\ DOMAIN arrived = 1 .. Len(arrived)
      /\ \A k \in DOMAIN s : s[k] \in StateEvents
      /\ s \in Seq(Messages) /\ out' = out \o s
  BY <1>1, <1>2, <1>4, Kinds DEF Types
<1>6. /\ Seen \in Nat /\ Seen + Len(s) = Len(arrived)
      /\ \A k \in DOMAIN s : s[k] = arrived[Seen + k]
  BY <1>2, <1>4, <1>5 DEF Order, Seen
<1>7. \A k \in DOMAIN s : Seen + k \in DOMAIN arrived /\ Seen + k \notin 1 .. Seen
  BY <1>5, <1>6
<1>8. \A k \in DOMAIN s : ~Sent(s[k])
  <2>1. SUFFICES ASSUME NEW k \in DOMAIN s, NEW p \in DOMAIN out, out[p] = s[k] PROVE FALSE
    BY DEF Sent
  <2>2. Seen + k \in 1 .. Seen
    BY <1>2, <1>6, <1>7, <2>1, FirstSent
  <2>3. QED
    BY <1>7, <2>1, <2>2
<1>9. \A i, j \in DOMAIN s : s[i] = s[j] => i = j
  <2>1. TAKE i, j \in DOMAIN s
  <2>2. SUFFICES ASSUME s[i] = s[j] PROVE i = j
    OBVIOUS
  <2>3. Seen + i = Seen + j
    BY <1>2, <1>6, <1>7, <2>2 DEF Distinguished
  <2>4. QED
    BY <1>5, <1>6, <2>3
<1>10. /\ out' \in Seq(Messages) /\ Once'
       /\ \A m : Sent(m)' <=> Sent(m) \/ \E k \in DOMAIN s : s[k] = m
  BY <1>2, <1>5, <1>8, <1>9, Grows, GrowsOnce
<1>11. Types'
  <2>1. holds' \in Nat
    BY <1>1, <1>2 DEF Types
  <2>2. deferred' \in Seq(StateEvents)
    BY <1>1
  <2>3. holding' \in BOOLEAN
    BY <1>1
  <2>4. QED
    BY <1>1, <1>2, <1>10, <2>1, <2>2, <2>3 DEF Types
<1>12. Count' /\ Reported' /\ Kept'
  BY <1>1, Parts DEF Count, InFlight, Reported, Kept
<1>13. \A q \in Requests : Sent(Response(q))' <=> Sent(Response(q))
  BY <1>5, <1>10, Kinds
<1>14. Responded'
  BY <1>1, <1>13, Parts DEF Responded
<1>15. Announced'
  <2>1. Sent(Initialized)' => Sent(Initialized)
    BY <1>5, <1>10, Kinds
  <2>2. /\ \A q \in Configurations : Sent(EntryStop(q))' => Sent(EntryStop(q))
        /\ \A q \in Configurations : Sent(Refusal(q))' => Sent(Refusal(q))
    BY <1>5, <1>10, Kinds
  <2>3. Announced /\ UNCHANGED <<state, session>>
    BY <1>1, Parts
  <2>4. QED
    BY <2>1, <2>2, <2>3 DEF Announced
<1>16. AnswerFirst'
  <2>1. SUFFICES ASSUME ~hasty, NEW q \in Resumes, Sent(Stopped(q))'
                 PROVE  Sent(Response(q))'
    BY <1>1 DEF AnswerFirst
  <2>2. q \in Requests /\ q \in Movers
    BY DEF Requests, Movers
  <2>3. CASE Sent(Stopped(q))
    BY <1>13, <2>1, <2>2, <2>3, Parts DEF AnswerFirst
  <2>4. CASE \E k \in DOMAIN s : s[k] = Stopped(q)
    <3>1. PICK i \in DOMAIN arrived : arrived[i] = Stopped(q)
      BY <1>6, <1>7, <2>4
    <3>2. q \in caused
      BY <3>1, Distinct, Parts DEF Reported
    <3>3. state[q] \notin Flying
      BY <1>1, <2>1, NoneInFlight, Parts DEF Patient
    <3>4. state[q] \in {"answered", "failed"}
      BY <3>2, <3>3, Parts DEF Reported, Flying
    <3>5. QED
      BY <1>13, <2>2, <3>4, Parts DEF Responded
  <2>5. QED
    BY <1>10, <2>1, <2>3, <2>4
<1>17. Patient'
  BY <1>1, <1>2, Parts DEF Patient, Types
<1>18. QED
  BY <1>3, <1>10, <1>11, <1>12, <1>14, <1>15, <1>16, <1>17, PartsNext

-----------------------------------------------------------------------------
(* Nothing waits in vain                                                    *)

\* A request moves on, in the same session.
LEMMA OneMoves ==
  ASSUME IInv, Awaited, NEW r \in Requests,
         NEW v \in {"waiting", "resolved", "rejected", "answered", "failed", "stayed"},
         state' = [state EXCEPT ![r] = v], v = "waiting" => session = "attached",
         session' = session \/ (session = "starting" /\ session' = "killed"), holding' => holds' > 0
  PROVE  Awaited'
<1>1. \A q \in Requests : state'[q] = IF q = r THEN v ELSE state[q]
  BY Parts DEF Types
<1>2. v \notin Starting
  BY DEF Starting
<1>3. \A q \in Requests : state'[q] \in Starting => state'[q] = state[q] /\ state[q] \in Starting
  BY <1>1, <1>2
<1>4. InHand'
  <2>1. \A q \in Requests : state'[q] = "waiting" => session' = "attached"
    BY <1>1 DEF Awaited, InHand
  <2>2. \A q \in Requests : state'[q] \in Starting => InStart' \/ Stranded(q)'
    BY <1>3 DEF Awaited, InHand, InStart, Stranded
  <2>3. QED
    BY <2>1, <2>2 DEF InHand
<1>5. QED
  BY <1>3, <1>4 DEF Awaited

\* The requests stay as they are, in the same session.
LEMMA NoneMoves ==
  ASSUME Awaited, UNCHANGED <<state, session>>, holding' => holds' > 0
  PROVE  Awaited'
BY DEF Awaited, InHand, InStart, Stranded

LEMMA HoldStays ==
  ASSUME Awaited, UNCHANGED <<holding, holds>>
  PROVE  holding' => holds' > 0
BY DEF Awaited

\* The answer to a request sets the timer of the hold it starts.
LEMMA AnswerAwaited ==
  ASSUME IInv, Awaited, NEW r \in Requests, NEW ok \in BOOLEAN, Answer(r, ok)
  PROVE  /\ state' = [state EXCEPT ![r] = IF ok THEN "answered" ELSE "failed"]
         /\ holding' => holds' > 0
<1>1. CASE r \in Resumes
  <2>1. /\ state' = [state EXCEPT ![r] = IF ok THEN "answered" ELSE "failed"]
        /\ IF HoldStarts(ok) THEN holding' = TRUE /\ holds' = holds + 1
           ELSE UNCHANGED <<holding, holds>>
    BY <1>1 DEF Answer, EndResume
  <2>2. holds \in Nat
    BY Parts DEF Types
  <2>3. QED
    BY <2>1, <2>2, HoldStays
<1>2. CASE r \notin Resumes
  BY <1>2, HoldStays DEF Answer, hold
<1>3. QED
  BY <1>1, <1>2

LEMMA StartAwaited ==
  ASSUME IInv, Awaited, NEW r \in Requests, Start(r)
  PROVE  Awaited'
<1>1. r \in Starts /\ session = "none" /\ UNCHANGED <<holding, holds>>
  BY DEF Start, hold
<1>2. PICK how \in {"accepting", "connecting", "rejected"} :
        /\ state' = [state EXCEPT ![r] = how]
        /\ session' = IF how = "rejected" THEN "aborted" ELSE "starting"
  BY DEF Start
<1>3. \A q \in Requests : state'[q] = IF q = r THEN how ELSE state[q]
  BY <1>2, Parts DEF Types
<1>4. \A q \in Requests : state[q] # "waiting" /\ state[q] \notin Starting
  BY <1>1 DEF Awaited, InHand, InStart, Stranded
<1>5. \A q \in Requests : state'[q] # "waiting" /\ (state'[q] \in Starting => q = r /\ how # "rejected")
  BY <1>3, <1>4 DEF Starting
<1>6. InHand'
  BY <1>2, <1>5 DEF InHand, InStart
<1>7. QED
  BY <1>1, <1>5, <1>6, HoldStays DEF Awaited

\* A request is answered, and no other waits.
LEMMA NoneIsLeft ==
  ASSUME IInv, Awaited, NEW r \in Requests, NEW v \in {"answered", "failed"}, InStart,
         state[r] \in Starting, state' = [state EXCEPT ![r] = v], holding' => holds' > 0
  PROVE  Awaited'
<1>1. \A q \in Requests : state'[q] = IF q = r THEN v ELSE state[q]
  BY Parts DEF Types
<1>2. \A q \in Requests : state[q] # "waiting" /\ (state[q] \in Starting => q = r)
  BY DEF Awaited, InHand, InStart
<1>3. \A q \in Requests : state'[q] # "waiting" /\ state'[q] \notin Starting
  BY <1>1, <1>2 DEF Starting
<1>4. QED
  BY <1>3 DEF Awaited, InHand

LEMMA ReachedAwaited ==
  ASSUME IInv, Awaited, NEW r \in Requests, Reached(r)
  PROVE  Awaited'
<1>1. InStart /\ state[r] \in Starting
  BY DEF Reached, Connected, GiveUp, Started, StartLost, Starting
<1>2. CASE Succeed(r)
  <2>1. state' = [state EXCEPT ![r] = "answered"] /\ UNCHANGED <<holding, holds>>
    BY <1>2 DEF Succeed, hold
  <2>2. QED
    BY <1>1, <2>1, NoneIsLeft, HoldStays
<1>3. CASE Answer(r, FALSE)
  <2>1. state' = [state EXCEPT ![r] = "failed"] /\ (holding' => holds' > 0)
    BY <1>3, AnswerAwaited
  <2>2. QED
    BY <1>1, <2>1, NoneIsLeft
<1>4. CASE Connected(r)
  <2>1. /\ state' = [state EXCEPT ![r] = "entering"] /\ session' = session
        /\ UNCHANGED <<holding, holds>>
    BY <1>4 DEF Connected, hold
  <2>2. \A q \in Requests : state'[q] = IF q = r THEN "entering" ELSE state[q]
    BY <2>1, Parts DEF Types
  <2>3. \A q \in Requests : state[q] # "waiting" /\ (state[q] \in Starting => q = r)
    BY <1>1 DEF Awaited, InHand, InStart
  <2>4. \A q \in Requests : state'[q] # "waiting" /\ (state'[q] \in Starting => q = r)
    BY <2>2, <2>3
  <2>5. InHand' /\ r \in Starts
    BY <1>1, <2>1, <2>4 DEF Awaited, InHand, InStart
  <2>6. QED
    BY <2>1, <2>4, <2>5, HoldStays DEF Awaited
<1>5. CASE StartLost(r) /\ UNCHANGED <<state, hold, out>>
  <2>1. /\ state' = state /\ UNCHANGED <<holding, holds>> /\ session' = "aborted"
        /\ state[r] = "accepting" \/ (state[r] = "entering" /\ r \in Attaches)
    <3>1. state[r] = "accepting" \/ state[r] = "entering"
      BY <1>5 DEF StartLost
    <3>2. state[r] = "accepting" \/ r \in Attaches
      <4>1. SUFFICES ASSUME state[r] # "accepting", r \notin Attaches PROVE FALSE
        OBVIOUS
      <4>2. Succeed(r) \/ Answer(r, FALSE)
        BY <1>5, <4>1 DEF StartLost
      <4>3. state'[r] \in {"answered", "failed"}
        BY <4>2, AnswerAwaited, Parts DEF Succeed, Types
      <4>4. QED
        BY <1>5, <3>1, <4>3
    <3>3. QED
      BY <1>5, <3>1, <3>2 DEF StartLost, hold
  <2>2. \A q \in Requests : state[q] # "waiting" /\ (state[q] \in Starting => q = r)
    BY <1>1 DEF Awaited, InHand, InStart
  <2>3. InHand'
    BY <2>1, <2>2 DEF InHand, Stranded
  <2>4. QED
    BY <2>1, <2>3, HoldStays DEF Awaited
<1>6. QED
  BY <1>2, <1>3, <1>4, <1>5 DEF Reached, GiveUp, Started, StartLost

\* The abort leaves no request with the session.
LEMMA AbortAwaited ==
  ASSUME IInv, Awaited, Abort
  PROVE  Awaited'
<1>1. session = "attached" /\ session' = "aborted" /\ UNCHANGED <<holding, holds>>
  BY DEF Abort
<1>2. state' = [q \in Requests |-> IF q \in Waiting THEN "rejected" ELSE state[q]]
  BY DEF Abort, RejectWaiting
<1>3. \A q \in Requests : state'[q] # "waiting" /\ state'[q] \notin Starting
  BY <1>1, <1>2 DEF Awaited, InHand, Waiting, InStart, Stranded, Starting
<1>4. InHand'
  BY <1>3 DEF InHand
<1>5. QED
  BY <1>1, <1>3, <1>4, HoldStays DEF Awaited

\* The hold is over with the first of its timers.
LEMMA HoldOverAwaited ==
  ASSUME Awaited, HoldOver
  PROVE  Awaited'
<1>1. UNCHANGED <<state, session>> /\ holding' = FALSE
  BY DEF HoldOver
<1>2. QED
  BY <1>1, NoneMoves

LEMMA RequestAwaited ==
  ASSUME IInv, Awaited, NEW r \in Requests,
         \/ Forward(r) \/ Start(r) \/ Reached(r) \/ Disconnect(r) \/ Continuation(r) \/ Engine(r)
         \/ \E stopOnEntry \in BOOLEAN : Configure(r, stopOnEntry)
  PROVE  Awaited'
<1>1. CASE Forward(r)
  <2>1. /\ state' = [state EXCEPT ![r] = IF session = "attached" THEN "waiting" ELSE "rejected"]
        /\ session' = session /\ UNCHANGED <<holding, holds>>
    BY <1>1 DEF Forward
  <2>2. CASE session = "attached"
    BY <2>1, <2>2, OneMoves, HoldStays
  <2>3. CASE session # "attached"
    BY <2>1, <2>3, OneMoves, HoldStays
  <2>4. QED
    BY <2>2, <2>3
<1>2. CASE Disconnect(r)
  <2>1. /\ state' = [state EXCEPT ![r] = "answered"] /\ UNCHANGED <<holding, holds>>
        /\ session' = session \/ (session = "starting" /\ session' = "killed")
    BY <1>2 DEF Disconnect, LaunchAt, hold
  <2>2. QED
    BY <2>1, OneMoves, HoldStays
<1>3. CASE Continuation(r)
  <2>1. PICK ok \in BOOLEAN : ok = (state[r] = "resolved")
    OBVIOUS
  <2>2. Answer(r, ok) /\ session' = session
    BY <1>3, <2>1 DEF Continuation
  <2>3. /\ state' = [state EXCEPT ![r] = IF ok THEN "answered" ELSE "failed"]
        /\ holding' => holds' > 0
    BY <2>2, AnswerAwaited
  <2>4. CASE ok
    BY <2>2, <2>3, <2>4, OneMoves
  <2>5. CASE ~ok
    BY <2>2, <2>3, <2>5, OneMoves
  <2>6. QED
    BY <2>4, <2>5
<1>4. CASE EngineAnswers(r)
  <2>1. PICK how \in {"resolved", "rejected"} : state' = [state EXCEPT ![r] = how]
    BY <1>4 DEF EngineAnswers
  <2>2. session' = session /\ UNCHANGED <<holding, holds>>
    BY <1>4 DEF EngineAnswers, hold
  <2>3. QED
    BY <2>1, <2>2, OneMoves, HoldStays
<1>5. CASE EngineStops(r)
  <2>1. UNCHANGED <<state, session, holding, holds>>
    BY <1>5 DEF EngineStops
  <2>2. QED
    BY <2>1, NoneMoves, HoldStays
<1>6. ASSUME NEW stopOnEntry \in BOOLEAN, Configure(r, stopOnEntry) PROVE Awaited'
  <2>1. PICK v \in {"stayed", "answered", "failed"} : state' = [state EXCEPT ![r] = v]
    BY <1>6 DEF Configure
  <2>2. session' = session /\ UNCHANGED <<holding, holds>>
    BY <1>6 DEF Configure, hold
  <2>3. QED
    BY <2>1, <2>2, OneMoves, HoldStays
<1>7. QED
  BY <1>1, <1>2, <1>3, <1>4, <1>5, <1>6, StartAwaited, ReachedAwaited DEF Engine

LEMMA AwaitedKept == IInv /\ Awaited /\ [Next]_vars => Awaited'
<1> SUFFICES ASSUME IInv, Awaited, [Next]_vars PROVE Awaited'
  OBVIOUS
<1>1. CASE EngineTerminates
  <2>1. UNCHANGED <<state, session, holding, holds>>
    BY <1>1 DEF EngineTerminates
  <2>2. QED
    BY <2>1, NoneMoves, HoldStays
<1>2. CASE UNCHANGED vars
  <2>1. UNCHANGED <<state, session, holding, holds>>
    BY <1>2 DEF vars, hold
  <2>2. QED
    BY <2>1, NoneMoves, HoldStays
<1>3. QED
  BY <1>1, <1>2, RequestAwaited, AbortAwaited, HoldOverAwaited DEF Next

-----------------------------------------------------------------------------
(* The theorems                                                             *)

LEMMA InitEstablishes == Init => IInv
<1> SUFFICES ASSUME Init PROVE IInv
  OBVIOUS
<1>1. \A m : ~Sent(m)
  BY DEF Init, Sent
<1>2. InFlight = {}
  BY DEF Init, InFlight, Requests
<1>3. Types
  <2>1. state \in [Requests -> {"unsent", "accepting", "connecting", "entering", "waiting",
                                "resolved", "rejected", "answered", "failed", "stayed"}]
    BY DEF Init
  <2>2. deferred \in Seq(StateEvents) /\ out \in Seq(Messages) /\ arrived \in Seq(StateEvents)
    BY DEF Init
  <2>3. QED
    BY <2>1, <2>2 DEF Init, Types
<1>4. Count
  BY <1>2, FS_EmptySet DEF Init, Count
<1>5. Once
  BY DEF Init, Once
<1>6. Order
  BY DEF Init, Order, Seen
<1>7. AnswerFirst
  BY <1>1 DEF AnswerFirst
<1>8. Responded
  BY <1>1 DEF Init, Responded
<1>9. Announced
  BY <1>1 DEF Announced
<1>10. Reported /\ Kept /\ Patient
  BY DEF Init, Reported, Kept, Patient
<1>11. QED
  BY <1>3, <1>4, <1>5, <1>6, <1>7, <1>8, <1>9, <1>10, Parts

LEMMA NextKeeps == IInv /\ Awaited /\ [Next]_vars => IInv'
<1> SUFFICES ASSUME IInv, Awaited, [Next]_vars PROVE IInv'
  OBVIOUS
<1>1. ASSUME NEW r \in Requests, Forward(r) PROVE IInv'
  BY <1>1, ForwardKeeps
<1>2. ASSUME NEW r \in Requests, Start(r) PROVE IInv'
  BY <1>2, StartKeeps
<1>3. ASSUME NEW r \in Requests, Reached(r) PROVE IInv'
  BY <1>3, ReachedKeeps
<1>4. ASSUME NEW r \in Requests, Disconnect(r) PROVE IInv'
  BY <1>4, DisconnectKeeps
<1>5. ASSUME NEW r \in Requests, Continuation(r) PROVE IInv'
  BY <1>5, ContinuationKeeps
<1>6. ASSUME NEW r \in Requests, Engine(r) PROVE IInv'
  BY <1>6, EngineAnswersKeeps, EngineStopsKeeps DEF Engine
<1>7. ASSUME NEW r \in Requests, NEW stopOnEntry \in BOOLEAN, Configure(r, stopOnEntry) PROVE IInv'
  BY <1>7, ConfigureKeeps
<1>8. CASE EngineTerminates
  BY <1>8, EngineTerminatesKeeps
<1>9. CASE Abort
  BY <1>9, AbortKeeps
<1>10. CASE HoldOver
  BY <1>10, HoldOverKeeps
<1>11. CASE UNCHANGED vars
  <2>1. /\ UNCHANGED <<state, session, resuming, holding, deferred, holds>>
        /\ UNCHANGED <<terminated, out, arrived, caused, hasty>>
    BY <1>11 DEF vars, hold
  <2>2. Once' /\ Order' /\ \A m : Sent(m)' <=> Sent(m)
    BY <2>1, Quiet
  <2>3. Types' /\ Count' /\ Kept' /\ Reported'
    BY <2>1, Parts DEF Types, Count, InFlight, Kept, Held, Reported
  <2>4. AnswerFirst' /\ Responded' /\ Announced'
    BY <2>1, <2>2, Parts DEF AnswerFirst, Responded, Announced
  <2>5. Patient'
    BY <2>1, <2>2, PatientStays
  <2>6. QED
    BY <2>2, <2>3, <2>4, <2>5, PartsNext
<1>12. QED
  BY <1>1, <1>2, <1>3, <1>4, <1>5, <1>6, <1>7, <1>8, <1>9, <1>10, <1>11 DEF Next

\* The inductive invariant of the adapter (vscode-dap.js 65-134).
THEOREM Invariance == Spec => [](IInv /\ Awaited)
<1>1. Init => Awaited
  BY DEF Init, Awaited, InHand, Starting
<1>2. QED
  BY <1>1, InitEstablishes, NextKeeps, AwaitedKept, PTL DEF Spec

\* #resuming is the number of resume requests without a response, and no message is
\* sent to the client twice (vscode-dap.js 100-116), for any requests; the refusal
\* that follows the response to a configurationDone on a closed connection is a
\* message of its own (260-262).
THEOREM TypeCorrect == Spec => []TypeOK
<1>1. IInv => TypeOK
  BY DEF IInv
<1>2. QED
  BY <1>1, Invariance, PTL

\* State events are neither lost, repeated nor reordered by being held back, and
\* a client that waits for one stop before it resumes again has the response to a
\* resume before the stop it causes (vscode-dap.js 91-116).
THEOREM OrderCorrect == Spec => []EventsInOrder
<1>1. IInv => EventsInOrder
  BY DEF IInv
<1>2. QED
  BY <1>1, Invariance, PTL

\* What is held back waits for a resume in flight or for the timer of a hold.
LEMMA HeldIsAwaited ==
  ASSUME IInv, Awaited
  PROVE  NoneWaitsInVain
<1>1. resuming > 0 => InFlight # {}
  BY Parts, FS_EmptySet DEF Count
<1>2. deferred # <<>> => resuming > 0 \/ holding
  BY Parts DEF Kept, Held
<1>3. QED
  BY <1>1, <1>2 DEF NoneWaitsInVain, Awaited

\* At any moment of any session, whether the engine answered, failed or was never
\* there: a request that has no response waits on a session that starts or runs, is
\* settled, or is a start nobody will come for (a listener whose engine is gone, an
\* attach whose engine went before its entry stop), and a state event is held back
\* only while a resume or the timer of a hold will let it out (vscode-dap.js 91-116,
\* 137-263; debugger.js 389-425; qjs-debugger.js 555-569).
THEOREM NoneInVain == Spec => []NoneWaitsInVain
BY HeldIsAwaited, Invariance, PTL
=============================================================================
