------------------------ MODULE ServerAdapter_proofs ------------------------
(***************************************************************************)
(* Theorems about ServerAdapter, for any clients and any bounds.  The first    *)
(* are of engine connections whose close() calls onclose before it returns     *)
(* (SyncClose) and false on others (the run of MCServer_async.cfg); what        *)
(* clients know of their promises (PromisesKept) is of any connections.         *)
(***************************************************************************)
EXTENDS ServerAdapter, FiniteSetTheorems, TLAPS

USE BoundsAssumption, NoneAssumption

-----------------------------------------------------------------------------
(* The invariant in three parts, by the variables that move together.       *)

LinkPart ==
  /\ conn \in [Conns -> {"new", "dialling", "failed", "open", "closing", "closed"}]
  /\ engine \in Conns \cup {None} /\ session \in Conns \cup {None}
  /\ lost \in [Conns -> Nat]
  /\ OneEngine
  /\ \A c \in Conns : conn[c] # "closing"

RequestPart ==
  /\ seq \in [Conns -> 0 .. MaxReqs]
  /\ promise \in [Reqs -> {"none", "waiting", "answered", "failed", "aborted"}]
  /\ state \in [Reqs -> {"unsent", "sent", "pending", "resolved", "rejected", "replied", "lost"}]
  /\ owner \in [Reqs -> Ports \cup {None}]
  /\ sentTo \in [Reqs -> Conns \cup {None}]
  /\ number \in [Reqs -> Seqs \cup {0}]
  /\ answer \in [Reqs -> Conns \cup {None}]
  /\ asked \in [Conns -> SUBSET Seqs]
  /\ \A q, r \in Reqs : (q # r /\ state[q] = "pending" /\ state[r] = "pending" /\ sentTo[q] = sentTo[r])
                           => number[q] # number[r]
  /\ \A r \in Reqs : state[r] = "pending" => number[r] \in asked[sentTo[r]]
  /\ SettledByItsEngine
  /\ \A r \in Reqs : state[r] = "resolved" => answer[r] # None
  /\ UnsentIsBlank /\ CountedOnce

ClientPart ==
  /\ ports \subseteq entries /\ entries \subseteq Ports /\ broken \subseteq Ports
  /\ entries \ broken \subseteq online /\ online \subseteq Ports

LEMMA Parts == IInv <=> LinkPart /\ RequestPart /\ ClientPart /\ InFlightHere
BY DEF IInv, TypeOK, LinkPart, RequestPart, ClientPart

LEMMA PartsNext == LinkPart' /\ RequestPart' /\ ClientPart' /\ InFlightHere' => IInv'
BY DEF IInv, TypeOK, LinkPart, RequestPart, ClientPart

\* No request is touched; the engine is the same, or nothing was in flight.
LEMMA RequestsUntouched ==
  ASSUME IInv, UNCHANGED <<requests, seq, asked>>
  PROVE  /\ RequestPart'
         /\ (engine' = engine \/ engine = None) => InFlightHere'
<1>1. CountedOnce'
  BY DEF IInv, CountedOnce, requests
<1>2. QED
  BY <1>1, Parts DEF RequestPart, InFlightHere, SettledByItsEngine, UnsentIsBlank, requests

\* The end of the engine settles all that is in flight, and settles it right.
LEMMA AbortSettles ==
  ASSUME IInv, engine # None, AbortSession(session, engine),
         UNCHANGED <<seq, promise, owner, sentTo, number, asked>>
  PROVE  RequestPart' /\ InFlightHere'
<1>1. engine \in Conns /\ session = engine
  BY DEF IInv, TypeOK, OneEngine
<1>2. \A r \in Reqs : r \in Pending(session) <=> state[r] = "pending"
  BY <1>1 DEF Pending, IInv, InFlightHere
<1>3. /\ state' = [r \in Reqs |-> IF r \in Pending(session) THEN "rejected" ELSE state[r]]
      /\ answer' = [r \in Reqs |-> IF r \in Pending(session) THEN engine ELSE answer[r]]
  BY DEF AbortSession
<1>4. \A r \in Reqs : /\ state'[r] = IF state[r] = "pending" THEN "rejected" ELSE state[r]
                      /\ answer'[r] = IF state[r] = "pending" THEN engine ELSE answer[r]
  BY <1>2, <1>3
<1>5. CountedOnce'
  BY DEF IInv, CountedOnce
<1>6. /\ state' \in [Reqs -> {"unsent", "sent", "pending", "resolved", "rejected", "replied", "lost"}]
      /\ answer' \in [Reqs -> Conns \cup {None}]
  BY <1>1, <1>3, Parts DEF RequestPart
<1>7. SettledByItsEngine'
  BY <1>1, <1>4, <1>6 DEF IInv, TypeOK, SettledByItsEngine, InFlightHere
<1>8. UnsentIsBlank'
  BY <1>4 DEF IInv, UnsentIsBlank
<1>9. InFlightHere' /\ \A r \in Reqs : state'[r] # "pending"
  BY <1>4 DEF InFlightHere
<1>10. \A r \in Reqs : state'[r] = "resolved" => answer'[r] # None
  BY <1>4 DEF IInv
<1>11. QED
  BY <1>5, <1>6, <1>7, <1>8, <1>9, <1>10, Parts DEF RequestPart

-----------------------------------------------------------------------------
(* Engines                                                                  *)

\* A connection that goes up, when there is no other engine.
LEMMA GoesUp ==
  ASSUME LinkPart, engine = None, NEW c \in Conns, conn[c] \in {"new", "dialling"},
         conn' = [conn EXCEPT ![c] = "open"], engine' = c, session' = c, lost' = lost
  PROVE  LinkPart'
<1>1. \A d \in Conns : conn'[d] = IF d = c THEN "open" ELSE conn[d]
  BY DEF LinkPart
<1>2. \A d \in Conns : conn[d] # "open"
  BY DEF LinkPart, OneEngine
<1>3. OneEngine'
  BY <1>1, <1>2 DEF LinkPart, OneEngine
<1>4. QED
  BY <1>1, <1>3 DEF LinkPart

\* The engine's connection goes down, and no other takes its place.
LEMMA GoesDown ==
  ASSUME LinkPart, NEW c \in Conns, engine = c,
         conn' = [conn EXCEPT ![c] = "closed"], lost' = [lost EXCEPT ![c] = @ + 1],
         engine' = None, session' \in {session, None}
  PROVE  LinkPart'
<1>1. \A d \in Conns : conn'[d] = IF d = c THEN "closed" ELSE conn[d]
  BY DEF LinkPart
<1>2. conn[c] = "open" /\ lost[c] = 0
  BY DEF LinkPart, OneEngine
<1>3. \A d \in Conns : lost'[d] = IF d = c THEN 1 ELSE lost[d]
  BY <1>2 DEF LinkPart
<1>4. lost' \in [Conns -> Nat]
  BY <1>2 DEF LinkPart
<1>5. OneEngine'
  BY <1>1, <1>2, <1>3 DEF LinkPart, OneEngine
<1>6. QED
  BY <1>1, <1>4, <1>5 DEF LinkPart

\* Another connection takes the engine's place.
LEMMA Replaces ==
  ASSUME LinkPart, NEW b \in Conns, engine = b, NEW c \in Conns, conn[c] \in {"new", "dialling"},
         conn' = [conn EXCEPT ![c] = "open", ![b] = "closed"], lost' = [lost EXCEPT ![b] = @ + 1],
         engine' = c, session' = c
  PROVE  LinkPart'
<1>1. conn[b] = "open" /\ lost[b] = 0 /\ b # c
  BY DEF LinkPart, OneEngine
<1>2. \A d \in Conns : conn'[d] = IF d = c THEN "open" ELSE IF d = b THEN "closed" ELSE conn[d]
  BY <1>1 DEF LinkPart
<1>3. \A d \in Conns : lost'[d] = IF d = b THEN 1 ELSE lost[d]
  BY <1>1 DEF LinkPart
<1>4. lost' \in [Conns -> Nat] /\ \A d \in Conns : d # b => conn[d] # "open"
  BY <1>1 DEF LinkPart, OneEngine
<1>5. OneEngine'
  BY <1>1, <1>2, <1>3, <1>4 DEF LinkPart, OneEngine
<1>6. QED
  BY <1>1, <1>2, <1>4, <1>5 DEF LinkPart

\* detachEngine(), by whomever it is called.
LEMMA DetachedKeeps ==
  ASSUME SyncClose, IInv, Detached, UNCHANGED <<seq, promise, owner, sentTo, number, asked>>
  PROVE  LinkPart' /\ RequestPart' /\ InFlightHere'
<1>1. PICK c \in Conns : engine = c
  BY DEF Detached, IInv, TypeOK
<1>2. LinkPart'
  BY <1>1, Parts, GoesDown DEF Detached
<1>3. QED
  BY <1>2, AbortSettles DEF Detached

-----------------------------------------------------------------------------
(* Requests                                                                 *)

\* A response settles the request its own engine was asked, and no other.
LEMMA ResponseKeeps ==
  ASSUME IInv, NEW c \in Conns, NEW s \in Seqs, NEW how \in {"resolved", "rejected"},
         ResponseFrom(c, s, how)
  PROVE  RequestPart' /\ InFlightHere'
<1>1. engine = c /\ session = c /\ engine' = engine
  BY DEF ResponseFrom, IInv, OneEngine, links
<1>2. /\ asked' = [asked EXCEPT ![c] = @ \ {s}]
      /\ UNCHANGED <<seq, promise, owner, sentTo, number>>
  BY DEF ResponseFrom
<1>3. \A r \in Reqs : r \in Pending(session) /\ number[r] = s <=> state[r] = "pending" /\ number[r] = s
  BY <1>1 DEF Pending, IInv, InFlightHere
<1>4. /\ state' = [r \in Reqs |-> IF r \in Pending(session) /\ number[r] = s THEN how ELSE state[r]]
      /\ answer' = [r \in Reqs |-> IF r \in Pending(session) /\ number[r] = s THEN c ELSE answer[r]]
  BY DEF ResponseFrom
<1>5. \A r \in Reqs : /\ state'[r] = IF state[r] = "pending" /\ number[r] = s THEN how ELSE state[r]
                      /\ answer'[r] = IF state[r] = "pending" /\ number[r] = s THEN c ELSE answer[r]
  BY <1>3, <1>4
<1>6. /\ state' \in [Reqs -> {"unsent", "sent", "pending", "resolved", "rejected", "replied", "lost"}]
      /\ answer' \in [Reqs -> Conns \cup {None}]
      /\ asked' \in [Conns -> SUBSET Seqs]
  BY <1>2, <1>4, Parts DEF RequestPart
<1>7. \A r \in Reqs : state'[r] = "pending" => number'[r] \in asked'[sentTo'[r]]
  <2> SUFFICES ASSUME NEW r \in Reqs, state'[r] = "pending" PROVE number[r] \in asked'[sentTo[r]]
    BY <1>2
  <2>1. state[r] = "pending" /\ number[r] # s
    BY <1>5
  <2>2. sentTo[r] = c /\ number[r] \in asked[c]
    BY <1>1, <2>1 DEF IInv, TypeOK, InFlightHere
  <2>3. QED
    BY <1>2, <2>1, <2>2, Parts DEF RequestPart
<1>8. CountedOnce'
  BY <1>2 DEF IInv, CountedOnce
<1>9. SettledByItsEngine' /\ \A r \in Reqs : state'[r] = "resolved" => answer'[r] # None
  BY <1>1, <1>2, <1>5 DEF IInv, SettledByItsEngine, InFlightHere
<1>10. UnsentIsBlank' /\ InFlightHere'
  BY <1>1, <1>2, <1>5 DEF IInv, UnsentIsBlank, InFlightHere
<1>11. \A q, r \in Reqs :
          (q # r /\ state'[q] = "pending" /\ state'[r] = "pending" /\ sentTo'[q] = sentTo'[r])
             => number'[q] # number'[r]
  BY <1>2, <1>5 DEF IInv, TypeOK
<1>12. QED
  BY <1>2, <1>6, <1>7, <1>8, <1>9, <1>10, <1>11, Parts DEF RequestPart

\* A session never has more numbers than there are requests: the next one is
\* a number too, and the count goes up by the request it goes to.
LEMMA NextNumber ==
  ASSUME IInv, NEW c \in Conns, NEW r \in Reqs, sentTo[r] = None, sentTo' = [sentTo EXCEPT ![r] = c]
  PROVE  /\ seq[c] + 1 \in Seqs
         /\ Cardinality({q \in Reqs : sentTo'[q] = c}) = seq[c] + 1
         /\ \A d \in Conns : d # c => {q \in Reqs : sentTo'[q] = d} = {q \in Reqs : sentTo[q] = d}
<1> DEFINE Of == {q \in Reqs : sentTo[q] = c}
<1>1. \A q \in Reqs : sentTo'[q] = IF q = r THEN c ELSE sentTo[q]
  BY DEF IInv, TypeOK
<1>2. IsFiniteSet(Reqs) /\ Cardinality(Reqs) = MaxReqs
  BY FS_Interval DEF Reqs
<1>3. IsFiniteSet(Of) /\ r \notin Of
  BY <1>2, FS_Subset
<1>4. Cardinality(Of) = seq[c] /\ seq[c] \in Nat
  BY DEF IInv, TypeOK, CountedOnce
<1>5. {q \in Reqs : sentTo'[q] = c} = Of \cup {r}
  BY <1>1
<1>6. Cardinality(Of \cup {r}) = seq[c] + 1
  BY <1>3, <1>4, FS_AddElement
<1>7. Cardinality(Of \cup {r}) <= MaxReqs
  <2>1. Of \cup {r} \subseteq Reqs
    OBVIOUS
  <2>2. QED
    BY <1>2, <2>1, FS_Subset
<1>8. QED
  BY <1>1, <1>4, <1>5, <1>6, <1>7 DEF Seqs

\* A debug request, whatever becomes of it.
LEMMA RequestKeeps ==
  ASSUME IInv, NEW r \in Reqs, ClientRequest(r)
  PROVE  RequestPart' /\ InFlightHere'
<1>1. state[r] = "sent" /\ UNCHANGED <<conn, engine, session, promise, owner>>
  BY DEF ClientRequest, links
<1>2. sentTo[r] = None /\ answer[r] = None
  BY <1>1 DEF IInv, UnsentIsBlank
<1>3. CASE session = None
  <2>1. state' = [state EXCEPT ![r] = "rejected"] /\ UNCHANGED <<seq, sentTo, number, answer, asked>>
    BY <1>3 DEF ClientRequest
  <2>2. \A q \in Reqs : state'[q] = IF q = r THEN "rejected" ELSE state[q]
    BY <2>1 DEF IInv, TypeOK
  <2>3. CountedOnce'
    BY <2>1 DEF IInv, CountedOnce
  <2>4. SettledByItsEngine' /\ UnsentIsBlank' /\ InFlightHere'
    BY <1>1, <2>1, <2>2 DEF IInv, SettledByItsEngine, UnsentIsBlank, InFlightHere
  <2>5. QED
    BY <1>1, <2>1, <2>2, <2>3, <2>4, Parts DEF RequestPart
<1>4. CASE session # None
  <2>1. PICK c \in Conns : session = c
    BY <1>4 DEF IInv, TypeOK
  <2>2. PICK s : s = seq[c] + 1
    OBVIOUS
  <2>3. /\ seq' = [seq EXCEPT ![c] = @ + 1]
        /\ sentTo' = [sentTo EXCEPT ![r] = c] /\ number' = [number EXCEPT ![r] = s]
        /\ \/ /\ conn[c] = "open"
              /\ state' = [state EXCEPT ![r] = "pending"]
              /\ asked' = [asked EXCEPT ![c] = @ \cup {s}] /\ answer' = answer
           \/ /\ conn[c] # "open"
              /\ state' = [state EXCEPT ![r] = "rejected"]
              /\ answer' = [answer EXCEPT ![r] = c] /\ asked' = asked
    BY <1>4, <2>1, <2>2 DEF ClientRequest, Number
  <2>4. /\ s \in Seqs
        /\ Cardinality({q \in Reqs : sentTo'[q] = c}) = s
        /\ \A d \in Conns : d # c => {q \in Reqs : sentTo'[q] = d} = {q \in Reqs : sentTo[q] = d}
    BY <1>2, <2>2, <2>3, NextNumber
  <2>5. /\ \A q \in Reqs : sentTo'[q] = IF q = r THEN c ELSE sentTo[q]
        /\ \A q \in Reqs : number'[q] = IF q = r THEN s ELSE number[q]
        /\ \A d \in Conns : seq'[d] = IF d = c THEN s ELSE seq[d]
    BY <2>2, <2>3 DEF IInv, TypeOK
  <2>6. /\ seq' \in [Conns -> 0 .. MaxReqs]
        /\ sentTo' \in [Reqs -> Conns \cup {None}] /\ number' \in [Reqs -> Seqs \cup {0}]
    BY <2>2, <2>3, <2>4, Parts DEF RequestPart, Seqs
  <2>7. CountedOnce'
    <3>1. \A d \in Conns : seq'[d] = Cardinality({q \in Reqs : sentTo'[q] = d})
      BY <2>4, <2>5 DEF IInv, CountedOnce
    <3>2. ASSUME NEW q \in Reqs, sentTo'[q] # None PROVE number'[q] <= seq'[sentTo'[q]]
      <4>1. CASE q = r
        BY <2>4, <2>5, <4>1 DEF Seqs
      <4>2. CASE q # r /\ sentTo[q] = c
        <5>1. number[q] <= seq[c] /\ number[q] \in Nat /\ seq[c] \in Nat
          BY <4>2, Parts DEF IInv, CountedOnce, RequestPart, Seqs
        <5>2. QED
          BY <2>2, <2>5, <4>2, <5>1
      <4>3. CASE q # r /\ sentTo[q] # c
        BY <2>5, <3>2, <4>3 DEF IInv, TypeOK, CountedOnce
      <4>4. QED
        BY <4>1, <4>2, <4>3
    <3>3. QED
      BY <3>1, <3>2 DEF CountedOnce
  <2>8. ASSUME NEW q \in Reqs, q # r, sentTo[q] = c PROVE number[q] # s
    <3>1. number[q] <= seq[c] /\ number[q] \in Nat /\ seq[c] \in Nat
      BY <2>8, Parts DEF IInv, CountedOnce, RequestPart, Seqs
    <3>2. QED
      BY <2>2, <3>1
  <2>9. CASE conn[c] = "open"
    <3>1. engine = c
      BY <2>9 DEF IInv, OneEngine
    <3>2. \A q \in Reqs : state'[q] = IF q = r THEN "pending" ELSE state[q]
      BY <2>3, <2>9 DEF IInv, TypeOK
    <3>3. \A d \in Conns : asked'[d] = IF d = c THEN asked[d] \cup {s} ELSE asked[d]
      BY <2>3, <2>9 DEF IInv, TypeOK
    <3>4. /\ state' \in [Reqs -> {"unsent", "sent", "pending", "resolved", "rejected", "replied", "lost"}]
          /\ asked' \in [Conns -> SUBSET Seqs] /\ answer' = answer
      BY <2>3, <2>4, <2>9, Parts DEF RequestPart
    <3>5. \A q, p \in Reqs :
            (q # p /\ state'[q] = "pending" /\ state'[p] = "pending" /\ sentTo'[q] = sentTo'[p])
               => number'[q] # number'[p]
      BY <2>5, <2>8, <3>2 DEF IInv, TypeOK
    <3>6. \A q \in Reqs : state'[q] = "pending" => number'[q] \in asked'[sentTo'[q]]
      BY <2>5, <3>1, <3>2, <3>3 DEF IInv, TypeOK, InFlightHere
    <3>7. SettledByItsEngine' /\ \A q \in Reqs : state'[q] = "resolved" => answer'[q] # None
      BY <1>1, <1>2, <2>5, <3>2, <3>4 DEF IInv, SettledByItsEngine
    <3>8. UnsentIsBlank' /\ InFlightHere'
      BY <1>1, <2>1, <2>5, <3>1, <3>2, <3>4 DEF IInv, UnsentIsBlank, InFlightHere
    <3>9. QED
      BY <1>1, <2>6, <2>7, <3>4, <3>5, <3>6, <3>7, <3>8, Parts DEF RequestPart
  <2>10. CASE conn[c] # "open"
    <3>1. /\ \A q \in Reqs : state'[q] = IF q = r THEN "rejected" ELSE state[q]
          /\ \A q \in Reqs : answer'[q] = IF q = r THEN c ELSE answer[q]
          /\ asked' = asked
      BY <2>3, <2>10 DEF IInv, TypeOK
    <3>2. /\ state' \in [Reqs -> {"unsent", "sent", "pending", "resolved", "rejected", "replied", "lost"}]
          /\ answer' \in [Reqs -> Conns \cup {None}]
      BY <2>3, <2>10, Parts DEF RequestPart
    <3>3. \A q, p \in Reqs :
            (q # p /\ state'[q] = "pending" /\ state'[p] = "pending" /\ sentTo'[q] = sentTo'[p])
               => number'[q] # number'[p]
      BY <2>5, <3>1 DEF IInv, TypeOK
    <3>4. \A q \in Reqs : state'[q] = "pending" => number'[q] \in asked'[sentTo'[q]]
      BY <2>5, <3>1 DEF IInv, TypeOK
    <3>5. SettledByItsEngine' /\ \A q \in Reqs : state'[q] = "resolved" => answer'[q] # None
      BY <1>1, <2>5, <3>1 DEF IInv, SettledByItsEngine
    <3>6. UnsentIsBlank' /\ InFlightHere'
      BY <1>1, <2>5, <3>1 DEF IInv, UnsentIsBlank, InFlightHere
    <3>7. QED
      BY <1>1, <2>6, <2>7, <3>1, <3>2, <3>3, <3>4, <3>5, <3>6, Parts DEF RequestPart
  <2>11. QED
    BY <2>9, <2>10
<1>5. QED
  BY <1>3, <1>4

\* A step that moves one request on, and nothing in flight, keeps the rest.
LEMMA MovedOn ==
  ASSUME IInv, NEW r \in Reqs, state[r] # "pending",
         NEW st \in {"sent", "replied", "lost"}, st = "sent" => state[r] = "unsent",
         state' = [state EXCEPT ![r] = st],
         UNCHANGED <<engine, seq, sentTo, number, answer, asked>>,
         promise' \in [Reqs -> {"none", "waiting", "answered", "failed", "aborted"}],
         owner' \in [Reqs -> Ports \cup {None}],
         \A q \in Reqs : promise'[q] = "answered" => answer[q] # None
  PROVE  RequestPart' /\ InFlightHere'
<1>1. \A q \in Reqs : state'[q] = IF q = r THEN st ELSE state[q]
  BY DEF IInv, TypeOK
<1>2. state' \in [Reqs -> {"unsent", "sent", "pending", "resolved", "rejected", "replied", "lost"}]
  BY DEF IInv, TypeOK
<1>3. CountedOnce'
  BY DEF IInv, CountedOnce
<1>4. SettledByItsEngine' /\ UnsentIsBlank' /\ InFlightHere'
  BY <1>1 DEF IInv, SettledByItsEngine, UnsentIsBlank, InFlightHere
<1>5. QED
  BY <1>1, <1>2, <1>3, <1>4, Parts DEF RequestPart

LEMMA StepKeepsIInv ==
  ASSUME SyncClose, IInv, [Next]_vars
  PROVE  IInv'
<1> USE DEF links, requests, clients
<1>0. LinkPart /\ RequestPart /\ ClientPart /\ InFlightHere
  BY Parts
<1>1. ASSUME NEW c \in Conns, ConnectionEnds(c) PROVE IInv'
  <2>1. conn[c] = "open" /\ engine = c /\ session = c
    BY <1>1, <1>0 DEF ConnectionEnds, LinkPart, OneEngine
  <2>2. LinkPart'
    BY <1>0, <1>1, <2>1, GoesDown DEF ConnectionEnds, OnClose, TellClients
  <2>3. RequestPart' /\ InFlightHere'
    BY <1>1, <2>1, AbortSettles DEF ConnectionEnds, OnClose, AbortOnClose
  <2>4. ClientPart'
    BY <1>0, <1>1 DEF ConnectionEnds, OnClose, TellClients, Broadcast, ClientPart
  <2>5. QED
    BY <2>2, <2>3, <2>4, PartsNext
<1>2. ASSUME NEW c \in Conns, Connected(c) PROVE IInv'
  <2>1. conn[c] \in {"new", "dialling"} /\ engine' = c /\ session' = c
    BY <1>2 DEF Connected, Fresh, AttachEngine
  <2>2. ClientPart'
    BY <1>0, <1>2 DEF Connected, AttachEngine, Replace, TellClients, Broadcast, ClientPart
  <2>3. CASE engine = None
    <3>1. LinkPart'
      BY <1>0, <1>2, <2>1, <2>3, GoesUp DEF Connected, AttachEngine, Replace
    <3>2. RequestPart' /\ InFlightHere'
      BY <1>2, <2>3, RequestsUntouched DEF Connected, AttachEngine, Replace
    <3>3. QED
      BY <2>2, <3>1, <3>2, PartsNext
  <2>4. CASE engine # None
    <3>1. PICK b \in Conns : engine = b
      BY <2>4, <1>0 DEF LinkPart
    <3>2. LinkPart'
      BY <1>0, <1>2, <2>1, <2>4, <3>1, Replaces DEF Connected, AttachEngine, Replace, TellClients
    <3>3. RequestPart' /\ InFlightHere'
      BY <1>2, <2>4, AbortSettles DEF Connected, AttachEngine, Replace
    <3>4. QED
      BY <2>2, <3>2, <3>3, PartsNext
  <2>5. QED
    BY <2>3, <2>4
<1>3. ASSUME NEW c \in Conns, NEW to \in {"dialling", "failed"},
             conn[c] \in {"new", "dialling"}, conn' = [conn EXCEPT ![c] = to],
             UNCHANGED <<engine, session, seq, requests, asked, clients, lost>>
      PROVE  IInv'
  <2>1. \A d \in Conns : conn'[d] = IF d = c THEN to ELSE conn[d]
    BY <1>0, <1>3 DEF LinkPart
  <2>2. OneEngine'
    BY <1>0, <1>3, <2>1 DEF LinkPart, OneEngine
  <2>3. LinkPart'
    BY <1>0, <1>3, <2>1, <2>2 DEF LinkPart
  <2>4. ClientPart' /\ RequestPart' /\ InFlightHere'
    BY <1>0, <1>3, RequestsUntouched DEF ClientPart
  <2>5. QED
    BY <2>3, <2>4, PartsNext
<1>4. ASSUME UNCHANGED <<links, lost, seq, requests, asked>>, ClientPart' PROVE IInv'
  <2>1. LinkPart'
    BY <1>0, <1>4 DEF LinkPart, OneEngine
  <2>2. QED
    BY <1>4, <2>1, RequestsUntouched, PartsNext
<1>5. ASSUME NEW c \in Conns, EventFrom(c) PROVE IInv'
  <2>1. ClientPart'
    BY <1>0, <1>5 DEF EventFrom, Broadcast, ClientPart
  <2>2. QED
    BY <1>4, <1>5, <2>1 DEF EventFrom
<1>6. ASSUME NEW c \in Conns, NEW s \in Seqs, NEW how \in {"resolved", "rejected"},
             ResponseFrom(c, s, how)
      PROVE  IInv'
  <2>1. LinkPart' /\ ClientPart'
    BY <1>0, <1>6 DEF ResponseFrom, LinkPart, OneEngine, ClientPart
  <2>2. QED
    BY <1>6, <2>1, ResponseKeeps, PartsNext
<1>7. CASE DetachEngine
  <2>1. ClientPart'
    BY <1>0, <1>7 DEF DetachEngine, Broadcast, ClientPart
  <2>2. QED
    BY <1>7, <2>1, DetachedKeeps, PartsNext DEF DetachEngine
<1>8. CASE CloseAdapter
  <2>1. ClientPart'
    BY <1>0, <1>8 DEF CloseAdapter, ClientPart
  <2>2. CASE Detached
    BY <1>8, <2>1, <2>2, DetachedKeeps, PartsNext DEF CloseAdapter
  <2>3. CASE UNCHANGED <<links, state, answer, lost>>
    BY <1>4, <1>8, <2>1, <2>3 DEF CloseAdapter
  <2>4. QED
    BY <1>8, <2>2, <2>3 DEF CloseAdapter
<1>9. ASSUME NEW p \in Ports, AttachClient(p) \/ ClientBreaks(p) \/ DetachClient(p)
      PROVE  IInv'
  <2>1. ClientPart'
    BY <1>0, <1>9 DEF AttachClient, ClientBreaks, DetachClient, ClientPart
  <2>2. QED
    BY <1>4, <1>9, <2>1 DEF AttachClient, ClientBreaks, DetachClient, Elsewhere
<1>10. ASSUME NEW p \in Ports, ClientCloses(p) PROVE IInv'
  <2>1. ClientPart' /\ LinkPart'
    BY <1>0, <1>10 DEF ClientCloses, Elsewhere, ClientPart, LinkPart, OneEngine
  <2>2. /\ promise' = [r \in Reqs |-> IF owner[r] = p /\ promise[r] = "waiting" THEN "aborted" ELSE promise[r]]
        /\ UNCHANGED <<engine, seq, state, owner, sentTo, number, answer, asked>>
    BY <1>10 DEF ClientCloses, Aborts, Elsewhere
  <2>3. /\ promise' \in [Reqs -> {"none", "waiting", "answered", "failed", "aborted"}]
        /\ \A r \in Reqs : promise'[r] = "answered" => promise[r] = "answered"
    BY <1>0, <2>2 DEF RequestPart
  <2>4. CountedOnce'
    BY <1>0, <2>2 DEF RequestPart, CountedOnce
  <2>5. SettledByItsEngine' /\ UnsentIsBlank' /\ InFlightHere'
    BY <1>0, <2>2, <2>3 DEF RequestPart, SettledByItsEngine, UnsentIsBlank, InFlightHere
  <2>6. RequestPart'
    BY <1>0, <2>2, <2>3, <2>4, <2>5 DEF RequestPart
  <2>7. QED
    BY <2>1, <2>5, <2>6, PartsNext
<1>11. ASSUME NEW p \in Ports, NEW r \in Reqs, Sends(p, r) PROVE IInv'
  <2>1. ClientPart' /\ LinkPart'
    BY <1>0, <1>11 DEF Sends, ClientPart, LinkPart, OneEngine
  <2>2. \A q \in Reqs : promise'[q] = IF q = r THEN "waiting" ELSE promise[q]
    BY <1>0, <1>11 DEF Sends, RequestPart
  <2>3. /\ promise' \in [Reqs -> {"none", "waiting", "answered", "failed", "aborted"}]
        /\ owner' \in [Reqs -> Ports \cup {None}]
    BY <1>0, <1>11 DEF Sends, RequestPart
  <2>4. \A q \in Reqs : promise'[q] = "answered" => answer[q] # None
    BY <1>0, <2>2 DEF RequestPart, SettledByItsEngine
  <2>5. RequestPart' /\ InFlightHere'
    BY <1>11, <2>3, <2>4, MovedOn DEF Sends
  <2>6. QED
    BY <2>1, <2>5, PartsNext
<1>12. ASSUME NEW r \in Reqs, Dropped(r) PROVE IInv'
  <2>1. ClientPart' /\ LinkPart'
    BY <1>0, <1>12 DEF Dropped, ClientPart, LinkPart, OneEngine
  <2>2. RequestPart' /\ InFlightHere'
    BY <1>0, <1>12, MovedOn DEF Dropped, RequestPart, SettledByItsEngine
  <2>3. QED
    BY <2>1, <2>2, PartsNext
<1>13. ASSUME NEW r \in Reqs, ClientRequest(r) PROVE IInv'
  <2>1. ClientPart' /\ LinkPart'
    BY <1>0, <1>13 DEF ClientRequest, ClientPart, LinkPart, OneEngine
  <2>2. QED
    BY <1>13, <2>1, RequestKeeps, PartsNext
<1>14. ASSUME NEW r \in Reqs, Reply(r) PROVE IInv'
  <2>1. ClientPart' /\ LinkPart'
    BY <1>0, <1>14 DEF Reply, Elsewhere, ClientPart, LinkPart, OneEngine
  <2>2. \/ promise' = promise
        \/ promise' = [promise EXCEPT ![r] = IF state[r] = "resolved" THEN "answered" ELSE "failed"]
    BY <1>14 DEF Reply, Hears
  <2>3. /\ promise' \in [Reqs -> {"none", "waiting", "answered", "failed", "aborted"}]
        /\ \A q \in Reqs : promise'[q] = "answered" =>
             promise[q] = "answered" \/ (q = r /\ state[r] = "resolved")
    BY <1>0, <2>2 DEF RequestPart
  <2>4. \A q \in Reqs : promise'[q] = "answered" => answer[q] # None
    BY <1>0, <2>3 DEF RequestPart, SettledByItsEngine
  <2>5. RequestPart' /\ InFlightHere'
    BY <1>0, <1>14, <2>3, <2>4, MovedOn DEF Reply, Elsewhere, RequestPart
  <2>6. QED
    BY <2>1, <2>5, PartsNext
<1>15. CASE UNCHANGED vars
  BY <1>0, <1>4, <1>15 DEF vars, ClientPart
<1>16. ASSUME NEW c \in Conns, Engine(c) PROVE IInv'
  BY <1>1, <1>2, <1>3, <1>5, <1>6, <1>16 DEF Engine, ConnectFails
<1>17. ASSUME NEW p \in Ports, Client(p) PROVE IInv'
  BY <1>3, <1>9, <1>10, <1>11, <1>17 DEF Client, ClientConnects, Fresh
<1>18. QED
  BY <1>7, <1>8, <1>12, <1>13, <1>14, <1>15, <1>16, <1>17 DEF Next

-----------------------------------------------------------------------------
(* Theorems                                                                 *)

\* The inductive invariant as a theorem.
THEOREM Invariance == ASSUME SyncClose PROVE Spec => []IInv
<1>1. Init => IInv
  <2> SUFFICES ASSUME Init PROVE IInv
    OBVIOUS
  <2>1. LinkPart /\ ClientPart /\ InFlightHere
    BY DEF Init, LinkPart, OneEngine, ClientPart, InFlightHere
  <2>2. CountedOnce
    <3>1. \A c \in Conns : {r \in Reqs : sentTo[r] = c} = {}
      BY DEF Init
    <3>2. QED
      BY <3>1, FS_EmptySet DEF Init, CountedOnce
  <2>3. SettledByItsEngine /\ UnsentIsBlank
    BY DEF Init, SettledByItsEngine, UnsentIsBlank
  <2>4. RequestPart
    <3>1. seq \in [Conns -> 0 .. MaxReqs] /\ number \in [Reqs -> Seqs \cup {0}]
      BY DEF Init
    <3>2. QED
      BY <2>2, <2>3, <3>1 DEF Init, RequestPart
  <2>5. QED
    BY <2>1, <2>4, Parts
<1>2. IInv /\ [Next]_vars => IInv'
  BY StepKeepsIInv
<1>3. QED
  BY <1>1, <1>2, PTL DEF Spec

\* No two requests in flight with an engine share a number, and that engine has
\* been asked every one of them (server-adapter.js 4-8, session.js 174-195).
THEOREM TypeCorrect == ASSUME SyncClose PROVE Spec => []TypeOK
<1>1. IInv => TypeOK
  BY DEF IInv
<1>2. QED
  BY <1>1, Invariance, PTL

\* A request is settled by the engine it was sent to, and a client told of an
\* answer has one from there (server-adapter.js 4-8, 98-146).
THEOREM AnswersCorrect == ASSUME SyncClose PROVE Spec => []SettledByItsEngine
<1>1. IInv => SettledByItsEngine
  BY DEF IInv
<1>2. QED
  BY <1>1, Invariance, PTL

\* There is one engine at a time, and its end is told once (server-adapter.js
\* 53-85).
THEOREM EngineCorrect == ASSUME SyncClose PROVE Spec => []OneEngine
<1>1. IInv => OneEngine
  BY DEF IInv
<1>2. QED
  BY <1>1, Invariance, PTL


-----------------------------------------------------------------------------
(* Clients and their promises, on any connections                           *)

\* Nobody but its client touches a promise, and a request goes on from where it was.
LEMMA PromisesGoOn ==
  ASSUME PromisesKept, UNCHANGED <<promise, owner, online>>,
         state' \in [Reqs -> {"unsent", "sent", "pending", "resolved", "rejected", "replied", "lost"}],
         \A r \in Reqs : state'[r] # state[r] =>
            /\ state[r] \notin {"unsent", "replied", "lost"} /\ state'[r] \notin {"unsent", "sent"}
            /\ state'[r] \in {"replied", "lost"} => owner[r] \in broken,
         broken \subseteq broken', entries \subseteq entries' \cup broken'
  PROVE  PromisesKept'
<1>1. \A r \in Reqs : (state'[r] = "unsent") <=> (state[r] = "unsent")
  OBVIOUS
<1>2. \A r \in Reqs : state'[r] = "sent" => state[r] = "sent"
  OBVIOUS
<1>3. \A r \in Reqs : state'[r] \in {"replied", "lost"} => state[r] \in {"replied", "lost"} \/ owner[r] \in broken
  OBVIOUS
<1>4. QED
  BY <1>1, <1>2, <1>3 DEF PromisesKept

LEMMA AbortGoesOn ==
  ASSUME PromisesKept, NEW c, NEW by, AbortSession(c, by)
  PROVE  /\ state' \in [Reqs -> {"unsent", "sent", "pending", "resolved", "rejected", "replied", "lost"}]
         /\ \A r \in Reqs : state'[r] # state[r] => state[r] = "pending" /\ state'[r] = "rejected"
BY DEF AbortSession, Pending, PromisesKept

LEMMA EngineKeepsPromises ==
  ASSUME PromisesKept, NEW c \in Conns, Engine(c)
  PROVE  PromisesKept'
<1>1. CASE ConnectionEnds(c)
  BY <1>1, AbortGoesOn, PromisesGoOn DEF ConnectionEnds, OnClose, AbortOnClose
<1>2. CASE Connected(c)
  <2>1. AbortSession(session, engine) \/ UNCHANGED state
    BY <1>2 DEF Connected, AttachEngine, Replace
  <2>2. UNCHANGED <<promise, owner, online, broken, entries>>
    BY <1>2 DEF Connected
  <2>3. CASE AbortSession(session, engine)
    BY <2>2, <2>3, AbortGoesOn, PromisesGoOn
  <2>4. CASE UNCHANGED state
    BY <2>2, <2>4 DEF PromisesKept
  <2>5. QED
    BY <2>1, <2>3, <2>4
<1>3. CASE ConnectFails(c) \/ EventFrom(c)
  BY <1>3 DEF ConnectFails, EventFrom, requests, clients, PromisesKept
<1>4. ASSUME NEW s \in Seqs, NEW how \in {"resolved", "rejected"}, ResponseFrom(c, s, how)
      PROVE  PromisesKept'
  <2>1. \A r \in Reqs : state'[r] # state[r] => state[r] = "pending" /\ state'[r] = how
    BY <1>4 DEF ResponseFrom, Pending
  <2>2. state' \in [Reqs -> {"unsent", "sent", "pending", "resolved", "rejected", "replied", "lost"}]
    BY <1>4 DEF ResponseFrom, PromisesKept
  <2>3. UNCHANGED <<promise, owner, online, broken, entries>>
    BY <1>4 DEF ResponseFrom, clients
  <2>4. QED
    BY <2>1, <2>2, <2>3, PromisesGoOn
<1>5. QED
  BY <1>1, <1>2, <1>3, <1>4 DEF Engine

LEMMA ClientKeepsPromises ==
  ASSUME PromisesKept, NEW p \in Ports, Client(p)
  PROVE  PromisesKept'
<1>1. CASE AttachClient(p) \/ ClientBreaks(p) \/ DetachClient(p)
  BY <1>1 DEF AttachClient, ClientBreaks, DetachClient, Elsewhere, PromisesKept
<1>2. CASE ClientCloses(p)
  <2>1. /\ promise' \in [Reqs -> {"none", "waiting", "answered", "failed", "aborted"}]
        /\ \A r \in Reqs : (promise'[r] = "none") <=> (promise[r] = "none")
        /\ \A r \in Reqs : promise'[r] = "waiting" => promise[r] = "waiting" /\ owner[r] # p
    BY <1>2 DEF ClientCloses, Aborts, PromisesKept
  <2>2. online' = online \ {p} /\ UNCHANGED <<state, owner, entries, broken>>
    BY <1>2 DEF ClientCloses, Elsewhere
  <2>3. QED
    BY <2>1, <2>2 DEF PromisesKept
<1>3. ASSUME NEW c \in Conns, ClientConnects(p, c) PROVE PromisesKept'
  BY <1>3 DEF ClientConnects, requests, clients, PromisesKept
<1>4. ASSUME NEW r \in Reqs, Sends(p, r) PROVE PromisesKept'
  <2>1. /\ p \in online /\ UNCHANGED <<entries, broken, online>>
        /\ promise' = [promise EXCEPT ![r] = "waiting"] /\ owner' = [owner EXCEPT ![r] = p]
        /\ state' = [state EXCEPT ![r] = "sent"]
    BY <1>4 DEF Sends, clients
  <2>2. /\ promise'[r] = "waiting" /\ owner'[r] = p /\ state'[r] = "sent"
        /\ \A q \in Reqs : q # r => promise'[q] = promise[q] /\ owner'[q] = owner[q] /\ state'[q] = state[q]
    BY <2>1 DEF PromisesKept
  <2>3. p \in entries \cup broken
    BY <2>1 DEF PromisesKept
  <2>4. /\ promise' \in [Reqs -> {"none", "waiting", "answered", "failed", "aborted"}]
        /\ state' \in [Reqs -> {"unsent", "sent", "pending", "resolved", "rejected", "replied", "lost"}]
        /\ owner' \in [Reqs -> Ports \cup {None}]
    BY <2>1 DEF PromisesKept
  <2>5. QED
    BY <2>1, <2>2, <2>3, <2>4 DEF PromisesKept
<1>5. QED
  BY <1>1, <1>2, <1>3, <1>4 DEF Client

LEMMA StepKeepsPromises == PromisesKept /\ [Next]_vars => PromisesKept'
<1> SUFFICES ASSUME PromisesKept, [Next]_vars PROVE PromisesKept'
  OBVIOUS
<1>1. ASSUME NEW r \in Reqs, ClientRequest(r) PROVE PromisesKept'
  <2>1. \A q \in Reqs : state'[q] # state[q] => state[q] = "sent" /\ state'[q] \in {"pending", "rejected"}
    BY <1>1 DEF ClientRequest, PromisesKept
  <2>2. state' \in [Reqs -> {"unsent", "sent", "pending", "resolved", "rejected", "replied", "lost"}]
    BY <1>1 DEF ClientRequest, PromisesKept
  <2>3. UNCHANGED <<promise, owner, online, broken, entries>>
    BY <1>1 DEF ClientRequest, clients
  <2>4. QED
    BY <2>1, <2>2, <2>3, PromisesGoOn
<1>2. ASSUME NEW r \in Reqs, Dropped(r) PROVE PromisesKept'
  <2>1. \A q \in Reqs : state'[q] # state[q] => state[q] = "sent" /\ state'[q] = "lost" /\ owner[q] \in broken
    BY <1>2 DEF Dropped, PromisesKept
  <2>2. state' \in [Reqs -> {"unsent", "sent", "pending", "resolved", "rejected", "replied", "lost"}]
    BY <1>2 DEF Dropped, PromisesKept
  <2>3. UNCHANGED <<promise, owner, online, broken, entries>>
    BY <1>2 DEF Dropped, clients
  <2>4. QED
    BY <2>1, <2>2, <2>3, PromisesGoOn
<1>3. ASSUME NEW r \in Reqs, Reply(r) PROVE PromisesKept'
  <2>1. /\ state[r] \in {"resolved", "rejected"} /\ state' = [state EXCEPT ![r] = "replied"]
        /\ UNCHANGED <<owner, online, broken, entries>>
    BY <1>3 DEF Reply, Elsewhere, clients
  <2>2. /\ state'[r] = "replied" /\ \A q \in Reqs : q # r => state'[q] = state[q]
        /\ state' \in [Reqs -> {"unsent", "sent", "pending", "resolved", "rejected", "replied", "lost"}]
    BY <2>1 DEF PromisesKept
  <2>3. CASE owner[r] \in broken /\ UNCHANGED promise
    BY <2>1, <2>2, <2>3 DEF PromisesKept
  <2>4. ASSUME NEW how \in {"answered", "failed"}, Hears(r, how) PROVE PromisesKept'
    <3>1. /\ promise' \in [Reqs -> {"none", "waiting", "answered", "failed", "aborted"}]
          /\ \A q \in Reqs : (promise'[q] = "none") <=> (promise[q] = "none")
          /\ \A q \in Reqs : promise'[q] = "waiting" => promise[q] = "waiting" /\ q # r
      BY <2>4 DEF Hears, PromisesKept
    <3>2. QED
      BY <2>1, <2>2, <3>1 DEF PromisesKept
  <2>5. QED
    BY <1>3, <2>3, <2>4 DEF Reply
<1>4. CASE DetachEngine
  BY <1>4, AbortGoesOn, PromisesGoOn DEF DetachEngine, Detached
<1>5. CASE CloseAdapter
  <2>1. AbortSession(session, engine) \/ UNCHANGED state
    BY <1>5 DEF CloseAdapter, Detached
  <2>2. UNCHANGED <<promise, owner, online, entries>> /\ broken \subseteq broken'
    BY <1>5 DEF CloseAdapter
  <2>3. CASE AbortSession(session, engine)
    BY <2>2, <2>3, AbortGoesOn, PromisesGoOn
  <2>4. CASE UNCHANGED state
    BY <2>2, <2>4 DEF PromisesKept
  <2>5. QED
    BY <2>1, <2>3, <2>4
<1>6. CASE UNCHANGED vars
  BY <1>6 DEF vars, requests, clients, PromisesKept
<1>7. QED
  BY <1>1, <1>2, <1>3, <1>4, <1>5, <1>6, EngineKeepsPromises, ClientKeepsPromises DEF Next

\* What clients know of their promises and their sockets agrees, whatever connections
\* come and go: a promise waits only while its client is there, and a request that was
\* sent is kept by an entry of the server or by a socket that is broken.
THEOREM PromiseInvariance == Spec => []PromisesKept
<1>1. Init => PromisesKept
  BY DEF Init, PromisesKept
<1>2. QED
  BY <1>1, StepKeepsPromises, PTL DEF Spec


\* No promise waits for nothing, where close() calls onclose before it returns: some
\* step that leads to its settlement is due (server-adapter.js 98-146).
THEOREM NoneIsLost == ASSUME SyncClose PROVE Spec => []NoPromiseIsLost
<1>1. IInv /\ PromisesKept => NoPromiseIsLost
  <2> SUFFICES ASSUME IInv, PromisesKept, NEW r \in Reqs, promise[r] = "waiting", owner[r] \notin broken
               PROVE  \/ state[r] = "sent" /\ owner[r] \in entries
                      \/ state[r] = "pending" /\ conn[sentTo[r]] = "open" /\ number[r] \in asked[sentTo[r]]
                      \/ state[r] \in {"resolved", "rejected"}
    BY DEF PromisesKept, NoPromiseIsLost
  <2>1. state[r] \in {"sent", "pending", "resolved", "rejected"}
    BY DEF PromisesKept
  <2>2. state[r] = "sent" => owner[r] \in entries
    BY DEF PromisesKept
  <2>3. CASE state[r] = "pending"
    <3>1. engine \in Conns /\ sentTo[r] = engine
      BY <2>3 DEF IInv, InFlightHere, TypeOK
    <3>2. conn[engine] = "open"
      BY <3>1 DEF IInv, OneEngine
    <3>3. number[r] \in asked[sentTo[r]]
      BY <2>3 DEF IInv, TypeOK
    <3>4. QED
      BY <2>3, <3>1, <3>2, <3>3
  <2>4. QED
    BY <2>1, <2>2, <2>3
<1>2. QED
  BY <1>1, Invariance, PromiseInvariance, PTL
=============================================================================
