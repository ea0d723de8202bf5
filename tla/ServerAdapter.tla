--------------------------- MODULE ServerAdapter ---------------------------
(***************************************************************************)
(* server-adapter.js, DebuggerServerAdapter: several clients on one engine  *)
(* connection at a time.  Requests of the clients share the numbers of one  *)
(* session; engines come and go, and the handlers a connection is given     *)
(* look up the adapter's session and engine when they run, not when they    *)
(* were installed.                                                          *)
(*                                                                          *)
(* A session belongs to the connection it was made for, so it is named by   *)
(* it.  Connections are of two sorts: close() of an EngineConnection calls  *)
(* onclose before it returns; that of LWSEngineConnector (connector-lws.js) *)
(* asks for the close, and onclose is called later.                         *)
(*                                                                          *)
(* A client is a DebuggerClient (client.js) over a web socket; its promise of *)
(* a request waits while the message travels, the adapter awaits its own, and *)
(* the reply travels back.  Connectors (connector-qjsnet.js, connector-lws.js) *)
(* keep an entry for a socket until that is closed.  Engines and sockets are   *)
(* outside the repository.                                                  *)
(***************************************************************************)
EXTENDS Naturals, FiniteSets

CONSTANTS
  Ports,      \* clients
  MaxReqs,    \* bound on the requests they make
  MaxConns,   \* bound on engine connections
  MaxBreaks,  \* bound on clients whose socket breaks
  SyncClose,  \* does close() call onclose before it returns?
  None

ASSUME SyncCloseAssumption == SyncClose \in BOOLEAN
ASSUME BoundsAssumption == MaxReqs \in Nat /\ MaxConns \in Nat /\ MaxBreaks \in Nat

Reqs == 1 .. MaxReqs      \* requests, in the order they are made
Conns == 1 .. MaxConns    \* connections, in the order they are begun
Seqs == 1 .. MaxReqs

ASSUME NoneAssumption == None \notin Conns \cup Ports

VARIABLES
  conn,      \* what each connection is doing
  engine,    \* #engine
  session,   \* session, by the connection it was made for
  seq,       \* request numbers used, by session
  promise,   \* of each request: what its client's promise has come to
  state,     \* what the adapter has done with it
  owner,     \* who made it
  sentTo, number,   \* the session it went to, and its number there
  answer,    \* the connection that settled it
  asked,     \* numbers each engine has yet to answer
  ports,     \* #ports
  entries,   \* clients a connector has an entry for
  broken,    \* clients whose socket is gone: what is sent is lost, or throws
  online,    \* clients that have a socket, as far as they know
  lost       \* connections whose end the clients were told of, and how often

links    == <<conn, engine, session>>
requests == <<promise, state, owner, sentTo, number, answer>>
clients  == <<ports, entries, broken, online>>
vars == <<links, seq, requests, asked, clients, lost>>

TypeOK ==
  /\ conn \in [Conns -> {"new", "dialling", "failed", "open", "closing", "closed"}]
  /\ engine \in Conns \cup {None} /\ session \in Conns \cup {None}
  /\ seq \in [Conns -> 0 .. MaxReqs]
  /\ promise \in [Reqs -> {"none", "waiting", "answered", "failed", "aborted"}]
  /\ state \in [Reqs -> {"unsent", "sent", "pending", "resolved", "rejected", "replied", "lost"}]
  /\ owner \in [Reqs -> Ports \cup {None}]
  /\ sentTo \in [Reqs -> Conns \cup {None}]
  /\ number \in [Reqs -> Seqs \cup {0}]
  /\ answer \in [Reqs -> Conns \cup {None}]
  /\ asked \in [Conns -> SUBSET Seqs]
  /\ ports \subseteq entries /\ entries \subseteq Ports /\ broken \subseteq Ports
  /\ entries \ broken \subseteq online /\ online \subseteq Ports
  /\ lost \in [Conns -> Nat]
  /\ \A q, r \in Reqs : (q # r /\ state[q] = "pending" /\ state[r] = "pending" /\ sentTo[q] = sentTo[r])
                           => number[q] # number[r]
  /\ \A r \in Reqs : state[r] = "pending" => number[r] \in asked[sentTo[r]]

Init ==
  /\ conn = [c \in Conns |-> "new"]
  /\ engine = None /\ session = None
  /\ seq = [c \in Conns |-> 0]
  /\ promise = [r \in Reqs |-> "none"] /\ state = [r \in Reqs |-> "unsent"]
  /\ owner = [r \in Reqs |-> None]
  /\ sentTo = [r \in Reqs |-> None]
  /\ number = [r \in Reqs |-> 0]
  /\ answer = [r \in Reqs |-> None]
  /\ asked = [c \in Conns |-> {}]
  /\ ports = {} /\ entries = {} /\ broken = {} /\ online = {}
  /\ lost = [c \in Conns |-> 0]

\* Requests the session made for a connection still has in its map.
Pending(c) == {r \in Reqs : sentTo[r] = c /\ state[r] = "pending"}

\* A message for every client: those it cannot be given to are detached.
Broadcast == ports' = ports \ broken

\* The session rejects what it has in flight, on behalf of connection `by`.
AbortSession(c, by) ==
  /\ state' = [r \in Reqs |-> IF r \in Pending(c) THEN "rejected" ELSE state[r]]
  /\ answer' = [r \in Reqs |-> IF r \in Pending(c) THEN by ELSE answer[r]]

-----------------------------------------------------------------------------
(* Engines                                                                  *)

\* Wrong: what is in flight is left in flight.
LeaveInFlight(c) == UNCHANGED <<state, answer>>
AbortOnClose(c) == AbortSession(session, c)
TellClients(c) == lost' = [lost EXCEPT ![c] = @ + 1] /\ Broadcast

\* The onclose handler: whatever session the adapter has now is aborted.
OnClose(c) ==
  /\ conn' = [conn EXCEPT ![c] = "closed"]
  /\ AbortOnClose(c)
  /\ TellClients(c)
  /\ engine' = None

\* The connection is lost: it goes down, and its handler is called.  A
\* connection asked to close gets there too.
ConnectionEnds(c) ==
  /\ conn[c] \in {"open", "closing"}
  /\ OnClose(c)
  /\ UNCHANGED <<session, seq, promise, owner, sentTo, number, asked, entries, broken, online>>

\* Wrong: the engine attached before is not closed.
KeepOpen(c) == conn' = [conn EXCEPT ![c] = "open"] /\ UNCHANGED <<state, answer, lost, ports>>

\* attachEngine(): detachEngine() aborts the session there is and closes its
\* engine, which calls onclose on the way or later; then the new one.
Replace(c) ==
  \/ /\ engine = None
     /\ conn' = [conn EXCEPT ![c] = "open"]
     /\ UNCHANGED <<state, answer, lost, ports>>
  \/ /\ engine # None
     /\ conn' = [conn EXCEPT ![c] = "open", ![engine] = IF SyncClose THEN "closed" ELSE "closing"]
     /\ AbortSession(session, engine)
     /\ IF SyncClose THEN TellClients(engine) ELSE UNCHANGED <<lost, ports>>

AttachEngine(c) ==
  /\ Replace(c)
  /\ engine' = c /\ session' = c

\* detachEngine(), if there is an engine: the adapter knows of none any more.
Detached ==
  /\ engine # None
  /\ conn' = [conn EXCEPT ![engine] = IF SyncClose THEN "closed" ELSE "closing"]
  /\ AbortSession(session, engine)
  /\ lost' = IF SyncClose THEN [lost EXCEPT ![engine] = @ + 1] ELSE lost
  /\ engine' = None /\ session' = None

\* As an embedding program calls it.
DetachEngine ==
  /\ Detached
  /\ IF SyncClose THEN Broadcast ELSE UNCHANGED ports
  /\ UNCHANGED <<seq, promise, owner, sentTo, number, asked, entries, broken, online>>

\* close(): the sockets of the clients are closed as well.
CloseAdapter ==
  /\ ports # {}
  /\ \/ Detached
     \/ engine = None /\ UNCHANGED <<links, state, answer, lost>>
  /\ ports' = {} /\ broken' = broken \cup ports
  /\ UNCHANGED <<seq, promise, owner, sentTo, number, asked, entries, online>>

\* The first connection that was not begun.
Fresh(c) == conn[c] = "new" /\ \A b \in 1 .. c - 1 : conn[b] # "new"

\* A client asks to start or to connect: the connection takes its time.
ClientConnects(p, c) ==
  /\ p \in entries
  /\ Fresh(c)
  /\ conn' = [conn EXCEPT ![c] = "dialling"]
  /\ UNCHANGED <<engine, session, seq, requests, asked, clients, lost>>

\* The connection is up, or an engine has connected to the server by itself.
Connected(c) ==
  /\ Fresh(c) \/ conn[c] = "dialling"
  /\ AttachEngine(c)
  /\ UNCHANGED <<seq, promise, owner, sentTo, number, asked, entries, broken, online>>

ConnectFails(c) ==
  /\ conn[c] = "dialling"
  /\ conn' = [conn EXCEPT ![c] = "failed"]
  /\ UNCHANGED <<engine, session, seq, requests, asked, clients, lost>>

\* onmessage, a response: the adapter's session of now looks its number up.
ResponseFrom(c, s, how) ==
  /\ conn[c] = "open" /\ s \in asked[c]
  /\ asked' = [asked EXCEPT ![c] = @ \ {s}]
  /\ LET mine == {r \in Pending(session) : number[r] = s} IN
       /\ state' = [r \in Reqs |-> IF r \in mine THEN how ELSE state[r]]
       /\ answer' = [r \in Reqs |-> IF r \in mine THEN c ELSE answer[r]]
  /\ UNCHANGED <<links, seq, promise, owner, sentTo, number, clients, lost>>

\* onmessage, anything else: passed on to every client.
EventFrom(c) ==
  /\ conn[c] = "open"
  /\ Broadcast
  /\ UNCHANGED <<links, seq, requests, asked, entries, broken, online, lost>>

-----------------------------------------------------------------------------
(* Clients                                                                  *)

Elsewhere == UNCHANGED <<links, seq, owner, sentTo, number, answer, asked, lost>>

\* The socket is open: the connector attaches a port for it.
AttachClient(p) ==
  /\ p \notin entries \cup broken
  /\ ports' = ports \cup {p} /\ entries' = entries \cup {p} /\ online' = online \cup {p}
  /\ UNCHANGED <<promise, state, broken>> /\ Elsewhere

ClientBreaks(p) ==
  /\ p \in entries \ broken /\ Cardinality(broken) < MaxBreaks
  /\ broken' = broken \cup {p}
  /\ UNCHANGED <<promise, state, ports, entries, online>> /\ Elsewhere

\* The connector hears of it.
DetachClient(p) ==
  /\ p \in entries \cap broken
  /\ ports' = ports \ {p} /\ entries' = entries \ {p}
  /\ UNCHANGED <<promise, state, broken, online>> /\ Elsewhere

\* Wrong: the client's requests are left as they are.
Forgets(p) == UNCHANGED promise
Aborts(p) == promise' = [r \in Reqs |-> IF owner[r] = p /\ promise[r] = "waiting" THEN "aborted" ELSE promise[r]]

\* The client hears of it.
ClientCloses(p) ==
  /\ p \in online \cap broken /\ online' = online \ {p}
  /\ Aborts(p)
  /\ UNCHANGED <<state, ports, entries, broken>> /\ Elsewhere

\* The client's session sends a request; after the close it makes none.
Sends(p, r) ==
  /\ p \in online
  /\ state[r] = "unsent" /\ \A q \in 1 .. r - 1 : state[q] # "unsent"
  /\ promise' = [promise EXCEPT ![r] = "waiting"] /\ owner' = [owner EXCEPT ![r] = p]
  /\ state' = [state EXCEPT ![r] = "sent"]
  /\ UNCHANGED <<links, seq, sentTo, number, answer, asked, clients, lost>>

\* Wrong: every client's own numbers go to the engine.
ClientNumber(p) == Cardinality({r \in Reqs : owner[r] = p})
Number(p) == seq[session] + 1

\* What comes from a socket the connector has no entry for is dropped; what was
\* sent to a broken one may not come.
Dropped(r) ==
  /\ state[r] = "sent" /\ owner[r] \in broken
  /\ state' = [state EXCEPT ![r] = "lost"]
  /\ UNCHANGED <<links, seq, promise, owner, sentTo, number, answer, asked, clients, lost>>

\* A debug request: refused without a session; on one whose connection is down
\* the send throws, which refuses it too.  Otherwise it is in flight.
ClientRequest(r) ==
  /\ state[r] = "sent" /\ owner[r] \in entries
  /\ \/ /\ session = None
        /\ state' = [state EXCEPT ![r] = "rejected"]
        /\ UNCHANGED <<seq, sentTo, number, answer, asked>>
     \/ /\ session # None
        /\ LET s == Number(owner[r]) IN
             /\ seq' = [seq EXCEPT ![session] = @ + 1]
             /\ sentTo' = [sentTo EXCEPT ![r] = session]
             /\ number' = [number EXCEPT ![r] = s]
             /\ IF conn[session] = "open"
                THEN /\ state' = [state EXCEPT ![r] = "pending"]
                     /\ asked' = [asked EXCEPT ![session] = @ \cup {s}]
                     /\ UNCHANGED answer
                ELSE /\ state' = [state EXCEPT ![r] = "rejected"]
                     /\ answer' = [answer EXCEPT ![r] = session]
                     /\ UNCHANGED asked
  /\ UNCHANGED <<links, promise, owner, clients, lost>>

\* The client gets the response: its promise is settled unless that was aborted.
Hears(r, how) ==
  promise' = IF promise[r] = "waiting" THEN [promise EXCEPT ![r] = how] ELSE promise

\* The continuation: the response, under the client's own number, goes to the
\* client that asked; to a broken socket it is lost.
Reply(r) ==
  /\ state[r] \in {"resolved", "rejected"}
  /\ state' = [state EXCEPT ![r] = "replied"]
  /\ \/ owner[r] \in broken /\ UNCHANGED promise
     \/ owner[r] \notin broken /\ Hears(r, IF state[r] = "resolved" THEN "answered" ELSE "failed")
  /\ UNCHANGED clients /\ Elsewhere

-----------------------------------------------------------------------------
Engine(c) ==
  \/ ConnectionEnds(c) \/ Connected(c) \/ ConnectFails(c) \/ EventFrom(c)
  \/ \E s \in Seqs, how \in {"resolved", "rejected"} : ResponseFrom(c, s, how)

Client(p) ==
  \/ AttachClient(p) \/ ClientBreaks(p) \/ DetachClient(p) \/ ClientCloses(p)
  \/ \E c \in Conns : ClientConnects(p, c)
  \/ \E r \in Reqs : Sends(p, r)

Next ==
  \/ \E c \in Conns : Engine(c)
  \/ \E p \in Ports : Client(p)
  \/ \E r \in Reqs : ClientRequest(r) \/ Dropped(r) \/ Reply(r)
  \/ DetachEngine \/ CloseAdapter

Spec == Init /\ [][Next]_vars

\* Continuations run, messages arrive or get lost, and closed sockets are noticed.
\* An engine answers what it was asked, or the connection ends: the debuggee is a
\* process that stays responsive at a stop or exits.
Fairness ==
  /\ \A r \in Reqs : WF_vars(ClientRequest(r) \/ Dropped(r) \/ Reply(r))
  /\ \A p \in Ports : WF_vars(ClientCloses(p))
  /\ \A c \in Conns :
       /\ WF_vars(conn[c] = "closing" /\ ConnectionEnds(c))
       /\ \A s \in Seqs :
            WF_vars(ConnectionEnds(c) \/ \E how \in {"resolved", "rejected"} : ResponseFrom(c, s, how))

FairSpec == Spec /\ Fairness

-----------------------------------------------------------------------------
(* Properties                                                               *)

\* "Fixes the old design's seq collision by construction [...] responses are
\* rewritten back to the originating client's seq" (4-8): a request is settled
\* by the engine it was sent to, and by no other; and what a client is told of its
\* request is what became of it.
SettledByItsEngine ==
  \A r \in Reqs :
    /\ answer[r] # None => answer[r] = sentTo[r]
    /\ promise[r] = "answered" => answer[r] # None

\* `connected` tells the truth, and there is one engine at a time: a connection
\* is open exactly if it is the adapter's, and clients are told once of the end
\* of each (53-85).
OneEngine ==
  /\ \A c \in Conns : conn[c] = "open" <=> engine = c
  /\ engine # None => session = engine
  /\ \A c \in Conns : lost[c] = IF conn[c] = "closed" THEN 1 ELSE 0

\* Why both hold where close() calls onclose before it returns: what is in flight
\* is in flight with the engine of now, so that whoever ends that engine aborts all
\* of it, and a response finds only what its own engine was asked; and a session's
\* count of numbers is that of the requests it took, so that no number comes twice.
InFlightHere == \A r \in Reqs : state[r] = "pending" => engine # None /\ sentTo[r] = engine
UnsentIsBlank == \A r \in Reqs : state[r] \in {"unsent", "sent"} => sentTo[r] = None /\ answer[r] = None
CountedOnce ==
  /\ \A c \in Conns : seq[c] = Cardinality({r \in Reqs : sentTo[r] = c})
  /\ \A r \in Reqs : sentTo[r] # None => number[r] <= seq[sentTo[r]]

IInv ==
  /\ TypeOK /\ OneEngine /\ SettledByItsEngine
  /\ \A c \in Conns : conn[c] # "closing"
  /\ \A r \in Reqs : state[r] = "resolved" => answer[r] # None
  /\ InFlightHere /\ UnsentIsBlank /\ CountedOnce

\* What RequestsAnswered rests on: no promise waits for nothing, however engines and
\* sockets come and go.  The client is about to hear that its socket is gone, the
\* request is on its way, an engine that is there was asked it, or the reply is due:
\* an engine that is replaced or lost leaves nothing behind that only it could
\* answer (server-adapter.js 53-85, 180-206).
NoPromiseIsLost ==
  \A r \in Reqs : promise[r] = "waiting" =>
    \/ owner[r] \in online \cap broken
    \/ state[r] = "sent" /\ owner[r] \in entries
    \/ state[r] = "pending" /\ conn[sentTo[r]] = "open" /\ number[r] \in asked[sentTo[r]]
    \/ state[r] \in {"resolved", "rejected"}

\* What clients know of their promises and sockets, on any connections.
PromisesKept ==
  /\ promise \in [Reqs -> {"none", "waiting", "answered", "failed", "aborted"}]
  /\ state \in [Reqs -> {"unsent", "sent", "pending", "resolved", "rejected", "replied", "lost"}]
  /\ owner \in [Reqs -> Ports \cup {None}]
  /\ \A r \in Reqs : promise[r] = "none" <=> state[r] = "unsent"
  /\ \A r \in Reqs : promise[r] = "waiting" => owner[r] \in online
  /\ \A r \in Reqs : promise[r] = "waiting" /\ state[r] \in {"replied", "lost"} => owner[r] \in broken
  /\ \A r \in Reqs : state[r] = "sent" => owner[r] \in entries \cup broken
  /\ online \subseteq entries \cup broken

\* Every promise a client holds is settled in the end, whatever engines, other
\* clients and the sockets do: by the reply, or by the abort of its own session.
RequestsAnswered == \A r \in Reqs : promise[r] = "waiting" ~> promise[r] # "waiting"
=============================================================================
