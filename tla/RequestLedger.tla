--------------------------- MODULE RequestLedger ---------------------------
(***************************************************************************)
(* What DebugSession (session.js) promises its callers of requests, with     *)
(* nothing of how the promise is kept: a request number is used once, the    *)
(* request it names stays open for a while, and it is then settled, once and *)
(* for good, either by an answer or by a failure.                           *)
(***************************************************************************)
EXTENDS Naturals

CONSTANT MaxSeq

VARIABLE status    \* request number -> what its caller knows of it

Seqs == 1 .. MaxSeq

TypeOK == status \in [Seqs -> {"unsent", "open", "resolved", "rejected"}]

Init == status = [s \in Seqs |-> "unsent"]

\* The next request number is the lowest one that was never used.
Open(s) ==
  /\ status[s] = "unsent"
  /\ \A r \in Seqs : r < s => status[r] # "unsent"
  /\ status' = [status EXCEPT ![s] = "open"]

\* A request number that was taken but never transmitted: the caller gets the
\* error at once.
Refuse(s) ==
  /\ status[s] = "unsent"
  /\ \A r \in Seqs : r < s => status[r] # "unsent"
  /\ status' = [status EXCEPT ![s] = "rejected"]

Resolve(s) ==
  /\ status[s] = "open"
  /\ status' = [status EXCEPT ![s] = "resolved"]

\* A failure may concern one request (an error answer, a timeout) or every
\* open one at once (the connection is gone).
Reject(S) ==
  /\ S # {}
  /\ \A s \in S : status[s] = "open"
  /\ status' = [s \in Seqs |-> IF s \in S THEN "rejected" ELSE status[s]]

Next ==
  \/ \E s \in Seqs : Open(s) \/ Refuse(s) \/ Resolve(s)
  \/ \E S \in SUBSET Seqs : Reject(S)

Spec == Init /\ [][Next]_status

\* Every open request is settled in the end.
Live == \A s \in Seqs : status[s] = "open" ~> status[s] # "open"
=============================================================================
