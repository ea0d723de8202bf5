---------------------------- MODULE FifoChannel ----------------------------
(***************************************************************************)
(* What an EngineConnection promises to whoever sends on it: messages are   *)
(* taken one after the other while the connection is up, each gets its fate *)
(* (sent or failed) once, in the order they were taken, and none is taken   *)
(* once the connection is down, which its owner is told once.               *)
(***************************************************************************)
EXTENDS Naturals

CONSTANT MaxFrames

VARIABLES
  fate,   \* message number -> what became of it
  told    \* how often its owner was told that the connection is down

Frames == 1 .. MaxFrames

Init ==
  /\ fate = [n \in Frames |-> "none"]
  /\ told = 0

\* Messages are numbered in the order they are taken.
Take(n) ==
  /\ told = 0
  /\ fate[n] = "none"
  /\ \A m \in Frames : m < n => fate[m] # "none"
  /\ fate' = [fate EXCEPT ![n] = "queued"]
  /\ UNCHANGED told

Conclude(n, how) ==
  /\ fate[n] = "queued"
  /\ \A m \in Frames : m < n => fate[m] \in {"sent", "failed"}
  /\ fate' = [fate EXCEPT ![n] = how]
  /\ UNCHANGED told

GoDown == told = 0 /\ told' = 1 /\ UNCHANGED fate

Next ==
  \/ \E n \in Frames : Take(n) \/ Conclude(n, "sent") \/ Conclude(n, "failed")
  \/ GoDown

vars == <<fate, told>>
Spec == Init /\ [][Next]_vars

\* No message stays queued for ever.
Live == \A n \in Frames : fate[n] = "queued" ~> fate[n] # "queued"
=============================================================================
