----------------------------- MODULE MCFraming -----------------------------
(***************************************************************************)
(* Framing on a handful of streams: a short and a long JSON text (the length *)
(* of the long one needs a hexadecimal letter), one with a character of two  *)
(* bytes, a text that is no JSON, noise, lines with and without a carriage   *)
(* return, coloured output.                                                 *)
(***************************************************************************)
EXTENDS Framing

Short == <<Left, Right>>
Accent == <<Left, Wide, Right>>
Long == <<Left>> \o [i \in 1 .. 7 |-> 120] \o <<Right>>
NoJSON == <<120>>
Carriage == <<120, CR>>
Colour == <<ESC, Final, 120, ESC, Final>>

MCStreams ==
  { <<Accent, Short, Long>>, <<Short, NoJSON, Accent, Short>>, <<NoJSON, Short, Accent, Short, Short>>,
    <<Short, Noise, Accent>>, <<Carriage, Accent, <<>>, Short>>, <<Colour, Short, Colour, NoJSON>> }
=============================================================================
