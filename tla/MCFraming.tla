----------------------------- MODULE MCFraming -----------------------------
(* Three packets with heads of two bytes and a buffer of four: two requests *)
(* of three bytes, and a last one that announces five.                      *)
EXTENDS Framing

MCStart == <<0, 5, 10, 17>>

MCDataLen == [p \in 0..17 |-> IF p = 10 THEN 5 ELSE 3]
============================================================================
