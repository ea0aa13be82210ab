--------------------------- MODULE MCLogPipeline ---------------------------
(* Small instances of LogPipeline for TLC. *)
EXTENDS LogPipeline

(* Three heap addresses against a pipe of two: memory can run out, and an  *)
(* address freed by one thread is handed out again while others are queued. *)
MCAddr == {[hi |-> 0, lo |-> n] : n \in 1..3}

============================================================================
