---------------------------- MODULE FifoChannel ----------------------------
(***************************************************************************)
(* What a one-writer one-reader queue promises (qfifo.h): what is put is   *)
(* got once, in the order it was put, and a put waits while Bound items    *)
(* are on their way.                                                       *)
(***************************************************************************)
EXTENDS Naturals, Sequences

CONSTANTS Item,     \* what may be put
          Bound     \* the most items that may be put and not yet got

VARIABLES sent,     \* everything put so far, in order
          rcvd      \* everything got so far, in order

Init == sent = << >> /\ rcvd = << >>

Put(x) ==
    /\ Len(sent) - Len(rcvd) < Bound
    /\ sent' = Append(sent, x)
    /\ UNCHANGED rcvd

Get ==
    /\ Len(rcvd) < Len(sent)
    /\ rcvd' = Append(rcvd, sent[Len(rcvd) + 1])
    /\ UNCHANGED sent

Next == Get \/ \E x \in Item : Put(x)

Spec == Init /\ [][Next]_<<sent, rcvd>>
============================================================================
