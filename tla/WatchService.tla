---------------------------- MODULE WatchService ---------------------------
(***************************************************************************)
(* What a watcher is promised (README.md): a client whose request was      *)
(* acknowledged sees, as they are logged, lines that satisfy its filter,   *)
(* each at most once and in order; a refused client sees nothing more.     *)
(***************************************************************************)
EXTENDS Naturals, Sequences

CONSTANTS Client,
          Ack, Nack,     \* the answers to a request
          LastLine,      \* the number of the last line logged
          Matches(_, _)  \* whether a client's filter accepts a line

VARIABLES screen,  \* what each client has received: Ack, Nack or a line
          line     \* the number of the newest line

Has(c, x) == \E i \in 1..Len(screen[c]) : screen[c][i] = x

Show(c, x) == screen' = [screen EXCEPT ![c] = Append(@, x)]

Init ==
    /\ screen = [c \in Client |-> << >>]
    /\ line = 0

Log ==
    /\ line < LastLine
    /\ line' = line + 1
    /\ UNCHANGED screen

Acknowledge(c) ==
    /\ ~Has(c, Ack) /\ ~Has(c, Nack)
    /\ Show(c, Ack)
    /\ UNCHANGED line

Refuse(c) ==
    /\ ~Has(c, Nack)
    /\ Show(c, Nack)
    /\ UNCHANGED line

Notify(c) ==
    /\ Has(c, Ack) /\ ~Has(c, Nack)
    /\ Matches(c, line)
    /\ ~Has(c, line)
    /\ Show(c, line)
    /\ UNCHANGED line

Next == Log \/ \E c \in Client : Acknowledge(c) \/ Refuse(c) \/ Notify(c)

Spec == Init /\ [][Next]_<<screen, line>>
============================================================================
