------------------------------ MODULE Framing ------------------------------
(***************************************************************************)
(* How the server cuts the byte stream of one connection into requests:    *)
(* dataHandler and recvPacket of watchserver.c over recvData of            *)
(* socketevent.c, on an edge-triggered, non-blocking socket.               *)
(*                                                                         *)
(* The client writes Packets packets one after the other, each a head of   *)
(* HeadLen bytes and a body.  A byte is named by its position in the       *)
(* stream, so that the content of a buffer is the positions it holds.      *)
(* Bytes arrive in pieces of any size at any time; a call of recv is one   *)
(* step and takes what is there.  A head may announce any length: nothing  *)
(* compares it with the buffer.  (A negative one makes recv take whatever  *)
(* there is, as one beyond the buffer does.)                               *)
(***************************************************************************)
EXTENDS Integers, Sequences, FiniteSetsExt

CONSTANTS
    Packets,   \* how many packets the client writes
    HeadLen,   \* sizeof(protoHead_t)
    BufSize,   \* MAX_REMAINING_BUF_LEN
    ReqLen,    \* sizeof(commuHead_t), the length processRequest accepts
    Start,     \* where each packet begins; the last entry is where the stream ends
    DataLen    \* the dataLen a head has that begins at a position

ASSUME FramingAssumption ==
    /\ Packets \in Nat
    /\ HeadLen \in Nat \ {0}
    /\ BufSize \in Nat /\ HeadLen <= BufSize
    /\ ReqLen \in Nat
    /\ Start \in [1..(Packets + 1) -> Nat]
    /\ DataLen \in [0..Start[Packets + 1] -> Nat]
    /\ Start[1] = 0
    /\ \A k \in 1..Packets :
          /\ DataLen[Start[k]] \in Nat
          /\ Start[k + 1] = Start[k] + HeadLen + DataLen[Start[k]]

Total == Start[Packets + 1]

VARIABLES
    arrived,       \* bytes the kernel has received
    fin,           \* the client has closed its end
    edge,          \* epoll holds an event of the connection
    got,           \* bytes recv has returned
    requireLen, remainIsHead, remainingLen, remaining,   \* eventConn_t
    pc,            \* "wait" in epoll_wait, "removed", or the recvData call:
                   \* "resume" of a partial item, a "head", a "body";
                   \* "overrun" once recv has written past remaining
    offset, len,   \* recvData's offset and length
    handled        \* history: the packets given to processRequest

stream == <<arrived, fin, edge>>
saved == <<requireLen, remainIsHead, remainingLen>>
call == <<pc, offset, len>>
vars == <<stream, got, saved, remaining, call, handled>>

Index == 0..(BufSize - 1)

Init ==
    /\ arrived = 0 /\ fin = FALSE /\ edge = FALSE
    /\ got = 0
    /\ requireLen = 0 /\ remainIsHead = FALSE /\ remainingLen = 0
    /\ remaining = [i \in Index |-> 0]
    /\ pc = "wait" /\ offset = 0 /\ len = 0
    /\ handled = << >>

(***************************************************************************)
(* The client and the network (external).                                  *)
(***************************************************************************)
Arrive ==
    /\ ~fin
    /\ \E n \in 1..(Total - arrived) : arrived' = arrived + n
    /\ edge' = TRUE
    /\ UNCHANGED <<fin, got, saved, remaining, call, handled>>

Finish ==
    /\ ~fin
    /\ fin' = TRUE
    /\ edge' = TRUE
    /\ UNCHANGED <<arrived, got, saved, remaining, call, handled>>

(***************************************************************************)
(* The server.                                                             *)
(***************************************************************************)
Call(site, length) ==
    /\ pc' = site
    /\ len' = length
    /\ offset' = 0

Remove == pc' = "removed" /\ UNCHANGED <<offset, len>>

(* The head of recvPacket: go on with a partial item, or begin a head.      *)
BeginPacket ==
    IF requireLen # 0 THEN Call("resume", requireLen) /\ UNCHANGED remainIsHead
    ELSE IF ~remainIsHead THEN Call("head", HeadLen) /\ remainIsHead' = TRUE
    ELSE Remove /\ UNCHANGED remainIsHead

(* dataHandler is called with an event; a hang-up removes the client        *)
(* before anything it sent is read.                                         *)
HandleEvent ==
    /\ pc = "wait" /\ edge
    /\ edge' = FALSE
    /\ IF fin THEN Remove /\ UNCHANGED remainIsHead ELSE BeginPacket
    /\ UNCHANGED <<arrived, fin, got, requireLen, remainingLen, remaining, handled>>

Receiving == pc \in {"resume", "head", "body"}

(* Where in remaining recvData writes.                                      *)
Base == IF pc = "resume" THEN remainingLen ELSE 0

RecvAll == arrived - got

RecvLen == IF len - offset < arrived - got THEN len - offset ELSE arrived - got

(* One recv that returns n bytes.                                           *)
RecvSome ==
    /\ Receiving /\ offset < len /\ got < arrived
    /\ LET n == RecvLen
           to == Base + offset
       IN /\ to + n <= BufSize
          /\ remaining' = [i \in Index |-> IF i >= to /\ i < to + n
                                           THEN got + (i - to) ELSE remaining[i]]
          /\ offset' = offset + n
          /\ got' = got + n
    /\ UNCHANGED <<stream, saved, pc, len, handled>>

(* One that returns more than remaining has room for: what follows is       *)
(* undefined, and the model stops there.                                    *)
Overrun ==
    /\ Receiving /\ offset < len /\ got < arrived
    /\ Base + offset + RecvLen > BufSize
    /\ pc' = "overrun"
    /\ UNCHANGED <<stream, saved, got, remaining, offset, len, handled>>

(* What is kept of a partial item until the next event.                     *)
MissingAll == len
Missing == len - offset

KeptOnce == offset
Kept == Base + offset

(* One recv that returns 0 (the client is gone) or EAGAIN.                  *)
RecvNothing ==
    /\ Receiving /\ offset < len
    /\ got = arrived
    /\ IF fin
          THEN Remove /\ UNCHANGED <<requireLen, remainingLen>>
          ELSE /\ pc' = "wait" /\ UNCHANGED <<offset, len>>
               /\ requireLen' = Missing /\ remainingLen' = Kept
    /\ UNCHANGED <<stream, got, remainIsHead, remaining, handled>>

(* The dataLen of the head that remaining holds: whatever the bytes say.    *)
HeadValues ==
    IF \A i \in 0..(HeadLen - 1) : remaining[i] = remaining[0] + i
       THEN {DataLen[remaining[0]]} ELSE 0..(BufSize + 1)

HeadDone ==
    /\ pc = "head" \/ (pc = "resume" /\ remainIsHead)
    /\ offset = len
    /\ requireLen' = 0
    /\ remainIsHead' = FALSE
    /\ \E length \in HeadValues : Call("body", length)
    /\ UNCHANGED <<stream, got, remainingLen, remaining, handled>>

WaitAgain == pc' = "wait" /\ UNCHANGED <<offset, len, remainIsHead>>

NextPacket == Call("head", HeadLen) /\ remainIsHead' = TRUE

(* A packet is complete: it goes to processRequest, which may refuse it;    *)
(* then dataHandler's loop turns, or the client is removed.                 *)
PacketDone ==
    /\ pc = "body" \/ (pc = "resume" /\ ~remainIsHead)
    /\ offset = len
    /\ LET readLen == Base + offset IN
       /\ handled' = Append(handled, [i \in 0..(readLen - 1) |-> remaining[i]])
       /\ \/ readLen = ReqLen /\ NextPacket
          \/ Remove /\ UNCHANGED remainIsHead
    /\ requireLen' = 0
    /\ UNCHANGED <<stream, got, remainingLen, remaining>>

Server == HandleEvent \/ RecvSome \/ Overrun \/ RecvNothing \/ HeadDone \/ PacketDone

Next == Arrive \/ Finish \/ Server

Spec == Init /\ [][Next]_vars

(* The event loop runs whenever there is something for it to do.            *)
FairSpec == Spec /\ WF_vars(Server)

----------------------------------------------------------------------------
Packet == UNION {[0..(n - 1) -> 0..Total] : n \in 0..BufSize}

TypeOK ==
    /\ arrived \in 0..Total /\ got \in 0..arrived
    /\ fin \in BOOLEAN /\ edge \in BOOLEAN
    /\ requireLen \in Nat /\ remainingLen \in 0..BufSize
    /\ remainIsHead \in BOOLEAN
    /\ remaining \in [Index -> 0..Total]
    /\ pc \in {"wait", "resume", "head", "body", "removed", "overrun"}
    /\ offset \in 0..BufSize /\ len \in Nat
    /\ offset <= len
    /\ handled \in Seq(Packet)

(* recvPacket writes past the end of the connection's buffer only for a     *)
(* packet whose own head announces more than the buffer, however the bytes  *)
(* of it and of the packets before it are spread over events.               *)
BufferFits ==
    pc = "overrun" =>
        /\ Len(handled) < Packets
        /\ DataLen[Start[Len(handled) + 1]] > BufSize

Body(k) == [i \in 0..(DataLen[Start[k]] - 1) |-> Start[k] + HeadLen + i]

(* processRequest gets the packets the client wrote, whole, unmixed and in  *)
(* order, wherever TCP cut them.                                            *)
Whole ==
    /\ Len(handled) <= Packets
    /\ \A k \in 1..Len(handled) : handled[k] = Body(k)

(* Edge triggering: while the thread waits with no event to come, nothing   *)
(* the client sent is unread and the next packet is not all there yet.      *)
NothingLeft ==
    (pc = "wait" /\ ~edge) =>
        /\ got = arrived /\ ~fin
        /\ Len(handled) < Packets => arrived < Start[Len(handled) + 2]

(* A packet that has arrived is handled in the end, or the client removed,  *)
(* unless an oversized one got in its way.                                  *)
EachHandled ==
    \A k \in 1..Packets :
        (arrived >= Start[k + 1]) ~> (Len(handled) >= k \/ pc \in {"removed", "overrun"})
============================================================================
