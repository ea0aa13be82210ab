--------------------------- MODULE FramingProofs ---------------------------
(***************************************************************************)
(* Theorems about Framing, for packets of any number and any lengths.      *)
(***************************************************************************)
EXTENDS Framing, TLAPS

(* The packet being received.                                               *)
K == Len(handled) + 1

(* While HeadPart, its head is being collected, else its body.              *)
HeadPart == remainIsHead \/ (pc = "wait" /\ requireLen = 0)

Origin == IF HeadPart THEN Start[K] ELSE Start[K] + HeadLen

Goal == IF HeadPart THEN HeadLen ELSE DataLen[Start[K]]

(* How much of it is in remaining.                                          *)
Filled == IF pc = "wait" THEN (IF requireLen = 0 THEN 0 ELSE remainingLen)
          ELSE Base + offset

(* What the code relies on between any two calls of recv: remaining holds   *)
(* exactly what has been read of the head or body at hand.                  *)
Position ==
    /\ got = Origin + Filled
    /\ \A i \in Nat : i < Filled => remaining[i] = Origin + i
    /\ ~HeadPart => K <= Packets

Lengths ==
    /\ pc = "wait" /\ requireLen # 0 => requireLen + remainingLen = Goal
    /\ pc = "wait" /\ requireLen = 0 => ~remainIsHead
    /\ pc = "resume" => /\ requireLen # 0 /\ len = requireLen
                        /\ len + remainingLen = Goal
    /\ pc \in {"head", "body"} => requireLen = 0 /\ len = Goal
    /\ pc = "head" => remainIsHead
    /\ pc = "body" => ~remainIsHead
    /\ Filled \in 0..BufSize

(* Only an oversized packet overruns the buffer.                            *)
Oversized == K <= Packets /\ DataLen[Start[K]] > BufSize

(* Every event not yet taken is still in edge.                              *)
Announced == (pc = "wait" /\ ~edge) => got = arrived /\ ~fin

IInv ==
    /\ Whole
    /\ Announced
    /\ pc = "overrun" => Oversized
    /\ pc \notin {"removed", "overrun"} => Position /\ Lengths

----------------------------------------------------------------------------
(* The entries of Start and DataLen that the proofs meet.                   *)
LEMMA Stream ==
    /\ Total \in Nat /\ Total = Start[Packets + 1]
    /\ Packets \in Nat /\ BufSize \in Nat /\ ReqLen \in Nat
    /\ HeadLen \in 1..BufSize
    /\ \A k \in 1..(Packets + 1) : Start[k] \in Nat
    /\ \A k \in 1..Packets :
          /\ DataLen[Start[k]] \in Nat
          /\ Start[k + 1] = Start[k] + HeadLen + DataLen[Start[k]]
BY FramingAssumption DEF Total

LEMMA InitOK == Init => TypeOK /\ IInv
<1> SUFFICES ASSUME Init PROVE TypeOK /\ IInv
  OBVIOUS
<1> USE Stream
<1>1. TypeOK
  <2>1. remaining \in [Index -> 0..Total]
    BY DEF Init
  <2>2. fin \in BOOLEAN /\ edge \in BOOLEAN /\ remainIsHead \in BOOLEAN
    BY DEF Init
  <2> QED
    BY <2>1, <2>2 DEF Init, TypeOK
<1>2. Whole /\ Announced /\ pc = "wait"
  BY DEF Init, Whole, Announced
<1>3. Len(handled) = 0 /\ K = 1
  BY DEF Init, K
<1>4. Start[1] = 0
  BY FramingAssumption
<1>5. Position /\ Lengths
  BY <1>3, <1>4 DEF Init, Position, Lengths, Origin, Goal, HeadPart, Filled
<1> QED
  BY <1>1, <1>2, <1>5 DEF IInv

(* Bytes and the end of the stream change nothing but the event.            *)
LEMMA ClientOK ==
    ASSUME TypeOK, IInv, Arrive \/ Finish
    PROVE  TypeOK' /\ IInv'
<1> USE Stream
<1>1. /\ UNCHANGED <<got, saved, remaining, call, handled>>
      /\ arrived' \in arrived..Total /\ arrived' \in Nat
      /\ fin' \in BOOLEAN /\ edge' = TRUE
  <2>1. CASE Arrive
    BY <2>1 DEF Arrive, TypeOK
  <2>2. CASE Finish
    BY <2>2 DEF Finish, TypeOK
  <2> QED
    BY <2>1, <2>2
<1>2. TypeOK'
  <2>1. remainIsHead' \in BOOLEAN /\ fin' \in BOOLEAN /\ edge' \in BOOLEAN
    BY <1>1 DEF TypeOK, saved
  <2>2. arrived' \in 0..Total /\ got' \in 0..arrived'
    BY <1>1 DEF TypeOK
  <2> QED
    BY <1>1, <2>1, <2>2 DEF TypeOK, saved, call
<1>3. Whole' /\ Announced' /\ (pc' = "overrun" => Oversized')
  BY <1>1 DEF IInv, Whole, Body, Announced, Oversized, K, call
<1>4. pc' \notin {"removed", "overrun"} => Position' /\ Lengths'
  BY <1>1 DEF IInv, Position, Lengths, Origin, Goal, HeadPart, Filled, Base, K, saved, call
<1> QED
  BY <1>2, <1>3, <1>4 DEF IInv

(* A packet resumed, or a new head: the collected part stays what it was.   *)
LEMMA HandleEventOK ==
    ASSUME TypeOK, IInv, HandleEvent
    PROVE  TypeOK' /\ IInv'
<1> USE Stream
<1>1. /\ UNCHANGED <<arrived, fin, got, requireLen, remainingLen, remaining, handled>>
      /\ pc = "wait" /\ edge' = FALSE
  BY DEF HandleEvent
<1>2. Position /\ Lengths
  BY <1>1 DEF IInv
<1>3. CASE fin
  <2>1. pc' = "removed" /\ UNCHANGED <<offset, len, remainIsHead>>
    BY <1>3 DEF HandleEvent, Remove
  <2>2. TypeOK'
    <3>1. remainIsHead' \in BOOLEAN /\ fin' \in BOOLEAN /\ edge' \in BOOLEAN
      BY <1>1, <2>1 DEF TypeOK
    <3> QED
      BY <1>1, <2>1, <3>1 DEF TypeOK
  <2> QED
    BY <1>1, <2>1, <2>2 DEF IInv, Whole, Body, Announced
<1>4. CASE ~fin /\ requireLen # 0
  <2>1. pc' = "resume" /\ len' = requireLen /\ offset' = 0 /\ UNCHANGED remainIsHead
    BY <1>4 DEF HandleEvent, BeginPacket, Call
  <2>2. TypeOK'
    <3>1. remainIsHead' \in BOOLEAN /\ fin' \in BOOLEAN /\ edge' \in BOOLEAN
      BY <1>1, <2>1 DEF TypeOK
    <3> QED
      BY <1>1, <2>1, <3>1 DEF TypeOK
  <2>3. Whole' /\ Announced'
    BY <1>1, <2>1 DEF IInv, Whole, Body, Announced
  <2>4. /\ K' = K /\ HeadPart' = HeadPart /\ Filled' = remainingLen /\ Filled = remainingLen
    BY <1>1, <1>4, <2>1 DEF K, HeadPart, Filled, Base, TypeOK
  <2>5. Position' /\ Lengths'
    BY <1>1, <1>2, <1>4, <2>1, <2>4 DEF Position, Lengths, Origin, Goal, TypeOK
  <2> QED
    BY <2>1, <2>2, <2>3, <2>5 DEF IInv
<1>5. CASE ~fin /\ requireLen = 0
  <2>1. ~remainIsHead
    BY <1>1, <1>2, <1>5 DEF Lengths
  <2>2. pc' = "head" /\ len' = HeadLen /\ offset' = 0 /\ remainIsHead' = TRUE
    BY <1>5, <2>1 DEF HandleEvent, BeginPacket, Call
  <2>3. TypeOK'
    <3>1. remainIsHead' \in BOOLEAN /\ fin' \in BOOLEAN /\ edge' \in BOOLEAN
      BY <1>1, <2>2 DEF TypeOK
    <3> QED
      BY <1>1, <2>2, <3>1 DEF TypeOK
  <2>4. Whole' /\ Announced'
    BY <1>1, <2>2 DEF IInv, Whole, Body, Announced
  <2>5. K' = K /\ HeadPart /\ HeadPart' /\ Filled' = 0 /\ Filled = 0
    BY <1>1, <1>5, <2>2 DEF K, HeadPart, Filled, Base
  <2>6. Position' /\ Lengths'
    BY <1>1, <1>2, <1>5, <2>2, <2>5 DEF Position, Lengths, Origin, Goal, TypeOK
  <2> QED
    BY <2>2, <2>3, <2>4, <2>6 DEF IInv
<1> QED
  BY <1>3, <1>4, <1>5

(* What recv returns is appended to the part already collected.             *)
LEMMA RecvSomeOK ==
    ASSUME TypeOK, IInv, RecvSome
    PROVE  TypeOK' /\ IInv'
<1> USE Stream
<1> DEFINE n == IF len - offset < arrived - got THEN len - offset ELSE arrived - got
           to == Base + offset
<1>1. /\ UNCHANGED <<stream, saved, pc, len, handled>>
      /\ pc \in {"resume", "head", "body"} /\ offset < len /\ got < arrived
      /\ remaining' = [i \in Index |-> IF i >= to /\ i < to + n
                                       THEN got + (i - to) ELSE remaining[i]]
      /\ offset' = offset + n /\ got' = got + n /\ to + n <= BufSize
  BY DEF RecvSome, RecvLen, Receiving
<1>2. /\ n \in Nat /\ n >= 1 /\ offset + n <= len /\ got + n <= arrived
      /\ got \in Nat /\ arrived \in 0..Total /\ offset \in Nat /\ len \in Nat
      /\ remainingLen \in 0..BufSize /\ remaining \in [Index -> 0..Total]
  BY <1>1 DEF TypeOK
<1>3. Position /\ Lengths
  BY <1>1 DEF IInv
<1>4. /\ to = Filled /\ to \in Nat /\ Filled' = to + n
      /\ K' = K /\ HeadPart' = HeadPart /\ Origin' = Origin /\ Goal' = Goal
  BY <1>1, <1>2 DEF Filled, Base, K, HeadPart, Origin, Goal, saved
<1>5. to + n <= Goal /\ Goal \in Nat /\ K \in Nat /\ Filled' \in 0..BufSize
  <2>1. K \in Nat /\ (~HeadPart => K \in 1..Packets)
    BY <1>3 DEF K, Position, TypeOK
  <2>2. Goal \in Nat
    BY <2>1 DEF Goal
  <2>3. Base + len = Goal
    BY <1>1, <1>2, <1>3, <2>2 DEF Lengths, Base
  <2> QED
    BY <1>1, <1>2, <1>4, <2>1, <2>2, <2>3 DEF Base
<1>6. Origin \in Int /\ got = Origin + to
  <2>1. K \in 1..(Packets + 1)
    BY <1>5 DEF IInv, Whole, K, TypeOK
  <2> QED
    BY <1>3, <1>4, <2>1 DEF Origin, Position
<1>7. \A i \in 0..(to + n - 1) : remaining'[i] = Origin + i
  <2> SUFFICES ASSUME NEW i \in 0..(to + n - 1) PROVE remaining'[i] = Origin + i
    OBVIOUS
  <2>1. i \in Index /\ remaining'[i] = IF i >= to /\ i < to + n THEN got + (i - to) ELSE remaining[i]
    BY <1>1, <1>2, <1>4 DEF Index
  <2>2. CASE i >= to
    BY <1>2, <1>4, <1>6, <2>1, <2>2
  <2>3. CASE i < to
    BY <1>2, <1>3, <1>4, <2>1, <2>3 DEF Position
  <2> QED
    BY <1>2, <1>4, <2>2, <2>3
<1>8. TypeOK'
  <2>1. remaining' \in [Index -> 0..Total]
    <3> SUFFICES ASSUME NEW i \in Index
                 PROVE  (IF i >= to /\ i < to + n THEN got + (i - to) ELSE remaining[i]) \in 0..Total
      BY <1>1
    <3>1. CASE i >= to /\ i < to + n
      <4>1. i \in Int /\ to \in Int /\ n \in Int
        BY <1>2, <1>4 DEF Index
      <4>2. i - to >= 0 /\ i - to < n /\ i - to \in Int
        BY <3>1, <4>1
      <4> HIDE DEF n, to
      <4> QED
        BY <1>2, <3>1, <4>1, <4>2
    <3>2. CASE ~(i >= to /\ i < to + n)
      BY <1>2, <3>2
    <3> QED
      BY <3>1, <3>2
  <2>2. remainIsHead' \in BOOLEAN /\ fin' \in BOOLEAN /\ edge' \in BOOLEAN
    BY <1>1 DEF TypeOK, stream, saved
  <2>3. offset' \in 0..BufSize /\ offset' <= len' /\ got' \in 0..arrived'
    BY <1>1, <1>2, <1>4 DEF stream, Base
  <2> QED
    BY <1>1, <2>1, <2>2, <2>3 DEF TypeOK, stream, saved
<1>9. Whole' /\ Announced'
  BY <1>1 DEF IInv, Whole, Body, Announced
<1>10. Position'
  <2>1. got' = Origin' + Filled'
    <3> HIDE DEF n, to
    <3> QED
      BY <1>1, <1>2, <1>4, <1>6
  <2>2. ASSUME NEW i \in Nat, i < Filled' PROVE remaining'[i] = Origin' + i
    <3>1. i \in 0..(to + n - 1)
      BY <1>2, <1>4, <2>2
    <3>2. remaining'[i] = Origin + i
      BY <1>7, <3>1
    <3> QED
      BY <1>4, <3>2
  <2>3. ~HeadPart' => K' <= Packets
    BY <1>3, <1>4 DEF Position
  <2> QED
    BY <2>1, <2>2, <2>3 DEF Position
<1>11. Lengths'
  BY <1>1, <1>3, <1>4, <1>5 DEF Lengths, saved
<1> QED
  BY <1>1, <1>8, <1>9, <1>10, <1>11 DEF IInv

(* A recv that does not fit is the body of an oversized packet: a head and  *)
(* what is left of any other item fit.                                      *)
LEMMA OverrunOK ==
    ASSUME TypeOK, IInv, Overrun
    PROVE  TypeOK' /\ IInv'
<1> USE Stream
<1> DEFINE n == IF len - offset < arrived - got THEN len - offset ELSE arrived - got
<1>1. /\ UNCHANGED <<stream, saved, got, remaining, offset, len, handled>>
      /\ pc \in {"resume", "head", "body"} /\ offset < len /\ got < arrived
      /\ pc' = "overrun" /\ Base + offset + n > BufSize
  BY DEF Overrun, RecvLen, Receiving
<1>2. Position /\ Lengths
  BY <1>1 DEF IInv
<1>3. /\ n \in Nat /\ offset + n <= len
      /\ len \in Nat /\ offset \in Nat /\ Base \in Nat
  BY <1>1 DEF TypeOK, Base
<1>4. K \in Nat /\ (~HeadPart => K \in 1..Packets) /\ Goal \in Nat
  <2>1. K \in Nat /\ (~HeadPart => K \in 1..Packets)
    BY <1>2 DEF K, Position, TypeOK
  <2> QED
    BY <2>1 DEF Goal
<1>5. Base + len = Goal
  BY <1>1, <1>2, <1>3, <1>4 DEF Lengths, Base
<1>6. Goal > BufSize
  BY <1>1, <1>3, <1>4, <1>5
<1>7. Oversized'
  <2>1. ~HeadPart /\ K \in 1..Packets /\ DataLen[Start[K]] > BufSize
    BY <1>4, <1>6 DEF Goal
  <2> QED
    BY <1>1, <2>1 DEF Oversized, K
<1>8. TypeOK'
  <2>1. remainIsHead' \in BOOLEAN /\ fin' \in BOOLEAN /\ edge' \in BOOLEAN
    BY <1>1 DEF TypeOK, stream, saved
  <2> QED
    BY <1>1, <2>1 DEF TypeOK, stream, saved
<1>9. Whole' /\ Announced'
  BY <1>1 DEF IInv, Whole, Body, Announced
<1> QED
  BY <1>1, <1>7, <1>8, <1>9 DEF IInv

(* EAGAIN: what is missing and what is there still add up to the item.      *)
LEMMA RecvNothingOK ==
    ASSUME TypeOK, IInv, RecvNothing
    PROVE  TypeOK' /\ IInv'
<1> USE Stream
<1>1. /\ UNCHANGED <<stream, got, remainIsHead, remaining, handled, offset, len>>
      /\ pc \in {"resume", "head", "body"} /\ offset < len /\ got = arrived
  BY DEF RecvNothing, Receiving, Remove
<1>2. Position /\ Lengths
  BY <1>1 DEF IInv
<1>3. remainIsHead' \in BOOLEAN /\ fin' \in BOOLEAN /\ edge' \in BOOLEAN
  BY <1>1 DEF TypeOK, stream
<1>4. CASE fin
  <2>1. pc' = "removed" /\ UNCHANGED <<requireLen, remainingLen>>
    BY <1>4 DEF RecvNothing, Remove
  <2>2. TypeOK'
    BY <1>1, <1>3, <2>1 DEF TypeOK, stream
  <2> QED
    BY <1>1, <2>1, <2>2 DEF IInv, Whole, Body, Announced
<1>5. CASE ~fin
  <2>1. pc' = "wait" /\ requireLen' = Missing /\ remainingLen' = Kept
    BY <1>5 DEF RecvNothing
  <2>2. K' = K /\ K \in Nat /\ (HeadPart <=> remainIsHead) /\ (~HeadPart => K \in 1..Packets)
    BY <1>1, <1>2 DEF K, HeadPart, Position, TypeOK
  <2>3. Goal \in Nat
    BY <2>2 DEF Goal
  <2>4. /\ requireLen' = len - offset /\ requireLen' # 0
        /\ remainingLen' = Base + offset
        /\ requireLen' + remainingLen' = Goal
        /\ requireLen' \in Nat /\ remainingLen' \in 0..BufSize
    <3>1. /\ Base + len = Goal /\ Base \in 0..BufSize
          /\ pc = "resume" => len = requireLen /\ Base = remainingLen
          /\ pc # "resume" => Base = 0
      BY <1>1, <1>2, <2>3 DEF Lengths, Base, TypeOK
    <3>2. /\ offset \in 0..BufSize /\ len \in Nat /\ offset < len
          /\ Base + offset \in 0..BufSize
      BY <1>1, <1>2 DEF TypeOK, Lengths, Filled
    <3>3. requireLen' = len - offset /\ remainingLen' = Base + offset
      BY <2>1, <3>1, <3>2 DEF Missing, Kept
    <3> QED
      BY <2>3, <3>1, <3>2, <3>3
  <2>5. HeadPart' = HeadPart /\ Goal' = Goal /\ Origin' = Origin /\ Filled' = Filled
    BY <1>1, <2>1, <2>2, <2>4 DEF HeadPart, Goal, Origin, Filled, Base
  <2>6. TypeOK'
    BY <1>1, <1>3, <2>1, <2>4 DEF TypeOK, stream
  <2>7. Whole' /\ Announced'
    BY <1>1, <1>5 DEF IInv, Whole, Body, Announced, stream
  <2>8. Position' /\ Lengths'
    BY <1>1, <1>2, <2>1, <2>2, <2>4, <2>5 DEF Position, Lengths
  <2> QED
    BY <2>1, <2>6, <2>7, <2>8 DEF IInv
<1> QED
  BY <1>4, <1>5

(* When an item is complete remaining holds all of it, and nothing beyond   *)
(* it has been read.                                                        *)
LEMMA Complete ==
    ASSUME TypeOK, IInv, Receiving, offset = len
    PROVE  /\ Position /\ Lengths
           /\ K \in 1..Packets /\ (HeadPart <=> remainIsHead)
           /\ Filled = Goal /\ Goal \in 0..BufSize /\ Filled = Base + offset
           /\ got = Origin + Goal
           /\ \A i \in 0..(Goal - 1) : remaining[i] = Origin + i
<1> USE Stream
<1>1. pc \in {"resume", "head", "body"}
  BY DEF Receiving
<1>2. Position /\ Lengths
  BY <1>1 DEF IInv
<1>3. (HeadPart <=> remainIsHead) /\ Filled = Base + offset
  BY <1>1 DEF HeadPart, Filled
<1>4. K \in 1..(Packets + 1) /\ (~HeadPart => K \in 1..Packets)
  BY <1>2 DEF IInv, Whole, K, TypeOK, Position
<1>5. Goal \in Nat
  BY <1>4 DEF Goal
<1>6. Filled = Goal /\ Goal \in 0..BufSize
  BY <1>1, <1>2, <1>3, <1>5 DEF Lengths, Base, TypeOK
<1>7. K \in 1..Packets
  <2> SUFFICES ASSUME K = Packets + 1 PROVE FALSE
    BY <1>4
  <2>1. HeadPart
    BY <1>4
  <2>2. Origin = Total /\ Goal = HeadLen
    BY <2>1 DEF Origin, Goal
  <2> QED
    BY <1>2, <1>6, <2>2 DEF Position, TypeOK
<1> QED
  BY <1>2, <1>3, <1>5, <1>6, <1>7 DEF Position

(* The dataLen that is read is the one of packet K.                         *)
LEMMA HeadDoneOK ==
    ASSUME TypeOK, IInv, HeadDone
    PROVE  TypeOK' /\ IInv'
<1> USE Stream
<1>1. /\ UNCHANGED <<stream, got, remainingLen, remaining, handled>>
      /\ Receiving /\ offset = len /\ remainIsHead
      /\ requireLen' = 0 /\ remainIsHead' = FALSE
  BY DEF HeadDone, IInv, Lengths, Receiving
<1>2. /\ Position /\ Lengths /\ K \in 1..Packets /\ HeadPart
      /\ Goal = HeadLen /\ Origin = Start[K] /\ got = Start[K] + HeadLen
      /\ \A i \in 0..(HeadLen - 1) : remaining[i] = Start[K] + i
  BY <1>1, Complete DEF Goal, Origin
<1>3. HeadValues = {DataLen[Start[K]]}
  <2>1. remaining[0] = Start[K]
    BY <1>2
  <2> QED
    BY <1>2, <2>1 DEF HeadValues
<1>4. pc' = "body" /\ len' = DataLen[Start[K]] /\ offset' = 0
  BY <1>3 DEF HeadDone, Call
<1>5. /\ K' = K /\ ~HeadPart' /\ Filled' = 0
      /\ Origin' = Start[K] + HeadLen /\ Goal' = DataLen[Start[K]]
  BY <1>1, <1>4 DEF K, HeadPart, Filled, Base, Origin, Goal
<1>6. TypeOK'
  <2>1. remainIsHead' \in BOOLEAN /\ fin' \in BOOLEAN /\ edge' \in BOOLEAN
    BY <1>1 DEF TypeOK, stream
  <2> QED
    BY <1>1, <1>2, <1>4, <2>1 DEF TypeOK, stream
<1>7. Whole' /\ Announced'
  BY <1>1, <1>4 DEF IInv, Whole, Body, Announced
<1>8. Position' /\ Lengths'
  BY <1>1, <1>2, <1>4, <1>5 DEF Position, Lengths
<1> QED
  BY <1>4, <1>6, <1>7, <1>8 DEF IInv

(* What is handed over is the body of packet K, and the stream stands at    *)
(* the head of the next one.                                                *)
LEMMA PacketDoneOK ==
    ASSUME TypeOK, IInv, PacketDone
    PROVE  TypeOK' /\ IInv'
<1> USE Stream
<1> DEFINE readLen == Base + offset
           p == [i \in 0..(readLen - 1) |-> remaining[i]]
<1>1. /\ UNCHANGED <<stream, got, remainingLen, remaining>>
      /\ Receiving /\ offset = len /\ ~remainIsHead
      /\ requireLen' = 0
      /\ handled' = Append(handled, p)
  BY DEF PacketDone, IInv, Lengths, Receiving
<1>2. /\ K \in 1..Packets /\ readLen = DataLen[Start[K]]
      /\ readLen \in 0..BufSize
      /\ got = Start[K + 1]
      /\ \A i \in 0..(readLen - 1) : remaining[i] = Start[K] + HeadLen + i
  BY <1>1, Complete DEF Goal, Origin
<1>3. p = Body(K)
  BY <1>2 DEF Body
<1>4. p \in Packet
  <2>1. \A i \in 0..(readLen - 1) : i \in Index /\ remaining[i] \in 0..Total
    <3> SUFFICES ASSUME NEW i \in 0..(readLen - 1)
                 PROVE  i \in Index /\ remaining[i] \in 0..Total
      OBVIOUS
    <3> HIDE DEF readLen
    <3>1. i \in Index
      BY <1>2 DEF Index
    <3>2. remaining \in [Index -> 0..Total]
      BY DEF TypeOK
    <3> QED
      BY <3>1, <3>2
  <2>2. p \in [0..(readLen - 1) -> 0..Total]
    BY <2>1
  <2> HIDE DEF p, readLen
  <2> QED
    BY <1>2, <2>2 DEF Packet
<1> HIDE DEF p, readLen
<1>5. handled \in Seq(Packet) /\ handled' \in Seq(Packet) /\ K' = K + 1 /\ Len(handled') = K
  BY <1>1, <1>4 DEF K, TypeOK
<1>6. Whole'
  <2> SUFFICES ASSUME NEW k \in 1..K PROVE handled'[k] = Body(k)
    BY <1>2, <1>5 DEF Whole, Body
  <2>1. CASE k = K
    BY <1>1, <1>3, <1>5, <2>1 DEF K
  <2>2. CASE k < K
    BY <1>1, <1>2, <1>5, <2>2 DEF IInv, Whole, K
  <2> QED
    BY <1>2, <2>1, <2>2
<1>7. remainIsHead' \in BOOLEAN /\ fin' \in BOOLEAN /\ edge' \in BOOLEAN
  BY <1>1 DEF TypeOK, stream, PacketDone, NextPacket, Remove
<1>8. CASE pc' = "head" /\ len' = HeadLen /\ offset' = 0 /\ remainIsHead' = TRUE
  <2>1. TypeOK'
    BY <1>1, <1>5, <1>7, <1>8 DEF TypeOK, stream
  <2>2. HeadPart' /\ Filled' = 0 /\ Origin' = Start[K + 1] /\ Goal' = HeadLen
    BY <1>5, <1>8 DEF HeadPart, Filled, Base, Origin, Goal
  <2>3. Position' /\ Lengths'
    BY <1>1, <1>2, <1>8, <2>2 DEF Position, Lengths
  <2> QED
    BY <1>6, <1>8, <2>1, <2>3 DEF IInv, Announced
<1>9. CASE pc' = "removed" /\ UNCHANGED <<offset, len, remainIsHead>>
  <2>1. TypeOK'
    BY <1>1, <1>5, <1>7, <1>9 DEF TypeOK, stream
  <2> QED
    BY <1>6, <1>9, <2>1 DEF IInv, Announced
<1> QED
  BY <1>8, <1>9 DEF PacketDone, NextPacket, Call, Remove

----------------------------------------------------------------------------
(* The inductive invariant holds in every behaviour.                        *)
THEOREM Invariance == Spec => [](TypeOK /\ IInv)
<1>1. TypeOK /\ IInv /\ [Next]_vars => TypeOK' /\ IInv'
  <2> SUFFICES ASSUME TypeOK, IInv, [Next]_vars PROVE TypeOK' /\ IInv'
    OBVIOUS
  <2>1. CASE UNCHANGED vars
    <3>1. TypeOK'
      BY <2>1 DEF TypeOK, vars, stream, saved, call
    <3>2. Whole' /\ Announced' /\ (pc' = "overrun" => Oversized')
      BY <2>1 DEF IInv, Whole, Body, Announced, Oversized, K, vars, stream, call
    <3>3. pc' \notin {"removed", "overrun"} => Position' /\ Lengths'
      BY <2>1 DEF IInv, Position, Lengths, Origin, Goal, HeadPart, Filled, Base, K,
                  vars, saved, call
    <3> QED
      BY <3>1, <3>2, <3>3 DEF IInv
  <2> QED
    BY <2>1, ClientOK, HandleEventOK, RecvSomeOK, OverrunOK, RecvNothingOK, HeadDoneOK, PacketDoneOK
    DEF Next, Server
<1> QED
  BY <1>1, InitOK, PTL DEF Spec

(* TypeOK, for a stream of any packets.                                     *)
THEOREM TypeCorrect == Spec => []TypeOK
BY Invariance, PTL

(* processRequest gets exactly the bodies the client wrote, in order: no    *)
(* byte of recvPacket's buffer is lost, repeated or taken for another's.    *)
THEOREM PacketsWhole == Spec => []Whole
<1>1. TypeOK /\ IInv => Whole
  BY DEF IInv
<1> QED
  BY <1>1, Invariance, PTL

(* recvData writes past the buffer only where the head of the very packet   *)
(* it is reading announces more than the buffer holds: no cut of the stream *)
(* and no packet before it makes it do so.                                  *)
THEOREM NoOverrun == Spec => []BufferFits
<1>1. TypeOK /\ IInv => BufferFits
  BY Stream DEF IInv, Oversized, K, BufferFits, TypeOK
<1> QED
  BY <1>1, Invariance, PTL

(* Edge triggering: no byte and no complete packet is left behind by a      *)
(* connection that waits with no event to come.                             *)
THEOREM NoneLeftBehind == Spec => []NothingLeft
<1>1. TypeOK /\ IInv => NothingLeft
  <2> SUFFICES ASSUME TypeOK, IInv, pc = "wait", ~edge, Len(handled) < Packets
               PROVE  arrived < Start[Len(handled) + 2]
    BY DEF NothingLeft, IInv, Announced
  <2> USE Stream
  <2>1. Position /\ Lengths /\ got = arrived
    BY DEF IInv, Announced
  <2>2. K \in 1..Packets /\ Len(handled) + 2 = K + 1
    BY DEF K, TypeOK
  <2>3. Goal \in Nat /\ Origin + Goal <= Start[K + 1]
    <3>1. /\ Start[K] \in Nat /\ DataLen[Start[K]] \in Nat
          /\ Start[K + 1] = Start[K] + HeadLen + DataLen[Start[K]]
      BY <2>2
    <3>2. CASE HeadPart
      BY <3>1, <3>2 DEF Goal, Origin
    <3>3. CASE ~HeadPart
      BY <3>1, <3>3 DEF Goal, Origin
    <3> QED
      BY <3>2, <3>3
  <2>4. requireLen # 0 => Filled < Goal
    BY <2>1, <2>3 DEF Lengths, Filled, TypeOK
  <2>5. requireLen = 0 => HeadPart /\ Filled < Goal
    BY <2>1 DEF HeadPart, Filled, Goal
  <2>6. Filled < Goal /\ Filled \in Int /\ Origin \in Int
    <3>1. Filled \in Int
      BY DEF Filled, TypeOK, Base
    <3>2. Origin \in Int
      BY <2>2 DEF Origin
    <3> QED
      BY <2>4, <2>5, <3>1, <3>2
  <2>7. got = Origin + Filled /\ Start[K + 1] \in Nat
    BY <2>1, <2>2 DEF Position
  <2> QED
    BY <2>1, <2>2, <2>3, <2>6, <2>7
<1> QED
  BY <1>1, Invariance, PTL
============================================================================
