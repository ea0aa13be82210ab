------------------------- MODULE LogPipelineProofs -------------------------
(***************************************************************************)
(* Proofs about LogPipeline for every set of heap addresses below 4 GB,    *)
(* every pipe capacity and every outcome of starting the threads.          *)
(***************************************************************************)
EXTENDS LogPipeline, TLAPS

(* How many lines the dispatch thread has taken out of the pipe: the ones   *)
(* it has handled and the one it still holds unhandled.                     *)
HoldsNew == dpc \in {"load", "store", "test", "clamp", "deliver"}

Taken == Len(handled) + (IF HoldsNew THEN 1 ELSE 0)

(* Lines are put in the order they are received, each once, and the line    *)
(* being copied has not been put.                                           *)
SentIncreases ==
    /\ \A i, j \in 1..Len(sent) : i < j => sent[i] < sent[j]
    /\ \A i \in 1..Len(sent) : /\ sent[i] \in 1..MaxLines
                               /\ sent[i] <= received
                               /\ mpc \in {"alloc", "write"} => sent[i] < received
    /\ received \in 0..MaxLines
    /\ mpc \in {"alloc", "write"} => received > 0

(* What is handled is the beginning of what was put, and the pipe holds the *)
(* copies of the rest, in order.                                            *)
PipeHoldsRest ==
    /\ Len(sent) = Taken + Len(pipe)
    /\ Len(pipe) <= Capacity
    /\ \A i \in 1..Len(handled) : handled[i] = sent[i]
    /\ \A i \in 1..Len(pipe) : /\ Ptr(pipe[i]) \in Addr
                               /\ heap[Ptr(pipe[i])] = sent[Taken + i]

(* What each thread holds is live: the copy being put and the copy taken.   *)
HandsLive ==
    /\ ~crashed /\ dpc # "crashed"
    /\ obj.hi = 0
    /\ mpc = "start" => dpc = "absent"
    /\ mpc = "write" => cur \in Addr /\ heap[cur] = received
    /\ HoldsNew => obj \in Addr /\ heap[obj] = sent[Taken]
    /\ dpc = "free" => /\ obj \in Addr
                       /\ Len(handled) > 0
                       /\ heap[obj] = sent[Len(handled)]

(* Nothing else is live.                                                    *)
NoneElseLive ==
    \A a \in Addr : heap[a] # 0 =>
        \/ mpc = "write" /\ a = cur
        \/ InPipe(a)
        \/ DispHolds /\ a = obj

IInv == SentIncreases /\ PipeHoldsRest /\ HandsLive /\ NoneElseLive

----------------------------------------------------------------------------
(* The low half of an address below 4 GB is the whole of it.                *)
LEMMA LowHalf == \A a \in Addr : a.lo \in Nat /\ a = Ptr(a.lo) /\ a # Null
<1> SUFFICES ASSUME NEW a \in Addr
             PROVE  a.lo \in Nat /\ a = Ptr(a.lo) /\ a # Null
  OBVIOUS
<1>1. a \in [hi : Nat, lo : Nat] /\ a.hi = 0 /\ a.lo # 0
  BY AddrAssumption
<1>2. a = [hi |-> a.hi, lo |-> a.lo]
  BY <1>1
<1> QED
  BY <1>1, <1>2 DEF Ptr, Null

(* Appending something larger than everything in an increasing sequence     *)
(* leaves it increasing.                                                    *)
LEMMA AppendIncreasing ==
    ASSUME NEW s \in Seq(Nat), NEW x \in Nat, NEW m \in Nat,
           \A i, j \in 1..Len(s) : i < j => s[i] < s[j],
           \A i \in 1..Len(s) : s[i] \in 1..m /\ s[i] < x,
           x \in 1..m
    PROVE  LET t == Append(s, x)
           IN  /\ \A i, j \in 1..Len(t) : i < j => t[i] < t[j]
               /\ \A i \in 1..Len(t) : t[i] \in 1..m /\ t[i] <= x
<1> DEFINE t == Append(s, x)
<1>1. /\ Len(t) = Len(s) + 1 /\ Len(s) \in Nat /\ t[Len(s) + 1] = x
      /\ \A i \in 1..Len(s) : t[i] = s[i]
  OBVIOUS
<1> HIDE DEF t
<1>2. ASSUME NEW i \in 1..Len(t) PROVE i \in 1..Len(s) \/ i = Len(s) + 1
  BY <1>1
<1>3. ASSUME NEW i \in 1..Len(t), NEW j \in 1..Len(t), i < j PROVE t[i] < t[j]
  <2>1. i \in 1..Len(s)
    BY <1>1, <1>3
  <2>2. CASE j \in 1..Len(s)
    BY <1>1, <1>3, <2>1, <2>2
  <2>3. CASE j = Len(s) + 1
    BY <1>1, <2>1, <2>3
  <2> QED
    BY <1>2, <2>2, <2>3
<1>4. ASSUME NEW i \in 1..Len(t) PROVE t[i] \in 1..m /\ t[i] <= x
  <2>1. CASE i \in 1..Len(s)
    BY <1>1, <2>1
  <2>2. CASE i = Len(s) + 1
    BY <1>1, <2>2
  <2> QED
    BY <1>2, <2>1, <2>2
<1> QED
  BY <1>3, <1>4 DEF t

(* Every step keeps the variables in their types.                           *)
THEOREM TypeCorrect == Spec => []TypeOK
<1>1. Init => TypeOK
  <2> SUFFICES ASSUME Init PROVE TypeOK
    OBVIOUS
  <2>1. Null \in [hi : Nat, lo : Nat]
    BY DEF Null
  <2>2. heap \in [Addr -> Nat]
    BY DEF Init
  <2>3. pipe \in Seq(Nat) /\ logged \in Seq(Nat) /\ sent \in Seq(Nat)
        /\ handled \in Seq(Nat)
    BY DEF Init
  <2>4. crashed \in BOOLEAN
    BY DEF Init
  <2> QED
    BY <2>1, <2>2, <2>3, <2>4 DEF Init, TypeOK, MainAt, DispAt
<1>2. TypeOK /\ [Next]_vars => TypeOK'
  <2> SUFFICES ASSUME TypeOK, [Next]_vars PROVE TypeOK'
    OBVIOUS
  <2> USE DEF TypeOK, MainAt, DispAt
  <2>1. CASE StartWatchServer
    BY <2>1, BoundAssumption DEF StartWatchServer
  <2>2. CASE Receive
    BY <2>2 DEF Receive, dispVars
  <2>3. CASE AllocObj
    <3>1. CASE Free = {}
      BY <2>3, <3>1 DEF AllocObj, dispVars
    <3>2. CASE Free # {}
      <4>1. PICK a \in Free : cur' = a /\ heap' = [heap EXCEPT ![a] = received]
        BY <2>3, <3>2 DEF AllocObj
      <4> QED
        BY <2>3, <3>2, <4>1 DEF AllocObj, Free, dispVars
    <3> QED
      BY <3>1, <3>2
  <2>4. CASE PutWrite
    <3>1. cur.lo \in Nat
      BY LowHalf DEF Null
    <3> QED
      BY <2>4, <3>1 DEF PutWrite, dispVars
  <2>5. CASE PutLoad
    BY <2>5 DEF PutLoad, dispVars
  <2>6. CASE PutStore
    BY <2>6 DEF PutStore, dispVars, PtrLen
  <2>7. CASE LogMsg
    BY <2>7 DEF LogMsg, dispVars
  <2>8. CASE GetRead
    <3>1. Head(pipe) \in Nat /\ Tail(pipe) \in Seq(Nat)
      <4>1. Len(pipe) > 0 /\ pipe \in Seq(Nat)
        BY <2>8 DEF GetRead
      <4> HIDE DEF TypeOK, MainAt, DispAt
      <4> QED
        BY <4>1
    <3> QED
      BY <2>8, <3>1 DEF GetRead, mainVars
  <2>9. CASE GetLoad
    BY <2>9 DEF GetLoad, mainVars
  <2>10. CASE GetStore
    BY <2>10 DEF GetStore, mainVars, PtrLen
  <2>11. CASE GetTest
    BY <2>11 DEF GetTest, mainVars
  <2>12. CASE GetClamp
    BY <2>12 DEF GetClamp, mainVars
  <2>13. CASE Deliver
    <3>1. CASE obj # Null /\ Live(obj)
      <4>1. heap[obj] \in Nat /\ handled' = Append(handled, heap[obj])
        BY <2>13, <3>1 DEF Deliver, Live
      <4> QED
        BY <2>13, <3>1, <4>1 DEF Deliver, mainVars
    <3>2. CASE ~(obj # Null /\ Live(obj))
      BY <2>13, <3>2 DEF Deliver, mainVars
    <3> QED
      BY <3>1, <3>2
  <2>14. CASE FreeObj
    <3>1. CASE Live(obj)
      <4>1. heap' = [heap EXCEPT ![obj] = 0] /\ UNCHANGED crashed /\ dpc' = "read"
        BY <2>14, <3>1, Zenon DEF FreeObj
      <4> QED
        BY <2>14, <3>1, <4>1 DEF FreeObj, mainVars
    <3>2. CASE ~Live(obj)
      BY <2>14, <3>2 DEF FreeObj, mainVars
    <3> QED
      BY <3>1, <3>2
  <2>15. CASE UNCHANGED vars
    BY <2>15 DEF vars
  <2> QED
    BY <2>1, <2>2, <2>3, <2>4, <2>5, <2>6, <2>7, <2>8, <2>9, <2>10, <2>11,
       <2>12, <2>13, <2>14, <2>15 DEF Next, Main, Disp
<1> QED
  BY <1>1, <1>2, PTL DEF Spec

(* The invariant that the ownership and the order of the copies rest on.    *)
THEOREM Invariance == Spec => [](TypeOK /\ IInv)
<1>1. Init => IInv
  BY BoundAssumption DEF Init, IInv, SentIncreases, PipeHoldsRest, Taken, HoldsNew,
     HandsLive, NoneElseLive, Null
<1>2. TypeOK /\ TypeOK' /\ IInv /\ [Next]_vars => IInv'
  <2> SUFFICES ASSUME TypeOK, TypeOK', IInv, [Next]_vars PROVE IInv'
    OBVIOUS
  <2>a. /\ Len(sent) \in Nat /\ Len(pipe) \in Nat /\ Len(handled) \in Nat
        /\ MaxLines \in Nat /\ Capacity \in Nat /\ received \in Nat
    <3>1. MaxLines \in Nat /\ Capacity \in Nat
      BY BoundAssumption
    <3>2. received \in Nat /\ sent \in Seq(Nat) /\ pipe \in Seq(Nat) /\ handled \in Seq(Nat)
      BY DEF TypeOK
    <3> QED
      BY <3>1, <3>2
  <2>b. /\ Len(sent) = Taken + Len(pipe) /\ Taken \in Nat
        /\ HoldsNew => Taken = Len(handled) + 1
        /\ ~HoldsNew => Taken = Len(handled)
    BY <2>a DEF IInv, PipeHoldsRest, Taken
  <2>c. \A i \in 1..Len(sent) : sent[i] \in 1..MaxLines /\ sent[i] \in Nat /\ sent[i] # 0
    BY <2>a DEF IInv, SentIncreases
  <2>d. HoldsNew => Taken \in 1..Len(sent)
    BY <2>a, <2>b
  <2>e. dpc = "free" => Len(handled) \in 1..Len(sent)
    BY <2>a, <2>b DEF IInv, HandsLive
  <2> USE DEF TypeOK, MainAt, DispAt, IInv
  <2>1. CASE StartWatchServer
    <3>1. SentIncreases'
      BY <2>1 DEF StartWatchServer, dispVars, SentIncreases
    <3>2. PipeHoldsRest'
      BY <2>1 DEF StartWatchServer, PipeHoldsRest, HandsLive, Taken, HoldsNew, Ptr
    <3>3. HandsLive'
      BY <2>1 DEF StartWatchServer, dispVars, HandsLive, PipeHoldsRest, SentIncreases, HoldsNew, Taken, Ptr
    <3>4. NoneElseLive'
      BY <2>1 DEF StartWatchServer, NoneElseLive, InPipe, DispHolds, HandsLive
    <3> QED
      BY <3>1, <3>2, <3>3, <3>4
  <2>2. CASE Receive
    <3>1. SentIncreases'
      <4>1. /\ received < MaxLines /\ received' = received + 1 /\ UNCHANGED sent
            /\ mpc' = "alloc"
        BY <2>2 DEF Receive
      <4>2. received' \in 0..MaxLines /\ received' > 0 /\ received < received'
        BY <2>a, <4>1
      <4>3. \A i \in 1..Len(sent) : sent[i] \in 1..MaxLines /\ sent[i] <= received
        BY DEF SentIncreases
      <4>4. ASSUME NEW i \in 1..Len(sent)
            PROVE  sent[i] < received' /\ sent[i] <= received'
        <5>1. sent[i] \in Nat /\ sent[i] <= received
          BY <2>c, <4>3
        <5>2. received \in Nat /\ received' = received + 1
          BY <2>a, <4>1
        <5> HIDE DEF TypeOK, MainAt, DispAt, IInv
        <5> QED
          BY <5>1, <5>2
      <4>5. \A i, j \in 1..Len(sent') : i < j => sent'[i] < sent'[j]
        BY <4>1 DEF SentIncreases
      <4> QED
        BY <4>1, <4>2, <4>3, <4>4, <4>5 DEF SentIncreases
    <3>2. PipeHoldsRest'
      BY <2>2 DEF Receive, dispVars, PipeHoldsRest, Taken, HoldsNew, Ptr
    <3>3. HandsLive'
      BY <2>2 DEF Receive, dispVars, HandsLive, PipeHoldsRest, SentIncreases, HoldsNew, Taken, Ptr
    <3>4. NoneElseLive'
      BY <2>2 DEF Receive, dispVars, NoneElseLive, InPipe, DispHolds, Ptr, HandsLive, HoldsNew
    <3> QED
      BY <3>1, <3>2, <3>3, <3>4
  <2>3. CASE AllocObj
    <3>1. SentIncreases'
      BY <2>3 DEF AllocObj, Free, dispVars, SentIncreases
    <3>2. PipeHoldsRest'
      <4>1. CASE Free = {}
        BY <2>3, <4>1 DEF AllocObj, dispVars, PipeHoldsRest, Taken, HoldsNew, Ptr
      <4>2. CASE Free # {}
        <5>1. PICK a \in Free : heap' = [heap EXCEPT ![a] = received]
          BY <2>3, <4>2 DEF AllocObj
        <5>2. UNCHANGED <<sent, handled, pipe, dpc>>
          BY <2>3 DEF AllocObj, dispVars
        <5>3. ASSUME NEW i \in 1..Len(pipe)
              PROVE  /\ Ptr(pipe[i]) \in Addr
                     /\ heap'[Ptr(pipe[i])] = sent[Taken + i]
          <6>1. Ptr(pipe[i]) \in Addr /\ heap[Ptr(pipe[i])] = sent[Taken + i]
            BY <5>3 DEF PipeHoldsRest
          <6>2. Taken + i \in 1..Len(sent)
            BY <2>a, <2>b, <5>3
          <6>3. sent[Taken + i] # 0
            BY <2>c, <6>2
          <6> QED
            BY <5>1, <6>1, <6>3 DEF Free
        <5> QED
          BY <5>2, <5>3 DEF PipeHoldsRest, Taken, HoldsNew
      <4> QED
        BY <4>1, <4>2
    <3>3. HandsLive'
      <4>1. CASE Free = {}
        BY <2>3, <4>1 DEF AllocObj, dispVars, HandsLive, Taken, HoldsNew
      <4>2. CASE Free # {}
        <5>1. PICK a \in Free : heap' = [heap EXCEPT ![a] = received] /\ cur' = a
          BY <2>3, <4>2 DEF AllocObj
        <5>2. UNCHANGED <<sent, handled, obj, dpc, crashed, received>>
          BY <2>3 DEF AllocObj, dispVars
        <5>3. ASSUME HoldsNew PROVE obj \in Addr /\ heap'[obj] = sent[Taken]
          <6>1. obj \in Addr /\ heap[obj] = sent[Taken] /\ sent[Taken] # 0
            BY <5>3, <2>c, <2>d DEF HandsLive
          <6> QED
            BY <5>1, <6>1 DEF Free
        <5>4. ASSUME dpc = "free"
              PROVE  /\ obj \in Addr /\ Len(handled) > 0
                     /\ heap'[obj] = sent[Len(handled)]
          <6>1. /\ obj \in Addr /\ heap[obj] = sent[Len(handled)]
                /\ Len(handled) > 0 /\ sent[Len(handled)] # 0
            BY <5>4, <2>c, <2>e DEF HandsLive
          <6> QED
            BY <5>1, <6>1 DEF Free
        <5>5. mpc' # "start" /\ cur' \in Addr /\ heap'[cur'] = received'
          BY <2>3, <4>2, <5>1, <5>2 DEF AllocObj, Free
        <5> QED
          BY <5>2, <5>3, <5>4, <5>5 DEF HandsLive, Taken, HoldsNew
      <4> QED
        BY <4>1, <4>2
    <3>4. NoneElseLive'
      BY <2>3 DEF AllocObj, Free, dispVars, NoneElseLive, InPipe, DispHolds, Ptr, HandsLive, HoldsNew
    <3> QED
      BY <3>1, <3>2, <3>3, <3>4
  <2>4. CASE PutWrite
    <3>1. SentIncreases'
      <4>1. sent' = Append(sent, received) /\ mpc' = "load" /\ UNCHANGED received
        BY <2>4 DEF PutWrite
      <4>2. received \in 1..MaxLines /\ \A i \in 1..Len(sent) : sent[i] < received
        <5>1. mpc \in {"alloc", "write"}
          BY <2>4 DEF PutWrite
        <5>2. received \in 0..MaxLines /\ received > 0
          BY <5>1 DEF SentIncreases
        <5>3. \A i \in 1..Len(sent) : sent[i] < received
          BY <5>1 DEF SentIncreases
        <5> HIDE DEF TypeOK, MainAt, DispAt, IInv
        <5> QED
          BY <2>a, <5>2, <5>3
      <4>3. /\ \A i, j \in 1..Len(sent') : i < j => sent'[i] < sent'[j]
            /\ \A i \in 1..Len(sent') : sent'[i] \in 1..MaxLines /\ sent'[i] <= received
        BY <2>a, <2>c, <4>1, <4>2, AppendIncreasing DEF SentIncreases
      <4> QED
        BY <2>a, <4>1, <4>2, <4>3 DEF SentIncreases
    <3>2. PipeHoldsRest'
      <4>1. /\ sent' = Append(sent, received) /\ pipe' = Append(pipe, cur.lo)
            /\ Len(pipe) < Capacity
            /\ UNCHANGED <<heap, handled, dpc>>
        BY <2>4 DEF PutWrite, dispVars
      <4>2. cur \in Addr /\ heap[cur] = received /\ cur = Ptr(cur.lo) /\ cur.lo \in Nat
        BY <2>4, LowHalf DEF PutWrite, HandsLive
      <4>3. /\ Len(sent') = Len(sent) + 1 /\ sent'[Len(sent) + 1] = received
            /\ \A i \in 1..Len(sent) : sent'[i] = sent[i]
        BY <4>1
      <4>4. /\ Len(pipe') = Len(pipe) + 1 /\ pipe'[Len(pipe) + 1] = cur.lo
            /\ \A i \in 1..Len(pipe) : pipe'[i] = pipe[i]
        BY <4>1, <4>2
      <4>5. Taken' = Taken /\ Taken \in Nat /\ Len(handled) <= Taken
        BY <2>a, <2>b, <4>1 DEF Taken, HoldsNew
      <4>6. Len(sent) = Taken + Len(pipe)
        BY DEF PipeHoldsRest
      <4>7. \A i \in 1..Len(handled') : handled'[i] = sent'[i]
        <5>1. handled' = handled /\ \A i \in 1..Len(handled) : handled[i] = sent[i]
          BY <4>1 DEF PipeHoldsRest
        <5> HIDE DEF TypeOK, MainAt, DispAt, IInv
        <5>2. \A i \in 1..Len(handled) : i \in 1..Len(sent)
          BY <2>a, <4>5, <4>6
        <5> QED
          BY <4>3, <5>1, <5>2
      <4>8. ASSUME NEW i \in 1..Len(pipe')
            PROVE  /\ Ptr(pipe'[i]) \in Addr
                   /\ heap'[Ptr(pipe'[i])] = sent'[Taken' + i]
        <5>1. CASE i = Len(pipe) + 1
          <6>1. Taken + i = Len(sent) + 1
            BY <2>a, <4>5, <4>6, <5>1
          <6> QED
            BY <4>1, <4>2, <4>3, <4>4, <4>5, <5>1, <6>1
        <5>2. CASE i \in 1..Len(pipe)
          <6>1. Taken + i \in 1..Len(sent)
            BY <2>a, <4>5, <4>6, <5>2
          <6> QED
            BY <4>1, <4>3, <4>4, <4>5, <5>2, <6>1 DEF PipeHoldsRest
        <5>3. i \in 1..Len(pipe) \/ i = Len(pipe) + 1
          <6>1. i \in 1..Len(pipe') /\ Len(pipe') = Len(pipe) + 1 /\ Len(pipe) \in Nat
            BY <2>a, <4>4, <4>8
          <6> HIDE DEF TypeOK, MainAt, DispAt, IInv
          <6> QED
            BY <6>1
        <5> QED
          BY <5>1, <5>2, <5>3
      <4>9. Len(sent') = Taken' + Len(pipe') /\ Len(pipe') <= Capacity
        <5>1. Len(sent') = Len(sent) + 1 /\ Len(pipe') = Len(pipe) + 1
          BY <4>3, <4>4
        <5>2. Taken' = Taken /\ Taken \in Nat /\ Len(pipe) < Capacity
          BY <4>1, <4>5
        <5> HIDE DEF TypeOK, MainAt, DispAt, IInv
        <5> QED
          BY <2>a, <4>6, <5>1, <5>2
      <4> QED
        BY <4>7, <4>8, <4>9 DEF PipeHoldsRest
    <3>3. HandsLive'
      <4>1. /\ sent' = Append(sent, received) /\ mpc' = "load"
            /\ UNCHANGED <<heap, handled, dpc, obj, crashed>>
        BY <2>4 DEF PutWrite, dispVars
      <4>2. \A i \in 1..Len(sent) : sent'[i] = sent[i]
        BY <4>1
      <4> QED
        BY <2>d, <2>e, <4>1, <4>2 DEF HandsLive, Taken, HoldsNew
    <3>4. NoneElseLive'
      <4>1. /\ pipe' = Append(pipe, cur.lo) /\ mpc = "write" /\ mpc' = "load"
            /\ UNCHANGED <<heap, dpc, obj>>
        BY <2>4 DEF PutWrite, dispVars
      <4>2. cur = Ptr(cur.lo) /\ cur.lo \in Nat
        BY <2>4, LowHalf DEF PutWrite, HandsLive
      <4>3. /\ Len(pipe') = Len(pipe) + 1 /\ pipe'[Len(pipe) + 1] = cur.lo
            /\ \A i \in 1..Len(pipe) : pipe'[i] = pipe[i]
        BY <4>1, <4>2
      <4>4. \A a : InPipe(a) => InPipe(a)'
        BY <4>3 DEF InPipe
      <4>5. InPipe(cur)'
        <5>1. cur' = cur /\ Len(pipe) + 1 \in 1..Len(pipe')
          BY <2>4, <2>a, <4>3 DEF PutWrite
        <5> QED
          BY <4>2, <4>3, <5>1 DEF InPipe, Ptr
      <4> QED
        BY <2>4, <4>1, <4>4, <4>5 DEF NoneElseLive, DispHolds, PutWrite
    <3> QED
      BY <3>1, <3>2, <3>3, <3>4
  <2>5. CASE PutLoad
    <3>1. SentIncreases'
      BY <2>5 DEF PutLoad, dispVars, SentIncreases
    <3>2. PipeHoldsRest'
      BY <2>5 DEF PutLoad, dispVars, PipeHoldsRest, Taken, HoldsNew, Ptr
    <3>3. HandsLive'
      BY <2>5 DEF PutLoad, dispVars, HandsLive, PipeHoldsRest, SentIncreases, HoldsNew, Taken, Ptr
    <3>4. NoneElseLive'
      BY <2>5 DEF PutLoad, dispVars, NoneElseLive, InPipe, DispHolds, Ptr, HandsLive, HoldsNew
    <3> QED
      BY <3>1, <3>2, <3>3, <3>4
  <2>6. CASE PutStore
    <3>1. SentIncreases'
      BY <2>6 DEF PutStore, dispVars, SentIncreases
    <3>2. PipeHoldsRest'
      BY <2>6 DEF PutStore, dispVars, PipeHoldsRest, Taken, HoldsNew, Ptr
    <3>3. HandsLive'
      BY <2>6 DEF PutStore, dispVars, HandsLive, PipeHoldsRest, SentIncreases, HoldsNew, Taken, Ptr
    <3>4. NoneElseLive'
      BY <2>6 DEF PutStore, dispVars, NoneElseLive, InPipe, DispHolds, Ptr, HandsLive, HoldsNew
    <3> QED
      BY <3>1, <3>2, <3>3, <3>4
  <2>7. CASE LogMsg
    <3>1. SentIncreases'
      BY <2>7 DEF LogMsg, dispVars, SentIncreases
    <3>2. PipeHoldsRest'
      BY <2>7 DEF LogMsg, dispVars, PipeHoldsRest, Taken, HoldsNew, Ptr
    <3>3. HandsLive'
      BY <2>7 DEF LogMsg, dispVars, HandsLive, PipeHoldsRest, SentIncreases, HoldsNew, Taken, Ptr
    <3>4. NoneElseLive'
      BY <2>7 DEF LogMsg, dispVars, NoneElseLive, InPipe, DispHolds, Ptr, HandsLive, HoldsNew
    <3> QED
      BY <3>1, <3>2, <3>3, <3>4
  <2>8. CASE GetRead
    <3>1. SentIncreases'
      BY <2>8 DEF GetRead, mainVars, SentIncreases
    <3>2. PipeHoldsRest'
      <4>1. /\ pipe' = Tail(pipe) /\ Len(pipe) > 0 /\ dpc = "read" /\ dpc' = "load"
            /\ UNCHANGED <<heap, sent, handled>>
        BY <2>8 DEF GetRead
      <4>2. Len(pipe') = Len(pipe) - 1 /\ \A i \in 1..Len(pipe') : pipe'[i] = pipe[i + 1]
        BY <4>1
      <4>3. Taken' = Taken + 1 /\ Taken \in Nat
        BY <4>1 DEF Taken, HoldsNew
      <4>4. ASSUME NEW i \in 1..Len(pipe')
            PROVE  /\ Ptr(pipe'[i]) \in Addr
                   /\ heap'[Ptr(pipe'[i])] = sent'[Taken' + i]
        <5>1. i + 1 \in 1..Len(pipe) /\ Taken' + i = Taken + (i + 1)
          BY <2>a, <4>2, <4>3, <4>4
        <5> QED
          BY <4>1, <4>2, <4>4, <5>1 DEF PipeHoldsRest
      <4>5. Len(sent') = Taken' + Len(pipe') /\ Len(pipe') <= Capacity
        <5>1. Len(pipe) <= Capacity /\ Len(sent') = Len(sent)
          BY <4>1 DEF PipeHoldsRest
        <5>2. Len(pipe') = Len(pipe) - 1 /\ Len(sent) = Taken + Len(pipe)
          BY <2>b, <4>2
        <5>3. Len(pipe) \in Nat /\ Capacity \in Nat
          BY <2>a
        <5> HIDE DEF TypeOK, MainAt, DispAt, IInv
        <5>4. Len(sent') = Taken' + Len(pipe')
          BY <4>3, <5>1, <5>2, <5>3
        <5>5. Len(pipe') <= Capacity
          BY <5>1, <5>2, <5>3
        <5> QED
          BY <5>4, <5>5
      <4> QED
        BY <4>1, <4>4, <4>5 DEF PipeHoldsRest
    <3>3. HandsLive'
      <4>1. /\ Len(pipe) > 0 /\ Head(pipe) = pipe[1] /\ pipe[1] \in Nat
            /\ dpc = "read" /\ dpc' = "load"
            /\ obj' = [obj EXCEPT !.lo = pipe[1]]
            /\ UNCHANGED <<heap, sent, handled, mpc, cur, received, crashed>>
        <5>1. /\ Len(pipe) > 0 /\ dpc = "read" /\ dpc' = "load"
              /\ obj' = [obj EXCEPT !.lo = Head(pipe)]
              /\ UNCHANGED <<heap, sent, handled, mpc, cur, received, crashed>>
          BY <2>8 DEF GetRead, mainVars
        <5>2. pipe \in Seq(Nat)
          OBVIOUS
        <5> HIDE DEF TypeOK, MainAt, DispAt, IInv
        <5>3. Head(pipe) = pipe[1] /\ pipe[1] \in Nat
          BY <5>1, <5>2
        <5> QED
          BY <5>1, <5>3
      <4>2. obj' = Ptr(pipe[1])
        BY <4>1 DEF HandsLive, Ptr
      <4>3. Taken' = Taken + 1
        BY <4>1 DEF Taken, HoldsNew
      <4>4. obj' \in Addr /\ heap'[obj'] = sent'[Taken']
        <5>1. 1 \in 1..Len(pipe)
          BY <2>a, <4>1
        <5>2. Ptr(pipe[1]) \in Addr /\ heap[Ptr(pipe[1])] = sent[Taken + 1]
          BY <5>1 DEF PipeHoldsRest
        <5> QED
          BY <4>1, <4>2, <4>3, <5>2
      <4> QED
        BY <4>1, <4>2, <4>4 DEF HandsLive, HoldsNew, Ptr
    <3>4. NoneElseLive'
      <4>1. /\ pipe' = Tail(pipe) /\ Len(pipe) > 0 /\ Head(pipe) = pipe[1]
            /\ dpc = "read" /\ dpc' = "load"
            /\ obj' = [obj EXCEPT !.lo = pipe[1]]
            /\ UNCHANGED <<heap, mpc, cur>>
        BY <2>8 DEF GetRead, mainVars
      <4>2. Len(pipe') = Len(pipe) - 1 /\ \A i \in 1..Len(pipe') : pipe'[i] = pipe[i + 1]
        BY <4>1
      <4>3. obj' = Ptr(pipe[1])
        BY <4>1 DEF HandsLive, Ptr
      <4>4. ASSUME NEW a, InPipe(a), a # obj' PROVE InPipe(a)'
        <5>1. PICK i \in 1..Len(pipe) : a = Ptr(pipe[i])
          BY <4>4 DEF InPipe
        <5>2. i # 1
          BY <4>3, <4>4, <5>1
        <5>3. i - 1 \in 1..Len(pipe') /\ pipe'[i - 1] = pipe[i]
          <6>1. i - 1 \in 1..Len(pipe') /\ (i - 1) + 1 = i
            BY <2>a, <4>2, <5>2
          <6> QED
            BY <4>2, <6>1
        <5> QED
          BY <5>1, <5>3 DEF InPipe, Ptr
      <4> QED
        BY <4>1, <4>4 DEF NoneElseLive, DispHolds
    <3> QED
      BY <3>1, <3>2, <3>3, <3>4
  <2>9. CASE GetLoad
    <3>1. SentIncreases'
      BY <2>9 DEF GetLoad, mainVars, SentIncreases
    <3>2. PipeHoldsRest'
      BY <2>9 DEF GetLoad, mainVars, PipeHoldsRest, Taken, HoldsNew, Ptr
    <3>3. HandsLive'
      BY <2>9 DEF GetLoad, mainVars, HandsLive, PipeHoldsRest, SentIncreases, HoldsNew, Taken, Ptr
    <3>4. NoneElseLive'
      BY <2>9 DEF GetLoad, mainVars, NoneElseLive, InPipe, DispHolds, Ptr, HandsLive, HoldsNew
    <3> QED
      BY <3>1, <3>2, <3>3, <3>4
  <2>10. CASE GetStore
    <3>1. SentIncreases'
      BY <2>10 DEF GetStore, mainVars, SentIncreases
    <3>2. PipeHoldsRest'
      BY <2>10 DEF GetStore, mainVars, PipeHoldsRest, Taken, HoldsNew, Ptr
    <3>3. HandsLive'
      BY <2>10 DEF GetStore, mainVars, HandsLive, PipeHoldsRest, SentIncreases, HoldsNew, Taken, Ptr
    <3>4. NoneElseLive'
      BY <2>10 DEF GetStore, mainVars, NoneElseLive, InPipe, DispHolds, Ptr, HandsLive, HoldsNew
    <3> QED
      BY <3>1, <3>2, <3>3, <3>4
  <2>11. CASE GetTest
    <3>1. SentIncreases'
      BY <2>11 DEF GetTest, mainVars, SentIncreases
    <3>2. PipeHoldsRest'
      BY <2>11 DEF GetTest, mainVars, PipeHoldsRest, Taken, HoldsNew, Ptr
    <3>3. HandsLive'
      BY <2>11 DEF GetTest, mainVars, HandsLive, PipeHoldsRest, SentIncreases, HoldsNew, Taken, Ptr
    <3>4. NoneElseLive'
      BY <2>11 DEF GetTest, mainVars, NoneElseLive, InPipe, DispHolds, Ptr, HandsLive, HoldsNew
    <3> QED
      BY <3>1, <3>2, <3>3, <3>4
  <2>12. CASE Deliver
    <3>0. obj # Null /\ Live(obj)
      <4>1. HoldsNew /\ Taken \in 1..Len(sent)
        BY <2>12, <2>d DEF Deliver, HoldsNew
      <4>2. obj \in Addr /\ heap[obj] = sent[Taken] /\ sent[Taken] # 0
        BY <4>1, <2>c DEF HandsLive
      <4> QED
        BY <4>2, LowHalf DEF Live
    <3>1. SentIncreases'
      BY <2>12 DEF Deliver, mainVars, Live, SentIncreases
    <3>2. PipeHoldsRest'
      <4>1. /\ handled' = Append(handled, heap[obj]) /\ dpc = "deliver" /\ dpc' = "free"
            /\ UNCHANGED <<heap, sent, pipe>>
        BY <2>12, <3>0 DEF Deliver
      <4>2. Taken = Len(handled) + 1 /\ heap[obj] = sent[Len(handled) + 1]
        BY <4>1 DEF Taken, HoldsNew, HandsLive
      <4>3. /\ Len(handled') = Len(handled) + 1
            /\ handled'[Len(handled) + 1] = sent[Len(handled) + 1]
            /\ \A i \in 1..Len(handled) : handled'[i] = handled[i]
        BY <4>1, <4>2
      <4>4. Taken' = Taken
        BY <4>1, <4>2, <4>3 DEF Taken, HoldsNew
      <4>5. \A i \in 1..Len(handled') : handled'[i] = sent'[i]
        <5>1. sent' = sent /\ \A i \in 1..Len(handled) : handled[i] = sent[i]
          BY <4>1 DEF PipeHoldsRest
        <5> HIDE DEF TypeOK, MainAt, DispAt, IInv
        <5> QED
          BY <2>a, <4>3, <5>1
      <4> QED
        BY <4>1, <4>4, <4>5 DEF PipeHoldsRest, Ptr
    <3>3. HandsLive'
      <4>1. /\ handled' = Append(handled, heap[obj]) /\ dpc = "deliver" /\ dpc' = "free"
            /\ UNCHANGED <<heap, sent, mpc, cur, received, obj, crashed>>
        BY <2>12, <3>0 DEF Deliver, mainVars
      <4>2. HoldsNew /\ Taken = Len(handled) + 1
        BY <4>1 DEF Taken, HoldsNew
      <4>3. Len(handled') = Len(handled) + 1
        BY <4>1
      <4>4. obj \in Addr /\ heap[obj] = sent[Taken]
        BY <4>2 DEF HandsLive
      <4>5. Len(handled') > 0 /\ heap'[obj'] = sent'[Len(handled')]
        <5> HIDE DEF TypeOK, MainAt, DispAt, IInv
        <5> QED
          BY <2>a, <4>1, <4>2, <4>3, <4>4
      <4>6. ~HoldsNew'
        BY <4>1 DEF HoldsNew
      <4> QED
        BY <4>1, <4>4, <4>5, <4>6 DEF HandsLive
    <3>4. NoneElseLive'
      BY <2>12, <3>0 DEF Deliver, mainVars, NoneElseLive, InPipe, DispHolds, Ptr
    <3> QED
      BY <3>1, <3>2, <3>3, <3>4
  <2>13. CASE GetClamp
    <3>1. SentIncreases'
      BY <2>13 DEF GetClamp, mainVars, SentIncreases
    <3>2. PipeHoldsRest'
      BY <2>13 DEF GetClamp, mainVars, PipeHoldsRest, Taken, HoldsNew, Ptr
    <3>3. HandsLive'
      BY <2>13 DEF GetClamp, mainVars, HandsLive, PipeHoldsRest, SentIncreases, HoldsNew, Taken, Ptr
    <3>4. NoneElseLive'
      BY <2>13 DEF GetClamp, mainVars, NoneElseLive, InPipe, DispHolds, Ptr, HandsLive, HoldsNew
    <3> QED
      BY <3>1, <3>2, <3>3, <3>4
  <2>14. CASE FreeObj
    <3>0. Live(obj)
      <4>1. Len(handled) \in 1..Len(sent) /\ obj \in Addr /\ heap[obj] = sent[Len(handled)]
        BY <2>14, <2>e DEF FreeObj, HandsLive
      <4> QED
        BY <4>1, <2>c DEF Live
    <3>1. SentIncreases'
      BY <2>14 DEF FreeObj, mainVars, Live, SentIncreases
    <3>2. PipeHoldsRest'
      <4>1. dpc = "free" /\ dpc' = "read" /\ heap' = [heap EXCEPT ![obj] = 0]
            /\ UNCHANGED <<sent, handled, pipe>>
        BY <2>14, <3>0 DEF FreeObj
      <4>2. Taken = Len(handled) /\ Taken' = Taken
        BY <4>1 DEF Taken, HoldsNew
      <4>3. ASSUME NEW i \in 1..Len(pipe)
            PROVE  /\ Ptr(pipe[i]) \in Addr
                   /\ heap'[Ptr(pipe[i])] = sent[Taken + i]
        <5>1. Ptr(pipe[i]) \in Addr /\ heap[Ptr(pipe[i])] = sent[Taken + i]
          BY <4>3 DEF PipeHoldsRest
        <5>2. Taken \in 1..Len(sent) /\ Taken + i \in 1..Len(sent) /\ Taken < Taken + i
          <6>1. Len(handled) \in 1..Len(sent) /\ Taken = Len(handled)
            BY <2>e, <4>1, <4>2
          <6>2. Len(sent) = Taken + Len(pipe) /\ i \in 1..Len(pipe)
            BY <2>b, <4>3
          <6> HIDE DEF TypeOK, MainAt, DispAt, IInv
          <6> QED
            BY <2>a, <6>1, <6>2
        <5>3. heap[obj] = sent[Taken] /\ sent[Taken] < sent[Taken + i]
          BY <4>1, <4>2, <5>2 DEF HandsLive, SentIncreases
        <5>4. sent[Taken] \in Nat /\ sent[Taken + i] \in Nat
          BY <2>c, <5>2
        <5>5. Ptr(pipe[i]) # obj
          <6>1. sent[Taken] # sent[Taken + i]
            <7> HIDE DEF TypeOK, MainAt, DispAt, IInv
            <7> QED
              BY <5>3, <5>4
          <6> QED
            BY <5>1, <5>3, <6>1
        <5> QED
          BY <4>1, <5>1, <5>5
      <4> QED
        BY <4>1, <4>2, <4>3 DEF PipeHoldsRest
    <3>3. HandsLive'
      <4>1. /\ dpc = "free" /\ dpc' = "read" /\ heap' = [heap EXCEPT ![obj] = 0]
            /\ UNCHANGED <<mpc, cur, received, obj, sent, handled, crashed>>
        BY <2>14, <3>0 DEF FreeObj, mainVars
      <4>2. ASSUME mpc = "write" PROVE cur \in Addr /\ heap'[cur] = received
        <5>1. cur \in Addr /\ heap[cur] = received /\ heap[obj] = sent[Len(handled)]
          BY <4>1, <4>2 DEF HandsLive
        <5>2. sent[Len(handled)] < received
          BY <2>e, <4>1, <4>2 DEF SentIncreases
        <5>3. sent[Len(handled)] \in Nat
          BY <2>c, <2>e, <4>1
        <5>4. sent[Len(handled)] # received
          <6> HIDE DEF TypeOK, MainAt, DispAt, IInv
          <6> QED
            BY <2>a, <5>2, <5>3
        <5>5. cur # obj
          BY <5>1, <5>4
        <5> QED
          BY <4>1, <5>1, <5>5
      <4>3. ~HoldsNew' /\ dpc' # "free"
        BY <4>1 DEF HoldsNew
      <4> QED
        BY <4>1, <4>2, <4>3 DEF HandsLive
    <3>4. NoneElseLive'
      <4>1. /\ dpc = "free" /\ dpc' = "read" /\ heap' = [heap EXCEPT ![obj] = 0]
            /\ UNCHANGED <<mpc, cur, obj, pipe>>
        BY <2>14, <3>0 DEF FreeObj, mainVars
      <4>2. ASSUME NEW a \in Addr, heap'[a] # 0
            PROVE  (mpc' = "write" /\ a = cur') \/ InPipe(a)'
        <5>1. a # obj /\ heap[a] # 0
          BY <4>1, <4>2 DEF HandsLive
        <5>2. InPipe(a) => InPipe(a)'
          BY <4>1 DEF InPipe, Ptr
        <5> QED
          BY <4>1, <5>1, <5>2 DEF NoneElseLive
      <4> QED
        BY <4>2 DEF NoneElseLive
    <3> QED
      BY <3>1, <3>2, <3>3, <3>4
  <2>15. CASE UNCHANGED vars
    <3> USE <2>15 DEF vars
    <3>1. SentIncreases'
      BY DEF SentIncreases
    <3>2. PipeHoldsRest'
      BY DEF PipeHoldsRest, Taken, HoldsNew, Ptr
    <3>3. HandsLive'
      BY DEF HandsLive, Taken, HoldsNew
    <3>4. NoneElseLive'
      BY DEF NoneElseLive, InPipe, DispHolds, Ptr
    <3> QED
      BY <3>1, <3>2, <3>3, <3>4
  <2> QED
    BY <2>1, <2>2, <2>3, <2>4, <2>5, <2>6, <2>7, <2>8, <2>9, <2>10, <2>11,
       <2>12, <2>13, <2>14, <2>15 DEF Next, Main, Disp
<1> QED
  BY <1>1, <1>2, TypeCorrect, PTL DEF Spec

----------------------------------------------------------------------------
(* The dispatch thread's copy is the last one taken from the pipe.          *)
LEMMA HeldIsLastTaken ==
    ASSUME TypeOK, IInv, DispHolds
    PROVE  obj \in Addr /\ Taken \in 1..Len(sent) /\ heap[obj] = sent[Taken]
<1>1. Len(sent) \in Nat /\ Len(pipe) \in Nat /\ Len(handled) \in Nat
  BY DEF TypeOK
<1>2. Len(sent) = Taken + Len(pipe)
  BY DEF IInv, PipeHoldsRest
<1>3. CASE HoldsNew
  <2>1. Taken = Len(handled) + 1
    BY <1>3 DEF Taken
  <2> QED
    BY <1>1, <1>2, <1>3, <2>1 DEF IInv, HandsLive
<1>4. CASE ~HoldsNew
  <2>1. Taken = Len(handled) /\ dpc = "free"
    BY <1>4 DEF Taken, DispHolds, HoldsNew
  <2> QED
    BY <1>1, <1>2, <2>1 DEF IInv, HandsLive
<1> QED
  BY <1>3, <1>4

(* Each live copy of a line has exactly one owner, at every moment of every *)
(* interleaving of printline and watchDispatchServer: none is leaked, freed *)
(* twice or used after it was freed.                                        *)
THEOREM Ownership == Spec => []OneOwner
<1>1. TypeOK /\ IInv => OneOwner
  <2> SUFFICES ASSUME TypeOK, IInv PROVE OneOwner
    OBVIOUS
  <2>1. /\ Len(sent) \in Nat /\ Len(pipe) \in Nat /\ received \in Nat
        /\ Len(sent) = Taken + Len(pipe)
    BY DEF TypeOK, IInv, PipeHoldsRest
  <2>2. Taken \in Nat
    BY DEF TypeOK, Taken
  <2>3. \A i \in 1..Len(sent) : sent[i] \in Nat /\ sent[i] # 0
    BY BoundAssumption DEF IInv, SentIncreases
  <2>4. \A i, j \in 1..Len(sent) : i < j => sent[i] < sent[j]
    BY DEF IInv, SentIncreases
  <2>5. ASSUME NEW i \in 1..Len(pipe)
        PROVE  /\ Taken + i \in 1..Len(sent)
               /\ Ptr(pipe[i]) \in Addr /\ heap[Ptr(pipe[i])] = sent[Taken + i]
    BY <2>1, <2>2, <2>5 DEF IInv, PipeHoldsRest
  <2>6. ASSUME mpc = "write"
        PROVE  /\ cur \in Addr /\ heap[cur] = received /\ received # 0
               /\ \A i \in 1..Len(sent) : sent[i] < received
    BY <2>6 DEF IInv, HandsLive, SentIncreases
  <2>7. ~crashed
    BY DEF IInv, HandsLive
  <2>8. ASSUME NEW a \in Addr
        PROVE  heap[a] # 0 <=> \/ mpc = "write" /\ a = cur
                               \/ InPipe(a)
                               \/ DispHolds /\ a = obj
    <3>1. InPipe(a) => heap[a] # 0
      BY <2>3, <2>5 DEF InPipe
    <3>2. DispHolds /\ a = obj => heap[a] # 0
      BY <2>3, HeldIsLastTaken
    <3>3. mpc = "write" /\ a = cur => heap[a] # 0
      BY <2>6
    <3> QED
      BY <2>8, <3>1, <3>2, <3>3 DEF IInv, NoneElseLive
  <2>9. mpc = "write" => ~InPipe(cur)
    <3> SUFFICES ASSUME mpc = "write", NEW i \in 1..Len(pipe), cur = Ptr(pipe[i])
                 PROVE  FALSE
      BY DEF InPipe
    <3>1. Taken + i \in 1..Len(sent) /\ sent[Taken + i] = received
      BY <2>5, <2>6
    <3>2. sent[Taken + i] < received
      BY <2>6, <3>1
    <3> QED
      BY <2>1, <3>1, <3>2
  <2>10. mpc = "write" => ~(DispHolds /\ obj = cur)
    <3> SUFFICES ASSUME mpc = "write", DispHolds, obj = cur PROVE FALSE
      OBVIOUS
    <3>1. Taken \in 1..Len(sent) /\ sent[Taken] = received /\ sent[Taken] < received
      BY <2>6, HeldIsLastTaken
    <3> QED
      BY <2>1, <3>1
  <2>11. DispHolds => ~InPipe(obj)
    <3> SUFFICES ASSUME DispHolds, NEW i \in 1..Len(pipe), obj = Ptr(pipe[i])
                 PROVE  FALSE
      BY DEF InPipe
    <3>1. Taken \in 1..Len(sent) /\ heap[obj] = sent[Taken]
      BY HeldIsLastTaken
    <3>2. Taken + i \in 1..Len(sent) /\ heap[obj] = sent[Taken + i]
      BY <2>5
    <3>3. Taken < Taken + i
      BY <2>2
    <3>4. sent[Taken] < sent[Taken + i] /\ sent[Taken] \in Nat
      BY <2>3, <2>4, <3>1, <3>2, <3>3
    <3> QED
      BY <3>1, <3>2, <3>4
  <2>12. \A i, j \in 1..Len(pipe) : pipe[i] = pipe[j] => i = j
    <3> SUFFICES ASSUME NEW i \in 1..Len(pipe), NEW j \in 1..Len(pipe),
                        i < j, pipe[i] = pipe[j]
                 PROVE  FALSE
      BY <2>1
    <3>1. /\ Taken + i \in 1..Len(sent) /\ Taken + j \in 1..Len(sent)
          /\ sent[Taken + i] = sent[Taken + j]
      BY <2>5
    <3>2. Taken + i < Taken + j
      BY <2>2
    <3>3. sent[Taken + i] < sent[Taken + j] /\ sent[Taken + i] \in Nat
      BY <2>3, <2>4, <3>1, <3>2
    <3> QED
      BY <3>1, <3>3
  <2> QED
    BY <2>7, <2>8, <2>9, <2>10, <2>11, <2>12 DEF OneOwner
<1> QED
  BY <1>1, Invariance, PTL

(* The two threads, the pipe and the heap together implement a first-in     *)
(* first-out channel with room for one line more than the pipe.             *)
THEOREM ImplementsChannel == Spec => ChannelSpec
<1>1. Init => Channel!Init
  BY DEF Init, Channel!Init
<1>2. TypeOK /\ IInv /\ [Next]_vars => [Channel!Next]_<<sent, handled>>
  <2> SUFFICES ASSUME TypeOK, IInv, [Next]_vars
               PROVE  [Channel!Next]_<<sent, handled>>
    OBVIOUS
  <2>a. /\ Len(sent) \in Nat /\ Len(pipe) \in Nat /\ Len(handled) \in Nat
        /\ Capacity \in Nat /\ Len(sent) = Taken + Len(pipe)
    BY BoundAssumption DEF TypeOK, IInv, PipeHoldsRest
  <2>1. CASE PutWrite
    <3>1. /\ sent' = Append(sent, received) /\ UNCHANGED handled
          /\ Len(pipe) < Capacity /\ mpc = "write"
      BY <2>1 DEF PutWrite
    <3>2. received \in 1..MaxLines
      BY <3>1, BoundAssumption DEF IInv, SentIncreases
    <3>3. Taken <= Len(handled) + 1 /\ Taken \in Nat
      BY <2>a DEF Taken
    <3>4. Len(sent) - Len(handled) < Capacity + 1
      BY <2>a, <3>1, <3>3
    <3> QED
      BY <3>1, <3>2, <3>4 DEF Channel!Next, Channel!Put
  <2>2. CASE Deliver
    <3>1. HoldsNew /\ DispHolds /\ Taken = Len(handled) + 1 /\ UNCHANGED sent
      BY <2>2 DEF Deliver, HoldsNew, DispHolds, Taken
    <3>2. obj \in Addr /\ Taken \in 1..Len(sent) /\ heap[obj] = sent[Taken]
      BY <3>1, HeldIsLastTaken
    <3>3. heap[obj] # 0 /\ obj # Null
      BY <3>2, LowHalf DEF IInv, SentIncreases
    <3>4. handled' = Append(handled, sent[Len(handled) + 1])
      BY <2>2, <3>1, <3>2, <3>3 DEF Deliver, Live
    <3>5. Len(handled) < Len(sent)
      BY <2>a, <3>1, <3>2
    <3> QED
      BY <3>1, <3>4, <3>5 DEF Channel!Next, Channel!Get
  <2>3. CASE ~PutWrite /\ ~Deliver
    BY <2>3 DEF Next, Main, Disp, vars, mainVars, dispVars, StartWatchServer,
       Receive, AllocObj, PutLoad, PutStore, LogMsg, GetRead, GetLoad,
       GetStore, GetTest, GetClamp, FreeObj
  <2> QED
    BY <2>1, <2>2, <2>3
<1> QED
  BY <1>1, <1>2, Invariance, PTL DEF Spec, ChannelSpec, Channel!Spec

----------------------------------------------------------------------------
(* logmsg sees every line, in order: the n-th line logged is the n-th line  *)
(* received, and only the line in printline's hands is not logged yet.      *)
LogsInOrder ==
    /\ Len(logged) = IF mpc \in {"start", "receive"} THEN received ELSE received - 1
    /\ \A i \in 1..Len(logged) : logged[i] = i
    /\ mpc = "start" => received = 0
    /\ mpc \notin {"start", "receive"} => received > 0

LEMMA LoggedInvariance == Spec => []LogsInOrder
<1>1. Init => LogsInOrder
  BY DEF Init, LogsInOrder
<1>2. TypeOK /\ LogsInOrder /\ [Next]_vars => LogsInOrder'
  <2> SUFFICES ASSUME TypeOK, LogsInOrder, [Next]_vars PROVE LogsInOrder'
    OBVIOUS
  <2>0. logged \in Seq(Nat) /\ received \in Nat /\ Len(logged) \in Nat
    BY DEF TypeOK
  <2>1. CASE LogMsg
    <3>1. /\ logged' = Append(logged, received) /\ mpc' = "receive"
          /\ mpc = "logmsg" /\ UNCHANGED received
      BY <2>1 DEF LogMsg
    <3>2. Len(logged) + 1 = received
      BY <2>0, <3>1 DEF LogsInOrder
    <3> QED
      BY <2>0, <3>1, <3>2 DEF LogsInOrder
  <2>2. CASE Receive
    BY <2>0, <2>2 DEF Receive, LogsInOrder
  <2>3. CASE StartWatchServer \/ AllocObj \/ PutWrite \/ PutLoad \/ PutStore
    BY <2>0, <2>3 DEF StartWatchServer, AllocObj, PutWrite, PutLoad, PutStore,
       LogsInOrder
  <2>4. CASE Disp \/ UNCHANGED vars
    BY <2>4 DEF Disp, GetRead, GetLoad, GetStore, GetTest, GetClamp, Deliver,
       FreeObj, mainVars, vars, LogsInOrder
  <2> QED
    BY <2>1, <2>2, <2>3, <2>4 DEF Next, Main
<1> QED
  BY <1>1, <1>2, TypeCorrect, PTL DEF Spec

(* A line on a watcher's screen is already in the files, or it is the one   *)
(* that printline is about to give to logmsg.                               *)
THEOREM WatcherAheadByOne == Spec => []AtMostOneAhead
<1>1. TypeOK /\ IInv /\ LogsInOrder => AtMostOneAhead
  <2> SUFFICES ASSUME TypeOK, IInv, LogsInOrder, NEW i \in 1..Len(handled)
               PROVE  \/ \E j \in 1..Len(logged) : logged[j] = handled[i]
                      \/ /\ handled[i] = received
                         /\ mpc \in {"load", "store", "logmsg"}
    BY DEF AtMostOneAhead
  <2>1. i \in 1..Len(sent) /\ handled[i] = sent[i]
    <3>1. Len(handled) <= Len(sent)
      BY DEF TypeOK, IInv, PipeHoldsRest, Taken
    <3> QED
      BY <3>1 DEF TypeOK, IInv, PipeHoldsRest
  <2>2. /\ sent[i] \in Nat /\ sent[i] >= 1 /\ sent[i] <= received
        /\ mpc \in {"alloc", "write"} => sent[i] < received
    BY <2>1, BoundAssumption DEF IInv, SentIncreases
  <2>3. received \in Nat /\ Len(logged) \in Nat
    BY DEF TypeOK
  <2>4. CASE sent[i] <= Len(logged)
    <3>1. sent[i] \in 1..Len(logged)
      BY <2>2, <2>3, <2>4
    <3> QED
      BY <2>1, <3>1 DEF LogsInOrder
  <2>5. CASE sent[i] > Len(logged)
    <3>1. mpc \notin {"start", "receive"}
      BY <2>2, <2>3, <2>5 DEF LogsInOrder
    <3>2. sent[i] = received
      BY <2>2, <2>3, <2>5, <3>1 DEF LogsInOrder
    <3>3. mpc \in {"load", "store", "logmsg"}
      BY <2>2, <2>3, <3>1, <3>2 DEF TypeOK, MainAt
    <3> QED
      BY <2>1, <3>2, <3>3
  <2> QED
    BY <2>2, <2>3, <2>4, <2>5
<1> QED
  BY <1>1, Invariance, LoggedInvariance, PTL

============================================================================
