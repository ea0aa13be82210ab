-------------------------- MODULE RepeatLogProofs --------------------------
(***************************************************************************)
(* Theorems about RepeatLog, for any lines, hosts, intervals and bounds.   *)
(***************************************************************************)
EXTENDS RepeatLog, SequenceTheorems, WellFoundedInduction, TLAPS

(***************************************************************************)
(* f_prevcount counts two things: repetitions, and the retries that are    *)
(* left while the host is not known.  What is invariant about the second   *)
(* is that the retries left and the lookups made add up to INET_RETRY_MAX  *)
(* at least; more, because logmsg counts repetitions there too.            *)
(***************************************************************************)
RetriesLeft ==
    /\ f_prevcount \in Int /\ lookups \in Int
    /\ f_type = "unkn" => f_prevcount + lookups >= Retries

counters == <<f_type, f_prevcount, lookups>>

(* Whatever ends with Reset or leaves the counters alone keeps the sum, and *)
(* gives nothing up.                                                        *)
LEMMA ResetKeeps ==
    ASSUME RetriesLeft,
           UNCHANGED <<f_type, lookups>>,
           Reset \/ f_prevcount' = f_prevcount \/ f_prevcount' = f_prevcount + 1
    PROVE  RetriesLeft' /\ (f_type = "unkn" => f_type' # "unused")
<1>1. f_prevcount' \in Int /\ lookups' = lookups /\ f_type' = f_type
  BY DEF RetriesLeft, Reset
<1>2. f_type = "unkn" => f_prevcount' = f_prevcount \/ f_prevcount' = f_prevcount + 1
  BY DEF Reset
<1>3. CASE f_type = "unkn"
  <2>1. f_prevcount' + lookups' >= Retries
    <3>1. /\ Retries \in Int /\ f_prevcount \in Int /\ lookups \in Int
          /\ f_prevcount + lookups >= Retries
      BY <1>3, RepeatAssumption DEF RetriesLeft
    <3>2. CASE f_prevcount' = f_prevcount
      BY <1>1, <3>1, <3>2
    <3>3. CASE f_prevcount' = f_prevcount + 1
      BY <1>1, <3>1, <3>3
    <3>. QED
      BY <1>2, <1>3, <3>2, <3>3
  <2>. QED
    BY <1>1, <1>3, <2>1 DEF RetriesLeft
<1>. QED
  BY <1>1, <1>3 DEF RetriesLeft

(* fprintlog's write: of an unknown host, either the lookup succeeds, or    *)
(* what one counter loses the other gains, and the host is given up only    *)
(* when no retry is left.                                                   *)
LEMMA WriteKeeps ==
    ASSUME RetriesLeft, NEW t, NEW from, NEW msg, NEW next, Write(t, from, msg, next)
    PROVE  RetriesLeft' /\ (f_type = "unkn" /\ f_type' = "unused" => lookups >= Retries)
<1>1. ASSUME Out(t, from, msg)
      PROVE  f_type' # "unkn" /\ (f_type # "file" => f_type' # "unused")
  BY <1>1 DEF Out, AfterSend, AfterWrite
<1>2. CASE /\ f_type \in {"file", "forw"} \/ (f_type = "susp" /\ Rested)
           /\ Out(t, from, msg)
           /\ UNCHANGED <<f_prevcount, lookups>>
  BY <1>1, <1>2 DEF RetriesLeft
<1>3. CASE f_type = "unkn" /\ f_prevcount' = 0 /\ lookups' = 0 /\ Out(t, from, msg)
  BY <1>1, <1>3 DEF RetriesLeft
<1>4. CASE /\ f_type = "unkn"
           /\ f_prevcount' = f_prevcount - 1
           /\ IF f_prevcount' < 0 THEN f_type' = "unused" /\ lookups' = 0
                                  ELSE f_type' = f_type /\ lookups' = lookups + 1
  BY <1>4, RepeatAssumption DEF RetriesLeft
<1>5. CASE UNCHANGED <<f_type, f_prevcount, lookups>>
  BY <1>5 DEF RetriesLeft
<1>. QED
  BY <1>2, <1>3, <1>4, <1>5 DEF Write, Lookup

LEMMA RetriesInvariance ==
    ASSUME RetriesLeft, [Next]_vars
    PROVE  RetriesLeft' /\ (f_type = "unkn" /\ f_type' = "unused" => lookups >= Retries)
<1>1. CASE UNCHANGED counters
  BY <1>1 DEF RetriesLeft, counters
<1>2. CASE \E t, from, msg, next : Write(t, from, msg, next)
  BY <1>2, WriteKeeps
<1>3. CASE /\ UNCHANGED <<f_type, lookups>>
           /\ Reset \/ f_prevcount' = f_prevcount \/ f_prevcount' = f_prevcount + 1
  BY <1>3, ResetKeeps
<1>4. CASE Read
  <2>1. f_type' # "unused"
    BY <1>4, RepeatAssumption DEF Read
  <2>2. f_prevcount' = Counter(f_type') /\ lookups' = 0
    BY <1>4 DEF Read
  <2>. QED
    BY <2>1, <2>2, RepeatAssumption DEF RetriesLeft, Counter
<1>5. CASE LogMsg
  BY <1>1, <1>5 DEF LogMsg, filed, counters
<1>6. CASE LogSteps
  <2>1. CASE WriteDup \/ WriteOld \/ WriteNew
    BY <1>2, <2>1 DEF WriteDup, WriteOld, WriteNew
  <2>2. CASE Compare \/ Hold \/ ResetDup \/ ResetOld \/ ResetNew
    BY <1>3, <2>2 DEF Compare, Hold, ResetDup, ResetOld, ResetNew, ResetFrame
  <2>3. CASE Save
    BY <1>1, <2>3 DEF Save, counters
  <2>. QED
    BY <1>6, <2>1, <2>2, <2>3 DEF LogSteps
<1>7. CASE Reload
  <2>1. CASE StartInit
    BY <1>1, <2>1 DEF StartInit, filed, counters
  <2>2. CASE WriteInit
    BY <1>2, <2>2 DEF WriteInit
  <2>3. CASE ResetInit
    BY <1>3, <2>3 DEF ResetInit, ResetFrame
  <2>. QED
    BY <1>4, <1>7, <2>1, <2>2, <2>3 DEF Reload
<1>8. CASE Signals
  <2>1. CASE Tick \/ Hup \/ \E t \in Thread : Alarm(t) \/ Term(t)
    BY <1>1, <2>1 DEF Tick, Hup, Alarm, Term, filed, counters
  <2>2. ASSUME NEW t \in Thread, Handlers(t)
        PROVE  RetriesLeft' /\ (f_type = "unkn" /\ f_type' = "unused" => lookups >= Retries)
    <3>1. CASE WriteMark(t) \/ WriteExit(t)
      BY <1>2, <3>1 DEF WriteMark, WriteExit
    <3>2. CASE Domark(t) \/ ResetMark(t) \/ Die(t) \/ ResetExit(t)
      BY <1>3, <3>2 DEF Domark, ResetMark, Die, ResetExit, ResetFrame
    <3>. QED
      BY <2>2, <3>1, <3>2 DEF Handlers
  <2>. QED
    BY <1>8, <2>1, <2>2 DEF Signals
<1>. QED
  BY <1>1, <1>5, <1>6, <1>7, <1>8 DEF Next, vars, filed, counters

(* The retries of a host that is not known are used for lookups and for     *)
(* nothing else: whatever lines, ticks and signals come, on whatever        *)
(* thread, it is given up only after INET_RETRY_MAX lookups in vain and one *)
(* more.                                                                    *)
THEOREM NeverGivenUpEarly == Spec => PatientWithHost
<1>1. Init => RetriesLeft
  BY RepeatAssumption DEF Init, RetriesLeft, Counter
<1>2. RetriesLeft /\ [Next]_vars => RetriesLeft'
  BY RetriesInvariance
<1>3. RetriesLeft /\ [Next]_vars => [f_type = "unkn" /\ f_type' = "unused" => lookups >= Retries]_vars
  BY RetriesInvariance
<1>. QED
  BY <1>1, <1>2, <1>3, PTL DEF Spec, PatientWithHost

----------------------------------------------------------------------------
(***************************************************************************)
(* The stacks: the main thread is in one activation of logmsg or init, or  *)
(* idle, with handlers on top; the watch thread runs handlers.             *)
(***************************************************************************)
MarkFrame == {"mark", "write mark", "reset mark"}
ExitFrame == {"exit", "write exit", "reset exit"}
HandlerFrame == MarkFrame \cup ExitFrame
InHand == {"compare", "hold", "write dup", "reset dup", "flush", "reset old",
           "save", "write new", "reset new"}
BaseFrame == InHand \cup {"idle", "read", "write init", "reset init", "exited"}

Frame == HandlerFrame \cup BaseFrame

Base == stack["main"][1]

Once(labels) ==
    \A t, u \in Thread : \A i \in 1..Len(stack[t]), j \in 1..Len(stack[u]) :
        stack[t][i] \in labels /\ stack[u][j] \in labels => t = u /\ i = j

Stacks == stack \in [Thread -> Seq(Frame)]

Shape ==
    /\ Stacks
    /\ Len(stack["main"]) \in 1..3 /\ Len(stack["watch"]) \in 0..2
    /\ Base \in BaseFrame
    /\ \A i \in 2..Len(stack["main"]) : stack["main"][i] \in HandlerFrame
    /\ \A i \in 1..Len(stack["watch"]) : stack["watch"][i] \in HandlerFrame
    /\ Once(MarkFrame) /\ Once(ExitFrame)
    /\ alarm => ~Handling
    /\ Base = "exited" => Len(stack["main"]) = 1 /\ stack["watch"] = << >>

(* What Goto, Return and Catch do to the frames.                            *)
Moved(t, a, b) ==
    /\ Stacks'
    /\ Len(stack[t]) > 0 /\ stack[t][Len(stack[t])] = a /\ stack'[t][Len(stack[t])] = b
    /\ \A u \in Thread : Len(stack'[u]) = Len(stack[u])
    /\ \A u \in Thread : \A i \in 1..Len(stack[u]) :
          u # t \/ i # Len(stack[t]) => stack'[u][i] = stack[u][i]

Popped(t, a) ==
    /\ Stacks'
    /\ Len(stack[t]) > 0 /\ stack[t][Len(stack[t])] = a
    /\ Len(stack'[t]) = Len(stack[t]) - 1
    /\ \A u \in Thread : u # t => stack'[u] = stack[u]
    /\ \A i \in 1..(Len(stack[t]) - 1) : stack'[t][i] = stack[t][i]

Pushed(t, b) ==
    /\ Stacks'
    /\ Len(stack'[t]) = Len(stack[t]) + 1 /\ stack'[t][Len(stack[t]) + 1] = b
    /\ \A u \in Thread : u # t => stack'[u] = stack[u]
    /\ \A i \in 1..Len(stack[t]) : stack'[t][i] = stack[t][i]

LEMMA AppendIs ==
    ASSUME NEW S, NEW s \in Seq(S), NEW e \in S, NEW r, r = Append(s, e)
    PROVE  /\ r \in Seq(S) /\ Len(r) = Len(s) + 1 /\ r[Len(s) + 1] = e
           /\ \A i \in 1..Len(s) : r[i] = s[i]
  OBVIOUS

LEMMA GotoMoves ==
    ASSUME Stacks, NEW t \in Thread, NEW a, NEW b \in Frame, At(t, a), Goto(t, b)
    PROVE  Moved(t, a, b)
<1>. DEFINE s == stack[t]
            r == Append(Front(s), b)
<1>1. s \in Seq(Frame) /\ s # << >> /\ s[Len(s)] = a
  BY DEF Stacks, At, Last
<1>2. Len(s) \in Nat /\ Len(s) > 0
  BY <1>1
<1>3. Front(s) \in Seq(Frame) /\ Len(Front(s)) = Len(s) - 1
      /\ \A i \in 1..(Len(s) - 1) : Front(s)[i] = s[i]
  BY <1>1, <1>2 DEF Front
<1>4. r \in Seq(Frame) /\ Len(r) = Len(s) /\ r[Len(s)] = b
      /\ \A i \in 1..(Len(s) - 1) : r[i] = s[i]
  <2>1. /\ r \in Seq(Frame) /\ Len(r) = Len(Front(s)) + 1 /\ r[Len(Front(s)) + 1] = b
        /\ \A i \in 1..Len(Front(s)) : r[i] = Front(s)[i]
    <3>1. r = Append(Front(s), b)
      OBVIOUS
    <3>. HIDE DEF r
    <3>. QED
      BY <1>3, <3>1, AppendIs
  <2>. QED
    BY <1>2, <1>3, <2>1
<1>5. stack' = [stack EXCEPT ![t] = r]
  BY DEF Goto
<1>. HIDE DEF r
<1>6. stack'[t] = r /\ Stacks' /\ \A u \in Thread : u # t => stack'[u] = stack[u]
  BY <1>4, <1>5 DEF Stacks
<1>7. \A u \in Thread : Len(stack'[u]) = Len(stack[u])
  BY <1>4, <1>6
<1>8. ASSUME NEW u \in Thread, NEW i \in 1..Len(stack[u]), u # t \/ i # Len(s)
      PROVE  stack'[u][i] = stack[u][i]
  <2>1. CASE u # t
    BY <1>6, <2>1
  <2>2. CASE u = t
    <3>1. i \in 1..(Len(s) - 1)
      BY <1>2, <1>8, <2>2
    <3>. QED
      BY <1>4, <1>6, <2>2, <3>1
  <2>. QED
    BY <2>1, <2>2
<1>. QED
  BY <1>1, <1>2, <1>4, <1>6, <1>7, <1>8 DEF Moved

LEMMA ReturnPops ==
    ASSUME Stacks, NEW t \in Thread, NEW a, At(t, a), Return(t)
    PROVE  Popped(t, a)
<1>. DEFINE s == stack[t]
<1>1. s \in Seq(Frame) /\ s # << >> /\ s[Len(s)] = a
  BY DEF Stacks, At, Last
<1>2. Len(s) \in Nat /\ Len(s) > 0
  BY <1>1
<1>3. Front(s) \in Seq(Frame) /\ Len(Front(s)) = Len(s) - 1
      /\ \A i \in 1..(Len(s) - 1) : Front(s)[i] = s[i]
  BY <1>1, <1>2 DEF Front
<1>4. stack' = [stack EXCEPT ![t] = Front(s)]
  BY DEF Return
<1>5. stack'[t] = Front(s) /\ Stacks' /\ \A u \in Thread : u # t => stack'[u] = stack[u]
  BY <1>3, <1>4 DEF Stacks
<1>. QED
  BY <1>1, <1>2, <1>3, <1>5 DEF Popped

LEMMA CatchPushes ==
    ASSUME Stacks, NEW t \in Thread, NEW b \in Frame, Catch(t, b)
    PROVE  Pushed(t, b)
<1>. DEFINE s == stack[t]
            r == Append(s, b)
<1>1. s \in Seq(Frame)
  BY DEF Stacks
<1>2. r \in Seq(Frame) /\ Len(r) = Len(s) + 1 /\ r[Len(s) + 1] = b
      /\ \A i \in 1..Len(s) : r[i] = s[i]
  <2>1. r = Append(s, b)
    OBVIOUS
  <2>. HIDE DEF r
  <2>. QED
    BY <1>1, <2>1, AppendIs
<1>3. stack' = [stack EXCEPT ![t] = r]
  BY DEF Catch
<1>. HIDE DEF r
<1>4. stack'[t] = r /\ Stacks' /\ \A u \in Thread : u # t => stack'[u] = stack[u]
  BY <1>2, <1>3 DEF Stacks
<1>. QED
  BY <1>2, <1>4 DEF Pushed

LEMMA OnlyOne == ASSUME NEW n \in 1..3, n \notin 2..n PROVE n = 1
OBVIOUS

(* logmsg and init run only when no handler is on top of them.              *)
LEMMA BaseRuns ==
    ASSUME Shape, NEW a \in BaseFrame, At("main", a)
    PROVE  stack["main"] = <<a>> /\ Base = a /\ Len(stack["main"]) = 1
<1>1. stack["main"] \in Seq(Frame) /\ stack["main"][Len(stack["main"])] = a
  BY DEF Shape, Stacks, Thread, At, Last
<1>2. Len(stack["main"]) \in 1..3
  BY DEF Shape
<1>3. Len(stack["main"]) \notin 2..Len(stack["main"])
  <2>1. a \notin HandlerFrame
    BY DEF BaseFrame, InHand, HandlerFrame, MarkFrame, ExitFrame
  <2>. QED
    BY <1>1, <2>1 DEF Shape
<1>4. Len(stack["main"]) = 1
  BY <1>2, <1>3, OnlyOne
<1>. QED
  BY <1>1, <1>4 DEF Base

LEMMA BaseGoto ==
    ASSUME Shape, NEW a \in BaseFrame, NEW b \in Frame, At("main", a), Goto("main", b)
    PROVE  /\ stack["main"] = <<a>> /\ Base = a /\ Stacks'
           /\ stack'["main"] = <<b>> /\ stack'["watch"] = stack["watch"]
           /\ Base' = b /\ Len(stack'["main"]) = 1
<1>1. stack["main"] = <<a>> /\ Base = a /\ Len(stack["main"]) = 1
  BY BaseRuns
<1>2. Stacks /\ "main" \in Thread /\ "watch" \in Thread
  BY DEF Shape, Thread
<1>3. Moved("main", a, b)
  BY <1>2, GotoMoves
<1>4. Len(stack'["main"]) = 1 /\ stack'["main"][1] = b /\ stack'["main"] \in Seq(Frame) /\ Stacks'
  BY <1>1, <1>2, <1>3 DEF Moved, Stacks
<1>5. stack'["watch"] = stack["watch"]
  BY <1>2 DEF Goto, Stacks
<1>. QED
  BY <1>1, <1>4, <1>5 DEF Base

LEMMA Labels ==
    /\ BaseFrame \cap HandlerFrame = {} /\ MarkFrame \cap ExitFrame = {}
    /\ MarkFrame \subseteq Frame /\ ExitFrame \subseteq Frame /\ BaseFrame \subseteq Frame
    /\ HandlerFrame = MarkFrame \cup ExitFrame /\ HandlerFrame \subseteq Frame
    /\ Thread = {"main", "watch"} /\ "main" # "watch"
  BY DEF BaseFrame, HandlerFrame, MarkFrame, ExitFrame, InHand, Frame, Thread

LEMMA ShapeBase ==
    ASSUME Shape, NEW a \in BaseFrame, NEW b \in BaseFrame, b # "exited",
           At("main", a), Goto("main", b), UNCHANGED alarm
    PROVE  Shape'
<1>1. /\ stack["main"] = <<a>> /\ Base = a /\ Stacks'
      /\ stack'["main"] = <<b>> /\ stack'["watch"] = stack["watch"]
      /\ Base' = b /\ Len(stack'["main"]) = 1 /\ Len(stack["main"]) = 1
  BY BaseGoto, BaseRuns, Labels
<1>2. b \notin MarkFrame /\ b \notin ExitFrame /\ a \notin MarkFrame /\ a \notin ExitFrame
  BY Labels
<1>. HIDE DEF MarkFrame, ExitFrame, HandlerFrame, BaseFrame
<1>3. ASSUME NEW labels, b \notin labels, Once(labels)
      PROVE  Once(labels)'
  BY <1>1, <1>3, Labels DEF Once
<1>4. alarm' => ~Handling'
  <2>1. SUFFICES ASSUME alarm PROVE ~On(MarkFrame)'
    BY DEF Handling, MarkFrame
  <2>2. ~On(MarkFrame)
    BY <2>1 DEF Shape, Handling, MarkFrame
  <2>. QED
    BY <1>1, <1>2, <2>2, Labels DEF On
<1>5. Once(MarkFrame)' /\ Once(ExitFrame)'
  BY <1>2, <1>3 DEF Shape
<1>6. /\ Len(stack["watch"]) \in 0..2
      /\ \A i \in 1..Len(stack["watch"]) : stack["watch"][i] \in HandlerFrame
  BY DEF Shape
<1>. QED
  BY <1>1, <1>4, <1>5, <1>6 DEF Shape

LEMMA ShapeHandler ==
    ASSUME Shape, NEW t \in Thread, NEW K \in {MarkFrame, ExitFrame}, NEW a \in K, NEW b \in K,
           At(t, a), Goto(t, b), UNCHANGED alarm
    PROVE  Shape'
<1>1. a \in HandlerFrame /\ b \in HandlerFrame /\ a \notin BaseFrame /\ b \in Frame
  BY Labels
<1>2. Moved(t, a, b)
  BY <1>1, GotoMoves DEF Shape
<1>3. /\ Len(stack["main"]) \in 1..3 /\ Len(stack["watch"]) \in 0..2 /\ Base \in BaseFrame
      /\ \A i \in 2..Len(stack["main"]) : stack["main"][i] \in HandlerFrame
      /\ \A i \in 1..Len(stack["watch"]) : stack["watch"][i] \in HandlerFrame
  BY DEF Shape
<1>4. ~(t = "main" /\ Len(stack[t]) = 1)
  BY <1>1, <1>2, <1>3 DEF Moved, Base
<1>5. Base' = Base /\ \A u \in Thread : Len(stack'[u]) = Len(stack[u])
  BY <1>2, <1>3, <1>4, Labels DEF Moved, Base
<1>6. /\ \A i \in 2..Len(stack["main"]) : stack'["main"][i] \in HandlerFrame
      /\ \A i \in 1..Len(stack["watch"]) : stack'["watch"][i] \in HandlerFrame
  BY <1>1, <1>2, <1>3, Labels DEF Moved
<1>7. ASSUME NEW labels \in {MarkFrame, ExitFrame}, NEW u \in Thread, NEW i \in 1..Len(stack[u])
      PROVE  stack'[u][i] \in labels <=> stack[u][i] \in labels
  <2>1. a \in labels <=> b \in labels
    BY Labels
  <2>2. CASE u = t /\ i = Len(stack[t])
    BY <1>2, <2>1, <2>2 DEF Moved
  <2>3. CASE ~(u = t /\ i = Len(stack[t]))
    BY <1>2, <2>3 DEF Moved
  <2>. QED
    BY <2>2, <2>3
<1>8. Once(MarkFrame)' /\ Once(ExitFrame)'
  <2>1. Once(MarkFrame) /\ Once(ExitFrame)
    BY DEF Shape
  <2>. QED
    BY <1>5, <1>7, <2>1 DEF Once
<1>9. alarm' => ~Handling'
  <2>1. SUFFICES ASSUME alarm PROVE ~On(MarkFrame)'
    BY DEF Handling, MarkFrame
  <2>2. ~On(MarkFrame)
    BY <2>1 DEF Shape, Handling, MarkFrame
  <2>. QED
    BY <1>5, <1>7, <2>2 DEF On
<1>10. Base # "exited"
  <2>1. SUFFICES ASSUME Base = "exited" PROVE FALSE
    OBVIOUS
  <2>2. Len(stack["main"]) = 1 /\ stack["watch"] = << >>
    BY <2>1 DEF Shape
  <2>. QED
    BY <1>2, <1>4, <2>2, Labels DEF Moved
<1>. QED
  BY <1>2, <1>3, <1>5, <1>6, <1>8, <1>9, <1>10, Labels DEF Shape, Moved

LEMMA ShapeReturn ==
    ASSUME Shape, NEW t \in Thread, NEW a \in HandlerFrame, At(t, a), Return(t), UNCHANGED alarm
    PROVE  Shape'
<1>1. a \notin BaseFrame
  BY Labels
<1>2. Popped(t, a)
  BY ReturnPops DEF Shape
<1>3. /\ Len(stack["main"]) \in 1..3 /\ Len(stack["watch"]) \in 0..2 /\ Base \in BaseFrame
      /\ \A i \in 2..Len(stack["main"]) : stack["main"][i] \in HandlerFrame
      /\ \A i \in 1..Len(stack["watch"]) : stack["watch"][i] \in HandlerFrame
  BY DEF Shape
<1>4. ~(t = "main" /\ Len(stack[t]) = 1)
  BY <1>1, <1>2, <1>3 DEF Popped, Base
<1>5. Len(stack'["main"]) \in 1..3 /\ Len(stack'["watch"]) \in 0..2
      /\ Len(stack'["main"]) <= Len(stack["main"]) /\ Len(stack'["watch"]) <= Len(stack["watch"])
  <2>1. CASE t = "main"
    <3>1. stack'["watch"] = stack["watch"] /\ Len(stack'["main"]) = Len(stack["main"]) - 1
      BY <1>2, <2>1, Labels DEF Popped
    <3>. QED
      BY <1>3, <1>4, <2>1, <3>1
  <2>2. CASE t = "watch"
    <3>1. stack'["main"] = stack["main"] /\ Len(stack'["watch"]) = Len(stack["watch"]) - 1
          /\ Len(stack["watch"]) > 0
      BY <1>2, <2>2, Labels DEF Popped
    <3>. QED
      BY <1>3, <3>1
  <2>. QED
    BY <2>1, <2>2, Labels
<1>7. ASSUME NEW u \in Thread, NEW i \in 1..Len(stack'[u])
      PROVE  i \in 1..Len(stack[u]) /\ stack'[u][i] = stack[u][i]
  <2>1. CASE u # t
    BY <1>2, <2>1 DEF Popped
  <2>2. CASE u = t
    <3>1. i \in 1..(Len(stack[t]) - 1) /\ Len(stack[t]) \in Nat
      BY <1>2, <1>3, <1>7, <2>2, Labels DEF Popped
    <3>. QED
      BY <1>2, <2>2, <3>1 DEF Popped
  <2>. QED
    BY <2>1, <2>2
<1>6. Base' = Base
  BY <1>5, <1>7, Labels DEF Base
<1>12. ASSUME NEW labels, Once(labels) PROVE Once(labels)'
  <2>1. SUFFICES ASSUME NEW u \in Thread, NEW v \in Thread,
                        NEW i \in 1..Len(stack'[u]), NEW j \in 1..Len(stack'[v]),
                        stack'[u][i] \in labels, stack'[v][j] \in labels
                 PROVE  u = v /\ i = j
    BY DEF Once
  <2>2. i \in 1..Len(stack[u]) /\ stack[u][i] \in labels
    BY <1>7, <2>1
  <2>3. j \in 1..Len(stack[v]) /\ stack[v][j] \in labels
    BY <1>7, <2>1
  <2>. QED
    BY <1>12, <2>2, <2>3 DEF Once
<1>8. Once(MarkFrame)' /\ Once(ExitFrame)'
  BY <1>12 DEF Shape
<1>9. alarm' => ~Handling'
  <2>1. SUFFICES ASSUME alarm PROVE ~On(MarkFrame)'
    BY DEF Handling, MarkFrame
  <2>2. ~On(MarkFrame)
    BY <2>1 DEF Shape, Handling, MarkFrame
  <2>. QED
    BY <1>7, <2>2 DEF On
<1>10. Base # "exited"
  <2>1. SUFFICES ASSUME Base = "exited" PROVE FALSE
    OBVIOUS
  <2>2. Len(stack["main"]) = 1 /\ stack["watch"] = << >>
    BY <2>1 DEF Shape
  <2>. QED
    BY <1>2, <1>4, <2>2, Labels DEF Popped
<1>11. /\ \A i \in 2..Len(stack'["main"]) : stack'["main"][i] \in HandlerFrame
       /\ \A i \in 1..Len(stack'["watch"]) : stack'["watch"][i] \in HandlerFrame
  BY <1>3, <1>5, <1>7, Labels
<1>. QED
  BY <1>2, <1>3, <1>5, <1>6, <1>8, <1>9, <1>10, <1>11, Labels DEF Shape, Popped

LEMMA ShapeCatch ==
    ASSUME Shape, NEW t \in Thread, NEW K \in {MarkFrame, ExitFrame}, NEW b \in K, ~On(K),
           ~On({"exited"}),
           Catch(t, b), alarm' => alarm /\ K # MarkFrame
    PROVE  Shape'
<1>1. b \in HandlerFrame /\ b \in Frame
  BY Labels
<1>2. Pushed(t, b)
  BY <1>1, CatchPushes DEF Shape
<1>3. /\ Len(stack["main"]) \in 1..3 /\ Len(stack["watch"]) \in 0..2 /\ Base \in BaseFrame
      /\ \A i \in 2..Len(stack["main"]) : stack["main"][i] \in HandlerFrame
      /\ \A i \in 1..Len(stack["watch"]) : stack["watch"][i] \in HandlerFrame
  BY DEF Shape
<1>4. \A u \in Thread : \A i \in 1..Len(stack[u]) : stack[u][i] \notin K
  BY DEF On
<1>5. Once(MarkFrame) /\ Once(ExitFrame)
  BY DEF Shape
<1>6. Len(stack["main"]) <= 2 /\ Len(stack["watch"]) <= 1
  <2>. DEFINE M == IF K = MarkFrame THEN ExitFrame ELSE MarkFrame
  <2>1. Once(M) /\ HandlerFrame = K \cup M
    BY <1>5, Labels
  <2>. HIDE DEF M
  <2>2. \A i \in 2..Len(stack["main"]) : i \in 1..Len(stack["main"]) /\ stack["main"][i] \in M
    BY <1>3, <1>4, <2>1, Labels
  <2>3. \A i \in 1..Len(stack["watch"]) : stack["watch"][i] \in M
    BY <1>3, <1>4, <2>1, Labels
  <2>4. \A i, j \in 2..Len(stack["main"]) : i = j
    BY <2>1, <2>2, Labels DEF Once
  <2>5. \A i, j \in 1..Len(stack["watch"]) : i = j
    BY <2>1, <2>3, Labels DEF Once
  <2>6. Len(stack["main"]) # 3
    <3>1. SUFFICES ASSUME Len(stack["main"]) = 3 PROVE 2 = 3
      OBVIOUS
    <3>2. 2 \in 2..Len(stack["main"]) /\ 3 \in 2..Len(stack["main"])
      BY <3>1
    <3>. QED
      BY <2>4, <3>2
  <2>7. Len(stack["watch"]) # 2
    <3>1. SUFFICES ASSUME Len(stack["watch"]) = 2 PROVE 1 = 2
      OBVIOUS
    <3>2. 1 \in 1..Len(stack["watch"]) /\ 2 \in 1..Len(stack["watch"])
      BY <3>1
    <3>. QED
      BY <2>5, <3>2
  <2>. QED
    BY <1>3, <2>6, <2>7
<1>7. Len(stack[t]) \in Nat
  BY <1>3, Labels
<1>8. ASSUME NEW u \in Thread, NEW i \in 1..Len(stack'[u])
      PROVE  \/ u = t /\ i = Len(stack[t]) + 1 /\ stack'[u][i] = b
             \/ i \in 1..Len(stack[u]) /\ stack'[u][i] = stack[u][i]
  <2>1. CASE u # t
    BY <1>2, <2>1 DEF Pushed
  <2>2. CASE u = t
    <3>1. i = Len(stack[t]) + 1 \/ i \in 1..Len(stack[t])
      BY <1>2, <1>7, <1>8, <2>2 DEF Pushed
    <3>. QED
      BY <1>2, <2>2, <3>1 DEF Pushed
  <2>. QED
    BY <2>1, <2>2
<1>9. Len(stack'["main"]) \in 1..3 /\ Len(stack'["watch"]) \in 0..2
  <2>1. CASE t = "main"
    <3>1. stack'["watch"] = stack["watch"] /\ Len(stack'["main"]) = Len(stack["main"]) + 1
      BY <1>2, <2>1, Labels DEF Pushed
    <3>. QED
      BY <1>3, <1>6, <3>1
  <2>2. CASE t = "watch"
    <3>1. stack'["main"] = stack["main"] /\ Len(stack'["watch"]) = Len(stack["watch"]) + 1
      BY <1>2, <2>2, Labels DEF Pushed
    <3>. QED
      BY <1>3, <1>6, <3>1
  <2>. QED
    BY <2>1, <2>2, Labels
<1>10. Base' = Base
  <2>1. \A n \in 1..3 : 1 \in 1..n
    OBVIOUS
  <2>2. 1 \in 1..Len(stack["main"])
    BY <1>3, <2>1
  <2>. QED
    BY <1>2, <2>2, Labels DEF Pushed, Base
<1>11. ASSUME NEW labels \in {MarkFrame, ExitFrame}, Once(labels)
       PROVE  Once(labels)'
  <2>1. CASE labels = K
    <3>1. \A u \in Thread : \A i \in 1..Len(stack'[u]) :
             stack'[u][i] \in labels => u = t /\ i = Len(stack[t]) + 1
      BY <1>4, <1>8, <2>1
    <3>. QED
      BY <3>1 DEF Once
  <2>2. CASE labels # K
    <3>1. b \notin labels
      BY <2>2, Labels
    <3>2. \A u \in Thread : \A i \in 1..Len(stack'[u]) :
             stack'[u][i] \in labels => i \in 1..Len(stack[u]) /\ stack[u][i] \in labels
      BY <1>8, <3>1
    <3>. QED
      BY <1>11, <3>2 DEF Once
  <2>. QED
    BY <2>1, <2>2
<1>12. alarm' => ~Handling'
  <2>1. SUFFICES ASSUME alarm' PROVE ~On(MarkFrame)'
    BY DEF Handling, MarkFrame
  <2>2. ~On(MarkFrame)
    BY <2>1 DEF Shape, Handling, MarkFrame
  <2>3. b \notin MarkFrame
    BY <2>1, Labels
  <2>. QED
    BY <1>8, <2>2, <2>3 DEF On
<1>13. Base # "exited"
  <2>1. "main" \in Thread /\ 1 \in 1..Len(stack["main"])
    BY <1>3, Labels
  <2>. QED
    BY <2>1 DEF On, Base
<1>14. \A i \in 2..Len(stack'["main"]) : stack'["main"][i] \in HandlerFrame
  BY <1>1, <1>3, <1>8, Labels
<1>15. \A i \in 1..Len(stack'["watch"]) : stack'["watch"][i] \in HandlerFrame
  BY <1>1, <1>3, <1>8, Labels
<1>. QED
  BY <1>2, <1>3, <1>5, <1>9, <1>10, <1>11, <1>12, <1>13, <1>14, <1>15 DEF Shape, Pushed

LEMMA ShapeExit ==
    ASSUME Shape, Exit, UNCHANGED alarm
    PROVE  Shape'
<1>1. /\ stack' = [u \in {"main", "watch"} |-> IF u = "main" THEN <<"exited">> ELSE << >>]
      /\ stack'["main"] = <<"exited">> /\ stack'["watch"] = << >>
  BY DEF Exit
<1>2. "exited" \in Frame /\ "exited" \in BaseFrame /\ "exited" \notin MarkFrame /\ "exited" \notin ExitFrame
  BY DEF Frame, BaseFrame, MarkFrame, ExitFrame
<1>3. Stacks'
  BY <1>1, <1>2 DEF Stacks, Thread
<1>4. \A u \in Thread : \A i \in 1..Len(stack'[u]) : stack'[u][i] = "exited"
  BY <1>1, Labels
<1>5. Once(MarkFrame)' /\ Once(ExitFrame)' /\ ~On(MarkFrame)'
  BY <1>2, <1>4 DEF Once, On
<1>6. ~Handling'
  BY <1>5 DEF Handling, MarkFrame
<1>7. Base' = "exited"
  BY <1>1 DEF Base
<1>. QED
  BY <1>1, <1>2, <1>3, <1>5, <1>6, <1>7 DEF Shape

LEMMA ShapeInit == Init => Shape
<1>1. SUFFICES ASSUME Init PROVE Shape
  OBVIOUS
<1>2. /\ stack = [u \in {"main", "watch"} |-> IF u = "main" THEN <<"idle">> ELSE << >>]
      /\ stack["main"] = <<"idle">> /\ stack["watch"] = << >> /\ alarm = FALSE
  BY <1>1 DEF Init
<1>3. "idle" \in Frame /\ "idle" \in BaseFrame /\ "idle" \notin MarkFrame /\ "idle" \notin ExitFrame
  BY DEF Frame, BaseFrame, MarkFrame, ExitFrame
<1>4. Stacks
  BY <1>2, <1>3 DEF Stacks, Thread
<1>5. \A u \in Thread : \A i \in 1..Len(stack[u]) : stack[u][i] = "idle"
  BY <1>2, Labels
<1>6. Once(MarkFrame) /\ Once(ExitFrame)
  BY <1>3, <1>5 DEF Once
<1>7. Base = "idle"
  BY <1>2 DEF Base
<1>. QED
  BY <1>2, <1>3, <1>4, <1>6, <1>7 DEF Shape

(* Where each piece of code goes from where.                                *)
LEMMA WriteGoes ==
    ASSUME NEW t, NEW from, NEW msg, NEW next, Write(t, from, msg, next)
    PROVE  Goto(t, next) /\ UNCHANGED <<clock, now, timer, alarm, restart, cur, f_prevline, f_prevhost, f_repeatcount, taken, raced,
                                     long, mistaken>>
  BY DEF Write, signals

LEMMA ResetFrameKeeps ==
    ASSUME ResetFrame
    PROVE  UNCHANGED <<clock, now, alarm, restart, cur, f_type, f_prevline, f_prevhost,
                       f_time, out, taken, lossy, lookups, torn, raced, left, long>>
  BY DEF ResetFrame, signals

LEMMA ShapeInvariance ==
    ASSUME Shape, [Next]_vars
    PROVE  Shape'
<1>. USE DEF Idle
<1>1. ASSUME NEW a \in BaseFrame, NEW b \in BaseFrame, b # "exited",
             At("main", a), Goto("main", b), UNCHANGED alarm
      PROVE  Shape'
  BY <1>1, ShapeBase
<1>2. ASSUME NEW t \in Thread, NEW K \in {MarkFrame, ExitFrame}, NEW a \in K, NEW b \in K,
             At(t, a), Goto(t, b), UNCHANGED alarm
      PROVE  Shape'
  BY <1>2, ShapeHandler
<1>3. Idle => At("main", "idle")
  BY DEF At, Last
<1>4. CASE LogMsg
  <2>1. Goto("main", "compare") /\ UNCHANGED alarm /\ Idle
    BY <1>4 DEF LogMsg, signals
  <2>. QED
    BY <1>1, <1>3, <2>1 DEF BaseFrame, InHand
<1>5. CASE Compare
  <2>1. /\ At("main", "compare") /\ UNCHANGED alarm
        /\ Goto("main", "hold") \/ Goto("main", "flush") \/ Goto("main", "save")
    BY <1>5 DEF Compare, ResetFrame, signals
  <2>. QED
    BY <1>1, <2>1 DEF BaseFrame, InHand
<1>6. CASE Hold
  <2>1. /\ At("main", "hold") /\ UNCHANGED alarm
        /\ Goto("main", "write dup") \/ Goto("main", "idle")
    BY <1>6 DEF Hold, ResetFrame, signals, Done
  <2>. QED
    BY <1>1, <2>1 DEF BaseFrame, InHand
<1>7. CASE WriteDup
  <2>1. At("main", "write dup") /\ UNCHANGED alarm /\ Goto("main", "reset dup")
    BY <1>7, WriteGoes DEF WriteDup
  <2>. QED
    BY <1>1, <2>1 DEF BaseFrame, InHand
<1>8. CASE ResetDup
  <2>1. At("main", "reset dup") /\ UNCHANGED alarm /\ Goto("main", "idle")
    BY <1>8 DEF ResetDup, ResetFrame, signals, Done
  <2>. QED
    BY <1>1, <2>1 DEF BaseFrame, InHand
<1>9. CASE WriteOld
  <2>1. At("main", "flush") /\ UNCHANGED alarm /\ Goto("main", "reset old")
    BY <1>9, WriteGoes DEF WriteOld
  <2>. QED
    BY <1>1, <2>1 DEF BaseFrame, InHand
<1>10. CASE ResetOld
  <2>1. At("main", "reset old") /\ UNCHANGED alarm /\ Goto("main", "save")
    BY <1>10 DEF ResetOld, ResetFrame, signals
  <2>. QED
    BY <1>1, <2>1 DEF BaseFrame, InHand
<1>11. CASE Save
  <2>1. At("main", "save") /\ UNCHANGED alarm /\ Goto("main", "write new")
    BY <1>11 DEF Save, signals
  <2>. QED
    BY <1>1, <2>1 DEF BaseFrame, InHand
<1>12. CASE WriteNew
  <2>1. At("main", "write new") /\ UNCHANGED alarm /\ Goto("main", "reset new")
    BY <1>12, WriteGoes DEF WriteNew
  <2>. QED
    BY <1>1, <2>1 DEF BaseFrame, InHand
<1>13. CASE ResetNew
  <2>1. At("main", "reset new") /\ UNCHANGED alarm /\ Goto("main", "idle")
    BY <1>13 DEF ResetNew, ResetFrame, signals, Done
  <2>. QED
    BY <1>1, <2>1 DEF BaseFrame, InHand
<1>14. CASE StartInit
  <2>1. /\ Idle /\ UNCHANGED alarm
        /\ Goto("main", "write init") \/ Goto("main", "read")
    BY <1>14 DEF StartInit
  <2>. QED
    BY <1>1, <1>3, <2>1 DEF BaseFrame, InHand
<1>15. CASE WriteInit
  <2>1. At("main", "write init") /\ UNCHANGED alarm /\ Goto("main", "reset init")
    BY <1>15, WriteGoes DEF WriteInit
  <2>. QED
    BY <1>1, <2>1 DEF BaseFrame, InHand
<1>16. CASE ResetInit
  <2>1. At("main", "reset init") /\ UNCHANGED alarm /\ Goto("main", "read")
    BY <1>16 DEF ResetInit, ResetFrame, signals
  <2>. QED
    BY <1>1, <2>1 DEF BaseFrame, InHand
<1>17. CASE Read
  <2>1. At("main", "read") /\ UNCHANGED alarm /\ Goto("main", "idle")
    BY <1>17 DEF Read, signals
  <2>. QED
    BY <1>1, <2>1 DEF BaseFrame, InHand
<1>18. CASE Tick
  <2>1. stack' = stack /\ ~Handling
    BY <1>18 DEF Tick
  <2>2. Once(MarkFrame)' /\ Once(ExitFrame)'
    BY <2>1 DEF Shape, Once
  <2>3. Handling' = Handling /\ Base' = Base /\ Stacks'
    BY <2>1 DEF Shape, Stacks, Handling, On, Base
  <2>. QED
    BY <2>1, <2>2, <2>3 DEF Shape
<1>19. CASE Hup \/ UNCHANGED vars
  <2>1. stack' = stack /\ alarm' = alarm
    BY <1>19 DEF Hup, vars, signals
  <2>2. Once(MarkFrame)' /\ Once(ExitFrame)'
    BY <2>1 DEF Shape, Once
  <2>3. Handling' = Handling /\ Base' = Base /\ Stacks'
    BY <2>1 DEF Shape, Stacks, Handling, On, Base
  <2>. QED
    BY <2>1, <2>2, <2>3 DEF Shape
<1>20. ASSUME NEW t \in Thread, Alarm(t) PROVE Shape'
  <2>1. Catch(t, "mark") /\ alarm' = FALSE /\ ~On({"exited"}) /\ ~On(MarkFrame)
    BY <1>20 DEF Alarm, Shape, Handling, MarkFrame
  <2>2. "mark" \in MarkFrame
    BY DEF MarkFrame
  <2>. QED
    BY <2>1, <2>2, ShapeCatch
<1>21. ASSUME NEW t \in Thread, Term(t) PROVE Shape'
  <2>1. Catch(t, "exit") /\ alarm' = alarm /\ ~On({"exited"}) /\ ~On(ExitFrame)
    BY <1>21 DEF Term, Dying, ExitFrame, signals
  <2>2. "exit" \in ExitFrame /\ ExitFrame # MarkFrame
    BY DEF ExitFrame, MarkFrame
  <2>. QED
    BY <2>1, <2>2, ShapeCatch
<1>22. ASSUME NEW t \in Thread, Domark(t) PROVE Shape'
  <2>1. /\ At(t, "mark") /\ UNCHANGED alarm
        /\ Goto(t, "write mark") \/ Return(t)
    BY <1>22 DEF Domark, ResetFrame, signals
  <2>2. "mark" \in MarkFrame /\ "write mark" \in MarkFrame /\ "mark" \in HandlerFrame
    BY DEF MarkFrame, HandlerFrame
  <2>. QED
    BY <1>2, <2>1, <2>2, ShapeReturn
<1>23. ASSUME NEW t \in Thread, WriteMark(t) PROVE Shape'
  <2>1. At(t, "write mark") /\ UNCHANGED alarm /\ Goto(t, "reset mark")
    BY <1>23, WriteGoes DEF WriteMark
  <2>2. "write mark" \in MarkFrame /\ "reset mark" \in MarkFrame
    BY DEF MarkFrame
  <2>. QED
    BY <1>2, <2>1, <2>2
<1>24. ASSUME NEW t \in Thread, ResetMark(t) PROVE Shape'
  <2>1. At(t, "reset mark") /\ UNCHANGED alarm /\ Return(t)
    BY <1>24 DEF ResetMark, ResetFrame, signals
  <2>2. "reset mark" \in HandlerFrame
    BY DEF MarkFrame, HandlerFrame
  <2>. QED
    BY <2>1, <2>2, ShapeReturn
<1>25. ASSUME NEW t \in Thread, Die(t) PROVE Shape'
  <2>1. /\ At(t, "exit") /\ UNCHANGED alarm
        /\ Goto(t, "write exit") \/ Exit
    BY <1>25 DEF Die, ResetFrame, signals
  <2>2. "exit" \in ExitFrame /\ "write exit" \in ExitFrame
    BY DEF ExitFrame
  <2>. QED
    BY <1>2, <2>1, <2>2, ShapeExit
<1>26. ASSUME NEW t \in Thread, WriteExit(t) PROVE Shape'
  <2>1. At(t, "write exit") /\ UNCHANGED alarm /\ Goto(t, "reset exit")
    BY <1>26, WriteGoes DEF WriteExit
  <2>2. "write exit" \in ExitFrame /\ "reset exit" \in ExitFrame
    BY DEF ExitFrame
  <2>. QED
    BY <1>2, <2>1, <2>2
<1>27. ASSUME NEW t \in Thread, ResetExit(t) PROVE Shape'
  <2>1. UNCHANGED alarm /\ Exit
    BY <1>27 DEF ResetExit, ResetFrame, signals
  <2>. QED
    BY <2>1, ShapeExit
<1>. QED
  BY <1>4, <1>5, <1>6, <1>7, <1>8, <1>9, <1>10, <1>11, <1>12, <1>13, <1>14, <1>15, <1>16, <1>17,
     <1>18,
     <1>19, <1>20, <1>21, <1>22, <1>23, <1>24, <1>25, <1>26, <1>27
     DEF Next, LogSteps, Reload, Signals, Handlers

----------------------------------------------------------------------------
(***************************************************************************)
(* Types, without the bounds of the counters.                              *)
(***************************************************************************)
Said == [line : Line \cup {Empty}, host : Host \cup {Empty}, n : Nat \ {0}]

Times ==
    /\ clock \in Boot..(Boot + MaxTime) /\ now \in Boot..clock /\ f_time \in 0..clock
    /\ timer \in (Boot + TimerIntvl)..(clock + TimerIntvl)

Flags ==
    /\ alarm \in BOOLEAN /\ restart \in BOOLEAN /\ masked \in BOOLEAN
    /\ lossy \in BOOLEAN /\ torn \in BOOLEAN /\ raced \in BOOLEAN
    /\ long \in BOOLEAN /\ mistaken \in BOOLEAN

Destination ==
    /\ f_type \in {"file", "forw", "susp", "unkn", "unused"}
    /\ f_prevline \in Line \cup {Empty} /\ f_prevhost \in Host \cup {Empty}
    /\ f_prevcount \in Int /\ lookups \in Nat
    /\ f_repeatcount \in 0..(Len(Interval) - 1)

Lines ==
    /\ cur \in Entry /\ taken \in 0..MaxLines
    /\ complete \in Seq(Entry) /\ out \in Seq(Said) /\ left \subseteq 1..Len(out)

Typed == Times /\ Flags /\ Destination /\ Lines

LEMMA TypedInit == Init => Typed
<1>1. SUFFICES ASSUME Init PROVE Typed
  OBVIOUS
<1>2. Retries \in Nat /\ MaxTime \in Nat /\ MaxLines \in Nat /\ Len(Interval) \in Nat /\ Len(Interval) > 0
      /\ Boot \in Nat /\ TimerIntvl \in Nat
  BY RepeatAssumption
<1>3. Times
  BY <1>1, <1>2 DEF Init, Times, Loaded
<1>4. Flags
  BY <1>1 DEF Init, Flags
<1>5. Destination
  <2>1. f_type \in {"file", "forw", "unkn"}
    BY <1>1, RepeatAssumption DEF Init
  <2>. QED
    BY <1>1, <1>2, <2>1 DEF Init, Destination, Counter
<1>6. Lines
  BY <1>1, <1>2 DEF Init, Lines, NoLine, Entry
<1>. QED
  BY <1>3, <1>4, <1>5, <1>6 DEF Typed

LEMMA TextIs ==
    ASSUME Typed, NEW msg \in Line \cup {Empty}
    PROVE  Text(msg) \in Said
<1>1. f_prevline \in Line \cup {Empty} /\ f_prevhost \in Host \cup {Empty} /\ f_prevcount \in Int
  BY DEF Typed, Destination
<1>2. CASE msg # Empty
  BY <1>1, <1>2 DEF Text, Said
<1>3. CASE msg = Empty
  <2>. DEFINE n == IF f_prevcount > 1 THEN f_prevcount ELSE 1
  <2>1. n \in Nat \ {0}
    BY <1>1
  <2>2. Text(msg) = [line |-> f_prevline, host |-> f_prevhost, n |-> n]
    BY <1>3 DEF Text
  <2>. HIDE DEF n
  <2>. QED
    BY <1>1, <2>1, <2>2 DEF Said
<1>. QED
  BY <1>2, <1>3

(* What a write does to the log, when nothing is lost.                      *)
LEMMA OutTyped ==
    ASSUME Typed, NEW t, NEW from, NEW msg \in Line \cup {Empty}, Out(t, from, msg)
    PROVE  /\ f_time' \in {now, f_time} /\ masked' \in BOOLEAN /\ lossy' \in BOOLEAN
           /\ f_type' \in {"forw", "susp", "unused", f_type}
           /\ complete' \in Seq(Entry) /\ out' \in Seq(Said) /\ left' \subseteq 1..Len(out')
           /\ lossy => lossy'
<1>1. /\ masked \in BOOLEAN /\ lossy \in BOOLEAN
      /\ complete \in Seq(Entry) /\ out \in Seq(Said) /\ left \subseteq 1..Len(out)
  BY DEF Typed, Flags, Lines
<1>2. Text(msg) \in Said
  BY TextIs
<1>. DEFINE more == Append(out, Text(msg))
<1>3. more \in Seq(Said) /\ << >> \in Seq(Said) /\ << >> \in Seq(Entry)
  BY <1>1, <1>2
<1>4. Len(out) \in Nat /\ Len(more) = Len(out) + 1
  BY <1>1, <1>2
<1>. HIDE DEF more
<1>8. PICK n \in Nat : n = Len(out)
  BY <1>4
<1>9. PICK m \in Nat : m = Len(more) /\ m = n + 1
  BY <1>4, <1>8
<1>5. left \cup {n + 1} \subseteq 1..m /\ left \subseteq 1..m
  <2>1. left \subseteq 1..n
    BY <1>1, <1>8
  <2>2. 1..n \subseteq 1..m /\ n + 1 \in 1..m
    BY <1>9
  <2>. QED
    BY <2>1, <2>2
<1>6. CASE f_type # "file" /\ from # LocalHost /\ NoHops
  <2>1. out' = (IF lossy THEN out ELSE more) /\ left' = IF lossy THEN left ELSE left \cup {Len(out) + 1}
    BY <1>6 DEF Out, AfterSend, AfterWrite, more
  <2>2. /\ f_type' = "forw" /\ UNCHANGED <<f_time, masked, complete, lossy>>
    BY <1>6 DEF Out, AfterSend, AfterWrite
  <2>3. CASE lossy
    BY <1>1, <2>1, <2>2, <2>3
  <2>4. CASE ~lossy
    BY <1>1, <1>3, <1>5, <1>8, <1>9, <2>1, <2>2, <2>4
  <2>. QED
    BY <2>3, <2>4
<1>7. CASE ~(f_type # "file" /\ from # LocalHost /\ NoHops)
  <2>1. /\ f_time' = now /\ masked' \in BOOLEAN /\ lossy' \in BOOLEAN /\ (lossy => lossy')
        /\ f_type' \in {"forw", "susp", "unused", f_type}
        /\ complete' = (IF lossy' THEN << >> ELSE complete)
    BY <1>1, <1>7 DEF Out, AfterSend, AfterWrite
  <2>2. out' = (IF lossy' THEN << >> ELSE more) /\ left' = IF lossy' THEN {} ELSE left
    BY <1>7 DEF Out, AfterSend, AfterWrite, more
  <2>3. CASE lossy'
    BY <1>3, <2>1, <2>2, <2>3
  <2>4. CASE ~lossy'
    BY <1>1, <1>3, <1>5, <1>8, <1>9, <2>1, <2>2, <2>4
  <2>. QED
    BY <2>3, <2>4
<1>. QED
  BY <1>6, <1>7

LEMMA WriteTyped ==
    ASSUME Typed, NEW t, NEW from, NEW msg \in Line \cup {Empty}, NEW next,
           Write(t, from, msg, next)
    PROVE  Typed' /\ (lossy => lossy')
<1>1. /\ f_time' \in {now, f_time} /\ masked' \in BOOLEAN /\ lossy' \in BOOLEAN
      /\ f_type' \in {"forw", "susp", "unused", f_type}
      /\ complete' \in Seq(Entry) /\ out' \in Seq(Said) /\ left' \subseteq 1..Len(out')
      /\ lossy => lossy'
  <2>1. CASE Out(t, from, msg)
    BY <2>1, OutTyped
  <2>2. CASE UNCHANGED <<masked, out, left, complete, lossy>> /\ f_time' \in {now, f_time}
             /\ f_type' \in {"unused", f_type}
    BY <2>2 DEF Typed, Flags, Lines
  <2>. QED
    BY <2>1, <2>2 DEF Write, Lookup
<1>2. f_prevcount' \in Int /\ lookups' \in Nat
  BY DEF Write, Lookup, Typed, Destination
<1>3. torn' \in BOOLEAN
  BY DEF Write
<1>4. UNCHANGED <<clock, now, timer, alarm, restart, cur, f_prevline, f_prevhost, f_repeatcount, taken, raced,
                  long, mistaken>>
  BY WriteGoes
<1>5. Times'
  BY <1>1, <1>4, RepeatAssumption DEF Typed, Times
<1>6. Flags'
  BY <1>1, <1>3, <1>4 DEF Typed, Flags
<1>7. Destination'
  BY <1>1, <1>2, <1>4 DEF Typed, Destination
<1>8. Lines'
  BY <1>1, <1>4 DEF Typed, Lines
<1>. QED
  BY <1>1, <1>5, <1>6, <1>7, <1>8 DEF Typed

LEMMA MessagesTyped ==
    ASSUME Typed
    PROVE  /\ cur.line \in Line \cup {Empty} /\ cur.host \in Host \cup {Empty}
           /\ Empty \in Line \cup {Empty}
           /\ (IF cur.line \in LongLine THEN cur.line ELSE Empty) \in Line \cup {Empty}
<1>1. cur \in [line : Line \cup {Empty}, host : Host \cup {Empty}]
  BY DEF Typed, Lines, Entry
<1>. QED
  BY <1>1

(* What ends a fprintlog, or is not one.                                    *)
LEMMA ResetTyped ==
    ASSUME Typed, ResetFrame,
           Reset \/ f_prevcount' = f_prevcount \/ f_prevcount' = f_prevcount + 1,
           Backoff \/ UNCHANGED f_repeatcount,
           complete' = complete \/ complete' = Append(complete, cur),
           masked' = masked \/ masked' = FALSE,
           mistaken' \in BOOLEAN, Rearm \/ UNCHANGED timer
    PROVE  Typed'
<1>1. UNCHANGED <<clock, now, alarm, restart, cur, f_type, f_prevline, f_prevhost,
                  f_time, out, taken, lossy, lookups, torn, raced, left, long>>
  BY ResetFrameKeeps
<1>2. Times'
  <2>1. Boot \in Nat /\ TimerIntvl \in Nat
    BY RepeatAssumption
  <2>. QED
    BY <1>1, <2>1 DEF Typed, Times, Rearm
<1>3. Flags'
  BY <1>1 DEF Typed, Flags
<1>4. Destination'
  <2>1. f_prevcount' \in Int
    BY DEF Reset, Typed, Destination
  <2>2. f_repeatcount \in 0..(Len(Interval) - 1) /\ Len(Interval) \in Nat
    BY RepeatAssumption DEF Typed, Destination
  <2>3. f_repeatcount' \in 0..(Len(Interval) - 1)
    BY <2>2 DEF Backoff
  <2>. QED
    BY <1>1, <2>1, <2>3 DEF Typed, Destination
<1>5. Lines'
  <2>1. cur \in Entry /\ complete \in Seq(Entry)
    BY DEF Typed, Lines
  <2>2. complete' \in Seq(Entry)
    BY <2>1
  <2>. QED
    BY <1>1, <2>2 DEF Typed, Lines
<1>. QED
  BY <1>2, <1>3, <1>4, <1>5 DEF Typed

LEMMA TypedInvariance ==
    ASSUME Typed, [Next]_vars
    PROVE  Typed' /\ (lossy => lossy')
<1>0. Retries \in Nat /\ MaxTime \in Nat /\ MaxLines \in Nat /\ Boot \in Nat /\ TimerIntvl \in Nat
  BY RepeatAssumption
<1>1. CASE LogMsg
  <2>1. /\ now' = clock
        /\ UNCHANGED <<clock, timer, alarm, restart, filed, out, complete, lossy, lookups, torn, left, long, mistaken>>
        /\ taken' = taken + 1 /\ taken < MaxLines
        /\ raced' \in BOOLEAN /\ masked' \in BOOLEAN
    BY <1>1 DEF LogMsg, signals, history, Begin, Typed, Flags
  <2>2. cur' \in Entry
    BY <1>1 DEF LogMsg, Entry
  <2>3. Times' /\ Flags' /\ Destination'
    BY <2>1 DEF Typed, Times, Flags, Destination, filed
  <2>4. Lines'
    BY <1>0, <2>1, <2>2 DEF Typed, Lines
  <2>. QED
    BY <2>1, <2>3, <2>4 DEF Typed
<1>2. CASE \E t, from, next : \E msg \in Line \cup {Empty} : Write(t, from, msg, next)
  BY <1>2, WriteTyped
<1>3. CASE /\ ResetFrame
           /\ Reset \/ f_prevcount' = f_prevcount \/ f_prevcount' = f_prevcount + 1
           /\ Backoff \/ UNCHANGED f_repeatcount
           /\ complete' = complete \/ complete' = Append(complete, cur)
           /\ masked' = masked \/ masked' = FALSE
           /\ mistaken' \in BOOLEAN
           /\ Rearm \/ UNCHANGED timer
  <2>1. lossy' = lossy
    BY <1>3 DEF ResetFrame
  <2>. QED
    BY <1>3, <2>1, ResetTyped
<1>4. CASE Save
  <2>1. /\ f_prevline' \in {Empty, cur.line} /\ f_prevhost' = cur.host /\ f_repeatcount' = 0
        /\ UNCHANGED <<clock, now, timer, alarm, restart, masked, cur, f_type, f_prevcount, f_time,
                       out, taken, complete, lossy, lookups, torn, raced, left, mistaken>>
    <3>1. f_prevline' \in {Empty, cur.line} /\ f_prevhost' = cur.host /\ f_repeatcount' = 0
      BY <1>4 DEF Save, SaveHost
    <3>2. UNCHANGED <<clock, now, timer, alarm, restart, masked, cur, f_type, f_prevcount, f_time,
                      out, taken, complete, lossy, lookups, torn, raced, left, mistaken>>
      BY <1>4 DEF Save, signals
    <3>. QED
      BY <3>1, <3>2
  <2>5. long' \in BOOLEAN
    <3>1. long' = (cur.line \in LongLine)
      BY <1>4 DEF Save
    <3>2. CASE cur.line \in LongLine
      BY <3>1, <3>2
    <3>3. CASE cur.line \notin LongLine
      BY <3>1, <3>3
    <3>. QED
      BY <3>2, <3>3
  <2>2. 0 \in 0..(Len(Interval) - 1)
    BY RepeatAssumption
  <2>3. Times' /\ Flags' /\ Lines'
    BY <2>1, <2>5 DEF Typed, Times, Flags, Lines
  <2>4. Destination'
    BY <2>1, <2>2, MessagesTyped DEF Typed, Destination
  <2>. QED
    BY <2>1, <2>3, <2>4 DEF Typed
<1>5. CASE Read
  <2>1. /\ f_type' \in {"file", "forw", "unkn"} /\ f_prevline' = Empty /\ f_prevhost' = Empty
        /\ f_repeatcount' = 0 /\ f_time' \in {clock, 0} /\ lookups' = 0
        /\ f_prevcount' = Counter(f_type')
        /\ UNCHANGED <<clock, now, timer, alarm, restart, masked, cur, taken, raced, mistaken>> /\ long' = FALSE
        /\ (out' = << >> /\ left' = {}) \/ UNCHANGED <<out, left>>
        /\ complete' \in {<< >>, complete}
        /\ lossy' = (lossy \/ f_type' = "unkn") /\ torn' = (torn /\ ~lossy')
    BY <1>5, RepeatAssumption DEF Read, signals, Loaded
  <2>2. 0 \in 0..(Len(Interval) - 1)
    BY RepeatAssumption
  <2>3. Times'
    BY <1>0, <2>1 DEF Typed, Times
  <2>4. Flags' /\ (lossy => lossy')
    BY <2>1 DEF Typed, Flags
  <2>5. Destination'
    BY <1>0, <2>1, <2>2 DEF Destination, Counter
  <2>6. Lines'
    <3>1. << >> \in Seq(Entry) /\ << >> \in Seq(Said)
      OBVIOUS
    <3>. QED
      BY <2>1, <3>1 DEF Typed, Lines
  <2>. QED
    BY <2>3, <2>4, <2>5, <2>6 DEF Typed
<1>6. CASE LogSteps
  <2>0. mistaken \in BOOLEAN
    BY DEF Typed, Flags
  <2>1. CASE Compare
    <3>1. mistaken' \in BOOLEAN
      BY <2>1 DEF Compare, Typed, Flags
    <3>. QED
      BY <1>3, <2>1, <3>1 DEF Compare
  <2>2. CASE Hold
    BY <1>3, <2>0, <2>2 DEF Hold, Done
  <2>3. CASE ResetDup \/ ResetNew
    BY <1>3, <2>0, <2>3 DEF ResetDup, ResetNew, Done
  <2>4. CASE ResetOld
    BY <1>3, <2>0, <2>4 DEF ResetOld
  <2>5. CASE WriteDup \/ WriteOld \/ WriteNew
    BY <1>2, <2>5, MessagesTyped DEF WriteDup, WriteOld, WriteNew
  <2>. QED
    BY <1>4, <1>6, <2>1, <2>2, <2>3, <2>4, <2>5 DEF LogSteps
<1>7. CASE Reload
  <2>1. CASE StartInit
    <3>1. UNCHANGED <<clock, now, timer, alarm, masked, cur, filed, out, taken, complete, lossy, lookups, torn, history>>
          /\ restart' \in BOOLEAN /\ raced' \in BOOLEAN
      BY <2>1 DEF StartInit, Begin, Typed, Flags
    <3>. QED
      BY <3>1 DEF Typed, Times, Flags, Destination, Lines, filed, history
  <2>2. CASE WriteInit
    BY <1>2, <2>2, MessagesTyped DEF WriteInit
  <2>3. CASE ResetInit
    <3>1. mistaken' \in BOOLEAN
      BY <2>3 DEF ResetInit, Typed, Flags
    <3>. QED
      BY <1>3, <2>3, <3>1 DEF ResetInit
  <2>. QED
    BY <1>5, <1>7, <2>1, <2>2, <2>3 DEF Reload
<1>8. CASE Tick
  <2>1. clock < Boot + MaxTime /\ clock' = clock + 1 /\ alarm' \in BOOLEAN
        /\ UNCHANGED <<now, timer, restart, masked, cur, filed, out, taken, complete, lossy, lookups, torn, raced, history>>
    BY <1>8 DEF Tick, Typed, Flags
  <2>2. Times'
    BY <1>0, <2>1 DEF Typed, Times, filed
  <2>. QED
    BY <2>1, <2>2 DEF Typed, Flags, Destination, Lines, filed, history
<1>9. CASE Hup \/ UNCHANGED vars
  <2>1. restart' \in BOOLEAN
        /\ UNCHANGED <<clock, now, timer, alarm, masked, cur, filed, out, taken, complete, lossy, lookups, torn, raced, history>>
    BY <1>9 DEF Hup, vars, signals, Typed, Flags
  <2>. QED
    BY <2>1 DEF Typed, Times, Flags, Destination, Lines, filed, history
<1>10. ASSUME NEW t \in Thread, Alarm(t) \/ Term(t) PROVE Typed' /\ (lossy => lossy')
  <2>1. /\ alarm' \in BOOLEAN /\ raced' \in BOOLEAN
        /\ (now' = clock \/ (now' = now /\ alarm' = alarm))
        /\ UNCHANGED <<clock, timer, restart, masked, cur, filed, out, taken, complete, lossy, lookups, torn, history>>
    BY <1>10 DEF Alarm, Term, Catch, Begin, signals, Typed, Flags
  <2>2. Times'
    BY <1>0, <2>1 DEF Typed, Times, filed
  <2>. QED
    BY <2>1, <2>2 DEF Typed, Flags, Destination, Lines, filed, history
<1>11. ASSUME NEW t \in Thread, Handlers(t) PROVE Typed' /\ (lossy => lossy')
  <2>1. CASE WriteMark(t) \/ WriteExit(t)
    BY <1>2, <2>1, MessagesTyped DEF WriteMark, WriteExit
  <2>2. CASE Domark(t) \/ ResetMark(t) \/ Die(t) \/ ResetExit(t)
    <3>1. mistaken' \in BOOLEAN
      BY <2>2 DEF Domark, ResetMark, Die, ResetExit, Typed, Flags
    <3>. QED
      BY <1>3, <2>2, <3>1 DEF Domark, ResetMark, Die, ResetExit
  <2>. QED
    BY <1>11, <2>1, <2>2 DEF Handlers
<1>. QED
  BY <1>1, <1>4, <1>6, <1>7, <1>8, <1>9, <1>10, <1>11 DEF Next, Signals

----------------------------------------------------------------------------
(***************************************************************************)
(* What the steps of a handler leave alone.                                *)
(***************************************************************************)
LEMMA First == \A n \in 1..3 : 1 \in 1..n /\ (n # 1 => 1 \in 1..(n - 1))
  OBVIOUS

LEMMA HandlerGoto ==
    ASSUME Shape, NEW t \in Thread, NEW a \in HandlerFrame, NEW b \in HandlerFrame, At(t, a),
           Goto(t, b)
    PROVE  Moved(t, a, b) /\ Base' = Base
<1>1. a \notin BaseFrame /\ b \in Frame
  BY Labels
<1>2. Moved(t, a, b)
  BY <1>1, GotoMoves DEF Shape
<1>3. Len(stack["main"]) \in 1..3 /\ Base \in BaseFrame
  BY DEF Shape
<1>4. ~(t = "main" /\ Len(stack[t]) = 1)
  BY <1>1, <1>2, <1>3 DEF Moved, Base
<1>. QED
  BY <1>2, <1>3, <1>4, Labels DEF Moved, Base

LEMMA HandlerReturn ==
    ASSUME Shape, NEW t \in Thread, NEW a \in HandlerFrame, At(t, a), Return(t)
    PROVE  Popped(t, a) /\ Base' = Base
<1>1. a \notin BaseFrame
  BY Labels
<1>2. Popped(t, a)
  BY ReturnPops DEF Shape
<1>3. Len(stack["main"]) \in 1..3 /\ Base \in BaseFrame
  BY DEF Shape
<1>4. ~(t = "main" /\ Len(stack[t]) = 1)
  BY <1>1, <1>2, <1>3 DEF Popped, Base
<1>5. CASE t = "main"
  <2>1. 1 \in 1..(Len(stack[t]) - 1)
    BY <1>3, <1>4, <1>5, First
  <2>. QED
    BY <1>2, <1>5, <2>1 DEF Popped, Base
<1>6. CASE t # "main"
  BY <1>2, <1>6, Labels DEF Popped, Base
<1>. QED
  BY <1>2, <1>5, <1>6

LEMMA HandlerCatch ==
    ASSUME Shape, NEW t \in Thread, NEW b \in HandlerFrame, Catch(t, b)
    PROVE  Pushed(t, b) /\ Base' = Base
<1>1. Pushed(t, b)
  BY Labels, CatchPushes DEF Shape
<1>2. 1 \in 1..Len(stack["main"])
  BY First DEF Shape
<1>. QED
  BY <1>1, <1>2, Labels DEF Pushed, Base

LEMMA OnMoved ==
    ASSUME Stacks, NEW t \in Thread, NEW a, NEW b, Moved(t, a, b), NEW L
    PROVE  /\ On(L) /\ a \notin L => On(L)'
           /\ b \in L => On(L)'
           /\ On(L)' /\ b \notin L => On(L)
<1>1. Len(stack[t]) \in Nat /\ Len(stack[t]) > 0 /\ Len(stack[t]) \in 1..Len(stack[t])
  BY DEF Moved, Stacks
<1>2. \A u \in Thread : Len(stack'[u]) = Len(stack[u])
  BY DEF Moved
<1>3. \A u \in Thread : \A i \in 1..Len(stack[u]) :
         \/ stack'[u][i] = stack[u][i]
         \/ stack[u][i] = a /\ stack'[u][i] = b
  BY DEF Moved
<1>4. b \in L => On(L)'
  BY <1>1, <1>2 DEF Moved, On
<1>. QED
  BY <1>2, <1>3, <1>4 DEF On

LEMMA OnPopped ==
    ASSUME Stacks, NEW t \in Thread, NEW a, Popped(t, a), NEW L
    PROVE  /\ On(L) /\ a \notin L => On(L)'
           /\ On(L)' => On(L)
<1>1. Len(stack[t]) \in Nat /\ Len(stack'[t]) = Len(stack[t]) - 1
  BY DEF Popped, Stacks
<1>2. ASSUME NEW u \in Thread, NEW i \in 1..Len(stack'[u])
      PROVE  i \in 1..Len(stack[u]) /\ stack'[u][i] = stack[u][i]
  BY <1>1, <1>2 DEF Popped
<1>3. ASSUME NEW u \in Thread, NEW i \in 1..Len(stack[u]), stack[u][i] # a
      PROVE  i \in 1..Len(stack'[u]) /\ stack'[u][i] = stack[u][i]
  <2>1. CASE u # t
    BY <1>3, <2>1 DEF Popped
  <2>2. CASE u = t
    <3>1. i \in 1..(Len(stack[t]) - 1)
      BY <1>1, <1>3, <2>2 DEF Popped
    <3>. QED
      BY <1>1, <2>2, <3>1 DEF Popped
  <2>. QED
    BY <2>1, <2>2
<1>. QED
  BY <1>2, <1>3 DEF On

LEMMA OnPushed ==
    ASSUME Stacks, NEW t \in Thread, NEW b, Pushed(t, b), NEW L
    PROVE  /\ On(L) => On(L)'
           /\ On(L)' /\ b \notin L => On(L)
<1>1. Len(stack[t]) \in Nat /\ Len(stack'[t]) = Len(stack[t]) + 1
  BY DEF Pushed, Stacks
<1>2. ASSUME NEW u \in Thread, NEW i \in 1..Len(stack'[u])
      PROVE  stack'[u][i] = b \/ (i \in 1..Len(stack[u]) /\ stack'[u][i] = stack[u][i])
  <2>1. CASE u # t
    BY <1>2, <2>1 DEF Pushed
  <2>2. CASE u = t
    <3>1. i \in 1..Len(stack[t]) \/ i = Len(stack[t]) + 1
      BY <1>1, <1>2, <2>2
    <3>. QED
      BY <2>2, <3>1 DEF Pushed
  <2>. QED
    BY <2>1, <2>2
<1>3. ASSUME NEW u \in Thread, NEW i \in 1..Len(stack[u])
      PROVE  i \in 1..Len(stack'[u]) /\ stack'[u][i] = stack[u][i]
  BY <1>1, <1>3 DEF Pushed
<1>. QED
  BY <1>2, <1>3 DEF On

LEMMA OnBase ==
    ASSUME Shape, NEW a \in BaseFrame, NEW b \in Frame, At("main", a), Goto("main", b), NEW L
    PROVE  /\ On(L) /\ a \notin L => On(L)'
           /\ b \in L => On(L)'
           /\ On(L)' /\ b \notin L => On(L)
  BY Labels, GotoMoves, OnMoved DEF Shape

----------------------------------------------------------------------------
(***************************************************************************)
(* The counters.  Every repetition that f_prevcount counts, and every      *)
(* lookup in vain, is paid for by a line taken or a retry.                 *)
(***************************************************************************)
Resetting == {"reset dup", "reset old", "reset new", "reset mark", "reset exit", "reset init"}

Comparing == IF Base = "compare" THEN 1 ELSE 0

Handed == IF Base \in InHand THEN 1 ELSE 0

Short == \A i \in 1..Len(out) : out[i].n <= MaxLines

Counts ==
    /\ f_prevcount >= -1
    /\ f_prevcount < 0 => f_type = "unused" /\ On(Resetting)
    /\ f_type # "unkn" => lookups = 0
    /\ f_prevcount + lookups + Comparing <= Retries + taken
    /\ ~lossy => f_type \in {"file", "forw"} /\ f_prevcount + Comparing <= taken
    /\ Len(complete) + Handed <= taken
    /\ Short

LEMMA ShortKept ==
    /\ out = << >> => Short
    /\ out' = << >> => Short'
    /\ UNCHANGED out /\ Short => Short'
<1>1. Len(<< >>) = 0 /\ 1..0 = {}
  OBVIOUS
<1>. QED
  BY <1>1 DEF Short

LEMMA CountsInit == Init => Counts
<1>1. SUFFICES ASSUME Init PROVE Counts
  OBVIOUS
<1>2. Base = "idle" /\ taken = 0 /\ complete = << >> /\ out = << >> /\ lookups = 0
      /\ f_prevcount = Counter(f_type) /\ (lossy <=> f_type = "unkn") /\ f_type \in {"file", "forw", "unkn"}
  BY <1>1, RepeatAssumption DEF Init, Base
<1>3. "idle" \notin InHand /\ Retries \in Nat /\ Len(<< >>) = 0
  BY RepeatAssumption DEF InHand
<1>4. Comparing = 0 /\ Handed = 0
  BY <1>2, <1>3 DEF Comparing, Handed
<1>5. f_prevcount \in 0..Retries /\ (f_type # "unkn" => f_prevcount = 0)
  BY <1>2, <1>3 DEF Counter
<1>6. Short
  BY <1>2, ShortKept
<1>. QED
  BY <1>2, <1>3, <1>4, <1>5, <1>6 DEF Counts

LEMMA Ones ==
    /\ Comparing \in {0, 1} /\ Handed \in {0, 1}
    /\ Comparing <= Handed
<1>1. Base = "compare" => Base \in InHand
  BY DEF InHand
<1>. QED
  BY <1>1 DEF Comparing, Handed

LEMMA OnesNext ==
    /\ Comparing' \in {0, 1} /\ Handed' \in {0, 1}
    /\ Base' # "compare" => Comparing' = 0
    /\ Base' = Base => Comparing' = Comparing
  BY DEF Comparing, Handed

LEMMA HandedKeeps ==
    ASSUME Typed, UNCHANGED complete, Base' \in InHand => Base \in InHand
    PROVE  Len(complete') + Handed' <= Len(complete) + Handed
<1>1. Len(complete) \in Nat
  BY DEF Typed, Lines
<1>2. CASE Base' \in InHand
  BY <1>1, <1>2 DEF Handed
<1>3. CASE Base' \notin InHand
  <2>1. Handed' = 0 /\ Handed \in {0, 1}
    BY <1>3 DEF Handed
  <2>. QED
    BY <1>1, <2>1
<1>. QED
  BY <1>2, <1>3

LEMMA HandedDone ==
    ASSUME Typed, Base \in InHand, Base' \notin InHand,
           complete' = complete \/ complete' = Append(complete, cur)
    PROVE  Len(complete') + Handed' <= Len(complete) + Handed
<1>1. complete \in Seq(Entry) /\ cur \in Entry
  BY DEF Typed, Lines
<1>2. Len(complete) \in Nat /\ (Len(complete') = Len(complete) \/ Len(complete') = Len(complete) + 1)
  BY <1>1
<1>3. Handed' = 0 /\ Handed = 1
  BY DEF Handed
<1>. QED
  BY <1>2, <1>3

(* A step that leaves the counters alone.                                   *)
LEMMA CountsStill ==
    ASSUME Shape, Typed, Counts,
           Typed', UNCHANGED <<f_type, f_prevcount, lookups, taken, lossy, out>>,
           f_prevcount < 0 /\ On(Resetting) => On(Resetting)',
           Base' = "compare" => Base = "compare",
           Len(complete') + Handed' <= Len(complete) + Handed
    PROVE  Counts'
<1>1. f_prevcount \in Int /\ lookups \in Nat /\ taken \in Nat /\ Retries \in Nat
      /\ Len(complete) \in Nat /\ Len(complete') \in Nat
  BY RepeatAssumption DEF Typed, Destination, Lines
<1>2. Comparing' <= Comparing /\ Comparing' \in Int /\ Comparing \in Int
      /\ Handed' \in Int /\ Handed \in Int
  BY DEF Comparing, Handed
<1>3. Short'
  BY ShortKept DEF Counts
<1>4. f_prevcount' >= -1
  BY <1>1 DEF Counts
<1>5. f_prevcount' < 0 => f_type' = "unused" /\ On(Resetting)'
  BY DEF Counts
<1>6. f_type' # "unkn" => lookups' = 0
  BY <1>1 DEF Counts
<1>10. /\ f_prevcount + lookups + Comparing <= Retries + taken
       /\ ~lossy => f_type \in {"file", "forw"} /\ f_prevcount + Comparing <= taken
  BY DEF Counts
<1>13. PICK x \in Int : x = Comparing' /\ x <= Comparing
  BY <1>2
<1>14. Comparing \in Int /\ Retries + taken \in Int /\ 0 \in Int
  BY <1>1, <1>2
<1>11. f_prevcount + lookups + x <= Retries + taken
  <2>1. f_prevcount + lookups + Comparing <= Retries + taken
    BY <1>10
  <2>2. x <= Comparing
    BY <1>13
  <2>. HIDE DEF Comparing
  <2>3. PICK c \in Int : c = Comparing
    BY <1>14
  <2>4. PICK d \in Int : d = f_prevcount + lookups
    BY <1>1
  <2>5. d + c <= Retries + taken
    BY <2>1, <2>3, <2>4
  <2>6. d + x <= Retries + taken
    BY <1>1, <2>2, <2>3, <2>5
  <2>. QED
    BY <2>4, <2>6
<1>12. ASSUME ~lossy PROVE f_prevcount + x <= taken
  <2>1. f_prevcount + Comparing <= taken
    BY <1>10, <1>12
  <2>2. x <= Comparing
    BY <1>13
  <2>. HIDE DEF Comparing
  <2>. QED
    BY <1>1, <1>14, <2>1, <2>2
<1>7. f_prevcount' + lookups' + Comparing' <= Retries + taken'
  BY <1>11, <1>13
<1>8. ~lossy' => f_type' \in {"file", "forw"} /\ f_prevcount' + Comparing' <= taken'
  BY <1>10, <1>12, <1>13
<1>9. Len(complete') + Handed' <= taken'
  BY <1>1, <1>2 DEF Counts
<1>. QED
  BY <1>3, <1>4, <1>5, <1>6, <1>7, <1>8, <1>9 DEF Counts

LEMMA CountsReset ==
    ASSUME Shape, Typed, Counts, Typed', ResetFrame, Reset,
           Base' # "compare" \/ Base' = Base,
           Len(complete') + Handed' <= Len(complete) + Handed
    PROVE  Counts'
<1>1. f_prevcount \in Int /\ lookups \in Nat /\ taken \in Nat /\ Retries \in Nat
      /\ Len(complete) \in Nat /\ Len(complete') \in Nat
  BY RepeatAssumption DEF Typed, Destination, Lines
<1>2. UNCHANGED <<f_type, out, taken, lossy, lookups>>
  BY ResetFrameKeeps
<1>3. Comparing' <= Comparing /\ Comparing <= Handed
      /\ Comparing' \in Int /\ Comparing \in Int
      /\ Handed' \in Int /\ Handed \in Int
  BY Ones, OnesNext
<1>4. \/ f_prevcount' = f_prevcount /\ f_type = "unkn"
      \/ f_prevcount' = 0 /\ f_type # "unkn"
  BY DEF Reset
<1>5. f_prevcount' >= 0
  BY <1>1, <1>4 DEF Counts
<1>6. f_prevcount' + lookups' + Comparing' <= Retries + taken'
  <2>1. Comparing <= taken
    BY <1>1, <1>3 DEF Counts
  <2>. QED
    BY <1>1, <1>2, <1>3, <1>4, <2>1 DEF Counts
<1>7. ~lossy' => f_type' \in {"file", "forw"} /\ f_prevcount' + Comparing' <= taken'
  <2>1. Comparing <= taken
    BY <1>1, <1>3 DEF Counts
  <2>. QED
    BY <1>1, <1>2, <1>3, <1>4, <2>1 DEF Counts
<1>8. Len(complete') + Handed' <= taken'
  BY <1>1, <1>2, <1>3 DEF Counts
<1>9. Short'
  BY <1>2, ShortKept DEF Counts
<1>10. f_type' # "unkn" => lookups' = 0
  BY <1>2 DEF Counts
<1>11. f_prevcount' >= -1 /\ ~(f_prevcount' < 0)
  BY <1>1, <1>4, <1>5
<1>. QED
  BY <1>6, <1>7, <1>8, <1>9, <1>10, <1>11 DEF Counts

LEMMA CountsWrite ==
    ASSUME Shape, Typed, Counts, NEW t, NEW from, NEW msg \in Line \cup {Empty}, NEW next,
           Write(t, from, msg, next), On(Resetting)',
           Base' = "compare" <=> Base = "compare", Base' \in InHand <=> Base \in InHand
    PROVE  Counts'
<1>. DEFINE c == Comparing
            h == Handed
<1>1. f_prevcount \in Int /\ lookups \in Nat /\ taken \in 0..MaxLines /\ Retries \in Nat
      /\ Len(complete) \in Nat /\ MaxLines \in Nat \ {0}
      /\ complete \in Seq(Entry) /\ out \in Seq(Said)
  BY RepeatAssumption DEF Typed, Destination, Lines
<1>11. c \in Nat /\ c <= h /\ h \in Nat
  BY Ones
<1>2. Comparing' = c /\ Handed' = h /\ taken' = taken
  BY WriteGoes DEF Comparing, Handed
<1>. HIDE DEF c, h
<1>3. /\ f_prevcount >= -1 /\ (f_prevcount < 0 => f_type = "unused")
      /\ f_type # "unkn" => lookups = 0
      /\ f_prevcount + lookups + c <= Retries + taken
      /\ ~lossy => f_type \in {"file", "forw"} /\ f_prevcount + c <= taken
      /\ Len(complete) + h <= taken
      /\ Short
  BY DEF Counts, c, h
<1>4. ASSUME Out(t, from, msg)
      PROVE  /\ f_type' # "unkn" /\ (f_type = "file" \/ f_type' # "unused")
             /\ ~lossy' => ~lossy /\ f_type' \in {"file", "forw"}
             /\ Len(complete') <= Len(complete)
             /\ Short'
  <2>1. f_type' # "unkn" /\ (f_type = "file" \/ f_type' # "unused")
    BY <1>4 DEF Out, AfterSend, AfterWrite
  <2>2. ~lossy' => ~lossy /\ f_type' \in {"file", "forw"}
    BY <1>3, <1>4 DEF Out, AfterSend, AfterWrite
  <2>3. complete' = complete \/ complete' = << >>
    BY <1>4 DEF Out, AfterSend, AfterWrite
  <2>4. ASSUME out' = out \/ out' = << >> PROVE Short'
    BY <1>3, <2>4, ShortKept
  <2>5. ASSUME out' = Append(out, Text(msg)) /\ ~lossy PROVE Short'
    <3>1. Text(msg) \in Said
      BY TextIs
    <3>2. Text(msg).n <= MaxLines
      <4>1. Text(msg).n = 1 \/ (f_prevcount > 1 /\ Text(msg).n = f_prevcount)
        BY <1>1 DEF Text
      <4>. QED
        BY <1>1, <1>11, <1>3, <2>5, <4>1
    <3>3. /\ Len(out') = Len(out) + 1 /\ out'[Len(out) + 1] = Text(msg)
          /\ \A i \in 1..Len(out) : out'[i] = out[i]
      BY <1>1, <2>5, <3>1, AppendIs
    <3>4. ASSUME NEW i \in 1..Len(out')
          PROVE  i \in 1..Len(out) \/ i = Len(out) + 1
      BY <1>1, <3>3, <3>4
    <3>. QED
      BY <1>3, <3>2, <3>3, <3>4 DEF Short
  <2>6. out' = out \/ out' = << >> \/ (out' = Append(out, Text(msg)) /\ ~lossy)
    BY <1>4 DEF Out, AfterSend, AfterWrite
  <2>7. Len(complete') <= Len(complete)
    BY <1>1, <2>3
  <2>. QED
    BY <2>1, <2>2, <2>4, <2>5, <2>6, <2>7
<1>. DEFINE Goal ==
              /\ f_prevcount' >= -1 /\ (f_prevcount' < 0 => f_type' = "unused")
              /\ f_type' # "unkn" => lookups' = 0
              /\ f_prevcount' + lookups' + c <= Retries + taken
              /\ ~lossy' => f_type' \in {"file", "forw"} /\ f_prevcount' + c <= taken
              /\ Len(complete') <= Len(complete)
              /\ Short'
<1>5. ASSUME /\ f_type \in {"file", "forw"} \/ (f_type = "susp" /\ Rested)
             /\ Out(t, from, msg) /\ UNCHANGED <<f_prevcount, lookups>>
      PROVE  Goal
  <2>1. f_prevcount >= 0 /\ lookups = 0
    BY <1>1, <1>3, <1>5
  <2>. QED
    BY <1>1, <1>11, <1>3, <1>4, <1>5, <2>1
<1>6. ASSUME f_type = "unkn" /\ f_prevcount' = 0 /\ lookups' = 0 /\ Out(t, from, msg)
      PROVE  Goal
  <2>1. c <= taken /\ lossy
    BY <1>1, <1>11, <1>3, <1>6
  <2>. QED
    BY <1>1, <1>11, <1>4, <1>6, <2>1
<1>7. ASSUME /\ f_type = "unkn" /\ f_prevcount' = f_prevcount - 1
             /\ IF f_prevcount' < 0 THEN f_type' = "unused" /\ lookups' = 0
                                    ELSE f_type' = f_type /\ lookups' = lookups + 1
             /\ UNCHANGED <<f_time, masked, out, complete, lossy>>
      PROVE  Goal
  <2>1. f_prevcount >= 0 /\ lossy
    BY <1>1, <1>3, <1>7
  <2>2. c <= taken
    BY <1>1, <1>11, <1>3
  <2>3. Short' /\ Len(complete') <= Len(complete) /\ lossy'
    BY <1>1, <1>3, <1>7, <2>1, ShortKept
  <2>4. /\ f_prevcount' >= -1 /\ (f_prevcount' < 0 => f_type' = "unused")
        /\ f_type' # "unkn" => lookups' = 0
        /\ f_prevcount' + lookups' + c <= Retries + taken
    <3>1. CASE f_prevcount' < 0
      BY <1>1, <1>11, <1>7, <2>1, <2>2, <3>1
    <3>2. CASE ~(f_prevcount' < 0)
      BY <1>1, <1>11, <1>3, <1>7, <2>1, <3>2
    <3>. QED
      BY <3>1, <3>2
  <2>. QED
    BY <2>3, <2>4
<1>8. ASSUME UNCHANGED <<f_type, f_prevcount, out, complete, lossy, lookups>>
      PROVE  Goal
  BY <1>1, <1>3, <1>8, ShortKept
<1>9. Goal
  BY <1>5, <1>6, <1>7, <1>8 DEF Write, Lookup
<1>10. Len(complete') + h <= taken
  <2>1. Len(complete') \in Nat
    BY WriteTyped DEF Typed, Lines
  <2>. QED
    BY <1>1, <1>11, <1>3, <1>9, <2>1
<1>. QED
  BY <1>2, <1>9, <1>10 DEF Counts

LEMMA CountsInvariance ==
    ASSUME Shape, Typed, Counts, Shape', Typed', [Next]_vars
    PROVE  Counts'
<1>. USE DEF Idle
<1>1. ASSUME NEW a \in BaseFrame \ Resetting, NEW b \in BaseFrame, b # "compare", At("main", a),
             Goto("main", b),
             UNCHANGED <<f_type, f_prevcount, lookups, taken, lossy, out>>,
             \/ UNCHANGED complete /\ (b \in InHand => a \in InHand)
             \/ a \in InHand /\ b \notin InHand /\ complete' = Append(complete, cur)
      PROVE  Counts'
  <2>1. Base = a /\ Base' = b /\ a \notin Resetting
    BY <1>1, BaseGoto, Labels
  <2>2. On(Resetting) => On(Resetting)'
    BY <1>1, <2>1, OnBase, Labels
  <2>3. Len(complete') + Handed' <= Len(complete) + Handed
    BY <1>1, <2>1, HandedKeeps, HandedDone
  <2>. QED
    BY <1>1, <2>1, <2>2, <2>3, CountsStill
<1>2. ASSUME Base' = Base, UNCHANGED <<f_type, f_prevcount, lookups, taken, lossy, out, complete>>,
             On(Resetting) => On(Resetting)'
      PROVE  Counts'
  <2>1. Len(complete') + Handed' <= Len(complete) + Handed
    BY <1>2, HandedKeeps
  <2>. QED
    BY <1>2, <2>1, CountsStill
<1>3. ASSUME NEW t \in Thread, NEW a \in HandlerFrame \ Resetting, NEW b \in HandlerFrame,
             At(t, a), Goto(t, b) \/ Return(t),
             UNCHANGED <<f_type, f_prevcount, lookups, taken, lossy, out, complete>>
      PROVE  Counts'
  <2>1. Base' = Base /\ (Moved(t, a, b) \/ Popped(t, a))
    BY <1>3, HandlerGoto, HandlerReturn
  <2>2. On(Resetting) => On(Resetting)'
    BY <1>3, <2>1, OnMoved, OnPopped DEF Shape
  <2>. QED
    BY <1>2, <1>3, <2>1, <2>2
<1>4. ASSUME NEW t \in Thread, NEW b \in HandlerFrame, Catch(t, b),
             UNCHANGED <<f_type, f_prevcount, lookups, taken, lossy, out, complete>>
      PROVE  Counts'
  <2>1. Base' = Base /\ Pushed(t, b)
    BY <1>4, HandlerCatch
  <2>2. On(Resetting) => On(Resetting)'
    BY <2>1, OnPushed DEF Shape
  <2>. QED
    BY <1>2, <1>4, <2>1, <2>2
<1>5. ASSUME NEW a \in BaseFrame, NEW b \in BaseFrame, b # "compare", At("main", a),
             Goto("main", b),
             ResetFrame, Reset,
             \/ UNCHANGED complete /\ (b \in InHand => a \in InHand)
             \/ a \in InHand /\ b \notin InHand /\ complete' = Append(complete, cur)
      PROVE  Counts'
  <2>1. Base = a /\ Base' = b
    BY <1>5, BaseGoto, Labels
  <2>2. Len(complete') + Handed' <= Len(complete) + Handed
    BY <1>5, <2>1, HandedKeeps, HandedDone
  <2>. QED
    BY <1>5, <2>1, <2>2, CountsReset
<1>6. ASSUME NEW a \in BaseFrame, NEW b \in BaseFrame \cap Resetting, a # "compare", b # "compare",
             a \in InHand <=> b \in InHand, At("main", a),
             NEW from, NEW msg \in Line \cup {Empty}, Write("main", from, msg, b)
      PROVE  Counts'
  <2>1. Goto("main", b)
    BY <1>6, WriteGoes
  <2>2. Base = a /\ Base' = b
    BY <1>6, <2>1, BaseGoto, Labels
  <2>3. On(Resetting)'
    BY <1>6, <2>1, OnBase, Labels
  <2>. QED
    BY <1>6, <2>2, <2>3, CountsWrite
<1>7. ASSUME NEW t \in Thread, NEW a \in HandlerFrame, NEW b \in HandlerFrame \cap Resetting,
             At(t, a),
             NEW from, NEW msg \in Line \cup {Empty}, Write(t, from, msg, b)
      PROVE  Counts'
  <2>1. Goto(t, b)
    BY <1>7, WriteGoes
  <2>2. Base' = Base /\ Moved(t, a, b)
    BY <1>7, <2>1, HandlerGoto
  <2>3. On(Resetting)'
    BY <1>7, <2>2, OnMoved DEF Shape
  <2>. QED
    BY <1>7, <2>2, <2>3, CountsWrite
<1>8. Idle => At("main", "idle")
  BY DEF At, Last
<1>9. CASE LogMsg
  <2>1. /\ At("main", "idle") /\ Goto("main", "compare") /\ taken' = taken + 1
        /\ UNCHANGED <<f_type, f_prevcount, lookups, lossy, out, complete>>
    BY <1>8, <1>9 DEF LogMsg, filed
  <2>2. "idle" \in BaseFrame /\ "compare" \in BaseFrame /\ "idle" \notin Resetting /\ "compare" \in Frame
        /\ "idle" \notin InHand /\ "compare" \in InHand
    BY DEF BaseFrame, InHand, Resetting, Frame
  <2>3. Base = "idle" /\ Base' = "compare"
    BY <2>1, <2>2, BaseGoto
  <2>4. Comparing = 0 /\ Handed = 0 /\ Comparing' = 1 /\ Handed' = 1
    BY <2>2, <2>3 DEF Comparing, Handed
  <2>5. On(Resetting) => On(Resetting)'
    BY <2>1, <2>2, OnBase
  <2>6. Short'
    BY <2>1, ShortKept DEF Counts
  <2>7. f_prevcount \in Int /\ lookups \in Nat /\ taken \in Nat /\ Retries \in Nat /\ Len(complete) \in Nat
    BY RepeatAssumption DEF Typed, Destination, Lines
  <2>8. /\ f_prevcount + lookups + 0 <= Retries + taken
        /\ ~lossy => f_type \in {"file", "forw"} /\ f_prevcount + 0 <= taken
        /\ Len(complete) + 0 <= taken
    BY <2>4 DEF Counts
  <2>9. /\ f_prevcount + lookups + 1 <= Retries + (taken + 1)
        /\ ~lossy => f_type \in {"file", "forw"} /\ f_prevcount + 1 <= taken + 1
        /\ Len(complete) + 1 <= taken + 1
    BY <2>7, <2>8
  <2>. QED
    BY <2>1, <2>4, <2>5, <2>6, <2>9 DEF Counts
<1>10. CASE Compare
  <2>1. PICK b \in {"hold", "flush", "save"} : Goto("main", b) /\ At("main", "compare")
    BY <1>10 DEF Compare
  <2>2. /\ f_prevcount' = f_prevcount + 1 \/ f_prevcount' = f_prevcount
        /\ UNCHANGED <<f_type, lookups, lossy, out, complete, taken>>
    BY <1>10, ResetFrameKeeps DEF Compare
  <2>3. "compare" \in BaseFrame /\ b \in BaseFrame /\ "compare" \notin Resetting /\ b \in Frame
        /\ "compare" \in InHand /\ b \in InHand /\ b # "compare"
    BY <2>1 DEF BaseFrame, InHand, Resetting, Frame
  <2>4. Base = "compare" /\ Base' = b
    BY <2>1, <2>3, BaseGoto
  <2>5. Comparing = 1 /\ Handed = 1 /\ Comparing' = 0 /\ Handed' = 1
    BY <2>3, <2>4 DEF Comparing, Handed
  <2>6. On(Resetting) => On(Resetting)'
    BY <2>1, <2>3, OnBase
  <2>7. Short'
    BY <2>2, ShortKept DEF Counts
  <2>8. f_prevcount \in Int /\ lookups \in Nat /\ taken \in Nat /\ Retries \in Nat /\ Len(complete) \in Nat
    BY RepeatAssumption DEF Typed, Destination, Lines
  <2>9. /\ f_prevcount + lookups + 1 <= Retries + taken
        /\ ~lossy => f_type \in {"file", "forw"} /\ f_prevcount + 1 <= taken
        /\ Len(complete) + 1 <= taken
        /\ f_prevcount >= -1
        /\ f_prevcount < 0 => f_type = "unused" /\ On(Resetting)
        /\ f_type # "unkn" => lookups = 0
    BY <2>5 DEF Counts
  <2>10. /\ f_prevcount' + lookups + 0 <= Retries + taken
         /\ ~lossy => f_type \in {"file", "forw"} /\ f_prevcount' + 0 <= taken
         /\ f_prevcount' >= -1 /\ (f_prevcount' < 0 => f_prevcount < 0)
    <3>1. CASE f_prevcount' = f_prevcount + 1
      BY <2>8, <2>9, <3>1
    <3>2. CASE f_prevcount' = f_prevcount
      BY <2>8, <2>9, <3>2
    <3>. QED
      BY <2>2, <3>1, <3>2
  <2>. QED
    BY <2>2, <2>5, <2>6, <2>7, <2>9, <2>10 DEF Counts
<1>11. CASE Hold
  <2>1. /\ At("main", "hold") /\ UNCHANGED <<f_type, f_prevcount, lookups, taken, lossy, out>>
        /\ \/ Goto("main", "write dup") /\ UNCHANGED complete
           \/ Goto("main", "idle") /\ complete' \in {complete, Append(complete, cur)}
    BY <1>11, ResetFrameKeeps DEF Hold, Done
  <2>2. "hold" \in BaseFrame \ Resetting /\ "hold" \in InHand /\ "idle" \notin InHand
        /\ "write dup" \in BaseFrame /\ "idle" \in BaseFrame
    BY DEF BaseFrame, InHand, Resetting
  <2>. QED
    BY <1>1, <2>1, <2>2
<1>12. CASE WriteDup \/ WriteOld \/ WriteNew
  <2>1. \E a \in {"write dup", "flush", "write new"},
        b \in {"reset dup", "reset old", "reset new"} :
          \E from : \E msg \in Line \cup {Empty} : At("main", a) /\ Write("main", from, msg, b)
    BY <1>12, MessagesTyped DEF WriteDup, WriteOld, WriteNew
  <2>2. {"write dup", "flush", "write new"} \subseteq BaseFrame \cap InHand
        /\ {"reset dup", "reset old", "reset new"} \subseteq BaseFrame \cap Resetting \cap InHand
        /\ "compare" \notin {"write dup", "flush", "write new"}
        /\ "compare" \notin {"reset dup", "reset old", "reset new"}
    BY DEF BaseFrame, InHand, Resetting
  <2>. QED
    BY <1>6, <2>1, <2>2
<1>13. CASE ResetDup \/ ResetNew
  <2>1. /\ \E a \in {"reset dup", "reset new"} : At("main", a)
        /\ Goto("main", "idle") /\ ResetFrame /\ Reset /\ complete' \in {complete, Append(complete, cur)}
    BY <1>13 DEF ResetDup, ResetNew, Done
  <2>2. {"reset dup", "reset new"} \subseteq BaseFrame \cap InHand /\ "idle" \in BaseFrame \ InHand
    BY DEF BaseFrame, InHand
  <2>. QED
    BY <1>5, <2>1, <2>2
<1>14. CASE ResetOld
  <2>1. At("main", "reset old") /\ Goto("main", "save") /\ ResetFrame /\ Reset /\ UNCHANGED complete
    BY <1>14 DEF ResetOld
  <2>2. "reset old" \in BaseFrame \cap InHand /\ "save" \in BaseFrame
    BY DEF BaseFrame, InHand
  <2>. QED
    BY <1>5, <2>1, <2>2
<1>15. CASE Save
  <2>1. At("main", "save") /\ Goto("main", "write new")
        /\ UNCHANGED <<f_type, f_prevcount, lookups, taken, lossy, out, complete>>
    BY <1>15 DEF Save
  <2>2. "save" \in BaseFrame \ Resetting /\ "save" \in InHand /\ "write new" \in BaseFrame
    BY DEF BaseFrame, InHand, Resetting
  <2>. QED
    BY <1>1, <2>1, <2>2
<1>16. CASE StartInit
  <2>1. /\ At("main", "idle") /\ \E b \in {"write init", "read"} : Goto("main", b)
        /\ UNCHANGED <<f_type, f_prevcount, lookups, taken, lossy, out, complete>>
    BY <1>8, <1>16 DEF StartInit, filed
  <2>2. "idle" \in BaseFrame \ Resetting /\ {"write init", "read"} \subseteq BaseFrame \ InHand
        /\ "compare" \notin {"write init", "read"}
    BY DEF BaseFrame, InHand, Resetting
  <2>. QED
    BY <1>1, <2>1, <2>2
<1>17. CASE WriteInit
  <2>1. "write init" \in BaseFrame \ InHand /\ "reset init" \in (BaseFrame \cap Resetting) \ InHand
    BY DEF BaseFrame, InHand, Resetting
  <2>. QED
    BY <1>6, <1>17, <2>1, MessagesTyped DEF WriteInit
<1>18. CASE ResetInit
  <2>1. "reset init" \in BaseFrame /\ "read" \in BaseFrame \ InHand
    BY DEF BaseFrame, InHand
  <2>. QED
    BY <1>5, <1>18, <2>1 DEF ResetInit
<1>19. CASE Read
  <2>1. /\ At("main", "read") /\ Goto("main", "idle")
        /\ f_type' \in {"file", "forw", "unkn"} /\ f_prevcount' = Counter(f_type') /\ lookups' = 0
        /\ lossy' = (lossy \/ f_type' = "unkn") /\ taken' = taken
        /\ out' \in {<< >>, out} /\ complete' \in {<< >>, complete}
    BY <1>19, RepeatAssumption DEF Read
  <2>2. "read" \in BaseFrame \ InHand /\ "idle" \in Frame /\ "idle" \notin InHand
    BY DEF BaseFrame, InHand, Frame
  <2>3. Base = "read" /\ Base' = "idle"
    BY <2>1, <2>2, BaseGoto
  <2>4. Handed = 0 /\ Comparing' = 0 /\ Handed' = 0
    BY <2>2, <2>3 DEF Comparing, Handed
  <2>5. Short'
    BY <2>1, ShortKept DEF Counts
  <2>6. taken \in Nat /\ Retries \in Nat /\ Len(complete) \in Nat
    BY RepeatAssumption DEF Typed, Lines
  <2>7. Len(complete') + 0 <= taken
    <3>1. Len(complete) + 0 <= taken
      BY <2>4 DEF Counts
    <3>2. Len(<< >>) = 0
      OBVIOUS
    <3>. QED
      BY <2>1, <2>6, <3>1, <3>2
  <2>8. f_prevcount' \in Nat /\ f_prevcount' <= Retries /\ (f_type' # "unkn" => f_prevcount' = 0)
    BY <2>1, <2>6 DEF Counter
  <2>9. f_prevcount' + lookups' + Comparing' <= Retries + taken'
    <3>1. PICK n \in Nat : n = f_prevcount' /\ n <= Retries
      BY <2>8
    <3>2. PICK r \in Nat : r = Retries + taken /\ Retries <= r
      BY <2>6
    <3>4. n <= r
      BY <2>6, <3>1, <3>2
    <3>3. n + 0 + 0 <= r
      BY <3>4
    <3>. QED
      BY <2>1, <2>4, <3>1, <3>2, <3>3
  <2>10. ~lossy' => f_type' \in {"file", "forw"} /\ f_prevcount' + Comparing' <= taken'
    <3>1. ~lossy' => f_type' \in {"file", "forw"} /\ f_prevcount' = 0
      BY <2>1, <2>8
    <3>2. 0 + 0 <= taken
      BY <2>6
    <3>. QED
      BY <2>1, <2>4, <3>1, <3>2
  <2>11. f_prevcount' >= -1 /\ ~(f_prevcount' < 0) /\ (f_type' # "unkn" => lookups' = 0)
    BY <2>1, <2>8
  <2>12. Len(complete') + Handed' <= taken'
    BY <2>1, <2>4, <2>7
  <2>. QED
    BY <2>5, <2>9, <2>10, <2>11, <2>12 DEF Counts
<1>20. CASE Tick \/ Hup \/ UNCHANGED vars
  <2>1. UNCHANGED <<stack, f_type, f_prevcount, lookups, taken, lossy, out, complete>>
    BY <1>20 DEF Tick, Hup, vars, filed
  <2>2. Base' = Base /\ (On(Resetting) => On(Resetting)')
    BY <2>1 DEF Base, On
  <2>. QED
    BY <1>2, <2>1, <2>2
<1>21. ASSUME NEW t \in Thread, Alarm(t) \/ Term(t) PROVE Counts'
  <2>1. \E b \in {"mark", "exit"} : Catch(t, b)
        /\ UNCHANGED <<f_type, f_prevcount, lookups, taken, lossy, out, complete>>
    BY <1>21 DEF Alarm, Term, filed
  <2>2. {"mark", "exit"} \subseteq HandlerFrame
    BY DEF HandlerFrame, MarkFrame, ExitFrame
  <2>. QED
    BY <1>4, <2>1, <2>2
<1>22. ASSUME NEW t \in Thread, Domark(t) PROVE Counts'
  <2>1. At(t, "mark") /\ (Goto(t, "write mark") \/ Return(t))
        /\ UNCHANGED <<f_type, f_prevcount, lookups, taken, lossy, out, complete>>
    BY <1>22, ResetFrameKeeps DEF Domark
  <2>2. "mark" \in HandlerFrame \ Resetting /\ "write mark" \in HandlerFrame
    BY DEF HandlerFrame, MarkFrame, Resetting
  <2>. QED
    BY <1>3, <2>1, <2>2
<1>23. ASSUME NEW t \in Thread, WriteMark(t) \/ WriteExit(t) PROVE Counts'
  <2>1. \E a \in {"write mark", "write exit"}, b \in {"reset mark", "reset exit"} :
          At(t, a) /\ Write(t, LocalHost, Empty, b)
    BY <1>23 DEF WriteMark, WriteExit
  <2>2. {"write mark", "write exit"} \subseteq HandlerFrame
        /\ {"reset mark", "reset exit"} \subseteq HandlerFrame \cap Resetting
    BY DEF HandlerFrame, MarkFrame, ExitFrame, Resetting
  <2>. QED
    BY <1>7, <2>1, <2>2, MessagesTyped
<1>24. ASSUME NEW t \in Thread, ResetMark(t) PROVE Counts'
  <2>1. At(t, "reset mark") /\ Return(t) /\ Reset /\ ResetFrame /\ UNCHANGED complete
    BY <1>24 DEF ResetMark
  <2>2. "reset mark" \in HandlerFrame
    BY DEF HandlerFrame, MarkFrame
  <2>3. Base' = Base
    BY <2>1, <2>2, HandlerReturn
  <2>4. Len(complete') + Handed' <= Len(complete) + Handed
    BY <2>1, <2>3, HandedKeeps
  <2>. QED
    BY <2>1, <2>3, <2>4, CountsReset
<1>25. ASSUME Exit, UNCHANGED complete
       PROVE  Base' = "exited" /\ Len(complete') + Handed' <= Len(complete) + Handed
  <2>1. Base' = "exited" /\ "exited" \notin InHand
    BY <1>25 DEF Exit, Base, InHand
  <2>. QED
    BY <1>25, <2>1, HandedKeeps
<1>26. ASSUME NEW t \in Thread, Die(t) PROVE Counts'
  <2>1. At(t, "exit") /\ UNCHANGED <<f_type, f_prevcount, lookups, taken, lossy, out, complete>>
        /\ (Goto(t, "write exit") \/ (f_prevcount = 0 /\ Exit))
    BY <1>26, ResetFrameKeeps DEF Die, PendingAtExit
  <2>2. "exit" \in HandlerFrame \ Resetting /\ "write exit" \in HandlerFrame
    BY DEF HandlerFrame, ExitFrame, Resetting
  <2>3. CASE f_prevcount = 0 /\ Exit
    BY <1>25, <2>1, <2>3, CountsStill
  <2>. QED
    BY <1>3, <2>1, <2>2, <2>3
<1>27. ASSUME NEW t \in Thread, ResetExit(t) PROVE Counts'
  <2>1. Exit /\ Reset /\ ResetFrame /\ UNCHANGED complete
    BY <1>27 DEF ResetExit
  <2>. QED
    BY <1>25, <2>1, CountsReset
<1>. QED
  BY <1>9, <1>10, <1>11, <1>12, <1>13, <1>14, <1>15, <1>16, <1>17, <1>18, <1>19, <1>20,
     <1>21, <1>22, <1>23, <1>24, <1>26, <1>27
     DEF Next, LogSteps, Reload, Signals, Handlers

----------------------------------------------------------------------------
IInv == Shape /\ Typed /\ Counts

(* Of every reachable state: what the threads' stacks may hold, the ranges  *)
(* of the variables, and what pays for each count.                          *)
THEOREM Invariance == Spec => []IInv
<1>1. Init => IInv
  BY ShapeInit, TypedInit, CountsInit DEF IInv
<1>2. IInv /\ [Next]_vars => IInv'
  BY ShapeInvariance, TypedInvariance, CountsInvariance DEF IInv
<1>. QED
  BY <1>1, <1>2, PTL DEF Spec

LEMMA FramesAreLabels ==
    ASSUME NEW s \in Seq(Frame)
    PROVE  s \in Seq(Label)
<1>1. \A x \in Frame : x \in Label
  BY DEF Frame, HandlerFrame, MarkFrame, ExitFrame, BaseFrame, InHand, Label
<1>. HIDE DEF Frame, Label
<1>2. Len(s) \in Nat /\ s = [i \in 1..Len(s) |-> s[i]] /\ \A i \in 1..Len(s) : s[i] \in Frame
  OBVIOUS
<1>3. \A i \in 1..Len(s) : s[i] \in Label
  BY <1>1, <1>2
<1>4. s \in [1..Len(s) -> Label]
  BY <1>2, <1>3
<1>5. Seq(Label) = UNION {[1..n -> Label] : n \in Nat}
  BY SeqDef
<1>. QED
  BY <1>2, <1>4, <1>5

(* Every variable keeps its type and every counter its bound: f_prevcount   *)
(* stays within the lines logged and the retries left, and it is below zero *)
(* only between the last lookup in vain and the reset, with f given up; a   *)
(* repetition never claims more lines than came.                            *)
THEOREM TypeCorrect == Spec => []TypeOK
<1>1. IInv => TypeOK
  <2>. SUFFICES ASSUME IInv PROVE TypeOK
    OBVIOUS
  <2>. USE DEF IInv
  <2>1. /\ clock \in Boot..(Boot + MaxTime) /\ now \in Boot..clock /\ f_time \in 0..clock
        /\ timer \in (Boot + TimerIntvl)..(clock + TimerIntvl)
    BY DEF Typed, Times
  <2>2. {alarm, restart, masked, lossy, long, mistaken, torn, raced} \subseteq BOOLEAN
    BY DEF Typed, Flags
  <2>3. stack \in [Thread -> Seq(Label)]
    BY FramesAreLabels DEF Shape, Stacks
  <2>4. Len(stack["main"]) \in 1..3 /\ Len(stack["watch"]) \in 0..2
    BY DEF Shape
  <2>5. /\ f_type \in {"file", "forw", "susp", "unkn", "unused"}
        /\ f_prevline \in Line \cup {Empty} /\ f_prevhost \in Host \cup {Empty}
        /\ f_repeatcount \in 0..(Len(Interval) - 1)
        /\ f_prevcount \in Int /\ lookups \in Nat
    BY DEF Typed, Destination
  <2>6. cur \in Entry /\ complete \in Seq(Entry) /\ taken \in 0..MaxLines /\ left \subseteq 1..Len(out)
    BY DEF Typed, Lines
  <2>7. Retries \in Nat /\ MaxLines \in Nat
    BY RepeatAssumption
  <2>8. Comparing \in {0, 1} /\ Handed \in {0, 1}
    BY Ones
  <2>9. PICK c \in Nat : c = Comparing
    BY <2>8
  <2>10. PICK h \in Nat : h = Handed
    BY <2>8
  <2>11. /\ f_prevcount >= -1
         /\ f_prevcount < 0 => f_type = "unused" /\ On(Resetting)
         /\ f_type # "unkn" => lookups = 0
         /\ f_prevcount + lookups + c <= Retries + taken
         /\ Len(complete) + h <= taken
    BY <2>9, <2>10 DEF Counts
  <2>12. f_prevcount \in -1..(MaxLines + Retries)
    <3>1. f_prevcount <= MaxLines + Retries
      BY <2>5, <2>6, <2>7, <2>9, <2>11
    <3>. QED
      BY <2>5, <2>7, <2>11, <3>1
  <2>13. lookups \in 0..(MaxLines + Retries)
    BY <2>5, <2>6, <2>7, <2>9, <2>11
  <2>14. f_prevcount < 0 => f_type = "unused" /\ On({"reset dup", "reset old", "reset new", "reset mark",
                                                     "reset exit", "reset init"})
    BY <2>11 DEF Resetting
  <2>15. Len(complete) <= taken
    <3>1. Len(complete) \in Nat
      BY <2>6
    <3>. QED
      BY <2>6, <2>10, <2>11, <3>1
  <2>16. \A i \in 1..Len(out) : out[i].n \in 1..MaxLines
    <3>1. SUFFICES ASSUME NEW i \in 1..Len(out) PROVE out[i].n \in 1..MaxLines
      OBVIOUS
    <3>2. out[i] \in Said
      BY DEF Typed, Lines
    <3>3. out[i].n \in Nat \ {0}
      BY <3>2 DEF Said
    <3>4. out[i].n <= MaxLines
      BY DEF Counts, Short
    <3>. QED
      BY <2>7, <3>3, <3>4
  <2>. QED
    BY <2>1, <2>2, <2>3, <2>4, <2>5, <2>6, <2>12, <2>13, <2>14, <2>15, <2>16 DEF TypeOK
<1>. QED
  BY <1>1, Invariance, PTL

----------------------------------------------------------------------------
(***************************************************************************)
(* Nothing stays held back.                                                *)
(***************************************************************************)
LEMMA NotQuiet ==
    ASSUME Shape, NEW t \in Thread, NEW a, NEW b, b # "idle", Moved(t, a, b) \/ Pushed(t, b)
    PROVE  ~Quiet'
<1>1. Len(stack["main"]) \in 1..3 /\ Len(stack["watch"]) \in 0..2
  BY DEF Shape
<1>2. /\ stack'["main"] \in Seq(Frame) /\ stack'["watch"] \in Seq(Frame)
      /\ Len(stack'[t]) > 0 /\ stack'[t][Len(stack'[t])] = b
  BY <1>1, Labels DEF Moved, Pushed, Stacks
<1>3. CASE t = "main"
  <2>1. SUFFICES ASSUME stack'["main"] = <<"idle">> PROVE FALSE
    BY DEF Quiet, Idle
  <2>2. Len(stack'["main"]) = 1 /\ stack'["main"][1] = "idle"
    BY <2>1
  <2>. QED
    BY <1>2, <1>3, <2>2
<1>4. CASE t = "watch"
  <2>1. SUFFICES ASSUME stack'["watch"] = << >> PROVE FALSE
    BY DEF Quiet, Idle
  <2>. QED
    BY <1>2, <1>4, <2>1
<1>. QED
  BY <1>3, <1>4, Labels

(* Time and the alarm: while domark runs no time passes, and when neither it *)
(* nor a signal is due, the next alarm lies ahead.                          *)
Timely ==
    /\ On(MarkFrame) => now = clock
    /\ timer <= now + TimerIntvl
    /\ alarm \/ On(MarkFrame) \/ On({"exited"}) \/ clock < timer

SameFrames == (On(MarkFrame)' <=> On(MarkFrame)) /\ (On({"exited"})' <=> On({"exited"}))

LEMMA TimelyStill ==
    ASSUME Typed, Timely, SameFrames, UNCHANGED <<clock, timer, alarm>>, now' \in {now, clock}
    PROVE  Timely'
<1>1. clock \in Int /\ now \in Int /\ timer \in Int /\ TimerIntvl \in Int /\ now <= clock
  BY RepeatAssumption DEF Typed, Times
<1>2. timer' <= now' + TimerIntvl
  <2>1. timer <= now + TimerIntvl
    BY DEF Timely
  <2>2. CASE now' = now
    BY <2>1, <2>2
  <2>3. CASE now' = clock
    BY <1>1, <2>1, <2>3
  <2>. QED
    BY <2>2, <2>3
<1>3. On(MarkFrame)' => now' = clock'
  BY DEF Timely, SameFrames
<1>4. alarm' \/ On(MarkFrame)' \/ On({"exited"})' \/ clock' < timer'
  <2>1. alarm' = alarm /\ (clock < timer => clock' < timer')
    OBVIOUS
  <2>2. alarm \/ On(MarkFrame) \/ On({"exited"}) \/ clock < timer
    BY DEF Timely
  <2>3. CASE alarm
    BY <2>1, <2>3
  <2>4. CASE On(MarkFrame) \/ On({"exited"})
    BY <2>4 DEF SameFrames
  <2>5. CASE clock < timer
    BY <2>1, <2>5
  <2>. QED
    BY <2>2, <2>3, <2>4, <2>5
<1>. QED
  BY <1>2, <1>3, <1>4 DEF Timely

LEMMA SameBase ==
    ASSUME Shape, NEW a \in BaseFrame \ {"exited"}, NEW b \in BaseFrame \ {"exited"},
           At("main", a), Goto("main", b)
    PROVE  SameFrames
<1>1. a \notin MarkFrame /\ b \notin MarkFrame /\ b \in Frame
  BY Labels
<1>. QED
  BY <1>1, OnBase DEF SameFrames

LEMMA SameHandler ==
    ASSUME Shape, NEW t \in Thread, NEW K \in {MarkFrame, ExitFrame}, NEW a \in K, NEW b \in K,
           At(t, a), Goto(t, b)
    PROVE  SameFrames
<1>1. a \in HandlerFrame /\ b \in HandlerFrame /\ "exited" \in BaseFrame
  BY Labels DEF BaseFrame
<1>2. Moved(t, a, b) /\ Stacks
  BY <1>1, HandlerGoto DEF Shape
<1>3. a # "exited" /\ b # "exited" /\ (a \in MarkFrame <=> b \in MarkFrame)
  BY <1>1, Labels
<1>4. Len(stack[t]) \in 1..Len(stack[t]) /\ stack[t][Len(stack[t])] = a
  BY <1>2 DEF Moved, Stacks
<1>5. a \in MarkFrame => On(MarkFrame)
  BY <1>4 DEF On
<1>. QED
  BY <1>2, <1>3, <1>5, OnMoved DEF SameFrames

LEMMA TimelyInvariance ==
    ASSUME Shape, Typed, Timely, [Next]_vars
    PROVE  Timely'
<1>. USE DEF Idle
<1>0. clock \in Int /\ now \in Int /\ timer \in Int /\ TimerIntvl \in Nat \ {0}
  BY RepeatAssumption DEF Typed, Times
<1>1. ASSUME NEW a \in BaseFrame \ {"exited"}, NEW b \in BaseFrame \ {"exited"},
             At("main", a), Goto("main", b), UNCHANGED <<clock, timer, alarm>>, now' \in {now, clock}
      PROVE  Timely'
  BY <1>1, SameBase, TimelyStill
<1>2. ASSUME NEW t \in Thread, NEW K \in {MarkFrame, ExitFrame}, NEW a \in K, NEW b \in K,
             At(t, a), Goto(t, b), UNCHANGED <<clock, timer, alarm, now>>
      PROVE  Timely'
  BY <1>2, SameHandler, TimelyStill
<1>3. Idle => At("main", "idle")
  BY DEF At, Last
<1>4. CASE LogMsg
  <2>1. At("main", "idle") /\ Goto("main", "compare") /\ UNCHANGED <<clock, timer, alarm>> /\ now' = clock
    BY <1>3, <1>4 DEF LogMsg, signals
  <2>. QED
    BY <1>1, <2>1 DEF BaseFrame, InHand
<1>5. CASE LogSteps
  <2>1. CASE Compare \/ Hold
    <3>1. \E a \in {"compare", "hold"}, b \in {"hold", "flush", "save", "write dup", "idle"} :
              At("main", a) /\ Goto("main", b)
      BY <2>1 DEF Compare, Hold, Done
    <3>2. UNCHANGED <<clock, timer, alarm, now>>
      BY <2>1, ResetFrameKeeps DEF Compare, Hold
    <3>. QED
      BY <1>1, <3>1, <3>2 DEF BaseFrame, InHand
  <2>2. CASE WriteDup \/ WriteOld \/ WriteNew
    <3>1. \E a \in {"write dup", "flush", "write new"}, b \in {"reset dup", "reset old", "reset new"} :
              At("main", a) /\ Goto("main", b) /\ UNCHANGED <<clock, timer, alarm, now>>
      BY <2>2, WriteGoes DEF WriteDup, WriteOld, WriteNew
    <3>. QED
      BY <1>1, <3>1 DEF BaseFrame, InHand
  <2>3. CASE ResetDup \/ ResetOld \/ ResetNew
    <3>1. \E a \in {"reset dup", "reset old", "reset new"}, b \in {"save", "idle"} :
              At("main", a) /\ Goto("main", b)
      BY <2>3 DEF ResetDup, ResetOld, ResetNew, Done
    <3>2. UNCHANGED <<clock, timer, alarm, now>>
      BY <2>3, ResetFrameKeeps DEF ResetDup, ResetOld, ResetNew
    <3>. QED
      BY <1>1, <3>1, <3>2 DEF BaseFrame, InHand
  <2>4. CASE Save
    <3>1. At("main", "save") /\ Goto("main", "write new") /\ UNCHANGED <<clock, timer, alarm, now>>
      BY <2>4 DEF Save, signals
    <3>. QED
      BY <1>1, <3>1 DEF BaseFrame, InHand
  <2>. QED
    BY <1>5, <2>1, <2>2, <2>3, <2>4 DEF LogSteps
<1>6. CASE Reload
  <2>1. CASE StartInit
    <3>1. /\ At("main", "idle") /\ UNCHANGED <<clock, timer, alarm, now>>
          /\ \E b \in {"write init", "read"} : Goto("main", b)
      BY <1>3, <2>1 DEF StartInit
    <3>. QED
      BY <1>1, <3>1 DEF BaseFrame, InHand
  <2>2. CASE WriteInit
    <3>1. At("main", "write init") /\ Goto("main", "reset init") /\ UNCHANGED <<clock, timer, alarm, now>>
      BY <2>2, WriteGoes DEF WriteInit
    <3>. QED
      BY <1>1, <3>1 DEF BaseFrame, InHand
  <2>3. CASE ResetInit
    <3>1. At("main", "reset init") /\ Goto("main", "read") /\ UNCHANGED <<clock, timer, alarm, now>>
      BY <2>3, ResetFrameKeeps DEF ResetInit
    <3>. QED
      BY <1>1, <3>1 DEF BaseFrame, InHand
  <2>4. CASE Read
    <3>1. At("main", "read") /\ Goto("main", "idle") /\ UNCHANGED <<clock, timer, alarm, now>>
      BY <2>4 DEF Read, signals
    <3>. QED
      BY <1>1, <3>1 DEF BaseFrame, InHand
  <2>. QED
    BY <1>6, <2>1, <2>2, <2>3, <2>4 DEF Reload
<1>7. CASE Tick
  <2>1. /\ clock' = clock + 1 /\ UNCHANGED <<now, timer, stack>>
        /\ alarm' = (alarm \/ clock' = timer) /\ ~On(MarkFrame) /\ ~On({"exited"})
    BY <1>7 DEF Tick, Handling, MarkFrame
  <2>2. SameFrames
    BY <2>1 DEF SameFrames, On
  <2>3. ASSUME ~alarm' PROVE clock' < timer'
    <3>1. ~alarm /\ clock + 1 # timer
      BY <2>1, <2>3
    <3>2. clock < timer
      BY <2>1, <3>1 DEF Timely
    <3>. QED
      BY <1>0, <2>1, <3>1, <3>2
  <2>. QED
    BY <2>1, <2>2, <2>3 DEF Timely, SameFrames
<1>8. CASE Hup \/ UNCHANGED vars
  <2>1. UNCHANGED <<clock, timer, alarm, now, stack>>
    BY <1>8 DEF Hup, vars, signals
  <2>2. SameFrames
    BY <2>1 DEF SameFrames, On
  <2>. QED
    BY <2>1, <2>2, TimelyStill
<1>9. ASSUME NEW t \in Thread, Alarm(t) PROVE Timely'
  <2>1. Catch(t, "mark") /\ now' = clock /\ UNCHANGED <<clock, timer>>
    BY <1>9 DEF Alarm
  <2>2. "mark" \in MarkFrame /\ "mark" \in HandlerFrame
    BY DEF MarkFrame, HandlerFrame
  <2>3. On(MarkFrame)'
    <3>1. Pushed(t, "mark")
      BY <2>1, <2>2, HandlerCatch
    <3>2. Len(stack'[t]) \in 1..Len(stack'[t]) /\ stack'[t][Len(stack'[t])] = "mark"
      BY <3>1 DEF Pushed, Shape, Stacks
    <3>. QED
      BY <2>2, <3>2 DEF On
  <2>4. timer' <= now' + TimerIntvl
    <3>1. now <= clock /\ timer <= now + TimerIntvl
      BY DEF Typed, Times, Timely
    <3>. QED
      BY <1>0, <2>1, <3>1
  <2>. QED
    BY <2>1, <2>3, <2>4 DEF Timely
<1>10. ASSUME NEW t \in Thread, Term(t) PROVE Timely'
  <2>1. Catch(t, "exit") /\ UNCHANGED <<clock, timer, alarm, now>>
    BY <1>10 DEF Term, signals
  <2>2. "exit" \notin MarkFrame /\ "exit" \in HandlerFrame /\ "exit" \notin {"exited"}
    BY DEF MarkFrame, ExitFrame, HandlerFrame
  <2>3. Pushed(t, "exit")
    BY <2>1, <2>2, HandlerCatch
  <2>4. SameFrames
    BY <2>2, <2>3, OnPushed DEF Shape, SameFrames
  <2>. QED
    BY <2>1, <2>4, TimelyStill
<1>11. ASSUME NEW t \in Thread, NEW a \in MarkFrame, At(t, a), Return(t), Rearm, ResetFrame
       PROVE  Timely'
  <2>1. UNCHANGED <<clock, now>> /\ timer' = clock + TimerIntvl
    BY <1>11, ResetFrameKeeps DEF Rearm
  <2>2. now = clock
    <3>1. Popped(t, a)
      BY <1>11, Labels, HandlerReturn
    <3>2. Len(stack[t]) \in 1..Len(stack[t]) /\ stack[t][Len(stack[t])] = a
      BY <3>1 DEF Popped, Shape, Stacks
    <3>. QED
      BY <1>11, <3>2 DEF On, Timely
  <2>. QED
    BY <1>0, <2>1, <2>2 DEF Timely
<1>12. ASSUME NEW t \in Thread, Domark(t) PROVE Timely'
  <2>1. "mark" \in MarkFrame /\ "write mark" \in MarkFrame
    BY DEF MarkFrame
  <2>2. At(t, "mark") /\ ResetFrame /\ ((Goto(t, "write mark") /\ UNCHANGED timer) \/ (Return(t) /\ Rearm))
    BY <1>12 DEF Domark
  <2>3. UNCHANGED <<clock, alarm, now>>
    BY <2>2, ResetFrameKeeps
  <2>. QED
    BY <1>2, <1>11, <2>1, <2>2, <2>3
<1>13. ASSUME NEW t \in Thread, ResetMark(t) PROVE Timely'
  <2>1. "reset mark" \in MarkFrame
    BY DEF MarkFrame
  <2>. QED
    BY <1>11, <1>13, <2>1 DEF ResetMark
<1>14. ASSUME NEW t \in Thread, WriteMark(t) \/ WriteExit(t) PROVE Timely'
  <2>1. CASE WriteMark(t)
    <3>1. At(t, "write mark") /\ Goto(t, "reset mark") /\ UNCHANGED <<clock, timer, alarm, now>>
      BY <2>1, WriteGoes DEF WriteMark
    <3>2. {"write mark", "reset mark"} \subseteq MarkFrame
      BY DEF MarkFrame
    <3>. QED
      BY <1>2, <3>1, <3>2
  <2>2. CASE WriteExit(t)
    <3>1. At(t, "write exit") /\ Goto(t, "reset exit") /\ UNCHANGED <<clock, timer, alarm, now>>
      BY <2>2, WriteGoes DEF WriteExit
    <3>2. {"write exit", "reset exit"} \subseteq ExitFrame
      BY DEF ExitFrame
    <3>. QED
      BY <1>2, <3>1, <3>2
  <2>. QED
    BY <1>14, <2>1, <2>2
<1>15. ASSUME Exit, UNCHANGED <<clock, timer, alarm, now>> PROVE Timely'
  <2>1. /\ stack' = [u \in {"main", "watch"} |-> IF u = "main" THEN <<"exited">> ELSE << >>]
        /\ stack'["main"] = <<"exited">> /\ stack'["watch"] = << >>
    BY <1>15 DEF Exit
  <2>2. \A u \in Thread : \A i \in 1..Len(stack'[u]) : stack'[u][i] = "exited"
    BY <2>1, Labels
  <2>3. "exited" \notin MarkFrame /\ "main" \in Thread /\ 1 \in 1..Len(stack'["main"]) /\ stack'["main"][1] = "exited"
    BY <2>1 DEF MarkFrame, Thread
  <2>4. ~On(MarkFrame)' /\ On({"exited"})'
    BY <2>2, <2>3 DEF On
  <2>. QED
    BY <1>15, <2>4 DEF Timely
<1>16. ASSUME NEW t \in Thread, Die(t) \/ ResetExit(t) PROVE Timely'
  <2>1. UNCHANGED <<clock, timer, alarm, now>>
    BY <1>16, ResetFrameKeeps DEF Die, ResetExit
  <2>2. \/ At(t, "exit") /\ Goto(t, "write exit")
        \/ Exit
    BY <1>16 DEF Die, ResetExit
  <2>3. {"exit", "write exit"} \subseteq ExitFrame
    BY DEF ExitFrame
  <2>. QED
    BY <1>2, <1>15, <2>1, <2>2, <2>3
<1>. QED
  BY <1>4, <1>5, <1>6, <1>7, <1>8, <1>9, <1>10, <1>12, <1>13, <1>14, <1>16
     DEF Next, Signals, Handlers

(* What is held back was not due at the last alarm.                         *)
NotLate == Quiet => f_prevcount = 0 \/ f_type = "unkn" \/ timer <= Repeattime + TimerIntvl

LEMMA NotLateInvariance ==
    ASSUME Shape, Typed, Timely, NotLate, [Next]_vars
    PROVE  NotLate'
<1>. USE DEF Idle
<1>1. SUFFICES ASSUME Quiet'
               PROVE  f_prevcount' = 0 \/ f_type' = "unkn" \/ timer' <= Repeattime' + TimerIntvl
  BY DEF NotLate
<1>. DEFINE Goal == f_prevcount' = 0 \/ f_type' = "unkn" \/ timer' <= Repeattime' + TimerIntvl
<1>2. ASSUME NEW t \in Thread, NEW a, NEW b \in Frame \ {"idle"}, At(t, a), Goto(t, b)
      PROVE  FALSE
  BY <1>1, <1>2, GotoMoves, NotQuiet DEF Shape
<1>3. ASSUME ResetFrame, Reset
      PROVE  Goal
  BY <1>3, ResetFrameKeeps DEF Reset
<1>4. Idle => At("main", "idle")
  BY DEF At, Last
<1>5. Frame = HandlerFrame \cup BaseFrame /\ "main" \in Thread
  BY Labels DEF Frame
<1>6. ASSUME UNCHANGED <<f_time, f_repeatcount>>, now <= Repeattime,
             now \in Nat, Repeattime \in Nat, timer' \in Nat, timer' <= now + TimerIntvl
      PROVE  Goal
  <2>1. Repeattime' = Repeattime /\ TimerIntvl \in Nat
    BY <1>6, RepeatAssumption DEF Repeattime
  <2>. QED
    BY <1>6, <2>1
<1>7. clock \in Nat /\ now \in Nat /\ timer \in Nat /\ Repeattime \in Nat
      /\ TimerIntvl \in Nat /\ timer <= now + TimerIntvl
  <2>1. f_time \in Nat /\ f_repeatcount + 1 \in 1..Len(Interval)
    BY RepeatAssumption DEF Typed, Times, Destination
  <2>2. Interval[f_repeatcount + 1] \in Nat
    BY <2>1, RepeatAssumption
  <2>. QED
    BY <2>1, <2>2, RepeatAssumption DEF Typed, Times, Timely, Repeattime
<1>8. CASE LogMsg
  <2>. "compare" \in Frame \ {"idle"}
    BY <1>5 DEF BaseFrame, InHand
  <2>. QED
    BY <1>2, <1>4, <1>5, <1>8 DEF LogMsg
<1>9. CASE Compare
  <2>1. {"hold", "flush", "save"} \subseteq Frame \ {"idle"}
    BY <1>5 DEF BaseFrame, InHand
  <2>. QED
    BY <1>2, <1>5, <1>9, <2>1 DEF Compare
<1>10. CASE Hold
  <2>1. "write dup" \in Frame \ {"idle"}
    BY <1>5 DEF BaseFrame, InHand
  <2>2. ~(now > Repeattime)
    BY <1>2, <1>5, <1>10, <2>1 DEF Hold
  <2>3. UNCHANGED <<f_time, f_repeatcount, timer>>
    BY <1>10, ResetFrameKeeps DEF Hold
  <2>. QED
    BY <1>6, <1>7, <2>2, <2>3
<1>11. ASSUME NEW t \in Thread, NEW a, NEW from, NEW msg, NEW next \in Resetting, At(t, a),
              Write(t, from, msg, next)
       PROVE  FALSE
  <2>1. next \in Frame \ {"idle"}
    BY <1>5 DEF Resetting, HandlerFrame, BaseFrame, MarkFrame, ExitFrame, InHand
  <2>. QED
    BY <1>2, <1>11, <2>1, WriteGoes
<1>12. CASE WriteDup \/ WriteOld \/ WriteNew \/ WriteInit
  BY <1>5, <1>11, <1>12 DEF WriteDup, WriteOld, WriteNew, WriteInit, Resetting
<1>13. CASE ResetDup \/ ResetOld \/ ResetNew \/ ResetInit
  BY <1>3, <1>13 DEF ResetDup, ResetOld, ResetNew, ResetInit
<1>14. CASE Save
  <2>1. "write new" \in Frame \ {"idle"}
    BY <1>5 DEF BaseFrame, InHand
  <2>. QED
    BY <1>2, <1>5, <1>14, <2>1 DEF Save
<1>15. CASE StartInit
  <2>1. {"write init", "read"} \subseteq Frame \ {"idle"}
    BY <1>5 DEF BaseFrame, InHand
  <2>. QED
    BY <1>2, <1>4, <1>5, <1>15, <2>1 DEF StartInit
<1>16. CASE Read
  BY <1>16 DEF Read, Counter
<1>17. CASE Tick \/ Hup \/ UNCHANGED vars
  <2>1. UNCHANGED <<stack, timer, f_prevcount, f_type, f_time, f_repeatcount>>
    BY <1>17 DEF Tick, Hup, vars, filed
  <2>2. Quiet
    BY <1>1, <2>1 DEF Quiet
  <2>. QED
    BY <2>1, <2>2 DEF NotLate, Repeattime
<1>19. ASSUME NEW t \in Thread, Alarm(t) \/ Term(t) PROVE Goal
  <2>1. \E b \in {"mark", "exit"} : Catch(t, b)
    BY <1>19 DEF Alarm, Term
  <2>2. {"mark", "exit"} \subseteq Frame \ {"idle"}
    BY <1>5 DEF HandlerFrame, MarkFrame, ExitFrame
  <2>. QED
    BY <1>1, <2>1, <2>2, CatchPushes, NotQuiet DEF Shape
<1>20. ASSUME NEW t \in Thread, Domark(t) PROVE Goal
  <2>1. "write mark" \in Frame \ {"idle"}
    BY <1>5 DEF HandlerFrame, MarkFrame
  <2>2. ~Due
    BY <1>2, <1>20, <2>1 DEF Domark
  <2>3. UNCHANGED <<f_time, f_repeatcount, f_prevcount>>
    BY <1>20, ResetFrameKeeps DEF Domark
  <2>4. timer' = clock + TimerIntvl
    BY <1>2, <1>20, <2>1 DEF Domark, Rearm
  <2>5. now = clock
    <3>1. At(t, "mark") /\ "mark" \in MarkFrame /\ stack[t] \in Seq(Frame)
      BY <1>20 DEF Domark, MarkFrame, Shape, Stacks
    <3>2. Len(stack[t]) \in 1..Len(stack[t]) /\ stack[t][Len(stack[t])] = "mark"
      BY <3>1 DEF At, Last
    <3>. QED
      BY <3>1, <3>2 DEF On, Timely
  <2>6. timer' \in Nat /\ timer' <= now + TimerIntvl
    BY <1>7, <2>4, <2>5
  <2>7. f_prevcount = 0 \/ now <= Repeattime
    BY <1>7, <2>2 DEF Due
  <2>. QED
    BY <1>6, <1>7, <2>3, <2>6, <2>7
<1>21. ASSUME NEW t \in Thread, WriteMark(t) \/ WriteExit(t) PROVE Goal
  BY <1>11, <1>21 DEF WriteMark, WriteExit, Resetting
<1>22. ASSUME NEW t \in Thread, ResetMark(t) \/ ResetExit(t) PROVE Goal
  BY <1>3, <1>22 DEF ResetMark, ResetExit
<1>23. ASSUME NEW t \in Thread, Die(t) PROVE Goal
  <2>1. "write exit" \in Frame \ {"idle"}
    BY <1>5 DEF HandlerFrame, ExitFrame
  <2>2. f_prevcount' = f_prevcount /\ f_prevcount = 0
    BY <1>2, <1>23, <2>1 DEF Die, PendingAtExit
  <2>. QED
    BY <2>2
<1>. QED
  BY <1>8, <1>9, <1>10, <1>12, <1>13, <1>14, <1>15, <1>16, <1>17, <1>19, <1>20, <1>21,
     <1>22, <1>23
     DEF Next, LogSteps, Reload, Signals, Handlers

(* A repetition is held back past its interval by less than TIMERINTVL: at  *)
(* rest, with no alarm due, either nothing is held back, or the first alarm *)
(* after the interval is still to come.  Whatever handlers interrupted what, *)
(* on whichever thread, and whenever the writes and the lines came.         *)
THEOREM NotHeldForLong == Spec => []HeldBriefly
<1>1. Init => Timely /\ NotLate
  <2>1. SUFFICES ASSUME Init PROVE Timely /\ NotLate
    OBVIOUS
  <2>2. f_prevcount = 0 \/ f_type = "unkn"
    BY <2>1 DEF Init, Counter
  <2>3. /\ stack = [u \in {"main", "watch"} |-> IF u = "main" THEN <<"idle">> ELSE << >>]
        /\ stack["main"] = <<"idle">> /\ stack["watch"] = << >>
    BY <2>1 DEF Init
  <2>4. \A u \in Thread : \A i \in 1..Len(stack[u]) : stack[u][i] = "idle"
    BY <2>3, Labels
  <2>5. ~On(MarkFrame)
    BY <2>4 DEF On, MarkFrame
  <2>6. timer <= now + TimerIntvl /\ clock < timer
    BY <2>1, RepeatAssumption DEF Init
  <2>. QED
    BY <2>2, <2>5, <2>6 DEF Timely, NotLate
<1>2. IInv /\ Timely /\ NotLate /\ [Next]_vars => Timely' /\ NotLate'
  BY TimelyInvariance, NotLateInvariance DEF IInv
<1>3. IInv /\ Timely /\ NotLate => HeldBriefly
  <2>1. SUFFICES ASSUME Shape, Typed, Timely, NotLate, Quiet, ~alarm,
                        f_prevcount # 0, f_type # "unkn"
                 PROVE  clock < Repeattime + TimerIntvl
    BY DEF HeldBriefly, IInv
  <2>2. \A u \in Thread : \A i \in 1..Len(stack[u]) : stack[u][i] = "idle"
    BY <2>1, Labels DEF Quiet, Idle
  <2>3. ~On(MarkFrame) /\ ~On({"exited"})
    BY <2>2 DEF On, MarkFrame
  <2>4. clock < timer /\ timer <= Repeattime + TimerIntvl
    BY <2>1, <2>3 DEF Timely, NotLate
  <2>5. clock \in Nat /\ timer \in Nat /\ TimerIntvl \in Nat /\ Repeattime \in Nat
    <3>1. f_time \in Nat /\ f_repeatcount + 1 \in 1..Len(Interval)
      BY <2>1, RepeatAssumption DEF Typed, Times, Destination
    <3>2. Interval[f_repeatcount + 1] \in Nat
      BY <3>1, RepeatAssumption
    <3>. QED
      BY <2>1, <3>1, <3>2, RepeatAssumption DEF Typed, Times, Repeattime
  <2>. QED
    BY <2>4, <2>5
<1>. QED
  BY <1>1, <1>2, <1>3, Invariance, PTL DEF Spec

----------------------------------------------------------------------------
(***************************************************************************)
(* Who runs.                                                               *)
(***************************************************************************)
Alone == ~raced => Idle \/ stack["watch"] = << >>

Flushed == Base = "exited" => f_prevcount = 0 \/ f_type = "unkn"

LEMMA IdleIs == Shape => (Idle <=> Len(stack["main"]) = 1 /\ Base = "idle")
<1>1. SUFFICES ASSUME Shape PROVE Idle <=> Len(stack["main"]) = 1 /\ Base = "idle"
  OBVIOUS
<1>4. Stacks
  BY <1>1 DEF Shape
<1>2. stack["main"] \in Seq(Frame)
  BY <1>4 DEF Stacks, Thread
<1>3. Len(stack["main"]) = 1 => stack["main"] = <<Base>>
  BY <1>2 DEF Base
<1>. QED
  BY <1>3 DEF Idle, Base

LEMMA AloneInvariance ==
    ASSUME Shape, Shape', Alone, [Next]_vars
    PROVE  Alone' /\ (raced => raced')
<1>1. Len(stack["main"]) \in 1..3 /\ Len(stack["watch"]) \in 0..2 /\ Base \in BaseFrame
      /\ stack["watch"] \in Seq(Frame)
  BY Labels DEF Shape, Stacks
<1>2. ASSUME stack'["watch"] = << >>, raced => raced' PROVE Alone' /\ (raced => raced')
  BY <1>2 DEF Alone
<1>3. ASSUME UNCHANGED <<stack, raced>> PROVE Alone' /\ (raced => raced')
  BY <1>3 DEF Alone, Idle
<1>4. ASSUME NEW a \in BaseFrame \ {"idle"}, NEW b \in Frame, At("main", a), Goto("main", b),
             UNCHANGED raced
      PROVE  Alone' /\ (raced => raced')
  <2>1. stack["main"] = <<a>> /\ stack'["watch"] = stack["watch"]
    BY <1>4, BaseGoto
  <2>2. ~Idle
    BY <2>1 DEF Idle
  <2>. QED
    BY <1>4, <2>1, <2>2 DEF Alone
<1>5. ASSUME NEW t \in Thread, NEW a \in HandlerFrame, NEW b \in HandlerFrame, At(t, a),
             Goto(t, b), UNCHANGED raced
      PROVE  Alone' /\ (raced => raced')
  <2>1. Moved(t, a, b) /\ Base' = Base
    BY <1>5, HandlerGoto
  <2>2. stack["watch"] = << >> => stack'["watch"] = << >>
    <3>1. Len(stack'["watch"]) = Len(stack["watch"]) /\ stack'["watch"] \in Seq(Frame)
      BY <2>1, Labels DEF Moved, Stacks
    <3>. QED
      BY <1>1, <3>1
  <2>3. Idle => Idle'
    <3>1. SUFFICES ASSUME Idle PROVE Idle'
      OBVIOUS
    <3>2. a # "idle"
      BY Labels DEF HandlerFrame, MarkFrame, ExitFrame
    <3>3. t # "main"
      BY <1>5, <3>1, <3>2 DEF At, Last, Idle
    <3>4. stack'["main"] = stack["main"]
      BY <1>5, <3>3, Labels DEF Goto, Shape, Stacks
    <3>. QED
      BY <3>1, <3>4 DEF Idle
  <2>. QED
    BY <1>5, <2>2, <2>3 DEF Alone
<1>6. ASSUME NEW t \in Thread, NEW a \in HandlerFrame, At(t, a), Return(t), UNCHANGED raced
      PROVE  Alone' /\ (raced => raced')
  <2>1. Popped(t, a) /\ Base' = Base
    BY <1>6, HandlerReturn
  <2>2. CASE t = "main"
    <3>1. stack'["watch"] = stack["watch"] /\ ~Idle
      <4>1. "main" \in Thread /\ "watch" \in Thread /\ "watch" # "main" /\ "idle" \notin HandlerFrame
        BY Labels DEF HandlerFrame, MarkFrame, ExitFrame
      <4>2. stack'["watch"] = stack["watch"]
        BY <2>1, <2>2, <4>1 DEF Popped
      <4>3. ~Idle
        BY <1>6, <2>2, <4>1 DEF At, Last, Idle
      <4>. QED
        BY <4>2, <4>3
    <3>. QED
      BY <1>6, <3>1 DEF Alone
  <2>3. CASE t = "watch"
    <3>1. stack'["main"] = stack["main"] /\ stack["watch"] # << >>
      BY <1>1, <2>1, <2>3, Labels DEF Popped
    <3>. QED
      BY <1>6, <3>1 DEF Alone, Idle
  <2>. QED
    BY <2>2, <2>3, Labels
<1>7. Idle => At("main", "idle")
  BY DEF At, Last, Idle
<1>8. CASE LogMsg \/ StartInit
  <2>1. \E b \in {"compare", "write init", "read"} : Goto("main", b)
    BY <1>8 DEF LogMsg, StartInit
  <2>2. Idle /\ raced' = (raced \/ stack["watch"] # << >>)
    BY <1>8 DEF LogMsg, StartInit, Begin
  <2>3. {"idle", "compare", "write init", "read"} \subseteq BaseFrame /\ BaseFrame \subseteq Frame
    BY Labels DEF BaseFrame, InHand
  <2>4. stack'["watch"] = stack["watch"]
    BY <1>7, <2>1, <2>2, <2>3, BaseGoto
  <2>. QED
    BY <2>2, <2>4 DEF Alone
<1>9. CASE LogSteps \/ WriteInit \/ ResetInit \/ Read
  <2>1. UNCHANGED raced
    BY <1>9, WriteGoes, ResetFrameKeeps
       DEF LogSteps, Compare, Hold, WriteDup, ResetDup, WriteOld, ResetOld, Save, WriteNew,
           ResetNew, WriteInit, ResetInit, Read
  <2>2. \E a \in {"compare", "hold", "write dup", "reset dup", "flush", "reset old", "save", "write new",
                  "reset new", "write init", "reset init", "read"} :
        \E b \in {"hold", "flush", "save", "write dup", "idle", "reset dup", "reset old", "write new", "reset new",
                  "reset init", "read"} : At("main", a) /\ Goto("main", b)
    BY <1>9, WriteGoes
       DEF LogSteps, Compare, Hold, WriteDup, ResetDup, WriteOld, ResetOld, Save, WriteNew,
           ResetNew, WriteInit, ResetInit, Read, Done
  <2>3. {"compare", "hold", "write dup", "reset dup", "flush", "reset old", "save", "write new",
                  "reset new", "write init", "reset init", "read"} \subseteq BaseFrame \ {"idle"}
    BY DEF BaseFrame, InHand
  <2>4. {"hold", "flush", "save", "write dup", "idle", "reset dup", "reset old", "write new", "reset new",
                  "reset init", "read"} \subseteq Frame
    BY DEF BaseFrame, InHand, Frame
  <2>. QED
    BY <1>4, <2>1, <2>2, <2>3, <2>4
<1>10. CASE Tick \/ Hup \/ UNCHANGED vars
  BY <1>3, <1>10 DEF Tick, Hup, vars
<1>11. ASSUME NEW t \in Thread, Alarm(t) \/ Term(t) PROVE Alone' /\ (raced => raced')
  <2>1. \E b \in {"mark", "exit"} : Catch(t, b)
    BY <1>11 DEF Alarm, Term
  <2>2. {"mark", "exit"} \subseteq Frame
    BY DEF Frame, HandlerFrame, MarkFrame, ExitFrame
  <2>3. raced' = (raced \/ IF t = "main" THEN stack["watch"] # << >> ELSE ~Idle)
    BY <2>1 DEF Catch, Begin
  <2>4. \A u \in Thread : u # t => stack'[u] = stack[u]
    BY <2>1, <2>2, CatchPushes DEF Shape, Pushed
  <2>. QED
    BY <2>3, <2>4, Labels DEF Alone, Idle
<1>12. ASSUME Exit, UNCHANGED raced PROVE Alone' /\ (raced => raced')
  BY <1>2, <1>12 DEF Exit
<1>13. ASSUME NEW t \in Thread, Handlers(t) PROVE Alone' /\ (raced => raced')
  <2>1. UNCHANGED raced
    BY <1>13, WriteGoes, ResetFrameKeeps
       DEF Handlers, Domark, WriteMark, ResetMark, Die, WriteExit, ResetExit
  <2>2. \/ Exit
        \/ \E a \in {"mark", "write mark", "reset mark", "exit", "write exit"} :
              At(t, a) /\ (Return(t) \/ \E b \in {"write mark", "reset mark", "write exit", "reset exit"} : Goto(t, b))
    BY <1>13, WriteGoes
       DEF Handlers, Domark, WriteMark, ResetMark, Die, WriteExit, ResetExit
  <2>3. {"mark", "write mark", "reset mark", "exit", "write exit"} \subseteq HandlerFrame
        /\ {"write mark", "reset mark", "write exit", "reset exit"} \subseteq HandlerFrame
    BY DEF HandlerFrame, MarkFrame, ExitFrame
  <2>. QED
    BY <1>5, <1>6, <1>12, <2>1, <2>2, <2>3
<1>. QED
  BY <1>8, <1>9, <1>10, <1>11, <1>13
     DEF Next, Reload, Signals, LogSteps

LEMMA FlushedInvariance ==
    ASSUME Shape, Flushed, [Next]_vars
    PROVE  Flushed'
<1>1. ASSUME NEW t \in Thread, NEW a \in Frame, a # "exited", At(t, a) PROVE Base # "exited"
  <2>1. SUFFICES ASSUME Base = "exited" PROVE FALSE
    OBVIOUS
  <2>2. Len(stack["main"]) = 1 /\ stack["watch"] = << >>
    BY <2>1 DEF Shape
  <2>. QED
    BY <1>1, <2>1, <2>2, Labels DEF At, Last, Base
<1>2. ASSUME NEW a \in BaseFrame, NEW b \in BaseFrame \ {"exited"}, At("main", a), Goto("main", b)
      PROVE  Flushed'
  BY <1>2, BaseGoto, Labels DEF Flushed
<1>3. ASSUME NEW t \in Thread, NEW a \in HandlerFrame, NEW b \in HandlerFrame, At(t, a),
             Goto(t, b) \/ Return(t)
      PROVE  Flushed'
  <2>1. Base' = Base
    BY <1>3, HandlerGoto, HandlerReturn
  <2>2. Base # "exited"
    <3>1. a \in Frame /\ a # "exited"
      BY Labels DEF BaseFrame
    <3>. QED
      BY <1>1, <1>3, <3>1
  <2>. QED
    BY <2>1, <2>2 DEF Flushed
<1>4. Idle => At("main", "idle")
  BY DEF At, Last, Idle
<1>5. CASE LogMsg \/ LogSteps \/ Reload
  <2>1. \E a \in {"compare", "hold", "write dup", "reset dup", "flush", "reset old", "save", "write new",
                  "reset new", "write init", "reset init", "read", "idle"} :
        \E b \in {"hold", "flush", "save", "write dup", "idle", "reset dup", "reset old", "write new", "reset new",
                  "reset init", "read", "compare", "write init"} : At("main", a) /\ Goto("main", b)
    BY <1>4, <1>5, WriteGoes
       DEF LogMsg, LogSteps, Reload, StartInit, Compare, Hold, WriteDup, ResetDup, WriteOld,
           ResetOld, Save, WriteNew, ResetNew, WriteInit, ResetInit, Read, Done
  <2>2. {"compare", "hold", "write dup", "reset dup", "flush", "reset old", "save", "write new",
                  "reset new", "write init", "reset init", "read", "idle"} \subseteq BaseFrame
    BY DEF BaseFrame, InHand
  <2>3. {"hold", "flush", "save", "write dup", "idle", "reset dup", "reset old", "write new", "reset new",
                  "reset init", "read", "compare", "write init"} \subseteq BaseFrame \ {"exited"}
    BY DEF BaseFrame, InHand
  <2>. QED
    BY <1>2, <2>1, <2>2, <2>3
<1>6. CASE Tick \/ Hup \/ UNCHANGED vars
  <2>1. UNCHANGED <<stack, f_prevcount, f_type>>
    BY <1>6 DEF Tick, Hup, vars, filed
  <2>. QED
    BY <2>1 DEF Flushed, Base
<1>7. ASSUME NEW t \in Thread, Alarm(t) \/ Term(t) PROVE Flushed'
  <2>1. (\E b \in {"mark", "exit"} : Catch(t, b)) /\ UNCHANGED <<f_prevcount, f_type>>
    BY <1>7 DEF Alarm, Term, filed
  <2>2. {"mark", "exit"} \subseteq HandlerFrame
    BY DEF HandlerFrame, MarkFrame, ExitFrame
  <2>3. Base' = Base
    BY <2>1, <2>2, HandlerCatch
  <2>. QED
    BY <2>1, <2>3 DEF Flushed
<1>8. ASSUME NEW t \in Thread, Handlers(t) PROVE Flushed'
  <2>1. \/ Exit /\ (Reset \/ f_prevcount' = 0) /\ ResetFrame
        \/ \E a \in {"mark", "write mark", "reset mark", "exit", "write exit"} :
              At(t, a) /\ (Return(t) \/ \E b \in {"write mark", "reset mark", "write exit", "reset exit"} : Goto(t, b))
    BY <1>8, WriteGoes
       DEF Handlers, Domark, WriteMark, ResetMark, Die, WriteExit, ResetExit, PendingAtExit
  <2>2. {"mark", "write mark", "reset mark", "exit", "write exit"} \subseteq HandlerFrame
        /\ {"write mark", "reset mark", "write exit", "reset exit"} \subseteq HandlerFrame
    BY DEF HandlerFrame, MarkFrame, ExitFrame
  <2>3. CASE Exit /\ (Reset \/ f_prevcount' = 0) /\ ResetFrame
    BY <2>3, ResetFrameKeeps DEF Flushed, Reset
  <2>. QED
    BY <1>3, <2>1, <2>2, <2>3
<1>. QED
  BY <1>5, <1>6, <1>7, <1>8 DEF Next, Signals

----------------------------------------------------------------------------
(***************************************************************************)
(* What is written out, read entry by entry.                               *)
(***************************************************************************)
LEMMA Successors ==
    ASSUME NEW T, 0 \in T, \A i \in Nat : i \in T => i + 1 \in T
    PROVE  Nat \subseteq T
<1>1. SUFFICES ASSUME NEW x \in Nat, x \notin T PROVE FALSE
  OBVIOUS
<1>. DEFINE U == Nat \ T
<1>2. U \in SUBSET Nat /\ U # {}
  BY <1>1
<1>3. PICK m \in U : \A k \in U : ~(<<k, m>> \in OpToRel(<, Nat))
  BY <1>2, NatLessThanWellFounded, WFMin
<1>4. m \in Nat /\ m \notin T /\ \A k \in Nat : k < m => k \in T
  BY <1>3 DEF OpToRel
<1>5. m - 1 \in Nat /\ m - 1 < m
  BY <1>4
<1>. QED
  BY <1>4, <1>5

(* The recursion that FoldLeft is made of, over sets of indices of s.       *)
Folds(f, s, n) ==
    f = [I \in SUBSET (1..n) |->
            IF I = {} THEN << >> ELSE Expand(f[I \ {Max(I)}], s[Max(I)])]

Log(s) == FoldLeft(Expand, << >>, s)

LEMMA MaxOfInterval ==
    ASSUME NEW n \in Nat, NEW I \in SUBSET (1..n), n \in I
    PROVE  Max(I) = n
<1>1. \A y \in I : n >= y
  OBVIOUS
<1>2. \E x \in I : \A y \in I : x >= y
  BY <1>1
<1>3. Max(I) \in I /\ \A y \in I : Max(I) >= y
  BY <1>2 DEF Max
<1>. DEFINE m == Max(I)
<1>. HIDE DEF m
<1>4. m \in 1..n /\ m >= n
  BY <1>3 DEF m
<1>. QED
  BY <1>4 DEF m

LEMMA MaxIn ==
    ASSUME NEW n \in Nat, NEW I \in SUBSET (1..n), I # {}
    PROVE  Max(I) \in I
<1>. DEFINE T == {k \in Nat : \A J \in SUBSET (1..k) : J # {} => Max(J) \in J}
<1>1. 0 \in T
  <2>1. 1..0 = {}
    OBVIOUS
  <2>. QED
    BY <2>1
<1>2. ASSUME NEW k \in Nat, k \in T PROVE k + 1 \in T
  <2>1. SUFFICES ASSUME NEW J \in SUBSET (1..(k + 1)), J # {} PROVE Max(J) \in J
    BY <1>2
  <2>2. CASE k + 1 \in J
    BY <2>2, MaxOfInterval
  <2>3. CASE k + 1 \notin J
    BY <1>2, <2>1, <2>3
  <2>. QED
    BY <2>2, <2>3
<1>. HIDE DEF T
<1>3. n \in T
  BY <1>1, <1>2, Successors
<1>. QED
  BY <1>3 DEF T

LEMMA FoldsExist ==
    ASSUME NEW s, NEW n \in Nat
    PROVE  \E f : Folds(f, s, n)
<1>. DEFINE T == {k \in Nat : \E f : Folds(f, s, k)}
<1>1. 0 \in T
  <2>. DEFINE f == [I \in SUBSET (1..0) |-> << >>]
  <2>1. \A I \in SUBSET (1..0) : I = {}
    OBVIOUS
  <2>2. f = [I \in SUBSET (1..0) |-> IF I = {} THEN << >> ELSE Expand(f[I \ {Max(I)}], s[Max(I)])]
    BY <2>1
  <2>. QED
    BY <2>2 DEF Folds
<1>2. ASSUME NEW k \in Nat, k \in T PROVE k + 1 \in T
  <2>1. PICK f : Folds(f, s, k)
    BY <1>2
  <2>. DEFINE g == [I \in SUBSET (1..(k + 1)) |->
                      IF k + 1 \in I THEN Expand(f[I \ {k + 1}], s[k + 1]) ELSE f[I]]
  <2>2. ASSUME NEW I \in SUBSET (1..(k + 1))
        PROVE  g[I] = IF I = {} THEN << >> ELSE Expand(g[I \ {Max(I)}], s[Max(I)])
    <3>1. CASE k + 1 \in I
      <4>1. Max(I) = k + 1 /\ I # {}
        BY <3>1, MaxOfInterval
      <4>2. I \ {k + 1} \in SUBSET (1..k) /\ I \ {k + 1} \in SUBSET (1..(k + 1)) /\ k + 1 \notin I \ {k + 1}
        OBVIOUS
      <4>3. g[I \ {k + 1}] = f[I \ {k + 1}]
        BY <4>2
      <4>. QED
        BY <3>1, <4>1, <4>3
    <3>2. CASE k + 1 \notin I /\ I = {}
      <4>1. I \in SUBSET (1..k)
        BY <3>2
      <4>2. f[I] = << >>
        BY <2>1, <3>2, <4>1 DEF Folds
      <4>. QED
        BY <3>2, <4>2
    <3>3. CASE k + 1 \notin I /\ I # {}
      <4>1. I \in SUBSET (1..k)
        BY <3>3
      <4>2. Max(I) \in I
        BY <3>3, <4>1, MaxIn
      <4>. DEFINE J == I \ {Max(I)}
      <4>3. J \in SUBSET (1..(k + 1)) /\ k + 1 \notin J
        BY <3>3
      <4>. HIDE DEF J
      <4>4. g[J] = f[J] /\ g[I] = f[I]
        BY <3>3, <4>3
      <4>5. f[I] = Expand(f[J], s[Max(I)])
        BY <2>1, <3>3, <4>1 DEF Folds, J
      <4>. QED
        BY <3>3, <4>4, <4>5 DEF J
    <3>. QED
      BY <3>1, <3>2, <3>3
  <2>3. DOMAIN g = SUBSET (1..(k + 1)) /\ g = [I \in SUBSET (1..(k + 1)) |-> g[I]]
    OBVIOUS
  <2>. HIDE DEF g
  <2>4. g = [I \in SUBSET (1..(k + 1)) |-> IF I = {} THEN << >> ELSE Expand(g[I \ {Max(I)}], s[Max(I)])]
    BY <2>2, <2>3
  <2>5. Folds(g, s, k + 1)
    BY <2>4 DEF Folds
  <2>. QED
    BY <2>5
<1>. HIDE DEF T
<1>3. n \in T
  BY <1>1, <1>2, Successors
<1>. QED
  BY <1>3 DEF T

LEMMA LogIs ==
    ASSUME NEW X, NEW s \in Seq(X)
    PROVE  Log(s) = (CHOOSE f : Folds(f, s, Len(s)))[1..Len(s)]
<1>1. DOMAIN s = 1..Len(s)
  OBVIOUS
<1>. QED
  BY <1>1 DEF Log, FoldLeft, MapThenFoldSet, Folds

LEMMA LogOfNothing == Log(<< >>) = << >>
<1>1. << >> \in Seq({}) /\ Len(<< >>) = 0
  OBVIOUS
<1>2. Log(<< >>) = (CHOOSE f : Folds(f, << >>, 0))[1..0]
  BY <1>1, LogIs
<1>. DEFINE f == CHOOSE f : Folds(f, << >>, 0)
<1>3. Folds(f, << >>, 0)
  BY FoldsExist
<1>. HIDE DEF f
<1>4. 1..0 = {} /\ 1..0 \in SUBSET (1..0)
  OBVIOUS
<1>5. f[1..0] = << >>
  BY <1>3, <1>4 DEF Folds
<1>. QED
  BY <1>2, <1>5 DEF f

LEMMA FoldsAppend ==
    ASSUME NEW s, NEW r, NEW n \in Nat, NEW f, NEW g, Folds(f, s, n), Folds(g, r, n + 1),
           \A i \in 1..n : s[i] = r[i]
    PROVE  g[1..(n + 1)] = Expand(f[1..n], r[n + 1])
<1>1. n + 1 \in Nat
  OBVIOUS
<1>. DEFINE T == {k \in Nat : k <= n => f[1..k] = g[1..k]}
<1>7. 0 \in T
  <2>1. 1..0 = {} /\ 1..0 \in SUBSET (1..n) /\ 1..0 \in SUBSET (1..(n + 1))
    OBVIOUS
  <2>. QED
    BY <2>1 DEF Folds
<1>8. ASSUME NEW k \in Nat, k \in T PROVE k + 1 \in T
  <2>1. SUFFICES ASSUME k + 1 <= n PROVE f[1..(k + 1)] = g[1..(k + 1)]
    OBVIOUS
  <2>2. f[1..k] = g[1..k]
    BY <1>8, <2>1
  <2>. DEFINE K == 1..(k + 1)
  <2>3. K # {} /\ K \in SUBSET (1..n) /\ K \in SUBSET (1..(n + 1)) /\ k + 1 \in K /\ K \ {k + 1} = 1..k
    BY <2>1
  <2>4. Max(K) = k + 1
    BY <2>3, MaxOfInterval
  <2>5. s[k + 1] = r[k + 1]
    BY <2>1
  <2>. HIDE DEF K
  <2>6. f[K] = Expand(f[1..k], s[k + 1]) /\ g[K] = Expand(g[1..k], r[k + 1])
    BY <2>3, <2>4 DEF Folds
  <2>. QED
    BY <2>2, <2>5, <2>6 DEF K
<1>. HIDE DEF T
<1>9. n \in T
  BY <1>7, <1>8, Successors
<1>2. f[1..n] = g[1..n]
  BY <1>9 DEF T
<1>. DEFINE K == 1..(n + 1)
<1>3. K # {} /\ K \in SUBSET (1..(n + 1)) /\ n + 1 \in K
  OBVIOUS
<1>4. K \ {n + 1} = 1..n
  <2>1. \A i \in K : i \in 1..n \/ i = n + 1
    OBVIOUS
  <2>2. n + 1 \notin 1..n /\ \A i \in 1..n : i \in K
    OBVIOUS
  <2>. QED
    BY <2>1, <2>2
<1>5. Max(K) = n + 1
  BY <1>1, <1>3, MaxOfInterval
<1>. HIDE DEF K
<1>6. g[K] = Expand(g[1..n], r[n + 1])
  BY <1>3, <1>4, <1>5 DEF Folds
<1>. QED
  BY <1>2, <1>6 DEF K

LEMMA LogAppend ==
    ASSUME NEW X, NEW s \in Seq(X), NEW e \in X
    PROVE  Log(Append(s, e)) = Expand(Log(s), e)
<1>. DEFINE r == Append(s, e)
            n == Len(s)
<1>1. n \in Nat /\ r \in Seq(X) /\ Len(r) = n + 1 /\ r[n + 1] = e /\ \A i \in 1..n : s[i] = r[i]
  OBVIOUS
<1>. DEFINE f == CHOOSE f : Folds(f, s, n)
            g == CHOOSE g : Folds(g, r, n + 1)
<1>. HIDE DEF r
<1>2. Log(s) = f[1..n]
  BY LogIs
<1>3. Log(r) = g[1..(n + 1)]
  BY <1>1, LogIs
<1>. HIDE DEF n
<1>4. Folds(f, s, n)
  BY <1>1, FoldsExist
<1>5. Folds(g, r, n + 1)
  BY <1>1, FoldsExist
<1>. HIDE DEF f, g
<1>6. g[1..(n + 1)] = Expand(f[1..n], r[n + 1])
  BY <1>1, <1>4, <1>5, FoldsAppend
<1>. QED
  BY <1>1, <1>2, <1>3, <1>6 DEF r

----------------------------------------------------------------------------
(***************************************************************************)
(* The same for the search of lines in the log.                            *)
(***************************************************************************)
Match(c, i, x) == IF i < Len(c) /\ x = c[i + 1] THEN i + 1 ELSE i

Finds(c, f, s, n) ==
    f = [I \in SUBSET (1..n) |->
            IF I = {} THEN 0 ELSE Match(c, f[I \ {Max(I)}], s[Max(I)])]

LEMMA FindsExist ==
    ASSUME NEW c, NEW s, NEW n \in Nat
    PROVE  \E f : Finds(c, f, s, n)
<1>. DEFINE T == {k \in Nat : \E f : Finds(c, f, s, k)}
<1>1. 0 \in T
  <2>. DEFINE f == [I \in SUBSET (1..0) |-> 0]
  <2>1. \A I \in SUBSET (1..0) : I = {}
    OBVIOUS
  <2>2. f = [I \in SUBSET (1..0) |-> IF I = {} THEN 0 ELSE Match(c, f[I \ {Max(I)}], s[Max(I)])]
    BY <2>1
  <2>. QED
    BY <2>2 DEF Finds
<1>2. ASSUME NEW k \in Nat, k \in T PROVE k + 1 \in T
  <2>1. PICK f : Finds(c, f, s, k)
    BY <1>2
  <2>. DEFINE g == [I \in SUBSET (1..(k + 1)) |->
                      IF k + 1 \in I THEN Match(c, f[I \ {k + 1}], s[k + 1]) ELSE f[I]]
  <2>2. ASSUME NEW I \in SUBSET (1..(k + 1))
        PROVE  g[I] = IF I = {} THEN 0 ELSE Match(c, g[I \ {Max(I)}], s[Max(I)])
    <3>1. CASE k + 1 \in I
      <4>1. Max(I) = k + 1 /\ I # {}
        BY <3>1, MaxOfInterval
      <4>2. I \ {k + 1} \in SUBSET (1..k) /\ I \ {k + 1} \in SUBSET (1..(k + 1)) /\ k + 1 \notin I \ {k + 1}
        OBVIOUS
      <4>3. g[I \ {k + 1}] = f[I \ {k + 1}]
        BY <4>2
      <4>. QED
        BY <3>1, <4>1, <4>3
    <3>2. CASE k + 1 \notin I /\ I = {}
      <4>1. I \in SUBSET (1..k)
        BY <3>2
      <4>2. f[I] = 0
        BY <2>1, <3>2, <4>1 DEF Finds
      <4>. QED
        BY <3>2, <4>2
    <3>3. CASE k + 1 \notin I /\ I # {}
      <4>1. I \in SUBSET (1..k)
        BY <3>3
      <4>2. Max(I) \in I
        BY <3>3, <4>1, MaxIn
      <4>. DEFINE J == I \ {Max(I)}
      <4>3. J \in SUBSET (1..(k + 1)) /\ k + 1 \notin J
        BY <3>3
      <4>. HIDE DEF J
      <4>4. g[J] = f[J] /\ g[I] = f[I]
        BY <3>3, <4>3
      <4>5. f[I] = Match(c, f[J], s[Max(I)])
        BY <2>1, <3>3, <4>1 DEF Finds, J
      <4>. QED
        BY <3>3, <4>4, <4>5 DEF J
    <3>. QED
      BY <3>1, <3>2, <3>3
  <2>3. DOMAIN g = SUBSET (1..(k + 1)) /\ g = [I \in SUBSET (1..(k + 1)) |-> g[I]]
    OBVIOUS
  <2>. HIDE DEF g
  <2>4. g = [I \in SUBSET (1..(k + 1)) |-> IF I = {} THEN 0 ELSE Match(c, g[I \ {Max(I)}], s[Max(I)])]
    BY <2>2, <2>3
  <2>5. Finds(c, g, s, k + 1)
    BY <2>4 DEF Finds
  <2>. QED
    BY <2>5
<1>. HIDE DEF T
<1>3. n \in T
  BY <1>1, <1>2, Successors
<1>. QED
  BY <1>3 DEF T

LEMMA FoundIs ==
    ASSUME NEW c, NEW X, NEW s \in Seq(X)
    PROVE  Found(c, s) = (CHOOSE f : Finds(c, f, s, Len(s)))[1..Len(s)]
<1>1. DOMAIN s = 1..Len(s)
  OBVIOUS
<1>. QED
  BY <1>1 DEF Found, Match, FoldLeft, MapThenFoldSet, Finds

LEMMA FoundInNothing == \A c : Found(c, << >>) = 0
<1>. SUFFICES ASSUME NEW c PROVE Found(c, << >>) = 0
  OBVIOUS
<1>1. << >> \in Seq({}) /\ Len(<< >>) = 0
  OBVIOUS
<1>2. Found(c, << >>) = (CHOOSE f : Finds(c, f, << >>, 0))[1..0]
  BY <1>1, FoundIs
<1>. DEFINE f == CHOOSE f : Finds(c, f, << >>, 0)
<1>3. Finds(c, f, << >>, 0)
  BY FindsExist
<1>. HIDE DEF f
<1>4. 1..0 = {} /\ 1..0 \in SUBSET (1..0)
  OBVIOUS
<1>5. f[1..0] = 0
  BY <1>3, <1>4 DEF Finds
<1>. QED
  BY <1>2, <1>5 DEF f

LEMMA FindsAppend ==
    ASSUME NEW c, NEW s, NEW r, NEW n \in Nat, NEW f, NEW g, Finds(c, f, s, n),
           Finds(c, g, r, n + 1),
           \A i \in 1..n : s[i] = r[i]
    PROVE  g[1..(n + 1)] = Match(c, f[1..n], r[n + 1])
<1>1. n + 1 \in Nat
  OBVIOUS
<1>. DEFINE T == {k \in Nat : k <= n => f[1..k] = g[1..k]}
<1>7. 0 \in T
  <2>1. 1..0 = {} /\ 1..0 \in SUBSET (1..n) /\ 1..0 \in SUBSET (1..(n + 1))
    OBVIOUS
  <2>. QED
    BY <2>1 DEF Finds
<1>8. ASSUME NEW k \in Nat, k \in T PROVE k + 1 \in T
  <2>1. SUFFICES ASSUME k + 1 <= n PROVE f[1..(k + 1)] = g[1..(k + 1)]
    OBVIOUS
  <2>2. f[1..k] = g[1..k]
    BY <1>8, <2>1
  <2>. DEFINE K == 1..(k + 1)
  <2>3. K # {} /\ K \in SUBSET (1..n) /\ K \in SUBSET (1..(n + 1)) /\ k + 1 \in K /\ K \ {k + 1} = 1..k
    BY <2>1
  <2>4. Max(K) = k + 1
    BY <2>3, MaxOfInterval
  <2>5. s[k + 1] = r[k + 1]
    BY <2>1
  <2>. HIDE DEF K
  <2>6. f[K] = Match(c, f[1..k], s[k + 1]) /\ g[K] = Match(c, g[1..k], r[k + 1])
    BY <2>3, <2>4 DEF Finds
  <2>. QED
    BY <2>2, <2>5, <2>6 DEF K
<1>. HIDE DEF T
<1>9. n \in T
  BY <1>7, <1>8, Successors
<1>2. f[1..n] = g[1..n]
  BY <1>9 DEF T
<1>. DEFINE K == 1..(n + 1)
<1>3. K # {} /\ K \in SUBSET (1..(n + 1)) /\ n + 1 \in K
  OBVIOUS
<1>4. K \ {n + 1} = 1..n
  <2>1. \A i \in K : i \in 1..n \/ i = n + 1
    OBVIOUS
  <2>2. n + 1 \notin 1..n /\ \A i \in 1..n : i \in K
    OBVIOUS
  <2>. QED
    BY <2>1, <2>2
<1>5. Max(K) = n + 1
  BY <1>1, <1>3, MaxOfInterval
<1>. HIDE DEF K
<1>6. g[K] = Match(c, g[1..n], r[n + 1])
  BY <1>3, <1>4, <1>5 DEF Finds
<1>. QED
  BY <1>2, <1>6 DEF K

LEMMA FoundAppend ==
    ASSUME NEW c, NEW X, NEW s \in Seq(X), NEW e \in X
    PROVE  Found(c, Append(s, e)) = Match(c, Found(c, s), e)
<1>. DEFINE r == Append(s, e)
            n == Len(s)
<1>1. n \in Nat /\ r \in Seq(X) /\ Len(r) = n + 1 /\ r[n + 1] = e /\ \A i \in 1..n : s[i] = r[i]
  OBVIOUS
<1>. DEFINE f == CHOOSE f : Finds(c, f, s, n)
            g == CHOOSE g : Finds(c, g, r, n + 1)
<1>. HIDE DEF r
<1>2. Found(c, s) = f[1..n]
  BY FoundIs
<1>3. Found(c, r) = g[1..(n + 1)]
  BY <1>1, FoundIs
<1>. HIDE DEF n
<1>4. Finds(c, f, s, n)
  BY <1>1, FindsExist
<1>5. Finds(c, g, r, n + 1)
  BY <1>1, FindsExist
<1>. HIDE DEF f, g
<1>6. g[1..(n + 1)] = Match(c, f[1..n], r[n + 1])
  BY <1>1, <1>4, <1>5, FindsAppend
<1>. QED
  BY <1>1, <1>2, <1>3, <1>6 DEF r

LEMMA LoggedAppend ==
    ASSUME out \in Seq(Said), NEW e \in Said, out' = Append(out, e)
    PROVE  Logged' = Expand(Logged, e)
<1>1. Logged = Log(out) /\ Logged' = Log(out')
  BY DEF Logged, Log
<1>. QED
  BY <1>1, LogAppend

LEMMA LoggedKept ==
    /\ UNCHANGED out => UNCHANGED Logged
    /\ out = << >> => Logged = << >>
<1>1. Logged = Log(out) /\ Logged' = Log(out')
  BY DEF Logged, Log
<1>. QED
  BY <1>1, LogOfNothing

LEMMA EntryIs ==
    ASSUME NEW p \in Entry
    PROVE  /\ p = [line |-> p.line, host |-> p.host]
           /\ p.line \in Line \cup {Empty} /\ p.host \in Host \cup {Empty}
  BY DEF Entry

LEMMA Single ==
    ASSUME NEW L \in Seq(Entry), NEW p \in Entry, NEW r, r = Append(L, p)
    PROVE  r \in Seq(Entry) /\ r # << >> /\ Last(r) = p
<1>1. r \in Seq(Entry) /\ Len(r) = Len(L) + 1 /\ r[Len(L) + 1] = p
  BY AppendIs
<1>2. Len(L) \in Nat /\ Len(<< >>) = 0
  OBVIOUS
<1>. QED
  BY <1>1, <1>2 DEF Last

(* "Last message repeated n times", after the line it repeats.              *)
LEMMA Repeated ==
    ASSUME NEW L \in Seq(Entry), L # << >>, Last(L) \in Entry,
           NEW H \in Seq(Entry), \A i \in 1..Len(H) : H[i] = Last(L),
           NEW e, e.line = Last(L).line, e.host = Last(L).host, e.n = Len(H), Len(H) > 0
    PROVE  /\ Expand(L, e) = L \o H
           /\ L \o H \in Seq(Entry) /\ L \o H # << >> /\ Last(L \o H) = Last(L)
<1>. DEFINE n == Len(H)
            p == Last(L)
<1>5. n \in Nat \ {0} /\ p \in Entry
  OBVIOUS
<1>6. e.line = p.line /\ e.host = p.host /\ e.n = n /\ Len(H) = n /\ (\A i \in 1..n : H[i] = p) /\ Last(L) = p
  OBVIOUS
<1>. HIDE DEF n, p
<1>1. H \in Seq(Entry) /\ Len(H) = n /\ (\A i \in 1..n : H[i] = p) /\ H = [i \in 1..n |-> p]
  <2>1. H = [i \in 1..Len(H) |-> H[i]]
    OBVIOUS
  <2>. QED
    BY <1>6, <2>1
<1>. DEFINE r == L \o H
<1>2. Len(L) \in Nat /\ r \in Seq(Entry) /\ Len(r) = Len(L) + n /\ \A i \in 1..n : r[Len(L) + i] = H[i]
  BY <1>1, <1>5, ConcatProperties
<1>. HIDE DEF r
<1>3. r # << >> /\ Last(r) = p
  <2>1. Len(<< >>) = 0 /\ n \in 1..n
    BY <1>5
  <2>2. r[Len(L) + n] = p
    BY <1>1, <1>2, <2>1
  <2>. QED
    BY <1>2, <1>5, <2>1, <2>2 DEF Last
<1>4. Expand(L, e) = L \o H
  <2>1. CASE n = 1
    <3>1. H = <<p>>
      BY <1>1, <2>1
    <3>2. e.n = 1 /\ e.line = p.line /\ e.host = p.host
      BY <1>6, <2>1
    <3>3. Expand(L, e) = Append(L, p)
      BY <1>5, <3>2, EntryIs DEF Expand
    <3>. QED
      BY <1>5, <3>1, <3>3, AppendIsConcat
  <2>2. CASE n # 1
    <3>1. e.n = n
      BY <1>6
    <3>2. Expand(L, e) = L \o [i \in 1..e.n |-> Last(L)]
      BY <2>2, <3>1 DEF Expand
    <3>3. [i \in 1..e.n |-> Last(L)] = H
      BY <1>1, <1>6, <3>1
    <3>. QED
      BY <3>2, <3>3
  <2>. QED
    BY <2>1, <2>2
<1>. QED
  BY <1>1, <1>2, <1>3, <1>4, <1>6 DEF r

LEMMA Nothing ==
    ASSUME NEW L \in Seq(Entry)
    PROVE  L \o << >> = L /\ << >> \o L = L /\ << >> \in Seq(Entry)
  BY ConcatEmptySeq

LEMMA OneMore ==
    ASSUME NEW L \in Seq(Entry), NEW H \in Seq(Entry), NEW p \in Entry
    PROVE  L \o Append(H, p) = Append(L \o H, p) /\ Append(L, p) = L \o <<p>>
<1>1. <<p>> \in Seq(Entry) /\ L \o H \in Seq(Entry)
  BY ConcatProperties
<1>2. Append(H, p) = H \o <<p>> /\ Append(L \o H, p) = (L \o H) \o <<p>> /\ Append(L, p) = L \o <<p>>
  BY <1>1, AppendIsConcat
<1>. QED
  BY <1>1, <1>2, ConcatAssociative

(* What is held back.                                                       *)
Prev == [line |-> f_prevline, host |-> f_prevhost]

LEMMA PrevIs == Typed => Prev \in Entry
  BY DEF Typed, Destination, Prev, Entry

LEMMA HeldNone ==
    /\ f_prevcount = 0 => Held = << >>
    /\ f_prevcount' = 0 => Held' = << >>
<1>1. 1..0 = {}
  OBVIOUS
<1>. QED
  BY <1>1 DEF Held

LEMMA HeldSame == UNCHANGED <<f_prevcount, f_prevline, f_prevhost>> => Held' = Held /\ Prev' = Prev
  BY DEF Held, Prev

LEMMA HeldIs ==
    ASSUME Typed, f_prevcount >= 0
    PROVE  Held \in Seq(Entry) /\ Len(Held) = f_prevcount /\ \A i \in 1..f_prevcount : Held[i] = Prev
<1>1. f_prevcount \in Nat /\ Prev \in Entry
  BY PrevIs DEF Typed, Destination
<1>2. Held = [i \in 1..f_prevcount |-> Prev]
  BY DEF Held, Prev
<1>. QED
  BY <1>1, <1>2

LEMMA HeldMore ==
    ASSUME Typed, f_prevcount >= 0, f_prevcount' = f_prevcount + 1,
           UNCHANGED <<f_prevline, f_prevhost>>
    PROVE  Held' = Append(Held, Prev)
<1>1. f_prevcount \in Nat /\ Prev \in Entry /\ Held \in Seq(Entry)
  BY PrevIs, HeldIs DEF Typed, Destination
<1>. DEFINE n == f_prevcount
            r == Append(Held, Prev)
<1>2. Held = [i \in 1..n |-> Prev] /\ Held' = [i \in 1..(n + 1) |-> Prev]
  BY DEF Held, Prev
<1>3. Len(Held) = n /\ \A i \in 1..n : Held[i] = Prev
  BY <1>1, <1>2
<1>4. r \in Seq(Entry) /\ Len(r) = Len(Held) + 1 /\ r[Len(Held) + 1] = Prev
      /\ \A i \in 1..Len(Held) : r[i] = Held[i]
  BY <1>1, AppendIs
<1>. HIDE DEF r
<1>5. \A i \in 1..(n + 1) : r[i] = Prev
  <2>1. SUFFICES ASSUME NEW i \in 1..(n + 1) PROVE r[i] = Prev
    OBVIOUS
  <2>2. i \in 1..n \/ i = n + 1
    BY <1>1
  <2>. QED
    BY <1>3, <1>4, <2>2
<1>6. r = [i \in 1..(n + 1) |-> r[i]]
  BY <1>1, <1>3, <1>4
<1>7. r = [i \in 1..(n + 1) |-> Prev]
  BY <1>5, <1>6
<1>. QED
  BY <1>2, <1>7 DEF r

LEMMA Sequences ==
    ASSUME NEW S, NEW T, << >> \in T,
           \A s \in Seq(S), e \in S : s \in T => Append(s, e) \in T
    PROVE  Seq(S) \subseteq T
<1>. DEFINE K == {k \in Nat : \A s \in Seq(S) : Len(s) = k => s \in T}
<1>1. 0 \in K
  <2>1. \A s \in Seq(S) : Len(s) = 0 => s = << >>
    OBVIOUS
  <2>. QED
    BY <2>1
<1>2. ASSUME NEW k \in Nat, k \in K PROVE k + 1 \in K
  <2>1. SUFFICES ASSUME NEW s \in Seq(S), Len(s) = k + 1 PROVE s \in T
    OBVIOUS
  <2>2. s # << >>
    BY <2>1
  <2>3. PICK r \in Seq(S), e \in S : s = Append(r, e)
    BY <2>2, SequenceEmptyOrAppend
  <2>4. Len(s) = Len(r) + 1 /\ Len(r) \in Nat
    BY <2>3, AppendIs
  <2>5. Len(r) = k
    BY <2>1, <2>4
  <2>. QED
    BY <1>2, <2>3, <2>5
<1>. HIDE DEF K
<1>3. Nat \subseteq K
  BY <1>1, <1>2, Successors
<1>. QED
  <2>1. SUFFICES ASSUME NEW s \in Seq(S) PROVE s \in T
    OBVIOUS
  <2>2. Len(s) \in K
    BY <1>3
  <2>. QED
    BY <2>2 DEF K

(* A search never goes past the end, and one for one line more finds the    *)
(* same, or all and that line.                                              *)
LEMMA FoundLonger ==
    ASSUME NEW c \in Seq(Entry), NEW x \in Entry, NEW s \in Seq(Entry)
    PROVE  /\ Found(c, s) \in 0..Len(c)
           /\ \/ Found(Append(c, x), s) = Found(c, s)
              \/ Found(c, s) = Len(c) /\ Found(Append(c, x), s) = Len(c) + 1
<1>. DEFINE d == Append(c, x)
            T == {r \in Seq(Entry) :
                    /\ Found(c, r) \in 0..Len(c)
                    /\ \/ Found(d, r) = Found(c, r)
                       \/ Found(c, r) = Len(c) /\ Found(d, r) = Len(c) + 1}
<1>1. /\ Len(c) \in Nat /\ Len(d) = Len(c) + 1
      /\ \A i \in 1..Len(c) : d[i] = c[i]
  BY AppendIs
<1>. HIDE DEF d
<1>2. << >> \in T
  BY <1>1, FoundInNothing
<1>3. ASSUME NEW r \in Seq(Entry), NEW e \in Entry, r \in T PROVE Append(r, e) \in T
  <2>1. /\ Found(c, Append(r, e)) = Match(c, Found(c, r), e)
        /\ Found(d, Append(r, e)) = Match(d, Found(d, r), e)
        /\ Append(r, e) \in Seq(Entry)
    BY FoundAppend, AppendIs
  <2>2. PICK i \in 0..Len(c) : i = Found(c, r)
    BY <1>3
  <2>3. CASE Found(d, r) = i /\ i < Len(c)
    <3>1. i + 1 \in 1..Len(c) /\ i < Len(d) /\ i + 1 \in 0..Len(c)
      BY <1>1, <2>3
    <3>2. Match(c, i, e) = Match(d, i, e) /\ Match(c, i, e) \in {i, i + 1}
      BY <1>1, <2>3, <3>1 DEF Match
    <3>. QED
      BY <2>1, <2>2, <2>3, <3>1, <3>2
  <2>4. CASE Found(d, r) = i /\ i = Len(c)
    <3>1. Match(c, i, e) = i /\ Match(d, i, e) \in {i, i + 1}
      BY <1>1, <2>4 DEF Match
    <3>. QED
      BY <2>1, <2>2, <2>4, <3>1
  <2>5. CASE i = Len(c) /\ Found(d, r) = i + 1
    <3>1. Match(c, i, e) = i /\ Match(d, i + 1, e) = i + 1
      BY <1>1, <2>5 DEF Match
    <3>. QED
      BY <2>1, <2>2, <2>5, <3>1
  <2>6. i < Len(c) \/ i = Len(c)
    BY <1>1
  <2>. QED
    BY <1>3, <2>2, <2>3, <2>4, <2>5, <2>6
<1>. HIDE DEF T
<1>4. s \in T
  BY <1>2, <1>3, Sequences
<1>. QED
  BY <1>4 DEF T, d

(* All of c is in s.                                                        *)
All(c, s) == Found(c, s) = Len(c)

LEMMA AllInLonger ==
    ASSUME NEW c \in Seq(Entry), NEW s \in Seq(Entry), NEW t \in Seq(Entry), All(c, s)
    PROVE  All(c, s \o t)
<1>. DEFINE T == {r \in Seq(Entry) : All(c, s \o r)}
<1>1. << >> \in T
  BY ConcatEmptySeq
<1>2. ASSUME NEW r \in Seq(Entry), NEW e \in Entry, r \in T PROVE Append(r, e) \in T
  <2>. DEFINE q == s \o r
  <2>1. s \o Append(r, e) = Append(q, e) /\ q \in Seq(Entry) /\ Append(r, e) \in Seq(Entry)
    BY OneMore, ConcatProperties, AppendIs
  <2>4. All(c, q)
    BY <1>2
  <2>. HIDE DEF q
  <2>2. Found(c, Append(q, e)) = Match(c, Found(c, q), e)
    BY <2>1, FoundAppend
  <2>3. Match(c, Len(c), e) = Len(c)
    BY DEF Match
  <2>. QED
    BY <2>1, <2>2, <2>3, <2>4 DEF All
<1>. HIDE DEF T
<1>3. t \in T
  BY <1>1, <1>2, Sequences
<1>. QED
  BY <1>3 DEF T

LEMMA AllAndOne ==
    ASSUME NEW c \in Seq(Entry), NEW s \in Seq(Entry), NEW x \in Entry
    PROVE  /\ All(c, s) => All(Append(c, x), Append(s, x))
           /\ All(Append(c, x), s) => All(c, s)
<1>. DEFINE d == Append(c, x)
<1>1. Len(c) \in Nat /\ d \in Seq(Entry) /\ Len(d) = Len(c) + 1 /\ d[Len(c) + 1] = x
  BY AppendIs
<1>2. \/ Found(d, s) = Found(c, s)
      \/ Found(c, s) = Len(c) /\ Found(d, s) = Len(c) + 1
  BY FoundLonger
<1>3. Found(d, Append(s, x)) = Match(d, Found(d, s), x)
  BY FoundAppend
<1>4. Found(c, s) \in 0..Len(c)
  BY FoundLonger
<1>. HIDE DEF d
<1>5. Match(d, Len(c), x) = Len(c) + 1 /\ Match(d, Len(c) + 1, x) = Len(c) + 1
  BY <1>1 DEF Match
<1>6. ASSUME All(c, s) PROVE All(d, Append(s, x))
  BY <1>1, <1>2, <1>3, <1>5, <1>6 DEF All
<1>7. ASSUME All(d, s) PROVE All(c, s)
  BY <1>1, <1>2, <1>4, <1>7 DEF All
<1>. QED
  BY <1>6, <1>7 DEF d

----------------------------------------------------------------------------
(***************************************************************************)
(* The account: what is logged, with what is held back, is what came.  A   *)
(* text that is written counts as logged at once, and as held back until   *)
(* the reset; the line in hand counts from where it is taken over.         *)
(***************************************************************************)
Resets == {"reset dup", "reset old", "reset mark", "reset exit", "reset init"}

Paying == {"flush", "write mark", "write exit", "write init"}

Middle == {"write dup", "reset dup", "flush", "reset old", "write new", "reset new",
           "write mark", "reset mark", "write exit", "reset exit",
           "write init", "reset init"}

Rest == IF On(Resets) THEN << >> ELSE Held

Extra == IF Base \in {"hold", "write dup", "reset dup", "reset new"} THEN <<cur>> ELSE << >>

Sound == ~lossy /\ ~torn /\ ~raced /\ ~mistaken

(* f_prevline is the line that was written last, and not a long one.        *)
Saved == f_prevhost # Empty /\ ~long

(* Nothing is in the middle of a write under a handler that writes.         *)
Nested == \A t \in Thread : \A i, j \in 1..Len(stack[t]) :
             i < j /\ stack[t][j] \in Resets => stack[t][i] \notin Middle

Amount ==
    /\ f_prevcount >= 0
    /\ Base \in {"save", "write new", "reset new", "read"} => f_prevcount = 0
    /\ On(Paying) => f_prevcount > 0
    /\ f_prevcount > 0 => Saved

InWork ==
    /\ Base \in InHand => cur.line \in Line /\ cur.host \in Host
    /\ Base = "write new" => /\ f_prevhost = cur.host /\ (long <=> cur.line \in LongLine)
                             /\ f_prevline = IF cur.line \in LongLine THEN Empty ELSE cur.line

Known ==
    /\ Logged \in Seq(Entry)
    /\ Saved /\ Base \notin {"write new", "exited"} => Logged # << >> /\ Last(Logged) = Prev

Balance ==
    /\ Base # "exited" => Logged \o Rest = complete \o Extra
    /\ Base = "exited" => Logged \in {complete, Append(complete, cur)}

Books == Nested /\ Amount /\ InWork /\ Known /\ Balance

Account == Sound => Books

LEMMA KindsOfFrames ==
    /\ Resets \subseteq Middle /\ Paying \subseteq Middle /\ Paying \cap Resets = {}
    /\ Resets \subseteq Frame /\ Middle \subseteq Frame
    /\ "idle" \notin Middle
  BY DEF Resets, Middle, Paying, Frame, HandlerFrame, MarkFrame, ExitFrame, BaseFrame, InHand

(* While a thread is at work the other one is not.                          *)
LEMMA OtherIdle ==
    ASSUME Shape, Alone, ~raced, NEW t \in Thread, NEW a, a # "idle", At(t, a)
    PROVE  \A u \in Thread : u # t => \A i \in 1..Len(stack[u]) : stack[u][i] = "idle"
<1>1. CASE t = "main"
  <2>1. ~Idle
    BY <1>1 DEF At, Last, Idle
  <2>2. stack["watch"] = << >>
    BY <2>1 DEF Alone
  <2>. QED
    BY <1>1, <2>2, Labels
<1>2. CASE t = "watch"
  <2>1. stack["main"] = <<"idle">>
    BY <1>2 DEF At, Alone, Idle
  <2>. QED
    BY <1>2, <2>1, Labels
<1>. QED
  BY <1>1, <1>2, Labels

(* A step of logmsg or init: they run alone.                                *)
LEMMA BaseAlone ==
    ASSUME Shape, stack["watch"] = << >>, NEW a \in BaseFrame, NEW b \in BaseFrame,
           At("main", a), Goto("main", b), NEW L
    PROVE  /\ On(L) <=> a \in L
           /\ On(L)' <=> b \in L
           /\ Nested'
           /\ Base = a /\ Base' = b
<1>1. /\ stack["main"] = <<a>> /\ Base = a
      /\ stack'["main"] = <<b>> /\ stack'["watch"] = stack["watch"] /\ Base' = b
  BY BaseGoto, Labels
<1>7. Len(stack["main"]) = 1 /\ Len(stack["watch"]) = 0 /\ Len(stack'["main"]) = 1 /\ Len(stack'["watch"]) = 0
  BY <1>1
<1>8. (\A i \in 1..1 : i = 1) /\ 1..0 = {}
  OBVIOUS
<1>2. \A u \in Thread : \A i \in 1..Len(stack[u]) : u = "main" /\ i = 1
  <2>1. SUFFICES ASSUME NEW u \in Thread, NEW i \in 1..Len(stack[u]) PROVE u = "main" /\ i = 1
    OBVIOUS
  <2>2. u = "main"
    BY <1>7, <1>8, <2>1, Labels
  <2>. QED
    BY <1>7, <1>8, <2>1, <2>2
<1>3. \A u \in Thread : \A i \in 1..Len(stack'[u]) : u = "main" /\ i = 1
  <2>1. SUFFICES ASSUME NEW u \in Thread, NEW i \in 1..Len(stack'[u]) PROVE u = "main" /\ i = 1
    OBVIOUS
  <2>2. u = "main"
    BY <1>7, <1>8, <2>1, Labels
  <2>. QED
    BY <1>7, <1>8, <2>1, <2>2
<1>4. On(L) <=> a \in L
  BY <1>1, <1>2, Labels DEF On
<1>5. On(L)' <=> b \in L
  BY <1>1, <1>3, Labels DEF On
<1>6. Nested'
  BY <1>3 DEF Nested
<1>. QED
  BY <1>1, <1>4, <1>5, <1>6

(* A write that tears nothing.                                              *)
LEMMA Whole ==
    ASSUME Typed, Counts, NEW t, NEW from, NEW msg \in Line \cup {Empty}, NEW next,
           Write(t, from, msg, next), Sound'
    PROVE  /\ Sound /\ out' = Append(out, Text(msg))
           /\ UNCHANGED <<f_prevcount, f_prevline, f_prevhost, long, complete, cur>>
           /\ ~Tearing(t) /\ f_prevcount >= 0
<1>1. ~lossy /\ ~lossy'
  BY WriteTyped DEF Sound
<1>2. f_type \in {"file", "forw"} /\ f_prevcount >= 0
  <2>1. f_type \in {"file", "forw"} /\ f_prevcount \in Int /\ (f_prevcount < 0 => f_type = "unused")
    BY <1>1 DEF Counts, Typed, Destination
  <2>. QED
    BY <2>1
<1>3. Out(t, from, msg) /\ UNCHANGED f_prevcount
  BY <1>2 DEF Write
<1>4. out' = Append(out, Text(msg)) /\ complete' = complete
  BY <1>1, <1>3 DEF Out, AfterSend, AfterWrite
<1>5. ~torn /\ ~Tearing(t)
  BY <1>1 DEF Write, Sound
<1>6. UNCHANGED <<cur, f_prevline, f_prevhost, long, raced>>
  BY WriteGoes
<1>7. ~mistaken
  BY WriteGoes DEF Sound
<1>. QED
  BY <1>1, <1>2, <1>3, <1>4, <1>5, <1>6, <1>7 DEF Sound

LEMMA MistakenStays ==
    ASSUME Typed, [Next]_vars, ~mistaken'
    PROVE  ~mistaken
<1>0. mistaken \in BOOLEAN
  BY DEF Typed, Flags
<1>1. ASSUME NEW t, NEW from, NEW msg, NEW next, Write(t, from, msg, next)
      PROVE  mistaken' = mistaken
  BY <1>1, WriteGoes
<1>2. CASE LogMsg \/ StartInit \/ Save \/ Tick \/ Hup \/ Read \/ UNCHANGED vars
  BY <1>2 DEF LogMsg, StartInit, Save, Tick, Hup, Read, vars, history
<1>3. CASE Compare
  BY <1>3 DEF Compare
<1>4. CASE Hold \/ ResetDup \/ ResetOld \/ ResetNew \/ ResetInit
  BY <1>4 DEF Hold, ResetDup, ResetOld, ResetNew, ResetInit
<1>5. CASE WriteDup \/ WriteOld \/ WriteNew \/ WriteInit
  BY <1>1, <1>5 DEF WriteDup, WriteOld, WriteNew, WriteInit
<1>6. ASSUME NEW t \in Thread, Alarm(t) \/ Term(t) PROVE mistaken' = mistaken
  BY <1>6 DEF Alarm, Term, history
<1>7. ASSUME NEW t \in Thread,
             Domark(t) \/ ResetMark(t) \/ Die(t) \/ ResetExit(t) PROVE mistaken' = mistaken
  BY <1>7 DEF Domark, ResetMark, Die, ResetExit
<1>8. ASSUME NEW t \in Thread, WriteMark(t) \/ WriteExit(t) PROVE mistaken' = mistaken
  BY <1>1, <1>8 DEF WriteMark, WriteExit
<1>. QED
  BY <1>2, <1>3, <1>4, <1>5, <1>6, <1>7, <1>8 DEF Next, LogSteps, Reload, Signals, Handlers

LEMMA SoundBefore ==
    ASSUME Shape, Shape', Typed, Alone, [Next]_vars, Sound'
    PROVE  Sound /\ ~raced /\ ~raced'
<1>1. ~lossy /\ ~raced /\ ~raced' /\ ~lossy'
  BY TypedInvariance, AloneInvariance DEF Sound
<1>2. torn' = torn \/ (torn' <=> ~lossy' /\ torn) \/ \E t : (torn' <=> ~lossy' /\ (torn \/ Tearing(t)))
  <2>1. ASSUME NEW t, NEW from, NEW msg, NEW next, Write(t, from, msg, next)
        PROVE  torn' = (~lossy' /\ (torn \/ Tearing(t)))
    BY <2>1 DEF Write
  <2>2. CASE LogMsg \/ StartInit \/ Save \/ Tick \/ Hup \/ UNCHANGED vars
    BY <2>2 DEF LogMsg, StartInit, Save, Tick, Hup, vars
  <2>3. CASE Compare \/ Hold \/ ResetDup \/ ResetOld \/ ResetNew \/ ResetInit
    BY <2>3, ResetFrameKeeps DEF Compare, Hold, ResetDup, ResetOld, ResetNew, ResetInit
  <2>4. CASE WriteDup \/ WriteOld \/ WriteNew \/ WriteInit
    BY <2>1, <2>4 DEF WriteDup, WriteOld, WriteNew, WriteInit
  <2>5. CASE Read
    BY <2>5 DEF Read
  <2>6. ASSUME NEW t \in Thread, Alarm(t) \/ Term(t) PROVE torn' = torn
    BY <2>6 DEF Alarm, Term
  <2>7. ASSUME NEW t \in Thread,
               Domark(t) \/ ResetMark(t) \/ Die(t) \/ ResetExit(t) PROVE torn' = torn
    BY <2>7, ResetFrameKeeps DEF Domark, ResetMark, Die, ResetExit
  <2>8. ASSUME NEW t \in Thread,
               WriteMark(t) \/ WriteExit(t) PROVE torn' = (~lossy' /\ (torn \/ Tearing(t)))
    BY <2>1, <2>8 DEF WriteMark, WriteExit
  <2>. QED
    BY <2>2, <2>3, <2>4, <2>5, <2>6, <2>7, <2>8 DEF Next, LogSteps, Reload, Signals, Handlers
<1>3. ~torn
  BY <1>1, <1>2 DEF Sound
<1>4. ~mistaken
  BY MistakenStays DEF Sound
<1>. QED
  BY <1>1, <1>3, <1>4 DEF Sound

(* The labels of one fprintlog of a repetition.                             *)
Payers == Paying \cup {"write dup"}

Pair(a, b) ==
    /\ Base' = Base \/ (Base = a /\ Base' = b)
    /\ b \in InHand => a \in InHand
    /\ a = "write dup" <=> b = "reset dup"

(* A repetition is written: what was held back is logged.                   *)
LEMMA BooksPaid ==
    ASSUME Shape, Typed, Counts, Alone, Books, NEW t \in Thread, ~raced,
           NEW a \in Payers, NEW b \in Resets, At(t, a), Pair(a, b),
           NEW from, Write(t, from, Empty, b), Sound'
    PROVE  Books'
<1>0. /\ Base # "exited"
      /\ a \in Frame /\ b \in Frame /\ a # "idle" /\ a \in Middle /\ a \notin Resets /\ b \notin Paying
      /\ b \notin {"save", "write new", "reset new", "read", "hold", "write dup", "exited"}
      /\ a \notin {"hold", "reset dup", "reset new", "exited"}
  <2>1. /\ a \in Frame /\ b \in Frame /\ a # "idle" /\ a \in Middle /\ a \notin Resets /\ b \notin Paying
        /\ b \notin {"save", "write new", "reset new", "read", "hold", "write dup", "exited"}
        /\ a \notin {"hold", "reset dup", "reset new", "exited"}
    BY KindsOfFrames DEF Resets, Paying, Middle, Payers
  <2>2. Base # "exited"
    <3>1. SUFFICES ASSUME Base = "exited" PROVE FALSE
      OBVIOUS
    <3>2. Len(stack["main"]) = 1 /\ stack["watch"] = << >>
      BY <3>1 DEF Shape
    <3>. QED
      BY <2>1, <3>1, <3>2, Labels DEF At, Last, Base
  <2>. QED
    BY <2>1, <2>2
<1>1. Moved(t, a, b)
  BY <1>0, GotoMoves, WriteGoes DEF Shape
<1>2. /\ out' = Append(out, Text(Empty))
      /\ UNCHANGED <<f_prevcount, f_prevline, f_prevhost, long, complete, cur>>
      /\ ~Tearing(t) /\ f_prevcount >= 0
  BY Whole
<1>20. Stacks
  BY DEF Shape
<1>3. Len(stack[t]) \in Nat /\ Len(stack[t]) > 0
  BY <1>1, <1>20 DEF Moved, Stacks
<1>4. \A i \in 1..(Len(stack[t]) - 1) : stack[t][i] \notin Middle
  BY <1>2 DEF Tearing, Middle
<1>5. \A u \in Thread : u # t => \A i \in 1..Len(stack[u]) : stack[u][i] = "idle"
  BY <1>0, OtherIdle
<1>6. \A i \in 1..Len(stack[t]) : i \in 1..(Len(stack[t]) - 1) \/ i = Len(stack[t])
  BY <1>3
<1>7. ~On(Resets)
  BY <1>0, <1>1, <1>4, <1>5, <1>6, KindsOfFrames DEF On, Moved
<1>8. \A u \in Thread : \A i \in 1..Len(stack'[u]) :
         \/ u = t /\ i = Len(stack[t]) /\ stack'[u][i] = b
         \/ i \in 1..Len(stack[u]) /\ stack'[u][i] \notin Middle /\ (u = t => i < Len(stack[t]))
  <2>1. SUFFICES ASSUME NEW u \in Thread, NEW i \in 1..Len(stack'[u])
                 PROVE  \/ u = t /\ i = Len(stack[t]) /\ stack'[u][i] = b
                        \/ i \in 1..Len(stack[u]) /\ stack'[u][i] \notin Middle /\ (u = t => i < Len(stack[t]))
    OBVIOUS
  <2>2. i \in 1..Len(stack[u])
    BY <1>1 DEF Moved
  <2>3. CASE u # t
    BY <1>1, <1>5, <2>2, <2>3, KindsOfFrames DEF Moved
  <2>4. CASE u = t /\ i = Len(stack[t])
    BY <1>1, <2>4 DEF Moved
  <2>5. CASE u = t /\ i # Len(stack[t])
    <3>1. i \in 1..(Len(stack[t]) - 1)
      BY <1>6, <2>2, <2>5
    <3>. QED
      BY <1>1, <1>3, <1>4, <2>2, <2>5, <3>1 DEF Moved
  <2>. QED
    BY <2>3, <2>4, <2>5
<1>9. On(Resets)' /\ ~On(Paying)'
  <2>1. Len(stack'[t]) = Len(stack[t]) /\ Len(stack[t]) \in 1..Len(stack[t]) /\ stack'[t][Len(stack[t])] = b
    BY <1>1, <1>3 DEF Moved
  <2>2. On(Resets)'
    BY <2>1 DEF On
  <2>3. ~On(Paying)'
    BY <1>0, <1>8, KindsOfFrames DEF On
  <2>. QED
    BY <2>2, <2>3
<1>10. Nested'
  <2>1. SUFFICES ASSUME NEW u \in Thread, NEW i \in 1..Len(stack'[u]), NEW j \in 1..Len(stack'[u]),
                        i < j, stack'[u][j] \in Resets
                 PROVE  stack'[u][i] \notin Middle
    BY DEF Nested
  <2>2. u = t /\ j = Len(stack[t])
    BY <1>8, <2>1, KindsOfFrames
  <2>. QED
    BY <1>3, <1>8, <2>1, <2>2
<1>11. f_prevcount > 0
  <2>3. a \in Paying \/ a = "write dup"
    BY DEF Payers
  <2>1. CASE a \in Paying
    <3>1. On(Paying)
      BY <1>1, <1>3, <2>1 DEF Moved, On
    <3>. QED
      BY <3>1 DEF Books, Amount, Saved
  <2>2. CASE a = "write dup"
    <3>1. f_prevcount # 0
      BY <1>2, <2>2 DEF Tearing
    <3>. QED
      BY <1>2, <3>1 DEF Typed, Destination
  <2>. QED
    BY <2>1, <2>2, <2>3
<1>12. Saved /\ Base \notin {"save", "write new", "reset new", "read"}
  <2>1. Saved
    BY <1>11 DEF Books, Amount, Saved
  <2>2. ~(f_prevcount = 0)
    BY <1>11
  <2>. QED
    BY <2>1, <2>2 DEF Books, Amount, Saved
<1>13. Logged \in Seq(Entry) /\ Logged # << >> /\ Last(Logged) = Prev
  BY <1>0, <1>12 DEF Books, Known, Saved
<1>14. /\ Prev \in Entry /\ f_prevcount \in Nat \ {0}
       /\ Held \in Seq(Entry) /\ Len(Held) = f_prevcount /\ \A i \in 1..f_prevcount : Held[i] = Prev
       /\ Text(Empty).line = Prev.line /\ Text(Empty).host = Prev.host /\ Text(Empty).n = f_prevcount
  <2>1. f_prevcount \in Nat \ {0}
    BY <1>11 DEF Typed, Destination
  <2>2. Held \in Seq(Entry) /\ Len(Held) = f_prevcount /\ \A i \in 1..f_prevcount : Held[i] = Prev
    BY <1>2, HeldIs
  <2>3. Text(Empty) = [line |-> f_prevline, host |-> f_prevhost, n |-> IF f_prevcount > 1 THEN f_prevcount ELSE 1]
    BY DEF Text
  <2>4. (IF f_prevcount > 1 THEN f_prevcount ELSE 1) = f_prevcount
    BY <2>1
  <2>. QED
    BY <2>1, <2>2, <2>3, <2>4, PrevIs DEF Prev
<1>15. Logged' = Logged \o Held /\ Logged' \in Seq(Entry) /\ Logged' # << >> /\ Last(Logged') = Prev
  <2>1. out \in Seq(Said) /\ Text(Empty) \in Said
    BY TextIs DEF Typed, Lines
  <2>2. Logged' = Expand(Logged, Text(Empty))
    BY <1>2, <2>1, LoggedAppend
  <2>. DEFINE e == Text(Empty)
  <2>. HIDE DEF e
  <2>3. e.line = Last(Logged).line /\ e.host = Last(Logged).host /\ e.n = Len(Held)
    BY <1>13, <1>14 DEF e
  <2>5. /\ Last(Logged) \in Entry /\ Held \in Seq(Entry) /\ Len(Held) > 0
        /\ \A i \in 1..Len(Held) : Held[i] = Last(Logged)
    BY <1>13, <1>14
  <2>4. /\ Expand(Logged, e) = Logged \o Held
        /\ Logged \o Held \in Seq(Entry) /\ Logged \o Held # << >> /\ Last(Logged \o Held) = Last(Logged)
    BY <1>13, <2>3, <2>5, Repeated
  <2>. QED
    BY <1>13, <2>2, <2>4 DEF e
<1>16. Amount'
  BY <1>0, <1>2, <1>9, <1>12 DEF Amount, Pair, Saved
<1>17. InWork'
  <2>1. Base' \in InHand => Base \in InHand
    BY DEF Pair
  <2>2. Base' # "write new"
    BY <1>0, <1>12 DEF Pair
  <2>. QED
    BY <1>2, <2>1, <2>2 DEF InWork, Books
<1>18. Known'
  <2>1. Prev' = Prev
    BY <1>2 DEF Prev
  <2>. QED
    BY <1>15, <2>1 DEF Known, Saved
<1>19. Balance'
  <2>1. Base' # "exited" /\ Extra' = Extra
    BY <1>0, <1>2 DEF Extra, Pair
  <2>2. Rest = Held /\ Rest' = << >>
    BY <1>7, <1>9 DEF Rest
  <2>3. Logged \o Held = complete \o Extra
    BY <1>0, <2>2 DEF Books, Balance
  <2>4. Logged' \o << >> = Logged'
    BY <1>15, Nothing
  <2>. QED
    BY <1>2, <1>15, <2>1, <2>2, <2>3, <2>4 DEF Balance
<1>. QED
  BY <1>10, <1>16, <1>17, <1>18, <1>19 DEF Books

(* domark's reset: what it wrote is not held back any more.                 *)
LEMMA BooksMarked ==
    ASSUME Shape, Typed, Counts, Alone, Books, Sound, NEW t \in Thread, NEW a \in MarkFrame,
           a \in Resets, At(t, a), Return(t),
           Reset, ResetFrame, UNCHANGED complete
    PROVE  Books'
<1>1. a \in HandlerFrame /\ a \in Resets /\ a # "idle"
  BY DEF HandlerFrame, MarkFrame, Resets
<1>2. Popped(t, a) /\ Base' = Base
  BY <1>1, HandlerReturn
<1>3. UNCHANGED <<out, f_prevline, f_prevhost, long, cur, complete, f_type>>
  BY ResetFrameKeeps
<1>4. f_prevcount' = 0
  <2>1. f_type # "unkn"
    BY DEF Counts, Sound
  <2>. QED
    BY <2>1 DEF Reset
<1>15. Stacks
  BY DEF Shape
<1>5. Len(stack[t]) \in Nat /\ Len(stack[t]) > 0 /\ Len(stack'[t]) = Len(stack[t]) - 1
  BY <1>2, <1>15 DEF Popped, Stacks
<1>6. \A i \in 1..(Len(stack[t]) - 1) : stack[t][i] \notin Middle
  <2>1. SUFFICES ASSUME NEW i \in 1..(Len(stack[t]) - 1) PROVE stack[t][i] \notin Middle
    OBVIOUS
  <2>2. i \in 1..Len(stack[t]) /\ Len(stack[t]) \in 1..Len(stack[t]) /\ i < Len(stack[t])
    BY <1>5
  <2>. QED
    BY <1>1, <1>2, <2>2 DEF Popped, Books, Nested
<1>7. \A u \in Thread : \A i \in 1..Len(stack'[u]) : stack'[u][i] \notin Middle
  <2>1. \A u \in Thread : u # t => \A i \in 1..Len(stack[u]) : stack[u][i] = "idle"
    BY <1>1, OtherIdle DEF Sound
  <2>. QED
    BY <1>2, <1>5, <1>6, <2>1, KindsOfFrames DEF Popped
<1>8. ~On(Resets)' /\ ~On(Paying)' /\ Nested'
  BY <1>7, KindsOfFrames DEF On, Nested
<1>9. On(Resets)
  <2>1. Len(stack[t]) \in 1..Len(stack[t])
    BY <1>5
  <2>. QED
    BY <1>1, <1>2, <2>1 DEF On, Popped
<1>10. Amount'
  BY <1>4, <1>8 DEF Amount, Saved
<1>11. InWork'
  BY <1>2, <1>3 DEF InWork, Books
<1>12. Logged' = Logged /\ Prev' = Prev /\ Extra' = Extra
  BY <1>2, <1>3, LoggedKept DEF Prev, Extra
<1>13. Known'
  BY <1>2, <1>3, <1>12 DEF Known, Books, Saved
<1>14. Balance'
  <2>1. Rest = << >> /\ Rest' = << >>
    BY <1>4, <1>9, HeldNone DEF Rest
  <2>. QED
    BY <1>2, <1>3, <1>12, <2>1 DEF Balance, Books
<1>. QED
  BY <1>8, <1>10, <1>11, <1>13, <1>14 DEF Books

LEMMA Busy ==
    ASSUME Alone, ~raced, NEW a \in BaseFrame \ {"idle"}, At("main", a)
    PROVE  stack["watch"] = << >>
<1>1. ~Idle
  BY DEF At, Last, Idle
<1>. QED
  BY <1>1 DEF Alone

LEMMA NestedMoved ==
    ASSUME Stacks, Nested, NEW t \in Thread, NEW a, NEW b, b \notin Resets, Moved(t, a, b)
    PROVE  Nested'
<1>1. SUFFICES ASSUME NEW u \in Thread, NEW i \in 1..Len(stack'[u]), NEW j \in 1..Len(stack'[u]),
                      i < j, stack'[u][j] \in Resets
               PROVE  stack'[u][i] \notin Middle
  BY DEF Nested
<1>2. i \in 1..Len(stack[u]) /\ j \in 1..Len(stack[u]) /\ Len(stack[u]) \in Nat
  BY DEF Moved, Stacks
<1>3. ~(u = t /\ j = Len(stack[t]))
  BY <1>1 DEF Moved
<1>4. ~(u = t /\ i = Len(stack[t]))
  BY <1>1, <1>2
<1>. QED
  BY <1>1, <1>2, <1>3, <1>4 DEF Moved, Nested

LEMMA NestedPopped ==
    ASSUME Stacks, Nested, NEW t \in Thread, NEW a, Popped(t, a)
    PROVE  Nested'
<1>1. SUFFICES ASSUME NEW u \in Thread, NEW i \in 1..Len(stack'[u]), NEW j \in 1..Len(stack'[u]),
                      i < j, stack'[u][j] \in Resets
               PROVE  stack'[u][i] \notin Middle
  BY DEF Nested
<1>2. Len(stack[t]) \in Nat
  BY DEF Stacks
<1>3. /\ i \in 1..Len(stack[u]) /\ j \in 1..Len(stack[u])
      /\ stack'[u][i] = stack[u][i] /\ stack'[u][j] = stack[u][j]
  <2>1. CASE u # t
    BY <2>1 DEF Popped
  <2>2. CASE u = t
    <3>1. i \in 1..(Len(stack[t]) - 1) /\ j \in 1..(Len(stack[t]) - 1)
      BY <2>2 DEF Popped
    <3>. QED
      BY <1>2, <2>2, <3>1 DEF Popped
  <2>. QED
    BY <2>1, <2>2
<1>. QED
  BY <1>1, <1>3 DEF Nested

LEMMA NestedPushed ==
    ASSUME Stacks, Nested, NEW t \in Thread, NEW b, b \notin Resets, Pushed(t, b)
    PROVE  Nested'
<1>1. SUFFICES ASSUME NEW u \in Thread, NEW i \in 1..Len(stack'[u]), NEW j \in 1..Len(stack'[u]),
                      i < j, stack'[u][j] \in Resets
               PROVE  stack'[u][i] \notin Middle
  BY DEF Nested
<1>2. Len(stack[t]) \in Nat
  BY DEF Stacks
<1>3. /\ i \in 1..Len(stack[u]) /\ j \in 1..Len(stack[u])
      /\ stack'[u][i] = stack[u][i] /\ stack'[u][j] = stack[u][j]
  <2>1. CASE u # t
    BY <2>1 DEF Pushed
  <2>2. CASE u = t
    <3>1. j # Len(stack[t]) + 1
      BY <1>1, <2>2 DEF Pushed
    <3>2. i \in 1..Len(stack[t]) /\ j \in 1..Len(stack[t])
      BY <1>1, <1>2, <2>2, <3>1 DEF Pushed
    <3>. QED
      BY <2>2, <3>2 DEF Pushed
  <2>. QED
    BY <2>1, <2>2
<1>. QED
  BY <1>1, <1>3 DEF Nested

(* A step that works on no line and writes nothing.                         *)
LEMMA BooksStill ==
    ASSUME Books, UNCHANGED <<out, f_prevcount, f_prevline, f_prevhost, long, complete, cur>>,
           Base' = Base,
           Nested', On(Resets)' <=> On(Resets), On(Paying)' => On(Paying) \/ f_prevcount > 0
    PROVE  Books'
<1>1. Logged' = Logged /\ Held' = Held /\ Prev' = Prev
  BY LoggedKept, HeldSame
<1>2. Rest' = Rest /\ Extra' = Extra
  BY <1>1 DEF Rest, Extra
<1>3. Amount'
  BY DEF Books, Amount, Saved
<1>4. InWork'
  BY DEF Books, InWork
<1>5. Known'
  BY <1>1 DEF Books, Known, Saved
<1>6. Balance'
  BY <1>1, <1>2 DEF Books, Balance
<1>. QED
  BY <1>3, <1>4, <1>5, <1>6 DEF Books

(* logmsg or init goes on, and has neither written nor taken over a line.   *)
Onward(a, b) ==
    /\ a \notin Resets \cup {"write dup", "reset new", "write new", "exited"}
    /\ b \notin Resets \cup {"hold", "reset new", "write new", "exited"}
    /\ a = "hold" <=> b = "write dup"
    /\ b \in {"save", "read"} => f_prevcount = 0
    /\ b \in Paying => f_prevcount > 0
    /\ b \in InHand => cur'.line \in Line /\ cur'.host \in Host

LEMMA BooksOnward ==
    ASSUME Shape, Books, stack["watch"] = << >>, NEW a \in BaseFrame, NEW b \in BaseFrame,
           At("main", a), Goto("main", b), Onward(a, b),
           UNCHANGED <<out, f_prevcount, f_prevline, f_prevhost, long, complete>>,
             a \in InHand => UNCHANGED cur
    PROVE  Books'
<1>1. Base = a /\ Base' = b /\ Nested'
  BY BaseAlone
<1>2. (On(Resets) <=> a \in Resets) /\ (On(Resets)' <=> b \in Resets)
  BY BaseAlone
<1>3. On(Paying)' <=> b \in Paying
  BY BaseAlone
<1>4. /\ a \notin Resets /\ b \notin Resets
      /\ a \notin {"write new", "exited"} /\ b \notin {"write new", "exited", "reset new"}
  BY DEF Onward, Resets
<1>5. Logged' = Logged /\ Held' = Held /\ Prev' = Prev
  BY LoggedKept, HeldSame
<1>6. Rest' = Rest /\ Extra' = Extra
  <2>1. b \in {"hold", "write dup", "reset dup", "reset new"} <=> a \in {"hold", "write dup", "reset dup", "reset new"}
    BY DEF Onward, Resets
  <2>. QED
    BY <1>1, <1>2, <1>4, <1>5, <2>1 DEF Rest, Extra, InHand
<1>7. Amount'
  BY <1>1, <1>3, <1>4 DEF Books, Amount, Onward, Saved
<1>8. InWork'
  BY <1>1, <1>4 DEF InWork, Onward
<1>9. Known'
  BY <1>1, <1>4, <1>5 DEF Books, Known, Saved
<1>10. Balance'
  BY <1>1, <1>4, <1>5, <1>6 DEF Books, Balance
<1>. QED
  BY <1>1, <1>7, <1>8, <1>9, <1>10 DEF Books

LEMMA AmountNone ==
    ASSUME f_prevcount' = 0, ~On(Paying)'
    PROVE  Amount'
<1>1. f_prevcount' >= 0 /\ ~(f_prevcount' > 0)
  OBVIOUS
<1>. QED
  BY <1>1 DEF Amount, Saved

(* The line in hand is counted, held back with those before it.             *)
LEMMA BooksCounted ==
    ASSUME Shape, Typed, Counts, Alone, Sound, Sound', Books, Compare, Duplicate
    PROVE  Books'
<1>. DEFINE a == "compare"
            b == "hold"
<1>1. a \in BaseFrame \ {"idle"} /\ b \in BaseFrame /\ a \in InHand
      /\ a \notin Resets /\ b \notin Resets /\ b \notin Paying
      /\ a \notin {"hold", "write dup", "reset dup", "reset new", "exited", "write new"}
      /\ b \notin {"save", "write new", "reset new", "read", "exited"}
      /\ b \in {"hold", "write dup", "reset dup", "reset new"}
  BY DEF BaseFrame, InHand, Resets, Paying
<1>2. /\ At("main", a) /\ Goto("main", b) /\ f_prevcount' = f_prevcount + 1
      /\ UNCHANGED <<out, f_prevline, f_prevhost, long, cur, complete>>
  BY ResetFrameKeeps DEF Compare
<1>. HIDE DEF a, b
<1>3. stack["watch"] = << >>
  BY <1>1, <1>2, Busy DEF Sound
<1>4. Base = a /\ Base' = b /\ Nested'
  BY <1>1, <1>2, <1>3, BaseAlone
<1>5. (On(Resets) <=> a \in Resets) /\ (On(Resets)' <=> b \in Resets)
  BY <1>1, <1>2, <1>3, BaseAlone
<1>6. On(Paying)' <=> b \in Paying
  BY <1>1, <1>2, <1>3, BaseAlone
<1>7. cur \in Entry /\ cur.line \in Line /\ cur.host \in Host /\ complete \in Seq(Entry)
  <2>1. cur.line \in Line /\ cur.host \in Host
    BY <1>1, <1>4 DEF Books, InWork
  <2>. QED
    BY <2>1, RepeatAssumption DEF Typed, Lines
<1>8. Prev = cur
  BY <1>7, EntryIs DEF Duplicate, Prev
<1>9. f_prevcount >= 0 /\ f_prevcount \in Int
  BY DEF Books, Amount, Typed, Destination, Saved
<1>10. f_prevcount' >= 0
  BY <1>2, <1>9
<1>11. Amount'
  <2>1. Saved
    <3>1. mistaken' = (mistaken \/ (Duplicate /\ long)) /\ ~mistaken'
      BY DEF Compare, Sound
    <3>2. ~long
      BY <3>1
    <3>3. f_prevhost # Empty
      BY <1>7, RepeatAssumption DEF Duplicate, Host
    <3>. QED
      BY <3>2, <3>3 DEF Saved
  <2>2. Saved'
    BY <1>2, <2>1 DEF Saved
  <2>. QED
    BY <1>1, <1>2, <1>4, <1>6, <1>10, <2>2 DEF Amount
<1>12. InWork'
  BY <1>1, <1>2, <1>4, <1>7 DEF InWork
<1>13. Logged' = Logged /\ Prev' = Prev /\ Logged \in Seq(Entry)
  BY <1>2, LoggedKept DEF Prev, Books, Known, Saved
<1>14. Known'
  BY <1>1, <1>2, <1>4, <1>13 DEF Books, Known, Saved
<1>15. Balance'
  <2>1. Held \in Seq(Entry) /\ Held' = Append(Held, cur)
    BY <1>2, <1>8, <1>9, HeldIs, HeldMore
  <2>2. Rest = Held /\ Rest' = Append(Held, cur) /\ Extra = << >> /\ Extra' = <<cur>>
    BY <1>1, <1>2, <1>4, <1>5, <2>1 DEF Rest, Extra
  <2>3. Logged \o Held = complete \o << >>
    BY <1>1, <1>4, <2>2 DEF Books, Balance
  <2>4. complete \o << >> = complete
    BY <1>7, Nothing
  <2>5. Logged \o Append(Held, cur) = Append(complete, cur) /\ Append(complete, cur) = complete \o <<cur>>
    BY <1>7, <1>13, <2>1, <2>3, <2>4, OneMore
  <2>. QED
    BY <1>1, <1>2, <1>4, <1>13, <2>2, <2>5 DEF Balance
<1>. QED
  BY <1>4, <1>11, <1>12, <1>14, <1>15 DEF Books

(* logmsg returns, or goes on after a reset: nothing written is held back.  *)
Ending(a, b) ==
    /\ b \in {"idle", "save", "read"}
    /\ \/ a = "hold" /\ f_prevcount' = f_prevcount
       \/ a \in {"reset dup", "reset old", "reset new", "reset init"} /\ f_prevcount' = 0
    /\ b = "idle" <=> a \in {"hold", "reset dup", "reset new"}
    /\ b = "save" <=> a = "reset old"
    /\ complete' = IF b = "idle" THEN Append(complete, cur) ELSE complete

LEMMA BooksEnding ==
    ASSUME Shape, Typed, Books, stack["watch"] = << >>, NEW a \in BaseFrame, NEW b \in BaseFrame,
           At("main", a), Goto("main", b), Ending(a, b),
           UNCHANGED <<out, f_prevline, f_prevhost, long, cur>>
    PROVE  Books'
<1>1. Base = a /\ Base' = b /\ Nested'
  BY BaseAlone
<1>2. (On(Resets) <=> a \in Resets) /\ (On(Resets)' <=> b \in Resets)
  BY BaseAlone
<1>3. On(Paying)' <=> b \in Paying
  BY BaseAlone
<1>4. /\ b \notin Resets /\ b \notin Paying
      /\ a \notin {"write new", "exited"} /\ b \notin {"write new", "exited", "reset new"}
      /\ b \notin {"hold", "write dup", "reset dup", "reset new"}
      /\ b \in InHand => a \in InHand
  <2>1. b \notin Resets /\ b \notin Paying /\ b \notin {"write new", "exited", "reset new"}
        /\ b \notin {"hold", "write dup", "reset dup", "reset new"}
    BY DEF Ending, Resets, Paying
  <2>2. a \notin {"write new", "exited"}
    BY DEF Ending
  <2>3. b \in InHand => a \in InHand
    BY DEF Ending, InHand
  <2>. QED
    BY <2>1, <2>2, <2>3
<1>5. Logged' = Logged /\ Prev' = Prev /\ Logged \in Seq(Entry)
  BY LoggedKept DEF Prev, Books, Known, Saved
<1>6. Amount'
  <2>1. CASE a = "hold" /\ f_prevcount' = f_prevcount
    <3>1. b = "idle"
      BY <2>1 DEF Ending
    <3>. QED
      BY <1>1, <1>3, <1>4, <2>1, <3>1 DEF Books, Amount, Saved
  <2>2. CASE f_prevcount' = 0
    BY <1>3, <1>4, <2>2, AmountNone
  <2>. QED
    BY <2>1, <2>2 DEF Ending
<1>7. InWork'
  BY <1>1, <1>4 DEF Books, InWork
<1>8. Known'
  BY <1>1, <1>4, <1>5 DEF Books, Known, Saved
<1>9. Rest' = Rest
  <2>1. CASE a = "hold" /\ f_prevcount' = f_prevcount
    <3>1. a \notin Resets
      BY <2>1 DEF Resets
    <3>. QED
      BY <1>2, <1>4, <2>1, <3>1, HeldSame DEF Rest
  <2>2. CASE a = "reset new" /\ f_prevcount' = 0
    <3>1. f_prevcount = 0
      BY <1>1, <2>2 DEF Books, Amount, Saved
    <3>. QED
      BY <2>2, <3>1, HeldNone DEF Rest
  <2>3. CASE a \in Resets /\ f_prevcount' = 0
    BY <1>2, <2>3, HeldNone DEF Rest
  <2>. QED
    BY <2>1, <2>2, <2>3 DEF Ending, Resets
<1>10. complete' \o Extra' = complete \o Extra
  <2>1. complete \in Seq(Entry) /\ cur \in Entry
    BY DEF Typed, Lines
  <2>2. Extra' = << >>
    BY <1>1, <1>4 DEF Extra
  <2>3. CASE b = "idle"
    <3>1. Extra = <<cur>> /\ complete' = Append(complete, cur)
      BY <1>1, <2>3 DEF Extra, Ending
    <3>2. Append(complete, cur) \in Seq(Entry) /\ Append(complete, cur) = complete \o <<cur>>
      BY <2>1, Single, OneMore
    <3>. QED
      BY <2>2, <3>1, <3>2, Nothing
  <2>4. CASE b # "idle"
    <3>1. Extra = << >> /\ complete' = complete
      BY <1>1, <2>4 DEF Extra, Ending
    <3>. QED
      BY <2>2, <3>1
  <2>. QED
    BY <2>3, <2>4
<1>11. Balance'
  <2>1. Logged \o Rest = complete \o Extra
    BY <1>1, <1>4 DEF Books, Balance
  <2>. QED
    BY <1>1, <1>4, <1>5, <1>9, <1>10, <2>1 DEF Balance
<1>. QED
  BY <1>1, <1>6, <1>7, <1>8, <1>11 DEF Books

(* A new line is remembered, with nothing held back of the one before.      *)
LEMMA BooksSaved ==
    ASSUME Shape, Typed, Alone, Sound, Books, Save
    PROVE  Books'
<1>. DEFINE a == "save"
            b == "write new"
<1>1. a \in BaseFrame \ {"idle"} /\ b \in BaseFrame /\ a \in InHand /\ b = "write new" /\ a = "save"
      /\ a \notin Resets /\ b \notin Resets /\ b \notin Paying
      /\ a \notin {"hold", "write dup", "reset dup", "reset new", "exited", "write new"}
      /\ b \notin {"hold", "write dup", "reset dup", "reset new", "exited"}
  BY DEF BaseFrame, InHand, Resets, Paying
<1>2. /\ At("main", a) /\ Goto("main", b)
      /\ UNCHANGED <<out, f_prevcount, cur, complete>>
      /\ f_prevline' = (IF cur.line \in LongLine THEN Empty ELSE cur.line) /\ f_prevhost' = cur.host
      /\ long' = (cur.line \in LongLine)
  BY DEF Save, SaveHost
<1>. HIDE DEF a, b
<1>3. stack["watch"] = << >>
  BY <1>1, <1>2, Busy DEF Sound
<1>4. Base = a /\ Base' = b /\ Nested'
  BY <1>1, <1>2, <1>3, BaseAlone
<1>6. On(Paying)' <=> b \in Paying
  BY <1>1, <1>2, <1>3, BaseAlone
<1>7. f_prevcount = 0
  BY <1>1, <1>4 DEF Books, Amount, Saved
<1>8. Amount'
  BY <1>1, <1>2, <1>6, <1>7, AmountNone
<1>9. InWork'
  BY <1>1, <1>2, <1>4 DEF InWork, Books
<1>10. Logged' = Logged /\ Logged \in Seq(Entry)
  BY <1>2, LoggedKept DEF Books, Known, Saved
<1>11. Known'
  BY <1>1, <1>4, <1>10 DEF Known, Saved
<1>12. Balance'
  <2>1. Rest = << >> /\ Rest' = << >>
    BY <1>2, <1>7, HeldNone DEF Rest
  <2>2. Extra' = Extra
    BY <1>1, <1>4 DEF Extra
  <2>. QED
    BY <1>1, <1>2, <1>4, <1>10, <2>1, <2>2 DEF Books, Balance
<1>. QED
  BY <1>4, <1>8, <1>9, <1>11, <1>12 DEF Books

(* It is written.                                                           *)
LEMMA BooksWritten ==
    ASSUME Shape, Typed, Counts, Alone, Sound, Books, WriteNew, Sound'
    PROVE  Books'
<1>. DEFINE a == "write new"
            b == "reset new"
            msg == IF cur.line \in LongLine THEN cur.line ELSE Empty
<1>1. a \in BaseFrame \ {"idle"} /\ b \in BaseFrame /\ a \in InHand /\ a = "write new" /\ b = "reset new"
      /\ a \notin Resets /\ b \notin Resets /\ b \notin Paying
      /\ a \notin {"hold", "write dup", "reset dup", "reset new", "exited"}
      /\ b \notin {"save", "exited", "write new"} /\ b \in {"hold", "write dup", "reset dup", "reset new"}
  BY DEF BaseFrame, InHand, Resets, Paying
<1>2. At("main", a) /\ Goto("main", b) /\ Write("main", cur.host, msg, b) /\ msg \in Line \cup {Empty}
  BY MessagesTyped, WriteGoes DEF WriteNew
<1>3. cur \in Entry /\ complete \in Seq(Entry) /\ out \in Seq(Said)
  BY DEF Typed, Lines
<1>. HIDE DEF a, b, msg
<1>4. stack["watch"] = << >>
  BY <1>1, <1>2, Busy DEF Sound
<1>5. Base = a /\ Base' = b /\ Nested'
  BY <1>1, <1>2, <1>4, BaseAlone
<1>6. On(Paying)' <=> b \in Paying
  BY <1>1, <1>2, <1>4, BaseAlone
<1>7. /\ out' = Append(out, Text(msg))
      /\ UNCHANGED <<f_prevcount, f_prevline, f_prevhost, long, complete, cur>>
  BY <1>2, Whole
<1>8. f_prevcount = 0 /\ cur.line \in Line /\ cur.host \in Host
      /\ f_prevhost = cur.host /\ f_prevline = (IF cur.line \in LongLine THEN Empty ELSE cur.line)
      /\ (long <=> cur.line \in LongLine)
  BY <1>1, <1>5 DEF Books, Amount, InWork, Saved
<1>9. Text(msg) = [line |-> cur.line, n |-> 1, host |-> cur.host]
  <2>1. CASE cur.line \in LongLine
    BY <1>8, <2>1, RepeatAssumption DEF Text, msg
  <2>2. CASE cur.line \notin LongLine
    <3>1. ~(f_prevcount > 1) /\ msg = Empty
      BY <1>8, <2>2 DEF msg
    <3>. QED
      BY <1>8, <2>2, <3>1 DEF Text
  <2>. QED
    BY <2>1, <2>2
<1>10. Logged \in Seq(Entry) /\ Logged' = Append(Logged, cur)
  <2>1. Text(msg) \in Said
    BY <1>2, TextIs
  <2>2. Logged' = Expand(Logged, Text(msg))
    BY <1>3, <1>7, <2>1, LoggedAppend
  <2>3. Expand(Logged, Text(msg)) = Append(Logged, cur)
    BY <1>3, <1>9, EntryIs DEF Expand
  <2>. QED
    BY <2>2, <2>3 DEF Books, Known, Saved
<1>11. Logged' \in Seq(Entry) /\ Logged' # << >> /\ Last(Logged') = cur
  BY <1>3, <1>10, Single
<1>12. Amount'
  BY <1>1, <1>6, <1>7, <1>8, AmountNone
<1>13. InWork'
  BY <1>1, <1>5, <1>7, <1>8 DEF InWork
<1>14. Known'
  <2>1. ASSUME Saved PROVE Prev' = cur
    BY <1>3, <1>7, <1>8, <2>1, EntryIs DEF Prev, Saved
  <2>. QED
    BY <1>7, <1>11, <2>1 DEF Known, Saved
<1>15. Balance'
  <2>1. Rest = << >> /\ Rest' = << >>
    BY <1>7, <1>8, HeldNone DEF Rest
  <2>2. Extra = << >> /\ Extra' = <<cur>>
    BY <1>1, <1>5, <1>7 DEF Extra
  <2>3. Logged \o << >> = complete \o << >>
    BY <1>1, <1>5, <2>1, <2>2 DEF Books, Balance
  <2>4. Logged = complete
    BY <1>3, <1>10, <2>3, Nothing
  <2>5. Logged' \o << >> = complete \o <<cur>>
    BY <1>3, <1>10, <1>11, <2>4, Nothing, OneMore
  <2>. QED
    BY <1>1, <1>5, <1>7, <2>1, <2>2, <2>5 DEF Balance
<1>. QED
  BY <1>5, <1>12, <1>13, <1>14, <1>15 DEF Books

(* The table is read anew: f starts empty.                                  *)
LEMMA BooksRead ==
    ASSUME Shape, Typed, Alone, Sound, Books, Read, Sound'
    PROVE  Books'
<1>. DEFINE a == "read"
            b == "idle"
<1>1. a \in BaseFrame \ {"idle"} /\ b \in BaseFrame /\ a = "read" /\ b \notin InHand
      /\ a \notin Resets /\ b \notin Resets /\ b \notin Paying
      /\ a \notin {"hold", "write dup", "reset dup", "reset new", "exited"}
      /\ b \notin {"hold", "write dup", "reset dup", "reset new", "exited", "write new", "save", "read"}
  BY DEF BaseFrame, InHand, Resets, Paying
<1>2. /\ At("main", a) /\ Goto("main", b) /\ f_prevhost' = Empty /\ f_prevcount' = 0
      /\ UNCHANGED <<out, complete, cur>>
  BY DEF Read, Sound, Counter
<1>. HIDE DEF a, b
<1>3. stack["watch"] = << >>
  BY <1>1, <1>2, Busy DEF Sound
<1>4. Base = a /\ Base' = b /\ Nested'
  BY <1>1, <1>2, <1>3, BaseAlone
<1>5. On(Paying)' <=> b \in Paying
  BY <1>1, <1>2, <1>3, BaseAlone
<1>6. f_prevcount = 0
  BY <1>1, <1>4 DEF Books, Amount, Saved
<1>7. Logged' = Logged /\ Logged \in Seq(Entry)
  BY <1>2, LoggedKept DEF Books, Known, Saved
<1>8. Amount'
  BY <1>1, <1>2, <1>5, AmountNone
<1>9. InWork'
  BY <1>1, <1>4 DEF InWork
<1>10. Known'
  BY <1>2, <1>7 DEF Known, Saved
<1>11. Balance'
  <2>1. Rest = << >> /\ Rest' = << >> /\ Extra = << >> /\ Extra' = << >>
    BY <1>1, <1>2, <1>4, <1>6, HeldNone DEF Rest, Extra
  <2>. QED
    BY <1>1, <1>2, <1>4, <1>7, <2>1 DEF Books, Balance
<1>. QED
  BY <1>4, <1>8, <1>9, <1>10, <1>11 DEF Books

(* die: the account is settled.                                             *)
LEMMA BooksSettled ==
    ASSUME Typed, Books, Rest = << >>, Base # "exited", Exit, f_prevcount' = 0,
           UNCHANGED <<out, complete, cur>>
    PROVE  Books'
<1>1. stack'["main"] = <<"exited">> /\ stack'["watch"] = << >>
  BY DEF Exit
<1>2. \A u \in Thread : \A i \in 1..Len(stack'[u]) : i = 1 /\ stack'[u][i] = "exited"
  BY <1>1, Labels
<1>3. "exited" \notin Paying /\ "exited" \notin InHand /\ Base' = "exited"
  BY <1>1 DEF Paying, InHand, Base
<1>4. Nested' /\ ~On(Paying)'
  BY <1>2, <1>3 DEF Nested, On
<1>5. Logged' = Logged /\ Logged \in Seq(Entry) /\ complete \in Seq(Entry) /\ cur \in Entry
  BY LoggedKept DEF Books, Known, Typed, Lines, Saved
<1>6. Logged \in {complete, Append(complete, cur)}
  <2>1. Logged \o << >> = complete \o Extra /\ (Extra = << >> \/ Extra = <<cur>>)
    BY DEF Books, Balance, Extra
  <2>. QED
    BY <1>5, <2>1, Nothing, OneMore
<1>7. Amount'
  BY <1>3, <1>4 DEF Amount, Saved
<1>8. InWork' /\ Known' /\ Balance'
  BY <1>3, <1>5, <1>6 DEF InWork, Known, Balance, Saved
<1>. QED
  BY <1>4, <1>7, <1>8 DEF Books

LEMMA AccountInit == Init => Account
<1>1. SUFFICES ASSUME Init, Sound PROVE Books
  BY DEF Account
<1>2. /\ stack["main"] = <<"idle">> /\ stack["watch"] = << >> /\ out = << >> /\ complete = << >>
      /\ f_prevhost = Empty
  BY <1>1 DEF Init
<1>3. \A u \in Thread : \A i \in 1..Len(stack[u]) : i = 1 /\ stack[u][i] = "idle"
  <2>1. stack["main"] = <<"idle">> /\ stack["watch"] = << >>
    BY <1>2
  <2>2. \A i \in 1..Len(stack["main"]) : i = 1 /\ stack["main"][i] = "idle"
    BY <2>1
  <2>3. \A i \in 1..Len(stack["watch"]) : FALSE
    BY <2>1
  <2>. QED
    BY <2>2, <2>3, Labels
<1>4. f_prevcount = 0
  BY <1>1 DEF Init, Sound, Counter
<1>5. Base = "idle" /\ "idle" \notin InHand /\ "idle" \notin Paying /\ "idle" \notin Resets
  BY <1>2 DEF Base, InHand, Paying, Resets
<1>6. Nested /\ ~On(Paying) /\ ~On(Resets)
  BY <1>3, <1>5 DEF Nested, On
<1>7. Amount
  <2>1. f_prevcount >= 0 /\ ~(f_prevcount > 0)
    BY <1>4
  <2>. QED
    BY <1>4, <1>6, <2>1 DEF Amount, Saved
<1>8. InWork
  BY <1>5 DEF InWork
<1>9. Logged = << >> /\ << >> \in Seq(Entry) /\ << >> \o << >> = << >>
  BY <1>2, LoggedKept, Nothing
<1>10. Known
  BY <1>2, <1>9 DEF Known, Saved
<1>11. Balance
  <2>1. Rest = << >> /\ Extra = << >>
    BY <1>4, <1>5, HeldNone DEF Rest, Extra
  <2>. QED
    BY <1>2, <1>5, <1>9, <2>1 DEF Balance
<1>. QED
  BY <1>6, <1>7, <1>8, <1>10, <1>11 DEF Books

(* What a handler does before and after its write.                          *)
LEMMA BooksHandled ==
    ASSUME Shape, Typed, Books, NEW t \in Thread, NEW a \in HandlerFrame, NEW b \in HandlerFrame,
           a \notin Resets, b \notin Resets, b \in Paying => f_prevcount > 0,
           (At(t, a) /\ (Goto(t, b) \/ Return(t))) \/ Catch(t, b),
           UNCHANGED <<out, f_prevcount, f_prevline, f_prevhost, long, complete, cur>>
    PROVE  Books'
<1>1. Base' = Base /\ (Moved(t, a, b) \/ Popped(t, a) \/ Pushed(t, b))
  BY HandlerGoto, HandlerReturn, HandlerCatch
<1>2. Stacks /\ Nested
  BY DEF Shape, Books
<1>3. Nested'
  BY <1>1, <1>2, NestedMoved, NestedPopped, NestedPushed
<1>4. On(Resets)' <=> On(Resets)
  BY <1>1, <1>2, OnMoved, OnPopped, OnPushed
<1>5. On(Paying)' => On(Paying) \/ b \in Paying
  BY <1>1, <1>2, OnMoved, OnPopped, OnPushed
<1>. QED
  BY <1>1, <1>3, <1>4, <1>5, BooksStill

LEMMA AccountInvariance ==
    ASSUME Shape, Shape', Typed, Counts, Alone, Account, [Next]_vars
    PROVE  Account'
<1>1. SUFFICES ASSUME Sound' PROVE Books'
  BY DEF Account
<1>2. Sound /\ Books /\ ~raced /\ ~raced' /\ ~lossy
  BY <1>1, SoundBefore DEF Account, Sound
<1>3. f_prevcount \in Int /\ f_prevcount >= 0
  BY <1>2 DEF Books, Amount, Typed, Destination, Saved
<1>4. f_prevcount # 0 => f_prevcount > 0
  BY <1>3
<1>5. Idle => At("main", "idle")
  BY DEF At, Last, Idle
<1>6. f_type # "unkn"
  BY <1>2 DEF Counts
<1>7. CASE LogMsg
  <2>. DEFINE a == "idle"
              b == "compare"
  <2>1. a \in BaseFrame /\ b \in BaseFrame /\ a \notin InHand
        /\ a \notin Resets \cup {"write dup", "reset new", "write new", "exited"}
        /\ b \notin Resets \cup {"hold", "reset new", "write new", "exited"}
        /\ a # "hold" /\ b # "write dup" /\ b \notin {"save", "read"} /\ b \notin Paying
    BY DEF BaseFrame, InHand, Resets, Paying
  <2>2. At("main", a) /\ Goto("main", b) /\ cur'.line \in Line /\ cur'.host \in Host
        /\ UNCHANGED <<out, f_prevcount, f_prevline, f_prevhost, long, complete>>
    BY <1>5, <1>7 DEF LogMsg, filed, history
  <2>3. stack["watch"] = << >>
    BY <1>2, <1>7 DEF LogMsg, Begin
  <2>. HIDE DEF a, b
  <2>4. Onward(a, b)
    BY <2>1, <2>2 DEF Onward
  <2>. QED
    BY <1>2, <2>1, <2>2, <2>3, <2>4, BooksOnward
<1>8. CASE Compare /\ Duplicate
  BY <1>1, <1>2, <1>8, BooksCounted
<1>9. CASE Compare /\ ~Duplicate
  <2>. DEFINE a == "compare"
              b == IF f_prevcount # 0 THEN "flush" ELSE "save"
  <2>1. a \in BaseFrame \ {"idle"} /\ b \in BaseFrame /\ a \in InHand
        /\ a \notin Resets \cup {"write dup", "reset new", "write new", "exited"}
        /\ b \notin Resets \cup {"hold", "reset new", "write new", "exited"}
        /\ a # "hold" /\ b # "write dup"
    BY DEF BaseFrame, InHand, Resets, Paying
  <2>2. b \in {"save", "read"} => f_prevcount = 0
    OBVIOUS
  <2>3. b \in Paying => f_prevcount > 0
    <3>1. "save" \notin Paying
      BY DEF Paying
    <3>. QED
      BY <1>4, <3>1
  <2>4. At("main", a) /\ Goto("main", b)
        /\ UNCHANGED <<out, f_prevcount, f_prevline, f_prevhost, long, complete, cur>>
    BY <1>9, ResetFrameKeeps DEF Compare
  <2>. HIDE DEF a, b
  <2>5. Base = a
    BY <2>1, <2>4, BaseRuns
  <2>6. stack["watch"] = << >>
    BY <1>2, <2>1, <2>4, Busy
  <2>7. cur'.line \in Line /\ cur'.host \in Host
    BY <1>2, <2>1, <2>4, <2>5 DEF Books, InWork
  <2>8. Onward(a, b)
    BY <2>1, <2>2, <2>3, <2>7 DEF Onward
  <2>. QED
    BY <1>2, <2>1, <2>4, <2>6, <2>8, BooksOnward
<1>10. CASE Hold
  <2>. DEFINE a == "hold"
              b == IF now > Repeattime THEN "write dup" ELSE "idle"
  <2>1. a \in BaseFrame \ {"idle"} /\ b \in BaseFrame /\ a \in InHand
        /\ a \notin Resets \cup {"write dup", "reset new", "write new", "exited"}
        /\ b \notin Resets \cup {"hold", "reset new", "write new", "exited"}
        /\ a = "hold" /\ b \in {"write dup", "idle"} /\ b \notin Paying
    BY DEF BaseFrame, InHand, Resets, Paying
  <2>2. At("main", a) /\ Goto("main", b)
        /\ UNCHANGED <<out, f_prevcount, f_prevline, f_prevhost, long, cur>>
        /\ complete' = IF b = "idle" THEN Append(complete, cur) ELSE complete
    BY <1>2, <1>10, ResetFrameKeeps DEF Hold, Done
  <2>. HIDE DEF a, b
  <2>3. Base = a
    BY <2>1, <2>2, BaseRuns
  <2>4. stack["watch"] = << >>
    BY <1>2, <2>1, <2>2, Busy
  <2>5. cur'.line \in Line /\ cur'.host \in Host
    BY <1>2, <2>1, <2>2, <2>3 DEF Books, InWork
  <2>6. CASE b = "write dup"
    <3>1. Onward(a, b) /\ complete' = complete
      BY <2>1, <2>2, <2>5, <2>6 DEF Onward
    <3>. QED
      BY <1>2, <2>1, <2>2, <2>4, <3>1, BooksOnward
  <2>7. CASE b = "idle"
    <3>1. Ending(a, b)
      BY <2>1, <2>2, <2>7 DEF Ending
    <3>. QED
      BY <1>2, <2>1, <2>2, <2>4, <3>1, BooksEnding
  <2>. QED
    BY <2>1, <2>6, <2>7
<1>11. ASSUME NEW a \in BaseFrame \ {"idle"}, NEW b \in BaseFrame, At("main", a), Goto("main", b),
              Reset, ResetFrame,
              b \in {"idle", "save", "read"},
                a \in {"reset dup", "reset old", "reset new", "reset init"},
              b = "idle" <=> a \in {"hold", "reset dup", "reset new"},
              b = "save" <=> a = "reset old",
              complete' = IF b = "idle" THEN Append(complete, cur) ELSE complete
       PROVE  Books'
  <2>1. stack["watch"] = << >>
    BY <1>2, <1>11, Busy
  <2>2. f_prevcount' = 0 /\ UNCHANGED <<out, f_prevline, f_prevhost, long, cur>>
    BY <1>6, <1>11, ResetFrameKeeps DEF Reset
  <2>3. Ending(a, b)
    BY <1>11, <2>2 DEF Ending
  <2>. QED
    BY <1>2, <1>11, <2>1, <2>2, <2>3, BooksEnding
<1>12. CASE ResetDup \/ ResetNew
  <2>1. \E a \in {"reset dup", "reset new"} : At("main", a) /\ Goto("main", "idle") /\ Reset /\ ResetFrame
           /\ complete' = Append(complete, cur)
    BY <1>2, <1>12 DEF ResetDup, ResetNew, Done
  <2>2. {"reset dup", "reset new"} \subseteq BaseFrame \ {"idle"} /\ "idle" \in BaseFrame
    BY DEF BaseFrame, InHand
  <2>. QED
    BY <1>11, <2>1, <2>2
<1>13. CASE ResetOld
  <2>1. At("main", "reset old") /\ Goto("main", "save") /\ Reset /\ ResetFrame /\ complete' = complete
    BY <1>13 DEF ResetOld
  <2>2. "reset old" \in BaseFrame \ {"idle"} /\ "save" \in BaseFrame
    BY DEF BaseFrame, InHand
  <2>. QED
    BY <1>11, <2>1, <2>2
<1>14. CASE ResetInit
  <2>1. At("main", "reset init") /\ Goto("main", "read") /\ Reset /\ ResetFrame /\ complete' = complete
    BY <1>14 DEF ResetInit
  <2>2. "reset init" \in BaseFrame \ {"idle"} /\ "read" \in BaseFrame
    BY DEF BaseFrame, InHand
  <2>. QED
    BY <1>11, <2>1, <2>2
<1>15. CASE WriteDup \/ WriteOld \/ WriteInit
  <2>0. PICK a \in {"write dup", "flush", "write init"},
             b \in {"reset dup", "reset old", "reset init"} :
           \E from : /\ At("main", a) /\ Write("main", from, Empty, b)
                     /\ a = "write dup" <=> b = "reset dup"
                     /\ b \in InHand => a \in InHand
    BY <1>15 DEF WriteDup, WriteOld, WriteInit, InHand
  <2>1. PICK from : /\ At("main", a) /\ Write("main", from, Empty, b)
                    /\ a = "write dup" <=> b = "reset dup"
                    /\ b \in InHand => a \in InHand
    BY <2>0
  <2>2. a \in BaseFrame /\ b \in BaseFrame /\ a \in Payers /\ b \in Resets
    BY DEF BaseFrame, InHand, Payers, Paying, Resets
  <2>3. Base = a /\ Base' = b
    BY <2>1, <2>2, WriteGoes, BaseGoto, Labels
  <2>4. Pair(a, b)
    BY <2>1, <2>3 DEF Pair
  <2>5. At("main", a) /\ Write("main", from, Empty, b) /\ "main" \in Thread
    BY <2>1, Labels
  <2>. QED
    BY <1>1, <1>2, <2>2, <2>4, <2>5, BooksPaid
<1>16. ASSUME NEW t \in Thread, WriteMark(t) \/ WriteExit(t) PROVE Books'
  <2>1. PICK a \in {"write mark", "write exit"}, b \in {"reset mark", "reset exit"} :
           At(t, a) /\ Write(t, LocalHost, Empty, b)
    BY <1>16 DEF WriteMark, WriteExit
  <2>2. a \in HandlerFrame /\ b \in HandlerFrame /\ a \in Payers /\ b \in Resets /\ b \notin InHand
        /\ a # "write dup" /\ b # "reset dup"
    BY DEF HandlerFrame, MarkFrame, ExitFrame, InHand, Payers, Paying, Resets
  <2>3. Base' = Base
    BY <2>1, <2>2, WriteGoes, HandlerGoto
  <2>4. Pair(a, b)
    BY <2>2, <2>3 DEF Pair
  <2>5. At(t, a) /\ Write(t, LocalHost, Empty, b)
    BY <2>1
  <2>. QED
    BY <1>1, <1>2, <1>16, <2>2, <2>4, <2>5, BooksPaid
<1>17. CASE Save
  BY <1>2, <1>17, BooksSaved
<1>18. CASE WriteNew
  BY <1>1, <1>2, <1>18, BooksWritten
<1>19. CASE StartInit
  <2>. DEFINE a == "idle"
              b == IF f_prevcount # 0 THEN "write init" ELSE "read"
  <2>1. a \in BaseFrame /\ b \in BaseFrame /\ a \notin InHand /\ b \notin InHand
        /\ a \notin Resets \cup {"write dup", "reset new", "write new", "exited"}
        /\ b \notin Resets \cup {"hold", "reset new", "write new", "exited"}
        /\ a # "hold" /\ b # "write dup"
    BY DEF BaseFrame, InHand, Resets, Paying
  <2>2. b \in {"save", "read"} => f_prevcount = 0
    OBVIOUS
  <2>3. b \in Paying => f_prevcount > 0
    <3>1. "read" \notin Paying
      BY DEF Paying
    <3>. QED
      BY <1>4, <3>1
  <2>4. At("main", a) /\ Goto("main", b)
        /\ UNCHANGED <<out, f_prevcount, f_prevline, f_prevhost, long, complete, cur>>
    BY <1>5, <1>19 DEF StartInit, PendingAtInit, filed, history
  <2>5. stack["watch"] = << >>
    BY <1>2, <1>19 DEF StartInit, Begin
  <2>. HIDE DEF a, b
  <2>6. Onward(a, b)
    BY <2>1, <2>2, <2>3 DEF Onward
  <2>. QED
    BY <1>2, <2>1, <2>4, <2>5, <2>6, BooksOnward
<1>20. CASE Read
  BY <1>1, <1>2, <1>20, BooksRead
<1>21. CASE Tick \/ Hup \/ UNCHANGED vars
  <2>1. UNCHANGED <<stack, out, f_prevcount, f_prevline, f_prevhost, long, complete, cur>>
    BY <1>21 DEF Tick, Hup, vars, filed, history
  <2>2. Base' = Base /\ (On(Resets)' <=> On(Resets)) /\ (On(Paying)' <=> On(Paying))
    BY <2>1 DEF Base, On
  <2>3. Nested'
    BY <1>2, <2>1 DEF Nested, Books
  <2>. QED
    BY <1>2, <2>1, <2>2, <2>3, BooksStill
<1>22. {"mark", "exit"} \subseteq HandlerFrame \ (Resets \cup Paying)
       /\ {"write mark", "write exit"} \subseteq HandlerFrame \ Resets
  BY DEF HandlerFrame, MarkFrame, ExitFrame, Resets, Paying
<1>23. ASSUME NEW t \in Thread, Alarm(t) \/ Term(t) PROVE Books'
  <2>1. PICK b \in {"mark", "exit"} : Catch(t, b)
    BY <1>23 DEF Alarm, Term
  <2>2. UNCHANGED <<out, f_prevcount, f_prevline, f_prevhost, long, complete, cur>>
    BY <1>23 DEF Alarm, Term, filed, history
  <2>3. b \in HandlerFrame /\ b \notin Resets /\ b \notin Paying
    BY <1>22
  <2>. QED
    BY <1>2, <1>23, <2>1, <2>2, <2>3, BooksHandled
<1>24. ASSUME NEW t \in Thread, Domark(t) PROVE Books'
  <2>. DEFINE a == "mark"
              b == "write mark"
  <2>1. At(t, a) /\ (Goto(t, b) \/ Return(t)) /\ (Goto(t, b) => TRUE)
        /\ UNCHANGED <<out, f_prevcount, f_prevline, f_prevhost, long, complete, cur>>
    BY <1>24, ResetFrameKeeps DEF Domark
  <2>2. Due => f_prevcount > 0
    BY <1>4 DEF Due
  <2>3. a \in HandlerFrame /\ b \in HandlerFrame /\ a \notin Resets /\ b \notin Resets /\ a \notin Paying
    BY <1>22
  <2>4. CASE Due
    <3>1. f_prevcount > 0
      BY <2>2, <2>4
    <3>. HIDE DEF a, b
    <3>. QED
      BY <1>2, <1>24, <2>1, <2>3, <3>1, BooksHandled
  <2>5. CASE ~Due
    <3>1. Return(t)
      BY <1>24, <2>5 DEF Domark
    <3>. HIDE DEF a, b
    <3>. QED
      BY <1>2, <1>24, <2>1, <2>3, <3>1, BooksHandled
  <2>. QED
    BY <2>4, <2>5
<1>25. ASSUME NEW t \in Thread, ResetMark(t) PROVE Books'
  <2>. DEFINE a == "reset mark"
  <2>1. a \in MarkFrame /\ a \in Resets
    BY DEF MarkFrame, Resets
  <2>2. At(t, a) /\ Return(t) /\ Reset /\ ResetFrame /\ UNCHANGED complete
    BY <1>25 DEF ResetMark
  <2>. HIDE DEF a
  <2>. QED
    BY <1>2, <1>25, <2>1, <2>2, BooksMarked
<1>26. ASSUME NEW t \in Thread, NEW a \in HandlerFrame, At(t, a) PROVE Base # "exited"
  <2>1. SUFFICES ASSUME Base = "exited" PROVE FALSE
    OBVIOUS
  <2>2. Len(stack["main"]) = 1 /\ stack["watch"] = << >>
    BY <2>1 DEF Shape
  <2>3. a # "exited"
    BY DEF HandlerFrame, MarkFrame, ExitFrame
  <2>. QED
    BY <1>26, <2>1, <2>2, <2>3, Labels DEF At, Last, Base
<1>27. ASSUME NEW t \in Thread, Die(t) PROVE Books'
  <2>. DEFINE a == "exit"
              b == "write exit"
  <2>1. At(t, a) /\ UNCHANGED <<out, f_prevcount, f_prevline, f_prevhost, long, complete, cur>>
    BY <1>27, ResetFrameKeeps DEF Die
  <2>2. a \in HandlerFrame /\ b \in HandlerFrame /\ a \notin Resets /\ b \notin Resets
    BY <1>22
  <2>3. CASE f_prevcount # 0
    <3>1. Goto(t, b) /\ f_prevcount > 0
      BY <1>4, <1>27, <2>3 DEF Die, PendingAtExit
    <3>. HIDE DEF a, b
    <3>. QED
      BY <1>2, <1>27, <2>1, <2>2, <3>1, BooksHandled
  <2>4. CASE f_prevcount = 0
    <3>1. Exit /\ f_prevcount' = 0
      BY <1>27, <2>1, <2>4 DEF Die, PendingAtExit
    <3>2. Base # "exited"
      BY <1>26, <1>27, <2>1, <2>2
    <3>3. Rest = << >>
      BY <2>4, HeldNone DEF Rest
    <3>. QED
      BY <1>2, <2>1, <3>1, <3>2, <3>3, BooksSettled
  <2>. QED
    BY <2>3, <2>4
<1>28. ASSUME NEW t \in Thread, ResetExit(t) PROVE Books'
  <2>1. At(t, "reset exit") /\ Exit /\ f_prevcount' = 0 /\ UNCHANGED <<out, complete, cur>>
    BY <1>6, <1>28, ResetFrameKeeps DEF ResetExit, Reset
  <2>2. "reset exit" \in HandlerFrame /\ "reset exit" \in Resets
    BY DEF HandlerFrame, ExitFrame, Resets
  <2>3. Base # "exited"
    BY <1>26, <1>28, <2>1, <2>2
  <2>4. On(Resets)
    <3>1. stack[t] # << >> /\ stack[t][Len(stack[t])] = "reset exit" /\ Stacks
      BY <2>1 DEF At, Last, Shape
    <3>3. stack[t] \in Seq(Frame) /\ stack[t] # << >>
      BY <1>28, <3>1 DEF Stacks
    <3>2. Len(stack[t]) \in 1..Len(stack[t])
      BY <3>3
    <3>. QED
      BY <1>28, <2>2, <3>1, <3>2 DEF On
  <2>5. Rest = << >>
    BY <2>4 DEF Rest
  <2>. QED
    BY <1>2, <2>1, <2>3, <2>5, BooksSettled
<1>. QED
  BY <1>7, <1>8, <1>9, <1>10, <1>12, <1>13, <1>14, <1>15, <1>16, <1>17, <1>18, <1>19, <1>20, <1>21,
     <1>23, <1>24, <1>25, <1>27, <1>28
     DEF Next, LogSteps, Reload, Signals, Handlers

(* Until something is refused, torn or raced, every line that came is       *)
(* written, held back or in hand, once, at every step of every routine.     *)
THEOREM AccountKept == Spec => [](Alone /\ Flushed /\ Account)
<1>1. Init => Alone /\ Flushed /\ Account
  <2>1. Init => Alone
    BY DEF Init, Alone, Idle
  <2>2. Init => Flushed
    BY DEF Init, Flushed, Base
  <2>. QED
    BY <2>1, <2>2, AccountInit
<1>2. IInv /\ IInv' /\ (Alone /\ Flushed /\ Account) /\ [Next]_vars => (Alone /\ Flushed /\ Account)'
  BY AloneInvariance, FlushedInvariance, AccountInvariance DEF IInv
<1>. QED
  BY <1>1, <1>2, Invariance, PTL DEF Spec

(* Between two calls the log and what is held back say which lines came, in *)
(* order and with their hosts: however many lines repeat, however long they *)
(* are, whatever signals came and on whichever thread their handlers ran.   *)
THEOREM LogIsExact == Spec => []Exact
<1>1. IInv /\ Account => Exact
  <2>1. SUFFICES ASSUME IInv, Account, Quiet, ~lossy, ~torn, ~raced, ~mistaken PROVE Logged \o Held = complete
    BY DEF Exact
  <2>2. Books
    BY <2>1 DEF Account, Sound
  <2>3. stack["main"] = <<"idle">> /\ stack["watch"] = << >>
    BY <2>1 DEF Quiet, Idle
  <2>4. Base = "idle" /\ "idle" \notin Resets /\ complete \in Seq(Entry)
    BY <2>1, <2>3 DEF Base, Resets, IInv, Typed, Lines
  <2>5. \A u \in Thread : \A i \in 1..Len(stack[u]) : stack[u][i] = "idle"
    BY <2>3, Labels
  <2>6. Rest = Held /\ Extra = << >>
    BY <2>4, <2>5 DEF Rest, Extra, On
  <2>7. Logged \o Held = complete \o << >>
    BY <2>2, <2>4, <2>6 DEF Books, Balance
  <2>. QED
    BY <2>4, <2>7, Nothing
<1>. QED
  BY <1>1, Invariance, AccountKept, PTL

(* A server that has exited has written what it held back, and of the line  *)
(* it was working on either all or nothing: die's write comes at most once  *)
(* and never on top of another, unless it tore one.                         *)
THEOREM NothingLeftAtExit == Spec => []ExitFlushed
<1>1. Flushed /\ Account => ExitFlushed
  <2>1. SUFFICES ASSUME Flushed, Account, Exited, ~raced
                 PROVE  /\ f_prevcount = 0 \/ f_type = "unkn"
                        /\ (~lossy /\ ~torn /\ ~mistaken) => Logged \in {complete, Append(complete, cur)}
    BY DEF ExitFlushed
  <2>2. Base = "exited"
    BY <2>1 DEF Exited, Base
  <2>. QED
    BY <2>1, <2>2 DEF Flushed, Account, Sound, Books, Balance
<1>. QED
  BY <1>1, AccountKept, PTL

----------------------------------------------------------------------------
(***************************************************************************)
(* What is never lost: the lines that came are found, in their order, in   *)
(* what is logged and held back.  A handler may now write in the middle of *)
(* a write, and then a line is in the log more than once.                  *)
(***************************************************************************)
Unrefused == ~lossy /\ ~raced /\ ~mistaken

Owed ==
    /\ f_prevcount >= 0
    /\ Base \in {"save", "write new", "reset new", "read"} => f_prevcount = 0
    /\ On(Payers) => Base \notin {"write new", "exited"} /\ Saved
    /\ f_prevcount > 0 => Saved
    /\ Base = "hold" => Saved

Covered == All(complete \o Extra, Logged \o Rest)

Kept == Owed /\ InWork /\ Known /\ Covered

NoLineLost == Unrefused => Kept

LEMMA OwedNone ==
    ASSUME f_prevcount' = 0, ~On(Payers)', Base' # "hold"
    PROVE  Owed'
<1>1. f_prevcount' >= 0 /\ ~(f_prevcount' > 0)
  OBVIOUS
<1>. QED
  BY <1>1 DEF Owed, Saved

LEMMA ExtraIs == Typed => Extra \in Seq(Entry) /\ complete \in Seq(Entry) /\ complete \o Extra \in Seq(Entry)
<1>1. SUFFICES ASSUME Typed PROVE Extra \in Seq(Entry) /\ complete \in Seq(Entry) /\ complete \o Extra \in Seq(Entry)
  OBVIOUS
<1>2. complete \in Seq(Entry) /\ cur \in Entry /\ << >> \in Seq(Entry) /\ <<cur>> \in Seq(Entry)
  BY <1>1 DEF Typed, Lines
<1>3. Extra \in Seq(Entry)
  BY <1>2 DEF Extra
<1>. QED
  BY <1>2, <1>3, ConcatProperties

(* A write that is not refused.                                             *)
LEMMA Accepted ==
    ASSUME Typed, Counts, NEW t, NEW from, NEW msg \in Line \cup {Empty}, NEW next,
           Write(t, from, msg, next), ~lossy'
    PROVE  /\ ~lossy /\ out' = Append(out, Text(msg))
           /\ UNCHANGED <<f_prevcount, f_prevline, f_prevhost, long, complete, cur>>
           /\ f_prevcount >= 0
<1>1. ~lossy
  BY WriteTyped
<1>2. f_type \in {"file", "forw"} /\ f_prevcount >= 0
  <2>1. f_type \in {"file", "forw"} /\ f_prevcount \in Int /\ (f_prevcount < 0 => f_type = "unused")
    BY <1>1 DEF Counts, Typed, Destination
  <2>. QED
    BY <2>1
<1>3. Out(t, from, msg) /\ UNCHANGED f_prevcount
  BY <1>2 DEF Write
<1>4. out' = Append(out, Text(msg)) /\ complete' = complete
  BY <1>1, <1>3 DEF Out, AfterSend, AfterWrite
<1>5. UNCHANGED <<cur, f_prevline, f_prevhost, long>>
  BY WriteGoes
<1>. QED
  BY <1>1, <1>2, <1>3, <1>4, <1>5

(* A repetition is written, once more perhaps than it should be.            *)
LEMMA KeptPaid ==
    ASSUME Shape, Typed, Counts, Kept, NEW t \in Thread, ~raced,
           NEW a \in Payers, NEW b \in Resets, At(t, a), Pair(a, b),
           NEW from, Write(t, from, Empty, b), ~lossy'
    PROVE  Kept'
<1>0. /\ a \in Frame /\ b \in Frame /\ b \notin Payers
      /\ b \notin {"save", "write new", "reset new", "read", "hold", "write dup", "exited"}
      /\ a \notin {"hold", "reset dup", "reset new", "exited"}
  BY KindsOfFrames DEF Resets, Paying, Payers, Middle
<1>1. Moved(t, a, b)
  BY <1>0, GotoMoves, WriteGoes DEF Shape
<1>2. /\ out' = Append(out, Text(Empty))
      /\ UNCHANGED <<f_prevcount, f_prevline, f_prevhost, long, complete, cur>>
      /\ f_prevcount >= 0
  BY Accepted
<1>3. Stacks
  BY DEF Shape
<1>4. Len(stack[t]) \in 1..Len(stack[t]) /\ stack[t][Len(stack[t])] = a
  BY <1>1, <1>3 DEF Moved, Stacks
<1>5. On(Payers) /\ On(Resets)'
  <2>1. Len(stack'[t]) = Len(stack[t]) /\ stack'[t][Len(stack[t])] = b
    BY <1>1 DEF Moved
  <2>. QED
    BY <1>4, <2>1 DEF On
<1>6. On(Payers)' => On(Payers)
  BY <1>5
<1>7. Saved /\ Base \notin {"write new", "exited"}
  BY <1>5 DEF Kept, Owed, Saved
<1>19. f_prevcount \in Nat
  <2>1. f_prevcount \in Int
    BY DEF Typed, Destination
  <2>. QED
    BY <1>2, <2>1
<1>8. Logged \in Seq(Entry) /\ Logged # << >> /\ Last(Logged) = Prev /\ Prev \in Entry
  BY <1>7, PrevIs DEF Kept, Known, Saved
<1>. DEFINE n == IF f_prevcount > 1 THEN f_prevcount ELSE 1
            H == [i \in 1..n |-> Prev]
            e == Text(Empty)
<1>9. n \in Nat \ {0} /\ (f_prevcount > 0 => n = f_prevcount)
  BY <1>19
<1>10. H \in Seq(Entry) /\ Len(H) = n /\ Len(H) > 0 /\ \A i \in 1..Len(H) : H[i] = Prev
  BY <1>8, <1>9
<1>11. e.line = Prev.line /\ e.host = Prev.host /\ e.n = n /\ e \in Said /\ out \in Seq(Said)
  BY TextIs DEF Text, Prev, Typed, Lines
<1>12. f_prevcount > 0 => H = Held
  BY <1>9 DEF Held, Prev
<1>. HIDE DEF n, H, e
<1>13. /\ Expand(Logged, e) = Logged \o H
       /\ Logged \o H \in Seq(Entry) /\ Logged \o H # << >> /\ Last(Logged \o H) = Last(Logged)
  <2>1. e.line = Last(Logged).line /\ e.host = Last(Logged).host /\ e.n = Len(H) /\ Last(Logged) \in Entry
        /\ \A i \in 1..Len(H) : H[i] = Last(Logged)
    BY <1>8, <1>10, <1>11
  <2>. QED
    BY <1>8, <1>10, <2>1, Repeated
<1>14. Logged' = Logged \o H
  <2>1. Logged' = Expand(Logged, e)
    BY <1>2, <1>11, LoggedAppend DEF e
  <2>. QED
    BY <1>13, <2>1
<1>15. Owed'
  <2>1. Base' \notin {"save", "write new", "reset new", "read", "exited", "hold"} \/ Base' = Base
    BY <1>0 DEF Pair
  <2>. QED
    BY <1>2, <1>5, <1>7, <2>1 DEF Kept, Owed, Saved
<1>16. InWork'
  <2>1. Base' \in InHand => Base \in InHand
    BY DEF Pair
  <2>2. Base' # "write new"
    BY <1>0, <1>7 DEF Pair
  <2>. QED
    BY <1>2, <2>1, <2>2 DEF InWork, Kept
<1>17. Known'
  <2>1. Prev' = Prev
    BY <1>2 DEF Prev
  <2>. QED
    BY <1>8, <1>13, <1>14, <2>1 DEF Known, Saved
<1>18. Covered'
  <2>1. Extra' = Extra
    BY <1>0, <1>2 DEF Extra, Pair
  <2>2. Rest' = << >>
    BY <1>5 DEF Rest
  <2>3. complete \o Extra \in Seq(Entry)
    BY ExtraIs
  <2>4. All(complete \o Extra, Logged \o H)
    <3>1. CASE Rest = << >>
      <4>1. Logged \o << >> = Logged
        BY <1>8, Nothing
      <4>2. All(complete \o Extra, Logged)
        BY <3>1, <4>1 DEF Kept, Covered
      <4>. QED
        BY <1>8, <1>10, <2>3, <4>2, AllInLonger
    <3>2. CASE Rest = Held /\ f_prevcount > 0
      BY <1>12, <3>2 DEF Kept, Covered
    <3>3. CASE f_prevcount = 0
      BY <3>1, <3>3, HeldNone DEF Rest
    <3>4. f_prevcount = 0 \/ f_prevcount > 0
      BY <1>19
    <3>. QED
      BY <3>1, <3>2, <3>3, <3>4 DEF Rest
  <2>5. (Logged \o H) \o << >> = Logged \o H
    BY <1>13, Nothing
  <2>. QED
    BY <1>2, <1>14, <2>1, <2>2, <2>4, <2>5 DEF Covered
<1>. QED
  BY <1>15, <1>16, <1>17, <1>18 DEF Kept

(* domark's reset.                                                          *)
LEMMA KeptMarked ==
    ASSUME Shape, Typed, Counts, Kept, ~lossy, NEW t \in Thread, NEW a \in MarkFrame,
           a \in Resets, At(t, a), Return(t),
           Reset, ResetFrame, UNCHANGED complete
    PROVE  Kept'
<1>1. a \in HandlerFrame /\ a \in Resets
  BY DEF HandlerFrame, MarkFrame, Resets
<1>2. Popped(t, a) /\ Base' = Base
  BY <1>1, HandlerReturn
<1>3. UNCHANGED <<out, f_prevline, f_prevhost, long, cur, complete, f_type>>
  BY ResetFrameKeeps
<1>4. f_prevcount' = 0
  <2>1. f_type # "unkn"
    BY DEF Counts
  <2>. QED
    BY <2>1 DEF Reset
<1>5. Stacks
  BY DEF Shape
<1>6. On(Resets)
  <2>1. Len(stack[t]) \in 1..Len(stack[t])
    BY <1>2, <1>5 DEF Popped, Stacks
  <2>. QED
    BY <1>1, <1>2, <2>1 DEF On, Popped
<1>7. On(Payers)' => On(Payers)
  BY <1>2, <1>5, OnPopped
<1>8. Owed'
  <2>1. f_prevcount' >= 0 /\ ~(f_prevcount' > 0)
    BY <1>4
  <2>. QED
    BY <1>2, <1>3, <1>4, <1>7, <2>1 DEF Kept, Owed, Saved
<1>9. InWork'
  BY <1>2, <1>3 DEF InWork, Kept
<1>10. Logged' = Logged /\ Prev' = Prev /\ Extra' = Extra
  BY <1>2, <1>3, LoggedKept DEF Prev, Extra
<1>11. Known'
  BY <1>2, <1>3, <1>10 DEF Known, Kept, Saved
<1>12. Covered'
  <2>1. Rest = << >> /\ Rest' = << >>
    BY <1>4, <1>6, HeldNone DEF Rest
  <2>. QED
    BY <1>3, <1>10, <2>1 DEF Covered, Kept
<1>. QED
  BY <1>8, <1>9, <1>11, <1>12 DEF Kept

(* A step that works on no line and writes nothing.                         *)
LEMMA KeptStill ==
    ASSUME Kept, UNCHANGED <<out, f_prevcount, f_prevline, f_prevhost, long, complete, cur>>,
           Base' = Base, On(Resets)' <=> On(Resets),
           On(Payers)' => On(Payers) \/ (f_prevcount > 0 /\ Base # "exited")
    PROVE  Kept'
<1>1. Logged' = Logged /\ Held' = Held /\ Prev' = Prev
  BY LoggedKept, HeldSame
<1>2. Rest' = Rest /\ Extra' = Extra
  BY <1>1 DEF Rest, Extra
<1>3. Owed'
  <2>1. f_prevcount > 0 => ~(f_prevcount = 0)
    OBVIOUS
  <2>2. f_prevcount > 0 => Saved /\ Base # "write new"
    BY <2>1 DEF Kept, Owed, Saved
  <2>. QED
    BY <2>2 DEF Kept, Owed, Saved
<1>4. InWork'
  BY DEF Kept, InWork
<1>5. Known'
  BY <1>1 DEF Kept, Known, Saved
<1>6. Covered'
  BY <1>1, <1>2 DEF Kept, Covered
<1>. QED
  BY <1>3, <1>4, <1>5, <1>6 DEF Kept

(* What a handler does before and after its write.                          *)
LEMMA KeptHandled ==
    ASSUME Shape, Typed, Kept, NEW t \in Thread, NEW a \in HandlerFrame, NEW b \in HandlerFrame,
           a \notin Resets, b \notin Resets, b \in Payers => f_prevcount > 0, Base # "exited",
           (At(t, a) /\ (Goto(t, b) \/ Return(t))) \/ Catch(t, b),
           UNCHANGED <<out, f_prevcount, f_prevline, f_prevhost, long, complete, cur>>
    PROVE  Kept'
<1>1. Base' = Base /\ (Moved(t, a, b) \/ Popped(t, a) \/ Pushed(t, b))
  BY HandlerGoto, HandlerReturn, HandlerCatch
<1>2. Stacks
  BY DEF Shape
<1>4. On(Resets)' <=> On(Resets)
  BY <1>1, <1>2, OnMoved, OnPopped, OnPushed
<1>5. On(Payers)' => On(Payers) \/ b \in Payers
  BY <1>1, <1>2, OnMoved, OnPopped, OnPushed
<1>. QED
  BY <1>1, <1>4, <1>5, KeptStill

(* logmsg or init goes on, and has neither written nor taken over a line.   *)
Further(a, b) ==
    /\ a \notin Resets \cup {"reset new", "write new", "exited"}
    /\ b \notin Resets \cup {"hold", "reset new", "write new", "exited"}
    /\ a = "hold" <=> b = "write dup"
    /\ a # "write dup"
    /\ b \in {"save", "read"} => f_prevcount = 0
    /\ b \in Payers => f_prevcount > 0 \/ a = "hold"
    /\ b \in InHand => cur'.line \in Line /\ cur'.host \in Host

LEMMA KeptFurther ==
    ASSUME Shape, Kept, stack["watch"] = << >>, NEW a \in BaseFrame, NEW b \in BaseFrame,
           At("main", a), Goto("main", b), Further(a, b),
           UNCHANGED <<out, f_prevcount, f_prevline, f_prevhost, long, complete>>,
           a \in InHand => UNCHANGED cur
    PROVE  Kept'
<1>1. Base = a /\ Base' = b
  BY BaseAlone
<1>2. (On(Resets) <=> a \in Resets) /\ (On(Resets)' <=> b \in Resets)
  BY BaseAlone
<1>3. On(Payers)' <=> b \in Payers
  BY BaseAlone
<1>4. /\ a \notin Resets /\ b \notin Resets
      /\ a \notin {"write new", "exited"} /\ b \notin {"write new", "exited", "reset new", "hold"}
  BY DEF Further, Resets
<1>5. Logged' = Logged /\ Held' = Held /\ Prev' = Prev
  BY LoggedKept, HeldSame
<1>6. Rest' = Rest /\ Extra' = Extra
  <2>1. b \in {"hold", "write dup", "reset dup", "reset new"}
          <=> a \in {"hold", "write dup", "reset dup", "reset new"}
    BY DEF Further, Resets
  <2>. QED
    BY <1>1, <1>2, <1>4, <1>5, <2>1 DEF Rest, Extra, InHand
<1>7. Owed'
  <2>1. b \in Payers => Saved
    BY <1>1 DEF Kept, Owed, Further, Saved
  <2>2. b \in {"save", "write new", "reset new", "read"} => f_prevcount = 0
    BY <1>4 DEF Further
  <2>. QED
    BY <1>1, <1>3, <1>4, <2>1, <2>2 DEF Kept, Owed, Saved
<1>8. InWork'
  BY <1>1, <1>4 DEF InWork, Further
<1>9. Known'
  BY <1>1, <1>4, <1>5 DEF Kept, Known, Saved
<1>10. Covered'
  BY <1>5, <1>6 DEF Kept, Covered
<1>. QED
  BY <1>7, <1>8, <1>9, <1>10 DEF Kept

(* The line in hand is counted, held back with those before it.             *)
LEMMA KeptCounted ==
    ASSUME Shape, Typed, Alone, ~raced, ~mistaken', Kept, Compare, Duplicate
    PROVE  Kept'
<1>. DEFINE a == "compare"
            b == "hold"
<1>1. a \in BaseFrame \ {"idle"} /\ b \in BaseFrame /\ a \in InHand /\ b = "hold"
      /\ a \notin Resets /\ b \notin Resets /\ b \notin Payers
      /\ a \notin {"hold", "write dup", "reset dup", "reset new", "exited", "write new"}
      /\ b \notin {"save", "write new", "reset new", "read", "exited"}
      /\ b \in {"hold", "write dup", "reset dup", "reset new"}
  BY DEF BaseFrame, InHand, Resets, Paying, Payers
<1>2. /\ At("main", a) /\ Goto("main", b) /\ f_prevcount' = f_prevcount + 1
      /\ UNCHANGED <<out, f_prevline, f_prevhost, long, cur, complete>>
  BY ResetFrameKeeps DEF Compare
<1>. HIDE DEF a, b
<1>3. stack["watch"] = << >>
  BY <1>1, <1>2, Busy
<1>4. Base = a /\ Base' = b
  BY <1>1, <1>2, <1>3, BaseAlone
<1>5. (On(Resets) <=> a \in Resets) /\ (On(Resets)' <=> b \in Resets)
  BY <1>1, <1>2, <1>3, BaseAlone
<1>6. On(Payers)' <=> b \in Payers
  BY <1>1, <1>2, <1>3, BaseAlone
<1>7. cur \in Entry /\ cur.line \in Line /\ cur.host \in Host /\ complete \in Seq(Entry)
  <2>1. cur.line \in Line /\ cur.host \in Host
    BY <1>1, <1>4 DEF Kept, InWork
  <2>. QED
    BY <2>1, RepeatAssumption DEF Typed, Lines
<1>8. Prev = cur
  BY <1>7, EntryIs DEF Duplicate, Prev
<1>9. f_prevcount >= 0 /\ f_prevcount \in Int
  BY DEF Kept, Owed, Typed, Destination, Saved
<1>10. f_prevcount' >= 0
  BY <1>2, <1>9
<1>11. Owed'
  <2>1. Saved
    <3>1. mistaken' = (mistaken \/ (Duplicate /\ long)) /\ ~mistaken'
      BY DEF Compare
    <3>2. ~long
      BY <3>1
    <3>3. f_prevhost # Empty
      BY <1>7, RepeatAssumption DEF Duplicate, Host
    <3>. QED
      BY <3>2, <3>3 DEF Saved
  <2>2. Saved'
    BY <1>2, <2>1 DEF Saved
  <2>. QED
    BY <1>1, <1>2, <1>4, <1>6, <1>10, <2>2 DEF Owed
<1>12. InWork'
  BY <1>1, <1>2, <1>4, <1>7 DEF InWork
<1>13. Logged' = Logged /\ Prev' = Prev /\ Logged \in Seq(Entry)
  BY <1>2, LoggedKept DEF Prev, Kept, Known, Saved
<1>14. Known'
  BY <1>1, <1>2, <1>4, <1>13 DEF Kept, Known, Saved
<1>15. Covered'
  <2>1. Held \in Seq(Entry) /\ Held' = Append(Held, cur)
    BY <1>2, <1>8, <1>9, HeldIs, HeldMore
  <2>2. Rest = Held /\ Rest' = Append(Held, cur) /\ Extra = << >> /\ Extra' = <<cur>>
    BY <1>1, <1>2, <1>4, <1>5, <2>1 DEF Rest, Extra
  <2>3. All(complete \o << >>, Logged \o Held)
    BY <2>2 DEF Kept, Covered
  <2>4. complete \o << >> = complete
    BY <1>7, Nothing
  <2>. DEFINE L == Logged \o Held
  <2>5. Logged \o Append(Held, cur) = Append(L, cur) /\ Append(complete, cur) = complete \o <<cur>>
    BY <1>7, <1>13, <2>1, OneMore
  <2>6. L \in Seq(Entry) /\ All(complete, L)
    BY <1>13, <2>1, <2>3, <2>4, ConcatProperties
  <2>. HIDE DEF L
  <2>7. All(Append(complete, cur), Append(L, cur))
    BY <1>7, <2>6, AllAndOne
  <2>. QED
    BY <1>2, <1>13, <2>2, <2>5, <2>7 DEF Covered
<1>. QED
  BY <1>11, <1>12, <1>14, <1>15 DEF Kept

LEMMA KeptEnding ==
    ASSUME Shape, Typed, Kept, stack["watch"] = << >>, NEW a \in BaseFrame, NEW b \in BaseFrame,
           At("main", a), Goto("main", b), Ending(a, b),
           UNCHANGED <<out, f_prevline, f_prevhost, long, cur>>
    PROVE  Kept'
<1>1. Base = a /\ Base' = b
  BY BaseAlone
<1>2. (On(Resets) <=> a \in Resets) /\ (On(Resets)' <=> b \in Resets)
  BY BaseAlone
<1>3. On(Payers)' <=> b \in Payers
  BY BaseAlone
<1>4. /\ b \notin Resets /\ b \notin Payers /\ b \notin {"write new", "exited", "reset new", "hold"}
      /\ b \notin {"hold", "write dup", "reset dup", "reset new"}
      /\ a \notin {"write new", "exited"}
      /\ b \in InHand => a \in InHand
  <2>1. b \notin Resets /\ b \notin Payers /\ b \notin {"write new", "exited", "reset new", "hold"}
        /\ b \notin {"hold", "write dup", "reset dup", "reset new"}
    BY DEF Ending, Resets, Paying, Payers
  <2>2. a \notin {"write new", "exited"}
    BY DEF Ending
  <2>3. b \in InHand => a \in InHand
    BY DEF Ending, InHand
  <2>. QED
    BY <2>1, <2>2, <2>3
<1>5. Logged' = Logged /\ Prev' = Prev /\ Logged \in Seq(Entry)
  BY LoggedKept DEF Prev, Kept, Known, Saved
<1>6. Owed'
  <2>1. CASE a = "hold" /\ f_prevcount' = f_prevcount
    <3>1. b = "idle"
      BY <2>1 DEF Ending
    <3>. QED
      BY <1>1, <1>3, <1>4, <2>1, <3>1 DEF Kept, Owed, Saved
  <2>2. CASE f_prevcount' = 0
    BY <1>1, <1>3, <1>4, <2>2, OwedNone
  <2>. QED
    BY <2>1, <2>2 DEF Ending
<1>7. InWork'
  BY <1>1, <1>4 DEF Kept, InWork
<1>8. Known'
  BY <1>1, <1>4, <1>5 DEF Kept, Known, Saved
<1>9. Rest' = Rest
  <2>1. CASE a = "hold" /\ f_prevcount' = f_prevcount
    <3>1. a \notin Resets
      BY <2>1 DEF Resets
    <3>. QED
      BY <1>2, <1>4, <2>1, <3>1, HeldSame DEF Rest
  <2>2. CASE a = "reset new" /\ f_prevcount' = 0
    <3>1. f_prevcount = 0
      BY <1>1, <2>2 DEF Kept, Owed, Saved
    <3>. QED
      BY <2>2, <3>1, HeldNone DEF Rest
  <2>3. CASE a \in Resets /\ f_prevcount' = 0
    BY <1>2, <2>3, HeldNone DEF Rest
  <2>. QED
    BY <2>1, <2>2, <2>3 DEF Ending, Resets
<1>10. complete' \o Extra' = complete \o Extra
  <2>1. complete \in Seq(Entry) /\ cur \in Entry
    BY DEF Typed, Lines
  <2>2. Extra' = << >>
    BY <1>1, <1>4 DEF Extra
  <2>3. CASE b = "idle"
    <3>1. Extra = <<cur>> /\ complete' = Append(complete, cur)
      BY <1>1, <2>3 DEF Extra, Ending
    <3>2. Append(complete, cur) \in Seq(Entry) /\ Append(complete, cur) = complete \o <<cur>>
      BY <2>1, Single, OneMore
    <3>. QED
      BY <2>2, <3>1, <3>2, Nothing
  <2>4. CASE b # "idle"
    <3>1. Extra = << >> /\ complete' = complete
      BY <1>1, <2>4 DEF Extra, Ending
    <3>. QED
      BY <2>2, <3>1
  <2>. QED
    BY <2>3, <2>4
<1>11. Covered'
  BY <1>5, <1>9, <1>10 DEF Kept, Covered
<1>. QED
  BY <1>6, <1>7, <1>8, <1>11 DEF Kept

(* A new line is remembered, with nothing held back of the one before.      *)
LEMMA KeptSaved ==
    ASSUME Shape, Typed, Alone, ~raced, Kept, Save
    PROVE  Kept'
<1>. DEFINE a == "save"
            b == "write new"
<1>1. a \in BaseFrame \ {"idle"} /\ b \in BaseFrame /\ a \in InHand /\ b = "write new" /\ a = "save"
      /\ a \notin Resets /\ b \notin Resets /\ b \notin Payers
      /\ a \notin {"hold", "write dup", "reset dup", "reset new", "exited", "write new"}
      /\ b \notin {"hold", "write dup", "reset dup", "reset new", "exited"}
  BY DEF BaseFrame, InHand, Resets, Paying, Payers
<1>2. /\ At("main", a) /\ Goto("main", b)
      /\ UNCHANGED <<out, f_prevcount, cur, complete>>
      /\ f_prevline' = (IF cur.line \in LongLine THEN Empty ELSE cur.line) /\ f_prevhost' = cur.host
      /\ long' = (cur.line \in LongLine)
  BY DEF Save, SaveHost
<1>. HIDE DEF a, b
<1>3. stack["watch"] = << >>
  BY <1>1, <1>2, Busy
<1>4. Base = a /\ Base' = b
  BY <1>1, <1>2, <1>3, BaseAlone
<1>5. On(Payers)' <=> b \in Payers
  BY <1>1, <1>2, <1>3, BaseAlone
<1>6. f_prevcount = 0
  BY <1>1, <1>4 DEF Kept, Owed, Saved
<1>7. Owed'
  BY <1>1, <1>2, <1>4, <1>5, <1>6, OwedNone
<1>8. InWork'
  BY <1>1, <1>2, <1>4 DEF InWork, Kept
<1>9. Logged' = Logged /\ Logged \in Seq(Entry)
  BY <1>2, LoggedKept DEF Kept, Known, Saved
<1>10. Known'
  BY <1>1, <1>4, <1>9 DEF Known, Saved
<1>11. Covered'
  <2>1. Rest = << >> /\ Rest' = << >>
    BY <1>2, <1>6, HeldNone DEF Rest
  <2>2. Extra' = Extra
    BY <1>1, <1>4 DEF Extra
  <2>. QED
    BY <1>2, <1>9, <2>1, <2>2 DEF Kept, Covered
<1>. QED
  BY <1>7, <1>8, <1>10, <1>11 DEF Kept

(* It is written.                                                           *)
LEMMA KeptWritten ==
    ASSUME Shape, Typed, Counts, Alone, ~raced, Kept, WriteNew, ~lossy'
    PROVE  Kept'
<1>. DEFINE a == "write new"
            b == "reset new"
            msg == IF cur.line \in LongLine THEN cur.line ELSE Empty
<1>1. a \in BaseFrame \ {"idle"} /\ b \in BaseFrame /\ a \in InHand /\ a = "write new" /\ b = "reset new"
      /\ a \notin Resets /\ b \notin Resets /\ b \notin Payers
      /\ a \notin {"hold", "write dup", "reset dup", "reset new", "exited"}
      /\ b \notin {"save", "exited", "write new"} /\ b \in {"hold", "write dup", "reset dup", "reset new"}
  BY DEF BaseFrame, InHand, Resets, Paying, Payers
<1>2. At("main", a) /\ Goto("main", b) /\ Write("main", cur.host, msg, b) /\ msg \in Line \cup {Empty}
  BY MessagesTyped, WriteGoes DEF WriteNew
<1>3. cur \in Entry /\ complete \in Seq(Entry) /\ out \in Seq(Said)
  BY DEF Typed, Lines
<1>. HIDE DEF a, b, msg
<1>4. stack["watch"] = << >>
  BY <1>1, <1>2, Busy
<1>5. Base = a /\ Base' = b
  BY <1>1, <1>2, <1>4, BaseAlone
<1>6. On(Payers)' <=> b \in Payers
  BY <1>1, <1>2, <1>4, BaseAlone
<1>7. /\ out' = Append(out, Text(msg))
      /\ UNCHANGED <<f_prevcount, f_prevline, f_prevhost, long, complete, cur>>
  BY <1>2, Accepted
<1>8. f_prevcount = 0 /\ cur.line \in Line /\ cur.host \in Host
      /\ f_prevhost = cur.host /\ f_prevline = (IF cur.line \in LongLine THEN Empty ELSE cur.line)
      /\ (long <=> cur.line \in LongLine)
  BY <1>1, <1>5 DEF Kept, Owed, InWork, Saved
<1>9. Text(msg) = [line |-> cur.line, n |-> 1, host |-> cur.host]
  <2>1. CASE cur.line \in LongLine
    BY <1>8, <2>1, RepeatAssumption DEF Text, msg
  <2>2. CASE cur.line \notin LongLine
    <3>1. ~(f_prevcount > 1) /\ msg = Empty
      BY <1>8, <2>2 DEF msg
    <3>. QED
      BY <1>8, <2>2, <3>1 DEF Text
  <2>. QED
    BY <2>1, <2>2
<1>10. Logged \in Seq(Entry) /\ Logged' = Append(Logged, cur)
  <2>1. Text(msg) \in Said
    BY <1>2, TextIs
  <2>2. Logged' = Expand(Logged, Text(msg))
    BY <1>3, <1>7, <2>1, LoggedAppend
  <2>3. Expand(Logged, Text(msg)) = Append(Logged, cur)
    BY <1>3, <1>9, EntryIs DEF Expand
  <2>. QED
    BY <2>2, <2>3 DEF Kept, Known, Saved
<1>11. Logged' \in Seq(Entry) /\ Logged' # << >> /\ Last(Logged') = cur
  BY <1>3, <1>10, Single
<1>12. Owed'
  <2>1. b # "hold"
    BY DEF b
  <2>. QED
    BY <1>1, <1>5, <1>6, <1>7, <1>8, <2>1, OwedNone
<1>13. InWork'
  BY <1>1, <1>5, <1>7, <1>8 DEF InWork
<1>14. Known'
  <2>1. ASSUME Saved PROVE Prev' = cur
    BY <1>3, <1>7, <1>8, <2>1, EntryIs DEF Prev, Saved
  <2>. QED
    BY <1>7, <1>11, <2>1 DEF Known, Saved
<1>15. Covered'
  <2>1. Rest = << >> /\ Rest' = << >>
    BY <1>7, <1>8, HeldNone DEF Rest
  <2>2. Extra = << >> /\ Extra' = <<cur>>
    BY <1>1, <1>5, <1>7 DEF Extra
  <2>3. complete \o << >> = complete /\ Logged \o << >> = Logged /\ Logged' \o << >> = Logged'
        /\ complete \o <<cur>> = Append(complete, cur)
    BY <1>3, <1>10, <1>11, Nothing, OneMore
  <2>4. All(complete, Logged)
    BY <2>1, <2>2, <2>3 DEF Kept, Covered
  <2>5. All(Append(complete, cur), Append(Logged, cur))
    BY <1>3, <1>10, <2>4, AllAndOne
  <2>. QED
    BY <1>7, <1>10, <2>1, <2>2, <2>3, <2>5 DEF Covered
<1>. QED
  BY <1>12, <1>13, <1>14, <1>15 DEF Kept

(* The table is read anew: f starts empty.                                  *)
LEMMA KeptRead ==
    ASSUME Shape, Typed, Alone, ~raced, Kept, Read, ~lossy'
    PROVE  Kept'
<1>. DEFINE a == "read"
            b == "idle"
<1>1. a \in BaseFrame \ {"idle"} /\ b \in BaseFrame /\ a = "read" /\ b \notin InHand
      /\ a \notin Resets /\ b \notin Resets /\ b \notin Payers
      /\ a \notin {"hold", "write dup", "reset dup", "reset new", "exited"}
      /\ b \notin {"hold", "write dup", "reset dup", "reset new", "exited", "write new", "save", "read"}
  BY DEF BaseFrame, InHand, Resets, Paying, Payers
<1>2. /\ At("main", a) /\ Goto("main", b) /\ f_prevhost' = Empty /\ f_prevcount' = 0
      /\ UNCHANGED <<out, complete, cur>>
  BY DEF Read, Counter
<1>. HIDE DEF a, b
<1>3. stack["watch"] = << >>
  BY <1>1, <1>2, Busy
<1>4. Base = a /\ Base' = b
  BY <1>1, <1>2, <1>3, BaseAlone
<1>5. On(Payers)' <=> b \in Payers
  BY <1>1, <1>2, <1>3, BaseAlone
<1>6. f_prevcount = 0
  BY <1>1, <1>4 DEF Kept, Owed, Saved
<1>7. Logged' = Logged /\ Logged \in Seq(Entry)
  BY <1>2, LoggedKept DEF Kept, Known, Saved
<1>8. Owed'
  BY <1>1, <1>2, <1>4, <1>5, OwedNone
<1>9. InWork'
  BY <1>1, <1>4 DEF InWork
<1>10. Known'
  BY <1>2, <1>7 DEF Known, Saved
<1>11. Covered'
  <2>1. Rest = << >> /\ Rest' = << >> /\ Extra = << >> /\ Extra' = << >>
    BY <1>1, <1>2, <1>4, <1>6, HeldNone DEF Rest, Extra
  <2>. QED
    BY <1>2, <1>7, <2>1 DEF Kept, Covered
<1>. QED
  BY <1>8, <1>9, <1>10, <1>11 DEF Kept

(* die: the line in hand may be given up, no other.                         *)
LEMMA KeptSettled ==
    ASSUME Typed, Kept, Rest = << >>, Exit, f_prevcount' = 0,
           UNCHANGED <<out, complete, cur>>
    PROVE  Kept'
<1>1. stack'["main"] = <<"exited">> /\ stack'["watch"] = << >>
  BY DEF Exit
<1>2. \A u \in Thread : \A i \in 1..Len(stack'[u]) : i = 1 /\ stack'[u][i] = "exited"
  <2>1. \A i \in 1..Len(stack'["main"]) : i = 1 /\ stack'["main"][i] = "exited"
    BY <1>1
  <2>2. \A i \in 1..Len(stack'["watch"]) : FALSE
    BY <1>1
  <2>. QED
    BY <2>1, <2>2, Labels
<1>3. "exited" \notin Payers /\ "exited" \notin InHand /\ Base' = "exited"
  BY <1>1 DEF Paying, Payers, InHand, Base
<1>4. ~On(Payers)'
  BY <1>2, <1>3 DEF On
<1>5. Logged' = Logged /\ Logged \in Seq(Entry) /\ complete \in Seq(Entry) /\ cur \in Entry
  BY LoggedKept DEF Kept, Known, Typed, Lines, Saved
<1>6. All(complete, Logged)
  <2>1. All(complete \o Extra, Logged \o << >>) /\ (Extra = << >> \/ Extra = <<cur>>)
    BY DEF Kept, Covered, Extra
  <2>2. Logged \o << >> = Logged /\ complete \o << >> = complete /\ complete \o <<cur>> = Append(complete, cur)
    BY <1>5, Nothing, OneMore
  <2>3. All(complete, Logged) \/ All(Append(complete, cur), Logged)
    BY <2>1, <2>2
  <2>. QED
    BY <1>5, <2>3, AllAndOne
<1>7. Owed'
  BY <1>3, <1>4, OwedNone
<1>8. InWork' /\ Known'
  BY <1>3, <1>5 DEF InWork, Known, Saved
<1>9. Covered'
  <2>1. Rest' = << >> /\ Extra' = << >>
    BY <1>3, HeldNone DEF Rest, Extra
  <2>2. Logged \o << >> = Logged /\ complete \o << >> = complete
    BY <1>5, Nothing
  <2>. QED
    BY <1>5, <1>6, <2>1, <2>2 DEF Covered
<1>. QED
  BY <1>7, <1>8, <1>9 DEF Kept

LEMMA NoLineLostInit == Init => NoLineLost
<1>1. SUFFICES ASSUME Init, Unrefused PROVE Kept
  BY DEF NoLineLost
<1>2. /\ stack["main"] = <<"idle">> /\ stack["watch"] = << >> /\ out = << >> /\ complete = << >>
      /\ f_prevhost = Empty
  BY <1>1 DEF Init
<1>3. \A u \in Thread : \A i \in 1..Len(stack[u]) : i = 1 /\ stack[u][i] = "idle"
  <2>1. stack["main"] = <<"idle">> /\ stack["watch"] = << >>
    BY <1>2
  <2>2. \A i \in 1..Len(stack["main"]) : i = 1 /\ stack["main"][i] = "idle"
    BY <2>1
  <2>3. \A i \in 1..Len(stack["watch"]) : FALSE
    BY <2>1
  <2>. QED
    BY <2>2, <2>3, Labels
<1>4. f_prevcount = 0
  BY <1>1 DEF Init, Unrefused, Counter
<1>5. Base = "idle" /\ "idle" \notin InHand /\ "idle" \notin Payers /\ "idle" \notin Resets
  BY <1>2 DEF Base, InHand, Paying, Payers, Resets
<1>6. ~On(Payers) /\ ~On(Resets)
  BY <1>3, <1>5 DEF On
<1>7. Owed
  <2>1. f_prevcount >= 0 /\ ~(f_prevcount > 0)
    BY <1>4
  <2>. QED
    BY <1>4, <1>5, <1>6, <2>1 DEF Owed, Saved
<1>8. InWork
  BY <1>5 DEF InWork
<1>9. Logged = << >> /\ << >> \in Seq(Entry) /\ << >> \o << >> = << >>
  BY <1>2, LoggedKept, Nothing
<1>10. Known
  BY <1>2, <1>9 DEF Known, Saved
<1>11. Covered
  <2>1. Rest = << >> /\ Extra = << >>
    BY <1>4, <1>5, HeldNone DEF Rest, Extra
  <2>2. All(<< >>, << >>)
    BY FoundInNothing DEF All
  <2>. QED
    BY <1>2, <1>9, <2>1, <2>2 DEF Covered
<1>. QED
  BY <1>7, <1>8, <1>10, <1>11 DEF Kept

LEMMA UnrefusedBefore ==
    ASSUME Shape, Shape', Typed, Alone, [Next]_vars, Unrefused'
    PROVE  ~lossy /\ ~raced /\ ~raced' /\ ~lossy' /\ ~mistaken /\ ~mistaken'
BY TypedInvariance, AloneInvariance, MistakenStays DEF Unrefused

LEMMA NoLineLostInvariance ==
    ASSUME Shape, Shape', Typed, Counts, Alone, NoLineLost, [Next]_vars
    PROVE  NoLineLost'
<1>1. SUFFICES ASSUME Unrefused' PROVE Kept'
  BY DEF NoLineLost
<1>2. Kept /\ ~raced /\ ~raced' /\ ~lossy /\ ~lossy' /\ ~mistaken /\ ~mistaken'
  BY <1>1, UnrefusedBefore DEF NoLineLost, Unrefused
<1>3. f_prevcount \in Int /\ f_prevcount >= 0
  BY <1>2 DEF Kept, Owed, Typed, Destination, Saved
<1>4. f_prevcount # 0 => f_prevcount > 0
  BY <1>3
<1>5. Idle => At("main", "idle")
  BY DEF At, Last, Idle
<1>6. f_type # "unkn"
  BY <1>2 DEF Counts
<1>7. CASE LogMsg
  <2>. DEFINE a == "idle"
              b == "compare"
  <2>1. a \in BaseFrame /\ b \in BaseFrame /\ a \notin InHand
        /\ a \notin Resets \cup {"write dup", "reset new", "write new", "exited"}
        /\ b \notin Resets \cup {"hold", "reset new", "write new", "exited"}
        /\ a # "hold" /\ b # "write dup" /\ b \notin {"save", "read"} /\ b \notin Payers
    BY DEF BaseFrame, InHand, Resets, Payers, Paying
  <2>2. At("main", a) /\ Goto("main", b) /\ cur'.line \in Line /\ cur'.host \in Host
        /\ UNCHANGED <<out, f_prevcount, f_prevline, f_prevhost, long, complete>>
    BY <1>5, <1>7 DEF LogMsg, filed, history
  <2>3. stack["watch"] = << >>
    BY <1>2, <1>7 DEF LogMsg, Begin
  <2>. HIDE DEF a, b
  <2>4. Further(a, b)
    BY <2>1, <2>2 DEF Further
  <2>. QED
    BY <1>2, <2>1, <2>2, <2>3, <2>4, KeptFurther
<1>8. CASE Compare /\ Duplicate
  BY <1>2, <1>8, KeptCounted
<1>9. CASE Compare /\ ~Duplicate
  <2>. DEFINE a == "compare"
              b == IF f_prevcount # 0 THEN "flush" ELSE "save"
  <2>1. a \in BaseFrame \ {"idle"} /\ b \in BaseFrame /\ a \in InHand
        /\ a \notin Resets \cup {"write dup", "reset new", "write new", "exited"}
        /\ b \notin Resets \cup {"hold", "reset new", "write new", "exited"}
        /\ a # "hold" /\ b # "write dup"
    BY DEF BaseFrame, InHand, Resets, Payers, Paying
  <2>2. b \in {"save", "read"} => f_prevcount = 0
    OBVIOUS
  <2>3. b \in Payers => f_prevcount > 0
    <3>1. "save" \notin Payers
      BY DEF Payers, Paying
    <3>. QED
      BY <1>4, <3>1
  <2>4. At("main", a) /\ Goto("main", b)
        /\ UNCHANGED <<out, f_prevcount, f_prevline, f_prevhost, long, complete, cur>>
    BY <1>9, ResetFrameKeeps DEF Compare
  <2>. HIDE DEF a, b
  <2>5. Base = a
    BY <2>1, <2>4, BaseRuns
  <2>6. stack["watch"] = << >>
    BY <1>2, <2>1, <2>4, Busy
  <2>7. cur'.line \in Line /\ cur'.host \in Host
    BY <1>2, <2>1, <2>4, <2>5 DEF Kept, InWork
  <2>8. Further(a, b)
    BY <2>1, <2>2, <2>3, <2>7 DEF Further
  <2>. QED
    BY <1>2, <2>1, <2>4, <2>6, <2>8, KeptFurther
<1>10. CASE Hold
  <2>. DEFINE a == "hold"
              b == IF now > Repeattime THEN "write dup" ELSE "idle"
  <2>1. a \in BaseFrame \ {"idle"} /\ b \in BaseFrame /\ a \in InHand
        /\ a \notin Resets \cup {"write dup", "reset new", "write new", "exited"}
        /\ b \notin Resets \cup {"hold", "reset new", "write new", "exited"}
        /\ a = "hold" /\ b \in {"write dup", "idle"}
    BY DEF BaseFrame, InHand, Resets, Payers, Paying
  <2>2. At("main", a) /\ Goto("main", b)
        /\ UNCHANGED <<out, f_prevcount, f_prevline, f_prevhost, long, cur>>
        /\ complete' = IF b = "idle" THEN Append(complete, cur) ELSE complete
    BY <1>2, <1>10, ResetFrameKeeps DEF Hold, Done
  <2>. HIDE DEF a, b
  <2>3. Base = a
    BY <2>1, <2>2, BaseRuns
  <2>4. stack["watch"] = << >>
    BY <1>2, <2>1, <2>2, Busy
  <2>5. cur'.line \in Line /\ cur'.host \in Host
    BY <1>2, <2>1, <2>2, <2>3 DEF Kept, InWork
  <2>6. CASE b = "write dup"
    <3>1. Further(a, b) /\ complete' = complete
      BY <2>1, <2>2, <2>5, <2>6 DEF Further
    <3>. QED
      BY <1>2, <2>1, <2>2, <2>4, <3>1, KeptFurther
  <2>7. CASE b = "idle"
    <3>1. Ending(a, b)
      BY <2>1, <2>2, <2>7 DEF Ending
    <3>. QED
      BY <1>2, <2>1, <2>2, <2>4, <3>1, KeptEnding
  <2>. QED
    BY <2>1, <2>6, <2>7
<1>11. ASSUME NEW a \in BaseFrame \ {"idle"}, NEW b \in BaseFrame, At("main", a), Goto("main", b),
              Reset, ResetFrame,
              b \in {"idle", "save", "read"},
                a \in {"reset dup", "reset old", "reset new", "reset init"},
              b = "idle" <=> a \in {"hold", "reset dup", "reset new"},
              b = "save" <=> a = "reset old",
              complete' = IF b = "idle" THEN Append(complete, cur) ELSE complete
       PROVE  Kept'
  <2>1. stack["watch"] = << >>
    BY <1>2, <1>11, Busy
  <2>2. f_prevcount' = 0 /\ UNCHANGED <<out, f_prevline, f_prevhost, long, cur>>
    BY <1>6, <1>11, ResetFrameKeeps DEF Reset
  <2>3. Ending(a, b)
    BY <1>11, <2>2 DEF Ending
  <2>. QED
    BY <1>2, <1>11, <2>1, <2>2, <2>3, KeptEnding
<1>12. CASE ResetDup \/ ResetNew
  <2>1. \E a \in {"reset dup", "reset new"} : At("main", a) /\ Goto("main", "idle") /\ Reset /\ ResetFrame
           /\ complete' = Append(complete, cur)
    BY <1>2, <1>12 DEF ResetDup, ResetNew, Done
  <2>2. {"reset dup", "reset new"} \subseteq BaseFrame \ {"idle"} /\ "idle" \in BaseFrame
    BY DEF BaseFrame, InHand
  <2>. QED
    BY <1>11, <2>1, <2>2
<1>13. CASE ResetOld
  <2>1. At("main", "reset old") /\ Goto("main", "save") /\ Reset /\ ResetFrame /\ complete' = complete
    BY <1>13 DEF ResetOld
  <2>2. "reset old" \in BaseFrame \ {"idle"} /\ "save" \in BaseFrame
    BY DEF BaseFrame, InHand
  <2>. QED
    BY <1>11, <2>1, <2>2
<1>14. CASE ResetInit
  <2>1. At("main", "reset init") /\ Goto("main", "read") /\ Reset /\ ResetFrame /\ complete' = complete
    BY <1>14 DEF ResetInit
  <2>2. "reset init" \in BaseFrame \ {"idle"} /\ "read" \in BaseFrame
    BY DEF BaseFrame, InHand
  <2>. QED
    BY <1>11, <2>1, <2>2
<1>15. CASE WriteDup \/ WriteOld \/ WriteInit
  <2>0. PICK a \in {"write dup", "flush", "write init"},
             b \in {"reset dup", "reset old", "reset init"} :
           \E from : /\ At("main", a) /\ Write("main", from, Empty, b)
                     /\ a = "write dup" <=> b = "reset dup"
                     /\ b \in InHand => a \in InHand
    BY <1>15 DEF WriteDup, WriteOld, WriteInit, InHand
  <2>1. PICK from : /\ At("main", a) /\ Write("main", from, Empty, b)
                    /\ a = "write dup" <=> b = "reset dup"
                    /\ b \in InHand => a \in InHand
    BY <2>0
  <2>2. a \in BaseFrame /\ b \in BaseFrame /\ a \in Payers /\ b \in Resets
    BY DEF BaseFrame, InHand, Payers, Paying, Resets
  <2>3. Base = a /\ Base' = b
    BY <2>1, <2>2, WriteGoes, BaseGoto, Labels
  <2>4. Pair(a, b)
    BY <2>1, <2>3 DEF Pair
  <2>5. At("main", a) /\ Write("main", from, Empty, b) /\ "main" \in Thread
    BY <2>1, Labels
  <2>. QED
    BY <1>1, <1>2, <2>2, <2>4, <2>5, KeptPaid
<1>16. ASSUME NEW t \in Thread, WriteMark(t) \/ WriteExit(t) PROVE Kept'
  <2>1. PICK a \in {"write mark", "write exit"}, b \in {"reset mark", "reset exit"} :
           At(t, a) /\ Write(t, LocalHost, Empty, b)
    BY <1>16 DEF WriteMark, WriteExit
  <2>2. a \in HandlerFrame /\ b \in HandlerFrame /\ a \in Payers /\ b \in Resets /\ b \notin InHand
        /\ a # "write dup" /\ b # "reset dup"
    BY DEF HandlerFrame, MarkFrame, ExitFrame, InHand, Payers, Paying, Resets
  <2>3. Base' = Base
    BY <2>1, <2>2, WriteGoes, HandlerGoto
  <2>4. Pair(a, b)
    BY <2>2, <2>3 DEF Pair
  <2>5. At(t, a) /\ Write(t, LocalHost, Empty, b)
    BY <2>1
  <2>. QED
    BY <1>1, <1>2, <1>16, <2>2, <2>4, <2>5, KeptPaid
<1>17. CASE Save
  BY <1>2, <1>17, KeptSaved
<1>18. CASE WriteNew
  BY <1>1, <1>2, <1>18, KeptWritten
<1>19. CASE StartInit
  <2>. DEFINE a == "idle"
              b == IF f_prevcount # 0 THEN "write init" ELSE "read"
  <2>1. a \in BaseFrame /\ b \in BaseFrame /\ a \notin InHand /\ b \notin InHand
        /\ a \notin Resets \cup {"write dup", "reset new", "write new", "exited"}
        /\ b \notin Resets \cup {"hold", "reset new", "write new", "exited"}
        /\ a # "hold" /\ b # "write dup"
    BY DEF BaseFrame, InHand, Resets, Payers, Paying
  <2>2. b \in {"save", "read"} => f_prevcount = 0
    OBVIOUS
  <2>3. b \in Payers => f_prevcount > 0
    <3>1. "read" \notin Payers
      BY DEF Payers, Paying
    <3>. QED
      BY <1>4, <3>1
  <2>4. At("main", a) /\ Goto("main", b)
        /\ UNCHANGED <<out, f_prevcount, f_prevline, f_prevhost, long, complete, cur>>
    BY <1>5, <1>19 DEF StartInit, PendingAtInit, filed, history
  <2>5. stack["watch"] = << >>
    BY <1>2, <1>19 DEF StartInit, Begin
  <2>. HIDE DEF a, b
  <2>6. Further(a, b)
    BY <2>1, <2>2, <2>3 DEF Further
  <2>. QED
    BY <1>2, <2>1, <2>4, <2>5, <2>6, KeptFurther
<1>20. CASE Read
  BY <1>1, <1>2, <1>20, KeptRead
<1>21. CASE Tick \/ Hup \/ UNCHANGED vars
  <2>1. UNCHANGED <<stack, out, f_prevcount, f_prevline, f_prevhost, long, complete, cur>>
    BY <1>21 DEF Tick, Hup, vars, filed, history
  <2>2. Base' = Base /\ (On(Resets)' <=> On(Resets)) /\ (On(Payers)' <=> On(Payers))
    BY <2>1 DEF Base, On
  <2>. QED
    BY <1>2, <2>1, <2>2, KeptStill
<1>22. {"mark", "exit"} \subseteq HandlerFrame \ (Resets \cup Payers)
       /\ {"write mark", "write exit"} \subseteq HandlerFrame \ Resets
  BY DEF HandlerFrame, MarkFrame, ExitFrame, Resets, Payers, Paying
<1>23. ASSUME NEW t \in Thread, NEW a \in HandlerFrame, At(t, a) PROVE Base # "exited"
  <2>1. SUFFICES ASSUME Base = "exited" PROVE FALSE
    OBVIOUS
  <2>2. Len(stack["main"]) = 1 /\ stack["watch"] = << >>
    BY <2>1 DEF Shape
  <2>3. a # "exited"
    BY DEF HandlerFrame, MarkFrame, ExitFrame
  <2>. QED
    BY <1>23, <2>1, <2>2, <2>3, Labels DEF At, Last, Base
<1>24. ASSUME NEW t \in Thread, Alarm(t) \/ Term(t) PROVE Kept'
  <2>1. PICK b \in {"mark", "exit"} : Catch(t, b)
    BY <1>24 DEF Alarm, Term
  <2>2. UNCHANGED <<out, f_prevcount, f_prevline, f_prevhost, long, complete, cur>>
    BY <1>24 DEF Alarm, Term, filed, history
  <2>3. b \in HandlerFrame /\ b \notin Resets /\ b \notin Payers
    BY <1>22
  <2>4. Base # "exited"
    <3>1. ~On({"exited"})
      BY <1>24 DEF Alarm, Term
    <3>2. 1 \in 1..Len(stack["main"])
      <4>. DEFINE n == Len(stack["main"])
      <4>1. n \in 1..3
        BY DEF Shape
      <4>. HIDE DEF n
      <4>2. 1 \in 1..n
        BY <4>1
      <4>. QED
        BY <4>2 DEF n
    <3>. QED
      BY <3>1, <3>2, Labels DEF On, Base
  <2>. QED
    BY <1>2, <1>24, <2>1, <2>2, <2>3, <2>4, KeptHandled
<1>25. ASSUME NEW t \in Thread, Domark(t) PROVE Kept'
  <2>. DEFINE a == "mark"
              b == "write mark"
  <2>1. At(t, a) /\ (Goto(t, b) \/ Return(t)) /\ (Goto(t, b) => TRUE)
        /\ UNCHANGED <<out, f_prevcount, f_prevline, f_prevhost, long, complete, cur>>
    BY <1>25, ResetFrameKeeps DEF Domark
  <2>2. Due => f_prevcount > 0
    BY <1>4 DEF Due
  <2>3. a \in HandlerFrame /\ b \in HandlerFrame /\ a \notin Resets /\ b \notin Resets /\ a \notin Payers
    BY <1>22
  <2>6. Base # "exited"
    BY <1>23, <1>25, <2>1, <2>3
  <2>4. CASE Due
    <3>1. f_prevcount > 0
      BY <2>2, <2>4
    <3>. HIDE DEF a, b
    <3>. QED
      BY <1>2, <1>25, <2>1, <2>3, <2>6, <3>1, KeptHandled
  <2>5. CASE ~Due
    <3>1. Return(t)
      BY <1>25, <2>5 DEF Domark
    <3>. HIDE DEF a, b
    <3>. QED
      BY <1>2, <1>25, <2>1, <2>3, <2>6, <3>1, KeptHandled
  <2>. QED
    BY <2>4, <2>5
<1>26. ASSUME NEW t \in Thread, ResetMark(t) PROVE Kept'
  <2>. DEFINE a == "reset mark"
  <2>1. a \in MarkFrame /\ a \in Resets
    BY DEF MarkFrame, Resets
  <2>2. At(t, a) /\ Return(t) /\ Reset /\ ResetFrame /\ UNCHANGED complete
    BY <1>26 DEF ResetMark
  <2>. HIDE DEF a
  <2>. QED
    BY <1>2, <1>26, <2>1, <2>2, KeptMarked
<1>27. ASSUME NEW t \in Thread, Die(t) PROVE Kept'
  <2>. DEFINE a == "exit"
              b == "write exit"
  <2>1. At(t, a) /\ UNCHANGED <<out, f_prevcount, f_prevline, f_prevhost, long, complete, cur>>
    BY <1>27, ResetFrameKeeps DEF Die
  <2>2. a \in HandlerFrame /\ b \in HandlerFrame /\ a \notin Resets /\ b \notin Resets
    BY <1>22
  <2>5. Base # "exited"
    BY <1>23, <1>27, <2>1, <2>2
  <2>3. CASE f_prevcount # 0
    <3>1. Goto(t, b) /\ f_prevcount > 0
      BY <1>4, <1>27, <2>3 DEF Die, PendingAtExit
    <3>. HIDE DEF a, b
    <3>. QED
      BY <1>2, <1>27, <2>1, <2>2, <2>5, <3>1, KeptHandled
  <2>4. CASE f_prevcount = 0
    <3>1. Exit /\ f_prevcount' = 0
      BY <1>27, <2>1, <2>4 DEF Die, PendingAtExit
    <3>3. Rest = << >>
      BY <2>4, HeldNone DEF Rest
    <3>. QED
      BY <1>2, <2>1, <3>1, <3>3, KeptSettled
  <2>. QED
    BY <2>3, <2>4
<1>28. ASSUME NEW t \in Thread, ResetExit(t) PROVE Kept'
  <2>1. At(t, "reset exit") /\ Exit /\ f_prevcount' = 0 /\ UNCHANGED <<out, complete, cur>>
    BY <1>6, <1>28, ResetFrameKeeps DEF ResetExit, Reset
  <2>2. "reset exit" \in HandlerFrame /\ "reset exit" \in Resets
    BY DEF HandlerFrame, ExitFrame, Resets
  <2>4. On(Resets)
    <3>1. stack[t] # << >> /\ stack[t][Len(stack[t])] = "reset exit" /\ Stacks
      BY <2>1 DEF At, Last, Shape
    <3>3. stack[t] \in Seq(Frame) /\ stack[t] # << >>
      BY <1>28, <3>1 DEF Stacks
    <3>2. Len(stack[t]) \in 1..Len(stack[t])
      BY <3>3
    <3>. QED
      BY <1>28, <2>2, <3>1, <3>2 DEF On
  <2>5. Rest = << >>
    BY <2>4 DEF Rest
  <2>. QED
    BY <1>2, <2>1, <2>5, KeptSettled
<1>. QED
  BY <1>7, <1>8, <1>9, <1>10, <1>12, <1>13, <1>14, <1>15, <1>16, <1>17, <1>18, <1>19, <1>20, <1>21,
     <1>24, <1>25, <1>26, <1>27, <1>28
     DEF Next, LogSteps, Reload, Signals, Handlers

(* Until something is refused, or a handler and logmsg work on f at the     *)
(* same time, every line that came is in the log, held back or in hand.     *)
THEOREM NoLineLostKept == Spec => [](Alone /\ NoLineLost)
<1>1. Init => Alone /\ NoLineLost
  <2>1. Init => Alone
    BY DEF Init, Alone, Idle
  <2>. QED
    BY <2>1, NoLineLostInit
<1>2. IInv /\ IInv' /\ (Alone /\ NoLineLost) /\ [Next]_vars => (Alone /\ NoLineLost)'
  BY AloneInvariance, NoLineLostInvariance DEF IInv
<1>. QED
  BY <1>1, <1>2, Invariance, PTL DEF Spec

(* Whatever signal comes when, even in the middle of a write, no line that  *)
(* came is missing from the log and from what is held back, and their order *)
(* stays, as long as a handler and logmsg are not at work on f at once.     *)
THEOREM NoneIsLost == Spec => []NothingLost
<1>1. IInv /\ NoLineLost => NothingLost
  <2>1. SUFFICES ASSUME IInv, NoLineLost, ~raced, ~mistaken,
                        ~lossy PROVE Found(complete, Logged \o Held) = Len(complete)
    BY DEF NothingLost, EveryLineLogged
  <2>2. Kept /\ Typed
    BY <2>1 DEF NoLineLost, Unrefused, IInv
  <2>3. /\ complete \in Seq(Entry) /\ cur \in Entry /\ Logged \in Seq(Entry) /\ Held \in Seq(Entry)
        /\ Extra = << >> \/ Extra = <<cur>>
    <3>1. f_prevcount >= 0
      BY <2>2 DEF Kept, Owed, Saved
    <3>. QED
      BY <2>2, <3>1, HeldIs DEF Kept, Known, Typed, Lines, Extra, Saved
  <2>4. All(complete \o Extra, Logged \o Held)
    <3>1. CASE Rest = Held
      BY <2>2, <3>1 DEF Kept, Covered
    <3>2. CASE Rest = << >>
      <4>1. Logged \o << >> = Logged
        BY <2>3, Nothing
      <4>2. All(complete \o Extra, Logged)
        BY <2>2, <3>2, <4>1 DEF Kept, Covered
      <4>. QED
        BY <2>2, <2>3, <4>2, ExtraIs, AllInLonger
    <3>. QED
      BY <3>1, <3>2 DEF Rest
  <2>. DEFINE L == Logged \o Held
  <2>5. complete \o << >> = complete /\ complete \o <<cur>> = Append(complete, cur) /\ L \in Seq(Entry)
    BY <2>3, Nothing, OneMore, ConcatProperties
  <2>6. All(complete, L) \/ All(Append(complete, cur), L)
    BY <2>3, <2>4, <2>5
  <2>. HIDE DEF L
  <2>7. All(complete, L)
    BY <2>3, <2>5, <2>6, AllAndOne
  <2>. QED
    BY <2>7 DEF All, L
<1>. QED
  BY <1>1, Invariance, NoLineLostKept, PTL
----------------------------------------------------------------------------
(***************************************************************************)
(* What NoHops leaves out.  logmsg writes a repetition with the host of    *)
(* the line that comes next, so one of local lines may be left out; but    *)
(* it is a repetition of the entry before it, which was written with the   *)
(* host that the line came from.                                           *)
(***************************************************************************)
(* The line in f_prevline has been written.                                 *)
Settled == Base \notin {"write new", "exited"}

Newest == Len(out) > 0 /\ out[Len(out)].line = f_prevline /\ out[Len(out)].host = f_prevhost

Remembered ==
    /\ Base = "save" => f_prevcount = 0
    /\ f_prevcount # 0 => Saved
    /\ Base \in {"hold", "write dup", "flush"} => Saved
    /\ Saved /\ Settled => Newest

Explained(i) ==
    /\ NoHops
    /\ \/ out[i].host # LocalHost
       \/ i > 1 /\ out[i].line = out[i - 1].line /\ out[i].host = out[i - 1].host

Firsts == Remembered /\ InWork /\ \A i \in left : Explained(i)

FirstsSent == (lossy => left = {}) /\ (~lossy /\ ~mistaken => Firsts)

(* A step that works on no line, or is the last.                            *)
LEMMA FirstsStill ==
    ASSUME Firsts, UNCHANGED <<out, left, f_prevline, f_prevhost, long, cur>>,
           Base' = Base \/ Base' = "exited",
           f_prevcount' = f_prevcount \/ f_prevcount' = 0
    PROVE  Firsts'
<1>1. (Newest' <=> Newest) /\ (Saved' <=> Saved)
  BY DEF Newest, Saved
<1>2. Remembered'
  BY <1>1 DEF Firsts, Remembered, Settled
<1>3. InWork'
  BY DEF Firsts, InWork, InHand
<1>4. \A i \in left' : Explained(i)'
  BY DEF Firsts, Explained
<1>. QED
  BY <1>2, <1>3, <1>4 DEF Firsts

(* logmsg or init goes on without a write.                                  *)
LEMMA FirstsOnward ==
    ASSUME Shape, Firsts, NEW a \in BaseFrame, NEW b \in BaseFrame,
           At("main", a), Goto("main", b),
           UNCHANGED <<out, left, f_prevline, f_prevhost, long>>,
           a \notin {"write new", "exited"}, b \notin {"write new", "exited"},
           b = "save" => f_prevcount' = 0,
           f_prevcount' # 0 => Saved,
           b \in {"hold", "write dup", "flush"} => Saved,
           b \in InHand => cur'.line \in Line /\ cur'.host \in Host
    PROVE  Firsts'
<1>1. (Newest' <=> Newest) /\ (Saved' <=> Saved)
  BY DEF Newest, Saved
<1>2. Base = a /\ Base' = b
  BY BaseGoto, Labels
<1>3. Remembered'
  BY <1>1, <1>2 DEF Firsts, Remembered, Settled
<1>4. InWork'
  BY <1>2 DEF InWork
<1>5. \A i \in left' : Explained(i)'
  BY DEF Firsts, Explained
<1>. QED
  BY <1>3, <1>4, <1>5 DEF Firsts

(* What a write adds, and whether it is left out.                           *)
LEMMA FirstsAdded ==
    ASSUME Typed, Counts, Firsts, NEW t, NEW from, NEW msg \in Line \cup {Empty}, NEW next,
           Write(t, from, msg, next), ~lossy',
           \/ from = LocalHost
           \/ from = f_prevhost
           \/ Saved /\ Settled /\ msg = Empty
    PROVE  /\ UNCHANGED <<f_prevcount, f_prevline, f_prevhost, long, cur>>
           /\ msg = Empty => Newest'
           /\ \A i \in left' : Explained(i)'
<1>1. /\ ~lossy /\ out' = Append(out, Text(msg))
      /\ UNCHANGED <<f_prevcount, f_prevline, f_prevhost, long, cur>>
  BY Accepted
<1>2. left' = left \/ (left' = left \cup {Len(out) + 1} /\ from # LocalHost /\ NoHops)
  <2>1. f_type \in {"file", "forw"}
    BY <1>1 DEF Counts
  <2>2. Out(t, from, msg)
    BY <2>1 DEF Write
  <2>3. CASE f_type # "file" /\ from # LocalHost /\ NoHops
    BY <1>1, <2>2, <2>3 DEF Out, AfterSend, AfterWrite
  <2>4. CASE ~(f_type # "file" /\ from # LocalHost /\ NoHops)
    <3>1. left' = IF lossy' THEN {} ELSE left
      BY <2>2, <2>4 DEF Out, AfterSend, AfterWrite
    <3>. QED
      BY <3>1
  <2>. QED
    BY <2>3, <2>4
<1>3. out \in Seq(Said) /\ Text(msg) \in Said /\ left \subseteq 1..Len(out)
  BY TextIs DEF Typed, Lines
<1>0. Len(out) \in Nat
  BY <1>3
<1>. PICK n \in Nat : n = Len(out)
  BY <1>0
<1>. PICK e \in Said : e = Text(msg)
  BY <1>3
<1>4. e.host = f_prevhost /\ (msg = Empty => e.line = f_prevline)
  <2>1. CASE msg = Empty
    BY <2>1 DEF Text
  <2>2. CASE msg # Empty
    BY <2>2 DEF Text
  <2>. QED
    BY <2>1, <2>2
<1>5. n \in Nat /\ Len(out') = n + 1 /\ out'[n + 1] = e /\ \A i \in 1..n : out'[i] = out[i]
  BY <1>1, <1>3, AppendIs
<1>6. msg = Empty => Newest'
  BY <1>1, <1>4, <1>5 DEF Newest
<1>7. ASSUME NEW i \in left PROVE Explained(i)'
  <2>1. Explained(i) /\ i \in 1..n
    BY <1>3 DEF Firsts
  <2>2. out'[i] = out[i] /\ (i > 1 => out'[i - 1] = out[i - 1])
    <3>1. i > 1 => i - 1 \in 1..n
      BY <1>5, <2>1
    <3>. QED
      BY <1>5, <2>1, <3>1
  <2>3. CASE out[i].host # LocalHost
    BY <2>1, <2>2, <2>3 DEF Explained
  <2>4. CASE i > 1 /\ out[i].line = out[i - 1].line /\ out[i].host = out[i - 1].host
    BY <2>1, <2>2, <2>4 DEF Explained
  <2>. QED
    BY <2>1, <2>3, <2>4 DEF Explained
<1>8. ASSUME left' = left \cup {n + 1}, from # LocalHost, NoHops PROVE Explained(n + 1)'
  <2>1. CASE from = f_prevhost
    BY <1>4, <1>5, <1>8, <2>1 DEF Explained
  <2>2. CASE Saved /\ Settled /\ msg = Empty
    <3>1. n > 0 /\ out[n].line = f_prevline /\ out[n].host = f_prevhost
      BY <2>2 DEF Firsts, Remembered, Settled, Newest
    <3>2. n + 1 > 1 /\ (n + 1) - 1 = n /\ n \in 1..n
      BY <1>5, <3>1
    <3>3. out'[n] = out[n] /\ out'[n + 1] = e
      BY <1>5, <3>2
    <3>4. out'[n + 1].line = out'[(n + 1) - 1].line /\ out'[n + 1].host = out'[(n + 1) - 1].host
      BY <1>4, <2>2, <3>1, <3>2, <3>3
    <3>. QED
      BY <1>8, <3>2, <3>4 DEF Explained
  <2>. QED
    BY <1>8, <2>1, <2>2
<1>9. \A i \in left' : Explained(i)'
  BY <1>2, <1>7, <1>8
<1>. QED
  BY <1>1, <1>6, <1>9

(* A repetition is written, by whichever routine.                           *)
LEMMA FirstsPaid ==
    ASSUME Typed, Counts, Firsts, NEW t, NEW from, NEW next, Write(t, from, Empty, next), ~lossy',
           from = LocalHost \/ (Saved /\ Settled),
           Base' = Base \/ Base' \in {"reset dup", "reset old", "reset init"},
           Base' \in InHand => Base \in InHand
    PROVE  Firsts'
<1>1. /\ UNCHANGED <<f_prevcount, f_prevline, f_prevhost, long, cur>>
      /\ Newest' /\ \A i \in left' : Explained(i)'
  BY FirstsAdded
<1>2. Saved' <=> Saved
  BY <1>1 DEF Saved
<1>3. Remembered'
  BY <1>1, <1>2 DEF Firsts, Remembered, Settled
<1>4. InWork'
  BY <1>1 DEF Firsts, InWork
<1>. QED
  BY <1>1, <1>3, <1>4 DEF Firsts

LEMMA LeftNothing ==
    ASSUME Typed, FirstsSent, [Next]_vars, lossy'
    PROVE  left' = {}
<1>0. lossy => left = {}
  BY DEF FirstsSent
<1>1. ASSUME NEW t, NEW from, NEW msg, NEW next, Write(t, from, msg, next)
      PROVE  left' = {}
  <2>1. CASE UNCHANGED <<left, lossy>>
    BY <1>0, <2>1
  <2>2. CASE Out(t, from, msg)
    <3>1. CASE f_type # "file" /\ from # LocalHost /\ NoHops
      <4>1. UNCHANGED lossy /\ left' = IF lossy THEN left ELSE left \cup {Len(out) + 1}
        BY <2>2, <3>1 DEF Out, AfterSend, AfterWrite
      <4>. QED
        BY <1>0, <4>1
    <3>2. CASE ~(f_type # "file" /\ from # LocalHost /\ NoHops)
      <4>1. left' = IF lossy' THEN {} ELSE left
        BY <2>2, <3>2 DEF Out, AfterSend, AfterWrite
      <4>. QED
        BY <4>1
    <3>. QED
      BY <3>1, <3>2
  <2>. QED
    BY <1>1, <2>1, <2>2 DEF Write, Lookup
<1>2. CASE LogMsg \/ StartInit \/ Save \/ Tick \/ Hup \/ UNCHANGED vars
  BY <1>0, <1>2 DEF LogMsg, StartInit, Save, Tick, Hup, vars, history
<1>3. CASE Read
  BY <1>3 DEF Read
<1>4. CASE Compare \/ Hold \/ ResetDup \/ ResetOld \/ ResetNew \/ ResetInit
  BY <1>0, <1>4, ResetFrameKeeps DEF Compare, Hold, ResetDup, ResetOld, ResetNew, ResetInit
<1>5. CASE WriteDup \/ WriteOld \/ WriteNew \/ WriteInit
  BY <1>1, <1>5 DEF WriteDup, WriteOld, WriteNew, WriteInit
<1>6. ASSUME NEW t \in Thread, Alarm(t) \/ Term(t) PROVE left' = {}
  BY <1>0, <1>6 DEF Alarm, Term, history
<1>7. ASSUME NEW t \in Thread,
             Domark(t) \/ ResetMark(t) \/ Die(t) \/ ResetExit(t) PROVE left' = {}
  BY <1>0, <1>7, ResetFrameKeeps DEF Domark, ResetMark, Die, ResetExit
<1>8. ASSUME NEW t \in Thread, WriteMark(t) \/ WriteExit(t) PROVE left' = {}
  BY <1>1, <1>8 DEF WriteMark, WriteExit
<1>. QED
  BY <1>2, <1>3, <1>4, <1>5, <1>6, <1>7, <1>8 DEF Next, LogSteps, Reload, Signals, Handlers

LEMMA FirstsInvariance ==
    ASSUME Shape, Shape', Typed, Counts, FirstsSent, [Next]_vars
    PROVE  FirstsSent'
<1>1. SUFFICES ASSUME ~lossy', ~mistaken' PROVE Firsts'
  BY LeftNothing DEF FirstsSent
<1>2. ~lossy /\ ~mistaken /\ Firsts
  BY <1>1, TypedInvariance, MistakenStays DEF FirstsSent
<1>3. f_type \in {"file", "forw"}
  BY <1>2 DEF Counts
<1>4. InWork /\ Remembered
  BY <1>2 DEF Firsts
<1>5. Idle => At("main", "idle")
  BY DEF At, Last, Idle
<1>6. BaseFrame = {"compare", "hold", "write dup", "reset dup", "flush", "reset old", "save", "write new",
                   "reset new", "idle", "read", "write init", "reset init", "exited"}
      /\ InHand = {"compare", "hold", "write dup", "reset dup", "flush", "reset old",
                   "save", "write new", "reset new"}
  BY DEF BaseFrame, InHand
<1>7. CASE LogMsg
  <2>1. At("main", "idle") /\ Goto("main", "compare") /\ cur'.line \in Line /\ cur'.host \in Host
        /\ UNCHANGED <<out, left, f_prevcount, f_prevline, f_prevhost, long>>
    BY <1>5, <1>7 DEF LogMsg, filed, history
  <2>. QED
    BY <1>2, <1>4, <1>6, <2>1, FirstsOnward DEF Remembered, Settled
<1>8. CASE Compare
  <2>. DEFINE b == IF Duplicate THEN "hold" ELSE IF f_prevcount # 0 THEN "flush" ELSE "save"
  <2>1. At("main", "compare") /\ UNCHANGED <<out, left, f_prevline, f_prevhost, long, cur>>
    BY <1>8, ResetFrameKeeps DEF Compare
  <2>2. Base = "compare"
    BY <1>6, <2>1, BaseRuns
  <2>3. cur.line \in Line /\ cur.host \in Host
    BY <1>4, <1>6, <2>2 DEF InWork
  <2>4. CASE Duplicate
    <3>1. Goto("main", "hold") /\ mistaken' = (mistaken \/ (Duplicate /\ long))
      BY <1>8, <2>4 DEF Compare
    <3>2. ~long
      BY <1>1, <2>4, <3>1
    <3>3. f_prevhost # Empty
      BY <2>3, <2>4, RepeatAssumption DEF Duplicate, Host
    <3>4. Saved
      BY <3>2, <3>3 DEF Saved
    <3>. QED
      BY <1>2, <1>6, <2>1, <2>3, <3>1, <3>4, FirstsOnward
  <2>5. CASE ~Duplicate /\ f_prevcount # 0
    <3>1. Goto("main", "flush") /\ f_prevcount' = f_prevcount
      BY <1>8, <2>5 DEF Compare
    <3>. QED
      BY <1>2, <1>4, <1>6, <2>1, <2>3, <2>5, <3>1, FirstsOnward DEF Remembered, Settled
  <2>6. CASE ~Duplicate /\ f_prevcount = 0
    <3>1. Goto("main", "save") /\ f_prevcount' = f_prevcount
      BY <1>8, <2>6 DEF Compare
    <3>. QED
      BY <1>2, <1>4, <1>6, <2>1, <2>3, <2>6, <3>1, FirstsOnward DEF Remembered, Settled
  <2>. QED
    BY <2>4, <2>5, <2>6
<1>9. CASE Hold
  <2>1. PICK b \in {"write dup", "idle"} : Goto("main", b)
    BY <1>9 DEF Hold, Done
  <2>2. At("main", "hold") /\ UNCHANGED <<out, left, f_prevcount, f_prevline, f_prevhost, long, cur>>
    BY <1>9, ResetFrameKeeps DEF Hold
  <2>3. Base = "hold"
    BY <1>6, <2>2, BaseRuns
  <2>4. Saved /\ cur.line \in Line /\ cur.host \in Host
    BY <1>4, <1>6, <2>3 DEF Remembered, InWork
  <2>. QED
    BY <1>2, <1>6, <2>1, <2>2, <2>4, FirstsOnward
<1>10. ASSUME NEW a \in {"reset dup", "reset old", "reset new", "reset init"}, NEW b \in {"idle", "save", "read"},
              At("main", a), Goto("main", b), Reset, ResetFrame, b = "save" => a = "reset old"
       PROVE  Firsts'
  <2>1. f_prevcount' = 0 /\ UNCHANGED <<out, left, f_prevline, f_prevhost, long, cur>>
    BY <1>3, <1>10, ResetFrameKeeps DEF Reset
  <2>2. Base = a
    BY <1>6, <1>10, BaseRuns
  <2>3. b \in InHand => cur'.line \in Line /\ cur'.host \in Host
    BY <1>4, <1>6, <1>10, <2>1, <2>2 DEF InWork
  <2>. QED
    BY <1>2, <1>6, <1>10, <2>1, <2>3, FirstsOnward
<1>11. CASE ResetDup \/ ResetNew \/ ResetOld \/ ResetInit
  BY <1>10, <1>11 DEF ResetDup, ResetNew, ResetOld, ResetInit, Done
<1>12. CASE WriteDup \/ WriteOld
  <2>1. PICK a \in {"write dup", "flush"}, b \in {"reset dup", "reset old"} :
           At("main", a) /\ Write("main", cur.host, Empty, b)
    BY <1>12 DEF WriteDup, WriteOld
  <2>2. Base = a /\ Base' = b
    BY <1>6, <2>1, WriteGoes, BaseGoto, Labels
  <2>3. Saved
    BY <1>4, <2>2 DEF Remembered, Settled
  <2>. QED
    BY <1>1, <1>2, <1>6, <2>1, <2>2, <2>3, FirstsPaid DEF Settled
<1>13. CASE WriteInit
  <2>1. At("main", "write init") /\ Write("main", LocalHost, Empty, "reset init")
    BY <1>13 DEF WriteInit
  <2>2. Base' = "reset init"
    BY <1>6, <2>1, WriteGoes, BaseGoto, Labels
  <2>. QED
    BY <1>1, <1>2, <1>6, <2>1, <2>2, FirstsPaid
<1>14. ASSUME NEW t \in Thread, WriteMark(t) \/ WriteExit(t) PROVE Firsts'
  <2>1. PICK a \in {"write mark", "write exit"}, b \in {"reset mark", "reset exit"} :
           At(t, a) /\ Write(t, LocalHost, Empty, b)
    BY <1>14 DEF WriteMark, WriteExit
  <2>2. a \in HandlerFrame /\ b \in HandlerFrame
    BY DEF HandlerFrame, MarkFrame, ExitFrame
  <2>3. Base' = Base
    BY <2>1, <2>2, WriteGoes, HandlerGoto
  <2>. QED
    BY <1>1, <1>2, <2>1, <2>3, FirstsPaid
<1>15. CASE Save
  <2>1. /\ At("main", "save") /\ Goto("main", "write new")
        /\ UNCHANGED <<out, left, f_prevcount, cur>>
        /\ f_prevline' = (IF cur.line \in LongLine THEN Empty ELSE cur.line) /\ f_prevhost' = cur.host
        /\ long' = (cur.line \in LongLine)
    BY <1>15 DEF Save, SaveHost
  <2>2. Base = "save" /\ Base' = "write new"
    BY <1>6, <2>1, BaseGoto, Labels
  <2>3. f_prevcount' = 0
    BY <1>4, <2>1, <2>2 DEF Remembered, Settled
  <2>4. Remembered'
    BY <2>2, <2>3 DEF Remembered, Settled
  <2>5. InWork'
    BY <1>4, <1>6, <2>1, <2>2 DEF InWork
  <2>6. \A i \in left' : Explained(i)'
    BY <1>2, <2>1 DEF Firsts, Explained
  <2>. QED
    BY <2>4, <2>5, <2>6 DEF Firsts
<1>16. CASE WriteNew
  <2>. DEFINE msg == IF cur.line \in LongLine THEN cur.line ELSE Empty
  <2>1. At("main", "write new") /\ Write("main", cur.host, msg, "reset new") /\ msg \in Line \cup {Empty}
    BY <1>16, MessagesTyped DEF WriteNew
  <2>2. Base = "write new" /\ Base' = "reset new"
    BY <1>6, <2>1, WriteGoes, BaseGoto, Labels
  <2>3. cur.host = f_prevhost /\ (long <=> cur.line \in LongLine) /\ cur.line \in Line /\ cur.host \in Host
    BY <1>4, <1>6, <2>2 DEF InWork
  <2>4. Saved => msg = Empty
    BY <2>3 DEF Saved
  <2>. HIDE DEF msg
  <2>5. /\ UNCHANGED <<f_prevcount, f_prevline, f_prevhost, long, cur>>
        /\ msg = Empty => Newest'
        /\ \A i \in left' : Explained(i)'
    BY <1>1, <1>2, <2>1, <2>3, FirstsAdded
  <2>6. Saved' <=> Saved
    BY <2>5 DEF Saved
  <2>7. Remembered'
    BY <1>4, <2>2, <2>4, <2>5, <2>6 DEF Remembered, Settled
  <2>8. InWork'
    BY <2>2, <2>3, <2>5 DEF InWork
  <2>. QED
    BY <2>5, <2>7, <2>8 DEF Firsts
<1>17. CASE StartInit
  <2>1. PICK b \in {"write init", "read"} : Goto("main", b)
    BY <1>17 DEF StartInit
  <2>2. At("main", "idle") /\ UNCHANGED <<out, left, f_prevcount, f_prevline, f_prevhost, long, cur>>
    BY <1>5, <1>17 DEF StartInit, filed, history
  <2>. QED
    BY <1>2, <1>4, <1>6, <2>1, <2>2, FirstsOnward DEF Remembered, Settled
<1>18. CASE Read
  <2>1. /\ At("main", "read") /\ Goto("main", "idle") /\ f_prevhost' = Empty /\ f_prevcount' = 0
        /\ UNCHANGED <<out, left>>
    BY <1>1, <1>18 DEF Read, Counter
  <2>2. Base' = "idle"
    BY <1>6, <2>1, BaseGoto, Labels
  <2>3. Remembered' /\ InWork'
    BY <1>6, <2>1, <2>2 DEF Remembered, Settled, Saved, InWork
  <2>4. \A i \in left' : Explained(i)'
    BY <1>2, <2>1 DEF Firsts, Explained
  <2>. QED
    BY <2>3, <2>4 DEF Firsts
<1>19. CASE Tick \/ Hup \/ UNCHANGED vars
  <2>1. UNCHANGED <<stack, out, left, f_prevcount, f_prevline, f_prevhost, long, cur>>
    BY <1>19 DEF Tick, Hup, vars, filed, history
  <2>2. Base' = Base
    BY <2>1 DEF Base
  <2>. QED
    BY <1>2, <2>1, <2>2, FirstsStill
<1>20. ASSUME NEW t \in Thread, Alarm(t) \/ Term(t) PROVE Firsts'
  <2>1. PICK b \in HandlerFrame : Catch(t, b)
    BY <1>20 DEF Alarm, Term, HandlerFrame, MarkFrame, ExitFrame
  <2>2. UNCHANGED <<out, left, f_prevcount, f_prevline, f_prevhost, long, cur>>
    BY <1>20 DEF Alarm, Term, filed, history
  <2>3. Base' = Base
    BY <1>20, <2>1, HandlerCatch
  <2>. QED
    BY <1>2, <2>2, <2>3, FirstsStill
<1>21. ASSUME NEW t \in Thread, Domark(t) \/ ResetMark(t) \/ Die(t) \/ ResetExit(t) PROVE Firsts'
  <2>1. UNCHANGED <<out, left, f_prevline, f_prevhost, long, cur>>
    BY <1>21, ResetFrameKeeps DEF Domark, ResetMark, Die, ResetExit
  <2>2. f_prevcount' = f_prevcount \/ f_prevcount' = 0
    BY <1>21 DEF Domark, ResetMark, Die, ResetExit, Reset
  <2>3. PICK a \in HandlerFrame, b \in HandlerFrame :
           At(t, a) /\ (Goto(t, b) \/ Return(t) \/ Exit)
    BY <1>21 DEF Domark, ResetMark, Die, ResetExit, HandlerFrame, MarkFrame, ExitFrame
  <2>4. Base' = Base \/ Base' = "exited"
    <3>1. CASE Exit
      BY <3>1 DEF Exit, Base
    <3>2. CASE Goto(t, b) \/ Return(t)
      BY <1>21, <2>3, <3>2, HandlerGoto, HandlerReturn
    <3>. QED
      BY <2>3, <3>1, <3>2
  <2>. QED
    BY <1>2, <2>1, <2>2, <2>4, FirstsStill
<1>. QED
  BY <1>7, <1>8, <1>9, <1>11, <1>12, <1>13, <1>14, <1>15, <1>16, <1>17, <1>18, <1>19, <1>20, <1>21
     DEF Next, LogSteps, Reload, Signals, Handlers

(* Whatever lines, alarms and signals come, and on whichever thread, what   *)
(* NoHops keeps from another host is a line of a third host or repeats the  *)
(* entry before it: the first of the local lines is always sent.            *)
THEOREM OnlyRepeatsLeftOut == Spec => []LeftOut
<1>1. Init => FirstsSent
  <2>1. SUFFICES ASSUME Init PROVE FirstsSent
    OBVIOUS
  <2>2. stack["main"] = <<"idle">> /\ left = {} /\ f_prevhost = Empty
    BY <2>1 DEF Init
  <2>3. Base = "idle" /\ "idle" \notin InHand /\ ~Saved
    BY <2>2 DEF Base, InHand, Saved
  <2>4. ~lossy => f_prevcount = 0
    BY <2>1 DEF Init, Counter
  <2>. QED
    BY <2>2, <2>3, <2>4 DEF FirstsSent, Firsts, Remembered, Settled, InWork
<1>2. IInv /\ IInv' /\ FirstsSent /\ [Next]_vars => FirstsSent'
  BY FirstsInvariance DEF IInv
<1>3. FirstsSent => LeftOut
  BY DEF FirstsSent, Firsts, Explained, LeftOut
<1>. QED
  BY <1>1, <1>2, <1>3, Invariance, PTL DEF Spec
============================================================================
