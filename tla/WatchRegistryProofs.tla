------------------------ MODULE WatchRegistryProofs ------------------------
(***************************************************************************)
(* Theorems about WatchRegistry, for any clients, descriptors, lines,      *)
(* filters, departures and failures.  The types hold whatever the threads  *)
(* do.  The rest holds of the two threads running at the same time, as     *)
(* long as they do not clash and a client makes one good request (Apart of *)
(* WatchRegistry): nothing in the code rules a clash out, and the theorems *)
(* say that a clash is the only thing that can go wrong.                   *)
(***************************************************************************)
EXTENDS WatchRegistry, FiniteSetTheorems, TLAPS

(* The one watcher of a client.                                             *)
W(c) == <<c, 1>>

watcher_t == [st : {"none", "live", "freed"}, filter : BOOLEAN,
              next : Watcher \cup {NoOne, Junk}, prev : Watcher \cup {NoOne, Junk}]
eventConn_t == [st : {"none", "live", "freed"}, fd : Fd \cup {NoOne},
                watch : Watcher \cup {NoOne}]

LEMMA OneWatcherEach ==
    ASSUME MaxGood = 1
    PROVE  /\ \A c \in Client : W(c) \in Watcher /\ W(c)[1] = c
           /\ \A w \in Watcher : w[1] \in Client /\ w = W(w[1])
           /\ NoOne \notin Watcher /\ Junk \notin Watcher /\ NoOne \notin Client
           /\ NoOne \notin Fd /\ NoOne # Junk
  BY RegistryAssumption DEF W, Watcher

LEMMA OneWatcher ==
    /\ \A c \in Client : W(c) \in Watcher /\ W(c)[1] = c
    /\ \A w \in Watcher : w[1] \in Client
    /\ NoOne \notin Watcher /\ Junk \notin Watcher /\ NoOne \notin Client
    /\ NoOne \notin Fd /\ NoOne # Junk
    /\ "conn" \in Thread /\ "disp" \in Thread
  BY RegistryAssumption DEF W, Watcher, Thread

LEMMA FieldSet ==
    ASSUME NEW n \in watcher_t, NEW x \in Watcher \cup {NoOne, Junk}
    PROVE  /\ [n EXCEPT !.next = x] \in watcher_t /\ [n EXCEPT !.prev = x] \in watcher_t
           /\ [n EXCEPT !.filter = FALSE] \in watcher_t /\ [n EXCEPT !.st = "freed"] \in watcher_t
  BY DEF watcher_t

(* Writing one field of one watcher.                                        *)
NextSet(m, w, x) == [m EXCEPT ![w].next = x]
PrevSet(m, w, x) == [m EXCEPT ![w].prev = x]
FilterFreed(m, w) == [m EXCEPT ![w].filter = FALSE]
Freed(m, w) == [m EXCEPT ![w].st = "freed"]

LEMMA WriteNext ==
    ASSUME NEW m \in [Watcher -> watcher_t], NEW w \in Watcher, NEW x \in Watcher \cup {NoOne, Junk}
    PROVE  LET m2 == NextSet(m, w, x) IN
           /\ m2 \in [Watcher -> watcher_t] /\ m2[w].next = x
           /\ m2[w].st = m[w].st /\ m2[w].filter = m[w].filter /\ m2[w].prev = m[w].prev
           /\ \A v \in Watcher \ {w} : m2[v] = m[v]
<1>. DEFINE m2 == [m EXCEPT ![w].next = x]
<1>1. m[w] \in watcher_t
  OBVIOUS
<1>2. [m[w] EXCEPT !.next = x] \in watcher_t
  BY <1>1, FieldSet
<1>3. m2 = [m EXCEPT ![w] = [m[w] EXCEPT !.next = x]]
  OBVIOUS
<1>4. m2[w] = [m[w] EXCEPT !.next = x]
  BY <1>3
<1>5. m2[w].next = x /\ m2[w].st = m[w].st /\ m2[w].filter = m[w].filter /\ m2[w].prev = m[w].prev
  BY <1>1, <1>4 DEF watcher_t
<1>. QED
  BY <1>2, <1>3, <1>5 DEF NextSet

LEMMA WritePrev ==
    ASSUME NEW m \in [Watcher -> watcher_t], NEW w \in Watcher, NEW x \in Watcher \cup {NoOne, Junk}
    PROVE  LET m2 == PrevSet(m, w, x) IN
           /\ m2 \in [Watcher -> watcher_t] /\ m2[w].prev = x
           /\ m2[w].st = m[w].st /\ m2[w].filter = m[w].filter /\ m2[w].next = m[w].next
           /\ \A v \in Watcher \ {w} : m2[v] = m[v]
<1>. DEFINE m2 == [m EXCEPT ![w].prev = x]
<1>1. m[w] \in watcher_t
  OBVIOUS
<1>2. [m[w] EXCEPT !.prev = x] \in watcher_t
  BY <1>1, FieldSet
<1>3. m2 = [m EXCEPT ![w] = [m[w] EXCEPT !.prev = x]]
  OBVIOUS
<1>4. m2[w] = [m[w] EXCEPT !.prev = x]
  BY <1>3
<1>5. m2[w].prev = x /\ m2[w].st = m[w].st /\ m2[w].filter = m[w].filter /\ m2[w].next = m[w].next
  BY <1>1, <1>4 DEF watcher_t
<1>. QED
  BY <1>2, <1>3, <1>5 DEF PrevSet

LEMMA WriteFilter ==
    ASSUME NEW m \in [Watcher -> watcher_t], NEW w \in Watcher
    PROVE  LET m2 == FilterFreed(m, w) IN
           /\ m2 \in [Watcher -> watcher_t] /\ m2[w].filter = FALSE
           /\ m2[w].st = m[w].st /\ m2[w].next = m[w].next /\ m2[w].prev = m[w].prev
           /\ \A v \in Watcher \ {w} : m2[v] = m[v]
<1>. DEFINE m2 == [m EXCEPT ![w].filter = FALSE]
<1>1. m[w] \in watcher_t
  OBVIOUS
<1>2. [m[w] EXCEPT !.filter = FALSE] \in watcher_t
  BY <1>1, FieldSet
<1>3. m2 = [m EXCEPT ![w] = [m[w] EXCEPT !.filter = FALSE]]
  OBVIOUS
<1>4. m2[w] = [m[w] EXCEPT !.filter = FALSE]
  BY <1>3
<1>5. m2[w].filter = FALSE /\ m2[w].st = m[w].st /\ m2[w].next = m[w].next /\ m2[w].prev = m[w].prev
  BY <1>1, <1>4 DEF watcher_t
<1>. QED
  BY <1>2, <1>3, <1>5 DEF FilterFreed

LEMMA WriteSt ==
    ASSUME NEW m \in [Watcher -> watcher_t], NEW w \in Watcher
    PROVE  LET m2 == Freed(m, w) IN
           /\ m2 \in [Watcher -> watcher_t] /\ m2[w].st = "freed"
           /\ m2[w].filter = m[w].filter /\ m2[w].next = m[w].next /\ m2[w].prev = m[w].prev
           /\ \A v \in Watcher \ {w} : m2[v] = m[v]
<1>. DEFINE m2 == [m EXCEPT ![w].st = "freed"]
<1>1. m[w] \in watcher_t
  OBVIOUS
<1>2. [m[w] EXCEPT !.st = "freed"] \in watcher_t
  BY <1>1, FieldSet
<1>3. m2 = [m EXCEPT ![w] = [m[w] EXCEPT !.st = "freed"]]
  OBVIOUS
<1>4. m2[w] = [m[w] EXCEPT !.st = "freed"]
  BY <1>3
<1>5. m2[w].st = "freed" /\ m2[w].filter = m[w].filter /\ m2[w].next = m[w].next /\ m2[w].prev = m[w].prev
  BY <1>1, <1>4 DEF watcher_t
<1>. QED
  BY <1>2, <1>3, <1>5 DEF Freed

----------------------------------------------------------------------------
(***************************************************************************)
(* The types, whatever the threads do: what is read of a connection, a     *)
(* watcher or a descriptor is there to be read.                            *)
(***************************************************************************)
Typed ==
    /\ TypeOK
    /\ \A c \in Client : ec[c].st = "live" => ec[c].fd \in Fd
    /\ at["conn"] = "malloc" => arg["conn"] \in Client
    /\ at["disp"] \in {"filter", "send"} => fd \in Fd
    /\ at["disp"] # "idle" => line # 0

LEMMA TypedInit ==
    ASSUME Init
    PROVE  Typed
<1>. USE OneWatcher
<1>1. line \in 0..LastLine
  BY RegistryAssumption DEF Init
<1>2. node \in [Watcher -> watcher_t]
  BY DEF Init, NoNode, watcher_t
<1>3. ec \in [Client -> eventConn_t]
  BY DEF Init, None, eventConn_t
<1>4. backlog \in Seq(Client) /\ asked \in [Client -> Seq(Kinds)] /\ unread \in [Client -> Seq(Kinds)]
  BY DEF Init
<1>5. screen \in [Client -> Seq((1..LastLine) \cup {Ack, Nack})]
  BY DEF Init
<1>6. gone \in [Client -> BOOLEAN] /\ event \in [Client -> BOOLEAN] /\ {knock, crashed} \subseteq BOOLEAN
  BY DEF Init
<1>7. DOMAIN at = Thread
  BY DEF Init
<1>8. TypeOK
  BY <1>1, <1>2, <1>3, <1>4, <1>5, <1>6, <1>7 DEF Init, TypeOK, watcher_t, eventConn_t
<1>. QED
  BY <1>8 DEF Init, Typed, None, Thread

LEMMA CrashTyped ==
    ASSUME Typed, Crash
    PROVE  Typed'
  BY DEF Typed, TypeOK, Crash, clients, kernel, memory, conn, disp

LEMMA TypedMemory ==
    ASSUME TypeOK
    PROVE  /\ node \in [Watcher -> watcher_t] /\ ec \in [Client -> eventConn_t]
           /\ {head, tail, prv, nxt, pnode} \subseteq Watcher \cup {NoOne, Junk}
           /\ wat \in [Thread -> Watcher \cup {NoOne}] /\ arg \in [Thread -> Client \cup {NoOne}]
           /\ DOMAIN at = Thread /\ sock \in [Fd -> Client \cup {NoOne}]
           /\ "conn" \in Thread /\ "disp" \in Thread
  BY DEF TypeOK, watcher_t, eventConn_t, Thread

LEMMA TypedEnv ==
    ASSUME Typed, Env
    PROVE  Typed'
<1>1. ASSUME NEW c \in Client, Connect(c) PROVE Typed'
  BY <1>1 DEF Typed, TypeOK, Connect, EnvFrame, memory, conn, disp
<1>2. ASSUME NEW c \in Client, NEW kind \in Asks(c), Request(c, kind) PROVE Typed'
  <2>1. kind \in Kinds
    BY RegistryAssumption
  <2>2. asked' \in [Client -> Seq(Kinds)] /\ unread' \in [Client -> Seq(Kinds)]
    BY <1>2, <2>1 DEF Typed, TypeOK, Request
  <2>3. event' \in [Client -> BOOLEAN]
    BY <1>2 DEF Typed, TypeOK, Request, Registered
  <2>. QED
    BY <1>2, <2>2, <2>3 DEF Typed, TypeOK, Request, EnvFrame, memory, conn, disp
<1>3. ASSUME NEW c \in Client, Leave(c) PROVE Typed'
  <2>1. event' \in [Client -> BOOLEAN] /\ gone' \in [Client -> BOOLEAN]
    BY <1>3 DEF Typed, TypeOK, Leave, Registered
  <2>. QED
    BY <1>3, <2>1 DEF Typed, TypeOK, Leave, EnvFrame, memory, conn, disp
<1>. QED
  BY <1>1, <1>2, <1>3 DEF Env

LEMMA TypedRemove ==
    ASSUME Typed, NEW t \in Thread, RemoveClient(t)
    PROVE  Typed'
<1>. USE OneWatcher
<1>0. /\ node \in [Watcher -> watcher_t] /\ ec \in [Client -> eventConn_t]
      /\ wat \in [Thread -> Watcher \cup {NoOne}] /\ arg \in [Thread -> Client \cup {NoOne}]
      /\ DOMAIN at = Thread /\ {head, tail} \subseteq Watcher \cup {NoOne, Junk}
      /\ sock \in [Fd -> Client \cup {NoOne}] /\ event \in [Client -> BOOLEAN]
      /\ \A c \in Client : ec[c].st = "live" => ec[c].fd \in Fd
      /\ "unlinkPrev" # "idle" /\ "unlinkNext" # "idle" /\ "freeWatch" # "idle"
  BY TypedMemory DEF Typed, TypeOK
<1>1. ASSUME NEW label, RmGoto(t, label), label \notin {"malloc", "filter", "send"},
             at[t] # "idle",
             ec' \in [Client -> eventConn_t], node' \in [Watcher -> watcher_t],
             {head', tail'} \subseteq Watcher \cup {NoOne, Junk}, wat' \in [Thread -> Watcher \cup {NoOne}],
             sock' \in [Fd -> Client \cup {NoOne}], event' \in [Client -> BOOLEAN],
             \A c \in Client : ec'[c].st = "live" => ec'[c].fd \in Fd
      PROVE  Typed'
  <2>1. DOMAIN at' = Thread /\ at' = [at EXCEPT ![t] = label]
    BY <1>0, <1>1 DEF RmGoto, Goto
  <2>2. TypeOK'
    BY <1>1, <2>1 DEF Typed, TypeOK, RmGoto, RmFrame, clients, watcher_t, eventConn_t
  <2>. QED
    BY <1>0, <1>1, <2>1, <2>2 DEF Typed, RmGoto, RmFrame, Thread
<1>2. CASE RmClose(t)
  <2>1. CASE ~LiveConn(arg[t])
    BY <1>2, <2>1, CrashTyped DEF RmClose
  <2>2. CASE LiveConn(arg[t])
    <3>1. arg[t] \in Client /\ ec[arg[t]].fd \in Fd /\ ec[arg[t]].watch \in Watcher \cup {NoOne}
      BY <1>0, <2>2 DEF LiveConn, Typed, eventConn_t
    <3>2. sock' \in [Fd -> Client \cup {NoOne}] /\ event' \in [Client -> BOOLEAN]
          /\ wat' \in [Thread -> Watcher \cup {NoOne}]
      <4>1. /\ wat' = [wat EXCEPT ![t] = ec[arg[t]].watch]
            /\ sock' = [sock EXCEPT ![ec[arg[t]].fd] = NoOne]
            /\ event' = [c \in Client |-> event[c] /\ sock[ec[arg[t]].fd] # c]
        BY <1>2, <2>2 DEF RmClose
      <4>2. event' \in [Client -> BOOLEAN]
        BY <4>1
      <4>. QED
        BY <1>0, <3>1, <4>1, <4>2
    <3>3. at[t] = "close" /\ UNCHANGED memory
          /\ RmGoto(t, IF ec[arg[t]].watch = NoOne THEN "freeConn" ELSE "cleanFilter")
      BY <1>2, <2>2 DEF RmClose
    <3>4. CASE RmGoto(t, "freeConn")
      BY <1>0, <1>1, <3>2, <3>3, <3>4 DEF memory
    <3>5. CASE RmGoto(t, "cleanFilter")
      BY <1>0, <1>1, <3>2, <3>3, <3>5 DEF memory
    <3>. QED
      BY <3>3, <3>4, <3>5
  <2>. QED
    BY <2>1, <2>2
<1>3. CASE RmFilter(t)
  <2>1. CASE Crash
    BY <2>1, CrashTyped
  <2>2. CASE ~Crash
    <3>1. /\ wat[t] \in Watcher /\ node' = FilterFreed(node, wat[t]) /\ RmGoto(t, "unlinkPrev")
          /\ UNCHANGED <<ec, head, tail, wat, sock, event>> /\ at[t] = "cleanFilter"
      BY <1>3, <2>2 DEF RmFilter, LiveNode, FilterFreed
    <3>2. node' \in [Watcher -> watcher_t]
      BY <1>0, <3>1, WriteFilter
    <3>. QED
      BY <1>0, <1>1, <3>1, <3>2
  <2>. QED
    BY <2>1, <2>2
<1>4. CASE RmPrev(t)
  <2>1. CASE Crash
    BY <2>1, CrashTyped
  <2>2. CASE ~Crash
    <3>. DEFINE v == ec[arg[t]].watch
                n == node[v]
    <3>1. /\ v \in Watcher /\ at[t] = "unlinkPrev" /\ RmGoto(t, "unlinkNext")
          /\ UNCHANGED <<ec, tail, wat, sock, event>>
          /\ \/ head' = n.next /\ UNCHANGED node
             \/ n.prev \in Watcher /\ node' = NextSet(node, n.prev, n.next) /\ UNCHANGED head
      BY <1>4, <2>2 DEF RmPrev, LiveNode, NextSet
    <3>2. n \in watcher_t
      BY <1>0, <3>1
    <3>3. n.next \in Watcher \cup {NoOne, Junk}
      BY <3>2 DEF watcher_t
    <3>4. node' \in [Watcher -> watcher_t] /\ head' \in Watcher \cup {NoOne, Junk}
      <4>1. CASE head' = n.next /\ UNCHANGED node
        BY <1>0, <3>3, <4>1
      <4>2. CASE n.prev \in Watcher /\ node' = NextSet(node, n.prev, n.next) /\ UNCHANGED head
        <5>. HIDE DEF n
        <5>. QED
          BY <1>0, <3>3, <4>2, WriteNext
      <4>. QED
        BY <3>1, <4>1, <4>2
    <3>. QED
      BY <1>0, <1>1, <3>1, <3>4
  <2>. QED
    BY <2>1, <2>2
<1>5. CASE RmNext(t)
  <2>1. CASE Crash
    BY <2>1, CrashTyped
  <2>2. CASE ~Crash
    <3>. DEFINE n == node[wat[t]]
    <3>1. /\ wat[t] \in Watcher /\ at[t] = "unlinkNext" /\ RmGoto(t, "freeWatch")
          /\ UNCHANGED <<ec, head, wat, sock, event>>
          /\ \/ tail' = n.prev /\ UNCHANGED node
             \/ n.next \in Watcher /\ node' = PrevSet(node, n.next, n.prev) /\ UNCHANGED tail
      BY <1>5, <2>2 DEF RmNext, LiveNode, PrevSet, Backlink
    <3>2. n \in watcher_t
      BY <1>0, <3>1
    <3>3. n.prev \in Watcher \cup {NoOne, Junk}
      BY <3>2 DEF watcher_t
    <3>4. node' \in [Watcher -> watcher_t] /\ tail' \in Watcher \cup {NoOne, Junk}
      <4>1. CASE tail' = n.prev /\ UNCHANGED node
        BY <1>0, <3>3, <4>1
      <4>2. CASE n.next \in Watcher /\ node' = PrevSet(node, n.next, n.prev) /\ UNCHANGED tail
        <5>. HIDE DEF n
        <5>. QED
          BY <1>0, <3>3, <4>2, WritePrev
      <4>. QED
        BY <3>1, <4>1, <4>2
    <3>. QED
      BY <1>0, <1>1, <3>1, <3>4
  <2>. QED
    BY <2>1, <2>2
<1>6. CASE RmFree(t)
  <2>1. CASE Crash
    BY <2>1, CrashTyped
  <2>2. CASE ~Crash
    <3>1. /\ wat[t] \in Watcher /\ node' = Freed(node, wat[t]) /\ RmGoto(t, "freeConn")
          /\ UNCHANGED <<ec, head, tail, wat, sock, event>> /\ at[t] = "freeWatch"
      BY <1>6, <2>2 DEF RmFree, LiveNode, Freed
    <3>2. node' \in [Watcher -> watcher_t]
      BY <1>0, <3>1, WriteSt
    <3>. QED
      BY <1>0, <1>1, <3>1, <3>2
  <2>. QED
    BY <2>1, <2>2
<1>7. CASE RmFreeConn(t)
  <2>1. CASE Crash
    BY <2>1, CrashTyped
  <2>2. CASE ~Crash
    <3>1. /\ arg[t] \in Client /\ at[t] = "freeConn"
          /\ ec' = [ec EXCEPT ![arg[t]] = [None EXCEPT !.st = "freed"]]
          /\ UNCHANGED <<node, head, tail, wat, sock, event>> /\ RmFrame
          /\ \/ Goto(t, "loop") /\ t = "conn" /\ UNCHANGED <<pnode, saved>>
             \/ (Goto(t, "idle") \/ Goto(t, "next")) /\ t = "disp" /\ pnode' = saved /\ saved' = NoOne
      BY <1>0, <1>7, <2>2 DEF RmFreeConn, LiveConn, RmGoto, Thread
    <3>2. [None EXCEPT !.st = "freed"] \in eventConn_t /\ [None EXCEPT !.st = "freed"].st = "freed"
      BY DEF None, eventConn_t
    <3>3. ec' \in [Client -> eventConn_t] /\ \A c \in Client : ec'[c].st = "live" => ec'[c] = ec[c]
      BY <1>0, <3>1, <3>2
    <3>4. /\ DOMAIN at' = Thread
          /\ at'["conn"] = "malloc" => at["conn"] = "malloc"
          /\ at'["disp"] \notin {"filter", "send"} \/ at'["disp"] = at["disp"]
          /\ at'["disp"] # "idle" => at["disp"] # "idle"
      BY <1>0, <3>1 DEF Goto, Thread
    <3>5. TypeOK'
      BY <3>1, <3>3, <3>4 DEF Typed, TypeOK, RmFrame, clients, eventConn_t
    <3>. QED
      BY <3>1, <3>3, <3>4, <3>5 DEF Typed, RmFrame
  <2>. QED
    BY <2>1, <2>2
<1>. QED
  BY <1>2, <1>3, <1>4, <1>5, <1>6, <1>7 DEF RemoveClient

(* A set of numbers that is not empty has a least one (Min is its CHOOSE).  *)
LEMMA MinIsIn ==
    ASSUME NEW T \in SUBSET Nat, T # {}
    PROVE  Min(T) \in T /\ \A k \in T : Min(T) <= k
<1>1. PICK m \in T : \A k \in T : ~(<<k, m>> \in OpToRel(<, Nat))
  BY NatLessThanWellFounded, WFMin
<1>2. \A k \in T : ~(k < m)
  BY <1>1 DEF OpToRel
<1>3. \E x \in T : \A y \in T : x <= y
  BY <1>2
<1>. QED
  BY <1>3 DEF Min

LEMMA SomeFree ==
    ASSUME FreeFds # {}
    PROVE  Min(FreeFds) \in Fd /\ sock[Min(FreeFds)] = NoOne
<1>1. FreeFds \in SUBSET Nat
  BY RegistryAssumption DEF FreeFds
<1>2. Min(FreeFds) \in FreeFds
  BY <1>1, MinIsIn
<1>. QED
  BY <1>2 DEF FreeFds

In(x, s) == \E i \in 1..Len(s) : s[i] = x

LEMMA AppendIn ==
    ASSUME NEW T, NEW s \in Seq(T), NEW x \in T
    PROVE  \A y : In(y, Append(s, x)) <=> In(y, s) \/ y = x
<1>1. /\ Len(Append(s, x)) = Len(s) + 1 /\ Len(s) \in Nat
      /\ \A i \in 1..Len(s) : Append(s, x)[i] = s[i]
      /\ Append(s, x)[Len(s) + 1] = x
  OBVIOUS
<1>. QED
  BY <1>1 DEF In

LEMMA ReceivedIn ==
    ASSUME TypeOK, NEW f \in Fd, sock[f] \in Client, NEW x \in (1..LastLine) \cup {Ack, Nack},
           Received(f, x)
    PROVE  /\ screen' \in [Client -> Seq((1..LastLine) \cup {Ack, Nack})]
           /\ \A d \in Client \ {sock[f]} : screen'[d] = screen[d]
           /\ ~gone[sock[f]] => \A y : In(y, screen'[sock[f]]) <=> In(y, screen[sock[f]]) \/ y = x
           /\ gone[sock[f]] => screen' = screen
           /\ \A d \in Client : \A y : In(y, screen[d]) => In(y, screen'[d])
<1>1. screen \in [Client -> Seq((1..LastLine) \cup {Ack, Nack})]
  BY DEF TypeOK
<1>2. screen' = IF gone[sock[f]] THEN screen
                ELSE [screen EXCEPT ![sock[f]] = Append(screen[sock[f]], x)]
  BY DEF Received
<1>3. Append(screen[sock[f]], x) \in Seq((1..LastLine) \cup {Ack, Nack})
  BY <1>1
<1>4. \A y : In(y, Append(screen[sock[f]], x)) <=> In(y, screen[sock[f]]) \/ y = x
  BY <1>1, AppendIn
<1>. QED
  BY <1>1, <1>2, <1>3, <1>4

LEMMA TypedConn ==
    ASSUME Typed, WaitEvents \/ HandleEvent \/ AcceptNothing \/ Accept \/ AcceptFails \/ Recv \/ Answer
    PROVE  Typed'
<1>. USE OneWatcher
<1>0. /\ ec \in [Client -> eventConn_t] /\ arg \in [Thread -> Client \cup {NoOne}]
      /\ DOMAIN at = Thread /\ sock \in [Fd -> Client \cup {NoOne}] /\ event \in [Client -> BOOLEAN]
      /\ backlog \in Seq(Client) /\ unread \in [Client -> Seq(Kinds)]
      /\ screen \in [Client -> Seq((1..LastLine) \cup {Ack, Nack})]
      /\ batch \subseteq (Client \cup {NoOne}) \X BOOLEAN /\ gone \in [Client -> BOOLEAN]
      /\ \A c \in Client : ec[c].st = "live" => ec[c].fd \in Fd
  BY TypedMemory DEF Typed, TypeOK
<1>a. CASE Crash
  BY <1>a, CrashTyped
<1>1. CASE WaitEvents
  <2>1. batch' = {<<c, gone[c]>> : c \in {d \in Client : event[d]}}
                \cup (IF knock THEN {<<NoOne, FALSE>>} ELSE {})
    BY <1>1 DEF WaitEvents
  <2>2. \A c \in Client : <<c, gone[c]>> \in (Client \cup {NoOne}) \X BOOLEAN
    BY <1>0
  <2>3. <<NoOne, FALSE>> \in (Client \cup {NoOne}) \X BOOLEAN
    OBVIOUS
  <2>4. ASSUME NEW e \in batch' PROVE e \in (Client \cup {NoOne}) \X BOOLEAN
    <3>1. CASE e = <<NoOne, FALSE>>
      BY <2>3, <3>1
    <3>2. CASE e \in {<<c, gone[c]>> : c \in {d \in Client : event[d]}}
      <4>1. PICK c \in Client : e = <<c, gone[c]>>
        BY <3>2
      <4>. QED
        BY <2>2, <4>1
    <3>. QED
      BY <2>1, <2>4, <3>1, <3>2
  <2>5. event' \in [Client -> BOOLEAN] /\ knock' \in BOOLEAN
    BY <1>1 DEF WaitEvents
  <2>6. batch' \subseteq (Client \cup {NoOne}) \X BOOLEAN
    BY <2>4
  <2>. QED
    <3>1. /\ UNCHANGED <<unread, screen, sock, memory, at, arg, wat, prv, nxt>> /\ ConnFrame
      BY <1>1 DEF WaitEvents
    <3>. QED
      BY <2>5, <2>6, <3>1 DEF Typed, TypeOK, ConnFrame, clients, memory, disp
<1>2. CASE HandleEvent /\ ~Crash
  <2>1. PICK e \in batch :
          /\ batch' = batch \ {e} /\ arg' = [arg EXCEPT !["conn"] = e[1]]
          /\ \/ Goto("conn", "accept") \/ Goto("conn", "close") \/ Goto("conn", "recv")
          /\ UNCHANGED <<kernel, memory, wat, prv, nxt>> /\ ConnFrame
    BY <1>2 DEF HandleEvent
  <2>2. e[1] \in Client \cup {NoOne}
    BY <1>0
  <2>3. /\ arg' \in [Thread -> Client \cup {NoOne}] /\ DOMAIN at' = Thread /\ batch' \subseteq batch
        /\ at'["conn"] # "malloc" /\ at'["disp"] = at["disp"]
    BY <1>0, <2>1, <2>2 DEF Goto, Thread
  <2>4. TypeOK'
    BY <1>0, <2>1, <2>3 DEF Typed, TypeOK, ConnFrame, clients, memory, kernel, disp
  <2>. QED
    BY <2>1, <2>3, <2>4 DEF Typed, ConnFrame, memory, disp
<1>3. CASE AcceptNothing
  <2>1. DOMAIN at' = Thread /\ at'["conn"] # "malloc" /\ at'["disp"] = at["disp"]
    BY <1>0, <1>3 DEF AcceptNothing, Goto, Thread
  <2>. QED
    BY <1>3, <2>1 DEF Typed, TypeOK, AcceptNothing, clients, memory, kernel, disp
<1>4. CASE Accept
  <2>. DEFINE c == Head(backlog)
              f == Min(FreeFds)
  <2>1. c \in Client /\ Tail(backlog) \in Seq(Client) /\ f \in Fd
    BY <1>0, <1>4, SomeFree DEF Accept
  <2>2. /\ sock' = [sock EXCEPT ![f] = c]
        /\ ec' = [ec EXCEPT ![c] = [st |-> "live", fd |-> f, watch |-> NoOne]]
        /\ event' = [event EXCEPT ![c] = FirstEvent(c)]
        /\ backlog' = Tail(backlog) /\ at' = at /\ AcceptFrame
    BY <1>4 DEF Accept, Install, AcceptAgain
  <2>. HIDE DEF c, f
  <2>3. event' \in [Client -> BOOLEAN]
    BY <1>0, <2>1, <2>2 DEF FirstEvent
  <2>4. ec' \in [Client -> eventConn_t]
    BY <1>0, <2>1, <2>2 DEF eventConn_t
  <2>5. sock' \in [Fd -> Client \cup {NoOne}]
    BY <1>0, <2>1, <2>2
  <2>6. \A d \in Client : ec'[d].st = "live" => ec'[d].fd \in Fd
    BY <1>0, <2>1, <2>2
  <2>7. TypeOK'
    BY <2>1, <2>2, <2>3, <2>4, <2>5 DEF Typed, TypeOK, AcceptFrame, disp, eventConn_t
  <2>. QED
    BY <2>2, <2>6, <2>7 DEF Typed, AcceptFrame, disp
<1>5. CASE AcceptFails
  <2>. DEFINE c == Head(backlog)
  <2>1. c \in Client /\ Tail(backlog) \in Seq(Client)
    BY <1>0, <1>5 DEF AcceptFails
  <2>2. /\ sock' = sock /\ event' = event /\ ec' = [ec EXCEPT ![c].st = "freed"]
        /\ at["conn"] = "accept" /\ AcceptFrame /\ backlog' = Tail(backlog)
        /\ at' = at \/ Goto("conn", "loop")
    BY <1>5 DEF AcceptFails, Closed
  <2>. HIDE DEF c
  <2>3. DOMAIN at' = Thread /\ at'["conn"] # "malloc" /\ at'["disp"] = at["disp"]
    BY <1>0, <2>2 DEF Goto, Thread
  <2>4. ec[c] \in eventConn_t /\ [ec[c] EXCEPT !.st = "freed"] \in eventConn_t
        /\ [ec[c] EXCEPT !.st = "freed"].st = "freed"
    <3>1. ec[c] \in eventConn_t
      BY <1>0, <2>1
    <3>. QED
      BY <3>1 DEF eventConn_t
  <2>5. ec' \in [Client -> eventConn_t] /\ \A d \in Client : ec'[d].st = "live" => ec'[d] = ec[d]
    <3>1. ec' = [ec EXCEPT ![c] = [ec[c] EXCEPT !.st = "freed"]]
      BY <2>2
    <3>. QED
      BY <1>0, <2>1, <2>4, <3>1
  <2>6. TypeOK'
    <3>1. backlog' \in Seq(Client) /\ UNCHANGED <<sock, event>> /\ AcceptFrame
      BY <2>1, <2>2
    <3>. QED
      BY <2>3, <2>5, <3>1 DEF Typed, TypeOK, AcceptFrame, disp, eventConn_t
  <2>. QED
    BY <1>0, <2>2, <2>3, <2>5, <2>6 DEF Typed, AcceptFrame, disp
<1>b. ASSUME RecvFrame, DOMAIN at' = Thread, at'["disp"] = at["disp"],
             at'["conn"] = "malloc" => arg["conn"] \in Client,
             unread' \in [Client -> Seq(Kinds)],
             screen' \in [Client -> Seq((1..LastLine) \cup {Ack, Nack})]
      PROVE  Typed'
  <2>1. TypeOK'
    BY <1>b DEF Typed, TypeOK, RecvFrame, clients, memory, disp
  <2>. QED
    BY <1>b, <2>1 DEF Typed, RecvFrame, memory, disp
<1>6. CASE Recv /\ ~Crash
  <2>. DEFINE f == ec[arg["conn"]].fd
              c == sock[f]
  <2>1. LiveConn(arg["conn"]) /\ f \in Fd
    <3>1. LiveConn(arg["conn"])
      BY <1>6 DEF Recv
    <3>. QED
      BY <1>0, <3>1 DEF LiveConn
  <2>2. /\ RecvFrame
        /\ Goto("conn", "close") \/ Goto("conn", "loop") \/ Goto("conn", "answer")
        /\ \/ UNCHANGED unread
           \/ c # NoOne /\ unread[c] # << >> /\ unread' = [unread EXCEPT ![c] = Tail(@)]
        /\ UNCHANGED screen \/ (c # NoOne /\ Received(f, Nack))
    BY <1>6, <2>1 DEF Recv
  <2>3. DOMAIN at' = Thread /\ at'["conn"] # "malloc" /\ at'["disp"] = at["disp"]
    BY <1>0, <2>2 DEF Goto, Thread
  <2>4. unread' \in [Client -> Seq(Kinds)]
    <3>1. CASE c # NoOne /\ unread[c] # << >> /\ unread' = [unread EXCEPT ![c] = Tail(@)]
      <4>1. c \in Client
        BY <1>0, <2>1, <3>1
      <4>2. unread[c] \in Seq(Kinds)
        BY <1>0, <4>1
      <4>3. Tail(unread[c]) \in Seq(Kinds)
        BY <3>1, <4>2
      <4>. QED
        BY <1>0, <3>1, <4>1, <4>3
    <3>. QED
      BY <1>0, <2>2, <3>1
  <2>5. screen' \in [Client -> Seq((1..LastLine) \cup {Ack, Nack})]
    <3>1. CASE c # NoOne /\ Received(f, Nack)
      <4>1. c \in Client
        BY <1>0, <2>1, <3>1
      <4>. QED
        BY <2>1, <3>1, <4>1, ReceivedIn DEF Typed
    <3>. QED
      BY <1>0, <2>2, <3>1
  <2>. QED
    BY <1>b, <2>2, <2>3, <2>4, <2>5
<1>7. CASE Answer /\ ~Crash
  <2>. DEFINE f == ec[arg["conn"]].fd
  <2>1. LiveConn(arg["conn"]) /\ f \in Fd /\ arg["conn"] \in Client
    BY <1>0, <1>7 DEF Answer, LiveConn
  <2>2. PICK sent \in SendResults(f) :
          /\ IF sent THEN Received(f, Ack) ELSE UNCHANGED screen
          /\ Goto("conn", IF Succeeded(sent) THEN "malloc" ELSE "close")
          /\ UNCHANGED unread /\ RecvFrame
    BY <1>7, <2>1 DEF Answer
  <2>3. DOMAIN at' = Thread /\ at'["disp"] = at["disp"]
    BY <1>0, <2>2 DEF Goto, Thread
  <2>4. screen' \in [Client -> Seq((1..LastLine) \cup {Ack, Nack})]
    <3>1. CASE sent
      <4>1. sock[f] \in Client
        BY <1>0, <2>1, <2>2, <3>1 DEF SendResults
      <4>. QED
        BY <2>1, <2>2, <3>1, <4>1, ReceivedIn DEF Typed
    <3>. QED
      BY <1>0, <2>2, <3>1
  <2>. QED
    BY <1>0, <1>b, <2>1, <2>2, <2>3, <2>4
<1>. QED
  BY <1>a, <1>1, <1>2, <1>3, <1>4, <1>5, <1>6, <1>7

LEMMA TypedAdd ==
    ASSUME Typed, AddWatchList
    PROVE  Typed'
<1>. USE OneWatcher
<1>0. /\ node \in [Watcher -> watcher_t] /\ ec \in [Client -> eventConn_t]
      /\ wat \in [Thread -> Watcher \cup {NoOne}] /\ arg \in [Thread -> Client \cup {NoOne}]
      /\ DOMAIN at = Thread /\ {head, tail, prv, nxt} \subseteq Watcher \cup {NoOne, Junk}
      /\ \A c \in Client : ec[c].st = "live" => ec[c].fd \in Fd
  BY TypedMemory DEF Typed
<1>a. CASE Crash
  BY <1>a, CrashTyped
<1>1. ASSUME AddFrame, \E label : Goto("conn", label) /\ label # "malloc",
             ec' \in [Client -> eventConn_t], node' \in [Watcher -> watcher_t],
             wat' \in [Thread -> Watcher \cup {NoOne}],
             {head', tail', prv', nxt'} \subseteq Watcher \cup {NoOne, Junk},
             \A c \in Client : ec'[c].st = "live" => ec'[c].fd \in Fd
      PROVE  Typed'
  <2>1. DOMAIN at' = Thread /\ at'["conn"] # "malloc" /\ at'["disp"] = at["disp"]
    BY <1>0, <1>1 DEF Goto, Thread
  <2>2. TypeOK'
    BY <1>1, <2>1 DEF Typed, TypeOK, AddFrame, kernel, clients, disp, watcher_t, eventConn_t
  <2>. QED
    BY <1>1, <2>1, <2>2 DEF Typed, AddFrame, disp
<1>2. CASE AddMalloc
  <2>. DEFINE w == <<arg["conn"], Min(FreeNodes(arg["conn"]))>>
  <2>1. w \in Watcher
    <3>1. FreeNodes(arg["conn"]) \in SUBSET Nat /\ FreeNodes(arg["conn"]) # {}
      BY <1>2 DEF AddMalloc, FreeNodes
    <3>2. Min(FreeNodes(arg["conn"])) \in 1..MaxGood
      BY <3>1, MinIsIn DEF FreeNodes
    <3>3. arg["conn"] \in Client
      BY <1>2 DEF Typed, AddMalloc
    <3>. QED
      BY <3>2, <3>3 DEF Watcher
  <2>2. /\ UNCHANGED <<ec, head, tail, prv, nxt>> /\ AddFrame
        /\ \/ /\ node' = [node EXCEPT ![w] = [NoNode EXCEPT !.st = "live", !.filter = TRUE]]
              /\ wat' = [wat EXCEPT !["conn"] = w] /\ Goto("conn", "tail")
           \/ Goto("conn", "close") /\ UNCHANGED <<node, wat>>
    BY <1>2 DEF AddMalloc
  <2>3. [NoNode EXCEPT !.st = "live", !.filter = TRUE] \in watcher_t
    BY DEF NoNode, watcher_t
  <2>. HIDE DEF w
  <2>4. node' \in [Watcher -> watcher_t] /\ wat' \in [Thread -> Watcher \cup {NoOne}]
    BY <1>0, <2>1, <2>2, <2>3
  <2>. QED
    BY <1>0, <1>1, <2>2, <2>4
<1>3. CASE AddTail
  BY <1>0, <1>1, <1>3 DEF AddTail, AtTail, AddGoto, memory
<1>4. CASE InsertPublish /\ ~Crash
  <2>1. /\ UNCHANGED <<ec, tail, wat, prv>> /\ AddGoto("backlink")
        /\ \/ nxt' = head /\ head' = wat["conn"] /\ UNCHANGED node
           \/ /\ prv \in Watcher /\ nxt' = node[prv].next /\ node' = NextSet(node, prv, wat["conn"])
              /\ UNCHANGED head
    BY <1>4 DEF InsertPublish, LiveNode, NextSet
  <2>2. wat["conn"] \in Watcher \cup {NoOne, Junk}
    BY <1>0
  <2>3. node' \in [Watcher -> watcher_t] /\ {head', nxt'} \subseteq Watcher \cup {NoOne, Junk}
    <3>1. CASE prv \in Watcher /\ nxt' = node[prv].next /\ node' = NextSet(node, prv, wat["conn"]) /\ UNCHANGED head
      <4>1. node[prv].next \in Watcher \cup {NoOne, Junk}
        BY <1>0, <3>1 DEF watcher_t
      <4>. QED
        BY <1>0, <2>2, <3>1, <4>1, WriteNext
    <3>. QED
      BY <1>0, <2>1, <2>2, <3>1
  <2>. QED
    BY <1>0, <1>1, <2>1, <2>3 DEF AddGoto
<1>5. CASE InsertBacklink /\ ~Crash
  <2>1. /\ UNCHANGED <<ec, head, wat, prv, nxt>> /\ AddGoto("pointers")
        /\ \/ tail' = wat["conn"] /\ UNCHANGED node
           \/ nxt \in Watcher /\ node' = PrevSet(node, nxt, wat["conn"]) /\ UNCHANGED tail
    BY <1>5 DEF InsertBacklink, LiveNode, PrevSet, NewTail
  <2>2. wat["conn"] \in Watcher \cup {NoOne, Junk}
    BY <1>0
  <2>3. node' \in [Watcher -> watcher_t] /\ tail' \in Watcher \cup {NoOne, Junk}
    <3>1. CASE nxt \in Watcher /\ node' = PrevSet(node, nxt, wat["conn"]) /\ UNCHANGED tail
      BY <1>0, <2>2, <3>1, WritePrev
    <3>. QED
      BY <1>0, <2>1, <2>2, <3>1
  <2>. QED
    BY <1>0, <1>1, <2>1, <2>3 DEF AddGoto
<1>6. CASE InsertPointers /\ ~Crash
  <2>1. /\ UNCHANGED <<ec, head, tail, wat>> /\ AddGoto("attach") /\ prv' = NoOne /\ nxt' = NoOne
        /\ wat["conn"] \in Watcher
        /\ node' = [node EXCEPT ![wat["conn"]].next = nxt, ![wat["conn"]].prev = prv]
    BY <1>6 DEF InsertPointers, LiveNode
  <2>2. node' = PrevSet(NextSet(node, wat["conn"], nxt), wat["conn"], prv)
    BY <2>1 DEF PrevSet, NextSet
  <2>3. NextSet(node, wat["conn"], nxt) \in [Watcher -> watcher_t]
    BY <1>0, <2>1, WriteNext
  <2>4. node' \in [Watcher -> watcher_t]
    <3>. DEFINE m == NextSet(node, wat["conn"], nxt)
    <3>1. m \in [Watcher -> watcher_t] /\ node' = PrevSet(m, wat["conn"], prv)
          /\ prv \in Watcher \cup {NoOne, Junk}
      BY <1>0, <2>2, <2>3
    <3>. HIDE DEF m
    <3>. QED
      BY <2>1, <3>1, WritePrev
  <2>. QED
    BY <1>0, <1>1, <2>1, <2>4 DEF AddGoto
<1>7. CASE Attach /\ ~Crash
  <2>1. /\ UNCHANGED <<node, head, tail, wat, prv, nxt>> /\ AddGoto("recv") /\ arg["conn"] \in Client
        /\ ec' = [ec EXCEPT ![arg["conn"]].watch = wat["conn"]]
    BY <1>0, <1>7 DEF Attach, LiveConn, ItsWatcher
  <2>2. [ec[arg["conn"]] EXCEPT !.watch = wat["conn"]] \in eventConn_t
    BY <1>0, <2>1 DEF eventConn_t
  <2>3. ec' \in [Client -> eventConn_t]
    BY <1>0, <2>1, <2>2
  <2>4. \A c \in Client : ec'[c].st = ec[c].st /\ ec'[c].fd = ec[c].fd
    BY <1>0, <2>1 DEF eventConn_t
  <2>. QED
    BY <1>0, <1>1, <2>1, <2>3, <2>4 DEF AddGoto
<1>. QED
  BY <1>a, <1>2, <1>3, <1>4, <1>5, <1>6, <1>7 DEF AddWatchList

LEMMA TypedDisp ==
    ASSUME Typed, GetLine \/ ReadNext \/ ReadFd \/ DoFilter \/ Send
    PROVE  Typed'
<1>. USE OneWatcher
<1>0. /\ node \in [Watcher -> watcher_t] /\ ec \in [Client -> eventConn_t]
      /\ arg \in [Thread -> Client \cup {NoOne}] /\ DOMAIN at = Thread
      /\ {head, pnode} \subseteq Watcher \cup {NoOne, Junk} /\ saved \in Watcher \cup {NoOne}
      /\ line \in 0..LastLine /\ fd \in Fd \cup {NoOne} /\ owed \subseteq Client
      /\ screen \in [Client -> Seq((1..LastLine) \cup {Ack, Nack})]
      /\ sock \in [Fd -> Client \cup {NoOne}] /\ LastLine \in Nat
      /\ \A c \in Client : ec[c].st = "live" => ec[c].fd \in Fd
  BY TypedMemory, RegistryAssumption DEF Typed, TypeOK
<1>a. CASE Crash
  BY <1>a, CrashTyped
<1>1. ASSUME DispFrame, DOMAIN at' = Thread, at'["conn"] = at["conn"], arg'["conn"] = arg["conn"],
             at'["disp"] \in {"filter", "send"} => fd' \in Fd,
             at'["disp"] # "idle" => line' # 0,
             screen' \in [Client -> Seq((1..LastLine) \cup {Ack, Nack})],
             arg' \in [Thread -> Client \cup {NoOne}], line' \in 0..LastLine,
             pnode' \in Watcher \cup {NoOne, Junk}, saved' \in Watcher \cup {NoOne},
             fd' \in Fd \cup {NoOne}, owed' \subseteq Client
      PROVE  Typed'
  <2>1. TypeOK'
    BY <1>1 DEF Typed, TypeOK, DispFrame, clients, memory, conn
  <2>. QED
    BY <1>0, <1>1, <2>1 DEF Typed, DispFrame, memory
<1>2. CASE GetLine
  <2>1. /\ line' = line + 1 /\ pnode' = head /\ line < LastLine
        /\ owed' \subseteq Client /\ (Goto("disp", "idle") \/ Goto("disp", "next"))
        /\ UNCHANGED <<screen, saved, fd, arg>> /\ DispFrame
    BY <1>2 DEF GetLine
  <2>2. /\ DOMAIN at' = Thread /\ at'["conn"] = at["conn"] /\ at'["disp"] \in {"idle", "next"}
    BY <1>0, <2>1 DEF Goto, Thread
  <2>3. line + 1 \in 0..LastLine /\ line + 1 # 0
    BY <1>0, <2>1
  <2>. QED
    BY <1>0, <1>1, <2>1, <2>2, <2>3
<1>3. CASE ReadNext /\ ~Crash
  <2>1. /\ LiveNode(pnode) /\ at["disp"] = "next"
        /\ saved' = IF node[pnode].next = Junk THEN NoOne ELSE node[pnode].next
        /\ Goto("disp", "fd")
        /\ UNCHANGED <<screen, line, pnode, fd, owed, arg>> /\ DispFrame
    BY <1>3 DEF ReadNext
  <2>2. node[pnode].next \in Watcher \cup {NoOne, Junk}
    BY <1>0, <2>1 DEF LiveNode, watcher_t
  <2>3. /\ DOMAIN at' = Thread /\ at'["conn"] = at["conn"] /\ at'["disp"] = "fd"
    BY <1>0, <2>1 DEF Goto, Thread
  <2>4. line # 0
    BY <2>1 DEF Typed
  <2>. QED
    BY <1>0, <1>1, <2>1, <2>2, <2>3, <2>4
<1>4. CASE ReadFd /\ ~Crash
  <2>1. /\ LiveConn(pnode[1]) /\ LiveNode(pnode) /\ at["disp"] = "fd"
        /\ fd' = ec[pnode[1]].fd /\ Goto("disp", "filter")
        /\ UNCHANGED <<screen, line, pnode, saved, owed, arg>> /\ DispFrame
    BY <1>4 DEF ReadFd
  <2>2. pnode[1] \in Client /\ fd' \in Fd
    BY <1>0, <2>1 DEF LiveNode, LiveConn
  <2>3. /\ DOMAIN at' = Thread /\ at'["conn"] = at["conn"] /\ at'["disp"] = "filter"
    BY <1>0, <2>1 DEF Goto, Thread
  <2>4. line # 0
    BY <2>1 DEF Typed
  <2>. QED
    BY <1>0, <1>1, <2>1, <2>2, <2>3, <2>4
<1>b. ASSUME Advance PROVE /\ DOMAIN at' = Thread /\ at'["conn"] = at["conn"] /\ at'["disp"] \in {"idle", "next"}
                           /\ pnode' \in Watcher \cup {NoOne, Junk} /\ saved' = NoOne /\ fd' = NoOne
  BY <1>0, <1>b DEF Advance, Goto, Thread
<1>5. CASE DoFilter /\ ~Crash
  <2>1. /\ at["disp"] = "filter" /\ UNCHANGED <<screen, line, owed, arg>> /\ DispFrame
        /\ Advance \/ (Goto("disp", "send") /\ UNCHANGED <<pnode, saved, fd>>)
    BY <1>5 DEF DoFilter
  <2>2. line # 0 /\ fd \in Fd
    BY <2>1 DEF Typed
  <2>3. CASE Advance
    BY <1>0, <1>1, <1>b, <2>1, <2>2, <2>3
  <2>4. CASE Goto("disp", "send") /\ UNCHANGED <<pnode, saved, fd>>
    <3>1. /\ DOMAIN at' = Thread /\ at'["conn"] = at["conn"] /\ at'["disp"] = "send"
      BY <1>0, <2>4 DEF Goto, Thread
    <3>. QED
      BY <1>0, <1>1, <2>1, <2>2, <2>4, <3>1
  <2>. QED
    BY <2>1, <2>3, <2>4
<1>6. CASE Send /\ ~Crash
  <2>0. line # 0 /\ fd \in Fd
    BY <1>6 DEF Typed, Send
  <2>1. PICK sent \in SendResults(fd) :
          /\ IF sent
                THEN Received(fd, line) /\ Advance /\ UNCHANGED arg
                ELSE /\ LiveNode(pnode) /\ arg' = [arg EXCEPT !["disp"] = pnode[1]]
                     /\ fd' = NoOne /\ Goto("disp", "close")
                     /\ UNCHANGED <<screen, pnode, saved>>
          /\ UNCHANGED <<line, owed>> /\ DispFrame
    BY <1>6 DEF Send
  <2>2. CASE sent
    <3>0. line \in 1..LastLine
      BY <1>0, <2>0
    <3>1. sock[fd] \in Client /\ line \in (1..LastLine) \cup {Ack, Nack}
      <4>1. sock[fd] # NoOne /\ sock[fd] \in Client \cup {NoOne}
        BY <1>0, <2>0, <2>1, <2>2 DEF SendResults
      <4>. QED
        BY <3>0, <4>1
    <3>2. screen' \in [Client -> Seq((1..LastLine) \cup {Ack, Nack})]
      BY <2>0, <2>1, <2>2, <3>1, ReceivedIn DEF Typed
    <3>. QED
      BY <1>0, <1>1, <1>b, <2>0, <2>1, <2>2, <3>2
  <2>3. CASE ~sent
    <3>1. /\ DOMAIN at' = Thread /\ at'["conn"] = at["conn"] /\ at'["disp"] = "close"
      BY <1>0, <2>1, <2>3 DEF Goto, Thread
    <3>2. arg' \in [Thread -> Client \cup {NoOne}] /\ arg'["conn"] = arg["conn"]
      BY <1>0, <2>1, <2>3 DEF LiveNode
    <3>. QED
      BY <1>0, <1>1, <2>0, <2>1, <2>3, <3>1, <3>2
  <2>. QED
    BY <2>2, <2>3
<1>. QED
  BY <1>a, <1>2, <1>3, <1>4, <1>5, <1>6

LEMMA TypedNext ==
    ASSUME Typed, Next
    PROVE  Typed'
  BY TypedEnv, TypedConn, TypedAdd, TypedDisp, TypedRemove, OneWatcher DEF Next, ConnNext, DispNext

(* The variables keep their types, whatever the two threads do, clash or    *)
(* not (TypeOK): a connection the code holds as live has a descriptor, and  *)
(* what is sent while a line is delivered is a line.                        *)
THEOREM TypeCorrect == Spec => []TypeOK
<1>1. Typed /\ [Next]_vars => Typed'
  <2>1. ASSUME Typed, UNCHANGED vars PROVE Typed'
    BY <2>1 DEF Typed, TypeOK, vars, clients, kernel, memory, conn, disp
  <2>. QED
    BY <2>1, TypedNext
<1>2. Init => Typed
  BY TypedInit
<1>3. Typed => TypeOK
  BY DEF Typed
<1>. QED
  BY <1>1, <1>2, <1>3, PTL DEF Spec

----------------------------------------------------------------------------
(***************************************************************************)
(* The invariant: where the threads are, and who owns which connection.    *)
(***************************************************************************)
Visit == {"fd", "filter", "send"}

Placed ==
    /\ at["conn"] \in {"loop", "accept"} \cup ConnWork
    /\ at["disp"] \in {"idle", "next"} \cup Visit \cup Removal

(* A descriptor is open exactly as long as its connection is live and no    *)
(* thread has closed it on the way to freeing the connection.               *)
Closing(c) == \E t \in Thread : at[t] \in AfterClose /\ arg[t] = c

Sockets ==
    /\ \A f \in Fd : sock[f] # NoOne =>
          ec[sock[f]].st = "live" /\ ec[sock[f]].fd = f /\ ~Closing(sock[f])
    /\ \A c \in Client : ec[c].st = "live" => ec[c].fd \in Fd /\ (sock[ec[c].fd] = c \/ Closing(c))
    /\ \A c \in Client : event[c] => Registered(c)

(* A client waits once, and before it has a connection.                     *)
Waiting ==
    /\ \A i, j \in 1..Len(backlog) : backlog[i] = backlog[j] => i = j
    /\ \A i \in 1..Len(backlog) : ec[backlog[i]].st = "none"

(* An event is about a live connection no handler is at work on, once.      *)
Events ==
    /\ \A e \in batch : e[1] # NoOne =>
          ec[e[1]].st = "live" /\ ~(at["conn"] \in ConnWork /\ arg["conn"] = e[1])
    /\ \A d, e \in batch : d[1] = e[1] => d = e

Working ==
    /\ at["conn"] \in ConnWork => arg["conn"] \in Client /\ ec[arg["conn"]].st = "live"
    /\ at["disp"] \in Removal => arg["disp"] \in Client /\ ec[arg["disp"]].st = "live"

----------------------------------------------------------------------------
(***************************************************************************)
(* The invariant: requests, watchers and the half-done list operations.    *)
(***************************************************************************)
Good(s) == In("good", s)
OneGood(s) == \A i, j \in 1..Len(s) : s[i] = "good" /\ s[j] = "good" => i = j

(* A client's one good request is sent, then read, then has a watcher.      *)
Handling(c) == at["conn"] \in {"answer", "malloc"} /\ arg["conn"] = c

Requests == \A c \in Client :
    /\ OneGood(unread[c])
    /\ Good(unread[c]) => Good(asked[c])
    /\ node[W(c)].st # "none" \/ Handling(c) => Good(asked[c]) /\ ~Good(unread[c])
    /\ \A w \in Watcher : node[w].st # "none" /\ w[1] = c => w = W(c)

(* The watchers on the list: allocated, inserted and not yet taken off.     *)
Out(w) == \/ at["conn"] \in Insertion /\ wat["conn"] = w
          \/ \E t \in Thread : at[t] = "freeWatch" /\ wat[t] = w
OnList == {w \in Watcher : node[w].st = "live" /\ ~Out(w)}

Watchers ==
    /\ \A c \in Client : ec[c].watch \in {NoOne, W(c)} /\ (ec[c].st # "live" => ec[c].watch = NoOne)
    /\ \A c \in Client : ec[c].watch # NoOne =>
          W(c) \in OnList \/ \E t \in Thread : at[t] \in {"freeWatch", "freeConn"} /\ arg[t] = c
    /\ \A w \in OnList : /\ ec[w[1]].st = "live"
                         /\ ec[w[1]].watch = w \/ (at["conn"] = "attach" /\ wat["conn"] = w)
    /\ \A w \in OnList : node[w].filter \/
          \E t \in Thread : at[t] \in {"unlinkPrev", "unlinkNext"} /\ wat[t] = w

Inserting ==
    /\ at["conn"] \in {"answer", "malloc"} => node[W(arg["conn"])].st = "none"
    /\ at["conn"] \in {"answer", "malloc", "attach"} \cup Insertion => ec[arg["conn"]].watch = NoOne
    /\ at["conn"] \in Insertion \cup {"attach"} =>
          wat["conn"] = W(arg["conn"]) /\ node[wat["conn"]].st = "live" /\ node[wat["conn"]].filter
    /\ at["conn"] \in {"publish", "backlink"} => prv = tail
    /\ at["conn"] \in {"backlink", "pointers"} =>
        /\ nxt = NoOne
        /\ prv \in OnList \cup {NoOne}
        /\ IF prv = NoOne THEN head = wat["conn"] ELSE node[prv].next = wat["conn"]
    /\ at["conn"] = "pointers" => tail = wat["conn"]

Removing == \A t \in Thread :
    /\ at[t] \in {"cleanFilter", "unlinkPrev", "unlinkNext"} =>
          wat[t] = W(arg[t]) /\ wat[t] \in OnList /\ ec[arg[t]].watch = wat[t]
    /\ at[t] = "cleanFilter" => node[wat[t]].filter
    /\ at[t] = "unlinkNext" => LET n == node[wat[t]] IN
          IF n.prev = NoOne THEN head = n.next ELSE node[n.prev].next = n.next
    /\ at[t] = "freeWatch" =>
          wat[t] = W(arg[t]) /\ node[wat[t]].st = "live" /\ ec[arg[t]].watch = wat[t]
    /\ at[t] = "freeConn" => W(arg[t]) \notin OnList

(* The walk may hold the watcher that is about to go on the list, too.      *)
HalfIn == at["conn"] \in {"backlink", "pointers"}

Visiting ==
    /\ at["disp"] \in {"next"} \cup Visit => pnode \in OnList
    /\ at["disp"] \in Visit \cup Removal =>
          saved \in OnList \cup {NoOne} \/ (HalfIn /\ saved = wat["conn"])
    /\ at["disp"] \in {"filter", "send"} => fd = ec[pnode[1]].fd
    /\ at["disp"] = "send" => Matches(pnode[1], line)
    /\ at["disp"] # "idle" => line # 0

----------------------------------------------------------------------------
(***************************************************************************)
(* The invariant: the list.  Undoing what an insertion or a removal has    *)
(* done so far leaves a first watcher, a last one, and for each the next,  *)
(* which order the watchers on the list.                                   *)
(***************************************************************************)
HalfOut == IF at["conn"] = "unlinkNext" THEN wat["conn"]
           ELSE IF at["disp"] = "unlinkNext" THEN wat["disp"] ELSE NoOne
OutAfter(x) == HalfOut # NoOne /\ node[HalfOut].prev = x

First == IF HalfIn /\ prv = NoOne THEN NoOne ELSE IF OutAfter(NoOne) THEN HalfOut ELSE head
LastOne == IF at["conn"] = "pointers" THEN prv ELSE tail
Nx(u) == IF HalfIn /\ prv = u THEN NoOne ELSE IF OutAfter(u) THEN HalfOut ELSE node[u].next

(* The order, as a rank: S is the list, f, l its ends, n and p its links.   *)
Adjacent(S, pos, u, v) == /\ v \in S /\ pos[u] < pos[v]
                          /\ \A x \in S : pos[x] <= pos[u] \/ pos[v] <= pos[x]
Least(S, pos, u) == \A v \in S : pos[u] <= pos[v]
Most(S, pos, u) == \A v \in S : pos[v] <= pos[u]

Ordered(S, pos, f, l, n, p) ==
    /\ \A u, v \in S : pos[u] = pos[v] => u = v
    /\ (f = NoOne /\ S = {}) \/ (f \in S /\ Least(S, pos, f))
    /\ (l = NoOne /\ S = {}) \/ (l \in S /\ Most(S, pos, l))
    /\ \A u \in S : (n[u] = NoOne /\ Most(S, pos, u)) \/ Adjacent(S, pos, u, n[u])
    /\ \A u \in S : (p[u] = NoOne /\ Least(S, pos, u))
                     \/ (p[u] \in S /\ Adjacent(S, pos, p[u], u))

Nexts == [u \in OnList |-> Nx(u)]
Prevs == [u \in OnList |-> node[u].prev]

(* The walk has not shown the line to the watchers still to come.           *)
ToCome == IF at["disp"] \in {"next"} \cup Visit THEN pnode ELSE saved

Ahead(pos) ==
    /\ at["disp"] \in Visit /\ saved \in OnList => pos[pnode] < pos[saved]
    /\ at["disp"] # "idle" /\ ToCome \in OnList =>
          \A u \in OnList : In(line, screen[u[1]]) => pos[u] < pos[ToCome]

Linked ==
    /\ IsFiniteSet(OnList)
    /\ \E pos \in [Watcher -> Int] :
          Ordered(OnList, pos, First, LastOne, Nexts, Prevs) /\ Ahead(pos)

----------------------------------------------------------------------------
(***************************************************************************)
(* The invariant: what the clients have seen.                              *)
(***************************************************************************)
NoLine(s) == \A i \in 1..Len(s) : s[i] \in {Ack, Nack}

Screens ==
    /\ \A c \in Client : In(Nack, screen[c]) =>
          ec[c].st = "freed" \/ (at["conn"] \in Removal /\ arg["conn"] = c)
    /\ \A c \in Client : In(Ack, screen[c]) =>
          Good(asked[c]) /\ ~Good(unread[c]) /\ ~(at["conn"] = "answer" /\ arg["conn"] = c)
    /\ \A w \in Watcher : node[w].st = "live" => In(Ack, screen[w[1]]) \/ gone[w[1]]
    /\ at["conn"] = "malloc" => In(Ack, screen[arg["conn"]]) \/ gone[arg["conn"]]
    /\ \A c \in Client : \A i \in 1..Len(screen[c]) : screen[c][i] \in {Ack, Nack} \cup (1..line)
    /\ \A c \in Client : node[W(c)].st = "none" \/ (at["conn"] \in Insertion /\ wat["conn"] = W(c)) =>
          NoLine(screen[c])

Connections == Placed /\ Sockets /\ Waiting /\ Events /\ Working
Lists == Watchers /\ Inserting /\ Removing /\ Visiting

IInv == TypeOK /\ ~crashed /\ Connections /\ Requests /\ Lists /\ Linked /\ Screens

(* The types carry over to the next state.                                  *)
LEMMA TypesKept ==
    ASSUME IInv, Next
    PROVE  TypeOK'
<1>1. Typed
  <2>1. \A c \in Client : ec[c].st = "live" => ec[c].fd \in Fd
    BY DEF IInv, Connections, Sockets
  <2>2. at["conn"] = "malloc" => arg["conn"] \in Client
    BY DEF IInv, Connections, Working, ConnWork
  <2>3. at["disp"] \in {"filter", "send"} => fd \in Fd
    BY <2>1, OneWatcher DEF IInv, Lists, Visiting, Visit, Watchers, OnList
  <2>. QED
    BY <2>1, <2>2, <2>3 DEF IInv, Typed, Lists, Visiting
<1>. QED
  BY <1>1, TypedNext DEF Typed

LEMMA Initially ==
    ASSUME Init
    PROVE  IInv
<1>. USE OneWatcher
<1>1. TypeOK
  BY TypedInit DEF Typed
<1>2. Connections
  BY DEF Init, Connections, Placed, Sockets, Waiting, Events, Working, ConnWork,
         Insertion, Removal, AfterClose, Visit, Thread, None
<1>3. \A w \in Watcher : node[w].st = "none"
  BY DEF Init, NoNode
<1>4. Requests
  BY <1>3 DEF Init, Requests, OneGood, Good, In, Handling, Thread
<1>5. OnList = {}
  BY <1>3 DEF OnList
<1>6. Lists
  BY <1>5 DEF Init, Lists, Watchers, Inserting, Removing, Visiting, HalfIn, None, Insertion, Removal,
              AfterClose, Visit, Thread
<1>7. Linked
  <2>1. IsFiniteSet(OnList)
    BY <1>5, FS_EmptySet
  <2>2. First = NoOne /\ LastOne = NoOne
    BY DEF Init, First, LastOne, HalfIn, OutAfter, HalfOut, Thread
  <2>3. [w \in Watcher |-> 0] \in [Watcher -> Int]
    OBVIOUS
  <2>4. Ahead([w \in Watcher |-> 0])
    BY <1>5 DEF Init, Ahead, Visit, Removal, AfterClose, Thread
  <2>. QED
    BY <1>5, <2>1, <2>2, <2>3, <2>4 DEF Linked, Ordered
<1>8. Screens
  BY <1>3 DEF Init, Screens, NoLine, In, Removal, AfterClose, Thread
<1>. QED
  BY <1>1, <1>2, <1>4, <1>6, <1>7, <1>8 DEF IInv, Init

----------------------------------------------------------------------------
(***************************************************************************)
(* Lemmas that many steps share.                                           *)
(***************************************************************************)
LEMMA AppendGood ==
    ASSUME NEW T, NEW s \in Seq(T), NEW x \in T, OneGood(s), x = "good" => ~Good(s)
    PROVE  OneGood(Append(s, x))
<1>1. /\ Len(Append(s, x)) = Len(s) + 1 /\ Len(s) \in Nat
      /\ \A i \in 1..Len(s) : Append(s, x)[i] = s[i]
      /\ Append(s, x)[Len(s) + 1] = x
  OBVIOUS
<1>. QED
  BY <1>1 DEF In, Good, OneGood

LEMMA TailGood ==
    ASSUME NEW T, NEW s \in Seq(T), s # << >>, OneGood(s)
    PROVE  /\ OneGood(Tail(s)) /\ Tail(s) \in Seq(T) /\ Head(s) \in T
           /\ Good(Tail(s)) => Good(s)
           /\ Head(s) = "good" => Good(s) /\ ~Good(Tail(s))
<1>1. /\ Len(Tail(s)) = Len(s) - 1 /\ Len(s) \in Nat \ {0} /\ Head(s) = s[1]
      /\ \A i \in 1..Len(Tail(s)) : Tail(s)[i] = s[i+1]
      /\ Tail(s) \in Seq(T) /\ Head(s) \in T
  OBVIOUS
<1>. QED
  BY <1>1 DEF In, Good, OneGood

(* A step that leaves the list as it is.                                    *)
ListKept == /\ OnList' = OnList /\ First' = First /\ LastOne' = LastOne
            /\ Nexts' = Nexts /\ Prevs' = Prevs

LEMMA LinkedKept ==
    ASSUME Linked, ListKept, \A pos \in [Watcher -> Int] : Ahead(pos) => Ahead(pos)'
    PROVE  Linked'
  BY DEF Linked, ListKept

Mid == Insertion \cup {"unlinkNext", "freeWatch"}

LEMMA ListSteady ==
    ASSUME NEW t \in Thread, at[t] \notin Mid, at'[t] \notin Mid,
           \A u \in Thread \ {t} : at'[u] = at[u] /\ wat'[u] = wat[u],
           UNCHANGED <<head, tail, prv>>,
           \A w \in Watcher : /\ node'[w].st = node[w].st /\ node'[w].next = node[w].next
                              /\ node'[w].prev = node[w].prev,
           wat \in [Thread -> Watcher \cup {NoOne}]
    PROVE  ListKept
<1>1. OnList' = OnList
  BY DEF OnList, Out, Mid, Insertion, Thread
<1>2. HalfIn' = HalfIn /\ HalfOut' = HalfOut /\ LastOne' = LastOne
  BY DEF HalfIn, HalfOut, LastOne, Thread, Mid, Insertion
<1>3. HalfOut \in Watcher \cup {NoOne}
  BY DEF HalfOut, Thread
<1>4. \A x : OutAfter(x)' = OutAfter(x)
  BY <1>2, <1>3 DEF OutAfter
<1>5. First' = First
  BY <1>2, <1>4 DEF First
<1>6. \A u \in OnList : Nx(u)' = Nx(u) /\ node'[u].prev = node[u].prev
  BY <1>2, <1>4 DEF Nx, OnList
<1>. QED
  BY <1>1, <1>2, <1>5, <1>6 DEF ListKept, Nexts, Prevs

(* A step of the connection thread or of a client, under which nothing the  *)
(* walk holds leaves the list, keeps the walk on it.                        *)
LEMMA WalkKept ==
    ASSUME IInv, at'["disp"] = at["disp"], UNCHANGED disp,
           OnList' \subseteq OnList, \A u \in OnList : u \in {pnode, saved} => u \in OnList',
           HalfIn => HalfIn' /\ wat'["conn"] = wat["conn"],
           \A w \in OnList : ec'[w[1]].fd = ec[w[1]].fd,
           \A c \in Client : In(line, screen'[c]) => In(line, screen[c])
    PROVE  Visiting' /\ \A pos \in [Watcher -> Int] : Ahead(pos) => Ahead(pos)'
<1>1. line' = line /\ pnode' = pnode /\ saved' = saved /\ fd' = fd
  BY DEF disp
<1>2. Visiting'
  BY <1>1 DEF IInv, Lists, Visiting, Visit
<1>3. ASSUME NEW pos \in [Watcher -> Int], Ahead(pos) PROVE Ahead(pos)'
  <2>1. ToCome' = ToCome
    BY <1>1 DEF ToCome
  <2>2. \A u \in OnList : u[1] \in Client
    BY OneWatcher DEF OnList
  <2>. QED
    BY <1>1, <1>3, <2>1, <2>2 DEF Ahead
<1>. QED
  BY <1>2, <1>3

LEMMA NotALine ==
    ASSUME NEW x \in {Ack, Nack}, NEW n \in Nat
    PROVE  x # n
  BY RegistryAssumption

----------------------------------------------------------------------------
(***************************************************************************)
(* The clients' steps.                                                     *)
(***************************************************************************)
LEMMA EnvListsKept ==
    ASSUME IInv, EnvFrame
    PROVE  Lists' /\ Linked' /\ ~crashed'
<1>1. OnList' = OnList
  BY DEF EnvFrame, memory, OnList, Out
<1>2. HalfIn' = HalfIn /\ wat' = wat /\ ec' = ec /\ screen' = screen /\ at' = at /\ UNCHANGED disp
  BY DEF EnvFrame, memory, HalfIn
<1>3. Visiting' /\ \A pos \in [Watcher -> Int] : Ahead(pos) => Ahead(pos)'
  BY <1>1, <1>2, WalkKept
<1>4. Watchers' /\ Inserting' /\ Removing'
  BY <1>1 DEF IInv, Lists, Watchers, Inserting, Removing, EnvFrame, memory, conn
<1>5. ListKept
  BY <1>1 DEF ListKept, First, LastOne, Nexts, Prevs, Nx, OutAfter, HalfIn, HalfOut, EnvFrame, memory, conn
<1>. QED
  BY <1>3, <1>4, <1>5, LinkedKept DEF IInv, Lists, EnvFrame

LEMMA ConnectKeeps ==
    ASSUME IInv, TypeOK', NEW c \in Client, Connect(c)
    PROVE  IInv'
<1>1. TypeOK'
  OBVIOUS
<1>2. Waiting'
  <2>1. /\ Len(backlog') = Len(backlog) + 1 /\ Len(backlog) \in Nat
        /\ \A i \in 1..Len(backlog) : backlog'[i] = backlog[i]
        /\ backlog'[Len(backlog) + 1] = c
    BY DEF Connect, IInv, TypeOK
  <2>2. \A i \in 1..Len(backlog) : backlog[i] # c
    BY DEF Connect, Connected
  <2>. QED
    BY <2>1, <2>2 DEF IInv, Connections, Waiting, Connect, EnvFrame, memory
<1>3. Placed' /\ Sockets' /\ Events' /\ Working'
  BY DEF IInv, Connections, Placed, Sockets, Registered, Closing, Events, Working,
         Connect, EnvFrame, memory, conn
<1>4. Requests'
  BY DEF IInv, Requests, Handling, Connect, EnvFrame, memory
<1>5. Screens'
  BY DEF IInv, Screens, Connect, EnvFrame, memory, disp
<1>. QED
  BY <1>1, <1>2, <1>3, <1>4, <1>5, EnvListsKept DEF IInv, Connections, Connect

(* A client's good request is the first one it sends.                       *)
LEMMA FirstGood ==
    ASSUME MaxGood = 1, TypeOK, NEW c \in Client, Request(c, "good")
    PROVE  ~Good(asked[c])
<1>1. SUFFICES ASSUME NEW i \in 1..Len(asked[c]), asked[c][i] = "good" PROVE FALSE
  BY DEF Good, In
<1>2. Len(asked[c]) \in Nat
  BY DEF TypeOK
<1>. DEFINE T == {j \in 1..Len(asked[c]) : asked[c][j] = "good"}
<1>3. T \in SUBSET (1..Len(asked[c])) /\ i \in T
  BY <1>1
<1>. HIDE DEF T
<1>4. IsFiniteSet(T)
  <2>1. IsFiniteSet(1..Len(asked[c]))
    BY <1>2, FS_Interval
  <2>. QED
    BY <1>3, <2>1, FS_Subset
<1>5. Cardinality(T) \in Nat /\ Cardinality(T) # 0
  BY <1>3, <1>4, FS_CardinalityType, FS_EmptySet
<1>6. Cardinality(T) < 1
  BY DEF Request, NumGood, T
<1>. QED
  BY <1>5, <1>6

LEMMA OnlyGood ==
    ASSUME TypeOK, AskedOnce', NEW c \in Client, Request(c, "good")
    PROVE  ~Good(asked[c])
<1>1. asked[c] \in Seq(Kinds) /\ asked' = [asked EXCEPT ![c] = Append(asked[c], "good")] /\ "good" \in Kinds
  BY DEF TypeOK, Request, Kinds
<1>2. /\ Len(asked'[c]) = Len(asked[c]) + 1 /\ Len(asked[c]) \in Nat
      /\ \A i \in 1..Len(asked[c]) : asked'[c][i] = asked[c][i]
      /\ asked'[c][Len(asked[c]) + 1] = "good"
  BY <1>1 DEF TypeOK
<1>. QED
  BY <1>2 DEF AskedOnce, Good, In

LEMMA RequestKeeps ==
    ASSUME IInv, TypeOK', AskedOnce', NEW c \in Client, NEW kind \in Asks(c), Request(c, kind)
    PROVE  IInv'
<1>1. kind \in Kinds
  BY RegistryAssumption
<1>2. TypeOK'
  OBVIOUS
<1>3. Connections'
  BY DEF IInv, Connections, Placed, Sockets, Waiting, Registered, Closing, Events, Working,
         Request, EnvFrame, memory, conn, TypeOK
<1>4. kind = "good" => ~Good(asked[c])
  BY OnlyGood DEF IInv
<1>5. /\ \A y : In(y, asked[c]') <=> In(y, asked[c]) \/ y = kind
      /\ \A y : In(y, unread[c]') <=> In(y, unread[c]) \/ y = kind
      /\ OneGood(unread[c]')
  BY <1>1, <1>4, AppendIn, AppendGood DEF IInv, TypeOK, Request, Requests
<1>6. \A d \in Client \ {c} : asked'[d] = asked[d] /\ unread'[d] = unread[d]
  BY DEF Request, IInv, TypeOK
<1>7. Requests'
  BY <1>4, <1>5, <1>6 DEF IInv, Requests, Good, Handling, Request, EnvFrame, memory
<1>8. Screens'
  BY <1>4, <1>5, <1>6 DEF IInv, Screens, Good, Request, EnvFrame, memory, disp
<1>. QED
  BY <1>2, <1>3, <1>7, <1>8, EnvListsKept DEF IInv, Request

LEMMA LeaveKeeps ==
    ASSUME IInv, TypeOK', NEW c \in Client, Leave(c)
    PROVE  IInv'
<1>1. TypeOK'
  OBVIOUS
<1>2. Connections'
  BY DEF IInv, Connections, Placed, Sockets, Waiting, Registered, Closing, Events, Working,
         Leave, EnvFrame, memory, conn, TypeOK
<1>3. Requests'
  BY DEF IInv, Requests, Handling, Leave, EnvFrame, memory
<1>4. Screens'
  BY DEF IInv, TypeOK, Screens, Leave, EnvFrame, memory, disp
<1>. QED
  BY <1>1, <1>2, <1>3, <1>4, EnvListsKept DEF IInv, Leave

----------------------------------------------------------------------------
(***************************************************************************)
(* The event loop and accept.                                              *)
(***************************************************************************)
(* What the dispatch thread is at work on is its own: the connection thread *)
(* has neither an event of it nor a handler for it.                         *)
LEMMA NotServed ==
    ASSUME Apart, at["disp"] \in Removal
    PROVE  /\ \A e \in batch : e[1] # arg["disp"]
           /\ at["conn"] \in ConnWork => arg["conn"] # arg["disp"]
           /\ ~TakesOff /\ at["conn"] \notin Insertion
  BY DEF Apart, Clash, Serves

(* A step of the connection thread, between handlers or in one that does    *)
(* not touch the list, leaves the list and who is on it.                    *)
LEMMA ConnListKept ==
    ASSUME IInv, at'["disp"] = at["disp"], wat' = wat, UNCHANGED disp,
           UNCHANGED <<node, head, tail, prv>>, at["conn"] \notin Mid, at'["conn"] \notin Mid,
           \A w \in OnList : ec'[w[1]].fd = ec[w[1]].fd,
           \A c \in Client : In(line, screen'[c]) => In(line, screen[c])
    PROVE  Linked' /\ Visiting' /\ OnList' = OnList
<1>1. wat \in [Thread -> Watcher \cup {NoOne}] /\ "conn" \in Thread
      /\ \A u \in Thread \ {"conn"} : at'[u] = at[u] /\ wat'[u] = wat[u]
  BY DEF IInv, TypeOK, Thread
<1>2. ListKept
  BY <1>1, ListSteady
<1>3. OnList' = OnList
  BY <1>2 DEF ListKept
<1>4. ~HalfIn
  BY DEF HalfIn, Mid, Insertion
<1>5. Visiting' /\ \A pos \in [Watcher -> Int] : Ahead(pos) => Ahead(pos)'
  BY <1>3, <1>4, WalkKept
<1>. QED
  BY <1>2, <1>3, <1>5, LinkedKept DEF IInv

(* What such a step leaves to be shown.                                     *)
LEMMA BetweenHandlers ==
    ASSUME IInv, at'["disp"] = at["disp"], wat' = wat,
           arg'["disp"] = arg["disp"], UNCHANGED disp,
           UNCHANGED <<node, head, tail, prv, asked, unread, screen, gone>>,
           at["conn"] \in {"loop", "accept"}, at'["conn"] \in {"loop", "accept", "recv", "close"},
           \A c \in Client :
              \/ ec'[c] = ec[c]
              \/ ec[c].st = "none" /\ ec'[c].watch = NoOne
    PROVE  Requests' /\ Lists' /\ Linked' /\ Screens'
<1>1. at["conn"] \notin Mid /\ at'["conn"] \notin Mid
  BY DEF Mid, Insertion
<1>2. \A w \in OnList : w[1] \in Client /\ ec'[w[1]] = ec[w[1]]
  <2>1. \A w \in OnList : w[1] \in Client /\ ec[w[1]].st = "live"
    BY OneWatcher DEF IInv, Lists, Watchers, OnList
  <2>. QED
    BY <2>1
<1>3. Linked' /\ Visiting' /\ OnList' = OnList
  BY <1>1, <1>2, ConnListKept
<1>4. Requests'
  BY DEF IInv, Requests, Handling
<1>5. Watchers'
  <2>1. \A c \in Client : ec'[c].watch \in {NoOne, W(c)} /\ (ec'[c].st # "live" => ec'[c].watch = NoOne)
    BY DEF IInv, Lists, Watchers
  <2>2. ASSUME NEW c \in Client, ec'[c].watch # NoOne
        PROVE  W(c) \in OnList' \/ \E t \in Thread : at'[t] \in {"freeWatch", "freeConn"} /\ arg'[t] = c
    <3>1. ec'[c] = ec[c]
      BY <2>2
    <3>. QED
      BY <1>3, <2>2, <3>1 DEF IInv, Lists, Watchers, Thread
  <2>3. \A w \in OnList' : /\ ec'[w[1]].st = "live"
                           /\ ec'[w[1]].watch = w \/ (at'["conn"] = "attach" /\ wat'["conn"] = w)
    BY <1>2, <1>3 DEF IInv, Lists, Watchers
  <2>4. \A w \in OnList' : node'[w].filter \/
          \E t \in Thread : at'[t] \in {"unlinkPrev", "unlinkNext"} /\ wat'[t] = w
    BY <1>3 DEF IInv, Lists, Watchers, Thread
  <2>. QED
    BY <2>1, <2>2, <2>3, <2>4 DEF Watchers
<1>6. Inserting'
  BY DEF Inserting, Insertion
<1>7. Removing'
  <2>1. at["disp"] \in Removal => arg["disp"] \in Client /\ ec'[arg["disp"]] = ec[arg["disp"]]
    BY DEF IInv, Connections, Working
  <2>. QED
    BY <1>3, <2>1 DEF IInv, Lists, Removing, Thread, Removal, AfterClose
<1>8. Screens'
  BY <1>1 DEF IInv, Screens, Removal, AfterClose, disp, Mid
<1>. QED
  BY <1>3, <1>4, <1>5, <1>6, <1>7, <1>8 DEF Lists

LEMMA WaitEventsKeeps ==
    ASSUME IInv, TypeOK', WaitEvents
    PROVE  IInv'
<1>1. at["conn"] = "loop" /\ batch = {} /\ at' = at /\ arg' = arg /\ ec' = ec /\ sock' = sock
  BY DEF WaitEvents, memory
<1>2. \A e \in batch' : \/ \E c \in Client : event[c] /\ e = <<c, gone[c]>>
                        \/ e = <<NoOne, FALSE>>
  <2>1. batch' = {<<c, gone[c]>> : c \in {d \in Client : event[d]}}
                \cup (IF knock THEN {<<NoOne, FALSE>>} ELSE {})
    BY DEF WaitEvents
  <2>2. ASSUME NEW e \in {<<c, gone[c]>> : c \in {d \in Client : event[d]}}
        PROVE  \E c \in Client : event[c] /\ e = <<c, gone[c]>>
    OBVIOUS
  <2>. QED
    BY <2>1, <2>2
<1>4. Connections'
  <2>1. Placed' /\ Sockets' /\ Waiting' /\ Working'
    BY <1>1 DEF IInv, Connections, Placed, Sockets, Waiting, Registered, Closing, Working,
       WaitEvents, ConnFrame, clients, memory
  <2>2. \A c \in Client : event[c] => ec[c].st = "live"
    BY OneWatcher DEF IInv, Connections, Sockets, Registered
  <2>3. ec' = ec /\ at'["conn"] = "loop"
    BY <1>1 DEF WaitEvents, memory
  <2>4. Events'
    <3>1. \A c \in Client : c # NoOne
      BY OneWatcher
    <3>2. ASSUME NEW e \in batch'
          PROVE  \/ e[1] \in Client /\ event[e[1]] /\ e = <<e[1], gone[e[1]]>>
                 \/ e = <<NoOne, FALSE>> /\ e[1] = NoOne
      <4>1. CASE e = <<NoOne, FALSE>>
        BY <4>1
      <4>2. ASSUME NEW c \in Client, event[c], e = <<c, gone[c]>>
            PROVE  e[1] \in Client /\ event[e[1]] /\ e = <<e[1], gone[e[1]]>>
        BY <4>2
      <4>. QED
        BY <1>2, <4>1, <4>2
    <3>3. \A d, e \in batch' : d[1] = e[1] => d = e
      BY <3>1, <3>2
    <3>4. \A e \in batch' : e[1] # NoOne => ec'[e[1]].st = "live"
      BY <2>2, <2>3, <3>2
    <3>. QED
      BY <2>3, <3>3, <3>4 DEF Events, ConnWork, Insertion, Removal, AfterClose
  <2>. QED
    BY <2>1, <2>4 DEF Connections
<1>5. Requests' /\ Lists' /\ Linked' /\ Screens'
  BY <1>1, BetweenHandlers DEF WaitEvents, memory, ConnFrame, clients
<1>. QED
  BY <1>4, <1>5 DEF IInv, WaitEvents, ConnFrame

LEMMA HandleEventKeeps ==
    ASSUME IInv, TypeOK', HandleEvent
    PROVE  IInv'
<1>1. PICK e \in batch :
        IF e[1] # NoOne /\ ~LiveConn(e[1]) THEN Crash ELSE
        /\ batch' = batch \ {e}
        /\ arg' = [arg EXCEPT !["conn"] = e[1]]
        /\ Goto("conn", IF e[1] = NoOne THEN "accept"
                        ELSE IF e[2] THEN "close" ELSE "recv")
        /\ UNCHANGED <<kernel, memory, wat, prv, nxt>>
        /\ ConnFrame
  BY DEF HandleEvent
<1>2. e[1] \in Client \cup {NoOne} /\ (e[1] # NoOne => LiveConn(e[1]))
  BY DEF IInv, TypeOK, Connections, Events, LiveConn
<1>3. /\ batch' = batch \ {e} /\ arg' = [arg EXCEPT !["conn"] = e[1]]
      /\ Goto("conn", IF e[1] = NoOne THEN "accept" ELSE IF e[2] THEN "close" ELSE "recv")
      /\ UNCHANGED <<kernel, memory, wat, prv, nxt>> /\ ConnFrame
  BY <1>1, <1>2
<1>4. /\ at["conn"] = "loop" /\ DOMAIN at = Thread
      /\ arg \in [Thread -> Client \cup {NoOne}]
  BY DEF HandleEvent, IInv, TypeOK
<1>5. /\ at'["disp"] = at["disp"] /\ arg'["disp"] = arg["disp"] /\ arg'["conn"] = e[1] /\ DOMAIN at' = Thread
      /\ at'["conn"] \in {"accept", "close", "recv"} /\ (at'["conn"] = "accept" <=> e[1] = NoOne)
  BY <1>3, <1>4 DEF Goto, Thread
<1>7. Connections'
  <2>1. Placed' /\ Waiting' /\ Working'
    BY <1>2, <1>3, <1>4, <1>5 DEF IInv, Connections, Placed, Waiting, Working, LiveConn,
       ConnWork, Insertion, Removal, AfterClose, ConnFrame, clients, memory
  <2>2. Events'
    BY <1>2, <1>3, <1>4, <1>5, OneWatcher DEF IInv, Connections, Events, memory
  <2>3. Sockets'
    BY <1>3, <1>4, <1>5 DEF IInv, Connections, Sockets, Registered, Closing, AfterClose, Thread, memory, kernel
  <2>. QED
    BY <2>1, <2>2, <2>3 DEF Connections
<1>8. Requests' /\ Lists' /\ Linked' /\ Screens'
  BY <1>3, <1>4, <1>5, BetweenHandlers DEF memory, kernel, ConnFrame, clients
<1>. QED
  BY <1>3, <1>7, <1>8 DEF IInv, ConnFrame

LEMMA AcceptNothingKeeps ==
    ASSUME IInv, TypeOK', AcceptNothing
    PROVE  IInv'
<1>1. at["conn"] = "accept" /\ DOMAIN at = Thread
  BY DEF AcceptNothing, IInv, TypeOK
<1>2. at'["disp"] = at["disp"] /\ at'["conn"] = "loop" /\ DOMAIN at' = Thread
  BY <1>1 DEF Goto, Thread, AcceptNothing
<1>4. Connections'
  BY <1>1, <1>2 DEF IInv, Connections, Placed, Sockets, Waiting, Registered, Closing, Working, Events,
       AcceptNothing, clients, memory, kernel, ConnWork, Insertion, Removal, AfterClose, Thread
<1>5. Requests' /\ Lists' /\ Linked' /\ Screens'
  BY <1>1, <1>2, BetweenHandlers DEF AcceptNothing, memory, kernel, clients
<1>. QED
  BY <1>4, <1>5 DEF IInv, AcceptNothing

(* What accept takes: the first that waits, and a free descriptor.          *)
LEMMA Taken ==
    ASSUME IInv, backlog # << >>, FreeFds # {}
    PROVE  /\ Head(backlog) \in Client /\ ec[Head(backlog)].st = "none"
           /\ ec[Head(backlog)].watch = NoOne
           /\ \A f \in Fd : sock[f] # Head(backlog)
           /\ Min(FreeFds) \in Fd /\ sock[Min(FreeFds)] = NoOne
           /\ Tail(backlog) \in Seq(Client)
           /\ \A i \in 1..Len(Tail(backlog)) :
                 ec[Tail(backlog)[i]].st = "none" /\ Tail(backlog)[i] \in Client \ {Head(backlog)}
           /\ \A i, j \in 1..Len(Tail(backlog)) : Tail(backlog)[i] = Tail(backlog)[j] => i = j
<1>1. /\ Len(Tail(backlog)) = Len(backlog) - 1 /\ Len(backlog) \in Nat \ {0}
      /\ Head(backlog) = backlog[1] /\ \A i \in 1..Len(backlog) : backlog[i] \in Client
      /\ \A i \in 1..Len(Tail(backlog)) : Tail(backlog)[i] = backlog[i+1]
      /\ Tail(backlog) \in Seq(Client)
  BY DEF IInv, TypeOK
<1>3. Min(FreeFds) \in Fd /\ sock[Min(FreeFds)] = NoOne
  BY SomeFree
<1>4. \A i \in 1..Len(backlog) : ec[backlog[i]].st = "none"
  BY DEF IInv, Connections, Waiting
<1>5. \A i, j \in 1..Len(backlog) : backlog[i] = backlog[j] => i = j
  BY DEF IInv, Connections, Waiting
<1>6. Head(backlog) \in Client /\ ec[Head(backlog)].st = "none"
  BY <1>1, <1>4
<1>7. ec[Head(backlog)].watch = NoOne /\ \A f \in Fd : sock[f] # Head(backlog)
  BY <1>6, OneWatcher DEF IInv, Lists, Watchers, Connections, Sockets
<1>8. \A i \in 1..Len(Tail(backlog)) :
         i + 1 \in 1..Len(backlog) /\ i + 1 # 1 /\ 1 \in 1..Len(backlog)
  BY <1>1
<1>. QED
  BY <1>1, <1>3, <1>4, <1>5, <1>6, <1>7, <1>8

LEMMA AcceptKeeps ==
    ASSUME IInv, TypeOK', Accept
    PROVE  IInv'
<1>. DEFINE c == Head(backlog)
            f == Min(FreeFds)
<1>1. /\ c \in Client /\ ec[c].st = "none" /\ ec[c].watch = NoOne
      /\ \A g \in Fd : sock[g] # c
      /\ f \in Fd /\ sock[f] = NoOne /\ backlog' \in Seq(Client)
      /\ \A i \in 1..Len(backlog') : ec[backlog'[i]].st = "none" /\ backlog'[i] \in Client \ {c}
      /\ \A i, j \in 1..Len(backlog') : backlog'[i] = backlog'[j] => i = j
  BY Taken DEF Accept
<1>2. /\ sock' = [sock EXCEPT ![f] = c]
      /\ ec' = [ec EXCEPT ![c] = [st |-> "live", fd |-> f, watch |-> NoOne]]
      /\ event' = [event EXCEPT ![c] = FirstEvent(c)]
      /\ at' = at /\ at["conn"] = "accept" /\ AcceptFrame
  BY DEF Accept, Install, AcceptAgain
<1>. HIDE DEF c, f
<1>4. \A u \in Thread : at[u] \in AfterClose => arg[u] # c
  BY <1>1, <1>2 DEF IInv, Connections, Working, Thread, Removal, AfterClose
<1>5. /\ sock'[f] = c /\ ec'[c].st = "live" /\ ec'[c].fd = f /\ ec'[c].watch = NoOne
      /\ \A g \in Fd \ {f} : sock'[g] = sock[g]
      /\ \A d \in Client \ {c} : ec'[d] = ec[d] /\ event'[d] = event[d]
  BY <1>1, <1>2 DEF IInv, TypeOK
<1>6. Connections'
  <2>1. Placed' /\ Working'
    BY <1>1, <1>2, <1>5 DEF IInv, Connections, Placed, Working, AcceptFrame, ConnWork, Insertion,
       Removal, AfterClose
  <2>2. Waiting'
    BY <1>1, <1>5 DEF Waiting
  <2>3. Events'
    <3>1. \A e \in batch : e[1] # NoOne => e[1] \in Client \ {c}
      BY <1>1 DEF IInv, TypeOK, Connections, Events
    <3>. QED
      BY <1>2, <1>5, <3>1 DEF IInv, Connections, Events, AcceptFrame
  <2>4. Sockets'
    <3>6. (\A d \in Client : (Closing(d))' <=> Closing(d)) /\ ~Closing(c) /\ c # NoOne /\ f \in Fd
      BY <1>1, <1>2, <1>4, OneWatcher DEF Closing, AcceptFrame
    <3>1. \A g \in Fd : sock'[g] # NoOne => ec'[sock'[g]].st = "live" /\ ec'[sock'[g]].fd = g
      <4>1. \A g \in Fd \ {f} : sock[g] # NoOne =>
               sock[g] \in Client \ {c} /\ ec[sock[g]].st = "live" /\ ec[sock[g]].fd = g
        BY <1>1 DEF IInv, TypeOK, Connections, Sockets
      <4>. QED
        BY <1>1, <1>5, <4>1
    <3>2. ASSUME NEW d \in Client, ec'[d].st = "live"
          PROVE  ec'[d].fd \in Fd /\ (sock'[ec'[d].fd] = d \/ Closing(d)')
      <4>1. CASE d = c
        BY <1>5, <3>6, <4>1
      <4>2. CASE d # c
        <5>1. ec'[d] = ec[d] /\ ec[d].st = "live" /\ d # NoOne
          BY <1>5, <3>2, <4>2, OneWatcher
        <5>2. ec[d].fd \in Fd /\ (sock[ec[d].fd] = d \/ Closing(d))
          BY <5>1 DEF IInv, Connections, Sockets
        <5>3. sock[ec[d].fd] = d => sock'[ec[d].fd] = d
          BY <1>1, <1>5, <5>1, <5>2
        <5>. QED
          BY <3>6, <5>1, <5>2, <5>3
      <4>. QED
        BY <4>1, <4>2
    <3>3. ASSUME NEW d \in Client, event'[d] PROVE Registered(d)'
      BY <1>1, <1>5, <3>3, OneWatcher DEF IInv, Connections, Sockets, Registered
    <3>4. \A g \in Fd : sock'[g] # NoOne => \A u \in Thread : at'[u] \in AfterClose => arg'[u] # sock'[g]
      <4>1. \A g \in Fd \ {f} : sock[g] # NoOne => ~Closing(sock[g])
        BY DEF IInv, Connections, Sockets
      <4>. QED
        BY <1>2, <1>4, <1>5, <4>1 DEF Closing, AcceptFrame
    <3>5. \A g \in Fd : sock'[g] \in Client \cup {NoOne}
      BY DEF TypeOK
    <3>. QED
      BY <3>1, <3>2, <3>3, <3>4, <3>5 DEF Sockets, Closing
  <2>. QED
    BY <2>1, <2>2, <2>3, <2>4 DEF Connections
<1>7. Requests' /\ Lists' /\ Linked' /\ Screens'
  BY <1>1, <1>2, <1>5, BetweenHandlers DEF AcceptFrame
<1>. QED
  BY <1>2, <1>6, <1>7 DEF IInv, AcceptFrame

LEMMA AcceptFailsKeeps ==
    ASSUME IInv, TypeOK', AcceptFails
    PROVE  IInv'
<1>. DEFINE c == Head(backlog)
<1>1. /\ c \in Client /\ ec[c].st = "none" /\ ec[c].watch = NoOne
      /\ \A g \in Fd : sock[g] # c
      /\ backlog' \in Seq(Client)
      /\ \A i \in 1..Len(backlog') : ec[backlog'[i]].st = "none" /\ backlog'[i] \in Client \ {c}
      /\ \A i, j \in 1..Len(backlog') : backlog'[i] = backlog'[j] => i = j
  BY Taken DEF AcceptFails
<1>2. /\ sock' = sock /\ event' = event /\ ec' = [ec EXCEPT ![c].st = "freed"]
      /\ at["conn"] = "accept" /\ AcceptFrame
      /\ at' = at \/ Goto("conn", "loop")
  BY DEF AcceptFails, Closed
<1>. HIDE DEF c
<1>3. DOMAIN at = Thread
  BY DEF IInv, TypeOK
<1>4. at'["disp"] = at["disp"] /\ at'["conn"] \in {"loop", "accept"} /\ DOMAIN at' = Thread
  BY <1>2, <1>3 DEF Goto, Thread
<1>5. \A u \in Thread : at[u] \in AfterClose => arg[u] # c
  BY <1>1, <1>2 DEF IInv, Connections, Working, Thread, Removal, AfterClose
<1>6. /\ ec'[c].st = "freed" /\ ec'[c].watch = NoOne
      /\ \A d \in Client \ {c} : ec'[d] = ec[d]
  BY <1>1, <1>2 DEF IInv, TypeOK
<1>7. Connections'
  <2>1. Placed' /\ Working'
    <3>1. at["disp"] \in Removal => arg["disp"] \in Client \ {c} /\ ec[arg["disp"]].st = "live"
      BY <1>1 DEF IInv, Connections, Working
    <3>. QED
      BY <1>2, <1>4, <1>6, <3>1 DEF IInv, Connections, Placed, Working, AcceptFrame, ConnWork, Insertion,
         Removal, AfterClose
  <2>2. Waiting'
    BY <1>1, <1>6 DEF Waiting
  <2>3. Events'
    <3>1. \A e \in batch : e[1] # NoOne => e[1] \in Client \ {c}
      BY <1>1 DEF IInv, TypeOK, Connections, Events
    <3>. QED
      BY <1>2, <1>4, <1>6, <3>1 DEF IInv, Connections, Events, AcceptFrame, ConnWork, Insertion, Removal, AfterClose
  <2>4. Sockets'
    <3>1. \A u \in Thread : at'[u] \in AfterClose <=> at[u] \in AfterClose
      BY <1>2, <1>4 DEF Thread, AfterClose
    <3>2. \A g \in Fd : sock[g] # NoOne => sock[g] \in Client \ {c}
      BY <1>1 DEF IInv, TypeOK
    <3>3. \A g \in Fd : sock[g] # NoOne => ec[sock[g]].st = "live" /\ ec[sock[g]].fd = g /\ ~Closing(sock[g])
      BY DEF IInv, Connections, Sockets
    <3>4. \A d \in Client : ec'[d].st = "live" => ec'[d] = ec[d] /\ d # c
      BY <1>6
    <3>5. \A d \in Client : ec[d].st = "live" => ec[d].fd \in Fd /\ (sock[ec[d].fd] = d \/ Closing(d))
      BY DEF IInv, Connections, Sockets
    <3>6. \A d \in Client : event[d] => Registered(d)
      BY DEF IInv, Connections, Sockets
    <3>7. sock' = sock /\ arg' = arg /\ event' = event
      BY <1>2 DEF AcceptFrame
    <3>8. \A d \in Client : Closing(d) => (Closing(d))'
      BY <3>1, <3>7 DEF Closing
    <3>9. \A d \in Client : (Closing(d))' => Closing(d)
      BY <3>1, <3>7 DEF Closing
    <3>10. \A d \in Client : event'[d] => (Registered(d))'
      BY <3>6, <3>7 DEF Registered
    <3>11. \A g \in Fd : sock'[g] # NoOne => ec'[sock'[g]].st = "live" /\ ec'[sock'[g]].fd = g
                              /\ \A u \in Thread : at'[u] \in AfterClose => arg'[u] # sock'[g]
      BY <1>6, <3>1, <3>2, <3>3, <3>7 DEF Closing
    <3>12. \A d \in Client : ec'[d].st = "live" => ec'[d].fd \in Fd /\ (sock'[ec'[d].fd] = d \/ (Closing(d))')
      BY <3>4, <3>5, <3>7, <3>8
    <3>. QED
      BY <3>10, <3>11, <3>12 DEF Sockets, Closing
  <2>. QED
    BY <2>1, <2>2, <2>3, <2>4 DEF Connections
<1>8. Requests' /\ Lists' /\ Linked' /\ Screens'
  <2>1. \A d \in Client : ec'[d] = ec[d] \/ (ec[d].st = "none" /\ ec'[d].watch = NoOne)
    BY <1>1, <1>6
  <2>. QED
    BY <1>2, <1>3, <1>4, <2>1, BetweenHandlers DEF AcceptFrame
<1>. QED
  BY <1>2, <1>7, <1>8 DEF IInv, AcceptFrame

----------------------------------------------------------------------------
(***************************************************************************)
(* A request and its answer.                                               *)
(***************************************************************************)
Handler == ConnWork \ AfterClose

(* In a handler, until it closes the connection, the descriptor is open.    *)
LEMMA HandlersConnection ==
    ASSUME Apart, IInv, at["conn"] \in Handler
    PROVE  /\ arg["conn"] \in Client /\ ec[arg["conn"]].st = "live" /\ LiveConn(arg["conn"])
           /\ ec[arg["conn"]].fd \in Fd /\ sock[ec[arg["conn"]].fd] = arg["conn"]
           /\ at["disp"] \in Removal => arg["disp"] # arg["conn"]
           /\ DOMAIN at = Thread
<1>1. arg["conn"] \in Client /\ ec[arg["conn"]].st = "live"
  BY DEF IInv, Connections, Working, Handler
<1>2. at["conn"] \in ConnWork \ AfterClose /\ DOMAIN at = Thread
  BY DEF IInv, TypeOK, Handler
<1>3. at["disp"] \in Removal => arg["disp"] # arg["conn"]
  BY <1>2, NotServed
<1>4. ~Closing(arg["conn"])
  BY <1>2, <1>3 DEF Closing, Removal, Thread
<1>. QED
  BY <1>1, <1>2, <1>3, <1>4, OneWatcher DEF IInv, Connections, Sockets, LiveConn

(* No descriptor is opened or closed, and no thread goes past a close.      *)
LEMMA SocketsKept ==
    ASSUME TypeOK, Sockets, UNCHANGED <<sock, event, arg>>,
           \A u \in Thread : at'[u] \in AfterClose <=> at[u] \in AfterClose,
           \A c \in Client : ec'[c].st = ec[c].st /\ ec'[c].fd = ec[c].fd
    PROVE  Sockets'
<1>1. \A g \in Fd : sock[g] # NoOne => sock[g] \in Client
  BY DEF TypeOK
<1>2. \A g \in Fd : sock'[g] # NoOne =>
         /\ ec'[sock'[g]].st = "live" /\ ec'[sock'[g]].fd = g
         /\ \A u \in Thread : at'[u] \in AfterClose => arg'[u] # sock'[g]
  BY <1>1 DEF Sockets, Closing
<1>3. \A d \in Client : Closing(d) => (Closing(d))'
  BY DEF Closing
<1>4. \A d \in Client : ec'[d].st = "live" => ec'[d].fd \in Fd /\ (sock'[ec'[d].fd] = d \/ (Closing(d))')
  BY <1>3 DEF Sockets
<1>5. \A d \in Client : event'[d] => (Registered(d))'
  BY DEF Sockets, Registered
<1>. QED
  BY <1>2, <1>4, <1>5 DEF Sockets, Closing

LEMMA HandlerConnections ==
    ASSUME Apart, IInv, at["conn"] \in Handler, at'["conn"] \in {"loop"} \cup Handler,
           at'["disp"] = at["disp"],
           UNCHANGED <<backlog, sock, event, batch, arg>>,
           \A c \in Client : ec'[c].st = ec[c].st /\ ec'[c].fd = ec[c].fd
    PROVE  Connections'
<1>1. /\ "loop" \notin ConnWork /\ arg["conn"] \in Client /\ ec[arg["conn"]].st = "live"
  BY HandlersConnection DEF ConnWork, Insertion, Removal, AfterClose
<1>2. \A t \in Thread : at'[t] \in AfterClose <=> at[t] \in AfterClose
  BY DEF Thread, Handler, AfterClose
<1>3. Placed' /\ Working'
  <2>1. at["disp"] \in Removal => arg["disp"] \in Client /\ ec[arg["disp"]].st = "live"
    BY DEF IInv, Connections, Working
  <2>2. at["disp"] \in {"idle", "next"} \cup Visit \cup Removal
    BY DEF IInv, Connections, Placed
  <2>. QED
    BY <1>1, <2>1, <2>2 DEF Placed, Working, Handler
<1>4. Sockets'
  BY <1>2, SocketsKept DEF IInv, Connections
<1>5. Waiting'
  BY DEF IInv, TypeOK, Connections, Waiting
<1>6. Events'
  BY <1>1 DEF IInv, TypeOK, Connections, Events, Handler
<1>. QED
  BY <1>3, <1>4, <1>5, <1>6 DEF Connections

(* The lists, when the handler neither starts an insertion nor a removal.   *)
LEMMA HandlerLists ==
    ASSUME IInv, at["conn"] \in {"recv", "answer"},
           at'["conn"] \in {"loop", "close", "answer", "malloc"}, at'["disp"] = at["disp"],
           UNCHANGED <<memory, arg, wat, prv, nxt, disp>>,
           at'["conn"] \in {"answer", "malloc"} =>
              node[W(arg["conn"])].st = "none" /\ ec[arg["conn"]].watch = NoOne,
           \A c \in Client : In(line, screen'[c]) => In(line, screen[c])
    PROVE  Lists' /\ Linked'
<1>1. at["conn"] \notin Mid /\ at'["conn"] \notin Mid
  BY DEF Mid, Insertion
<1>2. UNCHANGED <<node, head, tail, prv>> /\ ec' = ec
  BY DEF memory
<1>3. Linked' /\ Visiting' /\ OnList' = OnList
  BY <1>1, <1>2, ConnListKept
<1>4. Watchers'
  BY <1>3 DEF IInv, Lists, Watchers, Thread, memory
<1>5. Inserting' /\ Removing'
  BY <1>3 DEF IInv, Lists, Inserting, Removing, Insertion, Thread, memory
<1>. QED
  BY <1>3, <1>4, <1>5 DEF Lists

LEMMA OnlyThese ==
    ASSUME IInv, line' = line,
           \A d \in Client : \A y :
              In(y, screen'[d]) => In(y, screen[d]) \/ y \in {Ack, Nack} \cup (1..line)
    PROVE  \A d \in Client : \A i \in 1..Len(screen'[d]) : screen'[d][i] \in {Ack, Nack} \cup (1..line')
<1>1. SUFFICES ASSUME NEW d \in Client, NEW i \in 1..Len(screen'[d])
               PROVE  screen'[d][i] \in {Ack, Nack} \cup (1..line)
  OBVIOUS
<1>2. In(screen'[d][i], screen'[d])
  BY DEF In
<1>3. CASE In(screen'[d][i], screen[d])
  BY <1>3 DEF In, IInv, Screens
<1>. QED
  BY <1>2, <1>3

(* An answer is not a line.                                                 *)
LEMMA OnlyAnswers ==
    ASSUME IInv, \A d \in Client : \A y : In(y, screen'[d]) => In(y, screen[d]) \/ y \in {Ack, Nack}
    PROVE  /\ \A d \in Client : In(line, screen'[d]) => In(line, screen[d])
           /\ \A d \in Client : NoLine(screen[d]) => NoLine(screen'[d])
<1>1. line \in Nat
  BY RegistryAssumption DEF IInv, TypeOK
<1>2. line \notin {Ack, Nack}
  BY <1>1, NotALine
<1>3. ASSUME NEW d \in Client, NoLine(screen[d]) PROVE NoLine(screen'[d])
  <2>1. SUFFICES ASSUME NEW i \in 1..Len(screen'[d]) PROVE screen'[d][i] \in {Ack, Nack}
    BY DEF NoLine
  <2>2. In(screen'[d][i], screen'[d])
    BY DEF In
  <2>. QED
    BY <1>3, <2>2 DEF In, NoLine
<1>. QED
  BY <1>2, <1>3

LEMMA RecvKeeps ==
    ASSUME Apart, IInv, TypeOK', Recv
    PROVE  IInv'
<1>. DEFINE c == arg["conn"]
            f == ec[c].fd
<1>1. /\ at["conn"] = "recv" /\ c \in Client /\ f \in Fd /\ sock[f] = c
      /\ DOMAIN at = Thread /\ c # NoOne /\ LiveConn(c) /\ ec[c].st = "live"
  BY HandlersConnection, OneWatcher DEF Recv, Handler, ConnWork, AfterClose
<1>. HIDE DEF c, f
<1>2. /\ RecvFrame
      /\ \/ /\ Goto("conn", "close") \/ Goto("conn", "loop")
            /\ UNCHANGED <<unread, screen>>
         \/ /\ unread[c] # << >> /\ unread' = [unread EXCEPT ![c] = Tail(@)]
            /\ \/ Head(unread[c]) = "good" /\ Goto("conn", "answer") /\ UNCHANGED screen
               \/ Goto("conn", "close") /\ (Received(f, Nack) \/ UNCHANGED screen)
  BY <1>1 DEF Recv, c, f
<1>3. /\ at'["disp"] = at["disp"] /\ DOMAIN at' = Thread /\ at'["conn"] \in {"close", "loop", "answer"}
  BY <1>1, <1>2 DEF Goto, Thread
<1>4. Connections'
  <2>1. at["conn"] \in Handler /\ at'["conn"] \in {"loop"} \cup Handler
    BY <1>1, <1>3 DEF Handler, ConnWork, Removal, AfterClose
  <2>. QED
    BY <1>1, <1>2, <1>3, <2>1, HandlerConnections DEF RecvFrame, memory, clients
<1>5. /\ unread[c] \in Seq(Kinds) /\ OneGood(unread[c])
      /\ screen' \in [Client -> Seq((1..LastLine) \cup {Ack, Nack})]
      /\ \A d \in Client \ {c} : screen'[d] = screen[d]
      /\ \A y : In(y, screen'[c]) => In(y, screen[c]) \/ y = Nack
      /\ \A d \in Client : \A y : In(y, screen[d]) => In(y, screen'[d])
      /\ at'["conn"] # "close" => screen' = screen
  <2>1. unread[c] \in Seq(Kinds) /\ OneGood(unread[c])
    BY <1>1 DEF IInv, TypeOK, Requests
  <2>2. CASE Received(f, Nack)
    <3>1. Nack \in (1..LastLine) \cup {Ack, Nack}
      OBVIOUS
    <3>2. /\ screen' \in [Client -> Seq((1..LastLine) \cup {Ack, Nack})]
          /\ \A d \in Client \ {c} : screen'[d] = screen[d]
          /\ ~gone[c] => \A y : In(y, screen'[c]) <=> In(y, screen[c]) \/ y = Nack
          /\ gone[c] => screen' = screen
          /\ \A d \in Client : \A y : In(y, screen[d]) => In(y, screen'[d])
      BY <1>1, <2>2, <3>1, ReceivedIn DEF IInv
    <3>3. at'["conn"] # "close" => screen' = screen
      BY <1>1, <1>2 DEF Goto, Thread
    <3>. QED
      BY <2>1, <3>2, <3>3
  <2>3. CASE screen' = screen
    BY <2>1, <2>3 DEF IInv, TypeOK
  <2>. QED
    BY <1>2, <2>2, <2>3
<1>6. /\ unread' \in [Client -> Seq(Kinds)] /\ OneGood(unread'[c])
      /\ \A d \in Client \ {c} : unread'[d] = unread[d]
      /\ Good(unread'[c]) => Good(unread[c])
      /\ at'["conn"] = "answer" => Good(unread[c]) /\ ~Good(unread'[c])
  <2>1. CASE unread' = unread /\ (Goto("conn", "close") \/ Goto("conn", "loop"))
    BY <1>1, <1>5, <2>1 DEF IInv, TypeOK, Goto, Thread
  <2>2. CASE /\ unread[c] # << >> /\ unread' = [unread EXCEPT ![c] = Tail(@)]
             /\ Head(unread[c]) = "good" \/ Goto("conn", "close")
    <3>1. /\ OneGood(Tail(unread[c])) /\ Tail(unread[c]) \in Seq(Kinds)
          /\ Good(Tail(unread[c])) => Good(unread[c])
          /\ Head(unread[c]) = "good" => Good(unread[c]) /\ ~Good(Tail(unread[c]))
      BY <1>5, <2>2, TailGood
    <3>2. unread' \in [Client -> Seq(Kinds)] /\ unread'[c] = Tail(unread[c])
          /\ \A d \in Client \ {c} : unread'[d] = unread[d]
      BY <1>1, <2>2, <3>1 DEF IInv, TypeOK
    <3>3. at'["conn"] = "answer" => Head(unread[c]) = "good"
      BY <1>1, <2>2 DEF Goto, Thread
    <3>. QED
      BY <3>1, <3>2, <3>3
  <2>. QED
    BY <1>2, <2>1, <2>2
<1>7. Good(unread[c]) => node[W(c)].st = "none" /\ Good(asked[c])
  BY <1>1 DEF IInv, Requests
<1>8. /\ \A d \in Client : In(line, screen'[d]) => In(line, screen[d])
      /\ \A d \in Client : NoLine(screen[d]) => NoLine(screen'[d])
  <2>1. \A d \in Client : \A y : In(y, screen'[d]) => In(y, screen[d]) \/ y \in {Ack, Nack}
    BY <1>5
  <2>. QED
    BY <2>1, OnlyAnswers
<1>9. ec' = ec /\ node' = node /\ arg' = arg /\ asked' = asked /\ gone' = gone /\ line' = line
  BY <1>2 DEF RecvFrame, memory, clients, disp
<1>10. Requests'
  BY <1>1, <1>3, <1>6, <1>7, <1>9, OneWatcher DEF IInv, Requests, Handling, c
<1>11. ASSUME at'["conn"] = "answer" PROVE node[W(c)].st = "none" /\ ec[c].watch = NoOne
  <2>1. node[W(c)].st = "none"
    BY <1>6, <1>7, <1>11
  <2>2. ~\E t \in Thread : at[t] \in {"freeWatch", "freeConn"} /\ arg[t] = c
    <3>1. at["conn"] \in Handler
      BY <1>1 DEF Handler, ConnWork, AfterClose
    <3>2. at["disp"] \in Removal => arg["disp"] # c
      BY <3>1, HandlersConnection DEF c
    <3>. QED
      BY <1>1, <3>2 DEF Thread, Removal, AfterClose
  <2>. QED
    BY <1>1, <2>1, <2>2 DEF IInv, Lists, Watchers, OnList
<1>12. Lists' /\ Linked'
  <2>1. at["conn"] \in {"recv", "answer"} /\ at'["conn"] \in {"loop", "close", "answer", "malloc"}
    BY <1>1, <1>3
  <2>2. UNCHANGED <<memory, arg, wat, prv, nxt, disp>>
    BY <1>2 DEF RecvFrame
  <2>. QED
    BY <1>3, <1>8, <1>11, <2>1, <2>2, HandlerLists DEF c
<1>13. Screens'
  <2>1. ASSUME NEW d \in Client, In(Nack, screen'[d])
        PROVE  ec'[d].st = "freed" \/ (at'["conn"] \in Removal /\ arg'["conn"] = d)
    BY <1>1, <1>5, <1>9, <2>1 DEF IInv, Screens, Removal, AfterClose, c
  <2>2. ASSUME NEW d \in Client, In(Ack, screen'[d])
        PROVE  Good(asked'[d]) /\ ~Good(unread'[d]) /\ ~(at'["conn"] = "answer" /\ arg'["conn"] = d)
    <3>1. In(Ack, screen[d])
      BY <1>5, <2>2, RegistryAssumption
    <3>. QED
      BY <1>6, <1>9, <3>1 DEF IInv, Screens, c
  <2>3. ASSUME NEW w \in Watcher, node'[w].st = "live" PROVE In(Ack, screen'[w[1]]) \/ gone'[w[1]]
    BY <1>5, <1>9, <2>3, OneWatcher DEF IInv, Screens
  <2>4. \A d \in Client : \A i \in 1..Len(screen'[d]) : screen'[d][i] \in {Ack, Nack} \cup (1..line')
    <3>1. \A d \in Client : \A y : In(y, screen'[d]) => In(y, screen[d]) \/ y \in {Ack, Nack} \cup (1..line)
      BY <1>5
    <3>. QED
      BY <1>9, <3>1, OnlyThese
  <2>5. ASSUME NEW d \in Client,
               node'[W(d)].st = "none" \/ (at'["conn"] \in Insertion /\ wat'["conn"] = W(d))
        PROVE  NoLine(screen'[d])
    <3>1. node[W(d)].st = "none"
      BY <1>3, <1>9, <2>5 DEF Insertion
    <3>2. NoLine(screen[d])
      BY <3>1 DEF IInv, Screens
    <3>. QED
      BY <1>8, <3>2
  <2>. QED
    BY <1>3, <2>1, <2>2, <2>3, <2>4, <2>5 DEF Screens
<1>. QED
  BY <1>4, <1>10, <1>12, <1>13, <1>2 DEF IInv, RecvFrame

LEMMA AnswerKeeps ==
    ASSUME Apart, IInv, TypeOK', Answer
    PROVE  IInv'
<1>. DEFINE c == arg["conn"]
            f == ec[c].fd
<1>1. /\ at["conn"] = "answer" /\ c \in Client /\ f \in Fd /\ sock[f] = c
      /\ DOMAIN at = Thread /\ c # NoOne /\ LiveConn(c) /\ ec[c].st = "live"
  BY HandlersConnection, OneWatcher DEF Answer, Handler, ConnWork, AfterClose
<1>. HIDE DEF c, f
<1>2. /\ RecvFrame /\ unread' = unread
      /\ \/ Received(f, Ack) /\ Goto("conn", "malloc")
         \/ UNCHANGED screen /\ Goto("conn", "close")
  BY <1>1 DEF Answer, Succeeded, c, f
<1>3. /\ at'["disp"] = at["disp"] /\ DOMAIN at' = Thread /\ at'["conn"] \in {"close", "malloc"}
      /\ at'["conn"] = "malloc" => Received(f, Ack)
  BY <1>1, <1>2 DEF Goto, Thread
<1>4. Connections'
  <2>1. at["conn"] \in Handler /\ at'["conn"] \in {"loop"} \cup Handler
    BY <1>1, <1>3 DEF Handler, ConnWork, Removal, AfterClose
  <2>. QED
    BY <1>1, <1>2, <1>3, <2>1, HandlerConnections DEF RecvFrame, memory, clients
<1>5. /\ screen' \in [Client -> Seq((1..LastLine) \cup {Ack, Nack})]
      /\ \A d \in Client : \A y : In(y, screen[d]) => In(y, screen'[d])
      /\ \A d \in Client : \A y : In(y, screen'[d]) => In(y, screen[d]) \/ (d = c /\ y = Ack)
      /\ at'["conn"] = "malloc" => In(Ack, screen'[c]) \/ gone[c]
  <2>1. CASE Received(f, Ack)
    <3>1. Ack \in (1..LastLine) \cup {Ack, Nack}
      OBVIOUS
    <3>2. /\ screen' \in [Client -> Seq((1..LastLine) \cup {Ack, Nack})]
          /\ \A d \in Client \ {c} : screen'[d] = screen[d]
          /\ ~gone[c] => \A y : In(y, screen'[c]) <=> In(y, screen[c]) \/ y = Ack
          /\ gone[c] => screen' = screen
          /\ \A d \in Client : \A y : In(y, screen[d]) => In(y, screen'[d])
      BY <1>1, <2>1, <3>1, ReceivedIn DEF IInv
    <3>. QED
      BY <3>2
  <2>2. CASE screen' = screen /\ at'["conn"] # "malloc"
    BY <1>1, <2>2 DEF IInv, TypeOK
  <2>. QED
    BY <1>2, <1>3, <2>1, <2>2
<1>6. /\ \A d \in Client : In(line, screen'[d]) => In(line, screen[d])
      /\ \A d \in Client : NoLine(screen[d]) => NoLine(screen'[d])
  <2>1. \A d \in Client : \A y : In(y, screen'[d]) => In(y, screen[d]) \/ y \in {Ack, Nack}
    BY <1>5
  <2>. QED
    BY <2>1, OnlyAnswers
<1>7. /\ ec' = ec /\ node' = node /\ arg' = arg /\ asked' = asked /\ gone' = gone /\ line' = line
      /\ unread' = unread
  BY <1>2 DEF RecvFrame, memory, clients, disp
<1>8. Good(asked[c]) /\ ~Good(unread[c]) /\ node[W(c)].st = "none" /\ ec[c].watch = NoOne
  BY <1>1 DEF IInv, Requests, Handling, Lists, Inserting, c
<1>9. Requests'
  BY <1>1, <1>3, <1>7 DEF IInv, Requests, Handling
<1>10. Lists' /\ Linked'
  <2>1. at["conn"] \in {"recv", "answer"} /\ at'["conn"] \in {"loop", "close", "answer", "malloc"}
    BY <1>1, <1>3
  <2>2. UNCHANGED <<memory, arg, wat, prv, nxt, disp>>
    BY <1>2 DEF RecvFrame
  <2>. QED
    BY <1>3, <1>6, <1>8, <2>1, <2>2, HandlerLists DEF c
<1>11. Screens'
  <2>1. ASSUME NEW d \in Client, In(Nack, screen'[d])
        PROVE  ec'[d].st = "freed" \/ (at'["conn"] \in Removal /\ arg'["conn"] = d)
    <3>1. In(Nack, screen[d])
      BY <1>5, <2>1, RegistryAssumption
    <3>. QED
      BY <1>1, <1>7, <3>1 DEF IInv, Screens, Removal, AfterClose
  <2>2. ASSUME NEW d \in Client, In(Ack, screen'[d])
        PROVE  Good(asked'[d]) /\ ~Good(unread'[d]) /\ ~(at'["conn"] = "answer" /\ arg'["conn"] = d)
    <3>1. In(Ack, screen[d]) \/ d = c
      BY <1>5, <2>2
    <3>. QED
      BY <1>3, <1>7, <1>8, <3>1 DEF IInv, Screens
  <2>3. ASSUME NEW w \in Watcher, node'[w].st = "live" PROVE In(Ack, screen'[w[1]]) \/ gone'[w[1]]
    BY <1>5, <1>7, <2>3, OneWatcher DEF IInv, Screens
  <2>4. \A d \in Client : \A i \in 1..Len(screen'[d]) : screen'[d][i] \in {Ack, Nack} \cup (1..line')
    <3>1. \A d \in Client : \A y : In(y, screen'[d]) => In(y, screen[d]) \/ y \in {Ack, Nack} \cup (1..line)
      BY <1>5
    <3>. QED
      BY <1>7, <3>1, OnlyThese
  <2>5. at'["conn"] = "malloc" => In(Ack, screen'[arg'["conn"]]) \/ gone'[arg'["conn"]]
    BY <1>5, <1>7 DEF c
  <2>6. ASSUME NEW d \in Client,
               node'[W(d)].st = "none" \/ (at'["conn"] \in Insertion /\ wat'["conn"] = W(d))
        PROVE  NoLine(screen'[d])
    <3>1. node[W(d)].st = "none"
      BY <1>3, <1>7, <2>6 DEF Insertion
    <3>2. NoLine(screen[d])
      BY <3>1 DEF IInv, Screens
    <3>. QED
      BY <1>6, <3>2
  <2>. QED
    BY <2>1, <2>2, <2>3, <2>4, <2>5, <2>6 DEF Screens
<1>. QED
  BY <1>4, <1>9, <1>10, <1>11, <1>2 DEF IInv, RecvFrame

----------------------------------------------------------------------------
(***************************************************************************)
(* addWatchList.                                                           *)
(***************************************************************************)
Adding == {"malloc", "attach"} \cup Insertion

(* What every step of it leaves alone.                                      *)
LEMMA AddKeeps ==
    ASSUME Apart, IInv, at["conn"] \in Adding, at'["disp"] = at["disp"], AddFrame,
           at'["conn"] \in {"attach", "recv", "close"} \cup Insertion,
           at'["conn"] \in Insertion => wat'["conn"] = W(arg["conn"]) /\ at["conn"] # "attach",
           \A c \in Client : ec'[c].st = ec[c].st /\ ec'[c].fd = ec[c].fd,
           \A w \in Watcher : \/ node'[w].st = node[w].st
                              \/ at["conn"] = "malloc" /\ w = W(arg["conn"])
    PROVE  Connections' /\ Requests' /\ Screens' /\ ~crashed'
<1>1. at["conn"] \in Handler /\ at'["conn"] \in {"loop"} \cup Handler
  BY DEF Adding, Insertion, Handler, ConnWork, Removal, AfterClose
<1>2. /\ arg["conn"] \in Client /\ ec[arg["conn"]].st = "live"
  BY <1>1, HandlersConnection
<1>3. Connections'
  BY <1>1, HandlerConnections DEF AddFrame, kernel, clients
<1>5. /\ asked' = asked /\ unread' = unread /\ arg' = arg /\ screen' = screen /\ gone' = gone
      /\ line' = line /\ crashed' = crashed
  BY DEF AddFrame, kernel, clients, disp
<1>6. Requests'
  <2>1. ~\E c \in Client : Handling(c)'
    BY DEF Handling, Insertion
  <2>2. \A c \in Client : node'[W(c)].st # "none" => node[W(c)].st # "none" \/ Handling(c)
    BY <1>2, OneWatcher DEF Handling
  <2>3. \A w \in Watcher : node'[w].st # "none" => w = W(w[1])
    <3>1. \A w \in Watcher : node[w].st # "none" => w = W(w[1])
      BY OneWatcher DEF IInv, Requests
    <3>. QED
      BY <1>2, <3>1, OneWatcher
  <2>. QED
    BY <1>5, <2>1, <2>2, <2>3 DEF IInv, Requests
<1>7. Screens'
  <2>1. at["conn"] \notin Removal /\ at'["conn"] \notin {"answer", "malloc"}
    BY DEF Adding, Insertion, Removal, AfterClose
  <2>2. \A c \in Client : ec'[c].st = "freed" <=> ec[c].st = "freed"
    OBVIOUS
  <2>3. \A w \in Watcher : node'[w].st = "live" => In(Ack, screen[w[1]]) \/ gone[w[1]]
    BY <1>2, OneWatcher DEF IInv, Screens
  <2>4. ASSUME NEW c \in Client,
               node'[W(c)].st = "none" \/ (at'["conn"] \in Insertion /\ wat'["conn"] = W(c))
        PROVE  NoLine(screen[c])
    <3>1. CASE node'[W(c)].st = node[W(c)].st /\ node[W(c)].st = "none"
      BY <3>1 DEF IInv, Screens
    <3>2. CASE at["conn"] = "malloc" /\ W(c) = W(arg["conn"])
      <4>1. node[W(c)].st = "none"
        BY <3>2 DEF IInv, Lists, Inserting
      <4>. QED
        BY <4>1 DEF IInv, Screens
    <3>3. CASE at["conn"] \in Insertion /\ W(c) = W(arg["conn"])
      <4>1. wat["conn"] = W(c)
        BY <3>3 DEF IInv, Lists, Inserting
      <4>. QED
        BY <3>3, <4>1 DEF IInv, Screens
    <3>4. W(c) \in Watcher
      BY OneWatcher
    <3>. QED
      BY <2>4, <3>1, <3>2, <3>3, <3>4 DEF Adding
  <2>. QED
    BY <1>5, <2>1, <2>2, <2>3, <2>4 DEF IInv, Screens
<1>. QED
  BY <1>3, <1>5, <1>6, <1>7 DEF IInv

(* Where it stands.                                                         *)
LEMMA AddContext ==
    ASSUME Apart, IInv, at["conn"] \in Adding
    PROVE  /\ arg["conn"] \in Client /\ ec[arg["conn"]].st = "live" /\ LiveConn(arg["conn"])
           /\ ec[arg["conn"]].watch = NoOne
           /\ DOMAIN at = Thread
           /\ at["disp"] \in Removal => arg["disp"] # arg["conn"] /\ at["conn"] \notin Insertion
           /\ W(arg["conn"]) \in Watcher /\ W(arg["conn"])[1] = arg["conn"]
           /\ at["conn"] # "malloc" =>
                 /\ wat["conn"] = W(arg["conn"]) /\ node[wat["conn"]].st = "live"
                 /\ node[wat["conn"]].filter
           /\ at["conn"] = "malloc" => node[W(arg["conn"])].st = "none"
           /\ at["conn"] # "attach" => W(arg["conn"]) \notin OnList
           /\ OnList \subseteq Watcher
           /\ node \in [Watcher -> watcher_t]
           /\ wat \in [Thread -> Watcher \cup {NoOne}]
<1>1. at["conn"] \in Handler
  BY DEF Adding, Insertion, Handler, ConnWork, Removal, AfterClose
<1>2. /\ arg["conn"] \in Client /\ ec[arg["conn"]].st = "live" /\ LiveConn(arg["conn"])
      /\ DOMAIN at = Thread /\ (at["disp"] \in Removal => arg["disp"] # arg["conn"])
  BY <1>1, HandlersConnection
<1>3. at["disp"] \in Removal => at["conn"] \notin Insertion
  BY NotServed
<1>4. /\ ec[arg["conn"]].watch = NoOne
      /\ at["conn"] # "malloc" => wat["conn"] = W(arg["conn"]) /\ node[wat["conn"]].st = "live"
                                 /\ node[wat["conn"]].filter
      /\ at["conn"] = "malloc" => node[W(arg["conn"])].st = "none"
  BY DEF IInv, Lists, Inserting, Adding
<1>5. at["conn"] # "attach" => W(arg["conn"]) \notin OnList
  BY <1>4 DEF OnList, Adding, Out
<1>. QED
  BY <1>2, <1>3, <1>4, <1>5, OneWatcher, TypedMemory DEF OnList, IInv

(* While the list is being changed, the other thread at most walks it.      *)
LEMMA InsertContext ==
    ASSUME Apart, IInv, at["conn"] \in Insertion
    PROVE  /\ at["disp"] \in {"idle", "next"} \cup Visit /\ at["disp"] \notin Removal
           /\ HalfOut = NoOne /\ \A x : ~OutAfter(x)
           /\ \A w \in Watcher : Out(w) <=> w = W(arg["conn"])
           /\ at["disp"] # "idle" => pnode \in OnList
<1>1. at["disp"] \notin Removal
  BY NotServed
<1>2. at["disp"] \in {"idle", "next"} \cup Visit
  BY <1>1 DEF IInv, Connections, Placed
<1>3. HalfOut = NoOne /\ \A x : ~OutAfter(x)
  BY <1>1 DEF HalfOut, OutAfter, Insertion, Removal, AfterClose
<1>4. \A w \in Watcher : Out(w) <=> w = W(arg["conn"])
  BY <1>1 DEF Out, Insertion, Thread, Removal, AfterClose, IInv, Lists, Inserting
<1>5. at["disp"] # "idle" => pnode \in OnList
  BY <1>2 DEF IInv, Lists, Visiting
<1>. QED
  BY <1>1, <1>2, <1>3, <1>4, <1>5

(* What is left to show of a step that keeps the list.                      *)
LEMMA AddSteady ==
    ASSUME IInv, ListKept, at'["disp"] = at["disp"], AddFrame,
           HalfIn => HalfIn' /\ wat'["conn"] = wat["conn"],
           \A c \in Client : ec'[c].fd = ec[c].fd
    PROVE  Linked' /\ Visiting' /\ OnList' = OnList
<1>1. OnList' = OnList /\ UNCHANGED disp /\ screen' = screen
  BY DEF ListKept, AddFrame, kernel
<1>2. \A w \in OnList : ec'[w[1]].fd = ec[w[1]].fd
  BY OneWatcher DEF OnList
<1>3. Visiting' /\ \A pos \in [Watcher -> Int] : Ahead(pos) => Ahead(pos)'
  BY <1>1, <1>2, WalkKept
<1>. QED
  BY <1>1, <1>3, LinkedKept DEF IInv

LEMMA AddMallocKeeps ==
    ASSUME Apart, Apart', IInv, TypeOK', AddMalloc
    PROVE  IInv'
<1>. DEFINE c == arg["conn"]
            w == W(c)
<1>1. at["conn"] = "malloc" /\ at["conn"] \in Adding
  BY DEF AddMalloc, Adding
<1>2. /\ c \in Client /\ w \in Watcher /\ w[1] = c /\ node[w].st = "none" /\ ec[c].watch = NoOne
      /\ DOMAIN at = Thread /\ w \notin OnList
      /\ at["disp"] \in Removal => arg["disp"] # c
  BY <1>1, AddContext
<1>3. <<c, Min(FreeNodes(c))>> = w
  <2>1. 1 \in FreeNodes(c)
    BY <1>2, RegistryAssumption DEF W, FreeNodes
  <2>2. FreeNodes(c) \in SUBSET Nat /\ FreeNodes(c) # {} /\ \A n \in FreeNodes(c) : n \in Nat /\ 1 <= n
    BY <2>1, RegistryAssumption DEF FreeNodes
  <2>3. Min(FreeNodes(c)) \in FreeNodes(c) /\ Min(FreeNodes(c)) <= 1
    BY <2>1, <2>2, MinIsIn
  <2>4. Min(FreeNodes(c)) = 1
    BY <2>2, <2>3
  <2>. QED
    BY <2>4 DEF W
<1>. HIDE DEF c, w
<1>4. /\ UNCHANGED <<ec, head, tail, prv, nxt>> /\ AddFrame
      /\ \/ /\ node' = [node EXCEPT ![w] = [NoNode EXCEPT !.st = "live", !.filter = TRUE]]
            /\ wat' = [wat EXCEPT !["conn"] = w] /\ Goto("conn", "tail")
         \/ Goto("conn", "close") /\ UNCHANGED <<node, wat>>
  BY <1>3 DEF AddMalloc, c
<1>5. /\ at'["disp"] = at["disp"] /\ DOMAIN at' = Thread /\ at'["conn"] \in {"tail", "close"}
  BY <1>2, <1>4 DEF Goto, Thread
<1>6. CASE Goto("conn", "close") /\ UNCHANGED <<node, wat>>
  <2>1. at'["conn"] = "close"
    BY <1>2, <1>6 DEF Goto, Thread
  <2>2. Connections' /\ Requests' /\ Screens' /\ ~crashed'
    BY <1>1, <1>2, <1>4, <1>5, <1>6, <2>1, AddKeeps DEF Insertion
  <2>3. Linked' /\ Visiting' /\ OnList' = OnList
    <3>1. at["conn"] \notin Mid /\ at'["conn"] \notin Mid /\ arg' = arg /\ UNCHANGED disp /\ screen' = screen
      BY <1>1, <1>4, <2>1 DEF Mid, Insertion, AddFrame, kernel
    <3>. QED
      BY <1>2, <1>4, <1>5, <1>6, <3>1, ConnListKept
  <2>5. Watchers' /\ Inserting' /\ Removing'
    BY <1>1, <1>2, <1>4, <1>5, <1>6, <2>1, <2>3
    DEF IInv, Lists, Watchers, Inserting, Removing, Insertion, Thread, AddFrame
  <2>. QED
    BY <2>2, <2>3, <2>5 DEF IInv, Lists
<1>7. CASE /\ node' = [node EXCEPT ![w] = [NoNode EXCEPT !.st = "live", !.filter = TRUE]]
           /\ wat' = [wat EXCEPT !["conn"] = w] /\ Goto("conn", "tail")
  <2>1. /\ at'["conn"] = "tail" /\ wat'["conn"] = w /\ wat'["disp"] = wat["disp"] /\ arg' = arg
        /\ node'[w].st = "live" /\ node'[w].filter
        /\ \A v \in Watcher \ {w} : node'[v] = node[v]
    <3>1. DOMAIN wat = Thread /\ DOMAIN node = Watcher
      BY DEF IInv, TypeOK
    <3>. QED
      BY <1>2, <1>4, <1>7, <3>1 DEF Goto, Thread, NoNode, AddFrame
  <2>2. Connections' /\ Requests' /\ Screens' /\ ~crashed'
    <3>1. at'["conn"] \in {"attach", "recv", "close"} \cup Insertion
      BY <2>1 DEF Insertion
    <3>2. \A v \in Watcher : node'[v].st = node[v].st \/ (at["conn"] = "malloc" /\ v = W(arg["conn"]))
      BY <1>1, <2>1 DEF w, c
    <3>3. at'["conn"] \in Insertion => wat'["conn"] = W(arg["conn"]) /\ at["conn"] # "attach"
      BY <1>1, <2>1 DEF w, c
    <3>. QED
      BY <1>1, <1>2, <1>4, <1>5, <3>1, <3>2, <3>3, AddKeeps
  <2>3. at["disp"] \notin Removal
    BY <1>5, <2>1 DEF Apart, Clash, Insertion
  <2>4. OnList' = OnList
    <3>1. \A v \in Watcher : Out(v)' <=> v = w
      BY <1>5, <2>1, <2>3 DEF Out, Insertion, Thread, Removal, AfterClose
    <3>2. \A v \in Watcher : ~Out(v)
      BY <1>1, <2>3 DEF Out, Insertion, Thread, Removal, AfterClose
    <3>. QED
      BY <1>2, <2>1, <3>1, <3>2 DEF OnList
  <2>5. ~HalfIn /\ ~HalfIn' /\ HalfOut = NoOne /\ HalfOut' = NoOne
    BY <1>1, <1>2, <1>5, <2>1, <2>3 DEF HalfIn, HalfOut, Removal, AfterClose
  <2>6. ListKept
    <3>2. \A u \in OnList : node'[u] = node[u]
      BY <1>2, <2>1 DEF OnList
    <3>. QED
      BY <1>1, <1>4, <2>1, <2>4, <2>5, <3>2 DEF ListKept, First, LastOne, Nexts, Prevs, Nx, OutAfter
  <2>7. Linked' /\ Visiting'
    BY <1>4, <1>5, <2>5, <2>6, AddSteady
  <2>8. Watchers'
    <3>1. \A v \in OnList : v # w /\ v \in Watcher /\ node'[v] = node[v]
      BY <1>2, <2>1 DEF OnList
    <3>2. \A t \in Thread : at[t] \notin {"unlinkPrev", "unlinkNext", "freeWatch", "freeConn"}
      BY <1>1, <1>5, <2>1, <2>3 DEF Thread, Removal, AfterClose
    <3>3. \A d \in Client : ec[d].watch # NoOne => W(d) \in OnList
      BY <3>2 DEF IInv, Lists, Watchers
    <3>4. \A v \in OnList : ec[v[1]].st = "live" /\ ec[v[1]].watch = v /\ node[v].filter
      BY <1>1, <3>2 DEF IInv, Lists, Watchers
    <3>. QED
      BY <1>4, <2>4, <3>1, <3>3, <3>4 DEF IInv, Lists, Watchers
  <2>9. Inserting' /\ Removing'
    BY <1>2, <1>4, <1>5, <2>1, <2>3 DEF IInv, Lists, Inserting, Removing, Insertion, Thread, Removal, AfterClose, w, c
  <2>. QED
    BY <2>2, <2>7, <2>8, <2>9 DEF IInv, Lists
<1>. QED
  BY <1>4, <1>6, <1>7

LEMMA AddTailKeeps ==
    ASSUME Apart, IInv, TypeOK', AddTail
    PROVE  IInv'
<1>1. at["conn"] = "tail" /\ at["conn"] \in Adding /\ at["conn"] \in Insertion
  BY DEF AddTail, Adding, Insertion
<1>2. /\ prv' = tail /\ Goto("conn", "publish") /\ AddFrame
      /\ UNCHANGED <<ec, node, head, tail, wat, nxt>>
  BY DEF AddTail, AtTail, AddGoto, memory
<1>3. /\ DOMAIN at = Thread /\ wat["conn"] = W(arg["conn"])
      /\ at'["disp"] = at["disp"] /\ DOMAIN at' = Thread /\ at'["conn"] = "publish" /\ arg' = arg
      /\ at["disp"] \notin Removal /\ HalfOut = NoOne
  BY <1>1, <1>2, AddContext, InsertContext DEF Goto, Thread, AddFrame
<1>4. Connections' /\ Requests' /\ Screens' /\ ~crashed'
  BY <1>1, <1>2, <1>3, AddKeeps DEF Insertion
<1>6. OnList' = OnList
  BY <1>1, <1>2, <1>3 DEF OnList, Out, Insertion, Thread
<1>7. ~HalfIn /\ ~HalfIn' /\ HalfOut' = NoOne
  BY <1>1, <1>3 DEF HalfIn, HalfOut, Removal, AfterClose
<1>8. ListKept
  BY <1>1, <1>2, <1>3, <1>6, <1>7 DEF ListKept, First, LastOne, Nexts, Prevs, Nx, OutAfter
<1>9. Linked' /\ Visiting'
  BY <1>2, <1>3, <1>7, <1>8, AddSteady
<1>10. Watchers' /\ Inserting' /\ Removing'
  BY <1>1, <1>2, <1>3, <1>6 DEF IInv, Lists, Watchers, Inserting, Removing, Insertion, Thread
<1>. QED
  BY <1>4, <1>9, <1>10 DEF IInv, Lists

(* The end of the list, when nothing is half done.                          *)
LEMMA TailIsLast ==
    ASSUME IInv, ~HalfIn, HalfOut = NoOne
    PROVE  \/ tail = NoOne /\ OnList = {} /\ head = NoOne
           \/ tail \in OnList /\ node[tail].next = NoOne /\ head \in OnList
<1>1. First = head /\ LastOne = tail /\ \A u \in OnList : Nexts[u] = node[u].next
  BY DEF First, LastOne, Nexts, Nx, OutAfter, HalfIn
<1>2. PICK pos \in [Watcher -> Int] : Ordered(OnList, pos, head, tail, Nexts, Prevs)
  BY <1>1 DEF IInv, Linked
<1>3. CASE OnList = {}
  BY <1>2, <1>3 DEF Ordered
<1>4. CASE OnList # {}
  <2>1. tail \in OnList /\ Most(OnList, pos, tail) /\ head \in OnList
    BY <1>2, <1>4 DEF Ordered
  <2>2. CASE Adjacent(OnList, pos, tail, Nexts[tail])
    <3>1. Nexts[tail] \in OnList /\ pos[tail] < pos[Nexts[tail]] /\ pos[Nexts[tail]] <= pos[tail]
      BY <2>1, <2>2 DEF Adjacent, Most
    <3>2. pos[tail] \in Int /\ pos[Nexts[tail]] \in Int
      BY <2>1, <3>1 DEF OnList
    <3>. QED
      BY <3>1, <3>2
  <2>. QED
    BY <1>1, <1>2, <2>1, <2>2 DEF Ordered
<1>. QED
  BY <1>3, <1>4

LEMMA InsertPublishKeeps ==
    ASSUME Apart, IInv, TypeOK', InsertPublish
    PROVE  IInv'
<1>. DEFINE w == W(arg["conn"])
<1>1. at["conn"] = "publish" /\ at["conn"] \in Adding /\ at["conn"] \in Insertion /\ ~HalfIn
  BY DEF InsertPublish, Adding, Insertion, HalfIn
<1>2. /\ DOMAIN at = Thread /\ w \in Watcher /\ w \notin OnList
      /\ at["disp"] \notin Removal /\ at["disp"] \in {"idle", "next"} \cup Visit
      /\ wat["conn"] = w /\ prv = tail /\ HalfOut = NoOne
  BY <1>1, AddContext, InsertContext DEF IInv, Lists, Inserting
<1>. HIDE DEF w
<1>3. \/ prv = NoOne /\ OnList = {} /\ head = NoOne
      \/ prv \in OnList /\ node[prv].next = NoOne /\ prv # NoOne
  BY <1>1, <1>2, TailIsLast, OneWatcher DEF OnList
<1>4. /\ \/ /\ prv = NoOne /\ OnList = {} /\ head' = w /\ node' = node
         \/ /\ prv \in OnList /\ prv # NoOne
            /\ node' = [node EXCEPT ![prv].next = w] /\ head' = head
      /\ nxt' = NoOne
      /\ Goto("conn", "backlink") /\ AddFrame /\ UNCHANGED <<ec, tail, wat, prv>>
  BY <1>2, <1>3 DEF InsertPublish, AddGoto, LiveNode, OnList
<1>5. /\ at'["disp"] = at["disp"] /\ DOMAIN at' = Thread /\ at'["conn"] = "backlink" /\ arg' = arg
  BY <1>2, <1>4 DEF Goto, Thread, AddFrame
<1>6. /\ \A v \in Watcher : /\ node'[v].st = node[v].st /\ node'[v].filter = node[v].filter
                            /\ node'[v].prev = node[v].prev
                            /\ v # prv => node'[v].next = node[v].next
      /\ prv # NoOne => node'[prv].next = w
  <2>1. node \in [Watcher -> watcher_t] /\ w \in Watcher \cup {NoOne, Junk}
    BY <1>2, TypedMemory DEF IInv
  <2>2. CASE prv \in OnList /\ prv # NoOne /\ node' = [node EXCEPT ![prv].next = w]
    <3>1. prv \in Watcher /\ node' = NextSet(node, prv, w)
      BY <2>2 DEF OnList, NextSet
    <3>2. /\ node'[prv].next = w /\ node'[prv].st = node[prv].st
          /\ node'[prv].filter = node[prv].filter /\ node'[prv].prev = node[prv].prev
          /\ \A v \in Watcher \ {prv} : node'[v] = node[v]
      BY <2>1, <3>1, WriteNext
    <3>. QED
      BY <3>2
  <2>. QED
    BY <1>4, <2>2
<1>7. Connections' /\ Requests' /\ Screens' /\ ~crashed'
  <2>1. at'["conn"] \in {"attach", "recv", "close"} \cup Insertion
    BY <1>5 DEF Insertion
  <2>2. AddFrame /\ ec' = ec
    BY <1>4
  <2>3. \A v \in Watcher : node'[v].st = node[v].st
    BY <1>6
  <2>4. wat'["conn"] = W(arg["conn"]) /\ at["conn"] # "attach"
    BY <1>1, <1>2, <1>4 DEF w
  <2>. QED
    BY <1>1, <1>2, <1>5, <2>1, <2>2, <2>3, <2>4, AddKeeps
<1>9. OnList' = OnList
  <2>1. \A v \in Watcher : Out(v)' <=> Out(v)
    BY <1>1, <1>2, <1>4, <1>5 DEF Out, Insertion, Thread
  <2>. QED
    BY <1>6, <2>1 DEF OnList
<1>10. ListKept
  <2>1. HalfIn' /\ HalfOut' = NoOne
    BY <1>2, <1>5 DEF HalfIn, HalfOut, Removal, AfterClose
  <2>2. First' = First /\ LastOne' = LastOne
    BY <1>1, <1>2, <1>3, <1>4, <1>5, <2>1 DEF First, LastOne, OutAfter
  <2>3. \A u \in OnList : Nx(u)' = Nx(u)
    BY <1>1, <1>2, <1>3, <1>4, <1>6, <2>1 DEF Nx, OutAfter, OnList
  <2>. QED
    BY <1>6, <1>9, <2>2, <2>3 DEF ListKept, Nexts, Prevs, OnList
<1>11. Watchers'
  BY <1>1, <1>2, <1>4, <1>5, <1>6, <1>9 DEF IInv, Lists, Watchers, OnList, Thread
<1>12. Inserting'
  BY <1>1, <1>2, <1>3, <1>4, <1>5, <1>6, <1>9 DEF IInv, Lists, Inserting, Insertion
<1>13. Removing'
  BY <1>1, <1>2, <1>5 DEF Removing, Thread, Removal, AfterClose
<1>14. Linked' /\ Visiting'
  BY <1>1, <1>4, <1>5, <1>10, AddSteady
<1>. QED
  BY <1>7, <1>11, <1>12, <1>13, <1>14 DEF IInv, Lists

(* The ends and links (f2, n2, p2) after w was put behind the last one, l,  *)
(* and (f2, l2, n2, p2) after w was taken out.                              *)
Appended(S, w, f, l, n, p, f2, n2, p2) ==
    /\ f2 = IF l = NoOne THEN w ELSE f
    /\ \A u \in S : p2[u] = p[u] /\ (n2[u] = IF u = l THEN w ELSE n[u])
    /\ n2[w] = NoOne /\ p2[w] = l

Dropped(S, w, f, l, n, p, f2, l2, n2, p2) ==
    /\ f2 = IF p[w] = NoOne THEN n[w] ELSE f
    /\ l2 = IF n[w] = NoOne THEN p[w] ELSE l
    /\ \A u \in S \ {w} : /\ n2[u] = IF u = p[w] THEN n[w] ELSE n[u]
                          /\ p2[u] = IF u = n[w] THEN p[w] ELSE p[u]

(* A new last one, w, behind l: its rank is one more than that of l.        *)
LEMMA OrderedAdd ==
    ASSUME NEW S \in SUBSET Watcher, NEW w \in Watcher \ S, NoOne \notin Watcher,
           NEW pos \in [Watcher -> Int], NEW f, NEW l, NEW n, NEW p,
           Ordered(S, pos, f, l, n, p),
           NEW f2, NEW n2, NEW p2, Appended(S, w, f, l, n, p, f2, n2, p2)
    PROVE  \E r \in [Watcher -> Int] : /\ Ordered(S \cup {w}, r, f2, w, n2, p2)
                                      /\ \A u \in S : r[u] = pos[u] /\ r[u] < r[w]
<1>. USE DEF Appended
<1>. DEFINE r == [pos EXCEPT ![w] = IF l = NoOne THEN 0 ELSE pos[l] + 1]
<1>1. (l = NoOne /\ S = {}) \/ (l \in S /\ l # NoOne /\ \A v \in S : pos[v] <= pos[l])
  BY DEF Ordered, Most
<1>2. r \in [Watcher -> Int] /\ \A u \in S : r[u] = pos[u] /\ pos[u] \in Int
  BY <1>1
<1>3. \A u \in S : r[u] < r[w]
  BY <1>1, <1>2
<1>4. r[w] \in Int
  BY <1>2
<1>5. l # NoOne => r[w] = pos[l] + 1
  BY <1>2
<1>. HIDE DEF r
<1>6. \A u, v \in S \cup {w} : r[u] = r[v] => u = v
  <2>1. \A u, v \in S : r[u] = r[v] => u = v
    BY <1>2 DEF Ordered
  <2>. QED
    BY <1>2, <1>3, <1>4, <2>1
<1>7. f2 \in S \cup {w} /\ Least(S \cup {w}, r, f2)
  BY <1>1, <1>2, <1>3, <1>4 DEF Ordered, Least
<1>8. Most(S \cup {w}, r, w)
  BY <1>2, <1>3, <1>4 DEF Most
<1>9. ASSUME NEW u \in S \cup {w}
      PROVE  (n2[u] = NoOne /\ Most(S \cup {w}, r, u)) \/ Adjacent(S \cup {w}, r, u, n2[u])
  <2>1. CASE u = w
    BY <1>8, <2>1
  <2>2. CASE u = l /\ u \in S
    BY <1>1, <1>2, <1>3, <1>4, <2>2 DEF Adjacent
  <2>3. CASE u # l /\ u \in S
    <3>1. Adjacent(S, pos, u, n[u])
      <4>1. l \in S /\ pos[u] <= pos[l] /\ pos[u] # pos[l]
        BY <1>1, <2>3 DEF Ordered
      <4>2. ~Most(S, pos, u)
        BY <1>2, <2>3, <4>1 DEF Most
      <4>. QED
        BY <2>3, <4>2 DEF Ordered
    <3>. QED
      BY <1>2, <1>3, <1>4, <2>3, <3>1 DEF Adjacent
  <2>. QED
    BY <2>1, <2>2, <2>3
<1>10. ASSUME NEW u \in S \cup {w}
       PROVE  \/ p2[u] = NoOne /\ Least(S \cup {w}, r, u)
              \/ p2[u] \in S \cup {w} /\ Adjacent(S \cup {w}, r, p2[u], u)
  <2>1. CASE u = w
    BY <1>1, <1>2, <1>3, <1>4, <2>1 DEF Adjacent, Least
  <2>2. CASE u \in S /\ p[u] = NoOne /\ Least(S, pos, u)
    BY <1>2, <1>3, <1>4, <2>2 DEF Least
  <2>3. CASE u \in S /\ p[u] \in S /\ Adjacent(S, pos, p[u], u)
    BY <1>2, <1>3, <1>4, <2>3 DEF Adjacent
  <2>. QED
    BY <2>1, <2>2, <2>3 DEF Ordered
<1>11. Ordered(S \cup {w}, r, f2, w, n2, p2)
  BY <1>6, <1>7, <1>8, <1>9, <1>10 DEF Ordered
<1>. QED
  BY <1>2, <1>3, <1>11

(* Without w, the one before it and the one after it are next to each other.*)
LEMMA OrderedDrop ==
    ASSUME NEW S \in SUBSET Watcher, NEW w \in S, NoOne \notin Watcher,
           NEW pos \in [Watcher -> Int], NEW f, NEW l, NEW n, NEW p,
           Ordered(S, pos, f, l, n, p),
           NEW f2, NEW l2, NEW n2, NEW p2, Dropped(S, w, f, l, n, p, f2, l2, n2, p2)
    PROVE  Ordered(S \ {w}, pos, f2, l2, n2, p2)
<1>. USE DEF Dropped
<1>1. \A u \in S : pos[u] \in Int /\ u # NoOne
  OBVIOUS
<1>2. \A u, v \in S : pos[u] = pos[v] => u = v
  BY DEF Ordered
<1>3. \/ p[w] = NoOne /\ \A v \in S : pos[w] <= pos[v]
      \/ /\ p[w] \in S \ {w} /\ pos[p[w]] < pos[w]
         /\ \A x \in S : pos[x] <= pos[p[w]] \/ pos[w] <= pos[x]
  BY <1>1 DEF Ordered, Least, Adjacent
<1>4. \/ n[w] = NoOne /\ \A v \in S : pos[v] <= pos[w]
      \/ /\ n[w] \in S \ {w} /\ pos[w] < pos[n[w]]
         /\ \A x \in S : pos[x] <= pos[w] \/ pos[n[w]] <= pos[x]
  BY <1>1 DEF Ordered, Most, Adjacent
<1>5. \A u \in S : \/ n[u] = NoOne /\ \A v \in S : pos[v] <= pos[u]
                   \/ /\ n[u] \in S /\ pos[u] < pos[n[u]]
                      /\ \A x \in S : pos[x] <= pos[u] \/ pos[n[u]] <= pos[x]
  BY DEF Ordered, Most, Adjacent
<1>6. \A u \in S : \/ p[u] = NoOne /\ \A v \in S : pos[u] <= pos[v]
                   \/ /\ p[u] \in S /\ pos[p[u]] < pos[u]
                      /\ \A x \in S : pos[x] <= pos[p[u]] \/ pos[u] <= pos[x]
  BY DEF Ordered, Least, Adjacent
<1>7. (f2 = NoOne /\ S \ {w} = {}) \/ (f2 \in S \ {w} /\ Least(S \ {w}, pos, f2))
  <2>1. f \in S /\ \A v \in S : pos[f] <= pos[v]
    BY DEF Ordered, Least
  <2>2. CASE p[w] = NoOne /\ n[w] = NoOne
    BY <1>1, <1>2, <1>3, <1>4, <2>2
  <2>3. CASE p[w] = NoOne /\ n[w] # NoOne
    BY <1>1, <1>2, <1>3, <1>4, <2>3 DEF Least
  <2>4. CASE p[w] # NoOne
    BY <1>1, <1>3, <2>1, <2>4 DEF Least
  <2>. QED
    BY <2>2, <2>3, <2>4
<1>8. (l2 = NoOne /\ S \ {w} = {}) \/ (l2 \in S \ {w} /\ Most(S \ {w}, pos, l2))
  <2>1. l \in S /\ \A v \in S : pos[v] <= pos[l]
    BY DEF Ordered, Most
  <2>2. CASE p[w] = NoOne /\ n[w] = NoOne
    BY <1>1, <1>2, <1>3, <1>4, <2>2
  <2>3. CASE n[w] = NoOne /\ p[w] # NoOne
    BY <1>1, <1>2, <1>3, <1>4, <2>3 DEF Most
  <2>4. CASE n[w] # NoOne
    BY <1>1, <1>4, <2>1, <2>4 DEF Most
  <2>. QED
    BY <2>2, <2>3, <2>4
<1>9. ASSUME NEW u \in S \ {w}
      PROVE  (n2[u] = NoOne /\ Most(S \ {w}, pos, u)) \/ Adjacent(S \ {w}, pos, u, n2[u])
  <2>1. CASE u = p[w]
    BY <1>1, <1>2, <1>3, <1>4, <2>1 DEF Most, Adjacent
  <2>2. CASE u # p[w]
    <3>1. n[u] # w
      BY <1>1, <1>2, <1>3, <1>5, <2>2
    <3>. QED
      BY <1>5, <2>2, <3>1 DEF Most, Adjacent
  <2>. QED
    BY <2>1, <2>2
<1>10. ASSUME NEW u \in S \ {w}
       PROVE  \/ p2[u] = NoOne /\ Least(S \ {w}, pos, u)
              \/ p2[u] \in S \ {w} /\ Adjacent(S \ {w}, pos, p2[u], u)
  <2>1. CASE u = n[w]
    BY <1>1, <1>2, <1>3, <1>4, <2>1 DEF Least, Adjacent
  <2>2. CASE u # n[w]
    <3>1. p[u] # w
      BY <1>1, <1>2, <1>4, <1>6, <2>2
    <3>. QED
      BY <1>6, <2>2, <3>1 DEF Least, Adjacent
  <2>. QED
    BY <2>1, <2>2
<1>. QED
  BY <1>2, <1>7, <1>8, <1>9, <1>10 DEF Ordered

LEMMA InsertBacklinkKeeps ==
    ASSUME Apart, IInv, TypeOK', InsertBacklink
    PROVE  IInv'
<1>. DEFINE w == W(arg["conn"])
<1>1. at["conn"] = "backlink" /\ at["conn"] \in Adding /\ at["conn"] \in Insertion
  BY DEF InsertBacklink, Adding, Insertion
<1>2. /\ DOMAIN at = Thread /\ w \in Watcher /\ wat["conn"] = w
      /\ at["disp"] \notin Removal
      /\ prv = tail /\ nxt = NoOne /\ HalfOut = NoOne
  BY <1>1, AddContext, InsertContext DEF IInv, Lists, Inserting
<1>3. /\ tail' = w /\ node' = node /\ Goto("conn", "pointers") /\ AddFrame
      /\ UNCHANGED <<ec, head, wat, prv, nxt>>
  BY <1>2 DEF InsertBacklink, AddGoto, NewTail
<1>4. /\ at'["disp"] = at["disp"] /\ DOMAIN at' = Thread /\ at'["conn"] = "pointers" /\ arg' = arg
  BY <1>2, <1>3 DEF Goto, Thread, AddFrame
<1>5. Connections' /\ Requests' /\ Screens' /\ ~crashed'
  BY <1>1, <1>2, <1>3, <1>4, AddKeeps DEF Insertion
<1>. HIDE DEF w
<1>7. OnList' = OnList
  BY <1>1, <1>2, <1>3, <1>4 DEF OnList, Out, Insertion, Thread
<1>8. HalfIn /\ HalfIn' /\ HalfOut' = NoOne
  BY <1>1, <1>2, <1>4 DEF HalfIn, HalfOut, Removal, AfterClose
<1>9. ListKept
  BY <1>1, <1>2, <1>3, <1>4, <1>7, <1>8 DEF ListKept, First, LastOne, Nexts, Prevs, Nx, OutAfter
<1>10. Linked' /\ Visiting'
  BY <1>3, <1>4, <1>8, <1>9, AddSteady
<1>11. Watchers' /\ Inserting' /\ Removing'
  BY <1>1, <1>2, <1>3, <1>4, <1>7 DEF IInv, Lists, Watchers, Inserting, Removing, Insertion, Thread
<1>. QED
  BY <1>5, <1>10, <1>11 DEF IInv, Lists

LEMMA InsertPointersKeeps ==
    ASSUME Apart, IInv, TypeOK', InsertPointers
    PROVE  IInv'
<1>. DEFINE w == W(arg["conn"])
<1>1. at["conn"] = "pointers" /\ at["conn"] \in Adding /\ at["conn"] \in Insertion /\ HalfIn
  BY DEF InsertPointers, Adding, Insertion, HalfIn
<1>2. /\ DOMAIN at = Thread /\ w \in Watcher /\ w \notin OnList
      /\ at["disp"] \notin Removal /\ at["disp"] \in {"idle", "next"} \cup Visit
      /\ at["disp"] # "idle" => pnode \in OnList
      /\ wat["conn"] = w /\ node[w].st = "live" /\ node[w].filter /\ HalfOut = NoOne
      /\ \A x : ~OutAfter(x)
      /\ prv \in OnList \cup {NoOne} /\ nxt = NoOne /\ tail = w
      /\ IF prv = NoOne THEN head = w ELSE node[prv].next = w
      /\ arg["conn"] \in Client /\ ec[arg["conn"]].st = "live" /\ ec[arg["conn"]].watch = NoOne
  BY <1>1, AddContext, InsertContext DEF IInv, Lists, Inserting
<1>3. w[1] = arg["conn"]
  BY <1>2, OneWatcher
<1>. HIDE DEF w
<1>4. /\ node' = [node EXCEPT ![w].next = NoOne, ![w].prev = prv]
      /\ prv' = NoOne /\ nxt' = NoOne /\ Goto("conn", "attach") /\ AddFrame
      /\ UNCHANGED <<ec, head, tail, wat>>
  BY <1>2 DEF InsertPointers, AddGoto, LiveNode
<1>5. /\ at'["disp"] = at["disp"] /\ DOMAIN at' = Thread /\ at'["conn"] = "attach" /\ arg' = arg
      /\ UNCHANGED disp /\ screen' = screen
  BY <1>2, <1>4 DEF Goto, Thread, AddFrame, kernel
<1>6. /\ node' \in [Watcher -> watcher_t]
      /\ \A v \in Watcher \ {w} : node'[v] = node[v]
      /\ node'[w].st = "live" /\ node'[w].filter /\ node'[w].next = NoOne /\ node'[w].prev = prv
  <2>1. prv \in Watcher \cup {NoOne, Junk} /\ NoOne \in Watcher \cup {NoOne, Junk} /\ node[w] \in watcher_t
    BY <1>2, TypedMemory DEF IInv, OnList
  <2>2. [node[w] EXCEPT !.next = NoOne] \in watcher_t
    BY <2>1, FieldSet
  <2>3. [[node[w] EXCEPT !.next = NoOne] EXCEPT !.prev = prv] \in watcher_t
    BY <2>1, <2>2, FieldSet
  <2>4. node' = [node EXCEPT ![w] = [[node[w] EXCEPT !.next = NoOne] EXCEPT !.prev = prv]]
    BY <1>2, <1>4, TypedMemory DEF IInv
  <2>5. node'[w] = [[node[w] EXCEPT !.next = NoOne] EXCEPT !.prev = prv]
    BY <1>2, <2>4, TypedMemory DEF IInv
  <2>6. node'[w].st = node[w].st /\ node'[w].filter = node[w].filter /\ node'[w].next = NoOne /\ node'[w].prev = prv
    BY <2>1, <2>5 DEF watcher_t
  <2>. QED
    BY <1>2, <2>3, <2>4, <2>6, TypedMemory DEF IInv
<1>7. Connections' /\ Requests' /\ Screens' /\ ~crashed'
  <2>1. at'["conn"] \in {"attach", "recv", "close"} \cup Insertion /\ at'["conn"] \notin Insertion
    BY <1>5 DEF Insertion
  <2>2. \A v \in Watcher : node'[v].st = node[v].st
    BY <1>2, <1>6
  <2>. QED
    BY <1>1, <1>2, <1>4, <1>5, <2>1, <2>2, AddKeeps
<1>8. OnList' = OnList \cup {w}
  <2>1. \A v \in Watcher : ~Out(v)'
    BY <1>2, <1>5 DEF Out, Insertion, Thread, Removal, AfterClose
  <2>2. \A v \in Watcher : Out(v) => v = w
    BY <1>1, InsertContext DEF w
  <2>. QED
    BY <1>2, <1>6, <2>1, <2>2 DEF OnList
<1>9. OnList \in SUBSET Watcher /\ w \in Watcher \ OnList /\ NoOne \notin Watcher
  BY <1>2, OneWatcher DEF OnList
<1>10. Linked'
  <2>1. PICK pos \in [Watcher -> Int] : Ordered(OnList, pos, First, LastOne, Nexts, Prevs) /\ Ahead(pos)
    BY DEF IInv, Linked
  <2>2. ~HalfIn' /\ HalfOut' = NoOne /\ LastOne = prv /\ LastOne' = w
    BY <1>1, <1>2, <1>4, <1>5 DEF HalfIn, HalfOut, LastOne, Removal, AfterClose
  <2>3. First' = IF prv = NoOne THEN w ELSE First
    BY <1>1, <1>2, <1>4, <2>2 DEF First, OutAfter
  <2>4. \A u \in OnList : Nexts[u] = (IF prv = u THEN NoOne ELSE node[u].next) /\ Prevs[u] = node[u].prev
    BY <1>1, <1>2 DEF Nexts, Prevs, Nx
  <2>5. \A u \in OnList \cup {w} : Nexts'[u] = node'[u].next /\ Prevs'[u] = node'[u].prev
    BY <1>8, <2>2 DEF Nexts, Prevs, Nx, OutAfter
  <2>6. \A u \in OnList : u # w /\ node'[u] = node[u] /\ (u = prv => node[u].next = w)
    BY <1>2, <1>6, OneWatcher DEF OnList
  <2>7. \A u \in OnList : Prevs'[u] = Prevs[u] /\ (Nexts'[u] = IF u = prv THEN w ELSE Nexts[u])
    BY <2>4, <2>5, <2>6
  <2>8. Nexts'[w] = NoOne /\ Prevs'[w] = prv
    BY <1>6, <2>5
  <2>9. PICK r \in [Watcher -> Int] : /\ Ordered(OnList', r, First', LastOne', Nexts', Prevs')
                                     /\ \A u \in OnList : r[u] = pos[u] /\ r[u] < r[w]
    <3>1. Appended(OnList, w, First, LastOne, Nexts, Prevs, First', Nexts', Prevs')
      BY <2>2, <2>3, <2>7, <2>8 DEF Appended
    <3>2. \E r \in [Watcher -> Int] : /\ Ordered(OnList \cup {w}, r, First', w, Nexts', Prevs')
                                      /\ \A u \in OnList : r[u] = pos[u] /\ r[u] < r[w]
      BY <1>9, <2>1, <3>1, OrderedAdd
    <3>. QED
      BY <1>8, <2>2, <3>2
  <2>10. Ahead(r)'
    <3>1. line' = line /\ pnode' = pnode /\ saved' = saved
      BY <1>5 DEF disp
    <3>2. at'["disp"] # "idle" => ToCome' = pnode /\ ToCome = pnode /\ pnode \in OnList
      BY <1>2, <1>5, <3>1 DEF ToCome
    <3>3. at["disp"] # "idle" => ~In(line, screen[w[1]])
      <4>1. line \in Nat
        BY RegistryAssumption DEF IInv, TypeOK
      <4>2. NoLine(screen[w[1]])
        BY <1>1, <1>2, <1>3 DEF IInv, Screens, w
      <4>3. \A x \in {Ack, Nack} : x # line
        BY <4>1, NotALine
      <4>. QED
        BY <4>2, <4>3 DEF NoLine, In
    <3>4. at["disp"] # "idle" => \A u \in OnList : In(line, screen[u[1]]) => pos[u] < pos[pnode]
      BY <1>5, <2>1, <3>2 DEF Ahead
    <3>5. at'["disp"] \in Visit /\ saved' \in OnList' => r[pnode'] < r[saved']
      <4>1. at["disp"] \in Visit => at["disp"] # "idle"
        BY DEF Visit
      <4>. QED
        BY <1>2, <1>5, <1>8, <2>1, <2>9, <3>1, <4>1 DEF Ahead
    <3>6. at'["disp"] # "idle" /\ ToCome' \in OnList' =>
            \A u \in OnList' : In(line', screen'[u[1]]) => r[u] < r[ToCome']
      BY <1>5, <1>8, <2>9, <3>1, <3>2, <3>3, <3>4
    <3>. QED
      BY <3>5, <3>6 DEF Ahead
  <2>11. IsFiniteSet(OnList')
    BY <1>8, FS_AddElement DEF IInv, Linked
  <2>. QED
    BY <2>9, <2>10, <2>11 DEF Linked
<1>11. Watchers'
  <2>1. \A v \in OnList : v # w /\ node'[v] = node[v] /\ v \in Watcher
    BY <1>2, <1>6 DEF OnList
  <2>2. \A t \in Thread : at[t] \notin {"unlinkPrev", "unlinkNext", "freeWatch", "freeConn"}
    BY <1>1, <1>2 DEF Thread, Removal, AfterClose
  <2>3. \A d \in Client : ec[d].watch # NoOne => W(d) \in OnList
    BY <2>2 DEF IInv, Lists, Watchers
  <2>4. \A v \in OnList : ec[v[1]].st = "live" /\ ec[v[1]].watch = v /\ node[v].filter
    BY <1>1, <2>2 DEF IInv, Lists, Watchers
  <2>. QED
    BY <1>2, <1>3, <1>4, <1>5, <1>6, <1>8, <2>1, <2>3, <2>4 DEF IInv, Lists, Watchers
<1>12. Inserting' /\ Removing'
  BY <1>2, <1>4, <1>5, <1>6 DEF IInv, Lists, Inserting, Removing, Insertion, Thread, Removal, AfterClose, w
<1>13. Visiting'
  BY <1>1, <1>2, <1>4, <1>5, <1>8 DEF IInv, Lists, Visiting, Visit, disp
<1>. QED
  BY <1>7, <1>10, <1>11, <1>12, <1>13 DEF IInv, Lists

LEMMA AttachKeeps ==
    ASSUME Apart, IInv, TypeOK', Attach
    PROVE  IInv'
<1>. DEFINE c == arg["conn"]
            w == W(c)
<1>1. at["conn"] = "attach" /\ at["conn"] \in Adding
  BY DEF Attach, Adding
<1>2. /\ DOMAIN at = Thread /\ w \in Watcher /\ wat["conn"] = w
      /\ at["disp"] \in Removal => arg["disp"] # c
      /\ node[w].st = "live" /\ c \in Client /\ ec[c].st = "live" /\ LiveConn(c) /\ w[1] = c
      /\ ec[c].watch = NoOne
  BY <1>1, AddContext
<1>3. /\ ec' = [ec EXCEPT ![c].watch = w] /\ Goto("conn", "recv") /\ AddFrame
      /\ UNCHANGED <<node, head, tail, wat, prv, nxt>>
  BY <1>2 DEF Attach, AddGoto, ItsWatcher
<1>. HIDE DEF w, c
<1>4. /\ at'["disp"] = at["disp"] /\ DOMAIN at' = Thread /\ at'["conn"] = "recv" /\ arg' = arg
      /\ UNCHANGED disp /\ screen' = screen
  BY <1>2, <1>3 DEF Goto, Thread, AddFrame, kernel
<1>5. /\ \A d \in Client : ec'[d].st = ec[d].st /\ ec'[d].fd = ec[d].fd
      /\ \A d \in Client \ {c} : ec'[d].watch = ec[d].watch
      /\ ec'[c].watch = w
  BY <1>2, <1>3 DEF IInv, TypeOK
<1>6. Connections' /\ Requests' /\ Screens' /\ ~crashed'
  BY <1>1, <1>2, <1>3, <1>4, <1>5, AddKeeps DEF Insertion
<1>7. Linked' /\ Visiting' /\ OnList' = OnList
  <2>1. at["conn"] \notin Mid /\ at'["conn"] \notin Mid
    BY <1>1, <1>4 DEF Mid, Insertion
  <2>2. \A v \in OnList : ec'[v[1]].fd = ec[v[1]].fd
    BY <1>5, OneWatcher DEF OnList
  <2>. QED
    BY <1>3, <1>4, <2>1, <2>2, ConnListKept
<1>9. w \in OnList
  <2>1. at["disp"] = "freeWatch" => wat["disp"] = W(arg["disp"]) /\ arg["disp"] # c /\ arg["disp"] \in Client
    BY <1>2, OneWatcher DEF IInv, Lists, Removing, Connections, Working, Removal, AfterClose
  <2>2. at["disp"] = "freeWatch" => wat["disp"] # w
    BY <1>2, <2>1, OneWatcher
  <2>. QED
    BY <1>1, <1>2, <2>2 DEF OnList, Out, Insertion, Thread
<1>10. Watchers'
  <2>1. \A d \in Client : ec'[d].watch \in {NoOne, W(d)} /\ (ec'[d].st # "live" => ec'[d].watch = NoOne)
    BY <1>2, <1>5 DEF IInv, Lists, Watchers, w
  <2>2. \A d \in Client : ec'[d].watch # NoOne =>
          W(d) \in OnList' \/ \E t \in Thread : at'[t] \in {"freeWatch", "freeConn"} /\ arg'[t] = d
    <3>1. \A d \in Client : ec[d].watch # NoOne =>
             W(d) \in OnList \/ \E t \in Thread : at[t] \in {"freeWatch", "freeConn"} /\ arg[t] = d
      BY DEF IInv, Lists, Watchers
    <3>2. \A d \in Client : d = c => W(d) \in OnList'
      BY <1>7, <1>9 DEF w
    <3>3. \A t \in Thread : at[t] \in {"freeWatch", "freeConn"} => at'[t] = at[t] /\ arg'[t] = arg[t]
      BY <1>1, <1>4 DEF Thread
    <3>. QED
      BY <1>5, <1>7, <3>1, <3>2, <3>3
  <2>3. \A v \in OnList : ec'[v[1]].st = "live" /\ ec'[v[1]].watch = v
    <3>1. \A v \in OnList : /\ v \in Watcher /\ v[1] \in Client /\ ec[v[1]].st = "live"
                            /\ ec[v[1]].watch = v \/ v = w
      BY <1>2, OneWatcher DEF IInv, Lists, Watchers, OnList
    <3>. QED
      BY <1>2, <1>5, <3>1, OneWatcher
  <2>4. \A v \in OnList' : node'[v].filter \/
          \E t \in Thread : at'[t] \in {"unlinkPrev", "unlinkNext"} /\ wat'[t] = v
    BY <1>1, <1>3, <1>4, <1>7 DEF IInv, Lists, Watchers, Thread
  <2>. QED
    BY <1>7, <2>1, <2>2, <2>3, <2>4 DEF Watchers
<1>11. Inserting' /\ Removing'
  <2>1. at["disp"] \in Removal => arg["disp"] \in Client \ {c}
    BY <1>2 DEF IInv, Connections, Working
  <2>2. at["disp"] \in Removal => ec'[arg["disp"]].watch = ec[arg["disp"]].watch
    BY <1>5, <2>1
  <2>. QED
    BY <1>2, <1>3, <1>4, <1>7, <2>2 DEF IInv, Lists, Inserting, Removing, Insertion, Thread, Removal, AfterClose
<1>. QED
  BY <1>6, <1>7, <1>10, <1>11 DEF IInv, Lists

----------------------------------------------------------------------------
(***************************************************************************)
(* removeClient, by the thread t.                                          *)
(***************************************************************************)
LEMMA RmContext ==
    ASSUME Apart, IInv, NEW t \in Thread, at[t] \in Removal
    PROVE  /\ arg[t] \in Client /\ ec[arg[t]].st = "live" /\ LiveConn(arg[t])
           /\ ec[arg[t]].fd \in Fd /\ W(arg[t]) \in Watcher
           /\ \A u \in Thread \ {t} : at[u] \in Removal => arg[u] # arg[t]
           /\ \A e \in batch : e[1] # arg[t]
           /\ t = "disp" => (at["conn"] \in ConnWork => arg["conn"] # arg["disp"])
           /\ ~HalfIn /\ at["conn"] \notin Insertion
           /\ t = "conn" => at["conn"] \notin {"loop", "accept", "recv", "answer", "malloc", "attach"}
           /\ OnList \subseteq Watcher /\ NoOne \notin OnList
<1>1. /\ arg[t] \in Client /\ ec[arg[t]].st = "live"
  BY DEF IInv, Connections, Working, Thread, ConnWork
<1>2. at["disp"] \in Removal => /\ \A e \in batch : e[1] # arg["disp"]
                                /\ at["conn"] \in ConnWork => arg["conn"] # arg["disp"]
                                /\ at["conn"] \notin Insertion
  BY NotServed
<1>3. at["conn"] \in Removal => at["conn"] \in ConnWork \ Insertion
  BY DEF ConnWork, Removal, AfterClose, Insertion
<1>4. \A u \in Thread \ {t} : at[u] \in Removal => arg[u] # arg[t]
  BY <1>2, <1>3 DEF Thread
<1>5. \A e \in batch : e[1] # arg[t]
  BY <1>1, <1>2, <1>3, OneWatcher DEF Thread, IInv, Connections, Events
<1>6. ~HalfIn /\ at["conn"] \notin Insertion
  BY <1>2, <1>3 DEF HalfIn, Insertion, Thread
<1>7. t = "conn" => at["conn"] \notin {"loop", "accept", "recv", "answer", "malloc", "attach"}
  BY DEF Removal, AfterClose
<1>. QED
  BY <1>1, <1>2, <1>4, <1>5, <1>6, <1>7, OneWatcher DEF IInv, Connections, Sockets, LiveConn, OnList, Thread

Taking == {"cleanFilter", "unlinkPrev", "unlinkNext", "freeWatch"}

(* While a thread takes a watcher away, the other one does not, and the     *)
(* walk does not hold it.                                                   *)
LEMMA RmAlone ==
    ASSUME Apart, IInv, NEW t \in Thread, at[t] \in {"close"} \cup Taking,
           ec[arg[t]].watch # NoOne
    PROVE  /\ \A u \in Thread \ {t} : at[u] \notin Taking
           /\ HalfOut = IF at[t] = "unlinkNext" THEN wat[t] ELSE NoOne
           /\ \A w \in Watcher : Out(w) <=> at[t] = "freeWatch" /\ wat[t] = w
           /\ t = "conn" => /\ at["disp"] \notin Removal
                            /\ ec[arg[t]].watch \notin {pnode, saved}
<1>1. at[t] \in Removal
  BY DEF Taking, Removal, AfterClose
<1>2. at["conn"] \notin Insertion
  BY <1>1, RmContext
<1>3. CASE t = "conn"
  <2>1. TakesOff
    BY <1>3 DEF TakesOff, Taking, Removal, AfterClose
  <2>2. at["disp"] \notin Removal /\ ec[arg[t]].watch \notin {pnode, saved}
    BY <1>3, <2>1 DEF Apart, Clash
  <2>3. \A u \in Thread \ {t} : at[u] \notin Taking
    BY <1>3, <2>2 DEF Thread, Taking, Removal, AfterClose
  <2>4. HalfOut = IF at[t] = "unlinkNext" THEN wat[t] ELSE NoOne
    BY <1>3, <2>2 DEF HalfOut, Removal, AfterClose
  <2>5. \A w \in Watcher : Out(w) <=> at[t] = "freeWatch" /\ wat[t] = w
    BY <1>2, <1>3, <2>2 DEF Out, Thread, Removal, AfterClose
  <2>. QED
    BY <2>2, <2>3, <2>4, <2>5
<1>4. CASE t = "disp"
  <2>1. at["conn"] \notin Taking
    <3>1. ~TakesOff
      BY <1>1, <1>4, NotServed
    <3>2. at["conn"] \in Taking => ec[arg["conn"]].watch = W(arg["conn"]) /\ arg["conn"] \in Client
      BY OneWatcher DEF Taking, IInv, Lists, Removing, Connections, Working, ConnWork, Removal, AfterClose
    <3>3. at["conn"] \in Taking => ec[arg["conn"]].watch # NoOne
      BY <3>2, OneWatcher
    <3>. QED
      BY <3>1, <3>3 DEF TakesOff, Taking, Removal, AfterClose
  <2>2. \A u \in Thread \ {t} : at[u] \notin Taking
    BY <1>4, <2>1 DEF Thread
  <2>3. HalfOut = IF at[t] = "unlinkNext" THEN wat[t] ELSE NoOne
    BY <1>4, <2>1 DEF HalfOut, Taking
  <2>4. \A w \in Watcher : Out(w) <=> at[t] = "freeWatch" /\ wat[t] = w
    BY <1>2, <1>4, <2>1 DEF Out, Thread, Taking
  <2>. QED
    BY <1>4, <2>2, <2>3, <2>4
<1>. QED
  BY <1>3, <1>4 DEF Thread

(* What its steps between close and the last free leave alone.              *)
LEMMA RmKeeps ==
    ASSUME Apart, IInv, NEW t \in Thread, at[t] \in AfterClose, NEW label \in AfterClose,
           RmGoto(t, label), UNCHANGED <<ec, sock, event, wat>>,
           \A w \in Watcher : \/ node'[w].st = node[w].st /\ node'[w].filter = node[w].filter
                              \/ w = W(arg[t]) /\ node[w].st = "live" /\ node'[w].st \in {"live", "freed"},
           OnList' \subseteq OnList,
           \A u \in OnList : u = saved \/ (t = "conn" /\ u = pnode) => u \in OnList'
    PROVE  /\ Connections' /\ Requests' /\ Screens' /\ ~crashed' /\ Inserting' /\ Visiting'
           /\ at'[t] = label /\ \A u \in Thread \ {t} : at'[u] = at[u]
           /\ DOMAIN at' = Thread
           /\ \A pos \in [Watcher -> Int] : Ahead(pos) => Ahead(pos)'
<1>1. at[t] \in Removal /\ label \in Removal
  BY DEF Removal
<1>2. /\ arg[t] \in Client /\ ec[arg[t]].st = "live" /\ W(arg[t]) \in Watcher
      /\ at["conn"] \notin Insertion /\ ~HalfIn
      /\ t = "conn" => at["conn"] \notin {"loop", "accept", "recv", "answer", "malloc", "attach"}
      /\ t = "disp" => (at["conn"] \in ConnWork => arg["conn"] # arg["disp"])
  BY <1>1, RmContext
<1>3. at'[t] = label /\ (\A u \in Thread \ {t} : at'[u] = at[u]) /\ DOMAIN at' = Thread
  BY TypedMemory DEF RmGoto, Goto, IInv
<1>4. UNCHANGED <<clients, unread, screen, crashed, arg, batch, prv, nxt, line, pnode, saved, fd, owed>>
  BY DEF RmGoto, RmFrame
<1>5. \A u \in Thread : (at'[u] \in Removal <=> at[u] \in Removal) /\ (at'[u] \in AfterClose <=> at[u] \in AfterClose)
  BY <1>1, <1>3
<1>6. /\ Removal \subseteq ConnWork /\ {"loop", "idle"} \cap ConnWork = {}
      /\ Removal \cap ({"answer", "malloc", "attach", "recv"} \cup Insertion) = {}
  BY DEF ConnWork, Removal, AfterClose, Insertion
<1>7. /\ at'["conn"] \in ConnWork <=> at["conn"] \in ConnWork
      /\ at'["conn"] \notin Insertion
      /\ at'["conn"] \in {"answer", "malloc", "attach"} => at'["conn"] = at["conn"] /\ t = "disp"
      /\ at["conn"] \in {"answer", "malloc", "attach"} => at'["conn"] = at["conn"]
  BY <1>1, <1>2, <1>3, <1>6 DEF Thread
<1>8. Connections'
  <2>1. Placed'
    BY <1>1, <1>3, <1>6 DEF IInv, Connections, Placed, Thread
  <2>2. Waiting'
    BY <1>4 DEF IInv, Connections, Waiting, clients
  <2>3. Events'
    BY <1>4, <1>7 DEF IInv, Connections, Events
  <2>4. Working'
    BY <1>4, <1>5, <1>7 DEF IInv, Connections, Working, Thread
  <2>5. Sockets'
    BY <1>4, <1>5, SocketsKept DEF IInv, Connections
  <2>. QED
    BY <2>1, <2>2, <2>3, <2>4, <2>5 DEF Connections
<1>9. \A w \in Watcher : node'[w].st # "none" <=> node[w].st # "none"
  OBVIOUS
<1>10. Requests'
  BY <1>4, <1>7, <1>9, OneWatcher DEF IInv, Requests, clients, Handling
<1>11. Screens'
  <2>1. \A w \in Watcher : node'[w].st = "live" => node[w].st = "live"
    OBVIOUS
  <2>. QED
    BY <1>2, <1>4, <1>5, <1>7, <1>9, <2>1, OneWatcher DEF IInv, Screens, clients, Thread
<1>12. Inserting'
  <2>1. ASSUME at'["conn"] \in {"answer", "malloc", "attach"}
        PROVE  /\ at["conn"] = at'["conn"] /\ arg["conn"] \in Client /\ W(arg["conn"]) # W(arg[t])
               /\ W(arg["conn"]) \in Watcher
    <3>1. arg["conn"] \in Client /\ arg["conn"] # arg[t] /\ at["conn"] = at'["conn"]
      BY <1>2, <1>7, <2>1 DEF IInv, Connections, Working, ConnWork
    <3>. QED
      BY <1>2, <3>1, OneWatcher
  <2>2. ASSUME at'["conn"] \in {"answer", "malloc"}
        PROVE  node'[W(arg'["conn"])].st = "none" /\ ec'[arg'["conn"]].watch = NoOne
    BY <1>4, <2>1, <2>2 DEF IInv, Lists, Inserting
  <2>3. ASSUME at'["conn"] = "attach"
        PROVE  /\ wat'["conn"] = W(arg'["conn"]) /\ node'[wat'["conn"]].st = "live" /\ node'[wat'["conn"]].filter
               /\ ec'[arg'["conn"]].watch = NoOne
    <3>1. wat["conn"] = W(arg["conn"]) /\ node[wat["conn"]].st = "live" /\ node[wat["conn"]].filter
          /\ ec[arg["conn"]].watch = NoOne
      BY <2>1, <2>3 DEF IInv, Lists, Inserting
    <3>. QED
      BY <1>4, <2>1, <2>3, <3>1
  <2>4. at'["conn"] \notin Insertion /\ at'["conn"] \notin {"publish", "backlink", "pointers"}
    BY <1>7 DEF Insertion
  <2>. QED
    BY <2>2, <2>3, <2>4 DEF Inserting
<1>13. CASE t = "conn"
  <2>1. at'["disp"] = at["disp"] /\ UNCHANGED disp
    BY <1>3, <1>4, <1>13 DEF Thread, disp
  <2>2. Visiting' /\ \A pos \in [Watcher -> Int] : Ahead(pos) => Ahead(pos)'
    BY <1>2, <1>4, <1>13, <2>1, WalkKept
  <2>. QED
    BY <1>3, <1>4, <1>8, <1>10, <1>11, <1>12, <2>2 DEF IInv
<1>14. CASE t = "disp"
  <2>1. at["disp"] \in Removal /\ at'["disp"] \in Removal
    BY <1>1, <1>3, <1>14
  <2>2. \A x \in Removal : x \notin {"idle", "next"} \cup Visit
    BY DEF Removal, AfterClose, Visit
  <2>3. Visiting'
    <3>1. (saved \in OnList \cup {NoOne} \/ (HalfIn /\ saved = wat["conn"])) /\ line # 0
      BY <2>1, <2>2 DEF IInv, Lists, Visiting
    <3>2. saved \in OnList' \cup {NoOne}
      BY <1>2, <3>1
    <3>3. at'["disp"] \notin {"idle", "next"} \cup Visit
      BY <2>1, <2>2
    <3>. QED
      BY <1>4, <3>1, <3>2, <3>3 DEF Visiting, Visit
  <2>4. ToCome = saved /\ ToCome' = saved
    BY <1>4, <2>1, <2>2 DEF ToCome
  <2>5. \A pos \in [Watcher -> Int] : Ahead(pos) => Ahead(pos)'
    BY <1>4, <2>1, <2>2, <2>4 DEF Ahead
  <2>. QED
    BY <1>3, <1>4, <1>8, <1>10, <1>11, <1>12, <2>3, <2>5 DEF IInv
<1>. QED
  BY <1>13, <1>14 DEF Thread

(* The lists' other users, while t takes a watcher away or frees it.        *)
LEMMA RmWatchers ==
    ASSUME IInv, NEW t \in Thread, at[t] \in Taking, at'[t] \in Taking \cup {"freeConn"},
           \A u \in Thread \ {t} : at'[u] = at[u] /\ at[u] \notin Taking,
           UNCHANGED <<ec, wat, arg>>, OnList' \subseteq OnList,
           \A v \in OnList : v \in OnList' \/ (v = W(arg[t]) /\ at'[t] \in {"freeWatch", "freeConn"}),
           at[t] = "freeWatch" => at'[t] = "freeConn",
           \A v \in OnList' : node'[v].filter \/ (v = wat[t] /\ at'[t] \in {"unlinkPrev", "unlinkNext"}),
           arg[t] \in Client, \A v \in OnList : v[1] \in Client
    PROVE  Watchers'
<1>1. \A c \in Client : ec'[c].watch \in {NoOne, W(c)} /\ (ec'[c].st # "live" => ec'[c].watch = NoOne)
  BY DEF IInv, Lists, Watchers
<1>2. ASSUME NEW c \in Client, ec[c].watch # NoOne
      PROVE  W(c) \in OnList' \/ \E u \in Thread : at'[u] \in {"freeWatch", "freeConn"} /\ arg'[u] = c
  <2>1. CASE W(c) \in OnList
    <3>1. W(c) = W(arg[t]) => c = arg[t]
      BY OneWatcher
    <3>. QED
      BY <2>1, <3>1
  <2>2. ASSUME NEW u \in Thread, at[u] \in {"freeWatch", "freeConn"}, arg[u] = c
        PROVE  at'[u] \in {"freeWatch", "freeConn"} /\ arg'[u] = c
    BY <2>2 DEF Taking
  <2>. QED
    BY <1>2, <2>1, <2>2 DEF IInv, Lists, Watchers
<1>3. \A w \in OnList' : /\ ec'[w[1]].st = "live"
                         /\ ec'[w[1]].watch = w \/ (at'["conn"] = "attach" /\ wat'["conn"] = w)
  <2>1. at["conn"] = "attach" => at'["conn"] = "attach"
    BY DEF Taking, Thread
  <2>. QED
    BY <2>1 DEF IInv, Lists, Watchers
<1>4. \A w \in OnList' : node'[w].filter \/
          \E u \in Thread : at'[u] \in {"unlinkPrev", "unlinkNext"} /\ wat'[u] = w
  OBVIOUS
<1>. QED
  BY <1>1, <1>2, <1>3, <1>4 DEF Watchers

(* The other thread's removal, which is at its start or at its end.         *)
LEMMA RmOther ==
    ASSUME IInv, NEW u \in Thread, at'[u] = at[u], at[u] \notin Taking, UNCHANGED <<arg, wat>>,
           OnList' \subseteq OnList
    PROVE  /\ at'[u] \in {"cleanFilter", "unlinkPrev", "unlinkNext"} =>
                 wat'[u] = W(arg'[u]) /\ wat'[u] \in OnList' /\ ec'[arg'[u]].watch = wat'[u]
           /\ at'[u] = "cleanFilter" => node'[wat'[u]].filter
           /\ at'[u] = "unlinkNext" => LET n == node'[wat'[u]] IN
                 IF n.prev = NoOne THEN head' = n.next ELSE node'[n.prev].next = n.next
           /\ at'[u] = "freeWatch" =>
                 wat'[u] = W(arg'[u]) /\ node'[wat'[u]].st = "live" /\ ec'[arg'[u]].watch = wat'[u]
           /\ at'[u] = "freeConn" => W(arg'[u]) \notin OnList'
  BY DEF IInv, Lists, Removing, Taking

LEMMA RmCloseKeeps ==
    ASSUME Apart, IInv, TypeOK', NEW t \in Thread, RmClose(t)
    PROVE  IInv'
<1>. DEFINE c == arg[t]
            f == ec[c].fd
<1>1. at[t] = "close" /\ at[t] \in Removal
  BY DEF RmClose, Removal
<1>2. /\ c \in Client /\ ec[c].st = "live" /\ LiveConn(c) /\ f \in Fd /\ W(c) \in Watcher
      /\ \A u \in Thread \ {t} : at[u] \in Removal => arg[u] # c
      /\ \A e \in batch : e[1] # c
      /\ t = "disp" => (at["conn"] \in ConnWork => arg["conn"] # c)
      /\ ~HalfIn /\ at["conn"] \notin Insertion
      /\ t = "conn" => at["conn"] \notin {"loop", "accept", "recv", "answer", "malloc", "attach"}
  BY <1>1, RmContext
<1>3. ~Closing(c) /\ sock[f] = c
  <2>1. ~Closing(c)
    BY <1>1, <1>2 DEF Closing, Removal, AfterClose
  <2>. QED
    BY <1>2, <2>1 DEF IInv, Connections, Sockets
<1>4. /\ wat' = [wat EXCEPT ![t] = ec[c].watch]
      /\ sock' = [sock EXCEPT ![f] = NoOne]
      /\ event' = [d \in Client |-> event[d] /\ sock[f] # d]
      /\ RmGoto(t, IF ec[c].watch = NoOne THEN "freeConn" ELSE "cleanFilter")
      /\ UNCHANGED memory
  BY <1>2 DEF RmClose
<1>. HIDE DEF c, f
<1>5. /\ at'[t] = (IF ec[c].watch = NoOne THEN "freeConn" ELSE "cleanFilter")
      /\ \A u \in Thread \ {t} : at'[u] = at[u] /\ wat'[u] = wat[u]
      /\ DOMAIN at' = Thread /\ at'[t] \in AfterClose
      /\ wat'[t] = ec[c].watch /\ sock'[f] = NoOne
      /\ \A g \in Fd \ {f} : sock'[g] = sock[g]
      /\ \A d \in Client : event'[d] => event[d] /\ d # c
  BY <1>2, <1>3, <1>4, TypedMemory DEF IInv, RmGoto, Goto, AfterClose
<1>6. /\ UNCHANGED <<clients, unread, screen, crashed, arg, batch, line, pnode, saved, prv, fd, owed>>
      /\ UNCHANGED <<ec, node, head, tail>>
  BY <1>4 DEF RmGoto, RmFrame, memory
<1>7. /\ \A u \in Thread : at'[u] \in Removal <=> at[u] \in Removal
      /\ Removal \subseteq ConnWork /\ {"loop", "idle"} \cap ConnWork = {}
      /\ AfterClose \subseteq Removal
      /\ Removal \cap ({"answer", "malloc", "attach", "recv"} \cup Insertion) = {}
      /\ Removal \cap ({"idle", "next"} \cup Visit) = {}
  BY <1>1, <1>5 DEF ConnWork, Removal, AfterClose, Insertion, Visit
<1>8. /\ at'["conn"] \in ConnWork <=> at["conn"] \in ConnWork
      /\ at'["conn"] \notin Insertion
      /\ at'["conn"] \in {"answer", "malloc", "attach"} => at'["conn"] = at["conn"] /\ t = "disp"
      /\ at["conn"] \in {"answer", "malloc", "attach"} => at'["conn"] = at["conn"] /\ t = "disp"
  BY <1>1, <1>2, <1>5, <1>7 DEF Thread
<1>9. Connections'
  <2>1. Placed' /\ Working'
    BY <1>1, <1>5, <1>6, <1>7, <1>8 DEF IInv, Connections, Placed, Working, Thread
  <2>2. Waiting'
    BY <1>6 DEF IInv, Connections, Waiting, clients
  <2>3. Events'
    BY <1>6, <1>8 DEF IInv, Connections, Events
  <2>4. \A d : Closing(d)' <=> Closing(d) \/ d = c
    BY <1>1, <1>5, <1>6 DEF Closing, AfterClose, c
  <2>5. Sockets'
    <3>1. \A g \in Fd : sock'[g] # NoOne =>
             ec[sock'[g]].st = "live" /\ ec[sock'[g]].fd = g /\ ~Closing(sock'[g]) /\ sock'[g] # c
      BY <1>5 DEF IInv, Connections, Sockets, f
    <3>2. \A d \in Client : ec[d].st = "live" => ec[d].fd \in Fd /\ (sock'[ec[d].fd] = d \/ d = c \/ Closing(d))
      BY <1>3, <1>5 DEF IInv, Connections, Sockets
    <3>3. \A d \in Client : event'[d] => \E g \in Fd : sock'[g] = d
      BY <1>3, <1>5 DEF IInv, Connections, Sockets, Registered
    <3>. QED
      BY <1>6, <2>4, <3>1, <3>2, <3>3 DEF Sockets, Registered
  <2>. QED
    BY <2>1, <2>2, <2>3, <2>5 DEF Connections
<1>10. ListKept
  <2>1. at[t] \notin Mid /\ at'[t] \notin Mid
    BY <1>1, <1>5 DEF Mid, Insertion
  <2>. QED
    BY <1>5, <1>6, <2>1, ListSteady, TypedMemory DEF IInv
<1>11. OnList' = OnList
  BY <1>10 DEF ListKept
<1>12. Visiting' /\ \A pos \in [Watcher -> Int] : Ahead(pos) => Ahead(pos)'
  <2>1. CASE t = "conn"
    <3>1. at'["disp"] = at["disp"] /\ UNCHANGED disp
      BY <1>5, <1>6, <2>1 DEF Thread, disp
    <3>. QED
      BY <1>2, <1>6, <1>11, <3>1, WalkKept
  <2>2. CASE t = "disp"
    <3>1. at["disp"] \notin {"idle", "next"} \cup Visit /\ at'["disp"] \notin {"idle", "next"} \cup Visit
          /\ at["disp"] \in Removal
      BY <1>1, <1>5, <1>7, <2>2
    <3>2. saved \in OnList \cup {NoOne} /\ line # 0
      BY <1>2, <3>1 DEF IInv, Lists, Visiting
    <3>3. Visiting'
      BY <1>6, <1>11, <3>1, <3>2 DEF Visiting, Visit
    <3>4. ToCome = saved /\ ToCome' = saved
      BY <1>6, <3>1 DEF ToCome
    <3>. QED
      BY <1>6, <1>11, <3>1, <3>3, <3>4 DEF Ahead
  <2>. QED
    BY <2>1, <2>2 DEF Thread
<1>13. Requests'
  BY <1>6, <1>8 DEF IInv, Requests, Handling, clients
<1>14. Screens'
  BY <1>1, <1>2, <1>5, <1>6, <1>7, <1>8 DEF IInv, Screens, clients, Thread
<1>15. Watchers'
  <2>1. \A u \in Thread : at[u] \in {"unlinkPrev", "unlinkNext", "freeWatch", "freeConn", "attach"} =>
            u # t /\ at'[u] = at[u] /\ wat'[u] = wat[u] /\ arg'[u] = arg[u]
    BY <1>1, <1>5, <1>6
  <2>2. "conn" \in Thread
    BY DEF Thread
  <2>. QED
    BY <1>6, <1>11, <2>1, <2>2 DEF IInv, Lists, Watchers
<1>16. Inserting'
  <2>1. at'["conn"] = "attach" => wat'["conn"] = wat["conn"]
    BY <1>5, <1>8 DEF Thread
  <2>. QED
    BY <1>6, <1>8, <2>1 DEF IInv, Lists, Inserting, Insertion
<1>17. Removing'
  <2>1. W(c) \in OnList => ec[c].watch = W(c)
    <3>1. at["conn"] = "attach" => arg["conn"] \in Client \ {c} /\ wat["conn"] = W(arg["conn"])
      BY <1>1, <1>2 DEF IInv, Lists, Inserting, Connections, Working, ConnWork, Thread
    <3>. QED
      BY <1>2, <3>1, OneWatcher DEF IInv, Lists, Watchers
  <2>2. \A u \in Thread : at[u] \in {"unlinkPrev", "unlinkNext", "freeWatch", "freeConn"} => arg[u] # c /\ arg[u] \in Client
    BY <1>1, <1>2 DEF IInv, Connections, Working, Thread, Removal, AfterClose, ConnWork
  <2>3. ec[c].watch # NoOne => ec[c].watch = W(c) /\ W(c) \in OnList
    BY <1>2, <2>2 DEF IInv, Lists, Watchers
  <2>4. W(c) \in OnList => node[W(c)].filter
    <3>1. \A u \in Thread : at[u] \in {"unlinkPrev", "unlinkNext"} => wat[u] = W(arg[u])
      BY DEF IInv, Lists, Removing
    <3>2. \A u \in Thread : at[u] \in {"unlinkPrev", "unlinkNext"} => wat[u] # W(c)
      BY <1>2, <2>2, <3>1, OneWatcher
    <3>. QED
      BY <3>2 DEF IInv, Lists, Watchers
  <2>5. ASSUME NEW u \in Thread \ {t}
        PROVE  at'[u] = at[u] /\ wat'[u] = wat[u] /\ arg'[u] = arg[u]
    BY <1>5, <1>6
  <2>. QED
    BY <1>2, <1>5, <1>6, <1>11, <2>1, <2>3, <2>4, <2>5, OneWatcher DEF IInv, Lists, Removing, c
<1>. QED
  BY <1>6, <1>9, <1>10, <1>12, <1>13, <1>14, <1>15, <1>16, <1>17, LinkedKept DEF IInv, Lists

(* A thread past the close has its watcher on the list, until it is off.    *)
LEMMA RmWatcher ==
    ASSUME Apart, IInv, NEW t \in Thread, at[t] \in {"cleanFilter", "unlinkPrev", "unlinkNext"}
    PROVE  /\ at[t] \in AfterClose /\ at[t] \in Removal /\ at[t] \in Taking
           /\ wat[t] = W(arg[t]) /\ wat[t] \in OnList /\ wat[t] \in Watcher /\ wat[t] # NoOne
           /\ ec[arg[t]].watch = wat[t] /\ LiveConn(arg[t]) /\ arg[t] \in Client
           /\ LiveNode(wat[t]) /\ node[wat[t]].st = "live"
           /\ ~HalfIn /\ at["conn"] \notin Insertion
           /\ HalfOut = (IF at[t] = "unlinkNext" THEN wat[t] ELSE NoOne)
           /\ \A v \in Watcher : ~Out(v)
           /\ \A u \in Thread \ {t} : at[u] \notin Taking
           /\ t = "conn" => wat[t] \notin {pnode, saved}
           /\ \A v \in OnList : v[1] \in Client
<1>1. at[t] \in AfterClose /\ at[t] \in Removal /\ at[t] \in Taking /\ at[t] # "freeWatch"
  BY DEF AfterClose, Removal, Taking
<1>2. wat[t] = W(arg[t]) /\ wat[t] \in OnList /\ ec[arg[t]].watch = wat[t]
  BY DEF IInv, Lists, Removing
<1>3. wat[t] \in Watcher /\ node[wat[t]].st = "live" /\ wat[t] # NoOne
  BY <1>2, OneWatcher DEF OnList
<1>4. /\ \A u \in Thread \ {t} : at[u] \notin Taking
      /\ HalfOut = (IF at[t] = "unlinkNext" THEN wat[t] ELSE NoOne)
      /\ \A v \in Watcher : Out(v) <=> at[t] = "freeWatch" /\ wat[t] = v
      /\ t = "conn" => wat[t] \notin {pnode, saved}
  BY <1>1, <1>2, <1>3, RmAlone
<1>5. \A v \in OnList : v[1] \in Client
  BY OneWatcher DEF OnList
<1>. QED
  BY <1>1, <1>2, <1>3, <1>4, <1>5, RmContext DEF LiveNode

LEMMA RmFilterKeeps ==
    ASSUME Apart, IInv, TypeOK', NEW t \in Thread, RmFilter(t)
    PROVE  IInv'
<1>. DEFINE w == wat[t]
<1>1. at[t] = "cleanFilter"
  BY DEF RmFilter
<1>2. /\ at[t] \in AfterClose /\ at[t] \in Taking /\ arg[t] \in Client
      /\ w = W(arg[t]) /\ w \in OnList /\ w \in Watcher /\ node[w].st = "live" /\ LiveNode(w)
      /\ ec[arg[t]].watch = w /\ \A u \in Thread \ {t} : at[u] \notin Taking
      /\ \A v \in OnList : v[1] \in Client
      /\ node[w].filter
  BY <1>1, RmWatcher DEF IInv, Lists, Removing
<1>3. /\ node' = FilterFreed(node, w) /\ RmGoto(t, "unlinkPrev")
      /\ UNCHANGED <<ec, head, tail, wat, sock, event>>
  BY <1>2 DEF RmFilter, FilterFreed
<1>4. /\ node' \in [Watcher -> watcher_t] /\ \A v \in Watcher \ {w} : node'[v] = node[v]
      /\ node'[w].st = node[w].st /\ node'[w].next = node[w].next /\ node'[w].prev = node[w].prev
  <2>1. node \in [Watcher -> watcher_t] /\ w \in Watcher /\ node' = FilterFreed(node, w)
    BY <1>2, <1>3, TypedMemory DEF IInv
  <2>. HIDE DEF w
  <2>. QED
    BY <2>1, WriteFilter
<1>5. /\ \A v \in Watcher : /\ node'[v].st = node[v].st /\ node'[v].next = node[v].next
                            /\ node'[v].prev = node[v].prev
                            /\ v # w => node'[v].filter = node[v].filter
  BY <1>4
<1>. HIDE DEF w
<1>6. /\ at'[t] = "unlinkPrev" /\ (\A u \in Thread \ {t} : at'[u] = at[u])
      /\ UNCHANGED <<arg, prv, crashed>>
  BY <1>3, TypedMemory DEF IInv, RmGoto, RmFrame, Goto
<1>7. ListKept
  <2>1. at[t] \notin Mid /\ at'[t] \notin Mid
    BY <1>1, <1>6 DEF Mid, Insertion
  <2>. QED
    BY <1>3, <1>5, <1>6, <2>1, ListSteady, TypedMemory DEF IInv
<1>8. OnList' = OnList
  BY <1>7 DEF ListKept
<1>9. /\ Connections' /\ Requests' /\ Screens' /\ ~crashed' /\ Inserting' /\ Visiting'
      /\ \A pos \in [Watcher -> Int] : Ahead(pos) => Ahead(pos)'
  <2>1. "unlinkPrev" \in AfterClose
    BY DEF AfterClose
  <2>2. \A v \in Watcher : \/ node'[v].st = node[v].st /\ node'[v].filter = node[v].filter
                           \/ v = W(arg[t]) /\ node[v].st = "live" /\ node'[v].st \in {"live", "freed"}
    BY <1>2, <1>5
  <2>. QED
    BY <1>2, <1>3, <1>8, <2>1, <2>2, RmKeeps
<1>10. Watchers'
  <2>1. at'[t] \in Taking \cup {"freeConn"} /\ at[t] # "freeWatch"
    BY <1>1, <1>6 DEF Taking
  <2>2. \A v \in OnList' : node'[v].filter \/ (v = wat[t] /\ at'[t] \in {"unlinkPrev", "unlinkNext"})
    <3>1. \A u \in Thread : at[u] \notin {"unlinkPrev", "unlinkNext"}
      BY <1>1, <1>2 DEF Taking
    <3>2. \A v \in OnList : v \in Watcher /\ node[v].filter
      BY <3>1 DEF IInv, Lists, Watchers, OnList
    <3>. QED
      BY <1>5, <1>6, <1>8, <3>2 DEF w
  <2>. QED
    BY <1>2, <1>3, <1>6, <1>8, <2>1, <2>2, RmWatchers
<1>11. Removing'
  <2>1. wat'[t] = W(arg'[t]) /\ wat'[t] \in OnList' /\ ec'[arg'[t]].watch = wat'[t]
    BY <1>2, <1>3, <1>6, <1>8 DEF w
  <2>. QED
    BY <1>2, <1>3, <1>6, <1>8, <2>1, RmOther DEF Removing
<1>. QED
  BY <1>7, <1>9, <1>10, <1>11, LinkedKept DEF IInv, Lists

(* The watcher to be taken off, and its neighbours.                         *)
LEMMA Neighbours ==
    ASSUME IInv, NEW w \in OnList, ~HalfIn, HalfOut \in {NoOne, w}
    PROVE  /\ node[w].prev = NoOne \/ (node[w].prev \in OnList \ {w} /\ Nx(node[w].prev) = w)
           /\ node[w].next = NoOne \/ (node[w].next \in OnList \ {w} /\ node[node[w].next].prev = w)
           /\ Nx(w) = node[w].next
           /\ node[w].prev = NoOne <=> First = w
           /\ node[w].next = NoOne <=> LastOne = w
           /\ \A u \in OnList : Nx(u) = w <=> node[w].prev = u
           /\ \A u \in OnList : node[u].prev = w <=> node[w].next = u
<1>1. PICK pos \in [Watcher -> Int] : Ordered(OnList, pos, First, LastOne, Nexts, Prevs)
  BY DEF IInv, Linked
<1>2. \A u \in OnList : Nexts[u] = Nx(u) /\ Prevs[u] = node[u].prev /\ pos[u] \in Int /\ u # NoOne
  BY OneWatcher DEF Nexts, Prevs, OnList
<1>3. \A u, v \in OnList : pos[u] = pos[v] => u = v
  BY <1>1 DEF Ordered
<1>4. \A u \in OnList : \/ Nx(u) = NoOne /\ \A v \in OnList : pos[v] <= pos[u]
                        \/ /\ Nx(u) \in OnList /\ pos[u] < pos[Nx(u)]
                           /\ \A x \in OnList : pos[x] <= pos[u] \/ pos[Nx(u)] <= pos[x]
  BY <1>1, <1>2 DEF Ordered, Most, Adjacent
<1>5. \A u \in OnList : \/ node[u].prev = NoOne /\ \A v \in OnList : pos[u] <= pos[v]
                        \/ /\ node[u].prev \in OnList /\ pos[node[u].prev] < pos[u]
                           /\ \A x \in OnList : pos[x] <= pos[node[u].prev] \/ pos[u] <= pos[x]
  BY <1>1, <1>2 DEF Ordered, Least, Adjacent
<1>6. node[w].prev # w
  BY <1>2, <1>5
<1>7. Nx(w) = node[w].next
  BY <1>2, <1>6 DEF Nx, OutAfter
<1>8. /\ First \in OnList /\ \A v \in OnList : pos[First] <= pos[v]
      /\ LastOne \in OnList /\ \A v \in OnList : pos[v] <= pos[LastOne]
  BY <1>1 DEF Ordered, Least, Most
<1>9. node[w].prev = NoOne <=> First = w
  BY <1>2, <1>3, <1>5, <1>8
<1>10. node[w].next = NoOne <=> LastOne = w
  BY <1>2, <1>3, <1>4, <1>7, <1>8
<1>11. \A u \in OnList : Nx(u) = w <=> node[w].prev = u
  BY <1>2, <1>3, <1>4, <1>5
<1>12. \A u \in OnList : node[u].prev = w <=> Nx(w) = u
  BY <1>2, <1>3, <1>4, <1>5
<1>. QED
  BY <1>2, <1>4, <1>5, <1>7, <1>9, <1>10, <1>11, <1>12

LEMMA RmPrevKeeps ==
    ASSUME Apart, IInv, TypeOK', NEW t \in Thread, RmPrev(t)
    PROVE  IInv'
<1>. DEFINE w == wat[t]
            n == node[w]
<1>1. at[t] = "unlinkPrev"
  BY DEF RmPrev
<1>2. /\ at[t] \in AfterClose /\ at[t] \in Taking /\ arg[t] \in Client /\ LiveConn(arg[t])
      /\ w = W(arg[t]) /\ w \in OnList /\ w \in Watcher /\ w # NoOne /\ LiveNode(w)
      /\ ec[arg[t]].watch = w /\ \A u \in Thread \ {t} : at[u] \notin Taking
      /\ \A v \in OnList : v[1] \in Client
      /\ ~HalfIn /\ HalfOut = NoOne /\ (\A v \in Watcher : ~Out(v)) /\ at["conn"] \notin Insertion
  BY <1>1, RmWatcher
<1>3. /\ n.prev = NoOne \/ (n.prev \in OnList \ {w} /\ n.prev \in Watcher /\ n.prev # NoOne /\ LiveNode(n.prev))
      /\ n.next \in Watcher \cup {NoOne, Junk}
      /\ n.prev = NoOne <=> First = w
      /\ \A u \in OnList : Nx(u) = w <=> n.prev = u
      /\ First = head /\ \A u \in OnList : Nx(u) = node[u].next
  <2>1. node[w] \in watcher_t
    BY <1>2, TypedMemory DEF IInv
  <2>2. First = head /\ \A u \in OnList : Nx(u) = node[u].next
    BY <1>2 DEF First, Nx, OutAfter
  <2>. QED
    BY <1>2, <2>1, <2>2, Neighbours, OneWatcher DEF OnList, LiveNode, watcher_t
<1>4. /\ \/ n.prev = NoOne /\ head' = n.next /\ node' = node
         \/ n.prev # NoOne /\ node' = NextSet(node, n.prev, n.next) /\ head' = head
      /\ RmGoto(t, "unlinkNext") /\ UNCHANGED <<ec, tail, wat, sock, event>>
  BY <1>2, <1>3 DEF RmPrev, NextSet
<1>5. /\ node' \in [Watcher -> watcher_t]
      /\ \A v \in Watcher : /\ node'[v].st = node[v].st /\ node'[v].filter = node[v].filter
                            /\ node'[v].prev = node[v].prev
                            /\ v # n.prev => node'[v].next = node[v].next
      /\ n.prev # NoOne => node'[n.prev].next = n.next
      /\ n.prev # w /\ node'[w] = n
  <2>1. n.prev # w
    BY <1>2, <1>3, OneWatcher
  <2>2. CASE n.prev = NoOne
    BY <1>2, <1>3, <1>4, <2>1, <2>2, TypedMemory DEF IInv
  <2>3. CASE n.prev # NoOne
    <3>1. node' = NextSet(node, n.prev, n.next) /\ node \in [Watcher -> watcher_t]
      BY <1>4, <2>3, TypedMemory DEF IInv
    <3>2. n.prev \in Watcher
      BY <1>3, <2>3
    <3>3. /\ node' \in [Watcher -> watcher_t] /\ \A v \in Watcher \ {n.prev} : node'[v] = node[v]
          /\ node'[n.prev].st = node[n.prev].st /\ node'[n.prev].filter = node[n.prev].filter
          /\ node'[n.prev].prev = node[n.prev].prev /\ node'[n.prev].next = n.next
      BY <1>3, <3>1, <3>2, WriteNext
    <3>. QED
      BY <1>2, <2>1, <3>2, <3>3
  <2>. QED
    BY <2>2, <2>3
<1>. HIDE DEF w
<1>6. /\ at'[t] = "unlinkNext" /\ (\A u \in Thread \ {t} : at'[u] = at[u])
      /\ UNCHANGED <<arg, prv, crashed>>
  BY <1>4, TypedMemory DEF IInv, RmGoto, RmFrame, Goto
<1>7. at'["conn"] \notin Insertion
  BY <1>2, <1>6 DEF Insertion, Thread
<1>8. OnList' = OnList
  <2>1. \A v \in Watcher : ~Out(v)'
    BY <1>2, <1>6, <1>7 DEF Out, Thread, Taking
  <2>. QED
    BY <1>2, <1>5, <2>1 DEF OnList
<1>9. /\ Connections' /\ Requests' /\ Screens' /\ ~crashed' /\ Inserting' /\ Visiting'
      /\ \A pos \in [Watcher -> Int] : Ahead(pos) => Ahead(pos)'
  <2>1. "unlinkNext" \in AfterClose
    BY DEF AfterClose
  <2>2. \A v \in Watcher : node'[v].st = node[v].st /\ node'[v].filter = node[v].filter
    BY <1>5
  <2>. QED
    BY <1>2, <1>4, <1>8, <2>1, <2>2, RmKeeps
<1>10. ListKept
  <2>1. ~HalfIn' /\ HalfOut' = w /\ w # NoOne
    <3>1. ~HalfIn'
      BY <1>7 DEF HalfIn, Insertion
    <3>2. HalfOut' = wat[t]
      BY <1>2, <1>4, <1>6 DEF HalfOut, Thread, Taking
    <3>. QED
      BY <1>2, <3>1, <3>2 DEF w
  <2>2. \A x : OutAfter(x)' <=> n.prev = x
    BY <1>5, <2>1 DEF OutAfter
  <2>3. First' = First
    BY <1>3, <1>4, <2>1, <2>2 DEF First
  <2>4. LastOne' = LastOne
    BY <1>2, <1>4, <1>7 DEF LastOne, Insertion
  <2>5. \A u \in OnList : Nx(u)' = Nx(u)
    BY <1>3, <1>5, <2>1, <2>2 DEF Nx, OnList
  <2>. QED
    BY <1>5, <1>8, <2>3, <2>4, <2>5 DEF ListKept, Nexts, Prevs, OnList
<1>11. Watchers'
  <2>1. at'[t] \in Taking \cup {"freeConn"} /\ at[t] # "freeWatch"
    BY <1>1, <1>6 DEF Taking
  <2>2. \A v \in OnList' : node'[v].filter \/ (v = wat[t] /\ at'[t] \in {"unlinkPrev", "unlinkNext"})
    <3>1. \A v \in OnList : v \in Watcher /\ (node[v].filter \/ v = w)
      BY <1>2 DEF IInv, Lists, Watchers, OnList, Taking, w
    <3>. QED
      BY <1>5, <1>6, <1>8, <3>1 DEF w
  <2>. QED
    BY <1>2, <1>4, <1>6, <1>8, <2>1, <2>2, RmWatchers
<1>12. Removing'
  <2>1. wat'[t] = w /\ w = W(arg'[t]) /\ w \in OnList' /\ ec'[arg'[t]].watch = w
    BY <1>2, <1>4, <1>6, <1>8 DEF w
  <2>2. IF node'[w].prev = NoOne THEN head' = node'[w].next ELSE node'[node'[w].prev].next = node'[w].next
    BY <1>4, <1>5
  <2>. QED
    BY <1>2, <1>4, <1>6, <1>8, <2>1, <2>2, RmOther DEF Removing
<1>. QED
  BY <1>9, <1>10, <1>11, <1>12, LinkedKept DEF IInv, Lists

(* The dispatch thread never holds, as the next to visit, the watcher it is *)
(* taking off.                                                              *)
Moved == at["disp"] \in Removal => saved # W(arg["disp"])

LEMMA RmNextKeeps ==
    ASSUME Apart, IInv, Moved, TypeOK', NEW t \in Thread, RmNext(t)
    PROVE  IInv'
<1>. DEFINE w == wat[t]
            n == node[w]
<1>1. at[t] = "unlinkNext"
  BY DEF RmNext
<1>2. /\ at[t] \in AfterClose /\ at[t] \in Taking /\ arg[t] \in Client /\ at[t] \in Removal
      /\ w = W(arg[t]) /\ w \in OnList /\ w \in Watcher /\ w # NoOne /\ LiveNode(w) /\ n.st = "live"
      /\ ec[arg[t]].watch = w /\ \A u \in Thread \ {t} : at[u] \notin Taking
      /\ \A v \in OnList : v[1] \in Client
      /\ ~HalfIn /\ HalfOut = w /\ (\A v \in Watcher : ~Out(v)) /\ at["conn"] \notin Insertion
      /\ t = "conn" => w \notin {pnode, saved}
      /\ IF n.prev = NoOne THEN head = n.next ELSE node[n.prev].next = n.next
  BY <1>1, RmWatcher DEF IInv, Lists, Removing
<1>3. /\ n.prev = NoOne \/ n.prev \in OnList \ {w}
      /\ n.next = NoOne \/ (n.next \in OnList \ {w} /\ n.next \in Watcher /\ LiveNode(n.next))
      /\ n.prev \in Watcher \cup {NoOne, Junk}
      /\ Nx(w) = n.next
      /\ First = IF n.prev = NoOne THEN w ELSE head
      /\ \A u \in OnList : Nx(u) = IF u = n.prev THEN w ELSE node[u].next
  <2>1. node[w] \in watcher_t
    BY <1>2, TypedMemory DEF IInv
  <2>2. First = IF n.prev = NoOne THEN w ELSE head
    BY <1>2 DEF First, OutAfter
  <2>3. \A u \in OnList : Nx(u) = IF u = n.prev THEN w ELSE node[u].next
    BY <1>2 DEF Nx, OutAfter
  <2>. QED
    BY <1>2, <2>1, <2>2, <2>3, Neighbours DEF OnList, LiveNode, watcher_t
<1>4. /\ \/ n.next = NoOne /\ tail' = n.prev /\ node' = node
         \/ n.next # NoOne /\ node' = PrevSet(node, n.next, n.prev) /\ tail' = tail
      /\ RmGoto(t, "freeWatch") /\ UNCHANGED <<ec, head, wat, sock, event>>
  BY <1>2, <1>3 DEF RmNext, Backlink, PrevSet
<1>5. /\ node' \in [Watcher -> watcher_t]
      /\ \A v \in Watcher : /\ node'[v].st = node[v].st /\ node'[v].filter = node[v].filter
                            /\ node'[v].next = node[v].next
                            /\ v # n.next => node'[v].prev = node[v].prev
      /\ n.next # NoOne => node'[n.next].prev = n.prev
  <2>1. CASE n.next = NoOne
    BY <1>2, <1>4, <2>1, TypedMemory DEF IInv
  <2>2. CASE n.next # NoOne
    <3>1. node' = PrevSet(node, n.next, n.prev) /\ node \in [Watcher -> watcher_t] /\ n.next \in Watcher
      BY <1>3, <1>4, <2>2, TypedMemory DEF IInv
    <3>2. /\ node' \in [Watcher -> watcher_t] /\ \A v \in Watcher \ {n.next} : node'[v] = node[v]
          /\ node'[n.next].st = node[n.next].st /\ node'[n.next].filter = node[n.next].filter
          /\ node'[n.next].next = node[n.next].next /\ node'[n.next].prev = n.prev
      BY <1>3, <3>1, WritePrev
    <3>. QED
      BY <3>1, <3>2
  <2>. QED
    BY <2>1, <2>2
<1>. HIDE DEF w
<1>6. /\ at'[t] = "freeWatch" /\ (\A u \in Thread \ {t} : at'[u] = at[u])
      /\ UNCHANGED <<arg, prv, crashed>>
  BY <1>4, TypedMemory DEF IInv, RmGoto, RmFrame, Goto
<1>7. at'["conn"] \notin Insertion
  BY <1>2, <1>6 DEF Insertion, Thread
<1>8. OnList' = OnList \ {w}
  <2>1. \A v \in Watcher : Out(v)' <=> v = w
    BY <1>2, <1>4, <1>6, <1>7 DEF Out, Thread, Taking, w
  <2>. QED
    BY <1>2, <1>5, <2>1 DEF OnList
<1>9. /\ Connections' /\ Requests' /\ Screens' /\ ~crashed' /\ Inserting' /\ Visiting'
      /\ \A pos \in [Watcher -> Int] : Ahead(pos) => Ahead(pos)'
  <2>1. "freeWatch" \in AfterClose
    BY DEF AfterClose
  <2>2. \A v \in Watcher : node'[v].st = node[v].st /\ node'[v].filter = node[v].filter
    BY <1>5
  <2>3. \A u \in OnList : u = saved \/ (t = "conn" /\ u = pnode) => u \in OnList'
    <3>1. t = "disp" => saved # w
      BY <1>2 DEF Moved
    <3>. QED
      BY <1>2, <1>8, <3>1 DEF Thread
  <2>. QED
    BY <1>2, <1>4, <1>8, <2>1, <2>2, <2>3, RmKeeps
<1>10. Linked'
  <2>1. PICK pos \in [Watcher -> Int] : Ordered(OnList, pos, First, LastOne, Nexts, Prevs) /\ Ahead(pos)
    BY DEF IInv, Linked
  <2>2. ~HalfIn' /\ HalfOut' = NoOne /\ LastOne = tail /\ LastOne' = tail'
    BY <1>2, <1>6, <1>7 DEF HalfIn, HalfOut, Thread, LastOne, Insertion, Taking
  <2>3. First' = head /\ \A u \in OnList' : Nexts'[u] = node'[u].next /\ Prevs'[u] = node'[u].prev
    BY <1>4, <2>2 DEF First, Nexts, Prevs, Nx, OutAfter
  <2>4. \A u \in OnList : Nexts[u] = Nx(u) /\ Prevs[u] = node[u].prev
    BY DEF Nexts, Prevs
  <2>5. Nexts[w] = n.next /\ Prevs[w] = n.prev
    BY <1>2, <1>3, <2>4
  <2>6. First' = IF n.prev = NoOne THEN n.next ELSE First
    BY <1>2, <1>3, <2>3
  <2>7. LastOne' = IF n.next = NoOne THEN n.prev ELSE LastOne
    BY <1>4, <2>2
  <2>8. ASSUME NEW u \in OnList \ {w}
        PROVE  /\ Nexts'[u] = IF u = n.prev THEN n.next ELSE Nexts[u]
               /\ Prevs'[u] = IF u = n.next THEN n.prev ELSE Prevs[u]
    <3>1. u \in Watcher /\ u # NoOne
      BY OneWatcher DEF OnList
    <3>2. Nexts'[u] = node[u].next /\ Prevs'[u] = node'[u].prev
      BY <1>5, <1>8, <2>3, <3>1
    <3>. QED
      BY <1>2, <1>3, <1>5, <2>4, <3>1, <3>2
  <2>9. Dropped(OnList, w, First, LastOne, Nexts, Prevs, First', LastOne', Nexts', Prevs')
    BY <2>5, <2>6, <2>7, <2>8 DEF Dropped
  <2>10. OnList \in SUBSET Watcher /\ w \in OnList /\ NoOne \notin Watcher
    BY <1>2, OneWatcher DEF OnList
  <2>11. Ordered(OnList \ {w}, pos, First', LastOne', Nexts', Prevs')
    BY <2>1, <2>9, <2>10, OrderedDrop
  <2>12. Ahead(pos)' /\ IsFiniteSet(OnList')
    BY <1>8, <1>9, <2>1, FS_RemoveElement DEF IInv, Linked
  <2>. QED
    BY <1>8, <2>11, <2>12 DEF Linked
<1>11. Watchers'
  <2>1. at'[t] = "freeWatch" /\ at'[t] \in Taking \cup {"freeConn"} /\ at[t] # "freeWatch"
    BY <1>1, <1>6 DEF Taking
  <2>2. \A v \in OnList' : node'[v].filter
    <3>1. \A v \in OnList : v \in Watcher /\ (node[v].filter \/ v = w)
      BY <1>2 DEF IInv, Lists, Watchers, OnList, Taking, w
    <3>. QED
      BY <1>5, <1>8, <3>1
  <2>. QED
    BY <1>2, <1>4, <1>6, <1>8, <2>1, <2>2, RmWatchers
<1>12. Removing'
  <2>1. wat'[t] = w /\ w = W(arg'[t]) /\ node'[w].st = "live" /\ ec'[arg'[t]].watch = w
    BY <1>2, <1>4, <1>5, <1>6 DEF w
  <2>. QED
    BY <1>2, <1>4, <1>6, <1>8, <2>1, RmOther DEF Removing
<1>. QED
  BY <1>9, <1>10, <1>11, <1>12 DEF IInv, Lists

LEMMA RmFreeKeeps ==
    ASSUME Apart, IInv, TypeOK', NEW t \in Thread, RmFree(t)
    PROVE  IInv'
<1>. DEFINE w == wat[t]
<1>1. at[t] = "freeWatch" /\ at[t] \in AfterClose /\ at[t] \in Removal /\ at[t] \in Taking
  BY DEF RmFree, AfterClose, Removal, Taking
<1>2. /\ w = W(arg[t]) /\ w \in Watcher /\ node[w].st = "live" /\ LiveNode(w) /\ arg[t] \in Client
      /\ ec[arg[t]].watch = w /\ w # NoOne
      /\ ~HalfIn /\ at["conn"] \notin Insertion
  <2>1. w = W(arg[t]) /\ node[w].st = "live" /\ ec[arg[t]].watch = w
    BY <1>1 DEF IInv, Lists, Removing
  <2>2. arg[t] \in Client /\ W(arg[t]) \in Watcher /\ ~HalfIn /\ at["conn"] \notin Insertion
    BY <1>1, RmContext
  <2>. QED
    BY <2>1, <2>2, OneWatcher DEF LiveNode
<1>3. /\ \A u \in Thread \ {t} : at[u] \notin Taking
      /\ HalfOut = NoOne /\ (\A v \in Watcher : Out(v) <=> v = w)
  <2>1. /\ \A u \in Thread \ {t} : at[u] \notin Taking
        /\ HalfOut = (IF at[t] = "unlinkNext" THEN wat[t] ELSE NoOne)
        /\ \A v \in Watcher : Out(v) <=> at[t] = "freeWatch" /\ wat[t] = v
    BY <1>1, <1>2, RmAlone
  <2>. QED
    BY <1>1, <2>1
<1>4. w \notin OnList /\ \A v \in OnList : v \in Watcher /\ v[1] \in Client
  BY <1>2, <1>3, OneWatcher DEF OnList
<1>5. /\ node' = Freed(node, w) /\ RmGoto(t, "freeConn")
      /\ UNCHANGED <<ec, head, tail, wat, sock, event>>
  BY <1>2 DEF RmFree, Freed
<1>. HIDE DEF w
<1>6. node' \in [Watcher -> watcher_t] /\ node'[w].st = "freed" /\ \A v \in Watcher \ {w} : node'[v] = node[v]
  <2>1. node \in [Watcher -> watcher_t]
    BY TypedMemory DEF IInv
  <2>. QED
    BY <1>2, <1>5, <2>1, WriteSt
<1>7. /\ at'[t] = "freeConn" /\ (\A u \in Thread \ {t} : at'[u] = at[u])
      /\ UNCHANGED <<arg, prv, crashed>>
  BY <1>5, TypedMemory DEF IInv, RmGoto, RmFrame, Goto
<1>8. at'["conn"] \notin Insertion
  BY <1>2, <1>7 DEF Insertion, Thread
<1>9. OnList' = OnList
  <2>1. \A v \in Watcher : ~Out(v)'
    BY <1>3, <1>7, <1>8 DEF Out, Thread, Taking
  <2>. QED
    BY <1>2, <1>3, <1>6, <2>1 DEF OnList
<1>10. ListKept
  <2>1. ~HalfIn' /\ HalfOut' = NoOne /\ at["conn"] # "pointers" /\ at'["conn"] # "pointers"
    BY <1>1, <1>2, <1>3, <1>7, <1>8 DEF HalfIn, HalfOut, Thread, Taking, Insertion
  <2>2. \A u \in OnList : node'[u] = node[u]
    BY <1>4, <1>6
  <2>. QED
    BY <1>2, <1>3, <1>5, <1>9, <2>1, <2>2 DEF ListKept, First, LastOne, Nexts, Prevs, Nx, OutAfter
<1>11. /\ Connections' /\ Requests' /\ Screens' /\ ~crashed' /\ Inserting' /\ Visiting'
       /\ \A pos \in [Watcher -> Int] : Ahead(pos) => Ahead(pos)'
  <2>1. "freeConn" \in AfterClose
    BY DEF AfterClose
  <2>2. \A v \in Watcher : \/ node'[v].st = node[v].st /\ node'[v].filter = node[v].filter
                           \/ v = W(arg[t]) /\ node[v].st = "live" /\ node'[v].st \in {"live", "freed"}
    BY <1>2, <1>6
  <2>. QED
    BY <1>1, <1>5, <1>9, <2>1, <2>2, RmKeeps
<1>12. Watchers'
  <2>1. \A v \in OnList' : node'[v].filter
    <3>1. \A v \in OnList : node[v].filter
      BY <1>1, <1>3 DEF IInv, Lists, Watchers, Taking
    <3>. QED
      BY <1>4, <1>6, <1>9, <3>1
  <2>. QED
    BY <1>1, <1>2, <1>3, <1>4, <1>5, <1>7, <1>9, <2>1, RmWatchers
<1>13. Removing'
  <2>1. W(arg'[t]) \notin OnList'
    BY <1>2, <1>4, <1>7, <1>9
  <2>. QED
    BY <1>3, <1>5, <1>7, <1>9, <2>1, RmOther DEF Removing
<1>. QED
  BY <1>10, <1>11, <1>12, <1>13, LinkedKept DEF IInv, Lists

LEMMA RmFreeConnKeeps ==
    ASSUME Apart, IInv, TypeOK', NEW t \in Thread, RmFreeConn(t)
    PROVE  IInv'
<1>. DEFINE c == arg[t]
<1>1. at[t] = "freeConn" /\ at[t] \in AfterClose /\ at[t] \in Removal
  BY DEF RmFreeConn, AfterClose, Removal
<1>2. /\ c \in Client /\ ec[c].st = "live" /\ LiveConn(c) /\ W(c) \in Watcher
      /\ \A u \in Thread \ {t} : at[u] \in Removal => arg[u] # c
      /\ \A e \in batch : e[1] # c
      /\ t = "disp" => (at["conn"] \in ConnWork => arg["conn"] # c)
      /\ ~HalfIn /\ at["conn"] \notin Insertion
      /\ W(c) \notin OnList
  BY <1>1, RmContext DEF IInv, Lists, Removing
<1>3. /\ ec' = [ec EXCEPT ![c] = [None EXCEPT !.st = "freed"]] /\ RmFrame
      /\ \/ t = "conn" /\ Goto(t, "loop") /\ UNCHANGED <<pnode, saved>>
         \/ /\ t = "disp" /\ pnode' = saved /\ saved' = NoOne
            /\ Goto(t, IF saved = NoOne THEN "idle" ELSE "next")
      /\ UNCHANGED <<node, head, tail, wat, sock, event>>
  BY <1>2 DEF RmFreeConn, RmGoto, Thread
<1>. HIDE DEF c
<1>4. /\ DOMAIN at' = Thread /\ \A u \in Thread \ {t} : at'[u] = at[u]
      /\ t = "conn" => at'[t] = "loop" /\ UNCHANGED <<pnode, saved>>
      /\ t = "disp" => at'[t] = (IF saved = NoOne THEN "idle" ELSE "next") /\ pnode' = saved /\ saved' = NoOne
  BY <1>3, TypedMemory DEF IInv, Goto
<1>5. ec'[c].st = "freed" /\ ec'[c].watch = NoOne /\ \A d \in Client \ {c} : ec'[d] = ec[d]
  <2>1. ec'[c] = [None EXCEPT !.st = "freed"]
    BY <1>2, <1>3, TypedMemory DEF IInv
  <2>. QED
    BY <1>3, <2>1 DEF None
<1>6. UNCHANGED <<clients, unread, screen, crashed, arg, batch, line, prv, fd, owed>>
  BY <1>3 DEF RmFrame
<1>7. /\ at'[t] \in {"loop", "idle", "next"} /\ {"loop", "idle", "next"} \cap (ConnWork \cup Visit \cup Removal) = {}
      /\ AfterClose \subseteq Removal /\ Removal \subseteq ConnWork
      /\ "loop" \notin {"idle", "next"}
  BY <1>4 DEF Thread, ConnWork, Insertion, Removal, AfterClose, Visit
<1>8. /\ at'["conn"] \in ConnWork => t = "disp" /\ at'["conn"] = at["conn"] /\ arg["conn"] # c /\ arg["conn"] \in Client
      /\ at'["conn"] \notin Insertion
      /\ \A u \in Thread : at'[u] \in Removal => u # t /\ at'[u] = at[u] /\ arg[u] # c /\ arg[u] \in Client
  <2>1. at'["conn"] \in ConnWork => t = "disp" /\ at'["conn"] = at["conn"] /\ arg["conn"] # c /\ arg["conn"] \in Client
    BY <1>2, <1>4, <1>7 DEF Thread, IInv, Connections, Working
  <2>2. at'["conn"] \notin Insertion
    BY <1>2, <2>1 DEF ConnWork
  <2>3. \A u \in Thread : at'[u] \in Removal => u # t /\ at'[u] = at[u] /\ arg[u] # c
    BY <1>2, <1>4, <1>7
  <2>4. \A u \in Thread : at[u] \in Removal => arg[u] \in Client
    BY <1>7 DEF IInv, Connections, Working, Thread
  <2>. QED
    BY <2>1, <2>2, <2>3, <2>4
<1>9. Connections'
  <2>1. Placed' /\ Working'
    <3>1. at'["conn"] \in {"loop", "accept"} \cup ConnWork
      BY <1>4, <1>7 DEF IInv, Connections, Placed, Thread
    <3>2. at'["disp"] \in {"idle", "next"} \cup Visit \cup Removal
      BY <1>4, <1>7 DEF IInv, Connections, Placed, Thread
    <3>3. Working'
      BY <1>5, <1>6, <1>8 DEF IInv, Connections, Working, Thread
    <3>. QED
      BY <3>1, <3>2, <3>3 DEF Placed
  <2>2. Waiting'
    <3>1. backlog \in Seq(Client)
      BY DEF IInv, TypeOK
    <3>2. \A i \in 1..Len(backlog) : backlog[i] \in Client /\ ec[backlog[i]].st = "none"
      BY <3>1 DEF IInv, Connections, Waiting
    <3>3. \A i \in 1..Len(backlog) : ec'[backlog[i]] = ec[backlog[i]]
      BY <1>2, <1>5, <3>2
    <3>. QED
      BY <1>6, <3>2, <3>3 DEF IInv, Connections, Waiting, clients
  <2>3. Events'
    <3>1. \A e \in batch : e[1] # NoOne => ec[e[1]].st = "live" /\ e[1] # c /\ e[1] \in Client
      BY <1>2 DEF IInv, TypeOK, Connections, Events
    <3>. QED
      BY <1>5, <1>6, <1>8, <3>1 DEF IInv, Connections, Events
  <2>4. Sockets'
    <3>1. \A d \in Client : (Closing(d))' <=> Closing(d) /\ d # c
      BY <1>1, <1>4, <1>6, <1>7, <1>8 DEF Closing, c
    <3>2. Closing(c)
      BY <1>1 DEF Closing, c
    <3>3. \A g \in Fd : sock[g] # NoOne => sock[g] \in Client /\ sock[g] # c /\ ~Closing(sock[g])
                                           /\ ec[sock[g]].st = "live" /\ ec[sock[g]].fd = g
      BY <3>2, TypedMemory DEF IInv, Connections, Sockets
    <3>4. \A g \in Fd : sock'[g] # NoOne => ec'[sock'[g]].st = "live" /\ ec'[sock'[g]].fd = g /\ ~(Closing(sock[g]))'
      BY <1>3, <1>5, <3>1, <3>3
    <3>5. \A d \in Client : ec'[d].st = "live" => ec'[d].fd \in Fd /\ (sock[ec'[d].fd] = d \/ (Closing(d))')
      BY <1>5, <3>1 DEF IInv, Connections, Sockets
    <3>6. \A u \in Thread : \A g \in Fd : at'[u] \in AfterClose /\ arg'[u] = sock[g] /\ sock[g] # NoOne => FALSE
      BY <3>4, <1>3 DEF Closing
    <3>. QED
      BY <1>3, <3>4, <3>5, <3>6 DEF IInv, Connections, Sockets, Registered, Closing
  <2>. QED
    BY <2>1, <2>2, <2>3, <2>4 DEF Connections
<1>10. ListKept
  <2>1. at[t] \notin Mid /\ at'[t] \notin Mid
    BY <1>1, <1>7 DEF Mid, Insertion
  <2>. QED
    BY <1>3, <1>4, <1>6, <2>1, ListSteady, TypedMemory DEF IInv
<1>11. OnList' = OnList
  BY <1>10 DEF ListKept
<1>12. \A v \in OnList : v[1] \in Client \ {c} /\ v \in Watcher
  <2>1. \A v \in OnList : v \in Watcher /\ v[1] \in Client /\ node[v].st # "none"
    BY OneWatcher DEF OnList
  <2>2. \A v \in OnList : v = W(v[1])
    BY <2>1 DEF IInv, Requests
  <2>. QED
    BY <1>2, <2>1, <2>2
<1>13. Visiting' /\ \A pos \in [Watcher -> Int] : Ahead(pos) => Ahead(pos)'
  <2>1. CASE t = "conn"
    <3>1. at'["disp"] = at["disp"] /\ UNCHANGED disp
      BY <1>4, <1>6, <2>1 DEF Thread, disp
    <3>2. \A v \in OnList : ec'[v[1]].fd = ec[v[1]].fd
      BY <1>5, <1>12
    <3>. QED
      BY <1>2, <1>6, <1>11, <3>1, <3>2, WalkKept
  <2>2. CASE t = "disp"
    <3>1. at["disp"] \in Removal /\ at["disp"] \notin {"idle", "next"} \cup Visit
      BY <1>1, <2>2 DEF Visit
    <3>2. saved \in OnList \cup {NoOne} /\ line # 0
      BY <1>2, <3>1 DEF IInv, Lists, Visiting
    <3>3. /\ at'["disp"] \in {"idle", "next"} /\ (at'["disp"] = "next" => saved # NoOne)
          /\ pnode' = saved /\ saved' = NoOne /\ line' = line
      BY <1>4, <1>6, <2>2
    <3>4. Visiting'
      BY <1>7, <1>11, <3>2, <3>3 DEF Visiting, Visit
    <3>5. ToCome = saved /\ (at'["disp"] # "idle" => ToCome' = saved)
      BY <3>1, <3>3 DEF ToCome
    <3>6. at["disp"] # "idle" /\ at'["disp"] \notin Visit
      BY <3>1, <3>3 DEF Visit
    <3>. QED
      BY <1>6, <1>11, <3>3, <3>4, <3>5, <3>6 DEF Ahead
  <2>. QED
    BY <2>1, <2>2 DEF Thread
<1>14. Requests'
  <2>1. \A d \in Client : Handling(d)' => Handling(d)
    BY <1>6, <1>8 DEF Handling, ConnWork
  <2>. QED
    BY <1>3, <1>6, <2>1 DEF IInv, Requests, clients
<1>15. Screens'
  <2>1. at["conn"] \in Removal /\ arg["conn"] # c => at'["conn"] \in Removal
    BY <1>4 DEF Thread, c
  <2>2. {"answer", "malloc"} \subseteq ConnWork
    BY DEF ConnWork
  <2>. QED
    BY <1>3, <1>5, <1>6, <1>8, <2>1, <2>2 DEF IInv, Screens, clients
<1>16. Watchers'
  <2>1. \A d \in Client : ec'[d].watch \in {NoOne, W(d)} /\ (ec'[d].st # "live" => ec'[d].watch = NoOne)
    BY <1>5 DEF IInv, Lists, Watchers
  <2>2. ASSUME NEW d \in Client, ec'[d].watch # NoOne
        PROVE  W(d) \in OnList' \/ \E u \in Thread : at'[u] \in {"freeWatch", "freeConn"} /\ arg'[u] = d
    <3>1. d # c /\ ec[d].watch # NoOne
      BY <1>5, <2>2
    <3>2. ASSUME NEW u \in Thread, at[u] \in {"freeWatch", "freeConn"}, arg[u] = d
          PROVE  at'[u] = at[u] /\ arg'[u] = d
      BY <1>4, <1>6, <3>1, <3>2 DEF c
    <3>. QED
      BY <1>11, <3>1, <3>2 DEF IInv, Lists, Watchers
  <2>3. \A v \in OnList : /\ ec'[v[1]].st = "live"
                          /\ ec'[v[1]].watch = v \/ (at'["conn"] = "attach" /\ wat'["conn"] = v)
    <3>1. at["conn"] = "attach" => at'["conn"] = "attach"
      BY <1>1, <1>4 DEF Thread
    <3>. QED
      BY <1>3, <1>5, <1>12, <3>1 DEF IInv, Lists, Watchers
  <2>4. \A v \in OnList : node'[v].filter \/
          \E u \in Thread : at'[u] \in {"unlinkPrev", "unlinkNext"} /\ wat'[u] = v
    <3>1. \A u \in Thread : at[u] \in {"unlinkPrev", "unlinkNext"} => at'[u] = at[u]
      BY <1>1, <1>4
    <3>. QED
      BY <1>3, <3>1 DEF IInv, Lists, Watchers
  <2>. QED
    BY <1>11, <2>1, <2>2, <2>3, <2>4 DEF Watchers
<1>17. Inserting' /\ Removing'
  <2>1. Inserting'
    <3>1. at'["conn"] \in {"answer", "malloc", "attach"} =>
            at["conn"] = at'["conn"] /\ ec'[arg["conn"]] = ec[arg["conn"]]
      BY <1>5, <1>8 DEF ConnWork
    <3>. QED
      BY <1>3, <1>6, <1>8, <3>1 DEF IInv, Lists, Inserting, Insertion
  <2>2. \A u \in Thread : at'[u] \in Removal => at'[u] = at[u] /\ ec'[arg[u]] = ec[arg[u]]
    BY <1>5, <1>8
  <2>3. {"cleanFilter", "unlinkPrev", "unlinkNext", "freeWatch", "freeConn"} \subseteq Removal
    BY DEF Removal, AfterClose
  <2>4. Removing'
    <3>1. Removing /\ UNCHANGED <<node, head, wat, arg>>
      BY <1>3, <1>6 DEF IInv, Lists
    <3>. QED
      BY <1>11, <2>2, <2>3, <3>1 DEF Removing
  <2>. QED
    BY <2>1, <2>4
<1>. QED
  BY <1>6, <1>9, <1>10, <1>13, <1>14, <1>15, <1>16, <1>17, LinkedKept DEF IInv, Lists

LEMMA RemoveKeeps ==
    ASSUME Apart, IInv, Moved, TypeOK', NEW t \in Thread, RemoveClient(t)
    PROVE  IInv'
  BY RmCloseKeeps, RmFilterKeeps, RmPrevKeeps, RmNextKeeps, RmFreeKeeps, RmFreeConnKeeps DEF RemoveClient


----------------------------------------------------------------------------
(***************************************************************************)
(* The dispatch thread.                                                    *)
(***************************************************************************)

(* Its steps, but for its removals, leave connections and list alone.       *)
LEMMA DispKeeps ==
    ASSUME IInv, at["disp"] \notin Removal, DispFrame, DOMAIN at' = Thread,
           at'["conn"] = at["conn"], arg'["conn"] = arg["conn"],
           at'["disp"] \in {"idle", "next", "close"} \cup Visit,
           at'["disp"] = "close" => arg'["disp"] \in Client /\ ec[arg'["disp"]].st = "live"
    PROVE  /\ ~crashed' /\ Connections' /\ Requests' /\ ListKept /\ OnList' = OnList
           /\ Watchers' /\ Inserting' /\ Removing'
<1>1. /\ UNCHANGED <<clients, unread, sock, event, knock, ec, node, head, tail, crashed, wat, batch, prv, nxt>>
      /\ UNCHANGED <<backlog, gone, asked>>
  BY DEF DispFrame, memory, conn, clients
<1>2. /\ at["disp"] \notin AfterClose \cup Mid \cup Taking /\ at'["disp"] \notin AfterClose \cup Mid \cup Taking
      /\ at["disp"] \notin {"attach", "freeConn"} /\ at'["disp"] \notin {"attach", "freeConn"}
      /\ at'["disp"] \in {"idle", "next"} \cup Visit \cup Removal
  BY DEF IInv, Connections, Placed, Visit, Removal, AfterClose, Mid, Insertion, Taking
<1>3. ListKept
  <2>1. "disp" \in Thread /\ \A u \in Thread \ {"disp"} : at'[u] = at[u] /\ wat'[u] = wat[u]
    BY <1>1 DEF Thread
  <2>. QED
    BY <1>1, <1>2, <2>1, ListSteady, TypedMemory DEF IInv
<1>4. OnList' = OnList
  BY <1>3 DEF ListKept
<1>5. Connections'
  <2>1. Placed'
    BY <1>2 DEF IInv, Connections, Placed
  <2>2. Working'
    BY <1>1, <1>2 DEF IInv, Connections, Working, Removal, Visit
  <2>3. \A d : Closing(d)' <=> Closing(d)
    BY <1>2 DEF Closing, Thread
  <2>4. Sockets'
    BY <1>1, <2>3 DEF IInv, Connections, Sockets, Registered
  <2>5. Waiting' /\ Events'
    BY <1>1 DEF IInv, Connections, Waiting, Events
  <2>. QED
    BY <2>1, <2>2, <2>4, <2>5 DEF Connections
<1>6. Requests'
  BY <1>1 DEF IInv, Requests, Handling
<1>7. Watchers'
  BY <1>1, <1>2, <1>4 DEF IInv, Lists, Watchers, Thread, Taking
<1>8. Inserting'
  BY <1>1, <1>4 DEF IInv, Lists, Inserting
<1>9. Removing'
  BY <1>1, <1>2, <1>4 DEF IInv, Lists, Removing, Thread, Taking
<1>. QED
  BY <1>1, <1>3, <1>4, <1>5, <1>6, <1>7, <1>8, <1>9 DEF IInv

(* The watcher the walk is at: nobody takes it off.                         *)
LEMMA WalkContext ==
    ASSUME Apart, IInv, at["disp"] \in {"next"} \cup Visit
    PROVE  /\ at["disp"] \notin Removal /\ pnode \in OnList /\ pnode \in Watcher
           /\ LiveNode(pnode) /\ node[pnode].filter
           /\ pnode = W(pnode[1]) /\ pnode[1] \in Client /\ LiveConn(pnode[1])
           /\ ec[pnode[1]].fd \in Fd /\ sock[ec[pnode[1]].fd] = pnode[1]
           /\ pnode # NoOne /\ pnode # Junk
           /\ ~(at["conn"] \in Insertion /\ wat["conn"] = pnode)
           /\ at["conn"] \in AfterClose => arg["conn"] # pnode[1]
           /\ at["conn"] = "unlinkNext" => wat["conn"] # pnode /\ wat["conn"] # saved
<1>1. at["disp"] \notin Removal /\ at["disp"] \notin AfterClose /\ at["disp"] # "attach" /\ pnode \in OnList
  BY DEF IInv, Lists, Visiting, Visit, Removal, AfterClose
<1>2. /\ pnode \in Watcher /\ LiveNode(pnode) /\ pnode[1] \in Client /\ pnode # NoOne /\ pnode # Junk
      /\ node[pnode].st = "live" /\ ~Out(pnode)
  BY <1>1, OneWatcher DEF OnList, LiveNode
<1>3. pnode = W(pnode[1])
  BY <1>2 DEF IInv, Requests
<1>4. ~(at["conn"] \in Insertion /\ wat["conn"] = pnode)
  BY <1>2 DEF Out
<1>5. ~(TakesOff /\ ec[arg["conn"]].watch \in {pnode, saved})
  BY DEF Apart, Clash
<1>6. at["conn"] \in {"unlinkPrev", "unlinkNext"} => wat["conn"] \notin {pnode, saved}
  BY <1>5, OneWatcher DEF TakesOff, IInv, Lists, Removing, OnList, Removal, AfterClose
<1>7. at["conn"] \in AfterClose => arg["conn"] # pnode[1]
  <2>1. SUFFICES ASSUME at["conn"] \in AfterClose, arg["conn"] = pnode[1] PROVE FALSE
    OBVIOUS
  <2>2. CASE at["conn"] = "freeConn"
    BY <1>1, <1>3, <2>1, <2>2, OneWatcher DEF IInv, Lists, Removing
  <2>3. CASE at["conn"] # "freeConn"
    <3>1. ec[arg["conn"]].watch = W(arg["conn"])
      BY <2>1, <2>3, OneWatcher DEF IInv, Lists, Removing, AfterClose
    <3>2. TakesOff
      BY <1>2, <1>3, <2>1, <2>3, <3>1 DEF TakesOff, Removal
    <3>. QED
      BY <1>3, <1>5, <2>1, <3>1, <3>2
  <2>. QED
    BY <2>2, <2>3
<1>8. ec[pnode[1]].st = "live" /\ node[pnode].filter
  <2>1. \A t \in Thread : at[t] \in {"unlinkPrev", "unlinkNext"} => wat[t] # pnode
    BY <1>1, <1>6 DEF Thread, AfterClose
  <2>. QED
    BY <1>1, <2>1 DEF IInv, Lists, Watchers
<1>9. ~Closing(pnode[1])
  BY <1>1, <1>7 DEF Closing, Thread
<1>10. ec[pnode[1]].fd \in Fd /\ sock[ec[pnode[1]].fd] = pnode[1]
  BY <1>2, <1>8, <1>9 DEF IInv, Connections, Sockets
<1>. QED
  BY <1>1, <1>2, <1>3, <1>4, <1>6, <1>7, <1>8, <1>10, OneWatcher DEF LiveConn

LEMMA SamePlace ==
    ASSUME IInv, NEW label, Goto("disp", label)
    PROVE  at'["disp"] = label /\ at'["conn"] = at["conn"] /\ DOMAIN at' = Thread
<1>1. DOMAIN at = Thread /\ {"conn", "disp"} = Thread
  BY TypedMemory DEF Thread, IInv
<1>. QED
  BY <1>1 DEF Goto

(* What the walk finds at the head of the list: a watcher on it, unless one *)
(* is just going on as the first.                                           *)
LEMMA HeadFound ==
    ASSUME IInv, at["disp"] = "idle", ~(HalfIn /\ prv = NoOne)
    PROVE  head \in OnList \cup {NoOne}
<1>1. CASE ~OutAfter(NoOne)
  <2>1. head = First
    BY <1>1 DEF First
  <2>. QED
    BY <2>1 DEF IInv, Linked, Ordered
<1>2. CASE OutAfter(NoOne)
  <2>. DEFINE h == wat["conn"]
  <2>1. at["conn"] = "unlinkNext" /\ HalfOut = h /\ node[h].prev = NoOne
    BY <1>2 DEF OutAfter, HalfOut
  <2>2. h \in OnList /\ head = node[h].next
    BY <2>1, OneWatcher DEF IInv, Lists, Removing
  <2>3. ~HalfIn
    BY <2>1 DEF HalfIn
  <2>. HIDE DEF h
  <2>. QED
    BY <2>1, <2>2, <2>3, Neighbours
<1>. QED
  BY <1>1, <1>2

(* The next watcher as the walk reads it: one further on in the list, or    *)
(* the one that is just going on at its end.                                *)
LEMMA NextFound ==
    ASSUME Apart, IInv, at["disp"] = "next", NEW pos \in [Watcher -> Int],
           Ordered(OnList, pos, First, LastOne, Nexts, Prevs)
    PROVE  LET x == node[pnode].next IN
           \/ x = NoOne
           \/ x \in OnList /\ pos[pnode] < pos[x]
           \/ HalfIn /\ x = wat["conn"] /\ x \in Watcher /\ x \notin OnList
<1>1. pnode \in OnList /\ pnode # NoOne
  BY WalkContext
<1>2. \A u \in OnList : /\ pos[u] \in Int
                        /\ Nx(u) = NoOne \/ (Nx(u) \in OnList /\ pos[u] < pos[Nx(u)])
  BY DEF Ordered, Adjacent, Nexts, OnList
<1>3. CASE HalfIn /\ prv = pnode
  <2>1. node[pnode].next = wat["conn"] /\ wat["conn"] = W(arg["conn"]) /\ arg["conn"] \in Client
    BY <1>1, <1>3 DEF IInv, Lists, Inserting, HalfIn, Insertion, Connections, Working, ConnWork
  <2>2. wat["conn"] \notin OnList
    BY <1>3 DEF OnList, Out, HalfIn, Insertion
  <2>. QED
    BY <1>3, <2>1, <2>2, OneWatcher
<1>4. CASE OutAfter(pnode)
  <2>. DEFINE h == wat["conn"]
  <2>1. at["conn"] = "unlinkNext" /\ HalfOut = h /\ node[h].prev = pnode
    BY <1>4 DEF OutAfter, HalfOut
  <2>2. h \in OnList /\ node[pnode].next = node[h].next
    BY <1>1, <2>1, OneWatcher DEF IInv, Lists, Removing
  <2>3. ~HalfIn
    BY <2>1 DEF HalfIn
  <2>. HIDE DEF h
  <2>4. Nx(pnode) = h /\ Nx(h) = node[h].next /\ h # NoOne
    BY <1>1, <2>1, <2>2, <2>3, Neighbours
  <2>5. pos[pnode] < pos[h] /\ (Nx(h) = NoOne \/ (Nx(h) \in OnList /\ pos[h] < pos[Nx(h)]))
    BY <1>1, <1>2, <2>2, <2>4
  <2>6. Nx(h) # NoOne => {pos[pnode], pos[h], pos[Nx(h)]} \subseteq Int
    BY <1>1, <1>2, <2>2, <2>5
  <2>. QED
    BY <2>2, <2>4, <2>5, <2>6
<1>5. CASE ~(HalfIn /\ prv = pnode) /\ ~OutAfter(pnode)
  <2>1. Nx(pnode) = node[pnode].next
    BY <1>5 DEF Nx
  <2>. QED
    BY <1>1, <1>2, <2>1
<1>. QED
  BY <1>3, <1>4, <1>5

LEMMA GetLineKeeps ==
    ASSUME Apart, Apart', IInv, TypeOK', GetLine
    PROVE  IInv'
<1>1. at["disp"] = "idle" /\ line < LastLine
  BY DEF GetLine, Walking
<1>2. /\ line' = line + 1 /\ pnode' = head
      /\ at'["disp"] = (IF head = NoOne THEN "idle" ELSE "next") /\ at'["conn"] = at["conn"]
      /\ DOMAIN at' = Thread /\ UNCHANGED <<screen, saved, fd, arg>> /\ DispFrame
  <2>1. Goto("disp", IF head = NoOne THEN "idle" ELSE "next")
    BY DEF GetLine
  <2>. QED
    BY <2>1, SamePlace DEF GetLine
<1>3. head \in OnList \cup {NoOne}
  <2>1. ~(HalfIn /\ prv = NoOne)
    <3>1. SUFFICES ASSUME HalfIn, prv = NoOne PROVE FALSE
      OBVIOUS
    <3>2. at["conn"] \in Insertion /\ head = wat["conn"]
      BY <3>1 DEF IInv, Lists, Inserting, HalfIn, Insertion
    <3>3. at'["conn"] \in Insertion /\ pnode' = wat'["conn"]
      BY <1>2, <3>2 DEF DispFrame
    <3>. QED
      BY <3>3 DEF Apart, Clash
  <2>. QED
    BY <1>1, <2>1, HeadFound
<1>4. line \in 0..LastLine /\ line \in Nat /\ line' \in Nat /\ line' # 0
  BY <1>1, <1>2, RegistryAssumption DEF IInv, TypeOK
<1>5. /\ ~crashed' /\ Connections' /\ Requests' /\ ListKept /\ OnList' = OnList
      /\ Watchers' /\ Inserting' /\ Removing'
  <2>1. at["disp"] \notin Removal /\ at'["disp"] \in {"idle", "next", "close"} \cup Visit /\ at'["disp"] # "close"
    BY <1>1, <1>2 DEF Removal, AfterClose
  <2>. QED
    BY <1>2, <2>1, DispKeeps
<1>6. at'["disp"] \notin Visit \cup Removal
  BY <1>2 DEF Visit, Removal, AfterClose
<1>7. Visiting'
  BY <1>2, <1>3, <1>4, <1>5, <1>6 DEF Visiting, Visit
<1>8. \A c \in Client : ~In(line', screen'[c])
  <2>1. line' \notin {Ack, Nack} \cup (1..line)
    <3>1. line' \notin {Ack, Nack}
      BY <1>4, RegistryAssumption
    <3>. QED
      BY <1>2, <1>4, <3>1
  <2>. QED
    BY <1>2, <2>1 DEF In, IInv, Screens
<1>9. \A pos \in [Watcher -> Int] : Ahead(pos)'
  <2>1. \A u \in OnList : ~In(line', screen'[u[1]])
    BY <1>8, OneWatcher DEF OnList
  <2>. QED
    BY <1>5, <1>6, <2>1 DEF Ahead
<1>10. Screens'
  <2>1. UNCHANGED <<ec, node, asked, unread, gone, screen, arg, wat>> /\ at'["conn"] = at["conn"]
    BY <1>2 DEF DispFrame, memory, clients
  <2>2. \A x : x \in {Ack, Nack} \cup (1..line) => x \in {Ack, Nack} \cup (1..line')
    BY <1>2, <1>4
  <2>. QED
    BY <2>1, <2>2 DEF IInv, Screens
<1>. QED
  BY <1>5, <1>7, <1>9, <1>10, LinkedKept DEF IInv, Lists

LEMMA ReadNextKeeps ==
    ASSUME Apart, IInv, TypeOK', ReadNext
    PROVE  IInv'
<1>1. at["disp"] = "next"
  BY DEF ReadNext
<1>2. at["disp"] \notin Removal /\ pnode \in OnList /\ LiveNode(pnode)
  BY <1>1, WalkContext
<1>3. PICK pos \in [Watcher -> Int] : Ordered(OnList, pos, First, LastOne, Nexts, Prevs) /\ Ahead(pos)
  BY DEF IInv, Linked
<1>. DEFINE x == node[pnode].next
<1>4. \/ x = NoOne
      \/ x \in OnList /\ pos[pnode] < pos[x]
      \/ HalfIn /\ x = wat["conn"] /\ x \in Watcher /\ x \notin OnList
  BY <1>1, <1>3, NextFound
<1>5. /\ saved' = x /\ Goto("disp", "fd")
      /\ UNCHANGED <<screen, line, pnode, fd, owed, arg>> /\ DispFrame
  <2>1. x # Junk
    BY <1>4, OneWatcher DEF OnList
  <2>. QED
    BY <1>2, <2>1 DEF ReadNext
<1>. HIDE DEF x
<1>6. at'["disp"] = "fd" /\ at'["conn"] = at["conn"] /\ DOMAIN at' = Thread
  BY <1>5, SamePlace
<1>7. /\ ~crashed' /\ Connections' /\ Requests' /\ ListKept /\ OnList' = OnList
      /\ Watchers' /\ Inserting' /\ Removing'
  BY <1>2, <1>5, <1>6, DispKeeps DEF Visit
<1>8. Visiting'
  <2>1. HalfIn' = HalfIn /\ wat' = wat
    BY <1>5, <1>6 DEF HalfIn, DispFrame
  <2>2. saved' \in OnList' \cup {NoOne} \/ (HalfIn' /\ saved' = wat'["conn"])
    BY <1>4, <1>5, <1>7, <2>1
  <2>3. pnode' \in OnList' /\ line' # 0
    BY <1>1, <1>2, <1>5, <1>7 DEF IInv, Lists, Visiting
  <2>. QED
    BY <1>6, <2>2, <2>3 DEF Visiting
<1>9. Ahead(pos)'
  <2>1. /\ at'["disp"] \in Visit /\ ToCome' = pnode /\ ToCome = pnode
    BY <1>1, <1>5, <1>6 DEF Visit, ToCome
  <2>2. saved' \in OnList' => pos[pnode'] < pos[saved']
    BY <1>4, <1>5, <1>7, OneWatcher DEF OnList
  <2>3. pnode \in OnList => \A u \in OnList : In(line, screen[u[1]]) => pos[u] < pos[pnode]
    BY <1>1, <1>3, <2>1 DEF Ahead
  <2>. QED
    BY <1>5, <1>7, <2>1, <2>2, <2>3 DEF Ahead
<1>10. Linked'
  BY <1>3, <1>7, <1>9 DEF IInv, Linked, ListKept
<1>11. Screens'
  BY <1>5, <1>6 DEF IInv, Screens, DispFrame, memory, clients
<1>. QED
  BY <1>7, <1>8, <1>10, <1>11 DEF IInv, Lists

LEMMA ReadFdKeeps ==
    ASSUME Apart, IInv, TypeOK', ReadFd
    PROVE  IInv'
<1>1. at["disp"] = "fd" /\ at["disp"] \in Visit
  BY DEF ReadFd, Visit
<1>2. at["disp"] \notin Removal /\ pnode \in OnList /\ LiveNode(pnode) /\ LiveConn(pnode[1])
  BY <1>1, WalkContext
<1>3. /\ fd' = ec[pnode[1]].fd /\ Goto("disp", "filter")
      /\ UNCHANGED <<screen, line, pnode, saved, owed, arg>> /\ DispFrame
  BY <1>2 DEF ReadFd
<1>4. at'["disp"] = "filter" /\ at'["conn"] = at["conn"] /\ DOMAIN at' = Thread
  BY <1>3, SamePlace
<1>5. /\ ~crashed' /\ Connections' /\ Requests' /\ ListKept /\ OnList' = OnList
      /\ Watchers' /\ Inserting' /\ Removing'
  BY <1>2, <1>3, <1>4, DispKeeps DEF Visit
<1>6. Visiting'
  BY <1>1, <1>3, <1>4, <1>5 DEF IInv, Lists, Visiting, Visit, DispFrame, memory, HalfIn
<1>7. \A pos \in [Watcher -> Int] : Ahead(pos) => Ahead(pos)'
  BY <1>1, <1>3, <1>4, <1>5 DEF Ahead, Visit, ToCome
<1>8. Screens'
  BY <1>3, <1>4 DEF IInv, Screens, DispFrame, memory, clients
<1>. QED
  BY <1>5, <1>6, <1>7, <1>8, LinkedKept DEF IInv, Lists

(* On to the watcher that was read as the next one.                         *)
LEMMA AdvanceKeeps ==
    ASSUME Apart, Apart', IInv, TypeOK', at["disp"] \in {"filter", "send"}, Advance,
           UNCHANGED <<line, owed, arg>>, DispFrame,
           \A d \in Client \ {pnode[1]} : screen'[d] = screen[d],
           \A y : In(y, screen[pnode[1]]) => In(y, screen'[pnode[1]]),
           \A y : In(y, screen'[pnode[1]]) => In(y, screen[pnode[1]]) \/ y = line
    PROVE  IInv'
<1>1. at["disp"] \in Visit
  BY DEF Visit
<1>2. /\ at["disp"] \notin Removal /\ pnode \in OnList /\ pnode \in Watcher /\ pnode = W(pnode[1])
      /\ pnode[1] \in Client /\ node[pnode].st = "live" /\ ~(at["conn"] \in Insertion /\ wat["conn"] = pnode)
  BY <1>1, WalkContext DEF LiveNode
<1>3. /\ pnode' = saved /\ saved' = NoOne /\ fd' = NoOne
      /\ at'["disp"] = (IF saved = NoOne THEN "idle" ELSE "next") /\ at'["conn"] = at["conn"] /\ DOMAIN at' = Thread
  BY SamePlace DEF Advance
<1>4. saved \in OnList \cup {NoOne} /\ line # 0
  <2>1. (saved \in OnList \cup {NoOne} \/ (HalfIn /\ saved = wat["conn"])) /\ line # 0
    BY <1>1 DEF IInv, Lists, Visiting, Visit
  <2>2. ~(HalfIn /\ saved = wat["conn"])
    BY <1>3 DEF Apart, Clash, HalfIn, Insertion, DispFrame
  <2>. QED
    BY <2>1, <2>2
<1>5. /\ ~crashed' /\ Connections' /\ Requests' /\ ListKept /\ OnList' = OnList
      /\ Watchers' /\ Inserting' /\ Removing'
  <2>1. at'["disp"] \in {"idle", "next", "close"} \cup Visit /\ at'["disp"] # "close"
    BY <1>3
  <2>. QED
    BY <1>2, <1>3, <2>1, DispKeeps
<1>6. at'["disp"] \notin Visit \cup Removal
  BY <1>3 DEF Visit, Removal, AfterClose
<1>7. Visiting'
  <2>1. at'["disp"] \in {"next"} \cup Visit => pnode' \in OnList'
    BY <1>3, <1>4, <1>5, <1>6
  <2>. QED
    BY <1>4, <1>6, <2>1 DEF Visiting, Visit
<1>8. ASSUME NEW pos \in [Watcher -> Int], Ahead(pos) PROVE Ahead(pos)'
  <2>1. saved = NoOne \/ (saved \in OnList /\ pos[pnode] < pos[saved])
    BY <1>1, <1>4, <1>8 DEF Ahead
  <2>2. ASSUME NEW u \in OnList, In(line, screen'[u[1]])
        PROVE  saved = NoOne \/ pos[u] < pos[saved]
    <3>1. u \in Watcher /\ u = W(u[1]) /\ u[1] \in Client /\ pnode # NoOne
      BY <1>2, OneWatcher DEF OnList, IInv, Requests
    <3>2. CASE u[1] = pnode[1]
      BY <1>2, <2>1, <3>1, <3>2
    <3>3. CASE In(line, screen[u[1]])
      <4>1. pos[u] < pos[pnode]
        BY <1>1, <1>2, <1>8, <3>3 DEF Ahead, ToCome, Visit
      <4>2. saved # NoOne => {pos[u], pos[pnode], pos[saved]} \subseteq Int
        BY <1>2, <2>1, <3>1 DEF OnList
      <4>. QED
        BY <2>1, <4>1, <4>2
    <3>. QED
      BY <2>2, <3>1, <3>2, <3>3
  <2>3. at'["disp"] # "idle" => ToCome' = saved /\ saved # NoOne
    BY <1>3 DEF ToCome
  <2>. QED
    BY <1>5, <1>6, <2>2, <2>3 DEF Ahead
<1>9. Screens'
  <2>1. UNCHANGED <<ec, node, asked, unread, gone, arg, wat, line>> /\ at'["conn"] = at["conn"]
    BY <1>3 DEF DispFrame, memory, clients
  <2>2. line \in Nat /\ line # Ack /\ line # Nack /\ line \in 1..line
    <3>1. line \in Nat /\ line \in 1..line
      BY <1>4, RegistryAssumption DEF IInv, TypeOK
    <3>2. Ack \notin Nat /\ Nack \notin Nat
      BY RegistryAssumption
    <3>. QED
      BY <3>1, <3>2
  <2>3. \A d \in Client : /\ In(Ack, screen'[d]) <=> In(Ack, screen[d])
                          /\ In(Nack, screen'[d]) <=> In(Nack, screen[d])
    BY <2>2
  <2>4. \A d \in Client : \A i \in 1..Len(screen'[d]) : screen'[d][i] \in {Ack, Nack} \cup (1..line')
    <3>1. \A d \in Client : \A y : In(y, screen'[d]) => In(y, screen[d]) \/ y \in {Ack, Nack} \cup (1..line)
      BY <2>2
    <3>. QED
      BY <2>1, <3>1, OnlyThese
  <2>5. \A w \in Watcher : w[1] \in Client
    BY OneWatcher
  <2>6. ASSUME NEW c \in Client,
               node'[W(c)].st = "none" \/ (at'["conn"] \in Insertion /\ wat'["conn"] = W(c))
        PROVE  NoLine(screen'[c])
    <3>1. c # pnode[1]
      BY <1>2, <2>1, <2>6
    <3>2. screen'[c] = screen[c]
      BY <3>1
    <3>. QED
      BY <2>1, <2>6, <3>2 DEF IInv, Screens, NoLine
  <2>7. \A w \in Watcher : node'[w].st = "live" => In(Ack, screen'[w[1]]) \/ gone'[w[1]]
    BY <2>1, <2>3, <2>5 DEF IInv, Screens
  <2>8. at'["conn"] = "malloc" => In(Ack, screen'[arg'["conn"]]) \/ gone'[arg'["conn"]]
    BY <2>1, <2>3 DEF IInv, Screens, Connections, Working, ConnWork
  <2>9. \A c \in Client : In(Nack, screen'[c]) =>
          ec'[c].st = "freed" \/ (at'["conn"] \in Removal /\ arg'["conn"] = c)
    BY <2>1, <2>3 DEF IInv, Screens
  <2>10. \A c \in Client : In(Ack, screen'[c]) =>
          Good(asked'[c]) /\ ~Good(unread'[c]) /\ ~(at'["conn"] = "answer" /\ arg'["conn"] = c)
    BY <2>1, <2>3 DEF IInv, Screens
  <2>. QED
    BY <2>4, <2>6, <2>7, <2>8, <2>9, <2>10 DEF Screens
<1>. QED
  BY <1>5, <1>7, <1>8, <1>9, LinkedKept DEF IInv, Lists

LEMMA DoFilterKeeps ==
    ASSUME Apart, Apart', IInv, TypeOK', DoFilter
    PROVE  IInv'
<1>1. at["disp"] = "filter" /\ at["disp"] \in Visit
  BY DEF DoFilter, Visit
<1>2. at["disp"] \notin Removal /\ pnode \in OnList /\ LiveNode(pnode) /\ node[pnode].filter
  BY <1>1, WalkContext
<1>3. /\ \/ Matches(pnode[1], line) /\ Goto("disp", "send") /\ UNCHANGED <<pnode, saved, fd>>
         \/ Advance
      /\ UNCHANGED <<screen, line, owed, arg>> /\ DispFrame
  BY <1>2 DEF DoFilter, Accepts
<1>4. CASE Advance
  BY <1>1, <1>3, <1>4, AdvanceKeeps
<1>5. CASE Matches(pnode[1], line) /\ Goto("disp", "send") /\ UNCHANGED <<pnode, saved, fd>>
  <2>1. at'["disp"] = "send" /\ at'["conn"] = at["conn"] /\ DOMAIN at' = Thread
    BY <1>5, SamePlace
  <2>2. /\ ~crashed' /\ Connections' /\ Requests' /\ ListKept /\ OnList' = OnList
        /\ Watchers' /\ Inserting' /\ Removing'
    BY <1>2, <1>3, <2>1, DispKeeps DEF Visit
  <2>3. Visiting'
    <3>1. HalfIn' = HalfIn /\ UNCHANGED <<wat, ec, line>> /\ Matches(pnode, line)' = Matches(pnode, line)
      BY <1>3, <1>5, <2>1 DEF HalfIn, DispFrame, memory
    <3>. QED
      BY <1>1, <1>5, <2>1, <2>2, <3>1 DEF IInv, Lists, Visiting, Visit
  <2>4. \A pos \in [Watcher -> Int] : Ahead(pos) => Ahead(pos)'
    BY <1>1, <1>3, <1>5, <2>1, <2>2 DEF Ahead, Visit, ToCome
  <2>5. Screens'
    BY <1>3, <2>1 DEF IInv, Screens, DispFrame, memory, clients
  <2>. QED
    BY <2>2, <2>3, <2>4, <2>5, LinkedKept DEF IInv, Lists
<1>. QED
  BY <1>3, <1>4, <1>5

LEMMA SendContext ==
    ASSUME Apart, IInv, Send
    PROVE  /\ at["disp"] = "send" /\ at["disp"] \in Visit /\ at["disp"] \notin Removal
           /\ pnode \in OnList /\ pnode \in Watcher /\ LiveNode(pnode) /\ pnode = W(pnode[1])
           /\ pnode[1] \in Client /\ LiveConn(pnode[1])
           /\ fd = ec[pnode[1]].fd /\ fd \in Fd /\ sock[fd] = pnode[1]
           /\ line # 0 /\ Matches(pnode[1], line)
           /\ UNCHANGED <<line, owed>> /\ DispFrame
           /\ \/ Received(fd, line) /\ Advance /\ UNCHANGED arg
              \/ /\ arg' = [arg EXCEPT !["disp"] = pnode[1]] /\ fd' = NoOne
                 /\ Goto("disp", "close") /\ UNCHANGED <<screen, pnode, saved>>
<1>1. at["disp"] = "send" /\ at["disp"] \in Visit
  BY DEF Send, Visit
<1>2. /\ at["disp"] \notin Removal /\ pnode \in OnList /\ pnode \in Watcher /\ LiveNode(pnode)
      /\ pnode = W(pnode[1]) /\ pnode[1] \in Client /\ LiveConn(pnode[1])
      /\ ec[pnode[1]].fd \in Fd /\ sock[ec[pnode[1]].fd] = pnode[1]
  BY <1>1, WalkContext
<1>3. fd = ec[pnode[1]].fd /\ line # 0 /\ Matches(pnode[1], line)
  BY <1>1 DEF IInv, Lists, Visiting, Visit
<1>4. /\ \/ Received(fd, line) /\ Advance /\ UNCHANGED arg
         \/ /\ arg' = [arg EXCEPT !["disp"] = pnode[1]] /\ fd' = NoOne
            /\ Goto("disp", "close") /\ UNCHANGED <<screen, pnode, saved>>
      /\ UNCHANGED <<line, owed>> /\ DispFrame
  BY <1>2 DEF Send
<1>. QED
  BY <1>1, <1>2, <1>3, <1>4

LEMMA SendKeeps ==
    ASSUME Apart, Apart', IInv, TypeOK', Send
    PROVE  IInv'
<1>1. /\ at["disp"] = "send" /\ at["disp"] \in Visit /\ at["disp"] \notin Removal
      /\ pnode \in OnList /\ pnode \in Watcher /\ LiveNode(pnode) /\ pnode = W(pnode[1])
      /\ pnode[1] \in Client /\ LiveConn(pnode[1])
      /\ fd = ec[pnode[1]].fd /\ fd \in Fd /\ sock[fd] = pnode[1] /\ line # 0
      /\ UNCHANGED <<line, owed>> /\ DispFrame
  BY SendContext
<1>2. CASE Received(fd, line) /\ Advance /\ UNCHANGED arg
  <2>1. line \in (1..LastLine) \cup {Ack, Nack}
    BY <1>1, RegistryAssumption DEF IInv, TypeOK
  <2>2. /\ \A d \in Client \ {pnode[1]} : screen'[d] = screen[d]
        /\ ~gone[pnode[1]] => \A y : In(y, screen'[pnode[1]]) <=> In(y, screen[pnode[1]]) \/ y = line
        /\ gone[pnode[1]] => screen' = screen
    BY <1>1, <1>2, <2>1, ReceivedIn DEF IInv
  <2>3. /\ \A y : In(y, screen[pnode[1]]) => In(y, screen'[pnode[1]])
        /\ \A y : In(y, screen'[pnode[1]]) => In(y, screen[pnode[1]]) \/ y = line
    BY <2>2
  <2>. QED
    BY <1>1, <1>2, <2>2, <2>3, AdvanceKeeps
<1>3. CASE /\ arg' = [arg EXCEPT !["disp"] = pnode[1]] /\ fd' = NoOne
           /\ Goto("disp", "close") /\ UNCHANGED <<screen, pnode, saved>>
  <2>1. at'["disp"] = "close" /\ at'["conn"] = at["conn"] /\ DOMAIN at' = Thread
    BY <1>3, SamePlace
  <2>2. arg'["disp"] = pnode[1] /\ arg'["conn"] = arg["conn"]
    BY <1>1, <1>3, TypedMemory DEF Thread, IInv
  <2>3. /\ ~crashed' /\ Connections' /\ Requests' /\ ListKept /\ OnList' = OnList
        /\ Watchers' /\ Inserting' /\ Removing'
    <3>1. at'["disp"] = "close" => arg'["disp"] \in Client /\ ec[arg'["disp"]].st = "live"
      BY <1>1, <2>2 DEF LiveConn
    <3>. QED
      BY <1>1, <2>1, <2>2, <3>1, DispKeeps
  <2>4. Visiting'
    <3>1. HalfIn' = HalfIn /\ UNCHANGED wat
      BY <1>1, <2>1 DEF HalfIn, DispFrame
    <3>2. saved \in OnList \cup {NoOne} \/ (HalfIn /\ saved = wat["conn"])
      BY <1>1 DEF IInv, Lists, Visiting
    <3>. QED
      BY <1>1, <1>3, <2>1, <2>3, <3>1, <3>2 DEF Visiting, Visit
  <2>5. ASSUME NEW pos \in [Watcher -> Int], Ahead(pos) PROVE Ahead(pos)'
    <3>1. ToCome = pnode /\ ToCome' = saved
      BY <1>1, <1>3, <2>1 DEF ToCome, Visit
    <3>2. saved \in OnList => pos[pnode] < pos[saved]
      BY <1>1, <2>5 DEF Ahead
    <3>3. ASSUME NEW u \in OnList, In(line, screen[u[1]]), saved \in OnList PROVE pos[u] < pos[saved]
      <4>1. pos[u] < pos[pnode]
        BY <1>1, <2>5, <3>1, <3>3 DEF Ahead
      <4>2. {pos[u], pos[pnode], pos[saved]} \subseteq Int
        BY <1>1, <3>3 DEF OnList
      <4>. QED
        BY <3>2, <3>3, <4>1, <4>2
    <3>4. at'["disp"] \notin Visit
      BY <2>1 DEF Visit
    <3>. QED
      BY <1>1, <1>3, <2>3, <3>1, <3>3, <3>4 DEF Ahead
  <2>6. Screens'
    BY <1>1, <1>3, <2>1, <2>2 DEF IInv, Screens, DispFrame, memory, clients
  <2>. QED
    BY <2>3, <2>4, <2>5, <2>6, LinkedKept DEF IInv, Lists
<1>. QED
  BY <1>2, <1>3, SendContext

(* The watcher after the one a failed send removes is another one: dllRemove*)
(* does not take away what the walk goes on with.                           *)
LEMMA SavedIsAnother ==
    ASSUME Apart, IInv, Send
    PROVE  at["disp"] = "send" /\ pnode = W(pnode[1]) /\ saved # pnode
<1>1. at["disp"] \in Visit /\ at["disp"] = "send" /\ pnode \in OnList /\ pnode \in Watcher /\ pnode = W(pnode[1])
  BY SendContext
<1>2. PICK pos \in [Watcher -> Int] : Ahead(pos)
  BY DEF IInv, Linked
<1>3. ~(pos[pnode] < pos[pnode])
  BY <1>1, <1>2
<1>. QED
  BY <1>1, <1>2, <1>3 DEF Ahead

LEMMA MovedKept ==
    ASSUME Apart, IInv, Moved, Next
    PROVE  Moved'
<1>0. DOMAIN at = Thread /\ arg \in [Thread -> Client \cup {NoOne}] /\ Thread = {"conn", "disp"}
  BY TypedMemory DEF IInv, Thread
<1>a. ASSUME at'["disp"] = at["disp"], arg'["disp"] = arg["disp"], saved' = saved PROVE Moved'
  BY <1>a DEF Moved
<1>b. ASSUME at'["disp"] \notin Removal PROVE Moved'
  BY <1>b DEF Moved
<1>1. CASE Env
  BY <1>1, <1>a DEF Env, Connect, Leave, Request, EnvFrame, disp
<1>2. CASE RemoveClient("conn")
  <2>1. saved' = saved /\ arg' = arg /\ at'["disp"] = at["disp"]
    BY <1>0, <1>2 DEF RemoveClient, RmClose, RmFilter, RmPrev, RmNext, RmFree, RmFreeConn, RmGoto, RmFrame,
           Goto, Crash, disp
  <2>. QED
    BY <1>a, <2>1
<1>3. CASE RemoveClient("disp")
  <2>1. CASE RmFreeConn("disp")
    <3>1. \/ saved' = saved /\ arg' = arg /\ at' = at
          \/ Goto("disp", "idle") \/ Goto("disp", "next")
      BY <2>1 DEF RmFreeConn, Crash, disp
    <3>2. Goto("disp", "idle") \/ Goto("disp", "next") => at'["disp"] \notin Removal
      BY <1>0 DEF Goto, Removal, AfterClose
    <3>. QED
      BY <1>a, <1>b, <3>1, <3>2
  <2>2. CASE ~RmFreeConn("disp")
    <3>1. saved' = saved /\ arg' = arg
      BY <1>3, <2>2 DEF RemoveClient, RmClose, RmFilter, RmPrev, RmNext, RmFree, RmGoto, RmFrame, Crash, disp
    <3>2. at["disp"] \in Removal
      BY <1>3, <2>2 DEF RemoveClient, RmClose, RmFilter, RmPrev, RmNext, RmFree, Removal, AfterClose
    <3>. QED
      BY <3>1, <3>2 DEF Moved
  <2>. QED
    BY <2>1, <2>2
<1>4. CASE AddWatchList
  <2>1. saved' = saved /\ arg' = arg /\ at'["disp"] = at["disp"]
    BY <1>0, <1>4 DEF AddWatchList, AddMalloc, AddTail, InsertPublish, InsertBacklink, InsertPointers, Attach,
           AddGoto, AddFrame, Goto, Crash, disp
  <2>. QED
    BY <1>a, <2>1
<1>5. CASE WaitEvents \/ HandleEvent \/ AcceptNothing \/ Accept \/ AcceptFails
  <2>1. saved' = saved /\ arg'["disp"] = arg["disp"] /\ at'["disp"] = at["disp"]
    BY <1>0, <1>5 DEF WaitEvents, HandleEvent, AcceptNothing, Accept, AcceptFails, AcceptFrame, AcceptAgain,
           ConnFrame, Goto, Crash, disp
  <2>. QED
    BY <1>a, <2>1
<1>6. CASE Recv \/ Answer
  <2>1. saved' = saved /\ arg' = arg /\ at'["disp"] = at["disp"]
    BY <1>0, <1>6 DEF Recv, Answer, RecvFrame, Goto, Crash, disp
  <2>. QED
    BY <1>a, <2>1
<1>7. CASE GetLine \/ ReadNext \/ ReadFd \/ DoFilter
  <2>1. at'["disp"] \notin Removal \/ (saved' = saved /\ arg' = arg /\ at' = at)
    BY <1>0, <1>7 DEF GetLine, ReadNext, ReadFd, DoFilter, Advance, Goto, Crash, disp, Removal, AfterClose
  <2>. QED
    BY <1>a, <1>b, <2>1
<1>8. CASE Send
  <2>1. \/ Advance
        \/ arg' = [arg EXCEPT !["disp"] = pnode[1]] /\ saved' = saved
    BY <1>8, SendContext
  <2>2. CASE Advance
    <3>1. at'["disp"] \notin Removal
      BY <1>0, <2>2 DEF Advance, Goto, Removal, AfterClose
    <3>. QED
      BY <1>b, <3>1
  <2>3. CASE arg' = [arg EXCEPT !["disp"] = pnode[1]] /\ saved' = saved
    <3>1. arg'["disp"] = pnode[1]
      BY <1>0, <2>3
    <3>. QED
      BY <1>8, <2>3, <3>1, SavedIsAnother DEF Moved, W
  <2>. QED
    BY <2>1, <2>2, <2>3
<1>. QED
  BY <1>1, <1>2, <1>3, <1>4, <1>5, <1>6, <1>7, <1>8 DEF Next, ConnNext, DispNext

----------------------------------------------------------------------------
(***************************************************************************)
(* Every step that does not make the threads clash keeps the invariant.    *)
(***************************************************************************)
LEMMA NothingKeeps ==
    ASSUME IInv, Moved, UNCHANGED vars
    PROVE  IInv' /\ Moved'
<1>1. EnvFrame /\ UNCHANGED <<clients, unread, event, knock>>
  BY DEF vars, EnvFrame, kernel
<1>2. TypeOK'
  BY <1>1 DEF IInv, TypeOK, EnvFrame, clients, memory, conn, disp
<1>3. Connections'
  BY <1>1 DEF IInv, Connections, Placed, Sockets, Waiting, Registered, Closing, Events, Working,
         EnvFrame, clients, memory, conn
<1>4. Requests'
  BY <1>1 DEF IInv, Requests, Handling, EnvFrame, clients, memory
<1>5. Screens'
  BY <1>1 DEF IInv, Screens, EnvFrame, clients, memory, disp
<1>6. Moved'
  BY <1>1 DEF Moved, EnvFrame, disp
<1>. QED
  BY <1>1, <1>2, <1>3, <1>4, <1>5, <1>6, EnvListsKept DEF IInv

LEMMA Invariance ==
    ASSUME Apart, Apart', IInv, Moved, [Next]_vars
    PROVE  IInv' /\ Moved'
<1>1. CASE UNCHANGED vars
  BY <1>1, NothingKeeps
<1>2. CASE Next
  <2>1. TypeOK' /\ Moved'
    BY <1>2, TypesKept, MovedKept
  <2>2. CASE Env
    <3>1. ASSUME NEW c \in Client, Connect(c) PROVE IInv'
      BY <2>1, <3>1, ConnectKeeps
    <3>2. ASSUME NEW c \in Client, Leave(c) PROVE IInv'
      BY <2>1, <3>2, LeaveKeeps
    <3>3. ASSUME NEW c \in Client, NEW kind \in Asks(c), Request(c, kind) PROVE IInv'
      <4>1. AskedOnce'
        BY DEF Apart
      <4>. QED
        BY <2>1, <3>3, <4>1, RequestKeeps
    <3>. QED
      BY <2>1, <2>2, <3>1, <3>2, <3>3 DEF Env
  <2>3. CASE \E t \in Thread : RemoveClient(t)
    BY <2>1, <2>3, RemoveKeeps
  <2>4. CASE AddWatchList
    BY <2>1, <2>4, AddMallocKeeps, AddTailKeeps, InsertPublishKeeps, InsertBacklinkKeeps, InsertPointersKeeps,
       AttachKeeps DEF AddWatchList
  <2>5. CASE WaitEvents \/ HandleEvent \/ AcceptNothing \/ Accept \/ AcceptFails \/ Recv \/ Answer
    BY <2>1, <2>5, WaitEventsKeeps, HandleEventKeeps, AcceptNothingKeeps, AcceptKeeps, AcceptFailsKeeps,
       RecvKeeps, AnswerKeeps
  <2>6. CASE GetLine \/ ReadNext \/ ReadFd \/ DoFilter \/ Send
    BY <2>1, <2>6, GetLineKeeps, ReadNextKeeps, ReadFdKeeps, DoFilterKeeps, SendKeeps
  <2>. QED
    BY <1>2, <2>1, <2>2, <2>3, <2>4, <2>5, <2>6 DEF Next, ConnNext, DispNext, Thread
<1>. QED
  BY <1>1, <1>2

LEMMA InitiallyMoved ==
    ASSUME Init
    PROVE  Moved
  BY DEF Init, Moved, Removal, AfterClose, Thread

LEMMA Invariant == Spec /\ []Apart => []IInv
<1>1. Init => IInv /\ Moved
  BY Initially, InitiallyMoved
<1>2. IInv /\ Moved /\ Apart /\ Apart' /\ [Next]_vars => IInv' /\ Moved'
  BY Invariance
<1>. QED
  BY <1>1, <1>2, PTL DEF Spec

----------------------------------------------------------------------------
(***************************************************************************)
(* The theorems.  A behaviour may stop after any step, so what holds while *)
(* []Apart does holds of every behaviour up to its first clash.            *)
(***************************************************************************)
(* However clients come, ask, leave or stall, whatever calls fail, and      *)
(* however the steps of the two threads interleave: until they clash, none  *)
(* uses a watcher or a connection that was freed, frees one twice or        *)
(* follows a pointer that was never written (removeClient, dllInsert,       *)
(* dllRemove, deliver and filterDeliver).                                   *)
THEOREM NeverCrashes == Spec /\ []Apart => []MemorySafe
<1>1. IInv => MemorySafe
  BY DEF IInv, MemorySafe
<1>. QED
  BY <1>1, Invariant, PTL

(* Until the threads clash, the open descriptors and the connections the    *)
(* server holds are in one-to-one correspondence between handlers: accept,  *)
(* its failures, refused requests and removeClient by either thread leak    *)
(* none and close none twice.                                               *)
THEOREM NoDescriptorLeaks == Spec /\ []Apart => []NoLeak
<1>1. IInv => NoLeak
  <2>1. SUFFICES ASSUME IInv, Quiet PROVE /\ \A f \in Fd : sock[f] # NoOne => LiveConn(sock[f]) /\ ec[sock[f]].fd = f
                                          /\ \A c \in Client : LiveConn(c) => sock[ec[c].fd] = c
    BY DEF NoLeak
  <2>2. \A c : ~Closing(c)
    <3>1. at["disp"] = "idle" /\ at["conn"] = "loop"
      BY <2>1 DEF Quiet, ConnIdle, Walking
    <3>. QED
      BY <3>1 DEF Closing, AfterClose, Thread
  <2>. QED
    BY <2>1, <2>2 DEF IInv, Connections, Sockets, LiveConn
<1>. QED
  BY <1>1, Invariant, PTL

LEMMA ServiceInit ==
    ASSUME Init
    PROVE  Service!Init
  BY DEF Init, Service!Init

(* What a client has received, one answer or line more.                     *)
LEMMA Shown ==
    ASSUME NEW f \in Fd, NEW c \in Client, sock[f] = c, NEW x, Received(f, x)
    PROVE  UNCHANGED screen \/ Service!Show(c, x)
  BY DEF Received, Service!Show

LEMMA ServiceRecv ==
    ASSUME Apart, IInv, Recv
    PROVE  [Service!Next]_<<screen, line>>
<1>1. at["conn"] \in Handler /\ at["conn"] = "recv"
  BY DEF Recv, Handler, ConnWork, AfterClose
<1>2. /\ LiveConn(arg["conn"]) /\ arg["conn"] \in Client /\ ec[arg["conn"]].st = "live"
      /\ ec[arg["conn"]].fd \in Fd /\ sock[ec[arg["conn"]].fd] = arg["conn"]
  BY <1>1, HandlersConnection
<1>3. line' = line
  BY <1>2 DEF Recv, RecvFrame, disp
<1>4. UNCHANGED screen \/ Received(ec[arg["conn"]].fd, Nack)
  BY <1>2 DEF Recv
<1>5. ~In(Nack, screen[arg["conn"]])
  BY <1>1, <1>2 DEF IInv, Screens, Removal, AfterClose
<1>6. ~Service!Has(arg["conn"], Nack)
  BY <1>5 DEF In, Service!Has
<1>7. UNCHANGED screen \/ Service!Show(arg["conn"], Nack)
  BY <1>2, <1>4, Shown
<1>. QED
  BY <1>2, <1>3, <1>6, <1>7 DEF Service!Next, Service!Refuse

LEMMA ServiceAnswer ==
    ASSUME Apart, IInv, Answer
    PROVE  [Service!Next]_<<screen, line>>
<1>1. at["conn"] \in Handler /\ at["conn"] = "answer"
  BY DEF Answer, Handler, ConnWork, AfterClose
<1>2. /\ LiveConn(arg["conn"]) /\ arg["conn"] \in Client /\ ec[arg["conn"]].st = "live"
      /\ ec[arg["conn"]].fd \in Fd /\ sock[ec[arg["conn"]].fd] = arg["conn"]
  BY <1>1, HandlersConnection
<1>3. line' = line /\ (UNCHANGED screen \/ Received(ec[arg["conn"]].fd, Ack))
  BY <1>2 DEF Answer, RecvFrame, disp
<1>4. ~In(Nack, screen[arg["conn"]]) /\ ~In(Ack, screen[arg["conn"]])
  BY <1>1, <1>2 DEF IInv, Screens, Removal, AfterClose
<1>5. ~Service!Has(arg["conn"], Nack) /\ ~Service!Has(arg["conn"], Ack)
  BY <1>4 DEF In, Service!Has
<1>6. UNCHANGED screen \/ Service!Show(arg["conn"], Ack)
  BY <1>2, <1>3, Shown
<1>. QED
  BY <1>2, <1>3, <1>5, <1>6 DEF Service!Next, Service!Acknowledge

LEMMA ServiceSend ==
    ASSUME Apart, IInv, Send
    PROVE  [Service!Next]_<<screen, line>>
<1>1. at["disp"] = "send" /\ at["disp"] \in Visit
  BY DEF Send, Visit
<1>2. /\ pnode \in OnList /\ pnode \in Watcher /\ LiveNode(pnode)
      /\ pnode = W(pnode[1]) /\ pnode[1] \in Client /\ LiveConn(pnode[1])
      /\ fd = ec[pnode[1]].fd /\ fd \in Fd /\ sock[fd] = pnode[1]
      /\ Matches(pnode[1], line) /\ UNCHANGED line
  BY SendContext
<1>3. UNCHANGED screen \/ Received(fd, line)
  BY SendContext
<1>4. UNCHANGED screen \/ (Service!Show(pnode[1], line) /\ ~gone[pnode[1]])
  BY <1>2, <1>3 DEF Received, Service!Show
<1>5. ~In(Nack, screen[pnode[1]])
  <2>1. at["conn"] \in AfterClose => arg["conn"] # pnode[1]
    BY <1>1, WalkContext
  <2>2. at["conn"] = "close" => arg["conn"] # pnode[1]
    <3>1. SUFFICES ASSUME at["conn"] = "close", arg["conn"] = pnode[1] PROVE FALSE
      OBVIOUS
    <3>2. ec[pnode[1]].watch = pnode
      BY <1>2, <3>1 DEF IInv, Lists, Watchers
    <3>3. TakesOff
      BY <1>2, <3>1, <3>2, OneWatcher DEF TakesOff, Removal
    <3>. QED
      BY <3>1, <3>2, <3>3 DEF Apart, Clash
  <2>. QED
    BY <1>2, <2>1, <2>2 DEF IInv, Screens, LiveConn, Removal
<1>6. ~gone[pnode[1]] => In(Ack, screen[pnode[1]])
  BY <1>2 DEF IInv, Screens, LiveNode
<1>7. ~In(line, screen[pnode[1]])
  <2>1. PICK pos \in [Watcher -> Int] : Ahead(pos)
    BY DEF IInv, Linked
  <2>2. ToCome = pnode
    BY <1>1 DEF ToCome
  <2>3. ~(pos[pnode] < pos[pnode])
    BY <1>2, <2>1
  <2>. QED
    BY <1>1, <1>2, <2>1, <2>2, <2>3 DEF Ahead
<1>8. /\ ~Service!Has(pnode[1], Nack) /\ ~Service!Has(pnode[1], line)
      /\ ~gone[pnode[1]] => Service!Has(pnode[1], Ack)
  BY <1>5, <1>6, <1>7 DEF In, Service!Has
<1>. QED
  BY <1>2, <1>4, <1>8 DEF Service!Next, Service!Notify

LEMMA ServiceStep ==
    ASSUME Apart, IInv, [Next]_vars
    PROVE  [Service!Next]_<<screen, line>>
<1>1. CASE UNCHANGED vars
  BY <1>1 DEF vars, kernel, disp
<1>2. CASE Env
  BY <1>2 DEF Env, Connect, Leave, Request, EnvFrame, disp
<1>3. CASE \E t \in Thread : RemoveClient(t)
  BY <1>3 DEF RemoveClient, RmClose, RmFilter, RmPrev, RmNext, RmFree, RmFreeConn, RmGoto, RmFrame, Crash, kernel, disp
<1>4. CASE AddWatchList
  BY <1>4 DEF AddWatchList, AddMalloc, AddTail, InsertPublish, InsertBacklink, InsertPointers, Attach,
         AddGoto, AddFrame, Crash, kernel, disp
<1>5. CASE WaitEvents \/ HandleEvent \/ AcceptNothing \/ Accept \/ AcceptFails
  BY <1>5 DEF WaitEvents, HandleEvent, AcceptNothing, Accept, AcceptFails, AcceptFrame, ConnFrame, Crash, kernel, disp
<1>6. CASE Recv \/ Answer
  BY <1>6, ServiceRecv, ServiceAnswer
<1>7. CASE GetLine
  BY <1>7 DEF GetLine, Service!Next, Service!Log
<1>8. CASE ReadNext \/ ReadFd \/ DoFilter
  BY <1>8 DEF ReadNext, ReadFd, DoFilter, Crash, kernel, disp
<1>9. CASE Send
  BY <1>9, ServiceSend
<1>. QED
  BY <1>1, <1>2, <1>3, <1>4, <1>5, <1>6, <1>7, <1>8, <1>9 DEF Next, ConnNext, DispNext, Thread

(* Until they clash, the two threads implement the service of WatchService, *)
(* in whatever order their steps come: a client receives lines only after   *)
(* its acknowledgement, each at most once, while it is the newest and if    *)
(* its filter accepts it; at most one acknowledgement; and nothing after a  *)
(* refusal.                                                                 *)
THEOREM ImplementsService == Spec /\ []Apart => ServiceSpec
<1>1. Init => Service!Init
  BY ServiceInit
<1>2. Apart /\ IInv /\ [Next]_vars => [Service!Next]_<<screen, line>>
  BY ServiceStep
<1>. QED
  BY <1>1, <1>2, Invariant, PTL DEF Spec, ServiceSpec, Service!Spec

----------------------------------------------------------------------------
(***************************************************************************)
(* g_watcherList is sound: the rank order is the order in which the next   *)
(* pointers are followed from the head, and the prev pointers, from the    *)
(* tail, are followed in the opposite one.                                 *)
(***************************************************************************)

(* A finite list with its order.                                            *)
Row(S, pos, f, l, n, p) == /\ IsFiniteSet(S) /\ S \in SUBSET Watcher
                           /\ pos \in [Watcher -> Int] /\ Ordered(S, pos, f, l, n, p)

(* The place of a watcher is the number of watchers before it.              *)
Before(S, pos, u) == {v \in S : pos[v] < pos[u]}
Place(S, pos, u) == Cardinality(Before(S, pos, u))

(* The watcher in the i-th place, if there is one.                          *)
Spot(S, pos, i) == IF \E u \in S : Place(S, pos, u) = i
                   THEN CHOOSE u \in S : Place(S, pos, u) = i ELSE NoOne

(* Induction: a set of numbers with 0 and the successor of each is Nat.     *)
LEMMA Successors ==
    ASSUME NEW T, 0 \in T, \A i \in Nat : i \in T => i + 1 \in T
    PROVE  Nat \subseteq T
<1>1. SUFFICES ASSUME NEW x \in Nat, x \notin T PROVE FALSE
  OBVIOUS
<1>. DEFINE U == Nat \ T
<1>2. U \in SUBSET Nat /\ U # {}
  BY <1>1
<1>3. Min(U) \in U /\ \A k \in U : Min(U) <= k
  BY <1>2, MinIsIn
<1>4. Min(U) \in Nat /\ Min(U) \notin T /\ \A k \in Nat : k < Min(U) => k \in T
  BY <1>3
<1>. HIDE DEF U
<1>5. Min(U) - 1 \in Nat /\ Min(U) - 1 < Min(U)
  BY <1>4
<1>. QED
  BY <1>4, <1>5

LEMMA Places ==
    ASSUME NEW S, NEW pos, NEW f, NEW l, NEW n, NEW p, Row(S, pos, f, l, n, p), NEW u \in S
    PROVE  /\ IsFiniteSet(Before(S, pos, u)) /\ Place(S, pos, u) \in 0..(Cardinality(S) - 1)
           /\ Cardinality(S) \in Nat
<1>1. IsFiniteSet(S) /\ Before(S, pos, u) \in SUBSET S /\ u \notin Before(S, pos, u) /\ pos[u] \in Int
  BY DEF Row, Before
<1>. DEFINE B == Before(S, pos, u)
<1>. HIDE DEF B
<1>2. IsFiniteSet(B) /\ Cardinality(B) <= Cardinality(S) /\ (Cardinality(S) = Cardinality(B) => S = B)
  BY <1>1, FS_Subset DEF B
<1>3. Cardinality(B) \in Nat /\ Cardinality(S) \in Nat
  BY <1>1, <1>2, FS_CardinalityType
<1>4. S # B
  BY <1>1 DEF B
<1>5. Cardinality(B) # Cardinality(S)
  BY <1>2, <1>4
<1>. QED
  BY <1>2, <1>3, <1>5 DEF Place, B

(* The place of the next watcher is the next place.                         *)
LEMMA PlaceOfAdjacent ==
    ASSUME NEW S, NEW pos, NEW f, NEW l, NEW n, NEW p, Row(S, pos, f, l, n, p),
           NEW u \in S, NEW v \in S, Adjacent(S, pos, u, v)
    PROVE  Place(S, pos, v) = Place(S, pos, u) + 1
<1>1. \A x \in S : pos[x] \in Int
  BY DEF Row
<1>2. \A x, y \in S : pos[x] = pos[y] => x = y
  BY DEF Row, Ordered
<1>3. pos[u] < pos[v] /\ \A x \in S : pos[x] <= pos[u] \/ pos[v] <= pos[x]
  BY DEF Adjacent
<1>4. ASSUME NEW x \in S PROVE pos[x] < pos[v] <=> pos[x] < pos[u] \/ x = u
  BY <1>1, <1>2, <1>3
<1>5. Before(S, pos, v) = Before(S, pos, u) \cup {u}
  BY <1>4 DEF Before
<1>6. u \notin Before(S, pos, u) /\ IsFiniteSet(Before(S, pos, u))
  BY <1>1, Places DEF Before
<1>. QED
  BY <1>5, <1>6, FS_AddElement DEF Place

(* No two watchers have one place.                                          *)
LEMMA PlacesDiffer ==
    ASSUME NEW S, NEW pos, NEW f, NEW l, NEW n, NEW p, Row(S, pos, f, l, n, p),
           NEW u \in S, NEW v \in S, Place(S, pos, u) = Place(S, pos, v)
    PROVE  u = v
<1>1. \A x \in S : pos[x] \in Int
  BY DEF Row
<1>2. ASSUME NEW x \in S, NEW y \in S, pos[x] < pos[y] PROVE Place(S, pos, x) # Place(S, pos, y)
  <2>1. Before(S, pos, x) \in SUBSET Before(S, pos, y) /\ x \in Before(S, pos, y) /\ x \notin Before(S, pos, x)
    BY <1>1, <1>2 DEF Before
  <2>2. IsFiniteSet(Before(S, pos, y))
    BY Places
  <2>. DEFINE X == Before(S, pos, x)
              Y == Before(S, pos, y)
  <2>. HIDE DEF X, Y
  <2>3. X \in SUBSET Y /\ X # Y /\ IsFiniteSet(Y)
    BY <2>1, <2>2 DEF X, Y
  <2>. QED
    BY <2>3, FS_Subset DEF Place, X, Y
<1>3. pos[u] = pos[v]
  BY <1>1, <1>2
<1>. QED
  BY <1>3 DEF Row, Ordered

LEMMA SpotIs ==
    ASSUME NEW S, NEW pos, NEW f, NEW l, NEW n, NEW p, Row(S, pos, f, l, n, p), NEW u \in S
    PROVE  Spot(S, pos, Place(S, pos, u)) = u
<1>1. \A v \in S : Place(S, pos, v) = Place(S, pos, u) => v = u
  BY PlacesDiffer
<1>. QED
  BY <1>1 DEF Spot

(* The first has place 0, the last the last one, and after it there is none.*)
LEMMA PlaceOfFirst ==
    ASSUME NEW S, NEW pos, NEW f, NEW l, NEW n, NEW p, Row(S, pos, f, l, n, p),
           NEW u \in S, Least(S, pos, u)
    PROVE  Place(S, pos, u) = 0
<1>1. Before(S, pos, u) = {}
  BY DEF Before, Least, Row
<1>. QED
  BY <1>1, FS_EmptySet DEF Place

LEMMA PlaceOfLast ==
    ASSUME NEW S, NEW pos, NEW f, NEW l, NEW n, NEW p, Row(S, pos, f, l, n, p),
           NEW u \in S, Most(S, pos, u)
    PROVE  Place(S, pos, u) = Cardinality(S) - 1
<1>1. \A x \in S : pos[x] \in Int
  BY DEF Row
<1>2. Before(S, pos, u) = S \ {u}
  <2>1. \A x, y \in S : pos[x] = pos[y] => x = y
    BY DEF Row, Ordered
  <2>2. \A x \in S : pos[x] < pos[u] <=> x # u
    BY <1>1, <2>1 DEF Most
  <2>. QED
    BY <2>2 DEF Before
<1>3. IsFiniteSet(S)
  BY DEF Row
<1>. QED
  BY <1>2, <1>3, FS_RemoveElement DEF Place

LEMMA SpotEnds ==
    ASSUME NEW S, NEW pos, NEW f, NEW l, NEW n, NEW p, Row(S, pos, f, l, n, p), NoOne \notin S
    PROVE  /\ Spot(S, pos, 0) = f
           /\ \A i \in Nat : i >= Cardinality(S) => Spot(S, pos, i) = NoOne
           /\ S = {} => l = NoOne
           /\ S # {} => Spot(S, pos, Cardinality(S) - 1) = l
<1>1. \A i \in Nat : i >= Cardinality(S) => Spot(S, pos, i) = NoOne
  <2>1. SUFFICES ASSUME NEW i \in Nat, i >= Cardinality(S), NEW u \in S, Place(S, pos, u) = i PROVE FALSE
    BY DEF Spot
  <2>. QED
    BY <2>1, Places
<1>2. CASE S = {}
  <2>1. f = NoOne /\ l = NoOne /\ Spot(S, pos, 0) = NoOne
    BY <1>2 DEF Row, Ordered, Spot
  <2>. QED
    BY <1>1, <1>2, <2>1
<1>3. CASE S # {}
  <2>1. f \in S /\ Least(S, pos, f) /\ l \in S /\ Most(S, pos, l)
    BY <1>3 DEF Row, Ordered
  <2>2. Place(S, pos, f) = 0 /\ Place(S, pos, l) = Cardinality(S) - 1
    BY <2>1, PlaceOfFirst, PlaceOfLast
  <2>3. Spot(S, pos, Place(S, pos, f)) = f /\ Spot(S, pos, Place(S, pos, l)) = l
    BY <2>1, SpotIs
  <2>. QED
    BY <1>1, <1>3, <2>2, <2>3
<1>. QED
  BY <1>2, <1>3

LEMMA SpotNext ==
    ASSUME NEW S, NEW pos, NEW f, NEW l, NEW n, NEW p, Row(S, pos, f, l, n, p), NoOne \notin S, NEW u \in S
    PROVE  Spot(S, pos, Place(S, pos, u) + 1) = n[u]
<1>1. CASE n[u] = NoOne /\ Most(S, pos, u)
  <2>1. Place(S, pos, u) + 1 = Cardinality(S) /\ Cardinality(S) \in Nat
    BY <1>1, PlaceOfLast, Places
  <2>. QED
    BY <1>1, <2>1, SpotEnds
<1>2. CASE Adjacent(S, pos, u, n[u])
  <2>1. n[u] \in S
    BY <1>2 DEF Adjacent
  <2>2. Place(S, pos, n[u]) = Place(S, pos, u) + 1 /\ Spot(S, pos, Place(S, pos, n[u])) = n[u]
    BY <1>2, <2>1, PlaceOfAdjacent, SpotIs
  <2>. QED
    BY <2>2
<1>. QED
  BY <1>1, <1>2 DEF Row, Ordered

LEMMA SpotPrev ==
    ASSUME NEW S, NEW pos, NEW f, NEW l, NEW n, NEW p, Row(S, pos, f, l, n, p), NoOne \notin S, NEW u \in S
    PROVE  /\ Place(S, pos, u) = 0 => p[u] = NoOne
           /\ Place(S, pos, u) # 0 => Spot(S, pos, Place(S, pos, u) - 1) = p[u]
<1>1. CASE p[u] = NoOne /\ Least(S, pos, u)
  BY <1>1, PlaceOfFirst
<1>2. CASE p[u] \in S /\ Adjacent(S, pos, p[u], u)
  <2>1. Place(S, pos, u) = Place(S, pos, p[u]) + 1 /\ Spot(S, pos, Place(S, pos, p[u])) = p[u]
    BY <1>2, PlaceOfAdjacent, SpotIs
  <2>2. Place(S, pos, p[u]) \in Nat
    BY <1>2, Places
  <2>3. Place(S, pos, u) - 1 = Place(S, pos, p[u]) /\ Place(S, pos, u) # 0
    BY <2>1, <2>2
  <2>. QED
    BY <2>1, <2>3
<1>. QED
  BY <1>1, <1>2 DEF Row, Ordered

(* Every place is taken.                                                    *)
LEMMA SpotFull ==
    ASSUME NEW S, NEW pos, NEW f, NEW l, NEW n, NEW p, Row(S, pos, f, l, n, p), NoOne \notin S,
           NEW j \in 0..(Cardinality(S) - 1)
    PROVE  Spot(S, pos, j) \in S /\ Place(S, pos, Spot(S, pos, j)) = j
<1>. DEFINE IsTaken(i) == Spot(S, pos, i) \in S /\ Place(S, pos, Spot(S, pos, i)) = i
            T == {i \in Nat : i < Cardinality(S) => IsTaken(i)}
<1>0. IsFiniteSet(S) /\ Cardinality(S) \in Nat
  BY FS_CardinalityType DEF Row
<1>1. 0 \in T
  <2>1. SUFFICES ASSUME 0 < Cardinality(S) PROVE IsTaken(0)
    OBVIOUS
  <2>2. S # {}
    BY <1>0, <2>1, FS_EmptySet
  <2>3. f \in S /\ Least(S, pos, f)
    BY <2>2 DEF Row, Ordered
  <2>. QED
    BY <2>3, PlaceOfFirst, SpotIs
<1>2. ASSUME NEW i \in Nat, i \in T PROVE i + 1 \in T
  <2>1. SUFFICES ASSUME i + 1 < Cardinality(S) PROVE IsTaken(i + 1)
    OBVIOUS
  <2>2. IsTaken(i)
    BY <1>0, <1>2, <2>1
  <2>. DEFINE u == Spot(S, pos, i)
  <2>3. u \in S /\ Place(S, pos, u) = i
    BY <2>2
  <2>. HIDE DEF u
  <2>4. ~Most(S, pos, u)
    BY <1>0, <2>1, <2>3, PlaceOfLast
  <2>5. n[u] \in S /\ Adjacent(S, pos, u, n[u])
    BY <2>3, <2>4 DEF Row, Ordered, Adjacent
  <2>6. Place(S, pos, n[u]) = i + 1 /\ Spot(S, pos, Place(S, pos, n[u])) = n[u]
    BY <2>3, <2>5, PlaceOfAdjacent, SpotIs
  <2>. QED
    BY <2>5, <2>6
<1>. HIDE DEF T
<1>3. Nat \subseteq T
  BY <1>1, <1>2, Successors
<1>4. j \in Nat /\ j < Cardinality(S)
  BY <1>0
<1>. QED
  BY <1>3, <1>4 DEF T

----------------------------------------------------------------------------
(***************************************************************************)
(* Following the pointers.                                                 *)
(***************************************************************************)
NextOf == [u \in LiveNodes |-> node[u].next]
PrevOf == [u \in LiveNodes |-> node[u].prev]

(* Between handlers the list has its order, and no operation is half done.  *)
LEMMA QuietRow ==
    ASSUME IInv, Quiet
    PROVE  /\ OnList = LiveNodes /\ NoOne \notin LiveNodes
           /\ \E pos : Row(LiveNodes, pos, head, tail, NextOf, PrevOf)
<1>1. at["conn"] = "loop" /\ at["disp"] = "idle"
  BY DEF Quiet, ConnIdle, Walking
<1>2. OnList = LiveNodes
  BY <1>1 DEF OnList, LiveNodes, Out, Insertion, Thread
<1>3. First = head /\ LastOne = tail /\ \A u : Nx(u) = node[u].next
  BY <1>1 DEF First, LastOne, Nx, OutAfter, HalfIn, HalfOut
<1>4. Nexts = NextOf /\ Prevs = PrevOf
  BY <1>2, <1>3 DEF Nexts, Prevs, NextOf, PrevOf
<1>5. PICK pos \in [Watcher -> Int] : Ordered(OnList, pos, First, LastOne, Nexts, Prevs)
  BY DEF IInv, Linked
<1>6. IsFiniteSet(OnList) /\ OnList \in SUBSET Watcher
  BY DEF IInv, Linked, OnList
<1>7. Row(LiveNodes, pos, head, tail, NextOf, PrevOf)
  BY <1>2, <1>3, <1>4, <1>5, <1>6 DEF Row
<1>. QED
  BY <1>2, <1>6, <1>7, OneWatcher

(* What Forward and Backward are defined to be.                             *)
GoesForward(g) == g = [i \in Nat |-> IF i = 0 THEN head
                                     ELSE IF g[i-1] = NoOne THEN NoOne ELSE node[g[i-1]].next]
GoesBackward(g) == g = [i \in Nat |-> IF i = 0 THEN tail
                                      ELSE IF g[i-1] = NoOne THEN NoOne ELSE node[g[i-1]].prev]

LEMMA OneForward ==
    ASSUME NEW g, NEW h, GoesForward(g), GoesForward(h)
    PROVE  \A i \in Nat : g[i] = h[i]
<1>1. g[0] = h[0]
  BY DEF GoesForward
<1>2. ASSUME NEW i \in Nat, g[i] = h[i] PROVE g[i+1] = h[i+1]
  BY <1>2 DEF GoesForward
<1>. DEFINE T == {i \in Nat : g[i] = h[i]}
<1>3. 0 \in T /\ \A i \in Nat : i \in T => i + 1 \in T
  BY <1>1, <1>2
<1>. HIDE DEF T
<1>4. Nat \subseteq T
  BY <1>3, Successors
<1>. QED
  BY <1>4 DEF T

LEMMA OneBackward ==
    ASSUME NEW g, NEW h, GoesBackward(g), GoesBackward(h)
    PROVE  \A i \in Nat : g[i] = h[i]
<1>1. g[0] = h[0]
  BY DEF GoesBackward
<1>2. ASSUME NEW i \in Nat, g[i] = h[i] PROVE g[i+1] = h[i+1]
  BY <1>2 DEF GoesBackward
<1>. DEFINE T == {i \in Nat : g[i] = h[i]}
<1>3. 0 \in T /\ \A i \in Nat : i \in T => i + 1 \in T
  BY <1>1, <1>2
<1>. HIDE DEF T
<1>4. Nat \subseteq T
  BY <1>3, Successors
<1>. QED
  BY <1>4 DEF T

(* The watchers by place are a way forward, and from the last one back.     *)
Spots(pos) == [i \in Nat |-> Spot(LiveNodes, pos, i)]
Stops(pos) == [i \in Nat |-> IF i < Cardinality(LiveNodes)
                             THEN Spot(LiveNodes, pos, Cardinality(LiveNodes) - 1 - i) ELSE NoOne]

LEMMA SpotsGoForward ==
    ASSUME NEW pos, NoOne \notin LiveNodes, Row(LiveNodes, pos, head, tail, NextOf, PrevOf)
    PROVE  GoesForward(Spots(pos))
<1>. DEFINE g == Spots(pos)
            S == LiveNodes
            N == Cardinality(S)
<1>1. g[0] = head
  BY SpotEnds DEF Spots
<1>2. ASSUME NEW i \in Nat, i # 0
      PROVE  g[i] = IF g[i-1] = NoOne THEN NoOne ELSE node[g[i-1]].next
  <2>1. i - 1 \in Nat /\ N \in Nat /\ g[i] = Spot(S, pos, i) /\ g[i-1] = Spot(S, pos, i-1)
    BY <1>2, FS_CardinalityType DEF Spots, Row
  <2>2. CASE i - 1 >= N
    BY <2>1, <2>2, SpotEnds
  <2>3. CASE i - 1 < N
    <3>1. i - 1 \in 0..(Cardinality(LiveNodes) - 1)
      BY <2>1, <2>3
    <3>2. g[i-1] \in S /\ Place(S, pos, g[i-1]) = i - 1
      BY <2>1, <3>1, SpotFull
    <3>3. Spot(S, pos, Place(S, pos, g[i-1]) + 1) = NextOf[g[i-1]]
      BY <3>2, SpotNext
    <3>4. NextOf[g[i-1]] = node[g[i-1]].next
      BY <3>2 DEF NextOf
    <3>. QED
      BY <2>1, <3>2, <3>3, <3>4
  <2>. QED
    BY <2>1, <2>2, <2>3
<1>3. g = [i \in Nat |-> g[i]]
  BY DEF Spots
<1>. HIDE DEF g
<1>4. g = [i \in Nat |-> IF i = 0 THEN head ELSE IF g[i-1] = NoOne THEN NoOne ELSE node[g[i-1]].next]
  BY <1>1, <1>2, <1>3
<1>. QED
  BY <1>4 DEF GoesForward, g

LEMMA StopsGoBackward ==
    ASSUME NEW pos, NoOne \notin LiveNodes, Row(LiveNodes, pos, head, tail, NextOf, PrevOf)
    PROVE  GoesBackward(Stops(pos))
<1>. DEFINE g == Stops(pos)
            S == LiveNodes
            N == Cardinality(S)
<1>1. IsFiniteSet(S) /\ N \in Nat /\ (N = 0 <=> S = {})
  BY FS_CardinalityType, FS_EmptySet DEF Row
<1>2. g[0] = tail
  BY <1>1, SpotEnds DEF Stops
<1>3. ASSUME NEW i \in Nat, i # 0
      PROVE  g[i] = IF g[i-1] = NoOne THEN NoOne ELSE node[g[i-1]].prev
  <2>1. i - 1 \in Nat
    BY <1>3
  <2>2. CASE i - 1 >= N
    BY <1>1, <2>1, <2>2 DEF Stops
  <2>3. CASE i - 1 < N
    <3>. DEFINE j == N - 1 - (i - 1)
    <3>1. j \in 0..(Cardinality(LiveNodes) - 1) /\ g[i-1] = Spot(S, pos, j)
      BY <1>1, <2>1, <2>3 DEF Stops
    <3>. HIDE DEF j
    <3>2. g[i-1] \in S /\ Place(S, pos, g[i-1]) = j
      BY <3>1, SpotFull
    <3>3. /\ j = 0 => PrevOf[g[i-1]] = NoOne
          /\ j # 0 => Spot(S, pos, j - 1) = PrevOf[g[i-1]]
      BY <3>2, SpotPrev
    <3>4. PrevOf[g[i-1]] = node[g[i-1]].prev /\ g[i-1] # NoOne
      BY <3>2 DEF PrevOf
    <3>5. g[i] = IF j = 0 THEN NoOne ELSE Spot(S, pos, j - 1)
      <4>1. j = N - i
        BY <1>1, <2>1 DEF j
      <4>2. CASE j = 0
        BY <1>1, <4>1, <4>2 DEF Stops
      <4>3. CASE j # 0
        <5>1. i < N /\ N - 1 - i = j - 1
          BY <1>1, <3>1, <4>1, <4>3
        <5>. QED
          BY <4>3, <5>1 DEF Stops
      <4>. QED
        BY <4>2, <4>3
    <3>. QED
      BY <3>3, <3>4, <3>5
  <2>. QED
    BY <1>1, <2>1, <2>2, <2>3
<1>4. g = [i \in Nat |-> g[i]]
  BY DEF Stops
<1>. HIDE DEF g
<1>5. g = [i \in Nat |-> IF i = 0 THEN tail ELSE IF g[i-1] = NoOne THEN NoOne ELSE node[g[i-1]].prev]
  BY <1>2, <1>3, <1>4
<1>. QED
  BY <1>5 DEF GoesBackward, g

LEMMA ForwardGoes ==
    ASSUME NEW g, GoesForward(g)
    PROVE  GoesForward(Forward)
<1>1. Forward = CHOOSE f : f = [i \in Nat |-> IF i = 0 THEN head
                                     ELSE IF f[i-1] = NoOne THEN NoOne ELSE node[f[i-1]].next]
  BY DEF Forward
<1>2. Forward = CHOOSE f : GoesForward(f)
  BY <1>1 DEF GoesForward
<1>. QED
  BY <1>2

LEMMA BackwardGoes ==
    ASSUME NEW g, GoesBackward(g)
    PROVE  GoesBackward(Backward)
<1>1. Backward = CHOOSE f : f = [i \in Nat |-> IF i = 0 THEN tail
                                      ELSE IF f[i-1] = NoOne THEN NoOne ELSE node[f[i-1]].prev]
  BY DEF Backward
<1>2. Backward = CHOOSE f : GoesBackward(f)
  BY <1>1 DEF GoesBackward
<1>. QED
  BY <1>2

LEMMA ListIsSound ==
    ASSUME IInv, Quiet
    PROVE  LET n == Cardinality(LiveNodes) IN
           /\ LiveNodes = {ec[c].watch : c \in {d \in Client : LiveConn(d)}} \ {NoOne}
           /\ {Forward[i] : i \in 0..(n-1)} = LiveNodes \ {NoOne}
           /\ Forward[n] = NoOne /\ Backward[n] = NoOne
           /\ \A i \in 0..(n-1) : Backward[i] = Forward[n-1-i]
<1>1. OnList = LiveNodes /\ NoOne \notin LiveNodes
  BY QuietRow
<1>2. PICK pos : Row(LiveNodes, pos, head, tail, NextOf, PrevOf)
  BY QuietRow
<1>. DEFINE n == Cardinality(LiveNodes)
<1>3. IsFiniteSet(LiveNodes) /\ n \in Nat
  BY <1>2, FS_CardinalityType DEF Row
<1>4. \A i \in Nat : Forward[i] = Spot(LiveNodes, pos, i)
  <2>1. GoesForward(Spots(pos))
    BY <1>1, <1>2, SpotsGoForward
  <2>2. GoesForward(Forward)
    BY <2>1, ForwardGoes
  <2>3. \A i \in Nat : Forward[i] = Spots(pos)[i]
    BY <2>1, <2>2, OneForward
  <2>. QED
    BY <2>3 DEF Spots
<1>5. \A i \in Nat : Backward[i] = IF i < n THEN Spot(LiveNodes, pos, n - 1 - i) ELSE NoOne
  <2>1. GoesBackward(Stops(pos))
    BY <1>1, <1>2, StopsGoBackward
  <2>2. GoesBackward(Backward)
    BY <2>1, BackwardGoes
  <2>3. \A i \in Nat : Backward[i] = Stops(pos)[i]
    BY <2>1, <2>2, OneBackward
  <2>. QED
    BY <2>3 DEF Stops
<1>6. LiveNodes = {ec[c].watch : c \in {d \in Client : LiveConn(d)}} \ {NoOne}
  <2>1. at["conn"] = "loop" /\ at["disp"] = "idle"
    BY DEF Quiet, ConnIdle, Walking
  <2>2. \A c \in Client : ec[c].watch # NoOne => ec[c].watch = W(c) /\ W(c) \in OnList
    BY <2>1 DEF IInv, Lists, Watchers, Thread
  <2>3. \A w \in OnList : w[1] \in Client /\ LiveConn(w[1]) /\ ec[w[1]].watch = w
    BY <2>1, OneWatcher DEF IInv, Lists, Watchers, LiveConn, OnList
  <2>. QED
    BY <1>1, <2>2, <2>3
<1>. HIDE DEF n
<1>7. {Forward[i] : i \in 0..(n-1)} = LiveNodes \ {NoOne}
  <2>1. ASSUME NEW i \in 0..(n-1) PROVE Forward[i] \in LiveNodes
    <3>1. i \in Nat /\ i \in 0..(Cardinality(LiveNodes)-1)
      BY <1>3 DEF n
    <3>. QED
      BY <1>1, <1>2, <1>4, <3>1, SpotFull
  <2>2. ASSUME NEW u \in LiveNodes PROVE \E i \in 0..(n-1) : Forward[i] = u
    <3>1. Place(LiveNodes, pos, u) \in 0..(n-1) /\ Spot(LiveNodes, pos, Place(LiveNodes, pos, u)) = u
      BY <1>2, Places, SpotIs DEF n
    <3>2. Place(LiveNodes, pos, u) \in Nat
      BY <1>3, <3>1
    <3>. QED
      BY <1>4, <3>1, <3>2
  <2>. QED
    BY <1>1, <2>1, <2>2
<1>8. Forward[n] = NoOne /\ Backward[n] = NoOne
  <2>1. Spot(LiveNodes, pos, n) = NoOne
    BY <1>1, <1>2, <1>3, SpotEnds DEF n
  <2>. QED
    BY <1>3, <1>4, <1>5, <2>1
<1>9. \A i \in 0..(n-1) : Backward[i] = Forward[n-1-i]
  <2>1. ASSUME NEW i \in 0..(n-1) PROVE i \in Nat /\ i < n /\ n - 1 - i \in Nat
    BY <1>3
  <2>. QED
    BY <1>4, <1>5, <2>1
<1>. QED
  BY <1>6, <1>7, <1>8, <1>9 DEF n

(* Until the threads clash, g_watcherList read from either end between      *)
(* handlers is exactly the watchers of the open connections, each once: no  *)
(* insertion and no removal, wherever on the list and by whichever thread,  *)
(* loses or doubles another watcher.                                        *)
THEOREM ListStaysSound == Spec /\ []Apart => []ListSound
<1>1. IInv => ListSound
  BY ListIsSound DEF ListSound
<1>. QED
  BY <1>1, Invariant, PTL
============================================================================
