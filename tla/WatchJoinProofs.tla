-------------------------- MODULE WatchJoinProofs --------------------------
(***************************************************************************)
(* What holds of the two watch threads however they interleave.  First the *)
(* queue of accept; then, as long as clients only come and ask, the walk   *)
(* that goes on while watchers are inserted.                               *)
(***************************************************************************)
EXTENDS WatchRegistryProofs

----------------------------------------------------------------------------
(***************************************************************************)
(* accept: no failed call, and a descriptor for every client.              *)
(***************************************************************************)
Enough == /\ Failures = FALSE
          /\ IsFiniteSet(Client) /\ IsFiniteSet(Fd) /\ Cardinality(Client) <= Cardinality(Fd)

(* A client waits once or has one descriptor, not both.                     *)
Seats == /\ backlog \in Seq(Client) /\ sock \in [Fd -> Client \cup {NoOne}] /\ DOMAIN at = Thread
         /\ \A f, g \in Fd : sock[f] # NoOne /\ sock[f] = sock[g] => f = g
         /\ \A i, j \in 1..Len(backlog) : backlog[i] = backlog[j] => i = j
         /\ \A f \in Fd : \A i \in 1..Len(backlog) : sock[f] # backlog[i]

(* Somebody is told that a client waits.                                    *)
Announced == backlog # << >> => knock \/ <<NoOne, FALSE>> \in batch \/ at["conn"] = "accept"

LEMMA HeadAndTail ==
    ASSUME Seats, backlog # << >>
    PROVE  /\ Head(backlog) \in Client /\ Tail(backlog) \in Seq(Client)
           /\ \E i \in 1..Len(backlog) : Head(backlog) = backlog[i]
           /\ \A i \in 1..Len(Tail(backlog)) :
                 /\ Tail(backlog)[i] \in Client \ {Head(backlog)}
                 /\ \E j \in 1..Len(backlog) : Tail(backlog)[i] = backlog[j]
           /\ \A i, j \in 1..Len(Tail(backlog)) : Tail(backlog)[i] = Tail(backlog)[j] => i = j
<1>1. /\ Len(Tail(backlog)) = Len(backlog) - 1 /\ Len(backlog) \in Nat \ {0}
      /\ Head(backlog) = backlog[1] /\ \A i \in 1..Len(backlog) : backlog[i] \in Client
      /\ \A i \in 1..Len(Tail(backlog)) : Tail(backlog)[i] = backlog[i+1]
      /\ Tail(backlog) \in Seq(Client)
  BY DEF Seats
<1>2. \A i, j \in 1..Len(backlog) : backlog[i] = backlog[j] => i = j
  BY DEF Seats
<1>3. \A i \in 1..Len(Tail(backlog)) :
         i + 1 \in 1..Len(backlog) /\ i + 1 # 1 /\ 1 \in 1..Len(backlog)
  BY <1>1
<1>. QED
  BY <1>1, <1>2, <1>3

(* While a client waits a descriptor is free: the others have one each.     *)
LEMMA FreeFd ==
    ASSUME Enough, Seats, backlog # << >>
    PROVE  FreeFds # {}
<1>1. SUFFICES ASSUME \A f \in Fd : sock[f] # NoOne PROVE FALSE
  BY DEF FreeFds
<1>. DEFINE c == Head(backlog)
            Others == Client \ {c}
<1>2. c \in Client /\ \A f \in Fd : sock[f] # c
  BY HeadAndTail DEF Seats
<1>3. sock \in [Fd -> Others] /\ \A f, g \in Fd : sock[f] = sock[g] => f = g
  BY <1>1, <1>2 DEF Seats
<1>4. IsFiniteSet(Client) /\ Cardinality(Client) \in Nat
  BY FS_CardinalityType DEF Enough
<1>5. IsFiniteSet(Others) /\ Cardinality(Others) = Cardinality(Client) - 1
  BY <1>2, <1>4, FS_RemoveElement
<1>. HIDE DEF Others, c
<1>6. IsFiniteSet(Fd) /\ Cardinality(Fd) \in Nat /\ Cardinality(Others) < Cardinality(Fd)
  BY <1>4, <1>5, FS_CardinalityType DEF Enough
<1>. QED
  BY <1>3, <1>5, <1>6, FS_PigeonHole

LEMMA SeatsKept ==
    ASSUME Enough, Seats, [Next]_vars
    PROVE  Seats'
<1>0. "conn" \in Thread /\ "disp" \in Thread /\ NoOne \notin Client
  BY RegistryAssumption DEF Thread
<1>1. CASE UNCHANGED <<backlog, sock, at>>
  BY <1>1 DEF Seats
<1>2. CASE UNCHANGED <<backlog, sock>> /\ \E t \in Thread : \E label : Goto(t, label)
  BY <1>2 DEF Seats, Goto
<1>3. ASSUME NEW c \in Client, Connect(c) PROVE Seats'
  <2>1. /\ Len(backlog') = Len(backlog) + 1 /\ Len(backlog) \in Nat
        /\ \A i \in 1..Len(backlog) : backlog'[i] = backlog[i]
        /\ backlog'[Len(backlog) + 1] = c /\ backlog' \in Seq(Client)
    BY <1>3 DEF Connect, Seats
  <2>2. (\A i \in 1..Len(backlog) : backlog[i] # c) /\ \A f \in Fd : sock[f] # c
    BY <1>3 DEF Connect, Connected, Registered
  <2>3. sock' = sock /\ at' = at
    BY <1>3 DEF Connect, EnvFrame
  <2>. QED
    BY <2>1, <2>2, <2>3 DEF Seats
<1>4. CASE Accept
  <2>. DEFINE c == Head(backlog)
              f == Min(FreeFds)
  <2>1. backlog # << >> /\ FreeFds # {} /\ backlog' = Tail(backlog) /\ sock' = [sock EXCEPT ![f] = c] /\ at' = at
    BY <1>4 DEF Accept, Install, AcceptAgain
  <2>2. f \in FreeFds
    BY <2>1, RegistryAssumption, MinIsIn DEF FreeFds
  <2>3. /\ c \in Client /\ backlog' \in Seq(Client) /\ \A g \in Fd : sock[g] # c
        /\ \A i \in 1..Len(backlog') : backlog'[i] # c /\ \A g \in Fd : sock[g] # backlog'[i]
        /\ \A i, j \in 1..Len(backlog') : backlog'[i] = backlog'[j] => i = j
    BY <2>1, HeadAndTail DEF Seats
  <2>. HIDE DEF c, f
  <2>4. f \in Fd /\ sock' \in [Fd -> Client \cup {NoOne}] /\ sock'[f] = c
        /\ \A g \in Fd \ {f} : sock'[g] = sock[g]
    BY <2>1, <2>2, <2>3 DEF Seats, FreeFds
  <2>. QED
    BY <2>1, <2>3, <2>4 DEF Seats
<1>5. ASSUME NEW t \in Thread, RmClose(t) PROVE Seats'
  <2>1. CASE UNCHANGED <<backlog, sock, at>>
    BY <1>1, <2>1
  <2>2. CASE ~UNCHANGED <<backlog, sock, at>>
    <3>1. backlog' = backlog /\ sock' = [sock EXCEPT ![ec[arg[t]].fd] = NoOne] /\ \E label : Goto(t, label)
      BY <1>5, <2>2 DEF RmClose, RmGoto, RmFrame, clients, Crash, kernel
    <3>2. sock' \in [Fd -> Client \cup {NoOne}] /\ \A f \in Fd : sock'[f] = sock[f] \/ sock'[f] = NoOne
      BY <3>1 DEF Seats
    <3>3. DOMAIN at' = Thread
      BY <3>1 DEF Seats, Goto
    <3>4. \A i \in 1..Len(backlog) : backlog[i] \in Client
      BY DEF Seats
    <3>. QED
      BY <1>0, <3>1, <3>2, <3>3, <3>4 DEF Seats
  <2>. QED
    BY <2>1, <2>2
<1>6. CASE UNCHANGED vars
  BY <1>1, <1>6 DEF vars, clients, kernel
<1>7. ASSUME NEW c \in Client, Leave(c) \/ \E kind \in Asks(c) : Request(c, kind) PROVE Seats'
  BY <1>1, <1>7 DEF Leave, Request, EnvFrame
<1>8. ASSUME NEW t \in Thread, RmFilter(t) \/ RmPrev(t) \/ RmNext(t) \/ RmFree(t) \/ RmFreeConn(t) PROVE Seats'
  BY <1>0, <1>1, <1>2, <1>8 DEF RmFilter, RmPrev, RmNext, RmFree, RmFreeConn, RmGoto, RmFrame, Crash, clients, kernel
<1>9. CASE WaitEvents \/ HandleEvent \/ AcceptNothing
  BY <1>0, <1>1, <1>2, <1>9 DEF WaitEvents, HandleEvent, AcceptNothing, ConnFrame, Crash, clients, kernel
<1>10. CASE AcceptFails
  BY <1>10 DEF AcceptFails, Enough
<1>11. CASE Recv \/ Answer
  BY <1>0, <1>1, <1>2, <1>11 DEF Recv, Answer, RecvFrame, Crash, clients, kernel
<1>12. CASE AddWatchList
  BY <1>0, <1>1, <1>2, <1>12 DEF AddWatchList, AddMalloc, AddTail, InsertPublish, InsertBacklink, InsertPointers, Attach,
         AddGoto, AddFrame, Crash, clients, kernel
<1>13. CASE GetLine \/ ReadNext \/ ReadFd \/ DoFilter \/ Send
  BY <1>0, <1>1, <1>2, <1>13 DEF GetLine, ReadNext, ReadFd, DoFilter, Send, Advance, DispFrame, Crash, clients, kernel
<1>14. CASE Env
  BY <1>3, <1>7, <1>14 DEF Env
<1>15. CASE \E t \in Thread : RemoveClient(t)
  BY <1>5, <1>8, <1>15 DEF RemoveClient
<1>. QED
  BY <1>0, <1>4, <1>6, <1>9, <1>10, <1>11, <1>12, <1>13, <1>14, <1>15 DEF Next, ConnNext, DispNext

LEMMA AnnouncedKept ==
    ASSUME Enough, Seats, Announced, [Next]_vars
    PROVE  Announced'
<1>0. "conn" \in Thread /\ "disp" \in Thread /\ NoOne \notin Client /\ DOMAIN at = Thread
  BY RegistryAssumption DEF Thread, Seats
<1>1. CASE backlog' = backlog /\ knock' = knock /\ batch' = batch /\ (at["conn"] = "accept" => at'["conn"] = "accept")
  BY <1>1 DEF Announced
<1>2. ASSUME \E label : Goto("disp", label) PROVE at'["conn"] = at["conn"]
  BY <1>0, <1>2 DEF Goto
<1>3. ASSUME NEW c \in Client, Connect(c) PROVE Announced'
  BY <1>3 DEF Connect, Announced
<1>4. CASE Accept
  BY <1>4 DEF Accept, AcceptAgain, Announced
<1>5. CASE AcceptNothing
  BY <1>5, FreeFd DEF AcceptNothing, Announced, clients
<1>6. CASE WaitEvents
  <2>1. backlog # << >> => knock
    BY <1>6 DEF WaitEvents, Announced
  <2>2. knock => <<NoOne, FALSE>> \in batch'
    BY <1>6 DEF WaitEvents
  <2>. QED
    BY <1>6, <2>1, <2>2 DEF Announced, WaitEvents, ConnFrame, clients
<1>7. CASE HandleEvent
  <2>1. CASE Crash
    BY <1>1, <2>1 DEF Crash, clients, kernel, conn
  <2>2. CASE ~Crash
    <3>1. PICK e \in batch : /\ batch' = batch \ {e}
                             /\ Goto("conn", IF e[1] = NoOne THEN "accept" ELSE IF e[2] THEN "close" ELSE "recv")
                             /\ UNCHANGED kernel /\ ConnFrame
      BY <1>7, <2>2 DEF HandleEvent
    <3>2. e[1] = NoOne => at'["conn"] = "accept"
      BY <1>0, <3>1 DEF Goto
    <3>3. <<NoOne, FALSE>> \in batch => <<NoOne, FALSE>> \in batch' \/ e[1] = NoOne
      <4>1. CASE e = <<NoOne, FALSE>>
        BY <4>1
      <4>2. CASE e # <<NoOne, FALSE>>
        BY <3>1, <4>2
      <4>. QED
        BY <4>1, <4>2
    <3>4. backlog' = backlog /\ knock' = knock /\ at["conn"] # "accept"
      BY <1>7, <3>1 DEF HandleEvent, ConnFrame, clients, kernel
    <3>. QED
      BY <3>2, <3>3, <3>4 DEF Announced
  <2>. QED
    BY <2>1, <2>2
<1>8. CASE UNCHANGED vars
  BY <1>1, <1>8 DEF vars, clients, kernel, conn
<1>9. ASSUME NEW c \in Client, Leave(c) \/ \E kind \in Asks(c) : Request(c, kind) PROVE Announced'
  BY <1>1, <1>9 DEF Leave, Request, EnvFrame, conn
<1>10. ASSUME NEW t \in Thread, RemoveClient(t) PROVE Announced'
  <2>1. backlog' = backlog /\ knock' = knock /\ batch' = batch
    BY <1>10 DEF RemoveClient, RmClose, RmFilter, RmPrev, RmNext, RmFree, RmFreeConn, RmGoto, RmFrame, Crash,
           clients, kernel, conn
  <2>2. at' = at \/ \E label : Goto(t, label)
    BY <1>10 DEF RemoveClient, RmClose, RmFilter, RmPrev, RmNext, RmFree, RmFreeConn, RmGoto, Crash
  <2>3. t = "conn" => at["conn"] # "accept"
    BY <1>10 DEF RemoveClient, RmClose, RmFilter, RmPrev, RmNext, RmFree, RmFreeConn
  <2>. QED
    BY <1>0, <1>1, <1>2, <2>1, <2>2, <2>3 DEF Thread
<1>11. CASE AcceptFails
  BY <1>11 DEF AcceptFails, Enough
<1>12. CASE Recv \/ Answer
  BY <1>1, <1>12 DEF Recv, Answer, RecvFrame, Crash, clients, kernel, conn
<1>13. CASE AddWatchList
  BY <1>1, <1>13 DEF AddWatchList, AddMalloc, AddTail, InsertPublish, InsertBacklink, InsertPointers, Attach,
         AddGoto, AddFrame, Crash, clients, kernel, conn
<1>14. CASE GetLine \/ ReadNext \/ ReadFd \/ DoFilter \/ Send
  <2>1. backlog' = backlog /\ knock' = knock /\ batch' = batch
    BY <1>14 DEF GetLine, ReadNext, ReadFd, DoFilter, Send, DispFrame, Crash, clients, kernel, conn
  <2>2. at' = at \/ \E label : Goto("disp", label)
    BY <1>14 DEF GetLine, ReadNext, ReadFd, DoFilter, Send, Advance, Crash
  <2>. QED
    BY <1>1, <1>2, <2>1, <2>2
<1>15. CASE Env
  BY <1>3, <1>9, <1>15 DEF Env
<1>. QED
  BY <1>0, <1>4, <1>5, <1>6, <1>7, <1>8, <1>10, <1>11, <1>12, <1>13, <1>14, <1>15 DEF Next, ConnNext, DispNext

(* Edge-triggered accept: as long as no call fails and the descriptors last *)
(* for all clients, epollProcessEvent never goes to sleep on a connection   *)
(* that waits to be accepted, however the two threads interleave, whatever  *)
(* clients ask and whenever they leave.                                     *)
THEOREM NobodyWaitsUnannounced ==
    ASSUME Enough
    PROVE  Spec => []BacklogDrained
<1>1. Init => Seats /\ Announced
  BY DEF Init, Seats, Announced
<1>2. Seats /\ Announced /\ [Next]_vars => (Seats /\ Announced)'
  BY SeatsKept, AnnouncedKept
<1>3. Announced => BacklogDrained
  BY DEF Announced, BacklogDrained, ConnIdle
<1>. QED
  BY <1>1, <1>2, <1>3, PTL DEF Spec

----------------------------------------------------------------------------
(***************************************************************************)
(* The walk and the insertions, at the same time: clients that come and    *)
(* ask well, and nothing that fails, so that nothing is ever removed.      *)
(***************************************************************************)
Joining == /\ MaxGood = 1 /\ Leaver = {} /\ Staller = {} /\ Failures = FALSE
           /\ \A c \in Client : Asks(c) \subseteq {"good"}

Serving == {"recv", "answer", "malloc", "attach"} \cup Insertion
Walks == {"next"} \cup Visit

OnlyJoining ==
    /\ at["conn"] \in {"loop", "accept"} \cup Serving
    /\ at["disp"] \in {"idle"} \cup Walks
    /\ \A c \in Client : ~gone[c] /\ \A i \in 1..Len(unread[c]) : unread[c][i] = "good"

Joined ==
    /\ Sockets /\ Waiting
    /\ \A e \in batch : e[1] # NoOne => ec[e[1]].st = "live" /\ e[2] = FALSE
    /\ at["conn"] \in Serving => arg["conn"] \in Client /\ ec[arg["conn"]].st = "live"

(* The watchers the walk can reach: those that dllInsert has published.     *)
Reached == {w \in Watcher : node[w].st = "live"
                            /\ ~(at["conn"] \in {"tail", "publish"} /\ wat["conn"] = w)}

Joiners ==
    /\ \A w \in Watcher : node[w].st # "freed" /\ (node[w].st = "live" => node[w].filter)
    /\ \A c \in Client : ec[c].watch # NoOne => ec[c].watch = W(c) /\ W(c) \in Reached
    /\ at["conn"] \in {"answer", "malloc"} => node[W(arg["conn"])].st = "none"
    /\ at["conn"] \in Insertion \cup {"attach"} =>
          wat["conn"] = W(arg["conn"]) /\ node[wat["conn"]].st = "live"
    /\ at["conn"] \in {"tail", "publish"} => node[wat["conn"]].next = Junk

(* The list grows at its end; only the newest may lack its own next.        *)
Half == at["conn"] \in {"backlink", "pointers"}

Chain(pos) ==
    /\ \A u, v \in Reached : pos[u] = pos[v] => u = v
    /\ (head = NoOne /\ Reached = {}) \/ (head \in Reached /\ Least(Reached, pos, head))
    /\ at["conn"] # "backlink" =>
          (tail = NoOne /\ Reached = {}) \/ (tail \in Reached /\ Most(Reached, pos, tail))
    /\ \A u \in Reached : \/ (node[u].next \in {NoOne, Junk} /\ Most(Reached, pos, u))
                          \/ Adjacent(Reached, pos, u, node[u].next)
    /\ \A u \in Reached : node[u].next = Junk => Half /\ wat["conn"] = u
    /\ at["conn"] = "publish" => prv = tail
    /\ Half => nxt = NoOne /\ Most(Reached, pos, wat["conn"])

(* Where the walk is: who has the line, who is owed it still.               *)
Walk(pos) ==
    /\ \A c \in owed : W(c) \in Reached /\ Matches(c, line)
    /\ at["disp"] = "idle" => \A c \in owed : In(line, screen[c])
    /\ at["disp"] \in Walks =>
          /\ pnode \in Reached /\ line # 0
          /\ \A c \in owed : In(line, screen[c]) \/ pos[pnode] <= pos[W(c)]
          /\ \A u \in Reached : In(line, screen[u[1]]) => pos[u] < pos[pnode]
    /\ at["disp"] \in Visit =>
          \/ (saved = NoOne /\ \A c \in owed : pos[W(c)] <= pos[pnode])
          \/ (saved # NoOne /\ Adjacent(Reached, pos, pnode, saved))
    /\ at["disp"] \in {"filter", "send"} => ec[pnode[1]].st = "live" /\ fd = ec[pnode[1]].fd
    /\ at["disp"] = "send" => Matches(pnode[1], line)

Seen ==
    /\ \A c \in Client : \A i \in 1..Len(screen[c]) :
          screen[c][i] = Ack \/ (screen[c][i] \in 1..line /\ W(c) \in Reached)
    /\ \A c \in Client : In(Ack, screen[c]) =>
          Good(asked[c]) /\ ~Good(unread[c]) /\ ~(at["conn"] = "answer" /\ arg["conn"] = c)
    /\ \A w \in Watcher : node[w].st = "live" => In(Ack, screen[w[1]])
    /\ at["conn"] = "malloc" => In(Ack, screen[arg["conn"]])

JInv == /\ TypeOK /\ OnlyJoining /\ Joined /\ Requests /\ Joiners /\ Seen
        /\ \E pos \in [Watcher -> Int] : Chain(pos) /\ Walk(pos)

----------------------------------------------------------------------------
(***************************************************************************)
(* Lemmas that many steps share.                                           *)
(***************************************************************************)
LEMMA JTypes ==
    ASSUME JInv
    PROVE  /\ node \in [Watcher -> watcher_t] /\ ec \in [Client -> eventConn_t]
           /\ {head, tail, prv, nxt, pnode} \subseteq Watcher \cup {NoOne, Junk}
           /\ wat \in [Thread -> Watcher \cup {NoOne}] /\ arg \in [Thread -> Client \cup {NoOne}]
           /\ DOMAIN at = Thread /\ sock \in [Fd -> Client \cup {NoOne}]
           /\ screen \in [Client -> Seq((1..LastLine) \cup {Ack, Nack})]
           /\ line \in 0..LastLine /\ line \in Nat /\ line # Ack /\ LastLine \in Nat /\ Ack # Nack
           /\ Reached \subseteq Watcher /\ owed \subseteq Client
<1>1. line \in 0..LastLine /\ LastLine \in Nat /\ Ack \notin Nat /\ Ack # Nack
  BY RegistryAssumption DEF JInv, TypeOK
<1>. QED
  BY <1>1 DEF JInv, TypeOK, watcher_t, eventConn_t, Reached

LEMMA GoConn ==
    ASSUME JInv, NEW label, Goto("conn", label)
    PROVE  at'["conn"] = label /\ at'["disp"] = at["disp"] /\ DOMAIN at' = Thread
  BY JTypes DEF Goto, Thread

LEMMA GoDisp ==
    ASSUME JInv, NEW label, Goto("disp", label)
    PROVE  at'["disp"] = label /\ at'["conn"] = at["conn"] /\ DOMAIN at' = Thread
  BY JTypes DEF Goto, Thread

(* No descriptor is closed.                                                 *)
LEMMA NoClosing ==
    ASSUME OnlyJoining
    PROVE  \A c : ~Closing(c)
<1>1. at["conn"] \notin AfterClose /\ at["disp"] \notin AfterClose
  BY DEF OnlyJoining, Serving, Insertion, Walks, Visit, AfterClose
<1>. QED
  BY <1>1 DEF Closing, Thread

(* A connection that is served has its descriptor.                          *)
LEMMA Served ==
    ASSUME Joining, JInv
    PROVE  /\ \A c \in Client : ec[c].st = "live" => ec[c].fd \in Fd /\ sock[ec[c].fd] = c
           /\ at["conn"] \in Serving => LET c == arg["conn"] IN
                 /\ c \in Client /\ LiveConn(c) /\ ec[c].st = "live" /\ ec[c].fd \in Fd
                 /\ sock[ec[c].fd] = c /\ c # NoOne
<1>1. \A c \in Client : ec[c].st = "live" => ec[c].fd \in Fd /\ sock[ec[c].fd] = c
  BY NoClosing DEF JInv, Joined, Sockets
<1>. QED
  BY <1>1, OneWatcherEach DEF JInv, Joined, LiveConn, Joining

(* send to a client that neither leaves nor stalls.                         *)
LEMMA SendWorks ==
    ASSUME Joining, JInv, NEW f, sock[f] \in Client
    PROVE  SendResults(f) = {TRUE}
  BY OneWatcherEach DEF SendResults, Joining, JInv, OnlyJoining

LEMMA ConnectionsKept ==
    ASSUME Joining, JInv, UNCHANGED <<backlog, sock, event, gone>>, batch' \subseteq batch,
           at'["conn"] \in {"loop", "accept"} \cup Serving, at'["disp"] \in {"idle"} \cup Walks,
           \A c \in Client : ec'[c].st = ec[c].st /\ ec'[c].fd = ec[c].fd,
           \A c \in Client : \A i \in 1..Len(unread'[c]) : unread'[c][i] = "good",
           at'["conn"] \in Serving => arg'["conn"] \in Client /\ ec[arg'["conn"]].st = "live"
    PROVE  OnlyJoining' /\ Joined'
<1>1. OnlyJoining'
  BY DEF JInv, OnlyJoining
<1>2. \A c : ~Closing(c)'
  <2>1. at'["conn"] \notin AfterClose /\ at'["disp"] \notin AfterClose
    BY DEF Serving, Insertion, Walks, Visit, AfterClose
  <2>. QED
    BY <2>1 DEF Closing, Thread
<1>3. \A c \in Client : ec[c].st = "live" => ec[c].fd \in Fd /\ sock[ec[c].fd] = c
  BY Served
<1>4. \A f \in Fd : sock[f] \in Client \cup {NoOne}
  BY JTypes
<1>5. Sockets'
  BY <1>2, <1>3, <1>4 DEF JInv, Joined, Sockets, Registered
<1>6. Waiting'
  BY DEF JInv, TypeOK, Joined, Waiting
<1>7. \A e \in batch' : e[1] # NoOne => ec'[e[1]].st = "live" /\ e[2] = FALSE
  BY DEF JInv, TypeOK, Joined
<1>. QED
  BY <1>1, <1>5, <1>6, <1>7 DEF Joined

(* A step that leaves what the walk needs: the list, and the clients'       *)
(* screens but for an answer.                                               *)
DispStays == at'["disp"] = at["disp"] /\ UNCHANGED <<line, pnode, saved, fd, owed>>
LinesStay == \A c \in Client : \A y : y # Ack => (In(y, screen'[c]) <=> In(y, screen[c]))

LEMMA WalkStays ==
    ASSUME Joining, JInv, DispStays, LinesStay, Reached' = Reached,
           \A c \in Client : ec[c].st = "live" => ec'[c].st = "live" /\ ec'[c].fd = ec[c].fd,
           NEW pos, Walk(pos)
    PROVE  Walk(pos)'
<1>1. \A c \in owed : c \in Client
  BY JTypes
<1>2. \A c \in Client : In(line, screen'[c]) <=> In(line, screen[c])
  BY JTypes DEF LinesStay
<1>3. \A u \in Reached : u[1] \in Client
  BY JTypes, OneWatcherEach DEF Joining
<1>4. at["disp"] \in Walks => pnode \in Reached
  BY DEF Walk
<1>. QED
  BY <1>1, <1>2, <1>3, <1>4 DEF Walk, DispStays, Walks, Visit

LEMMA ChainStays ==
    ASSUME JInv, UNCHANGED <<head, tail, prv, nxt, wat>>, Reached' = Reached,
           \A w \in Watcher : node'[w].next = node[w].next,
           at["conn"] \notin {"publish", "backlink", "pointers"},
           at'["conn"] \notin {"publish", "backlink", "pointers"},
           NEW pos, Chain(pos)
    PROVE  Chain(pos)'
  BY JTypes DEF Chain, Half

Idle == {"loop", "accept", "recv", "answer", "malloc"}

LEMMA ListUntouched ==
    ASSUME Joining, JInv, DispStays, LinesStay, UNCHANGED <<node, head, tail, prv, nxt, wat>>,
           at["conn"] \in Idle, at'["conn"] \in Idle,
           \A c \in Client : ec'[c] = ec[c] \/ (ec[c].st = "none" /\ ec'[c].watch = NoOne),
           at'["conn"] \in {"answer", "malloc"} => node[W(arg'["conn"])].st = "none"
    PROVE  Joiners' /\ Reached' = Reached /\ \E pos \in [Watcher -> Int] : Chain(pos)' /\ Walk(pos)'
<1>1. Reached' = Reached
  BY DEF Reached, Idle
<1>2. Joiners'
  BY <1>1 DEF JInv, Joiners, Idle, Insertion
<1>3. PICK pos \in [Watcher -> Int] : Chain(pos) /\ Walk(pos)
  BY DEF JInv
<1>4. Chain(pos)'
  BY <1>1, <1>3, ChainStays DEF Idle
<1>5. Walk(pos)'
  BY <1>1, <1>3, WalkStays
<1>. QED
  BY <1>1, <1>2, <1>3, <1>4, <1>5

(* What has been seen, when no screen changes.                              *)
LEMMA SeenStays ==
    ASSUME JInv, UNCHANGED <<screen, asked, node, line>>, Reached' = Reached,
           \A c \in Client : Good(unread'[c]) => Good(unread[c]),
           at'["conn"] = "answer" => ~In(Ack, screen[arg'["conn"]]),
           at'["conn"] = "malloc" => In(Ack, screen[arg'["conn"]])
    PROVE  Seen'
  BY DEF JInv, Seen

----------------------------------------------------------------------------
(***************************************************************************)
(* The steps outside the list.                                             *)
(***************************************************************************)
LEMMA JInit ==
    ASSUME Joining, Init
    PROVE  JInv
<1>1. TypeOK
  <2>. USE OneWatcherEach DEF Joining
  <2>1. line \in 0..LastLine
    BY RegistryAssumption DEF Init
  <2>2. node \in [Watcher -> watcher_t]
    BY DEF Init, NoNode, watcher_t
  <2>3. ec \in [Client -> eventConn_t]
    BY DEF Init, None, eventConn_t
  <2>4. backlog \in Seq(Client) /\ asked \in [Client -> Seq(Kinds)] /\ unread \in [Client -> Seq(Kinds)]
    BY DEF Init
  <2>5. screen \in [Client -> Seq((1..LastLine) \cup {Ack, Nack})]
    BY DEF Init
  <2>6. gone \in [Client -> BOOLEAN] /\ event \in [Client -> BOOLEAN] /\ {knock, crashed} \subseteq BOOLEAN
    BY DEF Init
  <2>7. DOMAIN at = Thread
    BY DEF Init
  <2>. QED
    BY <2>1, <2>2, <2>3, <2>4, <2>5, <2>6, <2>7 DEF Init, TypeOK, watcher_t, eventConn_t
<1>2. at["conn"] = "loop" /\ at["disp"] = "idle"
  BY DEF Init, Thread
<1>3. \A w \in Watcher : node[w].st = "none"
  BY DEF Init, NoNode
<1>4. Reached = {}
  BY <1>3 DEF Reached
<1>5. OnlyJoining /\ Joined
  BY <1>2 DEF Init, OnlyJoining, Joined, Sockets, Waiting, Serving, Insertion, Walks, Visit, None
<1>6. Requests /\ Joiners /\ Seen
  <2>1. \A c \in Client : asked[c] = << >> /\ unread[c] = << >> /\ screen[c] = << >> /\ ec[c].watch = NoOne
    BY DEF Init, None
  <2>2. \A c \in Client : Len(screen[c]) = 0 /\ Len(unread[c]) = 0 /\ Len(asked[c]) = 0
    BY <2>1
  <2>3. \A c \in Client : \A x : ~In(x, screen[c]) /\ ~In(x, unread[c]) /\ ~In(x, asked[c])
    BY <2>2 DEF In
  <2>4. Requests
    BY <1>2, <1>3, <2>2, <2>3, OneWatcherEach DEF Requests, OneGood, Good, Handling, Joining
  <2>5. Joiners
    BY <1>2, <1>3, <2>1 DEF Joiners, Insertion
  <2>6. Seen
    BY <1>2, <1>3, <2>2, <2>3 DEF Seen
  <2>. QED
    BY <2>4, <2>5, <2>6
<1>7. \E pos \in [Watcher -> Int] : Chain(pos) /\ Walk(pos)
  <2>1. [w \in Watcher |-> 0] \in [Watcher -> Int]
    OBVIOUS
  <2>2. Chain([w \in Watcher |-> 0]) /\ Walk([w \in Watcher |-> 0])
    BY <1>2, <1>4 DEF Init, Chain, Walk, Half, Walks, Visit
  <2>. QED
    BY <2>1, <2>2
<1>. QED
  BY <1>1, <1>5, <1>6, <1>7 DEF JInv

(* Nothing happens, or memory is used that must not be.                     *)
LEMMA JStutter ==
    ASSUME JInv, UNCHANGED <<clients, kernel, memory, at, arg, wat, conn, disp>>, crashed' \in BOOLEAN
    PROVE  JInv'
<1>. USE DEF clients, kernel, memory, conn, disp
<1>1. TypeOK'
  BY DEF JInv, TypeOK
<1>2. Reached' = Reached
  BY DEF Reached
<1>3. OnlyJoining' /\ Joined' /\ Requests' /\ Joiners' /\ Seen'
  BY <1>2 DEF JInv, OnlyJoining, Joined, Sockets, Waiting, Closing, Registered, Requests, Handling, Joiners, Seen
<1>4. \A pos : (Chain(pos) => Chain(pos)') /\ (Walk(pos) => Walk(pos)')
  BY <1>2 DEF Chain, Half, Walk
<1>. QED
  BY <1>1, <1>3, <1>4 DEF JInv

LEMMA EnvKeepsList ==
    ASSUME JInv, EnvFrame
    PROVE  Joiners' /\ Reached' = Reached /\ \E pos \in [Watcher -> Int] : Chain(pos)' /\ Walk(pos)'
<1>. USE DEF EnvFrame, memory, conn, disp
<1>1. Reached' = Reached
  BY DEF Reached
<1>2. Joiners'
  BY <1>1 DEF JInv, Joiners
<1>3. \A pos : (Chain(pos) => Chain(pos)') /\ (Walk(pos) => Walk(pos)')
  BY <1>1 DEF Chain, Half, Walk
<1>. QED
  BY <1>1, <1>2, <1>3 DEF JInv

LEMMA JConnect ==
    ASSUME Joining, JInv, NEW c \in Client, Connect(c)
    PROVE  JInv'
<1>1. TypeOK'
  BY DEF JInv, TypeOK, Connect, EnvFrame, memory, conn, disp
<1>2. Waiting'
  <2>1. /\ Len(backlog') = Len(backlog) + 1 /\ Len(backlog) \in Nat
        /\ \A i \in 1..Len(backlog) : backlog'[i] = backlog[i]
        /\ backlog'[Len(backlog) + 1] = c
    BY DEF Connect, JInv, TypeOK
  <2>2. \A i \in 1..Len(backlog) : backlog[i] # c
    BY DEF Connect, Connected
  <2>. QED
    BY <2>1, <2>2 DEF JInv, Joined, Waiting, Connect, EnvFrame, memory
<1>3. OnlyJoining' /\ Sockets'
  BY DEF JInv, Joined, OnlyJoining, Sockets, Registered, Closing, Connect, EnvFrame, memory
<1>4. Joined'
  BY <1>2, <1>3 DEF JInv, Joined, Connect, EnvFrame, memory, conn
<1>5. Requests'
  BY DEF JInv, Requests, Handling, Connect, EnvFrame, memory
<1>6. EnvFrame
  BY DEF Connect
<1>7. Seen'
  BY <1>6, EnvKeepsList DEF JInv, Seen, Connect, EnvFrame, memory, disp
<1>. QED
  BY <1>1, <1>3, <1>4, <1>5, <1>6, <1>7, EnvKeepsList DEF JInv

LEMMA JRequest ==
    ASSUME Joining, JInv, NEW c \in Client, NEW kind \in Asks(c), Request(c, kind)
    PROVE  JInv'
<1>1. kind = "good" /\ kind \in Kinds
  BY DEF Joining, Kinds
<1>2. TypeOK'
  <2>1. asked' \in [Client -> Seq(Kinds)] /\ unread' \in [Client -> Seq(Kinds)]
    BY <1>1 DEF JInv, TypeOK, Request
  <2>2. event' \in [Client -> BOOLEAN]
    BY DEF JInv, TypeOK, Request, Registered
  <2>. QED
    BY <2>1, <2>2 DEF JInv, TypeOK, Request, EnvFrame, memory, conn, disp
<1>3. ~Good(asked[c])
  BY <1>1, FirstGood DEF Joining, JInv
<1>4. /\ \A y : In(y, asked[c]') <=> In(y, asked[c]) \/ y = kind
      /\ \A y : In(y, unread[c]') <=> In(y, unread[c]) \/ y = kind
      /\ OneGood(unread[c]')
  BY <1>1, <1>3, AppendIn, AppendGood DEF JInv, TypeOK, Request, Requests
<1>5. \A d \in Client \ {c} : asked'[d] = asked[d] /\ unread'[d] = unread[d]
  BY DEF Request, JInv, TypeOK
<1>6. EnvFrame /\ UNCHANGED <<backlog, gone>>
  BY DEF Request
<1>7. OnlyJoining'
  <2>1. \A d \in Client : \A y : In(y, unread[d]) => y = "good"
    BY DEF JInv, OnlyJoining, In
  <2>2. \A d \in Client : \A y : In(y, unread'[d]) => y = "good"
    BY <1>1, <1>4, <1>5, <2>1
  <2>3. \A d \in Client : \A i \in 1..Len(unread'[d]) : unread'[d][i] = "good"
    BY <2>2 DEF In
  <2>. QED
    BY <1>6, <2>3 DEF JInv, OnlyJoining, EnvFrame
<1>8. Joined'
  BY <1>6 DEF JInv, TypeOK, Joined, Sockets, Waiting, Registered, Closing, Request, EnvFrame, memory, conn
<1>9. Requests'
  BY <1>3, <1>4, <1>5, <1>6 DEF JInv, Requests, Good, Handling, EnvFrame, memory
<1>10. Seen'
  <2>1. Reached' = Reached
    BY <1>6, EnvKeepsList
  <2>2. ASSUME NEW d \in Client, In(Ack, screen[d])
        PROVE  Good(asked'[d]) /\ ~Good(unread'[d]) /\ ~(at["conn"] = "answer" /\ arg["conn"] = d)
    <3>1. Good(asked[d]) /\ ~Good(unread[d]) /\ ~(at["conn"] = "answer" /\ arg["conn"] = d)
      BY <2>2 DEF JInv, Seen
    <3>. QED
      BY <1>3, <1>5, <3>1
  <2>. QED
    BY <1>6, <2>1, <2>2 DEF JInv, Seen, EnvFrame, memory, disp
<1>. QED
  BY <1>2, <1>6, <1>7, <1>8, <1>9, <1>10, EnvKeepsList DEF JInv

LEMMA JWaitEvents ==
    ASSUME Joining, JInv, WaitEvents
    PROVE  JInv'
<1>1. /\ at["conn"] = "loop" /\ at' = at
      /\ UNCHANGED <<unread, screen, sock, memory, at, arg, wat, prv, nxt>> /\ ConnFrame
  BY DEF WaitEvents
<1>2. \A e \in batch' : \/ \E c \in Client : event[c] /\ e = <<c, gone[c]>>
                        \/ e = <<NoOne, FALSE>>
  <2>1. batch' = {<<c, gone[c]>> : c \in {d \in Client : event[d]}}
                \cup (IF knock THEN {<<NoOne, FALSE>>} ELSE {})
    BY DEF WaitEvents
  <2>2. ASSUME NEW e \in {<<c, gone[c]>> : c \in {d \in Client : event[d]}}
        PROVE  \E c \in Client : event[c] /\ e = <<c, gone[c]>>
    OBVIOUS
  <2>. QED
    BY <2>1, <2>2
<1>3. \A c \in Client : gone[c] = FALSE /\ (event[c] => ec[c].st = "live")
  <2>1. \A c \in Client : gone[c] \in BOOLEAN /\ ~gone[c] /\ c # NoOne
    BY OneWatcherEach DEF JInv, TypeOK, OnlyJoining, Joining
  <2>. QED
    BY <2>1 DEF JInv, Joined, Sockets, Registered
<1>4. \A e \in batch' : /\ e \in (Client \cup {NoOne}) \X BOOLEAN
                        /\ e[1] # NoOne => ec[e[1]].st = "live" /\ e[2] = FALSE
  <2>1. ASSUME NEW e \in batch', e = <<NoOne, FALSE>>
        PROVE  e \in (Client \cup {NoOne}) \X BOOLEAN /\ e[1] = NoOne
    BY <2>1
  <2>2. ASSUME NEW e \in batch', NEW c \in Client, event[c], e = <<c, gone[c]>>
        PROVE  e \in (Client \cup {NoOne}) \X BOOLEAN /\ ec[e[1]].st = "live" /\ e[2] = FALSE
    BY <1>3, <2>2
  <2>. QED
    BY <1>2, <2>1, <2>2
<1>5. TypeOK'
  <2>1. batch' \subseteq (Client \cup {NoOne}) \X BOOLEAN
    BY <1>4
  <2>2. event' \in [Client -> BOOLEAN] /\ knock' \in BOOLEAN
    BY DEF WaitEvents
  <2>. QED
    BY <1>1, <2>1, <2>2 DEF JInv, TypeOK, ConnFrame, clients, memory, disp
<1>6. OnlyJoining' /\ Joined' /\ Requests'
  <2>1. \A c \in Client : event'[c] = FALSE
    BY DEF WaitEvents
  <2>. QED
    BY <1>1, <1>4, <2>1 DEF JInv, OnlyJoining, Joined, Sockets, Waiting, Closing, Requests, Handling,
      ConnFrame, clients, memory
<1>7. Joiners' /\ Reached' = Reached /\ \E pos \in [Watcher -> Int] : Chain(pos)' /\ Walk(pos)'
  BY <1>1, ListUntouched DEF Idle, DispStays, LinesStay, ConnFrame, memory, disp
<1>8. Seen'
  BY <1>1, <1>7, SeenStays DEF ConnFrame, clients, memory, disp
<1>. QED
  BY <1>5, <1>6, <1>7, <1>8 DEF JInv

LEMMA JHandleEvent ==
    ASSUME Joining, JInv, HandleEvent
    PROVE  JInv'
<1>1. CASE Crash
  BY <1>1, JStutter DEF Crash
<1>2. ASSUME ~Crash PROVE JInv'
  <2>1. PICK e \in batch : /\ e[1] = NoOne \/ LiveConn(e[1])
                           /\ batch' = batch \ {e} /\ arg' = [arg EXCEPT !["conn"] = e[1]]
                           /\ Goto("conn", IF e[1] = NoOne THEN "accept" ELSE IF e[2] THEN "close" ELSE "recv")
                           /\ UNCHANGED <<kernel, memory, wat, prv, nxt>> /\ ConnFrame
    BY <1>2 DEF HandleEvent
  <2>2. e[1] \in Client \cup {NoOne} /\ (e[1] # NoOne => ec[e[1]].st = "live" /\ e[2] = FALSE)
    BY DEF JInv, TypeOK, Joined
  <2>3. /\ at'["conn"] = (IF e[1] = NoOne THEN "accept" ELSE "recv") /\ at'["disp"] = at["disp"] /\ DOMAIN at' = Thread
    BY <2>1, <2>2, GoConn
  <2>4. arg' \in [Thread -> Client \cup {NoOne}] /\ arg'["conn"] = e[1]
    BY <2>1, <2>2, JTypes DEF Thread
  <2>5. TypeOK'
    <3>1. TypeOK /\ batch' \subseteq (Client \cup {NoOne}) \X BOOLEAN
      BY <2>1 DEF JInv, TypeOK
    <3>2. UNCHANGED <<kernel, memory, wat, prv, nxt, clients, crashed, disp>>
      BY <2>1 DEF ConnFrame
    <3>. QED
      BY <2>3, <2>4, <3>1, <3>2 DEF TypeOK, clients, memory, kernel, disp
  <2>6. OnlyJoining' /\ Joined'
    <3>1. at'["conn"] \in {"loop", "accept"} \cup Serving /\ at'["disp"] \in {"idle"} \cup Walks
      BY <2>3 DEF Serving, JInv, OnlyJoining
    <3>2. \A c \in Client : \A i \in 1..Len(unread'[c]) : unread'[c][i] = "good"
      BY <2>1 DEF JInv, OnlyJoining, kernel
    <3>3. at'["conn"] \in Serving => arg'["conn"] \in Client /\ ec[arg'["conn"]].st = "live"
      BY <2>2, <2>3, <2>4 DEF Serving, Insertion
    <3>. QED
      BY <2>1, <3>1, <3>2, <3>3, ConnectionsKept DEF ConnFrame, clients, memory, kernel
  <2>7. Requests'
    BY <2>1, <2>3 DEF JInv, Requests, Handling, ConnFrame, clients, memory, kernel
  <2>8. Joiners' /\ Reached' = Reached /\ \E pos \in [Watcher -> Int] : Chain(pos)' /\ Walk(pos)'
    <3>1. at["conn"] \in Idle /\ at'["conn"] \in Idle /\ at'["conn"] \notin {"answer", "malloc"}
      BY <2>3 DEF HandleEvent, Idle
    <3>. QED
      BY <2>1, <2>3, <3>1, ListUntouched DEF DispStays, LinesStay, ConnFrame, memory, kernel, disp
  <2>9. Seen'
    BY <2>1, <2>3, <2>8, SeenStays DEF ConnFrame, clients, memory, kernel, disp
  <2>. QED
    BY <2>5, <2>6, <2>7, <2>8, <2>9 DEF JInv
<1>. QED
  BY <1>1, <1>2

LEMMA JAcceptNothing ==
    ASSUME Joining, JInv, AcceptNothing
    PROVE  JInv'
<1>1. at["conn"] = "accept" /\ at'["conn"] = "loop" /\ at'["disp"] = at["disp"] /\ DOMAIN at' = Thread
  BY GoConn DEF AcceptNothing
<1>2. UNCHANGED <<kernel, memory, arg, wat, batch, prv, nxt, clients, crashed, disp>>
  BY DEF AcceptNothing
<1>3. TypeOK'
  <2>1. TypeOK
    BY DEF JInv
  <2>. QED
    BY <1>1, <1>2, <2>1 DEF TypeOK, clients, memory, kernel, disp
<1>4. OnlyJoining' /\ Joined'
  <2>1. at'["conn"] \in {"loop", "accept"} /\ at'["conn"] \notin Serving /\ at'["disp"] \in {"idle"} \cup Walks
    BY <1>1 DEF Serving, Insertion, JInv, OnlyJoining
  <2>2. \A c \in Client : \A i \in 1..Len(unread'[c]) : unread'[c][i] = "good"
    BY <1>2 DEF JInv, OnlyJoining, kernel
  <2>. QED
    BY <1>2, <2>1, <2>2, ConnectionsKept DEF clients, memory, kernel
<1>5. Requests'
  BY <1>1, <1>2 DEF JInv, Requests, Handling, clients, memory, kernel
<1>6. Joiners' /\ Reached' = Reached /\ \E pos \in [Watcher -> Int] : Chain(pos)' /\ Walk(pos)'
  BY <1>1, <1>2, ListUntouched DEF Idle, DispStays, LinesStay, memory, kernel, disp
<1>7. Seen'
  BY <1>1, <1>2, <1>6, SeenStays DEF clients, memory, kernel, disp
<1>. QED
  BY <1>3, <1>4, <1>5, <1>6, <1>7 DEF JInv

LEMMA JAccept ==
    ASSUME Joining, JInv, Accept
    PROVE  JInv'
<1>. DEFINE c == Head(backlog)
            f == Min(FreeFds)
<1>1. /\ backlog # << >> /\ FreeFds # {} /\ backlog' = Tail(backlog) /\ at["conn"] = "accept" /\ at' = at
      /\ sock' = [sock EXCEPT ![f] = c] /\ event' = [event EXCEPT ![c] = FirstEvent(c)]
      /\ ec' = [ec EXCEPT ![c] = [st |-> "live", fd |-> f, watch |-> NoOne]]
      /\ AcceptFrame
  BY DEF Accept, Install, AcceptAgain
<1>2. f \in Fd /\ sock[f] = NoOne
  BY <1>1, RegistryAssumption, MinIsIn DEF FreeFds
<1>3. /\ Len(Tail(backlog)) = Len(backlog) - 1 /\ Len(backlog) \in Nat \ {0}
      /\ Head(backlog) = backlog[1] /\ \A i \in 1..Len(backlog) : backlog[i] \in Client
      /\ \A i \in 1..Len(Tail(backlog)) : Tail(backlog)[i] = backlog[i+1]
      /\ Tail(backlog) \in Seq(Client)
  BY <1>1 DEF JInv, TypeOK
<1>4. /\ \A i \in 1..Len(backlog) : ec[backlog[i]].st = "none"
      /\ \A i, j \in 1..Len(backlog) : backlog[i] = backlog[j] => i = j
  BY DEF JInv, Joined, Waiting
<1>5. /\ c \in Client /\ ec[c].st = "none" /\ backlog' \in Seq(Client)
      /\ \A i \in 1..Len(backlog') : ec[backlog'[i]].st = "none" /\ backlog'[i] \in Client \ {c}
      /\ \A i, j \in 1..Len(backlog') : backlog'[i] = backlog'[j] => i = j
  <2>1. \A i \in 1..Len(Tail(backlog)) :
           i + 1 \in 1..Len(backlog) /\ i + 1 # 1 /\ 1 \in 1..Len(backlog)
    BY <1>3
  <2>2. 1 \in 1..Len(backlog)
    BY <1>3
  <2>. QED
    BY <1>1, <1>3, <1>4, <2>1, <2>2
<1>6. \A g \in Fd : sock[g] # c
  BY <1>5, OneWatcherEach DEF JInv, Joined, Sockets, Joining
<1>. HIDE DEF c, f
<1>7. TypeOK'
  <2>1. event' \in [Client -> BOOLEAN]
    BY <1>1, <1>5 DEF JInv, TypeOK, FirstEvent
  <2>2. ec' \in [Client -> eventConn_t]
    BY <1>1, <1>2, <1>5, JTypes DEF eventConn_t
  <2>3. sock' \in [Fd -> Client \cup {NoOne}]
    BY <1>1, <1>2, <1>5, JTypes
  <2>4. backlog' \in Seq(Client) /\ at' = at /\ AcceptFrame
    BY <1>1, <1>5
  <2>. QED
    BY <2>1, <2>2, <2>3, <2>4 DEF JInv, TypeOK, AcceptFrame, disp, eventConn_t
<1>8. /\ sock'[f] = c /\ ec'[c].st = "live" /\ ec'[c].fd = f /\ ec'[c].watch = NoOne
      /\ \A g \in Fd \ {f} : sock'[g] = sock[g]
      /\ \A d \in Client \ {c} : ec'[d] = ec[d] /\ event'[d] = event[d]
  BY <1>1, <1>2, <1>5 DEF JInv, TypeOK
<1>9. OnlyJoining' /\ Joined'
  <2>1. OnlyJoining'
    BY <1>1 DEF JInv, OnlyJoining, AcceptFrame
  <2>2. Waiting'
    BY <1>5, <1>8 DEF Waiting
  <2>3. Sockets'
    <3>1. \A d : ~Closing(d)'
      BY <1>1, NoClosing DEF JInv, Closing, AcceptFrame
    <3>2. \A d \in Client : ec[d].st = "live" => ec[d].fd \in Fd /\ sock[ec[d].fd] = d
      BY Served
    <3>3. \A g \in Fd \ {f} : sock[g] # NoOne =>
             sock[g] \in Client \ {c} /\ ec[sock[g]].st = "live" /\ ec[sock[g]].fd = g
      <4>1. \A g \in Fd : sock[g] \in Client \cup {NoOne}
        BY JTypes
      <4>2. Sockets
        BY DEF JInv, Joined
      <4>3. \A g \in Fd : sock[g] # NoOne => ec[sock[g]].st = "live" /\ ec[sock[g]].fd = g
        BY NoClosing, <4>1, <4>2 DEF Sockets, JInv
      <4>. QED
        BY <1>6, <4>1, <4>3
    <3>4. \A g \in Fd : sock'[g] # NoOne => ec'[sock'[g]].st = "live" /\ ec'[sock'[g]].fd = g
      BY <1>8, <3>3
    <3>5. ASSUME NEW d \in Client, ec'[d].st = "live" PROVE ec'[d].fd \in Fd /\ sock'[ec'[d].fd] = d
      BY <1>2, <1>8, <3>2, <3>5, OneWatcherEach DEF Joining
    <3>6. ASSUME NEW d \in Client, event'[d] PROVE Registered(d)'
      BY <1>2, <1>8, <3>6, OneWatcherEach DEF JInv, Joined, Sockets, Registered, Joining
    <3>. QED
      BY <3>1, <3>4, <3>5, <3>6 DEF Sockets
  <2>4. \A e \in batch : e[1] # NoOne => e[1] \in Client \ {c} /\ ec[e[1]].st = "live" /\ e[2] = FALSE
    BY <1>5 DEF JInv, TypeOK, Joined
  <2>5. at["conn"] \notin Serving
    BY <1>1 DEF Serving, Insertion
  <2>. QED
    BY <1>1, <1>8, <2>1, <2>2, <2>3, <2>4, <2>5 DEF Joined, AcceptFrame
<1>10. Requests'
  BY <1>1 DEF JInv, Requests, Handling, AcceptFrame
<1>11. Joiners' /\ Reached' = Reached /\ \E pos \in [Watcher -> Int] : Chain(pos)' /\ Walk(pos)'
  <2>1. \A d \in Client : ec'[d] = ec[d] \/ (ec[d].st = "none" /\ ec'[d].watch = NoOne)
    BY <1>5, <1>8
  <2>. QED
    BY <1>1, <2>1, ListUntouched DEF Idle, DispStays, LinesStay, AcceptFrame, disp
<1>12. Seen'
  BY <1>1, <1>11, SeenStays DEF AcceptFrame, disp
<1>. QED
  BY <1>7, <1>9, <1>10, <1>11, <1>12 DEF JInv

----------------------------------------------------------------------------
(***************************************************************************)
(* A request, its answer and its watcher.                                  *)
(***************************************************************************)
LEMMA JRecv ==
    ASSUME Joining, JInv, Recv
    PROVE  JInv'
<1>. DEFINE c == arg["conn"]
            f == ec[c].fd
<1>1. /\ at["conn"] = "recv" /\ at["conn"] \in Serving /\ c \in Client /\ LiveConn(c) /\ ec[c].st = "live"
      /\ sock[f] = c /\ c # NoOne /\ ~gone[c] /\ unread[c] \in Seq(Kinds) /\ OneGood(unread[c])
  <2>1. at["conn"] = "recv" /\ at["conn"] \in Serving
    BY DEF Recv, Serving
  <2>2. c \in Client
    BY <2>1, Served
  <2>. QED
    BY <2>1, <2>2, Served DEF JInv, TypeOK, OnlyJoining, Requests
<1>. HIDE DEF c, f
<1>2. unread[c] # << >> => Head(unread[c]) = "good"
  <2>1. ASSUME unread[c] # << >> PROVE Head(unread[c]) = unread[c][1] /\ 1 \in 1..Len(unread[c])
    BY <1>1, <2>1
  <2>. QED
    BY <1>1, <2>1 DEF JInv, OnlyJoining
<1>3. /\ RecvFrame /\ screen' = screen
      /\ \/ Goto("conn", "loop") /\ unread' = unread
         \/ unread[c] # << >> /\ unread' = [unread EXCEPT ![c] = Tail(@)] /\ Goto("conn", "answer")
  BY <1>1, <1>2 DEF Recv, c, f
<1>4. at'["conn"] \in {"loop", "answer"} /\ at'["disp"] = at["disp"] /\ DOMAIN at' = Thread
  BY <1>3, GoConn
<1>5. /\ unread' \in [Client -> Seq(Kinds)] /\ OneGood(unread'[c])
      /\ \A d \in Client \ {c} : unread'[d] = unread[d]
      /\ Good(unread'[c]) => Good(unread[c])
      /\ at'["conn"] = "answer" => Good(unread[c]) /\ ~Good(unread'[c])
      /\ \A y : In(y, unread'[c]) => In(y, unread[c])
  <2>1. CASE unread' = unread /\ Goto("conn", "loop")
    BY <1>1, <2>1, GoConn DEF JInv, TypeOK
  <2>2. CASE unread[c] # << >> /\ unread' = [unread EXCEPT ![c] = Tail(@)]
    <3>1. /\ OneGood(Tail(unread[c])) /\ Tail(unread[c]) \in Seq(Kinds)
          /\ Good(Tail(unread[c])) => Good(unread[c])
          /\ Head(unread[c]) = "good" => Good(unread[c]) /\ ~Good(Tail(unread[c]))
      BY <1>1, <2>2, TailGood
    <3>2. unread' \in [Client -> Seq(Kinds)] /\ unread'[c] = Tail(unread[c])
          /\ \A d \in Client \ {c} : unread'[d] = unread[d]
      BY <1>1, <2>2, <3>1 DEF JInv, TypeOK
    <3>3. \A y : In(y, Tail(unread[c])) => In(y, unread[c])
      <4>1. /\ Len(Tail(unread[c])) = Len(unread[c]) - 1 /\ Len(unread[c]) \in Nat \ {0}
            /\ \A i \in 1..Len(Tail(unread[c])) : Tail(unread[c])[i] = unread[c][i+1]
        BY <1>1, <2>2
      <4>. QED
        BY <4>1 DEF In
    <3>. QED
      BY <1>2, <2>2, <3>1, <3>2, <3>3
  <2>. QED
    BY <1>3, <2>1, <2>2
<1>6. TypeOK'
  BY <1>3, <1>4, <1>5 DEF JInv, TypeOK, RecvFrame, clients, memory, disp
<1>7. OnlyJoining' /\ Joined'
  <2>1. at'["conn"] \in {"loop", "accept"} \cup Serving /\ at'["disp"] \in {"idle"} \cup Walks
    BY <1>4 DEF Serving, JInv, OnlyJoining
  <2>2. \A d \in Client : \A i \in 1..Len(unread'[d]) : unread'[d][i] = "good"
    <3>1. \A d \in Client : \A y : In(y, unread'[d]) => In(y, unread[d])
      BY <1>5
    <3>2. \A d \in Client : \A y : In(y, unread[d]) => y = "good"
      BY DEF JInv, OnlyJoining, In
    <3>. QED
      BY <3>1, <3>2 DEF In
  <2>. QED
    BY <1>1, <1>3, <2>1, <2>2, ConnectionsKept DEF RecvFrame, memory, clients, c
<1>8. ec' = ec /\ node' = node /\ arg' = arg /\ asked' = asked /\ line' = line
  BY <1>3 DEF RecvFrame, memory, clients, disp
<1>9. Good(unread[c]) => node[W(c)].st = "none" /\ Good(asked[c])
  BY <1>1 DEF JInv, Requests
<1>10. Requests'
  BY <1>1, <1>4, <1>5, <1>8, <1>9 DEF JInv, Requests, Handling, c
<1>11. Joiners' /\ Reached' = Reached /\ \E pos \in [Watcher -> Int] : Chain(pos)' /\ Walk(pos)'
  <2>1. at["conn"] \in Idle /\ at'["conn"] \in Idle
    BY <1>1, <1>4 DEF Idle
  <2>2. at'["conn"] \in {"answer", "malloc"} => node[W(arg'["conn"])].st = "none"
    BY <1>4, <1>5, <1>8, <1>9 DEF c
  <2>. QED
    BY <1>3, <1>4, <2>1, <2>2, ListUntouched DEF DispStays, LinesStay, RecvFrame, memory, disp
<1>12. Seen'
  <2>1. at'["conn"] = "answer" => ~In(Ack, screen[c])
    BY <1>1, <1>5 DEF JInv, Seen
  <2>2. \A d \in Client : Good(unread'[d]) => Good(unread[d])
    BY <1>5
  <2>. QED
    BY <1>3, <1>4, <1>8, <1>11, <2>1, <2>2, SeenStays DEF c
<1>. QED
  BY <1>6, <1>7, <1>10, <1>11, <1>12 DEF JInv

LEMMA JAnswer ==
    ASSUME Joining, JInv, Answer
    PROVE  JInv'
<1>. DEFINE c == arg["conn"]
            f == ec[c].fd
<1>1. /\ at["conn"] = "answer" /\ at["conn"] \in Serving /\ c \in Client /\ LiveConn(c) /\ ec[c].st = "live"
      /\ sock[f] = c /\ f \in Fd /\ ~gone[c] /\ unread[c] \in Seq(Kinds)
  <2>1. at["conn"] = "answer" /\ at["conn"] \in Serving
    BY DEF Answer, Serving
  <2>2. c \in Client
    BY <2>1, Served
  <2>. QED
    BY <2>1, <2>2, Served DEF JInv, TypeOK, OnlyJoining, Requests
<1>. HIDE DEF c, f
<1>2. RecvFrame /\ Received(f, Ack) /\ Goto("conn", "malloc") /\ unread' = unread
  <2>1. SendResults(f) = {TRUE}
    BY <1>1, SendWorks
  <2>. QED
    BY <1>1, <2>1 DEF Answer, Succeeded, c, f
<1>3. at'["conn"] = "malloc" /\ at'["disp"] = at["disp"] /\ DOMAIN at' = Thread
  BY <1>2, GoConn
<1>4. /\ screen' \in [Client -> Seq((1..LastLine) \cup {Ack, Nack})]
      /\ \A d \in Client \ {c} : screen'[d] = screen[d]
      /\ \A y : In(y, screen'[c]) <=> In(y, screen[c]) \/ y = Ack
  <2>1. Ack \in (1..LastLine) \cup {Ack, Nack}
    OBVIOUS
  <2>. QED
    BY <1>1, <1>2, <2>1, ReceivedIn DEF JInv
<1>5. TypeOK'
  BY <1>2, <1>3, <1>4 DEF JInv, TypeOK, RecvFrame, clients, memory, disp
<1>6. OnlyJoining' /\ Joined'
  <2>1. at'["conn"] \in {"loop", "accept"} \cup Serving /\ at'["disp"] \in {"idle"} \cup Walks
    BY <1>3 DEF Serving, JInv, OnlyJoining
  <2>2. \A d \in Client : \A i \in 1..Len(unread'[d]) : unread'[d][i] = "good"
    BY <1>2 DEF JInv, OnlyJoining
  <2>. QED
    BY <1>1, <1>2, <2>1, <2>2, ConnectionsKept DEF RecvFrame, memory, clients, c
<1>7. ec' = ec /\ node' = node /\ arg' = arg /\ asked' = asked /\ line' = line
  BY <1>2 DEF RecvFrame, memory, clients, disp
<1>8. Requests'
  BY <1>1, <1>2, <1>3, <1>7 DEF JInv, Requests, Handling
<1>9. Joiners' /\ Reached' = Reached /\ \E pos \in [Watcher -> Int] : Chain(pos)' /\ Walk(pos)'
  <2>1. at["conn"] \in Idle /\ at'["conn"] \in Idle
    BY <1>1, <1>3 DEF Idle
  <2>2. node[W(arg'["conn"])].st = "none"
    BY <1>1, <1>7 DEF JInv, Joiners
  <2>3. LinesStay
    BY <1>4 DEF LinesStay
  <2>. QED
    BY <1>2, <1>3, <2>1, <2>2, <2>3, ListUntouched DEF DispStays, RecvFrame, memory, disp
<1>10. Seen'
  <2>1. Good(asked[c]) /\ ~Good(unread[c])
    BY <1>1 DEF JInv, Requests, Handling, c
  <2>2. ASSUME NEW d \in Client, In(Ack, screen'[d]) PROVE Good(asked[d]) /\ ~Good(unread[d])
    BY <1>4, <2>1, <2>2 DEF JInv, Seen
  <2>3. ASSUME NEW d \in Client, NEW y, In(y, screen'[d]) PROVE y = Ack \/ (y \in 1..line /\ W(d) \in Reached)
    <3>1. \A x : In(x, screen[d]) => x = Ack \/ (x \in 1..line /\ W(d) \in Reached)
      BY DEF JInv, Seen, In
    <3>. QED
      BY <1>4, <2>3, <3>1
  <2>4. \A d \in Client : \A i \in 1..Len(screen'[d]) :
           screen'[d][i] = Ack \/ (screen'[d][i] \in 1..line' /\ W(d) \in Reached')
    BY <1>7, <1>9, <2>3 DEF In
  <2>5. \A d \in Client : In(Ack, screen[d]) => In(Ack, screen'[d])
    BY <1>4
  <2>6. \A w \in Watcher : w[1] \in Client
    BY OneWatcherEach DEF Joining
  <2>7. In(Ack, screen'[arg'["conn"]])
    BY <1>4, <1>7 DEF c
  <2>. QED
    BY <1>2, <1>3, <1>7, <2>2, <2>4, <2>5, <2>6, <2>7 DEF JInv, Seen
<1>. QED
  BY <1>5, <1>6, <1>8, <1>9, <1>10 DEF JInv

----------------------------------------------------------------------------
(***************************************************************************)
(* The steps of addWatchList: each one keeps what the walk needs.          *)
(***************************************************************************)
Adds(w) ==
    /\ at["conn"] \in Adding /\ AddFrame /\ w = W(arg["conn"])
    /\ at'["conn"] \in {"attach", "recv"} \cup Insertion
    /\ at'["disp"] = at["disp"] /\ DOMAIN at' = Thread
    /\ node' \in [Watcher -> watcher_t] /\ ec' \in [Client -> eventConn_t]
    /\ wat' \in [Thread -> Watcher \cup {NoOne}]
    /\ {head', tail', prv', nxt'} \subseteq Watcher \cup {NoOne, Junk}
    /\ \A c \in Client : ec'[c].st = ec[c].st /\ ec'[c].fd = ec[c].fd
    /\ \A v \in Watcher :
          IF at["conn"] = "malloc" /\ v = w THEN node'[v].st = "live" /\ node'[v].filter
          ELSE node'[v].st = node[v].st /\ node'[v].filter = node[v].filter

LEMMA JAddContext ==
    ASSUME Joining, JInv, at["conn"] \in Adding
    PROVE  LET c == arg["conn"]
               w == W(c)
           IN /\ c \in Client /\ LiveConn(c) /\ ec[c].st = "live" /\ w \in Watcher /\ w[1] = c
              /\ at["conn"] # "malloc" => wat["conn"] = w /\ node[w].st = "live"
              /\ at["conn"] = "malloc" => node[w].st = "none" /\ In(Ack, screen[c])
              /\ at["conn"] \in {"tail", "publish"} => node[w].next = Junk
              /\ w \in Reached <=> at["conn"] \in {"attach", "backlink", "pointers"}
              /\ \A v \in Reached : v \in Watcher /\ node[v].st = "live"
<1>1. at["conn"] \in Serving
  BY DEF Adding, Serving
<1>2. arg["conn"] \in Client /\ LiveConn(arg["conn"]) /\ ec[arg["conn"]].st = "live"
  BY <1>1, Served
<1>3. W(arg["conn"]) \in Watcher /\ W(arg["conn"])[1] = arg["conn"]
  BY <1>2, OneWatcherEach DEF Joining
<1>4. /\ at["conn"] # "malloc" => wat["conn"] = W(arg["conn"]) /\ node[W(arg["conn"])].st = "live"
      /\ at["conn"] = "malloc" => node[W(arg["conn"])].st = "none"
      /\ at["conn"] \in {"tail", "publish"} => node[W(arg["conn"])].next = Junk
  BY DEF JInv, Joiners, Adding, Insertion
<1>5. at["conn"] = "malloc" => In(Ack, screen[arg["conn"]])
  BY DEF JInv, Seen
<1>. QED
  BY <1>2, <1>3, <1>4, <1>5 DEF Reached, Adding, Insertion

LEMMA JAddKeeps ==
    ASSUME Joining, JInv, NEW w, Adds(w), Reached \subseteq Reached'
    PROVE  TypeOK' /\ OnlyJoining' /\ Joined' /\ Requests' /\ Seen'
<1>1. /\ arg["conn"] \in Client /\ ec[arg["conn"]].st = "live" /\ w \in Watcher /\ w[1] = arg["conn"]
      /\ at["conn"] = "malloc" => In(Ack, screen[arg["conn"]])
  BY JAddContext DEF Adds
<1>2. UNCHANGED <<kernel, clients, crashed, arg, batch, disp>>
  BY DEF Adds, AddFrame
<1>3. TypeOK'
  <2>1. TypeOK
    BY DEF JInv
  <2>. QED
    BY <1>2, <2>1 DEF Adds, TypeOK, kernel, clients, disp, watcher_t, eventConn_t
<1>4. OnlyJoining' /\ Joined'
  <2>1. at'["conn"] \in {"loop", "accept"} \cup Serving /\ at'["disp"] \in {"idle"} \cup Walks
    BY DEF Adds, Serving, Insertion, JInv, OnlyJoining
  <2>2. \A d \in Client : \A i \in 1..Len(unread'[d]) : unread'[d][i] = "good"
    BY <1>2 DEF JInv, OnlyJoining, kernel
  <2>3. \A d \in Client : ec'[d].st = ec[d].st /\ ec'[d].fd = ec[d].fd
    BY DEF Adds
  <2>. QED
    BY <1>1, <1>2, <2>1, <2>2, <2>3, ConnectionsKept DEF kernel, clients
<1>5. at'["conn"] \notin {"answer", "malloc"}
  BY DEF Adds, Insertion
<1>6. Requests'
  <2>1. \A d \in Client : ~Handling(d)'
    BY <1>5 DEF Handling
  <2>2. \A d \in Client : node'[W(d)].st # "none" => node[W(d)].st # "none" \/ Handling(d)
    BY <1>1, OneWatcherEach DEF Adds, Handling, Joining
  <2>3. \A v \in Watcher : v = W(v[1])
    BY OneWatcherEach DEF Joining
  <2>4. UNCHANGED <<asked, unread>>
    BY <1>2 DEF kernel, clients
  <2>. QED
    BY <2>1, <2>2, <2>3, <2>4 DEF JInv, Requests
<1>7. Seen'
  <2>1. \A v \in Watcher : node'[v].st = "live" => In(Ack, screen[v[1]])
    BY <1>1 DEF Adds, JInv, Seen
  <2>. QED
    BY <1>2, <1>5, <2>1 DEF JInv, Seen, kernel, clients, disp
<1>. QED
  BY <1>3, <1>4, <1>6, <1>7

(* The part of Joiners that no step of it disturbs.                         *)
LEMMA JAddJoiners ==
    ASSUME Joining, JInv, NEW w, Adds(w), Reached \subseteq Reached',
           \A c \in Client : ec'[c].watch = ec[c].watch \/ (c = arg["conn"] /\ ec'[c].watch = w /\ w \in Reached),
           at'["conn"] # "recv" => wat'["conn"] = w,
           at'["conn"] \in {"tail", "publish"} => node'[w].next = Junk
    PROVE  Joiners'
<1>1. arg["conn"] \in Client /\ w \in Watcher /\ w = W(arg["conn"]) /\ arg' = arg
  BY JAddContext DEF Adds, AddFrame
<1>2. \A v \in Watcher : node'[v].st # "freed" /\ (node'[v].st = "live" => node'[v].filter)
  BY DEF JInv, Joiners, Adds
<1>3. \A c \in Client : ec'[c].watch # NoOne => ec'[c].watch = W(c) /\ W(c) \in Reached'
  BY <1>1 DEF JInv, Joiners
<1>4. node'[w].st = "live"
  BY <1>1, JAddContext DEF Adds
<1>5. at'["conn"] \notin {"answer", "malloc"} /\ (at'["conn"] \in Insertion \cup {"attach"} => at'["conn"] # "recv")
  BY DEF Adds, Insertion
<1>. QED
  BY <1>1, <1>2, <1>3, <1>4, <1>5 DEF Joiners

LEMMA JAddWalk ==
    ASSUME Joining, JInv, NEW w, Adds(w), Reached' = Reached, NEW pos, Walk(pos)
    PROVE  Walk(pos)'
<1>1. UNCHANGED <<kernel, clients, crashed, arg, batch, disp>> /\ at'["disp"] = at["disp"]
  BY DEF Adds, AddFrame
<1>2. DispStays /\ LinesStay
  BY <1>1 DEF DispStays, LinesStay, disp, kernel
<1>3. \A c \in Client : ec[c].st = "live" => ec'[c].st = "live" /\ ec'[c].fd = ec[c].fd
  BY DEF Adds
<1>. QED
  BY <1>2, <1>3, WalkStays

LEMMA JAddMalloc ==
    ASSUME Joining, JInv, AddMalloc
    PROVE  JInv'
<1>. DEFINE c == arg["conn"]
            w == W(c)
<1>1. at["conn"] = "malloc" /\ at["conn"] \in Adding
  BY DEF AddMalloc, Adding
<1>2. c \in Client /\ w \in Watcher /\ node[w].st = "none" /\ w \notin Reached
  BY <1>1, JAddContext
<1>3. <<c, Min(FreeNodes(c))>> = w
  <2>. DEFINE T == FreeNodes(c)
  <2>1. 1 \in T /\ T \subseteq {1}
    BY <1>2 DEF W, Joining, FreeNodes
  <2>2. T \in SUBSET Nat /\ T # {}
    BY <2>1
  <2>. HIDE DEF T
  <2>3. Min(T) \in T
    BY <2>2, MinIsIn
  <2>4. Min(T) = 1
    BY <2>1, <2>3
  <2>. QED
    BY <2>4 DEF W, T
<1>4. /\ UNCHANGED <<ec, head, tail, prv, nxt>> /\ AddFrame
      /\ node' = [node EXCEPT ![w] = [NoNode EXCEPT !.st = "live", !.filter = TRUE]]
      /\ wat' = [wat EXCEPT !["conn"] = w] /\ Goto("conn", "tail")
  BY <1>3 DEF AddMalloc, Joining
<1>. HIDE DEF c, w
<1>5. at'["conn"] = "tail" /\ at'["disp"] = at["disp"] /\ DOMAIN at' = Thread
  BY <1>4, GoConn
<1>6. /\ node' \in [Watcher -> watcher_t] /\ \A v \in Watcher \ {w} : node'[v] = node[v]
      /\ node'[w].st = "live" /\ node'[w].filter = TRUE /\ node'[w].next = Junk
  <2>. DEFINE n == [NoNode EXCEPT !.st = "live", !.filter = TRUE]
  <2>1. n \in watcher_t /\ n.st = "live" /\ n.filter = TRUE /\ n.next = Junk
    BY DEF NoNode, watcher_t
  <2>. HIDE DEF n
  <2>2. node' = [node EXCEPT ![w] = n]
    BY <1>4 DEF n
  <2>. QED
    BY <1>2, <2>1, <2>2, JTypes
<1>7. wat' \in [Thread -> Watcher \cup {NoOne}] /\ wat'["conn"] = w
  BY <1>2, <1>4, JTypes DEF Thread
<1>8. Adds(w)
  <2>1. {head', tail', prv', nxt'} \subseteq Watcher \cup {NoOne, Junk}
    BY <1>4, JTypes
  <2>2. ec' \in [Client -> eventConn_t] /\ ec' = ec
    BY <1>4, JTypes
  <2>3. w = W(arg["conn"])
    BY DEF w, c
  <2>. QED
    BY <1>1, <1>4, <1>5, <1>6, <1>7, <2>1, <2>2, <2>3 DEF Adds, Insertion
<1>9. Reached' = Reached
  BY <1>1, <1>2, <1>5, <1>6, <1>7 DEF Reached
<1>10. Joiners'
  BY <1>2, <1>4, <1>6, <1>7, <1>8, <1>9, JAddJoiners
<1>11. PICK pos \in [Watcher -> Int] : Chain(pos) /\ Walk(pos)
  BY DEF JInv
<1>12. Chain(pos)'
  <2>1. \A u \in Reached : u \in Watcher /\ node'[u].next = node[u].next
    BY <1>2, <1>6, JTypes
  <2>. QED
    BY <1>1, <1>4, <1>5, <1>9, <1>11, <2>1 DEF Chain, Half
<1>. QED
  BY <1>8, <1>9, <1>10, <1>11, <1>12, JAddKeeps, JAddWalk DEF JInv

LEMMA JAddTail ==
    ASSUME Joining, JInv, AddTail
    PROVE  JInv'
<1>. DEFINE w == W(arg["conn"])
<1>1. at["conn"] = "tail" /\ at["conn"] \in Adding /\ Goto("conn", "publish") /\ prv' = tail
      /\ UNCHANGED <<memory, wat, nxt>> /\ AddFrame
  BY DEF AddTail, AddGoto, AtTail, Adding, Insertion
<1>2. w \in Watcher /\ wat["conn"] = w /\ node[w].st = "live" /\ node[w].next = Junk /\ w \notin Reached
  BY <1>1, JAddContext
<1>. HIDE DEF w
<1>3. at'["conn"] = "publish" /\ at'["disp"] = at["disp"] /\ DOMAIN at' = Thread
  BY <1>1, GoConn
<1>4. Adds(w)
  <2>1. {head', tail', prv', nxt'} \subseteq Watcher \cup {NoOne, Junk}
    BY <1>1, JTypes DEF memory
  <2>2. /\ ec' \in [Client -> eventConn_t] /\ ec' = ec /\ node' \in [Watcher -> watcher_t] /\ node' = node
        /\ wat' \in [Thread -> Watcher \cup {NoOne}]
    BY <1>1, JTypes DEF memory
  <2>3. w = W(arg["conn"])
    BY DEF w
  <2>. QED
    BY <1>1, <1>3, <2>1, <2>2, <2>3 DEF Adds, Insertion
<1>5. Reached' = Reached
  BY <1>1, <1>3 DEF Reached, memory
<1>6. Joiners'
  BY <1>1, <1>2, <1>4, <1>5, JAddJoiners DEF memory
<1>7. PICK pos \in [Watcher -> Int] : Chain(pos) /\ Walk(pos)
  BY DEF JInv
<1>8. Chain(pos)'
  BY <1>1, <1>3, <1>5, <1>7 DEF Chain, Half, memory
<1>. QED
  BY <1>4, <1>5, <1>6, <1>7, <1>8, JAddKeeps, JAddWalk DEF JInv

LEMMA JInsertBacklink ==
    ASSUME Joining, JInv, InsertBacklink
    PROVE  JInv'
<1>. DEFINE w == W(arg["conn"])
<1>1. at["conn"] = "backlink" /\ at["conn"] \in Adding /\ nxt = NoOne
  BY DEF InsertBacklink, Adding, Insertion, JInv, Chain, Half
<1>2. tail' = wat["conn"] /\ Goto("conn", "pointers") /\ UNCHANGED <<node, ec, head, wat, prv, nxt>> /\ AddFrame
  BY <1>1 DEF InsertBacklink, AddGoto, NewTail
<1>3. w \in Watcher /\ wat["conn"] = w /\ node[w].st = "live" /\ w \in Reached
  BY <1>1, JAddContext
<1>. HIDE DEF w
<1>4. at'["conn"] = "pointers" /\ at'["disp"] = at["disp"] /\ DOMAIN at' = Thread
  BY <1>2, GoConn
<1>5. Adds(w)
  <2>1. {head', tail', prv', nxt'} \subseteq Watcher \cup {NoOne, Junk}
    BY <1>2, <1>3, JTypes
  <2>2. /\ ec' \in [Client -> eventConn_t] /\ ec' = ec /\ node' \in [Watcher -> watcher_t] /\ node' = node
        /\ wat' \in [Thread -> Watcher \cup {NoOne}]
    BY <1>2, JTypes
  <2>3. w = W(arg["conn"])
    BY DEF w
  <2>. QED
    BY <1>1, <1>2, <1>4, <2>1, <2>2, <2>3 DEF Adds, Insertion
<1>6. Reached' = Reached
  BY <1>1, <1>2, <1>4 DEF Reached
<1>7. Joiners'
  BY <1>2, <1>3, <1>4, <1>5, <1>6, JAddJoiners
<1>8. PICK pos \in [Watcher -> Int] : Chain(pos) /\ Walk(pos)
  BY DEF JInv
<1>9. Chain(pos)'
  BY <1>1, <1>2, <1>3, <1>4, <1>6, <1>8 DEF Chain, Half
<1>. QED
  BY <1>5, <1>6, <1>7, <1>8, <1>9, JAddKeeps, JAddWalk DEF JInv

(* The new watcher comes last: its rank is above all others.                *)
LEMMA JInsertPublish ==
    ASSUME Joining, JInv, InsertPublish
    PROVE  JInv'
<1>. DEFINE w == W(arg["conn"])
<1>1. at["conn"] = "publish" /\ at["conn"] \in Adding /\ prv = tail
  BY DEF InsertPublish, Adding, Insertion, JInv, Chain
<1>2. /\ w \in Watcher /\ w[1] \in Client /\ w = W(w[1]) /\ wat["conn"] = w /\ node[w].st = "live"
      /\ node[w].next = Junk /\ w \notin Reached
      /\ \A u \in Reached : u \in Watcher /\ node[u].st = "live"
  BY <1>1, JAddContext
<1>. HIDE DEF w
<1>3. PICK pos \in [Watcher -> Int] : Chain(pos) /\ Walk(pos)
  BY DEF JInv
<1>4. NoOne \notin Watcher /\ Junk \notin Watcher /\ NoOne # Junk
  BY OneWatcherEach DEF Joining
<1>5. \/ tail = NoOne /\ Reached = {} /\ head = NoOne
      \/ tail \in Reached /\ Most(Reached, pos, tail) /\ head \in Reached
  BY <1>1, <1>2, <1>3, <1>4 DEF Chain
<1>6. tail \in Reached => node[tail].next = NoOne
  <2>1. ASSUME tail \in Reached PROVE ~Adjacent(Reached, pos, tail, node[tail].next)
    BY <1>2, <1>3, <1>4, <1>5, <2>1 DEF Adjacent, Most
  <2>2. tail \in Reached => node[tail].next # Junk
    BY <1>1, <1>3 DEF Chain, Half
  <2>. QED
    BY <1>3, <2>1, <2>2 DEF Chain
<1>7. /\ \/ tail = NoOne /\ Reached = {} /\ head' = w /\ node' = node
         \/ tail \in Reached /\ Most(Reached, pos, tail) /\ node' = NextSet(node, tail, w) /\ head' = head
      /\ nxt' = NoOne /\ Goto("conn", "backlink") /\ AddFrame /\ UNCHANGED <<ec, tail, wat, prv>>
  BY <1>1, <1>2, <1>4, <1>5, <1>6 DEF InsertPublish, AddGoto, LiveNode, NextSet
<1>8. at'["conn"] = "backlink" /\ at'["disp"] = at["disp"] /\ DOMAIN at' = Thread
  BY <1>7, GoConn
<1>9. /\ node' \in [Watcher -> watcher_t]
      /\ \A v \in Watcher : node'[v].st = node[v].st /\ node'[v].filter = node[v].filter
      /\ \A v \in Watcher \ {tail} : node'[v].next = node[v].next
      /\ tail \in Reached => node'[tail].next = w
  <2>1. CASE node' = node /\ tail \notin Reached
    BY <2>1, JTypes
  <2>2. CASE tail \in Reached /\ node' = NextSet(node, tail, w)
    <3>1. node \in [Watcher -> watcher_t] /\ tail \in Watcher /\ w \in Watcher \cup {NoOne, Junk}
      BY <1>2, <2>2, JTypes
    <3>2. /\ node' \in [Watcher -> watcher_t] /\ node'[tail].next = w
          /\ node'[tail].st = node[tail].st /\ node'[tail].filter = node[tail].filter
          /\ \A v \in Watcher \ {tail} : node'[v] = node[v]
      BY <2>2, <3>1, WriteNext
    <3>. QED
      BY <2>2, <3>1, <3>2
  <2>. QED
    BY <1>2, <1>4, <1>7, <2>1, <2>2
<1>10. Adds(w)
  <2>1. {head', tail', prv', nxt'} \subseteq Watcher \cup {NoOne, Junk}
    BY <1>2, <1>7, JTypes
  <2>2. ec' \in [Client -> eventConn_t] /\ ec' = ec /\ wat' \in [Thread -> Watcher \cup {NoOne}]
    BY <1>7, JTypes
  <2>3. w = W(arg["conn"])
    BY DEF w
  <2>. QED
    BY <1>1, <1>7, <1>8, <1>9, <2>1, <2>2, <2>3 DEF Adds, Insertion
<1>11. Reached' = Reached \cup {w}
  <2>1. ASSUME NEW v \in Watcher PROVE v \in Reached' <=> v \in Reached \/ v = w
    BY <1>1, <1>2, <1>7, <1>8, <1>9 DEF Reached
  <2>. QED
    BY <1>2, <2>1 DEF Reached
<1>12. Joiners'
  BY <1>2, <1>7, <1>8, <1>10, <1>11, JAddJoiners
<1>13. PICK r \in [Watcher -> Int] :
         /\ r[w] \in Int
         /\ \A u \in Reached : u # w /\ r[u] = pos[u] /\ pos[u] \in Int /\ r[u] < r[w]
  <2>. DEFINE q == [pos EXCEPT ![w] = IF tail = NoOne THEN 0 ELSE pos[tail] + 1]
  <2>1. q \in [Watcher -> Int]
    BY <1>2, <1>4, <1>5
  <2>2. \A u \in Reached : u # w /\ q[u] = pos[u] /\ pos[u] \in Int
    BY <1>2
  <2>3. \A u \in Reached : tail \in Reached /\ tail # NoOne /\ pos[u] <= pos[tail]
    BY <1>2, <1>4, <1>5 DEF Most
  <2>4. q[w] \in Int /\ \A u \in Reached : q[u] < q[w]
    BY <1>2, <2>1, <2>2, <2>3
  <2>. QED
    BY <2>1, <2>2, <2>4
<1>14. Most(Reached', r, w) /\ \A u, v \in Reached' : r[u] = r[v] => u = v
  <2>1. \A u, v \in Reached : r[u] = r[v] => u = v
    BY <1>3, <1>13 DEF Chain
  <2>. QED
    BY <1>11, <1>13, <2>1 DEF Most
<1>15. \A u, v \in Reached : Adjacent(Reached, pos, u, v) => Adjacent(Reached', r, u, v)
  BY <1>11, <1>13 DEF Adjacent
<1>16. head' \in Reached' /\ Least(Reached', r, head')
  <2>1. CASE Reached = {} /\ head' = w
    BY <1>11, <1>13, <2>1 DEF Least
  <2>2. CASE head' = head /\ head \in Reached
    BY <1>2, <1>3, <1>4, <1>11, <1>13, <2>2 DEF Least, Chain
  <2>. QED
    BY <1>4, <1>5, <1>7, <2>1, <2>2
<1>17. ASSUME NEW u \in Reached'
       PROVE  /\ \/ (node'[u].next \in {NoOne, Junk} /\ Most(Reached', r, u))
                 \/ Adjacent(Reached', r, u, node'[u].next)
              /\ node'[u].next = Junk => u = w
  <2>1. CASE u = w
    <3>1. node'[w].next = Junk
      BY <1>2, <1>4, <1>5, <1>9
    <3>. QED
      BY <1>14, <2>1, <3>1
  <2>2. CASE u = tail /\ u \in Reached
    <3>1. Adjacent(Reached', r, tail, w)
      <4>1. w \in Reached' /\ r[tail] < r[w]
        BY <1>11, <1>13, <2>2
      <4>2. \A v \in Reached' : v = w \/ (v \in Reached /\ r[v] = pos[v] /\ pos[v] <= pos[tail] /\ r[tail] = pos[tail])
        BY <1>4, <1>5, <1>11, <1>13, <2>2 DEF Most
      <4>. QED
        BY <1>13, <2>2, <4>1, <4>2 DEF Adjacent
    <3>. QED
      BY <1>2, <1>4, <1>9, <2>2, <3>1
  <2>3. CASE u # tail /\ u \in Reached
    <3>1. tail \in Reached /\ pos[u] <= pos[tail] /\ pos[u] # pos[tail] /\ pos[u] \in Int /\ pos[tail] \in Int
      BY <1>3, <1>5, <1>13, <2>3 DEF Chain, Most
    <3>2. ~Most(Reached, pos, u)
      BY <3>1 DEF Most
    <3>3. Adjacent(Reached, pos, u, node[u].next) /\ node[u].next \in Reached
      BY <1>3, <2>3, <3>2 DEF Chain, Adjacent
    <3>4. node'[u].next = node[u].next
      BY <1>2, <1>9, <2>3
    <3>. QED
      BY <1>2, <1>4, <1>15, <2>3, <3>3, <3>4
  <2>. QED
    BY <1>11, <2>1, <2>2, <2>3
<1>18. Chain(r)'
  <2>1. Half' /\ at'["conn"] = "backlink" /\ nxt' = NoOne /\ wat'["conn"] = w
    BY <1>2, <1>7, <1>8 DEF Half
  <2>2. \A u \in Reached' : node'[u].next = Junk => u = w
    BY <1>17
  <2>3. \A u \in Reached' : \/ (node'[u].next \in {NoOne, Junk} /\ Most(Reached', r, u))
                            \/ Adjacent(Reached', r, u, node'[u].next)
    BY <1>17
  <2>. QED
    BY <1>14, <1>16, <2>1, <2>2, <2>3 DEF Chain
<1>19. Walk(r)'
  <2>1. UNCHANGED <<screen, ec, line, pnode, saved, fd, owed>> /\ at'["disp"] = at["disp"]
    BY <1>7, <1>8 DEF AddFrame, kernel, disp
  <2>2. \A c \in owed : c \in Client /\ W(c) \in Reached
    BY <1>3, JTypes DEF Walk
  <2>3. ~In(line, screen[w[1]])
    BY <1>2, JTypes DEF In, JInv, Seen
  <2>4. at["disp"] \in Walks => pnode \in Reached
    BY <1>3 DEF Walk
  <2>5. \A u \in Reached' : u = w \/ (u \in Reached /\ r[u] = pos[u])
    BY <1>11, <1>13
  <2>6. at["disp"] \in Walks =>
          /\ pnode \in Reached' /\ line # 0
          /\ \A c \in owed : In(line, screen[c]) \/ r[pnode] <= r[W(c)]
          /\ \A u \in Reached' : In(line, screen[u[1]]) => r[u] < r[pnode]
    BY <1>3, <1>11, <1>13, <2>2, <2>3, <2>4, <2>5 DEF Walk
  <2>7. at["disp"] \in Visit =>
          \/ (saved = NoOne /\ \A c \in owed : r[W(c)] <= r[pnode])
          \/ (saved # NoOne /\ Adjacent(Reached', r, pnode, saved))
    <3>1. at["disp"] \in Visit => at["disp"] \in Walks
      BY DEF Walks
    <3>. QED
      BY <1>3, <1>13, <1>15, <2>2, <2>4, <3>1 DEF Walk, Adjacent
  <2>8. \A c \in owed : W(c) \in Reached' /\ Matches(c, line)
    BY <1>3, <1>11 DEF Walk
  <2>. QED
    BY <1>3, <2>1, <2>6, <2>7, <2>8 DEF Walk
<1>. QED
  BY <1>10, <1>11, <1>12, <1>13, <1>18, <1>19, JAddKeeps DEF JInv

LEMMA JInsertPointers ==
    ASSUME Joining, JInv, InsertPointers
    PROVE  JInv'
<1>. DEFINE w == W(arg["conn"])
<1>1. at["conn"] = "pointers" /\ at["conn"] \in Adding
  BY DEF InsertPointers, Adding, Insertion
<1>2. /\ w \in Watcher /\ wat["conn"] = w /\ node[w].st = "live" /\ w \in Reached
      /\ \A u \in Reached : u \in Watcher /\ node[u].st = "live"
  BY <1>1, JAddContext
<1>. HIDE DEF w
<1>3. PICK pos \in [Watcher -> Int] : Chain(pos) /\ Walk(pos)
  BY DEF JInv
<1>4. nxt = NoOne /\ Most(Reached, pos, w) /\ NoOne # Junk
  BY <1>1, <1>2, <1>3, OneWatcherEach DEF Chain, Half, Joining
<1>5. /\ node' = PrevSet(NextSet(node, w, NoOne), w, prv)
      /\ prv' = NoOne /\ nxt' = NoOne /\ Goto("conn", "attach") /\ AddFrame
      /\ UNCHANGED <<ec, head, tail, wat>>
  BY <1>2, <1>4 DEF InsertPointers, AddGoto, LiveNode, NextSet, PrevSet
<1>6. at'["conn"] = "attach" /\ at'["disp"] = at["disp"] /\ DOMAIN at' = Thread
  BY <1>5, GoConn
<1>7. /\ node' \in [Watcher -> watcher_t] /\ node'[w].next = NoOne
      /\ \A v \in Watcher : node'[v].st = node[v].st /\ node'[v].filter = node[v].filter
      /\ \A v \in Watcher \ {w} : node'[v] = node[v]
  <2>. DEFINE m == NextSet(node, w, NoOne)
  <2>1. /\ m \in [Watcher -> watcher_t] /\ m[w].next = NoOne
        /\ m[w].st = node[w].st /\ m[w].filter = node[w].filter
        /\ \A v \in Watcher \ {w} : m[v] = node[v]
    <3>1. node \in [Watcher -> watcher_t] /\ NoOne \in Watcher \cup {NoOne, Junk}
      BY JTypes
    <3>. QED
      BY <1>2, <3>1, WriteNext
  <2>2. node' = PrevSet(m, w, prv) /\ prv \in Watcher \cup {NoOne, Junk}
    BY <1>5, JTypes
  <2>. HIDE DEF m
  <2>3. /\ node' \in [Watcher -> watcher_t] /\ node'[w].next = m[w].next
        /\ node'[w].st = m[w].st /\ node'[w].filter = m[w].filter
        /\ \A v \in Watcher \ {w} : node'[v] = m[v]
    BY <1>2, <2>1, <2>2, WritePrev
  <2>. QED
    BY <2>1, <2>3
<1>8. Adds(w)
  <2>1. {head', tail', prv', nxt'} \subseteq Watcher \cup {NoOne, Junk}
    BY <1>5, JTypes
  <2>2. ec' \in [Client -> eventConn_t] /\ ec' = ec /\ wat' \in [Thread -> Watcher \cup {NoOne}]
    BY <1>5, JTypes
  <2>3. w = W(arg["conn"])
    BY DEF w
  <2>. QED
    BY <1>1, <1>5, <1>6, <1>7, <2>1, <2>2, <2>3 DEF Adds, Insertion
<1>9. Reached' = Reached
  BY <1>1, <1>6, <1>7 DEF Reached
<1>10. Joiners'
  BY <1>2, <1>5, <1>6, <1>8, <1>9, JAddJoiners
<1>11. Chain(pos)'
  <2>1. at["conn"] # "backlink" /\ at'["conn"] = "attach" /\ ~Half'
    BY <1>1, <1>6 DEF Half
  <2>2. \A u \in Reached : u # w => node'[u].next = node[u].next /\ node[u].next # Junk
    BY <1>2, <1>3, <1>7 DEF Chain
  <2>. QED
    BY <1>3, <1>4, <1>5, <1>7, <1>9, <2>1, <2>2 DEF Chain
<1>. QED
  BY <1>3, <1>8, <1>9, <1>10, <1>11, JAddKeeps, JAddWalk DEF JInv

LEMMA JAttach ==
    ASSUME Joining, JInv, Attach
    PROVE  JInv'
<1>. DEFINE c == arg["conn"]
            w == W(c)
<1>1. at["conn"] = "attach" /\ at["conn"] \in Adding
  BY DEF Attach, Adding
<1>2. w \in Watcher /\ wat["conn"] = w /\ node[w].st = "live" /\ w \in Reached /\ c \in Client /\ LiveConn(c)
  BY <1>1, JAddContext
<1>3. /\ ec' = [ec EXCEPT ![c].watch = w] /\ Goto("conn", "recv") /\ AddFrame
      /\ UNCHANGED <<node, head, tail, wat, prv, nxt>>
  BY <1>2 DEF Attach, AddGoto, ItsWatcher
<1>. HIDE DEF w, c
<1>4. at'["conn"] = "recv" /\ at'["disp"] = at["disp"] /\ DOMAIN at' = Thread
  BY <1>3, GoConn
<1>5. /\ ec' \in [Client -> eventConn_t]
      /\ \A d \in Client : ec'[d].st = ec[d].st /\ ec'[d].fd = ec[d].fd
      /\ \A d \in Client \ {c} : ec'[d].watch = ec[d].watch
      /\ ec'[c].watch = w
  <2>1. ec[c] \in eventConn_t
    BY <1>2, JTypes
  <2>2. [ec[c] EXCEPT !.watch = w] \in eventConn_t
    BY <1>2, <2>1 DEF eventConn_t
  <2>. QED
    BY <1>2, <1>3, <2>1, <2>2, JTypes DEF eventConn_t
<1>6. Adds(w)
  <2>1. {head', tail', prv', nxt'} \subseteq Watcher \cup {NoOne, Junk}
    BY <1>3, JTypes
  <2>2. /\ node' \in [Watcher -> watcher_t] /\ node' = node
        /\ wat' \in [Thread -> Watcher \cup {NoOne}]
    BY <1>3, JTypes
  <2>3. w = W(arg["conn"])
    BY DEF w, c
  <2>. QED
    BY <1>1, <1>3, <1>4, <1>5, <2>1, <2>2, <2>3 DEF Adds
<1>7. Reached' = Reached
  BY <1>1, <1>3, <1>4 DEF Reached
<1>8. Joiners'
  <2>1. \A d \in Client : ec'[d].watch = ec[d].watch \/ (d = arg["conn"] /\ ec'[d].watch = w /\ w \in Reached)
    BY <1>2, <1>5 DEF c
  <2>. QED
    BY <1>4, <1>6, <1>7, <2>1, JAddJoiners
<1>9. PICK pos \in [Watcher -> Int] : Chain(pos) /\ Walk(pos)
  BY DEF JInv
<1>10. Chain(pos)'
  BY <1>1, <1>3, <1>4, <1>7, <1>9, ChainStays
<1>. QED
  BY <1>6, <1>7, <1>8, <1>9, <1>10, JAddKeeps, JAddWalk DEF JInv

----------------------------------------------------------------------------
(***************************************************************************)
(* The walk.                                                               *)
(***************************************************************************)
Steps ==
    /\ DispFrame /\ arg' = arg
    /\ at'["conn"] = at["conn"] /\ at'["disp"] \in {"idle"} \cup Walks /\ DOMAIN at' = Thread
    /\ screen' \in [Client -> Seq((1..LastLine) \cup {Ack, Nack})]
    /\ line' \in 0..LastLine /\ line <= line'
    /\ pnode' \in Watcher \cup {NoOne, Junk} /\ saved' \in Watcher \cup {NoOne}
    /\ fd' \in Fd \cup {NoOne} /\ owed' \subseteq Client

LEMMA JDispKeeps ==
    ASSUME Joining, JInv, Steps
    PROVE  /\ TypeOK' /\ OnlyJoining' /\ Joined' /\ Requests' /\ Joiners' /\ Reached' = Reached
           /\ \A pos \in [Watcher -> Int] : Chain(pos) => Chain(pos)'
<1>1. UNCHANGED <<clients, unread, sock, event, knock, memory, crashed, wat, conn, arg>>
  BY DEF Steps, DispFrame
<1>2. TypeOK'
  <2>1. TypeOK
    BY DEF JInv
  <2>. QED
    BY <1>1, <2>1 DEF Steps, TypeOK, clients, memory, conn
<1>3. OnlyJoining' /\ Joined'
  <2>1. at'["conn"] \in {"loop", "accept"} \cup Serving
    BY DEF Steps, JInv, OnlyJoining
  <2>2. \A d \in Client : \A i \in 1..Len(unread'[d]) : unread'[d][i] = "good"
    BY <1>1 DEF JInv, OnlyJoining
  <2>3. at'["conn"] \in Serving => arg'["conn"] \in Client /\ ec[arg'["conn"]].st = "live"
    BY <1>1 DEF Steps, JInv, Joined
  <2>. QED
    BY <1>1, <2>1, <2>2, <2>3, ConnectionsKept DEF Steps, clients, memory, conn
<1>4. Requests'
  BY <1>1 DEF Steps, JInv, Requests, Handling, clients, memory
<1>5. Reached' = Reached
  BY <1>1 DEF Steps, Reached, memory
<1>6. Joiners'
  BY <1>1, <1>5 DEF Steps, JInv, Joiners, memory
<1>7. \A pos \in [Watcher -> Int] : Chain(pos) => Chain(pos)'
  BY <1>1, <1>5 DEF Steps, Chain, Half, memory, conn
<1>. QED
  BY <1>2, <1>3, <1>4, <1>5, <1>6, <1>7

(* A screen gains at most the line that is dispatched.                      *)
Shows == \A c \in Client : \A y :
            /\ In(y, screen[c]) => In(y, screen'[c])
            /\ In(y, screen'[c]) => In(y, screen[c]) \/ (y = line' /\ line' # 0 /\ W(c) \in Reached)

LEMMA JDispSeen ==
    ASSUME Joining, JInv, Steps, Shows
    PROVE  Seen'
<1>1. UNCHANGED <<asked, unread, node, arg>> /\ at'["conn"] = at["conn"] /\ Reached' = Reached
  BY JDispKeeps DEF Steps, DispFrame, clients, memory
<1>2. line' \in Nat /\ line \in Nat /\ line <= line' /\ line' # Ack
  <2>1. LastLine \in Nat /\ line' \in 0..LastLine /\ line <= line' /\ Ack \notin Nat
    BY RegistryAssumption DEF Steps
  <2>. QED
    BY <2>1, JTypes
<1>3. \A c \in Client : In(Ack, screen'[c]) <=> In(Ack, screen[c])
  BY <1>2 DEF Shows
<1>4. ASSUME NEW c \in Client, NEW i \in 1..Len(screen'[c])
      PROVE  screen'[c][i] = Ack \/ (screen'[c][i] \in 1..line' /\ W(c) \in Reached)
  <2>1. In(screen'[c][i], screen'[c])
    BY DEF In
  <2>2. CASE In(screen'[c][i], screen[c])
    BY <1>2, <2>2 DEF In, JInv, Seen
  <2>3. CASE screen'[c][i] = line' /\ line' # 0 /\ W(c) \in Reached
    BY <1>2, <2>3
  <2>. QED
    BY <2>1, <2>2, <2>3 DEF Shows
<1>5. at["conn"] = "malloc" => arg["conn"] \in Client
  BY Served DEF Serving
<1>6. \A w \in Watcher : w[1] \in Client
  BY OneWatcherEach DEF Joining
<1>. QED
  BY <1>1, <1>3, <1>4, <1>5, <1>6 DEF JInv, Seen

LEMMA JGetLine ==
    ASSUME Joining, JInv, GetLine
    PROVE  JInv'
<1>1. /\ at["disp"] = "idle" /\ line < LastLine /\ line' = line + 1 /\ pnode' = head
      /\ owed' = {c \in Client : LiveConn(c) /\ ec[c].watch # NoOne /\ Matches(c, line')}
      /\ Goto("disp", IF head = NoOne THEN "idle" ELSE "next")
      /\ UNCHANGED <<screen, saved, fd, arg>> /\ DispFrame
  BY DEF GetLine, Walking
<1>2. at'["disp"] = (IF head = NoOne THEN "idle" ELSE "next") /\ at'["conn"] = at["conn"] /\ DOMAIN at' = Thread
  BY <1>1, GoDisp
<1>3. Steps
  <2>1. line' \in 0..LastLine /\ line <= line' /\ line' # 0
    BY <1>1, JTypes
  <2>2. at'["disp"] \in {"idle"} \cup Walks
    BY <1>2 DEF Walks
  <2>3. saved \in Watcher \cup {NoOne} /\ fd \in Fd \cup {NoOne}
    BY DEF JInv, TypeOK
  <2>. QED
    BY <1>1, <1>2, <2>1, <2>2, <2>3, JTypes DEF Steps
<1>4. Shows
  BY <1>1 DEF Shows
<1>5. PICK pos \in [Watcher -> Int] : Chain(pos) /\ Walk(pos)
  BY DEF JInv
<1>6. \A c \in owed' : c \in Client /\ W(c) \in Reached /\ Matches(c, line')
  BY <1>1 DEF JInv, Joiners
<1>7. line' # 0 /\ \A u \in Reached : ~In(line', screen[u[1]])
  <2>1. line \in Nat /\ line' \in Nat \ {0} /\ line' \notin 1..line /\ line' # Ack
    BY <1>1, JTypes, RegistryAssumption
  <2>2. \A u \in Reached : u[1] \in Client
    BY JTypes, OneWatcherEach DEF Joining
  <2>. QED
    BY <2>1, <2>2 DEF In, JInv, Seen
<1>8. Walk(pos)'
  <2>1. Reached' = Reached
    BY <1>3, JDispKeeps
  <2>2. head = NoOne => owed' = {}
    BY <1>5, <1>6, JTypes, OneWatcherEach DEF Chain, Joining
  <2>3. head # NoOne => head \in Reached /\ Least(Reached, pos, head)
    BY <1>5 DEF Chain
  <2>4. at'["disp"] \notin Visit /\ at'["disp"] \notin {"filter", "send"}
    BY <1>2 DEF Visit
  <2>5. at'["disp"] \in Walks => head # NoOne
    BY <1>2 DEF Walks, Visit
  <2>. QED
    BY <1>1, <1>2, <1>6, <1>7, <2>1, <2>2, <2>3, <2>4, <2>5 DEF Walk, Least
<1>. QED
  BY <1>3, <1>4, <1>5, <1>8, JDispKeeps, JDispSeen DEF JInv

LEMMA JReadNext ==
    ASSUME Joining, JInv, ReadNext
    PROVE  JInv'
<1>1. CASE Crash
  BY <1>1, JStutter DEF Crash
<1>2. ASSUME ~Crash PROVE JInv'
  <2>1. /\ at["disp"] = "next" /\ saved' = (IF node[pnode].next = Junk THEN NoOne ELSE node[pnode].next)
        /\ Goto("disp", "fd") /\ UNCHANGED <<screen, line, pnode, fd, owed, arg>> /\ DispFrame
    BY <1>2 DEF ReadNext
  <2>2. at'["disp"] = "fd" /\ at'["conn"] = at["conn"] /\ DOMAIN at' = Thread
    BY <2>1, GoDisp
  <2>3. PICK pos \in [Watcher -> Int] : Chain(pos) /\ Walk(pos)
    BY DEF JInv
  <2>4. pnode \in Reached /\ pnode \in Watcher
    BY <2>1, <2>3, JTypes DEF Walk, Walks
  <2>5. \/ saved' = NoOne /\ Most(Reached, pos, pnode)
        \/ saved' # NoOne /\ saved' \in Watcher /\ Adjacent(Reached, pos, pnode, saved')
    BY <2>1, <2>3, <2>4, JTypes, OneWatcherEach DEF Chain, Adjacent, Joining
  <2>6. Steps
    <3>1. at'["disp"] \in {"idle"} \cup Walks
      BY <2>2 DEF Walks, Visit
    <3>2. line' \in 0..LastLine /\ line <= line'
      BY <2>1, JTypes
    <3>3. fd \in Fd \cup {NoOne}
      BY DEF JInv, TypeOK
    <3>. QED
      BY <2>1, <2>2, <2>5, <3>1, <3>2, <3>3, JTypes DEF Steps
  <2>7. Shows
    BY <2>1 DEF Shows
  <2>8. Walk(pos)'
    <3>1. Reached' = Reached /\ ec' = ec
      BY <2>1, <2>6, JDispKeeps DEF DispFrame, memory
    <3>2. \A c \in owed : W(c) \in Reached
      BY <2>3 DEF Walk
    <3>3. saved' = NoOne => \A c \in owed : pos[W(c)] <= pos[pnode]
      BY <2>5, <3>2 DEF Most
    <3>. QED
      BY <2>1, <2>2, <2>3, <2>5, <3>1, <3>3 DEF Walk, Walks, Visit
  <2>. QED
    BY <2>3, <2>6, <2>7, <2>8, JDispKeeps, JDispSeen DEF JInv
<1>. QED
  BY <1>1, <1>2

LEMMA JReadFd ==
    ASSUME Joining, JInv, ReadFd
    PROVE  JInv'
<1>1. CASE Crash
  BY <1>1, JStutter DEF Crash
<1>2. ASSUME ~Crash PROVE JInv'
  <2>1. /\ at["disp"] = "fd" /\ LiveConn(pnode[1]) /\ fd' = ec[pnode[1]].fd
        /\ Goto("disp", "filter") /\ UNCHANGED <<screen, line, pnode, saved, owed, arg>> /\ DispFrame
    BY <1>2 DEF ReadFd
  <2>2. at'["disp"] = "filter" /\ at'["conn"] = at["conn"] /\ DOMAIN at' = Thread
    BY <2>1, GoDisp
  <2>3. PICK pos \in [Watcher -> Int] : Chain(pos) /\ Walk(pos)
    BY DEF JInv
  <2>4. pnode \in Watcher /\ pnode[1] \in Client /\ ec[pnode[1]].st = "live"
    BY <2>1, <2>3, JTypes, OneWatcherEach DEF Walk, Walks, Visit, Joining, LiveConn
  <2>5. Steps
    <3>1. at'["disp"] \in {"idle"} \cup Walks
      BY <2>2 DEF Walks, Visit
    <3>2. line' \in 0..LastLine /\ line <= line'
      BY <2>1, JTypes
    <3>3. saved \in Watcher \cup {NoOne}
      BY DEF JInv, TypeOK
    <3>4. fd' \in Fd \cup {NoOne}
      BY <2>1, <2>4, Served
    <3>. QED
      BY <2>1, <2>2, <3>1, <3>2, <3>3, <3>4, JTypes DEF Steps
  <2>6. Shows
    BY <2>1 DEF Shows
  <2>7. Walk(pos)'
    <3>1. Reached' = Reached /\ ec' = ec
      BY <2>1, <2>5, JDispKeeps DEF DispFrame, memory
    <3>. QED
      BY <2>1, <2>2, <2>3, <2>4, <3>1 DEF Walk, Walks, Visit
  <2>. QED
    BY <2>3, <2>5, <2>6, <2>7, JDispKeeps, JDispSeen DEF JInv
<1>. QED
  BY <1>1, <1>2

(* On to the watcher that ReadNext remembered.                              *)
LEMMA JAdvance ==
    ASSUME Joining, JInv, at["disp"] \in Visit, Advance, DispFrame, arg' = arg, line' = line, owed' = owed,
           screen' \in [Client -> Seq((1..LastLine) \cup {Ack, Nack})],
           \A c \in Client : \A y : In(y, screen[c]) => In(y, screen'[c]),
           \A c \in Client : \A y : In(y, screen'[c]) => In(y, screen[c]) \/ (y = line /\ c = pnode[1]),
           pnode[1] \in owed => In(line, screen'[pnode[1]])
    PROVE  JInv'
<1>1. PICK pos \in [Watcher -> Int] : Chain(pos) /\ Walk(pos)
  BY DEF JInv
<1>2. at["disp"] \in Walks
  BY DEF Walks
<1>3. /\ pnode \in Reached /\ pnode \in Watcher /\ pnode = W(pnode[1]) /\ line # 0
      /\ \A c \in owed : c \in Client /\ W(c) \in Reached /\ W(c)[1] = c
  BY <1>1, <1>2, JTypes, OneWatcherEach DEF Walk, Joining
<1>4. /\ at'["disp"] = (IF saved = NoOne THEN "idle" ELSE "next") /\ at'["conn"] = at["conn"] /\ DOMAIN at' = Thread
      /\ pnode' = saved /\ saved' = NoOne /\ fd' = NoOne
  BY GoDisp DEF Advance
<1>5. Steps
  <2>1. at'["disp"] \in {"idle"} \cup Walks
    BY <1>4 DEF Walks
  <2>2. line' \in 0..LastLine /\ line <= line'
    BY JTypes
  <2>3. saved \in Watcher \cup {NoOne}
    BY DEF JInv, TypeOK
  <2>. QED
    BY <1>4, <2>1, <2>2, <2>3, JTypes DEF Steps
<1>6. Shows
  BY <1>3 DEF Shows
<1>7. \A u \in Reached : pos[u] \in Int /\ u = W(u[1]) /\ u[1] \in Client
  BY JTypes, OneWatcherEach DEF Joining
<1>8. Reached' = Reached
  BY <1>5, JDispKeeps
<1>9. \A c \in owed : In(line, screen'[c]) \/ pos[pnode] < pos[W(c)]
  <2>1. ASSUME NEW c \in owed, ~In(line, screen'[c]) PROVE pos[pnode] < pos[W(c)]
    <3>1. pos[pnode] <= pos[W(c)]
      BY <1>1, <1>2, <1>3, <2>1 DEF Walk
    <3>2. W(c) # pnode
      BY <1>3, <2>1
    <3>3. pos[W(c)] # pos[pnode]
      BY <1>1, <1>3, <3>2 DEF Chain
    <3>. QED
      BY <1>3, <1>7, <3>1, <3>3
  <2>. QED
    BY <2>1
<1>10. Walk(pos)'
  <2>1. CASE saved = NoOne
    <3>1. \A c \in owed : In(line, screen'[c])
      <4>1. \A c \in owed : pos[W(c)] <= pos[pnode]
        BY <1>1, <2>1 DEF Walk, Adjacent
      <4>. QED
        BY <1>3, <1>7, <1>9, <4>1
    <3>2. at'["disp"] = "idle"
      BY <1>4, <2>1
    <3>. QED
      BY <1>1, <1>8, <3>1, <3>2 DEF Walk, Walks, Visit
  <2>2. CASE saved # NoOne
    <3>1. Adjacent(Reached, pos, pnode, saved) /\ saved \in Reached
      BY <1>1, <2>2 DEF Walk, Adjacent
    <3>2. \A c \in owed : In(line, screen'[c]) \/ pos[saved] <= pos[W(c)]
      <4>1. \A c \in owed : pos[pnode] < pos[W(c)] => pos[saved] <= pos[W(c)]
        BY <1>3, <1>7, <3>1 DEF Adjacent
      <4>. QED
        BY <1>9, <4>1
    <3>3. ASSUME NEW u \in Reached, In(line, screen'[u[1]]) PROVE pos[u] < pos[saved]
      <4>1. pos[pnode] < pos[saved]
        BY <3>1 DEF Adjacent
      <4>2. CASE In(line, screen[u[1]])
        <5>1. pos[u] < pos[pnode]
          BY <1>1, <1>2, <4>2 DEF Walk
        <5>. QED
          BY <1>3, <1>7, <3>1, <4>1, <5>1
      <4>3. CASE u[1] = pnode[1]
        BY <1>3, <1>7, <4>1, <4>3
      <4>. QED
        BY <1>7, <3>3, <4>2, <4>3
    <3>4. at'["disp"] = "next"
      BY <1>4, <2>2
    <3>. QED
      BY <1>1, <1>3, <1>4, <1>8, <3>1, <3>2, <3>3, <3>4 DEF Walk, Walks, Visit
  <2>. QED
    BY <2>1, <2>2
<1>. QED
  BY <1>1, <1>5, <1>6, <1>10, JDispKeeps, JDispSeen DEF JInv

LEMMA JDoFilter ==
    ASSUME Joining, JInv, DoFilter
    PROVE  JInv'
<1>1. CASE Crash
  BY <1>1, JStutter DEF Crash
<1>2. ASSUME ~Crash PROVE JInv'
  <2>1. /\ at["disp"] = "filter" /\ UNCHANGED <<screen, line, owed, arg>> /\ DispFrame
        /\ IF Accepts(pnode) THEN Goto("disp", "send") /\ UNCHANGED <<pnode, saved, fd>> ELSE Advance
    BY <1>2 DEF DoFilter
  <2>2. PICK pos \in [Watcher -> Int] : Chain(pos) /\ Walk(pos)
    BY DEF JInv
  <2>3. CASE Accepts(pnode)
    <3>1. at'["disp"] = "send" /\ at'["conn"] = at["conn"] /\ DOMAIN at' = Thread
      BY <2>1, <2>3, GoDisp
    <3>2. Steps
      <4>1. at'["disp"] \in {"idle"} \cup Walks
        BY <3>1 DEF Walks, Visit
      <4>2. line' \in 0..LastLine /\ line <= line'
        BY <2>1, JTypes
      <4>3. saved \in Watcher \cup {NoOne} /\ fd \in Fd \cup {NoOne}
        BY DEF JInv, TypeOK
      <4>. QED
        BY <2>1, <2>3, <3>1, <4>1, <4>2, <4>3, JTypes DEF Steps
    <3>3. Shows
      BY <2>1 DEF Shows
    <3>4. Reached' = Reached /\ ec' = ec
      BY <2>1, <3>2, JDispKeeps DEF DispFrame, memory
    <3>5. Walk(pos)'
      BY <2>1, <2>2, <2>3, <3>1, <3>4 DEF Walk, Walks, Visit, Accepts
    <3>. QED
      BY <2>2, <3>2, <3>3, <3>5, JDispKeeps, JDispSeen DEF JInv
  <2>4. CASE ~Accepts(pnode)
    <3>1. pnode[1] \notin owed
      BY <2>2, <2>4 DEF Walk, Accepts
    <3>. QED
      BY <2>1, <2>4, <3>1, JTypes, JAdvance DEF Visit
  <2>. QED
    BY <2>3, <2>4
<1>. QED
  BY <1>1, <1>2

LEMMA JSend ==
    ASSUME Joining, JInv, Send
    PROVE  JInv'
<1>1. PICK pos \in [Watcher -> Int] : Chain(pos) /\ Walk(pos)
  BY DEF JInv
<1>2. at["disp"] = "send" /\ at["disp"] \in Visit /\ at["disp"] \in Walks
  BY DEF Send, Visit, Walks
<1>3. pnode[1] \in Client /\ ec[pnode[1]].st = "live" /\ fd = ec[pnode[1]].fd /\ line # 0
  BY <1>1, <1>2, JTypes, OneWatcherEach DEF Walk, Joining
<1>4. fd \in Fd /\ sock[fd] = pnode[1]
  BY <1>3, Served
<1>5. SendResults(fd) = {TRUE} /\ ~gone[pnode[1]]
  BY <1>3, <1>4, SendWorks DEF JInv, OnlyJoining
<1>6. Received(fd, line) /\ Advance /\ arg' = arg /\ line' = line /\ owed' = owed /\ DispFrame
  BY <1>5 DEF Send
<1>7. /\ screen' \in [Client -> Seq((1..LastLine) \cup {Ack, Nack})]
      /\ \A d \in Client \ {pnode[1]} : screen'[d] = screen[d]
      /\ \A y : In(y, screen'[pnode[1]]) <=> In(y, screen[pnode[1]]) \/ y = line
  <2>1. line \in (1..LastLine) \cup {Ack, Nack}
    BY <1>3, JTypes
  <2>. QED
    BY <1>3, <1>4, <1>5, <1>6, <2>1, ReceivedIn DEF JInv
<1>. QED
  BY <1>2, <1>6, <1>7, JAdvance

----------------------------------------------------------------------------
(***************************************************************************)
(* The invariant and what it shows.                                        *)
(***************************************************************************)
LEMMA JInvariance ==
    ASSUME Joining, JInv, [Next]_vars
    PROVE  JInv'
<1>1. CASE UNCHANGED vars
  <2>1. crashed' \in BOOLEAN
    BY <1>1 DEF vars, JInv, TypeOK
  <2>. QED
    BY <1>1, <2>1, JStutter DEF vars
<1>2. CASE Env
  <2>1. ASSUME NEW c \in Client, Connect(c) PROVE JInv'
    BY <2>1, JConnect
  <2>2. ASSUME NEW c \in Client, Leave(c) PROVE JInv'
    BY <2>2 DEF Leave, Joining
  <2>3. ASSUME NEW c \in Client, NEW kind \in Asks(c), Request(c, kind) PROVE JInv'
    BY <2>3, JRequest
  <2>. QED
    BY <1>2, <2>1, <2>2, <2>3 DEF Env
<1>3. CASE \E t \in Thread : RemoveClient(t)
  <2>1. \A t \in Thread : at[t] \notin Removal
    BY DEF JInv, OnlyJoining, Serving, Insertion, Walks, Visit, Removal, AfterClose, Thread
  <2>2. ASSUME NEW t \in Thread, RemoveClient(t) PROVE at[t] \in Removal
    BY <2>2 DEF RemoveClient, RmClose, RmFilter, RmPrev, RmNext, RmFree, RmFreeConn, Removal, AfterClose
  <2>. QED
    BY <1>3, <2>1, <2>2
<1>4. CASE AddWatchList
  BY <1>4, JAddMalloc, JAddTail, JInsertPublish, JInsertBacklink, JInsertPointers, JAttach DEF AddWatchList
<1>5. CASE WaitEvents \/ HandleEvent \/ AcceptNothing \/ Accept \/ Recv \/ Answer
  BY <1>5, JWaitEvents, JHandleEvent, JAcceptNothing, JAccept, JRecv, JAnswer
<1>6. CASE AcceptFails
  BY <1>6 DEF AcceptFails, Joining
<1>7. CASE GetLine \/ ReadNext \/ ReadFd \/ DoFilter \/ Send
  BY <1>7, JGetLine, JReadNext, JReadFd, JDoFilter, JSend
<1>. QED
  BY <1>1, <1>2, <1>3, <1>4, <1>5, <1>6, <1>7 DEF Next, ConnNext, DispNext, Thread

LEMMA JInvariant ==
    ASSUME Joining
    PROVE  Spec => []JInv
<1>1. Init => JInv
  BY JInit
<1>2. JInv /\ [Next]_vars => JInv'
  BY JInvariance
<1>. QED
  BY <1>1, <1>2, PTL DEF Spec

(* deliver and dllAdd with no lock between them: a line reaches every       *)
(* watcher that was in place when its walk began, whichever watchers the    *)
(* connection thread puts behind the walk meanwhile, in any interleaving,   *)
(* also if the walk meets the next pointer of the newest before it is set.  *)
THEOREM InsertionsMissNobody ==
    ASSUME Joining
    PROVE  Spec => []NoneMissed
<1>1. JInv => NoneMissed
  <2>1. SUFFICES ASSUME JInv, ~Walking PROVE \A c \in owed : In(line, screen[c])
    BY DEF NoneMissed, In
  <2>2. PICK pos \in [Watcher -> Int] : Walk(pos)
    BY <2>1 DEF JInv
  <2>3. at["disp"] = "idle"
    BY <2>1 DEF Walking
  <2>. QED
    BY <2>2, <2>3 DEF Walk
<1>. QED
  BY <1>1, JInvariant, PTL

LEMMA JServiceAnswer ==
    ASSUME Joining, JInv, Answer
    PROVE  [Service!Next]_<<screen, line>>
<1>. DEFINE c == arg["conn"]
            f == ec[c].fd
<1>1. at["conn"] = "answer" /\ at["conn"] \in Serving
  BY DEF Answer, Serving
<1>2. c \in Client /\ LiveConn(c) /\ f \in Fd /\ sock[f] = c
  BY <1>1, Served
<1>. HIDE DEF c, f
<1>3. line' = line /\ (UNCHANGED screen \/ Received(f, Ack))
  BY <1>2 DEF Answer, RecvFrame, disp, c, f
<1>4. UNCHANGED screen \/ Service!Show(c, Ack)
  BY <1>2, <1>3 DEF Received, Service!Show
<1>5. ~In(Ack, screen[c]) /\ ~In(Nack, screen[c])
  <2>1. Nack # Ack /\ \A i \in 1..line : i # Nack
    <3>1. line \in Nat /\ Nack \notin Nat /\ Nack # Ack
      BY RegistryAssumption, JTypes
    <3>. QED
      BY <3>1
  <2>2. ~In(Ack, screen[c])
    BY <1>1, <1>2 DEF JInv, Seen, c
  <2>. QED
    BY <1>2, <2>1, <2>2 DEF JInv, Seen, In
<1>6. ~Service!Has(c, Ack) /\ ~Service!Has(c, Nack)
  BY <1>5 DEF In, Service!Has
<1>. QED
  BY <1>2, <1>3, <1>4, <1>6 DEF Service!Next, Service!Acknowledge

LEMMA JServiceSend ==
    ASSUME Joining, JInv, Send
    PROVE  [Service!Next]_<<screen, line>>
<1>1. PICK pos \in [Watcher -> Int] : Chain(pos) /\ Walk(pos)
  BY DEF JInv
<1>2. at["disp"] = "send" /\ at["disp"] \in Visit /\ at["disp"] \in Walks
  BY DEF Send, Visit, Walks
<1>3. /\ pnode \in Reached /\ pnode \in Watcher /\ pnode[1] \in Client /\ node[pnode].st = "live"
      /\ ec[pnode[1]].st = "live" /\ fd = ec[pnode[1]].fd /\ Matches(pnode[1], line)
  BY <1>1, <1>2, JTypes, OneWatcherEach DEF Walk, Joining, Reached
<1>4. fd \in Fd /\ sock[fd] = pnode[1]
  BY <1>3, Served
<1>5. SendResults(fd) = {TRUE}
  BY <1>3, <1>4, SendWorks
<1>6. Received(fd, line) /\ line' = line
  BY <1>5 DEF Send
<1>7. UNCHANGED screen \/ Service!Show(pnode[1], line)
  BY <1>4, <1>6 DEF Received, Service!Show
<1>8. In(Ack, screen[pnode[1]]) /\ ~In(Nack, screen[pnode[1]])
  <2>1. Nack # Ack /\ \A i \in 1..line : i # Nack
    <3>1. line \in Nat /\ Nack \notin Nat /\ Nack # Ack
      BY RegistryAssumption, JTypes
    <3>. QED
      BY <3>1
  <2>. QED
    BY <1>3, <2>1 DEF JInv, Seen, In
<1>9. ~In(line, screen[pnode[1]])
  <2>1. pos[pnode] \in Int
    BY <1>3
  <2>. QED
    BY <1>1, <1>2, <1>3, <2>1 DEF Walk
<1>10. Service!Has(pnode[1], Ack) /\ ~Service!Has(pnode[1], Nack) /\ ~Service!Has(pnode[1], line)
  BY <1>8, <1>9 DEF In, Service!Has
<1>. QED
  BY <1>3, <1>6, <1>7, <1>10 DEF Service!Next, Service!Notify

LEMMA JServiceStep ==
    ASSUME Joining, JInv, [Next]_vars
    PROVE  [Service!Next]_<<screen, line>>
<1>1. CASE UNCHANGED vars
  BY <1>1 DEF vars, kernel, disp
<1>2. CASE Env
  BY <1>2 DEF Env, Connect, Leave, Request, EnvFrame, disp
<1>3. CASE \E t \in Thread : RemoveClient(t)
  BY <1>3 DEF RemoveClient, RmClose, RmFilter, RmPrev, RmNext, RmFree, RmFreeConn, RmGoto, RmFrame, Crash, kernel, disp
<1>4. CASE AddWatchList
  BY <1>4 DEF AddWatchList, AddMalloc, AddTail, InsertPublish, InsertBacklink, InsertPointers, Attach,
         AddGoto, AddFrame, Crash, kernel, disp
<1>5. CASE WaitEvents \/ HandleEvent \/ AcceptNothing \/ Accept \/ AcceptFails
  BY <1>5 DEF WaitEvents, HandleEvent, AcceptNothing, Accept, AcceptFails, AcceptFrame, ConnFrame, Crash, kernel, disp
<1>6. CASE Recv
  <2>1. at["conn"] \in Serving /\ at["conn"] = "recv"
    BY <1>6 DEF Recv, Serving
  <2>. DEFINE c == arg["conn"]
  <2>2. c \in Client /\ LiveConn(c) /\ sock[ec[c].fd] = c /\ c # NoOne /\ unread[c] \in Seq(Kinds)
    BY <2>1, Served DEF JInv, TypeOK
  <2>. HIDE DEF c
  <2>3. unread[c] # << >> => Head(unread[c]) = "good"
    <3>1. ASSUME unread[c] # << >> PROVE Head(unread[c]) = unread[c][1] /\ 1 \in 1..Len(unread[c])
      BY <2>2, <3>1
    <3>. QED
      BY <2>2, <3>1 DEF JInv, OnlyJoining
  <2>4. screen' = screen /\ line' = line
    BY <1>6, <2>2, <2>3 DEF Recv, RecvFrame, disp, c
  <2>. QED
    BY <2>4
<1>7. CASE Answer
  BY <1>7, JServiceAnswer
<1>8. CASE GetLine
  BY <1>8 DEF GetLine, Service!Next, Service!Log
<1>9. CASE ReadNext \/ ReadFd \/ DoFilter
  BY <1>9 DEF ReadNext, ReadFd, DoFilter, Crash, kernel, disp
<1>10. CASE Send
  BY <1>10, JServiceSend
<1>. QED
  BY <1>1, <1>2, <1>3, <1>4, <1>5, <1>6, <1>7, <1>8, <1>9, <1>10 DEF Next, ConnNext, DispNext, Thread

(* Clients that only join see the service of WatchService however the two   *)
(* threads interleave: acknowledged before the first line, no line twice,   *)
(* none older than the newest, none the filter does not accept.             *)
THEOREM JoinersAreServed ==
    ASSUME Joining
    PROVE  Spec => ServiceSpec
<1>1. Init => Service!Init
  BY ServiceInit
<1>2. JInv /\ [Next]_vars => [Service!Next]_<<screen, line>>
  BY JServiceStep
<1>. QED
  BY <1>1, <1>2, JInvariant, PTL DEF Spec, ServiceSpec, Service!Spec
============================================================================
