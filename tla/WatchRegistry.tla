--------------------------- MODULE WatchRegistry ---------------------------
(***************************************************************************)
(* The two watch threads of syslogd and what they share with no lock: the  *)
(* doubly linked list g_watcherList, the watchers on it, their connections *)
(* (eventConn_t) and the process's file descriptors.                       *)
(*                                                                         *)
(* The connection thread (watchConnServer) accepts clients, reads their    *)
(* requests, answers, and puts a watcher on the list.  The dispatch thread *)
(* (watchDispatchServer) walks the list once for each log line and sends   *)
(* the line to the watchers whose filter accepts it.  Either one may tear  *)
(* a connection down (removeClient).                                       *)
(*                                                                         *)
(* A step reads or writes one shared object: the statements of dllInsert,  *)
(* dllRemove, removeClient and filterDeliver are steps of their own.  A    *)
(* use of memory that was freed, or of a pointer that was never written,   *)
(* ends the behaviour (crashed): C promises nothing beyond it.             *)
(***************************************************************************)
EXTENDS Integers, Sequences, FiniteSets, FiniteSetsExt

CONSTANTS
    Client,        \* each client connects at most once
    Ack, Nack,     \* the two answers to a request
    NoOne,         \* NULL
    Junk,          \* the content of memory that malloc has just returned
    Fd,            \* descriptors open() and accept() can return, a set of numbers
    Asks(_),       \* the kinds of request a client sends
    MaxRequests,   \* bound: requests a client sends
    MaxGood,       \* bound: how many of them are good
    LastLine,      \* bound: log lines in a behaviour
    Matches(_, _), \* whether the filter of a client accepts a line
    Leaver,        \* clients that may close their end
    Staller,       \* clients that may leave their receive window full
    Failures,      \* whether malloc, fcntl and epoll_ctl may fail
    Overlap        \* whether the two threads may run at the same time

(* What processRequest tells apart: a request it accepts, one of the wrong  *)
(* length, one of the wrong type, one whose filter does not compile.        *)
Kinds == {"good", "badlen", "badtype", "badfilter"}

(* The watcher a client's n-th good request allocates.                      *)
Watcher == Client \X (1..MaxGood)

ASSUME RegistryAssumption ==
    /\ Fd \subseteq Nat /\ MaxGood \in Nat \ {0} /\ LastLine \in Nat
    /\ \A c \in Client : Asks(c) \subseteq Kinds
    /\ Leaver \subseteq Client /\ Staller \subseteq Client
    /\ Failures \in BOOLEAN /\ Overlap \in BOOLEAN
    /\ NoOne # Junk /\ NoOne \notin Client \cup Fd /\ {NoOne, Junk} \cap Watcher = {}
    /\ Ack # Nack /\ {Ack, Nack} \cap Nat = {}

Thread == {"conn", "disp"}

VARIABLES
    \* clients and the kernel
    backlog,   \* connections to be accepted, in order
    gone,      \* whether a client has closed its end
    asked,     \* the requests each client has sent
    unread,    \* of these, the ones the server has not read
    screen,    \* what each client has received: Ack, Nack or a line
    sock,      \* the client a descriptor is connected to
    event,     \* whether epoll holds an event of a client's connection
    knock,     \* whether epoll holds an event of the listening socket
    \* memory
    ec,        \* each client's eventConn_t
    node,      \* each watcher_t
    head, tail,\* g_watcherList
    crashed,   \* memory was used that must not be
    \* the threads
    at,        \* where each thread is
    arg,       \* the connection each thread works on
    wat,       \* aWatch of each thread
    batch,     \* events epoll_wait returned and the loop has not handled
    prv, nxt,  \* pPrev and pNext of dllInsert
    line,      \* the line being dispatched
    pnode,     \* deliver's pNode
    saved,     \* deliver's pNext
    fd,        \* filterDeliver's sock
    owed       \* history: watchers in place when the walk for line began

clients == <<backlog, gone, asked>>
kernel == <<unread, screen, sock, event, knock>>
memory == <<ec, node, head, tail>>
conn == <<batch, prv, nxt>>
disp == <<line, pnode, saved, fd, owed>>
vars == <<clients, kernel, memory, crashed, at, arg, wat, conn, disp>>

None == [st |-> "none", fd |-> NoOne, watch |-> NoOne]

NoNode == [st |-> "none", next |-> Junk, prev |-> Junk, filter |-> FALSE]

Init ==
    /\ backlog = << >>
    /\ gone = [c \in Client |-> FALSE]
    /\ asked = [c \in Client |-> << >>]
    /\ unread = [c \in Client |-> << >>]
    /\ screen = [c \in Client |-> << >>]
    /\ sock = [f \in Fd |-> NoOne]
    /\ event = [c \in Client |-> FALSE]
    /\ knock = FALSE
    /\ ec = [c \in Client |-> None]
    /\ node = [w \in Watcher |-> NoNode]
    /\ head = NoOne
    /\ tail = NoOne
    /\ crashed = FALSE
    /\ at = [t \in Thread |-> IF t = "conn" THEN "loop" ELSE "idle"]
    /\ arg = [t \in Thread |-> NoOne]
    /\ wat = [t \in Thread |-> NoOne]
    /\ batch = {}
    /\ prv = NoOne
    /\ nxt = NoOne
    /\ line = 0
    /\ pnode = NoOne
    /\ saved = NoOne
    /\ fd = NoOne
    /\ owed = {}

Goto(t, label) == at' = [at EXCEPT ![t] = label]

LiveConn(c) == c # NoOne /\ ec[c].st = "live"

LiveNode(w) == w \in Watcher /\ node[w].st = "live"

(* Undefined behaviour: nothing is claimed of what follows.                 *)
Crash ==
    /\ crashed' = TRUE
    /\ UNCHANGED <<clients, kernel, memory, at, arg, wat, conn, disp>>

Connected(c) == \E i \in 1..Len(backlog) : backlog[i] = c

(* A connection is in epoll's set from epoll_ctl until its descriptor is    *)
(* closed.                                                                  *)
Registered(c) == \E f \in Fd : sock[f] = c

(* send: none of the descriptors blocks, so a full window is an error; the  *)
(* first sends to a client that closed its end still succeed.               *)
SendResults(f) ==
    IF sock[f] = NoOne THEN {FALSE}
    ELSE IF sock[f] \in Staller \/ gone[sock[f]] THEN {TRUE, FALSE}
    ELSE {TRUE}

Received(f, x) ==
    screen' = IF gone[sock[f]] THEN screen
              ELSE [screen EXCEPT ![sock[f]] = Append(@, x)]

----------------------------------------------------------------------------
(***************************************************************************)
(* The clients (external: any program that speaks the protocol).           *)
(***************************************************************************)
EnvFrame == UNCHANGED <<screen, sock, memory, crashed, at, arg, wat, conn, disp>>

Connect(c) ==
    /\ ~Connected(c) /\ ~Registered(c) /\ ec[c].st = "none"
    /\ asked[c] = << >> /\ ~gone[c]
    /\ backlog' = Append(backlog, c)
    /\ knock' = TRUE
    /\ UNCHANGED <<gone, asked, unread, event>>
    /\ EnvFrame

NumGood(c) == Cardinality({i \in 1..Len(asked[c]) : asked[c][i] = "good"})

Request(c, kind) ==
    /\ ~gone[c]
    /\ Connected(c) \/ Registered(c)
    /\ Len(asked[c]) < MaxRequests
    /\ kind = "good" => NumGood(c) < MaxGood
    /\ asked' = [asked EXCEPT ![c] = Append(@, kind)]
    /\ unread' = [unread EXCEPT ![c] = Append(@, kind)]
    /\ event' = [event EXCEPT ![c] = Registered(c)]
    /\ UNCHANGED <<backlog, gone, knock>>
    /\ EnvFrame

Leave(c) ==
    /\ c \in Leaver
    /\ ~gone[c]
    /\ Connected(c) \/ Registered(c)
    /\ gone' = [gone EXCEPT ![c] = TRUE]
    /\ event' = [event EXCEPT ![c] = Registered(c)]
    /\ UNCHANGED <<backlog, asked, unread, knock>>
    /\ EnvFrame

Env ==
    \/ \E c \in Client : Connect(c) \/ Leave(c)
    \/ \E c \in Client : \E kind \in Asks(c) : Request(c, kind)

----------------------------------------------------------------------------
(***************************************************************************)
(* removeClient, by either thread.  arg is nConn, wat is aWatch.           *)
(***************************************************************************)
RmFrame == UNCHANGED <<clients, unread, screen, knock, crashed, arg, batch,
                       prv, nxt, line, fd, owed>>

RmGoto(t, label) == Goto(t, label) /\ UNCHANGED <<pnode, saved>> /\ RmFrame

(* aWatch = nConn->pointer; close(nConn->fd)                                *)
RmClose(t) ==
    /\ at[t] = "close"
    /\ IF ~LiveConn(arg[t]) THEN Crash ELSE
       LET f == ec[arg[t]].fd IN
       /\ wat' = [wat EXCEPT ![t] = ec[arg[t]].watch]
       /\ sock' = [sock EXCEPT ![f] = NoOne]
       /\ event' = [c \in Client |-> event[c] /\ sock[f] # c]
       /\ RmGoto(t, IF ec[arg[t]].watch = NoOne THEN "freeConn" ELSE "cleanFilter")
       /\ UNCHANGED memory

RmFilter(t) ==
    /\ at[t] = "cleanFilter"
    /\ IF ~LiveNode(wat[t]) \/ ~node[wat[t]].filter THEN Crash ELSE
       /\ node' = [node EXCEPT ![wat[t]].filter = FALSE]
       /\ RmGoto(t, "unlinkPrev")
       /\ UNCHANGED <<ec, head, tail, wat, sock, event>>

(* dllRemove: the node before nConn->pointer, then the node after it.       *)
RmPrev(t) ==
    /\ at[t] = "unlinkPrev"
    /\ IF ~LiveConn(arg[t]) \/ ~LiveNode(ec[arg[t]].watch) THEN Crash ELSE
       LET n == node[ec[arg[t]].watch] IN
       IF n.prev # NoOne /\ ~LiveNode(n.prev) THEN Crash ELSE
       /\ IF n.prev = NoOne
             THEN head' = n.next /\ UNCHANGED node
             ELSE node' = [node EXCEPT ![n.prev].next = n.next] /\ UNCHANGED head
       /\ RmGoto(t, "unlinkNext")
       /\ UNCHANGED <<ec, tail, wat, sock, event>>

KeepBacklink(n) == node
Backlink(n) == [node EXCEPT ![n.next].prev = n.prev]

RmNext(t) ==
    /\ at[t] = "unlinkNext"
    /\ IF ~LiveNode(wat[t]) THEN Crash ELSE
       LET n == node[wat[t]] IN
       IF n.next # NoOne /\ ~LiveNode(n.next) THEN Crash ELSE
       /\ IF n.next = NoOne
             THEN tail' = n.prev /\ UNCHANGED node
             ELSE node' = Backlink(n) /\ UNCHANGED tail
       /\ RmGoto(t, "freeWatch")
       /\ UNCHANGED <<ec, head, wat, sock, event>>

RmFree(t) ==
    /\ at[t] = "freeWatch"
    /\ IF ~LiveNode(wat[t]) THEN Crash ELSE
       /\ node' = [node EXCEPT ![wat[t]].st = "freed"]
       /\ RmGoto(t, "freeConn")
       /\ UNCHANGED <<ec, head, tail, wat, sock, event>>

(* free(nConn), and back to the caller: dataHandler to the event loop,      *)
(* filterDeliver to the walk.                                               *)
RmFreeConn(t) ==
    /\ at[t] = "freeConn"
    /\ IF ~LiveConn(arg[t]) THEN Crash ELSE
       /\ ec' = [ec EXCEPT ![arg[t]] = [None EXCEPT !.st = "freed"]]
       /\ IF t = "conn"
             THEN RmGoto(t, "loop")
             ELSE /\ RmFrame
                  /\ pnode' = saved
                  /\ saved' = NoOne
                  /\ Goto(t, IF saved = NoOne THEN "idle" ELSE "next")
       /\ UNCHANGED <<node, head, tail, wat, sock, event>>

RemoveClient(t) ==
    \/ RmClose(t) \/ RmFilter(t) \/ RmPrev(t) \/ RmNext(t) \/ RmFree(t) \/ RmFreeConn(t)

----------------------------------------------------------------------------
(***************************************************************************)
(* The connection thread: epollProcessEvent and its two handlers.          *)
(***************************************************************************)
ConnFrame == UNCHANGED <<clients, crashed, disp>>

Walking == at["disp"] # "idle"

(* epoll_wait: what happened to each connection since it was last reported, *)
(* once (EPOLLET).  NoOne stands for the listening socket.                  *)
WaitEvents ==
    /\ at["conn"] = "loop" /\ batch = {}
    /\ Overlap \/ ~Walking
    /\ batch' = {<<c, gone[c]>> : c \in {d \in Client : event[d]}}
                \cup (IF knock THEN {<<NoOne, FALSE>>} ELSE {})
    /\ batch' # {}
    /\ event' = [c \in Client |-> FALSE]
    /\ knock' = FALSE
    /\ UNCHANGED <<unread, screen, sock, memory, at, arg, wat, prv, nxt>>
    /\ ConnFrame

(* One event: the listener's, a hang-up (EPOLLRDHUP), or data.              *)
HandleEvent ==
    /\ at["conn"] = "loop"
    /\ \E e \in batch :
        IF e[1] # NoOne /\ ~LiveConn(e[1]) THEN Crash ELSE
        /\ batch' = batch \ {e}
        /\ arg' = [arg EXCEPT !["conn"] = e[1]]
        /\ Goto("conn", IF e[1] = NoOne THEN "accept"
                        ELSE IF e[2] THEN "close" ELSE "recv")
        /\ UNCHANGED <<kernel, memory, wat, prv, nxt>>
        /\ ConnFrame

FreeFds == {f \in Fd : sock[f] = NoOne}

(* accept fails: nothing is left, or no descriptor is.                      *)
AcceptNothing ==
    /\ at["conn"] = "accept"
    /\ backlog = << >> \/ FreeFds = {}
    /\ Goto("conn", "loop")
    /\ UNCHANGED <<kernel, memory, arg, wat, batch, prv, nxt, clients, crashed, disp>>

AcceptFrame == UNCHANGED <<gone, asked, unread, screen, knock, node, head, tail,
                           crashed, arg, wat, batch, prv, nxt, disp>>

NoFirstEvent(c) == FALSE
FirstEvent(c) == gone[c] \/ unread[c] # << >>

(* The connection is epoll's from now on: what already happened is an event.*)
Install(c, f) ==
    /\ sock' = [sock EXCEPT ![f] = c]
    /\ ec' = [ec EXCEPT ![c] = [st |-> "live", fd |-> f, watch |-> NoOne]]
    /\ event' = [event EXCEPT ![c] = FirstEvent(c)]

AcceptOne == Goto("conn", "loop")
AcceptAgain == UNCHANGED at

Accept ==
    /\ at["conn"] = "accept"
    /\ backlog # << >> /\ FreeFds # {}
    /\ Install(Head(backlog), Min(FreeFds))
    /\ backlog' = Tail(backlog)
    /\ AcceptAgain
    /\ AcceptFrame

NotClosed == [sock EXCEPT ![Min(FreeFds)] = Head(backlog)]
Closed == sock

(* fcntl or malloc fails: close and leave the loop; epoll_ctl fails: close  *)
(* and go on.                                                               *)
AcceptFails ==
    /\ at["conn"] = "accept"
    /\ Failures
    /\ backlog # << >> /\ FreeFds # {}
    /\ backlog' = Tail(backlog)
    /\ ec' = [ec EXCEPT ![Head(backlog)].st = "freed"]
    /\ \E leave \in BOOLEAN : IF leave THEN Goto("conn", "loop") ELSE UNCHANGED at
    /\ sock' = Closed
    /\ UNCHANGED event
    /\ AcceptFrame

RecvFrame == UNCHANGED <<clients, sock, event, knock, memory, crashed, arg, wat,
                         batch, prv, nxt, disp>>

(* recvPacket and processRequest, up to the answer.  The answer to a bad    *)
(* request is sent without a look at the result.                            *)
Recv ==
    /\ at["conn"] = "recv"
    /\ IF ~LiveConn(arg["conn"]) THEN Crash ELSE
       LET f == ec[arg["conn"]].fd
           c == sock[f]
           Stop(label) == Goto("conn", label) /\ UNCHANGED <<unread, screen>>
       IN /\ IF c = NoOne THEN Stop("close")
             ELSE IF unread[c] = << >> THEN Stop(IF gone[c] THEN "close" ELSE "loop")
             ELSE /\ unread' = [unread EXCEPT ![c] = Tail(@)]
                  /\ IF Head(unread[c]) = "good"
                        THEN Goto("conn", "answer") /\ UNCHANGED screen
                        ELSE /\ Goto("conn", "close")
                             /\ \E sent \in SendResults(f) :
                                   IF sent /\ Head(unread[c]) # "badlen"
                                      THEN Received(f, Nack) ELSE UNCHANGED screen
          /\ RecvFrame

AnyResult(sent) == TRUE
Succeeded(sent) == sent

Answer ==
    /\ at["conn"] = "answer"
    /\ IF ~LiveConn(arg["conn"]) THEN Crash ELSE
       LET f == ec[arg["conn"]].fd IN
       \E sent \in SendResults(f) :
          /\ IF sent THEN Received(f, Ack) ELSE UNCHANGED screen
          /\ Goto("conn", IF Succeeded(sent) THEN "malloc" ELSE "close")
          /\ UNCHANGED unread
          /\ RecvFrame

(* addWatchList: allocate, dllAdd at the tail, point the connection at it.  *)
AddFrame == UNCHANGED <<kernel, clients, crashed, arg, batch, disp>>

AddGoto(label) == Goto("conn", label) /\ AddFrame

(* Bound: a connection gets at most MaxGood watchers.                       *)
FreeNodes(c) == {n \in 1..MaxGood : node[<<c, n>>].st = "none"}

AddMalloc ==
    /\ at["conn"] = "malloc"
    /\ FreeNodes(arg["conn"]) # {}
    /\ LET w == <<arg["conn"], Min(FreeNodes(arg["conn"]))>>
       IN \/ /\ node' = [node EXCEPT ![w] = [NoNode EXCEPT !.st = "live", !.filter = TRUE]]
             /\ wat' = [wat EXCEPT !["conn"] = w]
             /\ Goto("conn", "tail")
          \/ /\ Failures
             /\ Goto("conn", "close")
             /\ UNCHANGED <<node, wat>>
    /\ UNCHANGED <<ec, head, tail, prv, nxt>>
    /\ AddFrame

AtHead == NoOne
AtTail == tail

AddTail ==
    /\ at["conn"] = "tail"
    /\ prv' = AtTail
    /\ AddGoto("publish")
    /\ UNCHANGED <<memory, wat, nxt>>

(* The node can be reached from here on; its own pointers are still unset.  *)
InsertPublish ==
    /\ at["conn"] = "publish"
    /\ IF prv # NoOne /\ ~LiveNode(prv) THEN Crash ELSE
       /\ IF prv = NoOne
             THEN nxt' = head /\ head' = wat["conn"] /\ UNCHANGED node
             ELSE /\ nxt' = node[prv].next
                  /\ node' = [node EXCEPT ![prv].next = wat["conn"]]
                  /\ UNCHANGED head
       /\ AddGoto("backlink")
       /\ UNCHANGED <<ec, tail, wat, prv>>

OldTail == tail
NewTail == wat["conn"]

InsertBacklink ==
    /\ at["conn"] = "backlink"
    /\ IF nxt # NoOne /\ ~LiveNode(nxt) THEN Crash ELSE
       /\ IF nxt = NoOne
             THEN tail' = NewTail /\ UNCHANGED node
             ELSE node' = [node EXCEPT ![nxt].prev = wat["conn"]] /\ UNCHANGED tail
       /\ AddGoto("pointers")
       /\ UNCHANGED <<ec, head, wat, prv, nxt>>

InsertPointers ==
    /\ at["conn"] = "pointers"
    /\ IF ~LiveNode(wat["conn"]) THEN Crash ELSE
       /\ node' = [node EXCEPT ![wat["conn"]].next = nxt, ![wat["conn"]].prev = prv]
       /\ prv' = NoOne
       /\ nxt' = NoOne
       /\ AddGoto("attach")
       /\ UNCHANGED <<ec, head, tail, wat>>

ItsConnection == arg["conn"]
ItsWatcher == wat["conn"]

Attach ==
    /\ at["conn"] = "attach"
    /\ IF ~LiveConn(arg["conn"]) THEN Crash ELSE
       /\ ec' = [ec EXCEPT ![arg["conn"]].watch = ItsWatcher]
       /\ AddGoto("recv")
       /\ UNCHANGED <<node, head, tail, wat, prv, nxt>>

AddWatchList == AddMalloc \/ AddTail \/ InsertPublish \/ InsertBacklink
                    \/ InsertPointers \/ Attach

ConnNext ==
    \/ WaitEvents \/ HandleEvent
    \/ AcceptNothing \/ Accept \/ AcceptFails
    \/ Recv \/ Answer \/ AddWatchList
    \/ RemoveClient("conn")

----------------------------------------------------------------------------
(***************************************************************************)
(* The dispatch thread: deliver, once for each line.                       *)
(***************************************************************************)
DispFrame == UNCHANGED <<clients, unread, sock, event, knock, memory, crashed,
                         wat, conn>>

(* A line comes out of the queue; the walk starts at the head.  The watchers*)
(* in place now are owed the line.                                          *)
GetLine ==
    /\ ~Walking
    /\ line < LastLine
    /\ Overlap \/ (at["conn"] = "loop" /\ batch = {})
    /\ line' = line + 1
    /\ pnode' = head
    /\ owed' = {c \in Client : LiveConn(c) /\ ec[c].watch # NoOne /\ Matches(c, line')}
    /\ Goto("disp", IF head = NoOne THEN "idle" ELSE "next")
    /\ UNCHANGED <<screen, saved, fd, arg>>
    /\ DispFrame

(* pNext = DLL_NEXT(pNode), before pNode may be freed.  A pointer that was  *)
(* never written may happen to be NULL.                                     *)
ReadNext ==
    /\ at["disp"] = "next"
    /\ IF ~LiveNode(pnode) THEN Crash ELSE
       \/ node[pnode].next = Junk /\ Crash
       \/ /\ saved' = IF node[pnode].next = Junk THEN NoOne ELSE node[pnode].next
          /\ Goto("disp", "fd")
          /\ UNCHANGED <<screen, line, pnode, fd, owed, arg>>
          /\ DispFrame

(* sock = aWatch->ec->fd                                                    *)
ReadFd ==
    /\ at["disp"] = "fd"
    /\ IF ~LiveNode(pnode) \/ ~LiveConn(pnode[1]) THEN Crash ELSE
       /\ fd' = ec[pnode[1]].fd
       /\ Goto("disp", "filter")
       /\ UNCHANGED <<screen, line, pnode, saved, owed, arg>>
       /\ DispFrame

Advance ==
    /\ pnode' = saved
    /\ saved' = NoOne
    /\ fd' = NoOne
    /\ Goto("disp", IF saved = NoOne THEN "idle" ELSE "next")

AnyLine(w) == TRUE
Accepts(w) == Matches(w[1], line)

DoFilter ==
    /\ at["disp"] = "filter"
    /\ IF ~LiveNode(pnode) \/ ~node[pnode].filter THEN Crash ELSE
       /\ IF Accepts(pnode)
             THEN Goto("disp", "send") /\ UNCHANGED <<pnode, saved, fd>>
             ELSE Advance
       /\ UNCHANGED <<screen, line, owed, arg>>
       /\ DispFrame

(* send; on an error removeClient(NULL, aWatch->ec).                        *)
Send ==
    /\ at["disp"] = "send"
    /\ \E sent \in SendResults(fd) :
        IF ~sent /\ ~LiveNode(pnode) THEN Crash ELSE
        /\ IF sent
              THEN Received(fd, line) /\ Advance /\ UNCHANGED arg
              ELSE /\ arg' = [arg EXCEPT !["disp"] = pnode[1]]
                   /\ fd' = NoOne
                   /\ Goto("disp", "close")
                   /\ UNCHANGED <<screen, pnode, saved>>
        /\ UNCHANGED <<line, owed>>
        /\ DispFrame

DispNext == ReadNext \/ ReadFd \/ DoFilter \/ Send \/ RemoveClient("disp")

----------------------------------------------------------------------------
Next == ~crashed /\ (Env \/ ConnNext \/ GetLine \/ DispNext)

Spec == Init /\ [][Next]_vars

(* Both threads are scheduled; clients and lines come as they like.         *)
FairSpec == Spec /\ WF_vars(~crashed /\ ConnNext) /\ WF_vars(~crashed /\ DispNext)

----------------------------------------------------------------------------
TypeOK ==
    /\ backlog \in Seq(Client)
    /\ gone \in [Client -> BOOLEAN]
    /\ asked \in [Client -> Seq(Kinds)]
    /\ unread \in [Client -> Seq(Kinds)]
    /\ screen \in [Client -> Seq((1..LastLine) \cup {Ack, Nack})]
    /\ sock \in [Fd -> Client \cup {NoOne}]
    /\ event \in [Client -> BOOLEAN]
    /\ knock \in BOOLEAN
    /\ ec \in [Client -> [st : {"none", "live", "freed"}, fd : Fd \cup {NoOne},
                          watch : Watcher \cup {NoOne}]]
    /\ node \in [Watcher -> [st : {"none", "live", "freed"}, filter : BOOLEAN,
                             next : Watcher \cup {NoOne, Junk},
                             prev : Watcher \cup {NoOne, Junk}]]
    /\ head \in Watcher \cup {NoOne, Junk}
    /\ tail \in Watcher \cup {NoOne, Junk}
    /\ crashed \in BOOLEAN
    /\ DOMAIN at = Thread
    /\ arg \in [Thread -> Client \cup {NoOne}]
    /\ wat \in [Thread -> Watcher \cup {NoOne}]
    /\ batch \subseteq (Client \cup {NoOne}) \X BOOLEAN
    /\ prv \in Watcher \cup {NoOne, Junk}
    /\ nxt \in Watcher \cup {NoOne, Junk}
    /\ line \in 0..LastLine
    /\ pnode \in Watcher \cup {NoOne, Junk}
    /\ saved \in Watcher \cup {NoOne}
    /\ fd \in Fd \cup {NoOne}
    /\ owed \subseteq Client

----------------------------------------------------------------------------
(***************************************************************************)
(* Nothing keeps the two threads apart.  They clash when                   *)
(*   - the walk holds a pointer to a watcher that the connection thread is *)
(*     taking off the list, or steps on one it has not put on yet,         *)
(*   - the dispatch thread takes a connection down that the other one is   *)
(*     at work on or has an event of, or while the other changes the list. *)
(* Everything else they do at the same time.                               *)
(***************************************************************************)
Insertion == {"tail", "publish", "backlink", "pointers"}
AfterClose == {"cleanFilter", "unlinkPrev", "unlinkNext", "freeWatch", "freeConn"}
Removal == {"close"} \cup AfterClose
ConnWork == {"recv", "answer", "malloc", "attach"} \cup Insertion \cup Removal

(* The connection thread is taking the watcher of its connection away.      *)
TakesOff == at["conn"] \in Removal \ {"freeConn"} /\ ec[arg["conn"]].watch # NoOne

(* The connection thread is at work on c, or has an event of it to handle.  *)
Serves(c) == \/ at["conn"] \in ConnWork /\ arg["conn"] = c
             \/ \E e \in batch : e[1] = c

Clash ==
    \/ TakesOff /\ ec[arg["conn"]].watch \in {pnode, saved}
    \/ at["conn"] \in Insertion /\ pnode = wat["conn"]
    \/ at["disp"] \in Removal /\ (Serves(arg["disp"]) \/ TakesOff \/ at["conn"] \in Insertion)

(* A client sends at most one request that is accepted (as logwatch does);  *)
(* a second one adds a watcher that the connection forgets (addWatchList).  *)
AskedOnce == \A c \in Client : \A i, j \in 1..Len(asked[c]) :
                asked[c][i] = "good" /\ asked[c][j] = "good" => i = j

(* What removeClient, dllInsert, dllRemove and deliver rely on.             *)
Apart == ~Clash /\ AskedOnce

----------------------------------------------------------------------------
(* Neither thread uses memory that was freed or never written, frees twice, *)
(* or follows a pointer it must not (removeClient, deliver, dllRemove).     *)
MemorySafe == ~crashed

ConnIdle == at["conn"] = "loop" /\ batch = {}

Quiet == ConnIdle /\ ~Walking /\ ~crashed

LiveNodes == {w \in Watcher : node[w].st = "live"}

(* Following next from first, or prev from last, i times.                   *)
Forward == LET f[i \in Nat] == IF i = 0 THEN head
                               ELSE IF f[i-1] = NoOne THEN NoOne ELSE node[f[i-1]].next
           IN f
Backward == LET f[i \in Nat] == IF i = 0 THEN tail
                                ELSE IF f[i-1] = NoOne THEN NoOne ELSE node[f[i-1]].prev
            IN f

(* With both threads between handlers, g_watcherList read from either end   *)
(* is exactly the watchers of the open connections, each once.              *)
ListSound ==
    Quiet =>
        LET n == Cardinality(LiveNodes) IN
        /\ LiveNodes = {ec[c].watch : c \in {d \in Client : LiveConn(d)}} \ {NoOne}
        /\ {Forward[i] : i \in 0..(n-1)} = LiveNodes \ {NoOne}
        /\ Forward[n] = NoOne /\ Backward[n] = NoOne
        /\ \A i \in 0..(n-1) : Backward[i] = Forward[n-1-i]

(* With both threads between handlers, every open descriptor is the one of  *)
(* a connection the server still holds, and the other way round: no failed  *)
(* accept, refused request or lost client leaks or doubles a descriptor.    *)
NoLeak ==
    Quiet => /\ \A f \in Fd : sock[f] # NoOne =>
                   LiveConn(sock[f]) /\ ec[sock[f]].fd = f
             /\ \A c \in Client : LiveConn(c) => sock[ec[c].fd] = c

(* A line a client receives satisfies the filter it asked for.              *)
OnlyMatching ==
    \A c \in Client : \A i \in 1..Len(screen[c]) :
        screen[c][i] \in {Ack, Nack} \/ Matches(c, screen[c][i])

(* A walk reaches every watcher that was in place when it began, whatever   *)
(* the connection thread inserts meanwhile.                                 *)
NoneMissed ==
    (~Walking /\ ~crashed) =>
        \A c \in owed : \/ \E i \in 1..Len(screen[c]) : screen[c][i] = line
                        \/ gone[c] \/ ec[c].st # "live"

(* Edge-triggered accept: no connection waits with nothing to announce it.  *)
BacklogDrained == (ConnIdle /\ ~crashed /\ backlog # << >>) => knock

(* What the clients see is the service of WatchService: lines only after an *)
(* acknowledgement, each once, in order, matching; nothing after a refusal. *)
Service == INSTANCE WatchService
ServiceSpec == Service!Spec

(* A connection whose client has left is released in the end.               *)
Released == \A c \in Client : (gone[c] /\ Registered(c)) ~> (crashed \/ ~Registered(c))

(* A client that stays and asks well is answered in the end.                *)
Answered == \A c \in Client :
    (asked[c] # << >>) ~> (crashed \/ \E i \in 1..Len(screen[c]) : screen[c][i] = Ack)
============================================================================
