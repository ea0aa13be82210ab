---------------------------- MODULE LogPipeline ----------------------------
(***************************************************************************)
(* The path of a log line from the main thread of syslogd to the thread    *)
(* that serves the watchers.  The main thread copies the line to the heap  *)
(* (printline), writes the low four bytes of the copy's address to a pipe  *)
(* (qfifoPut) and then logs the line to the files (logmsg).  The dispatch  *)
(* thread reads the four bytes over the low half of a pointer variable of  *)
(* its own (qfifoGet), hands the line to the watchers and frees the copy.  *)
(*                                                                         *)
(* The pipe blocks in both directions; `count' is kept by both threads     *)
(* with no lock, so each of its updates is a load and a store.             *)
(*                                                                         *)
(* The returns of -1 in qfifoPut and qfifoGet have no action: four bytes   *)
(* are within PIPE_BUF, so that they go over whole or not at all; neither  *)
(* end is ever closed or made non-blocking; and signal() of glibc, which   *)
(* the server uses for all its handlers, restarts an interrupted call.     *)
(***************************************************************************)
EXTENDS Integers, Sequences

CONSTANTS Addr,          \* addresses malloc can return: records [hi, lo]
          Capacity,      \* pointers the pipe holds before a write blocks
          MaxLines,      \* bound: lines received in a behaviour
          StartOutcomes  \* what pthread_create may answer: a set of BOOLEANs

(***************************************************************************)
(* An address is a pair of halves; NULL is the pair of zeros.  Only the    *)
(* low half crosses the pipe, so the build must keep the heap below 4 GB.  *)
(***************************************************************************)
Null == [hi |-> 0, lo |-> 0]

ASSUME AddrAssumption ==
    /\ Addr \subseteq [hi : Nat, lo : Nat]
    /\ \A a \in Addr : a.hi = 0 /\ a.lo # 0

ASSUME BoundAssumption ==
    /\ Capacity \in Nat \ {0}
    /\ MaxLines \in Nat
    /\ StartOutcomes \subseteq BOOLEAN

VARIABLES
    heap,      \* the line held by the logObj at each address, 0 if free
    pipe,      \* the low halves in the pipe, oldest first
    count,     \* qfifo_t.count, in bytes
    mpc,       \* where the main thread is
    received,  \* the number of the last line received
    cur,       \* printline's logObj
    mtmp,      \* count as loaded by qfifoPut
    logged,    \* lines given to logmsg, in order
    dpc,       \* where the dispatch thread is, "absent" if it never started
    obj,       \* watchDispatchServer's logObj, kept from one round to the next
    dtmp,      \* count as loaded by qfifoGet
    sent,      \* history: lines whose copy was written to the pipe
    handled,   \* history: lines the dispatch thread has handed to the watchers
    crashed    \* a freed or foreign address was used

mainVars == <<mpc, received, cur, mtmp, logged>>
dispVars == <<dpc, obj, dtmp>>
vars == <<heap, pipe, count, mpc, received, cur, mtmp, logged, dpc, obj, dtmp,
          sent, handled, crashed>>

PtrLen == 4

Live(a) == a \in Addr /\ heap[a] # 0

Free == {a \in Addr : heap[a] = 0}

Init ==
    /\ heap = [a \in Addr |-> 0]
    /\ pipe = << >>
    /\ count = 0
    /\ mpc = "start"
    /\ received = 0
    /\ cur = Null
    /\ mtmp = 0
    /\ logged = << >>
    /\ dpc = "absent"
    /\ obj = Null
    /\ dtmp = 0
    /\ sent = << >>
    /\ handled = << >>
    /\ crashed = FALSE

----------------------------------------------------------------------------
(***************************************************************************)
(* Faulty variants of the actions below.  Next does not use them: each is  *)
(* put in the place of the action it alters to see that the properties can *)
(* tell the two apart.                                                     *)
(***************************************************************************)

(* write on a non-blocking pipe that makes room by dropping the oldest.     *)
PutWriteDropping ==
    /\ mpc = "write"
    /\ pipe' = Append(IF Len(pipe) < Capacity THEN pipe ELSE Tail(pipe), cur.lo)
    /\ sent' = Append(sent, received)
    /\ mpc' = "load"
    /\ UNCHANGED <<heap, count, received, cur, mtmp, logged, dispVars, handled,
                   crashed>>

(* printline frees its copy once it is in the pipe.                         *)
PutStoreFreeing ==
    /\ mpc = "store"
    /\ count' = mtmp + PtrLen
    /\ heap' = [heap EXCEPT ![cur] = 0]
    /\ mpc' = "logmsg"
    /\ UNCHANGED <<pipe, received, cur, mtmp, logged, dispVars, sent, handled,
                   crashed>>

(* printline returns without calling logmsg.                                *)
PutStoreReturning ==
    /\ mpc = "store"
    /\ count' = mtmp + PtrLen
    /\ mpc' = "receive"
    /\ UNCHANGED <<heap, pipe, received, cur, mtmp, logged, dispVars, sent,
                   handled, crashed>>

(* The dispatch thread forgets its frees.                                   *)
FreeObjLeaking ==
    /\ dpc = "free"
    /\ dpc' = "read"
    /\ UNCHANGED <<heap, pipe, count, mainVars, obj, dtmp, sent, handled,
                   crashed>>

----------------------------------------------------------------------------
(***************************************************************************)
(* The main thread.                                                        *)
(***************************************************************************)

(* startWatchServer: the caller ignores the result, so when either thread   *)
(* cannot be created the main loop runs with no reader on the pipe.         *)
StartWatchServer ==
    /\ mpc = "start"
    /\ mpc' = "receive"
    /\ \E ok \in StartOutcomes : dpc' = IF ok THEN "read" ELSE "absent"
    /\ UNCHANGED <<heap, pipe, count, received, cur, mtmp, logged, obj, dtmp,
                   sent, handled, crashed>>

(* A datagram arrives and printline has decoded its next line.              *)
Receive ==
    /\ mpc = "receive"
    /\ received < MaxLines
    /\ received' = received + 1
    /\ mpc' = "alloc"
    /\ UNCHANGED <<heap, pipe, count, cur, mtmp, logged, dispVars, sent,
                   handled, crashed>>

(* malloc and strdup; with no memory the line only goes to the files.       *)
AllocObj ==
    /\ mpc = "alloc"
    /\ IF Free = {}
         THEN /\ cur' = Null
              /\ mpc' = "logmsg"
              /\ UNCHANGED heap
         ELSE \E a \in Free :
              /\ cur' = a
              /\ heap' = [heap EXCEPT ![a] = received]
              /\ mpc' = "write"
    /\ UNCHANGED <<pipe, count, received, mtmp, logged, dispVars, sent,
                   handled, crashed>>

(* write(pipes[1], &logObj, 4): it blocks while the pipe is full.           *)
PutWrite ==
    /\ mpc = "write"
    /\ Len(pipe) < Capacity
    /\ pipe' = Append(pipe, cur.lo)
    /\ sent' = Append(sent, received)
    /\ mpc' = "load"
    /\ UNCHANGED <<heap, count, received, cur, mtmp, logged, dispVars, handled,
                   crashed>>

(* pfifo->count += len, first the load and then the store.                  *)
PutLoad ==
    /\ mpc = "load"
    /\ mtmp' = count
    /\ mpc' = "store"
    /\ UNCHANGED <<heap, pipe, count, received, cur, logged, dispVars, sent,
                   handled, crashed>>

PutStore ==
    /\ mpc = "store"
    /\ count' = mtmp + PtrLen
    /\ mpc' = "logmsg"
    /\ UNCHANGED <<heap, pipe, received, cur, mtmp, logged, dispVars, sent,
                   handled, crashed>>

(* logmsg: the line reaches the files only after the put has returned.      *)
LogMsg ==
    /\ mpc = "logmsg"
    /\ logged' = Append(logged, received)
    /\ mpc' = "receive"
    /\ UNCHANGED <<heap, pipe, count, received, cur, mtmp, dispVars, sent,
                   handled, crashed>>

Main == StartWatchServer \/ Receive \/ AllocObj \/ PutWrite \/ PutLoad
        \/ PutStore \/ LogMsg

----------------------------------------------------------------------------
(***************************************************************************)
(* The dispatch thread.                                                    *)
(***************************************************************************)

(* The read does not wait, and its -1 is taken for the pointer.             *)
GetReadNoWait ==
    /\ dpc = "read"
    /\ obj' = [obj EXCEPT !.lo = IF pipe = << >> THEN -1 ELSE Head(pipe)]
    /\ pipe' = IF pipe = << >> THEN pipe ELSE Tail(pipe)
    /\ dpc' = "load"
    /\ UNCHANGED <<heap, count, mainVars, dtmp, sent, handled, crashed>>

(* read(pipes[0], &logObj, 4) blocks while the pipe is empty and overwrites *)
(* only the low half of the variable.                                       *)
GetRead ==
    /\ dpc = "read"
    /\ pipe # << >>
    /\ obj' = [obj EXCEPT !.lo = Head(pipe)]
    /\ pipe' = Tail(pipe)
    /\ dpc' = "load"
    /\ UNCHANGED <<heap, count, mainVars, dtmp, sent, handled, crashed>>

(* pfifo->count -= len, then the test and the reset of a negative count.    *)
GetLoad ==
    /\ dpc = "load"
    /\ dtmp' = count
    /\ dpc' = "store"
    /\ UNCHANGED <<heap, pipe, count, mainVars, obj, sent, handled, crashed>>

GetStore ==
    /\ dpc = "store"
    /\ count' = dtmp - PtrLen
    /\ dpc' = "test"
    /\ UNCHANGED <<heap, pipe, mainVars, obj, dtmp, sent, handled, crashed>>

GetTest ==
    /\ dpc = "test"
    /\ dpc' = IF count < 0 THEN "clamp" ELSE "deliver"
    /\ UNCHANGED <<heap, pipe, count, mainVars, obj, dtmp, sent, handled,
                   crashed>>

GetClamp ==
    /\ dpc = "clamp"
    /\ count' = 0
    /\ dpc' = "deliver"
    /\ UNCHANGED <<heap, pipe, mainVars, obj, dtmp, sent, handled, crashed>>

(* if(logObj): print the line, parse it and deliver it to the watchers.     *)
Deliver ==
    /\ dpc = "deliver"
    /\ IF obj = Null
         THEN dpc' = "read" /\ UNCHANGED <<handled, crashed>>
         ELSE IF Live(obj)
         THEN /\ handled' = Append(handled, heap[obj])
              /\ dpc' = "free"
              /\ UNCHANGED crashed
         ELSE /\ crashed' = TRUE
              /\ dpc' = "crashed"
              /\ UNCHANGED handled
    /\ UNCHANGED <<heap, pipe, count, mainVars, obj, dtmp, sent>>

(* free(logLine), free(hostName), free(logObj); the variable keeps its      *)
(* dangling value.                                                          *)
FreeObj ==
    /\ dpc = "free"
    /\ IF Live(obj)
         THEN /\ heap' = [heap EXCEPT ![obj] = 0]
              /\ dpc' = "read"
              /\ UNCHANGED crashed
         ELSE /\ crashed' = TRUE
              /\ dpc' = "crashed"
              /\ UNCHANGED heap
    /\ UNCHANGED <<pipe, count, mainVars, obj, dtmp, sent, handled>>

Disp == GetRead \/ GetLoad \/ GetStore \/ GetTest \/ GetClamp \/ Deliver
        \/ FreeObj

Next == Main \/ Disp

(***************************************************************************)
(* The scheduler starves no runnable thread; a blocked write or read is a  *)
(* disabled action.  Nothing makes lines arrive: Receive is not fair.      *)
(***************************************************************************)
MainWork == StartWatchServer \/ AllocObj \/ PutWrite \/ PutLoad \/ PutStore
            \/ LogMsg

Spec == Init /\ [][Next]_vars

FairSpec == Spec /\ WF_vars(MainWork) /\ WF_vars(Disp)

----------------------------------------------------------------------------
(***************************************************************************)
(* Properties.                                                             *)
(***************************************************************************)
MainAt == {"start", "receive", "alloc", "write", "load", "store", "logmsg"}

DispAt == {"absent", "read", "load", "store", "test", "clamp", "deliver",
           "free", "crashed"}

TypeOK ==
    /\ heap \in [Addr -> Nat]
    /\ pipe \in Seq(Nat)
    /\ count \in Int
    /\ mpc \in MainAt
    /\ received \in Nat
    /\ cur \in Addr \cup {Null}
    /\ mtmp \in Int
    /\ logged \in Seq(Nat)
    /\ dpc \in DispAt
    /\ obj \in [hi : Nat, lo : Nat]
    /\ dtmp \in Int
    /\ sent \in Seq(Nat)
    /\ handled \in Seq(Nat)
    /\ crashed \in BOOLEAN

(* The pointer that four bytes read from the pipe make.                     *)
Ptr(w) == [hi |-> 0, lo |-> w]

InPipe(a) == \E i \in 1..Len(pipe) : a = Ptr(pipe[i])

DispHolds == dpc \in {"load", "store", "test", "clamp", "deliver", "free"}

(* A live copy has exactly one owner: printline up to its write, then the   *)
(* pipe (once), then the dispatch thread up to its frees.  So no copy is    *)
(* leaked, freed twice, or used after its address was given to a later      *)
(* line, although the pointer variables of both threads keep old values.    *)
OneOwner ==
    /\ ~crashed
    /\ \A a \in Addr : heap[a] # 0 <=>
         \/ mpc = "write" /\ a = cur
         \/ InPipe(a)
         \/ DispHolds /\ a = obj
    /\ mpc = "write" => ~InPipe(cur) /\ ~(DispHolds /\ obj = cur)
    /\ DispHolds => ~InPipe(obj)
    /\ \A i, j \in 1..Len(pipe) : pipe[i] = pipe[j] => i = j

(* The watchers see every line that was put, once and in the order the main *)
(* thread received it, with at most Capacity lines in the pipe and one in   *)
(* the dispatch thread's hand (qfifo.h: a FIFO between two threads).        *)
Channel == INSTANCE FifoChannel WITH Item <- 1..MaxLines, Bound <- Capacity + 1,
                                     rcvd <- handled

ChannelSpec == Channel!Spec

(* A watcher never runs ahead of the files by more than the line in hand:   *)
(* qfifoPut precedes logmsg, so a line can be on a watcher's screen before  *)
(* it is in the file, but only the one printline is still working on.       *)
AtMostOneAhead ==
    \A i \in 1..Len(handled) :
        \/ \E j \in 1..Len(logged) : logged[j] = handled[i]
        \/ handled[i] = received /\ mpc \in {"load", "store", "logmsg"}

(* When the watch threads started, a full pipe only delays the main thread: *)
(* every line received is logged to the files, and every copy put in the    *)
(* pipe is handed to the watchers and freed.                                *)
Started == mpc # "start" /\ dpc # "absent"

LineServed ==
    /\ (Started /\ mpc # "receive") ~> (mpc = "receive")
    /\ \A n \in 1..MaxLines :
         (Started /\ \E i \in 1..Len(sent) : sent[i] = n)
           ~> /\ \E i \in 1..Len(handled) : handled[i] = n
              /\ \A a \in Addr : heap[a] # n
============================================================================
