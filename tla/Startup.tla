------------------------------ MODULE Startup ------------------------------
(***************************************************************************)
(* How servers start and end (main and die in syslogd.c, pidfile.c).  A    *)
(* start looks into the pid file, forks, and waits; the child looks again, *)
(* writes its pid into the file, reads the configuration, takes the socket *)
(* and then releases its parent by SIGTERM.  With -n there is no fork; -d, *)
(* which does without the file, is left out.                               *)
(*                                                                         *)
(* A start is one call of the command.  Its two processes have pids, which *)
(* the system gives out again once a process is gone and its parent, if it *)
(* waits, is gone too.  The pid file and the socket are names in a         *)
(* directory: what is behind the name may be removed or replaced while a   *)
(* process still has it open.                                              *)
(***************************************************************************)
EXTENDS Naturals

CONSTANTS
    Starts,     \* how many starts there are
    Pids,       \* how many pids there are for them
    Modes,      \* "daemon" or "foreground" (-n)
    MaxCrashes  \* bound: how many servers are killed

ASSUME StartAssumption ==
    /\ Starts \in Nat /\ Pids \in Nat /\ MaxCrashes \in Nat
    /\ Modes \subseteq {"daemon", "foreground"}

Start == 1..Starts
OldFile == Starts + 1   \* a file that an earlier server left behind
File == Start \cup {OldFile}
Pid == 1..Pids
Stranger == Pids + 1    \* the pid of a process that has nothing to do with syslogd
None == 0               \* no pid, no file, no socket

VARIABLES
    parent,     \* where the process is that was started, and waits
    server,     \* where the process is that becomes the server
    ppid, pid,  \* their pids
    seen,       \* what read_pid gave the process that checks
    fd,         \* the file that write_pid has open
    file,       \* which file bears the name PidFile; a file is named after the
                \* start that made it
    content,    \* the pid in a file, None if it is empty
    socket,     \* whose socket the name funixn[0] leads to
    funix,      \* whether the server has its socket
    crashes,    \* how many servers were killed
    contested,  \* history: the file could not tell the starts apart: two of
                \* them were between check and write at once, or a pid could
                \* not be written
    late        \* history: a parent stopped waiting for a child that is alive

fileVars == <<fd, file, content>>
vars == <<parent, server, ppid, pid, seen, fileVars, socket, funix, crashes, contested, late>>

Init ==
    /\ parent = [s \in Start |-> "none"] /\ server = [s \in Start |-> "none"]
    /\ ppid = [s \in Start |-> None] /\ pid = [s \in Start |-> None]
    /\ seen = [s \in Start |-> None]
    /\ fd = [s \in Start |-> None]
    /\ file \in {None, OldFile}
    /\ \E old \in Pid \cup {None, Stranger} : content = [f \in File |-> IF f = file THEN old ELSE None]
    /\ socket = None /\ funix = [s \in Start |-> FALSE]
    /\ crashes = 0 /\ contested = FALSE /\ late = FALSE

----------------------------------------------------------------------------
(***************************************************************************)
(* Processes.                                                              *)
(***************************************************************************)
ParentLives(s) == parent[s] \in {"read", "probe", "fork", "waiting"}
ServerLives(s) == server[s] \notin {"none", "gone"}

(* A child whose parent has not ended stays in the process table.           *)
InUse == {ppid[s] : s \in {t \in Start : ParentLives(t)}}
         \cup {pid[s] : s \in {t \in Start : ServerLives(t) \/ (parent[t] = "waiting" /\ pid[t] # None)}}

(* Pids that nobody has had yet are all alike: the lowest stands for them.  *)
FreePids == {p \in Pid \ InUse :
                \A q \in 1..(p - 1) : \E s \in Start : q \in {ppid[s], pid[s]}}

(* What SIGTERM does: the parent has doexit for it, the server has die once *)
(* it is past "handler", and before that it is killed.                      *)
Unprotected == {"explore", "read", "probe", "open", "lock", "write", "unlock", "handler"}
Dying == {"dieSocket", "dieFile"}

doexit(s) == IF parent[s] = "waiting" THEN "released" ELSE "killed"

Terminated(s) == IF server[s] \in Unprotected THEN "gone"
                 ELSE IF server[s] \in Dying THEN server[s] ELSE "dieSocket"

(* kill(p, SIGTERM), by a server that goes on with pc.                      *)
KillAndGo(s, p, pc) ==
    /\ parent' = [t \in Start |-> IF ParentLives(t) /\ ppid[t] = p THEN doexit(t) ELSE parent[t]]
    /\ server' = [t \in Start |-> IF t = s THEN pc
                                  ELSE IF ServerLives(t) /\ pid[t] = p THEN Terminated(t)
                                  ELSE server[t]]

ServerGoes(s, pc) == server' = [server EXCEPT ![s] = pc] /\ UNCHANGED parent
ParentGoes(s, pc) == parent' = [parent EXCEPT ![s] = pc] /\ UNCHANGED server

----------------------------------------------------------------------------
(***************************************************************************)
(* pidfile.c                                                               *)
(***************************************************************************)
(* In an empty file fscanf finds nothing, and pid keeps what the memory     *)
(* held: the number of some process or of none.                             *)
read_pid == IF file = None THEN {None}
            ELSE IF content[file] = None THEN {None, Stranger}
            ELSE {content[file]}

ExistsNever(p, self) == FALSE

(* check_pid: whether a process other than self bears the pid.              *)
Exists(p, self) == p # None /\ p # self /\ p \in InUse \cup {Stranger}

(* write_pid opens the file, which empties it.                              *)
OpenWithoutCreate(s) == file

OpenOrCreate(s) == IF file = None THEN s ELSE file

Open(s) ==
    /\ server[s] = "open"
    /\ file' = OpenOrCreate(s)
    /\ fd' = [fd EXCEPT ![s] = file']
    /\ content' = [f \in File |-> IF f = file' THEN None ELSE content[f]]
    /\ ServerGoes(s, "lock")
    /\ UNCHANGED <<ppid, pid, seen, socket, funix, crashes, contested, late>>

(* The parent is released, and exit(1).                                     *)
GiveUp(s) == IF ppid[s] = pid[s] THEN ServerGoes(s, "gone") ELSE KillAndGo(s, ppid[s], "gone")

OpenFails(s) ==
    /\ server[s] = "open"
    /\ GiveUp(s)
    /\ UNCHANGED <<ppid, pid, seen, fileVars, socket, funix, crashes, contested, late>>

(* flock, without waiting: a lock goes with the process that has it.        *)
Locked(f) == \E t \in Start : server[t] \in {"write", "unlock"} /\ fd[t] = f

Lock(s) ==
    /\ server[s] = "lock"
    /\ IF Locked(fd[s]) THEN GiveUp(s) ELSE ServerGoes(s, "write")
    /\ UNCHANGED <<ppid, pid, seen, fileVars, socket, funix, crashes, contested, late>>

WriteParent(s) == ppid[s]

Written(s) == pid[s]

(* The disk may be full when the pid is flushed; nobody looks.              *)
Write(s) ==
    /\ server[s] = "write"
    /\ \/ content' = [content EXCEPT ![fd[s]] = Written(s)] /\ UNCHANGED contested
       \/ UNCHANGED content /\ contested' = TRUE
    /\ ServerGoes(s, "unlock")
    /\ UNCHANGED <<ppid, pid, seen, fd, file, socket, funix, crashes, late>>

(* If the lock cannot be given back the server gives up, with its pid in    *)
(* the file.                                                                *)
Unlock(s) ==
    /\ server[s] = "unlock"
    /\ ServerGoes(s, "handler") \/ GiveUp(s)
    /\ UNCHANGED <<ppid, pid, seen, fileVars, socket, funix, crashes, contested, late>>

----------------------------------------------------------------------------
(***************************************************************************)
(* The process that is started.                                            *)
(***************************************************************************)
Launch(s) ==
    /\ parent[s] = "none" /\ server[s] = "none"
    /\ \A t \in Start : t < s => parent[t] # "none" \/ server[t] # "none"
    /\ \E p \in FreePids : ppid' = [ppid EXCEPT ![s] = p]
    /\ \/ "daemon" \in Modes /\ ParentGoes(s, "read") /\ UNCHANGED pid
       \/ "foreground" \in Modes /\ ServerGoes(s, "explore") /\ pid' = [pid EXCEPT ![s] = ppid'[s]]
    /\ UNCHANGED <<seen, fileVars, socket, funix, crashes, contested, late>>

ParentRead(s) ==
    /\ parent[s] = "read"
    /\ \E p \in read_pid : seen' = [seen EXCEPT ![s] = p]
    /\ ParentGoes(s, "probe")
    /\ UNCHANGED <<ppid, pid, fileVars, socket, funix, crashes, contested, late>>

(* "Already running"                                                        *)
ParentProbe(s) ==
    /\ parent[s] = "probe"
    /\ ParentGoes(s, IF Exists(seen[s], ppid[s]) THEN "refused" ELSE "fork")
    /\ seen' = [seen EXCEPT ![s] = None]
    /\ UNCHANGED <<ppid, pid, fileVars, socket, funix, crashes, contested, late>>

(* If fork fails the process takes itself for the parent.                   *)
Fork(s) ==
    /\ parent[s] = "fork"
    /\ parent' = [parent EXCEPT ![s] = "waiting"]
    /\ \/ /\ \E p \in FreePids : pid' = [pid EXCEPT ![s] = p]
          /\ server' = [server EXCEPT ![s] = "explore"]
       \/ server' = [server EXCEPT ![s] = "gone"] /\ UNCHANGED pid
    /\ UNCHANGED <<ppid, seen, fileVars, socket, funix, crashes, contested, late>>

WaitForever(s) == FALSE

(* sleep(300) is over.                                                      *)
SleepOver(s) == parent[s] = "waiting"

TimeOut(s) ==
    /\ SleepOver(s)
    /\ ParentGoes(s, "timedout")
    /\ late' = (late \/ ServerLives(s))
    /\ UNCHANGED <<ppid, pid, seen, fileVars, socket, funix, crashes, contested>>

----------------------------------------------------------------------------
(***************************************************************************)
(* The server.                                                             *)
(***************************************************************************)
(* The assertions about the file of fields may fail.                        *)
Explore(s) ==
    /\ server[s] = "explore"
    /\ ServerGoes(s, "read") \/ ServerGoes(s, "gone")
    /\ UNCHANGED <<ppid, pid, seen, fileVars, socket, funix, crashes, contested, late>>

Claiming(s) == server[s] \in {"probe", "open", "lock", "write"}

Read(s) ==
    /\ server[s] = "read"
    /\ \E p \in read_pid : seen' = [seen EXCEPT ![s] = p]
    /\ ServerGoes(s, "probe")
    /\ contested' = (contested \/ \E t \in Start : Claiming(t))
    /\ UNCHANGED <<ppid, pid, fileVars, socket, funix, crashes, late>>

Probe(s) ==
    /\ server[s] = "probe"
    /\ IF Exists(seen[s], pid[s]) THEN GiveUp(s) ELSE ServerGoes(s, "open")
    /\ seen' = [seen EXCEPT ![s] = None]
    /\ UNCHANGED <<ppid, pid, fileVars, socket, funix, crashes, contested, late>>

(* signal(SIGTERM, die)                                                     *)
Handler(s) ==
    /\ server[s] = "handler"
    /\ ServerGoes(s, "parts")
    /\ UNCHANGED <<ppid, pid, seen, fileVars, socket, funix, crashes, contested, late>>

(* The table of parts: without it the parent is released, and die.          *)
Parts(s) ==
    /\ server[s] = "parts"
    /\ \/ ServerGoes(s, "init")
       \/ IF ppid[s] = pid[s] THEN ServerGoes(s, "dieSocket") ELSE KillAndGo(s, ppid[s], "dieSocket")
    /\ UNCHANGED <<ppid, pid, seen, fileVars, socket, funix, crashes, contested, late>>

ReadsAndTells(s, pc) == KillAndGo(s, ppid[s], pc)

Reads(s, pc) == ServerGoes(s, pc)

(* init, which returns early if there is no configuration file.             *)
init(s) ==
    /\ server[s] = "init"
    /\ Reads(s, "unlink") \/ Reads(s, "tell")
    /\ UNCHANGED <<ppid, pid, seen, fileVars, socket, funix, crashes, contested, late>>

(* create_unix_socket.  bind may fail, or chmod after it, which leaves the  *)
(* name behind with nobody to read from it.                                 *)
Unlink(s) ==
    /\ server[s] = "unlink"
    /\ socket' = None
    /\ ServerGoes(s, "bind")
    /\ UNCHANGED <<ppid, pid, seen, fileVars, funix, crashes, contested, late>>

Bind(s) ==
    /\ server[s] = "bind"
    /\ \/ socket = None /\ socket' = s /\ (ServerGoes(s, "bound") \/ ServerGoes(s, "tell"))
       \/ UNCHANGED socket /\ ServerGoes(s, "tell")
    /\ UNCHANGED <<ppid, pid, seen, fileVars, funix, crashes, contested, late>>

(* The result is assigned after the call, and a signal may come before.     *)
Bound(s) ==
    /\ server[s] = "bound"
    /\ funix' = [funix EXCEPT ![s] = TRUE]
    /\ ServerGoes(s, "tell")
    /\ UNCHANGED <<ppid, pid, seen, fileVars, socket, crashes, contested, late>>

(* The parent is released; the server serves.                               *)
Tell(s) ==
    /\ server[s] = "tell"
    /\ IF ppid[s] = pid[s] THEN ServerGoes(s, "serving") ELSE KillAndGo(s, ppid[s], "serving")
    /\ UNCHANGED <<ppid, pid, seen, fileVars, socket, funix, crashes, contested, late>>

(* die: the name of the socket goes, then the file.                         *)
DieSocket(s) ==
    /\ server[s] = "dieSocket"
    /\ socket' = IF funix[s] THEN None ELSE socket
    /\ funix' = [funix EXCEPT ![s] = FALSE]
    /\ ServerGoes(s, "dieFile")
    /\ UNCHANGED <<ppid, pid, seen, fileVars, crashes, contested, late>>

(* remove_pid                                                               *)
DieFile(s) ==
    /\ server[s] = "dieFile"
    /\ file' = None
    /\ ServerGoes(s, "gone")
    /\ UNCHANGED <<ppid, pid, seen, fd, content, socket, funix, crashes, contested, late>>

----------------------------------------------------------------------------
(* kill -9 of a server, and SIGTERM from outside.                           *)
Crash(s) ==
    /\ ServerLives(s) /\ crashes < MaxCrashes
    /\ crashes' = crashes + 1
    /\ ServerGoes(s, "gone")
    /\ UNCHANGED <<ppid, pid, seen, fileVars, socket, funix, contested, late>>

Term(s) ==
    /\ ServerLives(s) /\ server[s] \notin Dying
    /\ ServerGoes(s, Terminated(s))
    /\ UNCHANGED <<ppid, pid, seen, fileVars, socket, funix, crashes, contested, late>>

ParentStep(s) == ParentRead(s) \/ ParentProbe(s) \/ Fork(s) \/ TimeOut(s)

ServerStep(s) ==
    \/ Explore(s) \/ Read(s) \/ Probe(s) \/ Open(s) \/ OpenFails(s) \/ Lock(s)
    \/ Write(s) \/ Unlock(s) \/ Handler(s) \/ Parts(s) \/ init(s) \/ Unlink(s) \/ Bind(s)
    \/ Bound(s) \/ Tell(s) \/ DieSocket(s) \/ DieFile(s)

Next == \E s \in Start : Launch(s) \/ ParentStep(s) \/ ServerStep(s) \/ Crash(s) \/ Term(s)

Spec == /\ Init /\ [][Next]_vars
        /\ \A s \in Start : WF_vars(ParentStep(s)) /\ WF_vars(ServerStep(s))

----------------------------------------------------------------------------
ParentPlaces == {"none", "read", "probe", "fork", "waiting", "released", "refused", "timedout", "killed"}
ServerPlaces == Unprotected \cup Dying
                \cup {"none", "parts", "init", "unlink", "bind", "bound", "tell", "serving", "gone"}

TypeOK ==
    /\ parent \in [Start -> ParentPlaces] /\ server \in [Start -> ServerPlaces]
    /\ ppid \in [Start -> Pid \cup {None}] /\ pid \in [Start -> Pid \cup {None}]
    /\ seen \in [Start -> Pid \cup {None, Stranger}]
    /\ file \in File \cup {None} /\ socket \in Start \cup {None}
    /\ content \in [File -> Pid \cup {None, Stranger}]
    /\ \A s \in Start : server[s] \in {"lock", "write", "unlock"} => fd[s] \in File
    /\ funix \in [Start -> BOOLEAN]
    /\ crashes \in 0..MaxCrashes /\ {contested, late} \subseteq BOOLEAN

(* "Already running": unless two starts look into the file and write it at  *)
(* the same time, or a pid cannot be written, one server runs.              *)
Running(s) == server[s] \in {"handler", "parts", "init", "unlink", "bind", "bound", "tell", "serving"}

OneServer == ~contested => \A s, t \in Start : Running(s) /\ Running(t) => s = t

(* As long as it runs, the file leads to it and its socket is its own,      *)
(* whatever other starts do and other servers leave behind.                 *)
Reachable == ~contested =>
    \A s \in Start : Running(s) =>
        /\ file # None /\ content[file] = pid[s]
        /\ funix[s] => socket = s

(* "the father must not exit before syslogd isn't initialized": it is not   *)
(* released before its server serves or has given up, unless some other     *)
(* start, whose parent did not wait long enough, hits its pid.              *)
ParentAfterInit ==
    [][\A s \in Start : parent[s] = "waiting" /\ parent'[s] = "released" /\ ~late
         => server'[s] \in {"serving", "gone"} \cup Dying]_vars

(* Every start comes to an end: its parent is gone, and its server serves   *)
(* or is gone.                                                              *)
Settles == \A s \in Start :
    (parent[s] # "none" \/ server[s] # "none")
        ~> /\ ~ParentLives(s)
           /\ server[s] \in {"none", "serving", "gone"}
============================================================================
