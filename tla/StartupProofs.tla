--------------------------- MODULE StartupProofs ---------------------------
(***************************************************************************)
(* Theorems about Startup, for any number of starts, pids and crashes.     *)
(***************************************************************************)
EXTENDS Startup, TLAPS

----------------------------------------------------------------------------
(***************************************************************************)
(* Types.                                                                  *)
(***************************************************************************)
Typed == TypeOK /\ fd \in [Start -> File \cup {None}]

(* Where the others are after kill(ppid, SIGTERM): where they were, gone,   *)
(* or, if they served, on the way out.                                      *)
LEMMA OthersAfterKill ==
    ASSUME Typed, NEW s \in Start, NEW p, NEW pc \in ServerPlaces, KillAndGo(s, p, pc)
    PROVE  /\ parent' \in [Start -> ParentPlaces] /\ server' \in [Start -> ServerPlaces]
           /\ server'[s] = pc
           /\ \A t \in Start : parent'[t] = parent[t] \/ parent'[t] \in {"released", "killed"}
           /\ \A t \in Start \ {s} :
                \/ server'[t] = server[t]
                \/ server'[t] = "gone" /\ ServerLives(t)
                \/ server'[t] = "dieSocket" /\ Running(t)
<1>1. \A t \in Start : parent'[t] = parent[t] \/ parent'[t] \in {"released", "killed"}
  BY DEF KillAndGo, doexit
<1>2. \A t \in Start \ {s} :
                \/ server'[t] = server[t]
                \/ server'[t] = "gone" /\ ServerLives(t)
                \/ server'[t] = "dieSocket" /\ Running(t)
  BY DEF KillAndGo, Terminated, Typed, TypeOK, ServerPlaces, Unprotected, Dying, Running, ServerLives
<1>3. server'[s] = pc
  BY DEF KillAndGo
<1>4. \A t \in Start : parent'[t] \in ParentPlaces
  BY <1>1 DEF Typed, TypeOK, ParentPlaces
<1>5. \A t \in Start : server'[t] \in ServerPlaces
  BY <1>2, <1>3 DEF Typed, TypeOK, ServerPlaces, Unprotected, Dying
<1>. QED
  BY <1>1, <1>2, <1>3, <1>4, <1>5 DEF KillAndGo

LEMMA OthersAfterGo ==
    ASSUME Typed, NEW s \in Start, NEW pc \in ServerPlaces, ServerGoes(s, pc)
    PROVE  /\ parent' = parent /\ server' \in [Start -> ServerPlaces]
           /\ server'[s] = pc
           /\ \A t \in Start \ {s} : server'[t] = server[t]
  BY DEF ServerGoes, Typed, TypeOK

(* What a step of one server, or a signal, does to all: that server goes to *)
(* pc; parents at most come to their end; others stay, end, or are ending.  *)
Goes(s, pc) ==
    /\ parent' \in [Start -> ParentPlaces] /\ server' \in [Start -> ServerPlaces]
    /\ server'[s] = pc
    /\ \A t \in Start : parent'[t] = parent[t] \/ parent'[t] \in {"released", "killed"}
    /\ \A t \in Start \ {s} :
         \/ server'[t] = server[t]
         \/ server'[t] = "gone" /\ ServerLives(t)
         \/ server'[t] = "dieSocket" /\ Running(t)

LEMMA KillOrGo ==
    ASSUME Typed, NEW s \in Start, NEW pc \in ServerPlaces,
           ServerGoes(s, pc) \/ \E p \in Pid \cup {None} : KillAndGo(s, p, pc)
    PROVE  Goes(s, pc)
<1>1. CASE ServerGoes(s, pc)
  BY <1>1, OthersAfterGo DEF Goes, Typed, TypeOK
<1>2. CASE \E p \in Pid \cup {None} : KillAndGo(s, p, pc)
  BY <1>2, OthersAfterKill DEF Goes
<1>. QED
  BY <1>1, <1>2

----------------------------------------------------------------------------
(***************************************************************************)
(* The invariant.                                                          *)
(***************************************************************************)
(* A server holds the file once it has written its pid into it, and is past *)
(* the check between that and the writing.                                  *)
HoldPlaces == {"unlock", "handler", "parts", "init", "unlink", "bind", "bound", "tell", "serving"}
              \cup Dying
Holds(s) == server[s] \in HoldPlaces
Past(s) == server[s] \in {"open", "lock", "write"}

(* No two live processes have the same pid.                                 *)
OwnPid ==
    /\ \A s \in Start : ServerLives(s) => pid[s] \in Pid
    /\ \A s, t \in Start : ServerLives(s) /\ ServerLives(t) /\ s # t => pid[s] # pid[t]

ForkedOnce == \A s \in Start : parent[s] \in {"read", "probe", "fork"} => server[s] = "none"

(* What keeps others out: one start at most is between check and write, one *)
(* server at most holds the file, and not both; the file names the holder,  *)
(* and who checks has seen it.                                              *)
OneClaims == \A s, t \in Start : Claiming(s) /\ Claiming(t) => s = t
OneHolds == \A s, t \in Start : Holds(s) /\ Holds(t) => s = t
NonePast == \A s, t \in Start : Past(s) => ~Holds(t)
FileHolds == \A s \in Start : Holds(s) => file # None /\ content[file] = pid[s]
HolderSeen == \A s, t \in Start : Holds(s) /\ server[t] = "probe" => seen[t] = pid[s]
FileOpen == \A s \in Start : server[s] \in {"lock", "write"} => file # None /\ fd[s] = file

FileInv ==
    /\ OwnPid /\ ForkedOnce
    /\ ~contested => OneClaims /\ OneHolds /\ NonePast /\ FileHolds /\ HolderSeen /\ FileOpen

(* A server that has its socket, or is about to, is the one it leads to.    *)
FunixPlaces == {"tell", "serving", "gone"} \cup Dying
FunixAfter == \A s \in Start : funix[s] => server[s] \in FunixPlaces
OwnSocket == \A s \in Start : Holds(s) /\ (funix[s] \/ server[s] = "bound") => socket = s

SocketInv == FunixAfter /\ (~contested => OwnSocket)

IInv == Typed /\ FileInv /\ SocketInv

LEMMA InvariantImplies ==
    ASSUME IInv
    PROVE  TypeOK /\ OneServer /\ Reachable
<1>1. \A s \in Start : Running(s) => Holds(s)
  BY DEF Running, Holds, HoldPlaces
<1>2. OneServer
  BY <1>1 DEF IInv, FileInv, OneHolds, OneServer
<1>3. Reachable
  BY <1>1 DEF IInv, FileInv, SocketInv, FileHolds, OwnSocket, Reachable
<1>. QED
  BY <1>2, <1>3 DEF IInv, Typed

LEMMA Initially == ASSUME Init PROVE IInv
<1>1. Typed
  <2>1. OldFile \in File /\ None \notin Start
    BY StartAssumption DEF File, OldFile, Start, None
  <2>2. content \in [File -> Pid \cup {None, Stranger}]
    BY DEF Init
  <2>3. crashes \in 0..MaxCrashes
    BY StartAssumption DEF Init
  <2>4. \A s \in Start : server[s] = "none"
    BY DEF Init
  <2>5. {contested, late} \subseteq BOOLEAN
    BY DEF Init
  <2>6. file \in File \cup {None} /\ socket \in Start \cup {None}
    BY <2>1 DEF Init
  <2>. QED
    BY <2>2, <2>3, <2>4, <2>5, <2>6 DEF Init, Typed, TypeOK, ParentPlaces, ServerPlaces
<1>2. \A s \in Start : ~ServerLives(s) /\ ~Claiming(s) /\ ~Holds(s) /\ ~Past(s) /\ ~funix[s]
                       /\ server[s] = "none"
  BY DEF Init, ServerLives, Claiming, Holds, HoldPlaces, Dying, Past
<1>3. FileInv
  BY <1>2 DEF FileInv, OwnPid, ForkedOnce, OneClaims, OneHolds, NonePast, FileHolds, HolderSeen, FileOpen
<1>. QED
  BY <1>1, <1>2, <1>3 DEF IInv, SocketInv, FunixAfter, OwnSocket

----------------------------------------------------------------------------
(***************************************************************************)
(* Lemmas that many steps share.                                           *)
(***************************************************************************)
LEMMA GiveUpGoes ==
    ASSUME Typed, NEW s \in Start, GiveUp(s)
    PROVE  Goes(s, "gone")
<1>1. ppid[s] \in Pid \cup {None} /\ "gone" \in ServerPlaces
  BY DEF Typed, TypeOK, ServerPlaces
<1>2. ServerGoes(s, "gone") \/ KillAndGo(s, ppid[s], "gone")
  BY DEF GiveUp
<1>. QED
  BY <1>1, <1>2, KillOrGo

(* Whoever the others were, they are that at most after the step.           *)
LEMMA OthersWeaken ==
    ASSUME NEW s \in Start, NEW pc, Goes(s, pc), NEW t \in Start \ {s}
    PROVE  /\ ServerLives(t)' => ServerLives(t)
           /\ Claiming(t)' => Claiming(t)
           /\ Holds(t)' => Holds(t)
           /\ Past(t)' => Past(t)
           /\ server'[t] \in {"probe", "lock", "write", "bound", "open"} => server'[t] = server[t]
           /\ server[t] \in FunixPlaces => server'[t] \in FunixPlaces
  BY DEF Goes, ServerLives, Claiming, Holds, HoldPlaces, Past, Running, FunixPlaces, Dying

LEMMA PidsKept ==
    ASSUME OwnPid, ForkedOnce, NEW s \in Start, NEW pc, Goes(s, pc), ServerLives(s), UNCHANGED pid
    PROVE  OwnPid' /\ ForkedOnce'
<1>1. \A t \in Start : ServerLives(t)' => ServerLives(t)
  BY OthersWeaken
<1>2. OwnPid'
  BY <1>1 DEF OwnPid
<1>3. ASSUME NEW t \in Start, parent'[t] \in {"read", "probe", "fork"}
      PROVE  server'[t] = "none"
  <2>1. parent'[t] = parent[t]
    BY <1>3 DEF Goes
  <2>2. server[t] = "none"
    BY <1>3, <2>1 DEF ForkedOnce
  <2>. QED
    BY <2>2 DEF Goes, ServerLives, Running
<1>. QED
  BY <1>2, <1>3 DEF ForkedOnce

(* A step that neither reads, checks nor writes the file.                   *)
Weaker(s, pc) ==
    /\ pc \in HoldPlaces => Holds(s)
    /\ pc \in {"lock", "write"} => server[s] \in {"lock", "write"}
    /\ pc \notin {"probe", "open"}

LEMMA QuietStep ==
    ASSUME FileInv, NEW s \in Start, NEW pc, Goes(s, pc), ServerLives(s), Weaker(s, pc),
           UNCHANGED <<pid, fileVars, contested>>,
           \A t \in Start \ {s} : seen'[t] = seen[t]
    PROVE  FileInv'
<1>1. \A t \in Start : /\ Claiming(t)' => Claiming(t)
                       /\ Holds(t)' => Holds(t)
                       /\ Past(t)' => Past(t)
                       /\ server'[t] \in {"lock", "write"} => server[t] \in {"lock", "write"}
                       /\ server'[t] = "probe" => server[t] = "probe" /\ seen'[t] = seen[t]
  BY OthersWeaken DEF Goes, Weaker, Claiming, Holds, Past
<1>2. OwnPid' /\ ForkedOnce'
  BY PidsKept DEF FileInv
<1>3. ASSUME ~contested
      PROVE (OneClaims /\ OneHolds /\ NonePast)'
  BY <1>1, <1>3 DEF FileInv, OneClaims, OneHolds, NonePast
<1>4. ASSUME ~contested
      PROVE (FileHolds /\ HolderSeen /\ FileOpen)'
  BY <1>1, <1>4 DEF FileInv, FileHolds, HolderSeen, FileOpen, fileVars
<1>. QED
  BY <1>2, <1>3, <1>4 DEF FileInv

(* The name of the socket is changed by holders alone.                      *)
LEMMA SocketStep ==
    ASSUME FileInv, SocketInv, NEW s \in Start, NEW pc, Goes(s, pc),
           contested => contested',
           \A t \in Start \ {s} : funix'[t] = funix[t],
           funix'[s] => pc \in FunixPlaces,
           Holds(s)' /\ (funix'[s] \/ pc = "bound") /\ ~contested => socket' = s,
           socket' = socket \/ Holds(s)
    PROVE  SocketInv'
<1>1. FunixAfter'
  BY OthersWeaken DEF SocketInv, FunixAfter, Goes
<1>2. ASSUME ~contested, NEW t \in Start \ {s}, Holds(t)', funix'[t] \/ server'[t] = "bound"
      PROVE  socket' = t
  <2>1. Holds(t) /\ (funix[t] \/ server[t] = "bound")
    BY <1>2, OthersWeaken
  <2>2. ~Holds(s)
    BY <1>2, <2>1 DEF FileInv, OneHolds
  <2>. QED
    BY <1>2, <2>1, <2>2 DEF SocketInv, OwnSocket
<1>. QED
  BY <1>1, <1>2 DEF SocketInv, OwnSocket, Goes

(* The place a server goes to, and what does not change, keep the types.    *)
LEMMA TypedStep ==
    ASSUME Typed, NEW s \in Start, NEW pc, Goes(s, pc),
           pc \in {"lock", "write", "unlock"} => server[s] \in {"lock", "write", "unlock"},
           UNCHANGED <<ppid, pid, fileVars, late>>,
           seen' \in [Start -> Pid \cup {None, Stranger}],
           socket' \in Start \cup {None}, funix' \in [Start -> BOOLEAN],
           crashes' \in 0..MaxCrashes, contested' \in BOOLEAN
    PROVE  Typed'
<1>1. \A t \in Start : server'[t] \in {"lock", "write", "unlock"}
                         => server[t] \in {"lock", "write", "unlock"}
  BY DEF Goes
<1>2. \A t \in Start : server'[t] \in {"lock", "write", "unlock"} => fd'[t] \in File
  BY <1>1 DEF Typed, TypeOK, fileVars
<1>3. {contested', late'} \subseteq BOOLEAN
  BY DEF Typed, TypeOK
<1>. QED
  BY <1>2, <1>3 DEF Typed, TypeOK, Goes, fileVars

(* A step after which all but the places is as before.                      *)
Stays(s, pc) ==
    /\ Goes(s, pc) /\ ServerLives(s) /\ Weaker(s, pc)
    /\ server[s] \in FunixPlaces => pc \in FunixPlaces
    /\ pc \notin {"unlock", "bound"}
    /\ UNCHANGED <<ppid, pid, fileVars, socket, funix, contested, late>>
    /\ crashes' \in 0..MaxCrashes
    /\ seen' \in [Start -> Pid \cup {None, Stranger}]
    /\ \A t \in Start \ {s} : seen'[t] = seen[t]

LEMMA StaysKeeps ==
    ASSUME IInv, NEW s \in Start, NEW pc, Stays(s, pc)
    PROVE  IInv'
<1>1. FileInv'
  BY QuietStep DEF Stays, IInv
<1>2. Typed'
  <2>1. contested' \in BOOLEAN /\ socket' \in Start \cup {None} /\ funix' \in [Start -> BOOLEAN]
    BY DEF Stays, IInv, Typed, TypeOK
  <2>. QED
    BY <2>1, TypedStep DEF Stays, Weaker, IInv
<1>3. SocketInv'
  <2>1. funix'[s] => pc \in FunixPlaces
    BY DEF Stays, IInv, SocketInv, FunixAfter
  <2>2. Holds(s)' => Holds(s)
    BY DEF Stays, Weaker, Holds, Goes
  <2>3. Holds(s)' /\ (funix'[s] \/ pc = "bound") /\ ~contested => socket' = s
    BY <2>2 DEF Stays, IInv, SocketInv, OwnSocket
  <2>. QED
    BY <2>1, <2>3, SocketStep DEF Stays, IInv
<1>. QED
  BY <1>1, <1>2, <1>3 DEF IInv

----------------------------------------------------------------------------
(***************************************************************************)
(* One lemma per kind of step.                                             *)
(***************************************************************************)
Staying(s) ==
    OpenFails(s) \/ Lock(s) \/ Unlock(s) \/ Explore(s) \/ Handler(s) \/ Parts(s) \/ init(s)
    \/ Tell(s) \/ Crash(s) \/ Term(s)

LEMMA StayingKeeps ==
    ASSUME IInv, NEW s \in Start, Staying(s)
    PROVE  IInv'
<1> DEFINE Rest == /\ UNCHANGED <<ppid, pid, fileVars, socket, funix, contested, late>>
                   /\ UNCHANGED seen
                   /\ crashes' \in 0..MaxCrashes
<1>a. Typed
  BY DEF IInv
<1>b. ppid[s] \in Pid \cup {None}
  BY <1>a DEF Typed, TypeOK
<1>c. server[s] \in ServerPlaces
  BY <1>a DEF Typed, TypeOK
<1>d. Rest /\ ServerLives(s)
  <2>1. CASE Crash(s)
    <3>1. crashes' \in 0..MaxCrashes
      BY <1>a, <2>1, StartAssumption DEF Crash, Typed, TypeOK
    <3>. QED
      BY <2>1, <3>1 DEF Crash
  <2>2. CASE ~Crash(s)
    BY <1>a, <2>2 DEF Staying, OpenFails, Lock, Unlock, Explore, Handler, Parts, init, Tell, Term,
                      Typed, TypeOK, ServerLives
  <2>. QED
    BY <2>1, <2>2
<1>e. ASSUME NEW pc \in ServerPlaces,
             ServerGoes(s, pc) \/ KillAndGo(s, ppid[s], pc),
             Weaker(s, pc), server[s] \in FunixPlaces => pc \in FunixPlaces,
             pc \notin {"unlock", "bound"}
      PROVE  IInv'
  <2>1. Goes(s, pc)
    BY <1>a, <1>b, <1>e, KillOrGo
  <2>2. seen' \in [Start -> Pid \cup {None, Stranger}]
    BY <1>a, <1>d DEF Typed, TypeOK
  <2>3. Stays(s, pc)
    BY <1>d, <1>e, <2>1, <2>2 DEF Stays
  <2>. QED
    BY <2>3, StaysKeeps
<1>f. ASSUME ServerGoes(s, "gone") \/ KillAndGo(s, ppid[s], "gone")
      PROVE  IInv'
  BY <1>e, <1>f DEF Weaker, HoldPlaces, Dying, FunixPlaces, ServerPlaces
<1>1. CASE OpenFails(s)
  BY <1>1, <1>f DEF OpenFails, GiveUp
<1>2. CASE Lock(s)
  <2>1. CASE ServerGoes(s, "write")
    BY <1>2, <2>1, <1>e DEF Lock, Weaker, HoldPlaces, Dying, FunixPlaces, ServerPlaces, Unprotected
  <2>. QED
    BY <1>2, <1>f, <2>1 DEF Lock, GiveUp
<1>3. CASE Unlock(s)
  <2>1. CASE ServerGoes(s, "handler")
    BY <1>3, <2>1, <1>e DEF Unlock, Weaker, Holds, HoldPlaces, Dying, FunixPlaces, ServerPlaces, Unprotected
  <2>. QED
    BY <1>3, <1>f, <2>1 DEF Unlock, GiveUp
<1>4. CASE Explore(s)
  <2>1. CASE ServerGoes(s, "read")
    BY <1>4, <2>1, <1>e DEF Explore, Weaker, HoldPlaces, Dying, FunixPlaces, ServerPlaces, Unprotected
  <2>. QED
    BY <1>4, <1>f, <2>1 DEF Explore
<1>5. CASE Handler(s)
  BY <1>5, <1>e DEF Handler, Weaker, Holds, HoldPlaces, Dying, FunixPlaces, ServerPlaces, Unprotected
<1>6. CASE Parts(s)
  <2>1. CASE ServerGoes(s, "init")
    BY <1>6, <2>1, <1>e DEF Parts, Weaker, Holds, HoldPlaces, Dying, FunixPlaces, ServerPlaces
  <2>2. CASE ServerGoes(s, "dieSocket") \/ KillAndGo(s, ppid[s], "dieSocket")
    BY <1>6, <2>2, <1>e DEF Parts, Weaker, Holds, HoldPlaces, Dying, FunixPlaces, ServerPlaces
  <2>. QED
    BY <1>6, <2>1, <2>2 DEF Parts
<1>7. CASE init(s)
  <2>1. CASE ServerGoes(s, "unlink")
    BY <1>7, <2>1, <1>e DEF init, Weaker, Holds, HoldPlaces, Dying, FunixPlaces, ServerPlaces
  <2>2. CASE ServerGoes(s, "tell")
    BY <1>7, <2>2, <1>e DEF init, Weaker, Holds, HoldPlaces, Dying, FunixPlaces, ServerPlaces
  <2>. QED
    BY <1>7, <2>1, <2>2 DEF init, Reads
<1>8. CASE Tell(s)
  BY <1>8, <1>e DEF Tell, Weaker, Holds, HoldPlaces, Dying, FunixPlaces, ServerPlaces
<1>9. CASE Crash(s)
  BY <1>9, <1>f DEF Crash
<1>10. CASE Term(s)
  <2>1. CASE server[s] \in Unprotected
    BY <1>10, <2>1, <1>f DEF Term, Terminated
  <2>2. CASE server[s] \notin Unprotected
    <3>1. ServerGoes(s, "dieSocket")
      BY <1>10, <2>2 DEF Term, Terminated
    <3>2. Holds(s)
      BY <1>10, <1>c, <2>2 DEF Term, ServerLives, ServerPlaces, Unprotected, Holds, HoldPlaces
    <3>. QED
      BY <1>e, <3>1, <3>2 DEF Weaker, HoldPlaces, Dying, FunixPlaces, ServerPlaces
  <2>. QED
    BY <2>1, <2>2
<1>. QED
  BY <1>1, <1>2, <1>3, <1>4, <1>5, <1>6, <1>7, <1>8, <1>9, <1>10 DEF Staying

(* The steps with the socket, and the end of it.                            *)
LEMMA SocketKeeps ==
    ASSUME IInv, NEW s \in Start, Unlink(s) \/ Bind(s) \/ Bound(s) \/ DieSocket(s)
    PROVE  IInv'
<1>a. Typed /\ FileInv /\ SocketInv
  BY DEF IInv
<1>b. /\ UNCHANGED <<ppid, pid, seen, fileVars, crashes, contested, late>>
      /\ Holds(s) /\ ServerLives(s)
  BY DEF Unlink, Bind, Bound, DieSocket, Holds, HoldPlaces, Dying, ServerLives
<1>c. ASSUME NEW pc \in {"bind", "bound", "tell", "dieFile"}, ServerGoes(s, pc),
             socket' \in Start \cup {None},
             funix' = [funix EXCEPT ![s] = funix'[s]], funix'[s] \in BOOLEAN,
             funix'[s] => pc \in FunixPlaces,
             (funix'[s] \/ pc = "bound") /\ ~contested => socket' = s
      PROVE  IInv'
  <2>1. pc \in ServerPlaces
    BY DEF ServerPlaces, Dying
  <2>2. Goes(s, pc)
    BY <1>a, <1>c, <2>1, KillOrGo
  <2>3. /\ seen' \in [Start -> Pid \cup {None, Stranger}] /\ funix' \in [Start -> BOOLEAN]
        /\ crashes' \in 0..MaxCrashes /\ contested' \in BOOLEAN
        /\ \A t \in Start \ {s} : funix'[t] = funix[t]
    BY <1>a, <1>b, <1>c DEF Typed, TypeOK
  <2>4. Typed'
    BY <1>a, <1>b, <1>c, <2>2, <2>3, TypedStep
  <2>5. FileInv'
    BY <1>a, <1>b, <2>2, QuietStep DEF Weaker
  <2>6. SocketInv'
    BY <1>a, <1>b, <1>c, <2>2, <2>3, SocketStep
  <2>. QED
    BY <2>4, <2>5, <2>6 DEF IInv
<1>d. socket \in Start \cup {None} /\ funix \in [Start -> BOOLEAN]
  BY <1>a DEF Typed, TypeOK
<1>e. funix[s] => server[s] \in FunixPlaces
  BY <1>a DEF SocketInv, FunixAfter
<1>1. CASE Unlink(s)
  <2>1. ~funix[s]
    BY <1>1, <1>e DEF Unlink, FunixPlaces, Dying
  <2>. QED
    BY <1>1, <1>c, <1>d, <2>1 DEF Unlink
<1>2. CASE Bind(s)
  <2>1. ~funix[s]
    BY <1>2, <1>e DEF Bind, FunixPlaces, Dying
  <2>. QED
    BY <1>2, <1>c, <1>d, <2>1 DEF Bind
<1>3. CASE Bound(s)
  <2>1. ~contested => socket' = s
    BY <1>3, <1>a, <1>b DEF Bound, SocketInv, OwnSocket
  <2>2. funix' = [funix EXCEPT ![s] = funix'[s]] /\ funix'[s] = TRUE
    BY <1>3, <1>d DEF Bound
  <2>. QED
    BY <1>3, <1>c, <1>d, <2>1, <2>2 DEF Bound, FunixPlaces
<1>4. CASE DieSocket(s)
  <2>1. funix' = [funix EXCEPT ![s] = funix'[s]] /\ funix'[s] = FALSE
    BY <1>4, <1>d DEF DieSocket
  <2>. QED
    BY <1>4, <1>c, <1>d, <2>1 DEF DieSocket
<1>. QED
  BY <1>1, <1>2, <1>3, <1>4

(* Reading makes the reader claim: unless another claims it is alone, and   *)
(* it sees the holder, whose pid the file has.                              *)
LEMMA ReadKeeps ==
    ASSUME IInv, NEW s \in Start, Read(s)
    PROVE  IInv'
<1>a. Typed /\ FileInv /\ SocketInv
  BY DEF IInv
<1>b. /\ server[s] = "read" /\ ServerLives(s) /\ ServerGoes(s, "probe")
      /\ UNCHANGED <<ppid, pid, fileVars, socket, funix, crashes, late>>
      /\ contested' \in BOOLEAN
  BY DEF Read, ServerLives
<1>c. read_pid \subseteq Pid \cup {None, Stranger}
  BY <1>a DEF read_pid, Typed, TypeOK
<1>d. PICK p \in read_pid : seen' = [seen EXCEPT ![s] = p]
  BY DEF Read
<1>e. /\ seen' \in [Start -> Pid \cup {None, Stranger}] /\ seen'[s] = p
      /\ \A t \in Start \ {s} : seen'[t] = seen[t]
  BY <1>a, <1>c, <1>d DEF Typed, TypeOK
<1>1. Goes(s, "probe")
  BY <1>a, <1>b, KillOrGo DEF ServerPlaces, Unprotected
<1>2. Typed'
  <2>1. socket' \in Start \cup {None} /\ funix' \in [Start -> BOOLEAN] /\ crashes' \in 0..MaxCrashes
    BY <1>a, <1>b DEF Typed, TypeOK
  <2>. QED
    BY <1>a, <1>b, <1>e, <1>1, <2>1, TypedStep
<1>3. SocketInv'
  <2>1. ~funix'[s]
    BY <1>a, <1>b DEF SocketInv, FunixAfter, FunixPlaces, Dying
  <2>2. contested => contested'
    BY DEF Read
  <2>. QED
    BY <1>a, <1>b, <1>1, <2>1, <2>2, SocketStep
<1>4. ASSUME ~contested'
      PROVE  (OneClaims /\ OneHolds /\ NonePast /\ FileHolds /\ HolderSeen /\ FileOpen)'
  <2>1. ~contested /\ \A t \in Start : ~Claiming(t)
    BY <1>4 DEF Read
  <2>2. ~Holds(s)' /\ ~Past(s)' /\ server'[s] = "probe"
    BY <1>1 DEF Goes, Holds, HoldPlaces, Dying, Past
  <2>3. \A t \in Start : t # s => ~Claiming(t)' /\ ~Past(t)' /\ server'[t] \notin {"probe", "lock", "write"}
    BY <1>1, <2>1, OthersWeaken DEF Claiming, Past
  <2>4. \A t \in Start : Holds(t)' => Holds(t)
    BY <1>1, <2>2, OthersWeaken
  <2>5. ASSUME NEW t \in Start, Holds(t)
        PROVE  seen'[s] = pid[t]
    <3>1. file # None /\ content[file] = pid[t]
      BY <1>a, <2>1, <2>5 DEF FileInv, FileHolds
    <3>2. pid[t] \in Pid
      BY <1>a, <2>5 DEF FileInv, OwnPid, ServerLives, Holds, HoldPlaces, Dying
    <3>3. pid[t] # None
      BY <3>2 DEF Pid, None
    <3>. QED
      BY <1>d, <1>e, <3>1, <3>3 DEF read_pid
  <2>6. (OneClaims /\ OneHolds /\ NonePast)'
    BY <1>a, <2>1, <2>2, <2>3, <2>4 DEF FileInv, OneClaims, OneHolds, NonePast
  <2>7. (FileHolds /\ HolderSeen /\ FileOpen)'
    BY <1>a, <1>b, <2>1, <2>2, <2>3, <2>4, <2>5
       DEF FileInv, FileHolds, HolderSeen, FileOpen, fileVars
  <2>. QED
    BY <2>6, <2>7
<1>5. OwnPid' /\ ForkedOnce'
  BY <1>a, <1>b, <1>1, PidsKept DEF FileInv
<1>. QED
  BY <1>2, <1>3, <1>4, <1>5 DEF IInv, FileInv

(* The check: if another holds the file, its pid has been seen, and exists. *)
LEMMA ProbeKeeps ==
    ASSUME IInv, NEW s \in Start, Probe(s)
    PROVE  IInv'
<1>a. Typed /\ FileInv /\ SocketInv
  BY DEF IInv
<1>b. /\ server[s] = "probe" /\ ServerLives(s)
      /\ UNCHANGED <<ppid, pid, fileVars, socket, funix, crashes, contested, late>>
      /\ contested' \in BOOLEAN /\ crashes' \in 0..MaxCrashes
      /\ socket' \in Start \cup {None} /\ funix' \in [Start -> BOOLEAN]
  BY <1>a DEF Probe, ServerLives, Typed, TypeOK
<1>c. /\ seen' \in [Start -> Pid \cup {None, Stranger}]
      /\ \A t \in Start \ {s} : seen'[t] = seen[t]
  BY <1>a DEF Probe, Typed, TypeOK
<1>1. CASE GiveUp(s)
  <2>1. Goes(s, "gone")
    BY <1>a, <1>1, GiveUpGoes
  <2>2. Stays(s, "gone")
    BY <1>b, <1>c, <2>1 DEF Stays, Weaker, HoldPlaces, FunixPlaces, Dying
  <2>. QED
    BY <2>2, StaysKeeps
<1>2. CASE ~Exists(seen[s], pid[s]) /\ ServerGoes(s, "open")
  <2>1. Goes(s, "open")
    BY <1>a, <1>2, KillOrGo DEF ServerPlaces, Unprotected
  <2>2. Typed'
    BY <1>a, <1>b, <1>c, <2>1, TypedStep
  <2>3. SocketInv'
    <3>1. ~funix'[s]
      BY <1>a, <1>b DEF SocketInv, FunixAfter, FunixPlaces, Dying
    <3>. QED
      BY <1>a, <1>b, <2>1, <3>1, SocketStep
  <2>4. ASSUME ~contested, NEW t \in Start, Holds(t)
        PROVE  FALSE
    <3>1. t # s /\ ServerLives(t)
      BY <1>b, <2>4 DEF Holds, HoldPlaces, Dying, ServerLives
    <3>2. seen[s] = pid[t]
      BY <1>a, <1>b, <2>4 DEF FileInv, HolderSeen
    <3>3. pid[t] \in Pid /\ pid[t] # pid[s]
      BY <1>a, <1>b, <3>1 DEF FileInv, OwnPid
    <3>4. pid[t] # None
      BY <3>3 DEF Pid, None
    <3>5. pid[t] \in InUse
      BY <3>1 DEF InUse
    <3>. QED
      BY <1>2, <3>2, <3>3, <3>4, <3>5 DEF Exists
  <2>5. ASSUME ~contested
        PROVE  (OneClaims /\ OneHolds /\ NonePast /\ FileHolds /\ HolderSeen /\ FileOpen)'
    <3>1. server'[s] = "open"
      BY <2>1 DEF Goes
    <3>2. \A t \in Start : ~Holds(t)'
      <4>1. ~Holds(s)'
        BY <3>1 DEF Holds, HoldPlaces, Dying
      <4>. QED
        BY <2>1, <2>4, <2>5, <4>1, OthersWeaken
    <3>3. \A t \in Start : t # s => ~Claiming(t)'
      <4>1. \A t \in Start : t # s => ~Claiming(t)
        BY <1>a, <1>b, <2>5 DEF FileInv, OneClaims, Claiming
      <4>. QED
        BY <2>1, <4>1, OthersWeaken
    <3>4. (OneClaims /\ OneHolds /\ NonePast /\ FileHolds /\ HolderSeen)'
      BY <3>2, <3>3 DEF OneClaims, OneHolds, NonePast, FileHolds, HolderSeen
    <3>5. FileOpen'
      BY <3>1, <3>3 DEF FileOpen, Claiming
    <3>. QED
      BY <3>4, <3>5
  <2>6. OwnPid' /\ ForkedOnce'
    BY <1>a, <1>b, <2>1, PidsKept DEF FileInv
  <2>. QED
    BY <1>b, <2>2, <2>3, <2>5, <2>6 DEF IInv, FileInv
<1>. QED
  BY <1>1, <1>2 DEF Probe

(* The file is opened: nobody holds it then.                                *)
LEMMA OpenKeeps ==
    ASSUME IInv, NEW s \in Start, Open(s)
    PROVE  IInv'
<1>a. Typed /\ FileInv /\ SocketInv
  BY DEF IInv
<1>b. /\ server[s] = "open" /\ ServerLives(s) /\ ServerGoes(s, "lock")
      /\ UNCHANGED <<ppid, pid, seen, socket, funix, crashes, contested, late>>
      /\ file' = OpenOrCreate(s) /\ fd' = [fd EXCEPT ![s] = file']
      /\ content' = [f \in File |-> IF f = file' THEN None ELSE content[f]]
  BY DEF Open, ServerLives
<1>c. file' \in File /\ file' # None
  BY <1>a, <1>b, StartAssumption DEF OpenOrCreate, Typed, TypeOK, File, OldFile, Start, None
<1>1. Goes(s, "lock")
  BY <1>a, <1>b, KillOrGo DEF ServerPlaces, Unprotected
<1>2. Typed'
  <2>1. content' \in [File -> Pid \cup {None, Stranger}] /\ fd' \in [Start -> File \cup {None}]
    BY <1>a, <1>b, <1>c DEF Typed, TypeOK
  <2>2. \A t \in Start : server'[t] \in {"lock", "write", "unlock"} => fd'[t] \in File
    BY <1>a, <1>b, <1>c DEF ServerGoes, Typed, TypeOK
  <2>. QED
    BY <1>a, <1>b, <1>c, <1>1, <2>1, <2>2 DEF Goes, Typed, TypeOK
<1>3. SocketInv'
  <2>1. ~funix'[s] /\ ~Holds(s)'
    BY <1>a, <1>b, <1>1 DEF SocketInv, FunixAfter, FunixPlaces, Goes, Holds, HoldPlaces, Dying
  <2>. QED
    BY <1>a, <1>b, <1>1, <2>1, SocketStep
<1>4. ASSUME ~contested
      PROVE  (OneClaims /\ OneHolds /\ NonePast /\ FileHolds /\ HolderSeen /\ FileOpen)'
  <2>1. \A t \in Start : ~Holds(t)'
    <3>1. \A t \in Start : ~Holds(t)
      BY <1>a, <1>b, <1>4 DEF FileInv, NonePast, Past
    <3>2. ~Holds(s)'
      BY <1>1 DEF Goes, Holds, HoldPlaces, Dying
    <3>. QED
      BY <1>1, <3>1, <3>2, OthersWeaken
  <2>2. \A t \in Start : t # s => ~Claiming(t)'
    <3>1. \A t \in Start : t # s => ~Claiming(t)
      BY <1>a, <1>b, <1>4 DEF FileInv, OneClaims, Claiming
    <3>. QED
      BY <1>1, <3>1, OthersWeaken
  <2>3. (OneClaims /\ OneHolds /\ NonePast /\ FileHolds /\ HolderSeen)'
    BY <2>1, <2>2 DEF OneClaims, OneHolds, NonePast, FileHolds, HolderSeen
  <2>4. fd'[s] = file'
    BY <1>a, <1>b DEF Typed
  <2>5. FileOpen'
    BY <1>c, <2>2, <2>4 DEF FileOpen, Claiming
  <2>. QED
    BY <2>3, <2>5
<1>5. OwnPid' /\ ForkedOnce'
  BY <1>a, <1>b, <1>1, PidsKept DEF FileInv
<1>. QED
  BY <1>b, <1>2, <1>3, <1>4, <1>5 DEF IInv, FileInv

(* The pid is written into the file that has the name: the writer holds it. *)
LEMMA WriteKeeps ==
    ASSUME IInv, NEW s \in Start, Write(s)
    PROVE  IInv'
<1>a. Typed /\ FileInv /\ SocketInv
  BY DEF IInv
<1>b. /\ server[s] = "write" /\ ServerLives(s) /\ ServerGoes(s, "unlock")
      /\ UNCHANGED <<ppid, pid, seen, fd, file, socket, funix, crashes, late>>
      /\ \/ content' = [content EXCEPT ![fd[s]] = pid[s]] /\ contested' = contested
         \/ content' = content /\ contested' = TRUE
  BY DEF Write, Written, ServerLives
<1>c. fd[s] \in File /\ pid[s] \in Pid
  BY <1>a, <1>b DEF Typed, TypeOK, FileInv, OwnPid
<1>d. contested' \in BOOLEAN /\ (contested => contested')
  <2>1. contested \in BOOLEAN
    BY <1>a DEF Typed, TypeOK
  <2>2. CASE contested' = contested
    BY <2>1, <2>2
  <2>3. CASE contested' = TRUE
    BY <2>3
  <2>. QED
    BY <1>b, <2>2, <2>3
<1>1. Goes(s, "unlock")
  BY <1>a, <1>b, KillOrGo DEF ServerPlaces, Unprotected
<1>2. Typed'
  <2>1. content' \in [File -> Pid \cup {None, Stranger}]
    BY <1>a, <1>b, <1>c DEF Typed, TypeOK
  <2>2. \A t \in Start : server'[t] \in {"lock", "write", "unlock"} => fd'[t] \in File
    BY <1>a, <1>b, <1>c DEF ServerGoes, Typed, TypeOK
  <2>. QED
    BY <1>a, <1>b, <1>d, <1>1, <2>1, <2>2 DEF Goes, Typed, TypeOK
<1>3. ~funix'[s]
  BY <1>a, <1>b DEF SocketInv, FunixAfter, FunixPlaces, Dying
<1>4. SocketInv'
  BY <1>a, <1>b, <1>d, <1>1, <1>3, SocketStep
<1>5. ASSUME ~contested'
      PROVE  (OneClaims /\ OneHolds /\ NonePast /\ FileHolds /\ HolderSeen /\ FileOpen)'
  <2>0. ~contested /\ content' = [content EXCEPT ![fd[s]] = pid[s]]
    BY <1>b, <1>d, <1>5
  <2>1. \A t \in Start : t # s => ~Holds(t)'
    <3>1. \A t \in Start : ~Holds(t)
      BY <1>a, <1>b, <2>0 DEF FileInv, NonePast, Past
    <3>. QED
      BY <1>1, <3>1, OthersWeaken
  <2>2. \A t \in Start : ~Claiming(t)'
    <3>1. \A t \in Start : t # s => ~Claiming(t)
      BY <1>a, <1>b, <2>0 DEF FileInv, OneClaims, Claiming
    <3>2. ~Claiming(s)'
      BY <1>1 DEF Goes, Claiming
    <3>. QED
      BY <1>1, <3>1, <3>2, OthersWeaken
  <2>3. file # None /\ fd[s] = file
    BY <1>a, <1>b, <2>0 DEF FileInv, FileOpen
  <2>4. content'[file'] = pid'[s]
    BY <1>a, <1>b, <1>c, <2>0, <2>3 DEF Typed, TypeOK
  <2>5. (OneClaims /\ OneHolds /\ NonePast)'
    BY <2>1, <2>2 DEF OneClaims, OneHolds, NonePast, Past, Claiming
  <2>6. (FileHolds /\ HolderSeen /\ FileOpen)'
    BY <1>b, <2>1, <2>2, <2>3, <2>4 DEF FileHolds, HolderSeen, FileOpen, Claiming
  <2>. QED
    BY <2>5, <2>6
<1>6. OwnPid' /\ ForkedOnce'
  BY <1>a, <1>b, <1>1, PidsKept DEF FileInv
<1>. QED
  BY <1>2, <1>4, <1>5, <1>6 DEF IInv, FileInv

(* Who removes the file is its holder, and there is no other.               *)
LEMMA DieFileKeeps ==
    ASSUME IInv, NEW s \in Start, DieFile(s)
    PROVE  IInv'
<1>a. Typed /\ FileInv /\ SocketInv
  BY DEF IInv
<1>b. /\ server[s] = "dieFile" /\ ServerLives(s) /\ Holds(s) /\ ServerGoes(s, "gone") /\ file' = None
      /\ UNCHANGED <<ppid, pid, seen, fd, content, socket, funix, crashes, contested, late>>
  BY DEF DieFile, ServerLives, Holds, HoldPlaces, Dying
<1>1. Goes(s, "gone")
  BY <1>a, <1>b, KillOrGo DEF ServerPlaces
<1>2. Typed'
  <2>1. \A t \in Start : server'[t] \in {"lock", "write", "unlock"} => fd'[t] \in File
    BY <1>a, <1>b DEF ServerGoes, Typed, TypeOK
  <2>. QED
    BY <1>a, <1>b, <1>1, <2>1 DEF Goes, Typed, TypeOK
<1>3. ~Holds(s)'
  BY <1>1 DEF Goes, Holds, HoldPlaces, Dying
<1>4. SocketInv'
  BY <1>a, <1>b, <1>1, <1>3, SocketStep DEF FunixPlaces
<1>5. ASSUME ~contested
      PROVE  (OneClaims /\ OneHolds /\ NonePast /\ FileHolds /\ HolderSeen /\ FileOpen)'
  <2>1. \A t \in Start : ~Holds(t)'
    <3>1. \A t \in Start : t # s => ~Holds(t)
      BY <1>a, <1>b, <1>5 DEF FileInv, OneHolds
    <3>. QED
      BY <1>1, <1>3, <3>1, OthersWeaken
  <2>2. \A t \in Start : ~Past(t)'
    <3>1. \A t \in Start : ~Past(t)
      BY <1>a, <1>b, <1>5 DEF FileInv, NonePast
    <3>2. ~Past(s)'
      BY <1>1 DEF Goes, Past
    <3>. QED
      BY <1>1, <3>1, <3>2, OthersWeaken
  <2>3. OneClaims'
    <3>1. \A t \in Start : Claiming(t)' => Claiming(t)
      BY <1>1, OthersWeaken DEF Goes, Claiming
    <3>. QED
      BY <1>a, <1>5, <3>1 DEF FileInv, OneClaims
  <2>. QED
    BY <2>1, <2>2, <2>3 DEF OneHolds, NonePast, FileHolds, HolderSeen, FileOpen, Past
<1>6. OwnPid' /\ ForkedOnce'
  BY <1>a, <1>b, <1>1, PidsKept DEF FileInv
<1>. QED
  BY <1>b, <1>2, <1>4, <1>5, <1>6 DEF IInv, FileInv

----------------------------------------------------------------------------
(***************************************************************************)
(* The process that is started, and the birth of the server: its pid is    *)
(* one that no live process has.                                           *)
(***************************************************************************)
LEMMA BirthKeeps ==
    ASSUME IInv, NEW s \in Start, server[s] = "none",
           NEW pc \in {"none", "explore", "gone"}, server' = [server EXCEPT ![s] = pc],
           parent' \in [Start -> ParentPlaces],
           \A t \in Start \ {s} : parent'[t] = parent[t],
           parent'[s] \in {"read", "probe", "fork"} => pc = "none",
           NEW p \in Pid \cup {None}, pid' = [pid EXCEPT ![s] = p],
           pc = "explore" => p \in Pid \ InUse,
           ppid' \in [Start -> Pid \cup {None}],
           seen' \in [Start -> Pid \cup {None, Stranger}],
           \A t \in Start \ {s} : seen'[t] = seen[t],
           UNCHANGED <<fileVars, socket, funix, crashes, contested, late>>
    PROVE  IInv'
<1>a. Typed /\ FileInv /\ SocketInv
  BY DEF IInv
<1>1. Typed'
  <2>1. server' \in [Start -> ServerPlaces] /\ pid' \in [Start -> Pid \cup {None}]
    BY <1>a DEF Typed, TypeOK, ServerPlaces, Unprotected
  <2>2. \A t \in Start : server'[t] \in {"lock", "write", "unlock"} => fd'[t] \in File
    BY <1>a DEF fileVars, Typed, TypeOK
  <2>. QED
    BY <1>a, <2>1, <2>2 DEF fileVars, Typed, TypeOK
<1>2. server'[s] = pc /\ pid'[s] = p
      /\ \A t \in Start \ {s} : server'[t] = server[t] /\ pid'[t] = pid[t]
  BY <1>a DEF Typed, TypeOK
<1>3. ~Holds(s) /\ ~Holds(s)' /\ ~Claiming(s)' /\ ~Past(s)' /\ ~funix[s]
  BY <1>a, <1>2 DEF Holds, HoldPlaces, Dying, Claiming, Past, SocketInv, FunixAfter, FunixPlaces
<1>4. OwnPid'
  <2>1. \A t \in Start : ServerLives(t) => pid[t] \in InUse
    BY DEF InUse
  <2>2. ServerLives(s)' => p \in Pid \ InUse
    BY <1>2 DEF ServerLives
  <2>3. \A t \in Start \ {s} : ServerLives(t)' = ServerLives(t)
    BY <1>2 DEF ServerLives
  <2>. QED
    BY <1>a, <1>2, <2>1, <2>2, <2>3 DEF FileInv, OwnPid
<1>5. ForkedOnce'
  BY <1>a, <1>2 DEF FileInv, ForkedOnce
<1>6. \A t \in Start : /\ Holds(t)' => t # s /\ Holds(t)
                       /\ Claiming(t)' => t # s /\ Claiming(t)
                       /\ Past(t)' => t # s /\ Past(t)
                       /\ server'[t] \in {"probe", "lock", "write"} => t # s
  BY <1>2, <1>3 DEF Holds, Claiming, Past
<1>7. ASSUME ~contested
      PROVE  (OneClaims /\ OneHolds /\ NonePast)'
  BY <1>a, <1>6, <1>7 DEF FileInv, OneClaims, OneHolds, NonePast
<1>8. ASSUME ~contested
      PROVE  (FileHolds /\ HolderSeen /\ FileOpen)'
  BY <1>a, <1>2, <1>6, <1>8 DEF FileInv, FileHolds, HolderSeen, FileOpen, fileVars
<1>9. SocketInv'
  <2>1. FunixAfter'
    BY <1>a, <1>2, <1>3 DEF SocketInv, FunixAfter
  <2>2. ASSUME ~contested
        PROVE  OwnSocket'
    BY <1>a, <1>2, <1>6, <2>2 DEF SocketInv, OwnSocket
  <2>. QED
    BY <2>1, <2>2 DEF SocketInv
<1>. QED
  BY <1>1, <1>4, <1>5, <1>7, <1>8, <1>9 DEF IInv, FileInv

LEMMA ParentKeeps ==
    ASSUME IInv, NEW s \in Start, Launch(s) \/ ParentStep(s)
    PROVE  IInv'
<1>a. Typed /\ FileInv
  BY DEF IInv
<1>b. FreePids \subseteq Pid \ InUse
  BY DEF FreePids
<1>c. /\ pid[s] \in Pid \cup {None} /\ pid' = pid => pid' = [pid EXCEPT ![s] = pid[s]]
      /\ server' = server /\ server[s] = "none" => server' = [server EXCEPT ![s] = "none"]
      /\ seen' = seen => seen' \in [Start -> Pid \cup {None, Stranger}]
      /\ ppid' = ppid => ppid' \in [Start -> Pid \cup {None}]
      /\ pid[s] \in Pid \cup {None}
  BY <1>a DEF Typed, TypeOK
<1>1. CASE Launch(s)
  <2>1. server[s] = "none" /\ UNCHANGED <<seen, fileVars, socket, funix, crashes, contested, late>>
    BY <1>1 DEF Launch
  <2>2. PICK p \in FreePids : ppid' = [ppid EXCEPT ![s] = p]
    BY <1>1 DEF Launch
  <2>3. ppid' \in [Start -> Pid \cup {None}] /\ ppid'[s] = p
    BY <1>a, <1>b, <2>2 DEF Typed, TypeOK
  <2>4. CASE ParentGoes(s, "read") /\ UNCHANGED pid
    <3>1. parent' \in [Start -> ParentPlaces] /\ \A t \in Start \ {s} : parent'[t] = parent[t]
      BY <1>a, <2>4 DEF ParentGoes, Typed, TypeOK, ParentPlaces
    <3>. QED
      BY <1>c, <2>1, <2>3, <2>4, <3>1, BirthKeeps DEF ParentGoes
  <2>5. CASE ServerGoes(s, "explore") /\ pid' = [pid EXCEPT ![s] = ppid'[s]]
    <3>1. parent' \in [Start -> ParentPlaces] /\ \A t \in Start \ {s} : parent'[t] = parent[t]
      BY <1>a, <2>5 DEF ServerGoes, Typed, TypeOK
    <3>2. parent'[s] = "none"
      BY <1>1, <2>5 DEF Launch, ServerGoes
    <3>. QED
      BY <1>b, <1>c, <2>1, <2>3, <2>5, <3>1, <3>2, BirthKeeps DEF ServerGoes
  <2>. QED
    BY <1>1, <2>4, <2>5 DEF Launch
<1>2. CASE ParentRead(s) \/ ParentProbe(s)
  <2>1. server[s] = "none" /\ UNCHANGED <<server, ppid, pid, fileVars, socket, funix, crashes, contested, late>>
    BY <1>2, <1>a DEF ParentRead, ParentProbe, ParentGoes, FileInv, ForkedOnce
  <2>2. parent' \in [Start -> ParentPlaces] /\ \A t \in Start \ {s} : parent'[t] = parent[t]
    BY <1>2, <1>a DEF ParentRead, ParentProbe, ParentGoes, Typed, TypeOK, ParentPlaces
  <2>3. seen' \in [Start -> Pid \cup {None, Stranger}] /\ \A t \in Start \ {s} : seen'[t] = seen[t]
    <3>1. read_pid \subseteq Pid \cup {None, Stranger}
      BY <1>a DEF read_pid, Typed, TypeOK
    <3>. QED
      BY <1>2, <1>a, <3>1 DEF ParentRead, ParentProbe, Typed, TypeOK
  <2>. QED
    BY <1>c, <2>1, <2>2, <2>3, BirthKeeps
<1>3. CASE Fork(s)
  <2>1. server[s] = "none" /\ UNCHANGED <<ppid, seen, fileVars, socket, funix, crashes, contested, late>>
    BY <1>3, <1>a DEF Fork, FileInv, ForkedOnce
  <2>2. /\ parent' \in [Start -> ParentPlaces] /\ parent'[s] = "waiting"
        /\ \A t \in Start \ {s} : parent'[t] = parent[t]
    BY <1>3, <1>a DEF Fork, Typed, TypeOK, ParentPlaces
  <2>3. CASE server' = [server EXCEPT ![s] = "explore"] /\ \E p \in FreePids : pid' = [pid EXCEPT ![s] = p]
    BY <1>b, <1>c, <2>1, <2>2, <2>3, BirthKeeps
  <2>4. CASE server' = [server EXCEPT ![s] = "gone"] /\ UNCHANGED pid
    BY <1>c, <2>1, <2>2, <2>4, BirthKeeps
  <2>. QED
    BY <1>3, <2>3, <2>4 DEF Fork
<1>4. CASE TimeOut(s)
  <2>1. /\ UNCHANGED <<server, ppid, pid, seen, fileVars, socket, funix, crashes, contested>>
        /\ parent' \in [Start -> ParentPlaces] /\ late' \in BOOLEAN
        /\ \A t \in Start : parent'[t] \in {parent[t], "timedout"}
    BY <1>4, <1>a DEF TimeOut, SleepOver, ParentGoes, Typed, TypeOK, ParentPlaces, ServerLives
  <2>2. Typed'
    BY <1>a, <2>1 DEF fileVars, Typed, TypeOK
  <2>3. ForkedOnce'
    BY <1>a, <2>1 DEF FileInv, ForkedOnce
  <2>4. OwnPid'
    BY <1>a, <2>1 DEF FileInv, OwnPid, ServerLives
  <2>5. ~contested => (OneClaims /\ OneHolds /\ NonePast /\ FileHolds /\ HolderSeen /\ FileOpen)'
    BY <1>a, <2>1 DEF FileInv, OneClaims, OneHolds, NonePast, FileHolds, HolderSeen, FileOpen,
                      Claiming, Past, Holds, fileVars
  <2>6. SocketInv'
    BY <2>1 DEF IInv, SocketInv, FunixAfter, OwnSocket, Holds
  <2>. QED
    BY <2>1, <2>2, <2>3, <2>4, <2>5, <2>6 DEF IInv, FileInv
<1>. QED
  BY <1>1, <1>2, <1>3, <1>4 DEF ParentStep

----------------------------------------------------------------------------
LEMMA Stutter == ASSUME IInv, UNCHANGED vars PROVE IInv'
<1>1. Typed'
  BY DEF vars, fileVars, IInv, Typed, TypeOK
<1>2. FileInv'
  BY DEF vars, fileVars, IInv, FileInv, OwnPid, ForkedOnce, OneClaims, OneHolds, NonePast, FileHolds,
         HolderSeen, FileOpen, ServerLives, Claiming, Past, Holds
<1>3. SocketInv'
  BY DEF vars, fileVars, IInv, SocketInv, FunixAfter, OwnSocket, Holds
<1>. QED
  BY <1>1, <1>2, <1>3 DEF IInv

LEMMA Invariance == ASSUME IInv, [Next]_vars PROVE IInv'
<1>1. ASSUME NEW s \in Start, ServerStep(s) \/ Crash(s) \/ Term(s)
      PROVE  IInv'
  BY <1>1, StayingKeeps, SocketKeeps, ReadKeeps, ProbeKeeps, OpenKeeps, WriteKeeps, DieFileKeeps
     DEF ServerStep, Staying
<1>. QED
  BY <1>1, ParentKeeps, Stutter DEF Next

(* Every state that starts, signals and crashes reach has the types, and    *)
(* the invariant.                                                           *)
THEOREM Invariant == Spec => []IInv
<1>. QED
  BY Initially, Invariance, PTL DEF Spec

THEOREM TypeCorrect == Spec => []TypeOK
<1>. QED
  BY Invariant, InvariantImplies, PTL

(* check_pid and write_pid admit one server at a time, however many starts  *)
(* there are, in whatever order their parents and children run, whatever    *)
(* earlier servers left behind, and with pids that are used again - unless  *)
(* two starts are between check and write at once.                          *)
THEOREM OnlyOneServer == Spec => []OneServer
<1>. QED
  BY Invariant, InvariantImplies, PTL

(* And its pid file and its socket stay its own, so that a signal and a     *)
(* message reach it, until it ends.                                         *)
THEOREM StaysReachable == Spec => []Reachable
<1>. QED
  BY Invariant, InvariantImplies, PTL

----------------------------------------------------------------------------
(***************************************************************************)
(* The parent waits for its server.                                        *)
(***************************************************************************)
Early == Unprotected \cup {"parts", "init", "unlink", "bind", "bound", "tell"}

(* Parents that live have different pids, so what a server sends to its     *)
(* parent's pid hits no other - as long as its own parent is still there.   *)
ParentsApart == \A s, t \in Start : ParentLives(s) /\ ParentLives(t) /\ s # t => ppid[s] # ppid[t]

ParentStays == ~late => \A s \in Start : server[s] \in Early /\ ppid[s] # pid[s] => parent[s] = "waiting"

ParentInv == ParentsApart /\ ParentStays

ReleasedAfterInit ==
    \A s \in Start : parent[s] = "waiting" /\ parent'[s] = "released" /\ ~late
        => server'[s] \in {"serving", "gone"} \cup Dying

LEMMA KillReleases ==
    ASSUME Typed, ParentInv, NEW s \in Start, server[s] \in Early, ppid[s] # pid[s],
           NEW pc \in {"gone", "dieSocket", "serving"}, KillAndGo(s, ppid[s], pc),
           UNCHANGED <<ppid, pid, late>>
    PROVE  ParentInv' /\ ReleasedAfterInit
<1>1. Goes(s, pc)
  BY KillOrGo DEF Typed, TypeOK, ServerPlaces, Dying
<1>2. ParentsApart'
  <2>1. \A t \in Start : ParentLives(t)' => ParentLives(t)
    BY <1>1 DEF Goes, ParentLives
  <2>. QED
    BY <2>1 DEF ParentInv, ParentsApart
<1>3. ASSUME ~late, NEW t \in Start \ {s}
      PROVE  parent[t] = "waiting" => parent'[t] = "waiting"
  <2>1. parent[s] = "waiting"
    BY <1>3 DEF ParentInv, ParentStays
  <2>2. parent[t] = "waiting" => ppid[t] # ppid[s]
    BY <1>3, <2>1 DEF ParentInv, ParentsApart, ParentLives
  <2>. QED
    BY <2>2 DEF KillAndGo
<1>4. ParentStays'
  <2>1. server'[s] \notin Early
    BY <1>1 DEF Goes, Early, Unprotected
  <2>2. \A t \in Start \ {s} : server'[t] \in Early => server[t] \in Early
    BY <1>1 DEF Goes, Early, Unprotected
  <2>. QED
    BY <1>3, <2>1, <2>2 DEF ParentInv, ParentStays
<1>5. ReleasedAfterInit
  <2>1. server'[s] \in {"serving", "gone"} \cup Dying
    BY <1>1 DEF Goes, Dying
  <2>. QED
    BY <1>3, <2>1 DEF ReleasedAfterInit
<1>. QED
  BY <1>2, <1>4, <1>5 DEF ParentInv

LEMMA GoReleasesNone ==
    ASSUME Typed, ParentInv, NEW s \in Start, NEW pc, ServerGoes(s, pc),
           pc \in Early => server[s] \in Early,
           UNCHANGED <<ppid, pid, late>>
    PROVE  ParentInv' /\ ReleasedAfterInit
<1>1. parent' = parent /\ \A t \in Start : server'[t] \in Early => server[t] \in Early
  BY DEF ServerGoes, Typed, TypeOK
<1>. QED
  BY <1>1 DEF ParentInv, ParentsApart, ParentStays, ParentLives, ReleasedAfterInit

LEMMA ServerReleases ==
    ASSUME Typed, ParentInv, NEW s \in Start, ServerStep(s) \/ Crash(s) \/ Term(s)
    PROVE  ParentInv' /\ ReleasedAfterInit
<1>1. UNCHANGED <<ppid, pid, late>>
  BY DEF ServerStep, Explore, Read, Probe, Open, OpenFails, Lock, Write, Unlock, Handler, Parts, init,
         Unlink, Bind, Bound, Tell, DieSocket, DieFile, Crash, Term
<1>2. ASSUME NEW pc \in {"gone", "dieSocket", "serving"}, server[s] \in Early,
             IF ppid[s] = pid[s] THEN ServerGoes(s, pc) ELSE KillAndGo(s, ppid[s], pc)
      PROVE  ParentInv' /\ ReleasedAfterInit
  BY <1>1, <1>2, KillReleases, GoReleasesNone
<1>3. CASE OpenFails(s)
  BY <1>2, <1>3 DEF OpenFails, GiveUp, Early, Unprotected
<1>4. CASE Lock(s)
  <2>1. CASE ServerGoes(s, "write")
    BY <1>1, <1>4, <2>1, GoReleasesNone DEF Lock, Early, Unprotected
  <2>. QED
    BY <1>2, <1>4, <2>1 DEF Lock, GiveUp, Early, Unprotected
<1>5. CASE Probe(s)
  <2>1. CASE ServerGoes(s, "open")
    BY <1>1, <1>5, <2>1, GoReleasesNone DEF Probe, Early, Unprotected
  <2>. QED
    BY <1>2, <1>5, <2>1 DEF Probe, GiveUp, Early, Unprotected
<1>6. CASE Parts(s)
  <2>1. CASE ServerGoes(s, "init")
    BY <1>1, <1>6, <2>1, GoReleasesNone DEF Parts, Early
  <2>. QED
    BY <1>2, <1>6, <2>1 DEF Parts, Early
<1>7. CASE Tell(s)
  BY <1>2, <1>7 DEF Tell, Early
<1>8. CASE Term(s)
  <2>1. Terminated(s) \notin Early
    BY <1>8 DEF Term, Terminated, Early, Unprotected
  <2>. QED
    BY <1>1, <1>8, <2>1, GoReleasesNone DEF Term
<1>9. CASE Explore(s) \/ Read(s) \/ Open(s) \/ Write(s) \/ Handler(s) \/ init(s)
           \/ Unlink(s) \/ Bind(s) \/ Bound(s)
  <2>1. server[s] \in Early /\ \E pc \in ServerPlaces : ServerGoes(s, pc)
    BY <1>9 DEF Explore, Read, Open, Write, Handler, init, Reads, Unlink, Bind, Bound,
                Early, Unprotected, ServerPlaces
  <2>. QED
    BY <1>1, <2>1, GoReleasesNone
<1>10. CASE DieSocket(s) \/ DieFile(s) \/ Crash(s)
  <2>1. ServerGoes(s, "dieFile") \/ ServerGoes(s, "gone")
    BY <1>10 DEF DieSocket, DieFile, Crash
  <2>. QED
    BY <1>1, <2>1, GoReleasesNone DEF Early, Unprotected
<1>11. CASE Unlock(s)
  <2>1. CASE ServerGoes(s, "handler")
    BY <1>1, <1>11, <2>1, GoReleasesNone DEF Unlock, Early, Unprotected
  <2>. QED
    BY <1>2, <1>11, <2>1 DEF Unlock, GiveUp, Early, Unprotected
<1>. QED
  BY <1>3, <1>4, <1>5, <1>6, <1>7, <1>8, <1>9, <1>10, <1>11 DEF ServerStep

LEMMA ParentReleases ==
    ASSUME Typed, ParentInv, NEW s \in Start, Launch(s) \/ ParentStep(s)
    PROVE  ParentInv' /\ ReleasedAfterInit
<1>1. CASE Launch(s)
  <2>1. PICK p \in FreePids : ppid' = [ppid EXCEPT ![s] = p]
    BY <1>1 DEF Launch
  <2>2. \A t \in Start : ParentLives(t) => ppid[t] # p
    BY DEF FreePids, InUse
  <2>3. ppid'[s] = p /\ \A t \in Start \ {s} : ppid'[t] = ppid[t]
    BY <2>1 DEF Typed, TypeOK
  <2>4. /\ late' = late /\ server[s] = "none" /\ parent'[s] \in {"none", "read"}
        /\ \A t \in Start \ {s} : parent'[t] = parent[t] /\ server'[t] = server[t] /\ pid'[t] = pid[t]
        /\ server'[s] \in Early => ppid'[s] = pid'[s]
    BY <1>1 DEF Launch, ParentGoes, ServerGoes, Typed, TypeOK, Early, Unprotected
  <2>5. ParentsApart'
    BY <2>2, <2>3, <2>4 DEF ParentInv, ParentsApart, ParentLives
  <2>6. ParentStays'
    BY <2>3, <2>4 DEF ParentInv, ParentStays
  <2>7. ReleasedAfterInit
    BY <2>4 DEF ReleasedAfterInit
  <2>. QED
    BY <2>5, <2>6, <2>7 DEF ParentInv
<1>2. CASE ParentStep(s)
  <2>1. /\ ppid' = ppid /\ ParentLives(s)
        /\ \A t \in Start \ {s} : parent'[t] = parent[t] /\ server'[t] = server[t] /\ pid'[t] = pid[t]
        /\ parent'[s] \notin {"released", "killed", "none"}
    BY <1>2 DEF ParentStep, ParentRead, ParentProbe, Fork, TimeOut, SleepOver, ParentGoes, ParentLives,
                Typed, TypeOK
  <2>2. ParentsApart'
    BY <2>1 DEF ParentInv, ParentsApart, ParentLives
  <2>3. ReleasedAfterInit
    BY <2>1 DEF ReleasedAfterInit
  <2>4. CASE ParentRead(s) \/ ParentProbe(s)
    <3>1. late' = late /\ server' = server /\ pid' = pid /\ parent[s] # "waiting"
      BY <2>4 DEF ParentRead, ParentProbe, ParentGoes
    <3>. QED
      BY <2>1, <2>2, <2>3, <3>1 DEF ParentInv, ParentStays
  <2>5. CASE Fork(s)
    <3>1. late' = late /\ parent'[s] = "waiting"
      BY <2>5 DEF Fork, Typed, TypeOK
    <3>. QED
      BY <2>1, <2>2, <2>3, <3>1 DEF ParentInv, ParentStays
  <2>6. CASE TimeOut(s)
    <3>1. server' = server /\ pid' = pid /\ (~late' => ~late /\ ~ServerLives(s))
      BY <2>6 DEF TimeOut, ParentGoes
    <3>2. ~late' => server[s] \notin Early
      BY <3>1 DEF ServerLives, Early, Unprotected
    <3>. QED
      BY <2>1, <2>2, <2>3, <3>1, <3>2 DEF ParentInv, ParentStays
  <2>. QED
    BY <1>2, <2>4, <2>5, <2>6 DEF ParentStep
<1>. QED
  BY <1>1, <1>2

(* The parent of a server that starts is the only live process with its     *)
(* pid, so that it is released by its own server: when that serves or has   *)
(* given up.                                                                *)
THEOREM ParentWaits == Spec => ParentAfterInit
<1>1. Init => ParentInv
  BY DEF Init, ParentInv, ParentsApart, ParentStays, ParentLives, Early, Unprotected
<1>2. ASSUME IInv, ParentInv, [Next]_vars
      PROVE  ParentInv' /\ ReleasedAfterInit
  <2>1. CASE UNCHANGED vars
    BY <1>2, <2>1 DEF vars, ParentInv, ParentsApart, ParentStays, ParentLives, ReleasedAfterInit
  <2>2. CASE Next
    BY <1>2, <2>2, ServerReleases, ParentReleases DEF Next, IInv
  <2>. QED
    BY <1>2, <2>1, <2>2
<1>. QED
  BY <1>1, <1>2, Invariant, PTL DEF Spec, ParentAfterInit, ReleasedAfterInit
=============================================================================
