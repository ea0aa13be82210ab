----------------------------- MODULE RepeatLog -----------------------------
(***************************************************************************)
(* How syslogd.c writes the lines of its sources to one destination (one   *)
(* struct filed, f): it holds a line that repeats the last one back, and   *)
(* writes "last message repeated n times" later.  Five pieces of code      *)
(* write for f: logmsg, the SIGALRM handler domark, the SIGTERM handler    *)
(* die, init after a SIGHUP, and fprintlog under all of them.              *)
(*                                                                         *)
(* The main thread logs; a signal handler runs on it, or on a watch thread *)
(* if there is one: logmsg blocks the signals of the main thread only.     *)
(* stack holds, for each thread, where each of its activations is, and the *)
(* last entry runs.  fprintlog is two steps, the write and the reset of    *)
(* f_prevcount, and a handler may run between any two steps.               *)
(*                                                                         *)
(* The selector of f takes the lines of clients but neither LOG_SYSLOG nor *)
(* LOG_MARK, so the server's own lines (logerror, "-- MARK --", "restart", *)
(* "exiting") do not go to f.  MarkInterval is not 0.  Time is what time() *)
(* returns; a line may come and a write be made at any time between two    *)
(* alarms.                                                                 *)
(***************************************************************************)
EXTENDS Integers, Sequences, SequencesExt

CONSTANTS
    Line, LongLine,   \* what clients log; lines of MAXSVLINE bytes and more
    LocalHost, Remote,\* LocalHostName and the hosts that forward to us
    Kinds,            \* what f may be: "file", "forw", or "unkn", a host whose
                      \* name cannot be resolved yet
    NoHops,           \* the option
    Interval,         \* repeatinterval
    TimerIntvl,       \* TIMERINTVL
    Boot,             \* the time at which the server starts
    Suspend, Retries, \* INET_SUSPEND_TIME, INET_RETRY_MAX
    Outcomes,         \* how a write may end: "ok", "full", "hard"
    OthersFail,       \* whether logging to another destination may fail
    WatchThreads,     \* whether startWatchServer could create its threads
    Sigterm,          \* whether anybody sends SIGTERM
    Empty,            \* "": the f_prevline and f_prevhost of a new filed, the
                      \* f_prevline after a long line; a client may log it too
    MaxLines, MaxTime \* bounds: lines logged, time that passes

ASSUME RepeatAssumption ==
    /\ LongLine \subseteq Line /\ Empty \notin LongLine
    /\ Empty \notin Remote /\ Empty # LocalHost
    /\ Kinds \subseteq {"file", "forw", "unkn"}
    /\ Suspend \in Nat /\ Retries \in Nat /\ Boot \in Nat
    /\ TimerIntvl \in Nat \ {0}
    /\ NoHops \in BOOLEAN /\ OthersFail \in BOOLEAN /\ WatchThreads \in BOOLEAN
    /\ Sigterm \in BOOLEAN
    /\ Interval \in Seq(Nat) /\ Len(Interval) > 0
    /\ Outcomes \subseteq {"ok", "full", "hard"}
    /\ MaxLines \in Nat \ {0} /\ MaxTime \in Nat

Host == Remote \cup {LocalHost}

VARIABLES
    clock, now,     \* the time, and what the global now was last set to
    timer,          \* when alarm() has SIGALRM sent
    alarm, restart, \* SIGALRM is pending; SIGHUP has been received
    masked,         \* SIGALRM is blocked in the main thread
    stack,          \* where the main thread, the handlers on it and the
                    \* handlers on a watch thread are
    cur,            \* the line and host logmsg works on
    f_type, f_prevline, f_prevhost, f_prevcount, f_repeatcount, f_time,
    out,            \* what f was given to write: [line, n, host], n lines at once
    left,           \* history: which of them were not sent because of NoHops
    taken,          \* how many lines logmsg was called with
    complete,       \* history: the lines whose logmsg has returned
    lossy,          \* history: a write was refused, or the host was not known;
                    \* out, left and complete end there
    lookups,        \* history: how often the host was looked up in vain, until
                    \* it is found or given up
    long,           \* history: the line saved last was a long one
    mistaken,       \* history: an empty line was taken for its repetition, since
                    \* a long line is saved as an empty one
    torn,           \* history: a handler wrote for f in the middle of a write,
                    \* or logmsg what a handler had just written
    raced           \* history: both threads were at work on f at once

filed == <<f_type, f_prevline, f_prevhost, f_prevcount, f_repeatcount, f_time>>
signals == <<alarm, restart>>
history == <<left, long, mistaken>>
vars == <<clock, now, timer, signals, masked, stack, cur, filed, out, taken, complete, lossy, lookups,
          torn, raced, history>>

(* cfline: while the host is not known f_prevcount is the number of retries *)
(* that are left.                                                           *)
Counter(type) == IF type = "unkn" THEN Retries ELSE 0

(* 1970 was long ago, so the first line is not taken to come too early.     *)
Loaded(type) == IF type = "unkn" THEN clock ELSE 0

NoLine == [line |-> Empty, host |-> Empty]

Init ==
    /\ clock = Boot /\ now = Boot /\ timer = Boot + TimerIntvl
    /\ alarm = FALSE /\ restart = FALSE /\ masked = FALSE
    /\ stack = [main |-> <<"idle">>, watch |-> << >>]
    /\ cur = NoLine
    /\ f_type \in Kinds
    /\ f_prevline = Empty /\ f_prevhost = Empty
    /\ f_prevcount = Counter(f_type) /\ f_repeatcount = 0
    /\ f_time = Loaded(f_type)
    /\ out = << >> /\ taken = 0 /\ complete = << >>
    /\ lossy = (f_type = "unkn") /\ lookups = 0 /\ torn = FALSE /\ raced = FALSE
    /\ left = {} /\ long = FALSE /\ mistaken = FALSE

Thread == {"main", "watch"}

At(t, label) == stack[t] # << >> /\ Last(stack[t]) = label

Goto(t, label) == stack' = [stack EXCEPT ![t] = Append(Front(@), label)]

Return(t) == stack' = [stack EXCEPT ![t] = Front(@)]

Idle == stack["main"] = <<"idle">>

(* A thread begins something that works on f.                               *)
Begin(t) == raced' = (raced \/ IF t = "main" THEN stack["watch"] # << >> ELSE ~Idle)

Repeattime == f_time + Interval[f_repeatcount + 1]

BackoffUncapped == f_repeatcount' = f_repeatcount + 1

Backoff == f_repeatcount' = IF f_repeatcount + 1 < Len(Interval)
                            THEN f_repeatcount + 1 ELSE f_repeatcount

----------------------------------------------------------------------------
(***************************************************************************)
(* fprintlog(f, from, flags, msg): text is what iov[4] holds.              *)
(***************************************************************************)
Text(msg) == IF msg # Empty THEN [line |-> msg, n |-> 1, host |-> f_prevhost]
             ELSE [line |-> f_prevline, host |-> f_prevhost,
                   n |-> IF f_prevcount > 1 THEN f_prevcount ELSE 1]

(* A signal handler writes while what it interrupted is past the test that  *)
(* decides on a write, and before the reset that ends it; or logmsg finds a *)
(* repetition overdue that domark wrote after logmsg had counted it: time   *)
(* for that if the handler runs twice between the two.                      *)
Tearing(t) ==
    \/ \E i \in 1..(Len(stack[t]) - 1) :
          stack[t][i] \in {"write dup", "reset dup", "flush", "reset old", "write new", "reset new",
                          "write mark", "reset mark", "write exit", "reset exit",
                          "write init", "reset init"}
    \/ At(t, "write dup") /\ f_prevcount = 0

(* A failed sendto suspends the destination.  A file that is full drops the *)
(* text; any other error closes it for good.                                *)
AfterSend(outcome) == IF outcome = "ok" THEN "forw" ELSE "susp"

AfterWrite(outcome) == IF outcome = "hard" THEN "unused" ELSE f_type

(* The write.  An error, other than of a file that is full, is reported by  *)
(* logerror, whose logmsg unblocks the signals when it returns.             *)
Out(t, from, msg) ==
    LET forwards == f_type # "file" IN
    IF forwards /\ from # LocalHost /\ NoHops
    THEN /\ f_type' = "forw"
         /\ out' = IF lossy THEN out ELSE Append(out, Text(msg))
         /\ left' = IF lossy THEN left ELSE left \cup {Len(out) + 1}
         /\ UNCHANGED <<f_time, masked, complete, lossy>>
    ELSE \E o \in Outcomes :
         /\ f_time' = now
         /\ f_type' = IF forwards THEN AfterSend(o) ELSE AfterWrite(o)
         /\ masked' = (masked /\ (t # "main" \/ o = "ok" \/ (~forwards /\ o = "full")))
         /\ lossy' = (lossy \/ o # "ok")
         /\ out' = IF lossy' THEN << >> ELSE Append(out, Text(msg))
         /\ left' = IF lossy' THEN {} ELSE left
         /\ complete' = IF lossy' THEN << >> ELSE complete

(* The host is looked up again, and the text was put together before.       *)
Lookup(t, from, msg) ==
    \/ f_prevcount' = 0 /\ lookups' = 0 /\ Out(t, from, msg)
    \/ /\ f_prevcount' = f_prevcount - 1
       /\ IF f_prevcount' < 0 THEN f_type' = "unused" /\ lookups' = 0
                              ELSE f_type' = f_type /\ lookups' = lookups + 1
       /\ UNCHANGED <<f_time, masked, out, left, complete, lossy>>

Rested == clock - f_time >= Suspend

Write(t, from, msg, next) ==
    /\ Goto(t, next)
    /\ \/ /\ f_type \in {"file", "forw"} \/ (f_type = "susp" /\ Rested)
          /\ Out(t, from, msg)
          /\ UNCHANGED <<f_prevcount, lookups>>
       \/ f_type = "unkn" /\ Rested /\ Lookup(t, from, msg)
       \/ /\ f_type = "unused" \/ (f_type \in {"susp", "unkn"} /\ ~Rested)
          /\ f_time' = IF f_type = "unused" THEN now ELSE f_time
          /\ UNCHANGED <<f_type, f_prevcount, masked, out, left, complete, lossy, lookups>>
    /\ torn' = (~lossy' /\ (torn \/ Tearing(t)))
    /\ UNCHANGED <<clock, now, timer, signals, cur, f_prevline, f_prevhost, f_repeatcount, taken, raced,
                   long, mistaken>>

(* The end of fprintlog, where retries are not repetitions.                 *)
ResetAlways == f_prevcount' = 0

Reset == f_prevcount' = IF f_type = "unkn" THEN f_prevcount ELSE 0

ResetFrame == UNCHANGED <<clock, now, signals, cur, f_type, f_prevline, f_prevhost,
                          f_time, out, taken, lossy, lookups, torn, raced, left, long>>

----------------------------------------------------------------------------
(***************************************************************************)
(* logmsg, called by the main loop for a client's line.                    *)
(***************************************************************************)
(* The signals are blocked; the destinations before f get the line, and if  *)
(* one fails logerror leaves the signals unblocked.  A SIGHUP is not looked *)
(* at while select's result still has lines in it, so restart may be TRUE.  *)
LogMsg ==
    /\ Idle
    /\ Begin("main")
    /\ taken < MaxLines
    /\ taken' = taken + 1
    /\ \E l \in Line, h \in Host : cur' = [line |-> l, host |-> h]
    /\ masked' \in IF OthersFail THEN BOOLEAN ELSE {TRUE}
    /\ now' = clock
    /\ Goto("main", "compare")
    /\ UNCHANGED <<clock, timer, signals, filed, out, complete, lossy, lookups, torn, history>>

DuplicateLineOnly == cur.line = f_prevline

Duplicate == cur.line = f_prevline /\ cur.host = f_prevhost

Compare ==
    /\ At("main", "compare")
    /\ IF Duplicate
          THEN f_prevcount' = f_prevcount + 1 /\ Goto("main", "hold")
          ELSE UNCHANGED f_prevcount /\ Goto("main", IF f_prevcount # 0 THEN "flush" ELSE "save")
    /\ mistaken' = (mistaken \/ (Duplicate /\ long))
    /\ UNCHANGED <<f_repeatcount, timer, masked, complete>>
    /\ ResetFrame

Done == /\ complete' = IF lossy THEN complete ELSE Append(complete, cur)
        /\ masked' = FALSE
        /\ Goto("main", "idle")

(* domark would have written the repetitions by now.                        *)
Hold ==
    /\ At("main", "hold")
    /\ IF now > Repeattime
          THEN Goto("main", "write dup") /\ UNCHANGED <<masked, complete>>
          ELSE Done
    /\ UNCHANGED <<f_prevcount, f_repeatcount, timer, mistaken>>
    /\ ResetFrame

WriteDup == At("main", "write dup") /\ Write("main", cur.host, Empty, "reset dup")

ResetDup ==
    /\ At("main", "reset dup")
    /\ Reset
    /\ Backoff
    /\ Done
    /\ UNCHANGED <<timer, mistaken>>
    /\ ResetFrame

WriteOld == At("main", "flush") /\ Write("main", cur.host, Empty, "reset old")

ResetOld ==
    /\ At("main", "reset old")
    /\ Reset
    /\ Goto("main", "save")
    /\ UNCHANGED <<f_repeatcount, timer, masked, complete, mistaken>>
    /\ ResetFrame

SaveHostOnce == f_prevhost' = IF f_prevhost = Empty THEN cur.host ELSE f_prevhost

SaveHost == f_prevhost' = cur.host

Save ==
    /\ At("main", "save")
    /\ f_prevline' = IF cur.line \in LongLine THEN Empty ELSE cur.line
    /\ SaveHost
    /\ f_repeatcount' = 0
    /\ long' = (cur.line \in LongLine)
    /\ Goto("main", "write new")
    /\ UNCHANGED <<clock, now, timer, signals, masked, cur, f_type, f_prevcount, f_time,
                   out, taken, complete, lossy, lookups, torn, raced, left, mistaken>>

WriteNew ==
    /\ At("main", "write new")
    /\ Write("main", cur.host, IF cur.line \in LongLine THEN cur.line ELSE Empty, "reset new")

ResetNew ==
    /\ At("main", "reset new")
    /\ Reset
    /\ UNCHANGED <<f_repeatcount, timer, mistaken>>
    /\ Done
    /\ ResetFrame

LogSteps == Compare \/ Hold \/ WriteDup \/ ResetDup \/ WriteOld \/ ResetOld
                \/ Save \/ WriteNew \/ ResetNew

----------------------------------------------------------------------------
(***************************************************************************)
(* Signals.                                                                *)
(***************************************************************************)
On(labels) == \E t \in Thread : \E i \in 1..Len(stack[t]) : stack[t][i] \in labels

Handling == On({"mark", "write mark", "reset mark"})

Dying == On({"exit", "write exit", "reset exit"})

(* The kernel picks a thread that does not block the signal.                *)
Catch(t, label) ==
    /\ t = "watch" => WatchThreads
    /\ stack' = [stack EXCEPT ![t] = Append(@, label)]
    /\ Begin(t)

(* Time passes, in the middle of logmsg too; a handler is done at once.     *)
Tick ==
    /\ clock < Boot + MaxTime /\ ~Handling /\ ~Dying /\ ~On({"exited"})
    /\ clock' = clock + 1
    /\ alarm' = (alarm \/ clock' = timer)
    /\ UNCHANGED <<now, timer, restart, masked, stack, cur, filed, out, taken, complete, lossy, lookups,
                   torn, raced, history>>

Alarm(t) ==
    /\ alarm /\ (t = "main" => ~masked) /\ ~On({"exited"})
    /\ alarm' = FALSE
    /\ now' = clock
    /\ Catch(t, "mark")
    /\ UNCHANGED <<clock, timer, restart, masked, cur, filed, out, taken, complete, lossy, lookups, torn,
                   history>>

(* The end of domark has the next signal sent TIMERINTVL from then.         *)
Rearm == timer' = clock + TimerIntvl

DueIfMany == f_prevcount > 1 /\ now >= Repeattime

Due == f_prevcount # 0 /\ now >= Repeattime

Domark(t) ==
    /\ At(t, "mark")
    /\ IF Due THEN Goto(t, "write mark") /\ UNCHANGED timer ELSE Return(t) /\ Rearm
    /\ UNCHANGED <<f_prevcount, f_repeatcount, masked, complete, mistaken>>
    /\ ResetFrame

WriteMark(t) == At(t, "write mark") /\ Write(t, LocalHost, Empty, "reset mark")

ResetMark(t) ==
    /\ At(t, "reset mark")
    /\ Reset
    /\ Backoff
    /\ Return(t)
    /\ Rearm
    /\ UNCHANGED <<masked, complete, mistaken>>
    /\ ResetFrame

Term(t) ==
    /\ Sigterm /\ ~Dying /\ ~On({"exited"})
    /\ Catch(t, "exit")
    /\ UNCHANGED <<clock, now, timer, signals, masked, cur, filed, out, taken, complete, lossy, lookups, torn,
                   history>>

(* exit: nothing that was interrupted runs again.                           *)
Exit == stack' = [main |-> <<"exited">>, watch |-> << >>]

NoFlush == FALSE

PendingAtExit == f_prevcount # 0

Die(t) ==
    /\ At(t, "exit")
    /\ IF PendingAtExit THEN Goto(t, "write exit") ELSE Exit
    /\ UNCHANGED <<f_prevcount, f_repeatcount, timer, masked, complete, mistaken>>
    /\ ResetFrame

WriteExit(t) == At(t, "write exit") /\ Write(t, LocalHost, Empty, "reset exit")

ResetExit(t) ==
    /\ At(t, "reset exit")
    /\ Reset
    /\ Exit
    /\ UNCHANGED <<f_repeatcount, timer, masked, complete, mistaken>>
    /\ ResetFrame

Hup ==
    /\ ~restart /\ ~On({"exited"})
    /\ restart' = TRUE
    /\ UNCHANGED <<clock, now, timer, alarm, masked, stack, cur, filed, out, taken, complete, lossy, lookups,
                   torn, raced, history>>

PendingAtInit == f_prevcount # 0

(* init: f's repetitions are written, then the table is read anew.          *)
StartInit ==
    /\ Idle /\ restart
    /\ Begin("main")
    /\ restart' = FALSE
    /\ Goto("main", IF PendingAtInit THEN "write init" ELSE "read")
    /\ UNCHANGED <<clock, now, timer, alarm, masked, cur, filed, out, taken, complete, lossy, lookups, torn,
                   history>>

WriteInit == At("main", "write init") /\ Write("main", LocalHost, Empty, "reset init")

ResetInit ==
    /\ At("main", "reset init")
    /\ Reset
    /\ Goto("main", "read")
    /\ UNCHANGED <<f_repeatcount, timer, masked, complete, mistaken>>
    /\ ResetFrame

Read ==
    /\ At("main", "read")
    /\ f_type' \in Kinds
    /\ f_prevline' = Empty /\ f_prevhost' = Empty
    /\ f_prevcount' = Counter(f_type') /\ f_repeatcount' = 0
    /\ f_time' = Loaded(f_type')
    /\ lossy' = (lossy \/ f_type' = "unkn") /\ lookups' = 0
    /\ torn' = (torn /\ ~lossy')
    /\ out' = IF lossy' THEN << >> ELSE out
    /\ left' = IF lossy' THEN {} ELSE left
    /\ complete' = IF lossy' THEN << >> ELSE complete
    /\ long' = FALSE
    /\ Goto("main", "idle")
    /\ UNCHANGED <<clock, now, timer, signals, masked, cur, taken, raced, mistaken>>

Reload == StartInit \/ WriteInit \/ ResetInit \/ Read

Handlers(t) == \/ Domark(t) \/ WriteMark(t) \/ ResetMark(t)
               \/ Die(t) \/ WriteExit(t) \/ ResetExit(t)

Signals == Tick \/ Hup \/ \E t \in Thread : Alarm(t) \/ Term(t) \/ Handlers(t)

Next == LogMsg \/ LogSteps \/ Reload \/ Signals

Spec == Init /\ [][Next]_vars

----------------------------------------------------------------------------
(* Where a thread can be: logmsg, init, domark and die.                     *)
Label == {"idle", "compare", "hold", "write dup", "reset dup", "flush", "reset old",
          "save", "write new", "reset new", "write init", "reset init", "read",
          "mark", "write mark", "reset mark", "exit", "write exit", "reset exit", "exited"}

Entry == [line : Line \cup {Empty}, host : Host \cup {Empty}]

TypeOK ==
    /\ clock \in Boot..(Boot + MaxTime) /\ now \in Boot..clock
    /\ timer \in (Boot + TimerIntvl)..(clock + TimerIntvl)
    /\ {alarm, restart, masked, lossy, long, mistaken, torn, raced} \subseteq BOOLEAN
    /\ stack \in [Thread -> Seq(Label)]
    /\ Len(stack["main"]) \in 1..3 /\ Len(stack["watch"]) \in 0..2
    /\ cur \in Entry
    /\ f_type \in {"file", "forw", "susp", "unkn", "unused"}
    /\ f_prevline \in Line \cup {Empty} /\ f_prevhost \in Host \cup {Empty}
    /\ f_prevcount \in -1..(MaxLines + Retries)
    /\ f_prevcount < 0 => f_type = "unused" /\ On({"reset dup", "reset old", "reset new", "reset mark",
                                                   "reset exit", "reset init"})
    /\ lookups \in 0..(MaxLines + Retries)
    /\ f_repeatcount \in 0..(Len(Interval) - 1)
    /\ f_time \in 0..clock
    /\ \A i \in 1..Len(out) : out[i].n \in 1..MaxLines
    /\ left \subseteq 1..Len(out)
    /\ complete \in Seq(Entry) /\ Len(complete) <= taken /\ taken \in 0..MaxLines

(* What a reader of the log takes it to say: "repeated n times" is n more   *)
(* of the line before it.                                                   *)
Expand(acc, e) ==
    IF e.n = 1 THEN Append(acc, [line |-> e.line, host |-> e.host])
    ELSE IF acc = << >> THEN acc
    ELSE acc \o [i \in 1..e.n |-> Last(acc)]

Logged == FoldLeft(Expand, << >>, out)

Held == [i \in 1..f_prevcount |-> [line |-> f_prevline, host |-> f_prevhost]]

Quiet == Idle /\ stack["watch"] = << >>

Exited == stack["main"] = <<"exited">>

(* Between two calls, the log together with what is held back says exactly  *)
(* which lines came, from which host and in which order; only a refused     *)
(* write, a signal in the middle of a write, two alarms in the middle of a  *)
(* line, a handler on another thread than logmsg's, or an empty line after  *)
(* a long one can change that.                                              *)
Exact == (Quiet /\ ~lossy /\ ~torn /\ ~raced /\ ~mistaken) => Logged \o Held = complete

(* How many of the lines of c, from the first, are found in s in their order. *)
Found(c, s) ==
    LET Match(i, x) == IF i < Len(c) /\ x = c[i + 1] THEN i + 1 ELSE i
    IN FoldLeft(Match, 0, s)

(* A line that logmsg has returned from is in the log, or held back, in its *)
(* place: "Log a message to the appropriate log files".                     *)
EveryLineLogged == ~lossy => Found(complete, Logged \o Held) = Len(complete)

(* So it is whatever signal comes when, even in the middle of a write, as   *)
(* long as the handlers and logmsg are not at work on f at the same time    *)
(* and no empty line was taken for the repetition of a long one.            *)
NothingLost == (~raced /\ ~mistaken) => EveryLineLogged

(* When the server has exited on a signal nothing is held back any more,    *)
(* except for a host that was never known, and the one line logmsg was at   *)
(* is in the log entirely or not at all.                                    *)
ExitFlushed == (Exited /\ ~raced) =>
    /\ f_prevcount = 0 \/ f_type = "unkn"
    /\ (~lossy /\ ~torn /\ ~mistaken) => Logged \in {complete, Append(complete, cur)}

(* With NoHops a destination on another host is not sent what another host  *)
(* logged, nor what a line from another host has written, the repetitions   *)
(* of a local line; but of every local line it is sent the first.           *)
LeftOut == ~mistaken =>
    \A i \in left : /\ NoHops
                   /\ \/ out[i].host # LocalHost
                      \/ i > 1 /\ out[i].line = out[i - 1].line /\ out[i].host = out[i - 1].host

(* A repetition is held back until the first alarm after its interval, less *)
(* than TIMERINTVL past it if the alarm is handled when it comes: domark,   *)
(* or the next line, writes it.                                             *)
HeldBriefly ==
    (Quiet /\ ~alarm) => f_prevcount = 0 \/ f_type = "unkn" \/ clock < Repeattime + TimerIntvl

(* "If that fails retry x times and then give up": the lines that come, the *)
(* ticks and the signals take no retry away from a host that is not known,  *)
(* although its retries are counted where repetitions are.                  *)
PatientWithHost ==
    [][f_type = "unkn" /\ f_type' = "unused" => lookups >= Retries]_vars

(* "Don't send any message to a remote host if it already comes from one".  *)
NoRemoteForwarded == (NoHops /\ Kinds = {"forw"}) =>
    \A i \in 1..Len(out) : i \in left \/ out[i].host = LocalHost
============================================================================
