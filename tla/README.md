# TLA+ models of logserver

This directory holds a verification development for logserver: a sysklogd with
two extra threads that serve log lines, filtered, to `logwatch` clients over
TCP. The models are written from the C sources under `src/`; `PROJECT.json`
maps every definition that stands for code to its lines.

## 1. The system

| part | source | state it keeps | operations |
|---|---|---|---|
| main loop and sources | `syslogd.c` main, create_*_socket | sockets, `restart`, `parts[fd]` | select, recv, `init` after SIGHUP |
| line producer | `printchopped`, `printline` | the copy of the line (`logObj_t`) | cut a datagram into lines, copy, `qfifoPut`, `logmsg` |
| queue | `qfifo.c` | pipe, `count` | put, get |
| dispatch thread | `watchDispatchServer`, `deliver`, `filterDeliver` | `logObj`, the parsed fields | get a line, parse, walk the watchers, send, free |
| connection thread | `watchConnServer`, `connectionHandler`, `dataHandler` | `eventConn_t` per client, epoll set | accept, read a request, answer, add or remove a watcher |
| watcher list | `g_watcherList`, `dllist.c` | doubly linked list of `watcher_t` | `dllAdd`, `dllRemove`, a walk |
| framing | `recvPacket`, `recvData` | `remaining`, `remainingLen`, `requireLen`, `remainIsHead` | cut the byte stream into packets |
| destinations | `logmsg`, `fprintlog`, `domark`, `die`, `init` | `Files[]`: type, previous line and host, repetition counter, back-off, time | write a line, hold repetitions back, flush them |
| configuration | `init`, `cfline`, `decode`, `allocate_log` | `Files[]`, selector masks | read the table anew |
| pid file, start-up | `pidfile.c`, main 956-1107 | the pid file, the waiting parent | check, write, remove; fork and release the parent |
| filters | `filter.c`, `sttype-test.c`, `syntax-tree.c`, `grammar.y`, `scanner.l` | a tree of tests | `compile`, `doFilter`, `cleanFilter` |
| fields of a line | `proto.c`, `proto.conf` | names and types of fields, the table of one line | `protoExplore`, `parseString` |
| clients | `logwatch.c`, `log.c` | facility and tag (`log.c`) | request and print; send datagrams |

How they interact. The main thread receives lines and, for each one, copies it,
writes the pointer to the pipe and then logs it to the files. The dispatch
thread takes pointers from the pipe and sends the line to the watchers whose
filter accepts it. The connection thread adds and removes watchers. The two
watch threads share the list, the connections and the process's descriptors
with no lock. SIGALRM (`domark`), SIGTERM (`die`) and SIGHUP interrupt the main
thread, or run on a watch thread, since `logmsg` blocks signals for its own
thread only.

What is hard here, and what must be right in spite of it:

- two threads and a pipe: each copy of a line has one owner, crosses once and
  in order, and is freed (module LogPipeline);
- edge-triggered, non-blocking sockets: nothing that has arrived may be left
  behind with no event to announce it (Framing, WatchRegistry);
- a stream cut anywhere: requests are put together whole and in order, inside
  the buffer (Framing);
- two threads on one list, freed memory, and descriptor numbers that are used
  again (WatchRegistry);
- lines held back: the log must still say what came, in order, whatever signal
  arrives when, and a counter that means repetitions or retries (RepeatLog);
- filter strings of any shape, each of whose nodes must be released once on
  every path, and a table of fields that outlives the line (FilterGrammar,
  LineFilter);
- servers that start, stop and are killed at any moment, and leave names behind
  for which other servers and reused pids answer (Startup);
- steps that fail in the middle: `accept`, `malloc`, `send`, a full disk.

`PROJECT.json` lists the hazards one by one with the properties that watch them.

## 2. The modules

| module | models | abstract counterpart |
|---|---|---|
| `FifoChannel` | what `qfifo.h` promises of a queue between two threads | - |
| `LogPipeline` | `printline`, `qfifoPut`, `qfifoGet`, `watchDispatchServer` | `FifoChannel` |
| `WatchService` | what a watcher is promised | - |
| `WatchRegistry` | the two watch threads, the list, the connections, the descriptors | `WatchService` |
| `Framing` | `dataHandler`, `recvPacket`, `recvData` for one connection | - |
| `RepeatLog` | `logmsg`, `fprintlog`, `domark`, `die`, `init` for one destination | - |
| `SyntaxTree` | the nodes of a filter and their memory: `syntax-tree.c`, `sttype-test.c` | - |
| `FilterGrammar` | `compile1`, the parser in `grammar.c` with its tables, what the scanner may give it | `FilterMeaning` |
| `LineFilter` | `protoExplore`, `parseString`, `doFilter`, `cleanFilter` for one filter and the lines that come | `FilterMeaning` |
| `FilterMeaning` | what `grammar.y` says a filter string means, without a parser | - |
| `Startup` | `pidfile.c`, the start in `main`, `die`, for several starts | - |
| `LogPipelineProofs`, `FramingProofs`, `RepeatLogProofs`, `StartupProofs`, `WatchRegistryProofs`, `LineFilterProofs` | theorems about these modules | |
| `WatchJoinProofs` | more about WatchRegistry: threads that overlap | |
| `FilterMeaningProofs` | more about LineFilter: the parser and `doFilter` against `FilterMeaning` | |
| `MC*` | the instances that TLC checks | |

**LogPipeline.** `mpc` and `dpc` are the places of the main and the dispatch
thread; `heap` says which line the copy at an address holds (0: the address is
free), `pipe` holds the four low bytes of addresses, `cur` and `obj` are the
`logObj` variables of `printline` and `watchDispatchServer`, which keep stale
addresses as the C variables do. `count += len` is a load and a store. A use of
an address that is not allocated sets `crashed`. `StartWatchServer` may fail,
and then nobody reads the pipe, as in main. Lines that `parseString` refuses
are taken and freed like all others; whether a line is sent on to clients is
WatchRegistry's business. `qfifoPut` and `qfifoGet` return -1 when `write` or `read`
fails or is short, and neither caller looks at it. They have no action: four bytes are
within `PIPE_BUF`, so they go over whole or not at all, both ends stay open and
blocking, and glibc's `signal`, which installs all handlers here, restarts a call that
a handler interrupts.

**WatchRegistry.** One action per statement that touches memory the threads
share. `Rm*` is `removeClient` with `dllRemove` inlined, `Add*` and `Insert*`
are `addWatchList` with `dllAdd` and `dllInsert`; `GetLine`, `ReadNext`,
`ReadFd`, `DoFilter` and `Send` are `deliver` and `filterDeliver`. `node` and
`ec` are the `watcher_t` and `eventConn_t` objects, each "none", "live" or
"freed", and every action that follows a pointer first asks whether its target
is live: if not, it sets `crashed` and the behaviour ends. `sock` says whose
connection a descriptor number is; `Accept` takes the lowest free number.
`event` and `knock` are the events that epoll holds (edge-triggered: at most
one per connection, taken by `WaitEvents`). Whether a filter accepts a line is
the constant `Matches`, and a connection gets at most `MaxGood` watchers, which is a
bound (`FreeNodes`). A request is one of "good", "badlen", "badtype" and
"badfilter"; what bytes it is made of is the business of Framing.

**Framing.** A byte is named by its position in the stream, so `remaining` says
exactly which bytes the connection's buffer holds. `pc` tells which of the four
`recvData` calls of `recvPacket` is under way: "resume" for the one on line
134, "head" for line 173, "body" for lines 150 and 186. A head may announce any length:
nothing compares it with the buffer. When recv returns more than the buffer has room
for, `pc` is "overrun" and the behaviour ends.

**RepeatLog.** `stack` holds, for the main thread and a watch thread, the
activations of `logmsg`, `domark`, `die` and `init`; the last entry of a thread
runs. A statement is a step, and `fprintlog` is two: the write and the reset of
`f_prevcount` that ends it. `clock` is what `time()` returns, and `timer` when the
alarm is due that `alarm()` asked for last: `domark` sets it at its end, `TIMERINTVL`
from then. Lines come and writes are made at any time between two alarms, so `f_time`
seldom falls on one. `masked` is the signal mask that `logmsg` sets for
the main thread; a `logerror` inside it calls `logmsg` again, whose end
unblocks the signals early, and this is modelled. `out` is what the destination was
given to write, and `left` says which of it the test at line 1901 did not send,
because hops are forbidden (`NoHops`, the default) and the line that caused the write
came from another host.
`complete` is the history of the lines whose `logmsg` has returned. History
flags say what the code makes no promise about: a write that was refused
(`lossy`), a handler that writes while what it interrupted is itself between
its decision and its reset, or twice between the count and the decision
(`torn`), and two threads at work on the destination
at once (`raced`). A fourth, `mistaken`, is about an empty line that follows a line of
`MAXSVLINE` bytes or more from the same host: a long line is saved as the empty one
(1770), so the empty line counts as its repetition. The server's own lines ("restart", "exiting", "-- MARK --",
error reports) are taken to have a selector of their own. A destination may be a
host whose name is not known ("unkn", F_FORW_UNKN). Then `f_prevcount` is the
number of retries left, `logmsg` still counts repetitions in it, each call of
`fprintlog` after `INET_SUSPEND_TIME` looks the name up, and the reset at its end
is left out. What such a host does not get counts as `lossy`, and so does the
first text it gets, which `fprintlog` put together before the lookup: with ten
retries left it is "last message repeated 10 times".

**SyntaxTree, FilterGrammar.** A heap of nodes says which are allocated and
whether one was used when it was not. `grammar.c` is generated, and it is what
runs: `yy_action` and the other tables are the numbers in that file, `yystack`
is its stack, and an action is one turn of the loop of `Tfilter` (a shift, a
reduction with the code of its rule, an error). The token codes, the rules'
actions and who frees what come from the same file. The scanner is reduced to
what it may give: any token of an alphabet, an integer out of range, a string
with no end. Characters are not modelled.

**LineFilter.** One compiled filter and the lines that `watchDispatchServer` lets
it judge. `parseTable` is `parsedMap`, which lives as long as the thread.
`parseString` reads an entry past the end of an array that is not terminated;
`Seen` and `protoEnd` are what it may find there. Words for which `proto.conf` has no
name are not looked at. A verdict is "yes", "no",
"ignored" (the line has no fields in brackets) or "crash" (a number where a
field is wanted: its name is the null pointer).

**FilterMeaning.** The reference: a string is divided at its last TEST_AND
outside brackets, or else at its last TEST_OR, or else it is a chain of
comparisons. There is no stack and no table in it.

**Startup.** `parent` and `server` are the places of the two processes of each
start; a system call is a step. The pid file and the socket are names: `file`
and `socket` say what is behind them, and `content` which pid a file holds. A
pid is given out again when its process is gone, which is how a SIGTERM for a
parent may hit somebody else. The first state may have a file that an earlier
server left, with any pid in it or none. An empty file leaves `pid` in
`read_pid` uninitialised, which is a choice. SIGTERM may come at any moment:
before `signal(SIGTERM, die)` it kills. A full disk may keep the pid from the file
(the result of `fflush` is not looked at), giving the lock back may fail, which ends
the start, and `chmod` may fail after `bind`, which leaves a name behind with nobody to
read from it. `contested` and `late` are histories
that say what the code cannot promise: two starts between check and write at
once, or a pid that could not be written, and a parent that no longer waits for its child.

## 3. The runs

| run | instance | what it shows |
|---|---|---|
| `pipeline` | 3 addresses, a pipe of 2, 5 lines, threads that may fail to start | types, one owner per copy, watchers at most one line ahead of the files, refinement of `FifoChannel`, every line handed over and freed |
| `watch_apart` | 3 clients, one that asks badly or leaves, one that stalls, failing calls, threads overlapping until they clash | no freed memory used, list equal to the open connections in both directions, no descriptor leaked or doubled |
| `watch_leave` | 2 clients that may do anything, 2 lines, one handler at a time | what clients see refines `WatchService`; a client that left is released |
| `watch_join` | 2 clients that stay, 3 lines, threads overlapping | a walk misses nobody who was there, the backlog is drained, refinement of `WatchService`, every client answered |
| `watch_reuse` (violation) | 1 descriptor, 2 clients, overlap | a line reaches a client that did not ask for it |
| `framing` | 3 packets, heads of 2 bytes and a buffer of 4: two requests of 3 bytes, then one that announces 5 | only the last overruns the buffer, packets whole and in order, nothing left unread, each packet handled |
| `repeat` | 2 hosts, 3 lines, empty or long, 60 seconds by tens, every kind of failure, a file, another host or one not known at first, hops forbidden, handlers on both threads | the log says what came, nothing lost, flushed at exit, only repetitions left out for `NoHops`, held to the first alarm after the interval, no retry taken away |
| `repeat_threads` (violation) | a file, handlers on a watch thread | a line that `logmsg` took is lost |
| `repeat_hops` (violation) | a remote host, hops forbidden | a remote line is forwarded |
| `filter` | all strings of up to 5 of 6 tokens and ten longer ones, a stack of 7, two lines of five shapes | the grammar's strings and no others are accepted, with its trees; every node has one owner and is released; every rejection has a message; a line with all its fields is judged on those alone; verdicts are those of the meaning; compilation ends |
| `filter_stale` (violation) | the longer strings | a line is delivered for a field of the line before it |
| `startup` | 2 starts, 3 pids, a file from before, one kill -9, SIGTERM any time | one server, its file and socket its own, parents wait for it, every start comes to an end |

Why the bounds are enough. *pipeline*: memory runs out, the pipe fills, and an
address that was freed is handed out again while others are queued; five lines
go once round all three addresses. *watch_apart*: with three watchers a node
is removed at the head, in the middle and at the tail, while a walk is
under way elsewhere on the list, and an accept fails before and after others. Its
constraint `Apart` ends a behaviour where the threads clash (below); the state in which
they do is still checked. *watch_join*: the second insertion happens at every
point of a walk over the first. *framing*: a head and a body are cut into one,
two and three pieces, packets run together, and a packet follows one that ended
in the same event; two requests in a row use the buffer again, and the third fills it
and goes past it, in one piece or in several. *repeat*: the unit of time is 10 seconds,
so that `TIMERINTVL` and the first interval are 3 units, the second is 6, and a write
falls on an alarm or on one of two moments between two. The
back-off reaches its last interval, a summary of one and of two lines is
written, and the clock passes the interval while a line is held back; a host is looked
up, found, given up, and
suspended once it is found and a `sendto` fails (`Retries` is 1 there: two lookups
in vain give it up). Its constraint `Prompt` lets no time pass while an alarm waits to be
handled, and ends a behaviour at its first race; the proofs need neither. Other
texts and more lines are left to them as well. *filter*: six tokens give every
conflict of precedence, every kind of error and nesting of brackets at five
tokens; the longer strings bring the other operators, types and values, chains,
errors of the scanner in the middle, and a stack that overflows. The stack is 7
deep instead of lemon's 100, so that it overflows at all. Two lines are enough
for one to leave something to the next. *startup*: two starts meet at every
pair of steps, an old file makes a third party, and with three pids one is used
again. With three starts no run ends in reasonable time.

Deadlock is not checked: behaviours end after the last line or request, and in
`pipeline` the main thread really stops when nobody reads a full pipe.

### What the passing runs do not say

The two watch threads share the list, the connections and the descriptors with no
lock. With `Overlap = TRUE` and clients that leave, TLC finds that memory is used after it
was freed. `Clash` says when: the walk of `deliver` stands on a watcher, or holds as its
successor one, that the connection thread is taking off the list; or it steps on one
that `dllInsert` has made reachable and not finished; or `deliver` could not send, and
takes a connection down that the connection thread is at work on or has an event of,
or while that thread changes the list. Nothing in the code rules these moments out.
`watch_apart` shows that they are the only ones that matter for memory, the list and
the descriptors: everything else the two threads do at the same time is harmless.
`AskedOnce`, the other half of `Apart`, excludes a client that sends a second good
request: it leaves its first watcher on the list with a connection that is freed
later (`MaxGood = 2` shows it). `logwatch` sends one; the server does not insist.
`watch_leave` has the handlers of the two threads take turns (`Overlap = FALSE`), because
its `Released` needs behaviours that do not end, and shows that each handler is right
by itself on every state that handlers leave behind; that what clients see refines
`WatchService` is proved for overlapping threads, up to a clash. `watch_join` shows what
survives overlap with no condition, and `watch_reuse` what does not.
And `BacklogDrained` of `watch_join` holds while no
call fails: with `Failures = TRUE`, when `fcntl` or `malloc` fails for one
connection, `connectionHandler` leaves its loop (`watchserver.c:264`, `:270`) and
the others stay in the backlog until a new one comes, against the comment at
`watchserver.c:248`.

The unlocked `count` of `qfifo.c`, which `qfifo.h:19` calls the number of elements
in the queue, is wrong as soon as two updates meet; nothing reads it.

`GoodTree`, `RejectsOnlyErrors` and the accounting in `NodesOwned` are about
strings that do not overflow the parser's stack. When it overflows the parser
reports nothing, begins again with the next token and takes the rest of the
string for a filter, and nodes are lost. `NothingStale` and `JudgedByItself` are
about lines with all their fields; `filter_stale` shows what happens to others.

`OneServer` and `Reachable` hold up to the moment when two starts are between
`check_pid` and `write_pid` at once, or a full disk keeps a pid from the file: the lock
is given back right after the write,
so both then run, and the second takes the first one's file and socket. Two
starts that should succeed are refused: one that finds an empty file, where
`read_pid` returns whatever `pid` held (its comment, `pidfile.c:39-40`, says 0),
and one whose parent has got the pid in an old file. A `fork` that fails lets the
parent sleep for 300 seconds for nothing. A parent exits with 0 even if its child
gave up.

`Exact`, `NothingLost` and `ExitFlushed` of RepeatLog make an exception for
`raced`; `repeat_threads` shows that without it a line is lost, by SIGALRM
alone. `Exact` makes one for `torn` too, which has two cases. When `die` or `domark`
comes between a write and its reset, the same summary is written a second time.
When two alarms come while `logmsg` has counted a repetition and not yet
looked at the time, the first sets `now`, the second writes the summary, and
`logmsg` writes one more (`syslogd.c:1752`). The second case turned up when the
proof of `Exact` failed; the run has no time for it. These three and `LeftOut` set
`mistaken` apart. They are about what the destination was given to write: with `NoHops`
another host is not sent what came from a third one, and that includes a repetition
of a local line whose write a remote line, or its repetition, triggers (1753, 1759). `LeftOut`
says that of local lines it is sent at least the first. The opposite, a remote line
that is sent because `domark`, `die` or `init` writes it, is `repeat_hops`.

`HeldBriefly` allows the interval and less than one `TIMERINTVL` more. A line that was
written at 31 seconds and repeated is due at 61, the alarm at 60 does nothing, and the
summary comes at 90. It is about moments with no alarm pending: while SIGALRM is
blocked, or a handler runs, the delay is whatever that takes.

`BufferFits` does not say that the buffer holds. A head that announces more than the
buffer makes `recvPacket` write past it, since nothing compares the two
(`metatype.h:11` only asks it of clients); the property says that nothing else does.

### Fairness

*pipeline*: weak fairness of what the main thread does with a line in hand and
of the dispatch thread: the scheduler starves no runnable thread, a blocked
`read` or `write` is a disabled action. Lines need not arrive, and SIGTERM,
which ends the process, does not come. *watch_leave, watch_join*: weak fairness
of each thread for the same reason; neither ever blocks but in `epoll_wait` and
in the queue. Clients and lines are free to come or not. *framing*: weak
fairness of the event loop; bytes need not arrive. *filter*: weak fairness of
the compilation, which is a loop of one thread; lines need not come. *startup*:
weak fairness of each process, no step of which waits for another process, and
of the parent's `sleep`, which ends. Starts, SIGTERM and kill -9 need not come.
The other runs check safety only and assume none.

## 4. The theorems

Proved with TLAPS for every value of the constants.

**LogPipelineProofs.** From `AddrAssumption` (addresses differ in their low four
bytes and their high half is zero: only four bytes cross the pipe, so the build
needs a heap below 4 GB) and `BoundAssumption`:

- `TypeCorrect`: `Spec => []TypeOK`;
- `Ownership`: `Spec => []OneOwner`;
- `ImplementsChannel`: `Spec => Channel!Spec`, the refinement;
- `WatcherAheadByOne`: `Spec => []AtMostOneAhead`.

The inductive invariant has four parts. `SentIncreases`: lines are put in the
order they are received, each once. `PipeHoldsRest`: `handled` is the beginning
of `sent`, and the pipe holds, in order, addresses whose copies carry the rest of
it, after the one in the dispatch thread's hand. `HandsLive`: what either thread
is about to use is allocated and carries the line it should. `NoneElseLive`:
nothing else is. `OneOwner` alone is not inductive: it does not say which line
the copy behind an address in the pipe carries, and it is because those lines
are all different that the addresses are. The refinement needs the same
fact, since `handled` is appended from the heap and not from the pipe.
`AtMostOneAhead` adds `LoggedInvariance`: `logged` holds every line put before
the one in hand.

**FramingProofs.** From `FramingAssumption`, with heads that announce any length:

- `TypeCorrect`, `PacketsWhole` (`Whole`), `NoOverrun` (`BufferFits`) and
  `NoneLeftBehind` (`NothingLeft`).

The inductive invariant ties the variables of the connection together.
`Position`: the stream has been read up to `Filled` bytes into the head or body
at hand, and `remaining` holds exactly these bytes. `Lengths`: at each place of
`recvPacket`, and while waiting for the rest of an item, what is there and what
is still required add up to the length of the item, and `remainIsHead` tells
which item it is. So an item that does not fit can only be a body, and of a packet whose
head says so (`Oversized`). `Announced`: whatever has arrived and is not read has an event
to come. None of the three properties is inductive without the first two.

**RepeatLogProofs.** From `RepeatAssumption`, for any lines, hosts, intervals,
bounds and kinds of failure, with handlers on both threads:

- `NeverGivenUpEarly`: `Spec => PatientWithHost`. The invariant is `RetriesLeft`:
  while the host is not known, the retries left and the lookups made in vain add
  up to `INET_RETRY_MAX` at least. The property alone is not inductive, because it
  says nothing of the counter. The sum may be larger: `logmsg` counts repetitions
  in the same variable.
- `TypeCorrect`: `Spec => []TypeOK`, and `NotHeldForLong`: `Spec => []HeldBriefly`.
- `LogIsExact` (`Exact`), `NothingLeftAtExit` (`ExitFlushed`) and `NoneIsLost`
  (`NothingLost`), hops allowed or not, and `OnlyRepeatsLeftOut` (`LeftOut`).

`Invariance` proves what the others share. `Shape` says what may stand on the
stacks: `logmsg` or `init` at the bottom of the main thread's, at most one
activation of `domark` and one of `die` above it or on the watch thread, nothing
after an exit. `Typed` has the ranges. For `NotHeldForLong` there are two more: `Timely` says that the next
alarm is at most a `TIMERINTVL` after `now`, the time that `domark` and `logmsg` last
looked at, and that it is pending, being handled, or still to come; `NotLate` that at
rest it comes at most a `TIMERINTVL` after the end of the interval, because `domark`, or
the line that was counted, saw that the interval was not over. `Counts` says what pays for
`f_prevcount`: every repetition is a line taken, and every retry spent a lookup;
without it the counter has no bound, and a negative one could not be told from
the end of a host's retries.

`Account` keeps the books for `Exact`. Between the calls the log with what is held
back is what came; at a step inside it is not. So `Balance` adds the line in hand
once it has been counted or written (`Extra`), and leaves out what is held back
once it has been written and the counter not yet reset (`Rest`); `Amount` says
when the counter must be positive or zero, `InWork` and `Known` that what is
saved as the previous line is the line in hand, or the last one logged. That a
text "repeated n times" stands for n entries is a fold over `out`: it is
unrolled from the well-foundedness of the naturals, since the provers cannot use
an induction theorem with an operator parameter.

`NothingLost` is stronger in one way: it holds with `torn`. A summary may be
written twice then, so that nothing balances any more, and `NoLineLost` says
instead that all lines that came, with the one in hand, are found in what is
logged with what is held back, in their order (`Covered`). It rests on two facts
about the search of `Found` that are proved by the same induction: `AllInLonger`
(adding entries to the log loses none) and `AllAndOne` (a line and its entry may
be added together).

`LeftOut` rests on `Remembered`: while a repetition is held back, the last entry of `out`
has the line and the host it repeats. So a summary that a remote line has left out is a
repetition of the entry before it, and the line itself was written with its own host.

**WatchRegistryProofs.** From `RegistryAssumption`, for any number of clients and
descriptors, any clients that leave, stall or send bad requests, any filters and any
failing calls, the two threads taking turns or not:

- `TypeCorrect`: `Spec => []TypeOK`, with no other condition;
- `NeverCrashes` (`MemorySafe`), `NoDescriptorLeaks` (`NoLeak`), `ListStaysSound`
  (`ListSound`): `Spec /\ []Apart => []P`;
- `ImplementsService`: `Spec /\ []Apart => ServiceSpec`, the refinement of
  `WatchService`.

`Apart` is a condition because the statements are false without it: after a clash memory
may be used that was freed (section 3). It is a condition on behaviours and not on
the scheduler, so it says exactly which interleavings are at fault. A behaviour may stop after any step, so that what is
proved under `[]Apart` holds of every behaviour up to its first clash or second good
request.

No freed memory is used because every pointer that is followed leads to a live
object, and that is an invariant of the list, which is broken in the middle of
every operation, while the other thread may be at work. So the invariant describes
the list by ranks: there is a function
from watchers to integers in whose order the next and prev pointers run (`Linked`). What an
operation has half done is undone first: `Nx`, `First` and `LastOne` are what the
pointers were before `dllInsert` or `dllRemove` began, so that only the last step of
either changes the list. An insertion takes a
rank above all others and a removal leaves the ranks alone, so no step needs a
count of the nodes. The walk needs the ranks too: a line has been sent only to
watchers behind it (`Ahead`). `Inserting` and `Removing` say for each place of
`addWatchList` and `removeClient` what of it is done; `Visiting` that what the walk holds
is on the list. `Connections` says that a descriptor is open as long as its
connection is live and no removal has closed it, that events and waiting clients
are about connections in the right state;
`Requests` that a watcher's one good request was sent and read; `Watchers` that
watchers and connections point at each other; `Screens` what a client has seen so
far, which the refinement needs. `Moved`
says that `deliver`, when it removes a client, holds another watcher as the next.

For `ListStaysSound`: `ListSound` follows the pointers as a sequence, so the
ranks are turned into places (`Place` is how many watchers come before), and an
induction over places shows that the i-th step of the walk stands on the i-th
watcher.

**WatchJoinProofs.** What survives overlap, in every interleaving of the two
threads:

- `NobodyWaitsUnannounced` (`Spec => []BacklogDrained`), from `Enough`: no call
  fails and there is a descriptor for every client. Clients may leave at any time,
  even in the middle of a walk.
- `InsertionsMissNobody` (`Spec => []NoneMissed`) and `JoinersAreServed`
  (`Spec => ServiceSpec`), from `Joining`: one good request each, nobody leaves or
  stalls and no call fails. These are the conditions of the run `watch_join`, for
  any number of clients and lines.

`JInv` has the ranks again. What `dllAdd` has not yet written of the newest node
can be met by the walk, so `Chain` says what may be found there, and `Walk` that
every watcher to whom the line is owed, and has not been sent it, is still ahead.

**StartupProofs.** From `StartAssumption`, for any number of starts, pids and
crashes: `TypeCorrect`, `OnlyOneServer` (`Spec => []OneServer`),
`StaysReachable` (`Spec => []Reachable`) and `ParentWaits`
(`Spec => ParentAfterInit`). A server *holds* the file from the
moment its pid is written until it is gone. `OneServer` is not inductive: a second
server is kept out by what the file says, by what the checking process read, and
by the holder's pid being nobody else's. So the invariant says that no two live
processes share a pid (`OwnPid`), that a start without a server yet is the only
one that forks (`ForkedOnce`), and, unless two starts were between check and
write at once, that the file names its holder (`FileHolds`), that whoever
checks has read the holder's pid (`HolderSeen`), that nobody is past the check
while somebody holds the file (`NonePast`), and that the file that is locked and
written is still the one with the name (`FileOpen`). For the socket,
`FunixAfter` and `OwnSocket` say that only a holder unlinks or binds the name.
The step that needs most of it is `Probe`. `ParentWaits` needs two facts of its
own: parents that live have different pids (`ParentsApart`), and as long as no
parent stopped waiting too soon, the parent of a server that still starts is
there (`ParentStays`); so the pid that the server signals is not another's.

**LineFilterProofs.** `RejectionsExplained` (`Spec => []Explained`), for any
strings and any depth of the parser's stack. The parser is silent about an error
that comes within three shifts of another one; `Messages` says that while it counts
those (`yyerrcnt > 0`) a message has been set.

`EveryNodeOwned` (`Spec => []NodesOwned`), for any strings, any fields, any lines and
any depth of the stack, is about the parser's nodes. Its invariant is `Owned`:

- `NodesHeld`: of the heap and the set `Roots` of the nodes that the stack, the
  token at hand and the filter refer to, `Held` says that every root is live, that
  a live node's children are live and no roots, and that no two pointers meet;
  `NoneLost` that every live node is a root or a child. `NoneLost` is what an
  overflow of the stack breaks; `Held` survives it.
- `StackSound`: each state on the stack was entered from the one below it by the
  symbol that is stored with it (`Viable`), only the bottom and a comparison have
  no node, and no node stands on the stack twice. Without it a reduction could take
  an empty entry for an operand or the same node for both.
- `PlaceSound`: where the parser has nothing on its stack.

The argument has four parts. The tables: from each state on each token the parser
shifts to a state that may stand there, or reduces by the rule whose right-hand
side ends in that state (`Actions`, `Gotos`, `RuleTable`; a lookup in the generated
arrays for each state), so what a reduction finds on the stack is what its rule says
(`Handles`). The walks: `Subtree` and `Leftmost` are recursive functions over
nodes; a test refers to older nodes or to a leaf, so a function that satisfies
the recursion exists, and its values are the closure (`SubtreeClosed`,
`SubtreeLeast`). `PopAll` is a fold, taken entry by entry (`PopsAll`). The
operations: making, linking and freeing nodes hand `Held` and `NoneLost` from one
set of roots to the next (`AddNode`, `FreeRoot`, `ChainHolds`). The steps: one
lemma for each action says that the roots after it are those it was left with.
The assumption is `GrammarAssumption`: the codes of tokens are the scanner's (all but
`TOKEN_FIELD`, whose only `return` in `scanner.l` is commented out), and a token
carries a text or a number, not both.

`FiltersTyped` (`Spec => []TypeOK`) says that whatever is stored is what it should be:
nodes that were made, states of the parser, names of fields that `proto.conf` gives,
and a verdict. Its invariant `Typed` is `Owned` with three parts more. `InHeap` needs
that the heap only grows (`Grows`, which every step's lemma gives) and that `minor` and
`stRoot` change only to nodes that are roots then (`Moves`). `LineTyped` is about the
lines, and two functions have to exist for it. `doFilter` recurs over the tree; a
test's operands are older nodes, and the `Arity` of a test is that of its operator, so
the recursion has an answer for every tree, and the answer is a verdict (`Judgement`,
`FilterJudges`). `protoExplore` and `parseString` are folds, in the community modules
a chosen function on sets of indices: `FoldExists` and `ByGreatest` take it index by
index, whence `ProtosExplored` (the array and the map of `proto.c` have the same names)
and `FilledTable`.

`LinesFresh` (`Spec => []NothingStale`) is the other half of the finding of
`filter_stale`: a line that has all its fields is safe from the lines before it. By
induction on the number of values that were entered (`EnteredUpTo`), the table is
what it was, overwritten by the last value under each name; with all names there
nothing of the old table is left (`AllEntered`), and what lies behind the last value
of the line has no name (`SeenIs`, `OwnFields`). It needs `ProtoAssumption`: the file
and the values of a line are finite sequences, and `atoi` makes an integer of a value.

**FilterMeaningProofs.** What a filter string means, for any string, any fields, any
`proto.conf`, any lines and any depth at which the parser's stack does not overflow:

- `TreesGood` (`Spec => []GoodTree`): the tree that the generated parser builds is
  the one the grammar gives the string;
- `RejectionsDeserved` (`Spec => []RejectsOnlyErrors`): a string that is refused has
  a token that the scanner cannot read, or is no sentence;
- `LinesJudgedByThemselves` (`Spec => []JudgedByItself`): `doFilter` lets a line
  with all its fields through exactly if these satisfy the string.

None of them is inductive: each speaks of the end, when the string is read, and the
parser has decided long before. `Understood` is `Typed` and `NothingStale` with two
parts more.

`TextRead` is about the string. `Reads`: the symbols on the stack stand one behind
the other for all that was read (`Spans`). For each there is an i and a j such that
its node has the tree of `text[i..j]` and, on every table, its verdict (`Means`,
`Stands`). What else is said of it is precedence: an operand of TEST_OR has no
TEST_AND outside brackets, the right operand of a junction no such junction again
(`Binds`), and an entity with a comparison behind it is that comparison's (`Operand`). This is
what a reduction needs, because `FilterMeaning` divides a string at its last TEST_AND
outside brackets: a rule may be applied only when the place it joins at is that one.
`HasRead`: afterwards the filter's tree is that of the whole string. `Misread`: after
a syntax error the string is `Doomed`, which is to say that two tokens stand side by
side that never do, or that a bracket is closed that was not opened; or it was
`DoomedAtEnd`, with an operator or an open bracket last. `Failed` and `Ended` tell
apart the reasons for a rejection. `Judged` keeps that a verdict is what `doFilter`
says of the table that is there.

The argument has four parts. *The reference*: `Read` is a recursive function over the
parts of a string; it exists, since a part is read from shorter ones (`ReadUpTo`),
and so `Part` may be unfolded (`ReadIs`). *Strings*: how brackets are counted in a
string that is joined of two, where its last junction is, and that a string with a
tree is balanced, never has two tokens side by side that do not `Follow`, and
begins and ends as an expression does; so what is doomed is no sentence
(`NoSentences`), and it stays doomed whatever the scanner reads after it. *Trees*: `Shape` and `doFilter`
recur over nodes; what an operation on the heap leaves alone (`Alike`, `Keeps`)
keeps its tree and verdict. *Steps*: one lemma for each rule of the grammar says that
what it leaves on the stack means what it replaced, and one for the errors that the
tables refuse a token only where it dooms the string (`RefusedIn`). The chain rule
`a == b == c` needs the leftmost leaf of what was parsed; its `Stands` says that the
leaf is the entity at which the part begins.

That this can be proved at all rests on `FilterMeaning` and `Shape` being recursive
functions and not RECURSIVE operators, and on induction over the naturals done by
hand, as in RepeatLogProofs.

Only model-checked: all liveness (`LineServed`, `EachHandled`, `Released`,
`Answered`, `Compiles`, `Settles`), which is beyond the prover, and the four runs that
expect a violation. Every safety property of a passing run has a theorem. Some theorems have hypotheses that the modules' constants do not give: `Apart` and `Joining`
because a removal that meets a walk breaks the
list (every condition of `Joining` but `MaxGood = 1` excludes a cause of removals), and
`Enough` because a failed call leaves clients waiting. A string literal cannot be shown to be in `STRING`, so the
places of `RepeatLog` are a set of their own, `Label`.

## 5. What is not modelled, and the plan

- `semcheck.c`, which nothing calls; the sample program; `logwatch`'s printing;
  terminals and users as destinations; name lookups; the options.
- The characters of a datagram. `printline` replaces control characters and
  decodes the priority. `printchopped` looks as if it kept the end of a datagram
  for the next one (`parts[fd]`), but main ends whatever it received with two NUL
  bytes, so nothing is ever kept and all that is left is cutting at NULs.
- The selectors of the configuration (`cfline` up to the action, `decode`) and
  several destinations. `RepeatLog` has what `cfline` leaves in one destination.
- The characters of a filter string (`scanner.l`).
- Sends that take a part of a packet: a send is all or nothing.
- The memory of a compiled filter inside WatchRegistry, where it is a flag of the
  watcher; SyntaxTree follows the nodes, but for one filter.
- `log.c`, a client's process that sends datagrams and forgets them.
- `-d`, which skips the pid file but removes it at exit.

Left to do, in this order:

1. The selector masks, as an operator on sets of priorities against the rule
   that the last selector that speaks of a facility and priority decides.
2. Several destinations with nested `logerror`, and the reload while SIGALRM may
   run (`realloc` of `Files`).

## 6. How to check

`tlc -config MCLogPipeline.cfg MCLogPipeline`, and so on for each `.cfg`;
`tlapm LogPipelineProofs.tla`, and so on for each `Proofs` module. The runs take from a
second to about two minutes each, and so do the proofs but for those of
WatchRegistry and RepeatLog, which take up to seven, and of LineFilter, up to ten for
each of its two modules.
