-------------------------- MODULE MCWatchRegistry --------------------------
(* Small instances of WatchRegistry: clients are model values; the filter  *)
(* of the first accepts odd lines, that of every other client all lines.   *)
EXTENDS WatchRegistry

CONSTANTS OddOnly,  \* the clients that ask for odd lines only
          Clumsy    \* the clients that may send a bad request

MCAsks(c) == IF c \in Clumsy THEN {"good", "badlen", "badfilter"} ELSE {"good"}

MCMatches(c, n) == c \in OddOnly => n % 2 = 1
============================================================================
