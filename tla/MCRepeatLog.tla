---------------------------- MODULE MCRepeatLog ----------------------------
(* Small instances of RepeatLog: the unit of time is 10 seconds, so that   *)
(* TIMERINTVL is 3, the intervals of 30 and 60 seconds are 3 and 6, and    *)
(* writes fall between two alarms.                                         *)
EXTENDS RepeatLog

MCInterval == <<3, 6>>

(* A bound of the passing run: an alarm is handled before more time passes, *)
(* and no handler works on a watch thread while logmsg is at work.          *)
Prompt == (alarm => clock <= timer) /\ ~raced
============================================================================
