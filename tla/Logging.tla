------------------------------ MODULE Logging ------------------------------
(***************************************************************************)
(* muduo::Logger (src/muduo/base/Logging.cc): a statement builds a Logger, *)
(* which formats the time; its destructor hands the line to g_output and,  *)
(* after a FATAL one, flushes and aborts.  Threads log at the same time,   *)
(* each keeping the text of its last second.  The wall clock may be set    *)
(* back, and the level set at any time.                                    *)
(***************************************************************************)
EXTENDS Naturals, Sequences

CONSTANTS LogThread,
          MaxSecond, MaxLogs     \* bounds: the clock, lines

VARIABLES g_logLevel,
          second,          \* the clock
          t_lastSecond,    \* per thread
          t_time,          \* per thread: the second whose text it holds
          impl_,           \* per thread: its Logger, and how far it is with it
          stdout,          \* lines handed to g_output
          nflushed,        \* of these, how many were flushed
          aborted

loggingVars == <<g_logLevel, second, t_lastSecond, t_time, impl_, stdout, nflushed, aborted>>

DEBUG == 1
INFO == 2
ERROR == 4
FATAL == 5
Level == {DEBUG, INFO, ERROR, FATAL}

NoLogger == [at |-> "none", level |-> 0, time_ |-> 0, text |-> 0]

\* initLogLevel() reads the environment.
LoggingInit ==
    /\ g_logLevel \in {DEBUG, INFO}
    /\ second = 1 /\ stdout = <<>> /\ nflushed = 0 /\ aborted = FALSE
    /\ t_lastSecond = [t \in LogThread |-> 0]
    /\ t_time = [t \in LogThread |-> 0]
    /\ impl_ = [t \in LogThread |-> NoLogger]

\* The macros: up to INFO, a line that is below the level is not built.
Enabled(level) == level <= INFO => g_logLevel <= level

\* Fault: only a later second is a new one.
IsLater(t) == second > t_lastSecond[t]

IsNewSecond(t) == second # t_lastSecond[t]

\* Logger(), Impl() and formatTime().
Construct(t, level) ==
    /\ ~aborted /\ impl_[t] = NoLogger /\ Len(stdout) < MaxLogs
    /\ Enabled(level)
    /\ t_lastSecond' = [t_lastSecond EXCEPT ![t] = IF IsNewSecond(t) THEN second ELSE @]
    /\ t_time' = [t_time EXCEPT ![t] = IF IsNewSecond(t) THEN second ELSE @]
    /\ impl_' = [impl_ EXCEPT ![t] = [at |-> "built", level |-> level, time_ |-> second,
                                      text |-> t_time'[t]]]
    /\ UNCHANGED <<g_logLevel, second, stdout, nflushed, aborted>>

\* ~Logger(): g_output, and for a FATAL line g_flush and abort().
Output(t) ==
    /\ ~aborted /\ impl_[t].at = "built"
    /\ stdout' = Append(stdout, impl_[t])
    /\ impl_' = [impl_ EXCEPT ![t] =
                    IF @.level = FATAL THEN [@ EXCEPT !.at = "flush"] ELSE NoLogger]
    /\ UNCHANGED <<g_logLevel, second, t_lastSecond, t_time, nflushed, aborted>>

\* Fault: g_flush is not called.
FlushesNone == nflushed

Flushes == Len(stdout)

Flush(t) ==
    /\ ~aborted /\ impl_[t].at = "flush"
    /\ nflushed' = Flushes
    /\ impl_' = [impl_ EXCEPT ![t].at = "abort"]
    /\ UNCHANGED <<g_logLevel, second, t_lastSecond, t_time, stdout, aborted>>

Abort(t) ==
    /\ ~aborted /\ impl_[t].at = "abort"
    /\ aborted' = TRUE
    /\ UNCHANGED <<g_logLevel, second, t_lastSecond, t_time, impl_, stdout, nflushed>>

setLogLevel ==
    /\ ~aborted
    /\ g_logLevel' \in Level \ {g_logLevel}
    /\ UNCHANGED <<second, t_lastSecond, t_time, impl_, stdout, nflushed, aborted>>

SecondPasses ==
    /\ ~aborted
    /\ second' \in (1 .. MaxSecond) \ {second}
    /\ UNCHANGED <<g_logLevel, t_lastSecond, t_time, impl_, stdout, nflushed, aborted>>

LoggingNext ==
    \/ \E t \in LogThread : \/ \E level \in Level : Construct(t, level)
                            \/ Output(t) \/ Flush(t) \/ Abort(t)
    \/ setLogLevel \/ SecondPasses

LoggingSpec == LoggingInit /\ [][LoggingNext]_loggingVars

-----------------------------------------------------------------------------
(***************************************************************************)
(* The kept text of a second is never shown for another one, whichever     *)
(* thread logs and however the clock moves (Logging.cc:138).               *)
(***************************************************************************)
TimeShown == \A i \in DOMAIN stdout : stdout[i].text = stdout[i].time_

(***************************************************************************)
(* When the process aborts, a FATAL line and all that was output before it *)
(* have been flushed, though other threads go on logging until then        *)
(* (Logging.cc:202-206).                                                   *)
(***************************************************************************)
FatalIsFlushed == aborted => \E i \in 1 .. nflushed : stdout[i].level = FATAL

(***************************************************************************)
(* Lines show their second, and a FATAL one is not lost.                   *)
(***************************************************************************)
LoggingInv ==
    /\ TimeShown
    /\ FatalIsFlushed
=============================================================================
