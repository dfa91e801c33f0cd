----------------------------- MODULE MCProgress -----------------------------
(***************************************************************************)
(* The parts of the libraries that also promise progress: a behaviour      *)
(* chooses one and runs it while the others stay as they were initialised. *)
(* No step that a part has to take is enabled in the initial state of a    *)
(* part that does not run (a pool has no threads, no timer is set), so the *)
(* fairness of one part asks nothing of the behaviours of another.         *)
(***************************************************************************)
EXTENDS TimerQueue, Acceptor, RpcChannel, ThreadPool, TLC

CONSTANTS kLargeBuffer, LineLen, BufferLimit, MaxLines, MaxClock, MaxShort, rollSize_,
          kRollPerSeconds_, checkEveryN_, logFlushInterval_

VARIABLES
    which,
    currentBuffer_, nextBuffer_, buffers_, newBuffer1, newBuffer2, buffersToWrite,
    nwritten, logging, pc, signalled, stop_, stopAt, output, lines, shed, clock

Async == INSTANCE AsyncLogging WITH running <- logging

MCServices == [echo |-> "ok", gone |-> "NO_METHOD"]

asyncV == <<currentBuffer_, nextBuffer_, buffers_, newBuffer1, newBuffer2,
            buffersToWrite, nwritten, logging, pc, signalled, stop_, stopAt,
            output, lines, shed, clock>>

vars == <<which, timerVars, accVars, rpcVars, poolVars, asyncV>>

ProgressInit ==
    /\ which \in {"timer", "acceptor", "rpc", "pool", "async"}
    /\ TimerInit
    /\ AcceptorInit
    /\ RpcInit
    /\ PoolInit
    /\ Async!AsyncInit
    /\ which # "pool" => threads_ = {}

\* The other parts do not move.
OthersStill ==
    /\ UNCHANGED which
    /\ which # "timer" => UNCHANGED timerVars
    /\ which # "acceptor" => UNCHANGED accVars
    /\ which # "rpc" => UNCHANGED rpcVars
    /\ which # "pool" => UNCHANGED poolVars
    /\ which # "async" => UNCHANGED asyncV

TimerQueueStep == which = "timer" /\ TimerNext /\ OthersStill

AcceptorStep == which = "acceptor" /\ AcceptorNext /\ OthersStill

RpcChannelStep == which = "rpc" /\ RpcNext /\ OthersStill

ThreadPoolStep == which = "pool" /\ PoolNext /\ OthersStill

AsyncLoggingStep == which = "async" /\ Async!AsyncNext /\ OthersStill

ProgressNext ==
    \/ TimerQueueStep \/ AcceptorStep \/ RpcChannelStep \/ ThreadPoolStep
    \/ AsyncLoggingStep

ProgressSpec ==
    /\ ProgressInit /\ [][ProgressNext]_vars
    /\ TimerFairness
    /\ AcceptorFairness
    /\ RpcFairness
    /\ PoolFairness
    /\ Async!AsyncFairness

-----------------------------------------------------------------------------
\* AsyncLogging, LogFile: lines are accounted for, spares and files as needed.
AsyncInv == which = "async" => Async!AsyncInv

\* AsyncLogging: lines reach the disk, and stop() returns.
AsyncProgress == Async!AsyncProgress
=============================================================================
