----------------------------- MODULE TimerQueue -----------------------------
(***************************************************************************)
(* muduo::net::TimerQueue (src/muduo/net/TimerQueue.cc): the timers of one *)
(* loop, kept in two ordered sets and driven by one timerfd.  The loop     *)
(* thread adds and cancels at once from user code; other threads queue the *)
(* call in the loop.  Timers are objects at addresses that the allocator   *)
(* reuses; a TimerId is an address and a sequence number, which addTimer   *)
(* reads when it has handed the Timer over: in another thread the loop may *)
(* have deleted it by then.                                                *)
(*                                                                         *)
(* Times are relative to Timestamp::now(): "left" is the number of ticks   *)
(* until expiration_, 0 when it has passed.  timerfd counts down on the    *)
(* monotonic clock, now() is the wall clock, which may be set back or      *)
(* forward.                                                                *)
(***************************************************************************)
EXTENDS Integers, Sequences, FiniteSets, FiniteSetsExt, Functions

CONSTANTS Addr,         \* where Timer objects may live
          MaxTimers,    \* bound: timers created
          MaxTicks,     \* bound: ticks from now to an expiration
          MaxQueued,    \* bound: calls of other threads that are queued
          MaxJumps      \* bound: times the wall clock is set

ASSUME TimerAssumption == MaxTicks \in Nat /\ MaxTimers \in Nat

VARIABLES
    heap,                   \* the Timer objects, Free where there is none
    s_numCreated_,
    reading,                \* calls of other threads that are yet to read
                            \* sequence(), as the TimerIds of their Timers
    ids,                    \* the TimerIds that addTimer has returned
    misread,                \* TimerIds returned with another number than theirs
    timers_, activeTimers_, \* both sets, as addresses and as TimerIds
    timerfd,                \* ticks until it is readable, or Disarmed
    ahead,                  \* ticks the clock was set forward since it was set
    timerActive,            \* poll has reported timerfdChannel_
    callingExpiredTimers_, cancelingTimers_,
    expired,                \* the batch of handleRead
    torun,                  \* the part of it that has not run yet
    running,                \* the TimerId whose callback ran last
    lag,                    \* ticks since handleRead took its now
    queued,                 \* addTimerInLoop and cancelInLoop in the loop
    jumps,
    cancelled               \* TimerIds that cancelInLoop found

callVars == <<s_numCreated_, reading, ids, misread>>

timerVars == <<heap, callVars, timers_, activeTimers_, timerfd, ahead,
               timerActive, callingExpiredTimers_, cancelingTimers_, expired,
               torun, running, lag, queued, jumps, cancelled>>

Free == [sequence_ |-> 0, left |-> 0, interval_ |-> 0]
Disarmed == -1
NoTimer == <<>>

Id(a) == <<a, heap[a].sequence_>>

TimerInit ==
    /\ heap = [a \in Addr |-> Free]
    /\ s_numCreated_ = 0 /\ reading = {} /\ ids = {} /\ misread = {}
    /\ timers_ = {} /\ activeTimers_ = {}
    /\ timerfd = Disarmed /\ ahead = 0 /\ timerActive = FALSE
    /\ callingExpiredTimers_ = FALSE /\ cancelingTimers_ = {}
    /\ expired = {} /\ torun = {} /\ running = NoTimer
    /\ lag = 0 /\ queued = <<>> /\ jumps = 0
    /\ cancelled = {}

-----------------------------------------------------------------------------
(* The ordered sets and the timerfd.                                       *)

repeat(t) == t.interval_ > 0
Earliest(S, h) == Min({h[a].left : a \in S})

\* Fault: the timerfd is only set when it is not running.
EarliestChangedIfEmpty(a, h) == timers_ = {}

\* insert(): TRUE when the timer is the first to expire.
earliestChanged(a, h) == timers_ = {} \/ h[a].left < Earliest(timers_, h)

\* addTimerInLoop, for the object h[a].
addTimerInLoop(a, h) ==
    /\ timers_' = timers_ \cup {a}
    /\ activeTimers_' = activeTimers_ \cup {<<a, h[a].sequence_>>}
    /\ IF earliestChanged(a, h) THEN timerfd' = h[a].left /\ ahead' = 0
       ELSE UNCHANGED <<timerfd, ahead>>
    /\ heap' = h

\* Fault: timers are found by their address alone.
FindByAddress(id) == {p \in activeTimers_ : p[1] = id[1]}

Find(id) == {id} \cap activeTimers_

\* Fault: a timer that is not active is not remembered.
CancelingNever(id) == cancelingTimers_

Canceling(id) == IF callingExpiredTimers_ THEN cancelingTimers_ \cup {id}
                 ELSE cancelingTimers_

\* Fault: the timer leaves both sets and is not deleted.
Undeleted(id) == heap

Deleted(id) == [heap EXCEPT ![id[1]] = Free]

cancelInLoop(id) ==
    /\ IF Find(id) # {}
       THEN /\ timers_' = timers_ \ {id[1]}
            /\ activeTimers_' = activeTimers_ \ Find(id)
            /\ heap' = Deleted(id)
            /\ UNCHANGED cancelingTimers_
       ELSE /\ cancelingTimers_' = Canceling(id)
            /\ UNCHANGED <<timers_, activeTimers_, heap>>
    /\ cancelled' = IF id \in activeTimers_ \cup {Id(a) : a \in expired}
                    THEN cancelled \cup {id} ELSE cancelled
    /\ UNCHANGED <<timerfd, ahead>>

-----------------------------------------------------------------------------
(* Calls.  The loop thread runs user code in other handlers, when no batch *)
(* is being run, and inside a timer callback.                              *)
InUserCode == callingExpiredTimers_ => running # NoTimer

NewTimer(n, i) == [sequence_ |-> s_numCreated_ + 1, left |-> n, interval_ |-> i]

\* addTimer, up to the hand-over.  The loop thread returns from it at once.
AddTimer(a, n, i) ==
    LET h == [heap EXCEPT ![a] = NewTimer(n, i)]
        id == <<a, s_numCreated_ + 1>> IN
    /\ heap[a] = Free
    /\ s_numCreated_ < MaxTimers
    /\ s_numCreated_' = s_numCreated_ + 1
    /\ \/ /\ InUserCode
          /\ addTimerInLoop(a, h)
          /\ ids' = ids \cup {id}
          /\ UNCHANGED <<queued, reading>>
       \/ /\ Len(queued) < MaxQueued
          /\ heap' = h
          /\ queued' = Append(queued, <<"add", id>>)
          /\ reading' = reading \cup {id}
          /\ UNCHANGED <<ids, timers_, activeTimers_, timerfd, ahead>>
    /\ UNCHANGED <<misread, timerActive, callingExpiredTimers_, cancelingTimers_,
                   expired, torun, running, lag, jumps, cancelled>>

\* What timer->sequence() may find at a: a Timer's number, or anything when there
\* is none.
Sequences(a) == IF heap[a] = Free THEN 0..MaxTimers ELSE {heap[a].sequence_}

\* Another thread returns from addTimer.
ReadSequence(own) ==
    /\ own \in reading
    /\ reading' = reading \ {own}
    /\ \E n \in Sequences(own[1]) :
           /\ ids' = ids \cup {<<own[1], n>>}
           /\ misread' = IF n = own[2] THEN misread ELSE misread \cup {<<own[1], n>>}
    /\ UNCHANGED <<heap, s_numCreated_, timers_, activeTimers_, timerfd, ahead,
                   timerActive, callingExpiredTimers_, cancelingTimers_, expired,
                   torun, running, lag, queued, jumps, cancelled>>

Cancel(id) ==
    /\ \/ InUserCode /\ cancelInLoop(id) /\ UNCHANGED queued
       \/ /\ Len(queued) < MaxQueued
          /\ queued' = Append(queued, <<"cancel", id>>)
          /\ UNCHANGED <<heap, timers_, activeTimers_, timerfd, ahead,
                         cancelingTimers_, cancelled>>
    /\ UNCHANGED <<callVars, timerActive, callingExpiredTimers_, expired,
                   torun, running, lag, jumps>>

\* doPendingFunctors runs what another thread has queued.
RunQueued ==
    /\ ~callingExpiredTimers_
    /\ queued # <<>>
    /\ queued' = Tail(queued)
    /\ LET id == Head(queued)[2] IN
       IF Head(queued)[1] = "add"
       THEN addTimerInLoop(id[1], heap) /\ UNCHANGED <<cancelingTimers_, cancelled>>
       ELSE cancelInLoop(id)
    /\ UNCHANGED <<callVars, timerActive, callingExpiredTimers_, expired,
                   torun, running, lag, jumps>>

-----------------------------------------------------------------------------
(* The loop and the clocks.                                                *)

PollTimerfd ==
    /\ timerfd = 0 /\ ~timerActive /\ ~callingExpiredTimers_
    /\ timerActive' = TRUE
    /\ UNCHANGED <<heap, callVars, timers_, activeTimers_, timerfd, ahead,
                   callingExpiredTimers_, cancelingTimers_, expired, torun,
                   running, lag, queued, jumps, cancelled>>

\* handleRead up to the first callback: now, readTimerfd, getExpired.  The
\* timerfd may have been set again since poll; the read then fails.
HandleReadBegins ==
    /\ timerActive /\ ~callingExpiredTimers_
    /\ timerActive' = FALSE
    /\ timerfd' = IF timerfd = 0 THEN Disarmed ELSE timerfd
    /\ expired' = {a \in timers_ : heap[a].left = 0}
    /\ torun' = expired'
    /\ timers_' = timers_ \ expired'
    /\ activeTimers_' = activeTimers_ \ {Id(a) : a \in expired'}
    /\ callingExpiredTimers_' = TRUE
    /\ cancelingTimers_' = {}
    /\ running' = NoTimer
    /\ lag' = 0
    /\ UNCHANGED <<heap, callVars, ahead, queued, jumps, cancelled>>

Run(a) ==
    /\ a \in torun
    /\ torun' = torun \ {a}
    /\ running' = Id(a)
    /\ UNCHANGED <<heap, callVars, timers_, activeTimers_, timerfd, ahead, timerActive,
                   callingExpiredTimers_, cancelingTimers_, expired, lag,
                   queued, jumps, cancelled>>

\* reset(): the timers of the batch that are restarted, not deleted.
Restarted(a) == repeat(heap[a]) /\ Id(a) \notin cancelingTimers_

\* The timerfd after reset(): a time that has passed fires at once.
ResetTimerfd(S, h) == IF S = {} THEN timerfd ELSE Earliest(S, h)

HandleReadEnds ==
    /\ callingExpiredTimers_ /\ torun = {}
    /\ callingExpiredTimers_' = FALSE
    /\ heap' = [a \in Addr |->
           IF a \notin expired THEN heap[a]
           ELSE IF Restarted(a)
           THEN [heap[a] EXCEPT !.left = Max({0, heap[a].interval_ - lag})]
           ELSE Free]
    /\ timers_' = timers_ \cup {a \in expired : Restarted(a)}
    /\ activeTimers_' = activeTimers_ \cup {Id(a) : a \in {b \in expired : Restarted(b)}}
    /\ timerfd' = ResetTimerfd(timers_', heap')
    /\ ahead' = IF timers_' = {} THEN ahead ELSE 0
    /\ expired' = {}
    /\ running' = NoTimer
    /\ lag' = 0
    /\ UNCHANGED <<callVars, timerActive, cancelingTimers_, torun, queued,
                   jumps, cancelled>>

Tick ==
    /\ heap' = [a \in Addr |-> [heap[a] EXCEPT !.left = Max({0, @ - 1})]]
    /\ timerfd' = IF timerfd > 0 THEN timerfd - 1 ELSE timerfd
    /\ lag' = IF callingExpiredTimers_ THEN Min({MaxTicks, lag + 1}) ELSE lag
    /\ UNCHANGED <<callVars, timers_, activeTimers_, ahead, timerActive,
                   callingExpiredTimers_, cancelingTimers_, expired, torun,
                   running, queued, jumps, cancelled>>

\* The wall clock is set back by a tick; the timerfd does not notice.
ClockBack ==
    /\ jumps < MaxJumps
    /\ jumps' = jumps + 1
    /\ heap' = [a \in Addr |-> IF heap[a] = Free THEN Free
                               ELSE [heap[a] EXCEPT !.left = @ + 1]]
    /\ lag' = IF callingExpiredTimers_ THEN lag - 1 ELSE lag
    /\ UNCHANGED <<callVars, timers_, activeTimers_, timerfd, ahead, timerActive,
                   callingExpiredTimers_, cancelingTimers_, expired, torun,
                   running, queued, cancelled>>

\* It is set forward by a tick; the timerfd does not notice that either.
ClockForward ==
    /\ jumps < MaxJumps
    /\ jumps' = jumps + 1
    /\ heap' = [a \in Addr |-> [heap[a] EXCEPT !.left = Max({0, @ - 1})]]
    /\ ahead' = ahead + 1
    /\ lag' = IF callingExpiredTimers_ THEN Min({MaxTicks, lag + 1}) ELSE lag
    /\ UNCHANGED <<callVars, timers_, activeTimers_, timerfd, timerActive,
                   callingExpiredTimers_, cancelingTimers_, expired, torun,
                   running, queued, cancelled>>

TimerLoopStep ==
    \/ RunQueued \/ PollTimerfd
    \/ HandleReadBegins \/ (\E a \in Addr : Run(a)) \/ HandleReadEnds

TimerNext ==
    \/ \E a \in Addr, n \in 0..MaxTicks, i \in 0..1 : AddTimer(a, n, i)
    \/ \E own \in reading : ReadSequence(own)
    \/ \E id \in ids : Cancel(id)
    \/ TimerLoopStep \/ Tick \/ ClockBack \/ ClockForward

TimerSpec == TimerInit /\ [][TimerNext]_timerVars

(***************************************************************************)
(* Every round of the loop polls, handles what poll has reported and runs  *)
(* what is queued; callbacks return; time passes.                          *)
(***************************************************************************)
TimerFairness ==
    /\ WF_timerVars(RunQueued) /\ WF_timerVars(PollTimerfd)
    /\ WF_timerVars(HandleReadBegins) /\ WF_timerVars(HandleReadEnds)
    /\ \A a \in Addr : WF_timerVars(Run(a))
    /\ WF_timerVars(Tick)

-----------------------------------------------------------------------------
(***************************************************************************)
(* timers_ and activeTimers_ hold the same timers, and every pointer in    *)
(* them, in the batch of handleRead and in a queued addTimerInLoop is to a *)
(* live Timer; there is no other Timer.  The code asserts the sizes only   *)
(* (TimerQueue.cc:146); the rest is that nothing is freed twice or leaked. *)
(***************************************************************************)
TimersOwned ==
    LET adding == {q[2] : q \in {p \in Range(queued) : p[1] = "add"}} IN
    /\ activeTimers_ = {Id(a) : a \in timers_}
    /\ {Id(a) : a \in {b \in Addr : heap[b] # Free}}
         = activeTimers_ \cup {Id(a) : a \in expired} \cup adding
    /\ timers_ \cap expired = {}
    /\ \A a \in expired \cup timers_ : heap[a] # Free

(***************************************************************************)
(* The loop is woken in time (resetTimerfd, TimerQueue.cc:68): outside     *)
(* handleRead the timerfd is readable no later than the earliest timer     *)
(* expires, whatever was added, cancelled, or set back.  Only a wall clock *)
(* set forward makes timers late, by as much as it was set forward since   *)
(* the timerfd was last set: timerfd_settime is given a time from now, on  *)
(* CLOCK_MONOTONIC, and nobody sets it again (TimerQueue.cc:32, :43).      *)
(***************************************************************************)
TimerfdInTime ==
    ~callingExpiredTimers_ /\ timers_ # {} =>
        timerfd # Disarmed /\ timerfd <= Earliest(timers_, heap) + ahead

(***************************************************************************)
(* A timer that cancelInLoop found, active or in the running batch, is not *)
(* put back (reset, TimerQueue.cc:211).                                    *)
(***************************************************************************)
CancelledStaysOut == cancelled \cap activeTimers_ = {}

(***************************************************************************)
(* A timer in the queue runs, unless it is cancelled by its own TimerId: a *)
(* stale TimerId whose address has been reused cancels nothing else.  The  *)
(* one way to lose it to another's cancel: addTimer in another thread      *)
(* reads sequence() from a Timer that the loop has run and deleted since   *)
(* it was handed over, finds this one's number there and returns this      *)
(* one's TimerId (TimerQueue.cc:123).                                      *)
(***************************************************************************)
TimerRuns ==
    \A n \in 1..MaxTimers :
        n \in {id[2] : id \in activeTimers_} ~>
            \/ running # NoTimer /\ running[2] = n
            \/ n \in {id[2] : id \in cancelled \ misread}
            \/ n \in {id[2] : id \in misread}

(***************************************************************************)
(* The sets of timers own their timers, the timerfd is set in time, and    *)
(* what is cancelled stays out.                                            *)
(***************************************************************************)
TimerInv ==
    /\ TimersOwned
    /\ TimerfdInTime
    /\ CancelledStaysOut
=============================================================================
