------------------------------ MODULE EventLoop ------------------------------
(***************************************************************************)
(* muduo::net::EventLoop (src/muduo/net/EventLoop.cc): the reactor of one  *)
(* thread.  The loop thread repeats poll, dispatch, doPendingFunctors;     *)
(* every other thread talks to it through pendingFunctors_ (under mutex_), *)
(* the atomic quit_ and the eventfd wakeupFd_.                             *)
(*                                                                         *)
(* A call by some thread that pushes or sets a flag and then writes the    *)
(* eventfd is two steps, because the loop thread can run in between.       *)
(* Critical sections of mutex_ are single steps.                           *)
(***************************************************************************)
EXTENDS Sequences

CONSTANTS Thread,      \* threads that are not the loop thread
          LoopThread,  \* the thread that created the loop (threadId_)
          Functor,     \* functors that callers hand to the loop
          NoFunctor,
          Channel,     \* channels of the loop other than wakeupChannel_
          WakeupChannel

ASSUME LoopAssumption ==
    /\ LoopThread \notin Thread
    /\ NoFunctor \notin Functor
    /\ WakeupChannel \notin Channel

VARIABLES
    loopPc,                   \* where the loop thread is
    quit_,
    callingPendingFunctors_,
    pendingFunctors_,         \* guarded by mutex_
    functors,                 \* the batch doPendingFunctors swapped out
    activeChannels_,          \* channels of this poll still to be handled
    wakeupFd,                 \* the eventfd is readable (its count is > 0)
    pc,                       \* progress of each thread's current call
    started,                  \* the functor started last
    early                     \* pending functors that the loop thread queued
                              \* while it was not inside loop()

vars == <<loopPc, quit_, callingPendingFunctors_, pendingFunctors_, functors,
          activeChannels_, wakeupFd, pc, started, early>>

AllThreads == Thread \cup {LoopThread}
AllChannels == Channel \cup {WakeupChannel}

\* "outside" is before the first loop() and after loop() has returned;
\* "callback" is a handler of some channel, "functor" a pending functor.
LoopPc == {"outside", "test", "poll", "dispatch", "callback",
           "swap", "run", "functor"}

looping_ == loopPc # "outside"

TypeOK ==
    /\ loopPc \in LoopPc
    /\ quit_ \in BOOLEAN
    /\ callingPendingFunctors_ \in BOOLEAN
    /\ pendingFunctors_ \in Seq(Functor)
    /\ functors \in Seq(Functor)
    /\ activeChannels_ \subseteq AllChannels
    /\ wakeupFd \in BOOLEAN
    /\ pc \in [AllThreads -> {"idle", "pushed", "quitting"}]
    /\ started \in Functor \cup {NoFunctor}
    /\ early \subseteq Functor

Init ==
    /\ loopPc = "outside"
    /\ quit_ = FALSE
    /\ callingPendingFunctors_ = FALSE
    /\ pendingFunctors_ = <<>>
    /\ functors = <<>>
    /\ activeChannels_ = {}
    /\ wakeupFd = FALSE
    /\ pc = [t \in AllThreads |-> "idle"]
    /\ started = NoFunctor
    /\ early = {}

-----------------------------------------------------------------------------
(* Calls, by the loop thread from user code or by any other thread.        *)

\* User code runs in the loop thread outside loop() and inside callbacks.
InUserCode(t) ==
    /\ pc[t] = "idle"
    /\ t = LoopThread => loopPc \in {"outside", "callback", "functor"}

isInLoopThread(t) == t = LoopThread

Elements(s) == {s[i] : i \in DOMAIN s}

\* Functor identities are reused only once they have left the queue.
Waiting(f) == f \in Elements(pendingFunctors_) \cup Elements(functors)

\* Fault: a functor that queues a functor does not wake its own loop.
MustWakeupForeign(t) == ~isInLoopThread(t)

\* queueInLoop's test for a wakeup.
MustWakeup(t) == ~isInLoopThread(t) \/ callingPendingFunctors_

\* Fault: the functor is moved from before it is pushed.
QueueInLoopMovedFrom(t, f) ==
    /\ InUserCode(t)
    /\ ~Waiting(f)
    /\ pendingFunctors_' = Append(pendingFunctors_, NoFunctor)
    /\ pc' = [pc EXCEPT ![t] = "pushed"]
    /\ UNCHANGED <<loopPc, quit_, callingPendingFunctors_, functors,
                   activeChannels_, wakeupFd, started, early>>

\* queueInLoop up to the release of mutex_.
QueueInLoop(t, f) ==
    /\ InUserCode(t)
    /\ ~Waiting(f)
    /\ pendingFunctors_' = Append(pendingFunctors_, f)
    /\ pc' = [pc EXCEPT ![t] = IF MustWakeup(t) THEN "pushed" ELSE "idle"]
    /\ early' = IF isInLoopThread(t) /\ ~looping_ THEN early \cup {f} ELSE early
    /\ UNCHANGED <<loopPc, quit_, callingPendingFunctors_, functors,
                   activeChannels_, wakeupFd, started>>

\* runInLoop in the loop thread runs the functor inside the call; in any
\* other thread it is queueInLoop.
RunInLoop(t, f) ==
    /\ isInLoopThread(t)
    /\ InUserCode(t)
    /\ ~Waiting(f)
    /\ started' = f
    /\ UNCHANGED <<loopPc, quit_, callingPendingFunctors_, pendingFunctors_,
                   functors, activeChannels_, wakeupFd, pc, early>>

\* Fault: quit() from another thread sets the flag and does not wake the loop.
QuitSilently(t) ==
    /\ InUserCode(t)
    /\ quit_' = TRUE
    /\ UNCHANGED <<loopPc, callingPendingFunctors_, pendingFunctors_, functors,
                   activeChannels_, wakeupFd, pc, started, early>>

\* quit() up to its test of isInLoopThread().
Quit(t) ==
    /\ InUserCode(t)
    /\ quit_' = TRUE
    /\ pc' = [pc EXCEPT ![t] = IF isInLoopThread(t) THEN "idle" ELSE "quitting"]
    /\ UNCHANGED <<loopPc, callingPendingFunctors_, pendingFunctors_, functors,
                   activeChannels_, wakeupFd, started, early>>

\* The wakeup() that ends queueInLoop and quit: a write to the eventfd.
Wakeup(t) ==
    /\ pc[t] \in {"pushed", "quitting"}
    /\ wakeupFd' = TRUE
    /\ pc' = [pc EXCEPT ![t] = "idle"]
    /\ UNCHANGED <<loopPc, quit_, callingPendingFunctors_, pendingFunctors_,
                   functors, activeChannels_, started, early>>

-----------------------------------------------------------------------------
(* The loop thread.                                                        *)

Goto(from, to) ==
    /\ loopPc = from
    /\ pc[LoopThread] = "idle"
    /\ loopPc' = to

Loop ==
    /\ Goto("outside", "test")
    /\ quit_' = FALSE
    /\ UNCHANGED <<callingPendingFunctors_, pendingFunctors_, functors,
                   activeChannels_, wakeupFd, pc, started, early>>

TestQuit ==
    /\ \/ quit_ /\ Goto("test", "outside")
       \/ ~quit_ /\ Goto("test", "poll")
    /\ UNCHANGED <<quit_, callingPendingFunctors_, pendingFunctors_, functors,
                   activeChannels_, wakeupFd, pc, started, early>>

\* poll returns some of the ready channels: at most events_.size() of them, so
\* wakeupChannel_ may be left for the next poll when others fill the array.  It
\* returns none after kPollTimeMs, or on EINTR.
Poll ==
    /\ Goto("poll", "dispatch")
    /\ activeChannels_' \in SUBSET AllChannels
    /\ WakeupChannel \in activeChannels_' => wakeupFd
    /\ wakeupFd => activeChannels_' # {}
    /\ UNCHANGED <<quit_, callingPendingFunctors_, pendingFunctors_, functors,
                   wakeupFd, pc, started, early>>

\* wakeupChannel_'s read callback resets the eventfd's count to zero.
HandleRead ==
    /\ Goto("dispatch", "dispatch")
    /\ WakeupChannel \in activeChannels_
    /\ activeChannels_' = activeChannels_ \ {WakeupChannel}
    /\ wakeupFd' = FALSE
    /\ UNCHANGED <<quit_, callingPendingFunctors_, pendingFunctors_, functors,
                   pc, started, early>>

HandleEvent(c) ==
    /\ Goto("dispatch", "callback")
    /\ c \in activeChannels_
    /\ activeChannels_' = activeChannels_ \ {c}
    /\ UNCHANGED <<quit_, callingPendingFunctors_, pendingFunctors_, functors,
                   wakeupFd, pc, started, early>>

CallbackReturns ==
    /\ Goto("callback", "dispatch")
    /\ UNCHANGED <<quit_, callingPendingFunctors_, pendingFunctors_, functors,
                   activeChannels_, wakeupFd, pc, started, early>>

DoPendingFunctors ==
    /\ Goto("dispatch", "swap")
    /\ activeChannels_ = {}
    /\ callingPendingFunctors_' = TRUE
    /\ UNCHANGED <<quit_, pendingFunctors_, functors, activeChannels_,
                   wakeupFd, pc, started, early>>

\* Fault: the vector is copied, not swapped.
SwapFunctorsCopies ==
    /\ Goto("swap", "run")
    /\ functors' = pendingFunctors_
    /\ UNCHANGED <<quit_, callingPendingFunctors_, pendingFunctors_,
                   activeChannels_, wakeupFd, pc, started, early>>

SwapFunctors ==
    /\ Goto("swap", "run")
    /\ functors' = pendingFunctors_
    /\ pendingFunctors_' = <<>>
    /\ early' = {}
    /\ UNCHANGED <<quit_, callingPendingFunctors_, activeChannels_, wakeupFd,
                   pc, started>>

RunFunctor ==
    /\ Goto("run", "functor")
    /\ functors # <<>>
    /\ started' = Head(functors)
    /\ functors' = Tail(functors)
    /\ UNCHANGED <<quit_, callingPendingFunctors_, pendingFunctors_,
                   activeChannels_, wakeupFd, pc, early>>

FunctorReturns ==
    /\ Goto("functor", "run")
    /\ UNCHANGED <<quit_, callingPendingFunctors_, pendingFunctors_, functors,
                   activeChannels_, wakeupFd, pc, started, early>>

\* Fault: functors are run until none is left.
PendingFunctorsDrained ==
    /\ functors = <<>>
    /\ \/ pendingFunctors_ # <<>> /\ Goto("run", "swap")
       \/ pendingFunctors_ = <<>> /\ Goto("run", "test")
    /\ callingPendingFunctors_' = (pendingFunctors_ # <<>>)
    /\ UNCHANGED <<quit_, pendingFunctors_, functors, activeChannels_,
                   wakeupFd, pc, started, early>>

PendingFunctorsDone ==
    /\ Goto("run", "test")
    /\ functors = <<>>
    /\ callingPendingFunctors_' = FALSE
    /\ UNCHANGED <<quit_, pendingFunctors_, functors, activeChannels_,
                   wakeupFd, pc, started, early>>

-----------------------------------------------------------------------------
Call(t) ==
    \/ \E f \in Functor : QueueInLoop(t, f) \/ RunInLoop(t, f)
    \/ Quit(t)
    \/ Wakeup(t)

LoopStep ==
    \/ TestQuit \/ Poll
    \/ HandleRead \/ CallbackReturns \/ (\E c \in Channel : HandleEvent(c))
    \/ DoPendingFunctors \/ SwapFunctors \/ RunFunctor \/ FunctorReturns
    \/ PendingFunctorsDone

Next == (\E t \in AllThreads : Call(t)) \/ Loop \/ LoopStep

Spec == Init /\ [][Next]_vars

(***************************************************************************)
(* The loop thread keeps running: user callbacks return, and poll returns  *)
(* once the eventfd is readable.  That poll also returns after kPollTimeMs *)
(* is left out, so that what holds does not depend on the ten seconds.     *)
(* A thread that has pushed or set quit_ gets to its write.                *)
(***************************************************************************)
Fairness ==
    /\ WF_vars(LoopStep /\ (loopPc = "poll" => wakeupFd))
    /\ \A t \in AllThreads : WF_vars(Wakeup(t))

FairSpec == Spec /\ Fairness

-----------------------------------------------------------------------------
(* Properties.                                                             *)

(***************************************************************************)
(* No wakeup is lost (queueInLoop, EventLoop.cc:160): when the loop thread *)
(* sits in poll and a functor is pending, the eventfd is readable or the   *)
(* thread that pushed is about to write it.  The exception is a functor    *)
(* that the loop thread queued before it entered loop(): queueInLoop does  *)
(* not write the eventfd then, and the functor waits for poll's timeout.   *)
(***************************************************************************)
NoLostWakeup ==
    loopPc = "poll" /\ Elements(pendingFunctors_) \ early # {} =>
        wakeupFd \/ \E t \in AllThreads : pc[t] = "pushed"

(***************************************************************************)
(* quit() reaches a loop that is blocked (EventLoop.cc:136): in poll with  *)
(* quit_ set, the eventfd is readable or the thread in quit() is about to  *)
(* write it.                                                               *)
(***************************************************************************)
QuitWakesPoll ==
    loopPc = "poll" /\ quit_ =>
        wakeupFd \/ \E t \in AllThreads : pc[t] = "quitting"

(***************************************************************************)
(* pendingFunctors_ and the batch in doPendingFunctors together are one    *)
(* first-in first-out queue: nothing queued while a batch runs, by any     *)
(* thread, overtakes it, and the swap loses and duplicates nothing.        *)
(***************************************************************************)
FQ == INSTANCE FunctorQueue WITH queue <- functors \o pendingFunctors_

ImplementsFunctorQueue == FQ!Spec

(***************************************************************************)
(* A functor that waits while the loop runs is started, or loop() returns, *)
(* without the help of poll's timeout.                                     *)
(***************************************************************************)
FunctorStarts ==
    \A f \in Functor :
        (looping_ /\ Waiting(f) /\ f \notin early)
            ~> (~looping_ \/ (loopPc = "functor" /\ started = f))

(***************************************************************************)
(* Once quit_ is set in a running loop, loop() returns.                    *)
(***************************************************************************)
QuitEndsLoop == (looping_ /\ quit_) ~> ~looping_

(***************************************************************************)
(* Functors that queue functors do not keep the loop from polling: a batch *)
(* is what was pending at the swap (doPendingFunctors, EventLoop.cc:259).  *)
(***************************************************************************)
FunctorsDoNotStarveChannels == looping_ ~> (loopPc = "poll" \/ ~looping_)

(***************************************************************************)
(* What the loop must get done: functors start, quit() ends loop(), and    *)
(* poll is reached again (EventLoop.cc:103-134).                           *)
(***************************************************************************)
LoopProgress ==
    /\ FunctorStarts
    /\ QuitEndsLoop
    /\ FunctorsDoNotStarveChannels
=============================================================================
