--------------------------- MODULE EventLoopThread ---------------------------
(***************************************************************************)
(* muduo::net::EventLoopThread (src/muduo/net/EventLoopThread.cc) around   *)
(* one EventLoop: the owner starts the thread and waits until it publishes *)
(* loop_, the thread runs loop() on a loop that lives on its stack, and    *)
(* the destructor quits the loop and joins the thread.  Thread::start and  *)
(* join and the CountDownLatch between them (src/muduo/base) are included. *)
(*                                                                         *)
(* With managed = FALSE there is no EventLoopThread and the loop is used   *)
(* from the thread that created it, as in main().                          *)
(***************************************************************************)
EXTENDS EventLoop, Naturals

CONSTANT Owner    \* the thread that calls startLoop() and the destructor

ASSUME OwnerAssumption == Owner \in Thread

VARIABLES
    managed,
    ownerPc,    \* where the owner is in startLoop() or ~EventLoopThread()
    threadPc,   \* where the new thread is in runInThread() and threadFunc()
    count_,     \* of latch_
    loop_,      \* loop_ # NULL
    userQuit    \* user code has called quit(), and loop() did not clear it

threadVars == <<managed, ownerPc, threadPc, count_, loop_, userQuit>>
allVars == <<vars, threadVars>>

ThreadTypeOK ==
    /\ managed \in BOOLEAN
    /\ ownerPc \in {"new", "latch", "lock", "wait", "serving",
                    "quit", "join", "gone"}
    /\ threadPc \in {"none", "created", "callback", "published",
                     "looping", "returned", "done"}
    /\ count_ \in {0, 1}
    /\ loop_ \in BOOLEAN
    /\ userQuit \in BOOLEAN

ThreadInit ==
    /\ Init
    /\ managed \in BOOLEAN
    /\ ownerPc = "new"
    /\ threadPc = "none"
    /\ count_ = 1
    /\ loop_ = FALSE
    /\ userQuit = FALSE

-----------------------------------------------------------------------------
(* The owner.                                                              *)

\* startLoop() up to latch_.wait() in Thread::start().
StartLoop ==
    /\ managed
    /\ ownerPc = "new"
    /\ ownerPc' = "latch"
    /\ threadPc' = "created"
    /\ UNCHANGED <<vars, managed, count_, loop_, userQuit>>

LatchWait ==
    /\ ownerPc = "latch"
    /\ count_ = 0
    /\ ownerPc' = "lock"
    /\ UNCHANGED <<vars, managed, threadPc, count_, loop_, userQuit>>

\* The loop around cond_.wait(): "wait" is left when the thread notifies.
TestLoop ==
    /\ ownerPc = "lock"
    /\ ownerPc' = IF loop_ THEN "serving" ELSE "wait"
    /\ UNCHANGED <<vars, managed, threadPc, count_, loop_, userQuit>>

\* The destructor reads loop_, without mutex_ ...
Dtor ==
    /\ managed
    /\ ownerPc \in {"new", "serving"}
    /\ pc[Owner] = "idle"
    /\ ownerPc' = IF loop_ THEN "quit" ELSE "gone"
    /\ UNCHANGED <<vars, managed, threadPc, count_, loop_, userQuit>>

\* ... then calls quit() through it ...
DtorQuit ==
    /\ ownerPc = "quit"
    /\ Quit(Owner)
    /\ ownerPc' = "join"
    /\ UNCHANGED <<managed, threadPc, count_, loop_, userQuit>>

\* ... and joins, once the wakeup() of quit() is written.
Join ==
    /\ ownerPc = "join"
    /\ pc[Owner] = "idle"
    /\ threadPc = "done"
    /\ ownerPc' = "gone"
    /\ UNCHANGED <<vars, managed, threadPc, count_, loop_, userQuit>>

-----------------------------------------------------------------------------
(* The thread.                                                             *)

\* Fault: the latch is counted down on every path.
RunInThreadTwice ==
    /\ threadPc \in {"created", "callback"}
    /\ threadPc' = "callback"
    /\ count_' = count_ - 1
    /\ UNCHANGED <<vars, managed, ownerPc, loop_, userQuit>>

\* runInThread() up to func_(): countDown(), then EventLoop loop and callback_.
RunInThread ==
    /\ threadPc = "created"
    /\ threadPc' = "callback"
    /\ count_' = count_ - 1
    /\ UNCHANGED <<vars, managed, ownerPc, loop_, userQuit>>

\* Fault: loop_ is set and nobody is notified.
PublishSilently ==
    /\ threadPc = "callback"
    /\ pc[LoopThread] = "idle"
    /\ threadPc' = "published"
    /\ loop_' = TRUE
    /\ UNCHANGED <<vars, managed, ownerPc, count_, userQuit>>

Publish ==
    /\ threadPc = "callback"
    /\ pc[LoopThread] = "idle"
    /\ threadPc' = "published"
    /\ loop_' = TRUE
    /\ ownerPc' = IF ownerPc = "wait" THEN "lock" ELSE ownerPc
    /\ UNCHANGED <<vars, managed, count_, userQuit>>

\* Fault: threadFunc does not call loop().
EnterNoLoop ==
    /\ threadPc = "published"
    /\ threadPc' = "returned"
    /\ UNCHANGED <<vars, managed, ownerPc, count_, loop_, userQuit>>

EnterLoop ==
    /\ threadPc = "published"
    /\ Loop
    /\ threadPc' = "looping"
    /\ userQuit' = FALSE
    /\ UNCHANGED <<managed, ownerPc, count_, loop_>>

InLoop ==
    /\ threadPc = "looping"
    /\ LoopStep
    /\ threadPc' = IF looping_' THEN "looping" ELSE "returned"
    /\ UNCHANGED <<managed, ownerPc, count_, loop_, userQuit>>

\* threadFunc ends: loop_ = NULL under mutex_, then ~EventLoop.
Unpublish ==
    /\ threadPc = "returned"
    /\ pc[LoopThread] = "idle"
    /\ threadPc' = "done"
    /\ loop_' = FALSE
    /\ UNCHANGED <<vars, managed, ownerPc, count_, userQuit>>

-----------------------------------------------------------------------------
(* User code calls the loop from callback_, from inside the loop, and from *)
(* other threads between startLoop() and the end of the loop.              *)
MayCall(t) ==
    IF isInLoopThread(t) THEN threadPc \in {"callback", "looping"}
    ELSE /\ ownerPc \in {"serving"} \cup (IF t = Owner THEN {} ELSE {"quit", "join"})
         /\ threadPc # "done"

UserCall(t) ==
    /\ MayCall(t)
    /\ \/ \E f \in Functor : QueueInLoop(t, f) \/ RunInLoop(t, f)
       \/ Quit(t)
    /\ userQuit' = (userQuit \/ (quit_' /\ ~quit_))
    /\ UNCHANGED <<managed, ownerPc, threadPc, count_, loop_>>

\* After the end of the loop this is a write through a destructed object, which
\* may as well never return: no fairness is asked of it.
ManagedWakeup(t) ==
    /\ managed
    /\ Wakeup(t)
    /\ UNCHANGED threadVars

Bare ==
    /\ ~managed
    /\ Next
    /\ UNCHANGED threadVars

OwnerStep == LatchWait \/ TestLoop \/ DtorQuit \/ Join
ThreadStep == RunInThread \/ Publish \/ EnterLoop \/ Unpublish

ThreadNext ==
    \/ Bare
    \/ StartLoop \/ Dtor \/ OwnerStep
    \/ ThreadStep \/ InLoop
    \/ \E t \in AllThreads : UserCall(t) \/ ManagedWakeup(t)

ThreadSpec == ThreadInit /\ [][ThreadNext]_allVars

(***************************************************************************)
(* Both threads keep running; startLoop() and the destructor are called by *)
(* choice.  A call of a loop that exists gets to its write.                *)
(***************************************************************************)
ThreadFairness ==
    /\ WF_allVars(~managed /\ LoopStep /\ (loopPc = "poll" => wakeupFd)
                    /\ UNCHANGED threadVars)
    /\ WF_allVars(InLoop /\ (loopPc = "poll" => wakeupFd))
    /\ WF_allVars(OwnerStep) /\ WF_allVars(ThreadStep)
    /\ \A t \in AllThreads :
           WF_allVars(threadPc # "done" /\ Wakeup(t) /\ UNCHANGED threadVars)

ThreadFairSpec == ThreadSpec /\ ThreadFairness

-----------------------------------------------------------------------------
(***************************************************************************)
(* startLoop() returns, and with a loop (EventLoopThread.cc:47), unless    *)
(* the new loop has already been quit and destroyed: loop_ is NULL again   *)
(* then, and the owner waits for a notification that never comes.          *)
(***************************************************************************)
StartLoopReturns ==
    ownerPc = "latch" ~> (ownerPc \notin {"latch", "lock", "wait"}
                            \/ (userQuit /\ threadPc = "done"))

\* The owner is in a call of a loop that has been destructed.
InDeadLoop == threadPc = "done" /\ pc[Owner] # "idle"

(***************************************************************************)
(* ~EventLoopThread() returns (EventLoopThread.cc:34), unless its quit()   *)
(* came before loop() and was cleared by it, so that the loop runs on with *)
(* quit_ false while the owner sits in join(); or unless the loop ended    *)
(* inside its quit(), whose wakeup() then uses a destructed object.        *)
(***************************************************************************)
ThreadDtorReturns ==
    ownerPc = "join" ~> \/ ownerPc = "gone"
                        \/ threadPc = "looping" /\ ~quit_
                        \/ InDeadLoop

(***************************************************************************)
(* There are two chances to use a destructed loop, and for the owner no    *)
(* third.  Either user code has quit the loop itself, and the destructor   *)
(* comes too late ("still a tiny chance to call destructed object",        *)
(* EventLoopThread.cc:32).  Or the loop ends within the destructor's own   *)
(* quit(), between quit_ = true and wakeup() (EventLoop.cc:139-141).  So,  *)
(* unless user code has quit it, a loop that has ended was quit by the     *)
(* destructor, whose quit() is the only call the owner can still be in,    *)
(* and which is over when the destructor has returned.                     *)
(***************************************************************************)
DtorQuitsLiveLoop ==
    threadPc = "done" /\ ~userQuit =>
        \/ ownerPc = "join" /\ pc[Owner] \in {"idle", "quitting"}
        \/ ownerPc = "gone" /\ pc[Owner] = "idle"

(***************************************************************************)
(* The types, the wakeup of quit(), and that the destructor quits a loop   *)
(* that exists, but for the two chances above.                             *)
(***************************************************************************)
ThreadInv ==
    /\ TypeOK
    /\ ThreadTypeOK
    /\ QuitWakesPoll
    /\ DtorQuitsLiveLoop

(***************************************************************************)
(* The owner of the thread gets out of startLoop() and of the destructor,  *)
(* but for the races named there (EventLoopThread.cc:29-56).               *)
(***************************************************************************)
OwnerReturns ==
    /\ StartLoopReturns
    /\ ThreadDtorReturns
=============================================================================
