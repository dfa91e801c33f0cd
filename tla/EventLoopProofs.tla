--------------------------- MODULE EventLoopProofs ---------------------------
(***************************************************************************)
(* Theorems about EventLoop, for any number of threads, functors and       *)
(* channels: types, the two wakeup invariants, and the implementation of   *)
(* FunctorQueue.  Then about EventLoopThread: it uses its loop as EventLoop*)
(* allows, so that all of this holds there too, and its destructor quits a *)
(* loop that exists.                                                       *)
(***************************************************************************)
EXTENDS EventLoopThread, TLAPS

-----------------------------------------------------------------------------
(* Sequences.                                                              *)

\* What Append adds to the set of elements of pendingFunctors_.
LEMMA ElementsAppend ==
    ASSUME NEW S, NEW s \in Seq(S), NEW e \in S
    PROVE  Elements(Append(s, e)) = Elements(s) \cup {e}
<1>1. DOMAIN s = 1 .. Len(s) /\ DOMAIN Append(s, e) = 1 .. Len(s) + 1
    OBVIOUS
<1>2. \A i \in 1 .. Len(s) : Append(s, e)[i] = s[i]
    OBVIOUS
<1>3. Append(s, e)[Len(s) + 1] = e
    OBVIOUS
<1>4. Len(s) \in Nat
    OBVIOUS
<1>5. 1 .. Len(s) + 1 = (1 .. Len(s)) \cup {Len(s) + 1}
    BY <1>4
<1> QED
    BY <1>1, <1>2, <1>3, <1>5 DEF Elements

\* The queue after a push, after the swap and after the start of a functor,
\* as a sequence.
LEMMA ConcatAppend ==
    ASSUME NEW S, NEW s \in Seq(S), NEW u \in Seq(S), NEW e \in S
    PROVE  s \o Append(u, e) = Append(s \o u, e)
OBVIOUS

LEMMA ConcatEmpty ==
    ASSUME NEW S, NEW s \in Seq(S)
    PROVE  /\ s \o <<>> = s
           /\ <<>> \o s = s
OBVIOUS

LEMMA ConcatHeadTail ==
    ASSUME NEW S, NEW s \in Seq(S), NEW u \in Seq(S), s # <<>>
    PROVE  /\ s \o u # <<>>
           /\ Head(s \o u) = Head(s)
           /\ Tail(s \o u) = Tail(s) \o u
OBVIOUS

-----------------------------------------------------------------------------
(* Type correctness.                                                       *)

LEMMA TypeInit == Init => TypeOK
<1> SUFFICES ASSUME Init PROVE TypeOK
    OBVIOUS
<1> USE DEF Init
<1>1. loopPc \in LoopPc
    BY DEF LoopPc
<1>2. pendingFunctors_ \in Seq(Functor) /\ functors \in Seq(Functor)
    OBVIOUS
<1>3. /\ quit_ \in BOOLEAN /\ callingPendingFunctors_ \in BOOLEAN
      /\ wakeupFd \in BOOLEAN
    OBVIOUS
<1>4. pc \in [AllThreads -> {"idle", "pushed", "quitting"}]
    OBVIOUS
<1> QED
    BY <1>1, <1>2, <1>3, <1>4 DEF TypeOK

LEMMA TypeStep == TypeOK /\ [Next]_vars => TypeOK'
<1> SUFFICES ASSUME TypeOK, [Next]_vars PROVE TypeOK'
    OBVIOUS
<1> USE DEF TypeOK, LoopPc, AllChannels, Goto
<1>1. ASSUME NEW t \in AllThreads, NEW f \in Functor, QueueInLoop(t, f)
      PROVE  TypeOK'
    BY <1>1 DEF QueueInLoop
<1>2. ASSUME NEW t \in AllThreads, NEW f \in Functor, RunInLoop(t, f)
      PROVE  TypeOK'
    BY <1>2 DEF RunInLoop
<1>3. ASSUME NEW t \in AllThreads, Quit(t)
      PROVE  TypeOK'
    BY <1>3 DEF Quit
<1>4. ASSUME NEW t \in AllThreads, Wakeup(t)
      PROVE  TypeOK'
    BY <1>4 DEF Wakeup
<1>5. CASE Loop
    BY <1>5 DEF Loop
<1>6. CASE TestQuit
    BY <1>6 DEF TestQuit
<1>7. CASE Poll
    BY <1>7 DEF Poll
<1>8. CASE HandleRead
    BY <1>8 DEF HandleRead
<1>9. ASSUME NEW c \in Channel, HandleEvent(c)
      PROVE  TypeOK'
    BY <1>9 DEF HandleEvent
<1>10. CASE CallbackReturns
    BY <1>10 DEF CallbackReturns
<1>11. CASE DoPendingFunctors
    BY <1>11 DEF DoPendingFunctors
<1>12. CASE SwapFunctors
    BY <1>12 DEF SwapFunctors
<1>13. CASE RunFunctor
    BY <1>13 DEF RunFunctor
<1>14. CASE FunctorReturns
    BY <1>14 DEF FunctorReturns
<1>15. CASE PendingFunctorsDone
    BY <1>15 DEF PendingFunctorsDone
<1>16. CASE UNCHANGED vars
    BY <1>16 DEF vars
<1> QED
    BY <1>1, <1>2, <1>3, <1>4, <1>5, <1>6, <1>7, <1>8, <1>9, <1>10, <1>11,
       <1>12, <1>13, <1>14, <1>15, <1>16 DEF Next, Call, LoopStep

\* Every variable of EventLoop keeps its type.
THEOREM TypeCorrect == Spec => []TypeOK
BY TypeInit, TypeStep, PTL DEF Spec

-----------------------------------------------------------------------------
(* The wakeup invariants.                                                  *)

(***************************************************************************)
(* NoLostWakeup and QuitWakesPoll speak of poll only, but a functor that   *)
(* is pending in poll was pushed earlier: at any point after the swap of   *)
(* the batch, or outside loop().  WakeupInv says what holds there.  It     *)
(* demands nothing between poll and the swap, where the eventfd may have   *)
(* been read and the functor is about to be taken.                         *)
(***************************************************************************)
MissedBySwap == loopPc \in {"outside", "test", "poll", "run", "functor"}

WakeupInv ==
    /\ TypeOK
    /\ callingPendingFunctors_ <=> loopPc \in {"swap", "run", "functor"}
    /\ pc[LoopThread] # "idle" => loopPc = "functor"
    /\ functors # <<>> => loopPc \in {"run", "functor"}
    /\ MissedBySwap /\ Elements(pendingFunctors_) \ early # {} =>
           wakeupFd \/ \E t \in AllThreads : pc[t] = "pushed"
    /\ QuitWakesPoll

LEMMA WakeupInit == Init => WakeupInv
<1> SUFFICES ASSUME Init PROVE WakeupInv
    OBVIOUS
<1>1. TypeOK
    BY TypeInit
<1>2. Elements(pendingFunctors_) = {}
    BY DEF Init, Elements
<1> QED
    BY <1>1, <1>2 DEF Init, WakeupInv, QuitWakesPoll, AllThreads

LEMMA WakeupStep == WakeupInv /\ [Next]_vars => WakeupInv'
<1> SUFFICES ASSUME WakeupInv, [Next]_vars PROVE WakeupInv'
    OBVIOUS
<1>0. TypeOK /\ TypeOK'
    BY TypeStep DEF WakeupInv
<1> USE <1>0 DEF WakeupInv, MissedBySwap, QuitWakesPoll
<1>1. ASSUME NEW t \in AllThreads, NEW f \in Functor, QueueInLoop(t, f)
      PROVE  WakeupInv'
    <2> USE <1>1 DEF QueueInLoop, InUserCode, isInLoopThread, MustWakeup
    <2>1. Elements(pendingFunctors_') = Elements(pendingFunctors_) \cup {f}
        BY ElementsAppend DEF TypeOK
    <2>2. CASE MustWakeup(t)
        BY <2>2 DEF TypeOK
    <2>3. CASE ~MustWakeup(t)
        BY <2>1, <2>3 DEF TypeOK, looping_
    <2> QED
        BY <2>2, <2>3
<1>2. ASSUME NEW t \in AllThreads, NEW f \in Functor, RunInLoop(t, f)
      PROVE  WakeupInv'
    BY <1>2 DEF RunInLoop
<1>3. ASSUME NEW t \in AllThreads, Quit(t)
      PROVE  WakeupInv'
    BY <1>3 DEF Quit, InUserCode, isInLoopThread, TypeOK
<1>4. ASSUME NEW t \in AllThreads, Wakeup(t)
      PROVE  WakeupInv'
    BY <1>4 DEF Wakeup, TypeOK
<1>5. CASE Loop
    BY <1>5 DEF Loop, Goto
<1>6. CASE TestQuit
    BY <1>6 DEF TestQuit, Goto
<1>7. CASE Poll
    BY <1>7 DEF Poll, Goto
<1>8. CASE HandleRead
    BY <1>8 DEF HandleRead, Goto
<1>9. ASSUME NEW c \in Channel, HandleEvent(c)
      PROVE  WakeupInv'
    BY <1>9 DEF HandleEvent, Goto
<1>10. CASE CallbackReturns
    BY <1>10 DEF CallbackReturns, Goto
<1>11. CASE DoPendingFunctors
    BY <1>11 DEF DoPendingFunctors, Goto
<1>12. CASE SwapFunctors
    <2>1. Elements(pendingFunctors_') = {}
        BY <1>12 DEF SwapFunctors, Elements
    <2> QED
        BY <1>12, <2>1 DEF SwapFunctors, Goto
<1>13. CASE RunFunctor
    BY <1>13 DEF RunFunctor, Goto
<1>14. CASE FunctorReturns
    BY <1>14 DEF FunctorReturns, Goto
<1>15. CASE PendingFunctorsDone
    BY <1>15 DEF PendingFunctorsDone, Goto
<1>16. CASE UNCHANGED vars
    BY <1>16 DEF vars
<1> QED
    BY <1>1, <1>2, <1>3, <1>4, <1>5, <1>6, <1>7, <1>8, <1>9, <1>10, <1>11,
       <1>12, <1>13, <1>14, <1>15, <1>16 DEF Next, Call, LoopStep

LEMMA WakeupInvariant == Spec => []WakeupInv
BY WakeupInit, WakeupStep, PTL DEF Spec

\* No wakeup is lost: a functor pending while the loop sits in poll has the
\* eventfd readable, or about to be written by the thread that pushed.
THEOREM NoWakeupIsLost == Spec => []NoLostWakeup
<1>1. WakeupInv => NoLostWakeup
    BY DEF WakeupInv, MissedBySwap, NoLostWakeup
<1> QED
    BY <1>1, WakeupInvariant, PTL

\* quit() reaches a loop that is blocked in poll.
THEOREM QuitReachesPoll == Spec => []QuitWakesPoll
<1>1. WakeupInv => QuitWakesPoll
    BY DEF WakeupInv
<1> QED
    BY <1>1, WakeupInvariant, PTL

-----------------------------------------------------------------------------
(* Implementation of FunctorQueue.                                         *)

LEMMA QueueInit == Init => FQ!Init
<1> SUFFICES ASSUME Init PROVE FQ!Init
    OBVIOUS
<1>1. functors \o pendingFunctors_ = <<>>
    BY ConcatEmpty DEF Init
<1> QED
    BY <1>1 DEF Init, FQ!Init

LEMMA QueueStep == WakeupInv /\ [Next]_vars => [FQ!Next]_FQ!vars
<1> SUFFICES ASSUME WakeupInv, [Next]_vars PROVE [FQ!Next]_FQ!vars
    OBVIOUS
<1>0. pendingFunctors_ \in Seq(Functor) /\ functors \in Seq(Functor)
    BY DEF WakeupInv, TypeOK
<1>1. ASSUME NEW t \in AllThreads, NEW f \in Functor, QueueInLoop(t, f)
      PROVE  FQ!Next
    <2>1. FQ!Enqueue(f)
        BY <1>0, <1>1, ConcatAppend DEF QueueInLoop, FQ!Enqueue
    <2> QED
        BY <2>1 DEF FQ!Next
<1>2. ASSUME NEW t \in AllThreads, NEW f \in Functor, RunInLoop(t, f)
      PROVE  FQ!Next
    BY <1>2 DEF RunInLoop, FQ!Next, FQ!RunAtOnce
<1>3. CASE RunFunctor
    <2>1. FQ!StartOldest
        BY <1>0, <1>3, ConcatHeadTail DEF RunFunctor, FQ!StartOldest
    <2> QED
        BY <2>1 DEF FQ!Next
<1>4. CASE SwapFunctors
    <2>1. functors = <<>>
        BY <1>4 DEF SwapFunctors, Goto, WakeupInv
    <2> QED
        BY <1>0, <1>4, <2>1, ConcatEmpty DEF SwapFunctors, FQ!vars
<1>5. ASSUME UNCHANGED <<functors, pendingFunctors_, started>>
      PROVE  UNCHANGED FQ!vars
    BY <1>5 DEF FQ!vars
<1>6. ASSUME NEW t \in AllThreads, Quit(t) \/ Wakeup(t)
      PROVE  UNCHANGED FQ!vars
    BY <1>5, <1>6 DEF Quit, Wakeup
<1>7. ASSUME NEW c \in Channel, HandleEvent(c)
      PROVE  UNCHANGED FQ!vars
    BY <1>5, <1>7 DEF HandleEvent
<1>8. CASE Loop \/ TestQuit \/ Poll \/ HandleRead \/ CallbackReturns
    BY <1>5, <1>8 DEF Loop, TestQuit, Poll, HandleRead, CallbackReturns
<1>9. CASE DoPendingFunctors \/ FunctorReturns \/ PendingFunctorsDone
    BY <1>5, <1>9 DEF DoPendingFunctors, FunctorReturns, PendingFunctorsDone
<1>10. CASE UNCHANGED vars
    BY <1>5, <1>10 DEF vars
<1> QED
    BY <1>1, <1>2, <1>3, <1>4, <1>6, <1>7, <1>8, <1>9, <1>10
       DEF Next, Call, LoopStep

\* pendingFunctors_ and the batch of doPendingFunctors implement one
\* first-in first-out queue that loses and duplicates nothing.
THEOREM LoopImplementsFunctorQueue == Spec => ImplementsFunctorQueue
BY QueueInit, QueueStep, WakeupInvariant, PTL
   DEF Spec, ImplementsFunctorQueue, FQ!Spec

-----------------------------------------------------------------------------
(* EventLoopThread.                                                        *)

LEMMA ThreadUsesLoop == [ThreadNext]_allVars => [Next]_vars
<1> SUFFICES ASSUME [ThreadNext]_allVars PROVE [Next]_vars
    OBVIOUS
<1>1. CASE Bare \/ UNCHANGED allVars
    BY <1>1 DEF Bare, allVars
<1>2. CASE StartLoop \/ Dtor \/ LatchWait \/ TestLoop \/ Join
    BY <1>2 DEF StartLoop, Dtor, LatchWait, TestLoop, Join
<1>3. CASE RunInThread \/ Publish \/ Unpublish
    BY <1>3 DEF RunInThread, Publish, Unpublish
<1>4. CASE DtorQuit
    BY <1>4, OwnerAssumption DEF DtorQuit, Next, Call, AllThreads
<1>5. CASE EnterLoop
    BY <1>5 DEF EnterLoop, Next
<1>6. CASE InLoop
    BY <1>6 DEF InLoop, Next
<1>7. ASSUME NEW t \in AllThreads, UserCall(t) \/ ManagedWakeup(t)
      PROVE  Next
    BY <1>7 DEF UserCall, ManagedWakeup, Next, Call
<1> QED
    BY <1>1, <1>2, <1>3, <1>4, <1>5, <1>6, <1>7 DEF ThreadNext, OwnerStep, ThreadStep

\* The owner, the new thread and user code drive the loop as EventLoop says,
\* so that its theorems hold of the loop of an EventLoopThread.
THEOREM ThreadImplementsLoop == ThreadSpec => Spec
BY ThreadUsesLoop, PTL DEF ThreadSpec, ThreadInit, Spec

(***************************************************************************)
(* DtorQuitsLiveLoop speaks of a loop that has ended.  That it has is due  *)
(* to user code or to the destructor, because whoever sets quit_ is one of *)
(* the two, and the destructor has gone on to join() when it has.          *)
(***************************************************************************)
ThreadIInv ==
    /\ ThreadTypeOK
    /\ ~managed => ownerPc = "new" /\ threadPc = "none"
    /\ ownerPc = "new" => threadPc = "none"
    /\ threadPc \in {"none", "created"} => count_ = 1
    /\ managed /\ quit_ => userQuit \/ ownerPc \in {"join", "gone"}
    /\ threadPc \in {"returned", "done"} => quit_

\* The destructor begins when the owner is in no call, and calls quit() only.
OwnerInv ==
    /\ ownerPc \in {"quit", "gone"} => pc[Owner] = "idle"
    /\ ownerPc = "join" => pc[Owner] \in {"idle", "quitting"}

LEMMA ThreadIInit == ThreadInit => ThreadIInv
BY Zenon DEF ThreadInit, Init, ThreadIInv, ThreadTypeOK

\* loop() ends only by the test of quit_.
LEMMA LoopEndsByQuit == LoopStep => quit_' = quit_ /\ (~looping_' => quit_)
BY DEF LoopStep, looping_, Goto, TestQuit, Poll, HandleRead, HandleEvent, CallbackReturns,
       DoPendingFunctors, SwapFunctors, RunFunctor, FunctorReturns, PendingFunctorsDone

LEMMA ThreadIStep == TypeOK /\ ThreadIInv /\ [ThreadNext]_allVars => ThreadIInv'
<1> SUFFICES ASSUME TypeOK, ThreadIInv, [ThreadNext]_allVars PROVE ThreadIInv'
    OBVIOUS
<1> USE DEF ThreadIInv, ThreadTypeOK
<1>1. CASE Bare
    BY <1>1, Zenon DEF Bare, threadVars
<1>2. CASE StartLoop
    BY <1>2, Zenon DEF StartLoop, vars
<1>3. CASE Dtor
    BY <1>3, Zenon DEF Dtor, vars
<1>4. CASE LatchWait \/ TestLoop \/ Join
    BY <1>4 DEF LatchWait, TestLoop, Join, vars
<1>5. CASE DtorQuit
    BY <1>5, Zenon DEF DtorQuit, Quit
<1>6. CASE RunInThread
    BY <1>6 DEF RunInThread, vars
<1>7. CASE Publish
  <2>1. ownerPc' \in {ownerPc, "lock"} /\ (ownerPc # "wait" => ownerPc' = ownerPc)
        BY <1>7 DEF Publish
  <2>2. managed /\ threadPc = "callback" /\ threadPc' = "published" /\ loop_' = TRUE
        /\ UNCHANGED <<managed, count_, userQuit, quit_>>
        BY <1>7, Zenon DEF Publish, vars
  <2> QED
        BY <2>1, <2>2
<1>13. CASE Unpublish
    BY <1>13, Zenon DEF Unpublish, vars
<1>8. CASE EnterLoop
    BY <1>8, Zenon DEF EnterLoop, Loop
<1>9. CASE InLoop
    BY <1>9, LoopEndsByQuit DEF InLoop
<1>10. ASSUME NEW t \in AllThreads, UserCall(t) PROVE ThreadIInv'
  <2>1. quit_ \in BOOLEAN /\ (quit_ => quit_')
        BY <1>10 DEF UserCall, QueueInLoop, RunInLoop, Quit, TypeOK
  <2> QED
        BY <1>10, <2>1, Zenon DEF UserCall
<1>11. ASSUME NEW t \in AllThreads, ManagedWakeup(t) PROVE ThreadIInv'
    BY <1>11, Zenon DEF ManagedWakeup, Wakeup, threadVars
<1>12. CASE UNCHANGED allVars
    BY <1>12, Zenon DEF allVars, vars, threadVars
<1> QED
    BY <1>1, <1>2, <1>3, <1>4, <1>5, <1>6, <1>7, <1>8, <1>9, <1>10, <1>11, <1>12,
       <1>13 DEF ThreadNext, OwnerStep, ThreadStep

\* The loop leaves the calls of the threads alone.
LEMMA LoopKeepsCalls == LoopStep => pc' = pc
BY DEF LoopStep, TestQuit, Poll, HandleRead, HandleEvent, CallbackReturns, DoPendingFunctors,
       SwapFunctors, RunFunctor, FunctorReturns, PendingFunctorsDone

LEMMA OwnerStays ==
    TypeOK /\ ThreadIInv /\ OwnerInv /\ [ThreadNext]_allVars => OwnerInv'
<1> SUFFICES ASSUME TypeOK, ThreadIInv, OwnerInv, [ThreadNext]_allVars PROVE OwnerInv'
    OBVIOUS
<1>0. Owner \in AllThreads /\ Owner # LoopThread
    BY OwnerAssumption, LoopAssumption DEF AllThreads
<1>f. DOMAIN pc = AllThreads /\ pc = [t \in AllThreads |-> pc[t]]
    BY DEF TypeOK
<1>1. CASE Bare
    BY <1>1, Zenon DEF Bare, threadVars, ThreadIInv, OwnerInv
<1>2. CASE StartLoop \/ LatchWait \/ TestLoop
    BY <1>2 DEF StartLoop, LatchWait, TestLoop, vars, OwnerInv
<1>3. CASE Dtor
    BY <1>3, Zenon DEF Dtor, vars, OwnerInv
<1>4. CASE DtorQuit
    <2>1. pc' = [pc EXCEPT ![Owner] = "quitting"] /\ ownerPc' = "join"
        BY <1>0, <1>4, Zenon DEF DtorQuit, Quit, isInLoopThread
    <2> QED
        BY <1>0, <1>f, <2>1 DEF OwnerInv
<1>5. CASE Join
    BY <1>5, Zenon DEF Join, vars, OwnerInv
<1>6. CASE RunInThread \/ Unpublish
    BY <1>6, Zenon DEF RunInThread, Unpublish, vars, OwnerInv
<1>7. CASE Publish
    BY <1>7 DEF Publish, vars, OwnerInv
<1>8. CASE EnterLoop
    BY <1>8, Zenon DEF EnterLoop, Loop, OwnerInv
<1>9. CASE InLoop
    BY <1>9, LoopKeepsCalls, Zenon DEF InLoop, OwnerInv
<1>10. ASSUME NEW t \in AllThreads, UserCall(t) PROVE OwnerInv'
    <2>1. ownerPc' = ownerPc /\ (t = Owner => ownerPc = "serving")
        BY <1>0, <1>10, Zenon DEF UserCall, MayCall, isInLoopThread
    <2>2. pc' = pc \/ \E v : pc' = [pc EXCEPT ![t] = v]
        BY <1>10, Zenon DEF UserCall, QueueInLoop, RunInLoop, Quit
    <2>3. t # Owner => pc'[Owner] = pc[Owner]
        BY <1>0, <1>f, <2>2
    <2> QED
        BY <2>1, <2>3 DEF OwnerInv
<1>11. ASSUME NEW t \in AllThreads, ManagedWakeup(t) PROVE OwnerInv'
    <2>1. ownerPc' = ownerPc /\ pc' = [pc EXCEPT ![t] = "idle"]
        BY <1>11, Zenon DEF ManagedWakeup, Wakeup, threadVars
    <2>2. pc'[Owner] \in {pc[Owner], "idle"}
        BY <1>0, <1>f, <2>1
    <2> QED
        BY <2>1, <2>2 DEF OwnerInv
<1>12. CASE UNCHANGED allVars
    BY <1>12, Zenon DEF allVars, vars, threadVars, OwnerInv
<1> QED
    BY <1>1, <1>2, <1>3, <1>4, <1>5, <1>6, <1>7, <1>8, <1>9, <1>10, <1>11, <1>12
       DEF ThreadNext, OwnerStep, ThreadStep

(***************************************************************************)
(* The destructor quits a loop that exists, but for the two chances of     *)
(* EventLoopThread.cc:32 and EventLoop.cc:139, and the loop wakes up for   *)
(* quit(), with any number of threads.                                     *)
(***************************************************************************)
THEOREM ThreadIsQuitAlive == ThreadSpec => []ThreadInv
<1>1. ThreadSpec => []WakeupInv
    BY ThreadImplementsLoop, WakeupInvariant, PTL
<1>2. WakeupInv => TypeOK /\ QuitWakesPoll
    BY DEF WakeupInv
<1>3. ThreadIInv /\ OwnerInv => ThreadTypeOK /\ DtorQuitsLiveLoop
    BY Zenon DEF ThreadIInv, OwnerInv, DtorQuitsLiveLoop, ThreadTypeOK
<1>4. TypeOK /\ ThreadIInv /\ OwnerInv /\ QuitWakesPoll => ThreadInv
    BY <1>3 DEF ThreadInv, ThreadIInv
<1>5. ThreadInit => OwnerInv
    BY Zenon DEF ThreadInit, OwnerInv
<1> QED
    BY <1>1, <1>2, <1>4, <1>5, ThreadIInit, ThreadIStep, OwnerStays, PTL DEF ThreadSpec
=============================================================================
