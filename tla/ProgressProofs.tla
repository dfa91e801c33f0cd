--------------------------- MODULE ProgressProofs ---------------------------
(***************************************************************************)
(* Proofs for Acceptor, RpcChannel and ThreadPool: the safety invariants   *)
(* that the run of MCProgress checks, for any number of descriptors,       *)
(* connections, calls, threads and tasks.                                  *)
(***************************************************************************)
EXTENDS Acceptor, RpcChannel, ThreadPool, TLAPS

Sets == INSTANCE FiniteSetTheorems

\* What Append and Tail do to the elements of a sequence.
LEMMA AppendFacts ==
    ASSUME NEW S, NEW s \in Seq(S), NEW e \in S
    PROVE  /\ Append(s, e) \in Seq(S)
           /\ Len(Append(s, e)) = Len(s) + 1
           /\ DOMAIN Append(s, e) = 1 .. Len(s) + 1
           /\ \A i \in 1 .. Len(s) : Append(s, e)[i] = s[i]
           /\ Append(s, e)[Len(s) + 1] = e
OBVIOUS

LEMMA TailFacts ==
    ASSUME NEW S, NEW s \in Seq(S), s # <<>>
    PROVE  /\ Tail(s) \in Seq(S)
           /\ Head(s) = s[1] /\ s[1] \in S /\ 1 \in DOMAIN s
           /\ Len(s) > 0 /\ Len(Tail(s)) = Len(s) - 1
           /\ DOMAIN Tail(s) = 1 .. Len(s) - 1
           /\ \A i \in 1 .. Len(s) - 1 : Tail(s)[i] = s[i + 1]
OBVIOUS

-----------------------------------------------------------------------------
(* Acceptor, with EventLoopThreadPool::getNextLoop().                      *)

\* What the descriptors and the stages of handleRead() can be.
AcceptorTypeOK ==
    /\ at \in {"poll", "accept", "emfile", "idleClosed", "reopen"}
    /\ open \in Nat /\ backlog \in Nat /\ next_ \in Nat
    /\ loops_ \in {0, NumThreads}
    /\ assigned \in [0 .. NumThreads -> Nat]

\* The limit holds with the spare descriptor, whose place stays free while
\* nobody races.
SpareInv ==
    /\ open <= MaxOpen /\ (idleFd_ => open < MaxOpen)
    /\ at \in {"poll", "accept", "emfile"} /\ ~raced => idleFd_
    /\ at \in {"idleClosed", "reopen"} => ~idleFd_
    /\ at \in {"idleClosed", "reopen"} /\ ~raced => open < MaxOpen

\* The loops before next_ are one connection ahead of the others.
DealtInv ==
    /\ ~listenning_ => loops_ = 0 /\ at = "poll" /\ assigned[0] = 0
    /\ loops_ = 0 => next_ = 0 /\ \A l \in 1 .. NumThreads : assigned[l] = 0
    /\ loops_ # 0 =>
          /\ next_ < loops_ /\ assigned[0] = 0
          /\ \A l \in 1 .. loops_ :
                assigned[l] = assigned[loops_] + (IF l <= next_ THEN 1 ELSE 0)

\* Every system call keeps account of the spare descriptor.
LEMMA SpareStep ==
    AcceptorTypeOK /\ SpareInv /\ [AcceptorNext]_accVars => SpareInv'
<1> SUFFICES ASSUME AcceptorTypeOK, SpareInv, [AcceptorNext]_accVars
             PROVE  SpareInv'
    OBVIOUS
<1>h. HasFd <=> IF idleFd_ THEN open + 1 < MaxOpen ELSE open < MaxOpen
  BY AcceptorAssumption DEF HasFd, AcceptorTypeOK
<1> USE AcceptorAssumption DEF AcceptorTypeOK, SpareInv
<1>1. CASE Start \/ Arrive \/ GiveUp \/ Poll
  BY <1>1 DEF Start, Arrive, GiveUp, Poll
<1>2. CASE OthersOpen
  <2>1. ~raced' => ~raced /\ at \notin {"idleClosed", "reopen"}
    BY <1>2, Zenon DEF OthersOpen
  <2> QED
    BY <1>2, <1>h, <2>1 DEF OthersOpen
<1>3. CASE OthersClose
  BY <1>3 DEF OthersClose
<1>4. CASE Accept
  BY <1>4, <1>h DEF Accept, OnEmfile
<1>5. CASE CloseIdle
  BY <1>5 DEF CloseIdle
<1>6. CASE AcceptIdle
  BY <1>6 DEF AcceptIdle
<1>7. CASE OpenIdle
  BY <1>7, <1>h DEF OpenIdle, Reopens
<1>8. CASE UNCHANGED accVars
  BY <1>8 DEF accVars
<1> QED
  BY <1>1, <1>2, <1>3, <1>4, <1>5, <1>6, <1>7, <1>8 DEF AcceptorNext

\* The types, with the index of the next loop.
LEMMA AcceptorTypeStep ==
    AcceptorTypeOK /\ DealtInv /\ [AcceptorNext]_accVars => AcceptorTypeOK'
<1> SUFFICES ASSUME AcceptorTypeOK, DealtInv, [AcceptorNext]_accVars
             PROVE  AcceptorTypeOK'
    OBVIOUS
<1> USE AcceptorAssumption DEF AcceptorTypeOK
<1>1. CASE Start \/ Arrive \/ GiveUp \/ OthersClose \/ Poll
  BY <1>1, SMTT(30) DEF Start, Arrive, GiveUp, OthersClose, Poll
<1>2. CASE Accept
  <2>1. getNextLoop \in 0 .. NumThreads
    BY DEF getNextLoop, DealtInv
  <2>2. Wraps(next_ + 1) \in Nat
    BY DEF Wraps
  <2>3. /\ assigned' \in {assigned, [assigned EXCEPT ![getNextLoop] = @ + 1]}
        /\ next_' \in {next_, Wraps(next_ + 1)}
    BY <1>2, Zenon DEF Accept
  <2>4. /\ backlog' \in Nat /\ open' \in Nat /\ loops_' \in {0, NumThreads}
        /\ at' \in {"poll", "emfile"}
    BY <1>2 DEF Accept, OnEmfile
  <2>5. assigned' \in [0 .. NumThreads -> Nat]
    BY <2>1, <2>3
  <2> QED
    BY <2>2, <2>3, <2>4, <2>5
<1>3. CASE OthersOpen \/ CloseIdle \/ AcceptIdle \/ OpenIdle
  BY <1>3 DEF OthersOpen, CloseIdle, AcceptIdle, OpenIdle
<1>4. CASE UNCHANGED accVars
  BY <1>4 DEF accVars
<1> QED
  BY <1>1, <1>2, <1>3, <1>4 DEF AcceptorNext

\* getNextLoop() keeps the loops even.
LEMMA DealtStep ==
    AcceptorTypeOK /\ DealtInv /\ [AcceptorNext]_accVars => DealtInv'
<1> SUFFICES ASSUME AcceptorTypeOK, DealtInv, [AcceptorNext]_accVars
             PROVE  DealtInv'
    OBVIOUS
<1> USE AcceptorAssumption DEF AcceptorTypeOK, DealtInv
<1>1. CASE Start
  BY <1>1 DEF Start
<1>2. CASE Accept
  BY <1>2, SMTT(60) DEF Accept, getNextLoop, Wraps, HasFd, OnEmfile
<1>3. CASE Arrive \/ GiveUp \/ OthersOpen \/ OthersClose
  BY <1>3 DEF Arrive, GiveUp, OthersOpen, OthersClose
<1>4. CASE Poll \/ CloseIdle \/ AcceptIdle \/ OpenIdle
  BY <1>4 DEF Poll, CloseIdle, AcceptIdle, OpenIdle
<1>5. CASE UNCHANGED accVars
  BY <1>5 DEF accVars
<1> QED
  BY <1>1, <1>2, <1>3, <1>4, <1>5 DEF AcceptorNext

\* While nobody takes the place of the spare descriptor it is back when
\* handleRead() returns, and connections are dealt out evenly
\* (Acceptor.cc:57-91, EventLoopThreadPool.cc:57-70), for any number of
\* descriptors, loops and connections.
THEOREM AcceptorCorrect == AcceptorSpec => []AcceptorInv
<1> DEFINE Ind == AcceptorTypeOK /\ SpareInv /\ DealtInv
<1>1. AcceptorInit => Ind
  <2> SUFFICES ASSUME AcceptorInit PROVE Ind
      OBVIOUS
  <2> USE AcceptorAssumption DEF AcceptorInit
  <2>1. AcceptorTypeOK
    BY DEF AcceptorTypeOK
  <2>2. SpareInv
    BY DEF SpareInv
  <2>3. DealtInv
    BY DEF DealtInv
  <2> QED
    BY <2>1, <2>2, <2>3
<1>2. Ind /\ [AcceptorNext]_accVars => Ind'
  BY SpareStep, AcceptorTypeStep, DealtStep
<1>3. Ind => AcceptorInv
  <2> SUFFICES ASSUME Ind PROVE AcceptorInv
      OBVIOUS
  <2>1. IdleFdKept
    BY DEF IdleFdKept, SpareInv, AcceptorTypeOK
  <2>2. LoopsEven
    BY AcceptorAssumption DEF LoopsEven, DealtInv, AcceptorTypeOK
  <2> QED
    BY <2>1, <2>2 DEF AcceptorInv
<1> HIDE DEF Ind
<1> QED
  BY <1>1, <1>2, <1>3, PTL DEF AcceptorSpec

-----------------------------------------------------------------------------
(* ThreadPool.                                                             *)

PoolTypeOK ==
    /\ queue_ \in Seq(Nat) /\ started \in Seq(Nat) /\ ntaken \in Nat
    /\ task \in [Worker -> Nat]
    /\ DOMAIN wpc = Worker /\ DOMAIN rpc = Caller

\* Workers that start() has not started stay where they are, and a pool without
\* threads runs its tasks in run().
NoThreadsInv ==
    /\ \A w \in Worker : wpc[w] # "test" => w \in threads_
    /\ threads_ = {} => queue_ = <<>> /\ \A c \in Caller : rpc[c] = "idle"

\* The queue goes on where the tasks that have left it end.
NumberedInv ==
    /\ \A i \in DOMAIN queue_ : queue_[i] = ntaken + i
    /\ maxQueueSize_ > 0 => Len(queue_) <= maxQueueSize_

\* A task that has left the queue has started or is held, and one of the two.
HeldInv ==
    /\ \A i \in DOMAIN started : started[i] \in 1 .. ntaken
    /\ \A w \in Holding : task[w] \in 1 .. ntaken
    /\ \A n \in 1 .. ntaken : \/ \E i \in DOMAIN started : started[i] = n
                              \/ \E w \in Holding : task[w] = n
    /\ \A i, j \in DOMAIN started : started[i] = started[j] => i = j
    /\ \A w \in Holding, i \in DOMAIN started : task[w] # started[i]
    /\ \A v, w \in Holding : task[v] = task[w] => v = w

\* One worker starts what it has taken before it takes another task.
Alone == \A v, w \in threads_ : v = w

AloneInv ==
    Alone => /\ \A i \in DOMAIN started : started[i] = i
             /\ Holding = {} => Len(started) = ntaken
             /\ \A w \in Holding : task[w] = ntaken /\ Len(started) = ntaken - 1

PoolInd == PoolTypeOK /\ NoThreadsInv /\ NumberedInv /\ HeldInv /\ AloneInv

\* notify() and notifyAll() keep the threads that do not wait where they are.
LEMMA NotifiedOthers ==
    ASSUME NEW pc, NEW cond, NEW to, NEW q \in Notified(pc, cond, to)
    PROVE  /\ DOMAIN q = DOMAIN pc
           /\ \A t \in DOMAIN pc : pc[t] # cond => q[t] = pc[t]
           /\ \A t \in DOMAIN pc : q[t] \in {pc[t], to}
BY DEF Notified

\* What leaves tasks, queue and holders alone.
Kept == /\ UNCHANGED <<threads_, queue_, task, ntaken, started>>
        /\ DOMAIN wpc' = Worker /\ DOMAIN rpc' = Caller
        /\ \A w \in Worker : wpc'[w] = "taken" <=> wpc[w] = "taken"
        /\ \A w \in Worker : wpc'[w] # "test" => w \in threads_
        /\ threads_ = {} => \A c \in Caller : rpc'[c] = "idle"

LEMMA KeptPool == PoolInd /\ Kept => PoolInd'
<1> SUFFICES ASSUME PoolInd, Kept PROVE PoolInd'
    OBVIOUS
<1>1. Holding' = Holding
    BY DEF Kept, Holding
<1>2. PoolTypeOK' /\ NoThreadsInv' /\ NumberedInv'
    BY DEF Kept, PoolInd, PoolTypeOK, NoThreadsInv, NumberedInv
<1>3. HeldInv' /\ AloneInv'
    BY <1>1 DEF Kept, PoolInd, HeldInv, AloneInv, Alone
<1> QED
    BY <1>2, <1>3 DEF PoolInd

\* A pool without threads.
LEMMA DirectStep ==
    ASSUME PoolInd, NEW c \in Caller, CallRun(c), threads_ = {} PROVE PoolInd'
<1>1. /\ ntaken' = ntaken + 1 /\ started' = Append(started, ntaken + 1)
      /\ UNCHANGED <<threads_, queue_, wpc, task, rpc>>
    BY DEF CallRun
<1>2. queue_ = <<>> /\ Holding = {} /\ Holding' = {} /\ Alone /\ Alone'
    BY <1>1 DEF PoolInd, PoolTypeOK, NoThreadsInv, Holding, Alone
<1>3. ntaken \in Nat /\ started \in Seq(Nat) /\ Len(started) = ntaken
    BY <1>2 DEF PoolInd, PoolTypeOK, AloneInv
<1>4. \A i \in DOMAIN started : started[i] = i
    BY <1>2 DEF PoolInd, AloneInv
<1>5. /\ started' \in Seq(Nat) /\ Len(started') = ntaken + 1
      /\ DOMAIN started' = 1 .. ntaken + 1
    BY <1>1, <1>3, AppendFacts
<1>6. \A i \in DOMAIN started' : started'[i] = i
    BY <1>1, <1>3, <1>4, <1>5, AppendFacts
<1>7. PoolTypeOK' /\ NoThreadsInv'
    BY <1>1, <1>3, <1>5 DEF PoolInd, PoolTypeOK, NoThreadsInv
<1>8. NumberedInv'
    BY <1>1, <1>2 DEF PoolInd, NumberedInv
<1>9. HeldInv'
    BY <1>1, <1>2, <1>3, <1>5, <1>6 DEF HeldInv
<1>10. AloneInv'
    BY <1>1, <1>2, <1>5, <1>6 DEF AloneInv
<1> QED
    BY <1>7, <1>8, <1>9, <1>10 DEF PoolInd

\* run() puts a task in at the end.
LEMMA RunStep == ASSUME PoolInd, NEW c \in Caller, run(c) PROVE PoolInd'
<1>1. threads_ # {} /\ UNCHANGED <<threads_, task, ntaken, started>>
    BY DEF run, PoolInd, NoThreadsInv
<1>2. /\ DOMAIN wpc' = Worker /\ DOMAIN rpc' = Caller
      /\ \A w \in Worker : wpc'[w] = "taken" <=> wpc[w] = "taken"
      /\ \A w \in Worker : wpc'[w] # "test" => w \in threads_
  <2>1. DOMAIN rpc' = Caller
    BY DEF run, PoolInd, PoolTypeOK
  <2>2. wpc' = wpc \/ wpc' \in Notified(wpc, "notEmpty", "take")
    BY DEF run, Wakes
  <2>3. CASE wpc' = wpc
    BY <2>1, <2>3 DEF PoolInd, PoolTypeOK, NoThreadsInv
  <2>4. CASE wpc' \in Notified(wpc, "notEmpty", "take")
    <3>1. /\ DOMAIN wpc' = DOMAIN wpc
          /\ \A t \in DOMAIN wpc : wpc[t] # "notEmpty" => wpc'[t] = wpc[t]
          /\ \A t \in DOMAIN wpc : wpc'[t] \in {wpc[t], "take"}
      BY <2>4, NotifiedOthers
    <3> QED
      BY <2>1, <3>1 DEF PoolInd, PoolTypeOK, NoThreadsInv
  <2> QED
    BY <2>2, <2>3, <2>4
<1>3. CASE isFull
  <2>1. Kept
    BY <1>1, <1>2, <1>3 DEF run, Kept
  <2> QED
    BY <2>1, KeptPool
<1>4. CASE ~isFull
  <2>0. Holding' = Holding
    BY <1>2 DEF Holding
  <2>1. queue_' = Append(queue_, ntaken + Len(queue_) + 1)
    BY <1>4 DEF run, Entered
  <2>2. queue_ \in Seq(Nat) /\ Len(queue_) \in Nat /\ ntaken \in Nat
    BY DEF PoolInd, PoolTypeOK
  <2>3. queue_' \in Seq(Nat) /\ Len(queue_') = Len(queue_) + 1
    BY <2>1, <2>2, AppendFacts
  <2>4. \A i \in DOMAIN queue_' : queue_'[i] = ntaken + i
    <3>1. \A i \in 1 .. Len(queue_) : queue_[i] = ntaken + i
      BY <2>2 DEF PoolInd, NumberedInv
    <3>2. /\ DOMAIN queue_' = 1 .. Len(queue_) + 1
          /\ \A i \in 1 .. Len(queue_) : queue_'[i] = queue_[i]
          /\ queue_'[Len(queue_) + 1] = ntaken + Len(queue_) + 1
      BY <2>1, <2>2, AppendFacts
    <3>3. \A i \in 1 .. Len(queue_) + 1 : i \in 1 .. Len(queue_) \/ i = Len(queue_) + 1
      BY <2>2
    <3>4. queue_'[Len(queue_) + 1] = ntaken + (Len(queue_) + 1)
      BY <2>2, <3>2
    <3> QED
      BY <3>1, <3>2, <3>3, <3>4
  <2>5. maxQueueSize_ > 0 => Len(queue_') <= maxQueueSize_
    BY <1>4, <2>2, <2>3, PoolAssumption DEF isFull
  <2>6. PoolTypeOK' /\ NoThreadsInv'
    BY <1>1, <1>2, <2>3 DEF PoolInd, PoolTypeOK, NoThreadsInv
  <2>7. NumberedInv'
    BY <1>1, <2>4, <2>5 DEF NumberedInv
  <2>8. HeldInv' /\ AloneInv'
    BY <1>1, <2>0 DEF PoolInd, HeldInv, AloneInv, Alone
  <2> QED
    BY <2>6, <2>7, <2>8 DEF PoolInd
<1> QED
  BY <1>3, <1>4

\* take() of a task: it is the next one, and its worker holds it now.
LEMMA TakeStep == ASSUME PoolInd, NEW w \in Worker, take(w), queue_ # <<>> PROVE PoolInd'
<1>1. /\ task' = [task EXCEPT ![w] = Head(queue_)] /\ queue_' = Tail(queue_)
      /\ ntaken' = ntaken + 1 /\ wpc' = [wpc EXCEPT ![w] = "taken"]
      /\ UNCHANGED <<threads_, started>> /\ wpc[w] = "take" /\ rpc' \in Announces
  BY DEF take, Taken
<1>2. /\ queue_ \in Seq(Nat) /\ started \in Seq(Nat) /\ ntaken \in Nat
      /\ task \in [Worker -> Nat] /\ DOMAIN wpc = Worker
  BY DEF PoolInd, PoolTypeOK
<1>3. w \in threads_ /\ w \notin Holding
  BY <1>1 DEF PoolInd, NoThreadsInv, Holding
<1>4. Holding' = Holding \cup {w} /\ Holding \subseteq threads_
  BY <1>1, <1>2 DEF Holding, PoolInd, NoThreadsInv
<1>5. Head(queue_) = ntaken + 1
  <2>1. Head(queue_) = queue_[1] /\ 1 \in DOMAIN queue_
    BY <1>2, TailFacts
  <2> QED
    BY <2>1 DEF PoolInd, NumberedInv
<1>6. task'[w] = ntaken + 1 /\ \A v \in Holding : v # w /\ task'[v] = task[v]
  BY <1>1, <1>2, <1>3, <1>5 DEF Holding
<1>7. PoolTypeOK'
  <2>1. DOMAIN rpc' = Caller
    BY <1>1, NotifiedOthers DEF Announces, PoolInd, PoolTypeOK
  <2>2. queue_' \in Seq(Nat)
    BY <1>1, <1>2, TailFacts
  <2>3. task' \in [Worker -> Nat] /\ DOMAIN wpc' = Worker
    BY <1>1, <1>2, <1>5
  <2> QED
    BY <1>1, <1>2, <2>1, <2>2, <2>3 DEF PoolTypeOK
<1>8. NoThreadsInv'
  BY <1>1, <1>2, <1>3 DEF PoolInd, NoThreadsInv
<1>9. NumberedInv'
  <2>1. Len(queue_') = Len(queue_) - 1 /\ DOMAIN queue_' = 1 .. Len(queue_) - 1
        /\ \A i \in 1 .. Len(queue_) - 1 : queue_'[i] = queue_[i + 1]
    BY <1>1, <1>2, TailFacts
  <2>2. \A i \in 1 .. Len(queue_) : queue_[i] = ntaken + i
    BY <1>2 DEF PoolInd, NumberedInv
  <2>3. maxQueueSize_ > 0 => Len(queue_) <= maxQueueSize_
    BY DEF PoolInd, NumberedInv
  <2>4. Len(queue_) \in Nat
    BY <1>2
  <2>5. \A i \in DOMAIN queue_' : queue_'[i] = ntaken' + i
    BY <1>1, <1>2, <2>1, <2>2, <2>4
  <2> QED
    BY <2>1, <2>3, <2>4, <2>5, PoolAssumption DEF NumberedInv
<1>10. HeldInv'
  <2> USE DEF HeldInv
  <2>1. HeldInv
    BY DEF PoolInd
  <2>2. \A n \in 1 .. ntaken' : n \in 1 .. ntaken \/ n = ntaken + 1
    BY <1>1, <1>2
  <2>3. /\ \A i \in DOMAIN started' : started'[i] \in 1 .. ntaken'
        /\ \A v \in Holding' : task'[v] \in 1 .. ntaken'
    BY <1>1, <1>2, <1>4, <1>6, <2>1
  <2>4. \A n \in 1 .. ntaken' : \/ \E i \in DOMAIN started' : started'[i] = n
                               \/ \E v \in Holding' : task'[v] = n
    BY <1>1, <1>4, <1>6, <2>1, <2>2
  <2>5. \A v \in Holding', i \in DOMAIN started' : task'[v] # started'[i]
    BY <1>1, <1>2, <1>4, <1>6, <2>1
  <2>6. \A u, v \in Holding' : task'[u] = task'[v] => u = v
    BY <1>1, <1>2, <1>4, <1>6, <2>1
  <2> QED
    BY <1>1, <2>1, <2>3, <2>4, <2>5, <2>6
<1>11. AloneInv'
  <2>1. Alone => Holding = {} /\ Holding' = {w}
    BY <1>3, <1>4 DEF Alone
  <2>2. Alone' <=> Alone
    BY <1>1 DEF Alone
  <2>3. Alone => Len(started) = ntaken /\ \A i \in DOMAIN started : started[i] = i
    BY <2>1 DEF PoolInd, AloneInv
  <2>4. Alone => Len(started') = ntaken' - 1 /\ \A i \in DOMAIN started' : started'[i] = i
    BY <1>1, <1>2, <2>3
  <2>5. Alone => \A v \in Holding' : v = w /\ task'[v] = ntaken'
    BY <1>1, <1>6, <2>1
  <2> QED
    BY <1>4, <2>2, <2>4, <2>5 DEF AloneInv
<1> QED
  BY <1>7, <1>8, <1>9, <1>10, <1>11 DEF PoolInd

\* task() begins, in whatever order the workers get to it.
LEMMA StartStep == ASSUME PoolInd, NEW w \in Worker, StartTask(w) PROVE PoolInd'
<1>1. /\ started' = Append(started, task[w]) /\ task' = [task EXCEPT ![w] = 0]
      /\ wpc' = [wpc EXCEPT ![w] = "task"] /\ wpc[w] = "taken"
      /\ UNCHANGED <<threads_, queue_, rpc, ntaken>>
  BY DEF StartTask
<1>2. /\ queue_ \in Seq(Nat) /\ started \in Seq(Nat) /\ ntaken \in Nat
      /\ task \in [Worker -> Nat] /\ DOMAIN wpc = Worker
  BY DEF PoolInd, PoolTypeOK
<1>3. w \in Holding /\ w \in threads_
  BY <1>1 DEF PoolInd, NoThreadsInv, Holding
<1>4. Holding' = Holding \ {w} /\ Holding \subseteq threads_ /\ Holding \subseteq Worker
  BY <1>1, <1>2 DEF Holding, PoolInd, NoThreadsInv
<1>5. \A v \in Holding' : v \in Holding /\ v # w /\ task'[v] = task[v]
  BY <1>1, <1>2, <1>4
<1>6. /\ started' \in Seq(Nat) /\ Len(started') = Len(started) + 1
      /\ DOMAIN started' = 1 .. Len(started) + 1
      /\ \A i \in 1 .. Len(started) : started'[i] = started[i]
      /\ started'[Len(started) + 1] = task[w]
  BY <1>1, <1>2, AppendFacts
<1>7. DOMAIN started = 1 .. Len(started) /\ Len(started) \in Nat
  BY <1>2
<1>8. PoolTypeOK'
  BY <1>1, <1>2, <1>6 DEF PoolInd, PoolTypeOK
<1>9. NoThreadsInv' /\ NumberedInv'
  BY <1>1, <1>2, <1>3 DEF PoolInd, NoThreadsInv, NumberedInv
<1>10. HeldInv'
  <2> USE DEF HeldInv
  <2>1. HeldInv
    BY DEF PoolInd
  <2>2. \A i \in DOMAIN started' : i \in DOMAIN started \/ i = Len(started) + 1
    BY <1>6, <1>7
  <2>3. /\ \A i \in DOMAIN started : i \in DOMAIN started' /\ started'[i] = started[i]
        /\ Len(started) + 1 \in DOMAIN started'
    BY <1>6, <1>7
  <2>4. /\ \A i \in DOMAIN started' : started'[i] \in 1 .. ntaken'
        /\ \A v \in Holding' : task'[v] \in 1 .. ntaken'
    BY <1>1, <1>3, <1>5, <1>6, <2>1, <2>2, <2>3
  <2>5. \A n \in 1 .. ntaken' : \/ \E i \in DOMAIN started' : started'[i] = n
                               \/ \E v \in Holding' : task'[v] = n
    <3> SUFFICES ASSUME NEW n \in 1 .. ntaken
                 PROVE  \/ \E i \in DOMAIN started' : started'[i] = n
                        \/ \E v \in Holding' : task'[v] = n
      BY <1>1
    <3>1. CASE \E i \in DOMAIN started : started[i] = n
      BY <3>1, <2>3
    <3>2. CASE task[w] = n
      BY <3>2, <1>6, <2>3
    <3>3. ASSUME NEW v \in Holding, task[v] = n, v # w
          PROVE  \E u \in Holding' : task'[u] = n
      BY <3>3, <1>4, <1>5
    <3> QED
      BY <2>1, <3>1, <3>2, <3>3
  <2>6. \A i, j \in DOMAIN started' : started'[i] = started'[j] => i = j
    BY <1>3, <1>6, <2>1, <2>2, <2>3
  <2>7. \A v \in Holding', i \in DOMAIN started' : task'[v] # started'[i]
    BY <1>3, <1>5, <1>6, <2>1, <2>2, <2>3
  <2>8. \A u, v \in Holding' : task'[u] = task'[v] => u = v
    BY <1>5, <2>1
  <2> QED
    BY <2>4, <2>5, <2>6, <2>7, <2>8
<1>11. AloneInv'
  <2>1. Alone' <=> Alone
    BY <1>1 DEF Alone
  <2>2. Alone => Holding' = {}
    BY <1>3, <1>4 DEF Alone
  <2>3. Alone => /\ \A i \in DOMAIN started : started[i] = i
                 /\ task[w] = ntaken /\ Len(started) = ntaken - 1
    BY <1>3 DEF PoolInd, AloneInv
  <2>4. Alone => Len(started') = ntaken' /\ \A i \in DOMAIN started' : started'[i] = i
    BY <1>1, <1>2, <1>6, <1>7, <2>3
  <2> QED
    BY <2>1, <2>2, <2>4 DEF AloneInv
<1> QED
  BY <1>8, <1>9, <1>10, <1>11 DEF PoolInd

\* Every step of the pool, of its callers and of stop().
LEMMA PoolStep == PoolInd /\ [PoolNext]_poolVars => PoolInd'
<1> SUFFICES ASSUME PoolInd, [PoolNext]_poolVars PROVE PoolInd'
    OBVIOUS
<1>t. /\ DOMAIN wpc = Worker /\ DOMAIN rpc = Caller /\ task \in [Worker -> Nat]
      /\ \A w \in Worker : wpc[w] # "test" => w \in threads_
      /\ threads_ = {} => \A c \in Caller : rpc[c] = "idle"
  BY DEF PoolInd, PoolTypeOK, NoThreadsInv
<1>1. ASSUME NEW c \in Caller, CallRun(c) PROVE PoolInd'
  <2>1. threads_ # {} => Kept
    BY <1>t, <1>1 DEF CallRun, Kept
  <2> QED
    BY <1>1, <2>1, DirectStep, KeptPool
<1>2. ASSUME NEW c \in Caller, run(c) PROVE PoolInd'
  BY <1>2, RunStep
<1>3. ASSUME NEW w \in Worker, Test(w) PROVE PoolInd'
  <2>1. Kept
    BY <1>t, <1>3 DEF Test, Kept
  <2> QED
    BY <2>1, KeptPool
<1>4. ASSUME NEW w \in Worker, take(w) PROVE PoolInd'
  <2>1. queue_ = <<>> => Kept
    BY <1>t, <1>4 DEF take, Kept
  <2> QED
    BY <1>4, <2>1, TakeStep, KeptPool
<1>5. ASSUME NEW w \in Worker, TaskReturns(w) PROVE PoolInd'
  <2>1. Kept
    BY <1>t, <1>5 DEF TaskReturns, Kept
  <2> QED
    BY <2>1, KeptPool
<1>6. CASE SpuriousWakeup
  <2>1. Kept
    BY <1>t, <1>6 DEF SpuriousWakeup, Kept
  <2> QED
    BY <2>1, KeptPool
<1>7. CASE Stop
  <2>1. Kept
    BY <1>t, <1>7 DEF Stop, NotifiesAll, NotifiedAll, Kept
  <2> QED
    BY <2>1, KeptPool
<1>8. CASE Joined \/ UNCHANGED poolVars
  <2>1. Kept
    BY <1>t, <1>8 DEF Joined, poolVars, Kept
  <2> QED
    BY <2>1, KeptPool
<1>9. ASSUME NEW w \in Worker, StartTask(w) PROVE PoolInd'
  BY <1>9, StartStep
<1> QED
  BY <1>1, <1>2, <1>3, <1>4, <1>5, <1>6, <1>7, <1>8, <1>9 DEF PoolNext

\* Tasks leave the queue in the order in which they entered it, start once each,
\* and are overtaken only while a worker holds them, with one worker never; the
\* queue stays within maxQueueSize_ (ThreadPool.cc:71-131), for any number of
\* workers and callers.
THEOREM PoolKeepsOrder == PoolSpec => []PoolInOrder
<1>1. PoolInit => PoolInd
  <2> SUFFICES ASSUME PoolInit PROVE PoolInd
    OBVIOUS
  <2>1. PoolTypeOK /\ NoThreadsInv /\ NumberedInv /\ Holding = {}
    BY PoolAssumption
       DEF PoolInit, PoolTypeOK, NoThreadsInv, NumberedInv, Holding
  <2>2. HeldInv /\ AloneInv
    BY <2>1 DEF PoolInit, HeldInv, AloneInv
  <2> QED
    BY <2>1, <2>2 DEF PoolInd
<1>2. PoolInd => PoolInOrder
  <2> SUFFICES ASSUME PoolInd PROVE PoolInOrder
    OBVIOUS
  <2>1. Range(started) \cup {task[w] : w \in Holding} = 1 .. ntaken
    <3>1. /\ \A i \in DOMAIN started : started[i] \in 1 .. ntaken
          /\ \A w \in Holding : task[w] \in 1 .. ntaken
          /\ \A n \in 1 .. ntaken : \/ \E i \in DOMAIN started : started[i] = n
                                    \/ \E w \in Holding : task[w] = n
      BY Zenon DEF PoolInd, HeldInv
    <3>2. Range(started) = {started[i] : i \in DOMAIN started}
      BY Zenon DEF Range
    <3> QED
      BY <3>1, <3>2, Zenon
  <2>2. \A w \in Holding : /\ task[w] \notin Range(started)
                           /\ \A v \in Holding : task[v] = task[w] => v = w
    BY DEF PoolInd, HeldInv, Range
  <2> QED
    BY <2>1, <2>2 DEF PoolInd, NumberedInv, HeldInv, AloneInv, Alone, PoolInOrder
<1> QED
  BY <1>1, <1>2, PoolStep, PTL DEF PoolSpec

-----------------------------------------------------------------------------
(* RpcChannel.                                                             *)

Rpcs == 1 .. Len(asked)
Answer(n) == IF services_[asked[n]] = "ok" THEN n ELSE 0

\* The n-th call has the id n, on its way through CallMethod() and on the wire.
RpcTypeOK ==
    /\ asked \in Seq(DOMAIN services_) /\ id_ = Len(asked)
    /\ calling \in [RpcCaller -> [at : 0 .. 2, id : Nat, n : Nat]]
    /\ DOMAIN outstandings_ \subseteq Rpcs
    /\ \A n \in DOMAIN outstandings_ : outstandings_[n] = n
    /\ ran \in Seq([n : Nat, saw : Nat])
    /\ deleted \subseteq Rpcs
    /\ requests \in Seq([id : Nat, n : Nat]) /\ responses \in Seq([id : Nat, n : Nat])

CallingInv ==
    /\ \A c \in RpcCaller : IF calling[c].at = 0 THEN calling[c].n = 0
                            ELSE calling[c].n \in Rpcs /\ calling[c].id = calling[c].n
    /\ \A c, d \in RpcCaller : c # d /\ calling[c].at > 0 => calling[c].n # calling[d].n

WireInv ==
    /\ \A i \in DOMAIN requests : requests[i].n \in Rpcs /\ requests[i].id = requests[i].n
    /\ \A r \in serving : /\ r \in [id : Nat, n : Nat]
                          /\ r.n \in Rpcs /\ r.id = r.n /\ Answer(r.n) = r.n
    /\ \A i \in DOMAIN responses : responses[i].id \in Rpcs
                                   /\ responses[i].n = Answer(responses[i].id)

\* Where a call is.
Calling(n) == \E c \in RpcCaller : calling[c].n = n /\ calling[c].at = 1
Waiting(n) == n \in DOMAIN outstandings_
Ran(n) == \E i \in DOMAIN ran : ran[i].n = n
Gone(n) == n \in deleted

\* It is in one place, and its closure has run at most once.
OnePlace(n) ==
    /\ Calling(n) \/ Waiting(n) \/ Ran(n) \/ Gone(n)
    /\ Calling(n) => ~Waiting(n) /\ ~Ran(n) /\ ~Gone(n)
    /\ Waiting(n) => ~Ran(n) /\ ~Gone(n)
    /\ Ran(n) => ~Gone(n)

RanInv ==
    /\ \A i, j \in DOMAIN ran : ran[i].n = ran[j].n => i = j
    /\ \A i \in DOMAIN ran : ran[i].n \in Rpcs /\ ran[i].saw = Answer(ran[i].n)

RpcInd == RpcTypeOK /\ CallingInv /\ WireInv /\ RanInv /\ \A n \in Rpcs : OnePlace(n)

\* Before the first call.
LEMMA RpcInitInd == RpcInit => RpcInd
BY DEF RpcInit, RpcInd, RpcTypeOK, CallingInv, WireInv, RanInv, Rpcs, NoCall

\* What a call of the client's threads may find: one place each.
LEMMA CountOne ==
    ASSUME RpcInd, NEW n \in Rpcs
    PROVE  1 = Cardinality({c \in RpcCaller : calling[c].n = n /\ Steps[calling[c].at] = "register"})
               + Cardinality({i \in DOMAIN outstandings_ : outstandings_[i] = n})
               + Cardinality({i \in DOMAIN ran : ran[i].n = n})
               + Cardinality(deleted \cap {n})
<1> DEFINE A == {c \in RpcCaller : calling[c].n = n /\ Steps[calling[c].at] = "register"}
           B == {i \in DOMAIN outstandings_ : outstandings_[i] = n}
           C == {i \in DOMAIN ran : ran[i].n = n}
           D == deleted \cap {n}
<1>0. /\ \A S : Sets!Cardinality(S) = Cardinality(S)
  BY DEF Sets!Cardinality, Cardinality
<1>1. Cardinality({}) = 0 /\ \A x : Cardinality({x}) = 1
  BY <1>0, Sets!FS_EmptySet, Sets!FS_Singleton
<1>2. n \in Nat \ {0}
  BY DEF Rpcs, RpcInd, RpcTypeOK
<1>3. \A c \in RpcCaller : c \in A <=> calling[c].n = n /\ calling[c].at = 1
  <2> SUFFICES ASSUME NEW c \in RpcCaller
               PROVE  c \in A <=> calling[c].n = n /\ calling[c].at = 1
      OBVIOUS
  <2>1. calling[c].at \in 0 .. 2 /\ (calling[c].at = 0 => calling[c].n = 0)
    BY DEF RpcInd, RpcTypeOK, CallingInv
  <2>2. Steps[1] = "register" /\ Steps[2] = "send"
    BY DEF Steps
  <2> QED
    BY <1>2, <2>1, <2>2
<1>4. (Calling(n) => \E x : A = {x}) /\ (~Calling(n) => A = {})
  <2>1. CASE Calling(n)
    <3>1. PICK c \in RpcCaller : calling[c].n = n /\ calling[c].at = 1
      BY <2>1 DEF Calling
    <3>2. A = {c}
      BY <1>3, <3>1 DEF RpcInd, CallingInv
    <3> QED
      BY <2>1, <3>2
  <2>2. CASE ~Calling(n)
    BY <2>2, <1>3 DEF Calling
  <2> QED
    BY <2>1, <2>2
<1>5. (Waiting(n) => \E x : B = {x}) /\ (~Waiting(n) => B = {})
  <2>1. \A i \in DOMAIN outstandings_ : outstandings_[i] = i
    BY DEF RpcInd, RpcTypeOK
  <2>2. Waiting(n) => B = {n}
    BY <2>1 DEF Waiting
  <2> QED
    BY <2>1, <2>2 DEF Waiting
<1>6. (Ran(n) => \E x : C = {x}) /\ (~Ran(n) => C = {})
  BY DEF Ran, RpcInd, RanInv
<1>7. (Gone(n) => \E x : D = {x}) /\ (~Gone(n) => D = {})
  BY DEF Gone
<1>8. OnePlace(n)
  BY DEF RpcInd
<1> HIDE DEF A, B, C, D
<1>9. 1 = Cardinality(A) + Cardinality(B) + Cardinality(C) + Cardinality(D)
  <2>1. /\ Cardinality(A) = IF Calling(n) THEN 1 ELSE 0
        /\ Cardinality(B) = IF Waiting(n) THEN 1 ELSE 0
        /\ Cardinality(C) = IF Ran(n) THEN 1 ELSE 0
        /\ Cardinality(D) = IF Gone(n) THEN 1 ELSE 0
    BY <1>1, <1>4, <1>5, <1>6, <1>7, Zenon
  <2> QED
    BY <1>8, <2>1 DEF OnePlace
<1> QED
  BY <1>9 DEF A, B, C, D

\* A thread takes the next id.
LEMMA CallMethodStep ==
    ASSUME RpcInd, NEW c \in RpcCaller, NEW m \in DOMAIN services_, CallMethod(c, m)
    PROVE  RpcInd'
<1>0. PICK N \in Nat : N = Len(asked) + 1 /\ Len(asked) \in Nat
  BY DEF RpcInd, RpcTypeOK
<1>1. /\ asked' \in Seq(DOMAIN services_) /\ Len(asked') = N
      /\ \A n \in Rpcs : asked'[n] = asked[n]
  <2>1. asked' = Append(asked, m) /\ asked \in Seq(DOMAIN services_)
    BY DEF CallMethod, RpcInd, RpcTypeOK
  <2>2. Rpcs = 1 .. Len(asked)
    BY <2>1 DEF Rpcs
  <2> QED
    BY <1>0, <2>1, <2>2, AppendFacts
<1>2. Rpcs' = Rpcs \cup {N} /\ N \notin Rpcs
  BY <1>0, <1>1 DEF Rpcs
<1>3. \A n \in Rpcs : Answer(n)' = Answer(n)
  BY <1>1 DEF Answer
<1>4. /\ calling' = [calling EXCEPT ![c] = [at |-> 1, id |-> N, n |-> N]]
      /\ calling[c].at = 0 /\ calling[c].n = 0
      /\ UNCHANGED <<outstandings_, requests, responses, serving, ran, deleted>>
  BY <1>0, <1>1 DEF CallMethod, NoCall, incrementAndGet, RpcInd, RpcTypeOK
<1>5. RpcTypeOK'
  <2>1. RpcTypeOK /\ id_ = Len(asked)
    BY DEF RpcInd, RpcTypeOK
  <2>2. id_' = Len(asked')
    BY <1>0, <1>1, <2>1 DEF CallMethod, incrementAndGet
  <2>3. calling' \in [RpcCaller -> [at : 0 .. 2, id : Nat, n : Nat]]
    <3>0. [at |-> 1, id |-> N, n |-> N] \in [at : 0 .. 2, id : Nat, n : Nat]
      OBVIOUS
    <3>1. PICK x \in [at : 0 .. 2, id : Nat, n : Nat] : x = [at |-> 1, id |-> N, n |-> N]
      BY <3>0, Zenon
    <3>2. calling' = [calling EXCEPT ![c] = x]
      BY <1>4, <3>1, Zenon
    <3> HIDE DEF RpcTypeOK
    <3>3. calling \in [RpcCaller -> [at : 0 .. 2, id : Nat, n : Nat]]
      BY <2>1 DEF RpcTypeOK
    <3> QED
      BY <3>2, <3>3, Zenon
  <2>4. DOMAIN outstandings_' \subseteq Rpcs' /\ deleted' \subseteq Rpcs'
    BY <1>2, <1>4, <2>1 DEF RpcTypeOK
  <2> QED
    BY <1>1, <1>4, <2>1, <2>2, <2>3, <2>4, Zenon DEF RpcTypeOK
<1>6. CallingInv'
  BY <1>0, <1>2, <1>4 DEF RpcInd, RpcTypeOK, CallingInv
<1>7. WireInv'
  BY <1>2, <1>3, <1>4 DEF RpcInd, WireInv
<1>8. RanInv'
  BY <1>2, <1>3, <1>4 DEF RpcInd, RanInv
<1>9. ASSUME NEW n \in Rpcs PROVE OnePlace(n)'
  <2>1. Calling(n)' <=> Calling(n)
    BY <1>0, <1>2, <1>4 DEF Calling, RpcInd, RpcTypeOK
  <2>2. (Waiting(n)' <=> Waiting(n)) /\ (Ran(n)' <=> Ran(n)) /\ (Gone(n)' <=> Gone(n))
    BY <1>4 DEF Waiting, Ran, Gone
  <2> QED
    BY <2>1, <2>2 DEF OnePlace, RpcInd
<1>10. OnePlace(N)'
  <2>1. Calling(N)'
    BY <1>4 DEF Calling, RpcInd, RpcTypeOK
  <2>2. ~Waiting(N)' /\ ~Ran(N)' /\ ~Gone(N)'
    BY <1>2, <1>4 DEF Waiting, Ran, Gone, RpcInd, RpcTypeOK, RanInv
  <2> QED
    BY <2>1, <2>2 DEF OnePlace
<1> QED
  BY <1>2, <1>5, <1>6, <1>7, <1>8, <1>9, <1>10 DEF RpcInd

\* CallMethod() goes on, or ends: a thread is in the same call, or in none.
LEMMA AheadFacts ==
    ASSUME RpcInd, NEW c \in RpcCaller, calling[c].at > 0, Ahead(c)
    PROVE  /\ calling' \in [RpcCaller -> [at : 0 .. 2, id : Nat, n : Nat]]
           /\ \A d \in RpcCaller : d # c => calling'[d] = calling[d]
           /\ calling'[c].at # 1
           /\ UNCHANGED asked => CallingInv'
<1>1. calling[c].at \in {1, 2}
  <2>1. calling[c].at \in 0 .. 2
    BY DEF RpcInd, RpcTypeOK
  <2> QED
    BY <2>1
<1>2. calling' = [calling EXCEPT ![c] = IF @.at = 2 THEN NoCall ELSE [@ EXCEPT !.at = 2]]
  BY DEF Ahead
<1>3. /\ calling' \in [RpcCaller -> [at : 0 .. 2, id : Nat, n : Nat]]
      /\ \A d \in RpcCaller : d # c => calling'[d] = calling[d]
      /\ \/ calling'[c].at = 0 /\ calling'[c].n = 0
         \/ /\ calling'[c].at = 2
            /\ calling'[c].n = calling[c].n /\ calling'[c].id = calling[c].id
  <2>1. calling[c] \in [at : 0 .. 2, id : Nat, n : Nat] /\ calling \in [RpcCaller -> [at : 0 .. 2, id : Nat, n : Nat]]
    BY DEF RpcInd, RpcTypeOK
  <2>2. CASE calling[c].at = 2
    BY <2>1, <2>2, <1>2 DEF NoCall
  <2>3. CASE calling[c].at = 1
    BY <2>1, <2>3, <1>2 DEF NoCall
  <2> QED
    BY <1>1, <2>2, <2>3
<1>4. ASSUME UNCHANGED asked PROVE CallingInv'
  <2>1. Rpcs' = Rpcs /\ Rpcs \subseteq Nat \ {0}
    BY <1>4 DEF Rpcs, RpcInd, RpcTypeOK
  <2>2. CallingInv
    BY DEF RpcInd
  <2>3. \A d \in RpcCaller : IF calling'[d].at = 0 THEN calling'[d].n = 0
                              ELSE calling'[d].n \in Rpcs /\ calling'[d].id = calling'[d].n
    BY <1>1, <1>3, <2>2 DEF CallingInv
  <2>4. \A f \in RpcCaller : calling'[f].n = 0 \/ calling'[f].n = calling[f].n
    BY <1>3
  <2>5. \A f \in RpcCaller : calling'[f].at > 0 => calling'[f].n # 0 /\ calling[f].at > 0
    BY <1>3, <2>1, <2>3
  <2>6. \A d, e \in RpcCaller : d # e /\ calling'[d].at > 0 => calling'[d].n # calling'[e].n
    BY <2>2, <2>4, <2>5 DEF CallingInv
  <2> QED
    BY <2>1, <2>3, <2>6 DEF CallingInv
<1>5. calling'[c].at # 1
  <2>1. calling'[c].at = 0 \/ calling'[c].at = 2
    BY <1>3, Zenon
  <2> QED
    BY <2>1
<1> QED
  BY <1>3, <1>4, <1>5, Zenon

\* A thread puts its call into outstandings_.
LEMMA RegisterStep ==
    ASSUME RpcInd, NEW c \in RpcCaller, Register(c)
    PROVE  RpcInd'
<1> DEFINE N == calling[c].n
<1>1. calling[c].at = 1 /\ calling[c].id = N /\ N \in Rpcs
  BY DEF Register, Steps, RpcInd, RpcTypeOK, CallingInv
<1>2. /\ DOMAIN outstandings_' = DOMAIN outstandings_ \cup {N}
      /\ \A n \in DOMAIN outstandings_' : outstandings_'[n] = n
  BY <1>1 DEF Register, RpcInd, RpcTypeOK
<1>3. /\ Ahead(c)
      /\ UNCHANGED <<id_, asked, requests, responses, serving, ran, deleted>>
  BY DEF Register
<1>4. /\ calling' \in [RpcCaller -> [at : 0 .. 2, id : Nat, n : Nat]]
      /\ CallingInv'
      /\ \A d \in RpcCaller : d # c => calling'[d] = calling[d]
      /\ calling'[c].at # 1
  <2>1. calling[c].at > 0
    BY <1>1
  <2>2. Ahead(c) /\ UNCHANGED asked
    BY <1>3
  <2> QED
    BY <2>1, <2>2, AheadFacts, Zenon
<1>5. RpcTypeOK'
  BY <1>1, <1>2, <1>3, <1>4 DEF RpcInd, RpcTypeOK, Rpcs
<1>6. WireInv' /\ RanInv'
  BY <1>3 DEF RpcInd, WireInv, RanInv, Rpcs, Answer
<1>7. ASSUME NEW n \in Rpcs PROVE OnePlace(n)'
  <2>1. (Ran(n)' <=> Ran(n)) /\ (Gone(n)' <=> Gone(n))
    BY <1>3 DEF Ran, Gone
  <2>2. Waiting(n)' <=> Waiting(n) \/ n = N
    BY <1>2 DEF Waiting
  <2>3. Calling(N)
    BY <1>1 DEF Calling
  <2>4. Calling(n)' <=> Calling(n) /\ n # N
    <3>1. calling[c].at > 0
      BY <1>1
    <3>2. \A d \in RpcCaller : d # c => calling[d].n # N
      BY <3>1, Zenon DEF RpcInd, CallingInv
    <3>3. \A d \in RpcCaller : calling'[d].at = 1 => d # c /\ calling'[d] = calling[d]
      BY <1>4, Zenon
    <3>4. \A d \in RpcCaller : d # c => calling'[d] = calling[d]
      BY <1>4, Zenon
    <3> HIDE DEF N
    <3>5. Calling(n)' => Calling(n) /\ n # N
      BY <3>2, <3>3, Zenon DEF Calling
    <3>6. calling[c].n = N
      BY DEF N
    <3>7. Calling(n) /\ n # N => Calling(n)'
      BY <3>4, <3>6, Zenon DEF Calling
    <3> QED
      BY <3>5, <3>7
  <2> QED
    BY <2>1, <2>2, <2>3, <2>4 DEF OnePlace, RpcInd
<1> QED
  BY <1>3, <1>4, <1>5, <1>6, <1>7 DEF RpcInd, Rpcs

\* A thread sends its request.
LEMMA SendStep ==
    ASSUME RpcInd, NEW c \in RpcCaller, Send(c)
    PROVE  RpcInd'
<1>1. calling[c].at = 2 /\ calling[c].id = calling[c].n /\ calling[c].n \in Rpcs
  BY DEF Send, Steps, RpcInd, RpcTypeOK, CallingInv
<1>2. /\ Ahead(c)
      /\ UNCHANGED <<id_, asked, outstandings_, responses, serving, ran, deleted>>
  BY DEF Send
<1>3. /\ calling' \in [RpcCaller -> [at : 0 .. 2, id : Nat, n : Nat]]
      /\ CallingInv'
      /\ \A d \in RpcCaller : d # c => calling'[d] = calling[d]
      /\ calling'[c].at # 1
  BY <1>1, <1>2, AheadFacts
<1>4. /\ requests' \in Seq([id : Nat, n : Nat])
      /\ \A i \in DOMAIN requests' : requests'[i].n \in Rpcs
                                     /\ requests'[i].id = requests'[i].n
  <2>1. /\ requests \in Seq([id : Nat, n : Nat]) /\ Rpcs \subseteq Nat
        /\ \A i \in DOMAIN requests : requests[i].n \in Rpcs
                                      /\ requests[i].id = requests[i].n
    BY DEF RpcInd, RpcTypeOK, WireInv, Rpcs
  <2>2. PICK r \in [id : Nat, n : Nat] : r = [id |-> calling[c].id, n |-> calling[c].n]
    BY <1>1, <2>1
  <2>3. requests' = requests \/ requests' = Append(requests, r)
    BY <2>2 DEF Send
  <2>4. CASE requests' = Append(requests, r)
    <3>1. /\ requests' \in Seq([id : Nat, n : Nat])
          /\ DOMAIN requests' = 1 .. Len(requests) + 1 /\ DOMAIN requests = 1 .. Len(requests)
          /\ \A i \in 1 .. Len(requests) : requests'[i] = requests[i]
          /\ requests'[Len(requests) + 1] = r /\ Len(requests) \in Nat
      BY <2>1, <2>4, AppendFacts
    <3>2. \A i \in DOMAIN requests' : i \in DOMAIN requests \/ i = Len(requests) + 1
      BY <3>1
    <3>3. r.n \in Rpcs /\ r.id = r.n
      BY <1>1, <2>2
    <3> QED
      BY <2>1, <3>1, <3>2, <3>3
  <2> QED
    BY <2>1, <2>3, <2>4
<1>5. RpcTypeOK' /\ WireInv' /\ RanInv'
  BY <1>2, <1>3, <1>4 DEF RpcInd, RpcTypeOK, WireInv, RanInv, Rpcs, Answer
<1>6. ASSUME NEW n \in Rpcs PROVE OnePlace(n)'
  <2>1. /\ Waiting(n)' <=> Waiting(n)
        /\ Ran(n)' <=> Ran(n)
        /\ Gone(n)' <=> Gone(n)
    BY <1>2 DEF Waiting, Ran, Gone
  <2>2. Calling(n)' <=> Calling(n)
    BY <1>1, <1>3 DEF Calling
  <2> QED
    BY <2>1, <2>2 DEF OnePlace, RpcInd
<1> QED
  BY <1>2, <1>3, <1>5, <1>6 DEF RpcInd, Rpcs

\* The server calls a service, or answers with an error.
LEMMA OnRequestStep == RpcInd /\ OnRequest => RpcInd'
<1> SUFFICES ASSUME RpcInd, OnRequest PROVE RpcInd'
    OBVIOUS
<1>1. UNCHANGED <<id_, asked, calling, outstandings_, ran, deleted>>
  BY DEF OnRequest
<1>2. /\ requests \in Seq([id : Nat, n : Nat]) /\ requests # <<>>
      /\ requests' = Tail(requests)
  BY DEF OnRequest, RpcInd, RpcTypeOK
<1>3. PICK r : r = Head(requests)
  OBVIOUS
<1>4. r \in [id : Nat, n : Nat] /\ r.n \in Rpcs /\ r.id = r.n
  <2>1. 1 \in DOMAIN requests /\ r = requests[1] /\ r \in [id : Nat, n : Nat]
    BY <1>2, <1>3, TailFacts
  <2> QED
    BY <2>1 DEF RpcInd, WireInv
<1>5. /\ requests' \in Seq([id : Nat, n : Nat])
      /\ \A i \in DOMAIN requests' : requests'[i].n \in Rpcs
                                     /\ requests'[i].id = requests'[i].n
  BY <1>2, TailFacts DEF RpcInd, WireInv
<1>6. /\ responses' \in Seq([id : Nat, n : Nat])
      /\ \A q \in serving' : /\ q \in [id : Nat, n : Nat]
                             /\ q.n \in Rpcs /\ q.id = q.n /\ Answer(q.n) = q.n
      /\ \A i \in DOMAIN responses' : responses'[i].id \in Rpcs
                                      /\ responses'[i].n = Answer(responses'[i].id)
  <2>1. CASE services_[asked[r.n]] = "ok"
    BY <1>3, <1>4, <2>1 DEF OnRequest, RpcInd, RpcTypeOK, WireInv, Answer
  <2>2. CASE services_[asked[r.n]] # "ok"
    <3>1. PICK a \in [id : Nat, n : Nat] : a = [id |-> r.id, n |-> 0]
      BY <1>4
    <3>2. responses' = Append(responses, a) /\ UNCHANGED serving
      BY <1>3, <2>2, <3>1 DEF OnRequest
    <3>3. a.id \in Rpcs /\ a.n = Answer(a.id)
      BY <1>4, <2>2, <3>1 DEF Answer
    <3>4. responses \in Seq([id : Nat, n : Nat])
      BY DEF RpcInd, RpcTypeOK
    <3>5. /\ responses' \in Seq([id : Nat, n : Nat])
          /\ \A i \in DOMAIN responses' :
                (i \in DOMAIN responses /\ responses'[i] = responses[i]) \/ responses'[i] = a
      BY <3>2, <3>4, AppendFacts
    <3>6. \A i \in DOMAIN responses' : responses'[i].id \in Rpcs
                                        /\ responses'[i].n = Answer(responses'[i].id)
      BY <3>3, <3>5, Zenon DEF RpcInd, WireInv
    <3> QED
      BY <3>2, <3>5, <3>6, Zenon DEF RpcInd, WireInv
  <2> QED
    BY <2>1, <2>2
<1>7. RpcTypeOK' /\ WireInv' /\ RanInv' /\ CallingInv'
  BY <1>1, <1>5, <1>6 DEF RpcInd, RpcTypeOK, WireInv, RanInv, CallingInv, Rpcs, Answer
<1> QED
  BY <1>1, <1>7 DEF RpcInd, Rpcs, OnePlace, Calling, Waiting, Ran, Gone

\* A service has run its closure.
LEMMA DoneStep ==
    ASSUME RpcInd, NEW r \in serving, doneCallback(r)
    PROVE  RpcInd'
<1>1. UNCHANGED <<id_, asked, calling, outstandings_, requests, ran, deleted>>
  BY DEF doneCallback
<1>2. r \in [id : Nat, n : Nat] /\ r.n \in Rpcs /\ r.id = r.n /\ Answer(r.n) = r.n
  BY DEF RpcInd, WireInv
<1>3. responses' = Append(responses, r) /\ serving' \subseteq serving
  BY DEF doneCallback
<1>4. /\ responses' \in Seq([id : Nat, n : Nat])
      /\ \A i \in DOMAIN responses' : responses'[i].id \in Rpcs
                                      /\ responses'[i].n = Answer(responses'[i].id)
  <2>1. /\ responses \in Seq([id : Nat, n : Nat])
        /\ \A i \in DOMAIN responses : responses[i].id \in Rpcs
                                       /\ responses[i].n = Answer(responses[i].id)
    BY DEF RpcInd, RpcTypeOK, WireInv
  <2>2. responses' \in Seq([id : Nat, n : Nat])
    BY <1>2, <1>3, <2>1, AppendFacts
  <2>3. \A i \in DOMAIN responses' :
            (i \in DOMAIN responses /\ responses'[i] = responses[i]) \/ responses'[i] = r
    BY <1>2, <1>3, <2>1, AppendFacts
  <2>4. r.id \in Rpcs /\ r.n = Answer(r.id)
    BY <1>2
  <2> QED
    BY <2>1, <2>2, <2>3, <2>4, Zenon
<1>5. RpcTypeOK' /\ WireInv' /\ RanInv' /\ CallingInv'
  <2>1. Rpcs' = Rpcs /\ \A n : Answer(n)' = Answer(n)
    BY <1>1 DEF Rpcs, Answer
  <2>2. \A q \in serving' : q \in serving
    BY <1>3
  <2>3. RpcTypeOK'
    BY <1>1, <1>4, <2>1, Zenon DEF RpcInd, RpcTypeOK
  <2>4. WireInv'
    BY <1>1, <1>4, <2>1, <2>2, Zenon DEF RpcInd, WireInv
  <2>5. RanInv' /\ CallingInv'
    BY <1>1, <2>1, Zenon DEF RpcInd, RanInv, CallingInv
  <2> QED
    BY <2>3, <2>4, <2>5
<1> QED
  BY <1>1, <1>5 DEF RpcInd, Rpcs, OnePlace, Calling, Waiting, Ran, Gone

\* A response takes its call out of outstandings_ and runs the closure.
LEMMA OnResponseStep == RpcInd /\ OnResponse => RpcInd'
<1> SUFFICES ASSUME RpcInd, OnResponse PROVE RpcInd'
    OBVIOUS
<1>1. UNCHANGED <<id_, asked, calling, requests, serving, deleted>>
  BY DEF OnResponse
<1>2. /\ responses \in Seq([id : Nat, n : Nat]) /\ responses # <<>>
      /\ responses' = Tail(responses)
  BY DEF OnResponse, RpcInd, RpcTypeOK
<1>3. PICK r : r = Head(responses)
  OBVIOUS
<1>4. r \in [id : Nat, n : Nat] /\ r.id \in Rpcs /\ r.n = Answer(r.id)
  <2>1. 1 \in DOMAIN responses /\ r = responses[1] /\ r \in [id : Nat, n : Nat]
    BY <1>2, <1>3, TailFacts
  <2> QED
    BY <2>1 DEF RpcInd, WireInv
<1>5. /\ responses' \in Seq([id : Nat, n : Nat])
      /\ \A i \in DOMAIN responses' : responses'[i].id \in Rpcs
                                      /\ responses'[i].n = Answer(responses'[i].id)
  BY <1>2, TailFacts DEF RpcInd, WireInv
<1>6. CallingInv' /\ WireInv'
  BY <1>1, <1>5 DEF RpcInd, WireInv, CallingInv, Rpcs, Answer
<1>7. Rpcs' = Rpcs /\ \A n : Answer(n)' = Answer(n)
  BY <1>1 DEF Rpcs, Answer
<1>8. CASE r.id \notin DOMAIN outstandings_
  <2>1. Finds(r) = {}
    BY <1>8 DEF Finds
  <2>2. ran' = ran
    BY <1>3, <2>1 DEF OnResponse
  <2>3. /\ DOMAIN outstandings_' = DOMAIN outstandings_
        /\ \A n \in DOMAIN outstandings_ : outstandings_'[n] = outstandings_[n]
    BY <1>3, <2>1 DEF OnResponse, Restrict
  <2>4. RpcTypeOK' /\ RanInv'
    BY <1>1, <1>5, <1>7, <2>2, <2>3 DEF RpcInd, RpcTypeOK, RanInv
  <2> QED
    BY <1>1, <1>6, <1>7, <2>2, <2>3, <2>4
       DEF RpcInd, OnePlace, Calling, Waiting, Ran, Gone
<1>9. CASE r.id \in DOMAIN outstandings_
  <2>1. Finds(r) = {r.id} /\ Finds(r) # {} /\ (CHOOSE i \in Finds(r) : TRUE) = r.id
    BY <1>9 DEF Finds
  <2>2. PICK a \in [n : Nat, saw : Nat] : a = [n |-> r.id, saw |-> r.n]
    BY <1>4
  <2>3. ran' = Append(ran, a)
    <3>1. outstandings_[r.id] = r.id
      BY <1>9 DEF RpcInd, RpcTypeOK
    <3> QED
      BY <1>3, <2>1, <2>2, <3>1 DEF OnResponse
  <2>4. /\ DOMAIN outstandings_' = DOMAIN outstandings_ \ {r.id}
        /\ \A n \in DOMAIN outstandings_ \ {r.id} : outstandings_'[n] = outstandings_[n]
    BY <1>3, <2>1 DEF OnResponse, Restrict
  <2>5. /\ ran' \in Seq([n : Nat, saw : Nat]) /\ Len(ran) \in Nat
        /\ DOMAIN ran = 1 .. Len(ran) /\ DOMAIN ran' = 1 .. Len(ran) + 1
        /\ \A i \in 1 .. Len(ran) : ran'[i] = ran[i]
        /\ ran'[Len(ran) + 1] = a
    BY <2>3, AppendFacts DEF RpcInd, RpcTypeOK
  <2>6. \A i \in DOMAIN ran' : i \in DOMAIN ran \/ i = Len(ran) + 1
    BY <2>5
  <2>7. RpcTypeOK'
    BY <1>1, <1>5, <1>7, <2>4, <2>5 DEF RpcInd, RpcTypeOK
  <2>8. ~Ran(r.id) /\ ~Gone(r.id) /\ ~Calling(r.id) /\ Waiting(r.id)
    BY <1>4, <1>9 DEF RpcInd, OnePlace, Waiting
  <2>9. RanInv'
    <3>1. a.n = r.id /\ a.saw = Answer(a.n) /\ a.n \in Rpcs
      BY <1>4, <2>2
    <3>2. \A i \in DOMAIN ran : ran[i].n # a.n
      BY <2>8, <3>1 DEF Ran
    <3>3. RanInv
      BY DEF RpcInd
    <3> QED
      BY <1>7, <2>5, <2>6, <3>1, <3>2, <3>3 DEF RanInv
  <2>10. ASSUME NEW n \in Rpcs PROVE OnePlace(n)'
    <3>1. (Calling(n)' <=> Calling(n)) /\ (Gone(n)' <=> Gone(n))
      BY <1>1 DEF Calling, Gone
    <3>2. Waiting(n)' <=> Waiting(n) /\ n # r.id
      BY <2>4 DEF Waiting
    <3>3. Ran(n)' <=> Ran(n) \/ n = r.id
      <4>1. a.n = r.id /\ Len(ran) + 1 \in DOMAIN ran'
        BY <2>2, <2>5
      <4>2. \A i \in DOMAIN ran : i \in DOMAIN ran' /\ ran'[i] = ran[i]
        BY <2>5
      <4>3. ran'[Len(ran) + 1].n = r.id
        BY <2>5, <4>1
      <4>4. \A i \in DOMAIN ran' : i \in DOMAIN ran \/ ran'[i].n = r.id
        BY <2>6, <4>3
      <4> QED
        BY <4>1, <4>2, <4>3, <4>4, Zenon DEF Ran
    <3> QED
      BY <2>8, <3>1, <3>2, <3>3 DEF RpcInd, OnePlace
  <2> QED
    BY <1>6, <1>7, <2>7, <2>9, <2>10 DEF RpcInd
<1> QED
  BY <1>8, <1>9

\* ~RpcChannel() deletes what is outstanding.
LEMMA DestroyStep == RpcInd /\ Destroy => RpcInd'
<1> SUFFICES ASSUME RpcInd, Destroy PROVE RpcInd'
    OBVIOUS
<1>1. UNCHANGED <<id_, asked, calling, requests, responses, serving, ran>>
  BY DEF Destroy
<1>2. Range(outstandings_) = DOMAIN outstandings_
  <2>1. \A n \in DOMAIN outstandings_ : outstandings_[n] = n
    BY DEF RpcInd, RpcTypeOK
  <2> QED
    BY <2>1 DEF Range
<1>3. deleted' = deleted \cup DOMAIN outstandings_ /\ outstandings_' = <<>>
  BY <1>2 DEF Destroy
<1>4. RpcTypeOK'
  <2>1. DOMAIN outstandings_' = {}
    BY <1>3
  <2>2. deleted' \subseteq Rpcs
    BY <1>3 DEF RpcInd, RpcTypeOK
  <2> QED
    BY <1>1, <2>1, <2>2 DEF RpcInd, RpcTypeOK, Rpcs
<1>5. WireInv' /\ RanInv' /\ CallingInv'
  BY <1>1 DEF RpcInd, WireInv, RanInv, CallingInv, Rpcs, Answer
<1> QED
  <2>1. /\ Rpcs' = Rpcs
        /\ \A n : (Calling(n)' <=> Calling(n)) /\ (Ran(n)' <=> Ran(n))
        /\ \A n : ~Waiting(n)' /\ (Gone(n)' <=> Gone(n) \/ Waiting(n))
    BY <1>1, <1>3 DEF Rpcs, Calling, Waiting, Ran, Gone
  <2>2. \A n \in Rpcs' : OnePlace(n)'
    BY <2>1, Zenon DEF RpcInd, OnePlace
  <2> QED
    BY <1>4, <1>5, <2>2, Zenon DEF RpcInd

\* Losing the connection empties the wire.
LEMMA DisconnectStep ==
    ASSUME RpcInd, UNCHANGED <<id_, outstandings_, calling, serving, ran, deleted, asked>>,
           requests' = requests \/ requests' = <<>>,
           responses' = responses \/ responses' = <<>>
    PROVE  RpcInd'
<1>1. /\ Rpcs' = Rpcs /\ \A n : Answer(n)' = Answer(n)
      /\ \A n : (Calling(n)' <=> Calling(n)) /\ (Ran(n)' <=> Ran(n))
      /\ \A n : (Waiting(n)' <=> Waiting(n)) /\ (Gone(n)' <=> Gone(n))
  BY DEF Rpcs, Answer, Calling, Waiting, Ran, Gone
<1>2. /\ requests' \in Seq([id : Nat, n : Nat]) /\ responses' \in Seq([id : Nat, n : Nat])
      /\ \A i \in DOMAIN requests' : i \in DOMAIN requests /\ requests'[i] = requests[i]
      /\ \A i \in DOMAIN responses' : i \in DOMAIN responses /\ responses'[i] = responses[i]
  <2> DEFINE M == [id : Nat, n : Nat]
  <2>1. requests \in Seq(M) /\ responses \in Seq(M)
    BY DEF RpcInd, RpcTypeOK
  <2> HIDE DEF M
  <2>2. <<>> \in Seq(M) /\ DOMAIN <<>> = {}
    OBVIOUS
  <2>3. requests' \in Seq(M) /\ responses' \in Seq(M)
    BY <2>1, <2>2, Zenon
  <2>4. \A i \in DOMAIN requests' : i \in DOMAIN requests /\ requests'[i] = requests[i]
    BY <2>2
  <2>5. \A i \in DOMAIN responses' : i \in DOMAIN responses /\ responses'[i] = responses[i]
    BY <2>2
  <2> QED
    BY <2>3, <2>4, <2>5 DEF M
<1>3. RpcTypeOK'
  BY <1>1, <1>2, Zenon DEF RpcInd, RpcTypeOK
<1>4. CallingInv' /\ RanInv'
  BY <1>1, Zenon DEF RpcInd, CallingInv, RanInv
<1>5. WireInv'
  BY <1>1, <1>2, Zenon DEF RpcInd, WireInv
<1>6. \A n \in Rpcs' : OnePlace(n)'
  BY <1>1, Zenon DEF RpcInd, OnePlace
<1> QED
  BY <1>3, <1>4, <1>5, <1>6, Zenon DEF RpcInd

\* A call is in one place: with its thread, outstanding, answered or deleted,
\* and the closure that runs sees its own answer (RpcChannel.cc:30-128), for any
\* number of threads and calls, answered in any order.
THEOREM RpcCallsAnsweredOnce == RpcSpec => []RpcOnce
<1>1. RpcInd /\ [RpcNext]_rpcVars => RpcInd'
  <2> SUFFICES ASSUME RpcInd, [RpcNext]_rpcVars PROVE RpcInd'
      OBVIOUS
  <2>1. CASE Disconnect
    BY <2>1, DisconnectStep DEF Disconnect
  <2>2. CASE UNCHANGED rpcVars
    BY <2>2, DisconnectStep DEF rpcVars
  <2> QED
    BY <2>1, <2>2, CallMethodStep, RegisterStep, SendStep, OnRequestStep, DoneStep,
       OnResponseStep, DestroyStep DEF RpcNext
<1>2. RpcInd => RpcOnce
  <2> SUFFICES ASSUME RpcInd PROVE RpcOnce
      OBVIOUS
  <2>1. DOMAIN asked = Rpcs
    BY DEF RpcInd, RpcTypeOK, Rpcs
  <2>2. \A i \in DOMAIN ran : ran[i].saw = IF services_[asked[ran[i].n]] = "ok" THEN ran[i].n ELSE 0
    BY DEF RpcInd, RanInv, Answer
  <2> QED
    BY <2>1, <2>2, CountOne DEF RpcOnce
<1> QED
  BY <1>1, <1>2, RpcInitInd, PTL DEF RpcSpec
=============================================================================
