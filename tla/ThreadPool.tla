----------------------------- MODULE ThreadPool -----------------------------
(***************************************************************************)
(* muduo::ThreadPool (src/muduo/base/ThreadPool.cc): workers take tasks    *)
(* from a queue that may be bounded; other threads, and tasks themselves,  *)
(* call run(); one thread calls stop().  A step is what a thread does with *)
(* mutex_ held; wait() gives it up, and returns when notified, or for no   *)
(* reason.  A task runs with the mutex released: a worker that has taken   *)
(* one may be overtaken by another worker before it starts it.             *)
(***************************************************************************)
EXTENDS Naturals, Sequences, Functions, Condition

CONSTANTS Worker, Producer,
          MaxTasks,         \* bound: tasks handed to run()
          maxQueueSize_     \* 0 for no bound

ASSUME PoolAssumption == maxQueueSize_ \in Nat

VARIABLES
    threads_,    \* the workers that start() has started
    running_,
    queue_,
    wpc,         \* per worker: "test", "take", "notEmpty", "taken", "task" or "done"
    task,        \* per worker: the task it has taken and not started, or 0
    rpc,         \* per caller of run(): "idle", "run" or "notFull"
    stopping,    \* "no", "joining" or "stopped"
    handed,      \* tasks that run() has been given: a task is its number
    ntaken,      \* tasks that have left the queue
    started      \* tasks in the order in which they have started

poolVars == <<threads_, running_, queue_, wpc, task, rpc, stopping, handed,
              ntaken, started>>

Caller == Worker \cup Producer

PoolInit ==
    /\ threads_ \in SUBSET Worker    \* start(numThreads), 0 included
    /\ running_ = TRUE
    /\ queue_ = <<>>
    /\ wpc = [w \in Worker |-> "test"]
    /\ task = [w \in Worker |-> 0]
    /\ rpc = [c \in Caller |-> "idle"]
    /\ stopping = "no"
    /\ handed = 0 /\ ntaken = 0 /\ started = <<>>

-----------------------------------------------------------------------------
(* run().                                                                  *)

isFull == maxQueueSize_ > 0 /\ Len(queue_) >= maxQueueSize_

\* A producer, or a worker that is in a task, calls run().
CallRun(c) ==
    /\ rpc[c] = "idle" /\ handed < MaxTasks
    /\ c \in Worker => wpc[c] = "task"
    /\ handed' = handed + 1
    /\ IF threads_ = {}
       THEN /\ ntaken' = ntaken + 1 /\ started' = Append(started, ntaken')
            /\ UNCHANGED rpc
       ELSE rpc' = [rpc EXCEPT ![c] = "run"] /\ UNCHANGED <<ntaken, started>>
    /\ UNCHANGED <<threads_, running_, queue_, wpc, task, stopping>>

\* Tasks are numbered when they enter the queue.
Entered == ntaken + Len(queue_) + 1

\* Fault: nobody is told of the task.
WakesNobody == {wpc}

Wakes == Notified(wpc, "notEmpty", "take")

run(c) ==
    /\ rpc[c] = "run"
    /\ IF isFull
       THEN rpc' = [rpc EXCEPT ![c] = "notFull"] /\ UNCHANGED <<queue_, wpc>>
       ELSE /\ queue_' = Append(queue_, Entered)
            /\ rpc' = [rpc EXCEPT ![c] = "idle"]
            /\ wpc' \in Wakes
    /\ UNCHANGED <<threads_, running_, task, stopping, handed, ntaken, started>>

-----------------------------------------------------------------------------
(* runInThread() and take().                                               *)

Test(w) ==
    /\ w \in threads_ /\ wpc[w] = "test"
    /\ wpc' = [wpc EXCEPT ![w] = IF running_ THEN "take" ELSE "done"]
    /\ UNCHANGED <<threads_, running_, queue_, task, rpc, stopping, handed, ntaken,
                   started>>

\* Fault: nobody is told of the room.
AnnouncesNothing == {rpc}

Announces == IF maxQueueSize_ > 0 THEN Notified(rpc, "notFull", "run") ELSE {rpc}

\* Fault: tasks are taken from the back.
TakenLast == <<queue_[Len(queue_)], SubSeq(queue_, 1, Len(queue_) - 1)>>

\* front() and pop_front(): the task and what is left.
Taken == <<Head(queue_), Tail(queue_)>>

take(w) ==
    /\ wpc[w] = "take"
    /\ IF queue_ # <<>>
       THEN /\ task' = [task EXCEPT ![w] = Taken[1]]
            /\ queue_' = Taken[2]
            /\ ntaken' = ntaken + 1
            /\ rpc' \in Announces
            /\ wpc' = [wpc EXCEPT ![w] = "taken"]
       ELSE /\ wpc' = [wpc EXCEPT ![w] = IF running_ THEN "notEmpty" ELSE "test"]
            /\ UNCHANGED <<queue_, task, rpc, ntaken>>
    /\ UNCHANGED <<threads_, running_, stopping, handed, started>>

\* task(), after take() has released the mutex.
StartTask(w) ==
    /\ wpc[w] = "taken"
    /\ wpc' = [wpc EXCEPT ![w] = "task"]
    /\ task' = [task EXCEPT ![w] = 0]
    /\ started' = Append(started, task[w])
    /\ UNCHANGED <<threads_, running_, queue_, rpc, stopping, handed, ntaken>>

TaskReturns(w) ==
    /\ wpc[w] = "task" /\ rpc[w] = "idle"
    /\ wpc' = [wpc EXCEPT ![w] = "test"]
    /\ UNCHANGED <<threads_, running_, queue_, task, rpc, stopping, handed, ntaken,
                   started>>

SpuriousWakeup ==
    /\ \/ \E w \in Worker : wpc[w] = "notEmpty" /\ wpc' = [wpc EXCEPT ![w] = "take"]
                            /\ UNCHANGED rpc
       \/ \E c \in Caller : rpc[c] = "notFull" /\ rpc' = [rpc EXCEPT ![c] = "run"]
                            /\ UNCHANGED wpc
    /\ UNCHANGED <<threads_, running_, queue_, task, stopping, handed, ntaken, started>>

-----------------------------------------------------------------------------
(* stop(), or the destructor.                                              *)

\* Fault: one worker is notified.
NotifiesOne == Notified(wpc, "notEmpty", "take")

NotifiesAll == {NotifiedAll(wpc, "notEmpty", "take")}

Stop ==
    /\ stopping = "no"
    /\ stopping' = "joining"
    /\ running_' = FALSE
    /\ wpc' \in NotifiesAll
    /\ UNCHANGED <<threads_, queue_, task, rpc, handed, ntaken, started>>

Joined ==
    /\ stopping = "joining" /\ \A w \in threads_ : wpc[w] = "done"
    /\ stopping' = "stopped"
    /\ UNCHANGED <<threads_, running_, queue_, wpc, task, rpc, handed, ntaken, started>>

PoolNext ==
    \/ \E c \in Caller : CallRun(c) \/ run(c)
    \/ \E w \in Worker : Test(w) \/ take(w) \/ StartTask(w) \/ TaskReturns(w)
    \/ SpuriousWakeup \/ Stop \/ Joined

PoolSpec == PoolInit /\ [][PoolNext]_poolVars

\* Threads run, mutexes are granted, tasks return.
PoolFairness ==
    /\ \A c \in Caller : WF_poolVars(run(c))
    /\ \A w \in Worker : WF_poolVars(Test(w) \/ take(w) \/ StartTask(w)
                                   \/ TaskReturns(w))
    /\ WF_poolVars(Joined)

-----------------------------------------------------------------------------
(***************************************************************************)
(* Tasks leave the queue in the order in which they entered it             *)
(* (ThreadPool.cc:102), and the queue never exceeds maxQueueSize_ (:84).   *)
(* Those that have left it have started, once each, or are with a worker   *)
(* that is about to start them (:131), one each: a task is overtaken only  *)
(* while another worker holds it, and with one worker tasks start in       *)
(* order.                                                                  *)
(***************************************************************************)
Holding == {w \in Worker : wpc[w] = "taken"}

PoolInOrder ==
    /\ \A i \in DOMAIN queue_ : queue_[i] = ntaken + i
    /\ maxQueueSize_ > 0 => Len(queue_) <= maxQueueSize_
    /\ Range(started) \cup {task[w] : w \in Holding} = 1..ntaken
    /\ \A i, j \in DOMAIN started : started[i] = started[j] => i = j
    /\ \A w \in Holding : /\ task[w] \notin Range(started)
                          /\ \A v \in Holding : task[v] = task[w] => v = w
    /\ (\A v, w \in threads_ : v = w) => \A i \in DOMAIN started : started[i] = i

(***************************************************************************)
(* No worker will take a task: each is in a task that is in run() itself,  *)
(* or has ended after stop().                                              *)
(***************************************************************************)
NobodyTakes ==
    threads_ # {} /\ \A w \in threads_ : wpc[w] = "done" \/ rpc[w] # "idle"

(***************************************************************************)
(* No signal is lost (ThreadPool.cc:87): the tasks that have entered the   *)
(* queue start, unless the pool is stopped first, or every worker stays in *)
(* a task that waits for room in the queue itself (ThreadPool.cc:82).  One *)
(* that a worker has taken starts in any case.                             *)
(***************************************************************************)
QueuedTaskStarts ==
    /\ <>[]NobodyTakes \/ []<>(queue_ = <<>> \/ ~running_)
    /\ []<>(Holding = {})

(***************************************************************************)
(* run() returns to a caller that waits for room, unless no worker takes a *)
(* task any more: nobody signals notFull_ when stop() has ended the        *)
(* workers (ThreadPool.cc:57), and such a caller waits for ever.           *)
(***************************************************************************)
CallerGetsRoom == <>[]NobodyTakes \/ []<>(\A c \in Producer : rpc[c] = "idle")

(***************************************************************************)
(* stop() returns, whatever is still in the queue, unless a worker stays   *)
(* in a task that waits for room, which may then never come                *)
(* (ThreadPool.cc:61).                                                     *)
(***************************************************************************)
StopReturns ==
    (\E w \in Worker : <>[](rpc[w] # "idle")) \/ []<>(stopping # "joining")

(***************************************************************************)
(* What a pool must get done: tasks start, callers get room, and stop()    *)
(* returns.                                                                *)
(***************************************************************************)
PoolProgress ==
    /\ QueuedTaskStarts
    /\ CallerGetsRoom
    /\ StopReturns
=============================================================================
