--------------------------- MODULE BlockingQueue ---------------------------
(***************************************************************************)
(* muduo::BlockingQueue and muduo::BoundedBlockingQueue                    *)
(* (src/muduo/base/BlockingQueue.h, BoundedBlockingQueue.h): producers     *)
(* put() and consumers take(), each step holding mutex_.  Capacity 0 is    *)
(* the queue without a bound, which has no notFull_.                       *)
(***************************************************************************)
EXTENDS Naturals, Sequences, SequencesExt, FiniteSetsExt, Condition

CONSTANTS Putter, Taker,
          Capacities,    \* of the queues to look at
          MaxItems       \* bound: items handed to put()

VARIABLES capacity,      \* of this queue
          items,         \* queue_
          puts,          \* per producer: "idle", "put" or "notFull"
          takes,         \* per consumer: "idle", "take" or "notEmpty"
          nput, got      \* calls of put(), and what take() has returned

queueVars == <<capacity, items, puts, takes, nput, got>>

QueueInit ==
    /\ capacity \in Capacities
    /\ items = <<>> /\ nput = 0 /\ got = <<>>
    /\ puts = [p \in Putter |-> "idle"]
    /\ takes = [t \in Taker |-> "idle"]

full == capacity > 0 /\ Len(items) = capacity

CallPut(p) ==
    /\ puts[p] = "idle" /\ nput < MaxItems
    /\ puts' = [puts EXCEPT ![p] = "put"] /\ nput' = nput + 1
    /\ UNCHANGED <<capacity, items, takes, got>>

\* Fault: consumers are told only when there was nothing in the queue.
PutWakesFirst == IF items = <<>> THEN Notified(takes, "notEmpty", "take") ELSE {takes}

PutWakes == Notified(takes, "notEmpty", "take")

\* Items are numbered as they enter the queue.
put(p) ==
    /\ puts[p] = "put"
    /\ \/ /\ full
          /\ puts' = [puts EXCEPT ![p] = "notFull"]
          /\ UNCHANGED <<items, takes>>
       \/ /\ ~full
          /\ items' = Append(items, Len(got) + Len(items) + 1)
          /\ puts' = [puts EXCEPT ![p] = "idle"]
          /\ takes' \in PutWakes
    /\ UNCHANGED <<capacity, nput, got>>

CallTake(t) ==
    /\ takes[t] = "idle"
    /\ takes' = [takes EXCEPT ![t] = "take"]
    /\ UNCHANGED <<capacity, items, puts, nput, got>>

TakeWakes == IF capacity > 0 THEN Notified(puts, "notFull", "put") ELSE {puts}

take(t) ==
    /\ takes[t] = "take"
    /\ \/ /\ items = <<>>
          /\ takes' = [takes EXCEPT ![t] = "notEmpty"]
          /\ UNCHANGED <<items, puts, got>>
       \/ /\ items # <<>>
          /\ got' = Append(got, Head(items)) /\ items' = Tail(items)
          /\ takes' = [takes EXCEPT ![t] = "idle"]
          /\ puts' \in TakeWakes
    /\ UNCHANGED <<capacity, nput>>

SpuriousWakeup ==
    /\ \/ /\ takes' \in {[takes EXCEPT ![t] = "take"] : t \in {u \in Taker : takes[u] = "notEmpty"}}
          /\ UNCHANGED puts
       \/ /\ puts' \in {[puts EXCEPT ![p] = "put"] : p \in {q \in Putter : puts[q] = "notFull"}}
          /\ UNCHANGED takes
    /\ UNCHANGED <<capacity, items, nput, got>>

QueueNext ==
    \/ \E p \in Putter : CallPut(p) \/ put(p)
    \/ \E t \in Taker : CallTake(t) \/ take(t)
    \/ SpuriousWakeup

QueueSpec == QueueInit /\ [][QueueNext]_queueVars

-----------------------------------------------------------------------------
At(pcs, place) == Cardinality({t \in DOMAIN pcs : pcs[t] = place})

(***************************************************************************)
(* No wakeup is lost, whoever overtakes a woken thread: while a consumer   *)
(* waits, every item in the queue has a consumer on its way to it, and     *)
(* while a producer waits, every free place has a producer on its way      *)
(* (BlockingQueue.h:33, BoundedBlockingQueue.h:39, 52).                    *)
(***************************************************************************)
QueueWakeups ==
    /\ At(takes, "notEmpty") > 0 => Len(items) <= At(takes, "take")
    /\ At(puts, "notFull") > 0 => capacity - Len(items) <= At(puts, "put")
=============================================================================
