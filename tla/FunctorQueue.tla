---------------------------- MODULE FunctorQueue ----------------------------
(***************************************************************************)
(* What EventLoop::queueInLoop promises to its callers: functors are       *)
(* started one at a time by the loop thread, in the order in which they    *)
(* were queued, each queueing exactly once, and none is dropped while it   *)
(* waits.  A callback that is already in the loop thread may also run a    *)
(* functor on the spot (runInLoop), ahead of everything that waits.        *)
(***************************************************************************)
EXTENDS Sequences

CONSTANTS Functor,     \* functors that callers hand to the loop
          NoFunctor    \* "nothing has been started yet"

VARIABLES queue,       \* functors queued and not started, oldest first
          started      \* the functor started last

vars == <<queue, started>>

Init ==
    /\ queue = <<>>
    /\ started = NoFunctor

Enqueue(f) ==
    /\ queue' = Append(queue, f)
    /\ UNCHANGED started

StartOldest ==
    /\ queue # <<>>
    /\ started' = Head(queue)
    /\ queue' = Tail(queue)

RunAtOnce(f) ==
    /\ started' = f
    /\ UNCHANGED queue

Next ==
    \/ \E f \in Functor : Enqueue(f) \/ RunAtOnce(f)
    \/ StartOldest

Spec == Init /\ [][Next]_vars
=============================================================================
