----------------------------- MODULE Condition -----------------------------
(***************************************************************************)
(* muduo::Condition (src/muduo/base/Condition.h).  pc gives the place of   *)
(* each thread, a condition is the place where threads wait for it, and    *)
(* "to" is where one goes on: at the lock, to test its condition again.    *)
(***************************************************************************)

\* notify(): any one of the waiting threads, if there is one.
Notified(pc, cond, to) ==
    LET waiting == {t \in DOMAIN pc : pc[t] = cond} IN
    IF waiting = {} THEN {pc} ELSE {[pc EXCEPT ![t] = to] : t \in waiting}

\* notifyAll()
NotifiedAll(pc, cond, to) == [t \in DOMAIN pc |-> IF pc[t] = cond THEN to ELSE pc[t]]
=============================================================================
