------------------------------ MODULE Acceptor ------------------------------
(***************************************************************************)
(* muduo::net::Acceptor (src/muduo/net/Acceptor.cc) in a process that may  *)
(* run out of descriptors, with the round robin of EventLoopThreadPool     *)
(* that gives an accepted connection its loop.  The system calls of        *)
(* handleRead() are steps of their own, for other threads open and close   *)
(* descriptors between them.                                               *)
(***************************************************************************)
EXTENDS Naturals, Functions

CONSTANTS MaxOpen,         \* RLIMIT_NOFILE, less what is open for good
          NumThreads,      \* of the EventLoopThreadPool, where it has threads
          MaxArrivals      \* bound: connections of peers

\* The constructor has opened idleFd_.
ASSUME AcceptorAssumption == MaxOpen \in Nat \ {0} /\ NumThreads \in Nat

VARIABLES
    listenning_,
    loops_,        \* 0 (the base loop does it all) or NumThreads
    next_,
    assigned,      \* per loop: connections given to it; loop 0 is the base loop
    backlog,       \* connections that wait to be accepted
    arrived, refused, gone,   \* connections: all, closed at once, given up by peers
    open,          \* descriptors open, idleFd_ left aside
    idleFd_,       \* whether it is a descriptor
    at,            \* where handleRead() is
    raced          \* another thread took a descriptor while idleFd_ was closed

accVars == <<listenning_, loops_, next_, assigned, backlog, arrived, refused, gone, open,
             idleFd_, at, raced>>

AcceptorInit ==
    /\ listenning_ = FALSE /\ loops_ = 0 /\ next_ = 0
    /\ assigned = [l \in 0 .. NumThreads |-> 0]
    /\ backlog = 0 /\ arrived = 0 /\ refused = 0 /\ gone = 0
    /\ open = 0 /\ idleFd_ = TRUE /\ at = "poll" /\ raced = FALSE

HasFd == open + (IF idleFd_ THEN 1 ELSE 0) < MaxOpen

\* EventLoopThreadPool::start(), and Acceptor::listen().
Start ==
    /\ ~listenning_
    /\ listenning_' = TRUE
    /\ loops_' \in {0, NumThreads}
    /\ UNCHANGED <<next_, assigned, backlog, arrived, refused, gone, open, idleFd_, at, raced>>

-----------------------------------------------------------------------------
(* The kernel, peers and other threads.                                    *)

Arrive ==
    /\ listenning_ /\ arrived < MaxArrivals
    /\ arrived' = arrived + 1 /\ backlog' = backlog + 1
    /\ UNCHANGED <<listenning_, loops_, next_, assigned, refused, gone, open, idleFd_, at, raced>>

GiveUp ==
    /\ backlog > 0
    /\ backlog' = backlog - 1 /\ gone' = gone + 1
    /\ UNCHANGED <<listenning_, loops_, next_, assigned, arrived, refused, open, idleFd_, at, raced>>

OthersOpen ==
    /\ HasFd
    /\ open' = open + 1
    /\ raced' = (raced \/ at \in {"idleClosed", "reopen"})
    /\ UNCHANGED <<listenning_, loops_, next_, assigned, backlog, arrived, refused, gone,
                   idleFd_, at>>

\* A connection, or something else that was open, is closed.
OthersClose ==
    /\ open > 0
    /\ open' = open - 1
    /\ UNCHANGED <<listenning_, loops_, next_, assigned, backlog, arrived, refused, gone,
                   idleFd_, at, raced>>

-----------------------------------------------------------------------------
(* The base loop.                                                          *)

\* Fault: the last loop is passed over.
WrapsEarly(n) == IF n + 1 >= loops_ THEN 0 ELSE n

Wraps(n) == IF n >= loops_ THEN 0 ELSE n

getNextLoop == IF loops_ = 0 THEN 0 ELSE next_ + 1

Poll ==
    /\ listenning_ /\ at = "poll" /\ backlog > 0
    /\ at' = "accept"
    /\ UNCHANGED <<listenning_, loops_, next_, assigned, backlog, arrived, refused, gone,
                   open, idleFd_, raced>>

\* Fault: an accept() for want of descriptors is left at that.
LeavesIt == "poll"

OnEmfile == "emfile"

\* accept4(): a connection, EAGAIN or EMFILE.
Accept ==
    /\ at = "accept"
    /\ \/ /\ backlog > 0 /\ HasFd
          /\ backlog' = backlog - 1 /\ open' = open + 1
          /\ assigned' = [assigned EXCEPT ![getNextLoop] = @ + 1]
          /\ next_' = IF loops_ = 0 THEN next_ ELSE Wraps(next_ + 1)
          /\ at' = "poll"
       \/ /\ backlog = 0
          /\ at' = "poll"
          /\ UNCHANGED <<backlog, open, assigned, next_>>
       \/ /\ backlog > 0 /\ ~HasFd
          /\ at' = OnEmfile
          /\ UNCHANGED <<backlog, open, assigned, next_>>
    /\ UNCHANGED <<listenning_, loops_, arrived, refused, gone, idleFd_, raced>>

CloseIdle ==
    /\ at = "emfile"
    /\ idleFd_' = FALSE /\ at' = "idleClosed"
    /\ UNCHANGED <<listenning_, loops_, next_, assigned, backlog, arrived, refused, gone,
                   open, raced>>

\* accept() into idleFd_, and close() of that.
AcceptIdle ==
    /\ at = "idleClosed"
    /\ IF backlog > 0 /\ HasFd THEN backlog' = backlog - 1 /\ refused' = refused + 1
       ELSE UNCHANGED <<backlog, refused>>
    /\ at' = "reopen"
    /\ UNCHANGED <<listenning_, loops_, next_, assigned, arrived, gone, open, idleFd_, raced>>

\* Fault: the spare descriptor is not taken back.
ReopensNot == FALSE

Reopens == HasFd

OpenIdle ==
    /\ at = "reopen"
    /\ idleFd_' = Reopens /\ at' = "poll"
    /\ UNCHANGED <<listenning_, loops_, next_, assigned, backlog, arrived, refused, gone,
                   open, raced>>

AcceptorNext ==
    \/ Start \/ Arrive \/ GiveUp \/ OthersOpen \/ OthersClose
    \/ Poll \/ Accept \/ CloseIdle \/ AcceptIdle \/ OpenIdle

AcceptorSpec == AcceptorInit /\ [][AcceptorNext]_accVars

\* The base loop goes on; nobody is bound to close a descriptor.
AcceptorFairness == WF_accVars(Poll \/ Accept \/ CloseIdle \/ AcceptIdle \/ OpenIdle)

-----------------------------------------------------------------------------
(***************************************************************************)
(* The spare descriptor is back when handleRead() returns, unless another  *)
(* thread took its place in between (Acceptor.cc:82-85).                   *)
(***************************************************************************)
IdleFdKept == at \in {"poll", "accept"} /\ ~raced => idleFd_

(***************************************************************************)
(* A process with all its descriptors in use still gets rid of every       *)
(* connection that waits: it is given to a loop, or refused, and the base  *)
(* loop does not spin, as long as nobody took the spare descriptor         *)
(* (Acceptor.cc:80).                                                       *)
(***************************************************************************)
BacklogServed == []<>(backlog = 0 \/ raced)

(***************************************************************************)
(* Connections are dealt out evenly: no loop of the pool ever has been     *)
(* given two more than another (EventLoopThreadPool.cc:63-68).             *)
(***************************************************************************)
LoopsEven ==
    LET used == IF loops_ = 0 THEN {0} ELSE 1 .. loops_ IN
    /\ \A l, k \in used : assigned[l] <= assigned[k] + 1
    /\ \A l \in DOMAIN assigned \ used : assigned[l] = 0

(***************************************************************************)
(* The spare descriptor is kept and connections are dealt out evenly.      *)
(***************************************************************************)
AcceptorInv ==
    /\ IdleFdKept
    /\ LoopsEven
=============================================================================
