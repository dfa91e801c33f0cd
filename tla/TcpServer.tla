------------------------------ MODULE TcpServer ------------------------------
(***************************************************************************)
(* The life of connections in muduo::net::TcpServer: accepted by the base  *)
(* loop, run by an I/O loop, removed by the base loop, destroyed when the  *)
(* last shared pointer goes.  Sources: TcpServer.cc, the life-cycle part   *)
(* of TcpConnection.cc, Channel.cc, EventLoopThreadPool.cc.                *)
(*                                                                         *)
(* Each loop runs one handler or functor at a time.  A handler is one step *)
(* because what it shares with other loops is at most one push to another  *)
(* loop's pendingFunctors_; the loops interleave freely.  That a pushed    *)
(* functor wakes its loop and is run in order is EventLoop's business.     *)
(*                                                                         *)
(* User code is what connectionCallback_ and messageCallback_ may do: keep *)
(* or drop shared pointers, and close connections of the loop it runs in.  *)
(***************************************************************************)
EXTENDS Naturals, Sequences, FiniteSets, Functions

CONSTANTS Conn,      \* connections that peers may open
          Base,      \* loop_ of the server
          Pools,     \* sequences of I/O loops that threadPool_ may start
          NoLoop

Loop == {Base} \cup UNION {Range(p) : p \in Pools}

ASSUME ServerAssumption ==
    /\ NoLoop \notin Loop
    /\ "acceptor" \notin Conn
    /\ \A p \in Pools : /\ p \in Seq(Loop \ {Base})
                        /\ \A i, j \in DOMAIN p : p[i] = p[j] => i = j

VARIABLES
    state_,        \* StateE of each connection, "none" before it is accepted
    loopOf,        \* loop_ of each connection
    enabled,       \* connections whose channel has read interest
    channels_,     \* connections whose channel the poller of the loop holds
    timer,         \* connections with a forceCloseWithDelay timer
    callbacks,     \* UP/DOWN calls of connectionCallback_, per connection
    dead,          \* connections whose destructor has run
    connections_,  \* TcpServer's map
    userRef,       \* connections that user code keeps a shared pointer to
    loops_,        \* the I/O loops of threadPool_, none for a single reactor
    next_,         \* round-robin position of threadPool_
    pending,       \* pendingFunctors_ of each loop
    batch,         \* functors still to run in doPendingFunctors
    held,          \* connections bound in the batch vector, until it dies
    active,        \* channels returned by poll and not handled yet
    phase,         \* where each loop is
    quit_,         \* loops told to quit
    server         \* "up", "destructing", "gone"

connVars == <<state_, loopOf, enabled, channels_, timer, callbacks>>
serverVars == <<connections_, loops_, next_, server>>
loopVars == <<pending, batch, held, active, phase, quit_>>
vars == <<connVars, dead, serverVars, userRef, loopVars>>

IOLoop == Range(loops_)

-----------------------------------------------------------------------------
(* Functors.  All of them bind a TcpConnectionPtr.                         *)

FunctorOp == {"connectEstablished", "connectDestroyed",
              "removeConnectionInLoop", "forceCloseInLoop"}

Bind(op, c) == [op |-> op, conn |-> c]

\* Fault: functors bind raw pointers.
BoundRaw(fs) == {}

Bound(fs) == {fs[i].conn : i \in DOMAIN fs}

Push(pend, l, f) == [pend EXCEPT ![l] = Append(@, f)]

TypeOK ==
    /\ state_ \in [Conn -> {"none", "kConnecting", "kConnected",
                            "kDisconnecting", "kDisconnected"}]
    /\ loopOf \in [Conn -> Loop \cup {NoLoop}]
    /\ enabled \subseteq Conn
    /\ channels_ \subseteq Conn
    /\ timer \subseteq Conn
    /\ callbacks \in [Conn -> Seq({"UP", "DOWN"})]
    /\ dead \subseteq Conn
    /\ connections_ \subseteq Conn
    /\ userRef \subseteq Conn
    /\ loops_ \in Pools
    /\ next_ \in {i \in 0 .. Len(loops_) : i = 0 \/ i < Len(loops_)}
    /\ pending \in [Loop -> Seq([op : FunctorOp, conn : Conn])]
    /\ batch \in [Loop -> Seq([op : FunctorOp, conn : Conn])]
    /\ held \in [Loop -> SUBSET Conn]
    /\ active \in [Loop -> SUBSET (Conn \cup {"acceptor"})]
    /\ phase \in [Loop -> {"test", "poll", "dispatch", "functors", "exited"}]
    /\ quit_ \in [Loop -> BOOLEAN]
    /\ server \in {"up", "destructing", "gone"}

Init ==
    /\ state_ = [c \in Conn |-> "none"]
    /\ loopOf = [c \in Conn |-> NoLoop]
    /\ enabled = {}
    /\ channels_ = {}
    /\ timer = {}
    /\ callbacks = [c \in Conn |-> <<>>]
    /\ dead = {}
    /\ connections_ = {}
    /\ userRef = {}
    /\ loops_ \in Pools
    /\ next_ = 0
    /\ pending = [l \in Loop |-> <<>>]
    /\ batch = [l \in Loop |-> <<>>]
    /\ held = [l \in Loop |-> {}]
    /\ active = [l \in Loop |-> {}]
    /\ phase = [l \in Loop |-> "test"]
    /\ quit_ = [l \in Loop |-> FALSE]
    /\ server = "up"

\* Someone still owns a pointer to c: the map, user code, a queued functor, or
\* the vector of functors being run.
Referenced(c) ==
    \/ c \in connections_ \cup userRef
    \/ \E l \in Loop : c \in held[l] \cup Bound(pending[l])

\* The destructor runs as soon as the step that drops the last pointer ends.
Destruct ==
    dead' = dead \cup {c \in Conn : state_'[c] # "none" /\ ~Referenced(c)'}

-----------------------------------------------------------------------------
(* Calls that user code makes on a connection d of its own loop, as        *)
(* functions of the state st in which the callback starts.                 *)

UserCall == {"return", "shutdown", "forceClose", "forceCloseWithDelay"}

Closable(u, st, d) ==
    \/ u = "shutdown" /\ st[d] = "kConnected"
    \/ /\ u \in {"forceClose", "forceCloseWithDelay"}
       /\ st[d] \in {"kConnected", "kDisconnecting"}

StateAfter(u, st, d) ==
    IF Closable(u, st, d) THEN [st EXCEPT ![d] = "kDisconnecting"] ELSE st

PendingAfter(u, st, d, l) ==
    IF u = "forceClose" /\ Closable(u, st, d)
    THEN Push(pending, l, Bind("forceCloseInLoop", d)) ELSE pending

TimerAfter(u, st, d) ==
    IF u = "forceCloseWithDelay" /\ Closable(u, st, d)
    THEN timer \cup {d} ELSE timer

\* Connections user code running in loop l for connection c can reach.
Reachable(l, c) == {c} \cup {d \in userRef : loopOf[d] = l}

\* What the callback for c does: one call u on a connection d, from state st.
Callback(l, c, u, d, st) ==
    /\ d \in Reachable(l, c)
    /\ state_' = StateAfter(u, st, d)
    /\ timer' = TimerAfter(u, st, d)
    /\ userRef' \in SUBSET (userRef \cup {c})

-----------------------------------------------------------------------------
(* Connection handlers, run in loop l.                                     *)

\* Fault: the state is not changed when the connection closes.
ClosedStateSkipped(c) == state_

\* setState(kDisconnected)
ClosedState(c) == [state_ EXCEPT ![c] = "kDisconnected"]

\* Fault: read interest survives.
DisableNothing(c) == enabled

\* channel_->disableAll()
DisableAll(c) == enabled \ {c}

\* Fault: the wrong key is erased.
EraseNothing(c) == connections_

\* connections_.erase(conn->name())
EraseConnection(c) == connections_ \ {c}

\* TcpConnection::connectEstablished, in the state where loopOf is set.
connectEstablished(l, c, u, d) ==
    LET st == [state_ EXCEPT ![c] = "kConnected"]
    IN  /\ Callback(l, c, u, d, st)
        /\ enabled' = enabled \cup {c}
        /\ channels_' = channels_ \cup {c}
        /\ callbacks' = [callbacks EXCEPT ![c] = Append(@, "UP")]
        /\ pending' = PendingAfter(u, st, d, l)

\* handleClose; its closeCallback_ is TcpServer::removeConnection, which in the
\* base loop runs removeConnectionInLoop on the spot.
handleClose(l, c, u, d) ==
    LET st == ClosedState(c)
    IN  /\ Callback(l, c, u, d, st)
        /\ enabled' = DisableAll(c)
        /\ callbacks' = [callbacks EXCEPT ![c] = Append(@, "DOWN")]
        /\ pending' = Push(PendingAfter(u, st, d, l), Base,
                           Bind(IF l = Base THEN "connectDestroyed"
                                ELSE "removeConnectionInLoop", c))
        /\ connections_' = IF l = Base THEN EraseConnection(c) ELSE connections_
        /\ UNCHANGED channels_

connectDestroyed(l, c, u, d) ==
    LET st == ClosedState(c)
    IN  /\ \/ /\ state_[c] = "kConnected"
              /\ Callback(l, c, u, d, st)
              /\ enabled' = DisableAll(c)
              /\ callbacks' = [callbacks EXCEPT ![c] = Append(@, "DOWN")]
              /\ pending' = PendingAfter(u, st, d, l)
           \/ /\ state_[c] # "kConnected"
              /\ UNCHANGED <<state_, callbacks, pending, timer, enabled,
                             userRef>>
        /\ channels_' = channels_ \ {c}

removeConnectionInLoop(c) ==
    /\ connections_' = EraseConnection(c)
    /\ pending' = Push(pending, loopOf[c], Bind("connectDestroyed", c))

-----------------------------------------------------------------------------
(* The loops.                                                              *)

\* poll reports any of the channels that are registered with read interest.
Poll(l) ==
    /\ phase[l] = "poll"
    /\ \E ready \in SUBSET ({c \in enabled \cap channels_ : loopOf[c] = l}
                            \cup {a \in {"acceptor"} : l = Base}) :
          active' = [active EXCEPT ![l] = ready]
    /\ phase' = [phase EXCEPT ![l] = "dispatch"]
    /\ UNCHANGED <<dead, connVars, serverVars, userRef, pending, batch, held,
                   quit_>>

getNextLoop == IF loops_ = <<>> THEN Base ELSE loops_[next_ + 1]

\* Fault: the position does not wrap around.
NextPositionPastEnd == next_ + 1

NextPosition == IF loops_ = <<>> THEN next_ ELSE (next_ + 1) % Len(loops_)

Handling(l, ch) ==
    /\ phase[l] = "dispatch"
    /\ ch \in active[l]
    /\ active' = [active EXCEPT ![l] = @ \ {ch}]
    /\ UNCHANGED <<batch, held, phase, quit_, loops_, server>>

\* Acceptor::handleRead with a descriptor, and TcpServer::newConnection.
newConnection(c, u, d) ==
    /\ Handling(Base, "acceptor")
    /\ state_[c] = "none"
    /\ loopOf' = [loopOf EXCEPT ![c] = getNextLoop]
    /\ next_' = NextPosition
    /\ connections_' = connections_ \cup {c}
    /\ \/ /\ getNextLoop = Base
          /\ connectEstablished(Base, c, u, d)
       \/ /\ getNextLoop # Base
          /\ state_' = [state_ EXCEPT ![c] = "kConnecting"]
          /\ pending' = Push(pending, getNextLoop,
                             Bind("connectEstablished", c))
          /\ UNCHANGED <<enabled, channels_, timer, callbacks, userRef>>
    /\ Destruct

\* accept() fails: the peer is gone, or there is no descriptor left.
AcceptFails ==
    /\ Handling(Base, "acceptor")
    /\ UNCHANGED <<connVars, connections_, next_, userRef, pending>>
    /\ Destruct

\* TcpConnection::handleRead, by what readFd returns.
handleReadMessage(l, c, u, d) ==
    /\ Handling(l, c)
    /\ Callback(l, c, u, d, state_)
    /\ pending' = PendingAfter(u, state_, d, l)
    /\ UNCHANGED <<loopOf, enabled, channels_, callbacks, connections_, next_>>
    /\ Destruct

handleReadEof(l, c, u, d) ==
    /\ Handling(l, c)
    /\ handleClose(l, c, u, d)
    /\ UNCHANGED <<loopOf, next_>>
    /\ Destruct

handleReadError(l, c) ==
    /\ Handling(l, c)
    /\ UNCHANGED <<connVars, connections_, next_, userRef, pending>>
    /\ Destruct

\* The timer of forceCloseWithDelay holds a weak pointer (WeakCallback) and
\* calls forceClose.  Several timers of one connection are modelled as one.
forceCloseTimer(l, c) ==
    /\ phase[l] = "dispatch"
    /\ c \in timer /\ loopOf[c] = l
    /\ timer' = timer \ {c}
    /\ \/ /\ c \notin dead
          /\ state_' = StateAfter("forceClose", state_, c)
          /\ pending' = PendingAfter("forceClose", state_, c, l)
       \/ c \in dead /\ UNCHANGED <<state_, pending>>
    /\ UNCHANGED <<dead, loopOf, enabled, channels_, callbacks, serverVars,
                   userRef, batch, held, active, phase, quit_>>

\* doPendingFunctors up to the end of its critical section.
SwapFunctors(l) ==
    /\ phase[l] = "dispatch" /\ active[l] = {}
    /\ batch' = [batch EXCEPT ![l] = pending[l]]
    /\ held' = [held EXCEPT ![l] = Bound(pending[l])]
    /\ pending' = [pending EXCEPT ![l] = <<>>]
    /\ phase' = [phase EXCEPT ![l] = "functors"]
    /\ UNCHANGED <<dead, connVars, serverVars, userRef, active, quit_>>

Running(l, op, c) ==
    /\ phase[l] = "functors" /\ batch[l] # <<>>
    /\ Head(batch[l]) = Bind(op, c)
    /\ batch' = [batch EXCEPT ![l] = Tail(@)]
    /\ UNCHANGED <<loopOf, loops_, next_, server, held, active, phase, quit_>>

RunConnectEstablished(l, c, u, d) ==
    /\ Running(l, "connectEstablished", c)
    /\ connectEstablished(l, c, u, d)
    /\ UNCHANGED connections_
    /\ Destruct

RunConnectDestroyed(l, c, u, d) ==
    /\ Running(l, "connectDestroyed", c)
    /\ connectDestroyed(l, c, u, d)
    /\ UNCHANGED connections_
    /\ Destruct

RunRemoveConnection(l, c) ==
    /\ Running(l, "removeConnectionInLoop", c)
    /\ removeConnectionInLoop(c)
    /\ UNCHANGED <<state_, enabled, channels_, timer, callbacks, userRef>>
    /\ Destruct

\* Fault: forceCloseInLoop does not look at the state again.
Always(c) == TRUE

ForceClosable(c) == state_[c] \in {"kConnected", "kDisconnecting"}

forceCloseInLoop(l, c, u, d) ==
    /\ Running(l, "forceCloseInLoop", c)
    /\ \/ /\ ForceClosable(c)
          /\ handleClose(l, c, u, d)
       \/ /\ ~ForceClosable(c)
          /\ UNCHANGED <<state_, enabled, channels_, timer, callbacks,
                         connections_, userRef, pending>>
    /\ Destruct

\* The batch vector is destroyed, and with it the pointers bound in it.
BatchDone(l) ==
    /\ phase[l] = "functors" /\ batch[l] = <<>>
    /\ held' = [held EXCEPT ![l] = {}]
    /\ phase' = [phase EXCEPT ![l] = "test"]
    /\ UNCHANGED <<connVars, serverVars, userRef, pending, batch, active,
                   quit_>>
    /\ Destruct

\* while (!quit_) of EventLoop::loop.  An I/O loop that quits is destroyed by
\* its thread, with the functors it has not run.
TestQuit(l) ==
    /\ l \in IOLoop \cup {Base}
    /\ phase[l] = "test"
    /\ phase' = [phase EXCEPT ![l] = IF quit_[l] THEN "exited" ELSE "poll"]
    /\ pending' = IF quit_[l] /\ l # Base
                  THEN [pending EXCEPT ![l] = <<>>] ELSE pending
    /\ UNCHANGED <<connVars, serverVars, userRef, batch, held, active, quit_>>
    /\ Destruct

LoopStep(l) ==
    \/ Poll(l) \/ SwapFunctors(l) \/ BatchDone(l) \/ TestQuit(l)
    \/ \E c \in Conn : \/ handleReadError(l, c) \/ forceCloseTimer(l, c)
                      \/ RunRemoveConnection(l, c)
    \/ \E c, d \in Conn, u \in UserCall :
          \/ handleReadMessage(l, c, u, d) \/ handleReadEof(l, c, u, d)
          \/ RunConnectEstablished(l, c, u, d)
          \/ RunConnectDestroyed(l, c, u, d) \/ forceCloseInLoop(l, c, u, d)

Accept ==
    \/ AcceptFails
    \/ \E c, d \in Conn, u \in UserCall : newConnection(c, u, d)

\* main.cc: the base loop never quits and the server is never destroyed.
Next ==
    \/ \E l \in Loop : LoopStep(l)
    \/ Accept

Spec == Init /\ [][Next]_vars

\* Every loop thread keeps running: poll returns, handlers and functors return.
LoopRuns(l) ==
    \/ LoopStep(l)
    \/ l = Base /\ Accept

FairSpec == Spec /\ \A l \in Loop : WF_vars(LoopRuns(l))

-----------------------------------------------------------------------------
(* Shutdown of the server: the base loop has returned, ~TcpServer runs in  *)
(* its thread, and destroys threadPool_, which quits and joins the loops.  *)

QuitBase ==
    /\ server = "up" /\ ~quit_[Base]
    /\ quit_' = [quit_ EXCEPT ![Base] = TRUE]
    /\ UNCHANGED <<dead, connVars, serverVars, userRef, pending, batch, held,
                   active, phase>>

DtorBegins ==
    /\ server = "up" /\ phase[Base] = "exited"
    /\ server' = "destructing"
    /\ UNCHANGED <<dead, connVars, connections_, loops_, next_, userRef,
                   loopVars>>

\* One turn of ~TcpServer's loop over connections_: runInLoop(connectDestroyed).
DtorConnection(c, u, d) ==
    /\ server = "destructing"
    /\ c \in connections_
    /\ connections_' = connections_ \ {c}
    /\ \/ loopOf[c] = Base /\ connectDestroyed(Base, c, u, d)
       \/ /\ loopOf[c] # Base
          /\ pending' = Push(pending, loopOf[c], Bind("connectDestroyed", c))
          /\ UNCHANGED <<state_, enabled, channels_, timer, callbacks, userRef>>
    /\ UNCHANGED <<loopOf, loops_, next_, server, batch, held, active, phase,
                   quit_>>
    /\ Destruct

\* Fault: the last thread is joined and was not told to quit.
DtorQuitAllButLast(l) ==
    /\ server = "destructing" /\ connections_ = {}
    /\ l \in IOLoop /\ ~quit_[l]
    /\ l # loops_[Len(loops_)]
    /\ quit_' = [quit_ EXCEPT ![l] = TRUE]
    /\ UNCHANGED <<dead, connVars, serverVars, userRef, pending, batch, held,
                   active, phase>>

\* ~EventLoopThread quits each loop and joins its thread before the next one.
DtorQuitLoop(l) ==
    /\ server = "destructing" /\ connections_ = {}
    /\ l \in IOLoop /\ ~quit_[l]
    /\ \A m \in IOLoop : quit_[m] => phase[m] = "exited"
    /\ quit_' = [quit_ EXCEPT ![l] = TRUE]
    /\ UNCHANGED <<dead, connVars, serverVars, userRef, pending, batch, held,
                   active, phase>>

\* Fault: the base loop outlives the server, with its functors.
DtorLeaksFunctors ==
    /\ server = "destructing" /\ connections_ = {}
    /\ \A l \in IOLoop : phase[l] = "exited"
    /\ server' = "gone"
    /\ UNCHANGED <<connVars, connections_, loops_, next_, userRef, loopVars>>
    /\ Destruct

\* The members of the server are gone; ~EventLoop of the base loop follows.
DtorEnds ==
    /\ server = "destructing" /\ connections_ = {}
    /\ \A l \in IOLoop : phase[l] = "exited"
    /\ server' = "gone"
    /\ pending' = [pending EXCEPT ![Base] = <<>>]
    /\ UNCHANGED <<connVars, connections_, loops_, next_, userRef, batch, held,
                   active, phase, quit_>>
    /\ Destruct

Shutdown ==
    \/ QuitBase \/ DtorBegins \/ DtorEnds
    \/ \E c, d \in Conn, u \in UserCall : DtorConnection(c, u, d)
    \/ \E l \in Loop : DtorQuitLoop(l)

NextShutdown == Next \/ Shutdown

SpecShutdown ==
    /\ Init /\ [][NextShutdown]_vars
    /\ \A l \in Loop : WF_vars(LoopRuns(l))
    /\ WF_vars(\/ DtorEnds
               \/ \E c, d \in Conn, u \in UserCall : DtorConnection(c, u, d)
               \/ \E l \in Loop : DtorQuitLoop(l))

-----------------------------------------------------------------------------
(* Properties.                                                             *)

(***************************************************************************)
(* assert(state_ == kDisconnected) of ~TcpConnection (TcpConnection.cc:71) *)
(* holds whichever pointer is dropped last, in whichever loop.             *)
(***************************************************************************)
DestroyedDisconnected == \A c \in dead : state_[c] = "kDisconnected"

(***************************************************************************)
(* assert(!addedToLoop_) of ~Channel (Channel.cc:40): when a connection is *)
(* destroyed its channel has left the poller, which therefore holds no     *)
(* pointer to it and does not poll the descriptor that ~Socket closes.     *)
(***************************************************************************)
DestroyedUnpolled == dead \cap channels_ = {}

(***************************************************************************)
(* A channel that poll reported and that has not been handled yet is still *)
(* registered and alive when its turn comes, whatever the handlers before  *)
(* it did (the loop over activeChannels_, EventLoop.cc:122): no handler    *)
(* runs on a dead connection, and handleClose finds the state it asserts   *)
(* (TcpConnection.cc:412).                                                 *)
(***************************************************************************)
ActiveIsLive ==
    \A l \in Loop : \A c \in active[l] \ {"acceptor"} :
        /\ c \in enabled \cap channels_
        /\ c \notin dead
        /\ state_[c] \in {"kConnected", "kDisconnecting"}

\* Places where a functor op for c is queued or still to be run.
Queued(op, c) ==
    UNION {LET fs == batch[l] \o pending[l]
           IN  {l} \X {i \in DOMAIN fs : fs[i] = Bind(op, c)} : l \in Loop}

(***************************************************************************)
(* Teardown happens once per connection ("should be called only once",     *)
(* TcpConnection.h:115, and assert(n == 1), TcpServer.cc:113), although    *)
(* the peer, forceClose and timers may all close it: a connection is in    *)
(* exactly one of three places, the server's map, a queued                 *)
(* connectDestroyed, or torn down; and a removal in flight finds it in the *)
(* map.                                                                    *)
(***************************************************************************)
TeardownOnce ==
    \A c \in Conn :
        LET tornDown == state_[c] = "kDisconnected" /\ c \notin channels_
        IN  /\ Cardinality(Queued("connectDestroyed", c)) =
                   IF state_[c] = "none" \/ c \in connections_ \/ tornDown
                   THEN 0 ELSE 1
            /\ c \in connections_ => ~tornDown
            /\ Cardinality(Queued("removeConnectionInLoop", c)) <= 1
            /\ Queued("removeConnectionInLoop", c) # {} => c \in connections_

(***************************************************************************)
(* User code sees each connection come up once and go down once, and keeps *)
(* it no longer than its own pointers: what ConnectionLife promises.       *)
(***************************************************************************)
Life == INSTANCE ConnectionLife
        WITH life <- [c \in Conn |->
                 CASE c \in dead -> "freed"
                   [] c \notin dead /\ callbacks[c] = <<>> -> "new"
                   [] c \notin dead /\ callbacks[c] = <<"UP">> -> "up"
                   [] c \notin dead /\ callbacks[c] = <<"UP", "DOWN">> -> "down"
                   [] OTHER -> "wrong"]

ImplementsConnectionLife == Life!Spec

(***************************************************************************)
(* A disconnected connection that user code does not keep is destroyed,    *)
(* and its descriptor closed (handleClose leaves it to the destructor,     *)
(* TcpConnection.cc:413).                                                  *)
(***************************************************************************)
DisconnectedIsDestroyed ==
    \A c \in Conn :
        state_[c] = "kDisconnected" ~> (c \in dead \/ c \in userRef)

(***************************************************************************)
(* Even when the server is destroyed under its connections, user code      *)
(* never sees DOWN twice, or before UP (handleClose, connectDestroyed and  *)
(* ~TcpServer all report DOWN, TcpConnection.cc:342 and 418).              *)
(***************************************************************************)
CallbacksInOrder ==
    \A c \in Conn : callbacks[c] \in {<<>>, <<"UP">>, <<"UP", "DOWN">>}

(***************************************************************************)
(* Once the server and its loops are gone, the only connections left are   *)
(* those user code keeps.                                                  *)
(***************************************************************************)
ShutdownFreesConnections ==
    server = "gone" =>
        \A c \in Conn : state_[c] # "none" => c \in dead \cup userRef

(***************************************************************************)
(* ~TcpServer returns: every I/O thread it joins ends.                     *)
(***************************************************************************)
DtorReturns == server = "destructing" ~> server = "gone"

(***************************************************************************)
(* While the server is up: the types, events only for live connections,    *)
(* and one teardown for each connection.                                   *)
(***************************************************************************)
ServeInv ==
    /\ TypeOK
    /\ ActiveIsLive
    /\ TeardownOnce

(***************************************************************************)
(* ~TcpServer (TcpServer.cc:37-53) leaves callbacks in order and no        *)
(* connection behind.                                                      *)
(***************************************************************************)
ShutdownInv ==
    /\ CallbacksInOrder
    /\ ShutdownFreesConnections
=============================================================================
