------------------------------ MODULE TcpClient ------------------------------
(***************************************************************************)
(* muduo::net::TcpClient and its Connector (src/muduo/net/TcpClient.cc and *)
(* Connector.cc) in one loop: connecting, retrying, reconnecting, stopping *)
(* and destroying the client, from the loop thread or from another one.    *)
(* The loop polls, handles what was ready, then runs the functors queued   *)
(* until then.  Of a TcpConnection only its owners and its close are kept. *)
(***************************************************************************)
EXTENDS Naturals, Sequences, FiniteSetsExt, SequencesExt

CONSTANTS MaxSocks,     \* bound: sockets created
          MaxCalls,     \* bound: calls of user code
          Reconnects    \* user code calls connect() more than once

VARIABLES
    connect_,       \* Connector::connect_
    state_,         \* Connector::state_
    channel_,       \* the socket of channel_, 0 for none
    polled,         \* sockets whose Connector channel the poller knows
    sock,           \* "none", "connecting", "closed" or "failed", and once it
                    \* is a TcpConnection's "up", "down" or "removed"
    timers,         \* startInLoop timers of retry()
    keeper,         \* the timer of ~TcpClient that keeps the connector: 0 for
                    \* none, else 1 and the polls since, up to SafeRounds
    hasty,          \* it expired before the loop had made SafeRounds rounds
    wantsConnect,   \* TcpClient::connect_
    retry_,
    connection_,    \* its connection, 0 for none
    alive,          \* the TcpClient exists
    detached,       \* connections whose closeCallback is not the client's
    user,           \* connections that user code holds
    phase,          \* "poll", "events" or "functors"
    active,         \* events of this round that are not handled yet
    pendingF, batchF,
    ncalls,
    asserted,       \* an assert of Connector.cc would have failed
    touched,        \* the client was called back after its destruction
    dtor            \* who destroyed the client, and if it was unsafe

clientVars == <<connect_, state_, channel_, polled, sock, timers, keeper,
                hasty, wantsConnect, retry_, connection_, alive, detached,
                user, phase, active, pendingF, batchF, ncalls, asserted,
                touched, dtor>>

Sock == 1..MaxSocks
SafeRounds == 3         \* bound: what ~TcpClient counts on for its second
connectorVars == <<state_, channel_, polled, sock, timers, asserted>>

ClientInit ==
    /\ connect_ = FALSE /\ state_ = "kDisconnected"
    /\ channel_ = 0 /\ polled = {} /\ sock = [s \in Sock |-> "none"]
    /\ timers = 0 /\ keeper = 0 /\ hasty = FALSE
    /\ wantsConnect = TRUE /\ retry_ \in BOOLEAN
    /\ connection_ = 0 /\ alive = TRUE /\ detached = {} /\ user = {}
    /\ phase = "poll" /\ active = {} /\ pendingF = <<>> /\ batchF = <<>>
    /\ ncalls = 0 /\ asserted = FALSE /\ touched = FALSE /\ dtor = <<"none", FALSE>>

Queue(f) == pendingF' = Append(pendingF, f)
Waiting(f) == f \in ToSet(pendingF \o batchF)

\* A functor that binds the connector's bare this is queued.
Unsafe == \E f \in {"startInLoop", "stopInLoop", "resetChannel"} : Waiting(<<f, 0>>)

-----------------------------------------------------------------------------
(* Connector.  socks, conn and st are the values of sock, connect_ and     *)
(* state_ that a function starts from.                                     *)

\* Fault: a connection that is refused is not tried again.
RetriesNever(conn) == 0

Retries(conn) == IF conn THEN 1 ELSE 0

\* retry(): close the socket and come back later.
retry(s, socks, conn) ==
    /\ sock' = [socks EXCEPT ![s] = "closed"]
    /\ state_' = "kDisconnected"
    /\ timers' = timers + Retries(conn)

\* connecting(): channel_.reset() destroys the channel that was there.
connecting(s, socks) ==
    /\ sock' = [socks EXCEPT ![s] = "connecting"]
    /\ state_' = "kConnecting"
    /\ channel_' = s
    /\ polled' = polled \cup {s}
    /\ UNCHANGED timers

\* connect(): in progress, to be retried, or failed for good.
connect(socks, st) ==
    LET unused == {s \in Sock : socks[s] = "none"} IN
    /\ unused # {}
    /\ LET s == Min(unused) IN
       \/ connecting(s, socks)
       \/ retry(s, socks, TRUE) /\ UNCHANGED <<channel_, polled>>
       \/ /\ sock' = [socks EXCEPT ![s] = "failed"]
          /\ state_' = st
          /\ UNCHANGED <<channel_, polled, timers>>

\* startInLoop with its asserts, which the build compiles out.
startInLoop(conn, st, socks) ==
    /\ asserted' = (asserted \/ st # "kDisconnected" \/ (conn /\ channel_ # 0))
    /\ IF conn THEN connect(socks, st)
       ELSE state_' = st /\ sock' = socks /\ UNCHANGED <<channel_, polled, timers>>

\* Fault: channel_ is reset inside handleEvent, or never.
ResetAtOnce == channel_' = 0 /\ UNCHANGED pendingF
ResetNever == UNCHANGED <<channel_, pendingF>>

ResetLater == Queue(<<"resetChannel", 0>>) /\ UNCHANGED channel_

removeAndResetChannel == polled' = polled \ {channel_} /\ ResetLater

\* stopInLoop and handleError do the same.
GiveUpConnecting ==
    IF state_ = "kConnecting"
    THEN removeAndResetChannel /\ retry(channel_, sock, connect_) /\ UNCHANGED asserted
    ELSE UNCHANGED <<connectorVars, pendingF>>

-----------------------------------------------------------------------------
(* TcpClient.                                                              *)

\* newConnection, with connectEstablished.
newConnection(s) ==
    /\ sock' = [sock EXCEPT ![s] = "up"]
    /\ connection_' = s
    /\ touched' = (touched \/ ~alive)

\* handleWrite: the socket has an error or is connected to itself, or it is
\* connected.
handleWrite ==
    IF state_ = "kConnecting"
    THEN /\ removeAndResetChannel
         /\ \/ retry(channel_, sock, connect_) /\ UNCHANGED <<connection_, touched>>
            \/ /\ state_' = "kConnected"
               /\ IF connect_ THEN newConnection(channel_)
                  ELSE /\ sock' = [sock EXCEPT ![channel_] = "closed"]
                       /\ UNCHANGED <<connection_, touched>>
               /\ UNCHANGED timers
         /\ UNCHANGED asserted
    ELSE UNCHANGED <<connectorVars, pendingF, connection_, touched>>

\* handleClose of connection s, and its closeCallback: removeConnection of the
\* client, with restart(), or the one that the destructor has put in its place.
handleClose(s) ==
    LET down == [sock EXCEPT ![s] = "down"] IN
    /\ Queue(<<"connectDestroyed", s>>)
    /\ IF s \in detached THEN UNCHANGED <<connection_, touched>>
       ELSE connection_' = 0 /\ touched' = (touched \/ ~alive)
    /\ IF s \notin detached /\ retry_ /\ wantsConnect
       THEN connect_' = TRUE /\ startInLoop(TRUE, "kDisconnected", down)
       ELSE /\ sock' = down
            /\ UNCHANGED <<connect_, state_, channel_, polled, timers, asserted>>

-----------------------------------------------------------------------------
(* User code.  u is "loop" or "foreign".                                   *)
Calls == ncalls < MaxCalls /\ ncalls' = ncalls + 1 /\ alive

Connect(u) ==
    /\ Calls /\ (Reconnects \/ ncalls = 0)
    /\ wantsConnect' = TRUE /\ connect_' = TRUE
    /\ IF u = "loop" THEN startInLoop(TRUE, state_, sock) /\ UNCHANGED pendingF
       ELSE Queue(<<"startInLoop", 0>>) /\ UNCHANGED connectorVars
    /\ UNCHANGED <<keeper, hasty, retry_, connection_, alive, detached, user, phase,
                   active, batchF, touched, dtor>>

\* disconnect() shuts the connection down: its peer will close it.
Disconnect ==
    /\ Calls /\ wantsConnect
    /\ wantsConnect' = FALSE
    /\ UNCHANGED <<connect_, connectorVars, keeper, hasty, retry_, connection_, alive,
                   detached, user, phase, active, pendingF, batchF, touched, dtor>>

Stop ==
    /\ Calls
    /\ wantsConnect' = FALSE /\ connect_' = FALSE
    /\ Queue(<<"stopInLoop", 0>>)
    /\ UNCHANGED <<connectorVars, keeper, hasty, retry_, connection_, alive, detached,
                   user, phase, active, batchF, touched, dtor>>

\* User code copies or drops a TcpConnectionPtr.  It closes a connection that
\* has outlived the client before it drops it.
Hold(s) ==
    /\ \/ s = connection_ /\ user' = user \cup {s} /\ UNCHANGED sock
       \/ /\ s \in user /\ (s = connection_ \/ sock[s] # "up")
          /\ user' = user \ {s}
          /\ sock' = IF sock[s] = "removed" THEN [sock EXCEPT ![s] = "closed"] ELSE sock
    /\ UNCHANGED <<connect_, state_, channel_, polled, timers, asserted, keeper, hasty,
                   wantsConnect, retry_, connection_, alive, detached, phase,
                   active, pendingF, batchF, ncalls, touched, dtor>>

\* Fault: closeCallback_ stays the client's.
DetachesNever(u) == {}

\* setCloseCallback, at once in the loop thread.
Detaches(u) == IF u = "loop" THEN {connection_} ELSE {}

\* Fault: nothing keeps the connector until it has stopped.
KeepsNot == 0

Keeps == 1

\* ~TcpClient.  unique() is read under the mutex.  The keeper's second begins
\* here; in another thread its addTimerInLoop waits behind stopInLoop.
Dtor(u) ==
    /\ alive
    /\ alive' = FALSE
    /\ connection_' = 0
    /\ dtor' = <<u, connection_ # 0 /\ Unsafe>>
    /\ IF connection_ # 0
       THEN LET set == IF u = "loop" THEN <<>>
                       ELSE <<<<"setCloseCallback", connection_>>>>
                close == IF connection_ \in user THEN <<>>
                         ELSE <<<<"forceClose", connection_>>>> IN
            /\ detached' = detached \cup Detaches(u)
            /\ pendingF' = pendingF \o set \o close
            /\ UNCHANGED <<connect_, keeper>>
       ELSE /\ connect_' = FALSE
            /\ pendingF' = pendingF \o <<<<"stopInLoop", 0>>>>
                               \o (IF u = "loop" THEN <<>> ELSE <<<<"addKeeper", 0>>>>)
            /\ keeper' = Keeps
            /\ UNCHANGED detached
    /\ UNCHANGED <<connectorVars, hasty, wantsConnect, retry_, user, phase, active,
                   batchF, ncalls, touched>>

-----------------------------------------------------------------------------
(* The loop.                                                               *)

Timer == <<"timer", 0>>
Keeper == <<"keeper", 0>>

\* Timers expire when they will: a second may be long for the loop, or short.
Ready ==
    {<<"write", s>> : s \in polled} \cup {<<"error", s>> : s \in polled}
        \cup {<<"close", s>> : s \in {n \in Sock : sock[n] = "up"}}
        \cup (IF timers > 0 THEN {Timer} ELSE {})
        \cup (IF keeper > 0 /\ ~Waiting(<<"addKeeper", 0>>) THEN {Keeper} ELSE {})

Poll ==
    /\ phase = "poll"
    /\ \E A \in SUBSET Ready :
           /\ active' = A
           /\ timers' = IF Timer \in A THEN timers - 1 ELSE timers
           /\ keeper' = IF keeper = 0 \/ Keeper \in A THEN 0
                        ELSE Min({keeper + 1, SafeRounds})
           /\ hasty' = (hasty \/ (Keeper \in A /\ keeper < SafeRounds))
    /\ phase' = "events"
    /\ UNCHANGED <<connect_, state_, channel_, polled, sock, asserted,
                   wantsConnect, retry_, connection_, alive, detached, user,
                   pendingF, batchF, ncalls, touched, dtor>>

HandleEvent(e) ==
    /\ phase = "events" /\ e \in active
    /\ active' = active \ {e}
    /\ \/ e[1] = "write" /\ handleWrite /\ UNCHANGED connect_
       \/ e[1] = "error" /\ GiveUpConnecting /\ UNCHANGED <<connect_, connection_, touched>>
       \/ e[1] = "close" /\ handleClose(e[2])
       \/ /\ e = Timer /\ startInLoop(connect_, state_, sock)
          /\ UNCHANGED <<connect_, pendingF, connection_, touched>>
       \/ /\ e = Keeper    \* removeConnector drops the pointer
          /\ UNCHANGED <<connect_, connectorVars, pendingF, connection_, touched>>
    /\ UNCHANGED <<keeper, hasty, wantsConnect, retry_, alive, detached, user, phase,
                   batchF, ncalls, dtor>>

DoPendingFunctors ==
    /\ \/ /\ phase = "events" /\ active = {}
          /\ phase' = "functors" /\ batchF' = pendingF /\ pendingF' = <<>>
       \/ /\ phase = "functors" /\ batchF = <<>>
          /\ phase' = "poll" /\ UNCHANGED <<batchF, pendingF>>
    /\ UNCHANGED <<connect_, connectorVars, keeper, hasty, wantsConnect, retry_,
                   connection_, alive, detached, user, active, ncalls, touched,
                   dtor>>

\* connectDestroyed drops the loop's pointer to the connection.
connectDestroyed(s) ==
    sock' = [sock EXCEPT ![s] = IF s \in user THEN "removed" ELSE "closed"]

RunFunctor ==
    /\ phase = "functors" /\ batchF # <<>>
    /\ batchF' = Tail(batchF)
    /\ LET f == Head(batchF) IN
       \/ /\ f = <<"startInLoop", 0>> /\ startInLoop(connect_, state_, sock)
          /\ UNCHANGED <<connect_, pendingF, connection_, touched, detached>>
       \/ /\ f = <<"stopInLoop", 0>> /\ GiveUpConnecting
          /\ UNCHANGED <<connect_, connection_, touched, detached>>
       \/ /\ f = <<"resetChannel", 0>> /\ channel_' = 0
          /\ UNCHANGED <<connect_, state_, polled, sock, timers, asserted,
                         pendingF, connection_, touched, detached>>
       \/ /\ f = <<"addKeeper", 0>>
          /\ UNCHANGED <<connect_, connectorVars, pendingF, connection_, touched,
                         detached>>
       \/ /\ f[1] = "connectDestroyed" /\ connectDestroyed(f[2])
          /\ UNCHANGED <<connect_, state_, channel_, polled, timers, asserted,
                         pendingF, connection_, touched, detached>>
       \/ /\ f[1] = "setCloseCallback" /\ detached' = detached \cup {f[2]}
          /\ UNCHANGED <<connect_, connectorVars, pendingF, connection_, touched>>
       \/ /\ f[1] = "forceClose"
          /\ IF sock[f[2]] = "up" THEN handleClose(f[2])
             ELSE UNCHANGED <<connect_, connectorVars, pendingF, connection_, touched>>
          /\ UNCHANGED detached
    /\ UNCHANGED <<keeper, hasty, wantsConnect, retry_, alive, user, phase, active,
                   ncalls, dtor>>

ClientLoop ==
    \/ Poll \/ (\E e \in active : HandleEvent(e))
    \/ DoPendingFunctors \/ RunFunctor

connectorFreed == ~alive /\ timers = 0 /\ keeper = 0 /\ {Timer, Keeper} \cap active = {}

\* The connector is gone, and a channel or a functor still names it.
Dangling == connectorFreed /\ (polled # {} \/ channel_ # 0 \/ Unsafe)

\* A call of a client or a connector that is gone is undefined behaviour: nothing
\* follows.
ClientNext ==
    /\ ~touched /\ ~Dangling
    /\ \/ \E u \in {"loop", "foreign"} : Connect(u) \/ Dtor(u)
       \/ Disconnect \/ Stop \/ (\E s \in Sock : Hold(s))
       \/ ClientLoop

ClientSpec == ClientInit /\ [][ClientNext]_clientVars

-----------------------------------------------------------------------------
(***************************************************************************)
(* startInLoop and connecting find the connector as their asserts say      *)
(* (Connector.cc:49, :131): not connecting already, and channel_ reset.    *)
(***************************************************************************)
ConnectorAsserts == ~asserted

(***************************************************************************)
(* The poller knows a channel of the connector exactly while its socket is *)
(* connecting, that channel is channel_, and the events of a round find    *)
(* the channel that poll reported (Connector.cc:148): resetChannel never   *)
(* hits the channel of a later attempt.                                    *)
(***************************************************************************)
ConnectorChannelLive ==
    /\ polled \subseteq {channel_}
    /\ polled = {s \in Sock : sock[s] = "connecting"}
    /\ \A e \in active : e[1] \in {"write", "error"} => e[2] = channel_

(***************************************************************************)
(* A client destroyed in the loop thread is not called back, whatever is   *)
(* queued or ready then (TcpClient.cc:88, Connector.cc:180).  One that is  *)
(* destroyed in another thread may be: "not 100% safe", TcpClient.cc:87.   *)
(***************************************************************************)
DeadClientUntouched == touched => dtor[1] = "foreign"

(***************************************************************************)
(* The connector lives as long as functors and a channel that bind a bare  *)
(* this refer to it (TcpClient.cc:100, Connector.cc:149), and channel_ is  *)
(* reset by then, as ~Connector asserts (Connector.cc:37).  There are two  *)
(* exceptions.  The client is destroyed while it has a connection and such *)
(* a functor waits, in the round in which it connected or just after       *)
(* stop(): only the branch without a connection keeps the connector.  Or   *)
(* the loop is so busy that it does not come round three times within the  *)
(* second of the "HACK" of TcpClient.cc:99: the third poll is the first    *)
(* that follows stopInLoop and the resetChannel it may queue, wherever in  *)
(* a round the client was destroyed.                                       *)
(***************************************************************************)
ConnectorOutlives == Dangling => touched \/ hasty \/ dtor[2]

(***************************************************************************)
(* A connector that should connect and has no attempt under way has a      *)
(* timer or a functor that starts one (Connector.cc:213), or has met an    *)
(* error that it does not retry.                                           *)
(***************************************************************************)
StillTrying ==
    connect_ /\ state_ = "kDisconnected" =>
        \/ timers > 0 \/ Timer \in active \/ Waiting(<<"startInLoop", 0>>)
        \/ \E s \in Sock : sock[s] = "failed"

(***************************************************************************)
(* The connector: its asserts, its channel, and that it goes on trying.    *)
(***************************************************************************)
ConnectorInv ==
    /\ ConnectorAsserts
    /\ ConnectorChannelLive
    /\ StillTrying

(***************************************************************************)
(* The lifetimes that ~TcpClient (TcpClient.cc:71-103) has to arrange.     *)
(***************************************************************************)
LifetimeInv ==
    /\ DeadClientUntouched
    /\ ConnectorOutlives
=============================================================================
