---------------------------- MODULE TcpConnection ----------------------------
(***************************************************************************)
(* The output side and the closing of one muduo::net::TcpConnection        *)
(* (src/muduo/net/TcpConnection.cc) that is up: send, shutdown, forceClose,*)
(* startRead and stopRead, called in its loop or from other threads, the   *)
(* handlers of its channel, and what they queue in the loop.  How it comes *)
(* up and who owns it is in TcpServer.tla; here the server's part is the   *)
(* connectDestroyed that it queues after a close.  The callbacks of user   *)
(* code that are queued are only noted: what they do is the loop's calls.  *)
(*                                                                         *)
(* Bytes are <<sender, number>>.  The loop takes its functors in order and *)
(* its events at any time between them.                                    *)
(***************************************************************************)
EXTENDS Naturals, Sequences, FiniteSets

CONSTANTS Thread,          \* threads other than the loop's that use it
          Loop,            \* the loop's own thread
          MaxLen,          \* bound: bytes of a message
          MaxCalls,        \* bound: calls of user code
          HighWaterMark    \* highWaterMark_

ASSUME ConnAssumption ==
    /\ Loop \notin Thread
    /\ MaxLen \in Nat /\ MaxCalls \in Nat
    /\ HighWaterMark \in Nat \ {0}

VARIABLES
    state_, reading_,
    events_,         \* the channel's interest
    polled,          \* the channel is known to the poller
    outputBuffer_,
    pending,         \* functors of this connection in the loop
    pc,              \* per thread: the call it is in
    wire,            \* bytes the socket has taken
    fin,             \* shutdownWrite has been called
    peer,            \* "open", "eof" or "reset"
    nsent, ncalls,   \* bytes sent by each sender, calls made
    lost,            \* senders that have had a message given up
    announced,       \* high-water callbacks queued since the buffer was below
    completed,       \* bytes on the wire when writeComplete was last queued
    down,            \* times user code has been told that it is down
    closing,         \* closeCallbacks that the server has yet to handle
    removed,         \* connectDestroyed has run
    held             \* user code keeps a TcpConnectionPtr

connVars == <<state_, reading_, events_, polled, outputBuffer_, pending, pc,
              wire, fin, peer, nsent, ncalls, lost, announced, completed, down,
              closing, removed, held>>

Sender == Thread \cup {Loop}
Byte == Sender \X Nat
Closers == {"shutdown", "forceClose"}
Readers == {"startRead", "stopRead"}
Call == [op : {"idle", "send"} \cup Closers, at : {"tested", "set"}, msg : Seq(Byte)]
Functor == [op : {"send", "connectDestroyed"} \cup Closers \cup Readers,
            msg : Seq(Byte), late : BOOLEAN]
Idle == [op |-> "idle", at |-> "tested", msg |-> <<>>]

\* The types of a connection, its socket and the calls on it.
TypeOK ==
    /\ state_ \in {"kConnected", "kDisconnecting", "kDisconnected"}
    /\ reading_ \in BOOLEAN /\ polled \in BOOLEAN /\ fin \in BOOLEAN
    /\ events_ \subseteq {"read", "write"}
    /\ outputBuffer_ \in Seq(Byte) /\ wire \in Seq(Byte)
    /\ pending \in Seq(Functor)
    /\ pc \in [Thread -> Call]
    /\ peer \in {"open", "eof", "reset"}
    /\ nsent \in [Sender -> Nat] /\ ncalls \in Nat
    /\ lost \subseteq Sender
    /\ announced \in Nat /\ completed \in Nat /\ down \in Nat /\ closing \in Nat
    /\ removed \in BOOLEAN /\ held \in BOOLEAN

ConnInit ==
    /\ state_ = "kConnected" /\ reading_ = TRUE
    /\ events_ = {"read"} /\ polled = TRUE
    /\ outputBuffer_ = <<>> /\ pending = <<>>
    /\ pc = [t \in Thread |-> Idle]
    /\ wire = <<>> /\ fin = FALSE /\ peer = "open"
    /\ nsent = [s \in Sender |-> 0] /\ ncalls = 0
    /\ lost = {} /\ announced = 0 /\ completed = 0
    /\ down = 0 /\ closing = 0 /\ removed = FALSE /\ held = TRUE

-----------------------------------------------------------------------------
(* Who keeps the object alive: the server until it has handled the close,  *)
(* functors that bind a shared pointer, threads inside a call, user code.  *)
Shared == {"forceClose", "connectDestroyed"}

freed ==
    /\ removed /\ closing = 0 /\ ~held
    /\ \A t \in Thread : pc[t] = Idle
    /\ \A i \in DOMAIN pending : pending[i].op \notin Shared

isWriting == "write" \in events_
broken == fin \/ peer = "reset"    \* write() fails with EPIPE or ECONNRESET

\* A functor; late when the connection has gone down before it is queued.
Fn(op, msg) == [op |-> op, msg |-> msg, late |-> down > 0]

\* The next n bytes of sender s.
Message(s, n) == [i \in 1..n |-> <<s, nsent[s] + i>>]

\* Fault: the count is taken back, not reset.
BelowTakesBack(buf) == IF Len(buf) >= HighWaterMark THEN announced ELSE announced - 1

\* announced after the buffer has become buf.
Below(buf) == IF Len(buf) >= HighWaterMark THEN announced ELSE 0

\* Fault: the callback is queued whenever the buffer is above the mark.
CrossesAgain(rest) == Len(outputBuffer_) + Len(rest) >= HighWaterMark

\* The callback of the high-water mark, for rest to be buffered.
Crosses(rest) ==
    /\ Len(outputBuffer_) + Len(rest) >= HighWaterMark
    /\ Len(outputBuffer_) < HighWaterMark

-----------------------------------------------------------------------------
(* sendInLoop, in its cases.  queue is the rest of the functors.           *)

Unwritten(m, n) == SubSeq(m, n + 1, Len(m))

\* Fault: the socket is tried although output is waiting.
TriesSocketAlways == TRUE

TriesSocket == ~isWriting /\ outputBuffer_ = <<>>

GiveUp(s, queue) ==
    /\ state_ = "kDisconnected" \/ (TriesSocket /\ broken)
    /\ lost' = lost \cup {s}
    /\ pending' = queue
    /\ UNCHANGED <<events_, polled, outputBuffer_, wire, announced, completed>>

\* n bytes of m go to the socket, the rest is buffered.
Accept(m, n, queue) ==
    LET rest == Unwritten(m, n) IN
    /\ state_ # "kDisconnected"
    /\ IF TriesSocket THEN ~broken ELSE n = 0
    /\ wire' = wire \o SubSeq(m, 1, n)
    /\ outputBuffer_' = outputBuffer_ \o rest
    /\ pending' = queue
    /\ IF n = Len(m)
       THEN completed' = Len(wire') /\ UNCHANGED <<events_, polled, announced>>
       ELSE /\ announced' = IF Crosses(rest) THEN announced + 1 ELSE announced
            /\ events_' = events_ \cup {"write"}
            /\ polled' = TRUE
            /\ UNCHANGED completed
    /\ UNCHANGED lost

sendInLoop(s, m, queue) ==
    /\ GiveUp(s, queue) \/ \E n \in 0..Len(m) : Accept(m, n, queue)
    /\ UNCHANGED <<state_, reading_, fin, down, closing, removed>>

\* Fault: the FIN does not wait for the buffer.
FinNow == TRUE

shutdownInLoop == fin \/ ~isWriting    \* the value of fin after it

handleClose ==
    /\ state_' = "kDisconnected"
    /\ events_' = {}
    /\ polled' = TRUE
    /\ down' = down + 1
    /\ closing' = closing + 1
    /\ UNCHANGED <<reading_, outputBuffer_, wire, fin, lost, announced,
                   completed, removed>>

ForceClosable == state_ \in {"kConnected", "kDisconnecting"}

startReadInLoop ==
    IF ~reading_ \/ "read" \notin events_
    THEN events_' = events_ \cup {"read"} /\ polled' = TRUE /\ reading_' = TRUE
    ELSE UNCHANGED <<events_, polled, reading_>>

stopReadInLoop ==
    IF reading_ \/ "read" \in events_
    THEN events_' = events_ \ {"read"} /\ polled' = TRUE /\ reading_' = FALSE
    ELSE UNCHANGED <<events_, polled, reading_>>

-----------------------------------------------------------------------------
(* Calls in the loop thread run at once.                                   *)
InCallback == held \/ ~removed
OneMore == ncalls < MaxCalls /\ ncalls' = ncalls + 1

LoopSend(n) ==
    /\ InCallback /\ OneMore
    /\ state_ = "kConnected"
    /\ nsent' = [nsent EXCEPT ![Loop] = @ + n]
    /\ sendInLoop(Loop, Message(Loop, n), pending)
    /\ UNCHANGED <<pc, peer, held>>

LoopShutdown ==
    /\ InCallback /\ OneMore
    /\ state_ = "kConnected"
    /\ state_' = "kDisconnecting"
    /\ fin' = shutdownInLoop
    /\ UNCHANGED <<reading_, events_, polled, outputBuffer_, pending, pc, wire,
                   peer, nsent, lost, announced, completed, down, closing,
                   removed, held>>

LoopForceClose ==
    /\ InCallback /\ OneMore
    /\ ForceClosable
    /\ state_' = "kDisconnecting"
    /\ pending' = Append(pending, Fn("forceClose", <<>>))
    /\ UNCHANGED <<reading_, events_, polled, outputBuffer_, pc, wire, fin,
                   peer, nsent, lost, announced, completed, down, closing,
                   removed, held>>

LoopRead ==
    /\ InCallback /\ OneMore
    /\ startReadInLoop \/ stopReadInLoop
    /\ UNCHANGED <<state_, outputBuffer_, pending, pc, wire, fin, peer, nsent,
                   lost, announced, completed, down, closing, removed, held>>

-----------------------------------------------------------------------------
(* Calls of other threads test state_, set it, and queue, in three steps.  *)

Enter(t, call) ==
    /\ held /\ pc[t] = Idle
    /\ pc' = [pc EXCEPT ![t] = call]
    /\ UNCHANGED <<state_, reading_, events_, polled, outputBuffer_, pending,
                   wire, fin, peer, lost, announced, completed, down, closing,
                   removed, held>>

send(t, n) ==
    /\ state_ = "kConnected"
    /\ OneMore
    /\ nsent' = [nsent EXCEPT ![t] = @ + n]
    /\ Enter(t, [op |-> "send", at |-> "tested", msg |-> Message(t, n)])

Close(t, op) ==
    /\ state_ = "kConnected" \/ (op = "forceClose" /\ state_ = "kDisconnecting")
    /\ OneMore
    /\ Enter(t, [op |-> op, at |-> "tested", msg |-> <<>>])
    /\ UNCHANGED nsent

SetState(t) ==
    /\ pc[t].op \in Closers /\ pc[t].at = "tested"
    /\ pc' = [pc EXCEPT ![t].at = "set"]
    /\ state_' = "kDisconnecting"
    /\ UNCHANGED <<reading_, events_, polled, outputBuffer_, pending, wire, fin,
                   peer, nsent, ncalls, lost, announced, completed, down,
                   closing, removed, held>>

QueueInLoop(t) ==
    /\ pc[t].op = "send" \/ pc[t].at = "set"
    /\ pending' = Append(pending, Fn(pc[t].op, pc[t].msg))
    /\ pc' = [pc EXCEPT ![t] = Idle]
    /\ UNCHANGED <<state_, reading_, events_, polled, outputBuffer_, wire, fin,
                   peer, nsent, ncalls, lost, announced, completed, down,
                   closing, removed, held>>

Read(t, op) ==
    /\ held /\ pc[t] = Idle /\ OneMore
    /\ pending' = Append(pending, Fn(op, <<>>))
    /\ UNCHANGED <<state_, reading_, events_, polled, outputBuffer_, pc, wire,
                   fin, peer, nsent, lost, announced, completed, down, closing,
                   removed, held>>

-----------------------------------------------------------------------------
(* Functors and events in the loop.                                        *)

Running(op) == ~freed /\ pending # <<>> /\ Head(pending).op = op

RunSend ==
    /\ Running("send")
    /\ sendInLoop(Head(pending).msg[1][1], Head(pending).msg, Tail(pending))
    /\ UNCHANGED <<pc, peer, nsent, ncalls, held>>

RunShutdown ==
    /\ Running("shutdown")
    /\ fin' = shutdownInLoop
    /\ pending' = Tail(pending)
    /\ UNCHANGED <<state_, reading_, events_, polled, outputBuffer_, pc, wire,
                   peer, nsent, ncalls, lost, announced, completed, down,
                   closing, removed, held>>

RunForceClose ==
    /\ Running("forceClose")
    /\ pending' = Tail(pending)
    /\ IF ForceClosable THEN handleClose
       ELSE UNCHANGED <<state_, reading_, events_, polled, outputBuffer_, wire,
                        fin, lost, announced, completed, down, closing, removed>>
    /\ UNCHANGED <<pc, peer, nsent, ncalls, held>>

RunRead ==
    /\ \/ Running("startRead") /\ startReadInLoop
       \/ Running("stopRead") /\ stopReadInLoop
    /\ pending' = Tail(pending)
    /\ UNCHANGED <<state_, outputBuffer_, pc, wire, fin, peer, nsent, ncalls,
                   lost, announced, completed, down, closing, removed, held>>

connectDestroyed ==
    /\ Running("connectDestroyed")
    /\ IF state_ = "kConnected"
       THEN state_' = "kDisconnected" /\ events_' = {} /\ down' = down + 1
       ELSE UNCHANGED <<state_, events_, down>>
    /\ polled' = FALSE
    /\ removed' = TRUE
    /\ pending' = Tail(pending)
    /\ UNCHANGED <<reading_, outputBuffer_, pc, wire, fin, peer, nsent, ncalls,
                   lost, announced, completed, closing, held>>

\* Fault: one write is taken for all.
DrainedOnce(buf) == TRUE

Drained(buf) == buf = <<>>

\* Fault: a drained connection is shut down, and one is not.
FinAlways == TRUE
FinNever == FALSE

FinAfterDrain == state_ = "kDisconnecting"

\* handleWrite writes n bytes.  A write that fails is only logged.
handleWrite(n) ==
    /\ ~freed /\ polled /\ isWriting /\ ~broken
    /\ wire' = wire \o SubSeq(outputBuffer_, 1, n)
    /\ outputBuffer_' = Unwritten(outputBuffer_, n)
    /\ announced' = Below(outputBuffer_')
    /\ IF Drained(outputBuffer_')
       THEN /\ events_' = events_ \ {"write"}
            /\ completed' = Len(wire')
            /\ fin' = FinAfterDrain
       ELSE UNCHANGED <<events_, completed, fin>>
    /\ UNCHANGED <<state_, reading_, polled, pending, pc, peer, nsent, ncalls,
                   lost, down, closing, removed, held>>

\* handleRead that reads 0, or POLLHUP without POLLIN.  A read that fails is
\* only logged; the next one reads 0.
SeesEnd ==
    \/ "read" \in events_ /\ peer # "open"
    \/ events_ = {"write"} /\ (peer = "reset" \/ (peer = "eof" /\ fin))

handleEnd ==
    /\ ~freed /\ polled /\ SeesEnd
    /\ handleClose
    /\ UNCHANGED <<pending, pc, peer, nsent, ncalls, held>>

-----------------------------------------------------------------------------
(* The server, the peer and the user's pointer.                            *)

\* Fault: connectDestroyed runs before what waits.
AheadOf(queue, f) == <<f>> \o queue

Behind(queue, f) == Append(queue, f)

RemoveConnection ==
    /\ closing > 0
    /\ closing' = closing - 1
    /\ pending' = Behind(pending, Fn("connectDestroyed", <<>>))
    /\ UNCHANGED <<state_, reading_, events_, polled, outputBuffer_, pc, wire,
                   fin, peer, nsent, ncalls, lost, announced, completed, down,
                   removed, held>>

Outside ==
    /\ \/ peer = "open" /\ peer' = "eof" /\ UNCHANGED held
       \/ peer # "reset" /\ peer' = "reset" /\ UNCHANGED held
       \/ held /\ held' = FALSE /\ UNCHANGED peer
    /\ UNCHANGED <<state_, reading_, events_, polled, outputBuffer_, pending, pc,
                   wire, fin, nsent, ncalls, lost, announced, completed, down,
                   closing, removed>>

ForeignStep(t) ==
    \/ \E n \in 1..MaxLen : send(t, n)
    \/ \E op \in Closers : Close(t, op)
    \/ \E op \in Readers : Read(t, op)
    \/ SetState(t) \/ QueueInLoop(t)

LoopStep ==
    \/ \E n \in 1..MaxLen : LoopSend(n)
    \/ LoopShutdown \/ LoopForceClose \/ LoopRead
    \/ RunSend \/ RunShutdown \/ RunForceClose \/ RunRead
    \/ connectDestroyed
    \/ \E n \in 1..Len(outputBuffer_) : handleWrite(n)
    \/ handleEnd

ConnNext == LoopStep \/ (\E t \in Thread : ForeignStep(t)) \/ RemoveConnection \/ Outside

ConnSpec == ConnInit /\ [][ConnNext]_connVars

(***************************************************************************)
(* The loop runs what is queued and handles what poll reports; a socket    *)
(* that is not broken becomes writable; threads finish the calls they are  *)
(* in; the server handles a close.                                         *)
(***************************************************************************)
ConnFairness ==
    /\ WF_connVars(RunSend \/ RunShutdown \/ RunForceClose \/ RunRead
                   \/ connectDestroyed)
    /\ WF_connVars(\E n \in 1..Len(outputBuffer_) : handleWrite(n))
    /\ WF_connVars(handleEnd)
    /\ \A t \in Thread : WF_connVars(SetState(t) \/ QueueInLoop(t))
    /\ WF_connVars(RemoveConnection)

ConnFairSpec == ConnSpec /\ ConnFairness

-----------------------------------------------------------------------------
(***************************************************************************)
(* While the connection is up, the channel asks for POLLOUT exactly when   *)
(* there is output to write (sendInLoop, TcpConnection.cc:187, handleWrite,*)
(* :379): less, and data would be stuck in the buffer; more, and the loop  *)
(* would spin.                                                             *)
(***************************************************************************)
WritingIffBuffered == down = 0 => (isWriting <=> outputBuffer_ # <<>>)

(***************************************************************************)
(* The messages of one sender reach the socket in the order of its calls,  *)
(* no byte twice, whatever other threads send meanwhile and however the    *)
(* socket splits the writes (send, TcpConnection.cc:92).                   *)
(***************************************************************************)
SendersInOrder ==
    LET out == wire \o outputBuffer_ IN
    \A i, j \in DOMAIN out :
        i < j /\ out[i][1] = out[j][1] => out[i][2] < out[j][2]

(***************************************************************************)
(* A message that send() took is given up only when the peer has reset the *)
(* connection, or when it was sent by another thread and the connection    *)
(* was shut down or closed before sendInLoop ran; what the loop thread     *)
(* sends before it shuts down is never given up (TcpConnection.cc:94,      *)
(* :145, :168).                                                            *)
(***************************************************************************)
LostOnlyToRace ==
    \A s \in lost : peer = "reset" \/ (s # Loop /\ (fin \/ down > 0))

(***************************************************************************)
(* A functor that was queued before the connection went down runs on a     *)
(* live object even when it binds a bare this (TcpConnection.cc:105, :201):*)
(* connectDestroyed, which may drop the last pointer, is behind it.  Only  *)
(* a call that tested state_ before the close and queued after it is not   *)
(* covered, nor is a startRead or stopRead after it.                       *)
(***************************************************************************)
QueuedWhileUpIsSafe == freed => \A i \in DOMAIN pending : pending[i].late

(***************************************************************************)
(* User code hears of every crossing of the high-water mark once           *)
(* (TcpConnection.cc:180).                                                 *)
(***************************************************************************)
HighWaterOnce ==
    announced = IF Len(outputBuffer_) >= HighWaterMark THEN 1 ELSE 0

(***************************************************************************)
(* The output is a byte stream: see ByteStream.tla.                        *)
(***************************************************************************)
Stream == INSTANCE ByteStream WITH
    accepted <- wire \o outputBuffer_, delivered <- wire,
    ended <- fin, closed <- (down > 0)

ImplementsByteStream == Stream!Spec

(***************************************************************************)
(* Output is written and announced: every byte accepted is reported by a   *)
(* writeCompleteCallback, unless the connection goes down or is reset.     *)
(***************************************************************************)
WriteCompletes ==
    Len(wire) + Len(outputBuffer_) > completed
        ~> (completed = Len(wire) + Len(outputBuffer_) \/ down > 0 \/ peer = "reset")

(***************************************************************************)
(* shutdown() and forceClose() take effect, in whatever order they race    *)
(* with sends and with the socket (TcpConnection.cc:194, :386): the FIN is *)
(* sent or the connection goes down.                                       *)
(***************************************************************************)
ShutdownTakesEffect == state_ = "kDisconnecting" ~> (fin \/ down > 0)

(***************************************************************************)
(* The types, and that the channel and the high-water mark follow the      *)
(* output buffer.                                                          *)
(***************************************************************************)
OutputWatched ==
    /\ TypeOK
    /\ WritingIffBuffered
    /\ HighWaterOnce

(***************************************************************************)
(* What a connection must get done: output is written, and shutdown() and  *)
(* forceClose() take effect.                                               *)
(***************************************************************************)
ConnProgress ==
    /\ WriteCompletes
    /\ ShutdownTakesEffect
=============================================================================
