------------------------- MODULE TcpConnectionProofs -------------------------
(***************************************************************************)
(* Theorems about TcpConnection, for any number of threads, any length of  *)
(* messages and any high-water mark: the channel follows the output        *)
(* buffer, messages are given up only to a race, functors queued while the *)
(* connection is up run on a live object, the output implements            *)
(* ByteStream, and the bytes of each sender stay in order.                 *)
(***************************************************************************)
EXTENDS TcpConnection, SequenceTheorems, TLAPS

-----------------------------------------------------------------------------
(* Inductive invariants.                                                   *)

\* Every message in flight is that of a thread, which RunSend reads from it.
Foreign(msg) == msg # <<>> /\ msg[1][1] \in Thread

SendFunctor == {f \in Functor : f.op = "send" => Foreign(f.msg)}

MessagesInv ==
    /\ pending \in Seq(SendFunctor)
    /\ \A t \in Thread : /\ pc[t].op = "send" => Foreign(pc[t].msg)
                         /\ pc[t].at = "set" => pc[t].op \in Closers

TypeInv == TypeOK /\ MessagesInv

\* state_ never returns to kConnected: until it is left there is no FIN and
\* none on its way.
NoShutdown == {f \in Functor : f.op # "shutdown"}

StateInv ==
    /\ state_ = "kConnected" =>
          /\ ~fin /\ down = 0
          /\ pending \in Seq(NoShutdown)
          /\ \A t \in Thread : pc[t].at = "tested"
    /\ state_ = "kDisconnected" => down > 0

\* What waits behind a connectDestroyed, or is left after it, was queued when
\* the connection was down.
DestroyInv ==
    /\ removed \/ closing > 0 => down > 0
    /\ \A i \in DOMAIN pending : pending[i].op = "connectDestroyed" => down > 0
    /\ \A i, j \in DOMAIN pending :
          i < j /\ pending[i].op = "connectDestroyed" => pending[j].late
    /\ removed => \A i \in DOMAIN pending : pending[i].late

-----------------------------------------------------------------------------
(* Sequences.                                                              *)

\* The bytes that sendInLoop and handleWrite leave over.
LEMMA UnwrittenRest ==
    ASSUME NEW S, NEW m \in Seq(S), NEW n \in 0..Len(m)
    PROVE  /\ Unwritten(m, n) \in Seq(S)
           /\ Len(Unwritten(m, n)) = Len(m) - n
           /\ SubSeq(m, 1, n) \in Seq(S)
           /\ Len(SubSeq(m, 1, n)) = n
<1>1. Len(m) \in Nat /\ \A i \in 1..Len(m) : m[i] \in S
    BY LenProperties
<1>2. \A i \in (n + 1)..Len(m) : m[i] \in S
    BY <1>1
<1>3. \A i \in 1..n : m[i] \in S
    BY <1>1
<1> QED
    BY <1>1, <1>2, <1>3, SubSeqProperties DEF Unwritten

\* The queue of functors after one has been run or added.
LEMMA TailOfQueue ==
    ASSUME NEW S, NEW q \in Seq(S), q # <<>>
    PROVE  /\ Tail(q) \in Seq(S)
           /\ DOMAIN q = 1..Len(q) /\ DOMAIN Tail(q) = 1..(Len(q) - 1)
           /\ Len(q) \in Nat \ {0}
           /\ Head(q) = q[1] /\ q[1] \in S
           /\ \A i \in 1..(Len(q) - 1) : Tail(q)[i] = q[i + 1]
BY HeadTailProperties, LenProperties, EmptySeq

LEMMA AppendToQueue ==
    ASSUME NEW S, NEW q \in Seq(S), NEW e \in S
    PROVE  /\ Append(q, e) \in Seq(S)
           /\ Len(q) \in Nat
           /\ DOMAIN q = 1..Len(q) /\ DOMAIN Append(q, e) = 1..(Len(q) + 1)
           /\ \A i \in 1..Len(q) : Append(q, e)[i] = q[i]
           /\ Append(q, e)[Len(q) + 1] = e
BY AppendProperties, LenProperties

\* A message of n > 0 bytes.
LEMMA MessageType ==
    ASSUME NEW s \in Sender, NEW n \in 1..MaxLen, TypeOK
    PROVE  /\ Message(s, n) \in Seq(Byte)
           /\ Len(Message(s, n)) = n
           /\ Message(s, n) # <<>>
           /\ Message(s, n)[1][1] = s
<1>1. n \in Nat \ {0} /\ nsent[s] \in Nat
    BY ConnAssumption DEF TypeOK
<1>2. \A i \in 1..n : <<s, nsent[s] + i>> \in Byte
    BY <1>1 DEF Byte
<1>3. Message(s, n) \in [1..n -> Byte]
    BY <1>2 DEF Message
<1>4. Message(s, n) \in Seq(Byte)
    BY <1>1, <1>3
<1>5. Len(Message(s, n)) = n
    BY <1>1, <1>4, LenProperties DEF Message
<1>6. Message(s, n)[1] = <<s, nsent[s] + 1>>
    BY <1>1 DEF Message
<1> QED
    BY <1>1, <1>4, <1>5, <1>6, EmptySeq

-----------------------------------------------------------------------------
(* Type correctness.                                                       *)

LEMMA TypeInit == ConnInit => TypeInv
<1> SUFFICES ASSUME ConnInit PROVE TypeInv
    OBVIOUS
<1> USE DEF ConnInit
<1>1. Idle \in Call
    BY DEF Idle, Call
<1>2. pc \in [Thread -> Call]
    BY <1>1
<1>3. nsent \in [Sender -> Nat]
    OBVIOUS
<1>4. /\ pending \in Seq(Functor) /\ pending \in Seq(SendFunctor)
      /\ outputBuffer_ \in Seq(Byte) /\ wire \in Seq(Byte)
    BY EmptySeq
<1>5. \A t \in Thread : pc[t].op # "send" /\ pc[t].at # "set"
    BY DEF Idle
<1> QED
    BY <1>2, <1>3, <1>4, <1>5, Zenon DEF TypeInv, TypeOK, MessagesInv

LEMMA FnParts ==
    ASSUME down \in Nat, NEW msg \in Seq(Byte),
           NEW op \in {"send", "connectDestroyed"} \cup Closers \cup Readers
    PROVE  Fn(op, msg) \in Functor /\ Fn(op, msg).msg = msg /\ Fn(op, msg).op = op
<1>1. (down > 0) \in BOOLEAN
    OBVIOUS
<1>2. PICK late \in BOOLEAN : late = (down > 0)
    BY <1>1, Zenon
<1>3. Fn(op, msg) = [op |-> op, msg |-> msg, late |-> late]
    BY <1>2, Zenon DEF Fn
<1> QED
    BY <1>3 DEF Functor

LEMMA FnType ==
    ASSUME TypeOK, NEW op, NEW msg \in Seq(Byte),
           op \in {"send", "connectDestroyed"} \cup Closers \cup Readers,
           op = "send" => Foreign(msg)
    PROVE  Fn(op, msg) \in SendFunctor /\ Fn(op, msg) \in Functor
BY DEF TypeOK, Fn, SendFunctor, Functor

LEMMA QueueSteps ==
    ASSUME pending \in Seq(SendFunctor)
    PROVE  /\ pending \in Seq(Functor)
           /\ pending # <<>> => /\ Tail(pending) \in Seq(Functor)
                                /\ Tail(pending) \in Seq(SendFunctor)
                                /\ Head(pending) \in SendFunctor
                                /\ Head(pending) \in Functor
           /\ \A f \in SendFunctor : /\ Append(pending, f) \in Seq(Functor)
                                     /\ Append(pending, f) \in Seq(SendFunctor)
<1>1. SendFunctor \subseteq Functor
    BY DEF SendFunctor
<1>2. pending \in Seq(Functor)
    BY <1>1
<1> QED
    BY <1>1, <1>2, TailOfQueue, AppendToQueue

\* sendInLoop keeps the types, for any message of a sender.
LEMMA SendInLoopType ==
    ASSUME TypeInv, NEW s \in Sender, NEW m \in Seq(Byte), NEW queue,
           sendInLoop(s, m, queue)
    PROVE  /\ events_' \subseteq {"read", "write"} /\ polled' \in BOOLEAN
           /\ outputBuffer_' \in Seq(Byte) /\ wire' \in Seq(Byte)
           /\ announced' \in Nat /\ completed' \in Nat /\ lost' \subseteq Sender
           /\ pending' = queue
<1>1. CASE GiveUp(s, queue)
    BY <1>1 DEF TypeInv, TypeOK, GiveUp
<1>2. ASSUME NEW n \in 0..Len(m), Accept(m, n, queue)
      PROVE  /\ events_' \subseteq {"read", "write"} /\ polled' \in BOOLEAN
             /\ outputBuffer_' \in Seq(Byte) /\ wire' \in Seq(Byte)
             /\ announced' \in Nat /\ completed' \in Nat /\ lost' \subseteq Sender
             /\ pending' = queue
  <2>1. /\ Unwritten(m, n) \in Seq(Byte) /\ SubSeq(m, 1, n) \in Seq(Byte)
        BY UnwrittenRest
  <2>2. outputBuffer_' \in Seq(Byte) /\ wire' \in Seq(Byte)
        BY <1>2, <2>1, ConcatProperties DEF Accept, TypeInv, TypeOK
  <2>3. Len(wire') \in Nat
        BY <2>2, LenProperties
  <2>4. events_' \subseteq {"read", "write"} /\ polled' \in BOOLEAN
        BY <1>2, Zenon DEF Accept, TypeInv, TypeOK
  <2>5. announced' \in Nat /\ completed' \in Nat
        BY <1>2, <2>3, SMTT(30) DEF Accept, TypeInv, TypeOK
  <2> QED
        BY <1>2, <2>2, <2>4, <2>5, SMTT(30) DEF Accept, TypeInv, TypeOK
<1> QED
    BY <1>1, <1>2 DEF sendInLoop

LEMMA ReadType ==
    ASSUME TypeInv, startReadInLoop \/ stopReadInLoop
    PROVE  /\ events_' \subseteq {"read", "write"}
           /\ polled' \in BOOLEAN /\ reading_' \in BOOLEAN
<1>1. CASE startReadInLoop
    BY <1>1, Zenon DEF startReadInLoop, TypeInv, TypeOK
<1>2. CASE stopReadInLoop
    BY <1>2, Zenon DEF stopReadInLoop, TypeInv, TypeOK
<1> QED
    BY <1>1, <1>2

LEMMA TypeStep == TypeInv /\ [ConnNext]_connVars => TypeInv'
<1> SUFFICES ASSUME TypeInv, [ConnNext]_connVars PROVE TypeInv'
    OBVIOUS
<1> USE DEF TypeInv
<1>0. /\ pending \in Seq(SendFunctor) /\ Loop \in Sender
      /\ \A t \in Thread : t \in Sender /\ pc[t] \in Call
    BY DEF MessagesInv, TypeOK, Sender
<1>q. /\ pending # <<>> => /\ Tail(pending) \in Seq(Functor)
                           /\ Tail(pending) \in Seq(SendFunctor)
                           /\ Head(pending) \in SendFunctor
                           /\ Head(pending) \in Functor
      /\ \A f \in SendFunctor : /\ Append(pending, f) \in Seq(Functor)
                                /\ Append(pending, f) \in Seq(SendFunctor)
    BY <1>0, QueueSteps
<1>e. <<>> \in Seq(Byte)
    BY EmptySeq
<1>1. ASSUME NEW n \in 1..MaxLen, LoopSend(n) PROVE TypeInv'
  <2>1. Message(Loop, n) \in Seq(Byte)
        BY <1>0, MessageType
  <2>2. sendInLoop(Loop, Message(Loop, n), pending)
        BY <1>1 DEF LoopSend
  <2>3. /\ events_' \subseteq {"read", "write"} /\ polled' \in BOOLEAN
        /\ outputBuffer_' \in Seq(Byte) /\ wire' \in Seq(Byte)
        /\ announced' \in Nat /\ completed' \in Nat /\ lost' \subseteq Sender
        /\ pending' = pending
        BY <1>0, <2>1, <2>2, SendInLoopType
  <2>4. n \in Nat /\ nsent' \in [Sender -> Nat]
        BY <1>0, <1>1, ConnAssumption DEF LoopSend, TypeOK
  <2> QED
        BY <1>1, <2>2, <2>3, <2>4, SMTT(30) DEF LoopSend, OneMore, sendInLoop, TypeOK, MessagesInv
<1>2. CASE LoopShutdown
    BY <1>2 DEF LoopShutdown, OneMore, shutdownInLoop, isWriting, TypeOK, MessagesInv
<1>3. CASE LoopForceClose
  <2>1. Fn("forceClose", <<>>) \in SendFunctor
        BY <1>e, FnType, Zenon DEF Closers
  <2> QED
        BY <1>3, <1>q, <2>1 DEF LoopForceClose, OneMore, TypeOK, MessagesInv
<1>4. CASE LoopRead
  <2>1. /\ events_' \subseteq {"read", "write"}
        /\ polled' \in BOOLEAN /\ reading_' \in BOOLEAN
        BY <1>4, ReadType DEF LoopRead
  <2> QED
        BY <1>4, <2>1 DEF LoopRead, OneMore, TypeOK, MessagesInv
<1>5. CASE RunSend
  <2>1. pending # <<>> /\ Head(pending).op = "send"
        BY <1>5 DEF RunSend, Running
  <2> DEFINE m == Head(pending).msg
  <2>2. m \in Seq(Byte) /\ Foreign(m)
        BY <1>q, <2>1 DEF SendFunctor, Functor
  <2>3. m[1][1] \in Sender
        BY <2>2 DEF Foreign, Sender
  <2>4. sendInLoop(m[1][1], m, Tail(pending))
        BY <1>5 DEF RunSend
  <2>5. /\ events_' \subseteq {"read", "write"} /\ polled' \in BOOLEAN
        /\ outputBuffer_' \in Seq(Byte) /\ wire' \in Seq(Byte)
        /\ announced' \in Nat /\ completed' \in Nat /\ lost' \subseteq Sender
        /\ pending' = Tail(pending)
        BY <2>2, <2>3, <2>4, SendInLoopType, Zenon
  <2> QED
        BY <1>5, <1>q, <2>1, <2>4, <2>5 DEF RunSend, sendInLoop, TypeOK, MessagesInv
<1>6. CASE RunShutdown
    BY <1>6, <1>q DEF RunShutdown, Running, shutdownInLoop, isWriting, TypeOK, MessagesInv
<1>7. CASE RunForceClose
  <2>1. CASE ForceClosable
        BY <1>7, <1>q, <2>1 DEF RunForceClose, Running, handleClose, TypeOK, MessagesInv
  <2>2. CASE ~ForceClosable
        BY <1>7, <1>q, <2>2, Zenon DEF RunForceClose, Running, TypeOK, MessagesInv
  <2> QED
        BY <2>1, <2>2
<1>8. CASE RunRead
  <2>1. /\ events_' \subseteq {"read", "write"}
        /\ polled' \in BOOLEAN /\ reading_' \in BOOLEAN
        BY <1>8, ReadType DEF RunRead
  <2> QED
        BY <1>8, <1>q, <2>1 DEF RunRead, Running, TypeOK, MessagesInv
<1>9. CASE connectDestroyed
  <2>1. /\ state_' \in {"kConnected", "kDisconnecting", "kDisconnected"}
        /\ events_' \subseteq {"read", "write"} /\ down' \in Nat
    <3>1. CASE state_ = "kConnected"
          BY <1>9, <3>1 DEF connectDestroyed, TypeOK
    <3>2. CASE state_ # "kConnected"
          BY <1>9, <3>2, Zenon DEF connectDestroyed, TypeOK
    <3> QED
          BY <3>1, <3>2
  <2> QED
        BY <1>9, <1>q, <2>1, Zenon DEF connectDestroyed, Running, TypeOK, MessagesInv
<1>10. ASSUME NEW n \in 1..Len(outputBuffer_), handleWrite(n) PROVE TypeInv'
  <2>1. outputBuffer_ \in Seq(Byte) /\ Len(outputBuffer_) \in Nat
        BY LenProperties DEF TypeOK
  <2>2. n \in 0..Len(outputBuffer_)
        BY <2>1
  <2>3. /\ Unwritten(outputBuffer_, n) \in Seq(Byte)
        /\ SubSeq(outputBuffer_, 1, n) \in Seq(Byte)
        BY <2>1, <2>2, UnwrittenRest
  <2>4. outputBuffer_' \in Seq(Byte) /\ wire' \in Seq(Byte)
        BY <1>10, <2>3, ConcatProperties DEF handleWrite, TypeOK
  <2>5. Len(wire') \in Nat
        BY <2>4, LenProperties
  <2> QED
        BY <1>10, <2>4, <2>5, Zenon DEF handleWrite, Below, FinAfterDrain, TypeOK, MessagesInv
<1>11. CASE handleEnd
    BY <1>11 DEF handleEnd, handleClose, TypeOK, MessagesInv
<1>12. ASSUME NEW t \in Thread, NEW n \in 1..MaxLen, send(t, n) PROVE TypeInv'
  <2>1. Message(t, n) \in Seq(Byte) /\ Foreign(Message(t, n))
        BY <1>0, MessageType DEF Foreign
  <2>2. [op |-> "send", at |-> "tested", msg |-> Message(t, n)] \in Call
        BY <2>1 DEF Call
  <2>3. n \in Nat /\ nsent' \in [Sender -> Nat]
        BY <1>0, <1>12, ConnAssumption DEF send, TypeOK
  <2>4. pc' \in [Thread -> Call]
        BY <1>12, <2>2 DEF send, Enter, TypeOK
  <2>5. \A u \in Thread : /\ pc'[u].op = "send" => Foreign(pc'[u].msg)
                          /\ pc'[u].at = "set" => pc'[u].op \in Closers
        BY <1>12, <2>1 DEF send, Enter, TypeOK, MessagesInv
  <2> QED
        BY <1>12, <2>3, <2>4, <2>5 DEF send, Enter, OneMore, TypeOK, MessagesInv
<1>13. ASSUME NEW t \in Thread, NEW op \in Closers, Close(t, op) PROVE TypeInv'
  <2>1. [op |-> op, at |-> "tested", msg |-> <<>>] \in Call /\ op # "send"
        BY <1>e DEF Call, Closers
  <2>2. pc' \in [Thread -> Call]
        BY <1>13, <2>1 DEF Close, Enter, TypeOK
  <2>3. \A u \in Thread : /\ pc'[u].op = "send" => Foreign(pc'[u].msg)
                          /\ pc'[u].at = "set" => pc'[u].op \in Closers
        BY <1>13, <2>1 DEF Close, Enter, TypeOK, MessagesInv
  <2> QED
        BY <1>13, <2>2, <2>3 DEF Close, Enter, OneMore, TypeOK, MessagesInv
<1>14. ASSUME NEW t \in Thread, NEW op \in Readers, Read(t, op) PROVE TypeInv'
  <2>1. Fn(op, <<>>) \in SendFunctor
        BY <1>e, FnType, Zenon DEF Readers
  <2> QED
        BY <1>14, <1>q, <2>1 DEF Read, OneMore, TypeOK, MessagesInv
<1>15. ASSUME NEW t \in Thread, SetState(t) PROVE TypeInv'
  <2>1. pc' \in [Thread -> Call]
        BY <1>15, <1>0, Zenon DEF SetState, TypeOK, Call
  <2>2. \A u \in Thread : /\ pc'[u].op = pc[u].op /\ pc'[u].msg = pc[u].msg
                          /\ pc'[u].at = "set" => pc[u].op \in Closers
        BY <1>15, <1>0, SMTT(30) DEF SetState, TypeOK, Call, MessagesInv
  <2> QED
        BY <1>15, <2>1, <2>2 DEF SetState, TypeOK, MessagesInv
<1>16. ASSUME NEW t \in Thread, QueueInLoop(t) PROVE TypeInv'
  <2>1. Idle \in Call /\ Idle.op # "send" /\ Idle.at # "set"
        BY <1>e DEF Idle, Call
  <2>2. pc[t].op # "idle"
        BY <1>16 DEF QueueInLoop, MessagesInv, Closers
  <2>3. Fn(pc[t].op, pc[t].msg) \in SendFunctor
        BY <1>0, <2>2, FnType DEF Call, MessagesInv
  <2> QED
        BY <1>16, <1>q, <2>1, <2>3 DEF QueueInLoop, TypeOK, MessagesInv
<1>17. CASE RemoveConnection
  <2>1. Fn("connectDestroyed", <<>>) \in SendFunctor
        BY <1>e, FnType, Zenon
  <2> QED
        BY <1>17, <1>q, <2>1 DEF RemoveConnection, Behind, TypeOK, MessagesInv
<1>18. CASE Outside
    BY <1>18, Zenon DEF Outside, TypeOK, MessagesInv
<1>19. CASE UNCHANGED connVars
    BY <1>19 DEF connVars, TypeOK, MessagesInv
<1> QED
    BY <1>1, <1>2, <1>3, <1>4, <1>5, <1>6, <1>7, <1>8, <1>9, <1>10, <1>11, <1>12,
       <1>13, <1>14, <1>15, <1>16, <1>17, <1>18, <1>19
       DEF ConnNext, LoopStep, ForeignStep

-----------------------------------------------------------------------------
(* The channel and the high-water mark follow the output buffer.           *)

OutputInv == WritingIffBuffered /\ HighWaterOnce

LEMMA SendOutput ==
    ASSUME TypeInv, OutputInv, NEW s, NEW m \in Seq(Byte), NEW queue,
           sendInLoop(s, m, queue)
    PROVE  OutputInv'
<1> USE DEF OutputInv, WritingIffBuffered, HighWaterOnce, isWriting
<1>1. CASE GiveUp(s, queue)
    BY <1>1 DEF GiveUp, sendInLoop
<1>2. ASSUME NEW n \in 0..Len(m), Accept(m, n, queue) PROVE OutputInv'
  <2> DEFINE rest == Unwritten(m, n)
  <2>1. /\ rest \in Seq(Byte) /\ Len(rest) = Len(m) - n
        /\ outputBuffer_ \in Seq(Byte) /\ Len(m) \in Nat
        BY UnwrittenRest, LenProperties DEF TypeInv, TypeOK
  <2>2. /\ outputBuffer_' = outputBuffer_ \o rest /\ down' = down
        BY <1>2 DEF Accept, sendInLoop
  <2>3. /\ Len(outputBuffer_') = Len(outputBuffer_) + Len(rest)
        /\ Len(outputBuffer_) \in Nat
        BY <2>1, <2>2, ConcatProperties, LenProperties, Zenon
  <2>4. CASE n = Len(m)
    <3>1. rest = <<>>
          BY <2>1, <2>4, EmptySeq
    <3>2. outputBuffer_' = outputBuffer_
          BY <2>1, <2>2, <3>1, ConcatEmptySeq
    <3> QED
          BY <1>2, <2>2, <2>4, <3>2, Zenon DEF Accept
  <2>5. CASE n # Len(m)
    <3>1. Len(rest) > 0
          BY <2>1, <2>5
    <3>2. outputBuffer_' # <<>>
          BY <2>1, <2>3, <3>1, EmptySeq
    <3>3. "write" \in events_'
          BY <1>2, <2>5 DEF Accept
    <3>4. HighWaterOnce'
          BY <1>2, <2>1, <2>3, <2>5, <3>1, ConnAssumption DEF Accept, Crosses
    <3> QED
          BY <3>2, <3>3, <3>4
  <2> QED
        BY <2>4, <2>5
<1> QED
    BY <1>1, <1>2 DEF sendInLoop

LEMMA OutputInit == ConnInit => OutputInv
BY ConnAssumption, EmptySeq DEF ConnInit, OutputInv, WritingIffBuffered, HighWaterOnce, isWriting

LEMMA OutputStep == TypeInv /\ OutputInv /\ [ConnNext]_connVars => OutputInv'
<1> SUFFICES ASSUME TypeInv, OutputInv, [ConnNext]_connVars PROVE OutputInv'
    OBVIOUS
<1>0. /\ Loop \in Sender /\ \A n \in 1..MaxLen : Message(Loop, n) \in Seq(Byte)
    BY MessageType DEF TypeInv, Sender
<1>1. ASSUME NEW n \in 1..MaxLen, LoopSend(n) PROVE OutputInv'
    BY <1>0, <1>1, SendOutput DEF LoopSend
<1>2. CASE RunSend
  <2>1. Head(pending).msg \in Seq(Byte)
        BY <1>2, QueueSteps DEF RunSend, Running, TypeInv, MessagesInv, Functor
  <2> QED
        BY <1>2, <2>1, SendOutput DEF RunSend
<1> USE DEF OutputInv, WritingIffBuffered, HighWaterOnce, isWriting
<1>3. ASSUME NEW n \in 1..Len(outputBuffer_), handleWrite(n) PROVE OutputInv'
  <2>1. outputBuffer_ \in Seq(Byte) /\ Len(outputBuffer_) \in Nat
        BY LenProperties DEF TypeInv, TypeOK
  <2>2. n \in 0..Len(outputBuffer_)
        BY <2>1
  <2>3. /\ outputBuffer_' \in Seq(Byte)
        /\ Len(outputBuffer_') = Len(outputBuffer_) - n
        BY <1>3, <2>1, <2>2, UnwrittenRest DEF handleWrite
  <2>4. WritingIffBuffered'
        BY <1>3 DEF handleWrite, Drained
  <2>5. HighWaterOnce'
        BY <1>3, <2>1, <2>2, <2>3, ConnAssumption DEF handleWrite, Below
  <2> QED
        BY <2>4, <2>5
<1>4. CASE LoopRead
    BY <1>4 DEF LoopRead, startReadInLoop, stopReadInLoop
<1>5. CASE RunRead
    BY <1>5 DEF RunRead, startReadInLoop, stopReadInLoop
<1>6. CASE RunForceClose
    BY <1>6 DEF RunForceClose, handleClose, TypeInv, TypeOK
<1>7. CASE connectDestroyed
    BY <1>7 DEF connectDestroyed, TypeInv, TypeOK
<1>8. CASE handleEnd
    BY <1>8 DEF handleEnd, handleClose, TypeInv, TypeOK
<1>9. CASE LoopShutdown \/ LoopForceClose \/ RunShutdown \/ RemoveConnection \/ Outside
    BY <1>9 DEF LoopShutdown, LoopForceClose, RunShutdown, RemoveConnection, Outside
<1>10. ASSUME NEW t \in Thread, ForeignStep(t) PROVE OutputInv'
    BY <1>10 DEF ForeignStep, send, Close, Enter, Read, SetState, QueueInLoop
<1>11. CASE UNCHANGED connVars
    BY <1>11 DEF connVars
<1> QED
    BY <1>1, <1>2, <1>3, <1>4, <1>5, <1>6, <1>7, <1>8, <1>9, <1>10, <1>11
       DEF ConnNext, LoopStep

(***************************************************************************)
(* While a connection is up its channel asks for POLLOUT exactly when      *)
(* output waits, and the high-water callback is queued once per crossing,  *)
(* for every number of threads and every mark (TcpConnection.cc:180, :187, *)
(* :379).                                                                  *)
(***************************************************************************)
THEOREM OutputIsWatched == ConnSpec => []OutputWatched
<1>1. ConnInit => TypeInv /\ OutputInv
    BY TypeInit, OutputInit
<1>2. TypeInv /\ OutputInv /\ [ConnNext]_connVars => (TypeInv /\ OutputInv)'
    BY TypeStep, OutputStep
<1>3. TypeInv /\ OutputInv => OutputWatched
    BY DEF TypeInv, OutputInv, OutputWatched
<1> QED
    BY <1>1, <1>2, <1>3, PTL DEF ConnSpec

-----------------------------------------------------------------------------
(* Messages are given up only to a race.                                   *)

RaceInv == StateInv /\ LostOnlyToRace

LEMMA RaceInit == ConnInit => RaceInv
BY EmptySeq DEF ConnInit, RaceInv, StateInv, LostOnlyToRace, Idle

\* The queue of a connection that is up holds no shutdown.
LEMMA NoShutdownQueue ==
    ASSUME TypeInv, pending \in Seq(NoShutdown)
    PROVE  /\ pending # <<>> => /\ Tail(pending) \in Seq(NoShutdown)
                               /\ Head(pending) \in NoShutdown
           /\ \A f \in NoShutdown : Append(pending, f) \in Seq(NoShutdown)
BY TailOfQueue, AppendToQueue, SMTT(30)

LEMMA NoShutdownFn ==
    ASSUME TypeOK, NEW op, NEW msg \in Seq(Byte),
           op \in {"send", "connectDestroyed", "forceClose"} \cup Readers
    PROVE  Fn(op, msg) \in NoShutdown
<1>1. op \in {"send", "connectDestroyed"} \cup Closers \cup Readers /\ op # "shutdown"
    BY SMTT(30) DEF Closers, Readers
<1> QED
    BY <1>1, FnParts, Zenon DEF NoShutdown, TypeOK

LEMMA RaceStep == TypeInv /\ RaceInv /\ [ConnNext]_connVars => RaceInv'
<1> SUFFICES ASSUME TypeInv, RaceInv, [ConnNext]_connVars PROVE RaceInv'
    OBVIOUS
<1> USE DEF RaceInv, StateInv, LostOnlyToRace
<1>0. /\ down \in Nat /\ <<>> \in Seq(Byte) /\ Loop \notin Thread
      /\ pc \in [Thread -> Call]
    BY EmptySeq, ConnAssumption, SMTT(30) DEF TypeInv, TypeOK
<1>q. pending \in Seq(NoShutdown) =>
          /\ pending # <<>> => /\ Tail(pending) \in Seq(NoShutdown)
                              /\ Head(pending) \in NoShutdown
          /\ \A f \in NoShutdown : Append(pending, f) \in Seq(NoShutdown)
    BY NoShutdownQueue
<1>1. ASSUME NEW n \in 1..MaxLen, LoopSend(n) PROVE RaceInv'
  <2>1. /\ state_ = "kConnected" /\ ~fin
        /\ UNCHANGED <<state_, fin, down, peer, pc>> /\ pending' = pending
        BY <1>1 DEF LoopSend, sendInLoop, GiveUp, Accept
  <2>2. lost' = lost \/ (lost' = lost \cup {Loop} /\ peer = "reset")
        BY <1>1, <2>1 DEF LoopSend, sendInLoop, GiveUp, Accept, broken
  <2> QED
        BY <2>1, <2>2, SMTT(30)
<1>2. CASE RunSend
  <2> DEFINE s == Head(pending).msg[1][1]
  <2>1. s # Loop
        BY <1>0, <1>2, QueueSteps DEF RunSend, Running, TypeInv, MessagesInv, SendFunctor, Foreign
  <2>2. /\ UNCHANGED <<state_, fin, down, peer, pc>> /\ pending' = Tail(pending)
        /\ pending # <<>>
        BY <1>2, SMTT(30) DEF RunSend, Running, sendInLoop, GiveUp, Accept
  <2>3. \/ lost' = lost
        \/ lost' = lost \cup {s} /\ (peer = "reset" \/ fin \/ down > 0)
        BY <1>2 DEF RunSend, sendInLoop, GiveUp, Accept, broken
  <2> QED
        BY <1>q, <2>1, <2>2, <2>3
<1>3. CASE LoopShutdown
    BY <1>3 DEF LoopShutdown, shutdownInLoop
<1>4. CASE LoopForceClose
    BY <1>4 DEF LoopForceClose
<1>5. CASE LoopRead
    BY <1>5 DEF LoopRead
<1>6. CASE RunShutdown
    BY <1>6, <1>q, Zenon DEF RunShutdown, Running, shutdownInLoop, NoShutdown
<1>7. CASE RunForceClose
    BY <1>7, <1>0, <1>q DEF RunForceClose, Running, handleClose
<1>8. CASE RunRead
    BY <1>8, <1>q DEF RunRead, Running
<1>9. CASE connectDestroyed
    BY <1>9, <1>0, <1>q DEF connectDestroyed, Running
<1>10. ASSUME NEW n \in 1..Len(outputBuffer_), handleWrite(n) PROVE RaceInv'
    BY <1>10, Zenon DEF handleWrite, FinAfterDrain, broken
<1>11. CASE handleEnd
    BY <1>11, <1>0 DEF handleEnd, handleClose
<1>12. ASSUME NEW t \in Thread, NEW n \in 1..MaxLen, send(t, n) PROVE RaceInv'
    BY <1>12, <1>0 DEF send, Enter
<1>13. ASSUME NEW t \in Thread, NEW op \in Closers, Close(t, op) PROVE RaceInv'
    BY <1>13, <1>0 DEF Close, Enter
<1>14. ASSUME NEW t \in Thread, NEW op \in Readers, Read(t, op) PROVE RaceInv'
  <2>1. Fn(op, <<>>) \in NoShutdown
        BY <1>0, NoShutdownFn, Zenon DEF TypeInv
  <2> QED
        BY <1>14, <1>q, <2>1 DEF Read
<1>15. ASSUME NEW t \in Thread, SetState(t) PROVE RaceInv'
    BY <1>15 DEF SetState
<1>16. ASSUME NEW t \in Thread, QueueInLoop(t) PROVE RaceInv'
  <2>1. state_ = "kConnected" => Fn(pc[t].op, pc[t].msg) \in NoShutdown
    <3>1. state_ = "kConnected" => pc[t].op = "send"
          BY <1>16 DEF QueueInLoop
    <3>2. pc[t].msg \in Seq(Byte)
          BY <1>0 DEF Call
    <3> QED
          BY <3>1, <3>2, NoShutdownFn DEF TypeInv
  <2>2. state_ = "kConnected" => pending' \in Seq(NoShutdown)
        BY <1>16, <1>q, <2>1 DEF QueueInLoop
  <2>3. \A u \in Thread : pc[u].at = "tested" => pc'[u].at = "tested"
        BY <1>16, <1>0 DEF QueueInLoop, Idle
  <2> QED
        BY <1>16, <2>2, <2>3 DEF QueueInLoop
<1>17. CASE RemoveConnection
  <2>1. Fn("connectDestroyed", <<>>) \in NoShutdown
        BY <1>0, NoShutdownFn, Zenon DEF TypeInv
  <2> QED
        BY <1>17, <1>q, <2>1 DEF RemoveConnection, Behind
<1>18. CASE Outside
    BY <1>18 DEF Outside
<1>19. CASE UNCHANGED connVars
    BY <1>19 DEF connVars
<1> QED
    BY <1>1, <1>2, <1>3, <1>4, <1>5, <1>6, <1>7, <1>8, <1>9, <1>10, <1>11, <1>12,
       <1>13, <1>14, <1>15, <1>16, <1>17, <1>18, <1>19, Zenon
       DEF ConnNext, LoopStep, ForeignStep

(***************************************************************************)
(* A message that send() took is given up only after a reset or, when it   *)
(* comes from another thread, to a shutdown or close that overtakes it     *)
(* (TcpConnection.cc:94, :145, :168), however many threads send.           *)
(***************************************************************************)
THEOREM LostOnlyInRace == ConnSpec => []LostOnlyToRace
<1>1. ConnInit => TypeInv /\ RaceInv
    BY TypeInit, RaceInit
<1>2. TypeInv /\ RaceInv /\ [ConnNext]_connVars => (TypeInv /\ RaceInv)'
    BY TypeStep, RaceStep
<1>3. RaceInv => LostOnlyToRace
    BY DEF RaceInv
<1> QED
    BY <1>1, <1>2, <1>3, PTL DEF ConnSpec

-----------------------------------------------------------------------------
(* What is queued while the connection is up runs on a live object.        *)

LEMMA DestroyInit == ConnInit => DestroyInv
BY EmptySeq DEF ConnInit, DestroyInv

\* Running the functor at the head keeps DestroyInv, connectDestroyed
\* included.
LEMMA DestroyTail ==
    ASSUME TypeInv, DestroyInv, pending # <<>>, pending' = Tail(pending),
           down' \in Nat, down' >= down, closing' > 0 => down' > 0 \/ closing > 0,
           removed' => removed \/ Head(pending).op = "connectDestroyed"
    PROVE  DestroyInv'
<1>1. /\ DOMAIN pending = 1..Len(pending) /\ DOMAIN Tail(pending) = 1..(Len(pending) - 1)
      /\ Len(pending) \in Nat \ {0} /\ Head(pending) = pending[1]
      /\ \A i \in 1..(Len(pending) - 1) : Tail(pending)[i] = pending[i + 1]
    BY TailOfQueue DEF TypeInv, TypeOK
<1>2. down \in Nat
    BY DEF TypeInv, TypeOK
<1>3. removed' \/ closing' > 0 => down' > 0
    BY <1>1, <1>2 DEF DestroyInv
<1>4. \A i \in DOMAIN pending' : pending'[i].op = "connectDestroyed" => down' > 0
    BY <1>1, <1>2 DEF DestroyInv
<1>5. \A i, j \in DOMAIN pending' :
         i < j /\ pending'[i].op = "connectDestroyed" => pending'[j].late
    BY <1>1 DEF DestroyInv
<1>6. removed' => \A i \in DOMAIN pending' : pending'[i].late
  <2>1. CASE removed
        BY <1>1, <2>1 DEF DestroyInv
  <2>2. CASE pending[1].op = "connectDestroyed"
    <3>1. \A j \in 2..Len(pending) : pending[j].late
          BY <1>1, <2>2 DEF DestroyInv
    <3> QED
          BY <1>1, <3>1
  <2> QED
        BY <1>1, <2>1, <2>2
<1> QED
    BY <1>3, <1>4, <1>5, <1>6 DEF DestroyInv

\* So does queueing a functor.
LEMMA DestroyAppend ==
    ASSUME TypeInv, DestroyInv, NEW op, NEW msg \in Seq(Byte),
           op \in {"send", "connectDestroyed"} \cup Closers \cup Readers,
           op = "send" => Foreign(msg), op = "connectDestroyed" => down > 0,
           pending' = Append(pending, Fn(op, msg)),
           UNCHANGED <<down, removed>>, closing' > 0 => closing > 0
    PROVE  DestroyInv'
<1> DEFINE f == Fn(op, msg)
<1>1. f \in Functor /\ f.op = op /\ (down > 0 => f.late)
    BY FnType, Zenon DEF TypeInv, Fn
<1> HIDE DEF f
<1>2. /\ DOMAIN pending = 1..Len(pending) /\ DOMAIN pending' = 1..(Len(pending) + 1)
      /\ Len(pending) \in Nat
      /\ \A i \in 1..Len(pending) : pending'[i] = pending[i]
      /\ pending'[Len(pending) + 1] = f
    BY <1>1, AppendToQueue DEF TypeInv, TypeOK, f
<1>3. removed' \/ closing' > 0 => down' > 0
    BY DEF DestroyInv
<1>4. \A i \in DOMAIN pending' : pending'[i].op = "connectDestroyed" => down' > 0
    BY <1>1, <1>2 DEF DestroyInv
<1>5. \A i, j \in DOMAIN pending' :
         i < j /\ pending'[i].op = "connectDestroyed" => pending'[j].late
  <2> SUFFICES ASSUME NEW i \in 1..(Len(pending) + 1), NEW j \in 1..(Len(pending) + 1),
                      i < j, pending'[i].op = "connectDestroyed"
               PROVE  pending'[j].late
        BY <1>2
  <2>1. i \in 1..Len(pending) /\ pending[i].op = "connectDestroyed"
        BY <1>2
  <2>2. CASE j = Len(pending) + 1
    <3>1. down > 0
          BY <1>2, <2>1 DEF DestroyInv
    <3> QED
          BY <1>1, <1>2, <2>2, <3>1
  <2>3. CASE j \in 1..Len(pending)
    <3>1. pending[j].late
          BY <1>2, <2>1, <2>3 DEF DestroyInv
    <3> QED
          BY <1>2, <2>3, <3>1
  <2> QED
        BY <1>2, <2>2, <2>3
<1>6. removed' => \A i \in DOMAIN pending' : pending'[i].late
  <2> SUFFICES ASSUME removed, NEW i \in 1..(Len(pending) + 1)
               PROVE  pending'[i].late
        BY <1>2
  <2>1. CASE i = Len(pending) + 1
    <3>1. down > 0
          BY DEF DestroyInv
    <3> QED
          BY <1>1, <1>2, <2>1, <3>1
  <2>2. CASE i \in 1..Len(pending)
    <3>1. pending[i].late
          BY <1>2, <2>2 DEF DestroyInv
    <3> QED
          BY <1>2, <2>2, <3>1
  <2> QED
        BY <1>2, <2>1, <2>2
<1> QED
    BY <1>3, <1>4, <1>5, <1>6, SMTT(30) DEF DestroyInv

LEMMA DestroyStep == TypeInv /\ RaceInv /\ DestroyInv /\ [ConnNext]_connVars => DestroyInv'
<1> SUFFICES ASSUME TypeInv, RaceInv, DestroyInv, [ConnNext]_connVars PROVE DestroyInv'
    OBVIOUS
<1>0. /\ down \in Nat /\ closing \in Nat /\ removed \in BOOLEAN
      /\ <<>> \in Seq(Byte) /\ pc \in [Thread -> Call]
    BY EmptySeq, SMTT(30) DEF TypeInv, TypeOK
<1>k. UNCHANGED <<pending, removed, closing, down>> => DestroyInv'
    BY DEF DestroyInv
<1>1. ASSUME NEW n \in 1..MaxLen, LoopSend(n) PROVE DestroyInv'
    BY <1>1, <1>k, Zenon DEF LoopSend, sendInLoop, GiveUp, Accept
<1>2. CASE RunSend
    BY <1>0, <1>2, DestroyTail DEF RunSend, Running, sendInLoop, GiveUp, Accept
<1>3. CASE LoopForceClose
    BY <1>0, <1>3, DestroyAppend, Zenon DEF LoopForceClose, Closers
<1>4. CASE RunShutdown
    BY <1>0, <1>4, DestroyTail DEF RunShutdown, Running
<1>5. CASE RunForceClose
    BY <1>0, <1>5, DestroyTail DEF RunForceClose, Running, handleClose
<1>6. CASE RunRead
    BY <1>0, <1>6, DestroyTail DEF RunRead, Running
<1>7. CASE connectDestroyed
    BY <1>0, <1>7, DestroyTail DEF connectDestroyed, Running
<1>8. CASE handleEnd
    BY <1>0, <1>8 DEF handleEnd, handleClose, DestroyInv
<1>9. ASSUME NEW t \in Thread, NEW op \in Readers, Read(t, op) PROVE DestroyInv'
    BY <1>0, <1>9, DestroyAppend, Zenon DEF Read, Readers
<1>10. ASSUME NEW t \in Thread, QueueInLoop(t) PROVE DestroyInv'
  <2>1. /\ pc[t].op \in {"send"} \cup Closers /\ pc[t].msg \in Seq(Byte)
        /\ pc[t].op = "send" => Foreign(pc[t].msg)
        BY <1>0, <1>10 DEF QueueInLoop, TypeInv, MessagesInv, Call
  <2> QED
        BY <1>10, <2>1, DestroyAppend DEF QueueInLoop, Closers
<1>11. CASE RemoveConnection
  <2>1. down > 0
        BY <1>11, SMTT(30) DEF RemoveConnection, DestroyInv
  <2> QED
        BY <1>0, <1>11, <2>1, DestroyAppend, Zenon DEF RemoveConnection, Behind
<1>12. CASE \/ LoopShutdown \/ LoopRead \/ Outside \/ UNCHANGED connVars
           \/ \E n \in 1..Len(outputBuffer_) : handleWrite(n)
    BY <1>12, <1>k DEF LoopShutdown, LoopRead, Outside, handleWrite, connVars
<1>13. ASSUME NEW t \in Thread,
              \/ \E n \in 1..MaxLen : send(t, n)
              \/ \E op \in Closers : Close(t, op)
              \/ SetState(t)
       PROVE  DestroyInv'
    BY <1>13 DEF send, Close, Enter, SetState, DestroyInv
<1> QED
    BY <1>1, <1>2, <1>3, <1>4, <1>5, <1>6, <1>7, <1>8, <1>9, <1>10, <1>11, <1>12, <1>13
       DEF ConnNext, LoopStep, ForeignStep

(***************************************************************************)
(* A functor that was queued while the connection was up runs on a live    *)
(* object although it binds a bare this (TcpConnection.cc:105, :201): the  *)
(* connectDestroyed that may drop the last pointer is queued behind it.    *)
(***************************************************************************)
THEOREM QueuedWhileUpRunsLive == ConnSpec => []QueuedWhileUpIsSafe
<1>1. ConnInit => TypeInv /\ RaceInv /\ DestroyInv
    BY TypeInit, RaceInit, DestroyInit
<1>2. TypeInv /\ RaceInv /\ DestroyInv /\ [ConnNext]_connVars
          => (TypeInv /\ RaceInv /\ DestroyInv)'
    BY TypeStep, RaceStep, DestroyStep
<1>3. DestroyInv => QueuedWhileUpIsSafe
    BY DEF DestroyInv, QueuedWhileUpIsSafe, freed
<1> QED
    BY <1>1, <1>2, <1>3, PTL DEF ConnSpec

-----------------------------------------------------------------------------
(* The output is a byte stream.                                            *)

\* The FIN is behind the output: nothing waits once it is sent.
FinInv == fin /\ down = 0 => outputBuffer_ = <<>>

LEMMA ConcatIsPrefix ==
    ASSUME NEW S, NEW s \in Seq(S), NEW u \in Seq(S)
    PROVE  Stream!Prefix(s, s \o u) /\ Stream!Prefix(s, s)
<1>1. /\ s \o u \in Seq(S) /\ Len(s \o u) = Len(s) + Len(u)
      /\ Len(s) \in Nat /\ Len(u) \in Nat
      /\ \A i \in 1..Len(s) + Len(u) : (s \o u)[i] = IF i <= Len(s) THEN s[i] ELSE u[i - Len(s)]
    BY ConcatProperties, LenProperties
<1>2. \A i \in 1..Len(s) : s[i] \in S /\ (s \o u)[i] = s[i]
    BY <1>1, ElementOfSeq, SMTT(30)
<1> DEFINE b == SubSeq(s \o u, 1, Len(s))
<1>3. b \in Seq(S) /\ Len(b) = Len(s) /\ \A i \in 1..Len(s) : b[i] = (s \o u)[i]
    BY <1>1, <1>2, SubSeqProperties
<1>4. b = s
    BY <1>2, <1>3, SeqEqual
<1>5. SubSeq(s, 1, Len(s)) = s
    BY SubSeqFull
<1> QED
    BY <1>1, <1>4, <1>5 DEF Stream!Prefix

Assoc(a, b, c) == (a \o b) \o c = a \o (b \o c)

LEMMA AssocOfBytes ==
    ASSUME NEW a \in Seq(Byte), NEW b \in Seq(Byte), NEW c \in Seq(Byte)
    PROVE  Assoc(a, b, c)
<1> DEFINE l == (a \o b) \o c
           r == a \o (b \o c)
<1>1. /\ a \o b \in Seq(Byte) /\ Len(a \o b) = Len(a) + Len(b)
      /\ b \o c \in Seq(Byte) /\ Len(b \o c) = Len(b) + Len(c)
      /\ Len(a) \in Nat /\ Len(b) \in Nat /\ Len(c) \in Nat
    BY ConcatProperties, LenProperties
<1>2. /\ l \in Seq(Byte) /\ Len(l) = Len(a) + Len(b) + Len(c)
      /\ r \in Seq(Byte) /\ Len(r) = Len(a) + Len(b) + Len(c)
    BY <1>1, ConcatProperties
<1>3. \A i \in 1..Len(l) : l[i] = r[i]
    OBVIOUS
<1> HIDE DEF l, r
<1>4. l = r
    BY <1>2, <1>3, SeqEqual
<1> QED
    BY <1>4 DEF l, r, Assoc

LEMMA FinInit == ConnInit => FinInv
BY DEF ConnInit, FinInv

\* What sendInLoop does to the stream.
LEMMA SendWrites ==
    ASSUME TypeInv, OutputInv, FinInv, NEW s, NEW m \in Seq(Byte), NEW queue,
           sendInLoop(s, m, queue)
    PROVE  FinInv' /\ [Stream!Next]_<<wire \o outputBuffer_, wire, fin, down > 0>>
<1>t. wire \in Seq(Byte) /\ outputBuffer_ \in Seq(Byte)
    BY DEF TypeInv, TypeOK
<1>1. CASE GiveUp(s, queue)
    BY <1>1 DEF GiveUp, sendInLoop, FinInv
<1>2. ASSUME NEW n \in 0..Len(m), Accept(m, n, queue)
      PROVE  FinInv' /\ [Stream!Next]_<<wire \o outputBuffer_, wire, fin, down > 0>>
  <2> DEFINE rest == Unwritten(m, n)
             head == SubSeq(m, 1, n)
  <2>1. /\ rest \in Seq(Byte) /\ head \in Seq(Byte) /\ Len(head) = n
        BY UnwrittenRest
  <2>2. /\ wire' = wire \o head /\ outputBuffer_' = outputBuffer_ \o rest
        /\ UNCHANGED <<fin, down>>
        BY <1>2 DEF Accept, sendInLoop
  <2> HIDE DEF rest, head
  <2>3. wire' \in Seq(Byte) /\ outputBuffer_' \in Seq(Byte)
        BY <1>t, <2>1, <2>2, ConcatProperties
  <2>4. fin => n = 0 /\ down # 0
        BY <1>2 DEF Accept, broken, TriesSocket, FinInv, OutputInv, WritingIffBuffered
  <2>5. Stream!Prefix(wire, wire') /\ Stream!Prefix(wire', wire' \o outputBuffer_')
        BY <1>t, <2>1, <2>2, <2>3, ConcatIsPrefix, Zenon
  <2>6. fin => wire' = wire
    <3>1. n = 0 => head = <<>>
          BY <2>1, EmptySeq
    <3> QED
          BY <1>t, <2>2, <2>4, <3>1, ConcatEmptySeq
  <2>7. Stream!Prefix(wire \o outputBuffer_, wire' \o outputBuffer_')
    <3>1. CASE outputBuffer_ = <<>>
      <4>1. wire \o outputBuffer_ = wire
            BY <1>t, <3>1, ConcatEmptySeq
      <4>2. wire' \o outputBuffer_' = wire \o (head \o outputBuffer_')
        <5>1. Assoc(wire, head, outputBuffer_')
              BY <1>t, <2>1, <2>3, AssocOfBytes
        <5> QED
              BY <2>2, <5>1 DEF Assoc
      <4>3. head \o outputBuffer_' \in Seq(Byte)
            BY <2>1, <2>3, ConcatProperties
      <4> QED
            BY <1>t, <4>1, <4>2, <4>3, ConcatIsPrefix, Zenon
    <3>2. CASE outputBuffer_ # <<>>
      <4>1. n = 0
            BY <1>2, <3>2 DEF Accept, TriesSocket
      <4>2. head = <<>>
            BY <2>1, <4>1, EmptySeq
      <4>3. wire' = wire
            BY <1>t, <2>2, <4>2, ConcatEmptySeq
      <4>4. wire' \o outputBuffer_' = (wire \o outputBuffer_) \o rest
        <5>1. Assoc(wire, outputBuffer_, rest)
              BY <1>t, <2>1, AssocOfBytes
        <5> QED
              BY <2>2, <4>3, <5>1 DEF Assoc
      <4>5. wire \o outputBuffer_ \in Seq(Byte)
            BY <1>t, ConcatProperties
      <4> QED
            BY <2>1, <4>4, <4>5, ConcatIsPrefix, Zenon
    <3> QED
          BY <3>1, <3>2
  <2>8. Stream!Write
    <3>1. down \in Nat
          BY DEF TypeInv, TypeOK
    <3> QED
          BY <2>2, <2>4, <2>5, <2>6, <2>7, <3>1 DEF Stream!Write
  <2>9. Stream!End
        BY <2>2 DEF Stream!End
  <2> QED
        BY <2>2, <2>4, <2>8, <2>9 DEF Stream!Next, FinInv
<1> QED
    BY <1>1, <1>2, SMTT(30) DEF sendInLoop

\* handleWrite moves bytes from the buffer to the wire.
LEMMA WriteMoves ==
    ASSUME TypeInv, NEW n \in 1..Len(outputBuffer_), handleWrite(n)
    PROVE  wire' \o outputBuffer_' = wire \o outputBuffer_
<1> DEFINE head == SubSeq(outputBuffer_, 1, n)
<1>1. /\ wire \in Seq(Byte) /\ outputBuffer_ \in Seq(Byte)
      /\ Len(outputBuffer_) \in Nat /\ n \in 0..Len(outputBuffer_)
    BY LenProperties DEF TypeInv, TypeOK
<1>2. /\ wire' = wire \o head
      /\ outputBuffer_' = SubSeq(outputBuffer_, n + 1, Len(outputBuffer_))
    BY DEF handleWrite, Unwritten
<1>3. head \in Seq(Byte) /\ outputBuffer_' \in Seq(Byte)
    BY <1>1, <1>2, UnwrittenRest DEF Unwritten
<1>4. head \o outputBuffer_' = outputBuffer_
    <2>1. head \o outputBuffer_' = SubSeq(outputBuffer_, 1, Len(outputBuffer_))
        BY <1>1, <1>2, ConcatAdjacentSubSeq
    <2> QED
        BY <1>1, <2>1, SubSeqFull, SMTT(30)
<1> HIDE DEF head
<1>5. Assoc(wire, head, outputBuffer_')
    BY <1>1, <1>3, AssocOfBytes
<1> QED
    BY <1>2, <1>4, <1>5, Zenon DEF Assoc

\* What handleWrite does to it.
LEMMA WriteWrites ==
    ASSUME TypeInv, OutputInv, FinInv, NEW n \in 1..Len(outputBuffer_), handleWrite(n)
    PROVE  FinInv' /\ Stream!Next
<1> DEFINE head == SubSeq(outputBuffer_, 1, n)
<1>1. /\ wire \in Seq(Byte) /\ outputBuffer_ \in Seq(Byte)
      /\ Len(outputBuffer_) \in Nat /\ n \in 0..Len(outputBuffer_)
    BY LenProperties DEF TypeInv, TypeOK
<1>2. /\ wire' = wire \o head
      /\ outputBuffer_' = SubSeq(outputBuffer_, n + 1, Len(outputBuffer_))
      /\ ~fin /\ down' = down
      /\ fin' => outputBuffer_' = <<>>
    BY DEF handleWrite, Unwritten, broken, Drained
<1>3. head \in Seq(Byte) /\ outputBuffer_' \in Seq(Byte)
    BY <1>1, <1>2, UnwrittenRest DEF Unwritten
<1> HIDE DEF head
<1>5. wire' \in Seq(Byte)
    BY <1>1, <1>2, <1>3, ConcatProperties
<1>6. wire' \o outputBuffer_' = wire \o outputBuffer_
    BY WriteMoves
<1>7. Stream!Prefix(wire, wire')
    BY <1>1, <1>2, <1>3, ConcatIsPrefix
<1>8. Stream!Prefix(wire', wire' \o outputBuffer_')
    BY <1>3, <1>5, ConcatIsPrefix
<1>9. Stream!Prefix(wire \o outputBuffer_, wire' \o outputBuffer_')
    <2>1. wire \o outputBuffer_ \in Seq(Byte)
        BY <1>1, ConcatProperties
    <2> QED
        BY <1>6, <2>1, ConcatIsPrefix, Zenon
<1>10. Stream!Write
    BY <1>2, <1>7, <1>8, <1>9, Zenon DEF Stream!Write
<1>11. Stream!End
    BY <1>2, <1>5, ConcatEmptySeq, Zenon DEF Stream!End
<1> QED
    BY <1>2, <1>10, <1>11 DEF Stream!Next, FinInv

\* What shutdownInLoop does to it.
LEMMA ShutdownEnds ==
    ASSUME TypeInv, OutputInv, FinInv, fin' = shutdownInLoop,
           UNCHANGED <<wire, outputBuffer_, down>>
    PROVE  FinInv' /\ Stream!Next
<1>1. wire \in Seq(Byte) /\ outputBuffer_ \in Seq(Byte) /\ down \in Nat
    BY DEF TypeInv, TypeOK
<1>2. wire \o outputBuffer_ \in Seq(Byte)
    BY <1>1, ConcatProperties
<1>3. /\ Stream!Prefix(wire, wire) /\ Stream!Prefix(wire, wire \o outputBuffer_)
      /\ Stream!Prefix(wire \o outputBuffer_, wire \o outputBuffer_)
    BY <1>1, <1>2, ConcatIsPrefix, Zenon
<1>4. fin' /\ down = 0 => outputBuffer_ = <<>>
    BY Zenon DEF shutdownInLoop, FinInv, OutputInv, WritingIffBuffered
<1>5. Stream!Write
    BY <1>3 DEF Stream!Write
<1>6. Stream!End
    BY <1>1, <1>4, ConcatEmptySeq DEF Stream!End
<1> QED
    BY <1>4, <1>5, <1>6 DEF Stream!Next, FinInv

LEMMA StreamStep ==
    TypeInv /\ OutputInv /\ FinInv /\ [ConnNext]_connVars
        => FinInv' /\ [Stream!Next]_<<wire \o outputBuffer_, wire, fin, down > 0>>
<1> DEFINE streamVars == <<wire \o outputBuffer_, wire, fin, down > 0>>
<1> SUFFICES ASSUME TypeInv, OutputInv, FinInv, [ConnNext]_connVars
             PROVE  FinInv' /\ [Stream!Next]_streamVars
    OBVIOUS
<1>0. down \in Nat /\ Loop \in Sender
    BY DEF TypeInv, TypeOK, Sender
<1>s. ASSUME UNCHANGED <<wire, outputBuffer_, fin, down>>
      PROVE  FinInv' /\ [Stream!Next]_streamVars
    BY <1>s DEF FinInv
<1>c. ASSUME UNCHANGED <<wire, outputBuffer_, fin>>, down' = down + 1
      PROVE  FinInv' /\ [Stream!Next]_streamVars
    BY <1>0, <1>c DEF FinInv, Stream!Next, Stream!Close
<1> HIDE DEF streamVars
<1>1. ASSUME NEW n \in 1..MaxLen, LoopSend(n)
      PROVE  FinInv' /\ [Stream!Next]_streamVars
  <2>1. Message(Loop, n) \in Seq(Byte)
        BY <1>0, MessageType DEF TypeInv
  <2> QED
        BY <1>1, <2>1, SendWrites, Zenon DEF LoopSend, streamVars
<1>2. CASE RunSend
  <2>1. Head(pending).msg \in Seq(Byte)
        BY <1>2, QueueSteps DEF RunSend, Running, TypeInv, MessagesInv, Functor
  <2> QED
        BY <1>2, <2>1, SendWrites, Zenon DEF RunSend, streamVars
<1>3. ASSUME NEW n \in 1..Len(outputBuffer_), handleWrite(n)
      PROVE  FinInv' /\ [Stream!Next]_streamVars
    BY <1>3, WriteWrites
<1>4. CASE LoopShutdown \/ RunShutdown
    BY <1>4, ShutdownEnds DEF LoopShutdown, RunShutdown
<1>5. CASE RunForceClose
    BY <1>5, <1>s, <1>c DEF RunForceClose, handleClose
<1>6. CASE connectDestroyed
    BY <1>6, <1>s, <1>c DEF connectDestroyed
<1>7. CASE handleEnd
    BY <1>7, <1>c, SMTT(30) DEF handleEnd, handleClose
<1>8. CASE \/ LoopForceClose \/ LoopRead \/ RunRead \/ RemoveConnection \/ Outside
          \/ UNCHANGED connVars
    BY <1>8, <1>s DEF LoopForceClose, LoopRead, RunRead, RemoveConnection, Outside, connVars
<1>9. ASSUME NEW t \in Thread, ForeignStep(t)
      PROVE  FinInv' /\ [Stream!Next]_streamVars
    BY <1>9, <1>s DEF ForeignStep, send, Close, Enter, Read, SetState, QueueInLoop
<1> QED
    BY <1>1, <1>2, <1>3, <1>4, <1>5, <1>6, <1>7, <1>8, <1>9 DEF ConnNext, LoopStep

LEMMA StreamInit == ConnInit => Stream!Init
<1> SUFFICES ASSUME ConnInit PROVE Stream!Init
    OBVIOUS
<1>1. wire \o outputBuffer_ = <<>> /\ wire = <<>> /\ ~fin /\ ~(down > 0)
    BY DEF ConnInit
<1> QED
    BY <1>1 DEF Stream!Init

(***************************************************************************)
(* The output of a connection is a byte stream: bytes reach the socket in  *)
(* the order in which sendInLoop took them, each once, and the FIN comes   *)
(* after the last of them unless the connection is down                    *)
(* (TcpConnection.cc:151, :201, :366).                                     *)
(***************************************************************************)
THEOREM ConnImplementsByteStream == ConnSpec => ImplementsByteStream
<1>1. ConnInit => TypeInv /\ OutputInv /\ FinInv /\ Stream!Init
    BY TypeInit, OutputInit, FinInit, StreamInit
<1>2. TypeInv /\ OutputInv /\ FinInv /\ [ConnNext]_connVars
          => /\ (TypeInv /\ OutputInv /\ FinInv)'
             /\ [Stream!Next]_<<wire \o outputBuffer_, wire, fin, down > 0>>
    BY TypeStep, OutputStep, StreamStep
<1> QED
    BY <1>1, <1>2, PTL DEF ConnSpec, ImplementsByteStream, Stream!Spec

-----------------------------------------------------------------------------
(* The bytes of a sender stay in order.                                    *)

Sorted(s) == \A i, j \in DOMAIN s : i < j /\ s[i][1] = s[j][1] => s[i][2] < s[j][2]
Precedes(s, u) == \A i \in DOMAIN s, j \in DOMAIN u : s[i][1] = u[j][1] => s[i][2] < u[j][2]
SentBy(S, s) == \A i \in DOMAIN s : s[i][1] \in S
Counted(s, n) == \A i \in DOMAIN s : s[i][2] <= n[s[i][1]]

\* The output o, the queue q and the calls c of the threads: each message is
\* in order, behind the output and behind the messages queued before it, and
\* no number is above the sender's count n.
Order(o, q, c, n) ==
    /\ Sorted(o) /\ Counted(o, n)
    /\ \A k \in DOMAIN q : /\ Sorted(q[k].msg) /\ Precedes(o, q[k].msg)
                           /\ SentBy(Thread, q[k].msg) /\ Counted(q[k].msg, n)
    /\ \A k, l \in DOMAIN q : k < l => Precedes(q[k].msg, q[l].msg)
    /\ \A t \in Thread : /\ Sorted(c[t].msg) /\ Precedes(o, c[t].msg)
                         /\ SentBy({t}, c[t].msg) /\ Counted(c[t].msg, n)
    /\ \A t \in Thread : \A k \in DOMAIN q : Precedes(q[k].msg, c[t].msg)

OrderInv == Order(wire \o outputBuffer_, pending, pc, nsent)

LEMMA SortedConcat ==
    ASSUME NEW s \in Seq(Byte), NEW u \in Seq(Byte), Sorted(s), Sorted(u), Precedes(s, u)
    PROVE  Sorted(s \o u)
<1> DEFINE v == s \o u
<1>1. /\ v \in Seq(Byte) /\ Len(v) = Len(s) + Len(u) /\ DOMAIN v = 1..Len(v)
      /\ Len(s) \in Nat /\ Len(u) \in Nat
      /\ DOMAIN s = 1..Len(s) /\ DOMAIN u = 1..Len(u)
      /\ \A i \in 1..Len(s) + Len(u) : v[i] = IF i <= Len(s) THEN s[i] ELSE u[i - Len(s)]
    BY ConcatProperties, LenProperties
<1> HIDE DEF v
<1> SUFFICES ASSUME NEW i \in DOMAIN v, NEW j \in DOMAIN v, i < j, v[i][1] = v[j][1]
             PROVE  v[i][2] < v[j][2]
    BY DEF Sorted, v
<1>2. i \in 1..Len(s) + Len(u) /\ j \in 1..Len(s) + Len(u)
    BY <1>1
<1>3. CASE j <= Len(s)
  <2>1. i \in DOMAIN s /\ j \in DOMAIN s /\ v[i] = s[i] /\ v[j] = s[j]
        BY <1>1, <1>2, <1>3
  <2> QED
        BY <2>1 DEF Sorted
<1>4. CASE i <= Len(s) /\ j > Len(s)
  <2>1. i \in DOMAIN s /\ j - Len(s) \in DOMAIN u /\ v[i] = s[i] /\ v[j] = u[j - Len(s)]
        BY <1>1, <1>2, <1>4
  <2> QED
        BY <2>1 DEF Precedes
<1>5. CASE i > Len(s)
  <2>1. /\ i - Len(s) \in DOMAIN u /\ j - Len(s) \in DOMAIN u /\ i - Len(s) < j - Len(s)
        /\ v[i] = u[i - Len(s)] /\ v[j] = u[j - Len(s)]
        BY <1>1, <1>2, <1>5
  <2> QED
        BY <2>1 DEF Sorted
<1>6. i \in Int /\ j \in Int /\ Len(s) \in Int
    BY <1>1, <1>2
<1> QED
    BY <1>3, <1>4, <1>5, <1>6

LEMMA ConcatElements ==
    ASSUME NEW s \in Seq(Byte), NEW u \in Seq(Byte), NEW i \in DOMAIN (s \o u)
    PROVE  \/ \E j \in DOMAIN s : (s \o u)[i] = s[j]
           \/ \E j \in DOMAIN u : (s \o u)[i] = u[j]
<1> DEFINE v == s \o u
<1>1. /\ v \in Seq(Byte) /\ Len(v) = Len(s) + Len(u) /\ DOMAIN v = 1..Len(v)
      /\ Len(s) \in Nat /\ Len(u) \in Nat
      /\ DOMAIN s = 1..Len(s) /\ DOMAIN u = 1..Len(u)
      /\ \A k \in 1..Len(s) + Len(u) : v[k] = IF k <= Len(s) THEN s[k] ELSE u[k - Len(s)]
    BY ConcatProperties, LenProperties
<1>2. i \in DOMAIN v
    OBVIOUS
<1> HIDE DEF v
<1>3. CASE i <= Len(s)
  <2>1. i \in DOMAIN s /\ v[i] = s[i]
        BY <1>1, <1>2, <1>3
  <2> QED
        BY <2>1 DEF v
<1>4. CASE i > Len(s)
  <2>1. i - Len(s) \in DOMAIN u /\ v[i] = u[i - Len(s)]
        BY <1>1, <1>2, <1>4
  <2> QED
        BY <2>1 DEF v
<1> QED
    BY <1>1, <1>2, <1>3, <1>4

\* What holds of two sequences against a third holds of their concatenation.
LEMMA ConcatPrecedes ==
    ASSUME NEW s \in Seq(Byte), NEW u \in Seq(Byte), NEW v,
           Precedes(s, v), Precedes(u, v)
    PROVE  Precedes(s \o u, v)
BY ConcatElements, SMTT(30) DEF Precedes

LEMMA ConcatCounted ==
    ASSUME NEW s \in Seq(Byte), NEW u \in Seq(Byte), NEW n, Counted(s, n), Counted(u, n)
    PROVE  Counted(s \o u, n)
BY ConcatElements DEF Counted

\* A message of another sender, an empty one, one of the next numbers.
LEMMA OthersPrecede ==
    ASSUME NEW S, NEW T, NEW s, NEW u, SentBy(S, s), SentBy(T, u), S \cap T = {}
    PROVE  Precedes(s, u)
BY DEF SentBy, Precedes

LEMMA NothingIsInOrder ==
    ASSUME NEW s, NEW S, NEW n
    PROVE  /\ Sorted(<<>>) /\ SentBy(S, <<>>) /\ Counted(<<>>, n)
           /\ Precedes(<<>>, s) /\ Precedes(s, <<>>)
BY DEF Sorted, SentBy, Counted, Precedes

LEMMA NewMessage ==
    ASSUME TypeOK, NEW s \in Sender, NEW n \in 1..MaxLen,
           nsent' = [nsent EXCEPT ![s] = @ + n]
    PROVE  /\ Sorted(Message(s, n)) /\ SentBy({s}, Message(s, n))
           /\ Counted(Message(s, n), nsent')
           /\ \A u \in Seq(Byte) : Counted(u, nsent) => /\ Precedes(u, Message(s, n))
                                                       /\ Counted(u, nsent')
<1>1. /\ n \in Nat \ {0} /\ nsent[s] \in Nat /\ nsent'[s] = nsent[s] + n
      /\ \A r \in Sender : nsent[r] \in Nat /\ nsent[r] <= nsent'[r]
    BY ConnAssumption DEF TypeOK
<1>2. DOMAIN Message(s, n) = 1..n /\ \A i \in 1..n : Message(s, n)[i] = <<s, nsent[s] + i>>
    BY DEF Message
<1>3. Sorted(Message(s, n)) /\ SentBy({s}, Message(s, n)) /\ Counted(Message(s, n), nsent')
  <2>1. Sorted(Message(s, n))
        BY <1>1, <1>2, SMTT(30) DEF Sorted
  <2>2. SentBy({s}, Message(s, n))
        BY <1>2, SMTT(30) DEF SentBy
  <2>3. Counted(Message(s, n), nsent')
        BY <1>1, <1>2, SMTT(30) DEF Counted
  <2> QED
        BY <2>1, <2>2, <2>3
<1>4. ASSUME NEW u \in Seq(Byte), Counted(u, nsent)
      PROVE  Precedes(u, Message(s, n)) /\ Counted(u, nsent')
  <2>1. \A i \in DOMAIN u : u[i][1] \in Sender /\ u[i][2] \in Nat
        BY LenProperties, SMTT(30) DEF Byte
  <2> QED
    <3>1. \A r \in Sender : nsent[r] <= nsent'[r]
          BY <1>1
    <3>2. Counted(u, nsent')
      <4>1. \A i \in DOMAIN u : u[i][2] <= nsent[u[i][1]]
            BY <1>4, <2>1 DEF Counted
      <4> QED
            BY <1>1, <2>1, <3>1, <4>1, SMTT(30) DEF Counted
    <3>3. Precedes(u, Message(s, n))
      <4>1. \A i \in DOMAIN u : u[i][1] = s => u[i][2] <= nsent[s]
            BY <1>4, <2>1 DEF Counted
      <4> QED
            BY <1>1, <1>2, <2>1, <4>1, SMTT(30) DEF Precedes
    <3> QED
          BY <3>2, <3>3
<1> QED
    BY <1>3, <1>4, Zenon

\* The order after a functor has been run or queued, after output, after a
\* change of the calls, and after a count has grown.
LEMMA OrderTail ==
    ASSUME NEW o, NEW q \in Seq(Functor), NEW c, NEW n, q # <<>>, Order(o, q, c, n)
    PROVE  Order(o, Tail(q), c, n)
<1>1. /\ DOMAIN q = 1..Len(q) /\ DOMAIN Tail(q) = 1..(Len(q) - 1)
      /\ Len(q) \in Nat \ {0}
      /\ \A i \in 1..(Len(q) - 1) : Tail(q)[i] = q[i + 1]
    BY TailOfQueue
<1>2. \A k \in DOMAIN Tail(q) : k + 1 \in DOMAIN q /\ Tail(q)[k] = q[k + 1]
    BY <1>1
<1>3. \A k, l \in DOMAIN Tail(q) : k < l => k + 1 < l + 1
    BY <1>1, SMTT(30)
<1> QED
    BY <1>2, <1>3, Zenon DEF Order

FitsBehind(f, o, q, c, n) ==
    /\ Sorted(f.msg) /\ Precedes(o, f.msg) /\ SentBy(Thread, f.msg) /\ Counted(f.msg, n)
    /\ \A k \in DOMAIN q : Precedes(q[k].msg, f.msg)
    /\ \A t \in Thread : Precedes(f.msg, c[t].msg)

LEMMA OrderAppend ==
    ASSUME NEW o, NEW q \in Seq(Functor), NEW c, NEW n, NEW f \in Functor,
           Order(o, q, c, n), FitsBehind(f, o, q, c, n)
    PROVE  Order(o, Append(q, f), c, n)
<1> DEFINE p == Append(q, f)
<1>1. /\ Len(q) \in Nat /\ DOMAIN q = 1..Len(q) /\ DOMAIN p = 1..(Len(q) + 1)
      /\ \A i \in 1..Len(q) : p[i] = q[i]
      /\ p[Len(q) + 1] = f
    BY AppendToQueue, SMTT(30)
<1> HIDE DEF p
<1>2. \A k \in DOMAIN p : (k \in DOMAIN q /\ p[k] = q[k]) \/ (k = Len(q) + 1 /\ p[k] = f)
  <2>1. \A k \in DOMAIN p : k \in 1..Len(q) \/ k = Len(q) + 1
        BY <1>1
  <2> QED
        BY <1>1, <2>1, Zenon
<1>3. ASSUME NEW k \in DOMAIN p, NEW l \in DOMAIN p, k < l
      PROVE  Precedes(p[k].msg, p[l].msg)
  <2>1. k \in DOMAIN q /\ p[k] = q[k]
    <3>1. k # Len(q) + 1
          BY <1>1, <1>3, SMTT(30)
    <3> QED
          BY <1>2, <3>1, Zenon
  <2>2. CASE l \in DOMAIN q
    <3>1. p[l] = q[l]
          BY <1>1, <2>2
    <3> QED
          BY <1>3, <2>1, <2>2, <3>1, Zenon DEF Order
  <2>3. CASE l = Len(q) + 1
        BY <1>1, <2>1, <2>3 DEF FitsBehind
  <2> QED
        BY <1>2, <2>2, <2>3, Zenon
<1>4. \A k \in DOMAIN p : /\ Sorted(p[k].msg) /\ Precedes(o, p[k].msg)
                          /\ SentBy(Thread, p[k].msg) /\ Counted(p[k].msg, n)
    BY <1>2, Zenon DEF Order, FitsBehind
<1>5. \A t \in Thread : \A k \in DOMAIN p : Precedes(p[k].msg, c[t].msg)
    BY <1>2, Zenon DEF Order, FitsBehind
<1>6. Order(o, p, c, n)
    BY <1>3, <1>4, <1>5, Zenon DEF Order
<1> QED
    BY <1>6, Zenon DEF p

LEMMA OrderOutput ==
    ASSUME NEW o \in Seq(Byte), NEW q, NEW c, NEW n, NEW m \in Seq(Byte), Order(o, q, c, n),
           Sorted(m), Precedes(o, m), Counted(m, n),
           \A k \in DOMAIN q : Precedes(m, q[k].msg),
           \A t \in Thread : Precedes(m, c[t].msg)
    PROVE  Order(o \o m, q, c, n)
<1>1. Sorted(o \o m)
    BY SortedConcat, Zenon DEF Order
<1>2. Counted(o \o m, n)
    BY ConcatCounted, Zenon DEF Order
<1>3. \A k \in DOMAIN q : Precedes(o \o m, q[k].msg)
    BY ConcatPrecedes, Zenon DEF Order
<1>4. \A t \in Thread : Precedes(o \o m, c[t].msg)
    BY ConcatPrecedes, Zenon DEF Order
<1> QED
    BY <1>1, <1>2, <1>3, <1>4, Zenon DEF Order

LEMMA OrderCall ==
    ASSUME NEW o, NEW q, NEW c \in [Thread -> Call], NEW n, NEW t \in Thread, NEW call,
           Order(o, q, c, n),
           Sorted(call.msg), Precedes(o, call.msg), SentBy({t}, call.msg), Counted(call.msg, n),
           \A k \in DOMAIN q : Precedes(q[k].msg, call.msg)
    PROVE  Order(o, q, [c EXCEPT ![t] = call], n)
<1> DEFINE d == [c EXCEPT ![t] = call]
<1>1. \A u \in Thread : d[u] = IF u = t THEN call ELSE c[u]
    OBVIOUS
<1> HIDE DEF d
<1>2. \A u \in Thread : /\ Sorted(d[u].msg) /\ Precedes(o, d[u].msg)
                        /\ SentBy({u}, d[u].msg) /\ Counted(d[u].msg, n)
    BY <1>1, Zenon DEF Order
<1>3. \A u \in Thread : \A k \in DOMAIN q : Precedes(q[k].msg, d[u].msg)
    BY <1>1 DEF Order
<1>4. Order(o, q, d, n)
    BY <1>2, <1>3, Zenon DEF Order
<1> QED
    BY <1>4 DEF d

LEMMA OrderCount ==
    ASSUME TypeOK, NEW o \in Seq(Byte), NEW s \in Sender, NEW k \in 1..MaxLen,
           nsent' = [nsent EXCEPT ![s] = @ + k], Order(o, pending, pc, nsent)
    PROVE  Order(o, pending, pc, nsent')
<1>1. \A u \in Seq(Byte) : Counted(u, nsent) => Counted(u, nsent')
    BY NewMessage, Zenon
<1>2. \A i \in DOMAIN pending : pending[i].msg \in Seq(Byte)
  <2>1. pending \in Seq(Functor)
        BY DEF TypeOK
  <2>2. \A i \in DOMAIN pending : pending[i] \in Functor
        BY <2>1, LenProperties
  <2> QED
        BY <2>2 DEF Functor
<1>3. \A t \in Thread : pc[t].msg \in Seq(Byte)
    BY DEF TypeOK, Call
<1> QED
    BY <1>1, <1>2, <1>3, Zenon DEF Order

\* sendInLoop leaves the output as it is, or puts the message behind it.
LEMMA SendAppends ==
    ASSUME TypeInv, NEW s, NEW m \in Seq(Byte), NEW queue, sendInLoop(s, m, queue)
    PROVE  /\ pending' = queue
           /\ \/ wire' \o outputBuffer_' = wire \o outputBuffer_
              \/ wire' \o outputBuffer_' = (wire \o outputBuffer_) \o m
<1>t. wire \in Seq(Byte) /\ outputBuffer_ \in Seq(Byte)
    BY DEF TypeInv, TypeOK
<1>1. CASE GiveUp(s, queue)
    BY <1>1 DEF GiveUp
<1>2. ASSUME NEW n \in 0..Len(m), Accept(m, n, queue)
      PROVE  /\ pending' = queue
             /\ wire' \o outputBuffer_' = (wire \o outputBuffer_) \o m
  <2> DEFINE rest == Unwritten(m, n)
             head == SubSeq(m, 1, n)
  <2>1. /\ rest \in Seq(Byte) /\ head \in Seq(Byte) /\ Len(head) = n
        BY UnwrittenRest
  <2>2. head \o rest = m
    <3>1. /\ Len(m) \in Nat /\ 1 \in 1..Len(m) + 1 /\ n \in 1 - 1..Len(m)
          /\ Len(m) \in n..Len(m)
          BY LenProperties
    <3>2. head \o rest = SubSeq(m, 1, Len(m))
          BY <3>1, ConcatAdjacentSubSeq, Zenon DEF Unwritten
    <3> QED
          BY <3>2, SubSeqFull, Zenon
  <2>3. wire' = wire \o head /\ outputBuffer_' = outputBuffer_ \o rest /\ pending' = queue
        BY <1>2 DEF Accept
  <2>4. n = 0 => head = <<>>
        BY <2>1, EmptySeq
  <2> HIDE DEF rest, head
  <2>5. CASE outputBuffer_ = <<>>
    <3>1. outputBuffer_' = rest /\ wire \o outputBuffer_ = wire
          BY <1>t, <2>1, <2>3, <2>5, ConcatEmptySeq
    <3>2. Assoc(wire, head, rest)
          BY <1>t, <2>1, AssocOfBytes
    <3> QED
          BY <2>2, <2>3, <3>1, <3>2 DEF Assoc
  <2>6. CASE outputBuffer_ # <<>>
    <3>1. n = 0
          BY <1>2, <2>6 DEF Accept, TriesSocket
    <3>2. rest = m /\ wire' = wire
          BY <1>t, <2>1, <2>2, <2>3, <2>4, <3>1, ConcatEmptySeq
    <3>3. Assoc(wire, outputBuffer_, m)
          BY <1>t, AssocOfBytes
    <3> QED
          BY <2>3, <3>2, <3>3 DEF Assoc
  <2> QED
        BY <2>3, <2>5, <2>6, Zenon
<1> QED
    BY <1>1, <1>2, Zenon DEF sendInLoop

LEMMA OrderInit == ConnInit => OrderInv
<1> SUFFICES ASSUME ConnInit PROVE OrderInv
    OBVIOUS
<1>1. /\ wire \o outputBuffer_ = <<>> /\ DOMAIN pending = {}
      /\ \A t \in Thread : pc[t].msg = <<>>
    BY DEF ConnInit, Idle
<1> QED
    BY <1>1, NothingIsInOrder DEF OrderInv, Order

LEMMA OrderStep == TypeInv /\ OrderInv /\ [ConnNext]_connVars => OrderInv'
<1> SUFFICES ASSUME TypeInv, OrderInv, [ConnNext]_connVars PROVE OrderInv'
    OBVIOUS
<1> DEFINE o == wire \o outputBuffer_
<1>0. /\ Loop \in Sender /\ Loop \notin Thread /\ Thread \subseteq Sender
      /\ pc \in [Thread -> Call] /\ pending \in Seq(Functor)
      /\ o \in Seq(Byte) /\ <<>> \in Seq(Byte)
    BY ConnAssumption, ConcatProperties, EmptySeq DEF TypeInv, TypeOK, Sender
<1>i. Order(o, pending, pc, nsent)
    BY DEF OrderInv
<1>p. OrderInv' <=> Order(wire' \o outputBuffer_', pending', pc', nsent')
    BY DEF OrderInv
<1>u. UNCHANGED <<wire, outputBuffer_>> => wire' \o outputBuffer_' = o
    OBVIOUS
<1> HIDE DEF o
<1>s. ASSUME UNCHANGED <<wire, outputBuffer_, pending, pc, nsent>> PROVE OrderInv'
    BY <1>i, <1>p, <1>s, <1>u, Zenon
<1>t. ASSUME UNCHANGED <<wire, outputBuffer_, pc, nsent>>,
             pending # <<>>, pending' = Tail(pending)
      PROVE  OrderInv'
    BY <1>0, <1>i, <1>p, <1>t, <1>u, OrderTail, Zenon
<1>a. ASSUME NEW op, op \in {"send", "connectDestroyed"} \cup Closers \cup Readers,
             UNCHANGED <<wire, outputBuffer_, pc, nsent>>,
             pending' = Append(pending, Fn(op, <<>>))
      PROVE  OrderInv'
  <2>1. Fn(op, <<>>) \in Functor /\ Fn(op, <<>>).msg = <<>>
    <3>1. <<>> \in Seq(Byte) /\ down \in Nat
          BY <1>0, EmptySeq DEF TypeInv, TypeOK
    <3> QED
          BY <1>a, <3>1, FnParts, Zenon
  <2>2. Order(o, Append(pending, Fn(op, <<>>)), pc, nsent)
    <3>1. FitsBehind(Fn(op, <<>>), o, pending, pc, nsent)
          BY <2>1, NothingIsInOrder, Zenon DEF FitsBehind
    <3> QED
          BY <1>0, <1>i, <2>1, <3>1, OrderAppend, Zenon
  <2> QED
        BY <1>a, <1>p, <1>u, <2>2, Zenon
<1>n. ASSUME NEW t \in Thread, NEW call, call.msg = <<>>
      PROVE  Order(o, pending, [pc EXCEPT ![t] = call], nsent)
  <2>1. /\ Sorted(call.msg) /\ Precedes(o, call.msg) /\ SentBy({t}, call.msg)
        /\ Counted(call.msg, nsent)
        /\ \A k \in DOMAIN pending : Precedes(pending[k].msg, call.msg)
        BY <1>n, NothingIsInOrder, Zenon
  <2> QED
        BY <1>0, <1>i, <2>1, OrderCall, Zenon
<1>1. ASSUME NEW n \in 1..MaxLen, LoopSend(n) PROVE OrderInv'
  <2> DEFINE m == Message(Loop, n)
  <2>1. m \in Seq(Byte)
        BY <1>0, MessageType DEF TypeInv
  <2>2. nsent' = [nsent EXCEPT ![Loop] = @ + n] /\ pc' = pc
        BY <1>1 DEF LoopSend
  <2>3. Order(o, pending, pc, nsent')
        BY <1>0, <1>i, <2>2, OrderCount, Zenon DEF TypeInv
  <2>4. Sorted(m) /\ SentBy({Loop}, m) /\ Counted(m, nsent') /\ Precedes(o, m)
        BY <1>0, <1>i, <2>2, NewMessage, Zenon DEF TypeInv, Order
  <2>5. /\ pending' = pending
        /\ wire' \o outputBuffer_' = o \/ wire' \o outputBuffer_' = o \o m
        BY <1>1, <2>1, SendAppends, Zenon DEF LoopSend, o
  <2> HIDE DEF m
  <2>6. /\ \A k \in DOMAIN pending : Precedes(m, pending[k].msg)
        /\ \A t \in Thread : Precedes(m, pc[t].msg)
    <3>1. {Loop} \cap Thread = {} /\ \A t \in Thread : {Loop} \cap {t} = {}
          BY <1>0
    <3> QED
          BY <1>i, <2>4, <3>1, OthersPrecede, Zenon DEF Order
  <2>7. Order(o \o m, pending, pc, nsent')
        BY <1>0, <2>1, <2>3, <2>4, <2>6, OrderOutput, Zenon
  <2> QED
        BY <1>p, <2>2, <2>3, <2>5, <2>7, Zenon
<1>2. CASE RunSend
  <2> DEFINE m == pending[1].msg
  <2>1. pending # <<>> /\ UNCHANGED <<pc, nsent>>
        BY <1>2 DEF RunSend, Running
  <2>2. /\ Head(pending) = pending[1] /\ pending[1] \in Functor
        /\ DOMAIN pending = 1..Len(pending) /\ Len(pending) \in Nat \ {0}
        /\ DOMAIN Tail(pending) = 1..(Len(pending) - 1)
        /\ \A i \in 1..(Len(pending) - 1) : Tail(pending)[i] = pending[i + 1]
        BY <1>0, <2>1, TailOfQueue
  <2>3. m \in Seq(Byte) /\ 1 \in DOMAIN pending
    <3>1. pending[1].msg \in Seq(Byte)
          BY <2>2, SMTT(30) DEF Functor
    <3>2. 1 \in DOMAIN pending
          BY <2>2, SMTT(30)
    <3> QED
          BY <3>1, <3>2
  <2>4. /\ pending' = Tail(pending)
        /\ wire' \o outputBuffer_' = o \/ wire' \o outputBuffer_' = o \o m
        BY <1>2, <2>2, <2>3, SendAppends, Zenon DEF RunSend, o
  <2>5. Sorted(m) /\ Counted(m, nsent) /\ Precedes(o, m)
        BY <1>i, <2>3 DEF Order
  <2>6. \A t \in Thread : Precedes(m, pc[t].msg)
        BY <1>i, <2>3, Zenon DEF Order
  <2>7. \A k \in DOMAIN Tail(pending) : Precedes(m, Tail(pending)[k].msg)
    <3>1. \A k \in DOMAIN Tail(pending) :
              k + 1 \in DOMAIN pending /\ 1 < k + 1 /\ Tail(pending)[k] = pending[k + 1]
          BY <2>2
    <3> QED
          BY <1>i, <2>3, <3>1 DEF Order
  <2> HIDE DEF m
  <2>8. Order(o, Tail(pending), pc, nsent)
        BY <1>0, <1>i, <2>1, OrderTail, Zenon
  <2>9. Order(o \o m, Tail(pending), pc, nsent)
        BY <1>0, <2>3, <2>5, <2>6, <2>7, <2>8, OrderOutput, Zenon
  <2> QED
        BY <1>p, <2>1, <2>4, <2>8, <2>9, Zenon
<1>3. ASSUME NEW n \in 1..Len(outputBuffer_), handleWrite(n) PROVE OrderInv'
  <2>1. wire' \o outputBuffer_' = o
        BY <1>3, WriteMoves DEF o
  <2> QED
        BY <1>3, <1>i, <1>p, <2>1, Zenon DEF handleWrite
<1>4. ASSUME NEW t \in Thread, NEW n \in 1..MaxLen, send(t, n) PROVE OrderInv'
  <2> DEFINE call == [op |-> "send", at |-> "tested", msg |-> Message(t, n)]
  <2>1. /\ nsent' = [nsent EXCEPT ![t] = @ + n] /\ pc' = [pc EXCEPT ![t] = call]
        /\ UNCHANGED <<wire, outputBuffer_, pending>>
        BY <1>4 DEF send, Enter
  <2>2. Order(o, pending, pc, nsent')
        BY <1>0, <1>i, <2>1, OrderCount, Zenon DEF TypeInv
  <2>3. /\ Sorted(call.msg) /\ SentBy({t}, call.msg) /\ Counted(call.msg, nsent')
        /\ \A u \in Seq(Byte) : Counted(u, nsent) => Precedes(u, call.msg)
        BY <1>0, <2>1, NewMessage, Zenon DEF TypeInv
  <2>4. \A k \in DOMAIN pending : pending[k].msg \in Seq(Byte)
    <3>1. \A k \in DOMAIN pending : pending[k] \in Functor
          BY <1>0, LenProperties
    <3> QED
          BY <3>1 DEF Functor
  <2> HIDE DEF call
  <2>5. Precedes(o, call.msg) /\ \A k \in DOMAIN pending : Precedes(pending[k].msg, call.msg)
        BY <1>0, <1>i, <2>3, <2>4, Zenon DEF Order
  <2>6. Order(o, pending, [pc EXCEPT ![t] = call], nsent')
        BY <1>0, <2>2, <2>3, <2>5, OrderCall, Zenon
  <2> QED
        BY <1>p, <1>u, <2>1, <2>6, Zenon
<1>5. ASSUME NEW t \in Thread, NEW op \in Closers, Close(t, op) PROVE OrderInv'
  <2> DEFINE call == [op |-> op, at |-> "tested", msg |-> <<>>]
  <2>1. pc' = [pc EXCEPT ![t] = call] /\ UNCHANGED <<wire, outputBuffer_, pending, nsent>>
        BY <1>5 DEF Close, Enter
  <2>2. call.msg = <<>>
        OBVIOUS
  <2> HIDE DEF call
  <2>3. Order(o, pending, [pc EXCEPT ![t] = call], nsent)
        BY <1>n, <2>2
  <2> QED
        BY <1>p, <1>u, <2>1, <2>3, Zenon
<1>6. ASSUME NEW t \in Thread, SetState(t) PROVE OrderInv'
  <2>1. \A u \in Thread : pc'[u].msg = pc[u].msg
        BY <1>0, <1>6 DEF SetState, Call
  <2>2. UNCHANGED <<wire, outputBuffer_, pending, nsent>>
        BY <1>6 DEF SetState
  <2>3. Order(o, pending, pc', nsent)
        BY <1>i, <2>1, Zenon DEF Order
  <2> QED
        BY <1>p, <1>u, <2>2, <2>3, Zenon
<1>7. ASSUME NEW t \in Thread, QueueInLoop(t) PROVE OrderInv'
  <2> DEFINE f == Fn(pc[t].op, pc[t].msg)
             d == [pc EXCEPT ![t] = Idle]
  <2>1. /\ pending' = Append(pending, f) /\ pc' = d
        /\ UNCHANGED <<wire, outputBuffer_, nsent>>
        BY <1>7 DEF QueueInLoop
  <2>2. f \in Functor /\ f.msg = pc[t].msg
    <3>1. pc[t] \in Call /\ pc[t].op # "idle"
          BY <1>0, <1>7 DEF QueueInLoop, TypeInv, MessagesInv, Closers
    <3> QED
      <4>1. /\ pc[t].op \in {"send", "connectDestroyed"} \cup Closers \cup Readers
            /\ pc[t].msg \in Seq(Byte)
            BY <3>1 DEF Call
      <4> QED
            BY <1>0, <4>1, FnParts, Zenon DEF TypeInv, TypeOK
  <2>3. d[t].msg = <<>> /\ \A u \in Thread \ {t} : d[u] = pc[u]
        BY <1>0 DEF Idle
  <2>4. Idle.msg = <<>>
        BY SMTT(30) DEF Idle
  <2>5. Order(o, pending, d, nsent)
        BY <1>n, <2>4
  <2> HIDE DEF f, d
  <2>6. \A u \in Thread : Precedes(f.msg, d[u].msg)
    <3>1. ASSUME NEW u \in Thread \ {t} PROVE Precedes(f.msg, d[u].msg)
      <4>1. SentBy({t}, f.msg) /\ SentBy({u}, d[u].msg) /\ {t} \cap {u} = {}
            BY <1>i, <2>2, <2>3, Zenon DEF Order
      <4> QED
            BY <4>1, OthersPrecede, Zenon
    <3> QED
          BY <2>3, <3>1, NothingIsInOrder
  <2>7. /\ Sorted(f.msg) /\ Precedes(o, f.msg) /\ SentBy(Thread, f.msg)
        /\ Counted(f.msg, nsent)
        /\ \A k \in DOMAIN pending : Precedes(pending[k].msg, f.msg)
    <3>1. SentBy({t}, f.msg) => SentBy(Thread, f.msg)
          BY DEF SentBy
    <3> QED
          BY <1>i, <2>2, <3>1 DEF Order
  <2>8. Order(o, Append(pending, f), d, nsent)
    <3>1. FitsBehind(f, o, pending, d, nsent)
          BY <2>6, <2>7, Zenon DEF FitsBehind
    <3> QED
          BY <1>0, <2>2, <2>5, <3>1, OrderAppend, Zenon
  <2> QED
        BY <1>p, <1>u, <2>1, <2>8, Zenon
<1>8. ASSUME NEW t \in Thread, NEW op \in Readers, Read(t, op) PROVE OrderInv'
    BY <1>8, <1>a DEF Read
<1>9. CASE LoopForceClose \/ RemoveConnection
    BY <1>9, <1>a, SMTT(30) DEF LoopForceClose, RemoveConnection, Behind, Closers
<1>10. CASE RunShutdown \/ RunForceClose \/ RunRead \/ connectDestroyed
  <2>1. /\ UNCHANGED <<wire, outputBuffer_, pc, nsent>>
        /\ pending # <<>> /\ pending' = Tail(pending)
        BY <1>10, Zenon
           DEF RunShutdown, RunForceClose, handleClose, RunRead, connectDestroyed, Running
  <2> QED
        BY <1>t, <2>1, Zenon
<1>11. CASE LoopShutdown \/ LoopRead \/ handleEnd \/ Outside \/ UNCHANGED connVars
  <2>1. UNCHANGED <<wire, outputBuffer_, pending, pc, nsent>>
        BY <1>11, Zenon DEF LoopShutdown, LoopRead, handleEnd, handleClose, Outside, connVars
  <2> QED
        BY <1>s, <2>1, Zenon
<1> QED
    BY <1>1, <1>2, <1>3, <1>4, <1>5, <1>6, <1>7, <1>8, <1>9, <1>10, <1>11, Zenon
       DEF ConnNext, LoopStep, ForeignStep

(***************************************************************************)
(* The bytes of one sender reach the socket in the order of its calls and  *)
(* none of them twice (send, TcpConnection.cc:92, sendInLoop, :137), with  *)
(* any number of threads and messages of any length.                       *)
(***************************************************************************)
THEOREM SendersStayInOrder == ConnSpec => []SendersInOrder
<1>1. ConnInit => TypeInv /\ OrderInv
    BY TypeInit, OrderInit
<1>2. TypeInv /\ OrderInv /\ [ConnNext]_connVars => (TypeInv /\ OrderInv)'
    BY TypeStep, OrderStep
<1>3. OrderInv => SendersInOrder
    BY Zenon DEF OrderInv, Order, Sorted, SendersInOrder
<1> QED
    BY <1>1, <1>2, <1>3, PTL DEF ConnSpec
=============================================================================
