------------------------------- MODULE MCParts -------------------------------
(***************************************************************************)
(* Parts of the libraries that are checked on their own, for safety: a     *)
(* behaviour chooses one and runs it while the others stay as they were    *)
(* initialised.                                                            *)
(***************************************************************************)
EXTENDS Buffer, TLC

CONSTANTS Channel, NoChannel, MaxFd,
          MaxSocks, MaxCalls, Reconnects,
          Message, MaxSent, kMaxMessageLen, Unwanted, Damage,
          Putter, Taker, Capacities, MaxItems,
          Years, Epoch,
          ZoneFiles, MaxTime,
          SIZE, kMaxNumericSize, Number, Pointer, TextLen,
          LogThread, MaxSecond, MaxLogs

VARIABLES
    which,
    fd_, removed, events_, channels_, epIndex, epollfd_, epFailed, ppIndex, pollfds_,
    onceIdle,
    connect_, state_, channel_, polled, sock, timers, keeper, hasty, wantsConnect, retry_,
    connection_, alive, detached, user, phase, active, pendingF, batchF, ncalls,
    asserted, touched, dtor,
    sent, wire, readable, delivered, errorCode, connected, damaged, tag_,
    capacity, items, puts, takes, nput, got,
    today,
    data_, seconds,
    chars, shown, finished,
    g_logLevel, second, t_lastSecond, t_time, impl_, stdout, nflushed, aborted

Poll == INSTANCE Poller
Client == INSTANCE TcpClient
Codec == INSTANCE ProtobufCodecLite
Queue == INSTANCE BlockingQueue
Calendar == INSTANCE Date
Zone == INSTANCE TimeZone
Stream == INSTANCE LogStream WITH data_ <- chars
Log == INSTANCE Logging

MCMessage == {<<>>, <<1>>, <<2>>, <<1, 1, 1>>}
MCUnwanted == {<<2>>}
MCDamage == {-1, 1, 2, 3, 4}

\* Years of each kind, around the epoch and around centuries.
MCYears == {1900, 1904, 1968, 1969, 1970, 1999, 2000, 2001, 2028, 2100, 2400, 2499, 2500}
MCEpoch == {1968, 1969, 1970, 1999, 2000, 2001, 2028}

Std(offset) == [gmtOffset |-> offset, isDst |-> FALSE]
Dst(offset) == [gmtOffset |-> offset, isDst |-> TRUE]

\* No rule; summer times; a file that begins in summer; a zone that moves; one
\* that moves west.
MCZoneFiles ==
    {[trans |-> <<>>, idx |-> <<>>, types |-> <<Std(16)>>],
     [trans |-> <<6, 14, 22, 30>>, idx |-> <<2, 1, 2, 1>>, types |-> <<Std(4), Dst(6)>>],
     [trans |-> <<6, 14, 22>>, idx |-> <<2, 1, 2>>, types |-> <<Dst(6), Std(4)>>],
     [trans |-> <<7, 15, 22, 31>>, idx |-> <<2, 3, 4, 3>>,
      types |-> <<Std(1), Std(4), Std(5), Dst(7)>>],
     [trans |-> <<8, 20>>, idx |-> <<2, 1>>, types |-> <<Std(4), Std(1)>>]}

MCNumber == {-128, -7, 0, 127}

\* What a part may start with is chosen for the part that runs.
First(S) == CHOOSE x \in S : TRUE

pollerV == <<fd_, removed, events_, channels_, epIndex, epollfd_, epFailed,
             ppIndex, pollfds_, onceIdle>>
clientV == <<connect_, state_, channel_, polled, sock, timers, keeper,
             hasty, wantsConnect, retry_, connection_, alive, detached, user,
             phase, active, pendingF, batchF, ncalls, asserted, touched, dtor>>
bufferV == bufferVars
codecV == <<sent, wire, readable, delivered, errorCode, connected, damaged, tag_>>
queueV == <<capacity, items, puts, takes, nput, got>>
dateV == <<today>>
zoneV == <<data_, seconds>>
streamV == <<chars, shown, finished>>
loggerV == <<g_logLevel, second, t_lastSecond, t_time, impl_, stdout, nflushed,
             aborted>>

vars == <<which, pollerV, clientV, bufferV, codecV, queueV, dateV, zoneV, streamV,
          loggerV>>

PartsInit ==
    /\ which \in {"poller", "client", "buffer", "codec", "queue", "date", "zone",
                  "stream", "logger"}
    /\ Poll!PollerInit
    /\ Client!ClientInit
    /\ BufferInit
    /\ Codec!CodecInit
    /\ Queue!QueueInit
    /\ Calendar!DateInit
    /\ Zone!ZoneInit
    /\ Stream!StreamInit
    /\ Log!LoggingInit
    /\ which # "client" => retry_
    /\ which # "codec" => tag_ = Codec!SenderTag
    /\ which # "queue" => capacity = First(Capacities)
    /\ which # "date" => today.year = First(Years)
    /\ which # "zone" => data_.localtimes = <<>> /\ data_.transitions = <<>>
    /\ which # "logger" => g_logLevel = Log!INFO

\* The other parts do not move.
OthersStill ==
    /\ UNCHANGED which
    /\ which # "poller" => UNCHANGED pollerV
    /\ which # "client" => UNCHANGED clientV
    /\ which # "buffer" => UNCHANGED bufferV
    /\ which # "codec" => UNCHANGED codecV
    /\ which # "queue" => UNCHANGED queueV
    /\ which # "date" => UNCHANGED dateV
    /\ which # "zone" => UNCHANGED zoneV
    /\ which # "stream" => UNCHANGED streamV
    /\ which # "logger" => UNCHANGED loggerV

PollerStep == which = "poller" /\ Poll!PollerNext /\ OthersStill

TcpClientStep == which = "client" /\ Client!ClientNext /\ OthersStill

BufferStep == which = "buffer" /\ BufferNext /\ OthersStill

ProtobufCodecLiteStep == which = "codec" /\ Codec!CodecNext /\ OthersStill

BlockingQueueStep == which = "queue" /\ Queue!QueueNext /\ OthersStill

DateStep == which = "date" /\ Calendar!NextDay /\ OthersStill

TimeZoneStep == which = "zone" /\ Zone!Later /\ OthersStill

LogStreamStep == which = "stream" /\ Stream!StreamNext /\ OthersStill

LoggingStep == which = "logger" /\ Log!LoggingNext /\ OthersStill

PartsNext ==
    \/ PollerStep \/ TcpClientStep \/ BufferStep \/ ProtobufCodecLiteStep
    \/ BlockingQueueStep \/ DateStep \/ TimeZoneStep \/ LogStreamStep
    \/ LoggingStep

PartsSpec ==
    /\ PartsInit /\ [][PartsNext]_vars

-----------------------------------------------------------------------------
\* Poller: both pollers hold what the channels say, and agree.
PollerInv == which = "poller" => Poll!PollerInv

\* Connector: its asserts, its channel, and that it goes on trying.
ConnectorInv == which = "client" => Client!ConnectorInv

\* TcpClient: nobody uses the client or the connector after its end.
LifetimeInv == which = "client" => Client!LifetimeInv

\* ProtobufCodecLite: all that was sent is delivered, nothing after an error.
CodecInv == which = "codec" => Codec!CodecInv

\* BlockingQueue, BoundedBlockingQueue: nobody waits for what is there.
QueueWakeups == which = "queue" => Queue!QueueWakeups

\* Date, TimeZone: dates and UTC times agree with the counted calendar.
DateInv == which = "date" => Calendar!DateInv

\* TimeZone: local times are found, and lead back.
ZoneInv == which = "zone" => Zone!ZoneInv

\* LogStream: a line stays within its buffer, reads back, and is ended.
StreamInv == which = "stream" => Stream!StreamInv

\* Logging: lines show their second, and a FATAL one is flushed.
LoggingInv == which = "logger" => Log!LoggingInv
=============================================================================
