---------------------------- MODULE AsyncLogging ----------------------------
(***************************************************************************)
(* muduo::AsyncLogging (src/muduo/base/AsyncLogging.cc), writing through   *)
(* LogFile: threads append() lines to currentBuffer_; the logging thread   *)
(* takes the filled buffers and writes them; stop() ends it.  The wall     *)
(* clock may be set back.                                                  *)
(***************************************************************************)
EXTENDS LogFile

CONSTANTS
    kLargeBuffer,    \* bytes of a buffer
    LineLen,         \* lengths of lines
    BufferLimit,     \* 25: with more buffers than this, lines are dropped
    MaxLines,        \* bound: calls of append()
    MaxClock,        \* bound: the clock
    MaxShort         \* bound: pieces that the file does not take whole

VARIABLES
    currentBuffer_,   \* a buffer is the sequence of its lines
    nextBuffer_,      \* whether there is one (it is empty)
    buffers_,
    newBuffer1, newBuffer2,
    buffersToWrite, nwritten,   \* and how many of these are written
    running,          \* running_
    pc,               \* the thread: "none", "test", "lock", "wait", "write", "done"
    signalled,        \* cond_ was notified while the thread waited
    stop_,            \* stop(): "no", "set" (running_ is false) or "join"
    stopAt,           \* lines there were then, if the thread was yet to swap
    output,           \* the LogFile
    lines,            \* lines handed to append()
    shed,             \* lines dropped: no buffer holds them, or too many buffers
    clock

logVars == <<currentBuffer_, nextBuffer_, buffers_, newBuffer1, newBuffer2,
             buffersToWrite, nwritten, running, pc, signalled, stop_, stopAt, output,
             lines, shed, clock>>

AsyncInit ==
    /\ currentBuffer_ = <<>> /\ nextBuffer_ = TRUE /\ buffers_ = <<>>
    /\ newBuffer1 = TRUE /\ newBuffer2 = TRUE
    /\ buffersToWrite = <<>> /\ nwritten = 0
    /\ running = FALSE /\ pc = "none" /\ signalled = FALSE
    /\ stop_ = "no" /\ stopAt = 0
    /\ clock = 1 /\ output = OpenedLog(1)
    /\ lines = 0 /\ shed = {}

notify == signalled' = (signalled \/ pc = "wait")

-----------------------------------------------------------------------------
(* The callers.                                                            *)

\* FixedBuffer: avail() > len.
Fits(buffer, len) == kLargeBuffer - Bytes(buffer) > len

Line(len) == [id |-> lines + 1, len |-> len]

append(len) ==
    /\ lines < MaxLines
    /\ lines' = lines + 1
    /\ IF Fits(currentBuffer_, len)
       THEN /\ currentBuffer_' = Append(currentBuffer_, Line(len))
            /\ UNCHANGED <<buffers_, nextBuffer_, signalled, shed>>
       ELSE /\ buffers_' = Append(buffers_, currentBuffer_)
            /\ nextBuffer_' = FALSE
            /\ IF Fits(<<>>, len)
               THEN currentBuffer_' = <<Line(len)>> /\ UNCHANGED shed
               ELSE currentBuffer_' = <<>> /\ shed' = shed \cup {lines'}
            /\ notify
    /\ UNCHANGED <<newBuffer1, newBuffer2, buffersToWrite, nwritten, running, pc, stop_, stopAt,
                   output, clock>>

\* start(): the thread, once it has counted latch_ down, opens the LogFile.
Start ==
    /\ pc = "none"
    /\ running' = TRUE /\ pc' = "test"
    /\ UNCHANGED <<currentBuffer_, nextBuffer_, buffers_, newBuffer1, newBuffer2,
                   buffersToWrite, nwritten, signalled, stop_, stopAt, output, lines,
                   shed, clock>>

\* stop() assigns running_, then notifies, holding no lock.
Stop ==
    /\ stop_ = "no" /\ pc # "none"
    /\ stop_' = "set" /\ running' = FALSE
    /\ stopAt' = IF pc \in {"lock", "wait"} THEN lines ELSE 0
    /\ UNCHANGED <<currentBuffer_, nextBuffer_, buffers_, newBuffer1, newBuffer2,
                   buffersToWrite, nwritten, pc, signalled, output, lines, shed, clock>>

StopNotifies ==
    /\ stop_ = "set"
    /\ stop_' = "join"
    /\ notify
    /\ UNCHANGED <<currentBuffer_, nextBuffer_, buffers_, newBuffer1, newBuffer2,
                   buffersToWrite, nwritten, running, pc, stopAt, output, lines, shed, clock>>

-----------------------------------------------------------------------------
(* threadFunc().                                                           *)

Test ==
    /\ pc = "test"
    /\ IF running THEN pc' = "lock" /\ UNCHANGED output
       ELSE pc' = "done" /\ output' = flush(output)
    /\ UNCHANGED <<currentBuffer_, nextBuffer_, buffers_, newBuffer1, newBuffer2,
                   buffersToWrite, nwritten, running, signalled, stop_, stopAt, lines, shed, clock>>

\* Fault: the second spare is kept back.
RefillsNever == FALSE

Refills == ~nextBuffer_

Swap ==
    /\ buffersToWrite' = Append(buffers_, currentBuffer_) /\ buffers_' = <<>>
    /\ currentBuffer_' = <<>> /\ newBuffer1' = FALSE
    /\ nextBuffer_' = (nextBuffer_ \/ Refills)
    /\ newBuffer2' = (newBuffer2 /\ ~Refills)
    /\ pc' = "write" /\ signalled' = FALSE
    /\ UNCHANGED <<nwritten, running, stop_, stopAt, output, lines, shed, clock>>

Lock ==
    /\ pc = "lock"
    /\ \/ buffers_ # <<>> /\ Swap
       \/ /\ buffers_ = <<>>
          /\ pc' = "wait"
          /\ UNCHANGED <<currentBuffer_, nextBuffer_, buffers_, newBuffer1, newBuffer2,
                         buffersToWrite, nwritten, running, signalled, stop_, stopAt, output,
                         lines, shed, clock>>

\* Fault: the wait has no end of its own.
TimesOutNever == FALSE

\* waitForSeconds(flushInterval_), once, whatever ends it.
TimesOut == TRUE

\* Fault: a thread that finds itself stopped after the wait leaves at once.
WaitEndsThread ==
    /\ pc = "wait"
    /\ \/ running /\ Swap
       \/ /\ ~running
          /\ pc' = "done"
          /\ UNCHANGED <<currentBuffer_, nextBuffer_, buffers_, newBuffer1, newBuffer2,
                         buffersToWrite, nwritten, running, signalled, stop_, stopAt,
                         output, lines, shed, clock>>

WaitReturns == pc = "wait" /\ (signalled \/ TimesOut) /\ Swap

\* Fault: the last two buffers are the ones that are kept.
KeepsLast == SubSeq(buffersToWrite, Len(buffersToWrite) - 1, Len(buffersToWrite))

Keeps == SubSeq(buffersToWrite, 1, 2)

\* The lines of a piece that the file takes: all, unless the disk is full, say.
Takes(piece) == IF output.shortWrites < MaxShort THEN 0 .. Len(piece) ELSE {Len(piece)}

\* With too many buffers, a note (a line that is nobody's) replaces all but two.
Drop ==
    /\ pc = "write" /\ nwritten = 0 /\ Len(buffersToWrite) > BufferLimit
    /\ LET note == <<[id |-> 0, len |-> 1]>> IN
       \E n \in Takes(note) : output' = append_unlocked(output, note, n, clock)
    /\ buffersToWrite' = Keeps
    /\ shed' = shed \cup UNION {Ids(buffersToWrite[i]) : i \in 3 .. Len(buffersToWrite)}
    /\ UNCHANGED <<currentBuffer_, nextBuffer_, buffers_, newBuffer1, newBuffer2, nwritten,
                   running, pc, signalled, stop_, stopAt, lines, clock>>

Write ==
    /\ pc = "write" /\ nwritten < Len(buffersToWrite)
    /\ nwritten = 0 => Len(buffersToWrite) <= BufferLimit
    /\ LET piece == buffersToWrite[nwritten + 1] IN
       \E n \in Takes(piece) : output' = append_unlocked(output, piece, n, clock)
    /\ nwritten' = nwritten + 1
    /\ UNCHANGED <<currentBuffer_, nextBuffer_, buffers_, newBuffer1, newBuffer2,
                   buffersToWrite, running, pc, signalled, stop_, stopAt, lines, shed, clock>>

\* The spares are refilled from the first two buffers that were written.
Refill ==
    /\ pc = "write" /\ nwritten = Len(buffersToWrite)
    /\ newBuffer1' = TRUE
    /\ newBuffer2' = (newBuffer2 \/ nwritten >= 2)
    /\ buffersToWrite' = <<>> /\ nwritten' = 0
    /\ output' = flush(output)
    /\ pc' = "test"
    /\ UNCHANGED <<currentBuffer_, nextBuffer_, buffers_, running, signalled, stop_,
                   stopAt, lines, shed, clock>>

\* The clock is read while buffers are written; when it moves otherwise is no matter.
ClockMoves ==
    /\ pc = "write"
    /\ clock' \in {clock - 1, clock + 1} /\ clock' \in 1 .. MaxClock
    /\ UNCHANGED <<currentBuffer_, nextBuffer_, buffers_, newBuffer1, newBuffer2,
                   buffersToWrite, nwritten, running, pc, signalled, stop_, stopAt, output, lines,
                   shed>>

AsyncNext ==
    \/ \E len \in LineLen : append(len)
    \/ Start \/ Stop \/ StopNotifies
    \/ Test \/ Lock \/ WaitReturns \/ Drop \/ Write \/ Refill
    \/ ClockMoves

AsyncSpec == AsyncInit /\ [][AsyncNext]_logVars

\* The logging thread runs, and a wait with a limit ends.
AsyncFairness == WF_logVars(Test \/ Lock \/ WaitReturns \/ Drop \/ Write \/ Refill)

-----------------------------------------------------------------------------
Joined(seqs) ==
    LET all[n \in 0 .. Len(seqs)] == IF n = 0 THEN <<>> ELSE all[n - 1] \o seqs[n]
    IN  all[Len(seqs)]

Written ==
    SelectSeq(Joined([i \in DOMAIN output.files |-> output.files[i].lines]),
              LAMBDA id : id # 0)

\* Lines that were dropped, or given up by AppendFile::append.
Gone == shed \cup (output.lost \ {0})

Buffered ==
    LET all == Joined(SubSeq(buffersToWrite, nwritten + 1, Len(buffersToWrite))
                          \o buffers_ \o <<currentBuffer_>>)
    IN  [i \in DOMAIN all |-> all[i].id]

(***************************************************************************)
(* Every line given to append() is in a file, in a buffer, among those     *)
(* that were dropped or, after a write that fell short (FileUtil.cc:39),   *)
(* among those that were given up, in one of these places only, and what   *)
(* is in the files and then in the buffers is in the order of the calls:   *)
(* no swap, drop or roll loses, repeats or reorders a line                 *)
(* (AsyncLogging.cc:81-107).                                               *)
(***************************************************************************)
LinesAccounted ==
    LET all == Written \o Buffered IN
    /\ Range(all) \cup Gone = 1 .. lines
    /\ Len(all) + Cardinality(shed) + Cardinality(output.lost \ {0}) = lines
    /\ \A i \in 2 .. Len(all) : all[i - 1] < all[i]

(***************************************************************************)
(* The spare buffers are there when threadFunc() needs them: its           *)
(* assertions (AsyncLogging.cc:71-73, 117, 125).  It rests on append()     *)
(* having queued a buffer whenever it took nextBuffer_.                    *)
(***************************************************************************)
SparesReady ==
    /\ pc = "test" => newBuffer1 /\ newBuffer2 /\ buffersToWrite = <<>>
    /\ pc = "write" => Len(buffersToWrite) >= IF newBuffer2 THEN 1 ELSE 2
    /\ nextBuffer_ \/ buffers_ # <<>>

(***************************************************************************)
(* rollFile() never opens a file a second time, though the clock may be    *)
(* set back (LogFile.cc:99): a name is the second it was opened in.        *)
(***************************************************************************)
FilesDistinct ==
    \A i \in 2 .. Len(output.files) : output.files[i - 1].name < output.files[i].name

(***************************************************************************)
(* A line that was appended before stop() and not dropped or given up is   *)
(* in a file when stop() returns, provided the logging thread had not      *)
(* swapped the buffers for the last time by then (AsyncLogging.cc:69): it  *)
(* was about to take the lock or it waited.                                *)
(***************************************************************************)
StopKeepsLines ==
    pc = "done" => 1 .. stopAt \subseteq Range(Written) \cup Gone

(***************************************************************************)
(* A line that is appended, before start() or after it, is written and     *)
(* flushed, or dropped or given up, unless the thread is stopped.          *)
(***************************************************************************)
LineIsFlushed ==
    []<>(running => 1 .. lines = Range(Written) \cup Gone /\ output.flushed)

(***************************************************************************)
(* stop() returns: its notify() may come before the wait it is meant to    *)
(* end (AsyncLogging.h:50), but that wait has a limit.                     *)
(***************************************************************************)
LoggingStops == []<>(stop_ = "join" => pc = "done")

(***************************************************************************)
(* Lines, buffers and files of the logging thread.                         *)
(***************************************************************************)
AsyncInv ==
    /\ LinesAccounted
    /\ SparesReady
    /\ FilesDistinct
    /\ StopKeepsLines

(***************************************************************************)
(* What the logging thread must get done: lines reach the disk, and stop() *)
(* returns.                                                                *)
(***************************************************************************)
AsyncProgress ==
    /\ LineIsFlushed
    /\ LoggingStops
=============================================================================
