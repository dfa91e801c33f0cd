------------------------------ MODULE LogFile ------------------------------
(***************************************************************************)
(* muduo::LogFile and FileUtil::AppendFile (src/muduo/base/LogFile.cc,     *)
(* FileUtil.cc) as operators on a record: the files that have been opened, *)
(* the last of them the current one, its size and whether it is flushed.   *)
(* A file is named after the second in which it was opened.  A line is a   *)
(* record [id, len]; a piece handed to append() is a sequence of lines.  A *)
(* line that fwrite() does not take to its end is given up.                *)
(***************************************************************************)
EXTENDS Integers, Sequences, SequencesExt, FiniteSetsExt

CONSTANTS rollSize_, kRollPerSeconds_, checkEveryN_, logFlushInterval_

Bytes(piece) ==
    LET sum[n \in 0 .. Len(piece)] == IF n = 0 THEN 0 ELSE sum[n - 1] + piece[n].len
    IN  sum[Len(piece)]

Period(now) == now \div kRollPerSeconds_

\* AppendFile: open, append, flush.
OpenedFile(now) == [name |-> now, lines |-> <<>>]

Ids(piece) == {piece[i].id : i \in DOMAIN piece}

\* append() tries again until fwrite() takes nothing: the first n lines are in the
\* file then.  The rest of the piece is given up, and counted as written.
AppendToFile(f, piece, n) ==
    [f EXCEPT !.files = [@ EXCEPT ![Len(f.files)].lines = @ \o [i \in 1 .. n |-> piece[i].id]],
              !.lost = @ \cup Ids(SubSeq(piece, n + 1, Len(piece))),
              !.shortWrites = IF n < Len(piece) THEN @ + 1 ELSE @,
              !.writtenBytes = @ + Bytes(piece), !.flushed = FALSE]

flush(f) == [f EXCEPT !.flushed = TRUE]

\* Fault: the file is opened whatever the clock says.
MayRollAlways(f, now) == TRUE

MayRoll(f, now) == now > f.lastRoll_

\* The old file is closed, which flushes it.
rollFile(f, now) ==
    IF MayRoll(f, now)
    THEN [f EXCEPT !.files = Append(@, OpenedFile(now)), !.writtenBytes = 0, !.flushed = TRUE,
                   !.lastRoll_ = now, !.lastFlush_ = now,
                   !.startOfPeriod_ = Period(now)]
    ELSE f

OpenedLog(now) ==
    rollFile([files |-> <<>>, lost |-> {}, shortWrites |-> 0, writtenBytes |-> 0,
              flushed |-> TRUE, count_ |-> 0, startOfPeriod_ |-> 0,
              lastRoll_ |-> 0, lastFlush_ |-> 0], now)

\* Every checkEveryN_ pieces: a new period, or time to flush?
Checked(f, now) ==
    CASE Period(now) # f.startOfPeriod_ -> rollFile(f, now)
      [] /\ Period(now) = f.startOfPeriod_
         /\ now - f.lastFlush_ > logFlushInterval_ -> flush([f EXCEPT !.lastFlush_ = now])
      [] OTHER -> f

append_unlocked(f, piece, n, now) ==
    LET g == AppendToFile(f, piece, n) IN
    CASE g.writtenBytes > rollSize_ -> rollFile(g, now)
      [] g.writtenBytes <= rollSize_ /\ g.count_ + 1 < checkEveryN_ ->
            [g EXCEPT !.count_ = @ + 1]
      [] OTHER -> Checked([g EXCEPT !.count_ = 0], now)
=============================================================================
