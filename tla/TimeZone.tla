------------------------------ MODULE TimeZone ------------------------------
(***************************************************************************)
(* Local times of muduo::TimeZone (src/muduo/base/TimeZone.cc).  Time is   *)
(* counted in half hours and runs over the transitions of a zone.  A zone  *)
(* file has the times of the transitions, the type of local time each one  *)
(* leads to (an index that counts from 1 here), and the types; it may end  *)
(* too soon.                                                               *)
(***************************************************************************)
EXTENDS Integers, Sequences, SequencesExt

CONSTANTS ZoneFiles, MaxTime

VARIABLES data_, seconds

zoneVars == <<data_, seconds>>

kHour == 2

\* Returns true and keeps what it has, whatever of the types (the last part
\* that matters) could be read.
readTimeZoneFile(file, typesRead) ==
    LET types == file.types IN
    [localtimes |-> SubSeq(types, 1, typesRead),
     transitions |->
        IF typesRead < Len(types) THEN <<>>
        ELSE [i \in DOMAIN file.trans |->
                 [gmttime |-> file.trans[i],
                  localtime |-> file.trans[i] + types[file.idx[i]].gmtOffset,
                  localtimeIdx |-> file.idx[i]]]]

ZoneInit ==
    /\ seconds = 0
    /\ \E file \in ZoneFiles : \E n \in 0 .. Len(file.types) :
          data_ = readTimeZoneFile(file, n)

Later == seconds < MaxTime /\ seconds' = seconds + 1 /\ UNCHANGED data_

ZoneSpec == ZoneInit /\ [][Later]_zoneVars

-----------------------------------------------------------------------------
\* lower_bound(): the first transition that is not before the time.
lower_bound(times, t) == SelectInSeq(times, LAMBDA u : u >= t)

\* Fault: a time on a transition is given to the period that it ends.
StepsBackAlways(times, i, t) == IF i = 1 THEN 1 ELSE i - 1

StepsBack(times, i, t) == IF times[i] = t THEN i ELSE i - 1

\* The transition in force at t; times are those of the transitions.
InForce(times, t) ==
    LET i == lower_bound(times, t) IN
    IF i = 0 THEN Len(times) ELSE StepsBack(times, i, t)

findLocaltime(data, times, t) ==
    IF data.transitions = <<>> \/ t < times[1] THEN data.localtimes[1]
    ELSE data.localtimes[data.transitions[InForce(times, t)].localtimeIdx]

GmtTimes(data) == [i \in DOMAIN data.transitions |-> data.transitions[i].gmttime]
LocalTimes(data) == [i \in DOMAIN data.transitions |-> data.transitions[i].localtime]

toLocalTime(data, t) ==
    LET local == findLocaltime(data, GmtTimes(data), t) IN
    [at |-> t + local.gmtOffset, isdst |-> local.isDst]

HourAndMinute(at) == <<(at \div kHour) % 24, at % kHour>>

\* Fault: no second look at a time that occurs twice.
CorrectionNone(data, tm, local) == 0

\* "FIXME: HACK"
Correction(data, tm, local) ==
    LET tryTm == toLocalTime(data, tm.at - local.gmtOffset) IN
    IF tm.isdst /\ ~tryTm.isdst /\ HourAndMinute(tryTm.at) = HourAndMinute(tm.at)
    THEN kHour ELSE 0

fromLocalTime(data, tm) ==
    LET local == findLocaltime(data, LocalTimes(data), tm.at) IN
    tm.at - Correction(data, tm, local) - local.gmtOffset

-----------------------------------------------------------------------------
\* Types of local time, one after the other, as the zone has them.
InTurn(data) ==
    <<data.localtimes[1]>>
        \o [i \in DOMAIN data.transitions |-> data.localtimes[data.transitions[i].localtimeIdx]]

\* The clock is set back only when an hour of summer time ends.
Regular(data) ==
    \A i \in 2 .. Len(InTurn(data)) :
        LET was == InTurn(data)[i - 1]
            is == InTurn(data)[i]
        IN  \/ is.gmtOffset >= was.gmtOffset
            \/ was.isDst /\ ~is.isDst /\ was.gmtOffset = is.gmtOffset + kHour

(***************************************************************************)
(* The binary search finds the period a time is in: the one begun by the   *)
(* latest transition that is not after it (TimeZone.cc:234-251).           *)
(***************************************************************************)
LocaltimeFound ==
    data_.localtimes # <<>> =>
        LET begun == {i \in DOMAIN data_.transitions : data_.transitions[i].gmttime <= seconds}
        IN  findLocaltime(data_, GmtTimes(data_), seconds)
                = InTurn(data_)[1 + Cardinality(begun)]

(***************************************************************************)
(* fromLocalTime() undoes toLocalTime(), in the hour that occurs twice     *)
(* too, in every zone that sets its clock back only at the end of an hour  *)
(* of summer time (TimeZone.cc:308-318).                                   *)
(***************************************************************************)
LocalRoundTrip ==
    data_.localtimes # <<>> /\ Regular(data_) =>
        fromLocalTime(data_, toLocalTime(data_, seconds)) = seconds

(***************************************************************************)
(* Local times are found, and lead back.                                   *)
(***************************************************************************)
ZoneInv ==
    /\ LocaltimeFound
    /\ LocalRoundTrip
=============================================================================
