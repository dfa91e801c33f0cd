----------------------------- MODULE LogStream -----------------------------
(***************************************************************************)
(* muduo::LogStream and detail::FixedBuffer (src/muduo/base/LogStream.cc,  *)
(* LogStream.h), and the ends of a line that Logger::Impl::finish() adds:  *)
(* values are put into a buffer of SIZE bytes one after the other, each    *)
(* whole or not at all.  Characters are numbers: a digit is its value.     *)
(***************************************************************************)
EXTENDS Integers, Sequences

CONSTANTS SIZE, kMaxNumericSize,
          Number,       \* integers of the type with the longest text
          Pointer,      \* unsigned
          TextLen       \* lengths of strings

VARIABLES data_,        \* what the buffer holds
          shown,        \* what was put in and found room
          finished      \* the line has been ended

streamVars == <<data_, shown, finished>>

StreamInit == data_ = <<>> /\ shown = <<>> /\ finished = FALSE

Minus == 16
X == 17
Char == 18
Newline == 19

\* C's %, which has the sign of its left operand.
Rem10(i) == IF i >= 0 THEN i % 10 ELSE -((-i) % 10)
Quot10(i) == IF i >= 0 THEN i \div 10 ELSE -((-i) \div 10)

digits == <<9, 8, 7, 6, 5, 4, 3, 2, 1, 0, 1, 2, 3, 4, 5, 6, 7, 8, 9>>

\* Fault: the table has no part for negative remainders.
OneSided(lsd) == (lsd + 10) % 10

Zero(lsd) == digits[10 + lsd]

RECURSIVE Backwards(_), BackwardsHex(_)
Backwards(i) == <<Zero(Rem10(i))>> \o IF Quot10(i) = 0 THEN <<>> ELSE Backwards(Quot10(i))
BackwardsHex(i) == <<i % 16>> \o IF i \div 16 = 0 THEN <<>> ELSE BackwardsHex(i \div 16)

reverse(s) == [i \in DOMAIN s |-> s[Len(s) + 1 - i]]

convert(value) == reverse(Backwards(value) \o IF value < 0 THEN <<Minus>> ELSE <<>>)
convertHex(value) == reverse(BackwardsHex(value))

-----------------------------------------------------------------------------
avail(data) == SIZE - Len(data)

\* Fault: a text may fill the buffer.
FitsTight(data, text) == avail(data) >= Len(text)

\* FixedBuffer::append()
Fits(data, text) == avail(data) > Len(text)

\* Fault: numbers go in while there is any room at all.
HasAnyRoom(data) == avail(data) > 0

HasRoom(data) == avail(data) >= kMaxNumericSize

Put(fits, text, what) ==
    /\ ~finished
    /\ data_' = IF fits THEN data_ \o text ELSE data_
    /\ shown' = IF fits THEN Append(shown, what) ELSE shown
    /\ UNCHANGED finished

formatInteger(v) == Put(HasRoom(data_), convert(v), <<"integer", v>>)

PutPointer(v) == Put(HasRoom(data_), <<0, X>> \o convertHex(v), <<"pointer", v>>)

PutText(n) ==
    LET text == [i \in 1 .. n |-> Char] IN Put(Fits(data_, text), text, <<"text", n>>)

\* " - ", the file, ':', the line number and '\n' are put in one by one.
Ending == <<[i \in 1 .. 3 |-> Char], <<Char>>, <<Newline>>>>

finish ==
    LET put(data, text) == IF Fits(data, text) THEN data \o text ELSE data
        named == put(put(data_, Ending[1]), Ending[2])
        numbered == IF HasRoom(named) THEN named \o convert(7) ELSE named
    IN  /\ ~finished
        /\ finished' = TRUE
        /\ data_' = put(numbered, Ending[3])
        /\ UNCHANGED shown

StreamNext ==
    \/ \E v \in Number : formatInteger(v)
    \/ \E v \in Pointer : PutPointer(v)
    \/ \E n \in TextLen : PutText(n)
    \/ finish

StreamSpec == StreamInit /\ [][StreamNext]_streamVars

-----------------------------------------------------------------------------
RECURSIVE Value(_, _)
Value(text, base) ==
    IF text = <<>> THEN 0
    ELSE base * Value(SubSeq(text, 1, Len(text) - 1), base) + text[Len(text)]

Lengths(what) ==
    CASE what[1] = "text" -> what[2]
      [] what[1] = "pointer" -> 2 + Len(convertHex(what[2]))
      [] OTHER -> Len(convert(what[2]))

\* Where the i-th thing shown begins, and its text.
Begins(i) ==
    LET sum[n \in 0 .. Len(shown)] == IF n = 0 THEN 0 ELSE sum[n - 1] + Lengths(shown[n])
    IN  sum[i - 1] + 1

TextOf(i) == SubSeq(data_, Begins(i), Begins(i) + Lengths(shown[i]) - 1)

(***************************************************************************)
(* The buffer is never overrun, the terminating NUL that convert() writes  *)
(* past a number included (LogStream.cc:56, 118, LogStream.h:42).          *)
(***************************************************************************)
StreamFits == Len(data_) < SIZE

(***************************************************************************)
(* Whatever was left out for want of room, every number that is in the     *)
(* buffer reads back as itself, the most negative one included             *)
(* (LogStream.cc:40-60).                                                   *)
(***************************************************************************)
NumbersReadBack ==
    \A i \in DOMAIN shown :
        LET text == TextOf(i)
            v == shown[i][2]
        IN  /\ shown[i][1] = "integer" =>
                  v = IF v < 0 THEN -Value(Tail(text), 10) ELSE Value(text, 10)
            /\ shown[i][1] = "integer" /\ v < 0 => Head(text) = Minus
            /\ shown[i][1] = "pointer" => v = Value(SubSeq(text, 3, Len(text)), 16)

(***************************************************************************)
(* A finished line ends with a newline, unless it leaves exactly one byte  *)
(* of the buffer free, where the newline too is left out (LogStream.h:42,  *)
(* Logging.cc:173).                                                        *)
(***************************************************************************)
LineEnds == finished => data_[Len(data_)] = Newline \/ Len(data_) = SIZE - 1

(***************************************************************************)
(* What is in the buffer of a line: within its size, readable, and ended.  *)
(***************************************************************************)
StreamInv ==
    /\ StreamFits
    /\ NumbersReadBack
    /\ LineEnds
=============================================================================
