-------------------------- MODULE TimerQueueProofs --------------------------
(***************************************************************************)
(* Proofs for TimerQueue: a timer has one owner, the timerfd is set in     *)
(* time, and what is cancelled stays out, for any number of timers.        *)
(***************************************************************************)
EXTENDS TimerQueue, TLAPS

Orders == INSTANCE WellFoundedInduction

Live(a) == heap[a].sequence_ # 0

\* The TimerIds that a timer created so far may have.
Created == Addr \X (1 .. s_numCreated_)

\* The timers that a queue of calls adds, and that it adds each once.
Adds(q) == {q[i][2] : i \in {j \in DOMAIN q : q[j][1] = "add"}}
AddsOnce(q) == \A i, j \in DOMAIN q : q[i][1] = "add" /\ q[i] = q[j] => i = j

Call == {"add", "cancel"} \X (Addr \X Nat)

TimerTypeOK ==
    /\ heap \in [Addr -> [sequence_ : Nat, left : Nat, interval_ : Nat]]
    /\ \A a \in Addr : ~Live(a) => heap[a] = Free
    /\ timers_ \subseteq Addr /\ expired \subseteq Addr
    /\ queued \in Seq(Call)
    /\ timerfd \in Int /\ timerfd >= -1 /\ lag \in Int
    /\ s_numCreated_ \in Nat /\ ahead \in Nat
    /\ ids \subseteq Addr \X Nat /\ reading \subseteq Addr \X Nat

\* A timer has one owner: the sets, the batch or the queue.
OwnedInv ==
    /\ activeTimers_ = {Id(a) : a \in timers_}
    /\ timers_ \cap expired = {}
    /\ \A a \in Addr : Live(a) <=> a \in timers_ \/ a \in expired \/ Id(a) \in Adds(queued)
    /\ \A id \in Adds(queued) : \E a \in Addr \ (timers_ \cup expired) : id = Id(a)
    /\ AddsOnce(queued)
    /\ \A a \in Addr : Live(a) => Id(a) \in Created
    /\ callingExpiredTimers_ \/ expired = {}

\* A timer that is cancelled and still there is in the batch, and reset()
\* will find it in cancelingTimers_.
CancelInv ==
    /\ cancelled \subseteq Created
    /\ \A a \in Addr : Live(a) /\ Id(a) \in cancelled =>
          a \in expired /\ Id(a) \in cancelingTimers_

\* The timerfd is set, no later than any timer but for a clock set forward.
InTimeInv ==
    ~callingExpiredTimers_ /\ timers_ # {} =>
        timerfd \in Nat /\ \A a \in timers_ : timerfd <= heap[a].left + ahead

TimerInd == TimerTypeOK /\ OwnedInv /\ CancelInv /\ InTimeInv

\* A new TimerQueue has no timer and a disarmed timerfd.
LEMMA TimerInitInd == TimerInit => TimerInd
<1> SUFFICES ASSUME TimerInit PROVE TimerInd
    OBVIOUS
<1>1. TimerTypeOK
  BY DEF TimerInit, TimerTypeOK, Live, Free, Disarmed
<1>2. OwnedInv /\ CancelInv /\ InTimeInv
  BY DEF TimerInit, OwnedInv, CancelInv, InTimeInv, Live, Adds, AddsOnce, Free
<1> QED
  BY <1>1, <1>2 DEF TimerInd

-----------------------------------------------------------------------------
(* The queue of calls.                                                     *)

\* A queued call is an addition of its timer, or none.
LEMMA AddsAppend ==
    ASSUME NEW q \in Seq(Call), NEW id \in Addr \X Nat
    PROVE  /\ Append(q, <<"cancel", id>>) \in Seq(Call)
           /\ Append(q, <<"add", id>>) \in Seq(Call)
           /\ Adds(Append(q, <<"cancel", id>>)) = Adds(q)
           /\ AddsOnce(q) => AddsOnce(Append(q, <<"cancel", id>>))
           /\ Adds(Append(q, <<"add", id>>)) = Adds(q) \cup {id}
           /\ AddsOnce(q) /\ id \notin Adds(q) => AddsOnce(Append(q, <<"add", id>>))
<1>1. PICK c, d \in Call : c = <<"cancel", id>> /\ d = <<"add", id>>
  BY DEF Call
<1>2. c[1] = "cancel" /\ d[1] = "add" /\ d[2] = id
  BY <1>1
<1>3. /\ Append(q, c) \in Seq(Call) /\ Append(q, d) \in Seq(Call)
      /\ DOMAIN Append(q, c) = DOMAIN q \cup {Len(q) + 1}
      /\ DOMAIN Append(q, d) = DOMAIN q \cup {Len(q) + 1}
      /\ \A i \in DOMAIN q : Append(q, c)[i] = q[i] /\ Append(q, d)[i] = q[i]
      /\ Append(q, c)[Len(q) + 1] = c /\ Append(q, d)[Len(q) + 1] = d
      /\ Len(q) + 1 \notin DOMAIN q
  OBVIOUS
<1>4. Adds(Append(q, c)) = Adds(q) /\ Adds(Append(q, d)) = Adds(q) \cup {id}
  BY <1>2, <1>3 DEF Adds
<1>5. AddsOnce(q) => AddsOnce(Append(q, c))
  BY <1>2, <1>3 DEF AddsOnce
<1>6. AddsOnce(q) /\ id \notin Adds(q) => AddsOnce(Append(q, d))
  BY <1>2, <1>3 DEF Adds, AddsOnce
<1> QED
  BY <1>1, <1>3, <1>4, <1>5, <1>6

\* The call that is run was the only one to add its timer.
LEMMA AddsTail ==
    ASSUME NEW q \in Seq(Call), q # <<>>
    PROVE  /\ Tail(q) \in Seq(Call) /\ Head(q) \in Call
           /\ AddsOnce(q) => AddsOnce(Tail(q))
           /\ Head(q)[1] # "add" => Adds(Tail(q)) = Adds(q)
           /\ Head(q)[1] = "add" => Head(q)[2] \in Adds(q)
           /\ Head(q)[1] = "add" /\ AddsOnce(q) =>
                 Adds(Tail(q)) = Adds(q) \ {Head(q)[2]}
<1>1. /\ Tail(q) \in Seq(Call) /\ Head(q) \in Call /\ Head(q) = q[1]
      /\ Len(q) \in Nat \ {0}
      /\ DOMAIN q = 1 .. Len(q) /\ DOMAIN Tail(q) = 1 .. Len(q) - 1
      /\ \A i \in 1 .. Len(q) - 1 : Tail(q)[i] = q[i + 1]
  OBVIOUS
<1>2. /\ \A i \in DOMAIN Tail(q) : i + 1 \in DOMAIN q /\ i + 1 # 1
      /\ \A i \in DOMAIN q : i = 1 \/ (i - 1 \in DOMAIN Tail(q) /\ Tail(q)[i - 1] = q[i])
      /\ 1 \in DOMAIN q
      /\ \A i, j \in DOMAIN Tail(q) : i + 1 = j + 1 => i = j
  BY <1>1
<1>3. AddsOnce(q) => AddsOnce(Tail(q))
  BY <1>1, <1>2 DEF AddsOnce
<1>4. Adds(Tail(q)) \subseteq Adds(q)
  BY <1>1, <1>2 DEF Adds
<1>5. \A id \in Adds(q) : id \in Adds(Tail(q)) \/ (q[1][1] = "add" /\ id = q[1][2])
  <2> SUFFICES ASSUME NEW i \in DOMAIN q, q[i][1] = "add", i # 1
               PROVE  q[i][2] \in Adds(Tail(q))
      BY DEF Adds
  <2>1. PICK j \in DOMAIN Tail(q) : Tail(q)[j] = q[i]
    BY <1>2
  <2> QED
    BY <2>1 DEF Adds
<1>6. Head(q)[1] = "add" => Head(q)[2] \in Adds(q)
  BY <1>1, <1>2 DEF Adds
<1>7. ASSUME Head(q)[1] = "add", AddsOnce(q) PROVE Head(q)[2] \notin Adds(Tail(q))
  <2> SUFFICES ASSUME NEW i \in DOMAIN Tail(q), Tail(q)[i][1] = "add",
                      Tail(q)[i][2] = Head(q)[2]
               PROVE  FALSE
      BY DEF Adds
  <2>1. q[i + 1] \in Call /\ q[1] \in Call /\ q[i + 1] = Tail(q)[i]
    BY <1>1, <1>2
  <2>2. q[i + 1] = q[1]
    BY <1>1, <1>7, <2>1 DEF Call
  <2> QED
    BY <1>1, <1>2, <1>7, <2>2 DEF AddsOnce
<1> QED
  BY <1>1, <1>3, <1>4, <1>5, <1>6, <1>7

-----------------------------------------------------------------------------
(* Times.                                                                  *)

\* A set of times has a first one.
LEMMA MinFacts ==
    ASSUME NEW T, T \subseteq Nat, T # {}
    PROVE  Min(T) \in T /\ \A t \in T : Min(T) <= t
<1>1. \E m \in T : \A t \in T : m <= t
  <2> DEFINE R == {p \in Nat \X Nat : p[1] < p[2]}
  <2>1. R = Orders!OpToRel(<, Nat)
    BY DEF Orders!OpToRel
  <2>2. Orders!IsWellFoundedOn(R, Nat)
    BY <2>1, Orders!NatLessThanWellFounded
  <2>3. PICK m \in T : \A t \in T : ~(<<t, m>> \in R)
    BY <2>2, Orders!WFMin
  <2>4. \A t \in T : t \in Nat /\ m \in Nat /\ ~(t < m)
    BY <2>3
  <2> QED
    BY <2>4
<1> QED
  BY <1>1 DEF Min

\* The first time of a set of timers.
LEMMA EarliestFacts ==
    ASSUME NEW S, NEW h, S # {}, \A a \in S : h[a].left \in Nat
    PROVE  /\ Earliest(S, h) \in Nat
           /\ \A a \in S : Earliest(S, h) <= h[a].left
           /\ \E a \in S : Earliest(S, h) = h[a].left
<1>1. {h[a].left : a \in S} \subseteq Nat /\ {h[a].left : a \in S} # {}
  OBVIOUS
<1> QED
  BY <1>1, MinFacts DEF Earliest

\* The bounds that the clocks apply.
LEMMA MinMaxOfTwo ==
    ASSUME NEW m \in Int, NEW n \in Int
    PROVE  /\ Min({m, n}) \in Int
           /\ Max({0, n}) \in Nat /\ Max({0, n}) >= n /\ (n <= 0 => Max({0, n}) = 0)
           /\ n >= 0 => Max({0, n}) = n
<1>1. Min({m, n}) \in {m, n}
  <2>1. \E x \in {m, n} : \A y \in {m, n} : x <= y
    OBVIOUS
  <2> QED
    BY <2>1 DEF Min
<1>2. Max({0, n}) \in {0, n} /\ Max({0, n}) >= 0 /\ Max({0, n}) >= n
  <2>1. \E x \in {0, n} : \A y \in {0, n} : x >= y
    OBVIOUS
  <2> QED
    BY <2>1 DEF Max
<1> QED
  BY <1>1, <1>2

\* A timer whose time changes keeps its sequence number.
LEMMA LeftChanges ==
    ASSUME NEW t \in [sequence_ : Nat, left : Nat, interval_ : Nat], NEW n \in Nat
    PROVE  /\ [t EXCEPT !.left = n] \in [sequence_ : Nat, left : Nat, interval_ : Nat]
           /\ [t EXCEPT !.left = n].sequence_ = t.sequence_
           /\ [t EXCEPT !.left = n].left = n
           /\ t = Free /\ n = 0 => [t EXCEPT !.left = n] = Free
<1>1. t = Free /\ n = 0 => [t EXCEPT !.left = n] = Free
  BY DEF Free
<1> QED
  BY <1>1

-----------------------------------------------------------------------------
(* The steps.                                                              *)

\* A step that neither creates nor deletes a timer and moves none.
LEMMA KeepsOwners ==
    ASSUME OwnedInv, CancelInv,
           \A a \in Addr : heap'[a].sequence_ = heap[a].sequence_,
           timers_ \subseteq Addr,
           UNCHANGED <<s_numCreated_, timers_, activeTimers_, callingExpiredTimers_,
                       cancelingTimers_, expired, queued, cancelled>>
    PROVE  OwnedInv' /\ CancelInv'
<1>1. /\ \A a \in Addr : Id(a)' = Id(a) /\ (Live(a)' <=> Live(a))
      /\ Created' = Created
  BY DEF Id, Live, Created
<1>2. Adds(queued)' = Adds(queued) /\ (AddsOnce(queued)' <=> AddsOnce(queued))
  BY DEF Adds, AddsOnce
<1>3. {Id(a) : a \in timers_}' = {Id(a) : a \in timers_}
  BY <1>1
<1>4. OwnedInv'
  <2>1. \A a \in Addr : Live(a)' <=> (a \in timers_ \/ a \in expired \/ Id(a) \in Adds(queued))'
    BY <1>1, <1>2, Zenon DEF OwnedInv
  <2>2. \A id \in Adds(queued)' : \E a \in Addr \ (timers_ \cup expired)' : id = Id(a)'
    BY <1>1, <1>2, Zenon DEF OwnedInv
  <2>3. \A a \in Addr : Live(a)' => Id(a)' \in Created'
    BY <1>1, Zenon DEF OwnedInv
  <2>4. /\ activeTimers_' = {Id(a) : a \in timers_}'
        /\ timers_' \cap expired' = {} /\ AddsOnce(queued)'
        /\ callingExpiredTimers_' \/ expired' = {}
    BY <1>2, <1>3, Zenon DEF OwnedInv
  <2> QED
    BY <2>1, <2>2, <2>3, <2>4, Zenon DEF OwnedInv
<1>5. CancelInv'
  BY <1>1, Zenon DEF CancelInv
<1> QED
  BY <1>4, <1>5

\* At most a tick less is left of a timer, which keeps its sequence number.
TickLess ==
    \A a \in Addr : /\ heap[a].left \in Nat
                    /\ heap'[a].sequence_ = heap[a].sequence_
                    /\ heap'[a].left \in Nat /\ heap'[a].left >= heap[a].left - 1
                    /\ heap'[a] \in [sequence_ : Nat, left : Nat, interval_ : Nat]
                    /\ heap[a] = Free => heap'[a] = Free

\* So it is when time passes and when the wall clock is set forward.
LEMMA LeftFalls == ASSUME TimerTypeOK, Tick \/ ClockForward PROVE TickLess
<1>1. \A a \in Addr : /\ heap'[a] = [heap[a] EXCEPT !.left = Max({0, heap[a].left - 1})]
                      /\ heap[a] \in [sequence_ : Nat, left : Nat, interval_ : Nat]
                      /\ heap[a].left \in Nat
  <2>1. heap' = [a \in Addr |-> [heap[a] EXCEPT !.left = Max({0, @ - 1})]]
    BY DEF Tick, ClockForward
  <2>2. \A a \in Addr : heap'[a] = [heap[a] EXCEPT !.left = Max({0, heap[a].left - 1})]
    BY <2>1, Zenon
  <2>3. \A a \in Addr : /\ heap[a] \in [sequence_ : Nat, left : Nat, interval_ : Nat]
                        /\ heap[a].left \in Nat
    BY DEF TimerTypeOK
  <2> QED
    BY <2>2, <2>3, Zenon
<1>2. \A a \in Addr : /\ Max({0, heap[a].left - 1}) \in Nat
                      /\ Max({0, heap[a].left - 1}) >= heap[a].left - 1
                      /\ heap[a].left = 0 => Max({0, heap[a].left - 1}) = 0
  <2> TAKE a \in Addr
  <2>0. heap[a].left \in Nat
    BY <1>1, Zenon
  <2>1. PICK n \in Int : n = heap[a].left - 1
    BY <2>0
  <2>2. Max({0, n}) \in Nat /\ Max({0, n}) >= n /\ (n <= 0 => Max({0, n}) = 0)
    BY MinMaxOfTwo, Zenon
  <2> QED
    BY <2>1, <2>2
<1>3. \A a \in Addr : /\ heap'[a].sequence_ = heap[a].sequence_
                      /\ heap'[a].left \in Nat /\ heap'[a].left >= heap[a].left - 1
                      /\ heap'[a] \in [sequence_ : Nat, left : Nat, interval_ : Nat]
                      /\ heap[a] = Free => heap'[a] = Free
  <2> TAKE a \in Addr
  <2>1. PICK n \in Nat : n = Max({0, heap[a].left - 1})
    BY <1>2, Zenon
  <2>2. /\ heap'[a] = [heap[a] EXCEPT !.left = n] /\ n >= heap[a].left - 1
        /\ heap[a].left = 0 => n = 0
    BY <1>1, <1>2, <2>1, Zenon
  <2>3. heap[a] = Free => n = 0
    BY <2>2 DEF Free
  <2>4. /\ [heap[a] EXCEPT !.left = n] \in [sequence_ : Nat, left : Nat, interval_ : Nat]
        /\ [heap[a] EXCEPT !.left = n].sequence_ = heap[a].sequence_
        /\ [heap[a] EXCEPT !.left = n].left = n
        /\ heap[a] = Free /\ n = 0 => [heap[a] EXCEPT !.left = n] = Free
    BY <1>1, LeftChanges, Zenon
  <2> QED
    BY <2>2, <2>3, <2>4, Zenon
<1> QED
  BY <1>1, <1>3, Zenon DEF TickLess

\* Time passes, by either clock.
LEMMA TickStep == ASSUME TimerInd, Tick PROVE TimerInd'
<1> USE DEF TimerInd
<1>1. TimerTypeOK
  OBVIOUS
<1>2. \A a \in Addr : /\ heap[a].left \in Nat
                      /\ heap'[a].sequence_ = heap[a].sequence_
                      /\ heap'[a].left \in Nat /\ heap'[a].left >= heap[a].left - 1
                      /\ heap'[a] \in [sequence_ : Nat, left : Nat, interval_ : Nat]
                      /\ heap[a] = Free => heap'[a] = Free
  <2> HIDE DEF TimerInd
  <2>1. TickLess
    BY <1>1, LeftFalls
  <2> QED
    BY <2>1, Zenon DEF TickLess
<1>3. OwnedInv' /\ CancelInv'
  BY <1>2, KeepsOwners DEF Tick, TimerTypeOK, callVars
<1>4. TimerTypeOK'
  <2>1. heap' \in [Addr -> [sequence_ : Nat, left : Nat, interval_ : Nat]]
    BY <1>2 DEF Tick
  <2>2. \A a \in Addr : ~Live(a)' => heap'[a] = Free
    BY <1>2 DEF TimerTypeOK, Live
  <2>3. timerfd' \in Int /\ timerfd' >= -1
    BY DEF Tick, TimerTypeOK
  <2>4. lag' \in Int
    <3>1. lag \in Int /\ lag + 1 \in Int /\ MaxTicks \in Int
      BY TimerAssumption DEF TimerTypeOK
    <3>2. Min({MaxTicks, lag + 1}) \in Int
      BY <3>1, MinMaxOfTwo, Zenon
    <3> QED
      BY <3>1, <3>2, Zenon DEF Tick
  <2>5. UNCHANGED <<callVars, ahead, timers_, expired, queued>>
    BY DEF Tick
  <2> QED
    BY <2>1, <2>2, <2>3, <2>4, <2>5, Zenon DEF TimerTypeOK, callVars
<1>5. InTimeInv'
  <2> SUFFICES ASSUME ~callingExpiredTimers_, timers_ # {}
               PROVE  timerfd' \in Nat /\ \A a \in timers_ : timerfd' <= heap'[a].left + ahead
      BY DEF InTimeInv, Tick
  <2>1. /\ timerfd \in Nat /\ ahead \in Nat
        /\ \A a \in timers_ : timerfd <= heap[a].left + ahead /\ a \in Addr
    BY DEF InTimeInv, TimerTypeOK
  <2>2. timerfd' = IF timerfd > 0 THEN timerfd - 1 ELSE timerfd
    BY DEF Tick
  <2> HIDE DEF TimerInd
  <2> QED
    <3>1. \A a \in timers_ : timerfd <= heap[a].left + ahead /\ heap[a].left \in Nat
                              /\ heap'[a].left \in Nat /\ heap'[a].left >= heap[a].left - 1
      BY <1>2, <2>1, Zenon
    <3> QED
      BY <2>1, <2>2, <3>1
<1> QED
  BY <1>3, <1>4, <1>5

\* The wall clock is set forward: the timers expire sooner, the timerfd does not.
LEMMA ClockForwardStep == ASSUME TimerInd, ClockForward PROVE TimerInd'
<1> USE DEF TimerInd
<1>1. TimerTypeOK
  OBVIOUS
<1>2. \A a \in Addr : /\ heap[a].left \in Nat
                      /\ heap'[a].sequence_ = heap[a].sequence_
                      /\ heap'[a].left \in Nat /\ heap'[a].left >= heap[a].left - 1
                      /\ heap'[a] \in [sequence_ : Nat, left : Nat, interval_ : Nat]
                      /\ heap[a] = Free => heap'[a] = Free
  <2> HIDE DEF TimerInd
  <2>1. TickLess
    BY <1>1, LeftFalls
  <2> QED
    BY <2>1, Zenon DEF TickLess
<1>3. OwnedInv' /\ CancelInv'
  BY <1>2, KeepsOwners DEF ClockForward, TimerTypeOK, callVars
<1>4. TimerTypeOK'
  <2>1. heap' \in [Addr -> [sequence_ : Nat, left : Nat, interval_ : Nat]]
    BY <1>2 DEF ClockForward
  <2>2. \A a \in Addr : ~Live(a)' => heap'[a] = Free
    BY <1>2 DEF TimerTypeOK, Live
  <2>3. timerfd' \in Int /\ timerfd' >= -1 /\ ahead' \in Nat
    BY DEF ClockForward, TimerTypeOK
  <2>4. lag' \in Int
    <3>1. lag \in Int /\ lag + 1 \in Int /\ MaxTicks \in Int
      BY TimerAssumption DEF TimerTypeOK
    <3>2. Min({MaxTicks, lag + 1}) \in Int
      BY <3>1, MinMaxOfTwo, Zenon
    <3> QED
      BY <3>1, <3>2, Zenon DEF ClockForward
  <2>5. UNCHANGED <<callVars, timers_, expired, queued>>
    BY DEF ClockForward
  <2> QED
    BY <2>1, <2>2, <2>3, <2>4, <2>5, Zenon DEF TimerTypeOK, callVars
<1>5. InTimeInv'
  <2> SUFFICES ASSUME ~callingExpiredTimers_, timers_ # {}
               PROVE  /\ timerfd \in Nat
                      /\ \A a \in timers_ : timerfd <= heap'[a].left + (ahead + 1)
      BY DEF InTimeInv, ClockForward
  <2>1. /\ timerfd \in Nat /\ ahead \in Nat
        /\ \A a \in timers_ : timerfd <= heap[a].left + ahead /\ a \in Addr
    BY DEF InTimeInv, TimerTypeOK
  <2> HIDE DEF TimerInd
  <2>2. \A a \in timers_ : timerfd <= heap[a].left + ahead /\ heap[a].left \in Nat
                            /\ heap'[a].left \in Nat /\ heap'[a].left >= heap[a].left - 1
    BY <1>2, <2>1, Zenon
  <2> QED
    BY <2>1, <2>2
<1> QED
  BY <1>3, <1>4, <1>5

\* The wall clock is set back: the timers expire later, the timerfd does not.
LEMMA ClockBackStep == ASSUME TimerInd, ClockBack PROVE TimerInd'
<1> USE DEF TimerInd
<1>1. \A a \in Addr : /\ heap'[a] = IF heap[a] = Free THEN Free
                                    ELSE [heap[a] EXCEPT !.left = heap[a].left + 1]
                      /\ heap[a] \in [sequence_ : Nat, left : Nat, interval_ : Nat]
                      /\ heap[a].left \in Nat
  BY DEF ClockBack, TimerTypeOK
<1>2. \A a \in Addr : /\ heap'[a].sequence_ = heap[a].sequence_
                      /\ heap'[a].left \in Nat /\ heap'[a].left >= heap[a].left
                      /\ heap'[a] \in [sequence_ : Nat, left : Nat, interval_ : Nat]
                      /\ heap[a] = Free => heap'[a] = Free
  <2> TAKE a \in Addr
  <2>1. CASE heap[a] = Free
    <3>1. heap'[a] = Free /\ heap[a].left \in Nat
      BY <1>1, <2>1, Zenon
    <3>2. Free \in [sequence_ : Nat, left : Nat, interval_ : Nat] /\ Free.left >= Free.left
      BY DEF Free
    <3> QED
      BY <2>1, <3>1, <3>2, Zenon
  <2>2. CASE heap[a] # Free
    <3>0. heap[a].left \in Nat /\ heap'[a] = [heap[a] EXCEPT !.left = heap[a].left + 1]
      BY <1>1, <2>2, Zenon
    <3> HIDE DEF TimerInd
    <3>1. PICK n \in Nat : n = heap[a].left + 1 /\ n >= heap[a].left
      <4>1. heap[a].left \in Nat
        BY <3>0
      <4> QED
        BY <4>1
    <3>2. heap'[a] = [heap[a] EXCEPT !.left = n] /\ n >= heap[a].left
      BY <3>0, <3>1, Zenon
    <3>3. /\ [heap[a] EXCEPT !.left = n] \in [sequence_ : Nat, left : Nat, interval_ : Nat]
          /\ [heap[a] EXCEPT !.left = n].sequence_ = heap[a].sequence_
          /\ [heap[a] EXCEPT !.left = n].left = n
      BY <1>1, LeftChanges, Zenon
    <3> QED
      BY <2>2, <3>2, <3>3, Zenon
  <2> QED
    BY <2>1, <2>2
<1>3. OwnedInv' /\ CancelInv'
  BY <1>2, KeepsOwners DEF ClockBack, TimerTypeOK, callVars
<1>4. TimerTypeOK'
  <2>1. heap' \in [Addr -> [sequence_ : Nat, left : Nat, interval_ : Nat]]
    BY <1>2 DEF ClockBack
  <2>2. \A a \in Addr : ~Live(a)' => heap'[a] = Free
    BY <1>2 DEF TimerTypeOK, Live
  <2>3. lag' \in Int
    BY DEF ClockBack, TimerTypeOK
  <2>4. UNCHANGED <<callVars, ahead, timers_, timerfd, expired, queued>>
    BY DEF ClockBack
  <2> QED
    BY <2>1, <2>2, <2>3, <2>4, Zenon DEF TimerTypeOK, callVars
<1>5. InTimeInv'
  BY <1>1, <1>2 DEF ClockBack, InTimeInv, TimerTypeOK
<1> QED
  BY <1>3, <1>4, <1>5

\* poll reports the timerfd, a callback runs, or addTimer returns.
LEMMA QuietStep ==
    ASSUME TimerInd, ids' \subseteq Addr \X Nat, reading' \subseteq reading,
           UNCHANGED <<heap, s_numCreated_, timers_, activeTimers_, timerfd, ahead,
                       callingExpiredTimers_, cancelingTimers_, expired, lag, queued,
                       cancelled>>
    PROVE  TimerInd'
<1> USE DEF TimerInd
<1>1. OwnedInv' /\ CancelInv'
  BY KeepsOwners DEF TimerTypeOK
<1>2. TimerTypeOK' /\ InTimeInv'
  BY DEF TimerTypeOK, InTimeInv, Live
<1> QED
  BY <1>1, <1>2

\* addTimerInLoop keeps the timerfd in time.
LEMMA InsertInTime ==
    ASSUME InTimeInv, NEW a, NEW h,
           timerfd \in Int, timerfd >= -1, ahead \in Nat,
           \A b \in timers_ \cup {a} : h[b].left \in Nat,
           \A b \in timers_ : h[b].left = heap[b].left,
           addTimerInLoop(a, h)
    PROVE  /\ ~callingExpiredTimers_ =>
                  timerfd' \in Nat /\ \A b \in timers_ \cup {a} : timerfd' <= h[b].left + ahead'
           /\ timerfd' \in Int /\ timerfd' >= -1 /\ ahead' \in Nat
<1>1. timers_ # {} => /\ Earliest(timers_, h) \in Nat
                      /\ \A b \in timers_ : Earliest(timers_, h) <= h[b].left
                      /\ \E b \in timers_ : Earliest(timers_, h) = h[b].left
  BY EarliestFacts
<1>2. CASE earliestChanged(a, h)
  <2>1. /\ timerfd' = h[a].left /\ ahead' = 0
        /\ timers_ = {} \/ h[a].left < Earliest(timers_, h)
    BY <1>2 DEF earliestChanged, addTimerInLoop
  <2> QED
    BY <1>1, <2>1
<1>3. CASE ~earliestChanged(a, h)
  <2>1. /\ timerfd' = timerfd /\ ahead' = ahead
        /\ timers_ # {} /\ ~(h[a].left < Earliest(timers_, h))
    BY <1>3 DEF earliestChanged, addTimerInLoop
  <2>2. ~callingExpiredTimers_ =>
            timerfd \in Nat /\ \A b \in timers_ : timerfd <= h[b].left + ahead
    BY <2>1 DEF InTimeInv
  <2> QED
    BY <1>1, <2>1, <2>2
<1> QED
  BY <1>2, <1>3

\* addTimer, in the loop or queued for it.
LEMMA AddTimerStep ==
    ASSUME TimerInd, NEW a \in Addr, NEW n \in 0..MaxTicks, NEW i \in 0..1, AddTimer(a, n, i)
    PROVE  TimerInd'
<1> USE DEF TimerInd
<1> DEFINE id == <<a, s_numCreated_ + 1>>
<1> DEFINE h == [heap EXCEPT ![a] = NewTimer(n, i)]
<1>1. /\ heap[a] = Free /\ s_numCreated_' = s_numCreated_ + 1 /\ heap' = h
      /\ ids' \subseteq ids \cup {id} /\ reading' \subseteq reading \cup {id}
      /\ UNCHANGED <<callingExpiredTimers_, cancelingTimers_, expired, lag, cancelled>>
  BY DEF AddTimer, addTimerInLoop
<1>2. expired' = expired
  BY <1>1
<1>3. /\ s_numCreated_ \in Nat /\ s_numCreated_' \in Nat
      /\ id \notin Created /\ id \in Created' /\ Created \subseteq Created'
      /\ ids' \subseteq Addr \X Nat /\ reading' \subseteq Addr \X Nat
  BY <1>1 DEF TimerTypeOK, Created
<1>4. n \in Nat /\ i \in Nat
  BY TimerAssumption
<1>5. /\ h \in [Addr -> [sequence_ : Nat, left : Nat, interval_ : Nat]]
      /\ h[a].sequence_ = s_numCreated_ + 1 /\ h[a].left = n
      /\ \A b \in Addr \ {a} : h[b] = heap[b]
  BY <1>3, <1>4 DEF NewTimer, TimerTypeOK
<1>6. \A b \in Addr : h[b].left \in Nat
  BY <1>5
<1> HIDE DEF h
<1>7. /\ Id(a)' = id /\ Live(a)' /\ id \in Addr \X Nat
      /\ \A b \in Addr \ {a} : Id(b)' = Id(b) /\ (Live(b)' <=> Live(b)) /\ Id(b) # id
  BY <1>1, <1>3, <1>5 DEF Id, Live
<1>8. ~Live(a)
  BY <1>1 DEF Live, Free
<1>9. /\ a \notin timers_ /\ a \notin expired /\ a \notin {b \in Addr : Id(b) \in Adds(queued)}
      /\ \A x \in Adds(queued) : \E b \in Addr \ (timers_ \cup expired) : x = Id(b) /\ b # a
  <2>1. a \notin timers_ /\ a \notin expired /\ Id(a) \notin Adds(queued)
    BY <1>8 DEF OwnedInv
  <2> QED
    BY <2>1 DEF OwnedInv
<1>10. id \notin Adds(queued)
  BY <1>7, <1>9, Zenon
<1> HIDE DEF id
<1>11. CancelInv'
  <2>1. cancelled' \subseteq Created' /\ id \notin cancelled'
    BY <1>1, <1>3 DEF CancelInv
  <2> QED
    BY <1>1, <1>7, <2>1, Zenon DEF CancelInv
<1>12. \A b \in Addr : Live(b)' => Id(b)' \in Created'
  BY <1>3, <1>7, Zenon DEF OwnedInv
<1>13. \A b \in Addr : ~Live(b)' => heap'[b] = Free
  BY <1>1, <1>5, <1>7, Zenon DEF TimerTypeOK
<1>14. CASE addTimerInLoop(a, h) /\ UNCHANGED queued
  <2>1. /\ timers_' = timers_ \cup {a} /\ activeTimers_' = activeTimers_ \cup {id}
        /\ queued' = queued
    BY <1>5, <1>14 DEF addTimerInLoop, id
  <2>2. Adds(queued)' = Adds(queued) /\ (AddsOnce(queued)' <=> AddsOnce(queued))
    BY <2>1 DEF Adds, AddsOnce
  <2>3. /\ ~callingExpiredTimers_ =>
               timerfd' \in Nat /\ \A b \in timers_ \cup {a} : timerfd' <= h[b].left + ahead'
        /\ timerfd' \in Int /\ timerfd' >= -1 /\ ahead' \in Nat
    <3>1. /\ timerfd \in Int /\ timerfd >= -1 /\ ahead \in Nat
          /\ \A b \in timers_ \cup {a} : h[b].left \in Nat
          /\ \A b \in timers_ : h[b].left = heap[b].left
      BY <1>5, <1>6, <1>9 DEF TimerTypeOK
    <3> QED
      BY <1>14, <3>1, InsertInTime, Zenon
  <2>4. TimerTypeOK'
    <3>1. timers_' \subseteq Addr
      BY <2>1 DEF TimerTypeOK
    <3> QED
      BY <1>1, <1>3, <1>5, <1>13, <2>1, <2>3, <3>1, Zenon DEF TimerTypeOK
  <2>5. InTimeInv'
    BY <1>1, <2>1, <2>3, Zenon DEF InTimeInv
  <2>6. OwnedInv'
    <3>1. activeTimers_' = {Id(b)' : b \in timers_'}
      <4>1. activeTimers_ = {Id(b) : b \in timers_} /\ timers_ \subseteq Addr \ {a}
        BY <1>9 DEF OwnedInv, TimerTypeOK
      <4>2. \A b \in timers_ : Id(b)' = Id(b)
        BY <1>7, <4>1
      <4> QED
        BY <1>7, <2>1, <4>1, <4>2
    <3>2. timers_' \cap expired' = {} /\ AddsOnce(queued)'
      BY <1>1, <1>9, <2>1, <2>2 DEF OwnedInv
    <3>3. \A b \in Addr : Live(b)' <=> (b \in timers_ \/ b \in expired \/ Id(b) \in Adds(queued))'
      BY <1>2, <1>7, <2>1, <2>2, Zenon DEF OwnedInv
    <3>4. \A x \in Adds(queued)' : \E b \in Addr \ (timers_ \cup expired)' : x = Id(b)'
      BY <1>2, <1>7, <1>9, <2>1, <2>2, Zenon
    <3> QED
      BY <1>1, <1>12, <3>1, <3>2, <3>3, <3>4, Zenon DEF OwnedInv
  <2> QED
    BY <1>11, <2>4, <2>5, <2>6
<1>15. CASE /\ queued' = Append(queued, <<"add", id>>)
            /\ UNCHANGED <<timers_, activeTimers_, timerfd, ahead>>
  <2>1. /\ queued' \in Seq(Call) /\ Adds(queued)' = Adds(queued) \cup {id}
        /\ AddsOnce(queued)'
    <3>1. queued \in Seq(Call) /\ AddsOnce(queued)
      BY DEF TimerTypeOK, OwnedInv
    <3>2. /\ queued' \in Seq(Call) /\ Adds(queued') = Adds(queued) \cup {id}
          /\ AddsOnce(queued')
      BY <1>7, <1>10, <1>15, <3>1, AddsAppend, Zenon
    <3> QED
      BY <3>2 DEF Adds, AddsOnce
  <2>2. TimerTypeOK'
    BY <1>1, <1>3, <1>5, <1>13, <1>15, <2>1, Zenon DEF TimerTypeOK
  <2>3. InTimeInv'
    <3>1. \A b \in timers_ : heap'[b] = heap[b]
      BY <1>1, <1>5, <1>9 DEF TimerTypeOK
    <3> QED
      BY <1>1, <1>15, <3>1, Zenon DEF InTimeInv
  <2>4. OwnedInv'
    <3>1. activeTimers_' = {Id(b)' : b \in timers_'}
      <4>1. activeTimers_ = {Id(b) : b \in timers_} /\ timers_ \subseteq Addr \ {a}
        BY <1>9 DEF OwnedInv, TimerTypeOK
      <4>2. \A b \in timers_ : Id(b)' = Id(b)
        BY <1>7, <4>1
      <4> QED
        BY <1>15, <4>1, <4>2
    <3>2. timers_' \cap expired' = {}
      BY <1>1, <1>15 DEF OwnedInv
    <3>3. \A b \in Addr : Live(b)' <=> (b \in timers_ \/ b \in expired \/ Id(b) \in Adds(queued))'
      BY <1>2, <1>7, <1>15, <2>1, Zenon DEF OwnedInv
    <3>4. \A x \in Adds(queued)' : \E b \in Addr \ (timers_ \cup expired)' : x = Id(b)'
      BY <1>2, <1>7, <1>9, <1>15, <2>1, Zenon
    <3> QED
      BY <1>1, <1>12, <2>1, <3>1, <3>2, <3>3, <3>4, Zenon DEF OwnedInv
  <2> QED
    BY <1>11, <2>2, <2>3, <2>4
<1> QED
  BY <1>14, <1>15 DEF AddTimer, id, h

\* cancelInLoop, called or run from the queue.
LEMMA CancelStep ==
    ASSUME TimerInd, NEW id, cancelInLoop(id),
           UNCHANGED <<callVars, callingExpiredTimers_, expired, lag>>,
           queued' \in Seq(Call), Adds(queued') = Adds(queued), AddsOnce(queued')
    PROVE  TimerInd'
<1> USE DEF TimerInd
<1>1. UNCHANGED <<s_numCreated_, ids, reading, timerfd, ahead>> /\ Created' = Created
  BY DEF callVars, cancelInLoop, Created
<1>2. Adds(queued)' = Adds(queued) /\ AddsOnce(queued)'
  BY DEF Adds, AddsOnce
<1>3. \A b \in Addr : Live(b) /\ Id(b) \in cancelled' => Id(b) \in cancelled \/ Id(b) = id
  BY DEF cancelInLoop
<1>4. cancelled' \subseteq Created
  <2>1. \A b \in timers_ \cup expired : Id(b) \in Created
    BY DEF OwnedInv, TimerTypeOK
  <2>2. activeTimers_ \cup {Id(b) : b \in expired} \subseteq Created
    BY <2>1 DEF OwnedInv
  <2> QED
    BY <2>2 DEF cancelInLoop, CancelInv
<1>5. CASE Find(id) # {}
  <2>1. /\ timers_' = timers_ \ {id[1]} /\ activeTimers_' = activeTimers_ \ Find(id)
        /\ heap' = Deleted(id) /\ cancelingTimers_' = cancelingTimers_
    BY <1>5 DEF cancelInLoop
  <2>2. id \in activeTimers_ /\ Find(id) = {id}
    BY <1>5 DEF Find
  <2>3. PICK a \in timers_ : id = Id(a)
    BY <2>2 DEF OwnedInv
  <2>4. a \in Addr /\ id[1] = a /\ heap' = [heap EXCEPT ![a] = Free]
    BY <2>1, <2>3 DEF Id, TimerTypeOK, Deleted
  <2>5. /\ heap' \in [Addr -> [sequence_ : Nat, left : Nat, interval_ : Nat]]
        /\ heap'[a] = Free /\ \A b \in Addr \ {a} : heap'[b] = heap[b]
    BY <2>4 DEF TimerTypeOK, Free
  <2>6. /\ ~Live(a)' /\ \A b \in Addr \ {a} : Id(b)' = Id(b) /\ (Live(b)' <=> Live(b))
        /\ \A b \in Addr \ {a} : Id(b) # id /\ Id(b) # Id(a)'
    BY <2>3, <2>5 DEF Live, Id, Free
  <2>7. Id(a)' \notin Adds(queued) /\ a \notin expired
    <3>1. \A x \in Adds(queued) : \E b \in Addr \ {a} : x = Id(b)
      BY <2>3 DEF OwnedInv
    <3> QED
      BY <2>3, <2>6, <3>1 DEF OwnedInv
  <2>8. TimerTypeOK'
    <3>1. \A b \in Addr : ~Live(b)' => heap'[b] = Free
      BY <2>5, <2>6, Zenon DEF TimerTypeOK
    <3>2. timers_' \subseteq Addr
      BY <2>1 DEF TimerTypeOK
    <3> QED
      BY <1>1, <2>5, <3>1, <3>2, Zenon DEF TimerTypeOK
  <2>9. InTimeInv'
    <3>1. \A b \in timers_' : b \in timers_ /\ heap'[b] = heap[b]
      BY <2>1, <2>4, <2>5 DEF TimerTypeOK
    <3>2. timers_' # {} => timers_ # {}
      BY <3>1
    <3> QED
      BY <1>1, <3>1, <3>2, Zenon DEF InTimeInv
  <2>10. OwnedInv'
    <3>1. activeTimers_' = {Id(b)' : b \in timers_'}
      <4>1. \A b \in timers_' : Id(b)' = Id(b) /\ b \in timers_ /\ Id(b) # id
        BY <2>1, <2>4, <2>6 DEF TimerTypeOK
      <4>2. \A b \in timers_ : b = a \/ b \in timers_'
        BY <2>1, <2>4
      <4>3. activeTimers_ = {Id(b) : b \in timers_} /\ activeTimers_' = activeTimers_ \ {id}
        BY <2>1, <2>2 DEF OwnedInv
      <4> QED
        BY <2>3, <4>1, <4>2, <4>3
    <3>2. timers_' \cap expired' = {}
      BY <2>1 DEF OwnedInv
    <3>3. \A b \in Addr : Live(b)' <=> (b \in timers_ \/ b \in expired \/ Id(b) \in Adds(queued))'
      BY <1>2, <2>1, <2>4, <2>6, <2>7 DEF OwnedInv
    <3>4. \A x \in Adds(queued)' : \E b \in Addr \ (timers_ \cup expired)' : x = Id(b)'
      <4> SUFFICES ASSUME NEW x \in Adds(queued)
                   PROVE  \E b \in Addr \ (timers_ \cup expired)' : x = Id(b)'
          BY <1>2
      <4>1. PICK b \in Addr \ (timers_ \cup expired) : x = Id(b)
        BY DEF OwnedInv
      <4>2. b # a /\ b \notin timers_' /\ b \notin expired'
        BY <2>1, <2>3, <4>1
      <4> QED
        BY <2>6, <4>1, <4>2, Zenon
    <3>5. \A b \in Addr : Live(b)' => Id(b)' \in Created'
      BY <1>1, <2>6, Zenon DEF OwnedInv
    <3> QED
      BY <1>2, <3>1, <3>2, <3>3, <3>4, <3>5, Zenon DEF OwnedInv
  <2>11. CancelInv'
    BY <1>1, <1>3, <1>4, <2>1, <2>6, Zenon DEF CancelInv
  <2> QED
    BY <2>8, <2>9, <2>10, <2>11
<1>6. CASE Find(id) = {}
  <2>1. /\ cancelingTimers_' = Canceling(id)
        /\ UNCHANGED <<timers_, activeTimers_, heap>>
    BY <1>6 DEF cancelInLoop
  <2>2. TimerTypeOK' /\ InTimeInv'
    BY <1>1, <2>1 DEF TimerTypeOK, InTimeInv, Live
  <2>3. \A b \in Addr : Id(b)' = Id(b) /\ (Live(b)' <=> Live(b))
    BY <2>1 DEF Id, Live
  <2>4. OwnedInv'
    BY <1>1, <1>2, <2>1, <2>3 DEF OwnedInv, TimerTypeOK
  <2>5. CancelInv'
    <3> SUFFICES ASSUME NEW b \in Addr, Live(b), Id(b) \in cancelled'
                 PROVE  b \in expired /\ Id(b) \in cancelingTimers_'
        BY <1>1, <1>4, <2>3, Zenon DEF CancelInv
    <3>1. CASE Id(b) \in cancelled
      BY <2>1, <3>1 DEF CancelInv, Canceling
    <3>2. CASE Id(b) = id /\ id \notin cancelled
      <4>1. id \notin activeTimers_ /\ id \in {Id(a) : a \in expired}
        BY <1>6, <3>2 DEF cancelInLoop, Find
      <4>2. PICK a \in expired : Id(a) = Id(b)
        BY <3>2, <4>1
      <4>3. b \in expired /\ callingExpiredTimers_
        BY <4>2 DEF Id, OwnedInv
      <4> QED
        BY <2>1, <3>2, <4>3 DEF Canceling
    <3> QED
      BY <1>3, <3>1, <3>2
  <2> QED
    BY <2>2, <2>4, <2>5
<1> QED
  BY <1>5, <1>6

\* addTimerInLoop, run from the queue.
LEMMA QueuedAddStep ==
    ASSUME TimerInd, queued # <<>>, Head(queued)[1] = "add", queued' = Tail(queued),
           ~callingExpiredTimers_, addTimerInLoop(Head(queued)[2][1], heap),
           UNCHANGED <<callVars, callingExpiredTimers_, cancelingTimers_, expired, lag,
                       cancelled>>
    PROVE  TimerInd'
<1> USE DEF TimerInd
<1>1. /\ queued' \in Seq(Call) /\ AddsOnce(queued') /\ Head(queued)[2] \in Adds(queued)
      /\ Adds(queued') = Adds(queued) \ {Head(queued)[2]}
  BY AddsTail DEF TimerTypeOK, OwnedInv
<1>2. PICK a \in Addr \ (timers_ \cup expired) : Head(queued)[2] = Id(a)
  BY <1>1 DEF OwnedInv
<1>3. /\ timers_' = timers_ \cup {a} /\ activeTimers_' = activeTimers_ \cup {Id(a)}
      /\ heap' = heap /\ addTimerInLoop(a, heap)
      /\ UNCHANGED <<s_numCreated_, ids, reading>> /\ Created' = Created
  BY <1>2 DEF addTimerInLoop, Id, callVars, Created
<1>4. /\ Adds(queued)' = Adds(queued) \ {Id(a)} /\ Id(a) \in Adds(queued)
      /\ AddsOnce(queued)'
  BY <1>1, <1>2 DEF Adds, AddsOnce
<1>5. \A b \in Addr : /\ Id(b)' = Id(b) /\ (Live(b)' <=> Live(b))
                      /\ Id(b) = Id(a) => b = a
  BY <1>3 DEF Id, Live
<1>6. /\ ~callingExpiredTimers_ =>
             timerfd' \in Nat /\ \A b \in timers_ \cup {a} : timerfd' <= heap[b].left + ahead'
      /\ timerfd' \in Int /\ timerfd' >= -1 /\ ahead' \in Nat
  <2>1. /\ timerfd \in Int /\ timerfd >= -1 /\ ahead \in Nat
        /\ \A b \in timers_ \cup {a} : heap[b].left \in Nat
    BY DEF TimerTypeOK
  <2> QED
    BY <1>3, <2>1, InsertInTime, Zenon
<1>7. TimerTypeOK'
  <2>1. timers_' \subseteq Addr
    BY <1>3 DEF TimerTypeOK
  <2> QED
    BY <1>1, <1>3, <1>5, <1>6, <2>1, Zenon DEF TimerTypeOK
<1>8. InTimeInv'
  BY <1>3, <1>6, Zenon DEF InTimeInv
<1>9. CancelInv'
  BY <1>3, <1>5, Zenon DEF CancelInv
<1>10. OwnedInv'
  <2>1. activeTimers_' = {Id(b)' : b \in timers_'}
    <3>1. activeTimers_ = {Id(b) : b \in timers_} /\ \A b \in timers_' : Id(b)' = Id(b)
      BY <1>3, <1>5 DEF OwnedInv, TimerTypeOK
    <3> QED
      BY <1>3, <3>1
  <2>2. timers_' \cap expired' = {} /\ (callingExpiredTimers_' \/ expired' = {})
    BY <1>3 DEF OwnedInv
  <2>3. \A b \in Addr : Live(b)' <=> (b \in timers_ \/ b \in expired \/ Id(b) \in Adds(queued))'
    BY <1>3, <1>4, <1>5 DEF OwnedInv
  <2>4. \A x \in Adds(queued)' : \E b \in Addr \ (timers_ \cup expired)' : x = Id(b)'
    <3> SUFFICES ASSUME NEW x \in Adds(queued), x # Id(a)
                 PROVE  \E b \in Addr \ (timers_ \cup expired)' : x = Id(b)'
        BY <1>4
    <3>1. PICK b \in Addr \ (timers_ \cup expired) : x = Id(b)
      BY DEF OwnedInv
    <3>2. b # a /\ b \notin timers_' /\ b \notin expired'
      BY <1>3, <3>1
    <3> QED
      BY <1>5, <3>1, <3>2, Zenon
  <2>5. \A b \in Addr : Live(b)' => Id(b)' \in Created'
    BY <1>3, <1>5, Zenon DEF OwnedInv
  <2> QED
    BY <1>4, <2>1, <2>2, <2>3, <2>4, <2>5, Zenon DEF OwnedInv
<1> QED
  BY <1>7, <1>8, <1>9, <1>10

\* The batch of expired timers leaves the sets.
LEMMA BeginStep == ASSUME TimerInd, HandleReadBegins PROVE TimerInd'
<1> USE DEF TimerInd
<1>1. /\ expired' = {a \in timers_ : heap[a].left = 0} /\ timers_' = timers_ \ expired'
      /\ activeTimers_' = activeTimers_ \ {Id(a) : a \in expired'}
      /\ callingExpiredTimers_' /\ expired = {}
      /\ timerfd' = (IF timerfd = 0 THEN Disarmed ELSE timerfd) /\ lag' = 0
      /\ UNCHANGED <<heap, s_numCreated_, ids, reading, ahead, queued, cancelled>>
  BY DEF HandleReadBegins, OwnedInv, callVars
<1>2. /\ Adds(queued)' = Adds(queued) /\ (AddsOnce(queued)' <=> AddsOnce(queued))
      /\ Created' = Created
  BY <1>1 DEF Adds, AddsOnce, Created
<1>3. \A b \in Addr : Id(b)' = Id(b) /\ (Live(b)' <=> Live(b))
  BY <1>1 DEF Id, Live
<1>4. expired' \subseteq timers_ /\ timers_ \subseteq Addr /\ timers_' \cup expired' = timers_
  BY <1>1 DEF TimerTypeOK
<1>5. TimerTypeOK' /\ InTimeInv'
  BY <1>1, <1>2, <1>4 DEF TimerTypeOK, InTimeInv, Live, Disarmed
<1>6. CancelInv'
  BY <1>1, <1>2, <1>3 DEF CancelInv
<1>7. OwnedInv'
  <2>1. activeTimers_' = {Id(b)' : b \in timers_'}
    <3>1. \A b \in timers_' : Id(b)' = Id(b) /\ b \in timers_ /\ \A c \in expired' : Id(c) # Id(b)
      BY <1>1, <1>3, <1>4 DEF Id
    <3>2. activeTimers_ = {Id(b) : b \in timers_} /\ \A b \in timers_ : b \in timers_' \/ b \in expired'
      BY <1>1 DEF OwnedInv
    <3> QED
      BY <1>1, <3>1, <3>2
  <2>2. timers_' \cap expired' = {} /\ (callingExpiredTimers_' \/ expired' = {})
    BY <1>1
  <2>3. \A b \in Addr : Live(b)' <=> (b \in timers_ \/ b \in expired \/ Id(b) \in Adds(queued))'
    <3>1. \A b : b \in timers_' \/ b \in expired' <=> b \in timers_ \/ b \in expired
      BY <1>1, <1>4
    <3> QED
      BY <1>2, <1>3, <3>1, Zenon DEF OwnedInv
  <2>4. \A x \in Adds(queued)' : \E b \in Addr \ (timers_ \cup expired)' : x = Id(b)'
    BY <1>1, <1>2, <1>3, <1>4 DEF OwnedInv
  <2>5. \A b \in Addr : Live(b)' => Id(b)' \in Created'
    BY <1>2, <1>3, Zenon DEF OwnedInv
  <2>6. AddsOnce(queued)'
    BY <1>2 DEF OwnedInv
  <2> QED
    BY <2>1, <2>2, <2>3, <2>4, <2>5, <2>6, Zenon DEF OwnedInv
<1> QED
  BY <1>5, <1>6, <1>7

\* reset(): the batch is restarted or deleted.
LEMMA EndStep == ASSUME TimerInd, HandleReadEnds PROVE TimerInd'
<1> USE DEF TimerInd
<1> DEFINE R == {a \in expired : Restarted(a)}
<1> DEFINE n(a) == Max({0, heap[a].interval_ - lag})
<1>1. /\ heap' = [a \in Addr |-> IF a \notin expired THEN heap[a]
                                 ELSE IF a \in R THEN [heap[a] EXCEPT !.left = n(a)] ELSE Free]
      /\ timers_' = timers_ \cup R /\ activeTimers_' = activeTimers_ \cup {Id(a) : a \in R}
      /\ timerfd' = ResetTimerfd(timers_', heap') /\ ~callingExpiredTimers_' /\ lag' = 0
      /\ ahead' = (IF timers_' = {} THEN ahead ELSE 0)
      /\ expired' = {}
      /\ UNCHANGED <<s_numCreated_, ids, reading, cancelingTimers_, queued, cancelled>>
  BY DEF HandleReadEnds, callVars
<1>2. \A a \in R : a \in expired /\ Id(a) \notin cancelingTimers_
  BY DEF Restarted
<1>3. R \subseteq expired /\ expired \subseteq Addr /\ timers_ \subseteq Addr
  BY DEF TimerTypeOK
<1>4. ASSUME NEW a \in Addr PROVE n(a) \in Nat
  <2>1. heap[a].interval_ \in Nat /\ lag \in Int
    BY DEF TimerTypeOK
  <2>2. PICK k \in Int : k = heap[a].interval_ - lag
    BY <2>1
  <2>3. Max({0, k}) \in Nat
    BY MinMaxOfTwo, Zenon
  <2> QED
    BY <2>2, <2>3
<1> HIDE DEF R, n
<1>5. ASSUME NEW a \in Addr
      PROVE  /\ heap'[a] \in [sequence_ : Nat, left : Nat, interval_ : Nat]
             /\ a \notin expired \/ a \in R => heap'[a].sequence_ = heap[a].sequence_
             /\ a \in expired /\ a \notin R => heap'[a] = Free
             /\ a \notin expired => heap'[a] = heap[a]
  <2>1. heap[a] \in [sequence_ : Nat, left : Nat, interval_ : Nat]
    BY DEF TimerTypeOK
  <2>2. /\ a \notin expired => heap'[a] = heap[a]
        /\ a \in expired /\ a \in R => heap'[a] = [heap[a] EXCEPT !.left = n(a)]
        /\ a \in expired /\ a \notin R => heap'[a] = Free
    BY <1>1, Zenon
  <2>3. /\ [heap[a] EXCEPT !.left = n(a)] \in [sequence_ : Nat, left : Nat, interval_ : Nat]
        /\ [heap[a] EXCEPT !.left = n(a)].sequence_ = heap[a].sequence_
    BY <1>4, <2>1, LeftChanges, Zenon
  <2>4. Free \in [sequence_ : Nat, left : Nat, interval_ : Nat]
    BY DEF Free
  <2>5. a \in R => a \in expired
    BY <1>3
  <2> QED
    BY <2>1, <2>2, <2>3, <2>4, <2>5, Zenon
<1>6. ASSUME NEW a \in Addr
      PROVE  /\ a \notin expired \/ a \in R => Id(a)' = Id(a) /\ (Live(a)' <=> Live(a))
             /\ a \in expired /\ a \notin R => ~Live(a)'
             /\ \A b \in Addr \ {a} : Id(b) # Id(a)'
  BY <1>5 DEF Id, Live, Free
<1>7. /\ Adds(queued)' = Adds(queued) /\ (AddsOnce(queued)' <=> AddsOnce(queued))
      /\ Created' = Created
  BY <1>1 DEF Adds, AddsOnce, Created
<1>8. /\ \A x \in Adds(queued) : \E b \in Addr \ (timers_ \cup expired) : x = Id(b)
      /\ \A b \in expired : Live(b)
  BY <1>3 DEF OwnedInv
<1>9. heap' \in [Addr -> [sequence_ : Nat, left : Nat, interval_ : Nat]]
      /\ timers_' \subseteq Addr
  BY <1>1, <1>3, <1>5
<1>10. /\ timers_' # {} =>
              timerfd' \in Nat /\ \A a \in timers_' : timerfd' <= heap'[a].left + ahead'
       /\ timerfd' \in Int /\ timerfd' >= -1 /\ ahead' \in Nat
  <2>1. \A a \in timers_' : heap'[a].left \in Nat
    BY <1>9
  <2>2. timers_' # {} => /\ timerfd' = Earliest(timers_', heap') /\ timerfd' \in Nat
                         /\ \A a \in timers_' : timerfd' <= heap'[a].left
    BY <1>1, <2>1, EarliestFacts, Zenon DEF ResetTimerfd
  <2>3. timers_' = {} => timerfd' = timerfd
    BY <1>1, Zenon DEF ResetTimerfd
  <2>4. timerfd \in Int /\ timerfd >= -1 /\ ahead \in Nat
    BY DEF TimerTypeOK
  <2>5. ahead' = IF timers_' = {} THEN ahead ELSE 0
    BY <1>1
  <2> HIDE DEF TimerInd
  <2> QED
    BY <2>1, <2>2, <2>3, <2>4, <2>5
<1>11. TimerTypeOK' /\ InTimeInv'
  <2>1. \A a \in Addr : ~Live(a)' => heap'[a] = Free
    BY <1>5, <1>6, <1>8, Zenon DEF TimerTypeOK
  <2>2. expired' \subseteq Addr /\ lag' \in Int
    BY <1>1
  <2>3. TimerTypeOK'
    BY <1>1, <1>7, <1>9, <1>10, <2>1, <2>2, Zenon DEF TimerTypeOK
  <2> QED
    BY <1>10, <2>3, Zenon DEF InTimeInv
<1>12. CancelInv'
  <2> SUFFICES ASSUME NEW a \in Addr, Live(a)', Id(a)' \in cancelled
               PROVE  FALSE
      BY <1>1, <1>7, Zenon DEF CancelInv
  <2>1. (a \notin expired \/ a \in R) /\ Id(a)' = Id(a) /\ Live(a)
    BY <1>6, Zenon
  <2> QED
    BY <1>2, <2>1 DEF CancelInv
<1>13. OwnedInv'
  <2>1. activeTimers_' = {Id(b)' : b \in timers_'}
    <3>1. \A b \in timers_' : Id(b)' = Id(b)
      BY <1>1, <1>3, <1>6 DEF OwnedInv
    <3>2. activeTimers_ = {Id(b) : b \in timers_}
      BY DEF OwnedInv
    <3> QED
      BY <1>1, <3>1, <3>2
  <2>2. timers_' \cap expired' = {} /\ (callingExpiredTimers_' \/ expired' = {})
    BY <1>1
  <2>3. ASSUME NEW b \in Addr
        PROVE  Live(b)' <=> (b \in timers_ \/ b \in expired \/ Id(b) \in Adds(queued))'
    <3>1. CASE b \notin expired
      BY <1>1, <1>3, <1>6, <1>7, <3>1 DEF OwnedInv
    <3>2. CASE b \in R
      BY <1>1, <1>3, <1>6, <1>8, <3>2
    <3>3. CASE b \in expired /\ b \notin R
      <4>1. ~Live(b)' /\ b \notin timers_' /\ b \notin expired'
        BY <1>1, <1>6, <3>3 DEF OwnedInv
      <4>2. Id(b)' \notin Adds(queued)
        BY <1>6, <1>8, <3>3, Zenon
      <4> QED
        BY <1>7, <4>1, <4>2
    <3> QED
      BY <3>1, <3>2, <3>3
  <2>4. \A x \in Adds(queued)' : \E b \in Addr \ (timers_ \cup expired)' : x = Id(b)'
    <3> SUFFICES ASSUME NEW x \in Adds(queued)
                 PROVE  \E b \in Addr \ (timers_ \cup expired)' : x = Id(b)'
        BY <1>7
    <3>1. PICK b \in Addr \ (timers_ \cup expired) : x = Id(b)
      BY <1>8
    <3>2. b \notin timers_' /\ b \notin expired'
      BY <1>1, <1>3, <3>1
    <3> QED
      BY <1>6, <3>1, <3>2
  <2>5. \A b \in Addr : Live(b)' => Id(b)' \in Created'
    BY <1>6, <1>7, Zenon DEF OwnedInv
  <2>6. AddsOnce(queued)'
    BY <1>7 DEF OwnedInv
  <2> QED
    BY <2>1, <2>2, <2>3, <2>4, <2>5, <2>6, Zenon DEF OwnedInv
<1> QED
  BY <1>11, <1>12, <1>13

\* Every step of the timer queue.
LEMMA TimerStep == TimerInd /\ [TimerNext]_timerVars => TimerInd'
<1> SUFFICES ASSUME TimerInd, [TimerNext]_timerVars PROVE TimerInd'
    OBVIOUS
<1>1. CASE UNCHANGED timerVars
  BY <1>1, QuietStep DEF timerVars, callVars, TimerInd, TimerTypeOK
<1>2. ASSUME NEW a \in Addr, NEW n \in 0..MaxTicks, NEW i \in 0..1, AddTimer(a, n, i)
      PROVE  TimerInd'
  BY <1>2, AddTimerStep
<1>3. ASSUME NEW id \in ids, Cancel(id) PROVE TimerInd'
  <2>1. queued \in Seq(Call) /\ id \in Addr \X Nat /\ AddsOnce(queued)
    BY DEF TimerInd, TimerTypeOK, OwnedInv
  <2>2. /\ UNCHANGED <<callVars, callingExpiredTimers_, expired, lag>>
        /\ UNCHANGED <<s_numCreated_, ids, reading>> /\ Created' = Created
    BY <1>3 DEF Cancel, callVars, Created
  <2>3. CASE cancelInLoop(id) /\ UNCHANGED queued
    BY <2>1, <2>2, <2>3, CancelStep
  <2>4. CASE /\ queued' = Append(queued, <<"cancel", id>>)
             /\ UNCHANGED <<heap, timers_, activeTimers_, timerfd, ahead,
                            cancelingTimers_, cancelled>>
    <3>1. queued' \in Seq(Call) /\ Adds(queued') = Adds(queued) /\ AddsOnce(queued')
      BY <2>1, <2>4, AddsAppend, Zenon
    <3>2. Adds(queued)' = Adds(queued) /\ AddsOnce(queued)'
      BY <3>1 DEF Adds, AddsOnce
    <3>3. \A b \in Addr : Id(b)' = Id(b) /\ (Live(b)' <=> Live(b))
      BY <2>4 DEF Id, Live
    <3>4. TimerTypeOK' /\ InTimeInv'
      BY <2>2, <2>4, <3>1 DEF TimerInd, TimerTypeOK, InTimeInv, Live
    <3>5. OwnedInv' /\ CancelInv'
      <4>1. {Id(b)' : b \in timers_'} = {Id(b) : b \in timers_}
        BY <2>4, <3>3 DEF TimerInd, TimerTypeOK
      <4>2. \A b \in Addr : Live(b)' <=> (b \in timers_ \/ b \in expired \/ Id(b) \in Adds(queued))'
        BY <2>2, <2>4, <3>2, <3>3, Zenon DEF TimerInd, OwnedInv
      <4>3. \A x \in Adds(queued)' : \E b \in Addr \ (timers_ \cup expired)' : x = Id(b)'
        BY <2>2, <2>4, <3>2, <3>3, Zenon DEF TimerInd, OwnedInv
      <4>4. OwnedInv'
        <5>1. \A b \in Addr : Live(b)' => Id(b)' \in Created'
          BY <2>2, <3>3, Zenon DEF TimerInd, OwnedInv
        <5>2. /\ activeTimers_' = {Id(b)' : b \in timers_'} /\ timers_' \cap expired' = {}
              /\ callingExpiredTimers_' \/ expired' = {}
          BY <2>2, <2>4, <4>1, Zenon DEF TimerInd, OwnedInv
        <5> QED
          BY <3>2, <4>2, <4>3, <5>1, <5>2, Zenon DEF OwnedInv
      <4>5. CancelInv'
        BY <2>2, <2>4, <3>3, Zenon DEF TimerInd, CancelInv
      <4> QED
        BY <4>4, <4>5
    <3> QED
      BY <3>4, <3>5 DEF TimerInd
  <2> QED
    BY <1>3, <2>3, <2>4 DEF Cancel
<1>4. CASE RunQueued
  <2>1. /\ ~callingExpiredTimers_ /\ queued # <<>> /\ queued' = Tail(queued)
        /\ UNCHANGED <<callVars, callingExpiredTimers_, expired, lag>>
    BY <1>4 DEF RunQueued
  <2>2. CASE Head(queued)[1] = "add"
    <3>1. /\ addTimerInLoop(Head(queued)[2][1], heap)
          /\ UNCHANGED <<cancelingTimers_, cancelled>>
      BY <1>4, <2>2 DEF RunQueued
    <3> QED
      BY <2>1, <2>2, <3>1, QueuedAddStep
  <2>3. CASE Head(queued)[1] # "add"
    <3>1. cancelInLoop(Head(queued)[2])
      BY <1>4, <2>3 DEF RunQueued
    <3>2. queued' \in Seq(Call) /\ Adds(queued') = Adds(queued) /\ AddsOnce(queued')
      BY <2>1, <2>3, AddsTail DEF TimerInd, TimerTypeOK, OwnedInv
    <3> QED
      BY <2>1, <3>1, <3>2, CancelStep
  <2> QED
    BY <2>2, <2>3
<1>5. CASE PollTimerfd \/ \E a \in Addr : Run(a)
  BY <1>5, QuietStep DEF PollTimerfd, Run, callVars, TimerInd, TimerTypeOK
<1>6. ASSUME NEW own \in reading, ReadSequence(own) PROVE TimerInd'
  <2>1. own[1] \in Addr /\ Sequences(own[1]) \subseteq Nat
    BY TimerAssumption DEF TimerInd, TimerTypeOK, Sequences
  <2>2. ids' \subseteq Addr \X Nat /\ reading' \subseteq reading
    BY <1>6, <2>1 DEF ReadSequence, TimerInd, TimerTypeOK
  <2> QED
    BY <1>6, <2>2, QuietStep DEF ReadSequence
<1> QED
  BY <1>1, <1>2, <1>3, <1>4, <1>5, <1>6, BeginStep, EndStep, TickStep, ClockBackStep,
     ClockForwardStep
     DEF TimerNext, TimerLoopStep

\* What the inductive invariant says of the sets, the timerfd and cancel().
LEMMA TimerIndImplies == TimerInd => TimerInv
<1> SUFFICES ASSUME TimerInd PROVE TimerInv
    OBVIOUS
<1> USE DEF TimerInd
<1>1. \A a \in Addr : Live(a) <=> heap[a] # Free
  BY DEF TimerTypeOK, Live, Free
<1>2. /\ activeTimers_ = {Id(a) : a \in timers_} /\ timers_ \cap expired = {}
      /\ timers_ \subseteq Addr /\ expired \subseteq Addr
  BY DEF OwnedInv, TimerTypeOK
<1>3. TimersOwned
  <2>1. {q[2] : q \in {p \in Range(queued) : p[1] = "add"}} = Adds(queued)
    BY DEF Range, Adds
  <2>2. {Id(a) : a \in {b \in Addr : heap[b] # Free}}
           = activeTimers_ \cup {Id(a) : a \in expired} \cup Adds(queued)
    <3>1. \A a \in Addr : heap[a] # Free =>
              Id(a) \in activeTimers_ \cup {Id(b) : b \in expired} \cup Adds(queued)
      BY <1>1, <1>2 DEF OwnedInv
    <3>2. \A x \in activeTimers_ \cup {Id(b) : b \in expired} \cup Adds(queued) :
              \E a \in Addr : x = Id(a) /\ heap[a] # Free
      BY <1>1, <1>2 DEF OwnedInv
    <3> QED
      BY <3>1, <3>2
  <2>3. \A a \in expired \cup timers_ : heap[a] # Free
    BY <1>1, <1>2 DEF OwnedInv
  <2> QED
    BY <1>2, <2>1, <2>2, <2>3, Zenon DEF TimersOwned
<1>4. TimerfdInTime
  <2> SUFFICES ASSUME ~callingExpiredTimers_, timers_ # {}
               PROVE  timerfd # Disarmed /\ timerfd <= Earliest(timers_, heap) + ahead
      BY DEF TimerfdInTime
  <2>1. timerfd \in Nat /\ \A a \in timers_ : timerfd <= heap[a].left + ahead
    BY DEF InTimeInv
  <2>2. \E a \in timers_ : Earliest(timers_, heap) = heap[a].left
    BY EarliestFacts DEF TimerTypeOK
  <2> HIDE DEF TimerInd
  <2> QED
    BY <2>1, <2>2 DEF Disarmed
<1>5. CancelledStaysOut
  BY <1>1, <1>2 DEF CancelledStaysOut, CancelInv, OwnedInv
<1> QED
  BY <1>3, <1>4, <1>5 DEF TimerInv

\* Whatever is added, cancelled, expired or repeated, by TimerIds that are stale
\* or misread (TimerQueue.cc:123) too, the sets of timers own their Timers, the
\* timerfd is set no later than the earliest of them but for what the wall clock
\* was set forward since, and a timer that cancel() found stays out
\* (TimerQueue.cc:116-261), for any number of timers at addresses that are reused.
THEOREM TimersOwnedInTime == TimerSpec => []TimerInv
<1>1. TimerInd /\ [TimerNext]_timerVars => TimerInd'
  BY TimerStep
<1> QED
  BY <1>1, TimerInitInd, TimerIndImplies, PTL DEF TimerSpec
=============================================================================
