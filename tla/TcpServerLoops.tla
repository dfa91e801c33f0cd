--------------------------- MODULE TcpServerLoops ----------------------------
(***************************************************************************)
(* Invariants of TcpServer, and the proof that its loops keep theirs: types, *)
(* and what a loop holds in which phase.  The queues of functors are       *)
(* described by what a step takes from them and adds to them.              *)
(***************************************************************************)
EXTENDS TcpServer, TLAPS

Functor == [op : FunctorOp, conn : Conn]

Up == {"kConnected", "kDisconnecting"}

-----------------------------------------------------------------------------
(* What the loops have to run: for each loop, the batch and then the       *)
(* functors that are pending, since a swap finds the batch empty.          *)

Joined(b, p) == [l \in Loop |-> b[l] \o p[l]]

Queue == Joined(batch, pending)

Pop(q, l) == [q EXCEPT ![l] = Tail(@)]

Has(q, l, f) == \E i \in DOMAIN q[l] : q[l][i] = f

\* f stands in q once at most, in all the loops together.
Single(q, f) ==
    \A l, m \in Loop : \A i \in DOMAIN q[l], j \in DOMAIN q[m] :
        q[l][i] = f /\ q[m][j] = f => l = m /\ i = j

-----------------------------------------------------------------------------
(* Inductive invariants.                                                   *)

(***************************************************************************)
(* The loops.  A loop holds a batch only while it runs functors, and has   *)
(* channels to handle only while it dispatches; ~TcpServer finds the base  *)
(* loop out of loop(), and quits the I/O loops when it has emptied the     *)
(* map.                                                                    *)
(***************************************************************************)
LoopsInv ==
    /\ \A l \in Loop :
          /\ phase[l] # "functors" => batch[l] = <<>> /\ held[l] = {}
          /\ Bound(batch[l]) \subseteq held[l]
          /\ phase[l] # "dispatch" => active[l] = {}
          /\ phase[l] = "exited" => quit_[l]
          /\ l \notin IOLoop \cup {Base} => phase[l] = "test"
          /\ l # Base /\ quit_[l] => server # "up" /\ connections_ = {}
          /\ l # Base /\ phase[l] = "exited" => pending[l] = <<>>
    /\ server # "up" => phase[Base] = "exited"
    /\ server = "gone" =>
          connections_ = {} /\ \A l \in IOLoop \cup {Base} : phase[l] = "exited"

CallbacksOf(s) ==
    IF s \in {"none", "kConnecting"} THEN <<>>
    ELSE IF s \in Up THEN <<"UP">> ELSE <<"UP", "DOWN">>

(***************************************************************************)
(* Where functors and channels of a connection can be, and what user code  *)
(* has been told: by the state alone.  connectEstablished waits at most    *)
(* once, in the connection's loop, and only for a connection that is       *)
(* kConnecting, so that UP is told once.                                   *)
(***************************************************************************)
PlaceOf(c) ==
    /\ loopOf[c] \in IOLoop \cup {Base, NoLoop}
    /\ state_[c] = "none" <=> loopOf[c] = NoLoop
    /\ callbacks[c] = CallbacksOf(state_[c])
    /\ c \in connections_ => state_[c] # "none"
    /\ c \in enabled => state_[c] \in Up
    /\ Single(Queue, Bind("connectEstablished", c))
    /\ \A l \in Loop :
          /\ Has(Queue, l, Bind("connectEstablished", c)) =>
                 l = loopOf[c] /\ state_[c] = "kConnecting"
          /\ Has(Queue, l, Bind("connectDestroyed", c)) => l = loopOf[c]
          /\ Has(Queue, l, Bind("forceCloseInLoop", c)) => l = loopOf[c]
          /\ Has(Queue, l, Bind("removeConnectionInLoop", c)) =>
                 l = Base /\ loopOf[c] \notin {Base, NoLoop}
          /\ c \in active[l] => l = loopOf[c] /\ state_[c] \in Up

PlaceInv == \A c \in Conn : PlaceOf(c)

CoreInv == TypeOK /\ LoopsInv /\ PlaceInv

Waits(op, c) == \E l \in Loop : Has(Queue, l, Bind(op, c))

(***************************************************************************)
(* While the server is up, a connection goes through these stages: in the  *)
(* map until removeConnectionInLoop has run, in the poller from            *)
(* connectEstablished to connectDestroyed; each of the two functors waits  *)
(* once, and only in its stage.                                            *)
(***************************************************************************)
StageOf(c) ==
    /\ Single(Queue, Bind("connectDestroyed", c))
    /\ Single(Queue, Bind("removeConnectionInLoop", c))
    /\ c \in enabled <=> state_[c] \in Up
    /\ c \in channels_ => state_[c] \in Up \cup {"kDisconnected"}
    /\ state_[c] \in Up => c \in channels_
    /\ c \in connections_ <=>
           state_[c] \in {"kConnecting"} \cup Up \/ Waits("removeConnectionInLoop", c)
    /\ Waits("removeConnectionInLoop", c) => state_[c] = "kDisconnected" /\ c \in channels_
    /\ Waits("connectDestroyed", c) <=>
           state_[c] = "kDisconnected" /\ c \in channels_ /\ c \notin connections_

StageInv ==
    /\ server = "up" /\ \A l \in Loop : ~quit_[l]
    /\ \A c \in Conn : StageOf(c)

\* A connection is destroyed after its teardown.
DeadInv == \A c \in dead : state_[c] = "kDisconnected" /\ c \notin channels_

-----------------------------------------------------------------------------
(* The queue as the handlers change it.                                    *)

Queues == [Loop -> Seq(Functor)]

LEMMA JoinedType == ASSUME NEW b \in Queues, NEW p \in Queues PROVE Joined(b, p) \in Queues
BY DEF Joined, Queues

LEMMA JoinedPush ==
    ASSUME NEW b \in Queues, NEW p \in Queues, NEW l \in Loop, NEW f \in Functor
    PROVE  Joined(b, Push(p, l, f)) = Push(Joined(b, p), l, f)
<1>1. ASSUME NEW s \in Seq(Functor), NEW t \in Seq(Functor)
      PROVE  s \o Append(t, f) = Append(s \o t, f)
    BY <1>1
<1> QED
    BY <1>1 DEF Joined, Push, Queues

LEMMA JoinedPop ==
    ASSUME NEW b \in Queues, NEW p \in Queues, NEW l \in Loop, b[l] # <<>>
    PROVE  /\ Joined(Pop(b, l), p) = Pop(Joined(b, p), l)
           /\ Joined(b, p)[l] # <<>>
           /\ Head(Joined(b, p)[l]) = Head(b[l])
<1>1. ASSUME NEW s \in Seq(Functor), NEW t \in Seq(Functor), s # <<>>
      PROVE  Tail(s) \o t = Tail(s \o t) /\ s \o t # <<>> /\ Head(s \o t) = Head(s)
    BY <1>1
<1> QED
    BY <1>1 DEF Joined, Pop, Queues

LEMMA PushHas ==
    ASSUME NEW q \in Queues, NEW l \in Loop, NEW f \in Functor, NEW m \in Loop, NEW g
    PROVE  Has(Push(q, l, f), m, g) <=> Has(q, m, g) \/ (m = l /\ g = f)
<1> DEFINE s == q[l]
<1>1. s \in Seq(Functor) /\ Push(q, l, f)[l] = Append(s, f)
      /\ (m # l => Push(q, l, f)[m] = q[m])
    BY DEF Push, Queues
<1>2. /\ DOMAIN Append(s, f) = DOMAIN s \cup {Len(s) + 1}
      /\ \A i \in DOMAIN s : Append(s, f)[i] = s[i]
      /\ Append(s, f)[Len(s) + 1] = f
    BY <1>1
<1>3. (\E i \in DOMAIN Append(s, f) : Append(s, f)[i] = g)
         <=> (\E i \in DOMAIN s : s[i] = g) \/ g = f
    BY <1>2, Zenon
<1> QED
    BY <1>1, <1>3, Zenon DEF Has

LEMMA PushSingle ==
    ASSUME NEW q \in Queues, NEW l \in Loop, NEW f \in Functor, NEW g,
           Single(q, g), g # f \/ \A m \in Loop : ~Has(q, m, g)
    PROVE  Single(Push(q, l, f), g)
BY DEF Has, Single, Push, Queues

LEMMA PopHas ==
    ASSUME NEW q \in Queues, NEW l \in Loop, q[l] # <<>>, NEW m \in Loop, NEW g
    PROVE  /\ Has(Pop(q, l), m, g) => Has(q, m, g)
           /\ Has(q, m, g) => Has(Pop(q, l), m, g) \/ (m = l /\ g = Head(q[l]))
           /\ Single(q, g) => Single(Pop(q, l), g)
           /\ Single(q, g) /\ g = Head(q[l]) => ~Has(Pop(q, l), m, g)
<1> DEFINE s == q[l]
           r == Pop(q, l)
<1>1. /\ s \in Seq(Functor) /\ s # <<>> /\ q[l] = s /\ r[l] = Tail(s)
      /\ \A k \in Loop : k # l => r[k] = q[k]
    BY DEF Pop, Queues
<1>9. /\ \A i \in DOMAIN Tail(s) : i + 1 \in DOMAIN s /\ Tail(s)[i] = s[i + 1] /\ i \in Nat \ {0}
      /\ \A i \in DOMAIN s : i # 1 => i - 1 \in DOMAIN Tail(s) /\ Tail(s)[i - 1] = s[i]
      /\ 1 \in DOMAIN s /\ Head(s) = s[1]
    BY <1>1
<1> HIDE DEF s, r
<1>2. /\ \A i \in DOMAIN r[l] : i + 1 \in DOMAIN q[l] /\ r[l][i] = q[l][i + 1] /\ i \in Nat \ {0}
      /\ \A i \in DOMAIN q[l] : i # 1 => i - 1 \in DOMAIN r[l] /\ r[l][i - 1] = q[l][i]
      /\ 1 \in DOMAIN q[l] /\ Head(s) = q[l][1]
    BY <1>1, <1>9
<1>3. Has(r, l, g) => Has(q, l, g)
  <2>1. \A i \in DOMAIN r[l] : \E j \in DOMAIN q[l] : q[l][j] = r[l][i]
        BY <1>2
  <2> QED
        BY <2>1, Zenon DEF Has
<1>4. Has(q, l, g) => Has(r, l, g) \/ g = Head(s)
    BY <1>2, Zenon DEF Has
<1>7. m # l => (Has(r, m, g) <=> Has(q, m, g))
    BY <1>1, Zenon DEF Has
<1>5. ASSUME Single(q, g) PROVE Single(r, g)
  <2> SUFFICES ASSUME NEW j \in Loop, NEW k \in Loop, NEW i \in DOMAIN r[j], NEW h \in DOMAIN r[k],
                      r[j][i] = g, r[k][h] = g
               PROVE  j = k /\ i = h
        BY DEF Single
  <2>1. \A x, y \in Loop : \A z \in DOMAIN q[x], w \in DOMAIN q[y] :
            q[x][z] = g /\ q[y][w] = g => x = y /\ z = w
        BY <1>5 DEF Single
  <2>2. CASE j = l /\ k = l
    <3>1. /\ i + 1 \in DOMAIN q[l] /\ q[l][i + 1] = g /\ i \in Nat
          /\ h + 1 \in DOMAIN q[l] /\ q[l][h + 1] = g /\ h \in Nat
          BY <1>2, <2>2
    <3>2. i + 1 = h + 1
          BY <3>1, <2>1
    <3> QED
          BY <3>1, <3>2, <2>2
  <2>3. CASE j = l /\ k # l
    <3>1. i + 1 \in DOMAIN q[l] /\ q[l][i + 1] = g
          BY <1>2, <2>3
    <3>2. h \in DOMAIN q[k] /\ q[k][h] = g
          BY <1>1, <2>3, Zenon
    <3> QED
          BY <3>1, <3>2, <2>1, <2>3, Zenon
  <2>4. CASE j # l /\ k = l
    <3>1. h + 1 \in DOMAIN q[l] /\ q[l][h + 1] = g
          BY <1>2, <2>4
    <3>2. i \in DOMAIN q[j] /\ q[j][i] = g
          BY <1>1, <2>4, Zenon
    <3> QED
          BY <3>1, <3>2, <2>1, <2>4, Zenon
  <2>5. CASE j # l /\ k # l
        BY <1>1, <2>1, <2>5
  <2> QED
        BY <2>2, <2>3, <2>4, <2>5
<1>6. ASSUME Single(q, g), g = Head(s), Has(r, m, g) PROVE FALSE
  <2>1. PICK i \in DOMAIN r[m] : r[m][i] = g
        BY <1>6 DEF Has
  <2>2. \A y \in Loop : \A w \in DOMAIN q[y] : q[y][w] = g => l = y /\ 1 = w
        BY <1>1, <1>2, <1>6 DEF Single
  <2>3. CASE m = l
        BY <1>1, <1>2, <2>1, <2>2, <2>3
  <2> QED
        BY <1>1, <2>1, <2>2, <2>3
<1>8. m = l \/ m # l
    OBVIOUS
<1> QED
    BY <1>1, <1>3, <1>4, <1>5, <1>6, <1>7, <1>8, Zenon DEF r

(***************************************************************************)
(* r is q without the functors out, as far as they stood there once, and   *)
(* with the pairs in of a loop and a functor.                              *)
(***************************************************************************)
Moves(q, r, out, in) ==
    /\ \A m \in Loop, f \in Functor :
          /\ Has(r, m, f) => Has(q, m, f) \/ <<m, f>> \in in
          /\ <<m, f>> \in in => Has(r, m, f)
          /\ Has(q, m, f) /\ f \notin out => Has(r, m, f)
          /\ f \in out /\ Single(q, f) /\ Has(r, m, f) => <<m, f>> \in in
    /\ \A f \in Functor :
          Single(q, f) /\ ((\A m \in Loop : <<m, f>> \notin in) \/ (\A m \in Loop : ~Has(q, m, f)))
              => Single(r, f)

LEMMA MovesSame == ASSUME NEW q PROVE Moves(q, q, {}, {})
BY Zenon DEF Moves

LEMMA MovesPop ==
    ASSUME NEW q \in Queues, NEW l \in Loop, q[l] # <<>>
    PROVE  Moves(q, Pop(q, l), {Head(q[l])}, {})
BY PopHas, Zenon DEF Moves

LEMMA MovesPush ==
    ASSUME NEW q, NEW r \in Queues, NEW out, NEW in, NEW l \in Loop, NEW f \in Functor,
           Moves(q, r, out, in), \A m \in Loop : <<m, f>> \notin in
    PROVE  Moves(q, Push(r, l, f), out, in \cup {<<l, f>>})
<1> DEFINE t == Push(r, l, f)
           jn == in \cup {<<l, f>>}
<1>1. \A m \in Loop : \A g : Has(t, m, g) <=> Has(r, m, g) \/ (m = l /\ g = f)
    BY PushHas
<1>2. \A g : Single(r, g) /\ (g # f \/ \A m \in Loop : ~Has(r, m, g)) => Single(t, g)
    BY PushSingle
<1>3. \A m, g : <<m, g>> \in jn <=> <<m, g>> \in in \/ (m = l /\ g = f)
    OBVIOUS
<1> HIDE DEF t, jn
<1>4. ASSUME NEW m \in Loop, NEW g \in Functor
      PROVE  /\ Has(t, m, g) => Has(q, m, g) \/ <<m, g>> \in jn
             /\ <<m, g>> \in jn => Has(t, m, g)
             /\ Has(q, m, g) /\ g \notin out => Has(t, m, g)
             /\ g \in out /\ Single(q, g) /\ Has(t, m, g) => <<m, g>> \in jn
    BY <1>1, <1>3 DEF Moves
<1>5. ASSUME NEW g \in Functor, Single(q, g),
             (\A m \in Loop : <<m, g>> \notin jn) \/ (\A m \in Loop : ~Has(q, m, g))
      PROVE  Single(t, g)
    BY <1>2, <1>3, <1>5 DEF Moves
<1> QED
    BY <1>4, <1>5 DEF Moves, t, jn

\* What the call of user code pushes.
UserPush(u, st, d, l) ==
    IF u = "forceClose" /\ Closable(u, st, d)
    THEN {<<l, Bind("forceCloseInLoop", d)>>} ELSE {}

LEMMA BindType == ASSUME NEW op \in FunctorOp, NEW c \in Conn PROVE Bind(op, c) \in Functor
BY DEF Bind, Functor

LEMMA BindEqual ==
    ASSUME NEW op, NEW c, NEW o, NEW d, Bind(op, c) = Bind(o, d)
    PROVE  op = o /\ c = d
BY DEF Bind

LEMMA UserMoves ==
    ASSUME NEW q, NEW b \in Queues, pending \in Queues, NEW out,
           Moves(q, Joined(b, pending), out, {}),
           NEW u, NEW st, NEW d \in Conn, NEW l \in Loop
    PROVE  /\ PendingAfter(u, st, d, l) \in Queues
           /\ Moves(q, Joined(b, PendingAfter(u, st, d, l)), out, UserPush(u, st, d, l))
<1> DEFINE f == Bind("forceCloseInLoop", d)
<1>1. f \in Functor
    BY BindType DEF FunctorOp
<1>2. CASE u = "forceClose" /\ Closable(u, st, d)
  <2>1. PendingAfter(u, st, d, l) = Push(pending, l, f) /\ UserPush(u, st, d, l) = {} \cup {<<l, f>>}
        BY <1>2 DEF PendingAfter, UserPush
  <2>2. Push(pending, l, f) \in Queues
        BY <1>1 DEF Push, Queues
  <2>3. Joined(b, Push(pending, l, f)) = Push(Joined(b, pending), l, f)
        BY <1>1, JoinedPush
  <2>4. Moves(q, Push(Joined(b, pending), l, f), out, {} \cup {<<l, f>>})
        BY <1>1, MovesPush, JoinedType
  <2> QED
        BY <2>1, <2>2, <2>3, <2>4
<1>3. CASE ~(u = "forceClose" /\ Closable(u, st, d))
    BY <1>3 DEF PendingAfter, UserPush
<1> QED
    BY <1>2, <1>3

-----------------------------------------------------------------------------
(* Types.                                                                  *)

StateType == [Conn -> {"none", "kConnecting", "kConnected", "kDisconnecting", "kDisconnected"}]

LEMMA AppendedType ==
    ASSUME NEW S, NEW X, NEW s \in [X -> Seq(S)], NEW x, NEW w \in S
    PROVE  [s EXCEPT ![x] = Append(@, w)] \in [X -> Seq(S)]
<1>1. CASE x \in X
  <2>1. Append(s[x], w) \in Seq(S)
        BY <1>1
  <2> QED
        BY <1>1, <2>1, Zenon
<1>2. CASE x \notin X
    BY <1>2
<1> QED
    BY <1>1, <1>2

LEMMA PushType ==
    ASSUME NEW q \in Queues, NEW l, NEW op \in FunctorOp, NEW c \in Conn
    PROVE  Push(q, l, Bind(op, c)) \in Queues
BY BindType, AppendedType DEF Push, Queues

\* What the callback of user code keeps.
LEMMA CallbackTypes ==
    ASSUME TypeOK, NEW l \in Loop, NEW c \in Conn, NEW u, NEW d \in Conn, NEW st \in StateType,
           Callback(l, c, u, d, st)
    PROVE  /\ state_' \in StateType
           /\ timer' \subseteq Conn
           /\ userRef' \subseteq Conn
           /\ PendingAfter(u, st, d, l) \in Queues
<1>1. state_' \in StateType
    BY DEF Callback, StateAfter, StateType
<1>2. timer' \subseteq Conn /\ userRef' \subseteq Conn
    BY DEF Callback, TimerAfter, TypeOK
<1>3. PendingAfter(u, st, d, l) \in Queues
  <2>1. pending \in Queues
        BY DEF TypeOK, Queues, Functor
  <2> QED
        BY <2>1, PushType DEF PendingAfter, FunctorOp
<1> QED
    BY <1>1, <1>2, <1>3

LEMMA DestructType == TypeOK /\ Destruct => dead' \subseteq Conn
BY DEF TypeOK, Destruct

LEMMA CallbackList ==
    ASSUME NEW s \in [Conn -> Seq({"UP", "DOWN"})], NEW c, NEW w \in {"UP", "DOWN"}
    PROVE  [s EXCEPT ![c] = Append(@, w)] \in [Conn -> Seq({"UP", "DOWN"})]
BY AppendedType, Zenon

LEMMA EstablishedTypes ==
    ASSUME TypeOK, NEW l \in Loop, NEW c \in Conn, NEW u, NEW d \in Conn, connectEstablished(l, c, u, d)
    PROVE  /\ state_' \in StateType /\ timer' \subseteq Conn /\ userRef' \subseteq Conn
           /\ enabled' \subseteq Conn /\ channels_' \subseteq Conn
           /\ callbacks' \in [Conn -> Seq({"UP", "DOWN"})] /\ pending' \in Queues
<1>1. [state_ EXCEPT ![c] = "kConnected"] \in StateType
    BY DEF TypeOK, StateType
<1> QED
    BY <1>1, CallbackTypes, CallbackList DEF connectEstablished, TypeOK

LEMMA ClosedTypes ==
    ASSUME TypeOK, NEW l \in Loop, NEW c \in Conn, NEW u, NEW d \in Conn,
           handleClose(l, c, u, d) \/ connectDestroyed(l, c, u, d)
    PROVE  /\ state_' \in StateType /\ timer' \subseteq Conn /\ userRef' \subseteq Conn
           /\ enabled' \subseteq Conn /\ channels_' \subseteq Conn
           /\ callbacks' \in [Conn -> Seq({"UP", "DOWN"})] /\ pending' \in Queues
           /\ handleClose(l, c, u, d) => connections_' \subseteq Conn
<1>1. ClosedState(c) \in StateType
    BY DEF TypeOK, StateType, ClosedState
<1>2. pending \in Queues
    BY DEF TypeOK, Queues, Functor
<1>3. CASE handleClose(l, c, u, d)
  <2>1. /\ Callback(l, c, u, d, ClosedState(c))
        /\ callbacks' = [callbacks EXCEPT ![c] = Append(@, "DOWN")]
        /\ enabled' = enabled \ {c} /\ channels_' = channels_
        /\ connections_' \in {connections_, connections_ \ {c}}
        /\ \E op \in FunctorOp : pending' = Push(PendingAfter(u, ClosedState(c), d, l), Base, Bind(op, c))
        BY <1>3 DEF handleClose, DisableAll, EraseConnection, FunctorOp
  <2>2. pending' \in Queues
        BY <2>1, <1>1, CallbackTypes, PushType
  <2> QED
        BY <2>1, <2>2, <1>1, CallbackTypes, CallbackList DEF TypeOK
<1>4. CASE connectDestroyed(l, c, u, d) /\ ~handleClose(l, c, u, d)
  <2>1. CASE state_[c] = "kConnected"
    <3>1. /\ Callback(l, c, u, d, ClosedState(c))
          /\ callbacks' = [callbacks EXCEPT ![c] = Append(@, "DOWN")]
          /\ enabled' = enabled \ {c} /\ channels_' = channels_ \ {c}
          /\ pending' = PendingAfter(u, ClosedState(c), d, l)
          BY <1>4, <2>1 DEF connectDestroyed, DisableAll
    <3> QED
          BY <1>1, <1>4, <3>1, CallbackTypes, CallbackList DEF TypeOK
  <2>2. CASE state_[c] # "kConnected"
        BY <1>2, <1>4, <2>2 DEF connectDestroyed, StateType, TypeOK
  <2> QED
        BY <2>1, <2>2
<1> QED
    BY <1>3, <1>4

LEMMA NextLoopType == TypeOK => getNextLoop \in IOLoop \cup {Base} /\ getNextLoop \in Loop
                                /\ NextPosition \in {i \in 0 .. Len(loops_) : i = 0 \/ i < Len(loops_)}
<1> SUFFICES ASSUME TypeOK PROVE getNextLoop \in IOLoop \cup {Base} /\ getNextLoop \in Loop
                                /\ NextPosition \in {i \in 0 .. Len(loops_) : i = 0 \/ i < Len(loops_)}
    OBVIOUS
<1>1. loops_ \in Pools /\ loops_ \in Seq(Loop \ {Base})
      /\ next_ \in {i \in 0 .. Len(loops_) : i = 0 \/ i < Len(loops_)}
    BY ServerAssumption DEF TypeOK
<1>2. CASE loops_ = <<>>
    BY <1>1, <1>2 DEF getNextLoop, NextPosition, Loop
<1>3. CASE loops_ # <<>>
  <2>1. Len(loops_) \in Nat \ {0} /\ next_ + 1 \in DOMAIN loops_ /\ next_ \in Nat
        BY <1>1, <1>3
  <2>2. (next_ + 1) % Len(loops_) \in 0 .. Len(loops_) - 1
        BY <2>1
  <2>3. loops_[next_ + 1] \in Loop /\ loops_[next_ + 1] \in IOLoop
        BY <1>1, <2>1 DEF IOLoop, Range
  <2> QED
        BY <1>1, <1>3, <2>1, <2>2, <2>3 DEF getNextLoop, NextPosition
<1> QED
    BY <1>2, <1>3

LEMMA BaseIsLoop == Base \in Loop /\ (TypeOK => IOLoop \subseteq Loop /\ Base \notin IOLoop)
<1>1. Base \in Loop
    BY DEF Loop
<1>2. ASSUME TypeOK PROVE IOLoop \subseteq Loop /\ Base \notin IOLoop
  <2>1. loops_ \in Seq(Loop \ {Base})
        BY <1>2, ServerAssumption DEF TypeOK
  <2> QED
        BY <2>1 DEF IOLoop, Range
<1> QED
    BY <1>1, <1>2

LEMMA TypeInit == Init => TypeOK
BY BaseIsLoop, ServerAssumption DEF Init, TypeOK

ConnTypes ==
    /\ state_ \in StateType
    /\ loopOf \in [Conn -> Loop \cup {NoLoop}]
    /\ enabled \subseteq Conn /\ channels_ \subseteq Conn /\ timer \subseteq Conn
    /\ callbacks \in [Conn -> Seq({"UP", "DOWN"})]
    /\ dead \subseteq Conn /\ connections_ \subseteq Conn /\ userRef \subseteq Conn

QueueTypes ==
    /\ pending \in Queues /\ batch \in Queues
    /\ held \in [Loop -> SUBSET Conn]

LoopTypes ==
    /\ loops_ \in Pools
    /\ next_ \in {i \in 0 .. Len(loops_) : i = 0 \/ i < Len(loops_)}
    /\ active \in [Loop -> SUBSET (Conn \cup {"acceptor"})]
    /\ phase \in [Loop -> {"test", "poll", "dispatch", "functors", "exited"}]
    /\ quit_ \in [Loop -> BOOLEAN]
    /\ server \in {"up", "destructing", "gone"}

LEMMA TypeParts == TypeOK <=> ConnTypes /\ QueueTypes /\ LoopTypes
BY Zenon DEF TypeOK, ConnTypes, QueueTypes, LoopTypes, StateType, Queues, Functor

LEMMA TypePartsNext == ConnTypes' /\ QueueTypes' /\ LoopTypes' => TypeOK'
BY Zenon DEF TypeOK, ConnTypes, QueueTypes, LoopTypes, StateType, Queues, Functor

\* The handlers leave the loop where it is, with one channel or functor less.
LEMMA HandlingTypes ==
    ASSUME TypeOK, NEW l, NEW ch, Handling(l, ch)
    PROVE  /\ batch' \in Queues /\ held' \in [Loop -> SUBSET Conn]
           /\ next_' = next_ => LoopTypes'
<1>1. active' \in [Loop -> SUBSET (Conn \cup {"acceptor"})]
    BY DEF Handling, TypeOK
<1> QED
    BY <1>1, TypeParts DEF Handling, QueueTypes, LoopTypes

LEMMA RunningTypes ==
    ASSUME TypeOK, NEW l \in Loop, NEW op, NEW c, Running(l, op, c)
    PROVE  batch' \in Queues /\ held' \in [Loop -> SUBSET Conn] /\ LoopTypes'
<1>1. Tail(batch[l]) \in Seq(Functor)
    BY TypeParts DEF Running, QueueTypes, Queues
<1>2. batch' \in Queues
    BY <1>1, TypeParts, Zenon DEF Running, QueueTypes, Queues
<1> QED
    BY <1>2, TypeParts, Zenon DEF Running, QueueTypes, LoopTypes

LEMMA TypeStep == TypeOK /\ [NextShutdown]_vars => TypeOK'
<1> SUFFICES ASSUME TypeOK, [NextShutdown]_vars PROVE TypeOK'
    OBVIOUS
<1>t. ConnTypes /\ QueueTypes /\ LoopTypes
    BY TypeParts
<1>u. CASE UNCHANGED vars
    BY <1>u, Zenon DEF vars, connVars, serverVars, loopVars, TypeOK
<1>l. ASSUME NEW l \in Loop, LoopStep(l) PROVE TypeOK'
  <2>1. CASE Poll(l)
    <3>1. PICK ready \in SUBSET ({c \in enabled \cap channels_ : loopOf[c] = l}
                                  \cup {a \in {"acceptor"} : l = Base}) :
              active' = [active EXCEPT ![l] = ready]
          BY <2>1 DEF Poll
    <3>2. ready \subseteq Conn \cup {"acceptor"}
          BY <1>t, <3>1 DEF ConnTypes
    <3>3. LoopTypes'
          BY <1>t, <2>1, <3>1, <3>2 DEF Poll, LoopTypes, serverVars
    <3> QED
          BY <1>t, <2>1, <3>3, TypePartsNext, Zenon DEF Poll, ConnTypes, QueueTypes, connVars, serverVars
  <2>2. CASE SwapFunctors(l)
    <3>1. Bound(pending[l]) \subseteq Conn
      <4>1. \A i \in DOMAIN pending[l] : pending[l][i] \in Functor
            BY <1>t DEF QueueTypes, Queues
      <4> QED
            BY <4>1 DEF Bound, Functor
    <3>2. QueueTypes'
          BY <1>t, <2>2, <3>1 DEF SwapFunctors, QueueTypes, Queues
    <3>3. LoopTypes'
          BY <1>t, <2>2 DEF SwapFunctors, LoopTypes, serverVars
    <3> QED
          BY <1>t, <2>2, <3>2, <3>3, TypePartsNext, Zenon DEF SwapFunctors, ConnTypes, connVars, serverVars
  <2>3. CASE BatchDone(l)
    <3>1. QueueTypes' /\ LoopTypes'
          BY <1>t, <2>3 DEF BatchDone, QueueTypes, LoopTypes, serverVars
    <3> QED
          BY <1>t, <2>3, <3>1, DestructType, TypePartsNext, Zenon DEF BatchDone, ConnTypes, connVars, serverVars
  <2>4. CASE TestQuit(l)
    <3>1. QueueTypes' /\ LoopTypes'
          BY <1>t, <2>4 DEF TestQuit, QueueTypes, LoopTypes, serverVars, Queues
    <3> QED
          BY <1>t, <2>4, <3>1, DestructType, TypePartsNext, Zenon DEF TestQuit, ConnTypes, connVars, serverVars
  <2>5. ASSUME NEW c \in Conn, handleReadError(l, c) PROVE TypeOK'
        BY <1>t, <2>5, DestructType, HandlingTypes, TypePartsNext, Zenon
           DEF handleReadError, Handling, ConnTypes, QueueTypes, connVars
  <2>6. ASSUME NEW c \in Conn, forceCloseTimer(l, c) PROVE TypeOK'
    <3>1. StateAfter("forceClose", state_, c) \in StateType
          BY <1>t DEF StateAfter, ConnTypes, StateType
    <3>2. PendingAfter("forceClose", state_, c, l) \in Queues
          BY <1>t, PushType DEF PendingAfter, QueueTypes, FunctorOp
    <3>3. QueueTypes' /\ LoopTypes'
          BY <1>t, <2>6, <3>2, Zenon DEF forceCloseTimer, QueueTypes, LoopTypes, serverVars
    <3>4. ConnTypes'
          BY <1>t, <2>6, <3>1 DEF forceCloseTimer, ConnTypes, serverVars
    <3> QED
          BY <3>3, <3>4, TypePartsNext
  <2>7. ASSUME NEW c \in Conn, RunRemoveConnection(l, c) PROVE TypeOK'
    <3>1. pending' \in Queues /\ connections_' \subseteq Conn
          BY <1>t, <2>7, PushType
             DEF RunRemoveConnection, removeConnectionInLoop, EraseConnection, ConnTypes, QueueTypes, FunctorOp
    <3> QED
          BY <1>t, <2>7, <3>1, RunningTypes, DestructType, TypePartsNext, Zenon
             DEF RunRemoveConnection, Running, ConnTypes, QueueTypes
  <2>8. ASSUME NEW c \in Conn, NEW d \in Conn, NEW u, handleReadMessage(l, c, u, d) PROVE TypeOK'
    <3>1. state_' \in StateType /\ timer' \subseteq Conn /\ userRef' \subseteq Conn /\ pending' \in Queues
          BY <1>t, <2>8, CallbackTypes DEF handleReadMessage, ConnTypes
    <3> QED
          BY <1>t, <2>8, <3>1, DestructType, HandlingTypes, TypePartsNext, Zenon
             DEF handleReadMessage, ConnTypes, QueueTypes
  <2>9. ASSUME NEW c \in Conn, NEW d \in Conn, NEW u, handleReadEof(l, c, u, d) PROVE TypeOK'
        BY <1>t, <2>9, DestructType, ClosedTypes, HandlingTypes, TypePartsNext, Zenon
           DEF handleReadEof, ConnTypes, QueueTypes
  <2>10. ASSUME NEW c \in Conn, NEW d \in Conn, NEW u, RunConnectEstablished(l, c, u, d) PROVE TypeOK'
        BY <1>t, <2>10, DestructType, EstablishedTypes, RunningTypes, TypePartsNext, Zenon
           DEF RunConnectEstablished, Running, ConnTypes, QueueTypes
  <2>11. ASSUME NEW c \in Conn, NEW d \in Conn, NEW u, RunConnectDestroyed(l, c, u, d) PROVE TypeOK'
        BY <1>t, <2>11, DestructType, ClosedTypes, RunningTypes, TypePartsNext, Zenon
           DEF RunConnectDestroyed, Running, ConnTypes, QueueTypes
  <2>12. ASSUME NEW c \in Conn, NEW d \in Conn, NEW u, forceCloseInLoop(l, c, u, d) PROVE TypeOK'
    <3>1. CASE ForceClosable(c)
          BY <1>t, <2>12, <3>1, DestructType, ClosedTypes, RunningTypes, TypePartsNext, Zenon
             DEF forceCloseInLoop, Running, ConnTypes, QueueTypes
    <3>2. CASE ~ForceClosable(c)
          BY <1>t, <2>12, <3>2, DestructType, RunningTypes, TypePartsNext, Zenon
             DEF forceCloseInLoop, Running, ConnTypes, QueueTypes
    <3> QED
          BY <3>1, <3>2
  <2> QED
        BY <1>l, <2>1, <2>2, <2>3, <2>4, <2>5, <2>6, <2>7, <2>8, <2>9, <2>10, <2>11, <2>12, Zenon DEF LoopStep
<1>a. CASE AcceptFails
    BY <1>a, <1>t, DestructType, HandlingTypes, TypePartsNext, Zenon DEF AcceptFails, ConnTypes, QueueTypes, connVars
<1>n. ASSUME NEW c \in Conn, NEW d \in Conn, NEW u, newConnection(c, u, d) PROVE TypeOK'
  <2>1. /\ loopOf' \in [Conn -> Loop \cup {NoLoop}] /\ connections_' \subseteq Conn
        BY <1>t, <1>n, NextLoopType DEF newConnection, ConnTypes
  <2>2. active' \in [Loop -> SUBSET (Conn \cup {"acceptor"})] /\ loops_' = loops_
        BY <1>t, <1>n DEF newConnection, Handling, LoopTypes
  <2>3. LoopTypes' /\ batch' \in Queues /\ held' \in [Loop -> SUBSET Conn]
        BY <1>t, <1>n, <2>2, NextLoopType, HandlingTypes, Zenon DEF newConnection, Handling, LoopTypes
  <2>4. CASE getNextLoop = Base /\ connectEstablished(Base, c, u, d)
        BY <1>t, <1>n, <2>1, <2>3, <2>4, EstablishedTypes, DestructType, BaseIsLoop, TypePartsNext, Zenon
           DEF newConnection, ConnTypes, QueueTypes
  <2>5. CASE /\ getNextLoop # Base
             /\ state_' = [state_ EXCEPT ![c] = "kConnecting"]
             /\ pending' = Push(pending, getNextLoop, Bind("connectEstablished", c))
             /\ UNCHANGED <<enabled, channels_, timer, callbacks, userRef>>
    <3>1. state_' \in StateType
          BY <1>t, <2>5 DEF ConnTypes, StateType
    <3>2. pending' \in Queues
          BY <1>t, <2>5, PushType DEF QueueTypes, FunctorOp
    <3> QED
          BY <1>t, <1>n, <2>1, <2>3, <2>5, <3>1, <3>2, DestructType, TypePartsNext, Zenon
             DEF newConnection, ConnTypes, QueueTypes
  <2> QED
        BY <1>n, <2>4, <2>5 DEF newConnection
<1>s. CASE QuitBase \/ DtorBegins
  <2>1. quit_' \in [Loop -> BOOLEAN] /\ server' \in {"up", "destructing", "gone"}
        BY <1>t, <1>s DEF QuitBase, DtorBegins, LoopTypes, serverVars, loopVars
  <2> QED
        BY <1>t, <1>s, <2>1, TypePartsNext, Zenon
           DEF QuitBase, DtorBegins, ConnTypes, QueueTypes, LoopTypes, connVars, serverVars, loopVars
<1>e. CASE DtorEnds
  <2>1. pending' \in Queues
        BY <1>t, <1>e, BaseIsLoop DEF DtorEnds, QueueTypes, Queues
  <2> QED
        BY <1>t, <1>e, <2>1, DestructType, TypePartsNext, Zenon
           DEF DtorEnds, ConnTypes, QueueTypes, LoopTypes, connVars
<1>q. ASSUME NEW l \in Loop, DtorQuitLoop(l) PROVE TypeOK'
    BY <1>q DEF DtorQuitLoop, TypeOK, connVars, serverVars
<1>c. ASSUME NEW c \in Conn, NEW d \in Conn, NEW u, DtorConnection(c, u, d) PROVE TypeOK'
  <2>1. connections_' \subseteq Conn
        BY <1>t, <1>c DEF DtorConnection, ConnTypes
  <2>2. CASE connectDestroyed(Base, c, u, d)
        BY <1>t, <1>c, <2>1, <2>2, DestructType, ClosedTypes, BaseIsLoop, TypePartsNext, Zenon
           DEF DtorConnection, ConnTypes, QueueTypes, LoopTypes
  <2>3. CASE ~connectDestroyed(Base, c, u, d)
    <3>1. pending' \in Queues
          BY <1>t, <1>c, <2>3, PushType DEF DtorConnection, QueueTypes, FunctorOp
    <3> QED
          BY <1>t, <1>c, <2>1, <2>3, <3>1, DestructType, TypePartsNext, Zenon
             DEF DtorConnection, ConnTypes, QueueTypes, LoopTypes
  <2> QED
        BY <2>2, <2>3
<1> QED
    BY <1>u, <1>l, <1>a, <1>n, <1>s, <1>e, <1>q, <1>c, Zenon DEF NextShutdown, Next, Accept, Shutdown

-----------------------------------------------------------------------------
(* The loops.                                                              *)

LEMMA BoundTail ==
    ASSUME NEW s \in Seq(Functor), s # <<>>
    PROVE  Bound(Tail(s)) \subseteq Bound(s)
<1>1. \A i \in DOMAIN Tail(s) : i + 1 \in DOMAIN s /\ Tail(s)[i] = s[i + 1]
    OBVIOUS
<1> QED
    BY <1>1, Zenon DEF Bound

LEMMA LoopsInit == Init => LoopsInv
BY BaseIsLoop DEF Init, LoopsInv, Bound

\* A handler of loop l that pushes to l and to the base loop only.
LEMMA LoopsHandled ==
    ASSUME TypeOK, LoopsInv, NEW l \in Loop, phase[l] \in {"dispatch", "functors"},
           \A m \in Loop : active'[m] \subseteq active[m],
           \A m \in Loop : batch'[m] = batch[m] \/ (m = l /\ phase[l] = "functors" /\ Bound(batch'[m]) \subseteq held[m]),
           \A m \in Loop \ {l, Base} : pending'[m] = pending[m],
           connections_' \subseteq connections_,
           UNCHANGED <<held, phase, quit_, loops_, server>>
    PROVE  LoopsInv'
<1>1. IOLoop' = IOLoop
    BY DEF IOLoop
<1>2. ASSUME NEW m \in Loop
      PROVE  /\ phase[m] # "functors" => batch'[m] = <<>> /\ held[m] = {}
             /\ Bound(batch'[m]) \subseteq held[m]
             /\ phase[m] # "dispatch" => active'[m] = {}
             /\ phase[m] = "exited" => quit_[m]
             /\ m \notin IOLoop \cup {Base} => phase[m] = "test"
             /\ m # Base /\ quit_[m] => server # "up" /\ connections_' = {}
             /\ m # Base /\ phase[m] = "exited" => pending'[m] = <<>>
    BY <1>2 DEF LoopsInv
<1>3. /\ server # "up" => phase[Base] = "exited"
      /\ server = "gone" => connections_' = {} /\ \A m \in IOLoop \cup {Base} : phase[m] = "exited"
    BY DEF LoopsInv
<1> QED
    BY <1>1, <1>2, <1>3, Zenon DEF LoopsInv

LEMMA PushElsewhere ==
    ASSUME NEW q \in Queues, NEW l, NEW f, NEW m \in Loop, m # l
    PROVE  Push(q, l, f)[m] = q[m]
BY DEF Push, Queues

LEMMA UserPushElsewhere ==
    ASSUME TypeOK, NEW u, NEW st, NEW d, NEW l, NEW m \in Loop, m # l
    PROVE  PendingAfter(u, st, d, l)[m] = pending[m]
<1>1. pending \in Queues
    BY TypeParts, Zenon DEF QueueTypes
<1>2. Push(pending, l, Bind("forceCloseInLoop", d))[m] = pending[m]
    BY <1>1, PushElsewhere, Zenon
<1> QED
    BY <1>2, Zenon DEF PendingAfter

LEMMA CallbackPush ==
    ASSUME TypeOK, NEW l \in Loop, NEW c \in Conn, NEW u, NEW d \in Conn,
           \/ connectEstablished(l, c, u, d)
           \/ handleClose(l, c, u, d)
           \/ connectDestroyed(l, c, u, d)
           \/ Callback(l, c, u, d, state_) /\ pending' = PendingAfter(u, state_, d, l)
    PROVE  \A m \in Loop \ {l, Base} : pending'[m] = pending[m]
<1> SUFFICES ASSUME NEW m \in Loop \ {l, Base} PROVE pending'[m] = pending[m]
    OBVIOUS
<1>1. \A st : PendingAfter(u, st, d, l)[m] = pending[m]
    BY UserPushElsewhere
<1>2. CASE connectEstablished(l, c, u, d)
    BY <1>1, <1>2 DEF connectEstablished
<1>3. CASE connectDestroyed(l, c, u, d)
    BY <1>1, <1>3 DEF connectDestroyed
<1>4. CASE pending' = PendingAfter(u, state_, d, l)
    BY <1>1, <1>4
<1>5. CASE handleClose(l, c, u, d)
  <2>1. PICK op \in FunctorOp : pending' = Push(PendingAfter(u, ClosedState(c), d, l), Base, Bind(op, c))
        BY <1>5 DEF handleClose, FunctorOp
  <2>2. ClosedState(c) \in StateType
        BY DEF TypeOK, StateType, ClosedState
  <2>3. PendingAfter(u, ClosedState(c), d, l) \in Queues
        BY <1>5, <2>2, CallbackTypes DEF handleClose
  <2> QED
        BY <1>1, <2>1, <2>3, PushElsewhere
<1> QED
    BY <1>2, <1>3, <1>4, <1>5

LEMMA LoopsHandling ==
    ASSUME TypeOK, LoopsInv, NEW l \in Loop, NEW ch, Handling(l, ch),
           \A m \in Loop \ {l, Base} : pending'[m] = pending[m], connections_' \subseteq connections_
    PROVE  LoopsInv'
<1>1. \A m \in Loop : active'[m] \subseteq active[m]
    BY DEF Handling, TypeOK
<1>2. /\ UNCHANGED <<batch, held, phase, quit_, loops_, server>>
      /\ phase[l] \in {"dispatch", "functors"}
    BY DEF Handling
<1> QED
    BY <1>1, <1>2, LoopsHandled

LEMMA LoopsRunning ==
    ASSUME TypeOK, LoopsInv, NEW l \in Loop, NEW op, NEW c, Running(l, op, c),
           \A m \in Loop \ {l, Base} : pending'[m] = pending[m], connections_' \subseteq connections_
    PROVE  LoopsInv'
<1>1. batch[l] \in Seq(Functor) /\ batch[l] # <<>>
    BY TypeParts DEF Running, QueueTypes, Queues
<1>2. batch'[l] = Tail(batch[l]) /\ \A m \in Loop \ {l} : batch'[m] = batch[m]
    BY DEF Running, TypeOK
<1>3. Bound(batch'[l]) \subseteq held[l]
    BY <1>1, <1>2, BoundTail DEF LoopsInv
<1>4. phase[l] = "functors" /\ UNCHANGED <<active, held, phase, quit_, loops_, server>>
    BY DEF Running
<1> QED
    BY <1>2, <1>3, <1>4, LoopsHandled

LEMMA QueueRunning ==
    ASSUME TypeOK, NEW l \in Loop, NEW op, NEW c, Running(l, op, c)
    PROVE  /\ Has(Queue, l, Bind(op, c))
           /\ batch' \in Queues
           /\ Moves(Queue, Joined(batch', pending), {Bind(op, c)}, {})
<1>1. batch \in Queues /\ pending \in Queues /\ batch[l] # <<>> /\ Head(batch[l]) = Bind(op, c)
      /\ batch' = Pop(batch, l)
    BY TypeParts DEF QueueTypes, Running, Pop
<1>2. Joined(batch', pending) = Pop(Queue, l) /\ Queue[l] # <<>> /\ Head(Queue[l]) = Bind(op, c)
    BY <1>1, JoinedPop DEF Queue
<1>3. Queue \in Queues
    BY <1>1, JoinedType DEF Queue
<1>4. Has(Queue, l, Bind(op, c))
  <2>1. Queue[l] \in Seq(Functor)
        BY <1>3 DEF Queues
  <2>2. 1 \in DOMAIN Queue[l] /\ Queue[l][1] = Bind(op, c)
        BY <1>2, <2>1
  <2> QED
        BY <2>2, Zenon DEF Has
<1> QED
    BY <1>2, <1>3, <1>4, MovesPop, RunningTypes

LEMMA RemovedInBase ==
    ASSUME TypeOK, PlaceInv, NEW l \in Loop, NEW c \in Conn, Running(l, "removeConnectionInLoop", c)
    PROVE  l = Base /\ loopOf[c] \in IOLoop
BY QueueRunning, Zenon DEF PlaceInv, PlaceOf

LEMMA LoopsStep == TypeOK /\ LoopsInv /\ PlaceInv /\ [NextShutdown]_vars => LoopsInv'
<1> SUFFICES ASSUME TypeOK, LoopsInv, PlaceInv, [NextShutdown]_vars PROVE LoopsInv'
    OBVIOUS
<1>t. /\ phase \in [Loop -> {"test", "poll", "dispatch", "functors", "exited"}]
      /\ quit_ \in [Loop -> BOOLEAN] /\ held \in [Loop -> SUBSET Conn]
      /\ batch \in Queues /\ pending \in Queues
      /\ active \in [Loop -> SUBSET (Conn \cup {"acceptor"})]
    BY TypeParts DEF LoopTypes, QueueTypes
<1>b. Base \in Loop /\ IOLoop \subseteq Loop /\ Base \notin IOLoop
    BY BaseIsLoop
<1>u. CASE UNCHANGED vars
    BY <1>u, Zenon DEF vars, connVars, serverVars, loopVars, LoopsInv, IOLoop
<1>l. ASSUME NEW l \in Loop, LoopStep(l) PROVE LoopsInv'
  <2>1. CASE Poll(l)
        BY <1>t, <1>b, <2>1 DEF Poll, LoopsInv, connVars, serverVars, IOLoop
  <2>2. CASE SwapFunctors(l)
        BY <1>t, <1>b, <2>2 DEF SwapFunctors, LoopsInv, connVars, serverVars, IOLoop
  <2>3. CASE BatchDone(l)
    <3>1. /\ batch[l] = <<>> /\ phase[l] = "functors"
          /\ held' = [held EXCEPT ![l] = {}] /\ phase' = [phase EXCEPT ![l] = "test"]
          /\ UNCHANGED <<batch, pending, active, quit_, loops_, server, connections_>>
          BY <2>3, Zenon DEF BatchDone, connVars, serverVars
    <3>2. Bound(batch[l]) = {} /\ IOLoop' = IOLoop
          BY <3>1 DEF Bound, IOLoop
    <3>3. \A m \in Loop : m # l => held'[m] = held[m] /\ phase'[m] = phase[m]
          BY <1>t, <3>1
    <3>4. held'[l] = {} /\ phase'[l] = "test"
          BY <1>t, <3>1
    <3> QED
          BY <1>t, <1>b, <3>1, <3>2, <3>3, <3>4 DEF LoopsInv, Bound
  <2>4. CASE TestQuit(l)
    <3>1. /\ l \in IOLoop \cup {Base} /\ phase[l] = "test" /\ server # "gone"
          /\ UNCHANGED <<connections_, loops_, server, batch, held, active, quit_>>
          BY <2>4 DEF TestQuit, serverVars, LoopsInv
    <3>2. CASE quit_[l]
      <4>1. /\ phase' = [phase EXCEPT ![l] = "exited"]
            /\ l # Base => pending' = [pending EXCEPT ![l] = <<>>]
            /\ l = Base => pending' = pending
            BY <2>4, <3>2 DEF TestQuit
      <4> QED
            BY <1>t, <1>b, <3>1, <3>2, <4>1 DEF LoopsInv, IOLoop, Queues
    <3>3. CASE ~quit_[l]
      <4>1. phase' = [phase EXCEPT ![l] = "poll"] /\ pending' = pending
            BY <2>4, <3>3 DEF TestQuit
      <4> QED
            BY <1>t, <1>b, <3>1, <3>3, <4>1 DEF LoopsInv, IOLoop
    <3> QED
          BY <3>2, <3>3
  <2>5. ASSUME NEW c \in Conn, handleReadError(l, c) PROVE LoopsInv'
        BY <2>5, LoopsHandling DEF handleReadError
  <2>6. ASSUME NEW c \in Conn, forceCloseTimer(l, c) PROVE LoopsInv'
    <3>1. \A m \in Loop \ {l, Base} : pending'[m] = pending[m]
          BY <2>6, UserPushElsewhere, SMTT(30) DEF forceCloseTimer
    <3> QED
          BY <2>6, <3>1, LoopsHandled DEF forceCloseTimer, serverVars
  <2>7. ASSUME NEW c \in Conn, RunRemoveConnection(l, c) PROVE LoopsInv'
    <3>1. l = Base /\ loopOf[c] \in IOLoop
          BY <2>7, RemovedInBase DEF RunRemoveConnection
    <3>2. server = "up" /\ phase[l] = "functors" /\ \A m \in Loop : m # Base => ~quit_[m] /\ phase[m] # "exited"
          BY <1>t, <1>b, <2>7, <3>1 DEF RunRemoveConnection, Running, LoopsInv
    <3>3. batch[l] \in Seq(Functor) /\ batch[l] # <<>> /\ batch'[l] = Tail(batch[l])
          /\ \A m \in Loop \ {l} : batch'[m] = batch[m]
          BY <1>t, <2>7 DEF RunRemoveConnection, Running, Queues
    <3>4. Bound(batch'[l]) \subseteq held[l]
          BY <3>3, BoundTail DEF LoopsInv
    <3>5. UNCHANGED <<held, active, phase, quit_, loops_, server>>
          BY <2>7 DEF RunRemoveConnection, Running
    <3> QED
          BY <3>1, <3>2, <3>3, <3>4, <3>5 DEF LoopsInv, IOLoop
  <2>8. ASSUME NEW c \in Conn, NEW d \in Conn, NEW u, handleReadMessage(l, c, u, d) PROVE LoopsInv'
        BY <2>8, LoopsHandling, CallbackPush DEF handleReadMessage
  <2>9. ASSUME NEW c \in Conn, NEW d \in Conn, NEW u, handleReadEof(l, c, u, d) PROVE LoopsInv'
        BY <2>9, LoopsHandling, CallbackPush DEF handleReadEof, handleClose, EraseConnection
  <2>10. ASSUME NEW c \in Conn, NEW d \in Conn, NEW u, RunConnectEstablished(l, c, u, d) PROVE LoopsInv'
        BY <2>10, LoopsRunning, CallbackPush DEF RunConnectEstablished
  <2>11. ASSUME NEW c \in Conn, NEW d \in Conn, NEW u, RunConnectDestroyed(l, c, u, d) PROVE LoopsInv'
        BY <2>11, LoopsRunning, CallbackPush DEF RunConnectDestroyed
  <2>12. ASSUME NEW c \in Conn, NEW d \in Conn, NEW u, forceCloseInLoop(l, c, u, d) PROVE LoopsInv'
    <3>1. connections_' \subseteq connections_
          BY <2>12 DEF forceCloseInLoop, handleClose, EraseConnection
    <3> QED
          BY <2>12, <3>1, LoopsRunning, CallbackPush DEF forceCloseInLoop
  <2> QED
        BY <1>l, <2>1, <2>2, <2>3, <2>4, <2>5, <2>6, <2>7, <2>8, <2>9, <2>10, <2>11, <2>12, Zenon DEF LoopStep
<1>a. CASE AcceptFails
    BY <1>a, <1>b, LoopsHandling DEF AcceptFails
<1>n. ASSUME NEW c \in Conn, NEW d \in Conn, NEW u, newConnection(c, u, d) PROVE LoopsInv'
  <2>1. phase[Base] = "dispatch" /\ UNCHANGED <<batch, held, phase, quit_, loops_, server>>
        /\ \A m \in Loop : active'[m] \subseteq active[m]
        BY <1>n, <1>t, <1>b DEF newConnection, Handling
  <2>2. server = "up" /\ \A m \in Loop : m # Base => ~quit_[m] /\ phase[m] # "exited"
        BY <1>t, <1>b, <2>1 DEF LoopsInv
  <2> QED
        BY <1>b, <2>1, <2>2 DEF LoopsInv, IOLoop
<1>s. CASE QuitBase
    BY <1>t, <1>b, <1>s DEF QuitBase, LoopsInv, connVars, serverVars, IOLoop
<1>d. CASE DtorBegins
    BY <1>t, <1>b, <1>d DEF DtorBegins, LoopsInv, connVars, loopVars, IOLoop
<1>e. CASE DtorEnds
    BY <1>t, <1>b, <1>e DEF DtorEnds, LoopsInv, connVars, IOLoop
<1>q. ASSUME NEW l \in Loop, DtorQuitLoop(l) PROVE LoopsInv'
    BY <1>t, <1>b, <1>q DEF DtorQuitLoop, LoopsInv, connVars, serverVars, IOLoop
<1>c. ASSUME NEW c \in Conn, NEW d \in Conn, NEW u, DtorConnection(c, u, d) PROVE LoopsInv'
  <2>1. server = "destructing" /\ c \in connections_ /\ connections_' \subseteq connections_
        /\ UNCHANGED <<loops_, server, batch, held, active, phase, quit_>>
        BY <1>c DEF DtorConnection
  <2>2. \A m \in Loop : m # Base => ~quit_[m] /\ phase[m] # "exited"
        BY <1>t, <1>b, <2>1 DEF LoopsInv
  <2> QED
        BY <1>b, <2>1, <2>2 DEF LoopsInv, IOLoop
<1> QED
    BY <1>u, <1>l, <1>a, <1>n, <1>s, <1>d, <1>e, <1>q, <1>c, Zenon DEF NextShutdown, Next, Accept, Shutdown
=============================================================================
