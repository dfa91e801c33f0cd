--------------------------- MODULE TcpServerSteps ----------------------------
(***************************************************************************)
(* The steps of TcpServer, by what they do to a connection: a step accepts *)
(* it, establishes it, closes it, destroys it, removes it from the map, or *)
(* leaves all connections as they are.                                     *)
(***************************************************************************)
EXTENDS TcpServerLoops

-----------------------------------------------------------------------------
(* What the handlers do to the connection they run for, and what they keep *)
(* of another one, on which user code may call shutdown or forceClose.     *)

KeepsConn(e, in) ==
    /\ state_'[e] = state_[e] \/ (state_[e] \in Up /\ state_'[e] \in Up)
    /\ callbacks'[e] = callbacks[e]
    /\ e \in connections_' <=> e \in connections_
    /\ e \in enabled' <=> e \in enabled
    /\ e \in channels_' <=> e \in channels_
    /\ \A m \in Loop : \A op : <<m, Bind(op, e)>> \in in => op = "forceCloseInLoop" /\ m = loopOf[e]

LEMMA CallbackKeeps ==
    ASSUME TypeOK, NEW l \in Loop, NEW c \in Conn, NEW u, NEW d \in Conn, NEW st \in StateType,
           Callback(l, c, u, d, st), NEW e \in Conn
    PROVE  /\ state_'[e] = st[e] \/ (st[e] \in Up /\ state_'[e] \in Up)
           /\ \A m, op : <<m, Bind(op, e)>> \in UserPush(u, st, d, l) =>
                  op = "forceCloseInLoop" /\ m = l /\ (e = c \/ loopOf[e] = l) /\ st[e] \in Up
<1>1. state_'[e] = st[e] \/ (st[e] \in Up /\ state_'[e] \in Up)
    BY DEF Callback, StateAfter, Closable, Up, StateType
<1>2. ASSUME NEW m, NEW op, <<m, Bind(op, e)>> \in UserPush(u, st, d, l)
      PROVE  op = "forceCloseInLoop" /\ m = l /\ (e = c \/ loopOf[e] = l) /\ st[e] \in Up
  <2>1. Closable(u, st, d) /\ <<m, Bind(op, e)>> = <<l, Bind("forceCloseInLoop", d)>>
        BY <1>2 DEF UserPush
  <2>2. m = l /\ op = "forceCloseInLoop" /\ e = d
        BY <2>1, BindEqual
  <2> QED
        BY <2>1, <2>2 DEF Closable, Up, Callback, Reachable
<1> QED
    BY <1>1, <1>2

LEMMA Established ==
    ASSUME TypeOK, NEW l \in Loop, NEW c \in Conn, NEW u, NEW d \in Conn, connectEstablished(l, c, u, d),
           connections_' \in {connections_, connections_ \cup {c}},
           batch' \in Queues, NEW out, Moves(Queue, Joined(batch', pending), out, {})
    PROVE  \E in :
              /\ Moves(Queue, Queue', out, in)
              /\ \A e \in Conn \ {c} : KeepsConn(e, in)
              /\ \A m \in Loop : \A op : <<m, Bind(op, c)>> \in in => op = "forceCloseInLoop" /\ m = l
              /\ state_'[c] \in Up /\ callbacks'[c] = Append(callbacks[c], "UP")
              /\ c \in enabled' /\ c \in channels_'
<1> DEFINE st == [state_ EXCEPT ![c] = "kConnected"]
           in == UserPush(u, st, d, l)
<1>1. /\ st \in StateType /\ st[c] = "kConnected" /\ \A e \in Conn \ {c} : st[e] = state_[e]
    BY DEF TypeOK, StateType
<1>2. /\ Callback(l, c, u, d, st) /\ pending' = PendingAfter(u, st, d, l)
      /\ enabled' = enabled \cup {c} /\ channels_' = channels_ \cup {c}
      /\ callbacks' = [callbacks EXCEPT ![c] = Append(@, "UP")]
    BY DEF connectEstablished
<1>3. pending \in Queues
    BY TypeParts DEF QueueTypes
<1> HIDE DEF st
<1>4. Moves(Queue, Queue', out, in)
    BY <1>2, <1>3, UserMoves DEF Queue
<1>5. \A e \in Conn : /\ state_'[e] = st[e] \/ (st[e] \in Up /\ state_'[e] \in Up)
                      /\ \A m, op : <<m, Bind(op, e)>> \in in =>
                            op = "forceCloseInLoop" /\ m = l /\ (e = c \/ loopOf[e] = l) /\ st[e] \in Up
    BY <1>1, <1>2, CallbackKeeps, Zenon
<1>6. callbacks'[c] = Append(callbacks[c], "UP") /\ \A e \in Conn \ {c} : callbacks'[e] = callbacks[e]
    BY <1>2 DEF TypeOK
<1> HIDE DEF in
<1>7. ASSUME NEW e \in Conn \ {c} PROVE KeepsConn(e, in)
    BY <1>1, <1>2, <1>5, <1>6, <1>7 DEF KeepsConn
<1>8. state_'[c] \in Up
    BY <1>1, <1>5 DEF Up
<1> QED
    BY <1>2, <1>4, <1>5, <1>6, <1>7, <1>8

LEMMA Closed ==
    ASSUME TypeOK, NEW l \in Loop, NEW c \in Conn, NEW u, NEW d \in Conn, handleClose(l, c, u, d),
           batch' \in Queues, NEW out, Moves(Queue, Joined(batch', pending), out, {})
    PROVE  \E in :
              /\ Moves(Queue, Queue', out, in)
              /\ \A e \in Conn \ {c} : KeepsConn(e, in)
              /\ \A m \in Loop : \A op : <<m, Bind(op, c)>> \in in <=>
                     /\ m = Base
                     /\ op = IF l = Base THEN "connectDestroyed" ELSE "removeConnectionInLoop"
              /\ state_'[c] = "kDisconnected" /\ callbacks'[c] = Append(callbacks[c], "DOWN")
              /\ c \notin enabled' /\ (c \in channels_' <=> c \in channels_)
              /\ c \in connections_' <=> l # Base /\ c \in connections_
<1> DEFINE st == ClosedState(c)
           im == UserPush(u, st, d, l)
           last == IF l = Base THEN "connectDestroyed" ELSE "removeConnectionInLoop"
           in == im \cup {<<Base, Bind(last, c)>>}
<1>1. /\ st \in StateType /\ st[c] = "kDisconnected" /\ \A e \in Conn \ {c} : st[e] = state_[e]
    BY DEF TypeOK, StateType, ClosedState
<1>2. /\ Callback(l, c, u, d, st)
      /\ pending' = Push(PendingAfter(u, st, d, l), Base, Bind(last, c))
      /\ enabled' = enabled \ {c} /\ channels_' = channels_
      /\ callbacks' = [callbacks EXCEPT ![c] = Append(@, "DOWN")]
      /\ connections_' = IF l = Base THEN connections_ \ {c} ELSE connections_
    BY DEF handleClose, DisableAll, EraseConnection
<1>3. pending \in Queues /\ Bind(last, c) \in Functor
      /\ last \in {"connectDestroyed", "removeConnectionInLoop"}
    BY TypeParts, BindType DEF QueueTypes, FunctorOp
<1> HIDE DEF st, last
<1>5. \A e \in Conn : /\ state_'[e] = st[e] \/ (st[e] \in Up /\ state_'[e] \in Up)
                      /\ \A m, op : <<m, Bind(op, e)>> \in im =>
                            op = "forceCloseInLoop" /\ m = l /\ (e = c \/ loopOf[e] = l) /\ st[e] \in Up
    BY <1>1, <1>2, CallbackKeeps, Zenon
<1>4. Moves(Queue, Queue', out, in)
  <2>1. PendingAfter(u, st, d, l) \in Queues
        /\ Moves(Queue, Joined(batch', PendingAfter(u, st, d, l)), out, im)
        BY <1>3, UserMoves
  <2>2. \A m \in Loop : <<m, Bind(last, c)>> \notin im
        BY <1>3, <1>5
  <2>3. Joined(batch', PendingAfter(u, st, d, l)) \in Queues
        BY <2>1, JoinedType
  <2>4. Queue' = Push(Joined(batch', PendingAfter(u, st, d, l)), Base, Bind(last, c))
        BY <1>2, <1>3, <2>1, JoinedPush, BaseIsLoop DEF Queue
  <2> QED
        BY <1>3, <2>1, <2>2, <2>3, <2>4, MovesPush, BaseIsLoop
<1>6. callbacks'[c] = Append(callbacks[c], "DOWN") /\ \A e \in Conn \ {c} : callbacks'[e] = callbacks[e]
    BY <1>2 DEF TypeOK
<1>7. \A m, op, e : <<m, Bind(op, e)>> \in in <=> <<m, Bind(op, e)>> \in im \/ (m = Base /\ op = last /\ e = c)
    BY BindEqual
<1> HIDE DEF in, im
<1>8. ASSUME NEW e \in Conn \ {c} PROVE KeepsConn(e, in)
    BY <1>1, <1>2, <1>5, <1>6, <1>7, <1>8 DEF KeepsConn
<1>9. state_'[c] = "kDisconnected" /\ \A m, op : <<m, Bind(op, c)>> \in in <=> m = Base /\ op = last
    BY <1>1, <1>5, <1>7 DEF Up
<1>10. c \notin enabled' /\ (c \in channels_' <=> c \in channels_)
       /\ (c \in connections_' <=> l # Base /\ c \in connections_)
    BY <1>2
<1> QED
    BY <1>4, <1>6, <1>8, <1>9, <1>10 DEF last

LEMMA Destroyed ==
    ASSUME TypeOK, NEW l \in Loop, NEW c \in Conn, NEW u, NEW d \in Conn, connectDestroyed(l, c, u, d),
           connections_' \in {connections_, connections_ \ {c}},
           batch' \in Queues, NEW out, Moves(Queue, Joined(batch', pending), out, {})
    PROVE  \E in :
              /\ Moves(Queue, Queue', out, in)
              /\ \A e \in Conn \ {c} : KeepsConn(e, in)
              /\ \A m \in Loop : \A op : <<m, Bind(op, c)>> \notin in
              /\ c \notin channels_'
              /\ \/ /\ state_[c] = "kConnected" /\ state_'[c] = "kDisconnected"
                    /\ callbacks'[c] = Append(callbacks[c], "DOWN") /\ c \notin enabled'
                 \/ /\ state_[c] # "kConnected" /\ state_'[c] = state_[c]
                    /\ callbacks'[c] = callbacks[c] /\ (c \in enabled' <=> c \in enabled)
<1>c. CASE state_[c] = "kConnected"
  <2> DEFINE st == ClosedState(c)
             in == UserPush(u, st, d, l)
  <2>1. /\ st \in StateType /\ st[c] = "kDisconnected" /\ \A e \in Conn \ {c} : st[e] = state_[e]
        BY DEF TypeOK, StateType, ClosedState
  <2>2. /\ Callback(l, c, u, d, st) /\ pending' = PendingAfter(u, st, d, l)
        /\ enabled' = enabled \ {c} /\ channels_' = channels_ \ {c}
        /\ callbacks' = [callbacks EXCEPT ![c] = Append(@, "DOWN")]
        BY <1>c DEF connectDestroyed, DisableAll
  <2>3. pending \in Queues
        BY TypeParts DEF QueueTypes
  <2> HIDE DEF st
  <2>4. Moves(Queue, Queue', out, in)
        BY <2>2, <2>3, UserMoves DEF Queue
  <2>5. \A e \in Conn : /\ state_'[e] = st[e] \/ (st[e] \in Up /\ state_'[e] \in Up)
                        /\ \A m, op : <<m, Bind(op, e)>> \in in =>
                              op = "forceCloseInLoop" /\ m = l /\ (e = c \/ loopOf[e] = l) /\ st[e] \in Up
        BY <2>1, <2>2, CallbackKeeps, Zenon
  <2>6. callbacks'[c] = Append(callbacks[c], "DOWN") /\ \A e \in Conn \ {c} : callbacks'[e] = callbacks[e]
        BY <2>2 DEF TypeOK
  <2> HIDE DEF in
  <2>7. ASSUME NEW e \in Conn \ {c} PROVE KeepsConn(e, in)
        BY <2>1, <2>2, <2>5, <2>6, <2>7 DEF KeepsConn
  <2>8. state_'[c] = "kDisconnected" /\ \A m, op : <<m, Bind(op, c)>> \notin in
        BY <2>1, <2>5 DEF Up
  <2>9. c \notin enabled' /\ c \notin channels_'
        BY <2>2
  <2> QED
        BY <1>c, <2>4, <2>6, <2>7, <2>8, <2>9
<1>n. CASE state_[c] # "kConnected"
  <2>1. UNCHANGED <<state_, callbacks, pending, enabled>> /\ channels_' = channels_ \ {c}
        BY <1>n DEF connectDestroyed
  <2>2. Moves(Queue, Queue', out, {})
        BY <2>1 DEF Queue
  <2>3. ASSUME NEW e \in Conn \ {c} PROVE KeepsConn(e, {})
        BY <2>1, <2>3 DEF KeepsConn
  <2> QED
        BY <1>n, <2>1, <2>2, <2>3
<1> QED
    BY <1>c, <1>n

-----------------------------------------------------------------------------
(* The steps, by what they do to one connection.                           *)

KeepsLoop(e) ==
    /\ loopOf'[e] = loopOf[e]
    /\ \A m \in Loop : e \in active'[m] => e \in active[m] \/ (e \in enabled /\ loopOf[e] = m)

Others(C, out, in) ==
    /\ Moves(Queue, Queue', out, in)
    /\ \A e \in C : KeepsConn(e, in) /\ KeepsLoop(e)

\* No connection changes, except that user code shuts one down.
Calm ==
    \E out, in :
        /\ Others(Conn, out, in)
        /\ (\A l \in Loop : ~quit_[l]) /\ server = "up" =>
               \A f \in out : \E e \in Conn : f = Bind("forceCloseInLoop", e)

\* newConnection for an I/O loop.
Accepts(c) ==
    \E in :
        /\ Others(Conn \ {c}, {}, in)
        /\ state_[c] = "none" /\ state_'[c] = "kConnecting" /\ callbacks'[c] = callbacks[c]
        /\ loopOf'[c] \in IOLoop
        /\ c \in connections_'
        /\ c \in enabled' <=> c \in enabled
        /\ c \in channels_' <=> c \in channels_
        /\ \A m \in Loop : c \in active'[m] => c \in active[m]
        /\ \A m \in Loop : \A op : <<m, Bind(op, c)>> \in in <=> op = "connectEstablished" /\ m = loopOf'[c]

\* connectEstablished, for the base loop inside newConnection.
Establishes(c) ==
    \E out, in :
        /\ Others(Conn \ {c}, out, in)
        /\ \/ state_[c] = "none" /\ loopOf'[c] = Base /\ out = {}
           \/ /\ loopOf[c] \in Loop /\ state_[c] = "kConnecting"
              /\ loopOf'[c] = loopOf[c] /\ out = {Bind("connectEstablished", c)}
              /\ Has(Queue, loopOf[c], Bind("connectEstablished", c))
              /\ c \in connections_' <=> c \in connections_
        /\ state_[c] = "none" => c \in connections_'
        /\ state_'[c] \in Up /\ callbacks'[c] = Append(callbacks[c], "UP")
        /\ c \in enabled' /\ c \in channels_'
        /\ \A m \in Loop : c \in active'[m] => c \in active[m]
        /\ \A m \in Loop : \A op : <<m, Bind(op, c)>> \in in => op = "forceCloseInLoop" /\ m = loopOf'[c]

\* handleClose.
Closes(c) ==
    \E out, in :
        /\ Others(Conn \ {c}, out, in)
        /\ out \subseteq {Bind("forceCloseInLoop", c)}
        /\ loopOf'[c] = loopOf[c]
        /\ state_[c] \in Up /\ state_'[c] = "kDisconnected"
        /\ callbacks'[c] = Append(callbacks[c], "DOWN")
        /\ c \notin enabled' /\ (c \in channels_' <=> c \in channels_)
        /\ c \in connections_' <=> loopOf[c] # Base /\ c \in connections_
        /\ \A m \in Loop : c \notin active'[m]
        /\ \A m \in Loop : \A op : <<m, Bind(op, c)>> \in in <=>
               /\ m = Base
               /\ op = IF loopOf[c] = Base THEN "connectDestroyed" ELSE "removeConnectionInLoop"

\* connectDestroyed, as a functor or inside ~TcpServer.
Destroys(c) ==
    \E out, in :
        /\ Others(Conn \ {c}, out, in)
        /\ \/ /\ loopOf[c] \in Loop /\ out = {Bind("connectDestroyed", c)}
              /\ Has(Queue, loopOf[c], Bind("connectDestroyed", c))
              /\ c \in connections_' <=> c \in connections_
           \/ out = {} /\ server = "destructing"
        /\ loopOf'[c] = loopOf[c]
        /\ c \in connections_' => c \in connections_
        /\ c \notin channels_'
        /\ \/ /\ state_[c] = "kConnected" /\ state_'[c] = "kDisconnected"
              /\ callbacks'[c] = Append(callbacks[c], "DOWN") /\ c \notin enabled'
           \/ /\ state_[c] # "kConnected" /\ state_'[c] = state_[c]
              /\ callbacks'[c] = callbacks[c] /\ (c \in enabled' <=> c \in enabled)
        /\ \A m \in Loop : c \notin active'[m]
        /\ \A m \in Loop : \A op : <<m, Bind(op, c)>> \notin in

\* removeConnectionInLoop, and ~TcpServer for an I/O loop.
Removes(c) ==
    \E out, in :
        /\ Others(Conn \ {c}, out, in)
        /\ \/ out = {Bind("removeConnectionInLoop", c)} /\ Has(Queue, Base, Bind("removeConnectionInLoop", c))
           \/ out = {} /\ server = "destructing"
        /\ loopOf[c] \in IOLoop /\ loopOf'[c] = loopOf[c]
        /\ state_'[c] = state_[c] /\ callbacks'[c] = callbacks[c]
        /\ c \in enabled' <=> c \in enabled
        /\ c \in channels_' <=> c \in channels_
        /\ c \notin connections_'
        /\ \A m \in Loop : c \in active'[m] => c \in active[m]
        /\ \A m \in Loop : \A op : <<m, Bind(op, c)>> \in in <=> op = "connectDestroyed" /\ m = loopOf[c]

LEMMA OthersKept ==
    ASSUME NEW c, \/ Accepts(c) \/ Establishes(c) \/ Closes(c) \/ Destroys(c) \/ Removes(c)
    PROVE  \E out, in : Others(Conn \ {c}, out, in)
<1>1. CASE Accepts(c)
    BY <1>1, Zenon DEF Accepts
<1>2. CASE Establishes(c)
    BY <1>2, Zenon DEF Establishes
<1>3. CASE Closes(c)
    BY <1>3, Zenon DEF Closes
<1>4. CASE Destroys(c)
    BY <1>4, Zenon DEF Destroys
<1>5. CASE Removes(c)
    BY <1>5, Zenon DEF Removes
<1> QED
    BY <1>1, <1>2, <1>3, <1>4, <1>5

LEMMA MovesDrop ==
    ASSUME TypeOK, NEW l \in Loop, batch[l] = <<>>, batch' = batch,
           pending' = [pending EXCEPT ![l] = <<>>]
    PROVE  Moves(Queue, Queue', {f \in Functor : Has(Queue, l, f)}, {})
<1>1. batch \in Queues /\ pending \in Queues
    BY TypeParts DEF QueueTypes
<1>2. /\ Queue'[l] = <<>>
      /\ \A m \in Loop : m # l => Queue'[m] = Queue[m]
    BY <1>1 DEF Queue, Joined, Queues
<1>3. \A f : ~Has(Queue', l, f)
    BY <1>2 DEF Has
<1>4. \A m \in Loop : \A f : m # l => (Has(Queue', m, f) <=> Has(Queue, m, f))
    BY <1>2, Zenon DEF Has
<1>5. \A f : Single(Queue, f) => Single(Queue', f)
    BY <1>2 DEF Single
<1>6. \A m \in Loop : \A f : Single(Queue, f) /\ Has(Queue, l, f) /\ Has(Queue, m, f) => m = l
    BY Zenon DEF Single, Has
<1> QED
    BY <1>3, <1>4, <1>5, <1>6, Zenon DEF Moves

LEMMA SwapKeepsQueue ==
    ASSUME TypeOK, LoopsInv, NEW l \in Loop, SwapFunctors(l)
    PROVE  Queue' = Queue
<1>1. batch \in Queues /\ pending \in Queues
    BY TypeParts DEF QueueTypes
<1>2. batch[l] = <<>>
    BY DEF LoopsInv, SwapFunctors
<1>3. \A s \in Seq(Functor) : s \o <<>> = s /\ <<>> \o s = s
    OBVIOUS
<1>4. ASSUME NEW m \in Loop PROVE batch'[m] \o pending'[m] = batch[m] \o pending[m]
  <2>1. CASE m = l
    <3>1. batch'[m] = pending[m] /\ pending'[m] = <<>> /\ batch[m] = <<>> /\ pending[m] \in Seq(Functor)
          BY <1>1, <1>2, <2>1 DEF SwapFunctors, Queues
    <3> QED
          BY <1>3, <3>1
  <2>2. CASE m # l
        BY <1>1, <2>2 DEF SwapFunctors, Queues
  <2> QED
        BY <2>1, <2>2
<1> QED
    BY <1>4, Zenon DEF Queue, Joined

LEMMA CalmWhen ==
    ASSUME NEW out, Moves(Queue, Queue', out, {}),
           UNCHANGED <<state_, loopOf, enabled, channels_, callbacks, connections_>>,
           \A e \in Conn : KeepsLoop(e),
           (\A l \in Loop : ~quit_[l]) /\ server = "up" =>
               \A f \in out : \E e \in Conn : f = Bind("forceCloseInLoop", e)
    PROVE  Calm
<1>1. \A e \in Conn : KeepsConn(e, {})
    BY DEF KeepsConn
<1> QED
    BY <1>1 DEF Calm, Others

\* User code runs for a connection whose own state the step leaves alone.
LEMMA CalmCallback ==
    ASSUME TypeOK, NEW l \in Loop, NEW c \in Conn, NEW u, NEW d \in Conn, loopOf[c] = l,
           Callback(l, c, u, d, state_), pending' = PendingAfter(u, state_, d, l), batch' = batch,
           UNCHANGED <<enabled, channels_, callbacks, connections_>>, \A e \in Conn : KeepsLoop(e)
    PROVE  Calm
<1> DEFINE in == UserPush(u, state_, d, l)
<1>1. state_ \in StateType /\ pending \in Queues /\ batch' \in Queues
    BY TypeParts DEF ConnTypes, QueueTypes
<1>2. Moves(Queue, Joined(batch', pending), {}, {})
    BY MovesSame DEF Queue
<1>3. Moves(Queue, Queue', {}, in)
    BY <1>1, <1>2, UserMoves DEF Queue
<1>4. ASSUME NEW e \in Conn
      PROVE  /\ state_'[e] = state_[e] \/ (state_[e] \in Up /\ state_'[e] \in Up)
             /\ \A m, op : <<m, Bind(op, e)>> \in in =>
                   op = "forceCloseInLoop" /\ m = l /\ (e = c \/ loopOf[e] = l) /\ state_[e] \in Up
    BY <1>1, CallbackKeeps
<1> HIDE DEF in
<1>5. \A e \in Conn : KeepsConn(e, in)
    BY <1>4 DEF KeepsConn
<1> QED
    BY <1>3, <1>5 DEF Calm, Others

LEMMA HandlingKeeps ==
    ASSUME TypeOK, NEW l \in Loop, NEW ch, Handling(l, ch), NEW e \in Conn
    PROVE  /\ \A m \in Loop : e \in active'[m] => e \in active[m]
           /\ loopOf'[e] = loopOf[e] => KeepsLoop(e)
           /\ e = ch => e \notin active'[l]
           /\ batch' = batch
BY DEF Handling, TypeOK, KeepsLoop

LEMMA RunningKeeps ==
    ASSUME NEW l \in Loop, NEW op, NEW c, Running(l, op, c), NEW e \in Conn
    PROVE  /\ \A m \in Loop : e \in active'[m] => e \in active[m]
           /\ KeepsLoop(e)
           /\ loopOf' = loopOf
BY DEF Running, KeepsLoop

LEMMA CalmLoopStep ==
    ASSUME TypeOK, LoopsInv, PlaceInv, NEW l \in Loop,
           \/ Poll(l) \/ SwapFunctors(l) \/ BatchDone(l) \/ TestQuit(l)
           \/ \E c \in Conn : handleReadError(l, c) \/ forceCloseTimer(l, c)
           \/ \E c, d \in Conn, u \in UserCall : handleReadMessage(l, c, u, d)
    PROVE  Calm
<1>1. CASE Poll(l)
  <2>1. Moves(Queue, Queue', {}, {})
        BY <1>1, MovesSame DEF Poll, Queue
  <2>2. \A e \in Conn : KeepsLoop(e)
    <3>1. \A m \in Loop : m # l => active'[m] = active[m]
          BY <1>1 DEF Poll, TypeOK
    <3>2. \A e \in Conn : e \in active'[l] => e \in enabled /\ loopOf[e] = l
          BY <1>1, ServerAssumption DEF Poll, TypeOK
    <3>3. loopOf' = loopOf
          BY <1>1 DEF Poll, connVars
    <3> QED
          BY <3>1, <3>2, <3>3 DEF KeepsLoop
  <2> QED
        BY <1>1, <2>1, <2>2, CalmWhen DEF Poll, connVars, serverVars
<1>2. CASE SwapFunctors(l)
  <2>1. Moves(Queue, Queue', {}, {})
        BY <1>2, MovesSame, SwapKeepsQueue
  <2> QED
        BY <1>2, <2>1, CalmWhen DEF SwapFunctors, connVars, serverVars, KeepsLoop
<1>3. CASE BatchDone(l)
  <2>1. Moves(Queue, Queue', {}, {})
        BY <1>3, MovesSame DEF BatchDone, Queue
  <2> QED
        BY <1>3, <2>1, CalmWhen DEF BatchDone, connVars, serverVars, KeepsLoop
<1>4. CASE TestQuit(l)
  <2>1. CASE quit_[l] /\ l # Base
    <3>1. batch[l] = <<>> /\ batch' = batch /\ pending' = [pending EXCEPT ![l] = <<>>]
          BY <1>4, <2>1 DEF TestQuit, LoopsInv
    <3>2. Moves(Queue, Queue', {f \in Functor : Has(Queue, l, f)}, {})
          BY <3>1, MovesDrop
    <3> QED
          BY <1>4, <2>1, <3>2, CalmWhen DEF TestQuit, connVars, serverVars, KeepsLoop
  <2>2. CASE ~(quit_[l] /\ l # Base)
    <3>1. batch' = batch /\ pending' = pending
          BY <1>4, <2>2 DEF TestQuit
    <3>2. Moves(Queue, Queue', {}, {})
          BY <3>1, MovesSame DEF Queue
    <3> QED
          BY <1>4, <3>2, CalmWhen DEF TestQuit, connVars, serverVars, KeepsLoop
  <2> QED
        BY <2>1, <2>2
<1>5. ASSUME NEW c \in Conn, handleReadError(l, c) PROVE Calm
  <2>1. Moves(Queue, Queue', {}, {})
        BY <1>5, MovesSame DEF handleReadError, Handling, Queue
  <2>2. \A e \in Conn : KeepsLoop(e)
        BY <1>5, HandlingKeeps DEF handleReadError, connVars
  <2> QED
        BY <1>5, <2>1, <2>2, CalmWhen DEF handleReadError, connVars
<1>6. ASSUME NEW c \in Conn, forceCloseTimer(l, c) PROVE Calm
  <2>1. CASE c \in dead
    <3>1. UNCHANGED <<pending, batch, active, loopOf>>
          BY <1>6, <2>1 DEF forceCloseTimer
    <3>2. Moves(Queue, Queue', {}, {}) /\ \A e \in Conn : KeepsLoop(e)
          BY <3>1, MovesSame DEF Queue, KeepsLoop
    <3> QED
          BY <1>6, <2>1, <3>2, CalmWhen DEF forceCloseTimer, serverVars
  <2>2. CASE c \notin dead
    <3> DEFINE in == UserPush("forceClose", state_, c, l)
    <3>1. /\ UNCHANGED <<batch, active, loopOf, enabled, channels_, callbacks, connections_>>
          /\ loopOf[c] = l /\ state_' = StateAfter("forceClose", state_, c)
          /\ pending' = PendingAfter("forceClose", state_, c, l)
          BY <1>6, <2>2 DEF forceCloseTimer, serverVars
    <3>2. state_ \in StateType /\ pending \in Queues /\ batch' \in Queues
          BY <3>1, TypeParts DEF ConnTypes, QueueTypes
    <3>3. Moves(Queue, Joined(batch', pending), {}, {})
          BY <3>1, MovesSame DEF Queue
    <3>4. Moves(Queue, Queue', {}, in)
          BY <3>1, <3>2, <3>3, UserMoves DEF Queue
    <3>5. \A e \in Conn : state_'[e] = state_[e] \/ (state_[e] \in Up /\ state_'[e] \in Up)
          BY <3>1, <3>2 DEF StateAfter, Closable, Up, StateType
    <3>6. \A e \in Conn : \A m, op : <<m, Bind(op, e)>> \in in => op = "forceCloseInLoop" /\ m = l /\ e = c
          BY BindEqual DEF UserPush
    <3> HIDE DEF in
    <3>7. \A e \in Conn : KeepsConn(e, in) /\ KeepsLoop(e)
      <4> SUFFICES ASSUME NEW e \in Conn PROVE KeepsConn(e, in) /\ KeepsLoop(e)
            OBVIOUS
      <4>1. \A m \in Loop : \A op : <<m, Bind(op, e)>> \in in =>
                op = "forceCloseInLoop" /\ m = loopOf[e]
        <5>1. loopOf[c] = l
              BY <3>1
        <5> QED
              BY <3>6, <5>1, SMTT(30)
      <4>2. KeepsConn(e, in)
            BY <3>1, <3>5, <4>1, Zenon DEF KeepsConn
      <4>3. KeepsLoop(e)
            BY <3>1, Zenon DEF KeepsLoop
      <4> QED
            BY <4>2, <4>3
    <3> QED
          BY <3>4, <3>7 DEF Calm, Others
  <2> QED
        BY <2>1, <2>2
<1>7. ASSUME NEW c \in Conn, NEW d \in Conn, NEW u, handleReadMessage(l, c, u, d) PROVE Calm
  <2>1. c \in active[l] /\ loopOf' = loopOf
        BY <1>7 DEF handleReadMessage, Handling
  <2>2. loopOf[c] = l
        BY <2>1 DEF PlaceInv, PlaceOf
  <2>3. batch' = batch /\ \A e \in Conn : KeepsLoop(e)
        BY <1>7, <2>1, HandlingKeeps DEF handleReadMessage
  <2> QED
        BY <1>7, <2>2, <2>3, CalmCallback DEF handleReadMessage
<1> QED
    BY <1>1, <1>2, <1>3, <1>4, <1>5, <1>6, <1>7

LEMMA AcceptStep ==
    ASSUME TypeOK, LoopsInv, PlaceInv, NEW c \in Conn, NEW u, NEW d \in Conn, newConnection(c, u, d)
    PROVE  Accepts(c) \/ Establishes(c)
<1>b. Base \in Loop /\ "acceptor" \notin Conn
    BY BaseIsLoop, ServerAssumption
<1>1. /\ Handling(Base, "acceptor") /\ state_[c] = "none"
      /\ loopOf' = [loopOf EXCEPT ![c] = getNextLoop]
      /\ connections_' = connections_ \cup {c}
    BY DEF newConnection
<1>2. loopOf'[c] = getNextLoop /\ \A e \in Conn \ {c} : loopOf'[e] = loopOf[e]
    BY <1>1 DEF TypeOK
<1>3. /\ \A e \in Conn \ {c} : KeepsLoop(e)
      /\ \A m \in Loop : c \in active'[m] => c \in active[m]
      /\ batch' = batch
    BY <1>1, <1>2, <1>b, HandlingKeeps
<1>4. /\ batch' \in Queues /\ pending \in Queues
      /\ Moves(Queue, Joined(batch', pending), {}, {})
    BY <1>3, TypeParts, MovesSame DEF Queue, QueueTypes
<1>5. CASE getNextLoop = Base /\ connectEstablished(Base, c, u, d)
  <2>1. PICK in :
              /\ Moves(Queue, Queue', {}, in)
              /\ \A e \in Conn \ {c} : KeepsConn(e, in)
              /\ \A m \in Loop : \A op : <<m, Bind(op, c)>> \in in => op = "forceCloseInLoop" /\ m = Base
              /\ state_'[c] \in Up /\ callbacks'[c] = Append(callbacks[c], "UP")
              /\ c \in enabled' /\ c \in channels_'
        BY <1>b, <1>1, <1>4, <1>5, Established
  <2>2. loopOf'[c] = Base /\ c \in connections_'
        BY <1>1, <1>2, <1>5
  <2> QED
        BY <1>1, <1>3, <2>1, <2>2, Zenon DEF Establishes, Others
<1>6. CASE /\ getNextLoop # Base
           /\ state_' = [state_ EXCEPT ![c] = "kConnecting"]
           /\ pending' = Push(pending, getNextLoop, Bind("connectEstablished", c))
           /\ UNCHANGED <<enabled, channels_, timer, callbacks, userRef>>
  <2> DEFINE f == Bind("connectEstablished", c)
             in == {} \cup {<<getNextLoop, f>>}
  <2>1. getNextLoop \in IOLoop /\ getNextLoop \in Loop /\ f \in Functor
        BY <1>6, NextLoopType, BindType DEF FunctorOp
  <2>2. Queue' = Push(Joined(batch', pending), getNextLoop, f)
        BY <1>4, <1>6, <2>1, JoinedPush DEF Queue
  <2>3. Moves(Queue, Queue', {}, in)
        BY <1>4, <2>1, <2>2, MovesPush, JoinedType
  <2>4. \A m, op, e : <<m, Bind(op, e)>> \in in <=> m = getNextLoop /\ op = "connectEstablished" /\ e = c
        BY BindEqual
  <2> HIDE DEF in
  <2>5. ASSUME NEW e \in Conn \ {c} PROVE KeepsConn(e, in)
        BY <1>1, <1>6, <2>4, <2>5 DEF KeepsConn, TypeOK
  <2>6. state_'[c] = "kConnecting"
        BY <1>6 DEF TypeOK
  <2>7. \A m \in Loop : \A op : <<m, Bind(op, c)>> \in in <=> op = "connectEstablished" /\ m = loopOf'[c]
        BY <1>2, <2>4, Zenon
  <2>8. c \in connections_' /\ callbacks'[c] = callbacks[c]
        /\ (c \in enabled' <=> c \in enabled) /\ (c \in channels_' <=> c \in channels_)
        BY <1>1, <1>6
  <2>9. loopOf'[c] \in IOLoop
        BY <1>2, <2>1
  <2> QED
        BY <1>1, <1>3, <2>3, <2>5, <2>6, <2>7, <2>8, <2>9, Zenon DEF Accepts, Others
<1> QED
    BY <1>5, <1>6 DEF newConnection

LEMMA EofStep ==
    ASSUME TypeOK, LoopsInv, PlaceInv, NEW l \in Loop, NEW c \in Conn, NEW u, NEW d \in Conn,
           handleReadEof(l, c, u, d)
    PROVE  Closes(c)
<1>1. Handling(l, c) /\ handleClose(l, c, u, d) /\ loopOf' = loopOf /\ c \in active[l]
    BY DEF handleReadEof, Handling
<1>2. loopOf[c] = l /\ state_[c] \in Up
    BY <1>1 DEF PlaceInv, PlaceOf
<1>3. /\ \A e \in Conn : KeepsLoop(e)
      /\ \A m \in Loop : c \in active'[m] => c \in active[m]
      /\ c \notin active'[l] /\ batch' = batch
    BY <1>1, HandlingKeeps
<1>4. \A m \in Loop : c \notin active'[m]
    BY <1>2, <1>3 DEF PlaceInv, PlaceOf
<1>5. batch' \in Queues /\ Moves(Queue, Joined(batch', pending), {}, {})
    BY <1>3, TypeParts, MovesSame DEF Queue, QueueTypes
<1>6. PICK in :
              /\ Moves(Queue, Queue', {}, in)
              /\ \A e \in Conn \ {c} : KeepsConn(e, in)
              /\ \A m \in Loop : \A op : <<m, Bind(op, c)>> \in in <=>
                     /\ m = Base
                     /\ op = IF l = Base THEN "connectDestroyed" ELSE "removeConnectionInLoop"
              /\ state_'[c] = "kDisconnected" /\ callbacks'[c] = Append(callbacks[c], "DOWN")
              /\ c \notin enabled' /\ (c \in channels_' <=> c \in channels_)
              /\ c \in connections_' <=> l # Base /\ c \in connections_
    BY <1>1, <1>5, Closed
<1>7. Others(Conn \ {c}, {}, in) /\ {} \subseteq {Bind("forceCloseInLoop", c)} /\ loopOf'[c] = loopOf[c]
    BY <1>1, <1>3, <1>6 DEF Others
<1>8. /\ c \in connections_' <=> loopOf[c] # Base /\ c \in connections_
      /\ \A m \in Loop : \A op : <<m, Bind(op, c)>> \in in <=>
             /\ m = Base
             /\ op = IF loopOf[c] = Base THEN "connectDestroyed" ELSE "removeConnectionInLoop"
  <2>1. loopOf[c] = l
        BY <1>2
  <2> QED
        BY <1>6, <2>1, Zenon
<1>9. /\ state_[c] \in Up /\ state_'[c] = "kDisconnected"
      /\ callbacks'[c] = Append(callbacks[c], "DOWN")
      /\ c \notin enabled' /\ (c \in channels_' <=> c \in channels_)
    BY <1>2, <1>6
<1> SUFFICES \E out, i : Closes(c)!(out, i)
    BY DEF Closes
<1> WITNESS {}, in
<1> QED
    BY <1>4, <1>7, <1>8, <1>9, Zenon

LEMMA ForceCloseStep ==
    ASSUME TypeOK, LoopsInv, PlaceInv, NEW l \in Loop, NEW c \in Conn, NEW u, NEW d \in Conn,
           forceCloseInLoop(l, c, u, d)
    PROVE  Closes(c) \/ Calm
<1>1. Running(l, "forceCloseInLoop", c)
    BY DEF forceCloseInLoop
<1>2. /\ loopOf[c] = l /\ batch' \in Queues
      /\ Moves(Queue, Joined(batch', pending), {Bind("forceCloseInLoop", c)}, {})
    BY <1>1, QueueRunning DEF PlaceInv, PlaceOf
<1>3. /\ \A e \in Conn : KeepsLoop(e)
      /\ \A m \in Loop : c \in active'[m] => c \in active[m]
      /\ loopOf' = loopOf
    BY <1>1, RunningKeeps
<1>4. CASE ForceClosable(c) /\ handleClose(l, c, u, d)
  <2>1. active[l] = {} /\ state_[c] \in Up
        BY <1>1, <1>4 DEF Running, LoopsInv, ForceClosable, Up
  <2>2. \A m \in Loop : c \notin active'[m]
        BY <1>2, <1>3, <2>1 DEF PlaceInv, PlaceOf
  <2>3. PICK in :
              /\ Moves(Queue, Queue', {Bind("forceCloseInLoop", c)}, in)
              /\ \A e \in Conn \ {c} : KeepsConn(e, in)
              /\ \A m \in Loop : \A op : <<m, Bind(op, c)>> \in in <=>
                     /\ m = Base
                     /\ op = IF l = Base THEN "connectDestroyed" ELSE "removeConnectionInLoop"
              /\ state_'[c] = "kDisconnected" /\ callbacks'[c] = Append(callbacks[c], "DOWN")
              /\ c \notin enabled' /\ (c \in channels_' <=> c \in channels_)
              /\ c \in connections_' <=> l # Base /\ c \in connections_
        BY <1>2, <1>4, Closed
  <2>4. Others(Conn \ {c}, {Bind("forceCloseInLoop", c)}, in) /\ loopOf'[c] = loopOf[c]
        BY <1>3, <2>3 DEF Others
  <2> QED
        BY <1>2, <2>1, <2>2, <2>3, <2>4 DEF Closes
<1>5. CASE ~ForceClosable(c)
  <2>1. UNCHANGED <<state_, loopOf, enabled, channels_, callbacks, connections_, pending>>
        BY <1>3, <1>5 DEF forceCloseInLoop
  <2>2. Moves(Queue, Queue', {Bind("forceCloseInLoop", c)}, {})
        BY <1>2, <2>1 DEF Queue
  <2> QED
        BY <1>3, <2>1, <2>2, CalmWhen
<1> QED
    BY <1>4, <1>5 DEF forceCloseInLoop

LEMMA EstablishStep ==
    ASSUME TypeOK, LoopsInv, PlaceInv, NEW l \in Loop, NEW c \in Conn, NEW u, NEW d \in Conn,
           RunConnectEstablished(l, c, u, d)
    PROVE  Establishes(c)
<1>1. /\ Running(l, "connectEstablished", c) /\ connectEstablished(l, c, u, d)
      /\ connections_' = connections_
    BY DEF RunConnectEstablished
<1>2. /\ Has(Queue, l, Bind("connectEstablished", c)) /\ batch' \in Queues
      /\ Moves(Queue, Joined(batch', pending), {Bind("connectEstablished", c)}, {})
    BY <1>1, QueueRunning
<1>3. loopOf[c] = l /\ state_[c] = "kConnecting"
    BY <1>2 DEF PlaceInv, PlaceOf
<1>4. /\ \A e \in Conn : KeepsLoop(e)
      /\ \A m \in Loop : c \in active'[m] => c \in active[m]
      /\ loopOf'[c] = loopOf[c]
    BY <1>1, RunningKeeps
<1>5. PICK in :
              /\ Moves(Queue, Queue', {Bind("connectEstablished", c)}, in)
              /\ \A e \in Conn \ {c} : KeepsConn(e, in)
              /\ \A m \in Loop : \A op : <<m, Bind(op, c)>> \in in => op = "forceCloseInLoop" /\ m = l
              /\ state_'[c] \in Up /\ callbacks'[c] = Append(callbacks[c], "UP")
              /\ c \in enabled' /\ c \in channels_'
    BY <1>1, <1>2, Established
<1>6. Others(Conn \ {c}, {Bind("connectEstablished", c)}, in)
    BY <1>4, <1>5 DEF Others
<1> QED
    BY <1>1, <1>2, <1>3, <1>4, <1>5, <1>6 DEF Establishes

LEMMA DestroyStep ==
    ASSUME TypeOK, LoopsInv, PlaceInv, NEW l \in Loop, NEW c \in Conn, NEW u, NEW d \in Conn,
           RunConnectDestroyed(l, c, u, d)
    PROVE  Destroys(c)
<1>1. /\ Running(l, "connectDestroyed", c) /\ connectDestroyed(l, c, u, d)
      /\ connections_' = connections_
    BY DEF RunConnectDestroyed
<1>2. /\ Has(Queue, l, Bind("connectDestroyed", c)) /\ batch' \in Queues
      /\ Moves(Queue, Joined(batch', pending), {Bind("connectDestroyed", c)}, {})
    BY <1>1, QueueRunning
<1>3. loopOf[c] = l
    BY <1>2 DEF PlaceInv, PlaceOf
<1>4. /\ \A e \in Conn : KeepsLoop(e)
      /\ \A m \in Loop : c \in active'[m] => c \in active[m]
      /\ loopOf'[c] = loopOf[c]
    BY <1>1, RunningKeeps
<1>5. active[l] = {}
    BY <1>1 DEF Running, LoopsInv
<1>6. \A m \in Loop : c \notin active'[m]
    BY <1>3, <1>4, <1>5 DEF PlaceInv, PlaceOf
<1>7. PICK in :
              /\ Moves(Queue, Queue', {Bind("connectDestroyed", c)}, in)
              /\ \A e \in Conn \ {c} : KeepsConn(e, in)
              /\ \A m \in Loop : \A op : <<m, Bind(op, c)>> \notin in
              /\ c \notin channels_'
              /\ \/ /\ state_[c] = "kConnected" /\ state_'[c] = "kDisconnected"
                    /\ callbacks'[c] = Append(callbacks[c], "DOWN") /\ c \notin enabled'
                 \/ /\ state_[c] # "kConnected" /\ state_'[c] = state_[c]
                    /\ callbacks'[c] = callbacks[c] /\ (c \in enabled' <=> c \in enabled)
    BY <1>1, <1>2, Destroyed
<1>8. Others(Conn \ {c}, {Bind("connectDestroyed", c)}, in)
    BY <1>4, <1>7 DEF Others
<1> QED
    BY <1>1, <1>2, <1>3, <1>4, <1>6, <1>7, <1>8 DEF Destroys

LEMMA RemoveStep ==
    ASSUME TypeOK, LoopsInv, PlaceInv, NEW l \in Loop, NEW c \in Conn, RunRemoveConnection(l, c)
    PROVE  Removes(c)
<1> DEFINE f == Bind("connectDestroyed", c)
           in == {} \cup {<<loopOf[c], f>>}
           out == {Bind("removeConnectionInLoop", c)}
<1>1. /\ Running(l, "removeConnectionInLoop", c)
      /\ connections_' = connections_ \ {c} /\ pending' = Push(pending, loopOf[c], f)
      /\ UNCHANGED <<state_, enabled, channels_, callbacks>>
    BY DEF RunRemoveConnection, removeConnectionInLoop, EraseConnection
<1>2. l = Base /\ loopOf[c] \in IOLoop /\ loopOf[c] \in Loop /\ f \in Functor
    BY <1>1, RemovedInBase, BaseIsLoop, BindType DEF FunctorOp
<1>3. Has(Queue, Base, Bind("removeConnectionInLoop", c)) /\ batch' \in Queues /\ pending \in Queues
      /\ Moves(Queue, Joined(batch', pending), out, {})
    BY <1>1, <1>2, QueueRunning, TypeParts DEF QueueTypes
<1>4. Moves(Queue, Queue', out, in)
  <2>1. Queue' = Push(Joined(batch', pending), loopOf[c], f)
        BY <1>1, <1>2, <1>3, JoinedPush DEF Queue
  <2> QED
        BY <1>2, <1>3, <2>1, MovesPush, JoinedType
<1>5. /\ \A e \in Conn : KeepsLoop(e)
      /\ \A m \in Loop : c \in active'[m] => c \in active[m]
      /\ loopOf'[c] = loopOf[c]
    BY <1>1, RunningKeeps
<1>6. \A m, op, e : <<m, Bind(op, e)>> \in in <=> op = "connectDestroyed" /\ m = loopOf[c] /\ e = c
    BY BindEqual
<1> HIDE DEF in, out
<1>7. ASSUME NEW e \in Conn \ {c} PROVE KeepsConn(e, in)
    BY <1>1, <1>6, <1>7 DEF KeepsConn
<1>8. Others(Conn \ {c}, out, in)
    BY <1>4, <1>5, <1>7 DEF Others
<1> QED
    BY <1>1, <1>2, <1>3, <1>5, <1>6, <1>8 DEF Removes, out

LEMMA DtorStep ==
    ASSUME TypeOK, LoopsInv, PlaceInv, NEW c \in Conn, NEW u, NEW d \in Conn, DtorConnection(c, u, d)
    PROVE  Destroys(c) \/ Removes(c)
<1>1. /\ server = "destructing" /\ c \in connections_ /\ connections_' = connections_ \ {c}
      /\ UNCHANGED <<loopOf, batch, active>>
    BY DEF DtorConnection
<1>2. /\ \A e \in Conn : KeepsLoop(e)
      /\ loopOf'[c] = loopOf[c] /\ active' = active
    BY <1>1 DEF KeepsLoop
<1>3. batch' \in Queues /\ pending \in Queues /\ Moves(Queue, Joined(batch', pending), {}, {})
    BY <1>1, TypeParts, MovesSame DEF Queue, QueueTypes
<1>4. CASE loopOf[c] = Base /\ connectDestroyed(Base, c, u, d)
  <2>1. PICK in :
              /\ Moves(Queue, Queue', {}, in)
              /\ \A e \in Conn \ {c} : KeepsConn(e, in)
              /\ \A m \in Loop : \A op : <<m, Bind(op, c)>> \notin in
              /\ c \notin channels_'
              /\ \/ /\ state_[c] = "kConnected" /\ state_'[c] = "kDisconnected"
                    /\ callbacks'[c] = Append(callbacks[c], "DOWN") /\ c \notin enabled'
                 \/ /\ state_[c] # "kConnected" /\ state_'[c] = state_[c]
                    /\ callbacks'[c] = callbacks[c] /\ (c \in enabled' <=> c \in enabled)
        BY <1>1, <1>3, <1>4, Destroyed, BaseIsLoop
  <2>2. phase[Base] = "exited" /\ active[Base] = {}
        BY <1>1, BaseIsLoop DEF LoopsInv
  <2>3. \A m \in Loop : c \notin active'[m]
        BY <1>2, <1>4, <2>2 DEF PlaceInv, PlaceOf
  <2>4. Others(Conn \ {c}, {}, in)
        BY <1>2, <2>1 DEF Others
  <2> QED
        BY <1>1, <1>2, <2>1, <2>3, <2>4 DEF Destroys
<1>5. CASE /\ loopOf[c] # Base
           /\ pending' = Push(pending, loopOf[c], Bind("connectDestroyed", c))
           /\ UNCHANGED <<state_, enabled, channels_, timer, callbacks, userRef>>
  <2> DEFINE f == Bind("connectDestroyed", c)
             in == {} \cup {<<loopOf[c], f>>}
  <2>1. loopOf[c] \in IOLoop /\ loopOf[c] \in Loop /\ f \in Functor
        BY <1>1, <1>5, BaseIsLoop, BindType DEF PlaceInv, PlaceOf, FunctorOp
  <2>2. Queue' = Push(Joined(batch', pending), loopOf[c], f)
        BY <1>3, <1>5, <2>1, JoinedPush DEF Queue
  <2>3. Moves(Queue, Queue', {}, in)
        BY <1>3, <2>1, <2>2, MovesPush, JoinedType
  <2>4. \A m, op, e : <<m, Bind(op, e)>> \in in <=> op = "connectDestroyed" /\ m = loopOf[c] /\ e = c
        BY BindEqual
  <2> HIDE DEF in
  <2>5. ASSUME NEW e \in Conn \ {c} PROVE KeepsConn(e, in)
        BY <1>1, <1>5, <2>4, <2>5 DEF KeepsConn
  <2>6. Others(Conn \ {c}, {}, in)
        BY <1>2, <2>3, <2>5 DEF Others
  <2> QED
        BY <1>1, <1>2, <1>5, <2>1, <2>4, <2>6 DEF Removes
<1> QED
    BY <1>4, <1>5 DEF DtorConnection

\* Every step, of the loops and of ~TcpServer.
LEMMA Steps ==
    CoreInv /\ [NextShutdown]_vars =>
        Calm \/ \E c \in Conn : Accepts(c) \/ Establishes(c) \/ Closes(c) \/ Destroys(c) \/ Removes(c)
<1> SUFFICES ASSUME TypeOK, LoopsInv, PlaceInv, [NextShutdown]_vars
             PROVE  Calm \/ \E c \in Conn : Accepts(c) \/ Establishes(c) \/ Closes(c) \/ Destroys(c) \/ Removes(c)
    BY DEF CoreInv
<1> DEFINE Goal == Calm \/ \E c \in Conn : Accepts(c) \/ Establishes(c) \/ Closes(c) \/ Destroys(c) \/ Removes(c)
<1>u. CASE UNCHANGED <<batch, pending, connVars, connections_, active>>
  <2>1. Moves(Queue, Queue', {}, {})
        BY <1>u, MovesSame DEF Queue
  <2> QED
        BY <1>u, <2>1, CalmWhen DEF connVars, KeepsLoop
<1>l. ASSUME NEW l \in Loop, LoopStep(l) PROVE Goal
    BY <1>l, CalmLoopStep, EofStep, ForceCloseStep, EstablishStep, DestroyStep, RemoveStep, Zenon DEF LoopStep
<1>a. CASE AcceptFails
  <2>1. Moves(Queue, Queue', {}, {})
        BY <1>a, MovesSame DEF AcceptFails, Handling, Queue
  <2>2. \A e \in Conn : KeepsLoop(e)
        BY <1>a, HandlingKeeps, BaseIsLoop DEF AcceptFails, connVars
  <2> QED
        BY <1>a, <2>1, <2>2, CalmWhen DEF AcceptFails, connVars
<1>e. CASE DtorEnds
  <2>1. Base \in Loop /\ batch[Base] = <<>> /\ server # "up"
        BY <1>e, BaseIsLoop DEF DtorEnds, LoopsInv
  <2>2. Moves(Queue, Queue', {f \in Functor : Has(Queue, Base, f)}, {})
        BY <1>e, <2>1, MovesDrop DEF DtorEnds
  <2> QED
        BY <1>e, <2>1, <2>2, CalmWhen DEF DtorEnds, connVars, KeepsLoop
<1>s. QuitBase \/ DtorBegins \/ (\E l \in Loop : DtorQuitLoop(l)) \/ UNCHANGED vars
        => UNCHANGED <<batch, pending, connVars, connections_, active>>
    BY DEF QuitBase, DtorBegins, DtorQuitLoop, vars, serverVars, loopVars
<1>n. (\E c, d \in Conn, u \in UserCall : newConnection(c, u, d)) => Goal
    BY AcceptStep
<1>c. (\E c, d \in Conn, u \in UserCall : DtorConnection(c, u, d)) => Goal
    BY DtorStep
<1> QED
    BY <1>u, <1>l, <1>a, <1>n, <1>s, <1>e, <1>c, Zenon DEF NextShutdown, Next, Accept, Shutdown
=============================================================================
