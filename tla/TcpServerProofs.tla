--------------------------- MODULE TcpServerProofs ---------------------------
(***************************************************************************)
(* Theorems about TcpServer, for any number of connections and I/O loops.  *)
(* While the server is up: each connection is torn down once, events reach *)
(* only live connections, a destroyed connection is disconnected and out   *)
(* of the poller, and user code sees what ConnectionLife promises.  When   *)
(* the server is destroyed: callbacks stay in order, and no connection is  *)
(* left behind.                                                            *)
(***************************************************************************)
EXTENDS TcpServerSteps

-----------------------------------------------------------------------------
(* PlaceInv.                                                               *)

\* What no step of a loop does.
Fixed ==
    /\ server' = server /\ quit_' = quit_ /\ loops_' = loops_
    /\ dead' = dead \/ Destruct

LEMMA ServeFixed == [Next]_vars => Fixed
<1>1. ASSUME NEW l, Poll(l) \/ SwapFunctors(l) \/ BatchDone(l) \/ TestQuit(l) PROVE Fixed
    BY <1>1 DEF Fixed, Poll, SwapFunctors, BatchDone, TestQuit, serverVars
<1>2. ASSUME NEW l, NEW c, handleReadError(l, c) \/ forceCloseTimer(l, c) \/ RunRemoveConnection(l, c) PROVE Fixed
    BY <1>2 DEF Fixed, handleReadError, forceCloseTimer, RunRemoveConnection, Handling, Running, serverVars
<1>3. ASSUME NEW l, NEW c, NEW u, NEW d, handleReadMessage(l, c, u, d) \/ handleReadEof(l, c, u, d) PROVE Fixed
    BY <1>3 DEF Fixed, handleReadMessage, handleReadEof, Handling
<1>4. ASSUME NEW l, NEW c, NEW u, NEW d,
             \/ RunConnectEstablished(l, c, u, d) \/ RunConnectDestroyed(l, c, u, d) \/ forceCloseInLoop(l, c, u, d)
      PROVE  Fixed
    BY <1>4 DEF Fixed, RunConnectEstablished, RunConnectDestroyed, forceCloseInLoop, Running
<1>5. ASSUME NEW l, LoopStep(l) PROVE Fixed
    BY <1>1, <1>2, <1>3, <1>4, <1>5, Zenon DEF LoopStep
<1>6. ASSUME Accept PROVE Fixed
    BY <1>6 DEF Fixed, Accept, AcceptFails, newConnection, Handling
<1>7. ASSUME UNCHANGED vars PROVE Fixed
    BY <1>7 DEF Fixed, vars, serverVars, loopVars
<1> QED
    BY <1>5, <1>6, <1>7, Zenon DEF Next

LEMMA LoopsFixed == [NextShutdown]_vars => IOLoop' = IOLoop
<1>1. [Next]_vars => loops_' = loops_
    BY ServeFixed DEF Fixed
<1>2. Shutdown => loops_' = loops_
    BY DEF Shutdown, QuitBase, DtorBegins, DtorEnds, DtorConnection, DtorQuitLoop, serverVars
<1> QED
    BY <1>1, <1>2 DEF NextShutdown, IOLoop

\* What a step does to one functor in the queue.
MovesOne(f, out, in) ==
    /\ \A m \in Loop : /\ Has(Queue', m, f) => Has(Queue, m, f) \/ <<m, f>> \in in
                       /\ <<m, f>> \in in => Has(Queue', m, f)
                       /\ Has(Queue, m, f) /\ f \notin out => Has(Queue', m, f)
                       /\ f \in out /\ Single(Queue, f) /\ Has(Queue', m, f) => <<m, f>> \in in
    /\ Single(Queue, f) /\ ((\A m \in Loop : <<m, f>> \notin in) \/ (\A m \in Loop : ~Has(Queue, m, f)))
           => Single(Queue', f)

LEMMA MovesFor ==
    ASSUME NEW out, NEW in, Moves(Queue, Queue', out, in), NEW e \in Conn
    PROVE  \A op \in FunctorOp : MovesOne(Bind(op, e), out, in)
<1>1. \A op \in FunctorOp : Bind(op, e) \in Functor
    BY BindType
<1> QED
    BY <1>1, Zenon DEF Moves, MovesOne

LEMMA PlaceKept ==
    ASSUME NEW e \in Conn, PlaceOf(e), IOLoop' = IOLoop,
           NEW out, NEW in, Moves(Queue, Queue', out, in), KeepsConn(e, in), KeepsLoop(e)
    PROVE  PlaceOf(e)'
<1>1. CallbacksOf(state_'[e]) = CallbacksOf(state_[e])
    BY DEF KeepsConn, CallbacksOf, Up
<1>2. \A m \in Loop, op \in FunctorOp : <<m, Bind(op, e)>> \in in => op = "forceCloseInLoop" /\ m = loopOf[e]
    BY DEF KeepsConn
<1>3. /\ Single(Queue', Bind("connectEstablished", e))
      /\ \A l \in Loop : \A op \in FunctorOp :
            Has(Queue', l, Bind(op, e)) => Has(Queue, l, Bind(op, e)) \/ (op = "forceCloseInLoop" /\ l = loopOf[e])
    BY <1>2, MovesFor DEF PlaceOf, FunctorOp, MovesOne
<1>4. /\ state_'[e] = "none" <=> state_[e] = "none"
      /\ state_'[e] = "kConnecting" <=> state_[e] = "kConnecting"
      /\ state_'[e] \in Up <=> state_[e] \in Up
    BY DEF KeepsConn, Up
<1>5. \A l \in Loop : e \in active'[l] => l = loopOf[e] /\ state_[e] \in Up
    BY DEF PlaceOf, KeepsLoop
<1> QED
    BY <1>1, <1>3, <1>4, <1>5 DEF PlaceOf, KeepsConn, KeepsLoop, FunctorOp

LEMMA UpDown == Append(<<"UP">>, "DOWN") = <<"UP", "DOWN">>
<1> DEFINE S == {"UP", "DOWN"}
           s == <<"UP">>
           t == Append(s, "DOWN")
<1>1. s \in Seq(S) /\ Len(s) = 1 /\ s[1] = "UP"
    OBVIOUS
<1>2. t \in Seq(S) /\ Len(t) = 2 /\ t[1] = "UP" /\ t[2] = "DOWN"
    BY <1>1
<1>3. ASSUME NEW x \in Seq(S), Len(x) = 2, x[1] = "UP", x[2] = "DOWN" PROVE x = <<"UP", "DOWN">>
    BY <1>3
<1> QED
    BY <1>2, <1>3

LEMMA PlaceStep == CoreInv /\ [NextShutdown]_vars => PlaceInv'
<1> SUFFICES ASSUME TypeOK, LoopsInv, PlaceInv, [NextShutdown]_vars PROVE PlaceInv'
    BY DEF CoreInv
<1>i. IOLoop' = IOLoop /\ IOLoop \subseteq Loop /\ Base \in Loop /\ NoLoop \notin Loop /\ Base \notin IOLoop
    BY LoopsFixed, BaseIsLoop, ServerAssumption
<1>k. ASSUME NEW C, NEW out, NEW in, Others(C, out, in) PROVE \A e \in C \cap Conn : PlaceOf(e)'
    BY <1>i, <1>k, PlaceKept DEF PlaceInv, Others
<1>0. CASE Calm
    BY <1>0, <1>k DEF Calm, PlaceInv
<1>f. ASSUME NEW c \in Conn, PlaceOf(c)',
             \E out, in : Others(Conn \ {c}, out, in)
      PROVE  PlaceInv'
    BY <1>f, <1>k DEF PlaceInv
<1>1. ASSUME NEW c \in Conn, Accepts(c) PROVE PlaceInv'
  <2>1. PICK in : Accepts(c)!(in)
        BY <1>1 DEF Accepts
  <2>2. Moves(Queue, Queue', {}, in)
        BY <2>1 DEF Others
  <2>m. \A op \in FunctorOp : MovesOne(Bind(op, c), {}, in)
        BY <2>2, MovesFor
  <2>3. PlaceOf(c) /\ loopOf[c] = NoLoop /\ callbacks[c] = <<>> /\ c \notin enabled /\ \A m \in Loop : c \notin active[m]
        BY <1>i, <2>1 DEF PlaceInv, PlaceOf, CallbacksOf, Up
  <2>4. \A m \in Loop : \A op \in FunctorOp : ~Has(Queue, m, Bind(op, c))
        BY <1>i, <2>3 DEF PlaceOf, FunctorOp
  <2>5. /\ Single(Queue', Bind("connectEstablished", c))
        /\ \A m \in Loop : \A op \in FunctorOp :
              Has(Queue', m, Bind(op, c)) => op = "connectEstablished" /\ m = loopOf'[c]
        BY <2>1, <2>3, <2>4, <2>m DEF PlaceOf, FunctorOp, MovesOne
  <2>6. PlaceOf(c)'
        BY <1>i, <2>1, <2>3, <2>5 DEF PlaceOf, FunctorOp, CallbacksOf
  <2> QED
        BY <1>f, <2>1, <2>6
<1>2. ASSUME NEW c \in Conn, Establishes(c) PROVE PlaceInv'
  <2>1. PICK out, in : Establishes(c)!(out, in)
        BY <1>2 DEF Establishes
  <2>2. Moves(Queue, Queue', out, in)
        BY <2>1 DEF Others
  <2>m. \A op \in FunctorOp : MovesOne(Bind(op, c), out, in)
        BY <2>2, MovesFor
  <2>3. /\ PlaceOf(c) /\ state_[c] \in {"none", "kConnecting"} /\ callbacks[c] = <<>>
        /\ loopOf'[c] \in IOLoop \cup {Base} /\ \A m \in Loop : c \notin active[m]
        BY <1>i, <2>1 DEF PlaceInv, PlaceOf, CallbacksOf, Up
  <2>a. \A m \in Loop, op \in FunctorOp : <<m, Bind(op, c)>> \in in => op = "forceCloseInLoop" /\ m = loopOf'[c]
        BY <2>1
  <2>s. Single(Queue, Bind("connectEstablished", c))
        BY <2>3 DEF PlaceOf
  <2>4. \A m \in Loop : ~Has(Queue', m, Bind("connectEstablished", c))
    <3>1. CASE state_[c] = "none"
      <4>1. \A m \in Loop : ~Has(Queue, m, Bind("connectEstablished", c))
            BY <1>i, <2>3, <3>1 DEF PlaceOf
      <4> QED
            BY <2>a, <2>m, <4>1 DEF FunctorOp, MovesOne
    <3>2. CASE out = {Bind("connectEstablished", c)}
      <4>1. Single(Queue, Bind("connectEstablished", c)) /\ Bind("connectEstablished", c) \in out
            BY <2>3, <3>2 DEF PlaceOf
      <4> QED
            BY <2>a, <2>m, <4>1 DEF FunctorOp, MovesOne
    <3> QED
          BY <2>1, <3>1, <3>2
  <2>5. /\ Single(Queue', Bind("connectEstablished", c))
        /\ \A m \in Loop : \A op \in FunctorOp :
              Has(Queue', m, Bind(op, c)) =>
                  Has(Queue, m, Bind(op, c)) \/ (op = "forceCloseInLoop" /\ m = loopOf'[c])
        BY <2>a, <2>m, <2>s DEF FunctorOp, MovesOne
  <2>6. loopOf'[c] = loopOf[c] \/ \A m \in Loop : \A op \in FunctorOp : ~Has(Queue, m, Bind(op, c))
        BY <1>i, <2>1, <2>3 DEF PlaceOf, FunctorOp
  <2>7. callbacks'[c] = <<"UP">> /\ CallbacksOf(state_'[c]) = <<"UP">> /\ state_'[c] \notin {"none", "kConnecting"}
        BY <2>1, <2>3 DEF CallbacksOf, Up
  <2>8. \A m \in Loop : c \notin active'[m]
        BY <2>1, <2>3
  <2>9. PlaceOf(c)'
        BY <1>i, <2>1, <2>3, <2>4, <2>5, <2>6, <2>7, <2>8 DEF PlaceOf, FunctorOp
  <2> QED
        BY <1>f, <2>1, <2>9
<1>3. ASSUME NEW c \in Conn, Closes(c) PROVE PlaceInv'
  <2>1. PICK out, in : Closes(c)!(out, in)
        BY <1>3 DEF Closes
  <2>2. Moves(Queue, Queue', out, in)
        BY <2>1 DEF Others
  <2>m. \A op \in FunctorOp : MovesOne(Bind(op, c), out, in)
        BY <2>2, MovesFor
  <2>3. PlaceOf(c) /\ state_[c] \notin {"none", "kConnecting"} /\ callbacks[c] = <<"UP">> /\ loopOf[c] # NoLoop
        BY <1>i, <2>1 DEF PlaceInv, PlaceOf, CallbacksOf, Up
  <2>a. \A m \in Loop, op \in FunctorOp : <<m, Bind(op, c)>> \in in =>
             \/ op = "connectDestroyed" /\ m = Base /\ loopOf[c] = Base
             \/ op = "removeConnectionInLoop" /\ m = Base /\ loopOf[c] # Base
        BY <2>1
  <2>s. Single(Queue, Bind("connectEstablished", c))
        BY <2>3 DEF PlaceOf
  <2>4. /\ Single(Queue', Bind("connectEstablished", c))
        /\ \A m \in Loop : \A op \in FunctorOp :
              Has(Queue', m, Bind(op, c)) =>
                  \/ Has(Queue, m, Bind(op, c))
                  \/ op = "connectDestroyed" /\ m = Base /\ loopOf[c] = Base
                  \/ op = "removeConnectionInLoop" /\ m = Base /\ loopOf[c] # Base
        BY <2>a, <2>m, <2>s DEF FunctorOp, MovesOne
  <2>5. callbacks'[c] = <<"UP", "DOWN">> /\ CallbacksOf(state_'[c]) = <<"UP", "DOWN">>
    <3>1. callbacks'[c] = Append(<<"UP">>, "DOWN") /\ state_'[c] = "kDisconnected"
          BY <2>1, <2>3
    <3> QED
          BY <3>1, UpDown DEF CallbacksOf, Up
  <2>6. PlaceOf(c)'
        BY <1>i, <2>1, <2>3, <2>4, <2>5 DEF PlaceOf, FunctorOp
  <2> QED
        BY <1>f, <2>1, <2>6
<1>4. ASSUME NEW c \in Conn, Destroys(c) PROVE PlaceInv'
  <2>1. PICK out, in : Destroys(c)!(out, in)
        BY <1>4 DEF Destroys
  <2>2. Moves(Queue, Queue', out, in)
        BY <2>1 DEF Others
  <2>m. \A op \in FunctorOp : MovesOne(Bind(op, c), out, in)
        BY <2>2, MovesFor
  <2>3. PlaceOf(c)
        BY DEF PlaceInv
  <2>4. /\ Single(Queue', Bind("connectEstablished", c))
        /\ \A m \in Loop : \A op \in FunctorOp : Has(Queue', m, Bind(op, c)) => Has(Queue, m, Bind(op, c))
        BY <2>1, <2>3, <2>m DEF PlaceOf, FunctorOp, MovesOne
  <2>5. CASE state_[c] = "kConnected"
    <3>1. callbacks[c] = <<"UP">> /\ loopOf[c] # NoLoop
          BY <2>3, <2>5 DEF PlaceOf, CallbacksOf, Up
    <3>2. callbacks'[c] = <<"UP", "DOWN">> /\ CallbacksOf(state_'[c]) = <<"UP", "DOWN">>
          /\ state_'[c] = "kDisconnected" /\ c \notin enabled'
          BY <2>1, <2>5, <3>1 DEF CallbacksOf, Up
    <3>3. PlaceOf(c)'
          BY <1>i, <2>1, <2>3, <2>4, <2>5, <3>1, <3>2 DEF PlaceOf, FunctorOp
    <3> QED
          BY <1>f, <2>1, <3>3
  <2>6. CASE state_[c] # "kConnected"
    <3>1. PlaceOf(c)'
          BY <1>i, <2>1, <2>3, <2>4, <2>6 DEF PlaceOf, FunctorOp
    <3> QED
          BY <1>f, <2>1, <3>1
  <2> QED
        BY <2>5, <2>6
<1>5. ASSUME NEW c \in Conn, Removes(c) PROVE PlaceInv'
  <2>1. PICK out, in : Removes(c)!(out, in)
        BY <1>5 DEF Removes
  <2>2. Moves(Queue, Queue', out, in)
        BY <2>1 DEF Others
  <2>m. \A op \in FunctorOp : MovesOne(Bind(op, c), out, in)
        BY <2>2, MovesFor
  <2>3. PlaceOf(c)
        BY DEF PlaceInv
  <2>a. \A m \in Loop, op \in FunctorOp : <<m, Bind(op, c)>> \in in => op = "connectDestroyed" /\ m = loopOf[c]
        BY <2>1
  <2>s. Single(Queue, Bind("connectEstablished", c))
        BY <2>3 DEF PlaceOf
  <2>4. /\ Single(Queue', Bind("connectEstablished", c))
        /\ \A m \in Loop : \A op \in FunctorOp :
              Has(Queue', m, Bind(op, c)) =>
                  Has(Queue, m, Bind(op, c)) \/ (op = "connectDestroyed" /\ m = loopOf[c])
        BY <2>a, <2>m, <2>s DEF FunctorOp, MovesOne
  <2>5. PlaceOf(c)'
        BY <1>i, <2>1, <2>3, <2>4 DEF PlaceOf, FunctorOp
  <2> QED
        BY <1>f, <2>1, <2>5
<1> QED
    BY <1>0, <1>1, <1>2, <1>3, <1>4, <1>5, Steps DEF CoreInv

LEMMA CoreInit == Init => CoreInv
<1> SUFFICES ASSUME Init PROVE CoreInv
    OBVIOUS
<1>1. \A l \in Loop : Queue[l] = <<>>
    BY DEF Init, Queue, Joined
<1>2. \A f : Single(Queue, f) /\ \A l \in Loop : ~Has(Queue, l, f)
    BY <1>1 DEF Single, Has
<1>3. PlaceInv
    BY <1>2 DEF Init, PlaceInv, PlaceOf, CallbacksOf, Up
<1> QED
    BY <1>3, TypeInit, LoopsInit DEF CoreInv

LEMMA CoreStep == CoreInv /\ [NextShutdown]_vars => CoreInv'
BY TypeStep, LoopsStep, PlaceStep DEF CoreInv

-----------------------------------------------------------------------------
(* ~TcpServer.                                                             *)

LEMMA GoneStops ==
    ASSUME CoreInv, [NextShutdown]_vars, server = "gone"
    PROVE  UNCHANGED vars
<1>1. \A l \in Loop : phase[l] \notin {"poll", "dispatch", "functors"}
                      /\ (l \in IOLoop \cup {Base} => phase[l] # "test")
    BY DEF CoreInv, LoopsInv
<1>2. ASSUME NEW l \in Loop, LoopStep(l) PROVE FALSE
    BY <1>1, <1>2 DEF LoopStep, Poll, SwapFunctors, BatchDone, TestQuit, handleReadError, forceCloseTimer,
          RunRemoveConnection, handleReadMessage, handleReadEof, RunConnectEstablished, RunConnectDestroyed,
          forceCloseInLoop, Handling, Running
<1>3. ~Accept
    BY <1>1, BaseIsLoop DEF Accept, AcceptFails, newConnection, Handling
<1>4. ~Shutdown
    BY DEF Shutdown, QuitBase, DtorBegins, DtorEnds, DtorConnection, DtorQuitLoop
<1> QED
    BY <1>2, <1>3, <1>4 DEF NextShutdown, Next

LEMMA GoneOnlyByDtor ==
    ASSUME [NextShutdown]_vars, server # "gone", server' = "gone"
    PROVE  DtorEnds
<1>1. ~[Next]_vars
    BY ServeFixed DEF Fixed
<1> QED
    BY <1>1 DEF NextShutdown, Shutdown, QuitBase, DtorBegins, DtorConnection, DtorQuitLoop, serverVars

\* Every functor that waits is in the base loop or an I/O loop of the pool.
LEMMA QueuedInPool ==
    ASSUME CoreInv, NEW l \in Loop, pending[l] # <<>>
    PROVE  l \in IOLoop \cup {Base}
<1>1. batch \in Queues /\ pending \in Queues
    BY TypeParts DEF CoreInv, QueueTypes
<1>2. Queue[l] = batch[l] \o pending[l] /\ batch[l] \in Seq(Functor) /\ pending[l] \in Seq(Functor)
    BY <1>1 DEF Queue, Joined, Queues
<1>3. ASSUME NEW s \in Seq(Functor), NEW t \in Seq(Functor), t # <<>>
      PROVE  \E i \in DOMAIN (s \o t) : (s \o t)[i] \in Functor
  <2>1. Len(t) \in Nat /\ Len(t) > 0 /\ Len(s) \in Nat
        BY <1>3
  <2>2. Len(s) + 1 \in DOMAIN (s \o t) /\ (s \o t)[Len(s) + 1] = t[1] /\ t[1] \in Functor
        BY <1>3, <2>1
  <2> QED
        BY <2>2
<1>4. PICK f \in Functor : Has(Queue, l, f)
    BY <1>2, <1>3 DEF Has
<1>5. PICK op \in FunctorOp, c \in Conn : f = Bind(op, c)
    BY <1>4 DEF Functor, Bind
<1>6. l = loopOf[c] \/ l = Base
    BY <1>4, <1>5 DEF CoreInv, PlaceInv, PlaceOf, FunctorOp
<1> QED
    BY <1>6, ServerAssumption DEF CoreInv, PlaceInv, PlaceOf

LEMMA FreedStep ==
    ASSUME CoreInv, CoreInv', ShutdownFreesConnections, [NextShutdown]_vars
    PROVE  ShutdownFreesConnections'
<1>1. CASE server' # "gone"
    BY <1>1 DEF ShutdownFreesConnections
<1>2. CASE server = "gone"
    BY <1>2, GoneStops DEF ShutdownFreesConnections, vars, connVars, serverVars
<1>3. CASE server # "gone" /\ server' = "gone"
  <2>1. DtorEnds
        BY <1>3, GoneOnlyByDtor
  <2>2. connections_' = {} /\ \A l \in Loop : held'[l] = {} /\ pending'[l] = <<>>
    <3>1. IOLoop' = IOLoop /\ pending'[Base] = <<>> /\ Base \in Loop
          BY <2>1, BaseIsLoop DEF DtorEnds, IOLoop, CoreInv, TypeOK
    <3>2. \A l \in Loop : pending'[l] # <<>> => l \in IOLoop' \cup {Base}
      <4> SUFFICES ASSUME NEW l \in Loop PROVE pending'[l] # <<>> => l \in IOLoop' \cup {Base}
            OBVIOUS
      <4>1. pending[l] # <<>> => l \in IOLoop \cup {Base}
            BY QueuedInPool
      <4>2. pending'[l] # <<>> => pending[l] # <<>>
            BY <2>1 DEF DtorEnds, CoreInv, TypeOK
      <4> QED
            BY <3>1, <4>1, <4>2
    <3> QED
          BY <1>3, <3>1, <3>2 DEF CoreInv, LoopsInv
  <2>3. ASSUME NEW c \in Conn, c \notin userRef' PROVE ~Referenced(c)'
        BY <2>2, <2>3 DEF Referenced, Bound
  <2> QED
        BY <2>1, <2>3 DEF DtorEnds, Destruct, ShutdownFreesConnections
<1> QED
    BY <1>1, <1>2, <1>3

(***************************************************************************)
(* ~TcpServer (TcpServer.cc:37) at any moment, with any number of          *)
(* connections and I/O loops: user code never sees DOWN twice or before    *)
(* UP, and no connection outlives the server that user code does not keep. *)
(***************************************************************************)
THEOREM ShutdownKeepsOrder == SpecShutdown => []ShutdownInv
<1>1. SpecShutdown => Init /\ [][NextShutdown]_vars
    BY PTL DEF SpecShutdown
<1>2. Init => ShutdownFreesConnections
    BY DEF Init, ShutdownFreesConnections
<1>3. CoreInv /\ ShutdownFreesConnections => ShutdownInv
    BY DEF CoreInv, PlaceInv, PlaceOf, CallbacksOf, CallbacksInOrder, ShutdownInv
<1> QED
    BY <1>1, <1>2, <1>3, CoreInit, CoreStep, FreedStep, PTL


-----------------------------------------------------------------------------
(* The stages of a connection while the server is up.                      *)

LEMMA StageInit == Init => StageInv /\ DeadInv
<1> SUFFICES ASSUME Init PROVE StageInv /\ DeadInv
    OBVIOUS
<1>1. \A l \in Loop : Queue[l] = <<>>
    BY DEF Init, Queue, Joined
<1>2. \A f : Single(Queue, f) /\ \A l \in Loop : ~Has(Queue, l, f)
    BY <1>1 DEF Single, Has
<1> QED
    BY <1>2 DEF Init, StageInv, StageOf, Waits, Up, DeadInv

LEMMA StageKept ==
    ASSUME NEW e \in Conn, StageOf(e),
           NEW out, NEW in, Moves(Queue, Queue', out, in), KeepsConn(e, in),
           Bind("connectDestroyed", e) \notin out, Bind("removeConnectionInLoop", e) \notin out
    PROVE  StageOf(e)'
<1>1. \A op \in FunctorOp : MovesOne(Bind(op, e), out, in)
    BY MovesFor
<1>2. \A m \in Loop, op \in FunctorOp : <<m, Bind(op, e)>> \in in => op = "forceCloseInLoop"
    BY DEF KeepsConn
<1>3. ASSUME NEW op \in {"connectDestroyed", "removeConnectionInLoop"}
      PROVE  /\ Waits(op, e)' <=> Waits(op, e)
             /\ Single(Queue', Bind(op, e))
    BY <1>1, <1>2, <1>3 DEF StageOf, FunctorOp, MovesOne, Waits
<1>4. /\ state_'[e] \in Up <=> state_[e] \in Up
      /\ state_'[e] = "kConnecting" <=> state_[e] = "kConnecting"
      /\ state_'[e] = "kDisconnected" <=> state_[e] = "kDisconnected"
    BY DEF KeepsConn, Up
<1> QED
    BY <1>3, <1>4 DEF StageOf, KeepsConn


LEMMA StageStep == CoreInv /\ StageInv /\ [Next]_vars => StageInv'
<1> SUFFICES ASSUME CoreInv, StageInv, [Next]_vars PROVE StageInv'
    OBVIOUS
<1>i. IOLoop \subseteq Loop /\ Base \in Loop /\ NoLoop \notin Loop /\ Base \notin IOLoop
    BY BaseIsLoop, ServerAssumption DEF CoreInv
<1>s. server' = "up" /\ \A l \in Loop : ~quit_'[l]
    BY ServeFixed DEF StageInv, Fixed
<1>u. server = "up" /\ \A l \in Loop : ~quit_[l]
    BY DEF StageInv
<1>p. \A c \in Conn : PlaceOf(c) /\ StageOf(c)
    BY DEF CoreInv, PlaceInv, StageInv
<1>0. CASE Calm
  <2>1. PICK out, in : Calm!(out, in)
        BY <1>0 DEF Calm
  <2>2. ASSUME NEW e \in Conn, NEW op \in {"connectDestroyed", "removeConnectionInLoop"}
        PROVE  Bind(op, e) \notin out
        BY <1>u, <2>1, <2>2, BindEqual
  <2> QED
        BY <1>p, <1>s, <2>1, <2>2, StageKept DEF Others, StageInv
<1>f. ASSUME NEW c \in Conn, StageOf(c)', NEW out, NEW in, Others(Conn \ {c}, out, in),
             \A f \in out : \E op \in FunctorOp : f = Bind(op, c)
      PROVE  StageInv'
  <2>1. ASSUME NEW e \in Conn \ {c}, NEW op PROVE Bind(op, e) \notin out
        BY <1>f, BindEqual
  <2>2. ASSUME NEW e \in Conn \ {c} PROVE StageOf(e)'
        BY <1>f, <1>p, <2>1, StageKept DEF Others
  <2> QED
        BY <1>f, <1>s, <2>2 DEF StageInv
<1>1. ASSUME NEW c \in Conn, Accepts(c) PROVE StageInv'
  <2>1. PICK in : Accepts(c)!(in)
        BY <1>1 DEF Accepts
  <2>m. \A op \in FunctorOp : MovesOne(Bind(op, c), {}, in)
        BY <2>1, MovesFor DEF Others
  <2>a. \A m \in Loop, op \in FunctorOp : <<m, Bind(op, c)>> \in in => op = "connectEstablished"
        BY <2>1
  <2>3. /\ c \notin channels_ /\ c \notin enabled
        /\ ~Waits("connectDestroyed", c) /\ ~Waits("removeConnectionInLoop", c)
        BY <1>p, <2>1 DEF StageOf, Up
  <2>4. ASSUME NEW op \in {"connectDestroyed", "removeConnectionInLoop"}
        PROVE  ~Waits(op, c)' /\ Single(Queue', Bind(op, c))
        BY <1>p, <2>3, <2>a, <2>m DEF StageOf, FunctorOp, MovesOne, Waits
  <2>5. StageOf(c)'
        BY <2>1, <2>3, <2>4 DEF StageOf, Up
  <2> QED
        BY <1>f, <2>1, <2>5
<1>2. ASSUME NEW c \in Conn, Establishes(c) PROVE StageInv'
  <2>1. PICK out, in : Establishes(c)!(out, in)
        BY <1>2 DEF Establishes
  <2>m. \A op \in FunctorOp : MovesOne(Bind(op, c), out, in)
        BY <2>1, MovesFor DEF Others
  <2>a. \A m \in Loop, op \in FunctorOp : <<m, Bind(op, c)>> \in in => op = "forceCloseInLoop"
        BY <2>1
  <2>3. ~Waits("connectDestroyed", c) /\ ~Waits("removeConnectionInLoop", c) /\ c \in connections_'
        BY <1>p, <2>1 DEF StageOf, Up
  <2>4. ASSUME NEW op \in {"connectDestroyed", "removeConnectionInLoop"}
        PROVE  ~Waits(op, c)' /\ Single(Queue', Bind(op, c))
        BY <1>p, <2>3, <2>a, <2>m DEF StageOf, FunctorOp, MovesOne, Waits
  <2>5. StageOf(c)'
        BY <2>1, <2>3, <2>4 DEF StageOf, Up
  <2>6. \A f \in out : \E op \in FunctorOp : f = Bind(op, c)
        BY <2>1 DEF FunctorOp
  <2> QED
        BY <1>f, <2>1, <2>5, <2>6
<1>3. ASSUME NEW c \in Conn, Closes(c) PROVE StageInv'
  <2>1. PICK out, in : Closes(c)!(out, in)
        BY <1>3 DEF Closes
  <2>n. PICK next \in FunctorOp, last \in FunctorOp :
            /\ next = IF loopOf[c] = Base THEN "connectDestroyed" ELSE "removeConnectionInLoop"
            /\ last = IF loopOf[c] = Base THEN "removeConnectionInLoop" ELSE "connectDestroyed"
        BY DEF FunctorOp
  <2>m. \A op \in FunctorOp : MovesOne(Bind(op, c), out, in)
        BY <2>1, MovesFor DEF Others
  <2>a. \A m \in Loop, op \in FunctorOp : <<m, Bind(op, c)>> \in in <=> op = next /\ m = Base
        BY <2>1, <2>n
  <2>3. /\ ~Waits("connectDestroyed", c) /\ ~Waits("removeConnectionInLoop", c)
        /\ c \in channels_ /\ c \in connections_
        BY <1>p, <2>1 DEF StageOf, Up
  <2>4. Waits(next, c)' /\ ~Waits(last, c)' /\ Single(Queue', Bind(next, c)) /\ Single(Queue', Bind(last, c))
    <3>1. ~Waits(next, c) /\ ~Waits(last, c) /\ Single(Queue, Bind(next, c)) /\ Single(Queue, Bind(last, c))
          BY <1>p, <2>3, <2>n DEF StageOf
    <3>2. MovesOne(Bind(next, c), out, in) /\ MovesOne(Bind(last, c), out, in)
          BY <2>m
    <3>3. /\ <<Base, Bind(next, c)>> \in in
          /\ \A m \in Loop : <<m, Bind(last, c)>> \notin in
          BY <1>i, <2>a, <2>n
    <3> DEFINE f == Bind(next, c)
               g == Bind(last, c)
    <3>4. \A m \in Loop : ~Has(Queue, m, f) /\ ~Has(Queue, m, g)
          BY <3>1 DEF Waits
    <3> HIDE DEF f, g
    <3>5. /\ Has(Queue', Base, f) /\ Single(Queue', f) /\ Single(Queue', g)
          /\ \A m \in Loop : ~Has(Queue', m, g)
          BY <1>i, <3>1, <3>2, <3>3, <3>4 DEF MovesOne, f, g
    <3> QED
          BY <1>i, <3>5 DEF Waits, f, g
  <2>5. StageOf(c)'
        BY <2>1, <2>3, <2>4, <2>n DEF StageOf, Up
  <2>6. \A f \in out : \E op \in FunctorOp : f = Bind(op, c)
        BY <2>1 DEF FunctorOp
  <2> QED
        BY <1>f, <2>1, <2>5, <2>6
<1>4. ASSUME NEW c \in Conn, Destroys(c) PROVE StageInv'
  <2>1. PICK out, in : Destroys(c)!(out, in)
        BY <1>4 DEF Destroys
  <2>2. out = {Bind("connectDestroyed", c)} /\ Waits("connectDestroyed", c)
        /\ (c \in connections_' <=> c \in connections_)
        BY <1>u, <2>1 DEF Waits
  <2>m. \A op \in FunctorOp : MovesOne(Bind(op, c), out, in)
        BY <2>1, MovesFor DEF Others
  <2>3. state_[c] = "kDisconnected" /\ c \notin connections_ /\ ~Waits("removeConnectionInLoop", c)
        BY <1>p, <2>2 DEF StageOf, Up
  <2>4. ASSUME NEW op \in {"connectDestroyed", "removeConnectionInLoop"}
        PROVE  ~Waits(op, c)' /\ Single(Queue', Bind(op, c))
        BY <1>p, <2>1, <2>2, <2>3, <2>m DEF StageOf, FunctorOp, MovesOne, Waits
  <2>5. StageOf(c)'
        BY <1>p, <2>1, <2>2, <2>3, <2>4 DEF StageOf, Up
  <2>6. \A f \in out : \E op \in FunctorOp : f = Bind(op, c)
        BY <2>2 DEF FunctorOp
  <2> QED
        BY <1>f, <2>1, <2>5, <2>6
<1>5. ASSUME NEW c \in Conn, Removes(c) PROVE StageInv'
  <2>1. PICK out, in : Removes(c)!(out, in)
        BY <1>5 DEF Removes
  <2>2. out = {Bind("removeConnectionInLoop", c)} /\ Waits("removeConnectionInLoop", c)
        BY <1>i, <1>u, <2>1 DEF Waits
  <2>m. \A op \in FunctorOp : MovesOne(Bind(op, c), out, in)
        BY <2>1, MovesFor DEF Others
  <2>a. \A m \in Loop, op \in FunctorOp : <<m, Bind(op, c)>> \in in <=> op = "connectDestroyed" /\ m = loopOf[c]
        BY <2>1
  <2>3. state_[c] = "kDisconnected" /\ c \in connections_ /\ c \in channels_ /\ ~Waits("connectDestroyed", c)
        BY <1>p, <2>2 DEF StageOf, Up
  <2>4. ~Waits("removeConnectionInLoop", c)' /\ Single(Queue', Bind("removeConnectionInLoop", c))
        BY <1>p, <2>2, <2>a, <2>m DEF StageOf, FunctorOp, MovesOne, Waits
  <2>5. Waits("connectDestroyed", c)' /\ Single(Queue', Bind("connectDestroyed", c))
        BY <1>i, <1>p, <2>1, <2>3, <2>a, <2>m DEF StageOf, FunctorOp, MovesOne, Waits
  <2>6. StageOf(c)'
        BY <1>p, <2>1, <2>3, <2>4, <2>5 DEF StageOf, Up
  <2>7. \A f \in out : \E op \in FunctorOp : f = Bind(op, c)
        BY <2>2 DEF FunctorOp
  <2> QED
        BY <1>f, <2>1, <2>6, <2>7
<1>n. [NextShutdown]_vars
    BY DEF NextShutdown
<1> QED
    BY <1>0, <1>1, <1>2, <1>3, <1>4, <1>5, <1>n, Steps


-----------------------------------------------------------------------------
(* Destruction while the server is up.                                     *)

TornDown(c) == state_[c] = "kDisconnected" /\ c \notin channels_

LEMMA TornDownStays ==
    ASSUME CoreInv, StageInv, [Next]_vars, NEW e \in Conn, TornDown(e)
    PROVE  TornDown(e)'
<1>1. ASSUME NEW C, NEW out, NEW in, Others(C, out, in), e \in C PROVE TornDown(e)'
    BY <1>1 DEF Others, KeepsConn, TornDown, Up
<1>2. CASE Calm
    BY <1>1, <1>2 DEF Calm
<1>3. ASSUME NEW c \in Conn,
             \/ Accepts(c) \/ Establishes(c) \/ Closes(c) \/ Destroys(c) \/ Removes(c)
      PROVE  TornDown(e)'
  <2>1. CASE e # c
    <3>1. \E out, in : Others(Conn \ {c}, out, in)
          BY <1>3, OthersKept
    <3> QED
          BY <1>1, <2>1, <3>1
  <2>2. CASE e = c
        BY <1>3, <2>2 DEF Accepts, Establishes, Closes, Destroys, Removes, TornDown, Up
  <2> QED
        BY <2>1, <2>2
<1>4. [NextShutdown]_vars
    BY DEF NextShutdown
<1> QED
    BY <1>2, <1>3, <1>4, Steps

LEMMA WaitsReferenced ==
    ASSUME CoreInv, NEW c \in Conn, NEW op, Waits(op, c)
    PROVE  Referenced(c)
<1>1. PICK l \in Loop : \E i \in DOMAIN Queue[l] : Queue[l][i] = Bind(op, c)
    BY DEF Waits, Has
<1>2. PICK i \in DOMAIN Queue[l] : Queue[l][i] = Bind(op, c)
    BY <1>1
<1>3. Queue[l] = batch[l] \o pending[l] /\ batch[l] \in Seq(Functor) /\ pending[l] \in Seq(Functor)
    BY TypeParts DEF CoreInv, QueueTypes, Queues, Queue, Joined
<1>4. ASSUME NEW s \in Seq(Functor), NEW t \in Seq(Functor), NEW f, NEW k \in DOMAIN (s \o t), (s \o t)[k] = f
      PROVE  (\E j \in DOMAIN s : s[j] = f) \/ (\E j \in DOMAIN t : t[j] = f)
  <2>1. Len(s) \in Nat /\ Len(t) \in Nat /\ k \in 1 .. (Len(s) + Len(t))
        BY <1>4
  <2>2. CASE k <= Len(s)
    <3>1. k \in DOMAIN s /\ s[k] = f
          BY <1>4, <2>1, <2>2
    <3> QED
          BY <3>1
  <2>3. CASE k > Len(s)
    <3>1. k - Len(s) \in DOMAIN t /\ t[k - Len(s)] = f
          BY <1>4, <2>1, <2>3
    <3> QED
          BY <3>1
  <2> QED
        BY <2>1, <2>2, <2>3
<1>5. \/ \E j \in DOMAIN batch[l] : batch[l][j] = Bind(op, c)
      \/ \E j \in DOMAIN pending[l] : pending[l][j] = Bind(op, c)
  <2>1. i \in DOMAIN (batch[l] \o pending[l]) /\ (batch[l] \o pending[l])[i] = Bind(op, c)
        BY <1>2, <1>3
  <2> QED
        BY <1>3, <1>4, <2>1, Zenon
<1>6. c \in Bound(batch[l]) \cup Bound(pending[l])
    BY <1>5 DEF Bound, Bind
<1> QED
    BY <1>6 DEF Referenced, CoreInv, LoopsInv

LostIsTornDown == \A c \in Conn : state_[c] # "none" /\ ~Referenced(c) => TornDown(c)

LEMMA UnreferencedTornDown == CoreInv /\ StageInv => LostIsTornDown
<1> SUFFICES ASSUME CoreInv, StageInv, NEW c \in Conn, state_[c] # "none", ~Referenced(c)
             PROVE  TornDown(c)
    BY DEF LostIsTornDown
<1>1. ~Waits("connectDestroyed", c) /\ ~Waits("removeConnectionInLoop", c) /\ c \notin connections_
    BY WaitsReferenced DEF Referenced
<1>2. state_[c] \in {"none", "kConnecting", "kDisconnected"} \cup Up
    BY DEF CoreInv, TypeOK, Up
<1> QED
    BY <1>1, <1>2 DEF StageInv, StageOf, TornDown

LEMMA DeadStep ==
    ASSUME CoreInv, CoreInv', StageInv, StageInv', DeadInv, [Next]_vars
    PROVE  DeadInv'
<1>1. ASSUME NEW c \in dead PROVE TornDown(c)'
  <2>1. c \in Conn /\ TornDown(c)
        BY DEF DeadInv, CoreInv, TypeOK, TornDown
  <2> QED
        BY <2>1, TornDownStays
<1>2. LostIsTornDown'
    BY UnreferencedTornDown, PTL
<1>3. ASSUME NEW c \in dead' PROVE TornDown(c)'
    BY <1>1, <1>2, ServeFixed DEF Fixed, Destruct, LostIsTornDown
<1> QED
    BY <1>3 DEF DeadInv, TornDown


LifeInv == CoreInv /\ StageInv /\ DeadInv

LEMMA LifeInit == Init => LifeInv
BY CoreInit, StageInit DEF LifeInv

LEMMA LifeStep == LifeInv /\ [Next]_vars => LifeInv'
<1> SUFFICES ASSUME LifeInv, [Next]_vars PROVE LifeInv'
    OBVIOUS
<1>1. [NextShutdown]_vars
    BY DEF NextShutdown
<1>2. CoreInv'
    BY <1>1, CoreStep DEF LifeInv
<1>3. StageInv'
    BY StageStep DEF LifeInv
<1> QED
    BY <1>2, <1>3, DeadStep DEF LifeInv

(***************************************************************************)
(* While the server is up, assert(state_ == kDisconnected) of              *)
(* ~TcpConnection (TcpConnection.cc:71) holds whoever drops the last       *)
(* pointer, in whichever loop.                                             *)
(***************************************************************************)
THEOREM DestroyedAreDisconnected == Spec => []DestroyedDisconnected
<1>1. LifeInv => DestroyedDisconnected
    BY DEF LifeInv, DeadInv, DestroyedDisconnected
<1> QED
    BY <1>1, LifeInit, LifeStep, PTL DEF Spec

(***************************************************************************)
(* While the server is up, assert(!addedToLoop_) of ~Channel               *)
(* (Channel.cc:40): the channel of a destroyed connection has left the     *)
(* poller of its loop.                                                     *)
(***************************************************************************)
THEOREM DestroyedAreUnpolled == Spec => []DestroyedUnpolled
<1>1. LifeInv => DestroyedUnpolled
    BY DEF LifeInv, DeadInv, DestroyedUnpolled
<1> QED
    BY <1>1, LifeInit, LifeStep, PTL DEF Spec

-----------------------------------------------------------------------------
(* What user code sees.                                                    *)

\* The life of a connection that ConnectionLife speaks of, by the state.
LifeOf(c) ==
    IF c \in dead THEN "freed"
    ELSE IF state_[c] \in {"none", "kConnecting"} THEN "new"
    ELSE IF state_[c] \in Up THEN "up" ELSE "down"

lifeBar == [c \in Conn |->
                 CASE c \in dead -> "freed"
                   [] c \notin dead /\ callbacks[c] = <<>> -> "new"
                   [] c \notin dead /\ callbacks[c] = <<"UP">> -> "up"
                   [] c \notin dead /\ callbacks[c] = <<"UP", "DOWN">> -> "down"
                   [] OTHER -> "wrong"]

LEMMA LifeBar == CoreInv => lifeBar = [c \in Conn |-> LifeOf(c)]
<1> SUFFICES ASSUME CoreInv, NEW c \in Conn PROVE lifeBar[c] = LifeOf(c)
    BY DEF lifeBar
<1>1. callbacks[c] = CallbacksOf(state_[c])
    BY DEF CoreInv, PlaceInv, PlaceOf
<1>2. <<>> # <<"UP">> /\ <<>> # <<"UP", "DOWN">> /\ <<"UP">> # <<"UP", "DOWN">>
    OBVIOUS
<1> QED
    BY <1>1, <1>2 DEF lifeBar, LifeOf, CallbacksOf, Up


SamePhase(e) ==
    \/ state_'[e] = state_[e]
    \/ state_[e] \in Up /\ state_'[e] \in Up
    \/ state_[e] = "none" /\ state_'[e] = "kConnecting"

LEMMA PhaseStep ==
    ASSUME LifeInv, LifeInv', [Next]_vars
    PROVE  \/ \A e \in Conn : SamePhase(e)
           \/ \E c \in Conn :
                 /\ \A e \in Conn \ {c} : SamePhase(e)
                 /\ c \notin dead /\ c \notin dead'
                 /\ \/ state_[c] \in {"none", "kConnecting"} /\ state_'[c] \in Up
                    \/ state_[c] \in Up /\ state_'[c] = "kDisconnected"
<1>1. ASSUME NEW C, NEW out, NEW in, Others(C, out, in) PROVE \A e \in C : SamePhase(e)
    BY <1>1 DEF Others, KeepsConn, SamePhase
<1>2. CASE Calm
    BY <1>1, <1>2 DEF Calm
<1>3. ASSUME NEW c \in Conn, Accepts(c) \/ Removes(c) PROVE \A e \in Conn : SamePhase(e)
  <2>1. \A e \in Conn \ {c} : SamePhase(e)
        BY <1>1, <1>3 DEF Accepts, Removes
  <2>2. SamePhase(c)
        BY <1>3 DEF Accepts, Removes, SamePhase
  <2> QED
        BY <2>1, <2>2
<1>4. ASSUME NEW c \in Conn, Destroys(c) PROVE \A e \in Conn : SamePhase(e)
  <2>1. \A e \in Conn \ {c} : SamePhase(e)
        BY <1>1, <1>4 DEF Destroys
  <2>2. server = "up"
        BY DEF LifeInv, StageInv
  <2>3. Waits("connectDestroyed", c)
        BY <1>4, <2>2 DEF Destroys, Waits
  <2>4. state_[c] = "kDisconnected"
        BY <2>3 DEF LifeInv, StageInv, StageOf
  <2>5. SamePhase(c)
        BY <1>4, <2>4 DEF Destroys, SamePhase
  <2> QED
        BY <2>1, <2>5
<1>5. ASSUME NEW c \in Conn, Establishes(c)
      PROVE  /\ \A e \in Conn \ {c} : SamePhase(e)
             /\ c \notin dead /\ c \notin dead'
             /\ state_[c] \in {"none", "kConnecting"} /\ state_'[c] \in Up
  <2>1. \A e \in Conn \ {c} : SamePhase(e)
        BY <1>1, <1>5 DEF Establishes
  <2>2. state_[c] \in {"none", "kConnecting"} /\ state_'[c] \in Up
        BY <1>5 DEF Establishes
  <2>3. c \notin dead /\ c \notin dead'
        BY <2>2 DEF LifeInv, DeadInv, Up
  <2> QED
        BY <2>1, <2>2, <2>3
<1>6. ASSUME NEW c \in Conn, Closes(c)
      PROVE  /\ \A e \in Conn \ {c} : SamePhase(e)
             /\ c \notin dead /\ c \notin dead'
             /\ state_[c] \in Up /\ state_'[c] = "kDisconnected"
  <2>1. \A e \in Conn \ {c} : SamePhase(e)
        BY <1>1, <1>6 DEF Closes
  <2>2. state_[c] \in Up /\ state_'[c] = "kDisconnected" /\ (c \in channels_' <=> c \in channels_)
        BY <1>6 DEF Closes
  <2>3. c \in channels_
        BY <2>2 DEF LifeInv, StageInv, StageOf
  <2>4. c \notin dead /\ c \notin dead'
        BY <2>2, <2>3 DEF LifeInv, DeadInv, Up
  <2> QED
        BY <2>1, <2>2, <2>4
<1>7. [NextShutdown]_vars
    BY DEF NextShutdown
<1> QED
    BY <1>2, <1>3, <1>4, <1>5, <1>6, <1>7, Steps DEF LifeInv

LEMMA LifeRefined ==
    ASSUME LifeInv, LifeInv', [Next]_vars
    PROVE  [Life!Next]_lifeBar
<1>0. PICK C : C = dead' \ dead
    OBVIOUS
<1>1. dead \subseteq dead' /\ dead' \subseteq Conn
    BY ServeFixed DEF Fixed, Destruct, LifeInv, CoreInv, TypeOK
<1>2. lifeBar = [c \in Conn |-> LifeOf(c)] /\ lifeBar' = [c \in Conn |-> LifeOf(c)']
  <2>1. lifeBar = [c \in Conn |-> LifeOf(c)]
        BY LifeBar DEF LifeInv
  <2>2. CoreInv'
        BY DEF LifeInv
  <2>3. (lifeBar = [c \in Conn |-> LifeOf(c)])'
        BY <2>2, LifeBar, PTL
  <2> QED
        BY <2>1, <2>3
<1>3. ASSUME NEW e \in Conn, SamePhase(e)
      PROVE  /\ LifeOf(e)' = IF e \in C THEN "freed" ELSE LifeOf(e)
             /\ e \in C => LifeOf(e) = "down"
  <2>1. e \in dead' => state_'[e] = "kDisconnected"
        BY DEF LifeInv, DeadInv
  <2> QED
        BY <1>0, <1>1, <1>3, <2>1 DEF LifeOf, SamePhase, Up
<1>4. CASE \A e \in Conn : SamePhase(e)
  <2>1. C \in SUBSET {c \in Conn : lifeBar[c] = "down"}
        BY <1>0, <1>1, <1>2, <1>3, <1>4
  <2>2. lifeBar' = [c \in Conn |-> IF c \in C THEN "freed" ELSE lifeBar[c]]
        BY <1>2, <1>3, <1>4
  <2> QED
        BY <2>1, <2>2 DEF Life!Next, Life!Free, Life!Freed, lifeBar
<1>5. ASSUME NEW c \in Conn, \A e \in Conn \ {c} : SamePhase(e), c \notin dead, c \notin dead',
             \/ state_[c] \in {"none", "kConnecting"} /\ state_'[c] \in Up
             \/ state_[c] \in Up /\ state_'[c] = "kDisconnected"
      PROVE  Life!Next
  <2>1. C \in SUBSET {e \in Conn : lifeBar[e] = "down"}
        BY <1>0, <1>1, <1>2, <1>3, <1>5
  <2>2. \/ LifeOf(c) = "new" /\ LifeOf(c)' = "up"
        \/ LifeOf(c) = "up" /\ LifeOf(c)' = "down"
        BY <1>5 DEF LifeOf, Up
  <2>3. lifeBar' = [[e \in Conn |-> IF e \in C THEN "freed" ELSE lifeBar[e]] EXCEPT ![c] = LifeOf(c)']
        BY <1>0, <1>2, <1>3, <1>5
  <2>4. lifeBar[c] = LifeOf(c)
        BY <1>2
  <2>5. Life!Up(c, C) \/ Life!Down(c, C)
    <3> DEFINE freed == [e \in Conn |-> IF e \in C THEN "freed" ELSE lifeBar[e]]
    <3>3. lifeBar' = [freed EXCEPT ![c] = LifeOf(c)']
          BY <2>3
    <3>1. CASE lifeBar[c] = "new" /\ lifeBar' = [freed EXCEPT ![c] = "up"]
          BY <3>1, Zenon DEF Life!Up, Life!Freed, lifeBar
    <3>2. CASE lifeBar[c] = "up" /\ lifeBar' = [freed EXCEPT ![c] = "down"]
          BY <3>2, Zenon DEF Life!Down, Life!Freed, lifeBar
    <3> HIDE DEF freed
    <3>4. CASE LifeOf(c) = "new" /\ LifeOf(c)' = "up"
          BY <2>4, <3>1, <3>3, <3>4
    <3>5. CASE LifeOf(c) = "up" /\ LifeOf(c)' = "down"
          BY <2>4, <3>2, <3>3, <3>5
    <3> QED
          BY <2>2, <3>4, <3>5
  <2> QED
        BY <2>1, <2>5 DEF Life!Next, lifeBar
<1> QED
    BY <1>4, <1>5, PhaseStep

(***************************************************************************)
(* While the server is up, user code sees what ConnectionLife promises:    *)
(* each connection comes up once, goes down once, in calls of its own, and *)
(* is freed only after that (TcpConnection.cc:342, :406, TcpServer.cc:71). *)
(***************************************************************************)
THEOREM ServerImplementsConnectionLife == Spec => ImplementsConnectionLife
<1>1. Init => Life!Init
  <2> SUFFICES ASSUME Init PROVE Life!Init
        OBVIOUS
  <2>1. lifeBar = [c \in Conn |-> "new"]
        BY CoreInit, LifeBar DEF Init, LifeOf
  <2> QED
        BY <2>1 DEF Life!Init, lifeBar
<1>2. LifeInv /\ LifeInv' /\ [Next]_vars => [Life!Next]_lifeBar
    BY LifeRefined
<1> QED
    BY <1>1, <1>2, LifeInit, LifeStep, PTL DEF Spec, ImplementsConnectionLife, Life!Spec, lifeBar


-----------------------------------------------------------------------------
(* One teardown.                                                           *)

Sets == INSTANCE FiniteSetTheorems

LEMMA SmallSets == Cardinality({}) = 0 /\ \A x : Cardinality({x}) = 1
<1>1. \A S : Sets!Cardinality(S) = Cardinality(S)
    BY DEF Sets!Cardinality, Cardinality
<1> QED
    BY <1>1, Sets!FS_EmptySet, Sets!FS_Singleton

LEMMA QueuedOnce ==
    ASSUME NEW op, NEW c
    PROVE  /\ ~Waits(op, c) => Queued(op, c) = {} /\ Cardinality(Queued(op, c)) = 0
           /\ Waits(op, c) /\ Single(Queue, Bind(op, c)) => Cardinality(Queued(op, c)) = 1
           /\ Waits(op, c) <=> Queued(op, c) # {}
<1>1. ASSUME NEW x
      PROVE  x \in Queued(op, c) <=>
                 \E l \in Loop : \E i \in DOMAIN Queue[l] : Queue[l][i] = Bind(op, c) /\ x = <<l, i>>
  <2> DEFINE fs(l) == batch[l] \o pending[l]
             At(l) == {l} \X {i \in DOMAIN fs(l) : fs(l)[i] = Bind(op, c)}
  <2>1. Queued(op, c) = UNION {At(l) : l \in Loop}
        BY Zenon DEF Queued
  <2>2. \A l : x \in At(l) <=> \E i \in DOMAIN fs(l) : fs(l)[i] = Bind(op, c) /\ x = <<l, i>>
    <3> SUFFICES ASSUME NEW l
                 PROVE  x \in At(l) <=> \E i \in DOMAIN fs(l) : fs(l)[i] = Bind(op, c) /\ x = <<l, i>>
          OBVIOUS
    <3>1. ASSUME NEW S PROVE x \in {l} \X S <=> \E i \in S : x = <<l, i>>
          OBVIOUS
    <3> DEFINE S == {i \in DOMAIN fs(l) : fs(l)[i] = Bind(op, c)}
    <3>2. x \in At(l) <=> \E i \in S : x = <<l, i>>
          BY <3>1
    <3> QED
          BY <3>2, Zenon
  <2>3. \A l \in Loop : Queue[l] = fs(l)
        BY DEF Queue, Joined
  <2> HIDE DEF At, fs
  <2>4. x \in Queued(op, c) <=> \E l \in Loop : x \in At(l)
        BY <2>1
  <2> QED
        BY <2>2, <2>3, <2>4, Zenon
<1>2. Waits(op, c) <=> Queued(op, c) # {}
    BY <1>1 DEF Waits, Has
<1>3. ASSUME Waits(op, c), Single(Queue, Bind(op, c)) PROVE Cardinality(Queued(op, c)) = 1
  <2>1. PICK l \in Loop : \E i \in DOMAIN Queue[l] : Queue[l][i] = Bind(op, c)
        BY <1>3 DEF Waits, Has
  <2>2. PICK i \in DOMAIN Queue[l] : Queue[l][i] = Bind(op, c)
        BY <2>1
  <2>3. Queued(op, c) = {<<l, i>>}
    <3>1. \A m \in Loop : \A j \in DOMAIN Queue[m] : Queue[m][j] = Bind(op, c) => m = l /\ j = i
          BY <1>3, <2>2, Zenon DEF Single
    <3>2. \A x : x \in Queued(op, c) <=> x = <<l, i>>
          BY <1>1, <2>2, <3>1, Zenon
    <3> QED
          BY <3>2
  <2> QED
        BY <2>3, SmallSets
<1> QED
    BY <1>2, <1>3, SmallSets

LEMMA LifeTeardown == LifeInv => TeardownOnce
<1> SUFFICES ASSUME LifeInv, NEW c \in Conn
             PROVE  TeardownOnce!(c)
    BY DEF TeardownOnce
<1>1. StageOf(c)
    BY DEF LifeInv, StageInv
<1>2. state_[c] \in {"none", "kConnecting", "kDisconnected"} \cup Up
    BY DEF LifeInv, CoreInv, TypeOK, Up
<1>3. Cardinality(Queued("connectDestroyed", c)) = IF Waits("connectDestroyed", c) THEN 1 ELSE 0
    BY <1>1, QueuedOnce DEF StageOf
<1>4. Cardinality(Queued("removeConnectionInLoop", c)) \in {0, 1}
    BY <1>1, QueuedOnce DEF StageOf
<1>5. Queued("removeConnectionInLoop", c) # {} => Waits("removeConnectionInLoop", c)
    BY QueuedOnce
<1>6. /\ Waits("connectDestroyed", c) <=> ~(state_[c] = "none" \/ c \in connections_ \/ TornDown(c))
      /\ c \in connections_ => ~TornDown(c)
      /\ Waits("removeConnectionInLoop", c) => c \in connections_
  <2>1. c \in connections_ => state_[c] # "none"
        BY DEF LifeInv, CoreInv, PlaceInv, PlaceOf
  <2> QED
        BY <1>1, <1>2, <2>1 DEF StageOf, TornDown, Up
<1> QED
    BY <1>3, <1>4, <1>5, <1>6 DEF TornDown

(***************************************************************************)
(* While the server is up: events reach only live connections, and each    *)
(* connection is torn down once, whoever closes it (the loop over          *)
(* activeChannels_, EventLoop.cc:122; connectDestroyed "should be called   *)
(* only once", TcpConnection.h:115).                                       *)
(***************************************************************************)
THEOREM ServeCorrect == Spec => []ServeInv
<1>1. LifeInv => ActiveIsLive
  <2> SUFFICES ASSUME LifeInv, NEW l \in Loop, NEW c \in active[l] \ {"acceptor"}
               PROVE  /\ c \in enabled \cap channels_
                      /\ c \notin dead
                      /\ state_[c] \in {"kConnected", "kDisconnecting"}
        BY DEF ActiveIsLive
  <2>1. c \in Conn
        BY DEF LifeInv, CoreInv, TypeOK
  <2>2. state_[c] \in Up
        BY <2>1 DEF LifeInv, CoreInv, PlaceInv, PlaceOf
  <2> QED
        BY <2>1, <2>2 DEF LifeInv, StageInv, StageOf, DeadInv, Up
<1>2. LifeInv => ServeInv
    BY <1>1, LifeTeardown DEF LifeInv, CoreInv, ServeInv
<1> QED
    BY <1>2, LifeInit, LifeStep, PTL DEF Spec
=============================================================================
