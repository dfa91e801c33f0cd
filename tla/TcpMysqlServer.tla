--------------------------- MODULE TcpMysqlServer ---------------------------
(***************************************************************************)
(* The application (src/tcpmysql/TcpMysqlServer.cc): onConnection and      *)
(* onMessage as the user code of a TcpServer with a single reactor         *)
(* (main.cc never calls setThreadNum).  lrulist_ and lrumap_ keep shared   *)
(* pointers to connections, so they are what TcpServer calls userRef.      *)
(*                                                                         *)
(* Every message ends the process (see onMessage), so sqlchecklist_ and    *)
(* the buckets of sqlstmtlist_ stay empty and onTimer changes nothing.     *)
(***************************************************************************)
EXTENDS Naturals, Sequences, FiniteSets, Functions, SequencesExt

CONSTANTS Conn, Base, NoLoop,
          SIZECONN,    \* capacity of lrulist_
          NullIter     \* a value-initialised Iter

ASSUME CapacityAssumption == SIZECONN \in Nat \ {0}

VARIABLES
    state_, loopOf, enabled, channels_, timer, callbacks, dead, connections_,
    next_, pending, batch, held, active, phase, quit_, server,
    lrulist_,    \* list nodes, most recent first
    lrumap_,     \* connection -> list node (Iter)
    process,     \* "running", or how the process died
    requests     \* connections with a request that has not been answered

lru == <<lrulist_, lrumap_>>

\* A node of lrulist_.  A std::list iterator names its node wherever it is
\* moved; onConnection makes one node per call, numbered per connection.
Node == [conn : Conn, call : 1 .. 2]

Server == INSTANCE TcpServer
          WITH Pools <- {<<>>}, loops_ <- <<>>,
               userRef <- {n.conn : n \in ToSet(lrulist_)} \cup DOMAIN lrumap_

vars == <<Server!vars, lru, process, requests>>

TypeOK ==
    /\ Server!TypeOK
    /\ lrulist_ \in Seq(Node)
    /\ DOMAIN lrumap_ \subseteq Conn
    /\ \A c \in DOMAIN lrumap_ :
          lrumap_[c] \in IF process = "segfault" THEN Node \cup {NullIter}
                         ELSE Node
    /\ process \in {"running", "bad_any_cast", "segfault"}
    /\ requests \subseteq Conn

Init ==
    /\ lrulist_ = <<>>
    /\ lrumap_ = <<>>
    /\ process = "running"
    /\ requests = {}
    /\ Server!Init

-----------------------------------------------------------------------------
(* User code.                                                              *)

\* Fault: off by one.
FullTooLate == Len(lrulist_) > SIZECONN

Full == Len(lrulist_) >= SIZECONN

Victim == Last(lrulist_).conn

\* Fault: the last connection is dropped without shutdown().
ShutsNothing(c, u, d) == u = "return" /\ d = c

\* The call onConnection makes on a connection: shutdown() of the last one.
Shuts(c, u, d) ==
    IF Full THEN u = "shutdown" /\ d = Victim ELSE u = "return" /\ d = c

\* lrumap_[c] = iter
Assign(map, c, iter) ==
    [d \in DOMAIN map \cup {c} |-> IF d = c THEN iter ELSE map[d]]

\* Faults: the entry is kept, or reset instead of erased.
EraseNothing(map, c) == map
EraseByNull(map, c) == Assign(map, c, NullIter)

\* lrumap_.erase(key)
Erase(map, c) == Restrict(map, DOMAIN map \ {c})

\* onConnection, called for UP and for DOWN alike.
onConnection(c, u, d) ==
    LET node == [conn |-> c, call |-> Len(callbacks[c]) + 1]
    IN  /\ Shuts(c, u, d)
        /\ lrulist_' = <<node>> \o IF Full THEN Front(lrulist_) ELSE lrulist_
        /\ lrumap_' = Assign(IF Full THEN Erase(lrumap_, Victim) ELSE lrumap_,
                             c, node)
        /\ UNCHANGED <<process, requests>>

(***************************************************************************)
(* onMessage.  lrumap_[c] of a connection that was evicted inserts a       *)
(* value-initialised iterator, which splice dereferences.  Otherwise the   *)
(* node moves to the front and, as sqlchecklist_ is empty, the request     *)
(* goes to the database; boost::any_cast then throws bad_any_cast (a       *)
(* shared_ptr to a pair is not a WeakSqlStmtPtr), which nobody catches.    *)
(***************************************************************************)
onMessage(c) ==
    /\ requests' = requests \cup {c}
    /\ \/ /\ c \notin DOMAIN lrumap_
          /\ lrumap_' = Assign(lrumap_, c, NullIter)
          /\ process' = "segfault"
          /\ UNCHANGED lrulist_
       \/ /\ c \in DOMAIN lrumap_
          /\ lrulist_' = <<lrumap_[c]>> \o Remove(lrulist_, lrumap_[c])
          /\ process' = "bad_any_cast"
          /\ UNCHANGED lrumap_

-----------------------------------------------------------------------------
(* The steps of the server that call the user code, and the others.        *)

Connected(c, u, d) ==
    /\ process = "running"
    /\ onConnection(c, u, d)
    /\ Server!newConnection(c, u, d)

Closed(c, u, d) ==
    /\ process = "running"
    /\ onConnection(c, u, d)
    /\ Server!handleReadEof(Base, c, u, d)

Message(c) ==
    /\ process = "running"
    /\ onMessage(c)
    /\ Server!handleReadMessage(Base, c, "return", c)

\* connectDestroyed finds the connection closed by handleClose: no callback.
Destroyed(c) ==
    /\ process = "running"
    /\ UNCHANGED <<lru, process, requests>>
    /\ Server!RunConnectDestroyed(Base, c, "return", c)

Other ==
    /\ process = "running"
    /\ UNCHANGED <<lru, process, requests>>
    /\ \/ Server!Poll(Base) \/ Server!SwapFunctors(Base)
       \/ Server!BatchDone(Base) \/ Server!TestQuit(Base)
       \/ Server!AcceptFails
       \/ \E c \in Conn : Server!handleReadError(Base, c)

Next ==
    \/ \E c, d \in Conn, u \in Server!UserCall :
          Connected(c, u, d) \/ Closed(c, u, d)
    \/ \E c \in Conn : Message(c) \/ Destroyed(c)
    \/ Other

Spec == Init /\ [][Next]_vars

FairSpec == Spec /\ WF_vars(Next)

-----------------------------------------------------------------------------
(* Properties.                                                             *)

(***************************************************************************)
(* Every iterator in lrumap_ names a node of lrulist_ that holds its key,  *)
(* and no node is in the list twice: the splice of onMessage               *)
(* (TcpMysqlServer.cc:59) never uses the iterator of a popped node,        *)
(* although a closed connection has two nodes and onConnection erases the  *)
(* map entry by key, whichever of the two it pops.                         *)
(***************************************************************************)
IteratorsValid ==
    process = "running" =>
        /\ IsInjective(lrulist_)
        /\ \A c \in DOMAIN lrumap_ :
              lrumap_[c] \in ToSet(lrulist_) /\ lrumap_[c].conn = c

(***************************************************************************)
(* A connection that the server has not begun to shut down has its         *)
(* iterator: the lookup of onMessage misses only for evicted connections,  *)
(* whatever was opened and closed before.                                  *)
(***************************************************************************)
ConnectedIsTracked ==
    \A c \in Conn : state_[c] = "kConnected" => c \in DOMAIN lrumap_

(***************************************************************************)
(* "At most 1000 connections per reactor" (the LRU figure): never more     *)
(* than SIZECONN connections are up, evictions included.                   *)
(***************************************************************************)
AtMostSizeConn ==
    Cardinality({c \in Conn : state_[c] = "kConnected"}) <= SIZECONN

(***************************************************************************)
(* The LRU figure empties the slot of a connection that closes.  A         *)
(* connection whose teardown is complete has no node in lrulist_.          *)
(***************************************************************************)
ClosedLeavesList ==
    \A n \in ToSet(lrulist_) :
        ~ (state_[n.conn] = "kDisconnected" /\ n.conn \notin channels_)

(***************************************************************************)
(* The sequence diagram answers every request of a client, from the time   *)
(* wheel's buffer or, on a miss, from the database.                        *)
(***************************************************************************)
RequestAnswered == \A c \in Conn : c \in requests ~> c \notin requests

(***************************************************************************)
(* The list and the map of onConnection (TcpMysqlServer.cc:28-47) stay     *)
(* together, and bound the connections.                                    *)
(***************************************************************************)
LruInv ==
    /\ TypeOK
    /\ IteratorsValid
    /\ ConnectedIsTracked
    /\ AtMostSizeConn
=============================================================================
