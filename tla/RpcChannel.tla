----------------------------- MODULE RpcChannel -----------------------------
(***************************************************************************)
(* RpcChannel (src/muduo/net/protorpc/RpcChannel.cc) at both ends of a     *)
(* connection: threads of the client call methods; services of the server, *)
(* set up by RpcServer::onConnection(), run their done closures when they  *)
(* like.  Messages arrive in order (ProtobufCodecLite) until the           *)
(* connection is lost.  The n-th call asks for n; a response holds that,   *)
(* or 0 where it holds an error.                                           *)
(***************************************************************************)
EXTENDS Naturals, Sequences, FiniteSets, Functions

CONSTANTS RpcCaller,
          services_,     \* method -> "ok", or the error the server answers with
          MaxRpcs        \* bound: calls

VARIABLES
    id_, outstandings_,    \* id -> call
    calling,               \* per thread: what it has done of CallMethod()
    requests, responses,   \* on the wire
    serving,               \* requests whose services have not run done yet
    ran,                   \* done closures that have run, and what they saw
    deleted,               \* calls that ~RpcChannel() has deleted
    asked,                 \* per call: its method
    linked                 \* the connection is up

rpcVars == <<id_, outstandings_, calling, requests, responses, serving, ran, deleted,
             asked, linked>>

NoCall == [at |-> 0, id |-> 0, n |-> 0]

RpcInit ==
    /\ id_ = 0 /\ outstandings_ = <<>>
    /\ calling = [c \in RpcCaller |-> NoCall]
    /\ requests = <<>> /\ responses = <<>> /\ serving = {}
    /\ ran = <<>> /\ deleted = {} /\ asked = <<>> /\ linked = TRUE

-----------------------------------------------------------------------------
(* CallMethod(): takes an id, registers the call, sends the request.       *)

incrementAndGet == id_ + 1

CallMethod(c, method) ==
    /\ calling[c] = NoCall /\ Len(asked) < MaxRpcs
    /\ id_' = incrementAndGet
    /\ asked' = Append(asked, method)
    /\ calling' = [calling EXCEPT ![c] = [at |-> 1, id |-> id_', n |-> Len(asked')]]
    /\ UNCHANGED <<outstandings_, requests, responses, serving, ran, deleted, linked>>

\* Fault: the request goes out before the call is known.
StepsSwapped == <<"send", "register">>

Steps == <<"register", "send">>

Ahead(c) == calling' = [calling EXCEPT ![c] = IF @.at = 2 THEN NoCall ELSE [@ EXCEPT !.at = 2]]

Register(c) ==
    /\ calling[c].at > 0 /\ Steps[calling[c].at] = "register"
    /\ outstandings_' = [i \in DOMAIN outstandings_ \cup {calling[c].id} |->
                             IF i = calling[c].id THEN calling[c].n ELSE outstandings_[i]]
    /\ Ahead(c)
    /\ UNCHANGED <<id_, requests, responses, serving, ran, deleted, asked, linked>>

Send(c) ==
    /\ calling[c].at > 0 /\ Steps[calling[c].at] = "send"
    /\ requests' = IF linked THEN Append(requests, [id |-> calling[c].id, n |-> calling[c].n])
                   ELSE requests
    /\ Ahead(c)
    /\ UNCHANGED <<id_, outstandings_, responses, serving, ran, deleted, asked, linked>>

-----------------------------------------------------------------------------
(* onRpcMessage().                                                         *)

OnRequest ==
    /\ requests # <<>>
    /\ requests' = Tail(requests)
    /\ LET r == Head(requests) IN
       IF services_[asked[r.n]] = "ok"
       THEN serving' = serving \cup {r} /\ UNCHANGED responses
       ELSE responses' = Append(responses, [id |-> r.id, n |-> 0]) /\ UNCHANGED serving
    /\ UNCHANGED <<id_, outstandings_, calling, ran, deleted, asked, linked>>

\* The closure holds a plain pointer to the channel: no step when that is gone.
doneCallback(r) ==
    /\ r \in serving /\ linked
    /\ serving' = serving \ {r}
    /\ responses' = Append(responses, r)
    /\ UNCHANGED <<id_, outstandings_, calling, requests, ran, deleted, asked, linked>>

\* Fault: the oldest call is taken to be the one that is answered.
FindsOldest(r) == {id \in DOMAIN outstandings_ : \A i \in DOMAIN outstandings_ : id <= i}

Finds(r) == {r.id} \cap DOMAIN outstandings_

OnResponse ==
    /\ responses # <<>>
    /\ responses' = Tail(responses)
    /\ LET r == Head(responses)
           found == Finds(r) IN
       /\ ran' = IF found = {} THEN ran
                 ELSE Append(ran, [n |-> outstandings_[CHOOSE i \in found : TRUE], saw |-> r.n])
       /\ outstandings_' = Restrict(outstandings_, DOMAIN outstandings_ \ found)
    /\ UNCHANGED <<id_, calling, requests, serving, deleted, asked, linked>>

\* Both ends see the connection go; the server's channel goes with its context.
Disconnect ==
    /\ linked
    /\ linked' = FALSE /\ requests' = <<>> /\ responses' = <<>>
    /\ UNCHANGED <<id_, outstandings_, calling, serving, ran, deleted, asked>>

\* ~RpcChannel() at the client, when no thread is in CallMethod().
Destroy ==
    /\ ~linked /\ outstandings_ # <<>> /\ \A c \in RpcCaller : calling[c] = NoCall
    /\ deleted' = deleted \cup Range(outstandings_)
    /\ outstandings_' = <<>>
    /\ UNCHANGED <<id_, calling, requests, responses, serving, ran, asked, linked>>

RpcNext ==
    \/ \E c \in RpcCaller :
          Register(c) \/ Send(c) \/ \E m \in DOMAIN services_ : CallMethod(c, m)
    \/ OnRequest \/ OnResponse \/ \E r \in serving : doneCallback(r)
    \/ Disconnect \/ Destroy

RpcSpec == RpcInit /\ [][RpcNext]_rpcVars

\* Threads run, loops read, and services answer.
RpcFairness ==
    /\ \A c \in RpcCaller : WF_rpcVars(Register(c)) /\ WF_rpcVars(Send(c))
    /\ WF_rpcVars(OnRequest) /\ WF_rpcVars(OnResponse)
    /\ \A n \in 1 .. MaxRpcs : WF_rpcVars(\E r \in serving : r.n = n /\ doneCallback(r))

-----------------------------------------------------------------------------
(***************************************************************************)
(* Every call is in exactly one place: with the thread that makes it,      *)
(* among the outstanding ones, answered, or deleted; so no closure runs    *)
(* twice or is deleted after it ran (RpcChannel.cc:41, 99, 112).  Answers  *)
(* that come out of order go to the calls they belong to; an error reaches *)
(* the closure as a response that was never filled in.                     *)
(***************************************************************************)
RpcOnce ==
    /\ \A n \in DOMAIN asked :
          1 = Cardinality({c \in RpcCaller : calling[c].n = n /\ Steps[calling[c].at] = "register"})
              + Cardinality({i \in DOMAIN outstandings_ : outstandings_[i] = n})
              + Cardinality({i \in DOMAIN ran : ran[i].n = n})
              + Cardinality(deleted \cap {n})
    /\ \A i \in DOMAIN ran :
          ran[i].saw = IF services_[asked[ran[i].n]] = "ok" THEN ran[i].n ELSE 0

(***************************************************************************)
(* Every call is answered unless the connection is lost, in which case     *)
(* nothing ever tells the caller (RpcChannel.cc:69).                       *)
(***************************************************************************)
RpcAnswered ==
    []<>(linked => DOMAIN asked = {ran[i].n : i \in DOMAIN ran})
=============================================================================
