----------------------------- MODULE Lifecycle -----------------------------
(***************************************************************************)
(* The life of a Nats object (aiobp/nats/_nats.py): connect(),             *)
(* disconnect(), and the calls that register something disconnect() has to *)
(* end -- serve() with the RPC tasks it leads to, consume() and            *)
(* stop_consumer().                                                        *)
(*                                                                         *)
(* Several user tasks call these, the on_connected hook is one of them;    *)
(* every await is a point where the others and the connection go on.  A    *)
(* consumer is seen from here as an object that is busy with a message or  *)
(* not (module Consumer has its workers and what consume() does for them), *)
(* and pending events only as the time the drain of the connection takes   *)
(* (module EventQueue).                                                    *)
(***************************************************************************)
EXTENDS Integers, Sequences, FiniteSets

CONSTANTS
  User,     \* tasks that use the object
  Calls,    \* the methods each of them calls
  Subject,  \* subjects to consume
  Method,   \* RPC methods to serve
  Suspends, \* client.subscribe() may suspend before it returns
  FromRpc,  \* an RPC handler may call disconnect()
  FlushFails, \* the drain of an RPC subscription may raise
  MaxCon,   \* bound: consumers made
  MaxSub,   \* bound: RPC subscriptions made
  MaxReq,   \* bound: RPC requests that arrive
  MaxClose, \* bound: connections closed through Nats.client
  MaxFault, \* bound: requests to the server that fail
  MaxConnect, \* bound: calls of connect()
  None      \* no subject, no method

ASSUME LifecycleConstants ==
  /\ Calls \in [User -> SUBSET {"connect", "disconnect", "serve", "consume", "stop"}]
  /\ Suspends \in BOOLEAN /\ FromRpc \in BOOLEAN /\ FlushFails \in BOOLEAN
  /\ MaxCon \in Nat /\ MaxSub \in Nat /\ MaxReq \in Nat /\ MaxClose \in Nat
  /\ MaxFault \in Nat /\ MaxConnect \in Nat
  /\ None \notin Subject \cup Method

Con == 1 .. MaxCon
Sub == 1 .. MaxSub
Req == 1 .. MaxReq

VARIABLES
  conn,      \* the client: "new", "up", "draining" or "closed"
  connects,  \* calls of connect() so far
  started,   \* EventQueue.started, what Nats takes for being connected
  consumers, \* Nats._consumers: subject to consumer, 0 if none
  con,       \* of each consumer: "none", "running", "stopping" or "stopped"
  busy,      \* consumers that process a message
  served,    \* Nats._rpc_subscriptions: <<method, subscription>> in order
  sub,       \* of each RPC subscription: "none", "active", "draining", "gone"
  req,       \* of each request: "none", "pending" (received), "running", "replied", "lost"
  of,        \* the subscription it arrived on
  user,      \* what every user task is doing
  faults,    \* requests to the server that failed
  closes,    \* connections closed through Nats.client
  aborted,   \* history: an exception of its own ended disconnect()
  listed     \* history: consumers disconnect() has found when it was called

connVars == <<conn, connects, started, closes>>
conVars == <<consumers, con, busy>>
rpcVars == <<served, sub, req, of>>
vars == <<conn, connects, started, consumers, con, busy, served, sub, req, of, user,
          faults, closes, aborted, listed>>

Frame == [op : {"idle", "subscribe", "flush", "consume", "stop",
                "consumers", "rpcDrain", "gather", "drain"},
          arg : Subject \cup Method \cup {None}, \* its argument
          id : Nat,                               \* the consumer or subscription at hand
          place : Nat,                            \* where it is in _rpc_subscriptions
          rest : SUBSET Subject,                  \* subjects disconnect() has yet to stop
          size : Nat,                             \* len of _rpc_subscriptions it iterates
          tasks : SUBSET Req,                     \* RPC tasks it gathers
          by : Req \cup {0}]                      \* the request whose handler calls it

Idle == [op |-> "idle", arg |-> None, id |-> 0, place |-> 0, rest |-> {}, size |-> 0, tasks |-> {}, by |-> 0]
At(u, op) == user[u].op = op
Go(u, f) == user' = [user EXCEPT ![u] = f]
Return(u) == Go(u, Idle)
MayCall(u, op) == At(u, "idle") /\ op \in Calls[u]
Fault == faults < MaxFault /\ faults' = faults + 1

Fresh(f) == {i \in DOMAIN f : f[i] = "none"}
Least(S) == CHOOSE i \in S : \A j \in S : i <= j

Init ==
  /\ conn = "new" /\ connects = 0 /\ started = FALSE /\ closes = 0
  /\ consumers = [x \in Subject |-> 0] /\ con = [k \in Con |-> "none"] /\ busy = {}
  /\ served = <<>> /\ sub = [s \in Sub |-> "none"]
  /\ req = [r \in Req |-> "none"] /\ of = [r \in Req |-> 0]
  /\ user = [u \in User |-> Idle]
  /\ faults = 0 /\ aborted = FALSE /\ listed = {}

-----------------------------------------------------------------------------
(* connect() and the connection.                                           *)

\* connect() is not called by two tasks at once.
Connect(u) ==
  /\ MayCall(u, "connect") /\ ~started
  /\ conn \in {"new", "closed"} /\ connects < MaxConnect
  /\ conn' = "up" /\ started' = TRUE /\ connects' = connects + 1
  /\ UNCHANGED <<conVars, rpcVars, user, faults, closes, aborted, listed>>

\* The application closes the connection itself, or nats-py gives it up.
CloseConnection ==
  /\ conn = "up" /\ closes < MaxClose
  /\ conn' = "closed" /\ closes' = closes + 1
  /\ sub' = [s \in Sub |-> IF sub[s] = "none" THEN "none" ELSE "gone"]
  /\ req' = [r \in Req |-> IF req[r] = "pending" THEN "lost" ELSE req[r]]
  /\ UNCHANGED <<connects, started, conVars, served, of, user, faults, aborted, listed>>

-----------------------------------------------------------------------------
(* serve() and RPC requests.                                               *)

Registered(m) == {i \in DOMAIN served : served[i][1] = m}

\* _rpc_subscriptions[m] = s
Put(m, s) ==
  IF Registered(m) = {} THEN Append(served, <<m, s>>)
  ELSE [i \in DOMAIN served |-> IF i \in Registered(m) THEN <<m, s>> ELSE served[i]]

Serve(u, m) ==
  /\ MayCall(u, "serve") /\ started /\ Registered(m) = {}
  /\ conn = "up" /\ Fresh(sub) # {}
  /\ LET s == Least(Fresh(sub)) IN
     /\ sub' = [sub EXCEPT ![s] = "active"]
     /\ \/ Suspends /\ Go(u, [Idle EXCEPT !.op = "subscribe", !.arg = m, !.id = s])
           /\ UNCHANGED served
        \/ Go(u, [Idle EXCEPT !.op = "flush"]) /\ served' = Put(m, s)
  /\ UNCHANGED <<connVars, conVars, req, of, faults, aborted, listed>>

\* client.subscribe() returns after it was suspended.
SubscribeReturns(u) ==
  /\ At(u, "subscribe")
  /\ served' = Put(user[u].arg, user[u].id)
  /\ Go(u, [Idle EXCEPT !.op = "flush"])
  /\ UNCHANGED <<connVars, conVars, sub, req, of, faults, aborted, listed>>

\* _sync_subscriptions() returns, or raises out of serve().
Flushed(u) ==
  /\ At(u, "flush")
  /\ Return(u)
  /\ UNCHANGED <<connVars, conVars, rpcVars, faults, aborted, listed>>

\* A request reaches a subscription; a draining one still hands over what it got.
Request(s) ==
  /\ conn = "up" /\ sub[s] = "active" /\ Fresh(req) # {}
  /\ LET r == Least(Fresh(req)) IN
     /\ req' = [req EXCEPT ![r] = "pending"]
     /\ of' = [of EXCEPT ![r] = s]
  /\ UNCHANGED <<connVars, conVars, served, sub, user, faults, aborted, listed>>

\* on_request() starts a task of its own for the call.
OnRequest(r) ==
  /\ req[r] = "pending" /\ conn # "closed"
  /\ req' = [req EXCEPT ![r] = "running"]
  /\ UNCHANGED <<connVars, conVars, served, sub, of, user, faults, aborted, listed>>

\* The handler ends, whether it returns or raises, and the reply is sent.
Reply(r) ==
  /\ req[r] = "running" /\ \A u \in User : user[u].by # r
  /\ req' = [req EXCEPT ![r] = IF conn = "closed" THEN "lost" ELSE "replied"]
  /\ UNCHANGED <<connVars, conVars, served, sub, of, user, faults, aborted, listed>>

-----------------------------------------------------------------------------
(* consume() and stop_consumer().                                          *)

Consume(u, x) ==
  /\ MayCall(u, "consume") /\ started /\ consumers[x] = 0
  /\ Go(u, [Idle EXCEPT !.op = "consume", !.arg = x])
  /\ UNCHANGED <<connVars, conVars, rpcVars, faults, aborted, listed>>

\* The requests consume() sends are answered: the consumer is registered and
\* started.  One that fails raises out of consume().
Consuming(u) ==
  /\ At(u, "consume")
  /\ \/ /\ conn = "up" /\ Fresh(con) # {}
        /\ LET k == Least(Fresh(con)) IN
           /\ consumers' = [consumers EXCEPT ![user[u].arg] = k]
           /\ con' = [con EXCEPT ![k] = "running"]
        /\ UNCHANGED <<busy, faults>>
     \/ conn = "up" /\ Fault /\ UNCHANGED conVars
     \/ conn # "up" /\ UNCHANGED <<conVars, faults>>
  /\ Return(u)
  /\ UNCHANGED <<connVars, rpcVars, aborted, listed>>

\* A worker gets a message, its handler ends and the message is acknowledged.
Takes(k) ==
  /\ con[k] = "running" /\ k \notin busy /\ conn = "up"
  /\ busy' = busy \cup {k}
  /\ UNCHANGED <<connVars, consumers, con, rpcVars, user, faults, aborted, listed>>

Finishes(k) ==
  /\ k \in busy
  /\ busy' = busy \ {k}
  /\ UNCHANGED <<connVars, consumers, con, rpcVars, user, faults, aborted, listed>>

\* Take the consumer of x out of _consumers and call its stop().
StopConsumer(u, x) ==
  /\ MayCall(u, "stop") /\ conn # "closed" /\ consumers[x] # 0
  /\ consumers' = [consumers EXCEPT ![x] = 0]
  /\ con' = [con EXCEPT ![consumers[x]] = "stopping"]
  /\ Go(u, [Idle EXCEPT !.op = "stop", !.id = consumers[x]])
  /\ UNCHANGED <<connVars, busy, rpcVars, faults, aborted, listed>>

\* Mutant of Stopped: stop() waits for the workers of all consumers.
AllStopped(k) == con[k] = "stopping" /\ busy = {}

\* Consumer.stop() returns once no worker processes a message.
Stopped(k) == con[k] = "stopping" /\ k \notin busy

StopReturns(u) ==
  LET k == user[u].id IN
  /\ At(u, "stop") /\ Stopped(k)
  /\ con' = [con EXCEPT ![k] = "stopped"]
  /\ Return(u)
  /\ UNCHANGED <<connVars, consumers, busy, rpcVars, faults, aborted, listed>>

-----------------------------------------------------------------------------
(* disconnect().  It runs from one await to the next: each operator below goes *)
(* on from a point of it, with the frame f of its caller u.                    *)

Running == {r \in Req : req[r] = "running"}

\* client.drain() starts, returns at once when another task has it started, or
\* raises on a closed connection and on one that reconnects; then events.stop().
DrainClient(u, f) ==
  \/ /\ conn = "up"
     /\ conn' = "draining" /\ Go(u, [f EXCEPT !.op = "drain", !.tasks = {}])
     /\ UNCHANGED <<started, faults>>
  \/ conn = "up" /\ Fault /\ Return(u) /\ UNCHANGED <<conn, started>>
  \/ conn = "draining" /\ started' = FALSE /\ Return(u) /\ UNCHANGED <<conn, faults>>
  \/ conn = "closed" /\ Return(u) /\ UNCHANGED <<conn, started, faults>>

\* Mutant of GatherTasks: the RPC tasks are not waited for.
GatherNone(u, f) == served' = <<>> /\ DrainClient(u, f)

\* Forget the RPC subscriptions and wait for the RPC tasks there are.
GatherTasks(u, f) ==
  /\ served' = <<>>
  /\ IF Running = {} THEN DrainClient(u, f)
     ELSE Go(u, [f EXCEPT !.op = "gather", !.tasks = Running]) /\ UNCHANGED <<conn, started, faults>>

\* The next RPC subscription is drained.  The loop iterates over the dict itself,
\* which must not have changed its size, and goes past a subscription that is
\* closed: its drain() raises, which is suppressed.
DrainRpc(u, f, subs) ==
  LET left == {p \in f.place .. Len(served) : subs[served[p][2]] # "gone"} IN
  \/ /\ Len(served) # f.size
     /\ sub' = subs /\ Return(u) /\ aborted' = TRUE
     /\ UNCHANGED <<served, conn, started, faults>>
  \/ /\ Len(served) = f.size /\ left # {}
     /\ LET s == served[Least(left)][2] IN
        /\ sub' = [subs EXCEPT ![s] = "draining"]
        /\ Go(u, [f EXCEPT !.op = "rpcDrain", !.id = s, !.place = Least(left) + 1])
     /\ UNCHANGED <<served, conn, started, faults, aborted>>
  \/ /\ Len(served) = f.size /\ left = {}
     /\ sub' = subs /\ GatherTasks(u, [f EXCEPT !.id = 0])
     /\ UNCHANGED aborted

\* Mutant of StopNext: it clears _consumers once those it found are stopped.
StopNextClears(u, f) ==
  LET left == {x \in f.rest : consumers[x] # 0 /\ conn # "closed"}
      cons == IF f.id = 0 THEN con ELSE [con EXCEPT ![f.id] = "stopped"]
  IN
  \/ \E x \in left :
       /\ consumers' = [consumers EXCEPT ![x] = 0]
       /\ con' = [cons EXCEPT ![consumers[x]] = "stopping"]
       /\ Go(u, [f EXCEPT !.op = "consumers", !.rest = @ \ {x}, !.id = consumers[x]])
       /\ UNCHANGED <<served, sub, conn, started, faults, aborted>>
  \/ /\ left = {}
     /\ con' = cons /\ consumers' = [x \in Subject |-> 0]
     /\ DrainRpc(u, [f EXCEPT !.rest = {}, !.id = 0, !.place = 1, !.size = Len(served)], sub)

\* One more of the consumers it found is stopped, if it is still there; the RPC
\* subscriptions are next.
StopNext(u, f) ==
  LET left == {x \in f.rest : consumers[x] # 0 /\ conn # "closed"}
      cons == IF f.id = 0 THEN con ELSE [con EXCEPT ![f.id] = "stopped"]
  IN
  \/ \E x \in left :
       /\ consumers' = [consumers EXCEPT ![x] = 0]
       /\ con' = [cons EXCEPT ![consumers[x]] = "stopping"]
       /\ Go(u, [f EXCEPT !.op = "consumers", !.rest = @ \ {x}, !.id = consumers[x]])
       /\ UNCHANGED <<served, sub, conn, started, faults, aborted>>
  \/ /\ left = {}
     /\ con' = cons
     /\ DrainRpc(u, [f EXCEPT !.rest = {}, !.id = 0, !.place = 1, !.size = Len(served)], sub)
     /\ UNCHANGED consumers

\* It does nothing when not connected.  r is the request whose handler calls it,
\* 0 if it is another task.
Disconnect(u, r) ==
  /\ MayCall(u, "disconnect")
  /\ conn # "closed" /\ started
  /\ r # 0 => FromRpc /\ req[r] = "running"
  /\ listed' = listed \cup ({consumers[x] : x \in Subject} \ {0})
  /\ StopNext(u, [Idle EXCEPT !.rest = {x \in Subject : consumers[x] # 0}, !.by = r])
  /\ UNCHANGED <<connects, closes, busy, req, of>>

\* Mutant of DisconnectStopped: stop() is not awaited.
StopNotAwaited(u) ==
  /\ At(u, "consumers") /\ StopNext(u, user[u])
  /\ UNCHANGED <<connects, closes, busy, req, of, listed>>

\* The consumer at hand has stopped.
DisconnectStopped(u) ==
  /\ At(u, "consumers") /\ Stopped(user[u].id)
  /\ StopNext(u, user[u])
  /\ UNCHANGED <<connects, closes, busy, req, of, listed>>

\* The subscription at hand handed over all its requests, or its drain raised, which is
\* suppressed: it gets no more then, and what it has got is handed over some time.
Drained(u) ==
  LET f == user[u]
      gone == [sub EXCEPT ![f.id] = "gone"]
      over == \A r \in Req : of[r] = f.id => req[r] # "pending"
  IN
  /\ At(u, "rpcDrain")
  /\ \/ over /\ DrainRpc(u, f, gone)
     \/ FlushFails /\ DrainRpc(u, f, sub)
  /\ UNCHANGED <<connects, closes, conVars, req, of, listed>>

\* The RPC tasks it waits for are done.
Gathered(u) ==
  /\ At(u, "gather") /\ user[u].tasks \cap Running = {}
  /\ DrainClient(u, user[u])
  /\ UNCHANGED <<connects, closes, conVars, rpcVars, aborted, listed>>

\* The drain handed over what was received and closes the connection.
Disconnected(u) ==
  /\ At(u, "drain")
  /\ \A r \in Req : req[r] # "pending"
  /\ conn' = "closed" /\ started' = FALSE
  /\ sub' = [s \in Sub |-> IF sub[s] = "none" THEN "none" ELSE "gone"]
  /\ Return(u)
  /\ UNCHANGED <<connects, closes, conVars, served, req, of, faults, aborted, listed>>

-----------------------------------------------------------------------------
ServeStep(u) == SubscribeReturns(u) \/ Flushed(u)
StopStep(u) == StopReturns(u) \/ Consuming(u)
DisconnectStep(u) ==
  DisconnectStopped(u) \/ Drained(u) \/ Gathered(u) \/ Disconnected(u)
Call(u) ==
  \/ Connect(u)
  \/ \E r \in Req \cup {0} : Disconnect(u, r)
  \/ \E m \in Method : Serve(u, m)
  \/ \E x \in Subject : Consume(u, x) \/ StopConsumer(u, x)
RpcStep(r) == OnRequest(r) \/ Reply(r)

Next ==
  \/ \E u \in User : Call(u) \/ ServeStep(u) \/ StopStep(u) \/ DisconnectStep(u)
  \/ \E r \in Req : RpcStep(r)
  \/ \E s \in Sub : Request(s)
  \/ \E k \in Con : Takes(k) \/ Finishes(k)
  \/ CloseConnection

Spec == Init /\ [][Next]_vars

(* Handlers of messages and of RPC calls end, and the client and the server do   *)
(* what was asked of them; nothing is assumed of the application.                *)
FairSpec ==
  /\ Spec
  /\ \A u \in User : WF_vars(ServeStep(u)) /\ WF_vars(StopStep(u)) /\ WF_vars(DisconnectStep(u))
  /\ \A r \in Req : WF_vars(RpcStep(r))
  /\ \A k \in Con : WF_vars(Finishes(k))

-----------------------------------------------------------------------------
(* Properties.                                                             *)

\* The types of the variables; a request belongs to a subscription that was made
\* and no subject or method is registered twice.
TypeOK ==
  /\ conn \in {"new", "up", "draining", "closed"} /\ connects \in 0 .. MaxConnect
  /\ started \in BOOLEAN /\ closes \in 0 .. MaxClose /\ faults \in 0 .. MaxFault
  /\ aborted \in BOOLEAN /\ listed \subseteq Con
  /\ consumers \in [Subject -> Con \cup {0}] /\ busy \subseteq Con
  /\ con \in [Con -> {"none", "running", "stopping", "stopped"}]
  /\ served \in Seq(Method \X Sub)
  /\ \A m \in Method : Cardinality(Registered(m)) <= 1
  /\ sub \in [Sub -> {"none", "active", "draining", "gone"}]
  /\ req \in [Req -> {"none", "pending", "running", "replied", "lost"}]
  /\ of \in [Req -> Sub \cup {0}]
  /\ \A r \in Req : (req[r] = "none") = (of[r] = 0)
  /\ user \in [User -> Frame]

Closed == conn = "closed" /\ closes = 0
Disconnecting(u) == user[u].op \in {"consumers", "rpcDrain", "gather", "drain"}

\* disconnect() waits for the RPC calls that run and for those received before
\* their subscription was drained: all of them reply before it closes the
\* connection.
AnsweredBeforeClose ==
  /\ Closed => \A r \in Req : req[r] \notin {"pending", "running"}
  /\ closes = 0 => \A r \in Req : req[r] # "lost"

\* disconnect() lets the messages be finished and acknowledged that the consumers it finds are
\* processing, before it closes the connection, but for a consumer another task is stopping.
AckedBeforeClose ==
  Closed => \A k \in busy \cap listed : \E w \in User : At(w, "stop") /\ user[w].id = k

\* Said of disconnect(): no message is being processed when it closes the connection.
AllAcked == Closed => busy = {}

\* Whenever nobody is in the middle of a call, serve() has the methods of exactly
\* the subscriptions the server has: none is left that no call could drain, and
\* none registered that gets no requests.
ServedIsActive ==
  (conn = "up" /\ \A u \in User : user[u].op \in {"idle", "flush", "consume", "stop"})
    => {served[i][2] : i \in DOMAIN served} = {s \in Sub : sub[s] = "active"}

\* consume() of one subject has one consumer: those that run are those
\* stop_consumer() and disconnect() find.
ConsumersKnown ==
  {k \in Con : con[k] = "running"} = {consumers[x] : x \in Subject} \ {0}

\* What is registered is what runs: whatever serve(), consume(), stop_consumer()
\* and disconnect() awaited in between, no subscription and no consumer is left
\* that none of them can end.
RegisteredRuns == ServedIsActive /\ ConsumersKnown

\* disconnect() does all of its steps: no exception of its own cuts it short.
DisconnectCompletes == ~aborted

\* connect() may be called again after disconnect(), which leaves no connection
\* that is closed and yet taken for a connected one.
Reconnectable ==
  conn = "closed" => ~started \/ \E u \in User : Disconnecting(u)

\* disconnect() ends once handlers do.
DisconnectEnds ==
  \A u \in User : Disconnecting(u) ~> ~Disconnecting(u)
=============================================================================
