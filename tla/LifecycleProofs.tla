-------------------------- MODULE LifecycleProofs --------------------------
(* Theorems about Lifecycle, for all values of its constants. *)
EXTENDS Lifecycle, FiniteSetTheorems, SequenceTheorems, TLAPS

-----------------------------------------------------------------------------
(* The types of the variables.                                             *)

Conns == {"new", "up", "draining", "closed"}
ConStates == {"none", "running", "stopping", "stopped"}
SubStates == {"none", "active", "draining", "gone"}
ReqStates == {"none", "pending", "running", "replied", "lost"}

Types ==
  /\ conn \in Conns /\ connects \in 0 .. MaxConnect
  /\ started \in BOOLEAN /\ closes \in 0 .. MaxClose /\ faults \in 0 .. MaxFault
  /\ aborted \in BOOLEAN
  /\ consumers \in [Subject -> Con \cup {0}] /\ busy \in SUBSET Con /\ con \in [Con -> ConStates]
  /\ served \in Seq(Method \X Sub) /\ sub \in [Sub -> SubStates]
  /\ req \in [Req -> ReqStates] /\ of \in [Req -> Sub \cup {0}]
  /\ user \in [User -> Frame]

\* The arguments of the call task u is in, which is one it makes.
Fine(u, f) ==
  /\ f.op = "subscribe" => f.id \in Sub /\ f.arg \in Method /\ "serve" \in Calls[u]
  /\ f.op = "consume" => f.arg \in Subject /\ "consume" \in Calls[u]
  /\ f.op = "stop" => f.id \in Con /\ "stop" \in Calls[u]
  /\ f.op = "consumers" => f.id \in Con
  /\ f.op = "rpcDrain" => f.id \in Sub /\ f.place >= 1
  /\ f.op \in {"consumers", "rpcDrain", "gather", "drain"} => "disconnect" \in Calls[u]

Frames == \A u \in User : Fine(u, user[u])

\* A method is registered once.
Distinct == \A i, j \in DOMAIN served : served[i][1] = served[j][1] => i = j

\* A request belongs to a subscription from when it arrives.
Arrived == \A r \in Req : (req[r] = "none") = (of[r] = 0)

Typed == Types /\ Frames /\ Distinct /\ Arrived

-----------------------------------------------------------------------------
(* What the steps do.                                                      *)

LEMMA Numbers ==
  /\ Con \subseteq Nat \ {0} /\ Sub \subseteq Nat \ {0} /\ Req \subseteq Nat \ {0}
  /\ MaxClose \in Nat /\ MaxFault \in Nat /\ MaxConnect \in Nat
  /\ Calls \in [User -> SUBSET {"connect", "disconnect", "serve", "consume", "stop"}]
  /\ Suspends \in BOOLEAN /\ None \notin Subject \cup Method
<1>1. QED
  BY LifecycleConstants DEF Con, Sub, Req

LEMMA LeastIs ==
  ASSUME NEW S \in SUBSET Nat, S # {}
  PROVE  Least(S) \in S /\ \A j \in S : Least(S) <= j
<1>1. PICK x \in S : \A y \in S : <<y, x>> \notin OpToRel(<, Nat)
  BY NatLessThanWellFounded, WFMin
<1>2. OpToRel(<, Nat) = {p \in Nat \X Nat : p[1] < p[2]}
  BY DEF OpToRel
<1>3. \A j \in S : ~(j < x)
  BY <1>1, <1>2
<1>4. \A j \in S : x <= j
  BY <1>3
<1>5. QED
  BY <1>4 DEF Least

LEMMA IdleIs ==
  /\ Idle \in Frame /\ Idle.op = "idle" /\ Idle.id = 0 /\ Idle.rest = {} /\ Idle.by = 0
  /\ \A u \in User : Fine(u, Idle)
<1>1. 0 \in Nat /\ {} \in SUBSET Subject /\ {} \in SUBSET Req
  OBVIOUS
<1>2. QED
  BY <1>1 DEF Idle, Frame, Fine

\* The first of what is not used yet.
LEMMA FreshIs ==
  /\ Types /\ Fresh(sub) # {} => Least(Fresh(sub)) \in Sub /\ sub[Least(Fresh(sub))] = "none"
  /\ Types /\ Fresh(con) # {} => Least(Fresh(con)) \in Con /\ con[Least(Fresh(con))] = "none"
  /\ Types /\ Fresh(req) # {} => Least(Fresh(req)) \in Req /\ req[Least(Fresh(req))] = "none"
<1>1. ASSUME NEW n \in Nat, NEW S, NEW f \in [1 .. n -> S], Fresh(f) # {}
      PROVE  Least(Fresh(f)) \in 1 .. n /\ f[Least(Fresh(f))] = "none"
  <2>1. Fresh(f) \in SUBSET Nat
    BY DEF Fresh
  <2>2. Least(Fresh(f)) \in Fresh(f)
    BY <1>1, <2>1, LeastIs
  <2>3. QED
    BY <2>2 DEF Fresh
<1>2. MaxCon \in Nat /\ MaxSub \in Nat /\ MaxReq \in Nat
  BY LifecycleConstants
<1>3. QED
  BY <1>1, <1>2 DEF Types, Con, Sub, Req

\* The task that makes a step goes on with frame g.
LEMMA MoveIs ==
  ASSUME Types, Frames, NEW u \in User, NEW g \in Frame, Fine(u, g), user' = [user EXCEPT ![u] = g]
  PROVE  /\ user' \in [User -> Frame] /\ Frames'
         /\ \A w \in User : user'[w] = IF w = u THEN g ELSE user[w]
<1>1. user \in [User -> Frame]
  BY DEF Types
<1>2. \A w \in User : user'[w] = IF w = u THEN g ELSE user[w]
  BY <1>1
<1>3. user' \in [User -> Frame]
  BY <1>1
<1>4. Frames'
  BY <1>2 DEF Frames, Fine
<1>5. QED
  BY <1>2, <1>3, <1>4

\* What disconnect() does from its await to the next: of the client, ...
ClientDrains(g) ==
  \/ /\ g.op = "drain" /\ conn = "up" /\ conn' = "draining"
     /\ UNCHANGED <<started, faults>>
  \/ /\ g = Idle /\ conn' = conn /\ faults' \in 0 .. MaxFault
     /\ \/ started' = started
        \/ conn = "draining" /\ started' = FALSE

\* ... of the RPC tasks, ...
TasksDone(g) ==
  \/ /\ g.op = "gather" /\ g.tasks = Running
     /\ UNCHANGED <<conn, started, faults>>
  \/ Running = {} /\ ClientDrains(g)

\* ... of the RPC subscriptions from the one at place on, which are in the states of subs, ...
RpcDrains(place, size, subs, g) ==
  \/ /\ Len(served) # size /\ g = Idle
     /\ sub' = subs /\ aborted' = TRUE /\ UNCHANGED <<served, conn, started, faults>>
  \/ \E p \in DOMAIN served :
       /\ p >= place /\ Len(served) = size
       /\ \A q \in DOMAIN served : q >= place /\ q < p => subs[served[q][2]] = "gone"
       /\ sub' = [subs EXCEPT ![served[p][2]] = "draining"]
       /\ g.op = "rpcDrain" /\ g.id = served[p][2] /\ g.place = p + 1 /\ g.size = size
       /\ UNCHANGED <<served, conn, started, faults, aborted>>
  \/ /\ Len(served) = size
     /\ \A q \in DOMAIN served : q >= place => subs[served[q][2]] = "gone"
     /\ sub' = subs /\ served' = <<>> /\ UNCHANGED aborted /\ TasksDone(g)

\* ... of the consumers that are left, which are in the states of cons.
ConsumersStop(rest, cons, g) ==
  \/ \E x \in rest :
       /\ consumers[x] # 0 /\ conn # "closed"
       /\ consumers' = [consumers EXCEPT ![x] = 0]
       /\ con' = [cons EXCEPT ![consumers[x]] = "stopping"]
       /\ g.op = "consumers" /\ g.rest = rest \ {x} /\ g.id = consumers[x]
       /\ UNCHANGED <<served, sub, conn, started, faults, aborted>>
  \/ /\ \A x \in rest : consumers[x] = 0 \/ conn = "closed"
     /\ consumers' = consumers /\ con' = cons
     /\ RpcDrains(1, Len(served), sub, g)

LEMMA DrainClientDoes ==
  ASSUME Types, NEW u \in User, NEW f \in Frame, DrainClient(u, f)
  PROVE  \E g \in Frame : user' = [user EXCEPT ![u] = g] /\ ClientDrains(g)
<1> DEFINE Goal == \E g \in Frame : user' = [user EXCEPT ![u] = g] /\ ClientDrains(g)
<1>1. faults \in 0 .. MaxFault /\ MaxFault \in Nat /\ conn \in Conns
  BY Numbers DEF Types
<1>2. CASE /\ conn = "up" /\ conn' = "draining" /\ Go(u, [f EXCEPT !.op = "drain", !.tasks = {}])
           /\ UNCHANGED <<started, faults>>
  <2> DEFINE g == [f EXCEPT !.op = "drain", !.tasks = {}]
  <2>1. g \in Frame /\ g.op = "drain"
    BY DEF Frame
  <2> HIDE DEF g
  <2>2. QED
    BY <1>2, <2>1 DEF Go, ClientDrains, g
<1>3. CASE conn = "up" /\ Fault /\ Return(u) /\ UNCHANGED <<conn, started>>
  <2>1. faults' \in 0 .. MaxFault
    BY <1>1, <1>3 DEF Fault
  <2>2. QED
    BY <1>3, <2>1, IdleIs DEF Return, Go, ClientDrains
<1>4. CASE conn = "draining" /\ started' = FALSE /\ Return(u) /\ UNCHANGED <<conn, faults>>
  BY <1>1, <1>4, IdleIs DEF Return, Go, ClientDrains
<1>5. CASE conn = "closed" /\ Return(u) /\ UNCHANGED <<conn, started, faults>>
  BY <1>1, <1>5, IdleIs DEF Return, Go, ClientDrains
<1> HIDE DEF Goal
<1>6. Goal
  BY <1>2, <1>3, <1>4, <1>5 DEF DrainClient, Goal
<1>7. QED
  BY <1>6 DEF Goal

LEMMA GatherTasksDoes ==
  ASSUME Types, NEW u \in User, NEW f \in Frame, GatherTasks(u, f)
  PROVE  served' = <<>> /\ \E g \in Frame : user' = [user EXCEPT ![u] = g] /\ TasksDone(g)
<1>1. CASE Running = {}
  BY <1>1, DrainClientDoes DEF GatherTasks, TasksDone
<1>2. CASE Running # {}
  <2> DEFINE g == [f EXCEPT !.op = "gather", !.tasks = Running]
  <2>1. Running \in SUBSET Req
    BY DEF Running
  <2>2. g \in Frame /\ g.op = "gather" /\ g.tasks = Running
    BY <2>1 DEF Frame
  <2>3. user' = [user EXCEPT ![u] = g] /\ UNCHANGED <<conn, started, faults>> /\ served' = <<>>
    BY <1>2 DEF GatherTasks, Go
  <2> HIDE DEF g
  <2>4. QED
    BY <2>2, <2>3 DEF TasksDone
<1>3. QED
  BY <1>1, <1>2

LEMMA DrainRpcDoes ==
  ASSUME Types, NEW u \in User, NEW f \in Frame, NEW subs, DrainRpc(u, f, subs), f.place >= 1
  PROVE  \E g \in Frame : user' = [user EXCEPT ![u] = g] /\ RpcDrains(f.place, f.size, subs, g)
<1> DEFINE left == {p \in f.place .. Len(served) : subs[served[p][2]] # "gone"}
           Goal == \E g \in Frame : user' = [user EXCEPT ![u] = g] /\ RpcDrains(f.place, f.size, subs, g)
<1>1. served \in Seq(Method \X Sub) /\ Len(served) \in Nat /\ DOMAIN served = 1 .. Len(served)
  BY DEF Types
<1>2. f.place \in Nat
  BY DEF Frame
<1>3. CASE /\ Len(served) # f.size
           /\ sub' = subs /\ Return(u) /\ aborted' = TRUE
           /\ UNCHANGED <<served, conn, started, faults>>
  BY <1>3, IdleIs DEF Return, Go, RpcDrains
<1>4. CASE /\ Len(served) = f.size /\ left # {}
           /\ LET s == served[Least(left)][2] IN
              /\ sub' = [subs EXCEPT ![s] = "draining"]
              /\ Go(u, [f EXCEPT !.op = "rpcDrain", !.id = s, !.place = Least(left) + 1])
           /\ UNCHANGED <<served, conn, started, faults, aborted>>
  <2> DEFINE p == Least(left)
             s == served[p][2]
             g == [f EXCEPT !.op = "rpcDrain", !.id = s, !.place = p + 1]
  <2>1. left \in SUBSET Nat
    BY <1>1, <1>2
  <2>2. p \in left /\ \A j \in left : p <= j
    BY <1>4, <2>1, LeastIs
  <2>3. p \in DOMAIN served /\ p >= f.place /\ p \in Nat
    BY <1>1, <1>2, <2>2
  <2>4. \A q \in DOMAIN served : q >= f.place /\ q < p => subs[served[q][2]] = "gone"
    <3>1. SUFFICES ASSUME NEW q \in DOMAIN served, q >= f.place, q < p, subs[served[q][2]] # "gone" PROVE FALSE
      OBVIOUS
    <3>2. q \in left
      BY <1>1, <1>2, <3>1
    <3>3. p <= q
      BY <2>2, <3>2
    <3>4. QED
      BY <1>1, <2>3, <3>1, <3>3
  <2>5. s \in Nat
    <3>1. served[p] \in Method \X Sub
      BY <1>1, <2>3
    <3>2. QED
      BY <3>1, Numbers
  <2> HIDE DEF p, left
  <2>6. g \in Frame /\ g.op = "rpcDrain" /\ g.id = s /\ g.place = p + 1 /\ g.size = f.size
    <3>1. p + 1 \in Nat
      BY <2>3
    <3> HIDE DEF s
    <3>2. QED
      BY <2>5, <3>1 DEF Frame
  <2>7. user' = [user EXCEPT ![u] = g] /\ sub' = [subs EXCEPT ![served[p][2]] = "draining"]
    BY <1>4 DEF Go, p
  <2> HIDE DEF g
  <2>8. QED
    BY <1>4, <2>3, <2>4, <2>6, <2>7 DEF RpcDrains
<1>5. CASE /\ Len(served) = f.size /\ left = {}
           /\ sub' = subs /\ GatherTasks(u, [f EXCEPT !.id = 0])
           /\ UNCHANGED aborted
  <2> DEFINE h == [f EXCEPT !.id = 0]
  <2>1. h \in Frame
    BY DEF Frame
  <2>2. GatherTasks(u, h)
    BY <1>5
  <2> HIDE DEF h
  <2>3. served' = <<>> /\ \E g \in Frame : user' = [user EXCEPT ![u] = g] /\ TasksDone(g)
    BY <2>1, <2>2, GatherTasksDoes
  <2>4. \A q \in DOMAIN served : q >= f.place => subs[served[q][2]] = "gone"
    BY <1>1, <1>2, <1>5
  <2>5. QED
    BY <1>5, <2>3, <2>4 DEF RpcDrains
<1> HIDE DEF Goal
<1>6. Goal
  BY <1>3, <1>4, <1>5 DEF DrainRpc, Goal
<1>7. QED
  BY <1>6 DEF Goal

\* The states of the consumers once disconnect() knows that f's has stopped.
Settled(f) == IF f.id = 0 THEN con ELSE [con EXCEPT ![f.id] = "stopped"]

LEMMA StopNextDoes ==
  ASSUME Types, NEW u \in User, NEW f \in Frame, StopNext(u, f)
  PROVE  \E g \in Frame : user' = [user EXCEPT ![u] = g] /\ ConsumersStop(f.rest, Settled(f), g)
<1> DEFINE left == {x \in f.rest : consumers[x] # 0 /\ conn # "closed"}
           Goal == \E g \in Frame : user' = [user EXCEPT ![u] = g] /\ ConsumersStop(f.rest, Settled(f), g)
<1>1. f.rest \in SUBSET Subject
  BY DEF Frame
<1>2. ASSUME NEW x \in left,
             consumers' = [consumers EXCEPT ![x] = 0],
             con' = [Settled(f) EXCEPT ![consumers[x]] = "stopping"],
             Go(u, [f EXCEPT !.op = "consumers", !.rest = @ \ {x}, !.id = consumers[x]]),
             UNCHANGED <<served, sub, conn, started, faults, aborted>>
      PROVE  Goal
  <2> DEFINE k == consumers[x]
             rest == f.rest \ {x}
             g == [f EXCEPT !.op = "consumers", !.rest = rest, !.id = k]
  <2>1. k \in Nat /\ rest \in SUBSET Subject
    BY <1>1, Numbers DEF Types
  <2>2. user' = [user EXCEPT ![u] = g]
    BY <1>2 DEF Go, Frame
  <2> HIDE DEF k, rest
  <2>3. g \in Frame /\ g.op = "consumers" /\ g.rest = rest /\ g.id = k
    BY <2>1 DEF Frame
  <2> HIDE DEF g
  <2>4. QED
    BY <1>2, <2>2, <2>3 DEF ConsumersStop, k, rest
<1>3. CASE /\ left = {}
           /\ con' = Settled(f)
           /\ DrainRpc(u, [f EXCEPT !.rest = {}, !.id = 0, !.place = 1, !.size = Len(served)], sub)
           /\ UNCHANGED consumers
  <2> DEFINE n == Len(served)
             h == [f EXCEPT !.rest = {}, !.id = 0, !.place = 1, !.size = n]
  <2>1. n \in Nat /\ {} \in SUBSET Subject
    BY DEF Types
  <2> HIDE DEF n
  <2>2. h \in Frame /\ h.place = 1 /\ h.size = n
    BY <2>1 DEF Frame
  <2>3. DrainRpc(u, h, sub)
    BY <1>3 DEF n
  <2> HIDE DEF h
  <2>4. \E g \in Frame : user' = [user EXCEPT ![u] = g] /\ RpcDrains(1, n, sub, g)
    <3>1. h.place >= 1
      BY <2>2
    <3>2. \E g \in Frame : user' = [user EXCEPT ![u] = g] /\ RpcDrains(h.place, h.size, sub, g)
      BY <2>2, <2>3, <3>1, DrainRpcDoes
    <3>3. QED
      BY <2>2, <3>2
  <2>5. QED
    BY <1>3, <2>4 DEF ConsumersStop, n
<1> HIDE DEF Goal
<1>4. CASE left = {}
  <2>1. /\ con' = Settled(f)
        /\ DrainRpc(u, [f EXCEPT !.rest = {}, !.id = 0, !.place = 1, !.size = Len(served)], sub)
        /\ UNCHANGED consumers
    BY <1>4 DEF StopNext, Settled
  <2>2. QED
    BY <1>3, <1>4, <2>1
<1>5. CASE left # {}
  <2>1. PICK x \in left :
          /\ consumers' = [consumers EXCEPT ![x] = 0]
          /\ con' = [Settled(f) EXCEPT ![consumers[x]] = "stopping"]
          /\ Go(u, [f EXCEPT !.op = "consumers", !.rest = @ \ {x}, !.id = consumers[x]])
          /\ UNCHANGED <<served, sub, conn, started, faults, aborted>>
    BY <1>5 DEF StopNext, Settled
  <2>2. Goal
    BY <1>2, <2>1
  <2>3. QED
    BY <2>2 DEF Goal
<1>6. QED
  BY <1>4, <1>5

-----------------------------------------------------------------------------
(* disconnect(), from one of its awaits to the next.                       *)

Others == UNCHANGED <<connects, closes, busy, req, of>>

LEMMA DisconnectDoes ==
  ASSUME Types, Frames, NEW u \in User, NEW r \in Req \cup {0}, Disconnect(u, r)
  PROVE  /\ user[u].op = "idle" /\ "disconnect" \in Calls[u] /\ conn # "closed" /\ started /\ Others
         /\ \E g \in Frame : /\ user' = [user EXCEPT ![u] = g]
                             /\ ConsumersStop({x \in Subject : consumers[x] # 0}, con, g)
<1> DEFINE rest == {x \in Subject : consumers[x] # 0}
           f == [Idle EXCEPT !.rest = rest, !.by = r]
<1>1. rest \in SUBSET Subject
  OBVIOUS
<1>2. StopNext(u, f) /\ At(u, "idle") /\ "disconnect" \in Calls[u] /\ conn # "closed" /\ started
  BY DEF Disconnect, MayCall
<1>3. Others
  BY DEF Disconnect, Others
<1> HIDE DEF rest
<1>4. f \in Frame /\ f.rest = rest /\ f.id = 0
  <2>1. Idle \in Frame /\ Idle.id = 0
    BY IdleIs
  <2>2. QED
    BY <1>1, <2>1 DEF Frame
<1> HIDE DEF f
<1>5. \E g \in Frame : user' = [user EXCEPT ![u] = g] /\ ConsumersStop(f.rest, Settled(f), g)
  BY <1>2, <1>4, StopNextDoes
<1>6. Settled(f) = con
  BY <1>4 DEF Settled
<1>7. QED
  BY <1>2, <1>3, <1>4, <1>5, <1>6 DEF At, rest

LEMMA DisconnectStoppedDoes ==
  ASSUME Types, Frames, NEW u \in User, DisconnectStopped(u)
  PROVE  /\ user[u].op = "consumers" /\ "disconnect" \in Calls[u] /\ user[u].id \in Con
         /\ con[user[u].id] = "stopping" /\ user[u].id \notin busy /\ Others
         /\ \E g \in Frame : /\ user' = [user EXCEPT ![u] = g]
                             /\ ConsumersStop(user[u].rest, [con EXCEPT ![user[u].id] = "stopped"], g)
<1> DEFINE f == user[u]
<1>1. StopNext(u, f) /\ f.op = "consumers" /\ con[f.id] = "stopping" /\ f.id \notin busy
  BY DEF DisconnectStopped, At, Stopped
<1>2. Others
  BY DEF DisconnectStopped, Others
<1>3. f \in Frame /\ f.id \in Con /\ "disconnect" \in Calls[u]
  BY <1>1 DEF Types, Frames, Fine
<1>4. f.id # 0
  BY <1>3, Numbers
<1> HIDE DEF f
<1>5. \E g \in Frame : user' = [user EXCEPT ![u] = g] /\ ConsumersStop(f.rest, Settled(f), g)
  BY <1>1, <1>3, StopNextDoes
<1>6. Settled(f) = [con EXCEPT ![f.id] = "stopped"]
  BY <1>4 DEF Settled
<1>7. QED
  BY <1>1, <1>2, <1>3, <1>5, <1>6 DEF f

LEMMA DrainedDoes ==
  ASSUME Types, Frames, NEW u \in User, Drained(u)
  PROVE  /\ user[u].op = "rpcDrain" /\ "disconnect" \in Calls[u]
         /\ user[u].id \in Sub /\ user[u].place \in Nat /\ user[u].place >= 1
         /\ consumers' = consumers /\ con' = con /\ Others
         /\ \E subs \in [Sub -> SubStates], g \in Frame :
              /\ user' = [user EXCEPT ![u] = g] /\ RpcDrains(user[u].place, user[u].size, subs, g)
              /\ \/ FlushFails /\ subs = sub
                 \/ /\ subs = [sub EXCEPT ![user[u].id] = "gone"]
                    /\ \A r \in Req : of[r] = user[u].id => req[r] # "pending"
<1> DEFINE f == user[u]
           gone == [sub EXCEPT ![f.id] = "gone"]
           over == \A r \in Req : of[r] = f.id => req[r] # "pending"
           Goal == \E subs \in [Sub -> SubStates], g \in Frame :
              /\ user' = [user EXCEPT ![u] = g] /\ RpcDrains(f.place, f.size, subs, g)
              /\ (FlushFails /\ subs = sub) \/ (subs = gone /\ over)
<1>1. f.op = "rpcDrain" /\ ((over /\ DrainRpc(u, f, gone)) \/ (FlushFails /\ DrainRpc(u, f, sub)))
  BY DEF Drained, At
<1>2. consumers' = consumers /\ con' = con /\ Others
  BY DEF Drained, conVars, Others
<1>3. f \in Frame /\ f.id \in Sub /\ f.place >= 1 /\ "disconnect" \in Calls[u]
  BY <1>1 DEF Types, Frames, Fine
<1>4. f.place \in Nat
  BY <1>3 DEF Frame
<1>5. gone \in [Sub -> SubStates] /\ sub \in [Sub -> SubStates]
  BY DEF Types, SubStates
<1> HIDE DEF f, gone, over
<1>6. ASSUME over, DrainRpc(u, f, gone) PROVE Goal
  <2>1. \E g \in Frame : user' = [user EXCEPT ![u] = g] /\ RpcDrains(f.place, f.size, gone, g)
    BY <1>3, <1>6, DrainRpcDoes
  <2>2. QED
    BY <1>5, <1>6, <2>1
<1>7. ASSUME FlushFails, DrainRpc(u, f, sub) PROVE Goal
  <2>1. \E g \in Frame : user' = [user EXCEPT ![u] = g] /\ RpcDrains(f.place, f.size, sub, g)
    BY <1>3, <1>7, DrainRpcDoes
  <2>2. QED
    BY <1>5, <1>7, <2>1
<1>8. Goal
  BY <1>1, <1>6, <1>7
<1>9. QED
  BY <1>1, <1>2, <1>3, <1>4, <1>8 DEF f, gone, over

LEMMA GatheredDoes ==
  ASSUME Types, Frames, NEW u \in User, Gathered(u)
  PROVE  /\ user[u].op = "gather" /\ "disconnect" \in Calls[u] /\ user[u].tasks \cap Running = {}
         /\ UNCHANGED <<consumers, con, served, sub, aborted>> /\ Others
         /\ \E g \in Frame : user' = [user EXCEPT ![u] = g] /\ ClientDrains(g)
<1> DEFINE f == user[u]
<1>1. f.op = "gather" /\ DrainClient(u, f) /\ f.tasks \cap Running = {}
  BY DEF Gathered, At
<1>2. UNCHANGED <<consumers, con, served, sub, aborted>> /\ Others
  BY DEF Gathered, conVars, rpcVars, Others
<1>3. f \in Frame /\ "disconnect" \in Calls[u]
  BY <1>1 DEF Types, Frames, Fine
<1>4. \E g \in Frame : user' = [user EXCEPT ![u] = g] /\ ClientDrains(g)
  BY <1>1, <1>3, DrainClientDoes DEF f
<1>5. QED
  BY <1>1, <1>2, <1>3, <1>4

-----------------------------------------------------------------------------
(* Type correctness.                                                       *)

\* What all these steps leave of the types.
LEMMA ClientDrainsTypes ==
  ASSUME Types, NEW u \in User, NEW g \in Frame, "disconnect" \in Calls[u], ClientDrains(g)
  PROVE  conn' \in Conns /\ started' \in BOOLEAN /\ faults' \in 0 .. MaxFault /\ Fine(u, g)
<1>1. CASE g.op = "drain" /\ conn = "up" /\ conn' = "draining" /\ UNCHANGED <<started, faults>>
  BY <1>1 DEF Types, Conns, Fine
<1>2. CASE /\ g = Idle /\ conn' = conn /\ faults' \in 0 .. MaxFault
           /\ started' = started \/ (conn = "draining" /\ started' = FALSE)
  <2>1. conn' \in Conns /\ started' \in BOOLEAN /\ faults' \in 0 .. MaxFault
    BY <1>2 DEF Types
  <2>2. Fine(u, g)
    BY <1>2, IdleIs
  <2>3. QED
    BY <2>1, <2>2
<1>3. QED
  BY <1>1, <1>2 DEF ClientDrains

LEMMA RpcDrainsTypes ==
  ASSUME Types, NEW u \in User, NEW g \in Frame, "disconnect" \in Calls[u],
         NEW place \in Nat, place >= 1, NEW size, NEW subs \in [Sub -> SubStates],
         RpcDrains(place, size, subs, g)
  PROVE  /\ conn' \in Conns /\ started' \in BOOLEAN /\ faults' \in 0 .. MaxFault /\ Fine(u, g)
         /\ aborted' \in BOOLEAN /\ sub' \in [Sub -> SubStates] /\ served' \in {served, <<>>}
<1>1. CASE /\ Len(served) # size /\ g = Idle
           /\ sub' = subs /\ aborted' = TRUE /\ UNCHANGED <<served, conn, started, faults>>
  BY <1>1, IdleIs DEF Types
<1>2. ASSUME NEW p \in DOMAIN served, p >= place,
             sub' = [subs EXCEPT ![served[p][2]] = "draining"],
             g.op = "rpcDrain", g.id = served[p][2], g.place = p + 1,
             UNCHANGED <<served, conn, started, faults, aborted>>
      PROVE  /\ conn' \in Conns /\ started' \in BOOLEAN /\ faults' \in 0 .. MaxFault /\ Fine(u, g)
             /\ aborted' \in BOOLEAN /\ sub' \in [Sub -> SubStates] /\ served' \in {served, <<>>}
  <2>1. served[p] \in Method \X Sub /\ p \in Nat
    BY DEF Types
  <2>2. served[p][2] \in Sub /\ p + 1 >= 1
    BY <2>1
  <2>3. Fine(u, g)
    BY <1>2, <2>2 DEF Fine
  <2>4. sub' \in [Sub -> SubStates]
    BY <1>2, <2>2 DEF SubStates
  <2>5. QED
    BY <1>2, <2>3, <2>4 DEF Types
<1>3. CASE sub' = subs /\ served' = <<>> /\ UNCHANGED aborted /\ TasksDone(g)
  <2>1. CASE g.op = "gather" /\ UNCHANGED <<conn, started, faults>>
    BY <1>3, <2>1 DEF Types, Fine
  <2>2. CASE ClientDrains(g)
    BY <1>3, <2>2, ClientDrainsTypes DEF Types
  <2>3. QED
    BY <1>3, <2>1, <2>2 DEF TasksDone
<1>4. QED
  BY <1>1, <1>2, <1>3 DEF RpcDrains

LEMMA ConsumersStopTypes ==
  ASSUME Types, NEW u \in User, NEW g \in Frame, "disconnect" \in Calls[u],
         NEW rest \in SUBSET Subject, NEW cons \in [Con -> ConStates], ConsumersStop(rest, cons, g)
  PROVE  /\ conn' \in Conns /\ started' \in BOOLEAN /\ faults' \in 0 .. MaxFault /\ Fine(u, g)
         /\ aborted' \in BOOLEAN /\ sub' \in [Sub -> SubStates] /\ served' \in {served, <<>>}
         /\ consumers' \in [Subject -> Con \cup {0}] /\ con' \in [Con -> ConStates]
<1>1. ASSUME NEW x \in rest,
             consumers[x] # 0,
             consumers' = [consumers EXCEPT ![x] = 0],
             con' = [cons EXCEPT ![consumers[x]] = "stopping"],
             g.op = "consumers", g.id = consumers[x],
             UNCHANGED <<served, sub, conn, started, faults, aborted>>
      PROVE  /\ conn' \in Conns /\ started' \in BOOLEAN /\ faults' \in 0 .. MaxFault /\ Fine(u, g)
             /\ aborted' \in BOOLEAN /\ sub' \in [Sub -> SubStates] /\ served' \in {served, <<>>}
             /\ consumers' \in [Subject -> Con \cup {0}] /\ con' \in [Con -> ConStates]
  <2>1. consumers[x] \in Con
    BY <1>1 DEF Types
  <2>2. Fine(u, g)
    BY <1>1, <2>1 DEF Fine
  <2>3. con' \in [Con -> ConStates]
    BY <1>1, <2>1 DEF ConStates
  <2>4. consumers' \in [Subject -> Con \cup {0}]
    BY <1>1 DEF Types
  <2>5. QED
    BY <1>1, <2>2, <2>3, <2>4 DEF Types
<1>2. CASE consumers' = consumers /\ con' = cons /\ RpcDrains(1, Len(served), sub, g)
  <2>1. sub \in [Sub -> SubStates] /\ 1 \in Nat /\ 1 >= 1
    BY DEF Types
  <2>2. /\ conn' \in Conns /\ started' \in BOOLEAN /\ faults' \in 0 .. MaxFault /\ Fine(u, g)
        /\ aborted' \in BOOLEAN /\ sub' \in [Sub -> SubStates] /\ served' \in {served, <<>>}
    BY <1>2, <2>1, RpcDrainsTypes
  <2>3. QED
    BY <1>2, <2>2 DEF Types
<1>3. QED
  BY <1>1, <1>2 DEF ConsumersStop

\* serve() registers a subscription for a method that has none, or in the place of
\* the one it has.
LEMMA PutIs ==
  ASSUME Types, NEW m \in Method, NEW s \in Sub
  PROVE  /\ Put(m, s) \in Seq(Method \X Sub)
         /\ Distinct => \A i, j \in DOMAIN Put(m, s) : Put(m, s)[i][1] = Put(m, s)[j][1] => i = j
         /\ Registered(m) = {} => Put(m, s) = Append(served, <<m, s>>)
<1> DEFINE n == Len(served)
           p == Put(m, s)
<1>1. served \in Seq(Method \X Sub) /\ n \in Nat /\ DOMAIN served = 1 .. n
  BY DEF Types
<1>2. \A i \in 1 .. n : served[i] \in Method \X Sub
  BY <1>1
<1>3. <<m, s>> \in Method \X Sub /\ <<m, s>>[1] = m
  OBVIOUS
<1>4. CASE Registered(m) = {}
  <2>1. p = Append(served, <<m, s>>)
    BY <1>4 DEF Put
  <2>2. /\ p \in Seq(Method \X Sub) /\ DOMAIN p = 1 .. n + 1
        /\ p[n + 1] = <<m, s>> /\ \A i \in 1 .. n : p[i] = served[i]
    BY <1>1, <1>3, <2>1, AppendProperties
  <2>3. \A i \in 1 .. n : served[i][1] # m
    BY <1>1, <1>4 DEF Registered
  <2> HIDE DEF p
  <2>4. ASSUME Distinct, NEW i \in DOMAIN p, NEW j \in DOMAIN p, p[i][1] = p[j][1]
        PROVE  i = j
    <3>1. \A k \in DOMAIN p : k \in 1 .. n \/ k = n + 1
      BY <1>1, <2>2
    <3>2. CASE i \in 1 .. n /\ j \in 1 .. n
      BY <1>1, <2>2, <2>4, <3>2 DEF Distinct
    <3>3. CASE i = n + 1 /\ j = n + 1
      BY <3>3
    <3>4. CASE i \in 1 .. n /\ j = n + 1
      BY <1>3, <2>2, <2>3, <2>4, <3>4
    <3>5. CASE i = n + 1 /\ j \in 1 .. n
      BY <1>3, <2>2, <2>3, <2>4, <3>5
    <3>6. QED
      BY <3>1, <3>2, <3>3, <3>4, <3>5
  <2>5. QED
    BY <2>1, <2>2, <2>4 DEF p
<1>5. CASE Registered(m) # {}
  <2>1. p = [i \in 1 .. n |-> IF i \in Registered(m) THEN <<m, s>> ELSE served[i]]
    BY <1>1, <1>5 DEF Put
  <2>2. p \in [1 .. n -> Method \X Sub]
    BY <1>2, <1>3, <2>1
  <2> HIDE DEF p, n
  <2>3. p \in Seq(Method \X Sub)
    BY <1>1, <2>2, SeqDef
  <2>4. \A i \in 1 .. n : p[i][1] = served[i][1]
    <3>1. SUFFICES ASSUME NEW i \in 1 .. n PROVE p[i][1] = served[i][1]
      OBVIOUS
    <3>2. CASE i \in Registered(m)
      BY <1>3, <2>1, <3>2 DEF Registered
    <3>3. CASE i \notin Registered(m)
      BY <2>1, <3>3
    <3>4. QED
      BY <3>2, <3>3
  <2>5. DOMAIN p = 1 .. n
    BY <2>2
  <2>6. Distinct => \A i, j \in DOMAIN p : p[i][1] = p[j][1] => i = j
    BY <1>1, <2>4, <2>5 DEF Distinct
  <2>7. QED
    BY <1>5, <2>3, <2>6 DEF p
<1>6. QED
  BY <1>4, <1>5

\* The frames of the other calls.
Subscribing(m, s) == [Idle EXCEPT !.op = "subscribe", !.arg = m, !.id = s]
Flushing == [Idle EXCEPT !.op = "flush"]
ConsumingOf(x) == [Idle EXCEPT !.op = "consume", !.arg = x]
Stopping(k) == [Idle EXCEPT !.op = "stop", !.id = k]

LEMMA FramesAre ==
  /\ \A m \in Method, s \in Sub :
       /\ Subscribing(m, s) \in Frame /\ Subscribing(m, s).op = "subscribe"
       /\ Subscribing(m, s).arg = m /\ Subscribing(m, s).id = s
  /\ Flushing \in Frame /\ Flushing.op = "flush"
  /\ \A x \in Subject :
       ConsumingOf(x) \in Frame /\ ConsumingOf(x).op = "consume" /\ ConsumingOf(x).arg = x
  /\ \A k \in Con :
       Stopping(k) \in Frame /\ Stopping(k).op = "stop" /\ Stopping(k).id = k
<1>1. Idle \in Frame /\ Sub \subseteq Nat /\ Con \subseteq Nat
  BY IdleIs, Numbers
<1>2. QED
  BY <1>1 DEF Frame, Subscribing, Flushing, ConsumingOf, Stopping

\* What Serve and SubscribeReturns do.
LEMMA ServeDoes ==
  ASSUME Types, NEW u \in User, NEW m \in Method, Serve(u, m)
  PROVE  /\ user[u].op = "idle" /\ "serve" \in Calls[u] /\ started /\ Registered(m) = {} /\ conn = "up"
         /\ UNCHANGED <<connVars, conVars, req, of, faults, aborted>>
         /\ \E s \in Sub :
              /\ sub[s] = "none" /\ sub' = [sub EXCEPT ![s] = "active"]
              /\ \/ /\ Suspends /\ served' = served
                    /\ user' = [user EXCEPT ![u] = Subscribing(m, s)]
                 \/ /\ served' = Append(served, <<m, s>>)
                    /\ user' = [user EXCEPT ![u] = Flushing]
<1> DEFINE s == Least(Fresh(sub))
<1>1. s \in Sub /\ sub[s] = "none"
  BY FreshIs DEF Serve
<1>2. /\ user[u].op = "idle" /\ "serve" \in Calls[u] /\ started /\ Registered(m) = {} /\ conn = "up"
      /\ UNCHANGED <<connVars, conVars, req, of, faults, aborted>>
  BY DEF Serve, MayCall, At
<1>3. /\ sub' = [sub EXCEPT ![s] = "active"]
      /\ \/ Suspends /\ user' = [user EXCEPT ![u] = Subscribing(m, s)] /\ served' = served
         \/ user' = [user EXCEPT ![u] = Flushing] /\ served' = Put(m, s)
  BY DEF Serve, Go, Subscribing, Flushing
<1> HIDE DEF s
<1>4. Put(m, s) = Append(served, <<m, s>>)
  BY <1>1, <1>2, PutIs
<1>5. QED
  BY <1>1, <1>2, <1>3, <1>4

LEMMA ConsumingDoes ==
  ASSUME Types, Frames, NEW u \in User, Consuming(u)
  PROVE  /\ user[u].op = "consume" /\ user[u].arg \in Subject
         /\ user' = [user EXCEPT ![u] = Idle]
         /\ UNCHANGED <<connVars, busy, rpcVars, aborted>> /\ faults' \in 0 .. MaxFault
         /\ \/ UNCHANGED <<consumers, con>>
            \/ \E k \in Con : /\ con[k] = "none" /\ conn = "up"
                              /\ consumers' = [consumers EXCEPT ![user[u].arg] = k]
                              /\ con' = [con EXCEPT ![k] = "running"]
<1> DEFINE k == Least(Fresh(con))
<1>1. /\ user[u].op = "consume" /\ user[u].arg \in Subject
      /\ user' = [user EXCEPT ![u] = Idle] /\ UNCHANGED <<connVars, rpcVars, aborted>>
  BY DEF Consuming, At, Return, Go, Frames, Fine
<1>2. faults \in 0 .. MaxFault /\ MaxFault \in Nat
  BY Numbers DEF Types
<1>3. CASE /\ conn = "up" /\ Fresh(con) # {} /\ UNCHANGED <<busy, faults>>
           /\ consumers' = [consumers EXCEPT ![user[u].arg] = k] /\ con' = [con EXCEPT ![k] = "running"]
  <2>1. k \in Con /\ con[k] = "none"
    BY <1>3, FreshIs
  <2> HIDE DEF k
  <2>2. QED
    BY <1>1, <1>2, <1>3, <2>1
<1>4. CASE Fault /\ UNCHANGED conVars
  <2>1. faults' \in 0 .. MaxFault
    BY <1>2, <1>4 DEF Fault
  <2>2. QED
    BY <1>1, <1>4, <2>1 DEF conVars
<1>5. CASE UNCHANGED <<conVars, faults>>
  BY <1>1, <1>2, <1>5 DEF conVars
<1>6. QED
  BY <1>3, <1>4, <1>5 DEF Consuming

LEMMA StopConsumerDoes ==
  ASSUME Types, NEW u \in User, NEW x \in Subject, StopConsumer(u, x)
  PROVE  /\ user[u].op = "idle" /\ "stop" \in Calls[u] /\ consumers[x] \in Con
         /\ consumers' = [consumers EXCEPT ![x] = 0]
         /\ con' = [con EXCEPT ![consumers[x]] = "stopping"]
         /\ user' = [user EXCEPT ![u] = Stopping(consumers[x])]
         /\ UNCHANGED <<connVars, busy, rpcVars, faults, aborted>>
<1>1. QED
  BY DEF StopConsumer, MayCall, At, Go, Stopping, Types

LEMMA RequestDoes ==
  ASSUME Types, NEW s \in Sub, Request(s)
  PROVE  /\ conn = "up" /\ sub[s] = "active"
         /\ \E r \in Req : /\ req[r] = "none"
                           /\ req' = [req EXCEPT ![r] = "pending"] /\ of' = [of EXCEPT ![r] = s]
         /\ UNCHANGED <<connVars, conVars, served, sub, user, faults, aborted>>
<1> DEFINE r == Least(Fresh(req))
<1>1. r \in Req /\ req[r] = "none"
  BY FreshIs DEF Request
<1>2. req' = [req EXCEPT ![r] = "pending"] /\ of' = [of EXCEPT ![r] = s]
  BY DEF Request
<1>3. /\ conn = "up" /\ sub[s] = "active"
      /\ UNCHANGED <<connVars, conVars, served, sub, user, faults, aborted>>
  BY DEF Request
<1> HIDE DEF r
<1>4. QED
  BY <1>1, <1>2, <1>3

LEMMA TypedInit == Init => Typed
<1>1. SUFFICES ASSUME Init PROVE Typed
  OBVIOUS
<1>2. 0 \in 0 .. MaxClose /\ 0 \in 0 .. MaxFault /\ 0 \in 0 .. MaxConnect
  BY Numbers
<1>3. Types
  <2>1. served = <<>> /\ served \in Seq(Method \X Sub)
    BY <1>1, EmptySeq DEF Init
  <2>2. user \in [User -> Frame]
    BY <1>1, IdleIs DEF Init
  <2>3. /\ consumers \in [Subject -> Con \cup {0}] /\ con \in [Con -> ConStates]
        /\ sub \in [Sub -> SubStates] /\ req \in [Req -> ReqStates] /\ of \in [Req -> Sub \cup {0}]
    BY <1>1 DEF Init, ConStates, SubStates, ReqStates
  <2>4. QED
    BY <1>1, <1>2, <2>1, <2>2, <2>3 DEF Init, Types, Conns
<1>4. Frames
  <2>1. \A u \in User : user[u] = Idle
    BY <1>1 DEF Init
  <2>2. QED
    BY <2>1, IdleIs DEF Frames
<1>5. Distinct /\ Arrived
  <2>1. served = <<>>
    BY <1>1 DEF Init
  <2>2. DOMAIN served = {}
    BY <2>1
  <2>3. \A r \in Req : req[r] = "none" /\ of[r] = 0
    BY <1>1 DEF Init
  <2>4. QED
    BY <2>2, <2>3 DEF Distinct, Arrived
<1>6. QED
  BY <1>3, <1>4, <1>5 DEF Typed

\* The steps of disconnect() that go on with frame g.
LEMMA DisconnectTypes ==
  ASSUME Typed, NEW u \in User, NEW g \in Frame, Fine(u, g), user' = [user EXCEPT ![u] = g], Others,
         conn' \in Conns, started' \in BOOLEAN, faults' \in 0 .. MaxFault, aborted' \in BOOLEAN,
         sub' \in [Sub -> SubStates], served' \in {served, <<>>},
         consumers' \in [Subject -> Con \cup {0}], con' \in [Con -> ConStates]
  PROVE  Typed'
<1>1. user' \in [User -> Frame] /\ Frames'
  BY MoveIs DEF Typed
<1>2. served' \in Seq(Method \X Sub)
  BY EmptySeq DEF Typed, Types
<1>3. connects' \in 0 .. MaxConnect /\ closes' \in 0 .. MaxClose /\ busy' \in SUBSET Con
  BY DEF Typed, Types, Others
<1>4. req' \in [Req -> ReqStates] /\ of' \in [Req -> Sub \cup {0}] /\ Arrived'
  BY DEF Typed, Types, Others, Arrived
<1>5. Types'
  BY <1>1, <1>2, <1>3, <1>4 DEF Types
<1>6. Distinct'
  BY DEF Typed, Distinct
<1>7. QED
  BY <1>1, <1>4, <1>5, <1>6 DEF Typed

LEMMA TypedStep == Typed /\ [Next]_vars => Typed'
<1>1. SUFFICES ASSUME Typed, [Next]_vars PROVE Typed'
  OBVIOUS
<1>2. Types /\ Frames /\ Distinct /\ Arrived
  BY <1>1 DEF Typed
<1>3. ASSUME NEW u \in User, Connect(u) PROVE Typed'
  <2>1. connects' \in 0 .. MaxConnect
    BY <1>2, <1>3, Numbers DEF Connect, Types
  <2>2. conn' \in Conns /\ started' \in BOOLEAN
    BY <1>3 DEF Connect, Conns
  <2>3. Types'
    BY <1>2, <1>3, <2>1, <2>2 DEF Connect, Types, conVars, rpcVars
  <2>4. Frames' /\ Distinct' /\ Arrived'
    BY <1>2, <1>3 DEF Connect, Frames, Distinct, Arrived, conVars, rpcVars
  <2>5. QED
    BY <2>3, <2>4 DEF Typed
<1>4. ASSUME NEW u \in User, NEW r \in Req \cup {0}, Disconnect(u, r) PROVE Typed'
  <2>1. PICK g \in Frame : /\ user' = [user EXCEPT ![u] = g]
                           /\ ConsumersStop({x \in Subject : consumers[x] # 0}, con, g)
    BY <1>2, <1>4, DisconnectDoes
  <2>2. "disconnect" \in Calls[u] /\ Others
    BY <1>2, <1>4, DisconnectDoes
  <2>3. {x \in Subject : consumers[x] # 0} \in SUBSET Subject /\ con \in [Con -> ConStates]
    BY <1>2 DEF Types
  <2>4. QED
    BY <1>1, <1>2, <2>1, <2>2, <2>3, ConsumersStopTypes, DisconnectTypes
<1>5. ASSUME NEW u \in User, NEW m \in Method, Serve(u, m) PROVE Typed'
  <2>1. Registered(m) = {} /\ UNCHANGED <<connVars, conVars, req, of, faults, aborted>>
    BY <1>2, <1>5, ServeDoes
  <2>2. PICK s \in Sub :
          /\ sub' = [sub EXCEPT ![s] = "active"]
          /\ \/ served' = served /\ user' = [user EXCEPT ![u] = Subscribing(m, s)]
             \/ served' = Append(served, <<m, s>>) /\ user' = [user EXCEPT ![u] = Flushing]
    BY <1>2, <1>5, ServeDoes
  <2>3. sub' \in [Sub -> SubStates]
    BY <1>2, <2>2 DEF Types, SubStates
  <2>4. Fine(u, Subscribing(m, s)) /\ Fine(u, Flushing)
    BY <1>2, <1>5, ServeDoes, FramesAre DEF Fine
  <2>5. user' \in [User -> Frame] /\ Frames'
    BY <1>2, <2>2, <2>4, FramesAre, MoveIs
  <2>6. Append(served, <<m, s>>) = Put(m, s)
    BY <1>2, <2>1, PutIs
  <2>7. served' \in Seq(Method \X Sub) /\ Distinct'
    <3>1. CASE served' = served
      BY <1>2, <3>1 DEF Types, Distinct
    <3>2. CASE served' = Put(m, s)
      BY <1>2, <3>2, PutIs DEF Distinct
    <3>3. QED
      BY <2>2, <2>6, <3>1, <3>2
  <2>8. Types' /\ Arrived'
    BY <1>2, <2>1, <2>3, <2>5, <2>7 DEF Types, Arrived, connVars, conVars
  <2>9. QED
    BY <2>5, <2>7, <2>8 DEF Typed
<1>6. ASSUME NEW u \in User, NEW x \in Subject, Consume(u, x) PROVE Typed'
  <2>1. user' = [user EXCEPT ![u] = ConsumingOf(x)] /\ "consume" \in Calls[u]
    BY <1>6 DEF Consume, MayCall, Go, ConsumingOf
  <2>2. Fine(u, ConsumingOf(x))
    BY <2>1, FramesAre DEF Fine
  <2>3. user' \in [User -> Frame] /\ Frames'
    BY <1>2, <2>1, <2>2, FramesAre, MoveIs
  <2>4. Types' /\ Distinct' /\ Arrived'
    BY <1>2, <1>6, <2>3 DEF Consume, Types, Distinct, Arrived, connVars, conVars, rpcVars
  <2>5. QED
    BY <2>3, <2>4 DEF Typed
<1>7. ASSUME NEW u \in User, NEW x \in Subject, StopConsumer(u, x) PROVE Typed'
  <2>1. /\ "stop" \in Calls[u] /\ consumers[x] \in Con
        /\ consumers' = [consumers EXCEPT ![x] = 0]
        /\ con' = [con EXCEPT ![consumers[x]] = "stopping"]
        /\ user' = [user EXCEPT ![u] = Stopping(consumers[x])]
        /\ UNCHANGED <<connVars, busy, rpcVars, faults, aborted>>
    BY <1>2, <1>7, StopConsumerDoes
  <2>2. Fine(u, Stopping(consumers[x]))
    BY <2>1, FramesAre DEF Fine
  <2>3. user' \in [User -> Frame] /\ Frames'
    BY <1>2, <2>1, <2>2, FramesAre, MoveIs
  <2>4. con' \in [Con -> ConStates] /\ consumers' \in [Subject -> Con \cup {0}]
    BY <1>2, <2>1 DEF Types, ConStates
  <2>5. Types' /\ Distinct' /\ Arrived'
    BY <1>2, <2>1, <2>3, <2>4 DEF Types, Distinct, Arrived, connVars, rpcVars
  <2>6. QED
    BY <2>3, <2>5 DEF Typed
<1>8. ASSUME NEW u \in User, SubscribeReturns(u) PROVE Typed'
  <2>1. /\ user[u].arg \in Method /\ user[u].id \in Sub
        /\ served' = Put(user[u].arg, user[u].id) /\ user' = [user EXCEPT ![u] = Flushing]
    BY <1>2, <1>8 DEF SubscribeReturns, Frames, Fine, At, Go, Flushing
  <2>2. Fine(u, Flushing)
    BY FramesAre DEF Fine
  <2>3. user' \in [User -> Frame] /\ Frames'
    BY <1>2, <2>1, <2>2, FramesAre, MoveIs
  <2>4. served' \in Seq(Method \X Sub) /\ Distinct'
    BY <1>2, <2>1, PutIs DEF Distinct
  <2>5. Types' /\ Arrived'
    BY <1>2, <1>8, <2>3, <2>4 DEF SubscribeReturns, Types, Arrived, connVars, conVars
  <2>6. QED
    BY <2>3, <2>4, <2>5 DEF Typed
<1>9. ASSUME NEW u \in User, Flushed(u) PROVE Typed'
  <2>1. user' \in [User -> Frame] /\ Frames'
    BY <1>2, <1>9, IdleIs, MoveIs DEF Flushed, Return, Go
  <2>2. Types' /\ Distinct' /\ Arrived'
    BY <1>2, <1>9, <2>1 DEF Flushed, Types, Distinct, Arrived, connVars, conVars, rpcVars
  <2>3. QED
    BY <2>1, <2>2 DEF Typed
<1>10. ASSUME NEW u \in User, StopReturns(u) PROVE Typed'
  <2>1. user' \in [User -> Frame] /\ Frames'
    BY <1>2, <1>10, IdleIs, MoveIs DEF StopReturns, Return, Go
  <2>2. con' \in [Con -> ConStates]
    BY <1>2, <1>10 DEF StopReturns, Types, ConStates
  <2>3. Types' /\ Distinct' /\ Arrived'
    BY <1>2, <1>10, <2>1, <2>2 DEF StopReturns, Types, Distinct, Arrived, connVars, rpcVars
  <2>4. QED
    BY <2>1, <2>3 DEF Typed
<1>11. ASSUME NEW u \in User, Consuming(u) PROVE Typed'
  <2>1. /\ user[u].arg \in Subject /\ user' = [user EXCEPT ![u] = Idle]
        /\ UNCHANGED <<connVars, busy, rpcVars, aborted>> /\ faults' \in 0 .. MaxFault
        /\ \/ UNCHANGED <<consumers, con>>
           \/ \E k \in Con : /\ consumers' = [consumers EXCEPT ![user[u].arg] = k]
                             /\ con' = [con EXCEPT ![k] = "running"]
    BY <1>2, <1>11, ConsumingDoes
  <2>2. user' \in [User -> Frame] /\ Frames'
    BY <1>2, <2>1, IdleIs, MoveIs
  <2>3. con' \in [Con -> ConStates] /\ consumers' \in [Subject -> Con \cup {0}]
    BY <1>2, <2>1 DEF Types, ConStates
  <2>4. Types' /\ Distinct' /\ Arrived'
    BY <1>2, <2>1, <2>2, <2>3 DEF Types, Distinct, Arrived, connVars, rpcVars
  <2>5. QED
    BY <2>2, <2>4 DEF Typed
<1>12. ASSUME NEW u \in User, DisconnectStopped(u) PROVE Typed'
  <2>1. PICK g \in Frame :
          /\ user' = [user EXCEPT ![u] = g]
          /\ ConsumersStop(user[u].rest, [con EXCEPT ![user[u].id] = "stopped"], g)
    BY <1>2, <1>12, DisconnectStoppedDoes
  <2>2. "disconnect" \in Calls[u] /\ Others
    BY <1>2, <1>12, DisconnectStoppedDoes
  <2>3. [con EXCEPT ![user[u].id] = "stopped"] \in [Con -> ConStates]
    BY <1>2 DEF Types, ConStates
  <2>4. user[u].rest \in SUBSET Subject
    BY <1>2 DEF Types, Frame
  <2>5. QED
    BY <1>1, <1>2, <2>1, <2>2, <2>3, <2>4, ConsumersStopTypes, DisconnectTypes
<1>13. ASSUME NEW u \in User, Drained(u) PROVE Typed'
  <2>1. /\ "disconnect" \in Calls[u] /\ user[u].place \in Nat /\ user[u].place >= 1
        /\ consumers' = consumers /\ con' = con /\ Others
    BY <1>2, <1>13, DrainedDoes
  <2>2. PICK subs \in [Sub -> SubStates], g \in Frame :
          user' = [user EXCEPT ![u] = g] /\ RpcDrains(user[u].place, user[u].size, subs, g)
    BY <1>2, <1>13, DrainedDoes
  <2>3. con' \in [Con -> ConStates] /\ consumers' \in [Subject -> Con \cup {0}]
    BY <1>2, <2>1 DEF Types
  <2>4. QED
    BY <1>1, <1>2, <2>1, <2>2, <2>3, RpcDrainsTypes, DisconnectTypes
<1>14. ASSUME NEW u \in User, Gathered(u) PROVE Typed'
  <2>1. "disconnect" \in Calls[u] /\ UNCHANGED <<consumers, con, served, sub, aborted>> /\ Others
    BY <1>2, <1>14, GatheredDoes
  <2>2. PICK g \in Frame : user' = [user EXCEPT ![u] = g] /\ ClientDrains(g)
    BY <1>2, <1>14, GatheredDoes
  <2>3. /\ con' \in [Con -> ConStates] /\ consumers' \in [Subject -> Con \cup {0}]
        /\ sub' \in [Sub -> SubStates] /\ aborted' \in BOOLEAN /\ served' \in {served, <<>>}
    BY <1>2, <2>1 DEF Types
  <2>4. QED
    BY <1>1, <1>2, <2>1, <2>2, <2>3, ClientDrainsTypes, DisconnectTypes
<1>15. ASSUME NEW u \in User, Disconnected(u) PROVE Typed'
  <2>1. user' \in [User -> Frame] /\ Frames'
    BY <1>2, <1>15, IdleIs, MoveIs DEF Disconnected, Return, Go
  <2>2. sub' \in [Sub -> SubStates] /\ conn' \in Conns /\ started' \in BOOLEAN
    BY <1>2, <1>15 DEF Disconnected, Types, SubStates, Conns
  <2>3. Types' /\ Distinct' /\ Arrived'
    BY <1>2, <1>15, <2>1, <2>2 DEF Disconnected, Types, Distinct, Arrived, conVars
  <2>4. QED
    BY <2>1, <2>3 DEF Typed
<1>16. ASSUME NEW r \in Req, OnRequest(r) \/ Reply(r) PROVE Typed'
  <2>1. /\ req' \in [Req -> ReqStates] /\ req[r] \in {"pending", "running"}
        /\ req'[r] # "none" /\ \A q \in Req \ {r} : req'[q] = req[q]
    BY <1>2, <1>16 DEF OnRequest, Reply, Types, ReqStates
  <2>2. /\ UNCHANGED <<connVars, conVars, served, sub, of, user, faults, aborted>>
    BY <1>16 DEF OnRequest, Reply
  <2>3. Arrived'
    BY <1>2, <2>1, <2>2 DEF Arrived
  <2>4. Types' /\ Frames' /\ Distinct'
    BY <1>2, <2>1, <2>2 DEF Types, Frames, Distinct, connVars, conVars
  <2>5. QED
    BY <2>3, <2>4 DEF Typed
<1>17. ASSUME NEW s \in Sub, Request(s) PROVE Typed'
  <2>1. UNCHANGED <<connVars, conVars, served, sub, user, faults, aborted>>
    BY <1>2, <1>17, RequestDoes
  <2>2. PICK r \in Req : req' = [req EXCEPT ![r] = "pending"] /\ of' = [of EXCEPT ![r] = s]
    BY <1>2, <1>17, RequestDoes
  <2>3. req' \in [Req -> ReqStates] /\ of' \in [Req -> Sub \cup {0}]
    BY <1>2, <2>2 DEF Types, ReqStates
  <2>4. Arrived'
    BY <1>2, <2>2, Numbers DEF Types, Arrived
  <2>5. Types' /\ Frames' /\ Distinct'
    BY <1>2, <2>1, <2>3 DEF Types, Frames, Distinct, connVars, conVars
  <2>6. QED
    BY <2>4, <2>5 DEF Typed
<1>18. ASSUME NEW k \in Con, Takes(k) \/ Finishes(k) PROVE Typed'
  <2>1. UNCHANGED <<connVars, consumers, con, rpcVars, user, faults, aborted>> /\ busy' \in SUBSET Con
    BY <1>2, <1>18 DEF Takes, Finishes, Types
  <2>2. Types' /\ Frames' /\ Distinct' /\ Arrived'
    BY <1>2, <2>1 DEF Types, Frames, Distinct, Arrived, connVars, rpcVars
  <2>3. QED
    BY <2>2 DEF Typed
<1>19. CASE CloseConnection
  <2>1. sub' \in [Sub -> SubStates] /\ req' \in [Req -> ReqStates] /\ conn' \in Conns
    BY <1>2, <1>19 DEF CloseConnection, Types, SubStates, ReqStates, Conns
  <2>2. closes' \in 0 .. MaxClose
    BY <1>2, <1>19, Numbers DEF CloseConnection, Types
  <2>3. \A r \in Req : (req'[r] = "none") = (req[r] = "none")
    BY <1>19 DEF CloseConnection
  <2>4. Types' /\ Frames' /\ Distinct' /\ Arrived'
    BY <1>2, <1>19, <2>1, <2>2, <2>3 DEF CloseConnection, Types, Frames, Distinct, Arrived, conVars
  <2>5. QED
    BY <2>4 DEF Typed
<1>20. CASE UNCHANGED vars
  BY <1>2, <1>20 DEF vars, Typed, Types, Frames, Distinct, Arrived
<1>21. QED
  BY <1>1, <1>3, <1>4, <1>5, <1>6, <1>7, <1>8, <1>9, <1>10, <1>11, <1>12, <1>13, <1>14, <1>15, <1>16,
     <1>17, <1>18, <1>19, <1>20
  DEF Next, Call, ServeStep, StopStep, DisconnectStep, RpcStep

\* The consumers disconnect() has found were made.
Listing == listed \in SUBSET Con

LEMMA ListingStep == Types /\ Listing /\ [Next]_vars => Listing'
<1>1. SUFFICES ASSUME Types, Listing, [Next]_vars PROVE Listing'
  OBVIOUS
<1>2. ASSUME listed' = listed PROVE Listing'
  BY <1>1, <1>2 DEF Listing
<1>3. ASSUME NEW u \in User, Call(u) PROVE Listing'
  <2>1. CASE \E r \in Req \cup {0} : Disconnect(u, r)
    <3>1. {consumers[x] : x \in Subject} \ {0} \in SUBSET Con
      BY <1>1 DEF Types
    <3>2. listed' = listed \cup ({consumers[x] : x \in Subject} \ {0})
      BY <2>1 DEF Disconnect
    <3>3. QED
      BY <1>1, <3>1, <3>2 DEF Listing
  <2>2. CASE Connect(u)
    BY <1>2, <2>2 DEF Connect
  <2>3. CASE \E m \in Method : Serve(u, m)
    BY <1>2, <2>3 DEF Serve
  <2>4. CASE \E x \in Subject : Consume(u, x) \/ StopConsumer(u, x)
    BY <1>2, <2>4 DEF Consume, StopConsumer
  <2>5. QED
    BY <1>3, <2>1, <2>2, <2>3, <2>4 DEF Call
<1>4. ASSUME NEW u \in User, ServeStep(u) \/ StopStep(u) PROVE Listing'
  BY <1>2, <1>4 DEF ServeStep, StopStep, SubscribeReturns, Flushed, StopReturns, Consuming
<1>5. ASSUME NEW u \in User, DisconnectStep(u) PROVE Listing'
  BY <1>2, <1>5 DEF DisconnectStep, DisconnectStopped, Drained, Gathered, Disconnected
<1>6. ASSUME NEW r \in Req, RpcStep(r) PROVE Listing'
  BY <1>2, <1>6 DEF RpcStep, OnRequest, Reply
<1>7. ASSUME NEW s \in Sub, Request(s) PROVE Listing'
  BY <1>2, <1>7 DEF Request
<1>8. ASSUME NEW k \in Con, Takes(k) \/ Finishes(k) PROVE Listing'
  BY <1>2, <1>8 DEF Takes, Finishes
<1>9. CASE CloseConnection
  BY <1>2, <1>9 DEF CloseConnection
<1>10. CASE UNCHANGED vars
  BY <1>2, <1>10 DEF vars
<1>11. QED
  BY <1>1, <1>3, <1>4, <1>5, <1>6, <1>7, <1>8, <1>9, <1>10 DEF Next

THEOREM Holds == Spec => []Typed /\ []Listing
<1>1. Init => Typed /\ Listing
  BY TypedInit DEF Init, Listing
<1>2. Typed /\ Listing /\ [Next]_vars => (Typed /\ Listing)'
  BY TypedStep, ListingStep DEF Typed
<1>3. QED
  BY <1>1, <1>2, PTL DEF Spec

\* The variables keep their types, a request belongs to a subscription that was
\* made, and no method is registered twice, not even by calls of serve() for the
\* same method that overlap.
THEOREM TypeCorrect == Spec => []TypeOK
<1>1. Typed /\ Listing => TypeOK
  <2>1. SUFFICES ASSUME Typed, Listing PROVE TypeOK
    OBVIOUS
  <2>2. ASSUME NEW m \in Method PROVE Cardinality(Registered(m)) <= 1
    <3>1. \A i, j \in Registered(m) : i = j
      BY <2>1 DEF Typed, Distinct, Registered
    <3>2. CASE Registered(m) = {}
      BY <3>2, FS_EmptySet
    <3>3. CASE Registered(m) # {}
      <4>1. PICK i \in Registered(m) : TRUE
        BY <3>3
      <4>2. Registered(m) = {i}
        BY <3>1, <4>1
      <4>3. QED
        BY <4>2, FS_Singleton
    <3>4. QED
      BY <3>2, <3>3
  <2>3. QED
    BY <2>1, <2>2 DEF Typed, Types, Listing, Arrived, TypeOK, Conns, ConStates, SubStates, ReqStates
<1>2. QED
  BY <1>1, Holds, PTL

-----------------------------------------------------------------------------
(* The consumers.                                                          *)

LEMMA Moved ==
  ASSUME Types, NEW u \in User, NEW g \in Frame, user' = [user EXCEPT ![u] = g]
  PROVE  \A w \in User : user'[w] = IF w = u THEN g ELSE user[w]
<1>1. QED
  BY DEF Types

\* Somebody waits for consumer k to stop.
Awaited(k) == \E u \in User : user[u].op \in {"stop", "consumers"} /\ user[u].id = k

\* A consumer that is busy has not stopped, and one that is stopping is waited for.
Working ==
  /\ \A k \in busy : con[k] \in {"running", "stopping"}
  /\ \A k \in Con : con[k] = "stopping" => Awaited(k)

\* The consumers are in the states of cons, those that stop are waited for, and task u
\* goes on to stop one of rest, or to the RPC subscriptions.
LEMMA ConsumersStopWorks ==
  ASSUME Types, NEW u \in User, NEW g \in Frame, user' = [user EXCEPT ![u] = g],
         NEW rest \in SUBSET Subject, NEW cons \in [Con -> ConStates], ConsumersStop(rest, cons, g), Others,
         \A k \in busy : cons[k] \in {"running", "stopping"},
         \A k \in Con : cons[k] = "stopping" => \E w \in User \ {u} :
                          user[w].op \in {"stop", "consumers"} /\ user[w].id = k
  PROVE  Working'
<1>1. \A w \in User : user'[w] = IF w = u THEN g ELSE user[w]
  BY Moved
<1>2. \A k \in Con : cons[k] = "stopping" => Awaited(k)'
  BY <1>1 DEF Awaited
<1>3. busy' = busy
  BY DEF Others
<1>4. ASSUME NEW x \in rest, consumers[x] # 0,
             con' = [cons EXCEPT ![consumers[x]] = "stopping"],
             g.op = "consumers", g.id = consumers[x]
      PROVE  Working'
  <2>1. consumers[x] \in Con
    BY <1>4 DEF Types
  <2>2. \A k \in Con : con'[k] = IF k = consumers[x] THEN "stopping" ELSE cons[k]
    BY <1>4
  <2>3. \A k \in Con : k = consumers[x] => Awaited(k)'
    BY <1>1, <1>4 DEF Awaited
  <2>4. busy \in SUBSET Con
    BY DEF Types
  <2>5. QED
    BY <1>2, <1>3, <2>2, <2>3, <2>4 DEF Working
<1>5. CASE con' = cons
  BY <1>2, <1>3, <1>5 DEF Working
<1>6. QED
  BY <1>4, <1>5 DEF ConsumersStop

LEMMA WorkingStep == Typed /\ Working /\ [Next]_vars => Working'
<1>1. SUFFICES ASSUME Typed, Working, [Next]_vars PROVE Working'
  OBVIOUS
<1>2. Types /\ Frames
  BY <1>1 DEF Typed
<1>3. \A k \in Con : con[k] = "stopping" => Awaited(k)
  BY <1>1 DEF Working
<1>4. busy \in SUBSET Con /\ \A k \in busy : con[k] \in {"running", "stopping"}
  BY <1>1, <1>2 DEF Working, Types
\* A task that waits for no consumer goes on.
<1>5. ASSUME NEW u \in User, NEW g \in Frame, user' = [user EXCEPT ![u] = g],
             user[u].op \notin {"stop", "consumers"}
      PROVE  \A k \in Con : Awaited(k) => Awaited(k)'
  <2>1. \A w \in User : user'[w] = IF w = u THEN g ELSE user[w]
    BY <1>2, <1>5, Moved
  <2>2. QED
    BY <1>5, <2>1 DEF Awaited
<1>6. ASSUME con' = con, busy' \subseteq busy, \A k \in Con : Awaited(k) => Awaited(k)' PROVE Working'
  BY <1>3, <1>4, <1>6 DEF Working
<1>7. ASSUME con' = con, busy' = busy, user' = user PROVE Working'
  BY <1>3, <1>4, <1>7 DEF Working, Awaited
<1>8. ASSUME NEW u \in User, NEW r \in Req \cup {0}, Disconnect(u, r) PROVE Working'
  <2>1. PICK g \in Frame : /\ user' = [user EXCEPT ![u] = g]
                           /\ ConsumersStop({x \in Subject : consumers[x] # 0}, con, g)
    BY <1>2, <1>8, DisconnectDoes
  <2>2. user[u].op = "idle" /\ Others
    BY <1>2, <1>8, DisconnectDoes
  <2>3. \A k \in Con : con[k] = "stopping" => \E w \in User \ {u} :
                         user[w].op \in {"stop", "consumers"} /\ user[w].id = k
    BY <1>3, <2>2 DEF Awaited
  <2>4. {x \in Subject : consumers[x] # 0} \in SUBSET Subject /\ con \in [Con -> ConStates]
    BY <1>2 DEF Types
  <2>5. QED
    BY <1>2, <1>4, <2>1, <2>2, <2>3, <2>4, ConsumersStopWorks
<1>9. ASSUME NEW u \in User, DisconnectStopped(u) PROVE Working'
  <2> DEFINE j == user[u].id
             cons == [con EXCEPT ![j] = "stopped"]
  <2>1. j \in Con /\ j \notin busy /\ Others
    BY <1>2, <1>9, DisconnectStoppedDoes
  <2>2. PICK g \in Frame : user' = [user EXCEPT ![u] = g] /\ ConsumersStop(user[u].rest, cons, g)
    BY <1>2, <1>9, DisconnectStoppedDoes
  <2>3. cons \in [Con -> ConStates] /\ \A k \in Con : cons[k] = IF k = j THEN "stopped" ELSE con[k]
    BY <1>2, <2>1 DEF Types, ConStates
  <2>4. user[u].rest \in SUBSET Subject
    BY <1>2 DEF Types, Frame
  <2>5. \A k \in Con : cons[k] = "stopping" => \E w \in User \ {u} :
                         user[w].op \in {"stop", "consumers"} /\ user[w].id = k
    BY <1>3, <2>3 DEF Awaited
  <2>6. \A k \in busy : cons[k] \in {"running", "stopping"}
    BY <1>4, <2>1, <2>3
  <2> DEFINE rest == user[u].rest
  <2>7. rest \in SUBSET Subject /\ ConsumersStop(rest, cons, g) /\ cons \in [Con -> ConStates] /\ Others
    BY <2>1, <2>2, <2>3, <2>4
  <2> HIDE DEF cons, rest
  <2>8. QED
    BY <1>2, <2>2, <2>5, <2>6, <2>7, ConsumersStopWorks
<1>10. ASSUME NEW u \in User, Drained(u) PROVE Working'
  <2>1. user[u].op = "rpcDrain" /\ con' = con /\ Others
    BY <1>2, <1>10, DrainedDoes
  <2>2. PICK g \in Frame : user' = [user EXCEPT ![u] = g]
    BY <1>2, <1>10, DrainedDoes
  <2>3. QED
    BY <1>5, <1>6, <2>1, <2>2 DEF Others
<1>11. ASSUME NEW u \in User, Gathered(u) PROVE Working'
  <2>1. user[u].op = "gather" /\ con' = con /\ Others
    BY <1>2, <1>11, GatheredDoes
  <2>2. PICK g \in Frame : user' = [user EXCEPT ![u] = g]
    BY <1>2, <1>11, GatheredDoes
  <2>3. QED
    BY <1>5, <1>6, <2>1, <2>2 DEF Others
<1>12. ASSUME NEW u \in User, Disconnected(u) PROVE Working'
  BY <1>5, <1>6, <1>12, IdleIs DEF Disconnected, At, Return, Go, conVars
<1>13. ASSUME NEW u \in User, NEW m \in Method, Serve(u, m) PROVE Working'
  <2>1. user[u].op = "idle" /\ UNCHANGED <<connVars, conVars, req, of, faults, aborted>>
    BY <1>2, <1>13, ServeDoes
  <2>2. PICK g \in Frame : user' = [user EXCEPT ![u] = g]
    BY <1>2, <1>13, ServeDoes, FramesAre
  <2>3. QED
    BY <1>5, <1>6, <2>1, <2>2 DEF conVars
<1>14. ASSUME NEW u \in User, SubscribeReturns(u) \/ Flushed(u) PROVE Working'
  <2>1. PICK g \in Frame : user' = [user EXCEPT ![u] = g]
    BY <1>14, IdleIs, FramesAre DEF SubscribeReturns, Flushed, Return, Go, Flushing
  <2>2. QED
    BY <1>5, <1>6, <1>14, <2>1 DEF SubscribeReturns, Flushed, At, conVars
<1>15. ASSUME NEW u \in User, NEW x \in Subject, Consume(u, x) PROVE Working'
  <2>1. user' = [user EXCEPT ![u] = ConsumingOf(x)] /\ ConsumingOf(x) \in Frame
    BY <1>15, FramesAre DEF Consume, Go, ConsumingOf
  <2>2. QED
    BY <1>5, <1>6, <1>15, <2>1 DEF Consume, MayCall, At, conVars
<1>16. ASSUME NEW u \in User, Consuming(u) PROVE Working'
  <2>1. /\ user[u].op = "consume" /\ user' = [user EXCEPT ![u] = Idle] /\ busy' = busy
        /\ \/ con' = con
           \/ \E k \in Con : con' = [con EXCEPT ![k] = "running"]
    BY <1>2, <1>16, ConsumingDoes
  <2>2. \A k \in Con : Awaited(k) => Awaited(k)'
    BY <1>5, <2>1, IdleIs
  <2>3. \A k \in Con : con'[k] = con[k] \/ con'[k] = "running"
    BY <1>2, <2>1 DEF Types
  <2>4. QED
    BY <1>3, <1>4, <2>1, <2>2, <2>3 DEF Working
<1>17. ASSUME NEW u \in User, NEW x \in Subject, StopConsumer(u, x) PROVE Working'
  <2> DEFINE j == consumers[x]
  <2>1. /\ user[u].op = "idle" /\ j \in Con /\ con' = [con EXCEPT ![j] = "stopping"]
        /\ user' = [user EXCEPT ![u] = Stopping(j)] /\ busy' = busy
    BY <1>2, <1>17, StopConsumerDoes
  <2> HIDE DEF j
  <2>2. Stopping(j) \in Frame /\ Stopping(j).op = "stop" /\ Stopping(j).id = j
    BY <2>1, FramesAre
  <2>3. \A k \in Con : Awaited(k) => Awaited(k)'
    BY <1>5, <2>1, <2>2
  <2>4. user'[u] = Stopping(j)
    BY <1>2, <2>1 DEF Types
  <2>5. \A k \in Con : k = j => Awaited(k)'
    BY <2>2, <2>4 DEF Awaited
  <2>6. \A k \in Con : con'[k] = IF k = j THEN "stopping" ELSE con[k]
    BY <1>2, <2>1 DEF Types
  <2>7. QED
    BY <1>3, <1>4, <2>1, <2>3, <2>5, <2>6 DEF Working
<1>18. ASSUME NEW u \in User, StopReturns(u) PROVE Working'
  <2> DEFINE j == user[u].id
  <2>1. j \notin busy /\ con' = [con EXCEPT ![j] = "stopped"] /\ user' = [user EXCEPT ![u] = Idle] /\ busy' = busy
    BY <1>18 DEF StopReturns, Stopped, Return, Go
  <2>2. \A w \in User : user'[w] = IF w = u THEN Idle ELSE user[w]
    BY <1>2, <2>1, IdleIs, Moved
  <2>3. \A k \in Con : con'[k] = IF k = j THEN "stopped" ELSE con[k]
    BY <1>2, <2>1 DEF Types
  <2>4. \A k \in Con \ {j} : Awaited(k) => Awaited(k)'
    BY <2>2 DEF Awaited
  <2>5. QED
    BY <1>3, <1>4, <2>1, <2>3, <2>4 DEF Working
<1>19. ASSUME NEW k \in Con, Takes(k) \/ Finishes(k) PROVE Working'
  <2>1. con' = con /\ user' = user /\ \A j \in busy' : j \in busy \/ (j = k /\ con[k] = "running")
    BY <1>19 DEF Takes, Finishes
  <2>2. QED
    BY <1>3, <1>4, <2>1 DEF Working, Awaited
<1>20. ASSUME NEW r \in Req, OnRequest(r) \/ Reply(r) PROVE Working'
  BY <1>7, <1>20 DEF OnRequest, Reply, conVars
<1>21. ASSUME NEW s \in Sub, Request(s) PROVE Working'
  BY <1>7, <1>21 DEF Request, conVars
<1>22. CASE CloseConnection \/ UNCHANGED vars \/ \E u \in User : Connect(u)
  BY <1>7, <1>22 DEF CloseConnection, Connect, vars, conVars
<1>23. QED
  BY <1>1, <1>8, <1>9, <1>10, <1>11, <1>12, <1>13, <1>14, <1>15, <1>16, <1>17, <1>18, <1>19, <1>20,
     <1>21, <1>22
  DEF Next, Call, ServeStep, StopStep, DisconnectStep, RpcStep

-----------------------------------------------------------------------------
(* The connection, when only one task disconnects.                         *)

\* At most one task calls any of these methods.
OnlyOne(methods) ==
  \A u, v \in User : Calls[u] \cap methods # {} /\ Calls[v] \cap methods # {} => u = v

\* What disconnect() does to the connection before it drains it, if it goes on with g.
GoesOn(g) ==
  \/ g.op \in {"consumers", "rpcDrain", "gather"} /\ UNCHANGED <<conn, started>>
  \/ /\ g = Idle /\ conn' = conn
     /\ started' = started \/ (conn = "draining" /\ started' = FALSE)
  \/ g.op = "drain" /\ conn = "up" /\ conn' = "draining" /\ started' = started

LEMMA ClientDrainsGoesOn ==
  ASSUME NEW g, ClientDrains(g)
  PROVE  GoesOn(g)
<1>1. QED
  BY DEF ClientDrains, GoesOn

LEMMA RpcDrainsGoesOn ==
  ASSUME NEW g, NEW place, NEW size, NEW subs, RpcDrains(place, size, subs, g)
  PROVE  GoesOn(g)
<1>1. CASE g = Idle /\ UNCHANGED <<conn, started>>
  BY <1>1 DEF GoesOn
<1>2. CASE g.op \in {"rpcDrain", "gather"} /\ UNCHANGED <<conn, started>>
  BY <1>2 DEF GoesOn
<1>3. CASE ClientDrains(g)
  BY <1>3, ClientDrainsGoesOn
<1>4. QED
  BY <1>1, <1>2, <1>3 DEF RpcDrains, TasksDone

LEMMA ConsumersStopGoesOn ==
  ASSUME NEW g, NEW rest, NEW cons, ConsumersStop(rest, cons, g)
  PROVE  GoesOn(g)
<1>1. CASE g.op = "consumers" /\ UNCHANGED <<conn, started>>
  BY <1>1 DEF GoesOn
<1>2. CASE RpcDrains(1, Len(served), sub, g)
  BY <1>2, RpcDrainsGoesOn
<1>3. QED
  BY <1>1, <1>2 DEF ConsumersStop

\* disconnect() runs on a connection that is up, unless the application closed one,
\* and it is the one that drains it.
Connection ==
  /\ conn = "new" => ~started
  /\ \A u \in User : At(u, "drain") => conn = "draining"
  /\ conn = "draining" => \E u \in User : At(u, "drain")
  /\ closes = 0 => \A u \in User : user[u].op \in {"consumers", "rpcDrain", "gather"} => conn = "up"

\* Nobody else disconnects.
LEMMA Alone ==
  ASSUME OnlyOne({"disconnect"}), Frames, NEW u \in User, "disconnect" \in Calls[u]
  PROVE  \A w \in User \ {u} : user[w].op \notin {"consumers", "rpcDrain", "gather", "drain"}
<1>1. SUFFICES ASSUME NEW w \in User \ {u}, user[w].op \in {"consumers", "rpcDrain", "gather", "drain"}
               PROVE  FALSE
  OBVIOUS
<1>2. "disconnect" \in Calls[w]
  BY <1>1 DEF Frames, Fine
<1>3. Calls[u] \cap {"disconnect"} # {} /\ Calls[w] \cap {"disconnect"} # {}
  BY <1>2
<1>4. QED
  BY <1>1, <1>3 DEF OnlyOne

\* The task that disconnects finds the connection up, or one that was closed otherwise.
LEMMA FindsUp ==
  ASSUME OnlyOne({"disconnect"}), Typed, Connection, NEW u \in User, "disconnect" \in Calls[u]
  PROVE  /\ ~At(u, "drain") => conn # "draining"
         /\ At(u, "idle") /\ conn # "closed" /\ started => conn = "up"
         /\ closes = 0 /\ user[u].op \in {"consumers", "rpcDrain", "gather"} => conn = "up"
<1>1. Frames /\ conn \in Conns
  BY DEF Typed, Types
<1>2. \A w \in User \ {u} : user[w].op # "drain"
  BY <1>1, Alone
<1>3. ~At(u, "drain") => conn # "draining"
  BY <1>2 DEF Connection, At
<1>4. At(u, "idle") /\ conn # "closed" /\ started => conn = "up"
  BY <1>1, <1>3 DEF Connection, At, Conns
<1>5. QED
  BY <1>3, <1>4 DEF Connection

\* It goes on.
LEMMA GoesOnConnection ==
  ASSUME OnlyOne({"disconnect"}), Typed, Connection, NEW u \in User, "disconnect" \in Calls[u],
         ~At(u, "drain"), NEW g \in Frame, user' = [user EXCEPT ![u] = g], GoesOn(g), closes' = closes,
         closes = 0 => conn = "up"
  PROVE  Connection'
<1>1. Frames /\ Types
  BY DEF Typed
<1>2. \A w \in User : user'[w] = IF w = u THEN g ELSE user[w]
  BY <1>1, Moved
<1>3. \A w \in User \ {u} : user[w].op \notin {"consumers", "rpcDrain", "gather", "drain"}
  BY <1>1, Alone
<1>4. conn # "draining"
  BY FindsUp
<1>5. Idle.op = "idle"
  BY IdleIs
<1>6. (conn' = "new" => ~started') /\ (\A w \in User : At(w, "drain")' => conn' = "draining")
  BY <1>2, <1>3, <1>4, <1>5 DEF GoesOn, Connection, At
<1>7. conn' = "draining" => \E w \in User : At(w, "drain")'
  BY <1>2, <1>4 DEF GoesOn, At
<1>8. closes' = 0 => \A w \in User : user'[w].op \in {"consumers", "rpcDrain", "gather"} => conn' = "up"
  BY <1>2, <1>3, <1>5 DEF GoesOn
<1>9. QED
  BY <1>6, <1>7, <1>8 DEF Connection

LEMMA ConnectionStep ==
  ASSUME OnlyOne({"disconnect"})
  PROVE  Typed /\ Connection /\ [Next]_vars => Connection'
<1>1. SUFFICES ASSUME Typed, Connection, [Next]_vars PROVE Connection'
  OBVIOUS
<1>2. Types /\ Frames
  BY <1>1 DEF Typed
\* A step of a task that does not disconnect.
<1>3. ASSUME NEW u \in User, NEW g \in Frame, user' = [user EXCEPT ![u] = g],
             user[u].op \notin {"consumers", "rpcDrain", "gather", "drain"},
             g.op \notin {"consumers", "rpcDrain", "gather", "drain"}, UNCHANGED connVars
      PROVE  Connection'
  <2>1. \A w \in User : user'[w] = IF w = u THEN g ELSE user[w]
    BY <1>2, <1>3, Moved
  <2>2. QED
    BY <1>1, <1>3, <2>1 DEF Connection, At, connVars
<1>4. ASSUME user' = user, UNCHANGED connVars PROVE Connection'
  BY <1>1, <1>4 DEF Connection, At, connVars
<1>5. ASSUME NEW u \in User, Connect(u) PROVE Connection'
  BY <1>1, <1>5 DEF Connect, Connection, At
<1>6. ASSUME NEW u \in User, NEW r \in Req \cup {0}, Disconnect(u, r) PROVE Connection'
  <2>1. PICK g \in Frame : /\ user' = [user EXCEPT ![u] = g]
                           /\ ConsumersStop({x \in Subject : consumers[x] # 0}, con, g)
    BY <1>2, <1>6, DisconnectDoes
  <2>2. user[u].op = "idle" /\ "disconnect" \in Calls[u] /\ conn # "closed" /\ started /\ Others
    BY <1>2, <1>6, DisconnectDoes
  <2>3. conn = "up"
    BY <1>1, <2>2, FindsUp DEF At
  <2>4. GoesOn(g)
    BY <2>1, ConsumersStopGoesOn
  <2>5. QED
    BY <1>1, <2>1, <2>2, <2>3, <2>4, GoesOnConnection DEF At, Others
<1>7. ASSUME NEW u \in User, DisconnectStopped(u) PROVE Connection'
  <2>1. PICK g \in Frame :
          /\ user' = [user EXCEPT ![u] = g]
          /\ ConsumersStop(user[u].rest, [con EXCEPT ![user[u].id] = "stopped"], g)
    BY <1>2, <1>7, DisconnectStoppedDoes
  <2>2. user[u].op = "consumers" /\ "disconnect" \in Calls[u] /\ Others
    BY <1>2, <1>7, DisconnectStoppedDoes
  <2>3. closes = 0 => conn = "up"
    BY <1>1, <2>2, FindsUp
  <2>4. GoesOn(g)
    BY <2>1, ConsumersStopGoesOn
  <2>5. QED
    BY <1>1, <2>1, <2>2, <2>3, <2>4, GoesOnConnection DEF At, Others
<1>8. ASSUME NEW u \in User, Drained(u) PROVE Connection'
  <2>1. user[u].op = "rpcDrain" /\ "disconnect" \in Calls[u] /\ Others
    BY <1>2, <1>8, DrainedDoes
  <2>2. PICK subs \in [Sub -> SubStates], g \in Frame :
          user' = [user EXCEPT ![u] = g] /\ RpcDrains(user[u].place, user[u].size, subs, g)
    BY <1>2, <1>8, DrainedDoes
  <2>3. closes = 0 => conn = "up"
    BY <1>1, <2>1, FindsUp
  <2>4. GoesOn(g)
    BY <2>2, RpcDrainsGoesOn
  <2>5. QED
    BY <1>1, <2>1, <2>2, <2>3, <2>4, GoesOnConnection DEF At, Others
<1>9. ASSUME NEW u \in User, Gathered(u) PROVE Connection'
  <2>1. user[u].op = "gather" /\ "disconnect" \in Calls[u] /\ Others
    BY <1>2, <1>9, GatheredDoes
  <2>2. PICK g \in Frame : user' = [user EXCEPT ![u] = g] /\ ClientDrains(g)
    BY <1>2, <1>9, GatheredDoes
  <2>3. closes = 0 => conn = "up"
    BY <1>1, <2>1, FindsUp
  <2>4. GoesOn(g)
    BY <2>2, ClientDrainsGoesOn
  <2>5. QED
    BY <1>1, <2>1, <2>2, <2>3, <2>4, GoesOnConnection DEF At, Others
<1>10. ASSUME NEW u \in User, Disconnected(u) PROVE Connection'
  <2>1. user[u].op = "drain" /\ user' = [user EXCEPT ![u] = Idle] /\ conn' = "closed"
    BY <1>10 DEF Disconnected, At, Return, Go
  <2>2. \A w \in User : user'[w] = IF w = u THEN Idle ELSE user[w]
    BY <1>2, <2>1, IdleIs, Moved
  <2>3. "disconnect" \in Calls[u]
    BY <1>2, <2>1 DEF Frames, Fine
  <2>4. \A w \in User \ {u} : user[w].op \notin {"consumers", "rpcDrain", "gather", "drain"}
    BY <1>2, <2>3, Alone
  <2>5. QED
    BY <2>1, <2>2, <2>4, IdleIs DEF Connection, At
<1>11. ASSUME NEW u \in User, NEW m \in Method, Serve(u, m) PROVE Connection'
  <2>1. user[u].op = "idle" /\ UNCHANGED connVars
    BY <1>2, <1>11, ServeDoes
  <2>2. PICK g \in Frame : user' = [user EXCEPT ![u] = g] /\ g.op \in {"subscribe", "flush"}
    BY <1>2, <1>11, ServeDoes, FramesAre
  <2>3. QED
    BY <1>3, <2>1, <2>2
<1>12. ASSUME NEW u \in User, SubscribeReturns(u) \/ Flushed(u) PROVE Connection'
  <2>1. PICK g \in Frame : user' = [user EXCEPT ![u] = g] /\ g.op \in {"idle", "flush"}
    BY <1>12, IdleIs, FramesAre DEF SubscribeReturns, Flushed, Return, Go, Flushing
  <2>2. user[u].op \in {"subscribe", "flush"} /\ UNCHANGED connVars
    BY <1>12 DEF SubscribeReturns, Flushed, At
  <2>3. QED
    BY <1>3, <2>1, <2>2
<1>13. ASSUME NEW u \in User, NEW x \in Subject, Consume(u, x) PROVE Connection'
  <2>1. user' = [user EXCEPT ![u] = ConsumingOf(x)] /\ user[u].op = "idle" /\ UNCHANGED connVars
    BY <1>13 DEF Consume, MayCall, At, Go, ConsumingOf
  <2>2. QED
    BY <1>3, <2>1, FramesAre
<1>14. ASSUME NEW u \in User, Consuming(u) PROVE Connection'
  <2>1. user' = [user EXCEPT ![u] = Idle] /\ user[u].op = "consume" /\ UNCHANGED connVars
    BY <1>2, <1>14, ConsumingDoes
  <2>2. QED
    BY <1>3, <2>1, IdleIs
<1>15. ASSUME NEW u \in User, NEW x \in Subject, StopConsumer(u, x) PROVE Connection'
  <2>1. /\ user' = [user EXCEPT ![u] = Stopping(consumers[x])] /\ user[u].op = "idle" /\ UNCHANGED connVars
        /\ consumers[x] \in Con
    BY <1>2, <1>15, StopConsumerDoes
  <2>2. QED
    BY <1>3, <2>1, FramesAre
<1>16. ASSUME NEW u \in User, StopReturns(u) PROVE Connection'
  <2>1. user' = [user EXCEPT ![u] = Idle] /\ user[u].op = "stop" /\ UNCHANGED connVars
    BY <1>16 DEF StopReturns, At, Return, Go
  <2>2. QED
    BY <1>3, <2>1, IdleIs
<1>17. CASE CloseConnection
  <2>1. closes' # 0
    BY <1>2, <1>17, Numbers DEF CloseConnection, Types
  <2>2. QED
    BY <1>1, <1>17, <2>1 DEF CloseConnection, Connection, At
<1>18. ASSUME NEW r \in Req, OnRequest(r) \/ Reply(r) PROVE Connection'
  BY <1>4, <1>18 DEF OnRequest, Reply
<1>19. ASSUME NEW s \in Sub, Request(s) PROVE Connection'
  BY <1>4, <1>19 DEF Request
<1>20. ASSUME NEW k \in Con, Takes(k) \/ Finishes(k) PROVE Connection'
  BY <1>4, <1>20 DEF Takes, Finishes
<1>21. CASE UNCHANGED vars
  BY <1>4, <1>21 DEF vars, connVars
<1>22. QED
  BY <1>1, <1>5, <1>6, <1>7, <1>8, <1>9, <1>10, <1>11, <1>12, <1>13, <1>14, <1>15, <1>16, <1>17, <1>18,
     <1>19, <1>20, <1>21
  DEF Next, Call, ServeStep, StopStep, DisconnectStep, RpcStep

-----------------------------------------------------------------------------
(* The consumers, when only one task consumes.                             *)

\* A subject has one consumer, which runs, and none while it is about to get one.
Known ==
  /\ \A k \in Con : con[k] = "running" => \E x \in Subject : consumers[x] = k
  /\ \A x \in Subject : consumers[x] # 0 => con[consumers[x]] = "running"
  /\ \A x, y \in Subject : consumers[x] = consumers[y] /\ consumers[x] # 0 => x = y
  /\ \A u \in User : At(u, "consume") => consumers[user[u].arg] = 0

LEMMA KnownIs == Typed /\ Known => ConsumersKnown
<1>1. SUFFICES ASSUME Typed, Known PROVE ConsumersKnown
  OBVIOUS
<1>2. consumers \in [Subject -> Con \cup {0}] /\ Con \subseteq Nat \ {0}
  BY <1>1, Numbers DEF Typed, Types
<1>3. ASSUME NEW k \in Con, con[k] = "running" PROVE k \in {consumers[x] : x \in Subject} \ {0}
  BY <1>1, <1>2, <1>3 DEF Known
<1>4. ASSUME NEW x \in Subject, consumers[x] # 0 PROVE consumers[x] \in Con /\ con[consumers[x]] = "running"
  BY <1>1, <1>2, <1>4 DEF Known
<1>5. QED
  BY <1>3, <1>4 DEF ConsumersKnown

\* The consumer of subject x is taken out and stopped.
LEMMA TakenOut ==
  ASSUME Types, Known, NEW x \in Subject, consumers[x] # 0,
         NEW cons \in [Con -> ConStates], \A k \in Con : cons[k] = con[k] \/ (con[k] = "stopping" /\ cons[k] = "stopped"),
         consumers' = [consumers EXCEPT ![x] = 0], con' = [cons EXCEPT ![consumers[x]] = "stopping"],
         \A w \in User : user'[w].op = "consume" => user'[w] = user[w]
  PROVE  Known'
<1> DEFINE j == consumers[x]
<1>1. \A y \in Subject : consumers'[y] = IF y = x THEN 0 ELSE consumers[y]
  BY DEF Types
<1>2. j \in Con /\ consumers \in [Subject -> Con \cup {0}]
  BY DEF Types
<1>3. \A k \in Con : con'[k] = IF k = j THEN "stopping" ELSE cons[k]
  BY <1>2
<1>4. \A k \in Con : con'[k] = "running" <=> (con[k] = "running" /\ k # j)
  BY <1>3
<1>5. \A y \in Subject : consumers[y] # 0 /\ y # x => consumers[y] # j
  BY DEF Known
<1>6. 0 \notin Con
  BY Numbers
<1> HIDE DEF j
<1>7. \A k \in Con : con'[k] = "running" => \E y \in Subject : consumers'[y] = k
  <2>1. SUFFICES ASSUME NEW k \in Con, con'[k] = "running" PROVE \E y \in Subject : consumers'[y] = k
    OBVIOUS
  <2>2. con[k] = "running" /\ k # j
    BY <1>4, <2>1
  <2>3. PICK y \in Subject : consumers[y] = k
    BY <2>2 DEF Known
  <2>4. y # x
    BY <2>2, <2>3 DEF j
  <2>5. QED
    BY <1>1, <2>3, <2>4
<1>8. \A y \in Subject : consumers'[y] # 0 => con'[consumers'[y]] = "running"
  <2>1. SUFFICES ASSUME NEW y \in Subject, consumers'[y] # 0 PROVE con'[consumers'[y]] = "running"
    OBVIOUS
  <2>2. consumers'[y] = consumers[y] /\ y # x
    BY <1>1, <2>1
  <2>3. consumers[y] \in Con /\ con[consumers[y]] = "running" /\ consumers[y] # j
    BY <1>2, <1>5, <2>1, <2>2 DEF Known
  <2>4. QED
    BY <1>4, <2>2, <2>3
<1>9. \A y, z \in Subject : consumers'[y] = consumers'[z] /\ consumers'[y] # 0 => y = z
  BY <1>1 DEF Known
<1>10. \A w \in User : At(w, "consume")' => consumers'[user'[w].arg] = 0
  <2>1. SUFFICES ASSUME NEW w \in User, user'[w].op = "consume" PROVE consumers'[user'[w].arg] = 0
    BY DEF At
  <2>2. user'[w] = user[w] /\ consumers[user[w].arg] = 0
    BY <2>1 DEF Known, At
  <2>3. QED
    BY <1>1, <2>2
<1>11. QED
  BY <1>7, <1>8, <1>9, <1>10 DEF Known

\* No consumer is registered, taken out or started.
LEMMA StillKnown ==
  ASSUME Types, Known, consumers' = consumers,
         \A k \in Con : con'[k] = con[k] \/ (con[k] = "stopping" /\ con'[k] = "stopped"),
         \A w \in User : user'[w].op = "consume" => user'[w] = user[w] \/ consumers[user'[w].arg] = 0
  PROVE  Known'
<1>1. consumers \in [Subject -> Con \cup {0}]
  BY DEF Types
<1>2. \A k \in Con : con'[k] = "running" <=> con[k] = "running"
  OBVIOUS
<1>3. \A k \in Con : con'[k] = "running" => \E x \in Subject : consumers'[x] = k
  BY <1>2 DEF Known
<1>4. \A x \in Subject : consumers'[x] # 0 => con'[consumers'[x]] = "running"
  BY <1>1, <1>2 DEF Known
<1>5. \A w \in User : At(w, "consume")' => consumers'[user'[w].arg] = 0
  BY DEF Known, At
<1>6. QED
  BY <1>3, <1>4, <1>5 DEF Known

LEMMA ConsumersStopKnown ==
  ASSUME Types, Known, NEW u \in User, NEW g \in Frame, user' = [user EXCEPT ![u] = g],
         NEW rest \in SUBSET Subject, NEW cons \in [Con -> ConStates], ConsumersStop(rest, cons, g),
         \A k \in Con : cons[k] = con[k] \/ (con[k] = "stopping" /\ cons[k] = "stopped")
  PROVE  Known'
<1>1. g.op # "consume"
  BY ConsumersStopGoesOn, IdleIs DEF GoesOn
<1>2. \A w \in User : user'[w].op = "consume" => user'[w] = user[w]
  BY <1>1, Moved
<1>3. ASSUME NEW x \in rest, consumers[x] # 0, consumers' = [consumers EXCEPT ![x] = 0],
             con' = [cons EXCEPT ![consumers[x]] = "stopping"]
      PROVE  Known'
  BY <1>2, <1>3, TakenOut
<1>4. CASE consumers' = consumers /\ con' = cons
  BY <1>2, <1>4, StillKnown
<1>5. QED
  BY <1>3, <1>4 DEF ConsumersStop

LEMMA KnownStep ==
  ASSUME OnlyOne({"consume"})
  PROVE  Typed /\ Known /\ [Next]_vars => Known'
<1>1. SUFFICES ASSUME Typed, Known, [Next]_vars PROVE Known'
  OBVIOUS
<1>2. Types /\ Frames
  BY <1>1 DEF Typed
\* A step of a task that neither registers a consumer nor begins to.
<1>3. ASSUME NEW u \in User, NEW g \in Frame, user' = [user EXCEPT ![u] = g],
             g.op # "consume", UNCHANGED <<consumers, con>>
      PROVE  Known'
  <2>1. \A w \in User : user'[w] = IF w = u THEN g ELSE user[w]
    BY <1>2, <1>3, Moved
  <2>2. \A w \in User : user'[w].op = "consume" => user'[w] = user[w]
    BY <1>3, <2>1
  <2>3. QED
    BY <1>1, <1>2, <1>3, <2>2, StillKnown
<1>4. ASSUME user' = user, UNCHANGED <<consumers, con>> PROVE Known'
  BY <1>1, <1>2, <1>4, StillKnown
<1>5. ASSUME NEW u \in User, NEW r \in Req \cup {0}, Disconnect(u, r) PROVE Known'
  <2>1. PICK g \in Frame : /\ user' = [user EXCEPT ![u] = g]
                           /\ ConsumersStop({x \in Subject : consumers[x] # 0}, con, g)
    BY <1>2, <1>5, DisconnectDoes
  <2>2. {x \in Subject : consumers[x] # 0} \in SUBSET Subject /\ con \in [Con -> ConStates]
    BY <1>2 DEF Types
  <2>3. QED
    BY <1>1, <1>2, <2>1, <2>2, ConsumersStopKnown
<1>6. ASSUME NEW u \in User, DisconnectStopped(u) PROVE Known'
  <2> DEFINE j == user[u].id
             cons == [con EXCEPT ![j] = "stopped"]
             rest == user[u].rest
  <2>1. PICK g \in Frame : user' = [user EXCEPT ![u] = g] /\ ConsumersStop(rest, cons, g)
    BY <1>2, <1>6, DisconnectStoppedDoes
  <2>2. j \in Con /\ con[j] = "stopping"
    BY <1>2, <1>6, DisconnectStoppedDoes
  <2>3. cons \in [Con -> ConStates] /\ \A k \in Con : cons[k] = IF k = j THEN "stopped" ELSE con[k]
    BY <1>2, <2>2 DEF Types, ConStates
  <2>4. rest \in SUBSET Subject
    BY <1>2 DEF Types, Frame
  <2> HIDE DEF cons, rest, j
  <2>5. \A k \in Con : cons[k] = con[k] \/ (con[k] = "stopping" /\ cons[k] = "stopped")
    BY <2>2, <2>3
  <2>6. QED
    BY <1>1, <1>2, <2>1, <2>3, <2>4, <2>5, ConsumersStopKnown
<1>7. ASSUME NEW u \in User, Drained(u) PROVE Known'
  <2>1. consumers' = consumers /\ con' = con
    BY <1>2, <1>7, DrainedDoes
  <2>2. PICK subs \in [Sub -> SubStates], g \in Frame :
          user' = [user EXCEPT ![u] = g] /\ RpcDrains(user[u].place, user[u].size, subs, g)
    BY <1>2, <1>7, DrainedDoes
  <2>3. g.op # "consume"
    BY <2>2, RpcDrainsGoesOn, IdleIs DEF GoesOn
  <2>4. QED
    BY <1>3, <2>1, <2>2, <2>3
<1>8. ASSUME NEW u \in User, Gathered(u) PROVE Known'
  <2>1. consumers' = consumers /\ con' = con
    BY <1>2, <1>8, GatheredDoes
  <2>2. PICK g \in Frame : user' = [user EXCEPT ![u] = g] /\ ClientDrains(g)
    BY <1>2, <1>8, GatheredDoes
  <2>3. g.op # "consume"
    BY <2>2, ClientDrainsGoesOn, IdleIs DEF GoesOn
  <2>4. QED
    BY <1>3, <2>1, <2>2, <2>3
<1>9. ASSUME NEW u \in User, Disconnected(u) PROVE Known'
  BY <1>3, <1>9, IdleIs DEF Disconnected, Return, Go, conVars
<1>10. ASSUME NEW u \in User, NEW m \in Method, Serve(u, m) PROVE Known'
  <2>1. UNCHANGED <<connVars, conVars, req, of, faults, aborted>>
    BY <1>2, <1>10, ServeDoes
  <2>2. PICK g \in Frame : user' = [user EXCEPT ![u] = g] /\ g.op \in {"subscribe", "flush"}
    BY <1>2, <1>10, ServeDoes, FramesAre
  <2>3. QED
    BY <1>3, <2>1, <2>2 DEF conVars
<1>11. ASSUME NEW u \in User, SubscribeReturns(u) \/ Flushed(u) PROVE Known'
  <2>1. PICK g \in Frame : user' = [user EXCEPT ![u] = g] /\ g.op \in {"idle", "flush"}
    BY <1>11, IdleIs, FramesAre DEF SubscribeReturns, Flushed, Return, Go, Flushing
  <2>2. UNCHANGED conVars
    BY <1>11 DEF SubscribeReturns, Flushed
  <2>3. QED
    BY <1>3, <2>1, <2>2 DEF conVars
<1>12. ASSUME NEW u \in User, NEW x \in Subject, Consume(u, x) PROVE Known'
  <2>1. user' = [user EXCEPT ![u] = ConsumingOf(x)] /\ consumers[x] = 0 /\ UNCHANGED <<consumers, con>>
    BY <1>12 DEF Consume, Go, ConsumingOf, conVars
  <2>2. \A w \in User : user'[w] = IF w = u THEN ConsumingOf(x) ELSE user[w]
    <3>1. ConsumingOf(x) \in Frame
      BY FramesAre
    <3>2. QED
      BY <1>2, <2>1, <3>1, Moved
  <2>3. \A w \in User : user'[w].op = "consume" => user'[w] = user[w] \/ consumers[user'[w].arg] = 0
    BY <2>1, <2>2, FramesAre
  <2>4. QED
    BY <1>1, <1>2, <2>1, <2>3, StillKnown
<1>13. ASSUME NEW u \in User, Consuming(u) PROVE Known'
  <2> DEFINE a == user[u].arg
  <2>1. user[u].op = "consume" /\ a \in Subject /\ user' = [user EXCEPT ![u] = Idle]
    BY <1>2, <1>13, ConsumingDoes
  <2>2. CASE UNCHANGED <<consumers, con>>
    BY <1>3, <2>1, <2>2, IdleIs
  <2>3. ASSUME NEW k \in Con, con[k] = "none",
               consumers' = [consumers EXCEPT ![a] = k], con' = [con EXCEPT ![k] = "running"]
        PROVE  Known'
    <3>1. consumers[a] = 0
      BY <1>1, <2>1 DEF Known, At
    <3>2. \A w \in User : user'[w] = IF w = u THEN Idle ELSE user[w]
      BY <1>2, <2>1, IdleIs, Moved
    <3> HIDE DEF a
    <3>3. \A x \in Subject : consumers'[x] = IF x = a THEN k ELSE consumers[x]
      BY <1>2, <2>3 DEF Types
    <3>4. \A l \in Con : con'[l] = IF l = k THEN "running" ELSE con[l]
      BY <1>2, <2>3 DEF Types
    <3>5. \A x \in Subject : consumers[x] # 0 => consumers[x] \in Con /\ consumers[x] # k
      BY <1>1, <1>2, <2>3 DEF Known, Types
    <3>6. \A l \in Con : con'[l] = "running" => \E x \in Subject : consumers'[x] = l
      <4>1. SUFFICES ASSUME NEW l \in Con, con'[l] = "running" PROVE \E x \in Subject : consumers'[x] = l
        OBVIOUS
      <4>2. CASE l = k
        BY <2>1, <3>3, <4>2
      <4>3. CASE l # k
        <5>1. PICK x \in Subject : consumers[x] = l
          BY <1>1, <3>4, <4>1, <4>3 DEF Known
        <5>2. x # a
          BY <3>1, <5>1, Numbers
        <5>3. QED
          BY <3>3, <5>1, <5>2
      <4>4. QED
        BY <4>2, <4>3
    <3>7. \A x \in Subject : consumers'[x] # 0 => con'[consumers'[x]] = "running"
      BY <1>1, <3>3, <3>4, <3>5 DEF Known
    <3>8. \A x, y \in Subject : consumers'[x] = consumers'[y] /\ consumers'[x] # 0 => x = y
      BY <1>1, <3>3, <3>5 DEF Known
    <3>9. \A w \in User : At(w, "consume")' => consumers'[user'[w].arg] = 0
      <4>1. SUFFICES ASSUME NEW w \in User, user'[w].op = "consume" PROVE consumers'[user'[w].arg] = 0
        BY DEF At
      <4>2. w # u /\ user[w].op = "consume"
        BY <3>2, <4>1, IdleIs
      <4>3. Calls[u] \cap {"consume"} # {} /\ Calls[w] \cap {"consume"} # {}
        BY <1>2, <2>1, <4>2 DEF Frames, Fine
      <4>4. QED
        BY <4>2, <4>3 DEF OnlyOne
    <3>10. QED
      BY <3>6, <3>7, <3>8, <3>9 DEF Known
  <2>4. QED
    BY <1>2, <1>13, <2>2, <2>3, ConsumingDoes
<1>14. ASSUME NEW u \in User, NEW x \in Subject, StopConsumer(u, x) PROVE Known'
  <2>1. /\ consumers[x] \in Con /\ consumers' = [consumers EXCEPT ![x] = 0]
        /\ con' = [con EXCEPT ![consumers[x]] = "stopping"]
        /\ user' = [user EXCEPT ![u] = Stopping(consumers[x])]
    BY <1>2, <1>14, StopConsumerDoes
  <2>2. Stopping(consumers[x]) \in Frame /\ Stopping(consumers[x]).op # "consume"
    BY <2>1, FramesAre
  <2>3. \A w \in User : user'[w].op = "consume" => user'[w] = user[w]
    BY <1>2, <2>1, <2>2, Moved
  <2>4. consumers[x] # 0 /\ con \in [Con -> ConStates]
    BY <1>2, <2>1, Numbers DEF Types
  <2>5. QED
    BY <1>1, <1>2, <2>1, <2>3, <2>4, TakenOut
<1>15. ASSUME NEW u \in User, StopReturns(u) PROVE Known'
  <2> DEFINE j == user[u].id
  <2>1. /\ con[j] = "stopping" /\ con' = [con EXCEPT ![j] = "stopped"] /\ consumers' = consumers
        /\ user' = [user EXCEPT ![u] = Idle]
    BY <1>15 DEF StopReturns, Stopped, Return, Go
  <2>2. \A w \in User : user'[w] = IF w = u THEN Idle ELSE user[w]
    BY <1>2, <2>1, IdleIs, Moved
  <2>3. \A w \in User : user'[w].op = "consume" => user'[w] = user[w]
    BY <2>2, IdleIs
  <2>4. \A k \in Con : con'[k] = con[k] \/ (con[k] = "stopping" /\ con'[k] = "stopped")
    BY <1>2, <2>1 DEF Types
  <2>5. QED
    BY <1>1, <1>2, <2>1, <2>3, <2>4, StillKnown
<1>16. ASSUME NEW r \in Req, OnRequest(r) \/ Reply(r) PROVE Known'
  BY <1>4, <1>16 DEF OnRequest, Reply, conVars
<1>17. ASSUME NEW s \in Sub, Request(s) PROVE Known'
  BY <1>4, <1>17 DEF Request, conVars
<1>18. ASSUME NEW k \in Con, Takes(k) \/ Finishes(k) PROVE Known'
  BY <1>4, <1>18 DEF Takes, Finishes
<1>19. CASE CloseConnection \/ UNCHANGED vars \/ \E u \in User : Connect(u)
  BY <1>4, <1>19 DEF CloseConnection, Connect, vars, conVars
<1>20. QED
  BY <1>1, <1>5, <1>6, <1>7, <1>8, <1>9, <1>10, <1>11, <1>12, <1>13, <1>14, <1>15, <1>16, <1>17, <1>18,
     <1>19
  DEF Next, Call, ServeStep, StopStep, DisconnectStep, RpcStep

-----------------------------------------------------------------------------
(* disconnect() and the consumers it finds, when only one task disconnects and *)
(* one consumes.                                                           *)

LEMMA OnlyOneOf ==
  ASSUME NEW a, NEW b, OnlyOne(a), b \subseteq a
  PROVE  OnlyOne(b)
<1>1. QED
  BY DEF OnlyOne

\* Consumer k is being stopped or has stopped.
Ends(k) == con[k] \in {"stopping", "stopped"}

\* A consumer disconnect() has found when it was called ends, or disconnect() still has it on
\* its list.
Ended ==
  closes = 0 => \A k \in listed :
    Ends(k) \/ \E u \in User : At(u, "consumers") /\ \E x \in user[u].rest : consumers[x] = k

\* Task u goes on to stop one of rest, which has those on the list that do not end.
LEMMA ConsumersStopEnds ==
  ASSUME Types, Listing', conn # "closed",
         NEW u \in User, NEW g \in Frame, user' = [user EXCEPT ![u] = g],
         NEW rest \in SUBSET Subject, NEW cons \in [Con -> ConStates], ConsumersStop(rest, cons, g),
         \A k \in listed' : cons[k] \in {"stopping", "stopped"} \/ \E x \in rest : consumers[x] = k
  PROVE  Ended'
<1>1. user'[u] = g
  BY DEF Types
<1>2. SUFFICES ASSUME NEW k \in listed'
               PROVE  \/ con'[k] \in {"stopping", "stopped"}
                      \/ g.op = "consumers" /\ \E x \in g.rest : consumers'[x] = k
  BY <1>1 DEF Ended, Ends, At
<1>3. k \in Con /\ k # 0
  BY <1>2, Numbers DEF Listing
<1>4. ASSUME NEW x \in rest, consumers[x] # 0, consumers' = [consumers EXCEPT ![x] = 0],
             con' = [cons EXCEPT ![consumers[x]] = "stopping"], g.op = "consumers", g.rest = rest \ {x}
      PROVE  \/ con'[k] \in {"stopping", "stopped"}
             \/ g.op = "consumers" /\ \E y \in g.rest : consumers'[y] = k
  <2>1. CASE consumers[x] = k
    BY <1>3, <1>4, <2>1
  <2>2. CASE consumers[x] # k /\ cons[k] \in {"stopping", "stopped"}
    BY <1>3, <1>4, <2>2
  <2>3. ASSUME consumers[x] # k, NEW y \in rest, consumers[y] = k
        PROVE  y \in g.rest /\ consumers'[y] = k
    BY <1>4, <2>3 DEF Types
  <2>4. QED
    BY <1>2, <1>4, <2>1, <2>2, <2>3
<1>5. CASE (\A x \in rest : consumers[x] = 0) /\ con' = cons
  BY <1>2, <1>3, <1>5
<1>6. QED
  BY <1>4, <1>5 DEF ConsumersStop

LEMMA EndedStep ==
  ASSUME OnlyOne({"disconnect"}), OnlyOne({"consume"})
  PROVE  Typed /\ Listing /\ Connection /\ Known /\ Ended /\ [Next]_vars => Ended'
<1>1. SUFFICES ASSUME Typed, Listing, Connection, Known, Ended, [Next]_vars PROVE Ended'
  OBVIOUS
<1>2. Types /\ Frames /\ Listing'
  BY <1>1, ListingStep DEF Typed
\* A step of a task that is past its consumers or has none to stop, and takes none out.
<1>3. ASSUME NEW u \in User, NEW g \in Frame, user' = [user EXCEPT ![u] = g], user[u].op # "consumers",
             UNCHANGED <<closes, consumers, listed>>, \A k \in Con : Ends(k) => Ends(k)'
      PROVE  Ended'
  <2>1. \A w \in User : w # u => user'[w] = user[w]
    BY <1>2, <1>3, Moved
  <2>2. \A w \in User : At(w, "consumers") => user'[w] = user[w]
    BY <1>3, <2>1 DEF At
  <2>3. QED
    BY <1>1, <1>3, <2>2 DEF Ended, At, Listing
<1>4. ASSUME user' = user, UNCHANGED <<closes, consumers, con, listed>> PROVE Ended'
  BY <1>1, <1>4 DEF Ended, Ends, At
<1>5. ASSUME NEW u \in User, Connect(u) PROVE Ended'
  BY <1>4, <1>5 DEF Connect, conVars
<1>6. CASE CloseConnection
  <2>1. closes' # 0
    BY <1>2, <1>6, Numbers DEF CloseConnection, Types
  <2>2. QED
    BY <2>1 DEF Ended
<1>7. ASSUME NEW u \in User, NEW r \in Req \cup {0}, Disconnect(u, r) PROVE Ended'
  <2> DEFINE rest == {x \in Subject : consumers[x] # 0}
  <2>1. PICK g \in Frame : user' = [user EXCEPT ![u] = g] /\ ConsumersStop(rest, con, g)
    BY <1>2, <1>7, DisconnectDoes
  <2>2. /\ user[u].op = "idle" /\ "disconnect" \in Calls[u] /\ conn # "closed"
        /\ Others /\ listed' = listed \cup ({consumers[x] : x \in Subject} \ {0})
    BY <1>2, <1>7, DisconnectDoes DEF Disconnect
  <2>3. \A w \in User : ~At(w, "consumers")
    BY <1>2, <2>2, Alone DEF At
  <2>4. closes = 0 => \A k \in listed' : con[k] \in {"stopping", "stopped"} \/ \E x \in rest : consumers[x] = k
    BY <1>1, <2>2, <2>3 DEF Ended, Ends
  <2>5. rest \in SUBSET Subject /\ con \in [Con -> ConStates]
    BY <1>2 DEF Types
  <2> HIDE DEF rest
  <2>6. CASE closes = 0
    BY <1>2, <2>1, <2>2, <2>4, <2>5, <2>6, ConsumersStopEnds
  <2>7. CASE closes # 0
    BY <2>2, <2>7 DEF Ended, Others
  <2>8. QED
    BY <2>6, <2>7
<1>8. ASSUME NEW u \in User, DisconnectStopped(u) PROVE Ended'
  <2> DEFINE j == user[u].id
             cons == [con EXCEPT ![j] = "stopped"]
             rest == user[u].rest
  <2>1. PICK g \in Frame : user' = [user EXCEPT ![u] = g] /\ ConsumersStop(rest, cons, g)
    BY <1>2, <1>8, DisconnectStoppedDoes
  <2>2. /\ user[u].op = "consumers" /\ "disconnect" \in Calls[u] /\ Others /\ j \in Con
        /\ listed' = listed
    BY <1>2, <1>8, DisconnectStoppedDoes DEF DisconnectStopped
  <2>3. cons \in [Con -> ConStates] /\ \A k \in Con : Ends(k) => cons[k] \in {"stopping", "stopped"}
    BY <1>2, <2>2 DEF Types, ConStates, Ends
  <2>4. rest \in SUBSET Subject
    BY <1>2 DEF Types, Frame
  <2>5. \A w \in User : At(w, "consumers") => w = u
    BY <1>2, <2>2, Alone DEF At
  <2>6. closes = 0 => /\ conn # "closed"
                      /\ \A k \in listed' : \/ cons[k] \in {"stopping", "stopped"}
                                            \/ \E x \in rest : consumers[x] = k
    <3>1. closes = 0 => conn = "up"
      BY <1>1, <2>2, FindsUp
    <3>2. closes = 0 => \A k \in listed : Ends(k) \/ \E x \in rest : consumers[x] = k
      BY <1>1, <2>5 DEF Ended
    <3>3. QED
      BY <1>1, <2>2, <2>3, <3>1, <3>2 DEF Listing
  <2> HIDE DEF cons, rest, j
  <2>7. CASE closes = 0
    BY <1>2, <2>1, <2>3, <2>4, <2>6, <2>7, ConsumersStopEnds
  <2>8. CASE closes # 0
    BY <2>2, <2>8 DEF Ended, Others
  <2>9. QED
    BY <2>7, <2>8
<1>9. ASSUME NEW u \in User, Drained(u) \/ Gathered(u) PROVE Ended'
  <2>1. /\ user[u].op # "consumers" /\ consumers' = consumers /\ con' = con /\ Others
        /\ \E g \in Frame : user' = [user EXCEPT ![u] = g]
    BY <1>2, <1>9, DrainedDoes, GatheredDoes
  <2>2. listed' = listed
    BY <1>9 DEF Drained, Gathered
  <2>3. QED
    BY <1>3, <2>1, <2>2 DEF Others, Ends
<1>10. ASSUME NEW u \in User, Disconnected(u) PROVE Ended'
  <2>1. /\ user[u].op = "drain" /\ user' = [user EXCEPT ![u] = Idle]
        /\ UNCHANGED <<closes, consumers, con, listed>>
    BY <1>10 DEF Disconnected, At, Return, Go, conVars
  <2>2. QED
    BY <1>3, <2>1, IdleIs DEF Ends
<1>11. ASSUME NEW u \in User, NEW m \in Method, Serve(u, m) PROVE Ended'
  <2>1. UNCHANGED <<closes, consumers, con, listed>> /\ user[u].op = "idle"
    BY <1>11 DEF Serve, MayCall, At, connVars, conVars
  <2>2. PICK g \in Frame : user' = [user EXCEPT ![u] = g]
    BY <1>2, <1>11, ServeDoes, FramesAre
  <2>3. QED
    BY <1>3, <2>1, <2>2 DEF Ends
<1>12. ASSUME NEW u \in User, SubscribeReturns(u) \/ Flushed(u) PROVE Ended'
  <2>1. /\ user[u].op \in {"subscribe", "flush"}
        /\ \E g \in Frame : user' = [user EXCEPT ![u] = g]
    BY <1>12, IdleIs, FramesAre DEF SubscribeReturns, Flushed, Return, Go, Flushing, At
  <2>2. UNCHANGED <<closes, consumers, con, listed>>
    BY <1>12 DEF SubscribeReturns, Flushed, connVars, conVars
  <2>3. QED
    BY <1>3, <2>1, <2>2 DEF Ends
<1>13. ASSUME NEW u \in User, NEW x \in Subject, Consume(u, x) PROVE Ended'
  <2>1. /\ user[u].op = "idle" /\ user' = [user EXCEPT ![u] = ConsumingOf(x)]
        /\ UNCHANGED <<closes, consumers, con, listed>>
    BY <1>13 DEF Consume, MayCall, At, Go, ConsumingOf, connVars, conVars
  <2>2. ConsumingOf(x) \in Frame
    BY FramesAre
  <2>3. QED
    BY <1>3, <2>1, <2>2 DEF Ends
\* The subject that gets a consumer had none.
<1>14. ASSUME NEW u \in User, Consuming(u) PROVE Ended'
  <2>1. /\ user[u].op = "consume" /\ user[u].arg \in Subject /\ user' = [user EXCEPT ![u] = Idle]
        /\ UNCHANGED connVars
    BY <1>2, <1>14, ConsumingDoes
  <2>2. UNCHANGED <<closes, listed>>
    BY <1>14, <2>1 DEF Consuming, connVars
  <2>3. CASE UNCHANGED <<consumers, con>>
    BY <1>3, <2>1, <2>2, <2>3, IdleIs DEF Ends
  <2>4. ASSUME NEW k \in Con, con[k] = "none", consumers' = [consumers EXCEPT ![user[u].arg] = k],
               con' = [con EXCEPT ![k] = "running"]
        PROVE  Ended'
    <3>1. consumers[user[u].arg] = 0
      BY <1>1, <2>1 DEF Known, At
    <3>2. \A x \in Subject : consumers[x] # 0 => consumers'[x] = consumers[x]
      BY <1>2, <2>1, <2>4, <3>1 DEF Types
    <3>3. \A i \in Con : Ends(i) => Ends(i)'
      BY <1>2, <2>4 DEF Ends, Types
    <3>4. \A w \in User : At(w, "consumers") => user'[w] = user[w]
      BY <1>2, <2>1, IdleIs, Moved DEF At
    <3>5. \A w \in User : user[w].rest \in SUBSET Subject
      BY <1>2 DEF Types, Frame
    <3>6. SUFFICES ASSUME closes = 0, NEW i \in listed, ~Ends(i)
                   PROVE  \E w \in User : At(w, "consumers")' /\ \E x \in user'[w].rest : consumers'[x] = i
      BY <1>1, <2>2, <3>3 DEF Ended, Listing
    <3>7. PICK w \in User : At(w, "consumers") /\ \E x \in user[w].rest : consumers[x] = i
      BY <1>1, <3>6 DEF Ended
    <3>8. i # 0
      BY <1>1, Numbers DEF Listing
    <3>9. QED
      BY <3>2, <3>4, <3>5, <3>7, <3>8 DEF At
  <2>5. QED
    BY <1>2, <1>14, <2>3, <2>4, ConsumingDoes
\* The consumer that is taken out ends.
<1>15. ASSUME NEW u \in User, NEW x \in Subject, StopConsumer(u, x) PROVE Ended'
  <2> DEFINE j == consumers[x]
  <2>1. /\ user[u].op = "idle" /\ j \in Con /\ UNCHANGED connVars
        /\ consumers' = [consumers EXCEPT ![x] = 0] /\ con' = [con EXCEPT ![j] = "stopping"]
        /\ user' = [user EXCEPT ![u] = Stopping(j)]
    BY <1>2, <1>15, StopConsumerDoes
  <2>2. UNCHANGED <<closes, listed>>
    BY <1>15 DEF StopConsumer, connVars
  <2>3. \A k \in Con : Ends(k)' <=> Ends(k) \/ k = j
    BY <1>2, <2>1 DEF Ends, Types
  <2>4. \A y \in Subject : consumers[y] # j => consumers'[y] = consumers[y]
    BY <1>2, <2>1 DEF Types
  <2>5. \A w \in User : At(w, "consumers") => user'[w] = user[w]
    BY <1>2, <2>1, FramesAre, Moved DEF At
  <2>6. \A w \in User : user[w].rest \in SUBSET Subject
    BY <1>2 DEF Types, Frame
  <2> HIDE DEF j
  <2>7. SUFFICES ASSUME closes = 0, NEW i \in listed, ~Ends(i), i # j
                 PROVE  \E w \in User : At(w, "consumers")' /\ \E y \in user'[w].rest : consumers'[y] = i
    BY <1>1, <2>2, <2>3 DEF Ended, Listing
  <2>8. PICK w \in User : At(w, "consumers") /\ \E y \in user[w].rest : consumers[y] = i
    BY <1>1, <2>7 DEF Ended
  <2>9. QED
    BY <2>4, <2>5, <2>6, <2>7, <2>8 DEF At
<1>16. ASSUME NEW u \in User, StopReturns(u) PROVE Ended'
  <2>1. /\ user[u].op = "stop" /\ user' = [user EXCEPT ![u] = Idle]
        /\ con' = [con EXCEPT ![user[u].id] = "stopped"] /\ UNCHANGED <<closes, consumers, listed>>
    BY <1>16 DEF StopReturns, At, Return, Go, connVars
  <2>2. \A k \in Con : Ends(k) => Ends(k)'
    BY <1>2, <2>1 DEF Ends, Types
  <2>3. QED
    BY <1>3, <2>1, <2>2, IdleIs
<1>17. ASSUME NEW r \in Req, OnRequest(r) \/ Reply(r) PROVE Ended'
  BY <1>4, <1>17 DEF OnRequest, Reply, connVars, conVars
<1>18. ASSUME NEW s \in Sub, Request(s) PROVE Ended'
  BY <1>4, <1>18 DEF Request, connVars, conVars
<1>19. ASSUME NEW k \in Con, Takes(k) \/ Finishes(k) PROVE Ended'
  BY <1>4, <1>19 DEF Takes, Finishes, connVars
<1>20. CASE UNCHANGED vars
  BY <1>4, <1>20 DEF vars
<1>21. QED
  BY <1>1, <1>5, <1>6, <1>7, <1>8, <1>9, <1>10, <1>11, <1>12, <1>13, <1>14, <1>15, <1>16, <1>17, <1>18,
     <1>19, <1>20
  DEF Next, Call, ServeStep, StopStep, DisconnectStep, RpcStep

LEMMA ConsumersInit == Init => Connection /\ Working /\ Known /\ Ended
<1>1. SUFFICES ASSUME Init PROVE Connection /\ Working /\ Known /\ Ended
  OBVIOUS
<1>2. \A u \in User : user[u] = Idle
  BY <1>1 DEF Init
<1>3. Idle.op = "idle"
  BY IdleIs
<1>4. \A k \in Con : con[k] = "none"
  BY <1>1 DEF Init
<1>5. \A x \in Subject : consumers[x] = 0
  BY <1>1 DEF Init
<1>6. conn = "new" /\ started = FALSE /\ busy = {} /\ listed = {}
  BY <1>1 DEF Init
<1>7. QED
  BY <1>2, <1>3, <1>4, <1>5, <1>6 DEF Connection, Working, Known, Ended, At

\* disconnect() waits for every message that the consumers it finds are processing before it
\* closes the connection, but for those of a consumer that another task is stopping, if one task
\* disconnects and one consumes: any number of tasks may stop consumers meanwhile, and the one
\* that consumes may do so in the middle of disconnect().
THEOREM AckedFirst ==
  ASSUME OnlyOne({"disconnect"}), OnlyOne({"consume"})
  PROVE  Spec => []AckedBeforeClose
<1> DEFINE IInv == Typed /\ Listing /\ Connection /\ Working /\ Known /\ Ended
<1>1. Init => IInv
  BY TypedInit, ConsumersInit DEF Init, Listing
<1>2. IInv /\ [Next]_vars => IInv'
  <2>1. Typed => Types
    BY DEF Typed
  <2>2. QED
    BY <2>1, TypedStep, ListingStep, ConnectionStep, WorkingStep, KnownStep, EndedStep
<1>3. IInv => AckedBeforeClose
  <2>1. SUFFICES ASSUME IInv, conn = "closed", closes = 0, NEW k \in busy \cap listed
                 PROVE  \E w \in User : At(w, "stop") /\ user[w].id = k
    BY DEF AckedBeforeClose, Closed
  <2>2. k \in Con /\ con[k] \in {"running", "stopping"}
    BY <2>1 DEF Typed, Types, Working
  <2>3. \A w \in User : user[w].op # "consumers"
    BY <2>1 DEF Connection
  <2>4. con[k] = "stopping"
    BY <2>1, <2>2, <2>3 DEF Ended, Ends, At
  <2>5. QED
    BY <2>1, <2>2, <2>3, <2>4 DEF Working, Awaited, At
<1> HIDE DEF IInv
<1>4. QED
  BY <1>1, <1>2, <1>3, PTL DEF Spec

-----------------------------------------------------------------------------
(* The RPC subscriptions, when only one task serves and disconnects.       *)

Active == {s \in Sub : sub[s] = "active"}
Subs == {served[i][2] : i \in DOMAIN served}

\* Subscription s is registered at place or after it.
Ahead(s, place) == \E i \in DOMAIN served : i >= place /\ served[i][2] = s

\* What is active is registered, is about to be, or is still ahead of disconnect(),
\* and what is registered is active.
Registers ==
  /\ conn # "up" => Active = {}
  /\ \A s \in Active : s \in Subs \/ \E u \in User : At(u, "subscribe") /\ user[u].id = s
  /\ \A u \in User : At(u, "subscribe") =>
       Registered(user[u].arg) = {} /\ (conn = "up" => user[u].id \in Active)
  /\ \A u \in User : At(u, "rpcDrain") =>
       user[u].size = Len(served) /\ \A s \in Active : Ahead(s, user[u].place)
  /\ \A u \in User : user[u].op \in {"gather", "drain"} => served = <<>>
  /\ conn = "up" /\ (\A u \in User : ~At(u, "rpcDrain")) => Subs \subseteq Active
  /\ ~started => served = <<>> /\ \A u \in User : ~At(u, "subscribe")

ServeOps == {"subscribe", "consumers", "rpcDrain", "gather", "drain"}

LEMMA Single ==
  ASSUME OnlyOne({"serve", "disconnect"}), Frames, NEW u \in User, Calls[u] \cap {"serve", "disconnect"} # {}
  PROVE  \A w \in User \ {u} : user[w].op \notin ServeOps
<1>1. SUFFICES ASSUME NEW w \in User \ {u}, user[w].op \in ServeOps PROVE FALSE
  OBVIOUS
<1>2. Calls[w] \cap {"serve", "disconnect"} # {}
  BY <1>1 DEF Frames, Fine, ServeOps
<1>3. QED
  BY <1>1, <1>2 DEF OnlyOne

LEMMA ServedIs ==
  ASSUME Types
  PROVE  /\ Len(served) \in Nat /\ DOMAIN served = 1 .. Len(served)
         /\ \A i \in DOMAIN served : served[i][2] \in Sub
         /\ Subs \in SUBSET Sub /\ (served = <<>> => Subs = {})
<1>1. served \in Seq(Method \X Sub)
  BY DEF Types
<1>2. Len(served) \in Nat /\ DOMAIN served = 1 .. Len(served)
  BY <1>1
<1>3. \A i \in DOMAIN served : served[i][2] \in Sub
  <2>1. \A i \in DOMAIN served : served[i] \in Method \X Sub
    BY <1>1
  <2>2. QED
    BY <2>1
<1>4. served = <<>> => Subs = {}
  <2>1. DOMAIN <<>> = {}
    OBVIOUS
  <2>2. QED
    BY <2>1 DEF Subs
<1>5. QED
  BY <1>2, <1>3, <1>4 DEF Subs

\* Task u goes on with disconnect(), which drains the subscriptions from place on.
LEMMA RpcDrainsRegisters ==
  ASSUME OnlyOne({"serve", "disconnect"}), Typed, Registers,
         NEW u \in User, "disconnect" \in Calls[u], NEW g \in Frame, user' = [user EXCEPT ![u] = g],
         conn # "draining", user[u].op # "subscribe",
         NEW place \in Nat, place >= 1, \A s \in Active : Ahead(s, place),
         NEW subs \in [Sub -> SubStates], \A s \in Sub : subs[s] = "active" => sub[s] = "active",
         RpcDrains(place, Len(served), subs, g)
  PROVE  Registers' /\ aborted' = aborted
<1>1. Types /\ Frames
  BY DEF Typed
<1>2. \A w \in User : user'[w] = IF w = u THEN g ELSE user[w]
  BY <1>1, Moved
<1>3. \A w \in User \ {u} : user[w].op \notin ServeOps
  <2>1. Calls[u] \cap {"serve", "disconnect"} # {}
    OBVIOUS
  <2>2. QED
    BY <1>1, <2>1, Single
<1>4. g.op # "subscribe" /\ started' = started
  BY RpcDrainsGoesOn, IdleIs DEF GoesOn
<1>5. \A w \in User : user'[w].op # "subscribe" /\ (w # u => user'[w].op \notin ServeOps)
  BY <1>2, <1>3, <1>4 DEF ServeOps
<1>6. \A w \in User : user[w].op # "subscribe"
  BY <1>3 DEF ServeOps
<1>7. /\ Len(served) \in Nat /\ DOMAIN served = 1 .. Len(served)
      /\ \A i \in DOMAIN served : served[i][2] \in Sub
  BY <1>1, ServedIs
<1>8. ASSUME NEW p \in DOMAIN served, p >= place,
             \A q \in DOMAIN served : q >= place /\ q < p => subs[served[q][2]] = "gone",
             sub' = [subs EXCEPT ![served[p][2]] = "draining"],
             g.op = "rpcDrain", g.id = served[p][2], g.place = p + 1, g.size = Len(served),
             UNCHANGED <<served, conn, started, faults, aborted>>
      PROVE  Registers' /\ aborted' = aborted
  <2>1. \A s \in Sub : sub'[s] = IF s = served[p][2] THEN "draining" ELSE subs[s]
    BY <1>7, <1>8
  <2>2. \A s \in Active' : s \in Active /\ s # served[p][2] /\ subs[s] = "active"
    BY <2>1 DEF Active
  <2>3. ASSUME NEW s \in Active' PROVE \E i \in DOMAIN served : i >= p + 1 /\ served[i][2] = s
    <3>1. PICK i \in DOMAIN served : i >= place /\ served[i][2] = s
      BY <2>2, <2>3 DEF Ahead
    <3>2. subs[served[i][2]] # "gone"
      BY <2>2, <2>3, <3>1
    <3>3. ~(i < p)
      BY <1>8, <3>1, <3>2
    <3>4. i # p
      BY <2>2, <2>3, <3>1
    <3>5. i \in Nat /\ p \in Nat
      BY <1>7
    <3>6. i >= p + 1
      BY <3>3, <3>4, <3>5
    <3>7. QED
      BY <3>1, <3>6
  <2>4. \A s \in Active' : s \in Subs'
    BY <1>8, <2>3 DEF Subs
  <2>5. conn' # "up" => Active' = {}
    BY <1>8, <2>2 DEF Registers
  <2>6. \A w \in User : At(w, "rpcDrain")' =>
          user'[w].size = Len(served') /\ \A s \in Active' : Ahead(s, user[w].place)'
    <3>1. SUFFICES ASSUME NEW w \in User, user'[w].op = "rpcDrain"
                   PROVE  user'[w].size = Len(served') /\ \A s \in Active' : Ahead(s, user[w].place)'
      BY DEF At
    <3>2. user'[w] = g
      BY <1>2, <1>5, <3>1 DEF ServeOps
    <3>3. \A s \in Active' : \E i \in DOMAIN served : i >= g.place /\ served[i][2] = s
      BY <1>8, <2>3
    <3>4. QED
      BY <1>8, <3>2, <3>3 DEF Ahead
  <2>7. \A w \in User : user'[w].op \notin {"gather", "drain"}
    BY <1>2, <1>5, <1>8 DEF ServeOps
  <2>8. ~(\A w \in User : ~At(w, "rpcDrain")')
    BY <1>2, <1>8 DEF At
  <2>9. ~started' => served' = <<>>
    BY <1>8 DEF Registers
  <2>10. \A w \in User : ~At(w, "subscribe")'
    BY <1>5 DEF At
  <2>11. QED
    BY <1>8, <2>4, <2>5, <2>6, <2>7, <2>8, <2>9, <2>10 DEF Registers
<1>9. ASSUME \A q \in DOMAIN served : q >= place => subs[served[q][2]] = "gone",
             sub' = subs, served' = <<>>, UNCHANGED aborted, TasksDone(g)
      PROVE  Registers' /\ aborted' = aborted
  <2>1. \A s \in Active' : s \in Active /\ subs[s] = "active"
    BY <1>9 DEF Active
  <2>2. Active' = {}
    <3>1. SUFFICES ASSUME NEW s \in Active' PROVE FALSE
      OBVIOUS
    <3>2. PICK i \in DOMAIN served : i >= place /\ served[i][2] = s
      BY <2>1, <3>1 DEF Ahead
    <3>3. subs[s] = "gone"
      BY <1>9, <3>2
    <3>4. QED
      BY <2>1, <3>1, <3>3
  <2>3. g.op # "rpcDrain"
    BY <1>9, IdleIs DEF TasksDone, ClientDrains
  <2>4. \A w \in User : ~At(w, "rpcDrain")' /\ ~At(w, "subscribe")'
    BY <1>2, <1>5, <2>3 DEF At, ServeOps
  <2>5. Subs' = {}
    <3>1. DOMAIN served' = {}
      BY <1>9
    <3>2. QED
      BY <3>1 DEF Subs
  <2>6. QED
    BY <1>9, <2>2, <2>4, <2>5 DEF Registers
<1>10. QED
  BY <1>8, <1>9 DEF RpcDrains

\* Nothing happens to the RPC subscriptions, or the connection, and no task begins
\* or ends what has to do with them.
LEMMA StillRegisters ==
  ASSUME Registers, UNCHANGED <<served, sub, conn, started>>,
         \A w \in User : \/ user'[w] = user[w]
                         \/ /\ user'[w].op \notin {"subscribe", "rpcDrain", "gather", "drain"}
                            /\ user[w].op \notin {"subscribe", "rpcDrain", "gather", "drain"}
  PROVE  Registers'
<1> DEFINE Ops == {"subscribe", "rpcDrain", "gather", "drain"}
<1>1. Active' = Active /\ Subs' = Subs
  BY DEF Active, Subs
<1>2. \A w \in User : user'[w].op \in Ops => user'[w] = user[w]
  OBVIOUS
<1>3. \A w \in User : user[w].op \in Ops => user'[w] = user[w]
  OBVIOUS
<1>4. \A s \in Active' : s \in Subs' \/ \E u \in User : At(u, "subscribe")' /\ user'[u].id = s
  BY <1>1, <1>3 DEF Registers, At
<1>5. \A u \in User : At(u, "subscribe")' =>
        Registered(user[u].arg)' = {} /\ (conn' = "up" => user'[u].id \in Active')
  BY <1>1, <1>2 DEF Registers, Registered, At
<1>6. \A u \in User : At(u, "rpcDrain")' =>
        user'[u].size = Len(served') /\ \A s \in Active' : Ahead(s, user[u].place)'
  BY <1>1, <1>2 DEF Registers, Ahead, At
<1>7. \A u \in User : user'[u].op \in {"gather", "drain"} => served' = <<>>
  BY <1>2 DEF Registers
<1>8. conn' = "up" /\ (\A u \in User : ~At(u, "rpcDrain")') => Subs' \subseteq Active'
  BY <1>1, <1>3 DEF Registers, At
<1>9. ~started' => served' = <<>> /\ \A u \in User : ~At(u, "subscribe")'
  BY <1>2 DEF Registers, At
<1>10. QED
  BY <1>1, <1>4, <1>5, <1>6, <1>7, <1>8, <1>9 DEF Registers

LEMMA ConsumersStopRegisters ==
  ASSUME OnlyOne({"serve", "disconnect"}), Typed, Registers,
         NEW u \in User, "disconnect" \in Calls[u], NEW g \in Frame, user' = [user EXCEPT ![u] = g],
         conn # "draining", user[u].op \in {"idle", "consumers"},
         NEW rest, NEW cons, ConsumersStop(rest, cons, g)
  PROVE  Registers' /\ aborted' = aborted
<1>1. Types /\ Frames
  BY DEF Typed
<1>2. \A w \in User : user'[w] = IF w = u THEN g ELSE user[w]
  BY <1>1, Moved
<1>3. CASE g.op = "consumers" /\ UNCHANGED <<served, sub, conn, started, aborted>>
  <2>1. \A w \in User : \/ user'[w] = user[w]
                        \/ /\ user'[w].op \notin {"subscribe", "rpcDrain", "gather", "drain"}
                           /\ user[w].op \notin {"subscribe", "rpcDrain", "gather", "drain"}
    BY <1>2, <1>3
  <2>2. QED
    BY <1>3, <2>1, StillRegisters
<1>4. CASE RpcDrains(1, Len(served), sub, g)
  <2>1. \A w \in User : user[w].op # "subscribe"
    <3>1. Calls[u] \cap {"serve", "disconnect"} # {}
      OBVIOUS
    <3>2. \A w \in User \ {u} : user[w].op \notin ServeOps
      BY <1>1, <3>1, Single
    <3>3. QED
      BY <3>2 DEF ServeOps
  <2>2. \A s \in Active : Ahead(s, 1)
    <3>1. SUFFICES ASSUME NEW s \in Active PROVE Ahead(s, 1)
      OBVIOUS
    <3>2. s \in Subs
      BY <2>1 DEF Registers, At
    <3>3. PICK i \in DOMAIN served : served[i][2] = s
      BY <3>2 DEF Subs
    <3>4. i >= 1
      BY <1>1, ServedIs
    <3>5. QED
      BY <3>3, <3>4 DEF Ahead
  <2>3. sub \in [Sub -> SubStates] /\ 1 \in Nat /\ 1 >= 1 /\ \A s \in Sub : sub[s] = "active" => sub[s] = "active"
    BY <1>1 DEF Types
  <2>4. QED
    BY <1>4, <2>2, <2>3, RpcDrainsRegisters
<1>5. QED
  BY <1>3, <1>4 DEF ConsumersStop

LEMMA AppendSubs ==
  ASSUME Types, NEW m \in Method, NEW s \in Sub, served' = Append(served, <<m, s>>)
  PROVE  Subs' = Subs \cup {s}
<1> DEFINE n == Len(served)
<1>1. served \in Seq(Method \X Sub) /\ n \in Nat /\ DOMAIN served = 1 .. n
  BY DEF Types
<1>2. <<m, s>> \in Method \X Sub /\ <<m, s>>[2] = s
  OBVIOUS
<1>3. /\ DOMAIN served' = 1 .. n + 1 /\ served'[n + 1] = <<m, s>>
      /\ \A i \in 1 .. n : served'[i] = served[i]
  BY <1>1, <1>2, AppendProperties
<1> HIDE DEF n
<1>4. \A i \in 1 .. n + 1 : i \in 1 .. n \/ i = n + 1
  BY <1>1
<1>5. n + 1 \in 1 .. n + 1 /\ \A i \in 1 .. n : i \in 1 .. n + 1
  BY <1>1
<1>6. Subs' \subseteq Subs \cup {s}
  BY <1>1, <1>2, <1>3, <1>4 DEF Subs
<1>7. Subs \cup {s} \subseteq Subs'
  BY <1>1, <1>2, <1>3, <1>5 DEF Subs
<1>8. QED
  BY <1>6, <1>7

LEMMA RegistersStep ==
  ASSUME OnlyOne({"serve", "disconnect"})
  PROVE  Typed /\ Connection /\ Registers /\ [Next]_vars => Registers' /\ aborted' = aborted
<1>1. SUFFICES ASSUME Typed, Connection, Registers, [Next]_vars PROVE Registers' /\ aborted' = aborted
  OBVIOUS
<1>2. Types /\ Frames /\ OnlyOne({"disconnect"})
  BY <1>1, OnlyOneOf DEF Typed
<1> DEFINE Ops == {"subscribe", "rpcDrain", "gather", "drain"}
           Goal == Registers' /\ aborted' = aborted
\* A step of a task that is not at the RPC subscriptions.
<1>3. ASSUME NEW u \in User, NEW g \in Frame, user' = [user EXCEPT ![u] = g],
             user[u].op \notin Ops, g.op \notin Ops, UNCHANGED <<served, sub, conn, started, aborted>>
      PROVE  Goal
  <2>1. \A w \in User : user'[w] = IF w = u THEN g ELSE user[w]
    BY <1>2, <1>3, Moved
  <2>2. \A w \in User : user'[w] = user[w] \/ (user'[w].op \notin Ops /\ user[w].op \notin Ops)
    BY <1>3, <2>1
  <2>3. QED
    BY <1>1, <1>3, <2>2, StillRegisters
<1>4. ASSUME user' = user, UNCHANGED <<served, sub, conn, started, aborted>> PROVE Goal
  BY <1>1, <1>4, StillRegisters
<1>5. ASSUME NEW u \in User, Connect(u) PROVE Goal
  <2>1. /\ conn # "up" /\ ~started /\ conn' = "up" /\ started'
        /\ UNCHANGED <<conVars, rpcVars, user, faults, closes, aborted>>
    BY <1>5 DEF Connect
  <2>2. Active = {} /\ served = <<>> /\ \A w \in User : ~At(w, "subscribe")
    BY <1>1, <2>1 DEF Registers
  <2>3. Active' = {} /\ Subs' = {}
    BY <1>2, <2>1, <2>2, ServedIs DEF Active, Subs, rpcVars
  <2>4. QED
    BY <1>1, <2>1, <2>2, <2>3 DEF Registers, At, rpcVars
<1>6. CASE CloseConnection
  <2>1. /\ conn' = "closed" /\ UNCHANGED <<connects, started, conVars, served, of, user, faults, aborted>>
        /\ \A s \in Sub : sub'[s] # "active"
    BY <1>6 DEF CloseConnection
  <2>2. Active' = {}
    BY <2>1 DEF Active
  <2>3. \A w \in User : At(w, "subscribe")' => Registered(user[w].arg)' = {}
    BY <1>1, <2>1 DEF Registers, Registered, At
  <2>4. QED
    BY <1>1, <2>1, <2>2, <2>3 DEF Registers, At
<1>7. ASSUME NEW u \in User, NEW r \in Req \cup {0}, Disconnect(u, r) PROVE Goal
  <2>1. PICK g \in Frame : /\ user' = [user EXCEPT ![u] = g]
                           /\ ConsumersStop({x \in Subject : consumers[x] # 0}, con, g)
    BY <1>2, <1>7, DisconnectDoes
  <2>2. user[u].op = "idle" /\ "disconnect" \in Calls[u]
    BY <1>2, <1>7, DisconnectDoes
  <2>3. conn # "draining"
    BY <1>1, <1>2, <2>2, FindsUp DEF At
  <2>4. QED
    BY <1>1, <2>1, <2>2, <2>3, ConsumersStopRegisters
<1>8. ASSUME NEW u \in User, DisconnectStopped(u) PROVE Goal
  <2>1. PICK g \in Frame :
          /\ user' = [user EXCEPT ![u] = g]
          /\ ConsumersStop(user[u].rest, [con EXCEPT ![user[u].id] = "stopped"], g)
    BY <1>2, <1>8, DisconnectStoppedDoes
  <2>2. user[u].op = "consumers" /\ "disconnect" \in Calls[u]
    BY <1>2, <1>8, DisconnectStoppedDoes
  <2>3. conn # "draining"
    BY <1>1, <1>2, <2>2, FindsUp DEF At
  <2>4. QED
    BY <1>1, <2>1, <2>2, <2>3, ConsumersStopRegisters
<1>9. ASSUME NEW u \in User, Drained(u) PROVE Goal
  <2> DEFINE place == user[u].place
             id == user[u].id
  <2>1. /\ user[u].op = "rpcDrain" /\ "disconnect" \in Calls[u]
        /\ place \in Nat /\ place >= 1 /\ id \in Sub
    BY <1>2, <1>9, DrainedDoes
  <2>2. PICK subs \in [Sub -> SubStates], g \in Frame :
          /\ user' = [user EXCEPT ![u] = g] /\ RpcDrains(place, user[u].size, subs, g)
          /\ subs = sub \/ subs = [sub EXCEPT ![id] = "gone"]
    BY <1>2, <1>9, DrainedDoes
  <2>3. conn # "draining" /\ user[u].size = Len(served) /\ \A s \in Active : Ahead(s, place)
    BY <1>1, <1>2, <2>1, FindsUp DEF Registers, At
  <2>4. \A s \in Sub : subs[s] = "active" => sub[s] = "active"
    BY <1>2, <2>1, <2>2 DEF Types
  <2> HIDE DEF place, id
  <2>5. RpcDrains(place, Len(served), subs, g)
    BY <2>2, <2>3
  <2>6. QED
    BY <1>1, <2>1, <2>2, <2>3, <2>4, <2>5, RpcDrainsRegisters
<1>10. ASSUME NEW u \in User, Gathered(u) PROVE Goal
  <2>1. /\ user[u].op = "gather" /\ "disconnect" \in Calls[u]
        /\ UNCHANGED <<consumers, con, served, sub, aborted>>
    BY <1>2, <1>10, GatheredDoes
  <2>2. PICK g \in Frame : user' = [user EXCEPT ![u] = g] /\ ClientDrains(g)
    BY <1>2, <1>10, GatheredDoes
  <2>3. conn # "draining"
    BY <1>1, <1>2, <2>1, FindsUp DEF At
  <2>4. started' = started /\ g.op \in {"idle", "drain"}
    BY <2>2, <2>3, IdleIs DEF ClientDrains
  <2>5. \A w \in User : user'[w] = IF w = u THEN g ELSE user[w]
    BY <1>2, <2>2, Moved
  <2>6. \A w \in User \ {u} : user[w].op \notin ServeOps
    <3>1. Calls[u] \cap {"serve", "disconnect"} # {}
      BY <2>1
    <3>2. QED
      BY <1>2, <3>1, Single
  <2>7. \A w \in User : user[w].op # "subscribe" /\ user'[w].op \notin {"subscribe", "rpcDrain"}
    BY <2>1, <2>4, <2>5, <2>6 DEF ServeOps
  <2>8. served = <<>> /\ Subs = {}
    BY <1>1, <1>2, <2>1, ServedIs DEF Registers
  <2>9. Active = {}
    BY <1>1, <2>7, <2>8 DEF Registers, At
  <2>10. Active' = {} /\ Subs' = {} /\ served' = <<>>
    BY <2>1, <2>8, <2>9 DEF Active, Subs
  <2>11. QED
    BY <2>1, <2>7, <2>10 DEF Registers, At
<1>11. ASSUME NEW u \in User, Disconnected(u) PROVE Goal
  <2>1. /\ user[u].op = "drain" /\ user' = [user EXCEPT ![u] = Idle] /\ conn' = "closed"
        /\ served' = served /\ aborted' = aborted /\ \A s \in Sub : sub'[s] # "active"
    BY <1>11 DEF Disconnected, At, Return, Go
  <2>2. served = <<>>
    BY <1>1, <2>1 DEF Registers
  <2>3. "disconnect" \in Calls[u]
    BY <1>2, <2>1 DEF Frames, Fine
  <2>4. \A w \in User \ {u} : user[w].op \notin ServeOps
    <3>1. Calls[u] \cap {"serve", "disconnect"} # {}
      BY <2>3
    <3>2. QED
      BY <1>2, <3>1, Single
  <2>5. \A w \in User : user'[w].op \notin {"subscribe", "rpcDrain", "gather", "drain"}
    <3>1. \A w \in User : user'[w] = IF w = u THEN Idle ELSE user[w]
      BY <1>2, <2>1, IdleIs, Moved
    <3>2. QED
      BY <2>4, <3>1, IdleIs DEF ServeOps
  <2>6. Active' = {}
    BY <2>1 DEF Active
  <2>7. QED
    BY <2>1, <2>2, <2>5, <2>6 DEF Registers, At
<1>12. ASSUME NEW u \in User, NEW m \in Method, Serve(u, m) PROVE Goal
  <2>1. /\ user[u].op = "idle" /\ "serve" \in Calls[u] /\ started /\ Registered(m) = {} /\ conn = "up"
        /\ UNCHANGED <<connVars, conVars, req, of, faults, aborted>>
    BY <1>2, <1>12, ServeDoes
  <2>2. PICK s \in Sub :
          /\ sub[s] = "none" /\ sub' = [sub EXCEPT ![s] = "active"]
          /\ \/ served' = served /\ user' = [user EXCEPT ![u] = Subscribing(m, s)]
             \/ served' = Append(served, <<m, s>>) /\ user' = [user EXCEPT ![u] = Flushing]
    BY <1>2, <1>12, ServeDoes
  <2>3. \A w \in User : user[w].op \notin ServeOps
    <3>1. Calls[u] \cap {"serve", "disconnect"} # {}
      BY <2>1
    <3>2. \A w \in User \ {u} : user[w].op \notin ServeOps
      BY <1>2, <3>1, Single
    <3>3. QED
      BY <2>1, <3>2 DEF ServeOps
  <2>4. Active' = Active \cup {s}
    BY <1>2, <2>2 DEF Active, Types
  <2>5. Active \subseteq Subs /\ Subs \subseteq Active
    BY <1>1, <2>1, <2>3 DEF Registers, At, ServeOps
  <2>6. conn' = "up" /\ started'
    BY <2>1 DEF connVars
  <2>7. CASE served' = served /\ user' = [user EXCEPT ![u] = Subscribing(m, s)]
    <3>1. /\ Subscribing(m, s) \in Frame /\ Subscribing(m, s).op = "subscribe"
          /\ Subscribing(m, s).arg = m /\ Subscribing(m, s).id = s
      BY FramesAre
    <3>2. \A w \in User : user'[w] = IF w = u THEN Subscribing(m, s) ELSE user[w]
      BY <1>2, <2>7, <3>1, Moved
    <3>3. \A w \in User : user'[w].op \notin {"rpcDrain", "gather", "drain"}
      BY <2>3, <3>1, <3>2 DEF ServeOps
    <3>4. \A w \in User : At(w, "subscribe")' => w = u
      BY <2>3, <3>2 DEF At, ServeOps
    <3>5. Subs' = Subs /\ Registered(m)' = {}
      BY <2>1, <2>7 DEF Subs, Registered
    <3>6. At(u, "subscribe")' /\ user'[u].id = s /\ user'[u].arg = m
      BY <3>1, <3>2 DEF At
    <3>7. \A w \in User : At(w, "subscribe")' =>
            Registered(user[w].arg)' = {} /\ (conn' = "up" => user'[w].id \in Active')
      <4>1. SUFFICES ASSUME NEW w \in User, At(w, "subscribe")'
                     PROVE  Registered(user[w].arg)' = {} /\ user'[w].id \in Active'
        OBVIOUS
      <4>2. w = u
        BY <3>4, <4>1
      <4>3. Registered(user[u].arg)' = {}
        BY <3>5, <3>6 DEF Registered
      <4>4. QED
        BY <2>4, <3>6, <4>2, <4>3
    <3>8. QED
      BY <2>1, <2>4, <2>5, <2>6, <3>3, <3>5, <3>6, <3>7 DEF Registers, At
  <2>8. CASE served' = Append(served, <<m, s>>) /\ user' = [user EXCEPT ![u] = Flushing]
    <3>1. \A w \in User : user'[w].op \notin ServeOps
      BY <1>2, <2>3, <2>8, FramesAre, Moved DEF ServeOps
    <3>2. Subs' = Subs \cup {s}
      BY <1>2, <2>8, AppendSubs
    <3>3. QED
      BY <2>1, <2>4, <2>5, <2>6, <3>1, <3>2 DEF Registers, At, ServeOps
  <2>9. QED
    BY <2>2, <2>7, <2>8
<1>13. ASSUME NEW u \in User, SubscribeReturns(u) PROVE Goal
  <2> DEFINE m == user[u].arg
             s == user[u].id
  <2>1. /\ user[u].op = "subscribe" /\ m \in Method /\ s \in Sub /\ "serve" \in Calls[u]
        /\ served' = Put(m, s) /\ user' = [user EXCEPT ![u] = Flushing]
        /\ UNCHANGED <<connVars, conVars, sub, req, of, faults, aborted>>
    BY <1>2, <1>13 DEF SubscribeReturns, Frames, Fine, At, Go, Flushing
  <2>2. Registered(m) = {} /\ (conn = "up" => s \in Active) /\ started
    BY <1>1, <1>2, <2>1 DEF Registers, At, Types
  <2>3. \A w \in User \ {u} : user[w].op \notin ServeOps
    <3>1. Calls[u] \cap {"serve", "disconnect"} # {}
      BY <2>1
    <3>2. QED
      BY <1>2, <3>1, Single
  <2> HIDE DEF m
  <2>4. \A w \in User : user'[w].op \notin ServeOps
    <3>1. Flushing \in Frame /\ Flushing.op = "flush"
      BY FramesAre
    <3>2. \A w \in User : user'[w] = IF w = u THEN Flushing ELSE user[w]
      BY <1>2, <2>1, <3>1, Moved
    <3>3. QED
      BY <2>3, <3>1, <3>2 DEF ServeOps
  <2>5. served' = Append(served, <<m, s>>)
    BY <1>2, <2>1, <2>2, PutIs
  <2>6. Subs' = Subs \cup {s}
    BY <1>2, <2>1, <2>5, AppendSubs
  <2>7. Active' = Active /\ conn' = conn /\ started' = started
    BY <2>1 DEF Active, connVars
  <2>8. Active \subseteq Subs \cup {s}
    BY <1>1, <2>3 DEF Registers, At, ServeOps
  <2>9. conn = "up" => Subs \subseteq Active
    BY <1>1, <2>1, <2>3 DEF Registers, At, ServeOps
  <2> HIDE DEF s
  <2>10. QED
    BY <1>1, <2>1, <2>2, <2>4, <2>6, <2>7, <2>8, <2>9 DEF Registers, At, ServeOps
<1>14. ASSUME NEW u \in User, Flushed(u) PROVE Goal
  BY <1>3, <1>14, IdleIs DEF Flushed, At, Return, Go, connVars, rpcVars
<1>15. ASSUME NEW u \in User, NEW x \in Subject, Consume(u, x) PROVE Goal
  <2>1. /\ user[u].op = "idle" /\ user' = [user EXCEPT ![u] = ConsumingOf(x)]
        /\ UNCHANGED <<connVars, conVars, rpcVars, faults, aborted>>
    BY <1>15 DEF Consume, MayCall, At, Go, ConsumingOf
  <2>2. ConsumingOf(x) \in Frame /\ ConsumingOf(x).op = "consume"
    BY FramesAre
  <2>3. QED
    BY <1>3, <2>1, <2>2 DEF connVars, rpcVars
<1>16. ASSUME NEW u \in User, Consuming(u) PROVE Goal
  <2>1. /\ user[u].op = "consume" /\ user' = [user EXCEPT ![u] = Idle]
        /\ UNCHANGED <<connVars, busy, rpcVars, aborted>>
    BY <1>2, <1>16, ConsumingDoes
  <2>2. QED
    BY <1>3, <2>1, IdleIs DEF connVars, rpcVars
<1>17. ASSUME NEW u \in User, NEW x \in Subject, StopConsumer(u, x) PROVE Goal
  <2>1. /\ user[u].op = "idle" /\ user' = [user EXCEPT ![u] = Stopping(consumers[x])]
        /\ consumers[x] \in Con /\ UNCHANGED <<connVars, busy, rpcVars, faults, aborted>>
    BY <1>2, <1>17, StopConsumerDoes
  <2>2. Stopping(consumers[x]) \in Frame /\ Stopping(consumers[x]).op = "stop"
    BY <2>1, FramesAre
  <2>3. QED
    BY <1>3, <2>1, <2>2 DEF connVars, rpcVars
<1>18. ASSUME NEW u \in User, StopReturns(u) PROVE Goal
  <2>1. /\ user[u].op = "stop" /\ user' = [user EXCEPT ![u] = Idle] /\ UNCHANGED <<connVars, rpcVars, aborted>>
    BY <1>18 DEF StopReturns, At, Return, Go
  <2>2. QED
    BY <1>3, <2>1, IdleIs DEF connVars, rpcVars
<1>19. ASSUME NEW r \in Req, OnRequest(r) \/ Reply(r) PROVE Goal
  BY <1>4, <1>19 DEF OnRequest, Reply, connVars
<1>20. ASSUME NEW s \in Sub, Request(s) PROVE Goal
  BY <1>4, <1>20 DEF Request, connVars
<1>21. ASSUME NEW k \in Con, Takes(k) \/ Finishes(k) PROVE Goal
  BY <1>4, <1>21 DEF Takes, Finishes, connVars, rpcVars
<1>22. CASE UNCHANGED vars
  BY <1>4, <1>22 DEF vars
<1>23. QED
  BY <1>1, <1>5, <1>6, <1>7, <1>8, <1>9, <1>10, <1>11, <1>12, <1>13, <1>14, <1>15, <1>16, <1>17, <1>18,
     <1>19, <1>20, <1>21, <1>22
  DEF Next, Call, ServeStep, StopStep, DisconnectStep, RpcStep

-----------------------------------------------------------------------------
(* The RPC calls, when only one task serves and disconnects and no drain of a *)
(* subscription raises.                                                    *)

\* What has not been answered disconnect() still waits for.
Answering ==
  closes = 0 =>
    /\ \A r \in Req : req[r] = "pending" =>
         of[r] \in Active \/ \E u \in User : At(u, "rpcDrain") /\ user[u].id = of[r]
    /\ \A r \in Req : req[r] # "lost" /\ (conn = "closed" => req[r] \notin {"pending", "running"})
    /\ \A u \in User : At(u, "gather") => Running \subseteq user[u].tasks
    /\ \A u \in User : At(u, "drain") => Running = {}

\* Nothing is asked or answered, and disconnect() goes no further.
LEMMA StillAnswers ==
  ASSUME Answering, UNCHANGED <<req, of, closes>>, Active \subseteq Active', conn' = "closed" => conn = "closed",
         \A w \in User : \/ user'[w] = user[w]
                         \/ /\ user'[w].op \notin {"rpcDrain", "gather", "drain"}
                            /\ user[w].op \notin {"rpcDrain", "gather", "drain"}
  PROVE  Answering'
<1>1. SUFFICES ASSUME closes = 0 PROVE Answering'
  BY DEF Answering
<1>2. Running' = Running
  BY DEF Running
<1>3. \A w \in User : user'[w].op \in {"rpcDrain", "gather", "drain"} => user'[w] = user[w]
  OBVIOUS
<1>4. \A w \in User : user[w].op \in {"rpcDrain", "gather", "drain"} => user'[w] = user[w]
  OBVIOUS
<1>5. \A r \in Req : req'[r] = "pending" =>
        of'[r] \in Active' \/ \E w \in User : At(w, "rpcDrain")' /\ user'[w].id = of'[r]
  BY <1>1, <1>4 DEF Answering, At
<1>6. \A r \in Req : req'[r] # "lost" /\ (conn' = "closed" => req'[r] \notin {"pending", "running"})
  BY <1>1 DEF Answering
<1>7. \A w \in User : At(w, "gather")' => Running' \subseteq user'[w].tasks
  BY <1>1, <1>2, <1>3 DEF Answering, At
<1>8. \A w \in User : At(w, "drain")' => Running' = {}
  BY <1>1, <1>2, <1>3 DEF Answering, At
<1>9. QED
  BY <1>5, <1>6, <1>7, <1>8 DEF Answering

\* No request is left that its subscription received once all are drained.
LEMMA NonePending ==
  ASSUME OnlyOne({"serve", "disconnect"}), Typed, Registers, Answering, closes = 0,
         NEW u \in User, user[u].op \in {"gather", "drain"}
  PROVE  \A r \in Req : req[r] # "pending"
<1>1. Types /\ Frames
  BY DEF Typed
<1>2. Calls[u] \cap {"serve", "disconnect"} # {}
  BY <1>1 DEF Frames, Fine
<1>3. \A w \in User : user[w].op \notin {"subscribe", "rpcDrain"}
  BY <1>1, <1>2, Single DEF ServeOps
<1>4. Subs = {}
  BY <1>1, ServedIs DEF Registers
<1>5. Active = {}
  BY <1>3, <1>4 DEF Registers, At
<1>6. QED
  BY <1>3, <1>5 DEF Answering, At

\* Task u goes on with disconnect(); the requests received came in on subscriptions
\* that are still active.
LEMMA RpcDrainsAnswers ==
  ASSUME OnlyOne({"serve", "disconnect"}), Typed, closes = 0, closes' = closes, conn = "up", Answering,
         NEW u \in User, "disconnect" \in Calls[u], NEW g \in Frame, user' = [user EXCEPT ![u] = g],
         UNCHANGED <<req, of>>,
         NEW place \in Nat, place >= 1, \A s \in Active : Ahead(s, place),
         NEW size, NEW subs \in [Sub -> SubStates],
         \A r \in Req : req[r] = "pending" => of[r] \in Active /\ subs[of[r]] = "active",
         RpcDrains(place, size, subs, g), Len(served) = size
  PROVE  Answering'
<1>1. Types /\ Frames
  BY DEF Typed
<1>2. \A w \in User : user'[w] = IF w = u THEN g ELSE user[w]
  BY <1>1, Moved
<1>3. \A w \in User \ {u} : user'[w].op \notin ServeOps
  <2>1. Calls[u] \cap {"serve", "disconnect"} # {}
    OBVIOUS
  <2>2. \A w \in User \ {u} : user[w].op \notin ServeOps
    BY <1>1, <2>1, Single
  <2>3. QED
    BY <1>2, <2>2
<1>4. user'[u] = g /\ Running' = Running
  BY <1>2 DEF Running
<1>5. \A r \in Req : req'[r] # "lost"
  BY DEF Answering
<1>6. \A i \in DOMAIN served : served[i][2] \in Sub
  BY <1>1, ServedIs
<1>7. ASSUME NEW p \in DOMAIN served, sub' = [subs EXCEPT ![served[p][2]] = "draining"],
             g.op = "rpcDrain", g.id = served[p][2], conn' = conn
      PROVE  Answering'
  <2>1. \A s \in Sub : sub'[s] = IF s = g.id THEN "draining" ELSE subs[s]
    BY <1>6, <1>7
  <2>2. \A r \in Req : req'[r] = "pending" =>
          of'[r] \in Active' \/ (At(u, "rpcDrain")' /\ user'[u].id = of'[r])
    <3>1. SUFFICES ASSUME NEW r \in Req, req'[r] = "pending", of'[r] # g.id PROVE of'[r] \in Active'
      BY <1>4, <1>7 DEF At
    <3>2. of[r] \in Active /\ subs[of[r]] = "active" /\ of'[r] = of[r]
      BY <3>1
    <3>3. of[r] \in Sub /\ sub'[of[r]] = "active"
      BY <2>1, <3>1, <3>2 DEF Active
    <3>4. QED
      BY <3>2, <3>3 DEF Active
  <2>3. \A w \in User : ~At(w, "gather")' /\ ~At(w, "drain")'
    BY <1>3, <1>4, <1>7 DEF At, ServeOps
  <2>4. QED
    BY <1>5, <1>7, <2>2, <2>3 DEF Answering
<1>8. ASSUME \A q \in DOMAIN served : q >= place => subs[served[q][2]] = "gone", TasksDone(g)
      PROVE  Answering'
  <2>1. \A r \in Req : req'[r] # "pending"
    <3>1. SUFFICES ASSUME NEW r \in Req, req[r] = "pending" PROVE FALSE
      OBVIOUS
    <3>2. of[r] \in Active /\ subs[of[r]] = "active"
      BY <3>1
    <3>3. PICK i \in DOMAIN served : i >= place /\ served[i][2] = of[r]
      BY <3>2 DEF Ahead
    <3>4. subs[of[r]] = "gone"
      BY <1>8, <3>3
    <3>5. QED
      BY <3>2, <3>4
  <2>2. conn' # "closed"
    BY <1>8 DEF TasksDone, ClientDrains
  <2>3. /\ g.op = "gather" => g.tasks = Running
        /\ g.op = "drain" => Running = {}
    BY <1>8, IdleIs DEF TasksDone, ClientDrains
  <2>4. \A w \in User : /\ At(w, "gather")' => Running' \subseteq user'[w].tasks
                        /\ At(w, "drain")' => Running' = {}
    BY <1>3, <1>4, <2>3 DEF At, ServeOps
  <2>5. QED
    BY <1>5, <2>1, <2>2, <2>4 DEF Answering
<1>9. QED
  BY <1>7, <1>8 DEF RpcDrains

LEMMA ConsumersStopAnswers ==
  ASSUME OnlyOne({"serve", "disconnect"}), Typed, Registers, closes = 0, closes' = closes, conn = "up", Answering,
         NEW u \in User, "disconnect" \in Calls[u], NEW g \in Frame, user' = [user EXCEPT ![u] = g],
         UNCHANGED <<req, of>>, user[u].op \in {"idle", "consumers"},
         NEW rest, NEW cons, ConsumersStop(rest, cons, g)
  PROVE  Answering'
<1>1. Types /\ Frames
  BY DEF Typed
<1>2. \A w \in User : user'[w] = IF w = u THEN g ELSE user[w]
  BY <1>1, Moved
<1>3. CASE g.op = "consumers" /\ UNCHANGED <<sub, conn>>
  <2>1. \A w \in User : \/ user'[w] = user[w]
                        \/ /\ user'[w].op \notin {"rpcDrain", "gather", "drain"}
                           /\ user[w].op \notin {"rpcDrain", "gather", "drain"}
    BY <1>2, <1>3
  <2>2. Active' = Active
    BY <1>3 DEF Active
  <2>3. QED
    BY <1>3, <2>1, <2>2, StillAnswers
<1>4. CASE RpcDrains(1, Len(served), sub, g)
  <2>1. \A w \in User : user[w].op \notin {"subscribe", "rpcDrain"}
    <3>1. Calls[u] \cap {"serve", "disconnect"} # {}
      OBVIOUS
    <3>2. \A w \in User \ {u} : user[w].op \notin ServeOps
      BY <1>1, <3>1, Single
    <3>3. QED
      BY <3>2 DEF ServeOps
  <2>2. \A s \in Active : Ahead(s, 1)
    <3>1. SUFFICES ASSUME NEW s \in Active PROVE Ahead(s, 1)
      OBVIOUS
    <3>2. s \in Subs
      BY <2>1 DEF Registers, At
    <3>3. PICK i \in DOMAIN served : served[i][2] = s
      BY <3>2 DEF Subs
    <3>4. i >= 1
      BY <1>1, ServedIs
    <3>5. QED
      BY <3>3, <3>4 DEF Ahead
  <2>3. \A r \in Req : req[r] = "pending" => of[r] \in Active /\ sub[of[r]] = "active"
    BY <2>1 DEF Answering, At, Active
  <2>4. sub \in [Sub -> SubStates] /\ 1 \in Nat /\ 1 >= 1
    BY <1>1 DEF Types
  <2> DEFINE n == Len(served)
  <2>5. RpcDrains(1, n, sub, g) /\ Len(served) = n
    BY <1>4
  <2> HIDE DEF n
  <2>6. QED
    BY <2>2, <2>3, <2>4, <2>5, RpcDrainsAnswers
<1>5. QED
  BY <1>3, <1>4 DEF ConsumersStop

LEMMA AnsweringStep ==
  ASSUME OnlyOne({"serve", "disconnect"}), ~FlushFails
  PROVE  Typed /\ Connection /\ Registers /\ Answering /\ [Next]_vars => Answering'
<1>1. SUFFICES ASSUME Typed, Connection, Registers, Answering, [Next]_vars PROVE Answering'
  OBVIOUS
<1>2. Types /\ Frames /\ OnlyOne({"disconnect"})
  BY <1>1, OnlyOneOf DEF Typed
<1> DEFINE Ops == {"rpcDrain", "gather", "drain"}
\* A step that answers nothing, of a task that is not in the middle of disconnect().
<1>3. ASSUME NEW u \in User, NEW g \in Frame, user' = [user EXCEPT ![u] = g],
             user[u].op \notin Ops, g.op \notin Ops, UNCHANGED <<req, of, connVars>>, Active \subseteq Active'
      PROVE  Answering'
  <2>1. \A w \in User : user'[w] = IF w = u THEN g ELSE user[w]
    BY <1>2, <1>3, Moved
  <2>2. \A w \in User : user'[w] = user[w] \/ (user'[w].op \notin Ops /\ user[w].op \notin Ops)
    BY <1>3, <2>1
  <2>3. QED
    BY <1>1, <1>3, <2>2, StillAnswers DEF connVars
<1>4. ASSUME UNCHANGED <<user, req, of, closes, sub>>, conn' # "closed" \/ conn' = conn PROVE Answering'
  BY <1>1, <1>4, StillAnswers DEF Active
<1>5. ASSUME NEW u \in User, Connect(u) PROVE Answering'
  BY <1>4, <1>5 DEF Connect, rpcVars
<1>6. CASE CloseConnection
  <2>1. closes' # 0
    BY <1>2, <1>6, Numbers DEF CloseConnection, Types
  <2>2. QED
    BY <2>1 DEF Answering
<1>7. ASSUME NEW u \in User, NEW r \in Req \cup {0}, Disconnect(u, r) PROVE Answering'
  <2>1. PICK g \in Frame : /\ user' = [user EXCEPT ![u] = g]
                           /\ ConsumersStop({x \in Subject : consumers[x] # 0}, con, g)
    BY <1>2, <1>7, DisconnectDoes
  <2>2. user[u].op = "idle" /\ "disconnect" \in Calls[u] /\ conn # "closed" /\ started /\ Others
    BY <1>2, <1>7, DisconnectDoes
  <2>3. conn = "up"
    BY <1>1, <1>2, <2>2, FindsUp DEF At
  <2>4. closes' = closes /\ UNCHANGED <<req, of>>
    BY <2>2 DEF Others
  <2>5. CASE closes = 0
    BY <1>1, <2>1, <2>2, <2>3, <2>4, <2>5, ConsumersStopAnswers
  <2>6. CASE closes # 0
    BY <2>4, <2>6 DEF Answering
  <2>7. QED
    BY <2>5, <2>6
<1>8. ASSUME NEW u \in User, DisconnectStopped(u) PROVE Answering'
  <2>1. PICK g \in Frame :
          /\ user' = [user EXCEPT ![u] = g]
          /\ ConsumersStop(user[u].rest, [con EXCEPT ![user[u].id] = "stopped"], g)
    BY <1>2, <1>8, DisconnectStoppedDoes
  <2>2. user[u].op = "consumers" /\ "disconnect" \in Calls[u] /\ Others
    BY <1>2, <1>8, DisconnectStoppedDoes
  <2>3. closes = 0 => conn = "up"
    BY <1>1, <1>2, <2>2, FindsUp
  <2>4. closes' = closes /\ UNCHANGED <<req, of>>
    BY <2>2 DEF Others
  <2>5. CASE closes = 0
    BY <1>1, <2>1, <2>2, <2>3, <2>4, <2>5, ConsumersStopAnswers
  <2>6. CASE closes # 0
    BY <2>4, <2>6 DEF Answering
  <2>7. QED
    BY <2>5, <2>6
<1>9. ASSUME NEW u \in User, Drained(u) PROVE Answering'
  <2> DEFINE place == user[u].place
             id == user[u].id
             size == user[u].size
  <2>1. /\ user[u].op = "rpcDrain" /\ "disconnect" \in Calls[u] /\ Others
        /\ place \in Nat /\ place >= 1 /\ id \in Sub
    BY <1>2, <1>9, DrainedDoes
  <2>2. PICK subs \in [Sub -> SubStates], g \in Frame :
          /\ user' = [user EXCEPT ![u] = g] /\ RpcDrains(place, size, subs, g)
          /\ subs = [sub EXCEPT ![id] = "gone"]
          /\ \A r \in Req : of[r] = id => req[r] # "pending"
    BY <1>2, <1>9, DrainedDoes
  <2>3. closes = 0 => conn = "up"
    BY <1>1, <1>2, <2>1, FindsUp
  <2>4. size = Len(served) /\ \A s \in Active : Ahead(s, place)
    BY <1>1, <2>1 DEF Registers, At
  <2>5. closes' = closes /\ UNCHANGED <<req, of>>
    BY <2>1 DEF Others
  <2>6. \A w \in User \ {u} : user[w].op \notin ServeOps
    <3>1. Calls[u] \cap {"serve", "disconnect"} # {}
      BY <2>1
    <3>2. QED
      BY <1>2, <3>1, Single
  <2>7. ASSUME closes = 0, NEW r \in Req, req[r] = "pending"
        PROVE  of[r] \in Active /\ subs[of[r]] = "active"
    <3>1. of[r] # id
      BY <2>2, <2>7
    <3>2. of[r] \in Active
      BY <1>1, <2>6, <2>7, <3>1 DEF Answering, At, ServeOps
    <3>3. subs[of[r]] = sub[of[r]]
      BY <1>2, <2>2, <3>1, <3>2 DEF Active, Types
    <3>4. QED
      BY <3>2, <3>3 DEF Active
  <2> HIDE DEF place, id, size
  <2>8. CASE closes = 0
    BY <1>1, <2>1, <2>2, <2>3, <2>4, <2>5, <2>7, <2>8, RpcDrainsAnswers
  <2>9. CASE closes # 0
    BY <2>5, <2>9 DEF Answering
  <2>10. QED
    BY <2>8, <2>9
<1>10. ASSUME NEW u \in User, Gathered(u) PROVE Answering'
  <2>1. /\ user[u].op = "gather" /\ "disconnect" \in Calls[u] /\ user[u].tasks \cap Running = {}
        /\ UNCHANGED <<consumers, con, served, sub, aborted>> /\ Others
    BY <1>2, <1>10, GatheredDoes
  <2>2. PICK g \in Frame : user' = [user EXCEPT ![u] = g] /\ ClientDrains(g)
    BY <1>2, <1>10, GatheredDoes
  <2>3. closes' = closes /\ req' = req /\ of' = of /\ Running' = Running
    BY <2>1 DEF Others, Running
  <2>4. SUFFICES ASSUME closes = 0 PROVE Answering'
    BY <2>3 DEF Answering
  <2>5. Running = {}
    BY <1>1, <2>1, <2>4 DEF Answering, At
  <2>6. \A r \in Req : req[r] # "pending"
    BY <1>1, <2>1, <2>4, NonePending
  <2>7. \A r \in Req : req[r] # "lost" /\ req[r] # "running"
    BY <1>1, <2>4, <2>5 DEF Answering, Running
  <2>8. QED
    BY <2>3, <2>5, <2>6, <2>7 DEF Answering
<1>11. ASSUME NEW u \in User, Disconnected(u) PROVE Answering'
  <2>1. /\ user[u].op = "drain" /\ \A r \in Req : req[r] # "pending"
        /\ UNCHANGED <<closes, req, of>>
    BY <1>11 DEF Disconnected, At
  <2>2. SUFFICES ASSUME closes = 0 PROVE Answering'
    BY <2>1 DEF Answering
  <2>3. Running = {} /\ Running' = {}
    BY <1>1, <2>1, <2>2 DEF Answering, At, Running
  <2>4. \A r \in Req : req[r] # "lost" /\ req[r] # "running"
    BY <1>1, <2>2, <2>3 DEF Answering, Running
  <2>5. QED
    BY <2>1, <2>3, <2>4 DEF Answering
<1>12. ASSUME NEW u \in User, NEW m \in Method, Serve(u, m) PROVE Answering'
  <2>1. user[u].op = "idle" /\ UNCHANGED <<connVars, req, of>>
    BY <1>2, <1>12, ServeDoes
  <2>2. PICK s \in Sub : /\ sub' = [sub EXCEPT ![s] = "active"]
                         /\ \E g \in Frame : /\ user' = [user EXCEPT ![u] = g]
                                             /\ g.op \in {"subscribe", "flush"}
    BY <1>2, <1>12, ServeDoes, FramesAre
  <2>3. Active \subseteq Active'
    BY <1>2, <2>2 DEF Active, Types
  <2>4. QED
    BY <1>3, <2>1, <2>2, <2>3
<1>13. ASSUME NEW u \in User, SubscribeReturns(u) \/ Flushed(u) PROVE Answering'
  <2>1. PICK g \in Frame : user' = [user EXCEPT ![u] = g] /\ g.op \in {"idle", "flush"}
    BY <1>13, IdleIs, FramesAre DEF SubscribeReturns, Flushed, Return, Go, Flushing
  <2>2. user[u].op \in {"subscribe", "flush"} /\ UNCHANGED <<connVars, sub, req, of>>
    BY <1>13 DEF SubscribeReturns, Flushed, At, rpcVars
  <2>3. QED
    BY <1>3, <2>1, <2>2 DEF Active
<1>14. ASSUME NEW u \in User, NEW x \in Subject, Consume(u, x) PROVE Answering'
  <2>1. /\ user[u].op = "idle" /\ user' = [user EXCEPT ![u] = ConsumingOf(x)]
        /\ UNCHANGED <<connVars, rpcVars>>
    BY <1>14 DEF Consume, MayCall, At, Go, ConsumingOf
  <2>2. ConsumingOf(x) \in Frame /\ ConsumingOf(x).op = "consume"
    BY FramesAre
  <2>3. QED
    BY <1>3, <2>1, <2>2 DEF Active, rpcVars
<1>15. ASSUME NEW u \in User, Consuming(u) PROVE Answering'
  <2>1. user[u].op = "consume" /\ user' = [user EXCEPT ![u] = Idle] /\ UNCHANGED <<connVars, rpcVars>>
    BY <1>2, <1>15, ConsumingDoes
  <2>2. QED
    BY <1>3, <2>1, IdleIs DEF Active, rpcVars
<1>16. ASSUME NEW u \in User, NEW x \in Subject, StopConsumer(u, x) PROVE Answering'
  <2>1. /\ user[u].op = "idle" /\ user' = [user EXCEPT ![u] = Stopping(consumers[x])]
        /\ consumers[x] \in Con /\ UNCHANGED <<connVars, rpcVars>>
    BY <1>2, <1>16, StopConsumerDoes
  <2>2. Stopping(consumers[x]) \in Frame /\ Stopping(consumers[x]).op = "stop"
    BY <2>1, FramesAre
  <2>3. QED
    BY <1>3, <2>1, <2>2 DEF Active, rpcVars
<1>17. ASSUME NEW u \in User, StopReturns(u) PROVE Answering'
  <2>1. user[u].op = "stop" /\ user' = [user EXCEPT ![u] = Idle] /\ UNCHANGED <<connVars, rpcVars>>
    BY <1>17 DEF StopReturns, At, Return, Go
  <2>2. QED
    BY <1>3, <2>1, IdleIs DEF Active, rpcVars
<1>18. ASSUME NEW s \in Sub, Request(s) PROVE Answering'
  <2>1. /\ conn = "up" /\ sub[s] = "active"
        /\ UNCHANGED <<connVars, conVars, served, sub, user, faults, aborted>>
    BY <1>2, <1>18, RequestDoes
  <2>2. PICK r \in Req : /\ req[r] = "none"
                         /\ req' = [req EXCEPT ![r] = "pending"] /\ of' = [of EXCEPT ![r] = s]
    BY <1>2, <1>18, RequestDoes
  <2>3. /\ \A q \in Req : req'[q] = IF q = r THEN "pending" ELSE req[q]
        /\ \A q \in Req : of'[q] = IF q = r THEN s ELSE of[q]
    BY <1>2, <2>2 DEF Types
  <2>4. Running' = Running /\ Active' = Active /\ s \in Active
    BY <2>1, <2>2, <2>3 DEF Running, Active
  <2>5. SUFFICES ASSUME closes = 0 PROVE Answering'
    BY <2>1 DEF Answering, connVars
  <2>6. \A q \in Req : req'[q] = "pending" =>
          of'[q] \in Active' \/ \E w \in User : At(w, "rpcDrain")' /\ user'[w].id = of'[q]
    BY <1>1, <2>1, <2>3, <2>4, <2>5 DEF Answering, At
  <2>7. \A q \in Req : req'[q] # "lost"
    BY <1>1, <2>3, <2>5 DEF Answering
  <2>8. conn' = "up"
    BY <2>1 DEF connVars
  <2>9. QED
    BY <1>1, <2>1, <2>4, <2>5, <2>6, <2>7, <2>8 DEF Answering, At
<1>19. ASSUME NEW r \in Req, OnRequest(r) PROVE Answering'
  <2>1. /\ req[r] = "pending" /\ conn # "closed" /\ req' = [req EXCEPT ![r] = "running"]
        /\ UNCHANGED <<connVars, conVars, served, sub, of, user, faults, aborted>>
    BY <1>19 DEF OnRequest
  <2>2. \A q \in Req : req'[q] = IF q = r THEN "running" ELSE req[q]
    BY <1>2, <2>1 DEF Types
  <2>3. SUFFICES ASSUME closes = 0 PROVE Answering'
    BY <2>1 DEF Answering, connVars
  <2>4. \A w \in User : user[w].op \notin {"gather", "drain"}
    BY <1>1, <2>1, <2>3, NonePending
  <2>5. \A q \in Req : req'[q] = "pending" =>
          of'[q] \in Active' \/ \E w \in User : At(w, "rpcDrain")' /\ user'[w].id = of'[q]
    BY <1>1, <2>1, <2>2, <2>3 DEF Answering, At, Active
  <2>6. \A q \in Req : req'[q] # "lost"
    BY <1>1, <2>2, <2>3 DEF Answering
  <2>7. QED
    BY <2>1, <2>4, <2>5, <2>6 DEF Answering, At, connVars
<1>20. ASSUME NEW r \in Req, Reply(r) PROVE Answering'
  <2>1. /\ req[r] = "running" /\ req' = [req EXCEPT ![r] = IF conn = "closed" THEN "lost" ELSE "replied"]
        /\ UNCHANGED <<connVars, conVars, served, sub, of, user, faults, aborted>>
    BY <1>20 DEF Reply
  <2>2. SUFFICES ASSUME closes = 0 PROVE Answering'
    BY <2>1 DEF Answering, connVars
  <2>3. conn # "closed"
    BY <1>1, <2>1, <2>2 DEF Answering
  <2>4. \A q \in Req : req'[q] = IF q = r THEN "replied" ELSE req[q]
    BY <1>2, <2>1, <2>3 DEF Types
  <2>5. \A q \in Req : req'[q] = "pending" =>
          of'[q] \in Active' \/ \E w \in User : At(w, "rpcDrain")' /\ user'[w].id = of'[q]
    BY <1>1, <2>1, <2>2, <2>4 DEF Answering, At, Active
  <2>6. \A q \in Req : req'[q] # "lost"
    BY <1>1, <2>2, <2>4 DEF Answering
  <2>7. Running' \subseteq Running
    BY <2>4 DEF Running
  <2>8. \A w \in User : /\ At(w, "gather")' => Running' \subseteq user'[w].tasks
                        /\ At(w, "drain")' => Running' = {}
    BY <1>1, <2>1, <2>2, <2>7 DEF Answering, At
  <2>9. QED
    BY <2>1, <2>3, <2>5, <2>6, <2>8 DEF Answering, connVars
<1>21. ASSUME NEW k \in Con, Takes(k) \/ Finishes(k) PROVE Answering'
  BY <1>4, <1>21 DEF Takes, Finishes, connVars, rpcVars
<1>22. CASE UNCHANGED vars
  BY <1>4, <1>22 DEF vars
<1>23. QED
  BY <1>1, <1>5, <1>6, <1>7, <1>8, <1>9, <1>10, <1>11, <1>12, <1>13, <1>14, <1>15, <1>16, <1>17, <1>18,
     <1>19, <1>20, <1>21, <1>22
  DEF Next, Call, ServeStep, StopStep, DisconnectStep, RpcStep

LEMMA ServedInit == Init => Registers /\ Answering /\ ~aborted
<1>1. SUFFICES ASSUME Init PROVE Registers /\ Answering /\ ~aborted
  OBVIOUS
<1>2. \A u \in User : user[u] = Idle
  BY <1>1 DEF Init
<1>3. Idle.op = "idle"
  BY IdleIs
<1>4. served = <<>> /\ conn = "new" /\ started = FALSE /\ aborted = FALSE
  BY <1>1 DEF Init
<1>5. \A s \in Sub : sub[s] = "none"
  BY <1>1 DEF Init
<1>6. \A r \in Req : req[r] = "none"
  BY <1>1 DEF Init
<1>7. Active = {}
  BY <1>5 DEF Active
<1>8. QED
  BY <1>2, <1>3, <1>4, <1>6, <1>7 DEF Registers, Answering, At

\* All RPC calls that were received reply before disconnect() closes the connection,
\* if one task serves and disconnects and draining a subscription does not raise.
THEOREM AnsweredFirst ==
  ASSUME OnlyOne({"serve", "disconnect"}), ~FlushFails
  PROVE  Spec => []AnsweredBeforeClose
<1> DEFINE IInv == Typed /\ Connection /\ Registers /\ Answering
<1>1. OnlyOne({"disconnect"})
  BY OnlyOneOf
<1>2. Init => IInv
  BY TypedInit, ConsumersInit, ServedInit
<1>3. IInv /\ [Next]_vars => IInv'
  BY <1>1, TypedStep, ConnectionStep, RegistersStep, AnsweringStep
<1>4. IInv => AnsweredBeforeClose
  BY DEF Answering, AnsweredBeforeClose, Closed
<1> HIDE DEF IInv
<1>5. QED
  BY <1>2, <1>3, <1>4, PTL DEF Spec

\* The subscriptions and consumers the server has are those the object knows, and
\* disconnect() is not cut short by an exception of its own, if one task serves and
\* disconnects and one task consumes.
THEOREM RegisteredAndComplete ==
  ASSUME OnlyOne({"serve", "disconnect"}), OnlyOne({"consume"})
  PROVE  Spec => []RegisteredRuns /\ []DisconnectCompletes
<1> DEFINE IInv == Typed /\ Connection /\ Registers /\ Known /\ ~aborted
<1>1. OnlyOne({"disconnect"})
  BY OnlyOneOf
<1>2. Init => IInv
  BY TypedInit, ConsumersInit, ServedInit
<1>3. IInv /\ [Next]_vars => IInv'
  BY <1>1, TypedStep, ConnectionStep, RegistersStep, KnownStep
<1>4. IInv => RegisteredRuns /\ DisconnectCompletes
  <2>1. SUFFICES ASSUME IInv PROVE RegisteredRuns /\ DisconnectCompletes
    OBVIOUS
  <2>2. ServedIsActive
    <3>1. SUFFICES ASSUME conn = "up", \A u \in User : user[u].op \in {"idle", "flush", "consume", "stop"}
                   PROVE  Subs = Active
      BY DEF ServedIsActive, Subs, Active
    <3>2. \A u \in User : ~At(u, "rpcDrain") /\ ~At(u, "subscribe")
      BY <3>1 DEF At
    <3>3. QED
      BY <2>1, <3>1, <3>2 DEF Registers
  <2>3. ConsumersKnown
    BY <2>1, KnownIs
  <2>4. QED
    BY <2>1, <2>2, <2>3 DEF RegisteredRuns, DisconnectCompletes
<1> HIDE DEF IInv
<1>5. QED
  BY <1>2, <1>3, <1>4, PTL DEF Spec
=============================================================================
