----------------------------- MODULE RpcProofs ------------------------------
(* Theorems about Rpc, for all values of its constants. *)
EXTENDS Rpc, TLAPS

(***************************************************************************)
(* The inductive invariant.  The first part is what the variables look     *)
(* like; the others say where a reply on its way and a broadcasting        *)
(* instance come from.                                                     *)
(***************************************************************************)
Payload == Value \cup {"none", "opaque"} \cup Texts
Task == [call : Call, at : Server, step : {"new", "running", "replied", "crashed"}, alone : BOOLEAN,
         did : {"nothing", "returned", "raised", "failed", "junk"}, value : Payload, code : Int]
ReplyMsg == [code : Int, payload : Payload \cup {"object"}]

Shaped == /\ task \subseteq Task
          /\ DOMAIN got = Call
          /\ inbox \in [Call -> SUBSET ReplyMsg]
          /\ \A k \in task : k.step \in {"new", "running"} => k.did = "nothing"

\* A reply on its way tells what its task may tell.
RepliesTruthful == \A c \in Call : \A r \in inbox[c] :
                     \E k \in task : k.call = c /\ k.step = "replied" /\ Parsed(r) = Told(k)

\* An instance outside of the queue group was told to broadcast.
AllWished == \A i \in Server : sub[i] = "all" => i \in wish

IInv == TypeOK /\ Shaped /\ RepliesTruthful /\ AnswerTruthful /\ AllWished /\ RunOnce

-----------------------------------------------------------------------------
\* What JSON makes of the values of handlers.
LEMMA JsonValues ==
  /\ DOMAIN Json = {"text", "object", "date", "opaque"}
  /\ Json["text"] = "text" /\ Json["object"] = "object"
  /\ Json["date"] = "text" /\ Json["opaque"] = "opaque"
BY DEF Json

\* _reply() sends a code and a payload.
LEMMA RespondType ==
  ASSUME NEW code \in Int, NEW v \in Payload
  PROVE  Respond(code, Encoded(v)) \in ReplyMsg
<1>1. Encoded(v) \in Payload \cup {"object"}
  BY JsonValues, RpcConstants DEF Encoded, Payload, Texts
<1>2. QED
  BY <1>1 DEF Respond, ReplyMsg, Reply, Payload, Texts

\* Whatever a task may tell is a result or an error.
LEMMA ToldKind ==
  ASSUME NEW k
  PROVE  Told(k).kind \in {"result", "error"}
BY DEF Told, Result, RpcError

-----------------------------------------------------------------------------
(* A reply says what its task may tell: a lemma for each way a task ends. *)

LEMMA ReturnTruthful ==
  ASSUME NEW k \in Task, NEW v \in Value
  PROVE  Parsed(Respond(RPC_OK, Encoded(v))) = Told([k EXCEPT !.did = "returned", !.value = v, !.step = "replied"])
<1> DEFINE n == [k EXCEPT !.did = "returned", !.value = v, !.step = "replied"]
<1>1. n.did = "returned" /\ n.value = v
  BY DEF Task
<1>2. v \in {"text", "object", "date", "opaque"}
  BY RpcConstants
<1> HIDE DEF n
<1>3. CASE v = "opaque"
  <2>1. Encoded(v) = "opaque"
    BY <1>3, JsonValues DEF Encoded
  <2>2. Respond(RPC_OK, Encoded(v)) = Reply(0, Internal)
    BY <2>1 DEF Respond, Encodable
  <2>3. Parsed(Reply(0, Internal)) = RpcError(0, Internal, "none")
    BY DEF Parsed, Reply, Junk, RPC_OK, Texts
  <2>4. Told(n) = RpcError(0, Internal, "none")
    BY <1>1, <1>3 DEF Told, Encodable
  <2>5. QED
    BY <2>2, <2>3, <2>4 DEF n
<1>4. CASE v # "opaque"
  <2>1. Encoded(v) = Json[v] /\ Json[v] \in {"text", "object"}
    BY <1>2, <1>4, JsonValues DEF Encoded
  <2>2. Respond(RPC_OK, Encoded(v)) = Reply(RPC_OK, Json[v])
    BY <2>1 DEF Respond, Encodable
  <2>3. Parsed(Reply(RPC_OK, Json[v])) = Result(Json[v])
    BY <2>1 DEF Parsed, Reply, Junk, RPC_OK, BadReply
  <2>4. Told(n) = Result(Json[v])
    BY <1>1, <1>4 DEF Told, Encodable
  <2>5. QED
    BY <2>2, <2>3, <2>4 DEF n
<1>5. QED
  BY <1>3, <1>4

LEMMA RaiseTruthful ==
  ASSUME NEW k \in Task
  PROVE  Parsed(Respond(0, Encoded(Internal))) = Told([k EXCEPT !.did = "raised", !.step = "replied"])
<1> DEFINE n == [k EXCEPT !.did = "raised", !.step = "replied"]
<1>1. n.did = "raised"
  BY DEF Task
<1>2. Respond(0, Encoded(Internal)) = Reply(0, Internal)
  BY JsonValues DEF Encoded, Respond, Internal, Encodable
<1>3. Parsed(Reply(0, Internal)) = RpcError(0, Internal, "none")
  BY DEF Parsed, Reply, Junk, RPC_OK, Texts
<1>4. Told(n) = RpcError(0, Internal, "none")
  BY <1>1 DEF Told
<1>5. QED
  BY <1>2, <1>3, <1>4

LEMMA RefuseTruthful ==
  ASSUME NEW k \in Task, k.did = "nothing"
  PROVE  Parsed(Respond(0, Encoded(BadRequest))) = Told([k EXCEPT !.step = "replied"])
<1> DEFINE n == [k EXCEPT !.step = "replied"]
<1>1. n.did = "nothing"
  BY DEF Task
<1>2. Respond(0, Encoded(BadRequest)) = Reply(0, BadRequest)
  BY JsonValues DEF Encoded, Respond, BadRequest, Encodable
<1>3. Parsed(Reply(0, BadRequest)) = RpcError(0, BadRequest, "none")
  BY DEF Parsed, Reply, Junk, RPC_OK, Texts
<1>4. Told(n) = RpcError(0, BadRequest, "none")
  BY <1>1 DEF Told
<1>5. QED
  BY <1>2, <1>3, <1>4

LEMMA FailTruthful ==
  ASSUME NEW k \in Task, NEW code \in Code, code # RPC_OK, NEW v \in Value \cup {"message"}
  PROVE  Parsed(Respond(code, Encoded(v)))
           = Told([k EXCEPT !.did = "failed", !.value = v, !.code = code, !.step = "replied"])
<1> DEFINE n == [k EXCEPT !.did = "failed", !.value = v, !.code = code, !.step = "replied"]
<1>1. n.did = "failed" /\ n.value = v /\ n.code = code
  BY DEF Task
<1>2. v \in {"text", "object", "date", "opaque", "message"}
  BY RpcConstants
<1> HIDE DEF n
<1>3. CASE v = "opaque"
  <2>1. Encoded(v) = "opaque"
    BY <1>3, JsonValues DEF Encoded
  <2>2. Respond(code, Encoded(v)) = Reply(0, Internal)
    BY <2>1 DEF Respond, Encodable
  <2>3. Parsed(Reply(0, Internal)) = RpcError(0, Internal, "none")
    BY DEF Parsed, Reply, Junk, RPC_OK, Texts
  <2>4. Told(n) = RpcError(0, Internal, "none")
    BY <1>1, <1>3 DEF Told, Encodable
  <2>5. QED
    BY <2>2, <2>3, <2>4 DEF n
<1>4. CASE v = "object"
  <2>1. Encoded(v) = "object"
    BY <1>4, JsonValues DEF Encoded
  <2>2. Respond(code, Encoded(v)) = Reply(code, "object")
    BY <2>1 DEF Respond, Encodable
  <2>3. "object" \notin Texts
    BY DEF Texts, Internal, BadRequest, BadReply
  <2>4. Parsed(Reply(code, "object")) = RpcError(code, "str", "object")
    BY <2>3 DEF Parsed, Reply, Junk
  <2>5. Told(n) = RpcError(code, "str", "object")
    BY <1>1, <1>4, <2>1, <2>3 DEF Told, Encodable
  <2>6. QED
    BY <2>2, <2>4, <2>5 DEF n
<1>5. CASE v \in {"text", "date", "message"}
  <2>1. Encoded(v) \in {"text", "message"}
    BY <1>5, JsonValues DEF Encoded
  <2>2. Respond(code, Encoded(v)) = Reply(code, Encoded(v))
    BY <2>1 DEF Respond, Encodable
  <2>3. Encoded(v) \in Texts
    BY <2>1 DEF Texts
  <2>4. Parsed(Reply(code, Encoded(v))) = RpcError(code, Encoded(v), "none")
    BY <2>3 DEF Parsed, Reply, Junk
  <2>5. Told(n) = RpcError(code, Encoded(v), "none")
    BY <1>1, <1>5, <2>3 DEF Told, Encodable
  <2>6. QED
    BY <2>2, <2>4, <2>5 DEF n
<1>6. QED
  BY <1>2, <1>3, <1>4, <1>5

-----------------------------------------------------------------------------
(* The inductive invariant, one step per action.                           *)

\* No task runs and no reply is on its way before a call is made.
LEMMA InitInv == Init => IInv
<1> SUFFICES ASSUME Init PROVE IInv
  OBVIOUS
<1>1. TypeOK
  BY RpcConstants DEF Init, TypeOK, Server, Failed
<1>2. Shaped
  BY DEF Init, Shaped
<1>3. RepliesTruthful /\ RunOnce
  BY DEF Init, RepliesTruthful, RunOnce
<1>4. AnswerTruthful
  BY DEF Init, AnswerTruthful, Failed
<1>5. AllWished
  BY RpcConstants DEF Init, AllWished, Server
<1>6. QED
  BY <1>1, <1>2, <1>3, <1>4, <1>5 DEF IInv

\* The part of the invariant that is about what was told stays true while the tasks that have
\* ended stay, and nothing else is told.
LEMMA TruthKept ==
  ASSUME RepliesTruthful, AnswerTruthful,
         \A k \in task : k.step = "replied" => k \in task',
         \A c \in Call : inbox'[c] \subseteq inbox[c],
         \A c \in Call : got'[c] # got[c] =>
            got'[c].kind \notin {"result", "error"} \/ \E r \in inbox[c] : got'[c] = Parsed(r)
  PROVE  RepliesTruthful' /\ AnswerTruthful'
<1>1. RepliesTruthful'
  BY DEF RepliesTruthful
<1>2. ASSUME NEW c \in Call, got'[c].kind \in {"result", "error"}
      PROVE  \E k \in task' : k.call = c /\ k.step = "replied" /\ got'[c] = Told(k)
  <2>1. CASE got'[c] = got[c]
    BY <1>2, <2>1 DEF AnswerTruthful
  <2>2. CASE \E r \in inbox[c] : got'[c] = Parsed(r)
    BY <2>2 DEF RepliesTruthful
  <2>3. QED
    BY <1>2, <2>1, <2>2
<1>3. AnswerTruthful'
  BY <1>2 DEF AnswerTruthful, Told
<1>4. QED
  BY <1>1, <1>3

\* No second instance of the queue group runs a call while each task was one of the same call
\* at the same instance before.
LEMMA RunOnceKept ==
  ASSUME RunOnce,
         \A n \in task' : \E k \in task : k.call = n.call /\ k.at = n.at /\ k.alone = n.alone
  PROVE  RunOnce'
BY DEF RunOnce

LEMMA ServeInv ==
  ASSUME IInv, NEW i \in Instance, NEW b \in BOOLEAN, Serve(i, b)
  PROVE  IInv'
<1> USE DEF IInv, Serve
<1>1. TypeOK' /\ Shaped'
  BY DEF TypeOK, Shaped, Server
<1>2. RepliesTruthful' /\ AnswerTruthful'
  BY TruthKept
<1>3. RunOnce'
  BY RunOnceKept
<1>4. AllWished'
  BY DEF AllWished, TypeOK
<1>5. QED
  BY <1>1, <1>2, <1>3, <1>4

LEMMA CrashInv ==
  ASSUME IInv, NEW i \in Instance, Crash(i)
  PROVE  IInv'
<1> USE DEF IInv
<1> DEFINE after(k) == IF k.at = i /\ k.step # "replied" THEN [k EXCEPT !.step = "crashed"] ELSE k
<1>1. task' = {after(k) : k \in task}
  BY DEF Crash
<1>2. ASSUME NEW k \in task
      PROVE  /\ after(k) \in Task
             /\ after(k).call = k.call /\ after(k).at = k.at /\ after(k).alone = k.alone
             /\ after(k).step \in {k.step, "crashed"} /\ after(k).did = k.did
             /\ k.step = "replied" => after(k) = k
  BY DEF Shaped, Task
<1> HIDE DEF after
<1>3. TypeOK'
  <2>1. sub' \in [Server -> {"none", "group", "all"}]
    BY DEF TypeOK, Crash
  <2>2. \A n \in task' : \E k \in task : /\ n.call = k.call /\ n.at = k.at /\ n.did = k.did
                                         /\ n.step \in {k.step, "crashed"}
    BY <1>1, <1>2
  <2>3. QED
    BY <2>1, <2>2 DEF TypeOK, Crash
<1>4. Shaped'
  BY <1>1, <1>2 DEF Shaped, Crash
<1>5. RepliesTruthful' /\ AnswerTruthful'
  BY <1>1, <1>2, TruthKept DEF Crash
<1>6. RunOnce'
  BY <1>1, <1>2, RunOnceKept
<1>7. AllWished'
  BY DEF AllWished, TypeOK, Crash
<1>8. QED
  BY <1>3, <1>4, <1>5, <1>6, <1>7

\* The tasks of a request: one instance of the queue group, and those that were told to broadcast.
LEMMA RequestInv ==
  ASSUME IInv, NEW c \in Call, Request(c)
  PROVE  IInv'
<1> USE DEF IInv
<1> DEFINE begun(i) == [call |-> c, at |-> i, step |-> "new", alone |-> i \notin wish,
                        did |-> "nothing", value |-> "none", code |-> 0]
<1>1. PICK to \in Receivers :
        /\ task' = task \cup {begun(i) : i \in to}
        /\ state' = [state EXCEPT ![c] = IF to = {} THEN "done" ELSE "waiting"]
        /\ got' = IF to = {} THEN [got EXCEPT ![c] = Failed("no responders")] ELSE got
        /\ \E well \in BOOLEAN : good' = IF well THEN good \cup {c} ELSE good
  BY DEF Request
<1>2. state[c] = "new" /\ UNCHANGED <<sub, wish, inbox>>
  BY DEF Request
<1>3. to \subseteq Server
  BY DEF Receivers, Members
<1>4. \A i \in Server : begun(i) \in Task
  BY DEF Task, Payload
<1>5. \A i \in Server : /\ begun(i).call = c /\ begun(i).at = i /\ begun(i).alone = (i \notin wish)
                        /\ begun(i).step = "new" /\ begun(i).did = "nothing"
  OBVIOUS
<1>6. \A k \in task : k.call # c
  BY <1>2 DEF TypeOK
<1> HIDE DEF begun
<1>7. ASSUME NEW n \in task', n \notin task
      PROVE  \E i \in to : /\ n \in Task /\ n.call = c /\ n.at = i /\ n.alone = (i \notin wish)
                           /\ n.step = "new" /\ n.did = "nothing"
  <2>1. PICK i \in to : n = begun(i)
    BY <1>1, <1>7
  <2>2. QED
    BY <2>1, <1>3, <1>4, <1>5
<1>8. TypeOK' /\ Shaped'
  <2>1. /\ state' \in [Call -> {"new", "waiting", "done"}] /\ good' \subseteq Call /\ state'[c] # "new"
        /\ \A d \in Call : d # c => state'[d] = state[d]
    BY <1>1 DEF TypeOK
  <2>2. DOMAIN got' = Call /\ \A d \in Call : state'[d] = "done" <=> got'[d].kind # "nothing"
    BY <1>1, <1>2 DEF TypeOK, Shaped, Failed
  <2>3. \A n \in task' : /\ n \in Task /\ n.call \in Call /\ state'[n.call] # "new" /\ n.at \in Server
                         /\ n.step \in {"new", "running", "replied", "crashed"}
                         /\ n.did \in {"nothing", "returned", "raised", "failed", "junk"}
                         /\ n.step \in {"new", "running"} => n.did = "nothing"
    <3> SUFFICES ASSUME NEW n \in task'
                 PROVE  /\ n \in Task /\ n.call \in Call /\ state'[n.call] # "new" /\ n.at \in Server
                        /\ n.step \in {"new", "running", "replied", "crashed"}
                        /\ n.did \in {"nothing", "returned", "raised", "failed", "junk"}
                        /\ n.step \in {"new", "running"} => n.did = "nothing"
      OBVIOUS
    <3>1. CASE n \in task
      BY <3>1, <1>6, <2>1 DEF TypeOK, Shaped
    <3>2. CASE n \notin task
      BY <3>2, <1>3, <1>7, <2>1
    <3>3. QED
      BY <3>1, <3>2
  <2>4. TypeOK'
    <3>1. sub' \in [Server -> {"none", "group", "all"}] /\ wish' \subseteq Server
      BY <1>2 DEF TypeOK
    <3> HIDE DEF IInv
    <3>2. QED
      BY <2>1, <2>2, <2>3, <3>1 DEF TypeOK
  <2>5. Shaped'
    <3>1. inbox' \in [Call -> SUBSET ReplyMsg] /\ task' \subseteq Task
      BY <1>2, <2>3 DEF Shaped
    <3> HIDE DEF IInv
    <3>2. QED
      BY <2>2, <2>3, <3>1 DEF Shaped
  <2>6. QED
    BY <2>4, <2>5
<1>9. RepliesTruthful' /\ AnswerTruthful'
  <2>1. \A d \in Call : got'[d] # got[d] => got'[d].kind = "no responders"
    BY <1>1 DEF Shaped, Failed
  <2>2. QED
    BY <1>1, <1>2, <2>1, TruthKept
<1>10. RunOnce'
  <2>1. \A i, j \in to : i \notin wish /\ j \notin wish => i = j
    <3>1. \A i \in Members("all") : i \in wish
      BY DEF AllWished, Members
    <3>2. QED
      BY <3>1 DEF Receivers
  <2>2. QED
    BY <1>6, <1>7, <2>1 DEF RunOnce
<1>11. AllWished'
  BY <1>2 DEF AllWished
<1>12. QED
  BY <1>8, <1>9, <1>10, <1>11

LEMMA TimeoutInv ==
  ASSUME IInv, NEW c \in Call, Timeout(c)
  PROVE  IInv'
<1> USE DEF IInv, Timeout
<1>1. TypeOK' /\ Shaped'
  BY DEF TypeOK, Shaped, Failed
<1>2. RepliesTruthful' /\ AnswerTruthful'
  <2>1. \A d \in Call : got'[d] # got[d] => got'[d].kind = "timeout"
    BY DEF Shaped, Failed
  <2>2. QED
    BY <2>1, TruthKept
<1>3. RunOnce' /\ AllWished'
  BY RunOnceKept DEF AllWished
<1>4. QED
  BY <1>1, <1>2, <1>3

LEMMA ReceiveInv ==
  ASSUME IInv, NEW c \in Call, Receive(c)
  PROVE  IInv'
<1> USE DEF IInv
<1>1. PICK r \in inbox[c] :
        /\ inbox' = [inbox EXCEPT ![c] = @ \ {r}]
        /\ IF state[c] = "waiting"
             THEN /\ state' = [state EXCEPT ![c] = "done"]
                  /\ got' = [got EXCEPT ![c] = Parsed(r)]
             ELSE UNCHANGED <<state, got>>
  BY DEF Receive
<1>2. UNCHANGED <<sub, wish, good, task>>
  BY DEF Receive
<1>3. Parsed(r).kind \in {"result", "error"}
  BY ToldKind DEF RepliesTruthful
<1>4. TypeOK'
  BY <1>1, <1>2, <1>3 DEF TypeOK, Shaped
<1>5. Shaped'
  BY <1>1, <1>2 DEF Shaped
<1>6. RepliesTruthful' /\ AnswerTruthful'
  BY <1>1, <1>2, TruthKept DEF Shaped
<1>7. RunOnce' /\ AllWished'
  BY <1>2, RunOnceKept DEF AllWished
<1>8. QED
  BY <1>4, <1>5, <1>6, <1>7

-----------------------------------------------------------------------------
(* The actions of a task: it goes on, or ends with a reply.                *)

LEMMA StartInv ==
  ASSUME IInv, NEW k \in task, Start(k)
  PROVE  IInv'
<1> USE DEF IInv, Start
<1> DEFINE n == [k EXCEPT !.step = "running"]
<1>1. /\ n \in Task /\ n.call = k.call /\ n.at = k.at /\ n.alone = k.alone /\ n.did = k.did
      /\ n.step = "running"
  BY DEF Shaped, Task
<1>2. task' = (task \ {k}) \cup {n}
  OBVIOUS
<1> HIDE DEF n
<1>3. TypeOK' /\ Shaped'
  BY <1>1, <1>2 DEF TypeOK, Shaped
<1>4. RepliesTruthful' /\ AnswerTruthful'
  BY <1>2, TruthKept
<1>5. RunOnce'
  BY <1>1, <1>2, RunOnceKept
<1>6. AllWished'
  BY DEF AllWished
<1>7. QED
  BY <1>3, <1>4, <1>5, <1>6

\* A task that has not ended may end with a reply that tells what it may tell.
LEMMA EndsInv ==
  ASSUME IInv, NEW k \in task, k.step \in {"new", "running"}, NEW n \in Task, NEW r \in ReplyMsg,
         n.call = k.call, n.at = k.at, n.alone = k.alone, n.step = "replied",
         Parsed(r) = Told(n),
         task' = (task \ {k}) \cup {n},
         inbox' = [inbox EXCEPT ![k.call] = @ \cup {r}],
         UNCHANGED <<sub, wish, state, good, got>>
  PROVE  IInv'
<1> USE DEF IInv
<1>1. k \in Task /\ n.did \in {"nothing", "returned", "raised", "failed", "junk"}
  BY DEF Shaped, Task
<1>2. TypeOK'
  BY <1>1 DEF TypeOK
<1>3. Shaped'
  BY <1>1 DEF Shaped
<1>4. RepliesTruthful'
  BY DEF RepliesTruthful, Shaped
<1>5. AnswerTruthful'
  BY DEF AnswerTruthful
<1>6. RunOnce'
  BY RunOnceKept
<1>7. AllWished'
  BY DEF AllWished
<1>8. QED
  BY <1>2, <1>3, <1>4, <1>5, <1>6, <1>7

LEMMA RaisesInv ==
  ASSUME IInv, NEW k \in task, Raises(k)
  PROVE  IInv'
<1> DEFINE n == [k EXCEPT !.did = "raised", !.step = "replied"]
<1>1. k \in Task
  BY DEF IInv, Shaped
<1>2. n \in Task /\ n.call = k.call /\ n.at = k.at /\ n.alone = k.alone /\ n.step = "replied"
  BY <1>1 DEF Task
<1>3. Respond(0, Encoded(Internal)) \in ReplyMsg
  BY RespondType DEF Payload, Texts
<1>4. /\ k.step = "running" /\ task' = (task \ {k}) \cup {n}
      /\ inbox' = [inbox EXCEPT ![k.call] = @ \cup {Respond(0, Encoded(Internal))}]
      /\ UNCHANGED <<sub, wish, state, good, got>>
  BY DEF Raises, Replies
<1>5. Parsed(Respond(0, Encoded(Internal))) = Told(n)
  BY <1>1, RaiseTruthful
<1> HIDE DEF n
<1>6. QED
  BY <1>2, <1>3, <1>4, <1>5, EndsInv

LEMMA RefuseInv ==
  ASSUME IInv, NEW k \in task, Refuse(k)
  PROVE  IInv'
<1> DEFINE n == [k EXCEPT !.step = "replied"]
<1>1. k \in Task /\ k.step = "new" /\ k.did = "nothing"
  BY DEF IInv, Shaped, Refuse
<1>2. n \in Task /\ n.call = k.call /\ n.at = k.at /\ n.alone = k.alone /\ n.step = "replied"
  BY <1>1 DEF Task
<1>3. Respond(0, Encoded(BadRequest)) \in ReplyMsg
  BY RespondType DEF Payload, Texts
<1>4. /\ task' = (task \ {k}) \cup {n}
      /\ inbox' = [inbox EXCEPT ![k.call] = @ \cup {Respond(0, Encoded(BadRequest))}]
      /\ UNCHANGED <<sub, wish, state, good, got>>
  BY DEF Refuse, Replies
<1>5. Parsed(Respond(0, Encoded(BadRequest))) = Told(n)
  BY <1>1, RefuseTruthful
<1> HIDE DEF n
<1>6. QED
  BY <1>1, <1>2, <1>3, <1>4, <1>5, EndsInv

LEMMA ReturnsInv ==
  ASSUME IInv, NEW k \in task, Returns(k)
  PROVE  IInv'
<1>1. k \in Task /\ k.step = "running"
  BY DEF IInv, Shaped, Returns
<1>2. PICK v \in Value : Replies(k, [k EXCEPT !.did = "returned", !.value = v], RPC_OK, v)
  BY DEF Returns
<1> DEFINE n == [k EXCEPT !.did = "returned", !.value = v, !.step = "replied"]
<1>3. n \in Task /\ n.call = k.call /\ n.at = k.at /\ n.alone = k.alone /\ n.step = "replied"
  BY <1>1 DEF Task, Payload
<1>4. Respond(RPC_OK, Encoded(v)) \in ReplyMsg
  BY RespondType DEF Payload, RPC_OK
<1>5. /\ task' = (task \ {k}) \cup {n}
      /\ inbox' = [inbox EXCEPT ![k.call] = @ \cup {Respond(RPC_OK, Encoded(v))}]
      /\ UNCHANGED <<sub, wish, state, good, got>>
  BY <1>2 DEF Replies
<1>6. Parsed(Respond(RPC_OK, Encoded(v))) = Told(n)
  BY <1>1, ReturnTruthful
<1> HIDE DEF n
<1>7. QED
  BY <1>1, <1>3, <1>4, <1>5, <1>6, EndsInv

LEMMA FailsInv ==
  ASSUME IInv, NEW k \in task, Fails(k)
  PROVE  IInv'
<1>1. k \in Task /\ k.step = "running"
  BY DEF IInv, Shaped, Fails
<1>2. CASE Raises(k)
  BY <1>2, RaisesInv
<1>3. CASE \E code \in Code, v \in Value \cup {"message"} :
             /\ code # RPC_OK
             /\ Replies(k, [k EXCEPT !.did = "failed", !.value = v, !.code = code], code, v)
  <2>1. PICK code \in Code, v \in Value \cup {"message"} :
             /\ code # RPC_OK
             /\ Replies(k, [k EXCEPT !.did = "failed", !.value = v, !.code = code], code, v)
    BY <1>3
  <2> DEFINE n == [k EXCEPT !.did = "failed", !.value = v, !.code = code, !.step = "replied"]
  <2>2. v \in Payload /\ code \in Int
    BY RpcConstants DEF Payload, Texts
  <2>3. n \in Task /\ n.call = k.call /\ n.at = k.at /\ n.alone = k.alone /\ n.step = "replied"
    BY <1>1, <2>2 DEF Task
  <2>4. Respond(code, Encoded(v)) \in ReplyMsg
    BY <2>2, RespondType
  <2>5. /\ task' = (task \ {k}) \cup {n}
        /\ inbox' = [inbox EXCEPT ![k.call] = @ \cup {Respond(code, Encoded(v))}]
        /\ UNCHANGED <<sub, wish, state, good, got>>
    BY <2>1 DEF Replies
  <2>6. Parsed(Respond(code, Encoded(v))) = Told(n)
    BY <1>1, <2>1, FailTruthful
  <2> HIDE DEF n
  <2>7. QED
    BY <1>1, <2>3, <2>4, <2>5, <2>6, EndsInv
<1>4. QED
  BY <1>2, <1>3 DEF Fails

LEMMA AnswersInv ==
  ASSUME IInv, NEW k \in task, Answers(k)
  PROVE  IInv'
<1> DEFINE n == [k EXCEPT !.step = "replied", !.did = "junk"]
<1>1. k \in Task /\ k.step = "new"
  BY DEF IInv, Shaped, Answers
<1>2. /\ n \in Task /\ n.call = k.call /\ n.at = k.at /\ n.alone = k.alone
      /\ n.step = "replied" /\ n.did = "junk"
  BY <1>1 DEF Task
<1>3. Junk \in ReplyMsg
  BY DEF Junk, Reply, ReplyMsg, RPC_OK, Payload, Texts
<1>4. /\ task' = (task \ {k}) \cup {n}
      /\ inbox' = [inbox EXCEPT ![k.call] = @ \cup {Junk}]
      /\ UNCHANGED <<sub, wish, state, good, got>>
  BY DEF Answers
<1> HIDE DEF n
<1>5. Parsed(Junk) = Told(n)
  <2>1. Parsed(Junk) = RpcError(0, BadReply, "none")
    BY DEF Parsed, Junk, Reply
  <2>2. Told(n) = RpcError(0, BadReply, "none")
    BY <1>2 DEF Told
  <2>3. QED
    BY <2>1, <2>2
<1>6. QED
  BY <1>1, <1>2, <1>3, <1>4, <1>5, EndsInv

-----------------------------------------------------------------------------
(* What callers and instances may rely on.                                 *)

\* Init establishes the inductive invariant, and every step of every action keeps it.
LEMMA Inductive == Spec => []IInv
<1>1. IInv /\ [Next]_vars => IInv'
  <2> SUFFICES ASSUME IInv, [Next]_vars PROVE IInv'
    OBVIOUS
  <2>1. CASE \E i \in Instance : Crash(i) \/ \E b \in BOOLEAN : Serve(i, b)
    BY <2>1, CrashInv, ServeInv
  <2>2. CASE \E c \in Call : Request(c) \/ Timeout(c) \/ Receive(c)
    BY <2>2, RequestInv, TimeoutInv, ReceiveInv
  <2>3. CASE \E k \in task : Refuse(k) \/ Start(k) \/ Returns(k) \/ Raises(k) \/ Fails(k) \/ Answers(k)
    BY <2>3, RefuseInv, StartInv, ReturnsInv, RaisesInv, FailsInv, AnswersInv
  <2>4. CASE UNCHANGED vars
    BY <2>4 DEF vars, IInv, TypeOK, Shaped, RepliesTruthful, AnswerTruthful, AllWished, RunOnce, Told
  <2>5. QED
    BY <2>1, <2>2, <2>3, <2>4 DEF Next
<1>2. QED
  BY InitInv, <1>1, PTL DEF Spec

\* The variables of serve(), call() and _handle_rpc() always have the values the code gives
\* them, and a call has an outcome just when it is done.
THEOREM TypeCorrect == Spec => []TypeOK
<1>1. IInv => TypeOK
  BY DEF IInv
<1>2. QED
  BY <1>1, Inductive, PTL

\* Whatever a caller gets as a result or an error is what a task of its own call, which has
\* ended, returned or raised as JSON, however requests, replies and crashes interleave.
THEOREM AnswersTruthful == Spec => []AnswerTruthful
<1>1. IInv => AnswerTruthful
  BY DEF IInv
<1>2. QED
  BY <1>1, Inductive, PTL

\* No two instances that serve without broadcast run one call.
THEOREM CallsRunOnce == Spec => []RunOnce
<1>1. IInv => RunOnce
  BY DEF IInv
<1>2. QED
  BY <1>1, Inductive, PTL
=============================================================================
