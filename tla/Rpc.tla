-------------------------------- MODULE Rpc ---------------------------------
(***************************************************************************)
(* Remote procedure calls over NATS (aiobp/nats/_rpc.py, call(), serve()   *)
(* and _handle_rpc() of aiobp/nats/_nats.py) of one method: callers,       *)
(* instances of one service that serve it, in a queue group or broadcast,  *)
(* and a responder that is not of aiobp.  A call is a request to a subject *)
(* and a reply to an inbox of the call's own; nothing is sent twice, but   *)
(* an instance may be gone before it replies and a reply may be too late.  *)
(***************************************************************************)
EXTENDS Integers, FiniteSets

CONSTANTS Call,      \* calls made, each once
          Instance,  \* instances of the service
          Alien,     \* instances that answer, but not in the wire format
          Value,     \* what handlers return and raise: see Json
          Code       \* codes of RpcError handlers try to raise

ASSUME RpcConstants == /\ Alien \cap Instance = {}
                       /\ Value \subseteq {"text", "object", "date", "opaque"}
                       /\ Code \subseteq Int

VARIABLES
  sub,    \* what each instance is subscribed as: "none", "group" or "all"
  wish,   \* instances whose serve() was told to broadcast
  state,  \* each call: "new", "waiting", "done"
  good,   \* the calls whose request is [args, kwargs]
  got,    \* what the caller of a call that is done got
  task,   \* RPC tasks of the instances, and what they do
  inbox   \* replies on their way to a call

vars == <<sub, wish, state, good, got, task, inbox>>

Server == Instance \cup Alien
RPC_OK == 1
Internal == "Internal error"
BadRequest == "Invalid RPC request"
BadReply == "Invalid RPC reply"

\* How values look after they were encoded: a date is text then, what is opaque is not encoded.
Json == [text |-> "text", object |-> "object", date |-> "text", opaque |-> "opaque"]
Encodable(v) == v # "opaque"
Texts == {"text", "message", Internal, BadRequest, BadReply}

Reply(code, payload) == [code |-> code, payload |-> payload]
Junk == Reply(RPC_OK, BadReply)     \* any reply that is not [code, payload]
Result(v) == [kind |-> "result", code |-> RPC_OK, message |-> "none", data |-> v]
RpcError(code, message, data) == [kind |-> "error", code |-> code, message |-> message, data |-> data]
Failed(why) == [kind |-> why, code |-> 0, message |-> "none", data |-> "none"]

(* --------------------------------- serving ------------------------------- *)

\* Mutant: no instance joins the queue group.
ServeAlone(i, broadcast) ==
  /\ sub[i] = "none"
  /\ sub' = [sub EXCEPT ![i] = "all"]
  /\ wish' = IF broadcast THEN wish \cup {i} ELSE wish \ {i}
  /\ UNCHANGED <<state, good, got, task, inbox>>

\* serve() of a method that is served already is refused.
Serve(i, broadcast) ==
  /\ sub[i] = "none"
  /\ sub' = [sub EXCEPT ![i] = IF broadcast THEN "all" ELSE "group"]
  /\ wish' = IF broadcast THEN wish \cup {i} ELSE wish \ {i}
  /\ UNCHANGED <<state, good, got, task, inbox>>

\* The process of the instance is killed, its tasks with it, and may be started again.
Crash(i) ==
  /\ sub[i] # "none"
  /\ sub' = [sub EXCEPT ![i] = "none"]
  /\ task' = {IF k.at = i /\ k.step # "replied" THEN [k EXCEPT !.step = "crashed"] ELSE k : k \in task}
  /\ UNCHANGED <<wish, state, good, got, inbox>>

(* --------------------------------- calling ------------------------------- *)

Members(kind) == {i \in Server : sub[i] = kind}

\* Who gets a request: one of the queue group, and everyone subscribed without one.
Receivers == IF Members("group") = {} THEN {Members("all")}
             ELSE {{i} \cup Members("all") : i \in Members("group")}

\* on_request(): each receiver runs a task; no receiver at all is told to the caller.
Request(c) ==
  /\ state[c] = "new"
  /\ \E to \in Receivers, well \in BOOLEAN :
       /\ good' = IF well THEN good \cup {c} ELSE good
       /\ task' = task \cup {[call |-> c, at |-> i, step |-> "new", alone |-> i \notin wish,
                              did |-> "nothing", value |-> "none", code |-> 0] : i \in to}
       /\ state' = [state EXCEPT ![c] = IF to = {} THEN "done" ELSE "waiting"]
       /\ got' = IF to = {} THEN [got EXCEPT ![c] = Failed("no responders")] ELSE got
  /\ UNCHANGED <<sub, wish, inbox>>

Timeout(c) == /\ state[c] = "waiting"
              /\ state' = [state EXCEPT ![c] = "done"]
              /\ got' = [got EXCEPT ![c] = Failed("timeout")]
              /\ UNCHANGED <<sub, wish, good, task, inbox>>

\* parse_reply(): an error with text is told as its message, other errors as their data.
Parsed(r) ==
  CASE r = Junk -> RpcError(0, BadReply, "none")
    [] r # Junk /\ r.code = RPC_OK -> Result(r.payload)
    [] r.code # RPC_OK /\ r.payload \in Texts -> RpcError(r.code, r.payload, "none")
    [] r.code # RPC_OK /\ r.payload \notin Texts -> RpcError(r.code, "str", r.payload)

\* The first reply is the call's; nobody waits for the others, nor after a timeout.
Receive(c) == \E r \in inbox[c] :
  /\ inbox' = [inbox EXCEPT ![c] = @ \ {r}]
  /\ IF state[c] = "waiting"
       THEN /\ state' = [state EXCEPT ![c] = "done"]
            /\ got' = [got EXCEPT ![c] = Parsed(r)]
       ELSE UNCHANGED <<state, got>>
  /\ UNCHANGED <<sub, wish, good, task>>

(* -------------------------------- handling ------------------------------- *)

\* _reply(): what cannot be encoded is an internal error.
Respond(code, payload) == IF Encodable(payload) THEN Reply(code, payload) ELSE Reply(0, Internal)
Encoded(v) == IF v \in DOMAIN Json THEN Json[v] ELSE v

Replies(k, new, code, payload) ==
  /\ task' = (task \ {k}) \cup {[new EXCEPT !.step = "replied"]}
  /\ inbox' = [inbox EXCEPT ![k.call] = @ \cup {Respond(code, Encoded(payload))}]
  /\ UNCHANGED <<sub, wish, state, good, got>>

\* parse_request() fails before the handler is called.
Refuse(k) == /\ k.step = "new" /\ k.at \in Instance /\ k.call \notin good
             /\ Replies(k, k, 0, BadRequest)

Start(k) == /\ k.step = "new" /\ k.at \in Instance /\ k.call \in good
            /\ task' = (task \ {k}) \cup {[k EXCEPT !.step = "running"]}
            /\ UNCHANGED <<sub, wish, state, good, got, inbox>>

Returns(k) == k.step = "running" /\ \E v \in Value :
  Replies(k, [k EXCEPT !.did = "returned", !.value = v], RPC_OK, v)

\* Any exception but RpcError, also the ValueError of RpcError(code=RPC_OK): nothing of it is told.
Raises(k) == /\ k.step = "running"
             /\ Replies(k, [k EXCEPT !.did = "raised"], 0, Internal)

\* Mutant: RpcError accepts the code that means success.
FailsWell(k) == k.step = "running" /\ \E code \in Code, v \in Value \cup {"message"} :
  Replies(k, [k EXCEPT !.did = IF code = RPC_OK THEN "raised" ELSE "failed", !.value = v, !.code = code], code, v)

\* RpcError(message, code, data): data is sent when there is any, else the message.
Fails(k) == k.step = "running" /\ \E code \in Code, v \in Value \cup {"message"} :
  IF code = RPC_OK THEN Raises(k)
  ELSE Replies(k, [k EXCEPT !.did = "failed", !.value = v, !.code = code], code, v)

\* A responder not of aiobp answers what it likes.
Answers(k) == /\ k.at \in Alien /\ k.step = "new"
              /\ task' = (task \ {k}) \cup {[k EXCEPT !.step = "replied", !.did = "junk"]}
              /\ inbox' = [inbox EXCEPT ![k.call] = @ \cup {Junk}]
              /\ UNCHANGED <<sub, wish, state, good, got>>

(* ---------------------------------- spec --------------------------------- *)

Init == /\ sub \in {s \in [Server -> {"none", "all"}] : \A i \in Instance : s[i] = "none"}
        /\ wish = Alien
        /\ state = [c \in Call |-> "new"] /\ good = {}
        /\ got = [c \in Call |-> Failed("nothing")]
        /\ task = {} /\ inbox = [c \in Call |-> {}]

Next == \/ \E i \in Instance : Crash(i) \/ \E b \in BOOLEAN : Serve(i, b)
        \/ \E c \in Call : Request(c) \/ Timeout(c) \/ Receive(c)
        \/ \E k \in task : Refuse(k) \/ Start(k) \/ Returns(k) \/ Raises(k) \/ Fails(k) \/ Answers(k)

Spec == Init /\ [][Next]_vars

(* -------------------------------- properties ----------------------------- *)

\* The variables have the values the code gives them; a call has an outcome once it is done.
TypeOK ==
  /\ sub \in [Server -> {"none", "group", "all"}] /\ wish \subseteq Server /\ good \subseteq Call
  /\ state \in [Call -> {"new", "waiting", "done"}]
  /\ \A k \in task : /\ k.call \in Call /\ state[k.call] # "new" /\ k.at \in Server
                     /\ k.step \in {"new", "running", "replied", "crashed"}
                     /\ k.did \in {"nothing", "returned", "raised", "failed", "junk"}
  /\ \A c \in Call : state[c] = "done" <=> got[c].kind # "nothing"

\* What a caller may be told of task k: what its handler returned or raised as JSON, and nothing
\* of an exception it did not mean to.
Told(k) ==
  CASE k.did = "returned" /\ Encodable(k.value) -> Result(Json[k.value])
    [] k.did = "failed" /\ Encodable(k.value) /\ Encoded(k.value) \in Texts
         -> RpcError(k.code, Encoded(k.value), "none")
    [] k.did = "failed" /\ Encodable(k.value) /\ Encoded(k.value) \notin Texts
         -> RpcError(k.code, "str", k.value)
    [] k.did = "junk" -> RpcError(0, BadReply, "none")
    [] k.did = "nothing" -> RpcError(0, BadRequest, "none")
    [] OTHER -> RpcError(0, Internal, "none")

\* A result or an error a caller gets is that of a task that ran for its call and has ended.
AnswerTruthful == \A c \in Call : got[c].kind \in {"result", "error"} =>
                    \E k \in task : k.call = c /\ k.step = "replied" /\ got[c] = Told(k)

\* A call is run by at most one of the instances that serve without broadcast, also when some
\* of them crash and start again.
RunOnce == \A k1, k2 \in task :
             k1.call = k2.call /\ k1.alone /\ k2.alone => k1.at = k2.at
=============================================================================
