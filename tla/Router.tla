------------------------------- MODULE Router -------------------------------
(***************************************************************************)
(* The router (aiobp/aiohttp/_router.py): routes that decorators collect,  *)
(* include() binds to instances and build() registers and documents, and   *)
(* the handler build() wraps around each of them, which answers requests   *)
(* with the arguments of Provider.                                         *)
(***************************************************************************)
EXTENDS OpenApi

CONSTANTS Decoration,   \* routes that may be decorated, each once, known by their number
          MaxDecorated, \* so many of them at most
          Object,       \* instances that may be included
          ClassOf,      \* the class of each
          Module,       \* modules that may be included, with their tag and responses
          Prefix,       \* the prefixes of the ApiRouters there are, in order
          MaxSetup,     \* calls that set hooks or declare a security scheme
          Late          \* routes are decorated after build() too

Api == DOMAIN Prefix

ASSUME RouterConstants ==
  /\ Prefix \in Seq(STRING) /\ Decoration \in Seq(ToSet(Decoration))
  /\ \A d \in ToSet(Decoration) : /\ d.api \in Api \cup {0}   \* its ApiRouter, 0 for a plain route
                                  /\ d.handler \in Nat         \* by the order of names
                                  /\ d.args \in Seq(Arguments)
                                  /\ DOMAIN d = {"key", "names", "handler", "class", "module", "api",
                                                 "json", "args", "result", "responses", "secure", "tag"}
  /\ MaxDecorated \in Nat /\ MaxSetup \in Nat /\ DOMAIN ClassOf = Object /\ Late \in BOOLEAN

VARIABLES
  pending,   \* _PendingRoutes
  decorated, \* the routes that were decorated
  items,     \* the routes registered
  hooks,     \* on_error and on_result of the ApiRouters
  auth,      \* _security_schemes and _global_security of their documents
  documents, \* what their openapi.json says
  built,     \* build() was called
  failed,    \* build() raised
  answer     \* the request served last, and what was answered

vars == <<pending, decorated, items, hooks, auth, documents, built, failed, answer>>

Free == "free"        \* a function, there is nothing to bind
Unbound == "unbound"  \* a method nobody has bound to an instance yet
NoHooks == [error |-> "none", result |-> "none"]
Hook == {"none", "given", "raises"}
NoAnswer == [served |-> FALSE]

\* The two plain routes _mount_docs() adds for each ApiRouter, numbered after the others.
DocsRoute(r, name) ==
  [key |-> <<Prefix[r], name>>, names |-> {}, handler |-> 0, class |-> Free, module |-> "aiobp", api |-> 0,
   json |-> name = "openapi.json", args |-> <<>>, result |-> "none", responses |-> <<>>,
   secure |-> "inherit", tag |-> "none"]
Routes == Decoration \o [i \in 1..(2 * Len(Prefix)) |->
                           DocsRoute((i + 1) \div 2, IF i % 2 = 1 THEN "openapi.json" ELSE "docs")]

(* ------------------------------ registration ----------------------------- *)

Entry(d) == [route |-> d, self |-> IF Routes[d].class = Free THEN Free ELSE Unbound,
             tag |-> Routes[d].tag, responses |-> Routes[d].responses]

\* Decorators of ApiRouter.route() and Router.route()
Decorate(d) ==
  /\ ~built \/ Late
  /\ d \notin decorated /\ Cardinality(decorated) < MaxDecorated
  /\ decorated' = decorated \cup {d}
  /\ pending' = Append(pending, Entry(d))
  /\ UNCHANGED <<items, hooks, auth, documents, built, failed, answer>>

At(i) == Routes[pending[i].route]
Matching(x) == {i \in DOMAIN pending : pending[i].self = Unbound /\ At(i).class = ClassOf[x]}

\* A method's route bound to an instance, an API route tagged with the class if it has no tag.
Bind(entry, x) == [entry EXCEPT !.self = x,
                                !.tag = IF @ = "none" /\ Routes[entry.route].api # 0 THEN ClassOf[x] ELSE @]

\* The members of S in order, where below[x] are those before x; the order of methods by name,
\* and of decoration.
InOrder(S, below) == [n \in 1..Cardinality(S) |-> CHOOSE x \in S : Cardinality(below[x]) = n - 1]
ByDecoration(S) == [i \in S |-> {j \in S : j < i}]
ByName(S) == [i \in S |-> {j \in S : \/ At(j).handler < At(i).handler
                                     \/ At(j).handler = At(i).handler /\ j < i}]

\* The routes at one half of the indexes stay, those at the other are bound and go to the end.
Rebound(rest, found, x) == [i \in DOMAIN rest |-> pending[rest[i]]]
                           \o [i \in DOMAIN found |-> Bind(pending[found[i]], x)]

\* Mutant: of a method that is decorated several times one route is bound, the others are gone.
IncludeOne(x) ==
  LET once == {i \in Matching(x) : \A j \in Matching(x) : At(j).handler = At(i).handler => i <= j}
      others == DOMAIN pending \ Matching(x)
  IN /\ pending' = Rebound(InOrder(others, ByDecoration(others)), InOrder(once, ByName(once)), x)
     /\ UNCHANGED <<decorated, items, hooks, auth, documents, built, failed, answer>>

\* include(instance): the routes of its methods go to the end, in the order of the names of the
\* methods, and of decoration for one of them.
Include(x) ==
  LET bound == Matching(x)
      others == DOMAIN pending \ Matching(x)
  IN /\ pending' = Rebound(InOrder(others, ByDecoration(others)), InOrder(bound, ByName(bound)), x)
     /\ UNCHANGED <<decorated, items, hooks, auth, documents, built, failed, answer>>

\* include(module): a tag and responses for the API routes of the module that lack them.
IncludeModule(m) ==
  /\ pending' = [i \in DOMAIN pending |->
       IF At(i).api = 0 \/ At(i).module # m THEN pending[i]
       ELSE [pending[i] EXCEPT !.tag = IF @ = "none" THEN Module[m].tag ELSE @,
                               !.responses = Over(@, Module[m].responses)]]
  /\ UNCHANGED <<decorated, items, hooks, auth, documents, built, failed, answer>>

SetupCalls == Cardinality({r \in Api : hooks[r] # NoHooks})
              + FoldFunction(LAMBDA a, n : Len(a.schemes) + n, 0, auth)

\* on_error and on_result are read when a route is registered, setting them later does nothing.
SetHooks(r) == \E error, result \in Hook :
  /\ ~built /\ SetupCalls < MaxSetup
  /\ hooks' = [hooks EXCEPT ![r] = [error |-> error, result |-> result]]
  /\ UNCHANGED <<pending, decorated, items, auth, documents, built, failed, answer>>

\* add_bearer_auth() and add_oauth2(), for all routes of the document or for those that ask for it.
AddAuth(r) == \E scheme \in {"BearerAuth", "OAuth2"}, global \in BOOLEAN :
  /\ ~built /\ SetupCalls < MaxSetup
  /\ auth' = [auth EXCEPT ![r] = [schemes |-> IF scheme \in ToSet(@.schemes) THEN @.schemes
                                              ELSE Append(@.schemes, scheme),
                                  global |-> @.global \cup (IF global THEN {scheme} ELSE {})]]
  /\ UNCHANGED <<pending, decorated, items, hooks, documents, built, failed, answer>>

\* A registered route: plain routes have no hooks.
Item(entry) == [route |-> entry.route, self |-> entry.self, tag |-> entry.tag, responses |-> entry.responses,
                hooks |-> IF Routes[entry.route].api = 0 THEN NoHooks ELSE hooks[Routes[entry.route].api]]

\* An entry of a batch is not registered that is a duplicate within it, has nobody to be self, or
\* an argument that is not Annotated.
Unregistered(batch, i) ==
  \/ batch[i].self = Unbound
  \/ \E j \in 1..(i - 1) : Routes[batch[j].route].key = Routes[batch[i].route].key
  \/ \E a \in ToSet(Routes[batch[i].route].args) : a.source = "bare"

\* What the document of an ApiRouter is made of, and whether add_route() raises at the last of it.
Entries(batch, r) == {entry \in ToSet(batch) : Routes[entry.route].api = r}
TypesIn(batch, r) == UNION {TypesOf(Routes[entry.route], entry.responses) : entry \in Entries(batch, r)}
Undocumented(batch, i) ==
  LET route == Routes[batch[i].route]
  IN route.api # 0 /\ Undocumentable(route, TypesIn(SubSeq(batch, 1, i), route.api), auth[route.api])

\* _process_pending() stops at the first entry that raises, one that add_route() raises at is
\* registered by then.
Stops(batch) == SelectInSeq([i \in DOMAIN batch |-> i],
                            LAMBDA i : Unregistered(batch, i) \/ Undocumented(batch, i))
Items(batch) ==
  LET stop == Stops(batch)
      last == IF stop = 0 THEN Len(batch) ELSE IF Unregistered(batch, stop) THEN stop - 1 ELSE stop
  IN [i \in 1..last |-> Item(batch[i])]

\* The openapi.json of an ApiRouter.
Document(batch, r) ==
  [paths |-> [key \in {Routes[entry.route].key : entry \in Entries(batch, r)} |->
     LET entry == CHOOSE entry \in Entries(batch, r) : Routes[entry.route].key = key
     IN Operation(Routes[entry.route], entry.tag, entry.responses, auth[r])],
   schemas |-> Schemas(TypesIn(batch, r))]

Docs == [i \in 1..(2 * Len(Prefix)) |-> Entry(Len(Decoration) + i)]

\* build() registers what is pending, then the docs; once it has begun it is never done again.
Build ==
  /\ ~built
  /\ built' = TRUE
  /\ IF Stops(pending) # 0
       THEN /\ items' = Items(pending)
            /\ failed' = TRUE /\ UNCHANGED <<pending, documents>>
       ELSE /\ items' = Items(pending) \o Items(Docs)
            /\ documents' = [r \in Api |-> Document(pending, r)]
            /\ failed' = (Stops(Docs) # 0)
            /\ pending' = IF Stops(Docs) # 0 THEN Docs ELSE <<>>
  /\ UNCHANGED <<decorated, hooks, auth, answer>>

(* -------------------------------- requests ------------------------------- *)

\* What a request may hold for a route: the path has values for its names, never empty ones, and
\* fields come in a body that can be decoded.
Requests(route) ==
  LET used == UNION {Places(route.args[i]) : i \in DOMAIN route.args}
      fits(p, v, q) == CASE p[1] = "path" -> v \in IF p[2] \in route.names THEN {"good", "bad"} ELSE {"absent"}
                         [] p[1] = "body_key" -> q[Body] = "good" \/ v = "absent"
                         [] p[1] = "inject" -> v # "empty"
                         [] OTHER -> TRUE
  IN {q \in [used -> Raw] : \A p \in used : fits(p, q[p], q)}

Response(status, body) == [status |-> status, body |-> body, problems |-> {}]
Escapes == Response(500, "aiohttp")   \* an exception aiohttp itself turns into an answer

\* _handle_unexpected_error()
UnexpectedError(item) ==
  CASE item.hooks.error = "given" -> Response(500, "envelope")
    [] item.hooks.error = "raises" -> Escapes
    [] item.hooks.error = "none" /\ Routes[item.route].api # 0 -> Response(500, "Internal Server Error")
    [] item.hooks.error = "none" /\ Routes[item.route].api = 0 -> Escapes

\* An exception of gather_args(): a plain route tells any HTTPException as 400 with plain text.
ArgumentsFailed(item, gathered) ==
  CASE gathered.kind = "error" -> UnexpectedError(item)
    [] gathered.kind # "error" /\ Routes[item.route].api = 0 -> Response(400, "text")
    [] gathered.kind = "http" /\ Routes[item.route].api # 0 -> Response(401, "http")
    [] gathered.kind = "validation" /\ Routes[item.route].api # 0 ->
         [Response(400, "errors") EXCEPT !.problems = gathered.problems]

\* encode_response(): a response is what it is, and an object may be no JSON.
EncodeResponse(item, did) ==
  CASE did = "response" /\ item.hooks.result = "none" -> Response(206, "result")
    [] did = "opaque" /\ Routes[item.route].json -> Escapes
    [] OTHER -> Response(200, IF item.hooks.result = "given" THEN "enveloped" ELSE "result")

\* The outcome of the handler.
HandlerEnded(item, did) ==
  CASE did = "http" -> Response(404, "http")
    [] did = "raised" -> UnexpectedError(item)
    [] did \in {"result", "opaque", "response"} ->
         IF item.hooks.result = "raises" THEN Escapes ELSE EncodeResponse(item, did)

\* wrapped(): the handler runs when all arguments are there.
Serve(i) == \E request \in Requests(Routes[items[i].route]) :
  LET gathered == GatherArgs(Routes[items[i].route].args, request)
      ran == gathered.kind = "args"
  IN /\ built /\ ~failed /\ answer = NoAnswer
     /\ \E did \in IF ran THEN {"result", "opaque", "response", "http", "raised"} ELSE {"nothing"} :
          answer' = [served |-> TRUE, item |-> items[i], request |-> request, ran |-> ran, did |-> did,
                     response |-> IF ran THEN HandlerEnded(items[i], did)
                                  ELSE ArgumentsFailed(items[i], gathered)]
     /\ UNCHANGED <<pending, decorated, items, hooks, auth, documents, built, failed>>

Served == /\ answer # NoAnswer
          /\ answer' = NoAnswer
          /\ UNCHANGED <<pending, decorated, items, hooks, auth, documents, built, failed>>

(* ---------------------------------- spec --------------------------------- *)

Init == /\ pending = <<>> /\ decorated = {} /\ items = <<>> /\ built = FALSE /\ failed = FALSE
        /\ hooks = [r \in Api |-> NoHooks]
        /\ auth = [r \in Api |-> [schemes |-> <<>>, global |-> {}]]
        /\ documents = <<>>
        /\ answer = NoAnswer

Next == \/ \E d \in DOMAIN Decoration : Decorate(d)
        \/ \E x \in Object : Include(x)
        \/ \E m \in DOMAIN Module : IncludeModule(m)
        \/ \E r \in Api : SetHooks(r) \/ AddAuth(r)
        \/ Build \/ Served
        \/ \E i \in DOMAIN items : Serve(i)

Spec == Init /\ [][Next]_vars

(* -------------------------------- properties ----------------------------- *)

\* build() that did not raise serves each route that was decorated exactly once, bound to an
\* instance of its class if it is a method, and no two of them have the same method and path.
RoutesServed ==
  built /\ ~failed =>
    LET own == {i \in DOMAIN items : items[i].route \in DOMAIN Decoration}
    IN /\ pending = <<>>
       /\ {items[i].route : i \in own} = decorated
       /\ \A i, j \in own : i # j => Routes[items[i].route].key # Routes[items[j].route].key
       /\ \A i \in own : LET it == items[i]
                         IN IF Routes[it.route].class = Free THEN it.self = Free
                            ELSE it.self \in Object /\ ClassOf[it.self] = Routes[it.route].class

\* An argument the handler cannot be called without, or whose value is not of its type.
Wrong(a, request) ==
  CASE a.source \in Itemized ->
         LET sent == {f \in Fields(a.type) : request[<<PartOf(a.source), f>>] # "absent"}
         IN IF sent = {} THEN ~a.optional
            ELSE \/ ~(Struct[a.type].required \subseteq sent)
                 \/ \E f \in sent : request[<<PartOf(a.source), f>>] # "good"
    [] a.source = "body" ->
         a.type # "bytes" /\ (request[Body] = "bad" \/ (request[Body] # "good" /\ ~a.optional))
    [] OTHER ->
         LET v == FirstValue(a, request)
         IN \/ a.source = "body_key" /\ request[Body] = "bad"
            \/ v = "bad" /\ (a.meta \/ a.type # "str")
            \/ (v = "absent" \/ (v = "empty" /\ a.type # "str")) /\ ~a.optional /\ ~a.default

\* The handler runs with all its arguments or not at all; a client that sent wrong ones is told
\* 400, by an API route with all of them; no exception of an API route gets out as it is, unless
\* a hook raises or the result is no JSON.
AnswerFits ==
  answer.served =>
    LET r == Routes[answer.item.route]
        wrong == {i \in DOMAIN r.args : r.args[i].source # "inject" /\ Wrong(r.args[i], answer.request)}
        broken == {i \in DOMAIN r.args : r.args[i].source = "inject"
                                         /\ FirstValue(r.args[i], answer.request) # "good"}
    IN /\ answer.ran <=> wrong = {} /\ broken = {}
       /\ wrong # {} /\ broken = {} => /\ answer.response.status = 400
                                       /\ r.api # 0 => answer.response.problems = wrong
       /\ r.api # 0 /\ answer.did # "opaque" /\ "raises" \notin {answer.item.hooks.error, answer.item.hooks.result}
            => answer.response # Escapes

\* The operation of the route served last, whether the service it injects was there, and whether a
\* place of the request has something.
Told == documents[Routes[answer.item.route].api].paths[Routes[answer.item.route].key]
ServiceThere == \A p \in DOMAIN answer.request : p[1] = "inject" => answer.request[p] = "good"
Sent(p) == p \in DOMAIN answer.request /\ answer.request[p] # "absent"

\* The places openapi.json says are required, without those of a whole body.
RequiredPlaces == {<<p.in, p.name>> : p \in {p \in Told.parameters : p.required}}
                  \cup (IF Told.body.kind = "fields" THEN {"body_key"} \X Told.body.required ELSE {})

\* openapi.json tells a client what the handler does: a request without something that is required
\* there is refused, one that has all of it and nothing wrong is not, and the status of either is
\* one of the responses, unless the handler or an injected type chose another.
DocumentFits ==
  answer.served /\ Routes[answer.item.route].api # 0 /\ ServiceThere =>
    /\ (\E p \in RequiredPlaces : ~Sent(p)) => answer.response.status = 400
    /\ /\ \A p \in RequiredPlaces \cup (IF Told.body.kind = "whole" THEN {Body} ELSE {}) : Sent(p)
       /\ \A p \in DOMAIN answer.request : answer.request[p] \in {"absent", "good"}
       => answer.ran
    /\ answer.did \notin {"http", "response"} => answer.response.status \in DOMAIN Told.responses

\* Every schema openapi.json refers to by name is the one of the type that was meant, and every API
\* route is in the document of its own ApiRouter.
RefsResolve ==
  built /\ ~failed => \A i \in DOMAIN items :
    LET r == Routes[items[i].route].api
    IN r # 0 => /\ Routes[items[i].route].key \in DOMAIN documents[r].paths
                /\ \A t \in Reachable(TypesOf(Routes[items[i].route], items[i].responses)) :
                     documents[r].schemas[Struct[t].name] = Component(t)

(* ------------------- what the code does not keep -------------------------- *)

\* docs/aiohttp.md:175: a method's API route without a tag of its own is tagged with its class.
ClassTagged ==
  \A i \in DOMAIN items : items[i].self \in Object /\ Routes[items[i].route].api # 0 /\ Routes[items[i].route].tag = "none"
                          => items[i].tag = ClassOf[items[i].self]

\* The document says of a body whether a request without it is refused.
BodyFits ==
  answer.served /\ Routes[answer.item.route].api # 0 /\ ServiceThere /\ Told.body.kind # "none" /\ ~Sent(Body)
    => answer.response.status = 400

\* What a factory answers the client with, 401 say, is what the client gets.
InjectedErrorKept ==
  answer.served =>
    \A i \in DOMAIN Routes[answer.item.route].args :
      LET a == Routes[answer.item.route].args[i]
      IN a.source = "inject" /\ FirstValue(a, answer.request) = "absent"
           /\ (\A j \in DOMAIN Routes[answer.item.route].args : j # i => ~Wrong(Routes[answer.item.route].args[j], answer.request))
           => answer.response.status = 401

=============================================================================
