------------------------------ MODULE OpenApi -------------------------------
(***************************************************************************)
(* What OpenAPIBuilder (aiobp/aiohttp/_openapi.py) writes about a route:   *)
(* one operation, and the components its schemas refer to by the name of   *)
(* their type.  A schema is known by its type, texts are left out.         *)
(***************************************************************************)
EXTENDS Provider

\* Response bodies of the errors the router itself answers with.
ErrorTypes == [status \in {400, 500} |-> IF status = 400 THEN "ValidationErrorResponse" ELSE "ServerErrorResponse"]

\* Responses by status, those of r win.
Over(r, s) == [status \in DOMAIN r \cup DOMAIN s |-> IF status \in DOMAIN r THEN r[status] ELSE s[status]]

(* -------------------------------- schemas -------------------------------- *)

\* The structs the schema of each struct refers to, directly or through others.
RefersTo ==
  LET within[n \in 0..Cardinality(DOMAIN Struct)] ==
        IF n = 0 THEN [t \in DOMAIN Struct |-> Struct[t].refs]
        ELSE [t \in DOMAIN Struct |-> within[n - 1][t] \cup UNION {Struct[u].refs : u \in within[n - 1][t]}]
  IN within[Cardinality(DOMAIN Struct)]

Reachable(types) == LET own == types \cap DOMAIN Struct IN own \cup UNION {RefersTo[t] : t \in own}

\* A component refers to others by their names.
Component(type) == [required |-> Struct[type].required, optional |-> Struct[type].optional,
                    refs |-> {Struct[t].name : t \in Struct[type].refs}]

\* Mutant: only the types a route names are compared, not the ones they refer to.
CollidesDirectly(types) == \E t, u \in types \cap DOMAIN Struct : /\ Struct[t].name = Struct[u].name
                                                                  /\ Component(t) # Component(u)

\* _response_schema(): two different components of one name are a ValueError.
Collides(types) == \E t, u \in Reachable(types) : /\ Struct[t].name = Struct[u].name
                                                  /\ Component(t) # Component(u)

\* _example_for() follows the fields of a struct without end if one leads back to it.
Recursive(types) == \E t \in Reachable(types) : t \in RefersTo[t]

Schemas(types) == [name \in {Struct[t].name : t \in Reachable(types)} |->
                     Component(CHOOSE t \in Reachable(types) : Struct[t].name = name)]

(* ------------------------------- operations ------------------------------ *)

Documented(args) == {a \in ToSet(args) : a.source \notin {"inject", "bare"}}
\* Mutant: a default does not make an argument optional.
RequiredAnyway(a) == ~a.optional

Required(a) == ~a.optional /\ ~a.default

\* The parameters of an operation, the struct of a whole path or query field by field.
Parameters(args, names) ==
  LET single == {a \in Documented(args) : a.source \in {"any", "path", "query", "header", "cookie"}}
      whole == {a \in Documented(args) : a.source \in Itemized}
      where(a) == IF a.source # "any" THEN a.source ELSE IF a.name \in names THEN "path" ELSE "query"
  IN {[name |-> a.name, in |-> where(a), required |-> Required(a)] : a \in single}
     \cup UNION {{[name |-> f, in |-> PartOf(a.source),
                   required |-> a.source = "path_items" \/ f \in Struct[a.type].required] :
                  f \in Fields(a.type)} : a \in whole}

\* The body: a whole one, the last of them, hides the fields other arguments take from it.
RequestBody(args) ==
  LET whole == SelectLastInSeq(args, LAMBDA a : a.source = "body")
      fields == {a \in Documented(args) : a.source = "body_key"}
  IN CASE whole # 0 -> [kind |-> "whole", type |-> args[whole].type]
       [] whole = 0 /\ fields # {} -> [kind |-> "fields", properties |-> {a.name : a \in fields},
                                       required |-> {a.name : a \in {a \in fields : Required(a)}}]
       [] OTHER -> [kind |-> "none"]

\* What a status is answered with; the route's own responses win.
Responses(route, responses) == Over(responses, Over(ErrorTypes, [status \in {200} |-> route.result]))

\* The types an operation gives schemas for.
TypesOf(route, responses) ==
  {a.type : a \in {a \in Documented(route.args) : a.source \in Itemized \cup {"body"}}}
  \cup {route.result} \cup Range(ErrorTypes) \cup Range(responses)

\* Schemes of which one is asked for: the operation's own, none, or those of the whole document.
Security(route, auth) == CASE route.secure = "no" -> {}
                           [] route.secure = "yes" /\ auth.global = {} -> {Head(auth.schemes)}
                           [] OTHER -> auth.global

\* add_route()
Operation(route, tag, responses, auth) ==
  [parameters |-> Parameters(route.args, route.names), body |-> RequestBody(route.args),
   responses |-> Responses(route, responses), tag |-> tag, security |-> Security(route, auth)]

\* What makes add_route() raise, given the types the document has schemas of by then.
Undocumentable(route, types, auth) == \/ Collides(types) \/ Recursive(types)
                                      \/ auth.schemes = <<>> /\ route.secure = "yes"
=============================================================================
