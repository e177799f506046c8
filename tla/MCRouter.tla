------------------------------ MODULE MCRouter ------------------------------
(***************************************************************************)
(* Instances of Router: functions and a method that is decorated twice, in *)
(* a class with two instances, routes of two ApiRouters and plain ones,    *)
(* two of them with the same key, and two types with the same name.        *)
(***************************************************************************)
EXTENDS Router, TLC

CONSTANTS x, y

Classes == (x :> "K") @@ (y :> "K")
Modules == "users" :> [tag |-> "Users", responses |-> (404 :> "Gone")]
Versions == <<"/v1", "/v2">>

Type(name, required, optional, refs) == [name |-> name, required |-> required, optional |-> optional, refs |-> refs]

\* Page and OtherPage refer to different types that are both named Item; a Shelf has books of pages.
Types == ("Item" :> Type("Item", {"id"}, {}, {})) @@ ("OtherItem" :> Type("Item", {"id", "at"}, {}, {}))
  @@ ("Page" :> Type("Page", {"items"}, {}, {"Item"})) @@ ("OtherPage" :> Type("Others", {"items"}, {}, {"OtherItem"}))
  @@ ("Paging" :> Type("Paging", {"limit"}, {"offset"}, {})) @@ ("Gone" :> Type("Gone", {"why"}, {}, {}))
  @@ ("Shelf" :> Type("Shelf", {"books"}, {}, {"Book"})) @@ ("Book" :> Type("Book", {"pages"}, {}, {"Page"}))
  @@ ("Tree" :> Type("Tree", {}, {"parent"}, {"Tree"}))
  @@ ("ValidationErrorResponse" :> Type("ValidationErrorResponse", {"errors"}, {}, {}))
  @@ ("ServerErrorResponse" :> Type("ServerErrorResponse", {"error"}, {}, {}))

Id == Argument("id", "any", "int", FALSE, FALSE, TRUE)
Number == Argument("n", "any", "int", FALSE, FALSE, FALSE)
Agent == Argument("agent", "header", "str", TRUE, FALSE, FALSE)
Limit == Argument("limit", "query", "int", FALSE, TRUE, TRUE)
List == Argument("list", "query_items", "Paging", FALSE, FALSE, TRUE)
Whole == Argument("item", "body", "Item", FALSE, TRUE, TRUE)
File == Argument("file", "body", "bytes", FALSE, FALSE, TRUE)
Field == Argument("field", "body_key", "int", FALSE, FALSE, TRUE)
Note == Argument("note", "body_key", "str", TRUE, FALSE, TRUE)
Service == Argument("service", "inject", "Service", FALSE, FALSE, FALSE)
Unmarked == Argument("n", "bare", "int", FALSE, FALSE, FALSE)
Aliased == [Argument("token", "header", "str", FALSE, FALSE, TRUE) EXCEPT !.key = "X-Token"]

Route(name, handler, class, api, args, result) ==
  [key |-> <<"", name>>, names |-> {"id"}, handler |-> handler, class |-> class, module |-> "users", api |-> api,
   json |-> api # 0, args |-> args, result |-> result, responses |-> <<>>, secure |-> "inherit", tag |-> "none"]

Various == <<Route("a", 1, Free, 1, <<Id, Agent>>, "Page"),
           Route("b", 2, "K", 1, <<Service, Field, Note>>, "Item"),
           Route("c", 2, "K", 0, <<Whole>>, "str"),
           [Route("a", 3, Free, 1, <<Service, Limit>>, "str") EXCEPT !.secure = "no"],
           Route("d", 4, Free, 2, <<List, Whole>>, "OtherPage"),
           [Route("e", 5, Free, 1, <<File>>, "OtherPage") EXCEPT !.secure = "yes", !.json = FALSE],
           Route("f", 6, Free, 2, <<Unmarked>>, "str"),
           Route("g", 7, Free, 2, <<>>, "Tree")>>

\* An argument without a Meta; a header looked up under another name than the documented one; a
\* body that need not be there; a method; an injected type of a plain route.
Others == <<Route("a", 1, Free, 1, <<Number, Agent>>, "str"), Route("d", 1, Free, 1, <<Aliased>>, "str"),
           Route("e", 5, Free, 1, <<File>>, "str"), Route("b", 2, "K", 1, <<>>, "str"),
           Route("c", 2, "K", 0, <<Service>>, "str")>>

\* What RefersTo has of a struct is the least that has what the struct refers to, and all they do.
ASSUME RefersToIsLeast ==
  \A t \in DOMAIN Types :
    LET Closed(S) == \A u \in S \cup {t} : Types[u].refs \subseteq S
    IN Closed(RefersTo[t]) /\ \A S \in SUBSET DOMAIN Types : Closed(S) => RefersTo[t] \subseteq S
=============================================================================
