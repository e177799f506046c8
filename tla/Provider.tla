------------------------------ MODULE Provider ------------------------------
(***************************************************************************)
(* How Provider (aiobp/aiohttp/_provider.py) takes the arguments of a      *)
(* handler from a request.  A request is a function from places, a part of *)
(* it and a key in that part, to what is there: nothing, an empty value, a *)
(* good or a bad one, that is, one that is not of the argument's type.     *)
(***************************************************************************)
EXTENDS Naturals, Sequences, FiniteSets, SequencesExt

CONSTANT Struct  \* the structs there are: [name, required, optional, refs] of each

ASSUME StructTyped == \A t \in DOMAIN Struct : /\ DOMAIN Struct[t] = {"name", "required", "optional", "refs"}
                                               /\ Struct[t].refs \subseteq DOMAIN Struct
                                               /\ Struct[t].required \cap Struct[t].optional = {}

Raw == {"absent", "empty", "good", "bad"}
Body == <<"body", "whole">>

\* An argument: its name and the key it is looked up with; its source, "any" without a marker,
\* "inject" for a registered type, "bare" without Annotated; whether it is Optional, has a
\* default, and a Meta to be validated against.
Argument(name, source, type, optional, default, meta) ==
  [name |-> name, key |-> name, source |-> source, type |-> type,
   optional |-> optional, default |-> default, meta |-> meta]

Sources == {"any", "path", "query", "header", "cookie", "path_items", "query_items",
            "body", "body_key", "inject", "bare"}
Arguments == [name : STRING, key : STRING, source : Sources, type : STRING,
              optional : BOOLEAN, default : BOOLEAN, meta : BOOLEAN]

\* What comes of one argument: a value, an ArgumentError, or another exception.
Value(v) == [kind |-> "value", value |-> v]
ArgumentError == [kind |-> "problem", value |-> "none"]
HTTPException == [kind |-> "http", value |-> "none"]
OtherError == [kind |-> "error", value |-> "none"]

Itemized == {"path_items", "query_items"}
PartOf(source) == IF source = "path_items" THEN "path" ELSE "query"
Fields(type) == Struct[type].required \cup Struct[type].optional

\* The places looked at for one value, in order.
SourcesFor(a) == CASE a.source = "any" -> <<<<"path", a.key>>, <<"query", a.key>>>>
                   [] a.source = "body" -> <<Body>>
                   [] OTHER -> <<<<a.source, a.key>>>>

\* All the places an argument depends on.
Places(a) == CASE a.source = "bare" -> {}
               [] a.source \in Itemized -> {PartOf(a.source)} \X Fields(a.type)
               [] a.source = "body_key" -> {Body, <<"body_key", a.key>>}
               [] OTHER -> ToSet(SourcesFor(a))

\* _getter(): the first place that has a value at all counts.
FirstValue(a, request) == LET i == SelectInSeq(SourcesFor(a), LAMBDA p : request[p] # "absent")
                          IN IF i = 0 THEN "absent" ELSE request[SourcesFor(a)[i]]

\* Mutant: only a value that is absent is missing.
FormatEmpty(a, raw) ==
  LET value == IF raw = "absent" THEN IF a.default THEN "default" ELSE "none" ELSE raw
  IN CASE value = "none" /\ a.optional -> Value("none")
       [] value = "none" /\ ~a.optional -> ArgumentError
       [] value = "bad" \/ (value = "empty" /\ a.type # "str") -> IF a.meta THEN ArgumentError ELSE OtherError
       [] OTHER -> Value(value)

\* An empty value is missing, but for a str; what is missing is the default, or None if that is
\* allowed.  Without a Meta the type is called with the value, and its ValueError is no
\* ArgumentError.
FormatValue(a, raw) ==
  LET missing == raw = "absent" \/ (raw = "empty" /\ a.type # "str")
      value == IF ~missing THEN raw ELSE IF a.default THEN "default" ELSE "none"
  IN CASE value = "none" /\ a.optional -> Value("none")
       [] value = "none" /\ ~a.optional -> ArgumentError
       [] value = "bad" /\ a.meta -> ArgumentError
       [] value = "bad" /\ ~a.meta /\ a.type # "str" -> OtherError
       [] OTHER -> Value(value)

\* A field of the body: a body that cannot be decoded is an ArgumentError.
GetBodyKey(a, request) ==
  IF request[Body] = "bad" THEN ArgumentError ELSE FormatValue(a, FirstValue(a, request))

\* Nothing there at all: a default counts for Optional types only.
Missing(a) == IF a.optional THEN Value(IF a.default THEN "default" ELSE "none") ELSE ArgumentError

\* The whole body: bytes are taken as they are.
GetBody(a, raw) == CASE a.type = "bytes" \/ raw = "good" -> Value(raw)
                     [] raw \in {"absent", "empty"} /\ a.type # "bytes" -> Missing(a)
                     [] raw = "bad" /\ a.type # "bytes" -> ArgumentError

\* The whole path or query, of which the fields of a struct of numbers are taken.
GetMapping(a, request) ==
  LET there == {f \in Fields(a.type) : request[<<PartOf(a.source), f>>] # "absent"}
      good == {f \in there : request[<<PartOf(a.source), f>>] = "good"}
  IN CASE there = {} -> Missing(a)
       [] there # {} /\ good = there /\ Struct[a.type].required \subseteq there -> Value("good")
       [] OTHER -> ArgumentError

\* An injected type is made by its factory, which may raise what it likes.
Inject(raw) == CASE raw = "good" -> Value("good")
                 [] raw = "absent" -> HTTPException
                 [] OTHER -> OtherError

Resolve(a, request) ==
  CASE a.source = "inject" -> Inject(FirstValue(a, request))
    [] a.source = "body_key" -> GetBodyKey(a, request)
    [] a.source = "body" -> GetBody(a, request[Body])
    [] a.source \in Itemized -> GetMapping(a, request)
    [] OTHER -> FormatValue(a, FirstValue(a, request))

\* gather_args(): problems are collected, any other exception is raised at once.
GatherArgs(args, request) ==
  LET came == [i \in DOMAIN args |-> Resolve(args[i], request).kind]
      raised == SelectInSeq(came, LAMBDA kind : kind \in {"http", "error"})
      problems == {i \in DOMAIN args : came[i] = "problem"}
  IN CASE raised # 0 -> [kind |-> came[raised], problems |-> {}]
       [] raised = 0 /\ problems # {} -> [kind |-> "validation", problems |-> problems]
       [] OTHER -> [kind |-> "args", problems |-> {}]
=============================================================================
