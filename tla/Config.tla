------------------------------- MODULE Config -------------------------------
(***************************************************************************)
(* How the loaders of aiobp/config make a configuration of a file.  The    *)
(* class of a configuration and a document are functions from paths, the   *)
(* keys that lead to a field: a field that is a section has fields of its  *)
(* own below it.  A value is known by its type and its text.               *)
(***************************************************************************)
EXTENDS Naturals, Sequences, SequencesExt, TLC

CONSTANTS
  Class,      \* path -> [type, required, default, factory] of each field; factory is
              \* what it is in the default of the section it is in
  Number      \* texts that are numbers

Sections == {p \in DOMAIN Class : Class[p].type = "section"}
Leaves == DOMAIN Class \ Sections

ASSUME ClassTyped ==
  \A p \in DOMAIN Class : /\ DOMAIN Class[p] = {"type", "required", "default", "factory"}
                          /\ Class[p].type \in {"section", "str", "str or None", "int", "bool", "list"}
                          /\ Class[p].required \in BOOLEAN
                          /\ p \in Seq(STRING) /\ p # <<>>
                          /\ Len(p) = 1 \/ Front(p) \in Sections

Typed(type, text) == [type |-> type, text |-> text]
Table == Typed("section", "")
Null == Typed("null", "None")
Loaded(at) == [ok |-> TRUE, at |-> at]
Refused == [ok |-> FALSE, at |-> <<>>]

(* ------------------------------- documents ------------------------------- *)

Above(p) == {SubSeq(p, 1, n) : n \in 1 .. Len(p) - 1}

\* A file that says these settings (path -> text) as it is decoded: an INI file has only
\* texts, and its keys in lower case; a section without anything in it is null in YAML.
Decoded(format, settings) ==
  LET there == DOMAIN settings \cup UNION {Above(p) : p \in DOMAIN settings}
      empty(p) == p \in DOMAIN settings /\ ~ \E q \in DOMAIN settings : p \in Above(q)
      mistyped(p) == Class[p].type = "int" /\ settings[p] \notin Number
      field(p) == CASE format = "ini" -> Typed("str", settings[p])
                    [] format = "yaml" /\ settings[p] = "True" -> Typed("bool", "true")
                    [] format # "ini" /\ settings[p] = "null" -> Null
                    [] OTHER -> Typed(IF mistyped(p) THEN "str" ELSE Class[p].type, settings[p])
      section(p) == IF format = "yaml" /\ empty(p) THEN Null ELSE Table
      value(p) == IF p \in Leaves THEN field(p) ELSE section(p)
  IN [p \in there |-> value(p)]

\* Mutant: sections within sections are not filled.
FillTopOnly(doc) ==
  LET added == {p \in Sections \ DOMAIN doc : Class[p].required /\ Len(p) = 1}
  IN [p \in DOMAIN doc \cup added |-> IF p \in DOMAIN doc THEN doc[p] ELSE Table]

\* fill_sections(): a required section that is missing is added, within every section that is
\* there or was added.
FillSections(doc) ==
  LET filled(p) == IF p \in DOMAIN doc THEN doc[p] = Table ELSE Class[p].required
      added == {p \in Sections \ DOMAIN doc : \A q \in Above(p) \cup {p} : filled(q)}
  IN [p \in DOMAIN doc \cup added |-> IF p \in DOMAIN doc THEN doc[p] ELSE Table]

\* __retype(): int() of what is no number is a ValueError, a bool is TRUE for three texts only.
Retype(type, text) ==
  CASE type = "int" -> Typed(IF text \in Number THEN "int" ELSE "error", text)
    [] type = "bool" -> Typed("bool", IF text \in {"1", "true", "yes"} THEN "true" ELSE "false")
    [] type = "list" -> Typed("list", text)
    [] OTHER -> Typed("str", text)

IniTyper(doc) ==
  FillSections([p \in DOMAIN doc |-> IF p \in Leaves THEN Retype(Class[p].type, doc[p].text) ELSE doc[p]])

\* msgspec.convert(): the type of every value is that of its field, and nothing required is
\* missing in a section that is there.
Convert(doc) ==
  LET looked == {p \in DOMAIN Class : Len(p) = 1 \/ Front(p) \in DOMAIN doc}
      fits(p) == doc[p].type \in {Class[p].type} \cup (IF Class[p].type = "str or None" THEN {"str", "null"} ELSE {})
      refused == {p \in looked : IF p \in DOMAIN doc THEN ~fits(p) ELSE Class[p].required}
      value(p) == CASE p \in DOMAIN doc -> doc[p].text
                    [] p \in looked \ DOMAIN doc -> Class[p].default
                    [] OTHER -> Class[p].factory
  IN IF refused = {} THEN Loaded([p \in Leaves |-> value(p)]) ELSE Refused

(* -------------------------------- loading -------------------------------- *)

Document(format, file, settings) == IF file = "written" THEN Decoded(format, settings) ELSE <<>>

\* A file that is missing is like an empty one.
IniLoader(file, settings) == Convert(IniTyper(Document("ini", file, settings)))

\* Nothing at all is no JSON.
JsonLoader(file, settings) == IF file \in {"missing", "empty"} THEN Refused
                              ELSE Convert(FillSections(Document("json", file, settings)))

\* YAML with nothing in it is None.
YamlLoader(file, settings) == IF file = "missing" THEN Refused
                              ELSE Convert(FillSections(Document("yaml", file, settings)))

Load(format, file, settings) == CASE format = "ini" -> IniLoader(file, settings)
                                  [] format = "json" -> JsonLoader(file, settings)
                                  [] format = "yaml" -> YamlLoader(file, settings)
=============================================================================
