----------------------------- MODULE MCStartup ------------------------------
(* The configuration class, the files and the blocks TLC checks Startup with. *)
EXTENDS Startup

CONSTANTS main, child

Field(type, default, factory) == [type |-> type, required |-> FALSE, default |-> default, factory |-> factory]
Needed(type, factory) == [type |-> type, required |-> TRUE, default |-> "none", factory |-> factory]

\* log: LoggingConfig = None, a required section with another in it, and one with a default of
\* its own.
Service ==
  ( <<"log">> :> Field("section", "none", "none")
    @@ <<"log", "level">> :> Field("str", LoggingConfig.level, "no section")
    @@ <<"log", "console">> :> Field("str", LoggingConfig.console, "no section")
    @@ <<"log", "filename">> :> Field("str or None", LoggingConfig.filename, "no section")
    @@ <<"log", "otel_endpoint">> :> Field("str or None", LoggingConfig.otel_endpoint, "no section")
    @@ <<"root">> :> Needed("section", "none")
    @@ <<"root", "allow">> :> Field("bool", "false", "none")
    @@ <<"root", "users">> :> Field("list", "", "none")
    @@ <<"root", "limits">> :> Needed("section", "none")
    @@ <<"root", "limits", "size">> :> Field("int", "0", "none")
    @@ <<"mail">> :> Field("section", "none", "none")
    @@ <<"mail", "port">> :> Needed("int", "5")
    @@ <<"mail", "tls">> :> Field("bool", "false", "true") )

Log1 == <<"log", "level">> :> "DEBUG" @@ <<"log", "otel_endpoint">> :> "up:4317"
Log2 == <<"log", "level">> :> "ERROR" @@ <<"log", "filename">> :> "service.log"

Files == { <<>>, Log1, Log2,
           <<"log", "console">> :> "verbose",
           <<"root", "limits", "size">> :> "5",
           <<"root", "limits", "size">> :> "many",
           <<"root", "allow">> :> "true" @@ <<"root", "users">> :> "a,b",
           <<"mail", "tls">> :> "true",
           <<"mail", "port">> :> "0",
           <<"mail", "port">> :> "many" }

\* Other spellings, sections with nothing in them.
OtherFiles == { <<>>, Log1, <<"root", "allow">> :> "True", <<"mail">> :> "" }

Some == { [format |-> "json", settings |-> Log1] }

Call(context, traceparent, suppress, errorsOnly, uses) ==
  [context |-> context, traceparent |-> traceparent, suppress |-> suppress,
   errorsOnly |-> errorsOnly, uses |-> uses]

Calls == { Call("none", "none", {"KeyError"}, FALSE, TRUE),
           Call("none", "remote", {"KeyError", "AttributeError"}, FALSE, FALSE),
           Call("none", "none", {}, TRUE, FALSE) }

\* A service that asks traced() to suppress what is not derived from Exception.
Cancelling == { Call("none", "none", {"Cancelled"}, FALSE, FALSE) }

\* A service that uses what `async with traced(...) as span' gives it.
Using == { Call("none", "none", {}, TRUE, TRUE) }

Starts == { [context |-> "none", traceparent |-> "malformed"] }
Depth == [t \in Task |-> IF t = Main THEN 2 ELSE 1]

Suppressing == { [suppress |-> {"KeyError", "Cancelled"}, mute |-> {"KeyError"}] }
=============================================================================
