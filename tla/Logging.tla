------------------------------ MODULE Logging -------------------------------
(***************************************************************************)
(* The root logger as setup_logging() (aiobp/logging/custom.py) leaves it, *)
(* and what a service logs before and after.                               *)
(***************************************************************************)
EXTENDS Config, FiniteSetsExt

CONSTANT Devel  \* add_devel_log_level() was called first

Level == [DEVEL |-> 1, DEBUG |-> 10, INFO |-> 20, WARNING |-> 30, ERROR |-> 40, CRITICAL |-> 50]

VARIABLES
  handlers,  \* of the root logger: [to, level]
  level,     \* of the root logger
  hook       \* sys.excepthook: "python" or "log"

logVars == <<handlers, level, hook>>

LoggingConfig == [level |-> "DEBUG", console |-> "INFO", filename |-> "None", otel_endpoint |-> "None"]

LoggingInit == handlers = {} /\ level = Level.WARNING /\ hook = "python"

\* What a record of level n reaches; without a handler there is logging.lastResort.
Reached(n) == IF handlers = {} THEN {"last resort" : h \in {h \in {Level.WARNING} : n >= h}}
              ELSE {h.to : h \in {h \in handlers : n >= level /\ n >= h.level}}

\* logging.basicConfig() does nothing to a root logger with handlers.
BasicConfig(new, lowest) == IF handlers = {} THEN handlers' = new /\ level' = lowest
                            ELSE UNCHANGED <<handlers, level>>

\* The functions of aiobp.logging.log, those of the logging module, call it on their own.
LogFunction == BasicConfig({[to |-> "stderr", level |-> 0]}, level) /\ UNCHANGED hook

Known(name) == name \in DOMAIN Level /\ (name = "DEVEL" => Devel)

\* endpoint_reachable(): what cannot be parsed counts as reachable.
EndpointReachable(endpoint, up) == endpoint \in {"", "garbled"} \/ up

\* _setup_otel_logging() gives a handler.
OtelHandler(c, installed, up) == /\ c.otel_endpoint # "None"
                                 /\ installed
                                 /\ EndpointReachable(c.otel_endpoint, up)

\* The handlers of a configuration, by the name of the level each gets.
Handlers(c, installed, up) ==
  [to \in {"console"} \cup (IF c.filename # "None" THEN {"file"} ELSE {})
                      \cup (IF OtelHandler(c, installed, up) THEN {"otel"} ELSE {})
     |-> IF to = "console" THEN c.console ELSE c.level]

\* Mutant: the level of the root logger is that of the console.
RootOfConsole(c, named) == Level[c.console]

\* The root logger passes what the most verbose handler needs.
RootLevel(c, named) == Min({Level[named[to]] : to \in DOMAIN named})

\* setup_logging(), which raises for a level that has no such name.
SetupLogging(c, installed, up) ==
  LET named == Handlers(c, installed, up)
  IN /\ \A to \in DOMAIN named : Known(named[to])
     /\ BasicConfig({[to |-> to, level |-> Level[named[to]]] : to \in DOMAIN named}, RootLevel(c, named))
     /\ hook' = "log"

LoggingFails(c, installed, up) ==
  /\ \E name \in Range(Handlers(c, installed, up)) : ~Known(name)
  /\ UNCHANGED logVars

\* log_unhandled_exception(), but for KeyboardInterrupt, or Python's own hook.
Uncaught(e) == IF hook = "log" /\ e # "KeyboardInterrupt" THEN LogFunction ELSE UNCHANGED logVars
=============================================================================
