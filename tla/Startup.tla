------------------------------ MODULE Startup -------------------------------
(***************************************************************************)
(* A service that starts as README.md tells it to: it loads its            *)
(* configuration, calls setup_logging() and setup_tracing() with it, and   *)
(* its tasks run in blocks of traced() and suppress_and_log.               *)
(***************************************************************************)
EXTENDS Tracing

CONSTANTS
  Setting,  \* what configuration files say: functions from paths to texts
  Early,    \* tasks may run before setup_logging()
  Explored  \* bound: [format, settings] of the services whose tasks run

VARIABLES
  format,    \* of the file: "ini", "json" or "yaml"
  settings,  \* what it says
  file,      \* "none" is given, "missing", "empty" or "written"
  config,    \* what was loaded of it
  phase,     \* "load", "loaded" or "failed"
  logging,   \* what setup_logging() was given, once it returned: [set, c, otel]
  asked      \* setup_tracing() was called

startVars == <<format, settings, file, config, phase, logging, asked>>
vars == <<startVars, logVars, traceVars>>

\* An INI file has sections of texts only, JSON no other spelling of a bool than true and false.
Writable(f, s) ==
  /\ f = "ini" => \A p \in DOMAIN s : Len(p) = (IF p \in Sections THEN 1 ELSE 2) /\ s[p] # "null"
  /\ f = "json" => \A p \in DOMAIN s : s[p] # "True"

Init ==
  /\ format \in {"ini", "json", "yaml"}
  /\ settings \in {s \in Setting : Writable(format, s)}
  /\ file \in IF DOMAIN settings = {} THEN {"none", "empty", "missing"} ELSE {"written"}
  /\ config = Refused /\ phase = "load" /\ asked = FALSE
  /\ logging = [set |-> FALSE, c |-> LoggingConfig, otel |-> FALSE]
  /\ LoggingInit /\ TracingInit

LoadConfig ==
  /\ phase = "load"
  /\ config' = Load(format, file, settings)
  /\ phase' = IF config'.ok THEN "loaded" ELSE "failed"
  /\ UNCHANGED <<format, settings, file, logging, asked, logVars, traceVars>>

\* config.log, which may be None.
Log(key) == config.at[<<"log", key>>]
NoLog == Log("level") = "no section"
LogConfig == IF NoLog THEN LoggingConfig ELSE [key \in DOMAIN LoggingConfig |-> Log(key)]

StartLogging(installed, up) ==
  /\ phase = "loaded" /\ ~logging.set
  /\ SetupLogging(LogConfig, installed, up)
  /\ logging' = [set |-> TRUE, c |-> LogConfig, otel |-> OtelHandler(LogConfig, installed, up)]
  /\ UNCHANGED <<format, settings, file, config, phase, asked, traceVars>>

LoggingRefused(installed, up) ==
  /\ phase = "loaded" /\ ~logging.set
  /\ LoggingFails(LogConfig, installed, up)
  /\ phase' = "failed"
  /\ UNCHANGED <<format, settings, file, config, logging, asked, traceVars>>

\* setup_tracing() is called with config.log.otel_endpoint.
StartTracing(installed, up) ==
  /\ phase = "loaded" /\ ~asked /\ Runs(Main) /\ ~NoLog
  /\ SetupTracing(Log("otel_endpoint"), installed, up)
  /\ asked' = TRUE
  /\ UNCHANGED <<format, settings, file, config, phase, logging>>

NoEndpoint ==
  /\ phase = "loaded" /\ ~asked /\ Runs(Main) /\ NoLog
  /\ Uncaught("AttributeError")
  /\ phase' = "failed"
  /\ UNCHANGED <<format, settings, file, config, logging, asked, traceVars>>

Run ==
  /\ phase = "loaded" /\ (logging.set \/ Early) /\ [format |-> format, settings |-> settings] \in Explored
  /\ TracingNext
  /\ UNCHANGED startVars

Next ==
  \/ LoadConfig
  \/ \E installed, up \in BOOLEAN : \/ StartLogging(installed, up)
                                    \/ LoggingRefused(installed, up)
                                    \/ StartTracing(installed, up)
  \/ NoEndpoint
  \/ Run

Spec == Init /\ [][Next]_vars

-----------------------------------------------------------------------------
(* Properties.                                                             *)

\* What the settings of a file mean: a section that is left out is its default, or has the
\* defaults of its fields if it is required.
Meaning ==
  LET there == DOMAIN settings \cup UNION {Above(p) : p \in DOMAIN settings}
      omitted(p) == \E q \in Above(p) : q \notin there /\ ~Class[q].required
      wrong == {p \in DOMAIN settings \cap Leaves : Class[p].type = "int" /\ settings[p] \notin Number}
      lacking == {p \in Leaves \ there : Class[p].required /\ ~omitted(p)}
  IN IF wrong \cup lacking # {} THEN Refused
     ELSE Loaded([p \in Leaves |-> CASE p \in there -> settings[p]
                                     [] p \notin there /\ omitted(p) -> Class[p].factory
                                     [] OTHER -> Class[p].default])

\* The three loaders make the same configuration of the same settings, the one they mean, and
\* refuse the same ones (tests/test_config.py); one without a file is that of an empty one.
\* A missing file is none to the INI loader, and an empty one to the loaders for INI and YAML.
LoadersAgree ==
  phase # "load" /\ (file = "missing" => format = "ini") /\ (file = "empty" => format # "json")
    => config = Meaning

\* "empty file decodes to None" (aiobp/config/json.py): no setting is no error.
EmptyIsDefault == phase # "load" /\ file = "empty" => config = Meaning

\* After setup_logging() a record reaches just those handlers whose level it has: the root logger
\* passes what the most verbose one needs and no handler is lost.
RecordsReach ==
  logging.set =>
    \A n \in Range(Level) :
      Reached(n) = {to \in {"console", "file", "otel"} :
                      CASE to = "console" -> n >= Level[logging.c.console]
                        [] to = "file" -> logging.c.filename # "None" /\ n >= Level[logging.c.level]
                        [] to = "otel" -> logging.otel /\ n >= Level[logging.c.level]}

SameOutcome == B!Spec
=============================================================================
