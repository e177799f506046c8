------------------------------ MODULE Tracing -------------------------------
(***************************************************************************)
(* Tasks of a service in blocks of traced() and start_span()               *)
(* (aiobp/tracing.py) and of suppress_and_log (aiobp/logging).  A span is  *)
(* known by its number; each task has a current one, inherited from the    *)
(* task that created it.                                                   *)
(***************************************************************************)
EXTENDS Logging

CONSTANTS
  Task, Main,    \* tasks, and the first of them
  Exception,     \* classes of exceptions
  Error,         \* those derived from Exception
  TracedCall,    \* calls of traced(): [context, traceparent, suppress, errorsOnly, uses]
  StartCall,     \* calls of start_span(): [context, traceparent]
  SuppressCall,  \* calls of suppress_and_log: [suppress, mute]
  MaxDepth,      \* bound: blocks of each task
  MaxSpan,       \* bound: spans
  Quiet          \* no exception

ASSUME TracingConstants ==
  /\ Main \in Task /\ Error \subseteq Exception /\ Quiet \notin Exception
  /\ MaxDepth \in [Task -> Nat] /\ MaxSpan \in Nat
  /\ \A call \in TracedCall \cup SuppressCall : call.suppress \subseteq Exception

VARIABLES
  tracer,   \* _tracer is set
  state,    \* of each task: "new", "run" or "done"
  stack,    \* of each task: the blocks it is in, the innermost last
  flying,   \* of each task: the exception on its way out
  current,  \* of each task: the span of its context
  spans,    \* [parent, error, ended, call, outer] of each; call and outer are history:
            \* what it was asked with, and the current span when that was
  manual    \* spans of start_span() not ended yet

traceVars == <<tracer, state, stack, flying, current, spans, manual>>

None == 0              \* no span
Remote == MaxSpan + 1  \* the span of a traceparent, in another process

Runs(t) == state[t] = "run" /\ flying[t] = Quiet

\* The parent of a span: context goes first, then what extract() makes of traceparent, which is
\* a context without a span if it cannot be read.
Parent(call, within) ==
  LET given == IF call.context # "none" THEN call.context ELSE call.traceparent
  IN CASE given = "none" -> within
       [] given = "remote" -> Remote
       [] OTHER -> None

NewSpan(call, t, outer) == [parent |-> Parent(call, current[t]), error |-> FALSE, ended |-> FALSE,
                            call |-> call, outer |-> outer]

Lazy == UNION {{<<t, i>> : i \in {i \in DOMAIN stack[t] : stack[t][i].path = "lazy"}} : t \in Task}
Room == Len(spans) + Cardinality(Lazy) < MaxSpan

TracingInit ==
  /\ tracer = FALSE /\ spans = <<>> /\ manual = {}
  /\ state = [t \in Task |-> IF t = Main THEN "run" ELSE "new"]
  /\ stack = [t \in Task |-> <<>>]
  /\ flying = [t \in Task |-> Quiet]
  /\ current = [t \in Task |-> None]

\* setup_tracing()
SetupTracing(endpoint, installed, up) ==
  /\ tracer' = (endpoint \notin {"None", ""} /\ installed /\ EndpointReachable(endpoint, up))
  /\ UNCHANGED <<state, stack, flying, current, spans, manual, logVars>>

-----------------------------------------------------------------------------
(* Blocks.  A frame is [path, call, span, outer], with the path "off",      *)
(* "span" or "lazy" of a traced() and "suppress" of a suppress_and_log.     *)

Push(t, path, call, span) ==
  stack' = [stack EXCEPT ![t] = Append(@, [path |-> path, call |-> call, span |-> span, outer |-> current[t]])]

\* traced() until it yields: a span, a stand-in for one, or None which has no attributes.
EnterTraced(t, call) ==
  LET path == CASE ~tracer -> "off" [] tracer /\ call.errorsOnly -> "lazy" [] OTHER -> "span"
      span == IF path = "span" THEN Len(spans) + 1 ELSE None
  IN /\ Runs(t) /\ Len(stack[t]) < MaxDepth[t] /\ Room
     /\ Push(t, path, call, span)
     /\ spans' = IF path = "span" THEN Append(spans, NewSpan(call, t, current[t])) ELSE spans
     /\ current' = [current EXCEPT ![t] = IF path = "span" THEN span ELSE @]
     /\ flying' = [flying EXCEPT ![t] = IF path = "lazy" /\ call.uses THEN "AttributeError" ELSE @]
     /\ UNCHANGED <<tracer, state, manual, logVars>>

EnterSuppress(t, call) ==
  /\ Runs(t) /\ Len(stack[t]) < MaxDepth[t]
  /\ Push(t, "suppress", call, None)
  /\ UNCHANGED <<tracer, state, flying, current, spans, manual, logVars>>

Raise(t, e) ==
  /\ Runs(t)
  /\ flying' = [flying EXCEPT ![t] = e]
  /\ UNCHANGED <<tracer, state, stack, current, spans, manual, logVars>>

\* The innermost block is left without an exception.
Leave(t) ==
  LET f == Last(stack[t]) IN
  /\ Runs(t) /\ stack[t] # <<>>
  /\ stack' = [stack EXCEPT ![t] = Front(@)]
  /\ spans' = IF f.path = "span" THEN [spans EXCEPT ![f.span].ended = TRUE] ELSE spans
  /\ current' = [current EXCEPT ![t] = IF f.path = "span" THEN f.outer ELSE @]
  /\ UNCHANGED <<tracer, state, flying, manual, logVars>>

\* The innermost block is left by an exception, which goes on unless it is kept.
Unwinds(t, path, kept) == /\ state[t] = "run" /\ flying[t] # Quiet
                          /\ stack[t] # <<>> /\ Last(stack[t]).path = path
                          /\ stack' = [stack EXCEPT ![t] = Front(@)]
                          /\ flying' = [flying EXCEPT ![t] = IF kept THEN Quiet ELSE @]

UnwindOff(t) ==
  /\ Unwinds(t, "off", flying[t] \in Error /\ flying[t] \in Last(stack[t]).call.suppress)
  /\ UNCHANGED <<tracer, state, current, spans, manual, logVars>>

\* Mutant: the context is restored by the handler of an Exception only.
UnwindSpanCaught(t) ==
  LET f == Last(stack[t]) IN
  /\ Unwinds(t, "span", flying[t] \in Error /\ flying[t] \in f.call.suppress)
  /\ spans' = [spans EXCEPT ![f.span].ended = TRUE, ![f.span].error = flying[t] \in Error]
  /\ current' = [current EXCEPT ![t] = IF flying[t] \in Error THEN f.outer ELSE @]
  /\ UNCHANGED <<tracer, state, manual, logVars>>

\* What is no Exception ends the span, and leaves its status alone.
UnwindSpan(t) ==
  LET f == Last(stack[t]) IN
  /\ Unwinds(t, "span", flying[t] \in Error /\ flying[t] \in f.call.suppress)
  /\ spans' = [spans EXCEPT ![f.span].ended = TRUE, ![f.span].error = flying[t] \in Error]
  /\ current' = [current EXCEPT ![t] = f.outer]
  /\ UNCHANGED <<tracer, state, manual, logVars>>

\* Mutant: an exception that is reported is not raised again.
UnwindLazyKeeps(t) ==
  LET f == Last(stack[t]) IN
  /\ Unwinds(t, "lazy", flying[t] \in Error)
  /\ spans' = IF flying[t] \in Error
              THEN Append(spans, [NewSpan(f.call, t, f.outer) EXCEPT !.error = TRUE, !.ended = TRUE])
              ELSE spans
  /\ UNCHANGED <<tracer, state, current, manual, logVars>>

\* With errors_only the span is made now, and ends at once.
UnwindLazy(t) ==
  LET f == Last(stack[t]) IN
  /\ Unwinds(t, "lazy", flying[t] \in Error /\ flying[t] \in f.call.suppress)
  /\ spans' = IF flying[t] \in Error
              THEN Append(spans, [NewSpan(f.call, t, f.outer) EXCEPT !.error = TRUE, !.ended = TRUE])
              ELSE spans
  /\ UNCHANGED <<tracer, state, current, manual, logVars>>

\* suppress_and_log: what it keeps is logged unless it is mute about it.
UnwindSuppress(t) ==
  LET f == Last(stack[t]) IN
  /\ Unwinds(t, "suppress", flying[t] \in f.call.suppress)
  /\ IF flying[t] \in f.call.suppress \ f.call.mute THEN LogFunction ELSE UNCHANGED logVars
  /\ UNCHANGED <<tracer, state, current, spans, manual>>

-----------------------------------------------------------------------------
\* start_span(): its span is nobody's current one, anyone may end it.
StartSpan(t, call) ==
  /\ Runs(t) /\ tracer /\ Room
  /\ spans' = Append(spans, NewSpan(call, t, current[t]))
  /\ manual' = manual \cup {Len(spans) + 1}
  /\ UNCHANGED <<tracer, state, stack, flying, current, logVars>>

EndSpan(t, s) ==
  /\ Runs(t) /\ s \in manual
  /\ spans' = [spans EXCEPT ![s].ended = TRUE]
  /\ manual' = manual \ {s}
  /\ UNCHANGED <<tracer, state, stack, flying, current, logVars>>

\* create_task(): a task begins with a copy of the context it was created in.
CreateTask(t, u) ==
  /\ Runs(t) /\ state[u] = "new"
  /\ state' = [state EXCEPT ![u] = "run"]
  /\ current' = [current EXCEPT ![u] = current[t]]
  /\ UNCHANGED <<tracer, stack, flying, spans, manual, logVars>>

\* exception_handler() of a task, the exception hook for the first one.
Finish(t) ==
  /\ state[t] = "run" /\ stack[t] = <<>>
  /\ state' = [state EXCEPT ![t] = "done"]
  /\ flying' = [flying EXCEPT ![t] = Quiet]
  /\ current' = [current EXCEPT ![t] = None]
  /\ CASE t = Main /\ flying[t] # Quiet -> Uncaught(flying[t])
       [] t # Main /\ flying[t] \in Error -> LogFunction
       [] OTHER -> UNCHANGED logVars
  /\ UNCHANGED <<tracer, stack, spans, manual>>

TracingNext ==
  \E t \in Task :
     \/ \E call \in TracedCall : EnterTraced(t, call)
     \/ \E call \in StartCall : StartSpan(t, call)
     \/ \E call \in SuppressCall : EnterSuppress(t, call)
     \/ \E e \in Exception : Raise(t, e)
     \/ Leave(t)
     \/ UnwindOff(t) \/ UnwindSpan(t) \/ UnwindLazy(t) \/ UnwindSuppress(t)
     \/ \E s \in manual : EndSpan(t, s)
     \/ \E u \in Task : CreateTask(t, u)
     \/ Finish(t)

-----------------------------------------------------------------------------
(* Properties.                                                             *)

Open(t) == {i \in DOMAIN stack[t] : stack[t][i].path = "span"}

\* Whatever exceptions, cancellations and other tasks do: the span current_span() gives a task
\* is that of its innermost traced() block, a span is open just as long as its block, or until
\* end() if it is of start_span(), and one that no parent was given for, made late with
\* errors_only or not, has for parent what was current when its block was entered.
SpansRight ==
  /\ \A t \in Task : \A i \in Open(t) :
       state[t] = "run" /\ (\A j \in Open(t) : j <= i) => current[t] = stack[t][i].span
  /\ state[Main] = "run" /\ Open(Main) = {} => current[Main] = None
  /\ {s \in DOMAIN spans : ~spans[s].ended} = manual \cup UNION {{stack[t][i].span : i \in Open(t)} : t \in Task}
  /\ \A s \in DOMAIN spans :
       LET call == spans[s].call
       IN IF call.context = "none" /\ call.traceparent = "none" THEN spans[s].parent = spans[s].outer
          ELSE spans[s].parent \in {None, Remote} /\ (call.context = "remote" => spans[s].parent = Remote)

\* The blocks of a service keep just what they are asked to ("exception types to log-and-swallow
\* inside the span", README.md), whether tracing is on, off, or set up while they are open:
\* "Application code using traced() and current_span() works unchanged whether tracing is on or
\* off" (README.md).
Keeps(f) == f.call.suppress
B == INSTANCE Blocks WITH blocks <- [t \in Task |-> [i \in DOMAIN stack[t] |-> Keeps(stack[t][i])]]
=============================================================================
