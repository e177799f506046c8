------------------------------ MODULE Shutdown ------------------------------
(***************************************************************************)
(* The service runner of aiobp/runner.py and the tasks of aiobp/task.py:   *)
(* runner() waits for the service or a signal, then __graceful_shutdown()  *)
(* calls the registered callbacks, cancels and awaits every task, and      *)
(* calls the "after" callbacks, all within one time budget.  A restarting  *)
(* main loop may call shutdown_coroutines() by itself at the same time.    *)
(*                                                                         *)
(* One asyncio loop runs everything, so the code between two awaits is     *)
(* indivisible: `turn' names the caller of shutdown_coroutines() that is   *)
(* between two awaits; while it is Loop any ready task may take a step.    *)
(* Time is a number of ticks; it passes while the loop is idle (Tick) or   *)
(* inside a callback that is not a coroutine (CallPlain).                  *)
(***************************************************************************)
EXTENDS Integers, Sequences, FiniteSets, SequencesExt

CONSTANTS
  Coro,        \* callables given to on_shutdown()
  Nameless,    \* those without a __name__ (functools.partial, instances)
  Tid,         \* task identities
  Service,     \* the task of the service coroutine
  Restarters,  \* tasks that call shutdown_coroutines() explicitly
  Main,        \* the task that runs __graceful_shutdown()
  Loop,        \* turn: the event loop itself
  NoTask,      \* no callback task is awaited
  Timeout,     \* shutdown_timeout
  Endless,     \* runner(endless=...)
  MaxStart,    \* bound: no shutdown starts later than this tick
  MaxBlocked,  \* bound: ticks plain callbacks may keep the loop during shutdown
  MaxReg,      \* bound: calls of on_shutdown()
  MaxCalls     \* bound: explicit calls of shutdown_coroutines()

ASSUME ConstantsAssumption ==
  /\ Nameless \subseteq Coro
  /\ Service \in Tid /\ Restarters \subseteq Tid
  /\ Main \notin Tid /\ NoTask \notin Tid /\ Loop \notin Tid
  /\ Loop # Main
  /\ Timeout \in Nat /\ Endless \in BOOLEAN
  /\ MaxStart \in Nat /\ MaxBlocked \in Nat
  /\ MaxReg \in Nat /\ MaxCalls \in Nat

VARIABLES
  registry,   \* __on_shutdown: the registered callbacks, oldest first
  task,       \* the state of every task
  call,       \* the frame of shutdown_coroutines() of every caller
  turn,       \* who runs between two awaits
  phase,      \* where runner() is
  signalled,  \* SIGTERM or SIGINT has been handled
  tasks,      \* the tasks __shutdown_tasks() cancelled
  now,        \* the clock
  t0,         \* when __graceful_shutdown() started
  report,     \* what __graceful_shutdown() logged last
  closed,     \* loop_runner.close() was called
  blocked,    \* history: ticks plain callbacks kept the loop since t0
  registered, \* history: calls of on_shutdown(), by entry
  invoked,    \* history: callbacks called, by entry
  late,       \* history: entries registered after runner took its snapshot
  mine,       \* history: the tasks of the callbacks runner called
  calls       \* explicit calls of shutdown_coroutines() so far

vars == <<registry, task, call, turn, phase, signalled, tasks, now, t0, report,
          closed, blocked, registered, invoked, late, mine, calls>>

Entry == [coro : Coro, after : BOOLEAN]
Callers == {Main} \cup Restarters
Occurrences(s, e) == Cardinality({i \in DOMAIN s : s[i] = e})

\* A frame of shutdown_coroutines(): its arguments, what is left of the
\* snapshot, the awaited task, when the callback and its wait started.
Frame == [active : BOOLEAN, after : BOOLEAN, todo : Seq(Entry),
          cb : Tid \cup {NoTask}, timeout : Int, start : Int, since : Int]

Frame0 == [active |-> FALSE, after |-> FALSE, todo |-> <<>>, cb |-> NoTask,
           timeout |-> 0, start |-> 0, since |-> 0]

\* The call of shutdown_coroutines(timeout, after_tasks_cancel=after):
\* `for ... in __on_shutdown[::-1]' walks a reversed copy of the list.
NewFrame(after, timeout) ==
  [Frame0 EXCEPT !.active = TRUE, !.after = after,
                 !.todo = Reverse(registry), !.timeout = timeout]

Live(t) == task[t] \in {"run", "cancelling"}
LoopRuns == phase \notin {"done", "crashed"}
InShutdown == phase \in {"before", "yielded", "waiting", "after"}

\* Mutant of AfterCancel: the task counts as cancelled at once.
CancelAtOnce(s) == IF s = "run" THEN "cancelled" ELSE s

\* task.cancel(): CancelledError is delivered later, at the task's await.
AfterCancel(s) == IF s = "run" THEN "cancelling" ELSE s

Init ==
  /\ registry = <<>>
  /\ task = [t \in Tid |-> IF t = Service THEN "run" ELSE "unused"]
  /\ call = [c \in Callers |-> Frame0]
  /\ turn = Loop /\ phase = "running" /\ signalled = FALSE
  /\ tasks = {} /\ now = 0 /\ t0 = 0 /\ report = "none" /\ closed = FALSE
  /\ blocked = 0 /\ mine = {} /\ calls = 0
  /\ registered = [e \in Entry |-> 0]
  /\ invoked = [e \in Entry |-> 0]
  /\ late = [e \in Entry |-> 0]

-----------------------------------------------------------------------------
(* What the service, its tasks and the callbacks do.                       *)

\* Task t executes its own code: it is not inside shutdown_coroutines().
OwnCode(t) ==
  /\ LoopRuns /\ turn = Loop /\ task[t] = "run"
  /\ t \in Restarters => ~call[t].active

\* runner has taken the snapshot that should have held an entry of this kind.
SnapshotTaken(after) ==
  \/ phase = "after"
  \/ ~after /\ InShutdown

\* on_shutdown(coroutine, args, after_tasks_cancel)
OnShutdown(t, e) ==
  /\ OwnCode(t)
  /\ SumFunction(registered) < MaxReg
  /\ registry' = Append(registry, e)
  /\ registered' = [registered EXCEPT ![e] = @ + 1]
  /\ late' = [late EXCEPT ![e] = IF SnapshotTaken(e.after) THEN @ + 1 ELSE @]
  /\ UNCHANGED <<task, call, turn, phase, signalled, tasks, now, t0, report,
                 closed, blocked, invoked, mine, calls>>

\* aiobp.create_task()
CreateTask(t, u) ==
  /\ OwnCode(t) /\ task[u] = "unused"
  /\ task' = [task EXCEPT ![u] = "run"]
  /\ UNCHANGED <<registry, call, turn, phase, signalled, tasks, now, t0, report,
                 closed, blocked, registered, invoked, late, mine, calls>>

\* The coroutine returns or raises; exception_handler() swallows what it raises.
TaskEnds(t) ==
  /\ OwnCode(t)
  /\ task' = [task EXCEPT ![t] = "done"]
  /\ UNCHANGED <<registry, call, turn, phase, signalled, tasks, now, t0, report,
                 closed, blocked, registered, invoked, late, mine, calls>>

\* CancelledError is raised at the await of t: it leaves shutdown_coroutines()
\* if t is inside it; t ends, or handles the error and runs on.
CancelDelivered(t, ends) ==
  /\ LoopRuns /\ turn = Loop /\ task[t] = "cancelling"
  /\ task' = [task EXCEPT ![t] = IF ends THEN "done" ELSE "run"]
  /\ call' = IF t \in Restarters THEN [call EXCEPT ![t] = Frame0] ELSE call
  /\ UNCHANGED <<registry, turn, phase, signalled, tasks, now, t0, report,
                 closed, blocked, registered, invoked, late, mine, calls>>

\* The restarting main loop calls shutdown_coroutines() explicitly.
CallExplicitly(r, after, timeout) ==
  /\ OwnCode(r) /\ calls < MaxCalls
  /\ calls' = calls + 1
  /\ call' = [call EXCEPT ![r] = NewFrame(after, timeout)]
  /\ turn' = r
  /\ UNCHANGED <<registry, task, phase, signalled, tasks, now, t0, report,
                 closed, blocked, registered, invoked, late, mine>>

UserStep ==
  \/ \E t \in Tid, e \in Entry : OnShutdown(t, e)
  \/ \E t, u \in Tid : CreateTask(t, u)
  \/ \E t \in Tid : TaskEnds(t)
  \/ \E t \in Tid, ends \in BOOLEAN : CancelDelivered(t, ends)
  \/ \E r \in Restarters, after \in BOOLEAN, timeout \in 0 .. Timeout :
       CallExplicitly(r, after, timeout)

-----------------------------------------------------------------------------
(* shutdown_coroutines(), run by c: one action per way round its loop.     *)

\* The next callback of c's snapshot that c has to call.
NextEntry(c) == Head(call[c].todo)
HasNext(c) ==
  /\ turn = c /\ call[c].todo # <<>>
  /\ NextEntry(c).after = call[c].after
Advance(c) == [call[c] EXCEPT !.todo = Tail(@)]

\* Mutant of Taken: the entry stays in the list.
TakenNotRemoved(e) ==
  /\ \E i \in DOMAIN registry : registry[i] = e
  /\ UNCHANGED registry
  /\ invoked' = [invoked EXCEPT ![e] = @ + 1]

\* `__on_shutdown.remove(...)' takes the oldest equal entry out of the list.
Taken(e) ==
  /\ \E i \in DOMAIN registry : registry[i] = e
  /\ registry' = RemoveFirst(registry, e)
  /\ invoked' = [invoked EXCEPT ![e] = @ + 1]

\* An exception leaves shutdown_coroutines(): it ends runner() if runner
\* called it, and else reaches the code that made the explicit call.
Raised(c) ==
  /\ call' = [call EXCEPT ![c] = Frame0]
  /\ phase' = IF c = Main THEN "crashed" ELSE phase
  /\ turn' = Loop

\* Mutant of SkipOther: `break' instead of `continue'.
BreakAtOther(c) ==
  /\ turn = c /\ call[c].todo # <<>>
  /\ NextEntry(c).after # call[c].after
  /\ call' = [call EXCEPT ![c] = [@ EXCEPT !.todo = <<>>]]
  /\ UNCHANGED <<registry, task, turn, phase, signalled, tasks, now, t0, report,
                 closed, blocked, registered, invoked, late, mine, calls>>

\* `if when != after_tasks_cancel: continue'
SkipOther(c) ==
  /\ turn = c /\ call[c].todo # <<>>
  /\ NextEntry(c).after # call[c].after
  /\ call' = [call EXCEPT ![c] = Advance(c)]
  /\ UNCHANGED <<registry, task, turn, phase, signalled, tasks, now, t0, report,
                 closed, blocked, registered, invoked, late, mine, calls>>

\* list.remove() raises ValueError: another call has taken the entry meanwhile.
RemoveFails(c) ==
  /\ HasNext(c)
  /\ \A i \in DOMAIN registry : registry[i] # NextEntry(c)
  /\ Raised(c)
  /\ UNCHANGED <<registry, task, signalled, tasks, now, t0, report, closed,
                 blocked, registered, invoked, late, mine, calls>>

\* The callback raises when it is called and its exception cannot be logged:
\* `coro.__name__' raises AttributeError.
NameFails(c) ==
  /\ HasNext(c) /\ NextEntry(c).coro \in Nameless
  /\ Taken(NextEntry(c))
  /\ Raised(c)
  /\ UNCHANGED <<task, signalled, tasks, now, t0, report, closed, blocked,
                 registered, late, mine, calls>>

\* The loop is kept for d ticks.
Block(d) ==
  /\ IF phase = "running" THEN now + d <= MaxStart ELSE blocked + d <= MaxBlocked
  /\ now' = now + d
  /\ blocked' = IF phase = "running" THEN blocked ELSE blocked + d

\* Mutant of CallPlain: `timeout -= took' is missing before `continue'.
CallPlainFree(c, d) ==
  /\ HasNext(c) /\ Taken(NextEntry(c)) /\ Block(d)
  /\ call' = [call EXCEPT ![c] = Advance(c)]
  /\ UNCHANGED <<task, turn, phase, signalled, tasks, t0, report, closed,
                 registered, late, mine, calls>>

\* The callback is a plain function, or raises when it is called; it runs for
\* d ticks that are taken off the budget.
CallPlain(c, d) ==
  /\ HasNext(c) /\ Taken(NextEntry(c)) /\ Block(d)
  /\ call' = [call EXCEPT ![c] = [Advance(c) EXCEPT !.timeout = @ - d]]
  /\ UNCHANGED <<task, turn, phase, signalled, tasks, t0, report, closed,
                 registered, late, mine, calls>>

\* The callback returns a coroutine: it becomes task u, awaited with a timeout.
CallCoroutine(c, u) ==
  /\ HasNext(c) /\ Taken(NextEntry(c))
  /\ task[u] = "unused"
  /\ task' = [task EXCEPT ![u] = "run"]
  /\ call' = [call EXCEPT ![c] =
                [Advance(c) EXCEPT !.cb = u, !.start = now, !.since = now]]
  /\ mine' = IF c = Main THEN mine \cup {u} ELSE mine
  /\ turn' = Loop
  /\ UNCHANGED <<phase, signalled, tasks, now, t0, report, closed, blocked,
                 registered, late, calls>>

\* Mutant of TimedOut: the wait ends a tick early.
TimedOutEarly(c) ==
  /\ now - call[c].since >= call[c].timeout - 1
  /\ now >= call[c].since

\* The timeout of an asyncio.wait() that c awaits has run out: max(timeout, 0)
\* ticks since the wait began.
TimedOut(c) ==
  /\ now - call[c].since >= call[c].timeout
  /\ now >= call[c].since

\* Mutant of Took: start is read when the wait has returned.
TookNothing(c) == now - now

\* `took = time.time() - start'
Took(c) == now - call[c].start

\* c awaits the task of a callback, and its wait is over.
WaitOver(c) ==
  /\ call[c].active /\ call[c].cb # NoTask
  /\ c \in Restarters => task[c] = "run"
  /\ task[call[c].cb] = "done" \/ TimedOut(c)

\* asyncio.wait() returns: cancel the callback's task if it is not done, charge
\* the budget.
WaitReturns(c) ==
  /\ LoopRuns /\ turn = Loop /\ WaitOver(c)
  /\ task' = [task EXCEPT ![call[c].cb] = AfterCancel(@)]
  /\ call' = [call EXCEPT ![c] =
       [call[c] EXCEPT !.cb = NoTask, !.timeout = call[c].timeout - Took(c)]]
  /\ turn' = c
  /\ UNCHANGED <<registry, phase, signalled, tasks, now, t0, report, closed,
                 blocked, registered, invoked, late, mine, calls>>

\* An explicit call returns to its caller.
CallReturns(r) ==
  /\ turn = r /\ call[r].todo = <<>>
  /\ call' = [call EXCEPT ![r] = Frame0]
  /\ turn' = Loop
  /\ UNCHANGED <<registry, task, phase, signalled, tasks, now, t0, report,
                 closed, blocked, registered, invoked, late, mine, calls>>

Iterate(c) ==
  \/ SkipOther(c) \/ RemoveFails(c) \/ NameFails(c)
  \/ \E d \in 0 .. MaxBlocked : CallPlain(c, d)
  \/ \E u \in Tid : CallCoroutine(c, u)

-----------------------------------------------------------------------------
(* runner(), __main(), __graceful_shutdown() and __shutdown_tasks().       *)

\* The signal handler sets the shutdown event.
Signal ==
  /\ phase = "running" /\ turn = Loop /\ ~signalled
  /\ signalled' = TRUE
  /\ UNCHANGED <<registry, task, call, turn, phase, tasks, now, t0, report,
                 closed, blocked, registered, invoked, late, mine, calls>>

\* Mutant of MainOver: asyncio.wait() without return_when=FIRST_COMPLETED.
MainOverAll == signalled /\ (Endless \/ task[Service] = "done")

\* __main() waits for a signal; not endless, for the service as well.
MainOver == signalled \/ (~Endless /\ task[Service] = "done")

\* __main() returns and runner() runs __graceful_shutdown(), which calls
\* shutdown_coroutines(remains, after_tasks_cancel=False).
StartShutdown ==
  /\ phase = "running" /\ turn = Loop /\ MainOver
  /\ phase' = "before" /\ t0' = now /\ turn' = Main
  /\ call' = [call EXCEPT ![Main] = NewFrame(FALSE, Timeout)]
  /\ UNCHANGED <<registry, task, signalled, tasks, now, report, closed, blocked,
                 registered, invoked, late, mine, calls>>

\* All "before" callbacks were called: __shutdown_tasks() cancels every task
\* and awaits sleep(0).
CancelTasks ==
  /\ phase = "before" /\ turn = Main /\ call[Main].todo = <<>>
  /\ phase' = "yielded" /\ turn' = Loop
  /\ tasks' = {t \in Tid : Live(t)}
  /\ task' = [t \in Tid |-> AfterCancel(task[t])]
  /\ call' = [call EXCEPT ![Main] = [@ EXCEPT !.start = now, !.since = now]]
  /\ UNCHANGED <<registry, signalled, now, t0, report, closed, blocked,
                 registered, invoked, late, mine, calls>>

AllDone(S) == \A t \in S : task[t] = "done"

\* __shutdown_tasks() returns what remains, and the "after" callbacks are next.
StartAfter ==
  /\ phase' = "after" /\ turn' = Main
  /\ call' = [call EXCEPT ![Main] = NewFrame(TRUE, @.timeout - Took(Main))]

\* sleep(0) returns: await the tasks that are not done yet, if any.
SleepReturns ==
  /\ phase = "yielded" /\ turn = Loop
  /\ IF AllDone(tasks)
     THEN StartAfter
     ELSE /\ phase' = "waiting"
          /\ call' = [call EXCEPT ![Main] = [@ EXCEPT !.since = now]]
          /\ UNCHANGED turn
  /\ UNCHANGED <<registry, task, signalled, tasks, now, t0, report, closed,
                 blocked, registered, invoked, late, mine, calls>>

\* Mutant of TasksWaitOver: one finished task ends the wait.
FirstTaskEndsWait ==
  phase = "waiting" /\ ((\E t \in tasks : task[t] = "done") \/ TimedOut(Main))

\* asyncio.wait(tasks, timeout) has nothing more to wait for.
TasksWaitOver == phase = "waiting" /\ (AllDone(tasks) \/ TimedOut(Main))

TasksWaitReturns ==
  /\ turn = Loop /\ TasksWaitOver
  /\ StartAfter
  /\ UNCHANGED <<registry, task, signalled, tasks, now, t0, report, closed,
                 blocked, registered, invoked, late, mine, calls>>

\* __graceful_shutdown() logs how it went and runner() closes the loop unless
\* a task is left.
Finish ==
  /\ phase = "after" /\ turn = Main /\ call[Main].todo = <<>>
  /\ report' = IF call[Main].timeout > 0 THEN "completed" ELSE "timeout"
  /\ closed' = \A t \in Tid : ~Live(t)
  /\ phase' = "done" /\ turn' = Loop
  /\ call' = [call EXCEPT ![Main] = Frame0]
  /\ UNCHANGED <<registry, task, signalled, tasks, now, t0, blocked,
                 registered, invoked, late, mine, calls>>

RunnerStep ==
  \/ StartShutdown \/ CancelTasks \/ SleepReturns \/ TasksWaitReturns \/ Finish

\* The loop is idle for a tick: nothing it would run at once is ready.
Tick ==
  /\ LoopRuns /\ turn = Loop
  /\ phase = "running" => now < MaxStart /\ ~MainOver
  /\ phase # "yielded" /\ ~TasksWaitOver
  /\ \A c \in Callers : ~WaitOver(c)
  /\ now' = now + 1
  /\ UNCHANGED <<registry, task, call, turn, phase, signalled, tasks, t0, report,
                 closed, blocked, registered, invoked, late, mine, calls>>

\* runner() has returned or raised.
Returned == ~LoopRuns /\ UNCHANGED vars

Next ==
  \/ UserStep \/ Signal \/ RunnerStep \/ Tick \/ Returned
  \/ \E c \in Callers : Iterate(c) \/ WaitReturns(c)
  \/ \E r \in Restarters : CallReturns(r)

\* The loop runs what is ready and time passes; the service's, the tasks' and
\* the callbacks' own code, and the signal, may never come.
Fairness ==
  /\ WF_vars(RunnerStep) /\ WF_vars(Tick)
  /\ \A c \in Callers : WF_vars(Iterate(c)) /\ WF_vars(WaitReturns(c))
  /\ \A r \in Restarters : WF_vars(CallReturns(r))

Spec == Init /\ [][Next]_vars
FairSpec == Spec /\ Fairness

-----------------------------------------------------------------------------
(* Properties.                                                             *)

Phases == {"running", "before", "yielded", "waiting", "after", "done", "crashed"}

\* Every variable has its type; tasks known to runner are task identities.
TypeOK ==
  /\ registry \in Seq(Entry)
  /\ task \in [Tid -> {"unused", "run", "cancelling", "done"}]
  /\ call \in [Callers -> Frame]
  /\ turn \in Callers \cup {Loop} /\ phase \in Phases
  /\ signalled \in BOOLEAN /\ closed \in BOOLEAN
  /\ tasks \subseteq Tid /\ mine \subseteq Tid
  /\ now \in Nat /\ t0 \in Nat /\ blocked \in Nat /\ calls \in Nat
  /\ report \in {"none", "completed", "timeout"}
  /\ registered \in [Entry -> Nat]
  /\ invoked \in [Entry -> Nat]
  /\ late \in [Entry -> Nat]

Elapsed == now - t0

\* shutdown_timeout is the total for all callbacks and all tasks together: the
\* budget handed from one phase to the next is never exceeded, whatever the
\* tasks do, but for the time plain callbacks keep the loop to themselves.
Deadline == InShutdown \/ phase = "done" => Elapsed <= Timeout + blocked

\* "Shutdown completed" is logged exactly when the whole shutdown took less
\* than shutdown_timeout: no `timeout -= took' is forgotten on any path.
ReportTruthful == report # "none" => (report = "completed" <=> Elapsed < Timeout)

\* "Shutdown completed" is never logged over a task runner knew of and that is
\* not finished: neither one it cancelled nor a callback's.
CompletedMeansSettled ==
  report = "completed" => \A t \in tasks \cup mine : task[t] = "done"

\* after_tasks_cancel: these callbacks run when no task uses their resource any
\* more, or when there is no time left to wait for the tasks.
AfterCallbacksLast == phase = "after" => AllDone(tasks) \/ Elapsed >= Timeout

\* A registration is called once or still waits in the list: none is lost or
\* called twice, though runner and explicit calls empty the same list.
CalledOnce ==
  \A e \in Entry : invoked[e] + Occurrences(registry, e) = registered[e]

\* runner has gone through its snapshot of entries of this kind.
SnapshotServed(after) ==
  \/ phase = "done"
  \/ ~after /\ phase \in {"yielded", "waiting", "after"}

\* Callbacks registered before runner looked are all called before it goes on
\* to cancel tasks ("before") or to return ("after").
EveryCallbackCalled ==
  \A e \in Entry : SnapshotServed(e.after) => Occurrences(registry, e) <= late[e]

\* Why the budget is kept, as an inductive invariant: between two awaits the
\* budget is what is left of the total at this tick; while runner awaits, what
\* was left when the await began, which is what bounds the await.
BudgetInv ==
  LET m == call[Main] IN
  /\ turn = Main => phase \in {"before", "after"}
  /\ phase \in {"running", "done", "crashed"} => ~m.active
  /\ phase \in {"done", "crashed"} => turn = Loop
  /\ phase = "running" => mine = {}
  /\ ~m.active => m.cb = NoTask
  /\ InShutdown \/ phase = "done" =>
        t0 <= now /\ Elapsed <= Timeout + blocked
  /\ turn = Main => m.active /\ m.cb = NoTask /\ m.timeout = Timeout - Elapsed
  /\ phase \in {"before", "after"} /\ turn # Main =>
        /\ m.active /\ m.cb \in Tid /\ m.since = m.start
        /\ t0 <= m.start /\ m.start <= now /\ m.timeout = Timeout - (m.start - t0)
  /\ phase \in {"yielded", "waiting"} =>
        /\ m.cb = NoTask
        /\ t0 <= m.start /\ m.start <= m.since /\ m.since <= now
        /\ m.timeout = Timeout - (m.start - t0)
        /\ IF phase = "yielded" THEN now - m.start <= blocked
                                ELSE m.since - m.start <= blocked
  /\ phase = "done" <=> report # "none"
  /\ phase = "done" => (report = "completed" <=> Elapsed < Timeout)

\* Why a completed shutdown has settled: a task runner waited for is finished,
\* or the total was used up by then, or runner still waits for it.
SettledInv ==
  /\ \A t \in mine :
        \/ task[t] = "done"
        \/ Elapsed >= Timeout
        \/ turn # Main /\ t = call[Main].cb
  /\ phase \in {"after", "done"} => AllDone(tasks) \/ Elapsed >= Timeout

\* Once a signal came, or the service of a not endless runner ended, runner()
\* ends, though tasks and callbacks may ignore cancellation and never end.
ShutdownEnds ==
  signalled \/ (~Endless /\ task[Service] = "done") ~> ~LoopRuns

\* Said of runner(): "graceful shutdown proceeds anyway".
RunnerSurvives == phase # "crashed"

\* Said of on_shutdown(): the coroutine is called on graceful shutdown.
NoCallbackForgotten == phase = "done" => registry = <<>>

=============================================================================
