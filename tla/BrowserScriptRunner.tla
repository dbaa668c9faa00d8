------------------------- MODULE BrowserScriptRunner -------------------------
(***************************************************************************)
(* com.bkahlert.nebula.widgets.browser.runner.BrowserScriptRunner: the     *)
(* status of the page and the scripts that are run in it.                  *)
(*                                                                         *)
(* Scripts that arrive while the page is loading are submitted to an       *)
(* OffWorker that is started, and at once finished, when loading ends.     *)
(* run() reads the status and acts on it without a lock. setBrowserStatus  *)
(* is called by one thread at a time (Browser's monitor): the caller       *)
(* Monitor stands for the thread that holds it.                            *)
(***************************************************************************)
EXTENDS OffWorker

CONSTANTS Clients,     \* threads that call run(String), the helper threads of run(URI) included
          Monitor,     \* the thread that sets the status
          Scripts,     \* the scripts, each run once
          UriScripts,  \* those that are run by run(URI) or inject(URI)
          ShutdownTask, FinishTask,  \* the two tasks of setBrowserStatus
          NoScript

BrowserStatus == {"INITIALIZING", "LOADING", "LOADED", "TIMEDOUT", "DISPOSED"}
WaiterStatus == {"none", "registered", "failed", "waiting", "returned", "cancelled"}

ASSUME CallersAreClients == Callers = Clients \cup {Monitor} /\ Monitor \notin Clients
ASSUME TasksAreScripts ==
  /\ Tasks = Scripts \cup {ShutdownTask, FinishTask}
  /\ Finishers = {ShutdownTask, FinishTask}
  /\ Scripts \cap Finishers = {}
  /\ ShutdownTask # FinishTask
  /\ NoScript \notin Scripts
  /\ UriScripts \subseteq Scripts

VARIABLES
  browserStatus,   \* BrowserScriptRunner.browserStatus
  widgetDisposed,  \* browser.isDisposed()
  result,          \* result[s]: the future run(s) returned: "none", "open", "value", "error"
  immediate,       \* immediate[c]: the script client c evaluates by runImmediately
  waiter,          \* waiter[s]: the helper thread and the future of run(URI) of the uri script s
  evaluated,       \* history: the scripts in the order the browser evaluated them
  before           \* history: before[s]: the scripts whose run had returned when run(s) was called

scriptVars == <<result, immediate, waiter, evaluated, before>>
runnerStatus == <<browserStatus, widgetDisposed>>
bvars == <<vars, browserStatus, widgetDisposed, result, immediate, waiter, evaluated, before>>

Called == {s \in Scripts : result[s] # "none"}
Underway(s) == \E c \in Clients : pending[c] = <<s>> \/ immediate[c] = s
Returned == {s \in Called : ~Underway(s)}
Idle(c) == pending[c] = <<>> /\ immediate[c] = NoScript
Evaluated == {evaluated[i] : i \in DOMAIN evaluated}

BInit ==
  /\ Init
  /\ browserStatus = "INITIALIZING"
  /\ widgetDisposed = FALSE
  /\ result = [s \in Scripts |-> "none"]
  /\ immediate = [c \in Clients |-> NoScript]
  /\ waiter = [s \in UriScripts |-> "none"]
  /\ evaluated = <<>>
  /\ before = [s \in Scripts |-> {}]

-----------------------------------------------------------------------------
(* setBrowserStatus                                                         *)

\* The transitions for which no UnexpectedBrowserStateException is thrown.
Allowed(old, new) ==
  \/ old = "INITIALIZING" /\ new \in {"LOADING", "LOADED"}
  \/ old = "LOADING" /\ new # "INITIALIZING"

\* Mutant: the worker is finished before it is started.
FollowUpShutdownFirst(new) ==
  IF new = "LOADED" THEN <<"shutdown", "start", FinishTask>>
  ELSE IF new \in {"TIMEDOUT", "DISPOSED"} THEN <<ShutdownTask, "start", FinishTask>>
  ELSE <<>>

\* What setBrowserStatus does to the worker after it has set the status.
FollowUp(new) ==
  IF new = "LOADED" THEN <<"start", FinishTask>>
  ELSE IF new \in {"TIMEDOUT", "DISPOSED"} THEN <<ShutdownTask, "start", FinishTask>>
  ELSE <<>>

\* A call of setBrowserStatus(new) by the holder of the monitor, up to what is
\* left to do with the worker. A call with the present status does nothing; one
\* that is not allowed throws.
SetBrowserStatus(new) ==
  /\ pending[Monitor] = <<>>
  /\ IF new # browserStatus /\ Allowed(browserStatus, new)
       THEN browserStatus' = new /\ pending' = [pending EXCEPT ![Monitor] = FollowUp(new)]
       ELSE UNCHANGED <<browserStatus, pending>>
  /\ UNCHANGED <<runnerVars, calls, taskVars>>

-----------------------------------------------------------------------------
(* run                                                                      *)

\* The browser is sent the script, or is gone (createScriptRunner).
Evaluate(s) ==
  \/ /\ ~widgetDisposed
     /\ evaluated' = Append(evaluated, s)
     /\ \E r \in {"value", "error"} : result' = [result EXCEPT ![s] = r]
  \/ /\ widgetDisposed
     /\ result' = [result EXCEPT ![s] = "error"]
     /\ UNCHANGED evaluated

\* The switch of run(s). LOADING: submit comes next, as a step of its own.
\* LOADED: the evaluation in the UI thread comes next. Else the call fails.
Run(c, s) ==
  /\ Idle(c) /\ result[s] = "none"
  /\ before' = [before EXCEPT ![s] = Returned]
  /\ \/ /\ browserStatus = "LOADING"
        /\ pending' = [pending EXCEPT ![c] = <<s>>]
        /\ result' = [result EXCEPT ![s] = "open"]
        /\ UNCHANGED immediate
     \/ /\ browserStatus = "LOADED"
        /\ immediate' = [immediate EXCEPT ![c] = s]
        /\ result' = [result EXCEPT ![s] = "open"]
        /\ UNCHANGED pending
     \/ /\ browserStatus \in {"INITIALIZING", "TIMEDOUT", "DISPOSED"}
        /\ result' = [result EXCEPT ![s] = "error"]
        /\ UNCHANGED <<pending, immediate>>
  /\ UNCHANGED <<runnerVars, calls, taskVars, runnerStatus, evaluated>>

RunScript(c, s) == s \notin UriScripts /\ Run(c, s) /\ UNCHANGED waiter

(* run(URI) and inject(URI) return at once. What follows is their helper     *)
(* thread's.                                                                *)

\* The UI thread creates the function the page is to call back; with the widget
\* gone this throws, and so does the thread's callable.
RegisterCallback(s) ==
  /\ waiter[s] = "none"
  /\ waiter' = [waiter EXCEPT ![s] = IF widgetDisposed THEN "failed" ELSE "registered"]
  /\ UNCHANGED <<vars, runnerStatus, result, immediate, evaluated, before>>

\* The thread, as client c, runs a script that adds a script element, and waits
\* for the page to call back, whatever becomes of that script.
RunUri(c, s) ==
  /\ s \in UriScripts /\ waiter[s] = "registered"
  /\ Run(c, s)
  /\ waiter' = [waiter EXCEPT ![s] = "waiting"]

\* The element is in the page, which has loaded it and calls back. What the
\* script that added it returned does not matter: it may have thrown since.
UriLoaded(s) ==
  /\ waiter[s] = "waiting" /\ s \in Evaluated
  /\ ~widgetDisposed
  /\ waiter' = [waiter EXCEPT ![s] = "returned"]
  /\ UNCHANGED <<vars, runnerStatus, result, immediate, evaluated, before>>

\* The future is cancelled: the thread's wait ends, the script is left alone.
CancelUri(s) ==
  /\ waiter[s] = "waiting"
  /\ waiter' = [waiter EXCEPT ![s] = "cancelled"]
  /\ UNCHANGED <<vars, runnerStatus, result, immediate, evaluated, before>>

\* runImmediately, in the UI thread.
EvaluateImmediately(c) ==
  /\ immediate[c] # NoScript
  /\ Evaluate(immediate[c])
  /\ immediate' = [immediate EXCEPT ![c] = NoScript]
  /\ UNCHANGED <<vars, runnerStatus, waiter, before>>

\* Mutant: the worker's callable does not look at the status.
EvaluateDelayedBlindly ==
  \E s \in Scripts \cap InPhase("running") :
    /\ RunTask
    /\ Evaluate(s)
    /\ UNCHANGED <<runnerStatus, immediate, waiter, before>>

\* The callable run() gave the worker looks at the status when it is executed.
EvaluateDelayed ==
  \E s \in Scripts \cap InPhase("running") :
    /\ RunTask
    /\ \/ browserStatus = "LOADED" /\ Evaluate(s)
       \/ /\ browserStatus # "LOADED"
          /\ result' = [result EXCEPT ![s] = "error"]
          /\ UNCHANGED evaluated
    /\ UNCHANGED <<runnerStatus, immediate, waiter, before>>

-----------------------------------------------------------------------------

ClientSteps ==
  \/ \E c \in Clients, s \in Scripts : RunScript(c, s) \/ RunUri(c, s)
  \/ \E c \in Clients : EvaluateImmediately(c)
  \/ \E s \in UriScripts : RegisterCallback(s) \/ UriLoaded(s) \/ CancelUri(s)

\* Submissions of the clients, and start and finish by the holder of the monitor.
WorkerCalls == (\E c \in Callers : CallerStep(c)) /\ UNCHANGED <<runnerStatus, scriptVars>>

WorkerLoop == (RunnerLoop \/ RunFinisher) /\ UNCHANGED <<runnerStatus, scriptVars>>

RunnerSteps == ClientSteps \/ WorkerCalls \/ WorkerLoop \/ EvaluateDelayed

(* On its own, the script runner is used by a caller that sets any status, *)
(* perhaps because the user disposes of the widget.                        *)
SetStatus ==
  /\ \E new \in BrowserStatus : SetBrowserStatus(new)
  /\ widgetDisposed' \in {widgetDisposed, TRUE}
  /\ UNCHANGED scriptVars

DisposeWidget ==
  /\ ~widgetDisposed
  /\ widgetDisposed' = TRUE
  /\ UNCHANGED <<vars, browserStatus, scriptVars>>

BNext == RunnerSteps \/ SetStatus \/ DisposeWidget

\* Threads inside a method go on, and the worker's thread does. No one has to
\* set a status, call run, or dispose of the widget; a page need not call back.
RunnerFairness ==
  /\ WF_bvars(WorkerLoop \/ EvaluateDelayed)
  /\ \A c \in Callers : WF_bvars(CallerStep(c) /\ UNCHANGED <<runnerStatus, scriptVars>>)
  /\ \A c \in Clients : WF_bvars(EvaluateImmediately(c))

BSpec == BInit /\ [][BNext]_bvars
BFairSpec == BSpec /\ RunnerFairness

-----------------------------------------------------------------------------
(* Properties.                                                              *)

\* The variables of the script runner have their types, and a script is given
\* to the worker or evaluated only on behalf of a call of run.
RunnerTypeOK ==
  /\ TypeOK
  /\ browserStatus \in BrowserStatus
  /\ widgetDisposed \in BOOLEAN
  /\ result \in [Scripts -> {"none", "open", "value", "error"}]
  /\ immediate \in [Clients -> Scripts \cup {NoScript}]
  /\ waiter \in [UriScripts -> WaiterStatus]
  /\ evaluated \in Seq(Called)
  /\ before \in [Scripts -> SUBSET Scripts]
  /\ \A s \in Scripts : phase[s] # "new" => s \in Called

\* Every behaviour of BrowserScriptRunner is one of the service it documents:
\* a script yields a value only in a loaded page, an accepted one fails only
\* after loading has ended, and the end of loading is final.
Page ==
  CASE browserStatus = "INITIALIZING" -> "none"
    [] browserStatus = "LOADING" -> "loading"
    [] browserStatus = "LOADED" -> "loaded"
    [] browserStatus \in {"TIMEDOUT", "DISPOSED"} -> "aborted"
Service == INSTANCE ScriptService WITH page <- Page, promise <- result
ImplementsScriptService == Service!Spec

\* setBrowserStatus never makes the worker throw: the statuses and the worker's
\* states move in step, so its start and finish are always legal.
WorkerNeverRefuses == \A c \in Callers : ~Doing(c, "throw")

Position(s) == CHOOSE i \in DOMAIN evaluated : evaluated[i] = s
Delayed(s) == phase[s] # "new"

\* Of two scripts that went the same way, through the queue or directly, the
\* one whose run returned before the other was run is evaluated first
\* (BrowserTest.testJavaScriptRunOrder, each half of it by itself).
OrderWithinMode ==
  \A s \in Evaluated : \A u \in before[s] \cap Called :
    (Delayed(s) <=> Delayed(u)) /\ result[u] \in {"open", "value"} =>
      u \in Evaluated /\ Position(u) < Position(s)

\* What waits in the queue when loading ends is resolved: executed in a loaded
\* page, failed with the timeout or the disposal otherwise.
QueuedScriptsResolve ==
  \A s \in Scripts :
    (phase[s] = "waiting" /\ browserStatus \in {"LOADED", "TIMEDOUT", "DISPOSED"} /\ phase[FinishTask] = "new" /\ phase[ShutdownTask] = "new")
      ~> result[s] \in {"value", "error"}

\* Every script that was accepted is run or fails once loading has ended ("Runs
\* the given script in the browser as soon as its content is loaded").
AcceptedScriptsResolve ==
  \A s \in Scripts :
    (result[s] = "open" /\ browserStatus = "LOADED") ~> result[s] \in {"value", "error"}
=============================================================================
