---------------------------- MODULE Browser_proofs ----------------------------
(***************************************************************************)
(* Proofs about Browser for any open calls, load checks, clients and       *)
(* scripts.                                                                *)
(***************************************************************************)
EXTENDS Browser, BrowserScriptRunner_proofs

LEMMA MonitorIsCaller == Monitor \in Callers
BY CallersAreClients

(* A change of status, or its attempt, leaves the status legal and never   *)
(* leads back to INITIALIZING or out of LOADED.                            *)
LEMMA StatusStep ==
  ASSUME NEW new \in BrowserStatus, SetBrowserStatus(new), new # "INITIALIZING"
  PROVE  /\ browserStatus' \in {browserStatus, new}
         /\ browserStatus = "LOADED" => browserStatus' = "LOADED"
BY DEF SetBrowserStatus, Allowed

-----------------------------------------------------------------------------
(* The composition.                                                         *)

(* The monitor is free before loading starts: open() sets the status       *)
(* without it, and is still alone then.                                    *)
MonitorUnused ==
  /\ pending = [c \in Callers |-> pending[c]]
  /\ browserStatus = "INITIALIZING" => pending[Monitor] = <<>>

LEMMA MonitorUnusedInit == WInit => MonitorUnused
BY MonitorIsCaller DEF WInit, BInit, Init, MonitorUnused

LEMMA AnnounceUse ==
  ASSUME MonitorUnused, NEW change \in BOOLEAN,
         NEW new \in BrowserStatus \ {"INITIALIZING"}, Announce(change, new)
  PROVE  /\ MonitorUnused'
         /\ SetBrowserStatus(new) \/ UNCHANGED <<vars, browserStatus>>
<1>1. CASE SetBrowserStatus(new)
  <2>1. pending' = [c \in Callers |-> pending'[c]]
    BY <1>1, MonitorIsCaller DEF SetBrowserStatus, MonitorUnused
  <2>2. browserStatus' = "INITIALIZING" => pending'[Monitor] = <<>>
    BY <1>1 DEF SetBrowserStatus, MonitorUnused
  <2>. QED BY <1>1, <2>1, <2>2 DEF MonitorUnused
<1>2. CASE UNCHANGED <<vars, browserStatus>>
  BY <1>2 DEF MonitorUnused, vars
<1>. QED BY <1>1, <1>2 DEF Announce

LEMMA RunnerUse ==
  ASSUME MonitorUnused, RunnerSteps
  PROVE  MonitorUnused'
<1>1. CASE ClientSteps
  <2>1. CASE \E c \in Clients, s \in Scripts : RunScript(c, s) \/ RunUri(c, s)
    <3>1. PICK c \in Clients, s \in Scripts : Run(c, s)
      BY <2>1 DEF RunScript, RunUri
    <3>2. c \in Callers /\ c # Monitor
      BY CallersAreClients
    <3>. QED BY <3>1, <3>2, MonitorIsCaller DEF Run, MonitorUnused, runnerStatus
  <2>2. CASE \E c \in Clients : EvaluateImmediately(c)
    BY <2>2 DEF EvaluateImmediately, MonitorUnused, vars, runnerStatus
  <2>3. CASE \E s \in UriScripts : RegisterCallback(s) \/ UriLoaded(s) \/ CancelUri(s)
    BY <2>3 DEF RegisterCallback, UriLoaded, CancelUri, MonitorUnused, vars, runnerStatus
  <2>. QED BY <1>1, <2>1, <2>2, <2>3 DEF ClientSteps
<1>2. CASE WorkerCalls
  <2>1. PICK c \in Callers : CallerStep(c)
    BY <1>2 DEF WorkerCalls
  <2>2. browserStatus' = browserStatus
    BY <1>2 DEF WorkerCalls, runnerStatus
  <2>3. \E rest : pending' = [pending EXCEPT ![c] = rest]
    BY <2>1 DEF CallerStep, Dispatch, Assign, Interrupt, StartRunner, Throw, Flush, Submit, Accept, Done, MonitorUnused
  <2>4. pending[c] # <<>>
    BY <2>1 DEF CallerStep, Dispatch, Assign, Interrupt, StartRunner, Throw, Flush, Submit, Accept, Doing
  <2>. QED BY <2>2, <2>3, <2>4, MonitorIsCaller DEF MonitorUnused
<1>3. CASE WorkerLoop \/ EvaluateDelayed
  BY <1>3 DEF WorkerLoop, RunnerLoop, LoopTop, CheckPaused, TakeInterrupted, Take, SwitchInterrupted, RunFinisher,
    EvaluateDelayed, RunTask, runnerStatus, MonitorUnused
<1>. QED BY <1>1, <1>2, <1>3 DEF RunnerSteps

(* Every step of the browser is a step of its script runner or none at all *)
(* for the runner.                                                         *)
LEMMA BrowserStepUse ==
  ASSUME MonitorUnused, WNext
  PROVE  MonitorUnused' /\ (BNext \/ UNCHANGED bvars)
<1>1. CASE \E o \in Openers : Open(o)
  <2>1. UNCHANGED <<vars, widgetDisposed, scriptVars>>
    BY <1>1 DEF Open
  <2>2. CASE browserStatus' = browserStatus
    BY <2>1, <2>2 DEF MonitorUnused, vars, bvars, scriptVars
  <2>3. CASE browserStatus' # browserStatus
    <3>1. browserStatus = "INITIALIZING" /\ browserStatus' = "LOADING"
      BY <1>1, <2>3 DEF Open, Allowed
    <3>2. pending = [pending EXCEPT ![Monitor] = <<>>] /\ pending[Monitor] = <<>>
      BY <3>1, MonitorIsCaller DEF MonitorUnused
    <3>3. FollowUp("LOADING") = <<>>
      BY DEF FollowUp
    <3>4. SetBrowserStatus("LOADING")
      BY <2>1, <3>1, <3>2, <3>3 DEF SetBrowserStatus, Allowed, vars, runnerVars, taskVars
    <3>5. SetStatus
      BY <2>1, <3>4 DEF SetStatus, BrowserStatus
    <3>. QED BY <2>1, <3>1, <3>5 DEF BNext, MonitorUnused, vars
  <2>. QED BY <2>2, <2>3
<1>2. CASE \E o \in Openers : OpenerSteps(o) \/ SpuriousWakeUp(o) \/ CancelOpen(o) \/ TimerDue(o)
  BY <1>2 DEF OpenerSteps, StartTimer, SetUrl, AwaitLoaded, WakeUp, SpuriousWakeUp, CancelOpen, TimerDue,
    MonitorUnused, bvars, vars
<1>3. CASE \E o \in Openers : TimerFire(o)
  <2>1. PICK o \in Openers : TimerFire(o)
    BY <1>3
  <2>2. Announce(browserStatus # "LOADED", "TIMEDOUT") /\ UNCHANGED <<widgetDisposed, scriptVars>>
    BY <2>1 DEF TimerFire
  <2>3. MonitorUnused' /\ (SetBrowserStatus("TIMEDOUT") \/ UNCHANGED <<vars, browserStatus>>)
    BY <2>2, AnnounceUse DEF BrowserStatus
  <2>. QED BY <2>2, <2>3 DEF BNext, SetStatus, BrowserStatus, bvars, scriptVars
<1>4. CASE \E k \in Checks : StartCheck(k) \/ Completed(k) \/ BeforeInjection(k) \/ Inject(k) \/ MarkInjected(k)
  BY <1>4 DEF StartCheck, Completed, BeforeInjection, Inject, MarkInjected, MonitorUnused, bvars, vars
<1>5. CASE \E k \in Checks : Complete(k)
  <2>1. PICK k \in Checks : Complete(k)
    BY <1>5
  <2>2. Announce(browserStatus \notin {"TIMEDOUT", "DISPOSED"}, "LOADED") /\ UNCHANGED <<widgetDisposed, scriptVars>>
    BY <2>1 DEF Complete
  <2>3. MonitorUnused' /\ (SetBrowserStatus("LOADED") \/ UNCHANGED <<vars, browserStatus>>)
    BY <2>2, AnnounceUse DEF BrowserStatus
  <2>. QED BY <2>2, <2>3 DEF BNext, SetStatus, BrowserStatus, bvars, scriptVars
<1>6. CASE CheckFails
  BY <1>6 DEF CheckFails, Announce, MonitorUnused, bvars, vars, scriptVars
<1>7. CASE Dispose
  <2>1. Announce(browserStatus = "LOADING", "DISPOSED") /\ ~widgetDisposed /\ widgetDisposed' = TRUE /\ UNCHANGED scriptVars
    BY <1>7 DEF Dispose
  <2>2. MonitorUnused' /\ (SetBrowserStatus("DISPOSED") \/ UNCHANGED <<vars, browserStatus>>)
    BY <2>1, AnnounceUse DEF BrowserStatus
  <2>. QED BY <2>1, <2>2 DEF BNext, SetStatus, DisposeWidget, BrowserStatus
<1>8. CASE RunnerSteps
  BY <1>8, RunnerUse DEF BNext
<1>. QED BY <1>1, <1>2, <1>3, <1>4, <1>5, <1>6, <1>7, <1>8 DEF WNext, CheckThread

\* Browser uses its script runner as BrowserScriptRunner's specification allows.
THEOREM Composition == WSpec => UsesScriptRunner
<1>1. WInit => MonitorUnused /\ BInit
  BY MonitorUnusedInit DEF WInit
<1>2. MonitorUnused /\ [WNext]_wvars => MonitorUnused' /\ [BNext]_bvars
  <2>1. MonitorUnused /\ UNCHANGED wvars => MonitorUnused' /\ UNCHANGED bvars
    BY DEF MonitorUnused, wvars, bvars, vars
  <2>. QED BY <2>1, BrowserStepUse
<1>. QED BY <1>1, <1>2, PTL DEF WSpec, UsesScriptRunner, BSpec

-----------------------------------------------------------------------------
(* The browser's scripts come first.                                        *)

\* There is one call of open() at most.
OpenedOnce == \A o, p \in Openers : o = p

(* Before the address is set, no check was made, so that the page it       *)
(* replaces has not left a flag or a status behind. From then on, wherever *)
(* a thread may conclude that the event catch script was tried, from the   *)
(* flag, from its own progress, or from the status, it was.                *)
Tried == catching # "untried"
Fresh == page = NoPage /\ ~injected /\ browserStatus # "LOADED" /\ \A k \in Checks : check[k] = "none"
TriedBefore ==
  /\ check = [k \in Checks |-> check[k]]
  /\ immediate = [c \in Clients |-> immediate[c]]
  /\ opener \in [Openers -> OpenerStatus]
  /\ \A o \in Openers : opener[o] \in {"idle", "started", "setUrl"} => Fresh
  /\ \A k \in Checks : check[k] \in {"mark", "complete"} => Tried
  /\ injected => Tried
  /\ browserStatus = "LOADED" => Tried
  /\ \A c \in Clients : immediate[c] # NoScript => browserStatus = "LOADED"

LEMMA TriedInit == WInit => TriedBefore
BY DEF WInit, BInit, TriedBefore, Tried, Fresh, OpenerStatus

(* What else may change while this is kept.                                 *)
LEMMA TriedStays ==
  ASSUME TriedBefore,
         UNCHANGED <<check, immediate, injected, catching, page>>,
         opener' \in [Openers -> OpenerStatus],
         \A o \in Openers : opener'[o] \in {"idle", "started", "setUrl"} => opener[o] \in {"idle", "started", "setUrl"},
         browserStatus = "LOADED" => browserStatus' = "LOADED",
         browserStatus' = "LOADED" => browserStatus = "LOADED"
  PROVE  TriedBefore'
BY DEF TriedBefore, Tried, Fresh

(* No script is evaluated but in a loaded page.                             *)
LEMMA TriedRunner ==
  ASSUME TriedBefore, RunnerSteps, UNCHANGED loadVars
  PROVE  TriedBefore' /\ (evaluated' # evaluated => Tried)
<1>0. UNCHANGED <<check, injected, catching, opener, page>> /\ browserStatus' = browserStatus
  BY DEF RunnerSteps, ClientSteps, RunScript, RunUri, Run, EvaluateImmediately, RegisterCallback, UriLoaded, CancelUri,
    WorkerCalls, WorkerLoop, EvaluateDelayed, loadVars, runnerStatus
<1>1. CASE \E c \in Clients, s \in Scripts : RunScript(c, s) \/ RunUri(c, s)
  <2>1. PICK c \in Clients, s \in Scripts : Run(c, s)
    BY <1>1 DEF RunScript, RunUri
  <2>2. evaluated' = evaluated
    BY <2>1 DEF Run
  <2>3. \/ immediate' = immediate
        \/ immediate' = [immediate EXCEPT ![c] = s] /\ browserStatus = "LOADED"
    BY <2>1 DEF Run
  <2>. QED BY <1>0, <2>2, <2>3 DEF TriedBefore, Tried, Fresh
<1>2. CASE \E c \in Clients : EvaluateImmediately(c)
  <2>1. PICK c \in Clients : EvaluateImmediately(c)
    BY <1>2
  <2>2. immediate' = [immediate EXCEPT ![c] = NoScript] /\ browserStatus = "LOADED"
    BY <2>1 DEF EvaluateImmediately, TriedBefore
  <2>. QED BY <1>0, <2>2 DEF TriedBefore, Tried, Fresh
<1>3. CASE \E s \in UriScripts : RegisterCallback(s) \/ UriLoaded(s) \/ CancelUri(s)
  BY <1>0, <1>3 DEF RegisterCallback, UriLoaded, CancelUri, TriedBefore, Tried, Fresh
<1>4. CASE WorkerCalls \/ WorkerLoop
  BY <1>0, <1>4 DEF WorkerCalls, WorkerLoop, scriptVars, TriedBefore, Tried, Fresh
<1>5. CASE EvaluateDelayed
  <2>1. immediate' = immediate /\ (browserStatus # "LOADED" => evaluated' = evaluated)
    BY <1>5 DEF EvaluateDelayed
  <2>. QED BY <1>0, <2>1 DEF TriedBefore, Tried, Fresh
<1>. QED BY <1>1, <1>2, <1>3, <1>4, <1>5 DEF RunnerSteps, ClientSteps

(* A synchronized block moves no call of open back.                         *)
LEMMA AnnounceStatus ==
  ASSUME NEW change \in BOOLEAN, NEW new \in BrowserStatus \ {"INITIALIZING"}, Announce(change, new)
  PROVE  /\ browserStatus' \in {browserStatus, new}
         /\ browserStatus = "LOADED" => browserStatus' = "LOADED"
         /\ opener \in [Openers -> OpenerStatus] =>
              /\ opener' \in [Openers -> OpenerStatus]
              /\ \A o \in Openers : opener'[o] \in {"idle", "started", "setUrl"} =>
                                    opener[o] \in {"idle", "started", "setUrl"}
BY StatusStep DEF Announce, NotifyAll, OpenerStatus

LEMMA TriedStep ==
  ASSUME OpenedOnce, TriedBefore, WNext
  PROVE  TriedBefore' /\ (evaluated' # evaluated => Tried)
<1>1. CASE \E o \in Openers : Open(o)
  <2>1. UNCHANGED <<check, immediate, evaluated, injected, catching, page>>
    BY <1>1 DEF Open, scriptVars
  <2>2. (browserStatus = "LOADED" => browserStatus' = "LOADED") /\ (browserStatus' = "LOADED" => browserStatus = "LOADED")
    BY <1>1 DEF Open, Allowed
  <2>3. /\ opener' \in [Openers -> OpenerStatus]
        /\ \A o \in Openers : opener'[o] \in {"idle", "started", "setUrl"} => opener[o] \in {"idle", "started", "setUrl"}
    BY <1>1 DEF Open, TriedBefore, OpenerStatus
  <2>. QED BY <2>1, <2>2, <2>3, TriedStays
<1>2. CASE \E o \in Openers : OpenerSteps(o) \/ SpuriousWakeUp(o) \/ CancelOpen(o) \/ TimerDue(o)
  <2>1. PICK o \in Openers : OpenerSteps(o) \/ SpuriousWakeUp(o) \/ CancelOpen(o) \/ TimerDue(o)
    BY <1>2
  <2>2. UNCHANGED <<check, immediate, evaluated, injected, browserStatus>>
    BY <2>1 DEF OpenerSteps, StartTimer, SetUrl, AwaitLoaded, WakeUp, SpuriousWakeUp, CancelOpen, TimerDue, bvars
  <2>3. CASE SetUrl(o)
    <3>1. Fresh
      BY <2>3 DEF SetUrl, TriedBefore
    <3>2. opener' = [opener EXCEPT ![o] = "set"] /\ \A p \in Openers : p = o
      BY <2>3 DEF SetUrl, OpenedOnce
    <3>3. opener' \in [Openers -> OpenerStatus] /\ \A p \in Openers : opener'[p] = "set"
      BY <3>2 DEF TriedBefore, OpenerStatus
    <3>. QED BY <2>2, <3>1, <3>3 DEF TriedBefore, Tried, Fresh
  <2>4. CASE ~SetUrl(o)
    <3>1. UNCHANGED <<catching, page>>
      BY <2>1, <2>4 DEF OpenerSteps, StartTimer, AwaitLoaded, WakeUp, SpuriousWakeUp, CancelOpen, TimerDue
    <3>2. /\ opener' \in [Openers -> OpenerStatus]
          /\ \A p \in Openers : opener'[p] \in {"idle", "started", "setUrl"} => opener[p] \in {"idle", "started", "setUrl"}
      BY <2>1, <2>4 DEF OpenerSteps, StartTimer, AwaitLoaded, WakeUp, SpuriousWakeUp, CancelOpen, TimerDue, Conclude,
        TriedBefore, OpenerStatus
    <3>. QED BY <2>2, <3>1, <3>2, TriedStays
  <2>. QED BY <2>3, <2>4
<1>3. CASE \E o \in Openers : TimerFire(o)
  <2>1. UNCHANGED <<check, immediate, evaluated, injected, catching, page>>
    BY <1>3 DEF TimerFire, scriptVars
  <2>2. /\ browserStatus' \in {browserStatus, "TIMEDOUT"} /\ (browserStatus = "LOADED" => browserStatus' = "LOADED")
        /\ opener' \in [Openers -> OpenerStatus]
        /\ \A p \in Openers : opener'[p] \in {"idle", "started", "setUrl"} => opener[p] \in {"idle", "started", "setUrl"}
    BY <1>3, AnnounceStatus DEF TimerFire, BrowserStatus, TriedBefore
  <2>. QED BY <2>1, <2>2, TriedStays
<1>4. CASE \E k \in Checks : StartCheck(k) \/ Completed(k) \/ BeforeInjection(k) \/ Inject(k) \/ MarkInjected(k)
  <2>1. PICK k \in Checks : StartCheck(k) \/ Completed(k) \/ BeforeInjection(k) \/ Inject(k) \/ MarkInjected(k)
    BY <1>4
  <2>2. UNCHANGED <<immediate, evaluated, browserStatus, opener, page>>
    BY <2>1 DEF StartCheck, Completed, BeforeInjection, Inject, MarkInjected, bvars
  <2>3. ~Fresh
    BY <2>1 DEF StartCheck, Completed, BeforeInjection, Inject, MarkInjected, Fresh
  <2>4. CASE StartCheck(k) \/ Completed(k) \/ BeforeInjection(k)
    BY <2>2, <2>3, <2>4 DEF StartCheck, Completed, BeforeInjection, TriedBefore, Tried
  <2>5. CASE Inject(k)
    BY <2>2, <2>3, <2>5 DEF Inject, TriedBefore, Tried
  <2>6. CASE MarkInjected(k)
    BY <2>2, <2>3, <2>6 DEF MarkInjected, TriedBefore, Tried
  <2>. QED BY <2>1, <2>4, <2>5, <2>6
<1>5. CASE \E k \in Checks : Complete(k)
  <2>1. PICK k \in Checks : Complete(k)
    BY <1>5
  <2>2. /\ Tried /\ ~Fresh /\ check' = [check EXCEPT ![k] = "done"]
        /\ UNCHANGED <<immediate, evaluated, injected, catching, page>>
    BY <2>1 DEF Complete, TriedBefore, scriptVars, Fresh
  <2>3. /\ browserStatus = "LOADED" => browserStatus' = "LOADED"
        /\ opener' \in [Openers -> OpenerStatus]
        /\ \A p \in Openers : opener'[p] \in {"idle", "started", "setUrl"} => opener[p] \in {"idle", "started", "setUrl"}
    BY <2>1, AnnounceStatus DEF Complete, BrowserStatus, TriedBefore
  <2>. QED BY <2>2, <2>3 DEF TriedBefore, Tried
<1>6. CASE CheckFails
  <2>1. NotifyAll /\ UNCHANGED <<browserStatus, check, immediate, evaluated, injected, catching, page>>
    BY <1>6 DEF CheckFails, Announce, scriptVars
  <2>2. /\ opener' \in [Openers -> OpenerStatus]
        /\ \A p \in Openers : opener'[p] \in {"idle", "started", "setUrl"} => opener[p] \in {"idle", "started", "setUrl"}
    BY <2>1 DEF NotifyAll, TriedBefore, OpenerStatus
  <2>. QED BY <2>1, <2>2, TriedStays
<1>7. CASE Dispose
  <2>1. UNCHANGED <<check, immediate, evaluated, injected, catching, page>>
    BY <1>7 DEF Dispose, scriptVars
  <2>2. /\ browserStatus' \in {browserStatus, "DISPOSED"} /\ (browserStatus = "LOADED" => browserStatus' = "LOADED")
        /\ opener' \in [Openers -> OpenerStatus]
        /\ \A p \in Openers : opener'[p] \in {"idle", "started", "setUrl"} => opener[p] \in {"idle", "started", "setUrl"}
    BY <1>7, AnnounceStatus DEF Dispose, BrowserStatus, TriedBefore
  <2>. QED BY <2>1, <2>2, TriedStays
<1>8. CASE RunnerSteps /\ UNCHANGED loadVars
  BY <1>8, TriedRunner
<1>. QED BY <1>1, <1>2, <1>3, <1>4, <1>5, <1>6, <1>7, <1>8 DEF WNext, CheckThread

\* A browser that is opened once evaluates no script of a client in its page
\* before it has tried its own, whichever checks, timeouts and disposals race.
\* With a second call it does not hold: the flag outlives the page.
THEOREM BrowserScriptsFirst ==
  ASSUME OpenedOnce
  PROVE  WSpec => InjectionComesFirst
<1>1. TriedBefore /\ UNCHANGED wvars => TriedBefore'
  BY TriedStays DEF wvars, bvars, loadVars, TriedBefore
<1>2. TriedBefore /\ [WNext]_wvars => TriedBefore'
  BY <1>1, TriedStep
<1>3. TriedBefore /\ [WNext]_wvars => [evaluated' # evaluated => catching # "untried"]_wvars
  BY TriedStep DEF Tried
<1>. QED BY TriedInit, <1>2, <1>3, PTL DEF WSpec, InjectionComesFirst

-----------------------------------------------------------------------------
(* open() always finds a status it knows.                                   *)

EndStatuses == {"LOADED", "TIMEDOUT", "DISPOSED"}

(* A call of open waits only while LOADING, and when its wait has ended    *)
(* loading has, or it was roused; no call or timer is under way before it  *)
(* has begun.                                                              *)
WaitsForTheEnd ==
  /\ browserStatus \in BrowserStatus
  /\ opener = [o \in Openers |-> opener[o]]
  /\ answer = [o \in Openers |-> answer[o]]
  /\ ErrorsAreRoused
  /\ \A o \in Openers :
       /\ opener[o] \notin {"idle", "done"} => browserStatus # "INITIALIZING"
       /\ timer[o] \in {"armed", "due"} => browserStatus # "INITIALIZING"
       /\ opener[o] = "waiting" => browserStatus = "LOADING"
       /\ opener[o] = "notified" => browserStatus \in EndStatuses \/ o \in roused

LEMMA WaitsInit == WInit => WaitsForTheEnd
BY DEF WInit, BInit, WaitsForTheEnd, ErrorsAreRoused, BrowserStatus

(* A synchronized block that ends the loading wakes every call with it.    *)
LEMMA WaitsAnnounce ==
  ASSUME WaitsForTheEnd, NEW new \in EndStatuses,
         NEW change \in BOOLEAN, Announce(change, new), UNCHANGED <<answer, roused>>,
         change \/ browserStatus # "LOADING",
         \A o \in Openers : timer'[o] \in {"armed", "due"} => timer[o] \in {"armed", "due"}
  PROVE  WaitsForTheEnd'
<1>1. browserStatus' \in {browserStatus, new} /\ new # "INITIALIZING" /\ new \in BrowserStatus
  BY StatusStep DEF Announce, EndStatuses, BrowserStatus
<1>2. browserStatus' # browserStatus => browserStatus' \in EndStatuses
  BY <1>1
<1>3. CASE browserStatus = "LOADING"
  <2>1. browserStatus' = new /\ NotifyAll
    BY <1>3 DEF Announce, SetBrowserStatus, Allowed, EndStatuses
  <2>. QED BY <1>1, <1>3, <2>1 DEF WaitsForTheEnd, NotifyAll, ErrorsAreRoused, EndStatuses
<1>4. CASE browserStatus # "LOADING"
  <2>1. \A o \in Openers : opener[o] # "waiting"
    BY <1>4 DEF WaitsForTheEnd
  <2>2. opener' = opener
    BY <2>1 DEF Announce, NotifyAll, WaitsForTheEnd
  <2>3. browserStatus \in EndStatuses => browserStatus' = browserStatus
    BY DEF Announce, SetBrowserStatus, Allowed, EndStatuses
  <2>. QED BY <1>1, <1>2, <1>4, <2>1, <2>2, <2>3 DEF WaitsForTheEnd, ErrorsAreRoused, EndStatuses
<1>. QED BY <1>3, <1>4

(* Steps that leave the status and the calls of open alone.                *)
LEMMA WaitsStays ==
  ASSUME WaitsForTheEnd, UNCHANGED <<browserStatus, opener, answer, timer, roused>>
  PROVE  WaitsForTheEnd'
BY DEF WaitsForTheEnd, ErrorsAreRoused

LEMMA WaitsConclude ==
  ASSUME WaitsForTheEnd, NEW o \in Openers, Conclude(o), UNCHANGED <<browserStatus, roused>>,
         browserStatus \in EndStatuses \/ (o \in roused /\ browserStatus # "INITIALIZING")
  PROVE  WaitsForTheEnd'
<1>1. \/ answer' = [answer EXCEPT ![o] = "true"] \/ answer' = [answer EXCEPT ![o] = "false"]
      \/ answer' = [answer EXCEPT ![o] = "Implementation error"] /\ o \in roused
  BY DEF Conclude, EndStatuses
<1>2. opener' = [opener EXCEPT ![o] = "done"]
  BY DEF Conclude
<1>3. \A p \in Openers : timer'[p] \in {"armed", "due"} => browserStatus # "INITIALIZING"
  BY DEF EndStatuses
<1>. QED BY <1>1, <1>2, <1>3 DEF WaitsForTheEnd, ErrorsAreRoused

LEMMA WaitsStep ==
  ASSUME WaitsForTheEnd, WNext
  PROVE  WaitsForTheEnd'
<1>1. CASE \E o \in Openers : Open(o)
  <2>1. PICK o \in Openers : Open(o)
    BY <1>1
  <2>2. timer' = timer /\ roused' = roused
    BY <2>1 DEF Open
  <2>3. CASE opener' = [opener EXCEPT ![o] = "done"]
    BY <2>1, <2>2, <2>3 DEF Open, WaitsForTheEnd, ErrorsAreRoused
  <2>4. CASE opener' = [opener EXCEPT ![o] = "started"]
    <3>1. browserStatus \in {"INITIALIZING", "LOADING"} /\ browserStatus' = "LOADING" /\ answer' = answer
      BY <2>1, <2>4 DEF Open, Allowed, WaitsForTheEnd
    <3>. QED BY <2>2, <2>4, <3>1 DEF WaitsForTheEnd, ErrorsAreRoused, BrowserStatus, EndStatuses
  <2>. QED BY <2>1, <2>3, <2>4 DEF Open
<1>2. CASE \E o \in Openers : OpenerSteps(o) \/ SpuriousWakeUp(o) \/ CancelOpen(o) \/ TimerDue(o)
  <2>1. PICK o \in Openers : OpenerSteps(o) \/ SpuriousWakeUp(o) \/ CancelOpen(o) \/ TimerDue(o)
    BY <1>2
  <2>2. browserStatus' = browserStatus /\ (roused' = roused \/ SpuriousWakeUp(o))
    BY <2>1 DEF OpenerSteps, StartTimer, SetUrl, AwaitLoaded, WakeUp, SpuriousWakeUp, CancelOpen, TimerDue, bvars
  <2>3. CASE StartTimer(o) \/ SetUrl(o) \/ TimerDue(o)
    BY <2>2, <2>3 DEF StartTimer, SetUrl, TimerDue, WaitsForTheEnd, ErrorsAreRoused
  <2>6. CASE SpuriousWakeUp(o) \/ CancelOpen(o)
    BY <2>2, <2>6 DEF SpuriousWakeUp, CancelOpen, WaitsForTheEnd, ErrorsAreRoused
  <2>4. CASE AwaitLoaded(o)
    <3>1. CASE browserStatus = "LOADING"
      BY <2>2, <2>4, <3>1 DEF AwaitLoaded, WaitsForTheEnd, ErrorsAreRoused
    <3>2. CASE browserStatus # "LOADING"
      BY <2>2, <2>4, <3>2, WaitsConclude DEF AwaitLoaded, WaitsForTheEnd, BrowserStatus, EndStatuses
    <3>. QED BY <3>1, <3>2
  <2>5. CASE WakeUp(o)
    BY <2>2, <2>5, WaitsConclude DEF WakeUp, WaitsForTheEnd
  <2>. QED BY <2>1, <2>3, <2>4, <2>5, <2>6 DEF OpenerSteps
<1>3. CASE \E o \in Openers : TimerFire(o)
  <2>1. PICK o \in Openers : TimerFire(o)
    BY <1>3
  <2>2. \A p \in Openers : timer'[p] \in {"armed", "due"} => timer[p] \in {"armed", "due"}
    BY <2>1 DEF TimerFire
  <2>. QED BY <2>1, <2>2, WaitsAnnounce DEF TimerFire, EndStatuses
<1>4. CASE \E k \in Checks : StartCheck(k) \/ Completed(k) \/ BeforeInjection(k) \/ Inject(k) \/ MarkInjected(k)
  BY <1>4, WaitsStays DEF StartCheck, Completed, BeforeInjection, Inject, MarkInjected, bvars
<1>5. CASE \E k \in Checks : Complete(k)
  BY <1>5, WaitsAnnounce DEF Complete, EndStatuses
<1>6. CASE CheckFails
  <2>1. /\ NotifyAll /\ UNCHANGED <<browserStatus, answer, timer>>
        /\ roused' = roused \cup {o \in Openers : opener[o] = "waiting"}
    BY <1>6 DEF CheckFails, Announce
  <2>2. \A o \in Openers : /\ opener'[o] = "notified" => opener[o] \in {"waiting", "notified"}
                           /\ opener'[o] \in {opener[o], "notified"}
                           /\ opener'[o] # "waiting"
                           /\ opener'[o] # opener[o] => opener[o] = "waiting"
    BY <2>1 DEF NotifyAll
  <2>3. opener' = [o \in Openers |-> opener'[o]]
    BY <2>1 DEF NotifyAll
  <2>. QED BY <2>1, <2>2, <2>3 DEF WaitsForTheEnd, ErrorsAreRoused
<1>7. CASE Dispose
  BY <1>7, WaitsAnnounce DEF Dispose, EndStatuses
<1>8. CASE RunnerSteps /\ UNCHANGED loadVars
  <2>1. browserStatus' = browserStatus
    BY <1>8 DEF RunnerSteps, ClientSteps, RunScript, RunUri, Run, EvaluateImmediately, UriLoaded, WorkerCalls, WorkerLoop,
      RegisterCallback, CancelUri, EvaluateDelayed, runnerStatus
  <2>. QED BY <1>8, <2>1, WaitsStays DEF loadVars
<1>. QED BY <1>1, <1>2, <1>3, <1>4, <1>5, <1>6, <1>7, <1>8 DEF WNext, CheckThread

\* No call of open() ends in the default case of its switch unless its wait()
\* has ended without a status, however many calls, timers, checks and disposals
\* race: whoever else ends a wait has set a status that ends the loading.
THEOREM OpenKnowsTheStatus == WSpec => []ErrorsAreRoused
<1>1. WaitsForTheEnd /\ UNCHANGED wvars => WaitsForTheEnd'
  BY WaitsStays DEF wvars, bvars, loadVars
<1>2. WaitsForTheEnd /\ [WNext]_wvars => WaitsForTheEnd'
  BY <1>1, WaitsStep
<1>3. WaitsForTheEnd => ErrorsAreRoused
  BY DEF WaitsForTheEnd
<1>. QED BY WaitsInit, <1>2, <1>3, PTL DEF WSpec

-----------------------------------------------------------------------------
(* What open() answers.                                                     *)

\* The variables of the loading have their types, and a call waits only while
\* LOADING.
LoadTypes ==
  /\ browserStatus \in BrowserStatus
  /\ opener \in [Openers -> OpenerStatus]
  /\ answer \in [Openers -> Answers]
  /\ timer \in [Openers -> {"none", "armed", "due", "fired", "cancelled"}]
  /\ check \in [Checks -> {"none", "testing", "started", "inject", "mark", "complete", "done"}]
  /\ injected \in BOOLEAN /\ catching \in {"untried", "absent", "present"}
  /\ page \in Openers \cup {NoPage}
  /\ completed \subseteq Openers /\ roused \subseteq Openers
  /\ \A o \in Openers : opener[o] = "waiting" => browserStatus = "LOADING"

TimeWasUp == \E o \in Openers : timer[o] = "fired"
WasFound == completed # {}

(* A status that ends the loading has its cause, which outlasts it: a page *)
(* that was found loaded, a timer that has fired, the disposal. So has     *)
(* what open() answers, which is read from the status. No check is under   *)
(* way without a page, no timer before its call.                           *)
Causes ==
  /\ \A o \in Openers : opener[o] \in {"idle", "started"} => timer[o] = "none"
  /\ \A k \in Checks : check[k] = "testing" => page # NoPage
  /\ \A k \in Checks : check[k] \notin {"none", "testing"} => WasFound
  /\ browserStatus = "LOADED" => WasFound
  /\ browserStatus = "TIMEDOUT" => TimeWasUp
  /\ browserStatus = "DISPOSED" => widgetDisposed
  /\ \A o \in Openers : answer[o] = "true" => WasFound
  /\ \A o \in Openers : answer[o] = "false" => TimeWasUp \/ widgetDisposed

LoadInv == LoadTypes /\ Causes

LEMMA LoadInit == WInit => LoadInv
BY NoPageIsNoOpener DEF WInit, BInit, LoadInv, LoadTypes, OpenerStatus, Answers, Causes, BrowserStatus, WasFound

(* Steps of the script runner, and others that change no status, disturb   *)
(* nothing of this.                                                        *)
LEMMA LoadStays ==
  ASSUME LoadInv, UNCHANGED <<browserStatus, widgetDisposed, loadVars>>
  PROVE  LoadInv'
BY DEF LoadInv, LoadTypes, Causes, loadVars, TimeWasUp, WasFound

(* A synchronized block that may change the status.                        *)
LEMMA LoadAnnounce ==
  ASSUME LoadInv, NEW new \in BrowserStatus \ {"INITIALIZING"}, NEW change \in BOOLEAN,
         Announce(change, new)
  PROVE  /\ browserStatus' = browserStatus \/ (change /\ browserStatus' = new)
         /\ browserStatus' \in BrowserStatus
         /\ opener' \in [Openers -> OpenerStatus]
         /\ \A o \in Openers : opener'[o] = "waiting" => browserStatus' = "LOADING"
         /\ \A o \in Openers : opener'[o] \in {"idle", "started"} => opener[o] \in {"idle", "started"}
<1>1. /\ browserStatus \in BrowserStatus
      /\ opener \in [Openers -> OpenerStatus]
      /\ \A o \in Openers : opener[o] = "waiting" => browserStatus = "LOADING"
  BY DEF LoadInv, LoadTypes
<1>2. CASE NotifyAll
  <2>1. /\ opener' \in [Openers -> OpenerStatus]
        /\ \A o \in Openers : opener'[o] # "waiting"
        /\ \A o \in Openers : opener'[o] \in {"idle", "started"} => opener[o] \in {"idle", "started"}
    BY <1>1, <1>2 DEF NotifyAll, OpenerStatus
  <2>. QED BY <1>1, <2>1 DEF Announce, SetBrowserStatus
<1>3. CASE ~NotifyAll
  BY <1>1, <1>3 DEF Announce, SetBrowserStatus
<1>. QED BY <1>2, <1>3

LEMMA LoadOpen ==
  ASSUME LoadInv, NEW o \in Openers,
         Open(o) \/ OpenerSteps(o) \/ SpuriousWakeUp(o) \/ CancelOpen(o) \/ TimerDue(o)
  PROVE  LoadInv'
<1>1. CASE Open(o)
  <2>1. /\ LoadTypes'
    BY <1>1 DEF Open, LoadInv, LoadTypes, OpenerStatus, Answers, BrowserStatus
  <2>2. Causes'
    BY <1>1 DEF Open, LoadInv, LoadTypes, OpenerStatus, Answers, Causes, TimeWasUp, WasFound
  <2>. QED BY <2>1, <2>2 DEF LoadInv
<1>2. CASE StartTimer(o)
  <2>1. LoadTypes'
    BY <1>2 DEF StartTimer, LoadInv, LoadTypes, OpenerStatus, Answers, bvars
  <2>2. \A p \in Openers : timer[p] = "fired" => timer'[p] = "fired"
    BY <1>2 DEF StartTimer, LoadInv, LoadTypes, OpenerStatus, Answers, Causes
  <2>3. Causes'
    BY <1>2, <2>2 DEF StartTimer, LoadInv, LoadTypes, OpenerStatus, Answers, Causes, TimeWasUp, WasFound, bvars
  <2>. QED BY <2>1, <2>3 DEF LoadInv
<1>3. CASE SetUrl(o)
  <2>1. LoadTypes'
    BY <1>3 DEF SetUrl, LoadInv, LoadTypes, OpenerStatus, Answers, bvars
  <2>2. Causes'
    BY <1>3, NoPageIsNoOpener DEF SetUrl, LoadInv, LoadTypes, OpenerStatus, Answers, Causes, TimeWasUp, WasFound, bvars
  <2>. QED BY <2>1, <2>2 DEF LoadInv
<1>4. ASSUME Conclude(o), UNCHANGED <<bvars, check, injected, catching, page, completed, roused>>
      PROVE  LoadInv'
  <2>1. PICK a : /\ answer' = [answer EXCEPT ![o] = a]
                 /\ a \in {"true", "false", "Implementation error"}
                 /\ a = "true" => browserStatus = "LOADED"
                 /\ a = "false" => browserStatus \in {"TIMEDOUT", "DISPOSED"}
    <3>1. \/ answer' = [answer EXCEPT ![o] = "true"] /\ browserStatus = "LOADED"
          \/ answer' = [answer EXCEPT ![o] = "false"] /\ browserStatus \in {"TIMEDOUT", "DISPOSED"}
          \/ answer' = [answer EXCEPT ![o] = "Implementation error"]
      BY <1>4 DEF Conclude
    <3>. QED BY <3>1
  <2>2. LoadTypes'
    BY <1>4, <2>1 DEF Conclude, LoadInv, LoadTypes, OpenerStatus, Answers, bvars
  <2>3. \A p \in Openers : timer[p] = "fired" => timer'[p] = "fired"
    BY <1>4 DEF Conclude, LoadInv, LoadTypes, OpenerStatus, Answers
  <2>4. TimeWasUp => TimeWasUp'
    BY <2>3 DEF TimeWasUp
  <2>5. \A p \in Openers : opener'[p] \in {"idle", "started"} => timer'[p] = "none"
    BY <1>4 DEF Conclude, LoadInv, LoadTypes, OpenerStatus, Answers, Causes
  <2>6. Causes'
    BY <1>4, <2>1, <2>4, <2>5 DEF LoadInv, LoadTypes, Causes, WasFound, bvars
  <2>. QED BY <2>2, <2>6 DEF LoadInv
<1>5. CASE AwaitLoaded(o)
  <2>1. CASE browserStatus = "LOADING"
    <3>1. LoadTypes'
      BY <1>5, <2>1 DEF AwaitLoaded, LoadInv, LoadTypes, OpenerStatus, Answers, bvars
    <3>2. Causes'
      BY <1>5, <2>1 DEF AwaitLoaded, LoadInv, LoadTypes, OpenerStatus, Answers, Causes, TimeWasUp, WasFound, bvars
    <3>. QED BY <3>1, <3>2 DEF LoadInv
  <2>2. CASE browserStatus # "LOADING"
    BY <1>4, <1>5, <2>2 DEF AwaitLoaded
  <2>. QED BY <2>1, <2>2
<1>6. CASE WakeUp(o)
  BY <1>4, <1>6 DEF WakeUp
<1>7. CASE TimerDue(o)
  <2>1. LoadTypes'
    BY <1>7 DEF TimerDue, LoadInv, LoadTypes, OpenerStatus, Answers, bvars
  <2>2. \A p \in Openers : timer[p] = "fired" => timer'[p] = "fired"
    BY <1>7 DEF TimerDue, LoadInv, LoadTypes, OpenerStatus, Answers
  <2>3. Causes'
    BY <1>7, <2>2 DEF TimerDue, LoadInv, LoadTypes, OpenerStatus, Answers, Causes, TimeWasUp, WasFound, bvars
  <2>. QED BY <2>1, <2>3 DEF LoadInv
<1>8. CASE SpuriousWakeUp(o) \/ CancelOpen(o)
  <2>1. LoadTypes'
    BY <1>8 DEF SpuriousWakeUp, CancelOpen, LoadInv, LoadTypes, OpenerStatus, Answers, bvars
  <2>2. Causes'
    BY <1>8 DEF SpuriousWakeUp, CancelOpen, LoadInv, LoadTypes, Causes, TimeWasUp, WasFound, bvars
  <2>. QED BY <2>1, <2>2 DEF LoadInv
<1>. QED BY <1>1, <1>2, <1>3, <1>5, <1>6, <1>7, <1>8 DEF OpenerSteps

LEMMA LoadTimer ==
  ASSUME LoadInv, NEW o \in Openers, TimerFire(o)
  PROVE  LoadInv'
<1>1. /\ browserStatus' = browserStatus \/ browserStatus' = "TIMEDOUT"
      /\ browserStatus' \in BrowserStatus
      /\ opener' \in [Openers -> OpenerStatus]
      /\ \A p \in Openers : opener'[p] = "waiting" => browserStatus' = "LOADING"
      /\ \A p \in Openers : opener'[p] \in {"idle", "started"} => opener[p] \in {"idle", "started"}
  BY LoadAnnounce DEF TimerFire, BrowserStatus
<1>2. timer[o] = "due" /\ timer' = [timer EXCEPT ![o] = "fired"]
      /\ UNCHANGED <<widgetDisposed, answer, check, injected, catching, page, completed, roused>>
  BY DEF TimerFire
<1>3. LoadTypes'
  BY <1>1, <1>2 DEF LoadInv, LoadTypes
<1>4. TimeWasUp'
  BY <1>2 DEF TimeWasUp, LoadInv, LoadTypes
<1>5. Causes'
  BY <1>1, <1>2, <1>4 DEF LoadInv, LoadTypes, Causes, WasFound
<1>. QED BY <1>3, <1>5 DEF LoadInv

LEMMA LoadCheck ==
  ASSUME LoadInv, NEW k \in Checks,
         StartCheck(k) \/ Completed(k) \/ BeforeInjection(k) \/ CheckThread(k)
  PROVE  LoadInv'
<1>1. CASE StartCheck(k)
  <2>1. LoadTypes'
    BY <1>1 DEF StartCheck, LoadInv, LoadTypes, bvars
  <2>2. Causes'
    BY <1>1 DEF StartCheck, LoadInv, LoadTypes, Causes, TimeWasUp, WasFound, bvars
  <2>. QED BY <2>1, <2>2 DEF LoadInv
<1>2. CASE Completed(k)
  <2>1. page \in Openers
    BY <1>2 DEF Completed, LoadInv, LoadTypes, Causes
  <2>2. LoadTypes'
    BY <1>2, <2>1 DEF Completed, LoadInv, LoadTypes, bvars
  <2>3. WasFound'
    BY <1>2 DEF Completed, WasFound
  <2>4. \A j \in Checks : check'[j] = "testing" => check[j] = "testing"
    BY <1>2 DEF Completed, LoadInv, LoadTypes
  <2>5. Causes'
    BY <1>2, <2>3, <2>4 DEF Completed, LoadInv, LoadTypes, Causes, TimeWasUp, bvars
  <2>. QED BY <2>2, <2>5 DEF LoadInv
<1>3. CASE BeforeInjection(k) \/ Inject(k) \/ MarkInjected(k)
  <2>1. LoadTypes'
    BY <1>3 DEF BeforeInjection, Inject, MarkInjected, LoadInv, LoadTypes, bvars
  <2>2. Causes'
    BY <1>3 DEF BeforeInjection, Inject, MarkInjected, LoadInv, LoadTypes, Causes, TimeWasUp, WasFound, bvars
  <2>. QED BY <2>1, <2>2 DEF LoadInv
<1>4. CASE Complete(k)
  <2>1. /\ browserStatus' = browserStatus \/ browserStatus' = "LOADED"
        /\ browserStatus' \in BrowserStatus
        /\ opener' \in [Openers -> OpenerStatus]
        /\ \A p \in Openers : opener'[p] = "waiting" => browserStatus' = "LOADING"
        /\ \A p \in Openers : opener'[p] \in {"idle", "started"} => opener[p] \in {"idle", "started"}
    BY <1>4, LoadAnnounce DEF Complete, BrowserStatus
  <2>2. check[k] = "complete" /\ check' = [check EXCEPT ![k] = "done"]
        /\ UNCHANGED <<widgetDisposed, answer, timer, injected, catching, page, completed, roused>>
    BY <1>4 DEF Complete
  <2>3. LoadTypes'
    BY <2>1, <2>2 DEF LoadInv, LoadTypes
  <2>4. WasFound
    BY <2>2 DEF LoadInv, Causes
  <2>5. Causes'
    BY <2>1, <2>2, <2>4 DEF LoadInv, LoadTypes, Causes, TimeWasUp, WasFound
  <2>. QED BY <2>3, <2>5 DEF LoadInv
<1>. QED BY <1>1, <1>2, <1>3, <1>4 DEF CheckThread

LEMMA LoadStep ==
  ASSUME LoadInv, [WNext]_wvars
  PROVE  LoadInv'
<1>1. CASE \E o \in Openers : \/ Open(o) \/ OpenerSteps(o) \/ SpuriousWakeUp(o) \/ CancelOpen(o)
                              \/ TimerDue(o) \/ TimerFire(o)
  BY <1>1, LoadOpen, LoadTimer
<1>2. CASE \E k \in Checks : StartCheck(k) \/ Completed(k) \/ BeforeInjection(k) \/ CheckThread(k)
  BY <1>2, LoadCheck
<1>3. CASE CheckFails
  <2>1. NotifyAll /\ browserStatus' = browserStatus
        /\ roused' = roused \cup {o \in Openers : opener[o] = "waiting"}
        /\ UNCHANGED <<widgetDisposed, answer, timer, check, injected, catching, page, completed>>
    BY <1>3 DEF CheckFails, Announce
  <2>2. LoadTypes'
    BY <2>1 DEF LoadInv, LoadTypes, NotifyAll, OpenerStatus
  <2>3. Causes'
    BY <2>1 DEF LoadInv, LoadTypes, Causes, NotifyAll, TimeWasUp, WasFound
  <2>. QED BY <2>2, <2>3 DEF LoadInv
<1>4. CASE Dispose
  <2>1. /\ browserStatus' = browserStatus \/ browserStatus' = "DISPOSED"
        /\ browserStatus' \in BrowserStatus
        /\ opener' \in [Openers -> OpenerStatus]
        /\ \A p \in Openers : opener'[p] = "waiting" => browserStatus' = "LOADING"
        /\ \A p \in Openers : opener'[p] \in {"idle", "started"} => opener[p] \in {"idle", "started"}
    BY <1>4, LoadAnnounce DEF Dispose, BrowserStatus
  <2>2. widgetDisposed' = TRUE /\ UNCHANGED <<answer, timer, check, injected, catching, page, completed, roused>>
    BY <1>4 DEF Dispose
  <2>3. LoadTypes'
    BY <2>1, <2>2 DEF LoadInv, LoadTypes
  <2>4. Causes'
    BY <2>1, <2>2 DEF LoadInv, LoadTypes, Causes, TimeWasUp, WasFound
  <2>. QED BY <2>3, <2>4 DEF LoadInv
<1>5. CASE RunnerSteps /\ UNCHANGED loadVars
  <2>1. UNCHANGED <<browserStatus, widgetDisposed>>
    BY <1>5 DEF RunnerSteps, ClientSteps, RunScript, RunUri, Run, EvaluateImmediately, RegisterCallback, UriLoaded, CancelUri, WorkerCalls, WorkerLoop,
      EvaluateDelayed, runnerStatus
  <2>. QED BY <1>5, <2>1, LoadStays
<1>6. CASE UNCHANGED wvars
  BY <1>6, LoadStays DEF wvars, bvars
<1>. QED BY <1>1, <1>2, <1>3, <1>4, <1>5, <1>6 DEF WNext

\* The browser's variables have their types, its script runner's included, and
\* calls of open() wait only while LOADING, however many calls, timers and checks
\* there are and whether or not checks throw: whoever ends the loading wakes them.
THEOREM BrowserTypes == WSpec => []BrowserTypeOK
<1>1. LoadInv /\ RunnerTypeOK => BrowserTypeOK
  BY DEF LoadInv, LoadTypes, BrowserTypeOK
<1>2. WSpec => []RunnerTypeOK
  BY Composition, RunnerTypes, PTL DEF UsesScriptRunner
<1>. QED BY <1>1, <1>2, LoadInit, LoadStep, PTL DEF WSpec

\* What any number of calls of open() may conclude from their answers: true, that
\* a page was found loaded; false, that a timeout was reached, though it may be
\* another call's, or that the widget is gone.
OpensReport ==
  \A o \in Openers :
    /\ answer[o] = "true" => WasFound
    /\ answer[o] = "false" => TimeWasUp \/ widgetDisposed

\* However many calls of open() overlap, each answer has such a cause: Conclude
\* reads a status that waitAndComplete, a watcher or the disposal has set.
THEOREM AnswersHaveCauses == WSpec => []OpensReport
<1>1. LoadInv => OpensReport
  BY DEF LoadInv, Causes, OpensReport
<1>. QED BY <1>1, LoadInit, LoadStep, PTL DEF WSpec

\* A browser that is opened once answers for that call: true only for its page,
\* false only after its own timeout or without a widget.
THEOREM SingleOpenReports ==
  ASSUME OpenedOnce
  PROVE  WSpec => []OpenReports
<1>1. LoadInv => OpenReports
  <2>. SUFFICES ASSUME LoadInv, NEW o \in Openers
                PROVE  /\ answer[o] = "true" => o \in completed
                       /\ answer[o] = "false" => timer[o] = "fired" \/ widgetDisposed
    BY DEF OpenReports
  <2>1. \A p \in Openers : p = o
    BY DEF OpenedOnce
  <2>2. answer[o] = "true" => completed # {} /\ completed \subseteq Openers
    BY DEF LoadInv, LoadTypes, Causes, WasFound
  <2>3. answer[o] = "false" => widgetDisposed \/ \E p \in Openers : timer[p] = "fired"
    BY DEF LoadInv, Causes, TimeWasUp
  <2>. QED BY <2>1, <2>2, <2>3
<1>. QED BY <1>1, LoadInit, LoadStep, PTL DEF WSpec
=============================================================================
