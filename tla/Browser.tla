-------------------------------- MODULE Browser --------------------------------
(***************************************************************************)
(* com.bkahlert.nebula.widgets.browser.Browser: open() and everything that *)
(* can end the loading it starts, around a BrowserScriptRunner.            *)
(*                                                                         *)
(* Threads: the UI thread (open, the page's callbacks, disposal), a helper *)
(* thread and a timer for each open, a thread for each completed check.    *)
(* They meet in Browser.monitor, which is free when no setBrowserStatus is *)
(* in progress: pending[Monitor] = <<>>. A notifyAll at the end of a       *)
(* synchronized block is made with the change of status it announces: the  *)
(* threads it wakes wait for the monitor anyway.                           *)
(***************************************************************************)
EXTENDS BrowserScriptRunner

CONSTANTS Openers,        \* calls of open()
          Timed,          \* those with a timeout
          Checks,         \* bound: load checks that find the page loaded
          ChecksMayFail,  \* may the load check throw?
          SpuriousWakeUps,  \* may wait() return by itself, as Object.wait() says it may?
          NoPage

ASSUME TimedAreOpeners == Timed \subseteq Openers
ASSUME NoPageIsNoOpener == NoPage \notin Openers

OpenerStatus == {"idle", "started", "setUrl", "set", "waiting", "notified", "done"}
Answers == {"none", "refused", "true", "false", "Implementation error", "cancelled"}

VARIABLES
  opener,       \* opener[o]: where the helper thread of open call o stands
  answer,       \* answer[o]: what the future of open call o yields
  timer,        \* timer[o]: the Timeout Watcher of o
  check,        \* check[k]: where a load check and the thread it starts stand
  injected,     \* Browser.eventCatchScriptInjected
  catching,     \* the event catch script in the present page: "untried", "absent", "present"
  page,         \* the open call whose address the widget was set to last
  completed,    \* history: the open calls whose page was found loaded
  roused        \* history: the open calls whose wait() ended with no status announced

loadVars == <<opener, answer, timer, check, injected, catching, page, completed, roused>>
wvars == <<bvars, loadVars>>

WInit ==
  /\ BInit
  /\ opener = [o \in Openers |-> "idle"]
  /\ answer = [o \in Openers |-> "none"]
  /\ timer = [o \in Openers |-> "none"]
  /\ check = [k \in Checks |-> "none"]
  /\ injected = FALSE
  /\ catching = "untried"
  /\ page = NoPage
  /\ completed = {}
  /\ roused = {}

\* monitor.notifyAll()
NotifyAll == opener' = [o \in Openers |-> IF opener[o] = "waiting" THEN "notified" ELSE opener[o]]

MonitorFree == pending[Monitor] = <<>>

\* synchronized (monitor) { if (change) setBrowserStatus(new); notifyAll(); }
\* A setBrowserStatus that throws leaves out the notifyAll.
Announce(change, new) ==
  /\ MonitorFree
  /\ IF change
       THEN /\ SetBrowserStatus(new)
            /\ IF new = browserStatus \/ Allowed(browserStatus, new)
                 THEN NotifyAll ELSE UNCHANGED opener
       ELSE NotifyAll /\ UNCHANGED <<vars, browserStatus>>

-----------------------------------------------------------------------------
(* open                                                                     *)

\* Mutant: open() forces the status to LOADING.
OpenRestarts(o) ==
  /\ opener[o] = "idle"
  /\ IF ~widgetDisposed
       THEN /\ browserStatus' = "LOADING"
            /\ opener' = [opener EXCEPT ![o] = "started"]
            /\ UNCHANGED answer
       ELSE /\ opener' = [opener EXCEPT ![o] = "done"]
            /\ answer' = [answer EXCEPT ![o] = "refused"]
            /\ UNCHANGED browserStatus
  /\ UNCHANGED <<vars, widgetDisposed, scriptVars, timer, check, injected, catching, page, completed, roused>>

\* The part of open() in the UI thread: it throws or starts the helper thread.
Open(o) ==
  /\ opener[o] = "idle"
  /\ IF ~widgetDisposed /\ (browserStatus = "LOADING" \/ Allowed(browserStatus, "LOADING"))
       THEN /\ browserStatus' = "LOADING"
            /\ opener' = [opener EXCEPT ![o] = "started"]
            /\ UNCHANGED answer
       ELSE /\ opener' = [opener EXCEPT ![o] = "done"]
            /\ answer' = [answer EXCEPT ![o] = "refused"]
            /\ UNCHANGED browserStatus
  /\ UNCHANGED <<vars, widgetDisposed, scriptVars, timer, check, injected, catching, page, completed, roused>>

\* Mutant: the test for a timeout is inverted.
StartTimerUntimed(o) ==
  /\ opener[o] = "started"
  /\ opener' = [opener EXCEPT ![o] = "setUrl"]
  /\ timer' = [timer EXCEPT ![o] = IF o \in Timed THEN "none" ELSE "armed"]
  /\ UNCHANGED <<bvars, answer, check, injected, catching, page, completed, roused>>

\* The helper thread starts the timer if there is a timeout.
StartTimer(o) ==
  /\ opener[o] = "started"
  /\ opener' = [opener EXCEPT ![o] = "setUrl"]
  /\ timer' = [timer EXCEPT ![o] = IF o \in Timed THEN "armed" ELSE "none"]
  /\ UNCHANGED <<bvars, answer, check, injected, catching, page, completed, roused>>

\* The UI thread sets the address of the widget if there still is one: a new
\* page, without scripts. The flag of the page before is left as it is.
SetUrl(o) ==
  /\ opener[o] = "setUrl"
  /\ opener' = [opener EXCEPT ![o] = "set"]
  /\ page' = IF widgetDisposed THEN page ELSE o
  /\ catching' = IF widgetDisposed THEN catching ELSE "untried"
  /\ UNCHANGED <<bvars, answer, timer, check, injected, completed, roused>>

\* Mutant: whatever is not disposed of is taken for loaded.
ConcludeUnlessDisposed(o) ==
  /\ answer' = [answer EXCEPT ![o] = IF browserStatus = "DISPOSED" THEN "false" ELSE "true"]
  /\ timer' = [timer EXCEPT ![o] = IF @ = "armed" THEN "cancelled" ELSE @]
  /\ opener' = [opener EXCEPT ![o] = "done"]

\* The synchronized block at the end of open(), up to its return or its wait().
\* cancel(true) stops a timer that sleeps, not one that waits for the monitor.
Conclude(o) ==
  /\ answer' = [answer EXCEPT ![o] =
        CASE browserStatus = "LOADED" -> "true"
          [] browserStatus \in {"TIMEDOUT", "DISPOSED"} -> "false"
          [] OTHER -> "Implementation error"]
  /\ timer' = [timer EXCEPT ![o] = IF @ = "armed" THEN "cancelled" ELSE @]
  /\ opener' = [opener EXCEPT ![o] = "done"]

AwaitLoaded(o) ==
  /\ opener[o] = "set" /\ MonitorFree
  /\ IF browserStatus = "LOADING"
       THEN opener' = [opener EXCEPT ![o] = "waiting"] /\ UNCHANGED <<answer, timer>>
       ELSE Conclude(o)
  /\ UNCHANGED <<bvars, check, injected, catching, page, completed, roused>>

\* wait() returns without a notification.
SpuriousWakeUp(o) ==
  /\ SpuriousWakeUps /\ opener[o] = "waiting"
  /\ opener' = [opener EXCEPT ![o] = "notified"]
  /\ roused' = roused \cup {o}
  /\ UNCHANGED <<bvars, answer, timer, check, injected, catching, page, completed>>

\* The future is cancelled: wait() throws, which skips the rest, the timer's
\* cancellation included. A call cancelled earlier takes this step as soon as it
\* waits.
CancelOpen(o) ==
  /\ opener[o] = "waiting"
  /\ opener' = [opener EXCEPT ![o] = "done"]
  /\ answer' = [answer EXCEPT ![o] = "cancelled"]
  /\ UNCHANGED <<bvars, timer, check, injected, catching, page, completed, roused>>

\* wait() has returned, whatever ended it; the status is not looked at again
\* before the switch.
WakeUp(o) ==
  /\ opener[o] = "notified" /\ MonitorFree
  /\ Conclude(o)
  /\ UNCHANGED <<bvars, check, injected, catching, page, completed, roused>>

\* The timer's delay is over; it now wants the monitor.
TimerDue(o) ==
  /\ timer[o] = "armed"
  /\ timer' = [timer EXCEPT ![o] = "due"]
  /\ UNCHANGED <<bvars, opener, answer, check, injected, catching, page, completed, roused>>

\* Mutant: the timer sets the status and wakes no one.
TimerFireSilently(o) ==
  /\ timer[o] = "due"
  /\ MonitorFree
  /\ IF browserStatus # "LOADED" THEN SetBrowserStatus("TIMEDOUT") ELSE UNCHANGED <<vars, browserStatus>>
  /\ timer' = [timer EXCEPT ![o] = "fired"]
  /\ UNCHANGED <<widgetDisposed, scriptVars, opener, answer, check, injected, catching, page, completed, roused>>

\* Mutant: the timer wakes the waiting threads before it sets the status.
TimerFireWakesOnly(o) ==
  /\ timer[o] = "due"
  /\ Announce(FALSE, "TIMEDOUT")
  /\ timer' = [timer EXCEPT ![o] = "fired"]
  /\ UNCHANGED <<widgetDisposed, scriptVars, answer, check, injected, catching, page, completed, roused>>

\* The Timeout Watcher in its synchronized block.
TimerFire(o) ==
  /\ timer[o] = "due"
  /\ Announce(browserStatus # "LOADED", "TIMEDOUT")
  /\ timer' = [timer EXCEPT ![o] = "fired"]
  /\ UNCHANGED <<widgetDisposed, scriptVars, answer, check, injected, catching, page, completed, roused>>

-----------------------------------------------------------------------------
(* The page: its progress events, the load check and what follows it.       *)

\* waitAndComplete: the progress listener of some open call runs a script that
\* will call back when the page is complete.
StartCheck(k) ==
  /\ check[k] = "none"
  /\ page # NoPage /\ ~widgetDisposed /\ browserStatus = "LOADING"
  /\ check' = [check EXCEPT ![k] = "testing"]
  /\ UNCHANGED <<bvars, opener, answer, timer, injected, catching, page, completed, roused>>

\* The check script throws: the monitor is notified, the status stays.
CheckFails ==
  /\ ChecksMayFail
  /\ page # NoPage /\ ~widgetDisposed /\ browserStatus = "LOADING"
  /\ Announce(FALSE, browserStatus)
  /\ roused' = roused \cup {o \in Openers : opener[o] = "waiting"}
  /\ UNCHANGED <<widgetDisposed, scriptVars, answer, timer, check, injected, catching, page, completed>>

\* The page calls back: complete() starts a thread of its own.
Completed(k) ==
  /\ check[k] = "testing" /\ ~widgetDisposed
  /\ check' = [check EXCEPT ![k] = "started"]
  /\ completed' = completed \cup {page}
  /\ UNCHANGED <<bvars, opener, answer, timer, injected, catching, page, roused>>

\* Mutant: the flag is set before the scripts are run.
BeforeInjectionMarks(k) ==
  /\ check[k] = "started"
  /\ check' = [check EXCEPT ![k] = IF injected THEN "complete" ELSE "inject"]
  /\ injected' = TRUE
  /\ UNCHANGED <<bvars, opener, answer, timer, catching, page, completed, roused>>

\* beforeCompletion's future is done; injectEventCatchScript looks at its flag.
BeforeInjection(k) ==
  /\ check[k] = "started"
  /\ check' = [check EXCEPT ![k] = IF injected THEN "complete" ELSE "inject"]
  /\ UNCHANGED <<bvars, opener, answer, timer, injected, catching, page, completed, roused>>

\* The event catch script runs in the UI thread; an exception is logged only.
Inject(k) ==
  /\ check[k] = "inject"
  /\ \/ catching' = IF catching = "untried" THEN "absent" ELSE catching
     \/ ~widgetDisposed /\ catching' = "present"
  /\ check' = [check EXCEPT ![k] = "mark"]
  /\ UNCHANGED <<bvars, opener, answer, timer, injected, page, completed, roused>>

MarkInjected(k) ==
  /\ check[k] = "mark"
  /\ injected' = TRUE
  /\ check' = [check EXCEPT ![k] = "complete"]
  /\ UNCHANGED <<bvars, opener, answer, timer, catching, page, completed, roused>>

\* The end of complete(): the page is LOADED unless loading has ended already.
Complete(k) ==
  /\ check[k] = "complete"
  /\ Announce(browserStatus \notin {"TIMEDOUT", "DISPOSED"}, "LOADED")
  /\ check' = [check EXCEPT ![k] = "done"]
  /\ UNCHANGED <<widgetDisposed, scriptVars, answer, timer, injected, catching, page, completed, roused>>

\* Mutant: the dispose listener wakes no one.
DisposeQuietly ==
  /\ ~widgetDisposed
  /\ MonitorFree
  /\ widgetDisposed' = TRUE
  /\ IF browserStatus = "LOADING" THEN SetBrowserStatus("DISPOSED") ELSE UNCHANGED <<vars, browserStatus>>
  /\ UNCHANGED <<scriptVars, loadVars>>

\* The dispose listener, and the widget is gone.
Dispose ==
  /\ ~widgetDisposed
  /\ widgetDisposed' = TRUE
  /\ Announce(browserStatus = "LOADING", "DISPOSED")
  /\ UNCHANGED <<scriptVars, answer, timer, check, injected, catching, page, completed, roused>>

-----------------------------------------------------------------------------

OpenerSteps(o) == StartTimer(o) \/ SetUrl(o) \/ AwaitLoaded(o) \/ WakeUp(o)
CheckThread(k) == Inject(k) \/ MarkInjected(k) \/ Complete(k)

WNext ==
  \/ \E o \in Openers : Open(o) \/ OpenerSteps(o) \/ SpuriousWakeUp(o) \/ CancelOpen(o)
  \/ \E o \in Openers : TimerDue(o) \/ TimerFire(o)
  \/ \E k \in Checks : StartCheck(k) \/ Completed(k) \/ BeforeInjection(k) \/ CheckThread(k)
  \/ CheckFails
  \/ Dispose
  \/ RunnerSteps /\ UNCHANGED loadVars

\* Threads go on, and a timer's delay passes. Nothing makes the page complete,
\* the future of beforeCompletion be done, or the user open or dispose.
WFairness ==
  /\ WF_wvars((WorkerLoop \/ EvaluateDelayed) /\ UNCHANGED loadVars)
  /\ \A c \in Callers : WF_wvars(CallerStep(c) /\ UNCHANGED <<runnerStatus, scriptVars, loadVars>>)
  /\ \A c \in Clients : WF_wvars(EvaluateImmediately(c) /\ UNCHANGED loadVars)
  \* Weak fairness is enough for the monitor: in the end no one asks for it.
  /\ \A o \in Openers : WF_wvars(OpenerSteps(o)) /\ WF_wvars(TimerDue(o)) /\ WF_wvars(TimerFire(o))
  /\ \A k \in Checks : WF_wvars(CheckThread(k))

WSpec == WInit /\ [][WNext]_wvars
WFairSpec == WSpec /\ WFairness

-----------------------------------------------------------------------------
(* Properties.                                                              *)

\* The variables have their types, and open calls wait only while LOADING:
\* whoever ends the loading has woken them.
BrowserTypeOK ==
  /\ RunnerTypeOK
  /\ opener \in [Openers -> OpenerStatus]
  /\ answer \in [Openers -> Answers]
  /\ timer \in [Openers -> {"none", "armed", "due", "fired", "cancelled"}]
  /\ check \in [Checks -> {"none", "testing", "started", "inject", "mark", "complete", "done"}]
  /\ injected \in BOOLEAN /\ catching \in {"untried", "absent", "present"}
  /\ page \in Openers \cup {NoPage}
  /\ completed \subseteq Openers /\ roused \subseteq Openers
  /\ \A o \in Openers : opener[o] = "waiting" => browserStatus = "LOADING"

\* Whatever the browser's threads do, it drives its script runner in a way the
\* runner was checked for: status changes are legal and one at a time.
UsesScriptRunner == BSpec

\* No script of a client is evaluated in a page before the browser has tried to
\* inject its own scripts into it ("injects necessary scripts, runs the
\* scheduled user scripts").
InjectionComesFirst == [][evaluated' # evaluated => catching # "untried"]_wvars

\* open() yields true only for a page that was found loaded, and false only if
\* its own timeout was reached or the widget is gone ("true if page could be
\* successfully loaded; false if the timeout was reached").
OpenReports ==
  \A o \in Openers :
    /\ answer[o] = "true" => o \in completed
    /\ answer[o] = "false" => timer[o] = "fired" \/ widgetDisposed

\* The default case of the switch at the end of open() ("throw new
\* RuntimeException("Implementation error")") is reached only by a call whose
\* wait() ended although nobody had announced a status: by itself, or because a
\* load check threw. Whoever ends the loading sets the status first.
ErrorsAreRoused == \A o \in Openers : answer[o] = "Implementation error" => o \in roused

\* A call of open() with a timeout is answered, whatever the page does.
OpenAnswers == \A o \in Timed : opener[o] # "idle" ~> opener[o] = "done"

\* So is every call once the widget is disposed of.
DisposalAnswers == \A o \in Openers : (opener[o] # "idle" /\ widgetDisposed) ~> opener[o] = "done"

\* The browser stops loading after the timeout ("timeout after which the
\* IBrowser stops loading").
LoadingEnds == browserStatus = "LOADING" ~> browserStatus # "LOADING"

\* It does so unless the wait() of a call has ended without a status: that call
\* cancels its timer all the same.
UndisturbedLoadingEnds == browserStatus = "LOADING" ~> browserStatus # "LOADING" \/ roused # {}
=============================================================================
