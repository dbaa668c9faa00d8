------------------------ MODULE ModificationNotifier ------------------------
(***************************************************************************)
(* com.bkahlert.nebula.utils.ModificationNotifier: tells the listeners of  *)
(* a control that its value has changed, after a delay.                    *)
(*                                                                         *)
(* The UI thread reports changes with modified(); any thread may ask for   *)
(* the delayed event at once with notifyNow(). Both work under the monitor *)
(* of the control. The thread of the java.util.Timer tells a change that   *)
(* has become due without it. Changes are numbered in the order in which   *)
(* they were accepted.                                                     *)
(***************************************************************************)
EXTENDS Naturals, FiniteSets

CONSTANTS UI,          \* the UI thread
          Jobs,        \* other threads that call notifyNow
          TimerThread, \* the thread of the timer
          NoThread,
          Values, NoValue,
          MaxChanges,  \* bound on the changes that are accepted
          Delays,      \* which delays are looked at: TRUE is delayChangeEventTo > 0
          Failures     \* TRUE: listeners may throw; FALSE: they never do

Callers == Jobs \cup {UI}
Threads == Callers \cup {TimerThread}
Changes == 1 .. MaxChanges

ASSUME ThreadsDiffer ==
  /\ UI \notin Jobs /\ TimerThread \notin Jobs \cup {UI} /\ NoThread \notin Threads
  /\ NoValue \notin Values
ASSUME BoundIsNat == MaxChanges \in Nat
ASSUME Choices == Delays \subseteq BOOLEAN /\ Failures \subseteq BOOLEAN

VARIABLES
  delayed,   \* delayChangeEventTo > 0
  failing,   \* whether listeners may throw
  oldValue,  \* ModificationNotifier.oldValue
  count,     \* the number of accepted changes; the latest one is number count
  value,     \* value[i]: the value change i was accepted with
  task,      \* ModificationNotifier.task: the number of its change, 0 is null
  queue,     \* the changes whose tasks wait in the timer
  timer,     \* "alive", "cancelled" by dispose, or "dead" after an exception
  lock,      \* the thread that is in the monitor of the control
  pc,        \* pc[t]: the step thread t takes next: "idle", "replace" or "notify"
  next,      \* next[t]: the step after the call of the notifier
  firing,    \* firing[t]: the change t is telling the listeners, 0 is none
  disposal,  \* "no", "posted" (asyncExec by the dispose listener) or "done"
  times,     \* history: times[i]: how often all listeners were told change i
  newest     \* history: the latest change that was told

timerVars == <<task, queue, timer>>
changeVars == <<oldValue, count, value>>
threadVars == <<pc, next>>
toldVars == <<times, newest>>
choiceVars == <<delayed, failing>>
nvars == <<choiceVars, changeVars, timerVars, lock, threadVars, firing, disposal, toldVars>>

NInit ==
  /\ delayed \in Delays /\ failing \in Failures
  /\ oldValue = NoValue /\ count = 0 /\ value = [i \in Changes |-> NoValue]
  /\ task = 0 /\ queue = {} /\ timer = "alive"
  /\ lock = NoThread
  /\ pc = [t \in Callers |-> "idle"]
  /\ next = [t \in Callers |-> "idle"]
  /\ firing = [t \in Threads |-> 0]
  /\ disposal = "no"
  /\ times = [i \in Changes |-> 0] /\ newest = 0

\* Thread t has finished its call and goes on with what its caller does next.
Return(t) ==
  /\ pc' = [pc EXCEPT ![t] = next[t]]
  /\ next' = [next EXCEPT ![t] = "idle"]

-----------------------------------------------------------------------------
(* modified                                                                 *)

\* modified(v) up to its synchronized block: an equal value is ignored. The UI
\* thread goes on with "after" when modified has returned.
Accept(v, after) ==
  IF v = oldValue
    THEN /\ pc' = [pc EXCEPT ![UI] = after]
         /\ UNCHANGED <<changeVars, next>>
    ELSE /\ count < MaxChanges
         /\ oldValue' = v
         /\ count' = count + 1
         /\ value' = [value EXCEPT ![count + 1] = v]
         /\ pc' = [pc EXCEPT ![UI] = "replace"]
         /\ next' = [next EXCEPT ![UI] = after]

\* Mutant: the task of the change before is not cancelled.
ReplaceKeeps ==
  /\ pc[UI] = "replace" /\ firing[UI] = 0 /\ lock = NoThread
  /\ delayed
  /\ task' = count
  /\ queue' = queue \cup {count}
  /\ Return(UI)
  /\ UNCHANGED <<choiceVars, changeVars, timer, lock, firing, disposal, toldVars>>

\* The synchronized block of modified, with a delay: the task of the change
\* before is cancelled and the new one scheduled. A timer that was cancelled
\* or that died throws IllegalStateException out of modified.
ReplaceDelayed ==
  /\ pc[UI] = "replace" /\ firing[UI] = 0 /\ lock = NoThread
  /\ delayed
  /\ task' = count
  /\ IF timer = "alive"
       THEN queue' = (queue \ {task}) \cup {count} /\ Return(UI)
       ELSE /\ queue' = queue \ {task}
            /\ pc' = [pc EXCEPT ![UI] = "idle"]
            /\ next' = [next EXCEPT ![UI] = "idle"]
  /\ UNCHANGED <<choiceVars, changeVars, timer, lock, firing, disposal, toldVars>>

\* Mutant: the listeners are told outside of the monitor.
ReplaceAtOnceUnlocked ==
  /\ pc[UI] = "replace" /\ firing[UI] = 0 /\ lock = NoThread
  /\ ~delayed
  /\ task' = 0 /\ queue' = queue \ {task}
  /\ firing' = [firing EXCEPT ![UI] = count]
  /\ UNCHANGED <<choiceVars, changeVars, timer, lock, threadVars, disposal, toldVars>>

\* Without a delay the UI thread tells the listeners itself, in the monitor.
ReplaceAtOnce ==
  /\ pc[UI] = "replace" /\ firing[UI] = 0 /\ lock = NoThread
  /\ ~delayed
  /\ task' = 0 /\ queue' = queue \ {task}
  /\ lock' = UI
  /\ firing' = [firing EXCEPT ![UI] = count]
  /\ UNCHANGED <<choiceVars, changeVars, timer, threadVars, disposal, toldVars>>

-----------------------------------------------------------------------------
(* notifyNow                                                                *)

\* Mutant: notifyNow is not synchronized.
NotifyNowUnlocked(t) ==
  /\ pc[t] = "notify" /\ firing[t] = 0
  /\ IF task = 0
       THEN Return(t) /\ UNCHANGED <<queue, firing>>
       ELSE /\ queue' = queue \ {task}
            /\ firing' = [firing EXCEPT ![t] = task]
            /\ UNCHANGED threadVars
  /\ UNCHANGED <<choiceVars, changeVars, task, timer, lock, disposal, toldVars>>

\* t enters the monitor. With a task it cancels it, which keeps the timer from
\* starting it but does not stop it, and tells the listeners in its own thread.
NotifyNow(t) ==
  /\ pc[t] = "notify" /\ firing[t] = 0 /\ lock = NoThread
  /\ IF task = 0
       THEN Return(t) /\ UNCHANGED <<queue, lock, firing>>
       ELSE /\ queue' = queue \ {task}
            /\ lock' = t
            /\ firing' = [firing EXCEPT ![t] = task]
            /\ UNCHANGED threadVars
  /\ UNCHANGED <<choiceVars, changeVars, task, timer, disposal, toldVars>>

-----------------------------------------------------------------------------
(* Telling the listeners                                                    *)

Told(i) ==
  /\ times' = [times EXCEPT ![i] = @ + 1]
  /\ newest' = IF i > newest THEN i ELSE newest

\* Mutant: notifyNow leaves the task it has run.
DeliverKeepsTask(t) ==
  /\ firing[t] # 0
  /\ Told(firing[t])
  /\ firing' = [firing EXCEPT ![t] = 0]
  /\ lock' = NoThread
  /\ Return(t)
  /\ UNCHANGED <<choiceVars, changeVars, task, queue, timer, disposal>>

\* All listeners have been told by a thread in the monitor, which it leaves;
\* notifyNow sets the task to null.
Deliver(t) ==
  /\ firing[t] # 0
  /\ Told(firing[t])
  /\ firing' = [firing EXCEPT ![t] = 0]
  /\ lock' = NoThread
  /\ task' = IF pc[t] = "notify" THEN 0 ELSE task
  /\ Return(t)
  /\ UNCHANGED <<choiceVars, changeVars, queue, timer, disposal>>

\* A listener throws: the exception leaves the monitor and the whole call, so
\* that notifyNow does not set the task to null.
DeliverThrows(t) ==
  /\ failing
  /\ firing[t] # 0
  /\ firing' = [firing EXCEPT ![t] = 0]
  /\ lock' = NoThread
  /\ pc' = [pc EXCEPT ![t] = "idle"]
  /\ next' = [next EXCEPT ![t] = "idle"]
  /\ UNCHANGED <<choiceVars, changeVars, timerVars, disposal, toldVars>>

\* The timer starts a task that is due. It does not enter the monitor.
TimerFires ==
  /\ timer = "alive" /\ firing[TimerThread] = 0
  /\ \E i \in queue :
       /\ queue' = queue \ {i}
       /\ firing' = [firing EXCEPT ![TimerThread] = i]
  /\ UNCHANGED <<choiceVars, changeVars, task, timer, lock, threadVars, disposal, toldVars>>

\* The task that has run stays in the field.
TimerDelivers ==
  /\ firing[TimerThread] # 0
  /\ Told(firing[TimerThread])
  /\ firing' = [firing EXCEPT ![TimerThread] = 0]
  /\ UNCHANGED <<choiceVars, changeVars, timerVars, lock, threadVars, disposal>>

\* An exception in a task ends the timer's thread and discards what is scheduled.
TimerThrows ==
  /\ failing
  /\ firing[TimerThread] # 0
  /\ firing' = [firing EXCEPT ![TimerThread] = 0]
  /\ timer' = IF timer = "cancelled" THEN timer ELSE "dead"
  /\ queue' = {}
  /\ UNCHANGED <<choiceVars, changeVars, task, lock, threadVars, disposal, toldVars>>

-----------------------------------------------------------------------------
(* Disposal                                                                 *)

UIIdle == pc[UI] = "idle" /\ firing[UI] = 0

\* Mutant: the dispose listener stops the timer at once.
WidgetDisposedStopsTimer ==
  /\ disposal = "no" /\ disposal' = "posted"
  /\ timer' = IF timer = "alive" THEN "cancelled" ELSE timer
  /\ queue' = {}

\* The dispose listener posts the rest with asyncExec: "there might be other
\* DisposeListeners".
WidgetDisposed == disposal = "no" /\ disposal' = "posted" /\ UNCHANGED <<queue, timer>>

\* Mutant: the posted runnable only cancels the timer.
FinishDisposalSilently ==
  /\ disposal = "posted" /\ UIIdle /\ lock = NoThread
  /\ disposal' = "done"
  /\ timer' = IF timer = "alive" THEN "cancelled" ELSE timer
  /\ queue' = {}
  /\ UNCHANGED <<choiceVars, changeVars, task, lock, threadVars, firing, toldVars>>

\* The posted runnable, in the monitor: the timer is cancelled, then notifyNow.
FinishDisposal ==
  /\ disposal = "posted" /\ UIIdle /\ lock = NoThread
  /\ disposal' = "done"
  /\ timer' = IF timer = "alive" THEN "cancelled" ELSE timer
  /\ queue' = {}
  /\ IF task = 0
       THEN UNCHANGED <<lock, pc, firing>>
       ELSE /\ lock' = UI
            /\ pc' = [pc EXCEPT ![UI] = "notify"]
            /\ firing' = [firing EXCEPT ![UI] = task]
  /\ UNCHANGED <<choiceVars, changeVars, task, next, toldVars>>

-----------------------------------------------------------------------------

\* What the notifier does once it is called, up to the telling.
NotifierSteps ==
  \/ ReplaceDelayed \/ ReplaceAtOnce
  \/ \E t \in Callers : NotifyNow(t) \/ DeliverThrows(t)
  \/ TimerFires \/ TimerThrows
  \/ FinishDisposal

(* Properties.                                                              *)

\* The variables have their types; whoever tells a change in the monitor holds it.
NotifierTypeOK ==
  /\ delayed \in BOOLEAN /\ failing \in BOOLEAN
  /\ oldValue \in Values \cup {NoValue}
  /\ count \in 0 .. MaxChanges /\ task \in 0 .. count /\ queue \subseteq 1 .. count
  /\ value \in [Changes -> Values \cup {NoValue}]
  /\ timer \in {"alive", "cancelled", "dead"} /\ disposal \in {"no", "posted", "done"}
  /\ lock \in Callers \cup {NoThread}
  /\ firing \in [Threads -> 0 .. MaxChanges]
  /\ \A t \in Callers : firing[t] # 0 <=> lock = t
  /\ times \in [Changes -> Nat] /\ newest \in 0 .. count

\* notifyNow, the timer and the disposal between them tell a change at most
\* twice, and once only if there is no delay: the timer does not take the task
\* it has run out of the field, but whoever runs it from there does.
AtMostTwice == \A i \in Changes : times[i] <= 2 /\ (~delayed => times[i] <= 1)

\* The latest change is told, is being told, or waits in a timer that lives: no
\* order of modified, notifyNow, the timer and the disposal loses it ("with
\* asyncExec we make sure we don't stop the timer to early").
LatestIsOwed ==
  count # 0 /\ pc[UI] # "replace" /\ ~failing =>
    \/ times[count] > 0
    \/ \E t \in Threads : firing[t] = count
    \/ task = count /\ count \in queue /\ timer = "alive"

\* A change that a later one has replaced never begins to be told ("the delay
\* that must have been passed in order to fire a change event" starts anew).
SupersededNeverStarts ==
  [][\A t \in Threads : firing[t] = 0 /\ firing'[t] # 0 =>
       firing'[t] = IF pc[UI] = "replace" /\ delayed THEN count - 1 ELSE count]_nvars

\* Told out of order, an older change after a newer one, are only changes the
\* timer had begun with: the callers of modified and notifyNow tell in order.
CallersTellInOrder ==
  [][\A t \in Callers : firing[t] # 0 /\ times' # times /\ firing'[t] = 0 => newest <= firing[t]]_nvars

\* Every change is told in the end, unless another one is accepted ("This will
\* result in a delayed ModifyEvent").
ChangesAreTold ==
  \A i \in Changes : (count = i /\ ~failing) ~> (times[i] > 0 \/ count > i)
=============================================================================
