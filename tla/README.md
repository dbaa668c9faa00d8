# Nebula: a verification development

Nebula (`com.bkahlert.devel.nebula`) is an Eclipse/SWT widget library. Its own
logic is mostly Java: a browser widget that runs scripts in a web page as soon as the
page is loaded, widgets built on it (composer, editor, image, timelines,
JointJS graphs, item lists), the thread helpers they share (`ExecUtils`,
`OffWorker`, `ModificationNotifier`, `ClipboardListener`), hover information
controls, and plain data structures and algorithms (history, trees, dependency
layers, calendar ranges, track layout). Of the JavaScript under `src/src` about
3,500 lines are Nebula's own: the facades of the JointJS graphs
(`widgets/jointjs/html/js/facade.js`), of the composer and of the image, the
composer's `onchange` plugin, and the timeline's page. The other 198,000 are
third-party (CKEditor with its plugins, jQuery, jQuery UI, Bootstrap,
CodeMirror, JointJS itself, SIMILE).

This directory holds TLA+ modules translated from that code, TLC
configurations that check them on small instances, and TLAPS proofs.

## 1. Inventory

Paths are relative to `src/src/com/bkahlert/nebula/`.

| Component | State it keeps | Operations | Talks to |
|---|---|---|---|
| `utils/OffWorker` | `state` (INIT, RUNNING, PAUSED, SHUTDOWN), a queue of `FutureTask`s, the runner thread and its interrupt flag | `start`, `pause`, `unpause`, `flush`, `shutdown`, `submit`, `finish` | called by `BrowserScriptRunner`; runs submitted callables |
| `widgets/browser/runner/BrowserScriptRunner` | `browserStatus`, one `OffWorker` for delayed scripts | `setBrowserStatus`, `run`, `inject`, `runImmediately` | called by `Browser` (status) and by any thread (scripts); evaluates scripts in the UI thread |
| `widgets/browser/Browser` | the monitor, `settingUri`, `allowLocationChange`, `eventCatchScriptInjected`, listener lists | `open`, `waitAndComplete`, `complete`, dispose, the timeout watcher | SWT browser events, `ExecUtils`, `BrowserScriptRunner` |
| `widgets/browser/extended` | the extensions added so far | `beforeCompletion`, `addExtension` | injects script files through `BrowserScriptRunner` |
| `utils/ExecUtils`, `CompletedFuture`, `ConvertingFuture` | a thread pool | `syncExec`, `asyncExec`, `nonUISyncExec`, `nonUIAsyncExec`, `nonUIAsyncExecMerged`, `busyWait`, `DelayableThread`, `UIThreadSafeFuture` | the SWT UI thread |
| `utils/ModificationNotifier` | `oldValue`, the pending timer task | `modified`, `notifyNow`, dispose | a `java.util.Timer`, the widget's modify listeners |
| `widgets/composer/Composer`, its page (`html/facade.js`, `plugins/onchange`) | `oldHtml`, a notifier; the content and the plugin's timer | `setSource`, `getSource`, modified callback, shortcuts, links; `onchange`, `setEnabled` | `Browser`, `ModificationNotifier` |
| `widgets/editor/Editor`, `AutosaveEditor` | `loadedObject`, `loadJob`, `saveJob`, static maps of responsible and focussed editors | `load`, `save`, focus | `Composer`, Eclipse jobs |
| `widgets/jointjs`: `JointJS` and its page (`html/js/facade.js` on JointJS) | `model`; the graph, zoom and pan, `data`, `lastJson`, `shuttingDown`, a debounce timer | `load`, `save`, `createNode`, `createLink`, `removeCell`, setters, the user's dragging, zooming and panning | `Browser`; the callbacks `loaded`, `save`, `__modified` |
| `widgets/image/Image` | the current url and a monitor | `load`, `imageLoaded` callback | `Browser` |
| `utils/ClipboardListener` | `stop`, `hibernate`, last clipboard contents | the polling loop, `requestStop`, sleep and wake up on focus | the display and its listeners |
| `widgets/timelinegroup`, `viewer/timeline` | timelines by key, loaded keys | `show`, `dispose`, `setInput`, `refresh` | `ExecUtils`, `Browser` |
| `widgets/timeline` and its page (`jquery.timeline-1.0.0.js`, `script.js`) | displayed input; bands, decorators, zoom index, focus | `show`, successor and predecessor; load and replace, zoom, decorate | `Browser`, SIMILE |
| `information` | information controls, sticky hover state | show, hide, replace, enhance | the display's filters |
| `utils/history/History` | list and position | `add`, `back`, `forward`, `set`, `clear` | the callers only |
| `data/TreeNode`, `data/DependencyGraph` | children, parent; nodes and dependencies | `add`, `remove`, traversals; `addNode`, layers | the callers only |
| `datetime/CalendarRange`, `rendering/TrackCalculator` | immutable | intersection, order; tracks of overlapping items | timelines |
| `widgets/itemlist`, `widgets/chatControl`, `widgets/loader`, `widgets/scale`, `widgets/decoration`, `screenshots`, `sound`, `views`, `viewer`, `dialogs`, `handlers`, `widgets/wizards`, `utils/*` helpers | mostly the SWT widgets themselves | layout, painting, formatting | SWT and JFace |

What is hard here is concurrency. Every widget lives in the SWT UI thread; page
loading, script execution and notification run in pool threads, timers, Eclipse
jobs and the worker, and come back by `syncExec` and `asyncExec` or by callbacks
of the page. Fields such as `state`, `browserStatus` and `loadedObject` are
read and written without a common lock.

### Properties that make each component correct

| Component | Correct when |
|---|---|
| OffWorker | tasks are executed one at a time in the order of submission, each at most once; `finish()` works off what came before it and nothing after it; a shutdown is final and ends the thread; a running worker executes what it is given |
| BrowserScriptRunner | a script is evaluated only in a loaded page, kept while loading and resolved afterwards; the order of `run` calls is the order of evaluation; the worker is started and finished only when that is legal |
| Browser | every `open()` is answered with what happened to its page; a timeout ends loading; the widget's disposal releases every waiting thread; the browser's own scripts come before the user's |
| ExecUtils | a future completes when its work has been done; a wait respects its time; UI code runs in the UI thread, in order |
| ModificationNotifier, Composer | the latest change is told in the end, also when the widget is disposed of; one that was replaced is not; what the user leaves in the page reaches the client |
| Editor | what is saved is the content of the object it is saved to; a later load or save wins; editors of one object show the same; nobody waits for somebody who waits for him |
| JointJS | every link that is drawn has its ends; Java's model is the page, or is about to be |
| Image, ClipboardListener | no wake-up is lost; the listener thread sleeps only while nobody listens and ends on request |
| Timeline groups | timelines and keys correspond one to one; a refresh does not destroy what another one shows |
| History, TreeNode, DependencyGraph, CalendarRange, TrackCalculator | the operations agree with their mathematical definitions |

## 2. Plan

The order follows the calls: everything that shows a page goes through the
first three modules.

| Step | Modules | Content | State |
|---|---|---|---|
| 1 | `SerialExecutor`, `OffWorker`, `OffWorker_proofs` | the worker, its abstract specification, invariants and refinement | modelled, checked, proved |
| 2 | `ScriptService`, `BrowserScriptRunner`, `BrowserScriptRunner_proofs` | the script runner on top of the worker, the service it promises | modelled, checked, safety and refinement proved |
| 3 | `Browser`, `Browser_proofs` | `open`, load checks, timeout and disposal on top of the script runner | modelled, checked, safety and composition proved |
| 4 | `ModificationNotifier`, `Composer` on top, `Composer_proofs` | delayed notification: timer thread, `notifyNow`, disposal; the composer's page, its reports and `setSource` | modelled, checked, safety proved |
| 5 | `Editor`, `Editor_proofs`, `EditorContent_proofs`, `EditorAims_proofs` | load and save jobs of several editors of one object and the shared maps | modelled, checked, safety proved |
| 5a | `JointJS`, `JointJS_proofs` | the graph in the page, the exceptions it meets, the copy in Java | modelled, checked, safety proved |
| 6 | `ExecUtils`, `Image`, `ClipboardListener` | futures and `busyWait`, the lost wake-up of `Image.load`, the polling thread; the UI thread that waits for its own worker | to do |
| 7 | `TimelineGroup`, `Timeline` | reuse of timelines for new keys, concurrent refreshes; the state of the timeline's page | to do |
| 8 | `DependencyGraph`, `TreeNode`, `CalendarRange`, `TrackCalculator`, `History` | operators and small state machines against reference definitions | to do |

Every invariant and every action property that a passing run checks is a theorem
too, except those section 7 names.

The runs are kept few: one or two per component with its safety and liveness
properties together, and a run that exhibits a disagreement only where the code
contradicts its documentation.

## 3. Modules

```
SerialExecutor <-- implements -- OffWorker            OffWorker_proofs
                                    ^ EXTENDS            ^
ScriptService  <-- implements -- BrowserScriptRunner  BrowserScriptRunner_proofs
                                    ^ EXTENDS            ^
                                 Browser              Browser_proofs

ModificationNotifier
   ^ EXTENDS
Composer  Composer_proofs

Editor <-- Editor_proofs <-- EditorContent_proofs <-- EditorAims_proofs

JointJS  JointJS_proofs
```

`BrowserScriptRunner` and `Browser` are compositions: each EXTENDS the component
it uses, adds its own variables and joins its steps with those of the other.
`Browser` does not repeat what a status change does to the worker; it uses the
action `SetBrowserStatus`. That this composition is legal is a property of its
own, `UsesScriptRunner == BSpec`: seen on the script runner's variables, the
browser's behaviours are behaviours of the script runner with an arbitrary
caller, so what `runner_safety` shows, and what is proved about `BSpec`, holds
in the browser. The MC modules define the sets the configurations use; mutated
definitions (comment "Mutant: ...") stand before the definition they vary and are
used by no specification.

`Composer` EXTENDS `ModificationNotifier` in the same way and gives its calls a
caller. `Editor` needs several composers at once and looks at what happens between
them; it has its own, smaller picture of a composer and its notifier: the pending
task, whether the timer still has it, and who is in the monitor. What it leaves out
of them (no delay, failing listeners, the disposal, links) is `Composer`'s subject.
`JointJS` stands alone: the page is single-threaded, its callers come one at a time.

### OffWorker

| Model | Code (`utils/OffWorker.java`) |
|---|---|
| `state`, `queue` | the fields |
| `runner` | where the runner thread stands in its loop: `top` (`Thread.interrupted()`, 31), `check` (35), `take` (38), `run` (39), `switch` (44); `dead` after an exception, `done` after the loop |
| `interrupted` | the thread's interrupt flag |
| `pending[c]` | the accesses caller `c` has still to make in the method it is in |
| `phase[t]`, `ticket[t]`, `issued` | the `FutureTask` of `t`; its place in the order of submission (history) |
| `Call`, `CallSubmit` | a thread enters a method |
| `Dispatch` | `switch (this.state)`: what is left of the method is looked up in `Body` |
| `Assign`, `Interrupt`, `StartRunner`, `Throw`, `Flush`, `Submit` | one access each |
| `LoopTop` ... `SwitchInterrupted`, `RunTask`, `RunFinisher` | the loop and what it executes |

No method but `submit` is synchronized and `state` is not volatile. The read in
the switch and the following assignment are separate steps, so any number of
steps of other threads may come between them. A read that returns an older
value, which Java's memory model allows, has the effect of a read made earlier:
it adds no outcome for a caller, whose read and use are separate steps here. For
the runner thread this is an assumption: `check` and `switch` read the current
value; the reads follow an interrupt, a queue operation or a task, which in
practice order them.

`pause()` is modelled by what it does. The runner's `this.wait()` is called in
the anonymous `Runnable` without owning its monitor, so it throws and the thread
ends.

### BrowserScriptRunner

| Model | Code (`widgets/browser/runner/BrowserScriptRunner.java`) |
|---|---|
| `browserStatus` | the field |
| `widgetDisposed` | `browser.isDisposed()` |
| `result[s]` | the future `run(s)` returned |
| `immediate[c]` | the script a thread evaluates by `runImmediately` |
| `waiter[s]` | the helper thread of `run(URI)` and `inject(URI)`: registers its callback, waits for it, has ended or was cancelled |
| `evaluated`, `before` | history: evaluations in order; what had been submitted when `s` was run |
| `SetBrowserStatus`, `FollowUp` | `setBrowserStatus` (164-231): check of the transition, assignment, and then `start`, `finish` and the `shutdown` task as further steps of the caller |
| `Run`, `RunScript`, `RunUri` | the switch of `run` (373-419); the submission or evaluation is a later step |
| `EvaluateImmediately`, `EvaluateDelayed` | evaluation in the UI thread; the worker's callable looks at the status again |
| `RegisterCallback`, `UriLoaded`, `CancelUri` | the callback the helper thread of `run(URI)` creates (312-328), the page's call of it, and an interrupt of the thread that waits for it (347-353). As in the code, nothing asks what became of the script that adds the element |

Scripts are model values: their text, the conversion of results and the
exception forwarding are left out, an evaluation yields a value or an error.
The public `runImmediately`, `runContentsImmediately` and
`runContentsAsScriptTagImmediately` (423-441), which evaluate in the UI thread
whatever the status is, are not client operations of the model.
`Monitor` is the thread that holds `Browser.monitor`; there is at most one, and
`open()` in the UI thread, which takes no lock, sets a status that has no
follow-up.

### Browser

| Model | Code (`widgets/browser/Browser.java`) |
|---|---|
| `opener[o]`, `answer[o]` | the helper thread of one call of `open` and its future |
| `timer[o]` | the Timeout Watcher: armed, due (past its delay, waiting for the monitor), fired, cancelled |
| `check[k]` | one load check whose page turned out complete, and the thread `complete()` starts for it |
| `injected`, `catching` | the field `eventCatchScriptInjected`, which outlives the page; what has become of the script in the present page |
| `roused` | history: the calls whose `wait()` ended without a status |
| `page`, `completed` | the call whose address was set last; the calls whose page was found complete (history) |
| `Open`, `StartTimer`, `SetUrl`, `AwaitLoaded`, `WakeUp`, `Conclude` | `open` (466-563) |
| `SpuriousWakeUp`, `CancelOpen` | the `wait()` that is in no loop (532) returns by itself, or is interrupted |
| `TimerDue`, `TimerFire` | the watcher (484-508) |
| `StartCheck`, `CheckFails`, `Completed` | `waitAndComplete` (364-410) |
| `BeforeInjection`, `Inject`, `MarkInjected`, `Complete` | `complete` (422-462) with `injectEventCatchScript` |
| `Dispose` | the dispose listener (296-304) |

The synchronized blocks that change the status share `Announce`: it needs the
monitor, sets the status, and wakes the waiting threads unless `setBrowserStatus`
threw. `wait()` is left once notified, or spuriously, whatever the status then is, as
in the code. The SWT browser is external: progress events, load checks and callbacks
may come or not, at any time while the widget exists.

### ModificationNotifier and Composer

| Model | Code (`utils/ModificationNotifier.java`, `widgets/composer`) |
|---|---|
| `oldValue`, `task` | the fields; tasks are named by the number of the change they tell |
| `count`, `value` | the accepted changes, in their order |
| `queue`, `timer` | what `java.util.Timer` still has to start; whether it lives, was cancelled, or died of an exception |
| `lock` | the monitor of the control |
| `firing[t]` | the change thread `t` is telling the listeners |
| `Accept`, `ReplaceDelayed`, `ReplaceAtOnce` | `modified` (77-120): the comparison outside, the replacement inside the monitor |
| `NotifyNow`, `Deliver`, `DeliverThrows` | `notifyNow` (122-133) |
| `TimerFires`, `TimerDelivers`, `TimerThrows` | the timer's thread, which does not take the monitor |
| `WidgetDisposed`, `FinishDisposal` | the dispose listener and what it posts (50-68) |
| `page`, `notices` | the content of the page; what will make `Composer` look at it: the plugin's timer (`somethingChanged`), a cut or paste by shortcut |
| `Edit`, `Notice` | the user and the plugin; `onchange` of `facade.js` and `modifiedCallback` |
| `SetSource`, `AssignOldHtml`, `SetPage` | `setSource` (295-303) and the script of `facade.js` (104-128), in any thread |
| `WidgetDispose` | the composer's dispose listener (163-175), which reports the last content |
| `known` | history: what the client asked for or was told last |

The start of a telling and its end are separate steps, since listeners take time
and the timer's may overlap with that of `notifyNow`. A monitor is reentrant: a
thread that is in it is the one that goes on. `oldValue` is read and written by the
UI thread alone.

### Editor

| Model | Code (`widgets/editor/Editor.java`) |
|---|---|
| `loadedObject`, `loadJob`, `responsibleEditors`, `lastFocussedEditor` | the fields, the last two static |
| `todo[t]` | the steps of the calls thread `t` is in; a monitor is held until the step `leave` |
| `saveJobs` | save jobs, scheduled or running |
| `stored` | the documents, behind `getHtml` and `setHtml` |
| `Load`, `LoadAgain`, `LoadNothing`, `RunPosted` | the ways through `load` (200-283) |
| `RunLoadJob`, `Register`, `LoadJobFails`, `Cancelled` | the load job (225-279): read, set the content, then the loaded object and the list, then enable; it may fail at each of these points, or find itself cancelled |
| `accepted` | `ModificationNotifier.oldValue`, which no load and no push resets |
| `Save`, `ScheduleSave` | `save(html)` (317-364): push to the other editors, then read `loadedObject` again and schedule |
| `StartSaveJob`, `FinishSaveJob` | the job (343-358); a cancel reaches it before it starts only |
| `Focus` | `focusGained` (84-89) |
| `Type`, `Notice`, `Modify`, `TimerFires`, `NotifyNow`, `LeaveMonitor`, `SetPage` | page, composer and notifier |
| `latest`, `again` | history: what was typed last, by document; documents that were loaded where they were loaded already |

A content is a document and a revision: where it came from and which text it is.
Where it came from is no part of the text: `Same` compares what `modified` compares
(`ModificationNotifier.java:79-81`), so a text that is typed again, in the same
document or in another, is ignored by the notifier that accepted it last.
`save` iterates the live list of responsible editors; the model takes the list as
it is when `save` begins, so that a concurrent change of the list, which Java
answers with a `ConcurrentModificationException`, is not shown. A `setHtml` that
fails is logged and forgotten by the code; here it succeeds.

### JointJS

| Model | Code (`widgets/jointjs`: `html/js/facade.js`, `joint.min.js`, `JointJS.java`) |
|---|---|
| `graph` | nodes, links with their ends and abandoned ends, and `look`, which stands for all that is announced alike (texts, colours, positions, vertices, title) |
| `hidden`, `watching` | links the paper has drawn half of, since an end was not there; those whose view listens to their source node |
| `deaf` | cells in a change of which a listener threw: Backbone's `_changing` stays true, and `change` is never fired for them again |
| `untouched` | loaded links with a free end, whose previous attributes JavaScript finds undefined |
| `view`, `data`, `pending`, `lastJson`, `closed` | zoom and pan; `data`; the debounce timer; `lastJson`; `shuttingDown` |
| `model` | `JointJS.model` |
| `loading`, `removing`, `leaving` | how far a load, or the removal of a node, has come |
| `CreateNode`, `CreateLink`, `PullOff`, `DropOn`, `Drag`, `ChangeLook`, `ChangeTitle`, `Straighten`, `Mark`, `SetView`, `SetData` | the operations of clients and user, with the handlers their events run |
| `RemoveNode`, `LeaveLink`, `NodeLeft`, `RemoveLink`, `Detach` | `removeCell`, and the links a node takes with it |
| `Load`, `TakeOutNode`, `TakeOutLink`, `ParseFails`, `Build`, `Repair` | `load` (80-149): `clear`, `JSON.parse`, `sanityCheck`, `fromJSON` |
| `Modified`, `Announcement`, `PartlyTold`, `NoEvent`, `Debounced`, `Unload`, `Save` | what Java is told |
| `Formerly`, `Siblings`, `Adjusts`, `AdjustThrows`, `Undrawn`, `Adjusting`, `AdjustingFails` | `adjustVertices` (1364-1446) of a link: it gives vertices, or throws |
| `Around`, `Pairs`, `MayEnd`, `MayFail`, `Straightened` | `adjustVertices` of a node, which looks at one link for each source |
| `Watched` | nodes whose next `change` a half-drawn link's `_sourceBBoxUpdate` will end with an exception |

A call in the page is one action, except removals, which announce one cell after
the other. An exception ends the call where it is (`Throw`, `NoEvent`); what it
had changed, and what it had announced of other cells (`PartlyTold`), stays. The
handlers of an event run in the order they were registered: the views of cells,
`adjustVertices`, the reset of abandoned ends, `modified`. Which links an
`adjustVertices` meets first, and the coordinates it gives, are left open.

## 4. Runs

| Run | Instance | Distinct states | Question |
|---|---|---|---|
| `offworker_all` | two callers, two tasks, one `finish`, three other calls, tasks may swallow interrupts | 195,670 | is the worker a serial executor under every interleaving? |
| `offworker_finish` | one caller, two tasks, one `finish`, three calls other than `pause`, fair | 13,316 | does a shutdown or a `finish` end the thread, and is nothing abandoned? |
| `runner_safety` | two clients, three scripts, one of them by URI, any status changes, disposal | 609,284 | does the script runner keep its promises? |
| `runner_lost` | one client, two scripts, fair | - | is every accepted script resolved (violated)? |
| `browser_all` | two calls of `open`, one with a timeout, a load check; failing checks, spurious wake-ups, cancellation, disposal; fair | 150,989 | is the composition legal, is every call answered that can be? |
| `browser_open` | one timed call, two load checks, one client with one script; the same failures; fair | 272,736 | is the answer right, what can keep loading from ending, do the browser's scripts come first? |
| `browser_stuck` | one timed call, failing load checks, fair | - | does the timeout always end loading (violated)? |
| `composer_all` | the user, the UI thread and another thread, two contents, three changes; with and without delay and failing listeners; fair | 122,996 | is each change told as it should, does content reach the client? |
| `composer_lost` | the same with a delay, no failing listener, fair | - | does every content reach the client (violated)? |
| `editor_all` | two editors, two documents, two edits, three loads; fair | 146,671 | is each document's content its own, is every edit stored in the end, do all editors show the same? |
| `editor_freeze` | two edits, three loads; the user types while a document is loaded | - | is there no deadlock (violated)? |
| `jointjs_all` | two nodes, three links, one of them permanent, three strings to load, four operations, fair | 250,867 | are links whole, does Java know the page? |

TLC's deadlock check is off: all threads may end, the bounds are used up, and
nobody has to call anything. `NoDeadlock` states the deadlock the editors can meet.

**Bounds.** `MaxCalls = 3` lets one caller walk through any chain of the three
reachable transitions (start, pause, unpause or start, shutdown, start) and lets
two callers collide in every pair of methods, with a third call before or after;
submissions are not counted. Two tasks and a finisher are the fewest for one task
before `finish`, one after it and one that overtakes. Three scripts are needed so
that a delayed one, a direct one and one by URI meet; two clients so that one runs
a script between the read and the submission of the other. `Checks` bounds the
load checks that find a page complete: with two, one can be inside `complete()`
while the other has set the flag or the status. Two calls of `open` suffice for an
overlap, since a call shares the status with all others alike. A browser loads
once (`LOADED` is never left), so no run needs more than one loading. Three
changes let one be told, one be pending and one replace it; two contents, one of
which is what `createLinks` makes of the other, let a content come back. Two
editors and two documents are the fewest for a push and for a change of document;
two edits and three loads let both editors show one document, one of them move on
to another or come back, and what is typed in one be replaced from the other. Two
nodes and three links give parallel links, two of which are left when one leaves;
with `MaxOps = 4` a graph is loaded, edited twice, and loaded or left again, and a
link can be half drawn, its missing node created, and another link between the two
created or dropped. With five operations (1.9 million states and more) TLC found
nothing else.

**Restrictions** that a property needs, and that its run therefore makes:

- `ShutdownIsFinal` and `ShutdownStopsRunner` hold for one calling thread. With
  two, a `pause` or `start` that read the state before a shutdown overwrites it.
  `ShutdownStopsRunner` also needs tasks that leave an interrupt to the runner; one
  that catches `InterruptedException` keeps the loop going.
- `NothingAfterFinish` and `FinishStopsRunner` hold for one calling thread that
  does not pause the worker: a `pause`, or a second `start`, that read the state
  before can overwrite the SHUTDOWN of the finish task.
- `TasksComplete` is about a worker that is RUNNING and says nothing of one that
  is shut down: `submit` accepts tasks then and never executes them.
- `OpenReports` and `InjectionComesFirst` hold for a browser that is opened once:
  overlapping calls share one status and one flag. With `TwoOpeners` in
  `MCBrowser_open.cfg`, TLC shows a second page announced LOADED without the
  browser's scripts.
- `UndisturbedLoadingEnds` and `ErrorsAreRoused` except calls whose `wait()` ended
  without a status (`roused`): because a load check threw (`browser_stuck`) or
  spuriously. Neither is left out of a run: both constants are TRUE in `browser_all`
  and `browser_open`.
- `QueuedScriptsResolve` is about scripts that were submitted before the worker is
  finished; `runner_lost` shows the one that comes too late.
- `LatestIsOwed`, `ChangesAreTold` and `NewContentReachesClient` are about
  listeners that do not throw. One that does kills the timer's thread, and what is
  pending is lost.
- `NewContentReachesClient` is about content that differs from what the notifier
  accepted last; `composer_lost` shows the other one.
- `editor_all` restricts the users and clients by six `Habits`. Each is needed:
  without it TLC finds an edit that is lost (`NothingIsLost`).
  *settles*: load and focus wait until nothing is pending, or the save of an edit
  is dropped because another editor has the focus (`Editor.java:322`).
  *waits*: nobody types while a document is loaded, or after the load has failed:
  the content is set before the object (246-250), and the edit is saved under the
  old document, or nowhere.
  *queues*: `setHtml` makes the next writer of a document wait, since a save job
  that runs is not stopped by its successor (336-338).
  *refocuses*: the user gives an editor the focus after it has loaded, since the
  focus is recorded under the object that was loaded before (84-89).
  *quiet*: the `onchange` plugin does not report a content between `oldHtml` and
  the script that sets it.
  *differs*: the user does not type into an editor the text its notifier accepted
  last, which `modified` ignores (`ModificationNotifier.java:79-81`), also when
  the editor has loaded another document, or was pushed another content, since
  then.
  `editor_freeze` drops *waits*; any other can be dropped in the `.cfg`. The
  proofs assume *renews* in place of *differs*: the user types no text twice.
- `NothingIsLost` and `EditsAreStored` except documents that were loaded where they
  are loaded already (`again`). `load` unregisters the editor and returns; what it
  told last stays in its notifier and is saved again, over newer content, when its
  next document is loaded.
- The user drags links both ends of which are there: the paper has no view of
  others; permanent links have no handles to drag (`style.css`).
- `LinksAreWhole` speaks of drawn links, and excepts a page whose `clear` has
  ended with an exception (`broken`) and the marks of a link whose drag has (`deaf`);
  `ModelLagIsOwed` excepts changes that nothing announces (`silent`: data, links that
  are half drawn, whatever a listener has thrown before, deaf cells) and pages that are
  what `modified` told last. `ViewIsTold` is stated from a state whose model was told by `modified`.

**Fairness.** A thread that is in the middle of a method takes its next step, and
so does the runner thread unless it blocks: the JVM schedules runnable threads,
and in these instances every monitor is eventually free, so weak fairness is
enough for those that wait for it. A timer's delay passes (`TimerDue`). In
`composer_all` threads may compete for the monitor and the UI thread again and
again, so whoever waits has strong fairness: both are released after finitely many
steps and the event loop comes round to what is posted. The `Editor` needs no more
than that *some* thread, job or timer that can go on does (`WF_vars(System)`), for
edits and loads are bounded; in `JointJS` a call in the page ends and its timer
fires. Nothing is assumed of callers, of the user who may dispose of the widget,
of the page (which need not complete or call back), or of the future of
`beforeCompletion()`.

## 5. What the checks found

1. `runner_lost`: `run` reads LOADING, loading ends, the worker is started and
   finished, and only then the script is submitted. Its future never completes.
2. `browser_stuck`: a load check that throws wakes `open`, which cancels its
   timeout watcher and throws; the status stays LOADING for ever.
3. `composer_lost`: `setSource` resets `Composer.oldHtml` and not
   `ModificationNotifier.oldValue`. Content that was told, replaced by `setSource` and
   typed again is no change to the notifier (79); no event tells of it.
4. `editor_freeze`: `load` in one thread runs `notifyNow` of editor 1, in whose
   monitor `AutosaveEditor` saves and pushes the content to editor 2; that waits for
   the UI thread, which waits in editor 1's `modified`, because the user types.

Met while modelling, without a run of their own:

- `run(URI)` waits for a callback that the script it runs would make; if that script
  fails, nobody ends the wait (`BrowserScriptRunner.java:315-353`). No property of a
  run is about it: one that says the wait ends is false.
- `wait()` at `Browser.java:532` is in no loop. If it returns by itself, `open` cancels
  its watcher and throws "Implementation error" (557): `ErrorsAreRoused` says that
  this, and a load check that throws, is the only way there.
- A second `open` replaces the page while a thread of the first is completing it. It
  announces LOADED, and the client's script is evaluated in a page the browser has
  not tried to inject its own into; the flag, still set, keeps the second page's own
  check from it (`Browser.java:352`).
- `composer_lost` happens between editors too. A text is typed and saved, the editor
  then loads another document or is pushed what another one saved, and the user types
  the text again: it is shown and never saved. `NothingIsLost` is violated in
  `MCEditor_all.cfg` without *differs*.
- `OffWorker.java:36` waits on a monitor the thread does not own. The first loop pass
  that sees PAUSED ends the thread; after `unpause()` the worker is RUNNING and
  executes nothing.
- Once the page is LOADED, new scripts are evaluated directly
  (`BrowserScriptRunner.java:400`) while older ones are still in the worker's
  queue. Each of the two ways by itself keeps the order (`OrderWithinMode`).
- While LOADING `run` returns the worker's plain `FutureTask`, so the UI thread that
  waits for it waits for a task that needs the UI thread.
- `open` answers with the status all overlapping calls share (`Browser.java:542`).
- `injectEventCatchScript` sets its flag also after the script has failed (352),
  while the comment on the method (317) speaks of a success.
- `createLink` to a node that is not there (`facade.js:489`) leaves a link in the graph
  whose view was drawn half. If its source is there, the view throws in the next
  change of that node (`joint.min.js:20618`), and in that of its own vertices
  (20259), before `modified` is called. Backbone takes a cell in whose change a
  listener has thrown for one that is still changing (15531), so it never announces
  that cell again: a plain recolouring does not reach Java until something else does.
- Three parallel links: `clear()` takes a node out of the graph first, the links
  that leave with it adjust the ones that are left, and `adjustVertices` asks the
  missing node for its box (`facade.js:1412`). The load ends with an exception, the
  page is half cleared, Java is not told; a second load works.
- A loaded link with a free end cannot be removed, nor the next graph be loaded,
  before one of the link's attributes was set: `cell.previous(...)` is undefined
  (`facade.js:1383`).
- `load` of a string that is no JSON leaves an empty graph; `loaded` is not called.
- `lastJson` is not updated by what `load` and `save` tell: a page that comes back to
  what `modified` told last is not announced, and `getModel()` is outdated for good,
  not "slighty" (`JointJS.java:335-343`). `setData` announces nothing.
- While `clear` removes a node, Java is told graphs whose links end at a node that is
  gone.

## 6. What is proved

`tlapm` checks every obligation of eight modules. The theorems hold for every
value of the constants: any sets of threads, tasks, scripts, editors, documents,
nodes and links, and any bounds. The assumptions on constants are the named ones
of the modules, which say that names differ and bounds are numbers; the only one
about the environment is `SavedAreJsons` (a graph that is loaded was saved by a
page). Some theorems have a hypothesis of their own, named below; it is the
restriction of the run that checks the same property, and section 4 says what
happens without it.

Each proof has the same form: an inductive invariant, one lemma for each action, or
for actions that do alike, that keeps it, and theorems that draw the properties from it. The
invariants were checked by TLC before they were proved.

**`OffWorker_proofs`.** `IInv == TypeOK /\ Tickets /\ NoOvertaking /\ RunningIsYoungest`.
`NoOvertaking` speaks of started and waiting tasks and cannot see why `Take` is
right: `Tickets` says that the queue is sorted by ticket and that a new ticket
exceeds all, so the head is the oldest waiting task (lemma `HeadIsOldest`).
`RunningIsYoungest` says that everything that ever started is older than the
running task; so nothing older still runs when the task of `finish()` is done.

- `TypeCorrect`, `Fifo`, `FinishWorksOff`: the types with the queue and the futures
  that agree, `NoOvertaking`, `FinishDrains`.
- `Refinement`: `Spec => ImplementsSerialExecutor`.
- `FinishIsTheEnd`, `ShutdownStays`: `NothingAfterFinish` and `ShutdownIsFinal` for one
  calling thread that does not pause the worker (`OneThread`). `SoleInv` says what
  can be left of a call (so that an assignment of RUNNING finds the state it was
  computed from), and that between the task of `finish()` and the end of the loop
  the interrupt is pending or has just been seen.

**`BrowserScriptRunner_proofs`.** `RInv` adds to the worker's `IInv`: where the call that
ends loading stands and what state the worker is in then (`MonitorFlow`); that each
client has a script of its own between `run` and its submission or evaluation
(`ClientFlow`); who an open script is with and that a value means an evaluation
(`Results`); that the history `before` agrees with the tickets (`Earlier`); and the order, by
the places among the evaluated scripts (`Order`).

- `RunnerTypes`, `WorkerIsUsedLegally` (`WorkerNeverRefuses`), `OrderIsKept`
  (`OrderWithinMode`).
- `RunnerRefinement`: `BSpec => ImplementsScriptService`, step by step: a value only
  in a loaded page, a failure of an accepted script only when loading has ended.

**`Browser_proofs`.**

- `Composition`: `WSpec => UsesScriptRunner`. The one case that is not immediate is
  `open()`, which sets LOADING without the monitor: `MonitorUnused` says that
  nobody holds it before. With it every theorem about `BSpec` holds in the browser.
- `BrowserScriptsFirst`: `InjectionComesFirst`, for a browser that is opened once
  (`OpenedOnce`; with a second call it is false, section 5). `TriedBefore` strengthens it by
  everything a thread concludes a tried injection from: its own progress, the flag,
  the status LOADED, and that scripts are evaluated directly only once LOADED.
- `OpenKnowsTheStatus`: `ErrorsAreRoused`, with failing load checks and spurious
  wake-ups. `WaitsForTheEnd` says that a call waits only while LOADING, and that one
  that was not roused is notified only when loading has ended.
- `BrowserTypes`: `BrowserTypeOK`, from the script runner's theorem and the types of the
  loading.
- `AnswersHaveCauses`: for any number of overlapping calls, `true` is answered
  only if some page was found complete, `false` only if some call's time was up or
  the widget is gone. `SingleOpenReports` is `OpenReports`, for a browser that is
  opened once, where the page and the timeout are the call's own. `Causes` says
  that every status has its cause, and that a cause outlasts the status.

**`Composer_proofs`**, for any delay and failing listeners. `IInv` says which changes may
have a task (only the latest that `modified` is done with), what may be in the timer
and what anybody may be telling, in the monitor or not (`Tasks`); how often a change
can have been told, depending on where it still waits (`Tellings`), without which
`AtMostTwice` is not inductive; where the callers stand (`Flow`); and when the timer has
ended (`Ending`).

- `TypesHold`, `ToldTwiceAtMost`, `LatestIsNotLost`: the invariants.
- `OnlyLatestBegins`, `CallersAreInOrder`: the action properties
  `SupersededNeverStarts` and `CallersTellInOrder`.

**`Editor_proofs`**, for all `Habits`. `EditorTypes`: `EditorTypeOK`. The
invariant `Types` says of everything content flows through (pages, tasks, the
steps of threads, save jobs) that it holds nothing newer than the last edit, and
(`Monitors`) that a composer in whose monitor a thread is has nothing in its
timer, since otherwise the task that `leave` clears could still be waiting for.
What the loop of `save` puts together (`SetSources`, a recursive function) is
proved by the least index at which it would be wrong (`SetSourcesAre`); what
`responsibleEditors.remove` leaves is `RemoveFirstIs`.

**`EditorContent_proofs`**, if clients and the user let each other finish
(`Considerate`: *settles*, *waits*, *quiet*; neither *queues* nor *refocuses*).

- `ContentStaysOwn`: `OwnContentOnly`, no document gets content of another one.
- `MonitorsAreLeft`: `NoDeadlock`. In `editor_freeze` TLC finds the deadlock without *waits*.

The invariant is `Order`. `Contained` says that content belongs to the document it is
with, in pages, tasks and save jobs, except in an editor whose next document is being
loaded. That a push respects it needs `Registration` (an editor is in the list of
the document it has loaded only, and once) and what steps a thread may be at: `UIWork`,
`TimerWork`, `LoadWork`. `Phases` says what excludes what: a load or the emptying of a
composer excludes everything else. `Ahead` is the argument for `Register`: what is
left to do for a load still clears the notifier before it shows the document, so
that the task of the last document is gone when the editor belongs to the next.
`NoDeadlock` follows since a timer that tells in a monitor finds that the editor
there is not the one in focus, so it saves nothing and leaves. One lemma (`CallPuts`)
says what the steps a call puts in the place of its head may be; each part of `Order`
then has a lemma for all of these calls.

**`EditorAims_proofs`**, if they also let each other finish what they save and give an
editor the focus again after it has loaded, and type nothing twice (`Orderly`: all
habits, *renews* for *differs*; each is needed, section 4). With *renews* no text that is
on its way is the one a notifier accepted before, without following what each
accepted; TLC checks the weaker restriction.

- `OthersShowTheSame`: `OthersReflect`, the editors that are registered for a document
  show the same once nothing is pending.
- `LastEditIsStored`: `NothingIsLost`, the document then holds what was typed last into
  a page that showed it, unless it was loaded where it was loaded already.

Both speak of the state at rest only, and nothing they say is true before. `Aims` says
of every state that each document has an aim, a content that everybody is heading for:

- `Newest`: it was typed last, and is on the page of the document's owner (the editor
  that shows the document and has its focus) while a change is still on its way to `save`;
- `Carried`: the save, store and page steps that are left to take carry it, unless a
  newer change follows them;
- `Shown`: a registered editor shows it, or, if it is not the owner, has a step before
  it that will;
- `Stored`: the document holds it and no job will overwrite that, or a job that has not
  begun carries it, or the owner is still to save;
- `Told`, `Loaded`: it is what an editor tells last before it leaves the document, and
  what the next load of the document finds.

The aim changes only when somebody types and when an editor that loads its document
a second time tells an old content (`again`). That a step keeps the aim needs `Tidy`:
only the owner has a change to tell (`Ownership`), and the change that is told is the
one that is shown (`Telling`); a document has one job that runs and one that waits,
which is where *queues* is needed (`Queued`); who shows a document is registered for
it (`Known`); a load tells the last change before it does anything else (`First`); and
the task that stays in the notifier's field is the shown content, and is gone before
that is replaced (`Cleared`).

**`JointJS_proofs`.** `JInv == JointTypeOK /\ Anchored /\ Leaving /\ Marked /\ Owed` extends
`LinksAreWhole` and `ModelLagIsOwed` into the calls. `Told` collects the ways in
which the handlers of an event end, and `FailingIs` says that an exception in
`adjustVertices` leaves the graph, and makes nobody hear again, so that the excepted
links stay excepted until they are removed or loaded. `Anchored` and `Leaving`: within a
removal links may still end at the node that leaves, and all of these are still to be
removed. `Owed` excepts the time between the removal of a node from the graph and its
announcement.

- `GraphTypes`, `LinksStayWhole`, `LagIsExplained`: the three invariants.

## 7. Only model-checked

- All liveness properties (`FinishStopsRunner`, `TasksComplete`, `ShutdownStopsRunner`,
  `OpenAnswers`, `DisposalAnswers`, `UndisturbedLoadingEnds`, `QueuedScriptsResolve`,
  `ChangesAreTold`, `NewContentReachesClient`, `EditsAreStored`, `ViewIsTold`):
  fairness and ENABLED are out of the prover's reach.
- The four disagreements of section 5, which are counterexamples.
- `OthersReflect` and `NothingIsLost` under *differs*; proved under *renews*.

## 8. Not modelled

- The UI thread's event loop: UI code is a step of the thread that asks for it.
  A UI thread that blocks in a future is therefore not seen to block others.
- Contents of scripts, results, URIs, the JavaScript exceptions forwarded as
  Java exceptions, script files and extensions (`widgets/browser/extended`).
- Listener lists, DOM helpers, style sheets, layout and focus of `Browser`.
- Of `Composer`: modes, toolbar, selection, caret and background. Of `Editor`:
  titles, `save()` on disposal. Of JointJS: selection, focus and hover as Java keeps
  them (`JointJS.java:269`: a removed cell stays selected), automatic layout, the
  order of cells, drawing.
- The timeline's page (`jquery.timeline-1.0.0.js`, `script.js`): its state is a zoom
  index, the decorators and what has the focus; nearly all of it is rendering
  through SIMILE.
- The components marked `not_modelled` in `PROJECT.json`, with the reasons given
  there; those of the plan's steps 6 to 8 are to come, the rest is layout,
  painting, formatting, I/O or Eclipse glue. Hazards seen there and not yet
  covered, besides those in `PROJECT.json`: `ExecUtils.busyWait` (410) waits while
  either the future is open or time is left; `TreeNode.add` (138) may give a child a
  second parent; `DependencyGraph` (92) finds long cycles only while its layers are
  iterated; `CalendarRange` (36) has open bounds; `Browser`'s listener lists (784)
  are plain lists used by several threads.
- Third-party code: SWT, the Eclipse jobs, and the JavaScript libraries the
  repository carries along. They are 98% of its JavaScript, so the modules here
  stand for a small share of those lines; where Nebula depends on what a library does
  step by step (JointJS' `clear`, `removeCell` and link views), the module translates
  the library's own lines.
