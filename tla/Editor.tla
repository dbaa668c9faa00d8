------------------------------- MODULE Editor -------------------------------
(***************************************************************************)
(* com.bkahlert.nebula.widgets.editor.Editor and AutosaveEditor: editors   *)
(* that load documents into their composers, save what is changed there,   *)
(* and push what one of them saves to the others that show the document.   *)
(*                                                                         *)
(* The threads are the UI thread, the timer of each composer's             *)
(* ModificationNotifier, and one thread for each load job. A thread works  *)
(* off the steps of the calls it is in, todo[t]. Composer and notifier are *)
(* reduced to what matters between editors: what is pending, who is in the *)
(* monitor, and that a script is run in the UI thread while its caller     *)
(* waits. The delay is positive.                                           *)
(***************************************************************************)
EXTENDS SequencesExt

CONSTANTS Editors, Docs, NoDoc, NoEditor,
          MaxRev,    \* bound on the changes the user makes
          MaxLoads,  \* bound on the calls of load(document)
          Habits     \* what the environment refrains from, see below

(* "settles": load is called, and another editor gets the focus, only when  *)
(*   nothing is pending;                                                    *)
(* "waits": the user does not type while a document is loaded, nor into an  *)
(*   editor whose load has failed;                                          *)
(* "queues": setHtml lets the next writer of a document wait for the last;  *)
(* "refocuses": the user gives an editor the focus again after it has       *)
(*   loaded a document, before typing into it;                              *)
(* "quiet": the onchange plugin does not take a content that is set for a   *)
(*   change;                                                                *)
(* "differs": the user does not type what the editor's notifier accepted    *)
(*   last; "renews": they type nothing that was typed or loaded before.     *)
ASSUME KnownHabits == Habits \subseteq {"settles", "waits", "queues", "refocuses", "quiet", "differs", "renews"}
ASSUME EditorsDiffer == NoDoc \notin Docs /\ NoEditor \notin Editors /\ MaxRev \in Nat /\ MaxLoads \in Nat

\* A content: rev tells typed ones apart, 0 is what the document held at first;
\* doc, the document it was loaded from or typed into, is not part of the text.
Html == [doc : Docs \cup {NoDoc}, rev : 0 .. MaxRev]
Blank == [doc |-> NoDoc, rev |-> 0]
Same(h, k) == h.rev = k.rev /\ (h.rev = 0 => h.doc = k.doc)

UI == <<"ui", NoEditor>>
Timer(e) == <<"timer", e>>
LoadJob(n) == <<"load", n>>
Threads == {UI} \cup {Timer(e) : e \in Editors} \cup {LoadJob(n) : n \in 1 .. MaxLoads}

VARIABLES
  loadedObject,       \* loadedObject[e]
  responsibleEditors, \* responsibleEditors[d]: the list of the document, empty if there is none
  lastFocussedEditor, \* lastFocussedEditor[d]
  loadJob,            \* loadJob[e]: the number of the last load job, 0 is null
  saveJobs,           \* the save jobs that are scheduled or run
  stored,             \* stored[d]: the document itself, what getHtml and setHtml access
  page, oldHtml,      \* page[e]: the content shown; oldHtml[e]: Composer.oldHtml
  noticed,            \* noticed[e]: the page will report a change
  enabled,            \* enabled[e]: the page can be edited
  accepted,           \* accepted[e]: ModificationNotifier.oldValue, {} is null
  task,               \* task[e]: {} or the one change in the notifier's field
  waiting,            \* waiting[e]: that task waits in the timer
  posted,             \* posted[e]: load(null) has posted the emptying of the composer
  todo,               \* todo[t]: the steps of the calls thread t is in
  typed,              \* the number of changes typed so far
  latest,             \* history: latest[d]: the revision typed last into a page that showed d
  again               \* history: the documents that were loaded where they were loaded already

docVars == <<responsibleEditors, lastFocussedEditor>>
composerVars == <<page, oldHtml, noticed, enabled>>
notifierVars == <<accepted, task, waiting>>
history == <<typed, latest, again>>
vars == <<loadedObject, docVars, loadJob, saveJobs, stored, composerVars, notifierVars, posted, todo, history>>

Step(op, e, arg) == [op |-> op, on |-> e, arg |-> arg]

Init ==
  /\ loadedObject = [e \in Editors |-> NoDoc]
  /\ responsibleEditors = [d \in Docs |-> <<>>]
  /\ lastFocussedEditor = [d \in Docs |-> NoEditor]
  /\ loadJob = [e \in Editors |-> 0]
  /\ saveJobs = {}
  /\ stored = [d \in Docs |-> [doc |-> d, rev |-> 0]]
  /\ page = [e \in Editors |-> Blank] /\ oldHtml = [e \in Editors |-> Blank]
  /\ noticed = [e \in Editors |-> FALSE] /\ enabled = [e \in Editors |-> FALSE]
  /\ accepted = [e \in Editors |-> {}]
  /\ task = [e \in Editors |-> {}] /\ waiting = [e \in Editors |-> FALSE]
  /\ posted = [e \in Editors |-> FALSE]
  /\ todo = [t \in Threads |-> <<>>]
  /\ typed = 0 /\ latest = [d \in Docs |-> 0] /\ again = {}

-----------------------------------------------------------------------------
(* Threads, monitors and the environment                                    *)

Next1(t, op) == todo[t] # <<>> /\ Head(todo[t]).op = op
At(t) == Head(todo[t])
\* t has taken its step and has these to take before the rest.
Then(t, steps) == todo' = [todo EXCEPT ![t] = steps \o Tail(@)]

\* t is in the monitor of e's composer until it takes the step "leave".
InMonitor(t, e) == \E i \in DOMAIN todo[t] : todo[t][i].op = "leave" /\ todo[t][i].on = e
MayEnter(t, e) == \A u \in Threads \ {t} : ~InMonitor(u, e)
UIFree == todo[UI] = <<>>

Loading == \E n \in 1 .. MaxLoads : todo[LoadJob(n)] # <<>>
AtRest ==
  /\ \A t \in Threads : todo[t] = <<>>
  /\ saveJobs = {}
  /\ \A e \in Editors : ~noticed[e] /\ ~waiting[e] /\ ~posted[e]

MayCall == "settles" \in Habits => AtRest
MayType(e) ==
  /\ "waits" \in Habits => loadedObject[e] # NoDoc /\ ~Loading /\ \A f \in Editors : ~posted[f]
  /\ "refocuses" \in Habits /\ loadedObject[e] # NoDoc => lastFocussedEditor[loadedObject[e]] = e

-----------------------------------------------------------------------------
(* The composer's page and its notifier                                     *)

\* The user types something else than what is shown; the page will report a
\* change (Composer and its onchange plugin).
Type(e) ==
  /\ UIFree /\ enabled[e] /\ typed < MaxRev /\ MayType(e)
  /\ typed' = typed + 1
  /\ \E r \in (0 .. typed + 1) \ {page[e].rev} :
       /\ "differs" \in Habits => \A h \in accepted[e] : ~Same([page[e] EXCEPT !.rev = r], h)
       /\ "renews" \in Habits => r = typed + 1
       /\ page' = [page EXCEPT ![e].rev = r]
       /\ latest' = IF page[e].doc \in Docs THEN [latest EXCEPT ![page[e].doc] = r] ELSE latest
  /\ noticed' = [noticed EXCEPT ![e] = TRUE]
  /\ UNCHANGED <<again, loadedObject, docVars, loadJob, saveJobs, stored, oldHtml, enabled, notifierVars, posted, todo>>

\* The page reports its content: modifiedCallback and, unless the content is the
\* one it accepted last, modified up to the monitor.
Notice(e) ==
  /\ UIFree /\ noticed[e]
  /\ noticed' = [noticed EXCEPT ![e] = FALSE]
  /\ oldHtml' = IF Same(page[e], oldHtml[e]) THEN oldHtml ELSE [oldHtml EXCEPT ![e] = page[e]]
  /\ IF \E h \in {oldHtml[e]} \cup accepted[e] : Same(page[e], h)
       THEN UNCHANGED <<accepted, todo>>
       ELSE /\ accepted' = [accepted EXCEPT ![e] = {page[e]}]
            /\ todo' = [todo EXCEPT ![UI] = <<Step("modify", e, page[e])>>]
  /\ UNCHANGED <<loadedObject, docVars, loadJob, saveJobs, stored, page, enabled, task, waiting, posted, history>>

\* Mutant: the task is scheduled but not kept in the field.
ModifyForgetsTask ==
  /\ Next1(UI, "modify")
  /\ MayEnter(UI, At(UI).on)
  /\ waiting' = [waiting EXCEPT ![At(UI).on] = TRUE]
  /\ Then(UI, <<>>)
  /\ UNCHANGED <<loadedObject, docVars, loadJob, saveJobs, stored, composerVars, accepted, task, posted, history>>

\* Mutant: a task that is in the field is kept.
ModifyKeepsFirst ==
  /\ Next1(UI, "modify")
  /\ LET e == At(UI).on IN
     /\ MayEnter(UI, e)
     /\ task' = [task EXCEPT ![e] = IF @ = {} THEN {At(UI).arg} ELSE @]
     /\ waiting' = [waiting EXCEPT ![e] = TRUE]
  /\ Then(UI, <<>>)
  /\ UNCHANGED <<loadedObject, docVars, loadJob, saveJobs, stored, composerVars, accepted, posted, history>>

\* modified: the change replaces the pending one.
Modify ==
  /\ Next1(UI, "modify")
  /\ LET e == At(UI).on IN
     /\ MayEnter(UI, e)
     /\ task' = [task EXCEPT ![e] = {At(UI).arg}]
     /\ waiting' = [waiting EXCEPT ![e] = TRUE]
  /\ Then(UI, <<>>)
  /\ UNCHANGED <<loadedObject, docVars, loadJob, saveJobs, stored, composerVars, accepted, posted, history>>

\* Mutant: the timer tells the change in the monitor, as notifyNow does.
TimerFiresInMonitor(e) ==
  /\ todo[Timer(e)] = <<>> /\ waiting[e] /\ MayEnter(Timer(e), e)
  /\ waiting' = [waiting EXCEPT ![e] = FALSE]
  /\ \E h \in task[e] :
       todo' = [todo EXCEPT ![Timer(e)] = <<Step("save", e, h), Step("leave", e, Blank)>>]
  /\ UNCHANGED <<loadedObject, docVars, loadJob, saveJobs, stored, composerVars, accepted, task, posted, history>>

\* The timer tells the change: AutosaveEditor saves it. The task stays in its field.
TimerFires(e) ==
  /\ todo[Timer(e)] = <<>> /\ waiting[e]
  /\ waiting' = [waiting EXCEPT ![e] = FALSE]
  /\ \E h \in task[e] : todo' = [todo EXCEPT ![Timer(e)] = <<Step("save", e, h)>>]
  /\ UNCHANGED <<loadedObject, docVars, loadJob, saveJobs, stored, composerVars, accepted, task, posted, history>>

\* notifyNow: with a task, t tells the listener in the monitor.
NotifyNow(t) ==
  /\ Next1(t, "notify")
  /\ LET e == At(t).on IN
     /\ MayEnter(t, e)
     /\ waiting' = [waiting EXCEPT ![e] = FALSE]
     /\ IF task[e] = {}
          THEN Then(t, <<>>)
          ELSE \E h \in task[e] : Then(t, <<Step("save", e, h), Step("leave", e, Blank)>>)
  /\ UNCHANGED <<loadedObject, docVars, loadJob, saveJobs, stored, composerVars, accepted, task, posted, history>>

\* notifyNow sets the task to null and leaves the monitor.
LeaveMonitor(t) ==
  /\ Next1(t, "leave")
  /\ task' = [task EXCEPT ![At(t).on] = {}]
  /\ Then(t, <<>>)
  /\ UNCHANGED <<loadedObject, docVars, loadJob, saveJobs, stored, composerVars, accepted, waiting, posted, history>>

\* Composer.setSource(html): notifyNow, oldHtml, then the script.
SetSource(e, html) == <<Step("notify", e, html), Step("assign", e, html), Step("page", e, html)>>

AssignOldHtml(t) ==
  /\ Next1(t, "assign")
  /\ oldHtml' = [oldHtml EXCEPT ![At(t).on] = At(t).arg]
  /\ Then(t, <<>>)
  /\ UNCHANGED <<loadedObject, docVars, loadJob, saveJobs, stored, page, noticed, enabled, notifierVars, posted, history>>

\* The script runs in the UI thread, for which any other thread waits (syncExec).
\* The page may take the new content for a change.
SetPage(t) ==
  /\ Next1(t, "page")
  /\ t = UI \/ UIFree
  /\ LET e == At(t).on IN
     /\ page' = [page EXCEPT ![e] = At(t).arg]
     /\ \/ UNCHANGED noticed
        \/ "quiet" \notin Habits /\ noticed' = [noticed EXCEPT ![e] = TRUE]
  /\ Then(t, <<>>)
  /\ UNCHANGED <<loadedObject, docVars, loadJob, saveJobs, stored, oldHtml, enabled, notifierVars, posted, history>>

\* setEnabled, by syncExec or in the UI thread.
SetEnabled(t) ==
  /\ Next1(t, "enable")
  /\ t = UI \/ UIFree
  /\ enabled' = [enabled EXCEPT ![At(t).on] = At(t).arg]
  /\ Then(t, <<>>)
  /\ UNCHANGED <<loadedObject, docVars, loadJob, saveJobs, stored, page, oldHtml, noticed, notifierVars, posted, history>>

-----------------------------------------------------------------------------
(* save                                                                     *)

\* The loop over a list of editors that sets all but e to html.
SetSources(list, e, html) ==
  LET loop[i \in 0 .. Len(list)] ==
        IF i = 0 THEN <<>>
        ELSE IF list[i] = e THEN loop[i - 1] ELSE loop[i - 1] \o SetSource(list[i], html)
  IN  loop[Len(list)]

\* Mutant: the other editors of the document are not told.
SaveAlone(t) ==
  /\ Next1(t, "save")
  /\ LET e == At(t).on
         d == loadedObject[e] IN
     IF d = NoDoc \/ lastFocussedEditor[d] # e
       THEN Then(t, <<>>)
       ELSE Then(t, <<Step("store", e, At(t).arg)>>)
  /\ UNCHANGED <<loadedObject, docVars, loadJob, saveJobs, stored, composerVars, notifierVars, posted, history>>

\* save(html): only the editor that had the focus last saves, and its content is
\* pushed to the others of the document, one after the other.
Save(t) ==
  /\ Next1(t, "save")
  /\ LET e == At(t).on
         d == loadedObject[e]
         html == At(t).arg IN
     IF d = NoDoc \/ lastFocussedEditor[d] # e
       THEN Then(t, <<>>)
       ELSE Then(t, SetSources(responsibleEditors[d], e, html) \o <<Step("store", e, html)>>)
  /\ UNCHANGED <<loadedObject, docVars, loadJob, saveJobs, stored, composerVars, notifierVars, posted, history>>

\* Mutant: the save job of before is not cancelled.
ScheduleAnotherSave(t) ==
  /\ Next1(t, "store")
  /\ LET e == At(t).on
         d == loadedObject[e] IN
     saveJobs' = IF d = NoDoc THEN saveJobs
                 ELSE saveJobs \cup {[by |-> e, doc |-> d, html |-> At(t).arg, running |-> FALSE]}
  /\ Then(t, <<>>)
  /\ UNCHANGED <<loadedObject, docVars, loadJob, stored, composerVars, notifierVars, posted, history>>

\* Then loadedObject is read again, the save job of before is cancelled, which
\* helps only if it does not run yet, and the new one scheduled. (Without a
\* document the job stores into null.)
ScheduleSave(t) ==
  /\ Next1(t, "store")
  /\ LET e == At(t).on
         d == loadedObject[e]
         kept == {j \in saveJobs : j.by # e \/ j.doc # d \/ j.running} IN
     saveJobs' = IF d = NoDoc THEN saveJobs
                 ELSE kept \cup {[by |-> e, doc |-> d, html |-> At(t).arg, running |-> FALSE]}
  /\ Then(t, <<>>)
  /\ UNCHANGED <<loadedObject, docVars, loadJob, stored, composerVars, notifierVars, posted, history>>

StartSaveJob(j) ==
  /\ j \in saveJobs /\ ~j.running
  /\ "queues" \in Habits => \A k \in saveJobs : k.doc = j.doc => ~k.running
  /\ saveJobs' = (saveJobs \ {j}) \cup {[j EXCEPT !.running = TRUE]}
  /\ UNCHANGED <<loadedObject, docVars, loadJob, stored, composerVars, notifierVars, posted, todo, history>>

FinishSaveJob(j) ==
  /\ j \in saveJobs /\ j.running
  /\ stored' = [stored EXCEPT ![j.doc] = j.html]
  /\ saveJobs' = saveJobs \ {j}
  /\ UNCHANGED <<loadedObject, docVars, loadJob, composerVars, notifierVars, posted, todo, history>>

-----------------------------------------------------------------------------
(* load                                                                     *)

Unregistered(e) ==
  IF loadedObject[e] = NoDoc THEN responsibleEditors
  ELSE [responsibleEditors EXCEPT ![loadedObject[e]] = RemoveFirst(@, e)]

\* A load job that waits is cancelled; one that was started and has not looked
\* yet whether it is cancelled will quit, and one that runs does not notice.
Cancelled(e) ==
  LET t == LoadJob(loadJob[e]) IN
  IF loadJob[e] # 0 /\ Next1(t, "start")
    THEN {[todo EXCEPT ![t] = steps] : steps \in {<<>>, <<Step("quit", e, NoDoc)>>}}
    ELSE {todo}

Jobs == Cardinality({n \in 1 .. MaxLoads : \E e \in Editors : loadJob[e] >= n})
MayLoad == UIFree /\ MayCall /\ Jobs + Cardinality(again) < MaxLoads

\* Mutant: the editor stays registered for the document it had loaded.
LoadKeepsRegistration(e, d) ==
  /\ MayLoad
  /\ d # loadedObject[e]
  /\ loadJob' = [loadJob EXCEPT ![e] = Jobs + 1]
  /\ \E rest \in Cancelled(e) : todo' = [rest EXCEPT ![LoadJob(Jobs + 1)] = <<Step("start", e, d)>>]
  /\ UNCHANGED <<loadedObject, docVars, saveJobs, stored, composerVars, notifierVars, posted, history>>

\* load(d): the editor is unregistered in any case; then a job is scheduled.
Load(e, d) ==
  /\ MayLoad
  /\ d # loadedObject[e]
  /\ responsibleEditors' = Unregistered(e)
  /\ loadJob' = [loadJob EXCEPT ![e] = Jobs + 1]
  /\ \E rest \in Cancelled(e) : todo' = [rest EXCEPT ![LoadJob(Jobs + 1)] = <<Step("start", e, d)>>]
  /\ UNCHANGED <<loadedObject, lastFocussedEditor, saveJobs, stored, composerVars, notifierVars, posted, history>>

\* load of the document that is loaded returns after that: the editor shows the
\* document, and is not registered for it.
LoadAgain(e) ==
  /\ MayLoad
  /\ loadedObject[e] # NoDoc
  /\ responsibleEditors' = Unregistered(e)
  /\ again' = again \cup {loadedObject[e]}
  /\ UNCHANGED <<loadedObject, lastFocussedEditor, loadJob, saveJobs, stored, composerVars, notifierVars, posted, todo, typed, latest>>

\* load(null): the document is dropped at once, the composer emptied later.
LoadNothing(e) ==
  /\ UIFree /\ MayCall
  /\ loadedObject[e] # NoDoc
  /\ responsibleEditors' = Unregistered(e)
  /\ todo' \in Cancelled(e)
  /\ loadedObject' = [loadedObject EXCEPT ![e] = NoDoc]
  /\ posted' = [posted EXCEPT ![e] = TRUE]
  /\ UNCHANGED <<lastFocussedEditor, loadJob, saveJobs, stored, composerVars, notifierVars, history>>

RunPosted(e) ==
  /\ UIFree /\ posted[e]
  /\ posted' = [posted EXCEPT ![e] = FALSE]
  /\ todo' = [todo EXCEPT ![UI] = SetSource(e, Blank) \o <<Step("enable", e, FALSE)>>]
  /\ UNCHANGED <<loadedObject, docVars, loadJob, saveJobs, stored, composerVars, notifierVars, history>>

\* The job starts and reads the document.
RunLoadJob(n) ==
  LET t == LoadJob(n) IN
  /\ Next1(t, "start")
  /\ LET e == At(t).on
         d == At(t).arg IN
     Then(t, SetSource(e, stored[d]) \o <<Step("loaded", e, d), Step("enable", e, TRUE)>>)
  /\ UNCHANGED <<loadedObject, docVars, loadJob, saveJobs, stored, composerVars, notifierVars, posted, history>>

\* The job was cancelled, the document cannot be read, or its content not be set:
\* nothing more is done, and no document is loaded.
LoadJobFails(n) ==
  LET t == LoadJob(n) IN
  /\ todo[t] # <<>>
  /\ \/ At(t).op \in {"start", "quit"}
     \/ At(t).op = "page" /\ \E d \in Docs : todo[t][2] = Step("loaded", At(t).on, d)
  /\ loadedObject' = [loadedObject EXCEPT ![At(t).on] = NoDoc]
  /\ todo' = [todo EXCEPT ![t] = <<>>]
  /\ UNCHANGED <<docVars, loadJob, saveJobs, stored, composerVars, notifierVars, posted, history>>

\* The content is in the page: the document becomes the loaded one.
Register(n) ==
  LET t == LoadJob(n) IN
  /\ Next1(t, "loaded")
  /\ LET e == At(t).on
         d == At(t).arg IN
     /\ loadedObject' = [loadedObject EXCEPT ![e] = d]
     /\ responsibleEditors' = [responsibleEditors EXCEPT ![d] = Append(@, e)]
  /\ Then(t, <<>>)
  /\ UNCHANGED <<lastFocussedEditor, loadJob, saveJobs, stored, composerVars, notifierVars, posted, history>>

\* The composer gets the focus.
Focus(e) ==
  /\ UIFree /\ MayCall
  /\ loadedObject[e] # NoDoc
  /\ lastFocussedEditor' = [lastFocussedEditor EXCEPT ![loadedObject[e]] = e]
  /\ UNCHANGED <<loadedObject, responsibleEditors, loadJob, saveJobs, stored, composerVars, notifierVars, posted, todo, history>>

-----------------------------------------------------------------------------

\* What thread t does in the calls it is in.
Proceed(t) ==
  \/ NotifyNow(t) \/ LeaveMonitor(t) \/ AssignOldHtml(t) \/ SetPage(t) \/ SetEnabled(t)
  \/ Save(t) \/ ScheduleSave(t)
  \/ t = UI /\ Modify
  \/ \E n \in 1 .. MaxLoads : t = LoadJob(n) /\ (RunLoadJob(n) \/ LoadJobFails(n) \/ Register(n))

EventLoop(e) == Notice(e) \/ RunPosted(e)

User ==
  \E e \in Editors :
    Type(e) \/ Focus(e) \/ LoadNothing(e) \/ LoadAgain(e) \/ \E d \in Docs : Load(e, d)

System ==
  \/ \E t \in Threads : Proceed(t)
  \/ \E e \in Editors : EventLoop(e) \/ TimerFires(e)
  \/ \E j \in saveJobs : StartSaveJob(j) \/ FinishSaveJob(j)

Next == User \/ System

\* As long as a thread, a job, a timer or the event loop can go on, one of them
\* does; which one is open, and the user and the clients need not do anything.
Spec == Init /\ [][Next]_vars
FairSpec == Spec /\ WF_vars(System)

-----------------------------------------------------------------------------
(* Properties.                                                              *)

\* The variables have their types; a timer waits with a task only.
EditorTypeOK ==
  /\ loadedObject \in [Editors -> Docs \cup {NoDoc}]
  /\ \A d \in Docs : responsibleEditors[d] \in Seq(Editors)
  /\ lastFocussedEditor \in [Docs -> Editors \cup {NoEditor}]
  /\ loadJob \in [Editors -> 0 .. MaxLoads]
  /\ \A j \in saveJobs : j.by \in Editors /\ j.doc \in Docs /\ j.html \in Html
  /\ stored \in [Docs -> Html] /\ page \in [Editors -> Html] /\ oldHtml \in [Editors -> Html]
  /\ \A e \in Editors : accepted[e] \subseteq Html /\ task[e] \subseteq Html /\ Cardinality(task[e]) <= 1 /\ (waiting[e] => task[e] # {})
  /\ typed \in 0 .. MaxRev /\ latest \in [Docs -> 0 .. MaxRev]
  /\ again \subseteq Docs

\* A document never gets content that was loaded from, or typed into, another.
OwnContentOnly == \A d \in Docs : stored[d].doc = d

\* Editors that are registered for the same document show the same when nothing
\* is pending ("only the one in focus saved its changed whereas the other reflect
\* them"), whatever was loaded, typed and pushed before.
OthersReflect ==
  AtRest => \A d \in Docs : \A i, k \in DOMAIN responsibleEditors[d] :
    Same(page[responsibleEditors[d][i]], page[responsibleEditors[d][k]])

\* When nothing is pending every document holds what was typed last ("in order
\* to save changes whenever they are made or a new object is loaded"), unless it
\* was loaded where it was loaded already: an editor that is not registered keeps
\* what it told last, and saves it when the next document is loaded.
NothingIsLost == AtRest => \A d \in Docs \ again : stored[d].rev = latest[d]

\* No thread that waits for the UI thread is in a monitor the UI thread waits
\* for ("may be called from whatever thread you like").
NoDeadlock ==
  ~ \E t \in Threads \ {UI} :
      /\ Next1(t, "page") \/ Next1(t, "enable")
      /\ Next1(UI, "modify") \/ Next1(UI, "notify")
      /\ InMonitor(t, At(UI).on)

\* What is typed is stored in the end, or replaced by what is typed later, in the
\* same documents.
EditsAreStored ==
  \A d \in Docs, r \in 1 .. MaxRev :
    (latest[d] = r) ~> (stored[d].rev = r \/ latest[d] # r \/ d \in again)
=============================================================================
