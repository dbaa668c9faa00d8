------------------------------ MODULE Composer ------------------------------
(***************************************************************************)
(* com.bkahlert.nebula.widgets.composer.Composer: a control around a       *)
(* CKEditor page. It reports the content of the page to its                *)
(* ModificationNotifier and replaces the content on request.               *)
(*                                                                         *)
(* The page lives in the UI thread and is loaded. Contents are abstract    *)
(* values in the trimmed form modifiedCallback gives them; Linked[v] is    *)
(* what createLinks makes of v.                                            *)
(***************************************************************************)
EXTENDS ModificationNotifier

CONSTANTS Linked,    \* createLinks, as a function on Values
          Sources,   \* the values clients call setSource with
          Notices    \* what makes Composer look at the page: "change" of the onchange
                     \* plugin, "paste" of a cut or paste by shortcut

ASSUME LinkedIsFunction == Linked \in [Values -> Values] /\ Sources \subseteq Values
ASSUME NoticeKinds == Notices \subseteq {"change", "paste"}

VARIABLES
  page,     \* the content of the page
  notices,  \* what will make Composer look at it
  oldHtml,  \* Composer.oldHtml
  setting,  \* setting[t]: the value thread t sets the source to
  content,  \* the new content modifiedCallback is about to report
  known     \* history: the content the client asked for or was told last

pageVars == <<page, notices>>
composerVars == <<page, notices, oldHtml, setting, content, known>>
cvars == <<nvars, composerVars>>

CInit ==
  /\ NInit
  /\ page = NoValue /\ notices = {}
  /\ oldHtml = NoValue
  /\ setting = [t \in Callers |-> NoValue]
  /\ content = NoValue
  /\ known = NoValue

-----------------------------------------------------------------------------
(* The page                                                                 *)

\* The user changes the content. The plugin's timer, started once for all that
\* happens until it ends, will fire "change"; for a cut or paste by shortcut
\* fixShortcuts posts a look at the page; one by the menu is not noticed.
Edit(v) ==
  /\ disposal = "no" /\ UIIdle
  /\ v # page
  /\ page' = v
  /\ notices' = notices \/ \E n \in Notices : notices' = notices \cup {n}
  /\ UNCHANGED <<nvars, oldHtml, setting, content, known>>

\* modifiedCallback(html, immediately) up to the call of modified: content that
\* was set or reported last is ignored; after a space the UI thread may first
\* set the source to the content with links.
ModifiedCallback(html, immediately) ==
  IF html = oldHtml
    THEN UNCHANGED <<oldHtml, content, setting, threadVars>>
    ELSE /\ oldHtml' = html
         /\ \/ /\ content' = html
               /\ pc' = [pc EXCEPT ![UI] = "accept"]
               /\ UNCHANGED <<setting, next>>
            \/ /\ ~immediately /\ Linked[html] # html
               /\ content' = Linked[html]
               /\ setting' = [setting EXCEPT ![UI] = Linked[html]]
               /\ pc' = [pc EXCEPT ![UI] = "notify"]
               /\ next' = [next EXCEPT ![UI] = "assign"]

\* The page calls modified(getSource()), or the posted runnable reads it.
Notice(n) ==
  /\ disposal = "no" /\ UIIdle /\ count < MaxChanges
  /\ n \in notices /\ notices' = notices \ {n}
  /\ ModifiedCallback(page, FALSE)
  /\ UNCHANGED <<choiceVars, changeVars, timerVars, lock, firing, disposal, toldVars, page, known>>

\* Mutant: the last content is not read.
WidgetDisposeUnread ==
  /\ UIIdle /\ count < MaxChanges
  /\ WidgetDisposed
  /\ notices' = {}
  /\ UNCHANGED <<choiceVars, changeVars, task, lock, threadVars, firing, toldVars,
                 page, oldHtml, setting, content, known>>

\* The browser is disposed of after the control has told its own dispose
\* listeners: the last content is reported and told at once.
WidgetDispose ==
  /\ UIIdle /\ count < MaxChanges
  /\ WidgetDisposed
  /\ ModifiedCallback(page, TRUE)
  /\ notices' = {}
  /\ UNCHANGED <<choiceVars, changeVars, task, lock, firing, toldVars, page, known>>

\* modifiedCallback calls modified, and notifyNow when the widget is disposed of.
ReportContent ==
  /\ pc[UI] = "accept"
  /\ Accept(content, IF disposal = "no" THEN "idle" ELSE "notify")
  /\ content' = NoValue
  /\ UNCHANGED <<choiceVars, timerVars, lock, firing, disposal, toldVars,
                 pageVars, oldHtml, setting, known>>

-----------------------------------------------------------------------------
(* setSource                                                                *)

\* A client calls setSource(v): notifyNow comes first.
SetSource(t, v) ==
  /\ disposal = "no" /\ pc[t] = "idle" /\ firing[t] = 0
  /\ setting' = [setting EXCEPT ![t] = v]
  /\ pc' = [pc EXCEPT ![t] = "notify"]
  /\ next' = [next EXCEPT ![t] = "assign"]
  /\ UNCHANGED <<choiceVars, changeVars, timerVars, lock, firing, disposal, toldVars,
                 pageVars, oldHtml, content, known>>

\* Then oldHtml is assigned, in whatever thread this is.
AssignOldHtml(t) ==
  /\ pc[t] = "assign"
  /\ oldHtml' = setting[t]
  /\ pc' = [pc EXCEPT ![t] = "page"]
  /\ UNCHANGED <<choiceVars, changeVars, timerVars, lock, next, firing, disposal, toldVars,
                 pageVars, setting, content, known>>

\* The script that sets the content is run in the UI thread, and fails in a
\* disposed page. The plugin may take it for a change. The UI thread that
\* created links goes on with its report.
SetPage(t) ==
  /\ pc[t] = "page"
  /\ t = UI \/ UIIdle
  /\ LET linking == t = UI /\ content # NoValue IN
     /\ pc' = [pc EXCEPT ![t] = IF linking THEN "accept" ELSE "idle"]
     /\ setting' = [setting EXCEPT ![t] = NoValue]
     /\ known' = IF linking THEN known ELSE setting[t]
     /\ IF disposal = "no"
          THEN /\ page' = setting[t]
               /\ notices' \in {notices, notices \cup ({"change"} \cap Notices)}
          ELSE UNCHANGED pageVars
  /\ UNCHANGED <<choiceVars, changeVars, timerVars, lock, next, firing, disposal, toldVars,
                 oldHtml, content>>

-----------------------------------------------------------------------------

\* A client is told a change and knows its content.
Tell ==
  /\ \/ \E t \in Callers : Deliver(t) /\ known' = value[firing[t]]
     \/ TimerDelivers /\ known' = value[firing[TimerThread]]
  /\ UNCHANGED <<pageVars, oldHtml, setting, content>>

\* An exception that leaves modifiedCallback drops the content to be reported.
Notify ==
  /\ NotifierSteps
  /\ content' = IF pc'[UI] = "idle" THEN NoValue ELSE content
  /\ UNCHANGED <<pageVars, oldHtml, setting, known>>

CNext ==
  \/ \E v \in Values : Edit(v)
  \/ \E n \in Notices : Notice(n)
  \/ WidgetDispose \/ ReportContent
  \/ \E t \in Callers : (\E v \in Sources : SetSource(t, v)) \/ AssignOldHtml(t) \/ SetPage(t)
  \/ Notify \/ Tell

\* What thread t does in a call it is in.
Proceed(t) ==
  \/ AssignOldHtml(t) \/ SetPage(t)
  \/ t = UI /\ (ReportContent \/ (Notify /\ (ReplaceDelayed \/ ReplaceAtOnce)))
  \/ Notify /\ (NotifyNow(t) \/ DeliverThrows(t))
  \/ Tell /\ Deliver(t)

TimerProceeds == (Notify /\ (TimerFires \/ TimerThrows)) \/ (Tell /\ TimerDelivers)

\* Threads in a call go on, the timer's thread does, and the event loop runs the
\* page's timers and what is posted. The monitor and the UI thread are free
\* again and again, and whoever waits for them has them in the end (strong
\* fairness). No one has to edit, set the source or dispose of the widget.
CFairness ==
  /\ \A t \in Callers : SF_cvars(Proceed(t))
  /\ WF_cvars(TimerProceeds)
  /\ SF_cvars(FinishDisposal /\ Notify)
  /\ \A n \in Notices : SF_cvars(Notice(n))

CSpec == CInit /\ [][CNext]_cvars
CFairSpec == CSpec /\ CFairness

-----------------------------------------------------------------------------
(* Properties.                                                              *)

\* What the user has left in the page and the composer will look at reaches the
\* client, by an event or because the client sets the same, if it is not what
\* was reported or set last; edits, setSource in any thread, the delay and the
\* disposal may come at any time. (MaxChanges ends the behaviour.)
NewContentReachesClient ==
  \A v \in Values :
    (page = v /\ notices # {} /\ v \notin {oldHtml, oldValue} /\ ~failing)
      ~> (known = v \/ page # v \/ count = MaxChanges)

\* The same for whatever differs from what was set last ("You are expected to
\* call modified every time the Control's value changed. This will result in a
\* delayed ModifyEvent").
ContentReachesClient ==
  \A v \in Values :
    (page = v /\ notices # {} /\ v # oldHtml /\ ~failing)
      ~> (known = v \/ page # v \/ count = MaxChanges)
=============================================================================
