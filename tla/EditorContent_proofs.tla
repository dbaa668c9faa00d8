------------------------- MODULE EditorContent_proofs -------------------------
(***************************************************************************)
(* Proofs about what the editors show and store, for any number of         *)
(* editors, documents, edits and loads: no document gets the content of    *)
(* another one, and no thread waits in a monitor for one that waits for it.*)
(***************************************************************************)
EXTENDS Editor_proofs

\* Clients and the user let each other finish, nobody types while a document is
\* loaded, and the page does not take a content that is set for a change.
Considerate == {"settles", "waits", "quiet"} \subseteq Habits

-----------------------------------------------------------------------------
(* The inductive invariant.                                                 *)

Registered(f, d) == \E i \in DOMAIN responsibleEditors[d] : responsibleEditors[d][i] = f
Owner(e) == loadedObject[e] # NoDoc /\ lastFocussedEditor[loadedObject[e]] = e

\* An editor is registered once, and for the document it has loaded.
Registration ==
  /\ \A d \in Docs : \A i, k \in DOMAIN responsibleEditors[d] :
       responsibleEditors[d][i] = responsibleEditors[d][k] => i = k
  /\ \A d \in Docs, f \in Editors : Registered(f, d) => loadedObject[f] = d

Alone(t) ==
  /\ \A u \in Threads : todo[u] # <<>> => u = t
  /\ \A e \in Editors : ~noticed[e] /\ ~waiting[e]

\* The UI thread empties a composer.
Emptying == \E i \in DOMAIN todo[UI] : todo[UI][i].op # "modify"

\* While a document is loaded, or a composer to be emptied, nothing else goes on.
Phases ==
  /\ \A n \in 1 .. MaxLoads : todo[LoadJob(n)] # <<>> =>
       Alone(LoadJob(n)) /\ \A e \in Editors : ~posted[e]
  /\ \A e \in Editors : posted[e] =>
       /\ Alone(UI) /\ todo[UI] = <<>> /\ saveJobs = {} /\ loadedObject[e] = NoDoc
       /\ \A f \in Editors : posted[f] => f = e
  /\ Emptying => Alone(UI) /\ saveJobs = {} /\ \A e \in Editors : ~posted[e]

\* The UI thread tells a change of the document that is shown, or empties a
\* composer that shows none.
UIStep(s) ==
  /\ s.op = "modify" => loadedObject[s.on] # NoDoc /\ s.arg.doc = loadedObject[s.on]
  /\ s.op # "modify" => /\ loadedObject[s.on] = NoDoc
                        /\ s.op \in {"notify", "save", "leave", "assign", "page", "enable"}

\* A step of saving and pushing the content of e.
PushStep(e, s) ==
  /\ loadedObject[e] # NoDoc
  /\ \/ s.on = e /\ s.op \in {"save", "store"} /\ s.arg.doc = loadedObject[e]
     \/ /\ s.on # e /\ loadedObject[s.on] = loadedObject[e] /\ Owner(e)
        /\ \/ s.op \in {"notify", "save", "leave"}
           \/ s.op \in {"assign", "page"} /\ s.arg.doc = loadedObject[e]

\* A step of loading d in e, before e is registered.
LoadStep(e, d, s) ==
  \/ s.on = e /\ s.op = "leave"
  \/ s.on = e /\ s.op \in {"notify", "assign", "page"} /\ s.arg.doc = d
  \/ s.on = e /\ s.op = "save" /\ (loadedObject[e] # NoDoc => s.arg.doc = loadedObject[e])
  \/ PushStep(e, s)

UIWork == \A i \in DOMAIN todo[UI] : UIStep(todo[UI][i])

\* A timer leaves the monitor it enters as soon as the editor there has not saved.
TimerWork ==
  \A e \in Editors : \A i \in DOMAIN todo[Timer(e)] :
    /\ PushStep(e, todo[Timer(e)][i])
    /\ todo[Timer(e)][i].op = "leave" =>
         i = 1 \/ (i = 2 /\ todo[Timer(e)][1].op = "save" /\ todo[Timer(e)][1].on # e)

\* Before e is registered for d its notifier is cleared, and then d shown.
Ahead(p, e, d) ==
  /\ \A i \in DOMAIN p : LoadStep(e, d, p[i])
  /\ task[e] = {} \/ \E i \in DOMAIN p : p[i].on = e /\ p[i].op \in {"notify", "leave"}
  /\ page[e].doc = d \/ \E i \in DOMAIN p : p[i].on = e /\ p[i].op = "page"

Ending(e, d) == <<Step("loaded", e, d), Step("enable", e, TRUE)>>

LoadQueue(q, e, d) ==
  \/ q = <<Step("enable", e, TRUE)>>
  \/ /\ \A x \in Docs : ~Registered(e, x)
     /\ \/ q = <<Step("start", e, d)>>
        \/ \E p \in Seq(Steps(typed)) : q = p \o Ending(e, d) /\ Ahead(p, e, d)

LoadWork ==
  \A n \in 1 .. MaxLoads : todo[LoadJob(n)] # <<>> =>
    \E e \in Editors, d \in Docs : LoadQueue(todo[LoadJob(n)], e, d)

BeingLoaded(e) ==
  \E n \in 1 .. MaxLoads : \E i \in DOMAIN todo[LoadJob(n)] :
    todo[LoadJob(n)][i].op = "loaded" /\ todo[LoadJob(n)][i].on = e

\* Wherever content is, it belongs to the document that is loaded there.
Contained ==
  /\ \A d \in Docs : stored[d].doc = d
  /\ \A j \in saveJobs : j.html.doc = j.doc
  /\ \A e \in Editors : noticed[e] \/ waiting[e] => loadedObject[e] # NoDoc
  /\ \A e \in Editors : loadedObject[e] # NoDoc => \A h \in task[e] : h.doc = loadedObject[e]
  /\ \A e \in Editors : loadedObject[e] # NoDoc => page[e].doc = loadedObject[e] \/ BeingLoaded(e)

Order == Registration /\ Phases /\ UIWork /\ TimerWork /\ LoadWork /\ Contained

-----------------------------------------------------------------------------
(* Sequences of steps.                                                      *)

\* What comes last stays last.
LEMMA EndStays ==
  ASSUME NEW S, NEW p \in Seq(S), NEW x \in Seq(S), NEW r \in Seq(S), p # <<>>
  PROVE  /\ Head(p \o x) = p[1]
         /\ r \o Tail(p \o x) = (r \o Tail(p)) \o x
<1>1. /\ Tail(p) \in Seq(S) /\ Len(Tail(p)) = Len(p) - 1 /\ \A i \in 1 .. Len(Tail(p)) : Tail(p)[i] = p[i + 1]
      /\ Len(p) \in Nat /\ Len(x) \in Nat /\ Len(p) # 0 /\ Len(Tail(p)) \in Nat
  BY HeadTailProperties, EmptySeq, LenProperties
<1>2. /\ p \o x \in Seq(S) /\ Len(p \o x) = Len(p) + Len(x)
      /\ \A i \in 1 .. Len(p) + Len(x) : (p \o x)[i] = IF i <= Len(p) THEN p[i] ELSE x[i - Len(p)]
  BY ConcatProperties
<1>. DEFINE q == p \o x
<1>. HIDE DEF q
<1>3. q \in Seq(S) /\ Len(q) = Len(p) + Len(x) /\ q # <<>>
  <2>1. q \in Seq(S) /\ Len(q) = Len(p) + Len(x)
    BY <1>2 DEF q
  <2>2. Len(q) # 0
    BY <2>1, <1>1
  <2>. QED BY <2>1, <2>2, EmptySeq
<1>4. /\ Tail(q) \in Seq(S) /\ Len(Tail(q)) = Len(p) + Len(x) - 1
      /\ \A i \in 1 .. Len(p) + Len(x) - 1 : Tail(q)[i] = q[i + 1]
      /\ Head(q) = q[1]
  BY <1>3, HeadTailProperties
<1>5. Tail(q) = Tail(p) \o x
  <2>1. /\ Tail(p) \o x \in Seq(S) /\ Len(Tail(p) \o x) = Len(p) - 1 + Len(x)
        /\ \A i \in 1 .. Len(p) - 1 + Len(x) :
             (Tail(p) \o x)[i] = IF i <= Len(p) - 1 THEN Tail(p)[i] ELSE x[i - (Len(p) - 1)]
    BY <1>1, ConcatProperties
  <2>. DEFINE a == Tail(q)
              b == Tail(p) \o x
  <2>2. a \in Seq(S) /\ b \in Seq(S) /\ Len(a) = Len(b)
    BY <1>1, <1>4, <2>1
  <2>3. \A i \in 1 .. Len(a) : a[i] = b[i]
    <3>. SUFFICES ASSUME NEW i \in 1 .. Len(p) + Len(x) - 1 PROVE Tail(q)[i] = (Tail(p) \o x)[i]
      BY <1>4
    <3>1. Tail(q)[i] = q[i + 1]
      BY <1>4
    <3>2. CASE i <= Len(p) - 1
      <4>1. i + 1 \in 1 .. Len(p) + Len(x) /\ i + 1 <= Len(p) /\ i \in 1 .. Len(Tail(p))
        BY <3>2, <1>1
      <4>2. q[i + 1] = p[i + 1] /\ Tail(p)[i] = p[i + 1]
        BY <4>1, <1>1, <1>2 DEF q
      <4>3. (Tail(p) \o x)[i] = Tail(p)[i]
        BY <3>2, <2>1, <1>1
      <4>. QED BY <3>1, <4>2, <4>3
    <3>3. CASE i > Len(p) - 1
      <4>1. i + 1 \in 1 .. Len(p) + Len(x) /\ ~(i + 1 <= Len(p)) /\ i + 1 - Len(p) = i - (Len(p) - 1)
        BY <3>3, <1>1
      <4>2. q[i + 1] = x[i + 1 - Len(p)]
        <5>1. \A k \in 1 .. Len(p) + Len(x) : ~(k <= Len(p)) => q[k] = x[k - Len(p)]
          BY <1>2 DEF q
        <5>. QED BY <4>1, <5>1
      <4>3. (Tail(p) \o x)[i] = x[i - (Len(p) - 1)]
        BY <3>3, <2>1, <1>1
      <4>. QED BY <3>1, <4>1, <4>2, <4>3
    <3>4. i <= Len(p) - 1 \/ i > Len(p) - 1
      BY <1>1
    <3>. QED BY <3>2, <3>3, <3>4
  <2>. HIDE DEF a, b
  <2>4. a = b
    BY <2>2, <2>3, SeqEqual
  <2>. QED BY <2>4 DEF a, b
<1>6. r \o (Tail(p) \o x) = (r \o Tail(p)) \o x
  BY <1>1, ConcatAssociative
<1>7. q[1] = p[1]
  BY <1>1, <1>2 DEF q
<1>. QED BY <1>4, <1>5, <1>6, <1>7 DEF q

-----------------------------------------------------------------------------
(* The steps of a call.                                                     *)

\* What the editor in focus does when it saves.
LEMMA SavePushes ==
  ASSUME Types, Registration, NEW e \in Editors, Owner(e), NEW h \in Contents(typed),
         h.doc = loadedObject[e]
  PROVE  LET p == SetSources(responsibleEditors[loadedObject[e]], e, h) \o <<Step("store", e, h)>>
         IN  /\ p \in Seq(Steps(typed))
             /\ \A i \in DOMAIN p : PushStep(e, p[i]) /\ p[i].op \in {"notify", "assign", "page", "store"}
<1>. DEFINE d == loadedObject[e]
            list == responsibleEditors[d]
            All == UNION {{Step("notify", f, h), Step("assign", f, h), Step("page", f, h)} :
                            f \in {list[k] : k \in 1 .. Len(list)} \ {e}}
            q == SetSources(list, e, h)
            p == q \o <<Step("store", e, h)>>
<1>1. d \in Docs /\ d # NoDoc /\ list \in Seq(Editors)
  BY DEF Owner, Types, Maps
<1>2. q \in Seq(All) /\ q \in Seq(Steps(typed))
  BY <1>1, SetSourcesAre, SetSourcesTyped DEF LoopDone
<1>3. \A s \in All : PushStep(e, s) /\ s.op \in {"notify", "assign", "page", "store"}
  <2>1. \A f \in {list[k] : k \in 1 .. Len(list)} \ {e} : f \in Editors /\ f # e /\ loadedObject[f] = d
    <3>. SUFFICES ASSUME NEW k \in 1 .. Len(list), list[k] # e PROVE list[k] \in Editors /\ loadedObject[list[k]] = d
      OBVIOUS
    <3>1. list[k] \in Editors /\ k \in DOMAIN list
      BY <1>1
    <3>2. Registered(list[k], d)
      BY <3>1 DEF Registered
    <3>. QED BY <1>1, <3>1, <3>2 DEF Registration
  <2>2. \A f \in Editors : f # e /\ loadedObject[f] = d =>
          \A s \in {Step("notify", f, h), Step("assign", f, h), Step("page", f, h)} :
            PushStep(e, s) /\ s.op \in {"notify", "assign", "page", "store"}
    BY <1>1 DEF PushStep, Step
  <2>. QED BY <2>1, <2>2, Zenon
<1>4. PushStep(e, Step("store", e, h)) /\ Step("store", e, h).op = "store" /\ <<Step("store", e, h)>> \in Seq(Steps(typed))
  <2>1. PushStep(e, Step("store", e, h)) /\ Step("store", e, h).op = "store"
    BY <1>1 DEF PushStep, Step
  <2>2. Step("store", e, h) \in Steps(typed)
    BY IsAStep
  <2>. QED BY <2>1, <2>2, TupleTyped
<1>. HIDE DEF q, All, list, d
<1>5. \A i \in DOMAIN q : q[i] \in All
  BY <1>2
<1>6. p \in Seq(Steps(typed)) /\ \A i \in DOMAIN p : (i \in DOMAIN q /\ p[i] = q[i]) \/ p[i] = Step("store", e, h)
  BY <1>2, <1>4, ConcatProperties, LenProperties
<1>7. \A i \in DOMAIN p : PushStep(e, p[i]) /\ p[i].op \in {"notify", "assign", "page", "store"}
  BY <1>3, <1>4, <1>5, <1>6
<1>. QED BY <1>6, <1>7 DEF q, list, d

CallStep(t) ==
  NotifyNow(t) \/ LeaveMonitor(t) \/ AssignOldHtml(t) \/ SetPage(t) \/ Save(t) \/ ScheduleSave(t)

callOps == {"notify", "save", "leave", "assign", "page", "store"}

\* The steps r that take the place of s are of the same kind.
Answers(r, s) ==
  /\ \A i \in DOMAIN r : r[i].op \in callOps
  /\ loadedObject[s.on] = NoDoc => \A i \in DOMAIN r : r[i].on = s.on /\ r[i].op \in {"save", "leave"}
  /\ \A e \in Editors : PushStep(e, s) =>
       /\ \A i \in DOMAIN r : PushStep(e, r[i])
       /\ s.op = "save" /\ s.on # e => r = <<>>
  /\ \A e \in Editors, d \in Docs : LoadStep(e, d, s) => \A i \in DOMAIN r : LoadStep(e, d, r[i])
  /\ s.op = "notify" => task[s.on] = {} \/ \E i \in DOMAIN r : r[i].op = "leave" /\ r[i].on = s.on
  /\ \A i \in DOMAIN r : r[i].op = "leave" =>
       i = 2 /\ s.op = "notify" /\ r[1].op = "save" /\ r[1].on = s.on

LEMMA NothingAnswers ==
  ASSUME NEW s, s.op # "notify"
  PROVE  Answers(<<>>, s) /\ \A n : <<>> \in Seq(Steps(n))
BY DEF Answers

LEMMA CallPuts ==
  ASSUME Types, Registration, Contained, NEW t \in Threads, CallStep(t),
         \/ t = UI /\ UIStep(At(t))
         \/ \E e \in Editors : PushStep(e, At(t))
         \/ \E e \in Editors, d \in Docs : LoadStep(e, d, At(t))
  PROVE  \E r \in Seq(Steps(typed)) : Then(t, r) /\ Answers(r, At(t))
<1>0. Maps /\ Flowing /\ Calls /\ typed \in Nat
  BY EditorsDiffer DEF Types, Flowing
<1>1. CASE LeaveMonitor(t) \/ AssignOldHtml(t) \/ SetPage(t) \/ ScheduleSave(t)
  <2>1. Then(t, <<>>) /\ At(t).op # "notify"
    BY <1>1 DEF LeaveMonitor, AssignOldHtml, SetPage, ScheduleSave, Next1, At
  <2>. QED BY <2>1, NothingAnswers
<1>2. CASE NotifyNow(t)
  <2>. DEFINE s == At(t)
              g == s.on
  <2>1. Next1(t, "notify") /\ s.op = "notify" /\ g \in Editors
    BY <1>0, <1>2, HeadIs DEF NotifyNow
  <2>2. CASE task[g] = {}
    <3>1. Then(t, <<>>)
      BY <2>2, <1>2 DEF NotifyNow
    <3>2. Answers(<<>>, s) /\ <<>> \in Seq(Steps(typed))
      BY <2>2 DEF Answers
    <3>. QED BY <3>1, <3>2
  <2>3. CASE task[g] # {}
    <3>1. PICK h \in task[g] : Then(t, <<Step("save", g, h), Step("leave", g, Blank)>>)
      BY <2>3, <1>2 DEF NotifyNow
    <3>. DEFINE r == <<Step("save", g, h), Step("leave", g, Blank)>>
    <3>2. h \in Contents(typed) /\ (loadedObject[g] # NoDoc => h.doc = loadedObject[g])
      BY <3>1, <2>1, <1>0 DEF Flowing, Contained
    <3>3. r \in Seq(Steps(typed))
      BY <3>2, <2>1, <1>0, IsAStep, BlankIs
    <3>4. /\ \A i \in DOMAIN r : i = 1 \/ i = 2
          /\ 2 \in DOMAIN r /\ r[1].op = "save" /\ r[1].on = g /\ r[1].arg = h
          /\ r[2].op = "leave" /\ r[2].on = g
      BY DEF Step
    <3>. HIDE DEF r, s
    <3>5. \A e \in Editors : PushStep(e, s) => \A i \in DOMAIN r : PushStep(e, r[i])
      BY <3>4, <2>1 DEF PushStep
    <3>6. \A e \in Editors, d \in Docs : LoadStep(e, d, s) => \A i \in DOMAIN r : LoadStep(e, d, r[i])
      BY <3>2, <3>4, <3>5, <2>1 DEF LoadStep
    <3>7. Answers(r, s)
      BY <3>4, <3>5, <3>6, <2>1 DEF Answers, callOps
    <3>. QED BY <3>1, <3>3, <3>7 DEF r, s
  <2>. QED BY <2>2, <2>3
<1>3. CASE Save(t)
  <2>. DEFINE s == At(t)
              e == s.on
              d == loadedObject[e]
              h == s.arg
  <2>1. Next1(t, "save") /\ s.op = "save" /\ e \in Editors /\ h \in Contents(typed)
    BY <1>0, <1>3, HeadIs, StepIs DEF Save
  <2>2. CASE d = NoDoc \/ lastFocussedEditor[d] # e
    <3>1. Then(t, <<>>)
      BY <2>2, <1>3 DEF Save
    <3>. QED BY <3>1, <2>1, NothingAnswers
  <2>3. CASE ~(d = NoDoc \/ lastFocussedEditor[d] # e)
    <3>. DEFINE r == SetSources(responsibleEditors[d], e, h) \o <<Step("store", e, h)>>
    <3>1. Then(t, r)
      BY <2>3, <1>3 DEF Save
    <3>2. Owner(e) /\ d # NoDoc
      BY <2>3 DEF Owner
    <3>. HIDE DEF s, d
    <3>3. \A f \in Editors : PushStep(f, s) => f = e /\ h.doc = d
      BY <3>2, <2>1 DEF PushStep, Owner, d
    <3>4. \A f \in Editors, x \in Docs : LoadStep(f, x, s) => f = e /\ h.doc = d
      BY <3>2, <3>3, <2>1 DEF LoadStep, d
    <3>5. ~ (t = UI /\ UIStep(s))
      BY <3>2, <2>1 DEF UIStep, d
    <3>6. h.doc = d
      BY <3>3, <3>4, <3>5 DEF s
    <3>7. r \in Seq(Steps(typed)) /\ \A i \in DOMAIN r : PushStep(e, r[i]) /\ r[i].op \in {"notify", "assign", "page", "store"}
      BY <3>2, <3>6, <2>1, SavePushes DEF d
    <3>. HIDE DEF r
    <3>8. \A f \in Editors, x \in Docs : LoadStep(f, x, s) => \A i \in DOMAIN r : LoadStep(f, x, r[i])
      BY <3>4, <3>7 DEF LoadStep
    <3>9. Answers(r, s)
      BY <3>2, <3>3, <3>7, <3>8, <2>1 DEF Answers, callOps, d
    <3>. QED BY <3>1, <3>7, <3>9 DEF s
  <2>. QED BY <2>2, <2>3
<1>. QED BY <1>1, <1>2, <1>3 DEF CallStep

\* What a step of a call changes, and leaves alone.
Effects(s) ==
  /\ UNCHANGED <<loadedObject, docVars, loadJob, posted, history, stored, noticed, enabled>>
  /\ \A e \in Editors : waiting'[e] => waiting[e]
  /\ task' = IF s.op = "leave" THEN [task EXCEPT ![s.on] = {}] ELSE task
  /\ page' = IF s.op = "page" THEN [page EXCEPT ![s.on] = s.arg] ELSE page
  /\ s.op # "store" => saveJobs' = saveJobs

LEMMA CallDoes ==
  ASSUME Types, Considerate, NEW t \in Threads, CallStep(t)
  PROVE  Effects(At(t)) /\ At(t).op \in callOps /\ todo[t] # <<>>
<1>0. Maps /\ Flowing /\ Calls
  BY DEF Types
<1>1. CASE NotifyNow(t)
  <2>1. Next1(t, "notify") /\ At(t).op = "notify" /\ At(t).on \in Editors
    BY <1>0, <1>1, HeadIs DEF NotifyNow
  <2>2. \A e \in Editors : waiting'[e] => waiting[e]
    BY <1>0, <1>1, <2>1 DEF NotifyNow, Maps
  <2>. QED BY <1>1, <2>1, <2>2 DEF NotifyNow, Effects, callOps, Next1, composerVars
<1>2. CASE LeaveMonitor(t)
  <2>1. Next1(t, "leave") /\ At(t).op = "leave"
    BY <1>2 DEF LeaveMonitor, Next1, At
  <2>. QED BY <1>2, <2>1 DEF LeaveMonitor, Effects, callOps, Next1, composerVars
<1>3. CASE AssignOldHtml(t)
  <2>1. Next1(t, "assign") /\ At(t).op = "assign"
    BY <1>3 DEF AssignOldHtml, Next1, At
  <2>. QED BY <1>3, <2>1 DEF AssignOldHtml, Effects, callOps, Next1, notifierVars
<1>4. CASE SetPage(t)
  <2>1. Next1(t, "page") /\ At(t).op = "page"
    BY <1>4 DEF SetPage, Next1, At
  <2>2. noticed' = noticed
    BY <1>4 DEF SetPage, Considerate
  <2>. QED BY <1>4, <2>1, <2>2 DEF SetPage, Effects, callOps, Next1, notifierVars
<1>5. CASE Save(t)
  <2>1. Next1(t, "save") /\ At(t).op = "save"
    BY <1>5 DEF Save, Next1, At
  <2>. QED BY <1>5, <2>1 DEF Save, Effects, callOps, Next1, notifierVars, composerVars
<1>6. CASE ScheduleSave(t)
  <2>1. Next1(t, "store") /\ At(t).op = "store"
    BY <1>6 DEF ScheduleSave, Next1, At
  <2>. QED BY <1>6, <2>1 DEF ScheduleSave, Effects, callOps, Next1, notifierVars, composerVars
<1>. QED BY <1>1, <1>2, <1>3, <1>4, <1>5, <1>6 DEF CallStep

\* A document that is being loaded has steps ahead, or waits to be registered.
LEMMA EndingIs ==
  ASSUME NEW n, NEW e \in Editors, NEW d \in Docs
  PROVE  /\ Ending(e, d) \in Seq(Steps(n)) /\ Len(Ending(e, d)) = 2
         /\ Ending(e, d)[1] = Step("loaded", e, d) /\ Ending(e, d)[2] = Step("enable", e, TRUE)
<1>1. Step("loaded", e, d) \in Steps(n) /\ Step("enable", e, TRUE) \in Steps(n)
  BY IsAStep, EnableIsAStep
<1>2. Ending(e, d) \in Seq(Steps(n))
  BY <1>1, TupleTyped, Zenon DEF Ending
<1>3. Len(Ending(e, d)) = 2
  BY DEF Ending
<1>. QED BY <1>2, <1>3 DEF Ending

LEMMA AheadLoads ==
  ASSUME NEW n, NEW p \in Seq(Steps(n)), NEW e \in Editors, NEW d \in Docs
  PROVE  /\ p \o Ending(e, d) # <<>>
         /\ p = <<>> => p \o Ending(e, d) = Ending(e, d)
         /\ \E i \in DOMAIN (p \o Ending(e, d)) :
              (p \o Ending(e, d))[i].op = "loaded" /\ (p \o Ending(e, d))[i].on = e
<1>. DEFINE x == Ending(e, d)
            q == p \o x
<1>1. /\ x \in Seq(Steps(n)) /\ Len(x) = 2 /\ x[1].op = "loaded" /\ x[1].on = e
  <2>1. x \in Seq(Steps(n)) /\ Len(x) = 2 /\ x[1] = Step("loaded", e, d)
    BY EndingIs, Zenon
  <2>. HIDE DEF x
  <2>. QED BY <2>1 DEF Step
<1>. HIDE DEF x
<1>2. /\ q \in Seq(Steps(n)) /\ Len(q) = Len(p) + 2
      /\ \A i \in 1 .. Len(p) + 2 : q[i] = IF i <= Len(p) THEN p[i] ELSE x[i - Len(p)]
  <2>1. /\ q \in Seq(Steps(n)) /\ Len(q) = Len(p) + Len(x)
        /\ \A i \in 1 .. Len(p) + Len(x) : q[i] = IF i <= Len(p) THEN p[i] ELSE x[i - Len(p)]
    BY <1>1, ConcatProperties
  <2>. HIDE DEF q
  <2>. QED BY <2>1, <1>1
<1>3. p = <<>> => q = x
  BY <1>1, ConcatEmptySeq
<1>. HIDE DEF q
<1>4. Len(p) \in Nat /\ DOMAIN q = 1 .. Len(q)
  BY <1>2, LenProperties
<1>5. Len(p) + 1 \in DOMAIN q /\ q[Len(p) + 1] = x[1]
  <2>1. Len(p) + 1 \in 1 .. Len(p) + 2 /\ ~(Len(p) + 1 <= Len(p)) /\ Len(p) + 1 - Len(p) = 1
    BY <1>4
  <2>. QED BY <2>1, <1>2, <1>4
<1>6. q # <<>>
  BY <1>5
<1>. QED BY <1>1, <1>3, <1>5, <1>6 DEF q, x

\* In which call a thread takes a step.
LEMMA CallIsIn ==
  ASSUME Types, Order, NEW t \in Threads, todo[t] # <<>>, At(t).op \in callOps
  PROVE  \/ t = UI /\ UIStep(At(t))
         \/ \E e \in Editors : t = Timer(e) /\ PushStep(e, At(t))
         \/ \E n \in 1 .. MaxLoads, e \in Editors, d \in Docs, p \in Seq(Steps(typed)) :
              /\ t = LoadJob(n) /\ todo[t] = p \o Ending(e, d) /\ p # <<>> /\ Ahead(p, e, d)
              /\ At(t) = p[1] /\ LoadStep(e, d, At(t))
              /\ \A x \in Docs : ~Registered(e, x)
<1>1. todo[t] \in Seq(Steps(typed)) /\ At(t) = todo[t][1] /\ 1 \in DOMAIN todo[t]
  BY DEF Types, Calls, At
<1>2. CASE t = UI
  BY <1>1, <1>2 DEF Order, UIWork
<1>3. ASSUME NEW e \in Editors, t = Timer(e) PROVE PushStep(e, At(t))
  BY <1>1, <1>3 DEF Order, TimerWork
<1>4. ASSUME NEW n \in 1 .. MaxLoads, t = LoadJob(n)
      PROVE  \E e \in Editors, d \in Docs, p \in Seq(Steps(typed)) :
               /\ todo[t] = p \o Ending(e, d) /\ p # <<>> /\ Ahead(p, e, d)
               /\ At(t) = p[1] /\ LoadStep(e, d, At(t))
               /\ \A x \in Docs : ~Registered(e, x)
  <2>1. PICK e \in Editors, d \in Docs : LoadQueue(todo[t], e, d)
    BY <1>4 DEF Order, LoadWork
  <2>2. todo[t] # <<Step("enable", e, TRUE)>> /\ todo[t] # <<Step("start", e, d)>>
    BY <1>1 DEF callOps, Step
  <2>3. PICK p \in Seq(Steps(typed)) : todo[t] = p \o Ending(e, d) /\ Ahead(p, e, d)
    BY <2>1, <2>2 DEF LoadQueue
  <2>4. p # <<>>
    <3>1. p = <<>> => At(t).op = "loaded"
      BY <1>1, <2>3, AheadLoads DEF Ending, Step
    <3>. QED BY <3>1 DEF callOps
  <2>5. At(t) = p[1] /\ 1 \in DOMAIN p
    <3>1. Ending(e, d) \in Seq(Steps(typed))
      BY EndingIs
    <3>2. Head(todo[t]) = p[1]
      BY <2>3, <2>4, <3>1, EndStays
    <3>. QED BY <3>2, <2>4 DEF At
  <2>6. LoadStep(e, d, At(t))
    BY <2>3, <2>5 DEF Ahead
  <2>7. \A x \in Docs : ~Registered(e, x)
    BY <2>1, <2>2 DEF LoadQueue
  <2>. QED BY <2>3, <2>4, <2>5, <2>6, <2>7
<1>. QED BY <1>2, <1>3, <1>4, ThreadsDiffer

-----------------------------------------------------------------------------
(* A step of a call keeps the order.                                        *)

\* No phase begins where nothing begins.
LEMMA PhasesRest ==
  ASSUME Phases,
         \A u \in Threads : todo'[u] # <<>> => todo[u] # <<>>,
         \A e \in Editors : (noticed'[e] => noticed[e]) /\ (waiting'[e] => waiting[e]) /\ (posted'[e] => posted[e]),
         loadedObject' = loadedObject,
         saveJobs' # {} => saveJobs # {} \/ \E u \in Threads \ {UI} : todo[u] # <<>>,
         Emptying' => Emptying
  PROVE  Phases'
<1>1. \A n \in 1 .. MaxLoads : todo'[LoadJob(n)] # <<>> =>
        Alone(LoadJob(n))' /\ \A e \in Editors : ~posted'[e]
  BY ThreadsDiffer DEF Phases, Alone
<1>2. \A e \in Editors : posted'[e] =>
       /\ Alone(UI)' /\ todo'[UI] = <<>> /\ saveJobs' = {} /\ loadedObject'[e] = NoDoc
       /\ \A f \in Editors : posted'[f] => f = e
  BY ThreadsDiffer DEF Phases, Alone
<1>3. Emptying' => Alone(UI)' /\ saveJobs' = {} /\ \A e \in Editors : ~posted'[e]
  BY ThreadsDiffer DEF Phases, Alone
<1>. QED BY <1>1, <1>2, <1>3 DEF Phases

\* What a step is depends on what is loaded and in focus.
LEMMA StepsStay ==
  ASSUME UNCHANGED <<loadedObject, lastFocussedEditor>>
  PROVE  /\ \A s : UIStep(s)' <=> UIStep(s)
         /\ \A e, s : PushStep(e, s)' <=> PushStep(e, s)
         /\ \A e, d, s : LoadStep(e, d, s)' <=> LoadStep(e, d, s)
<1>1. \A s : UIStep(s)' <=> UIStep(s)
  BY DEF UIStep
<1>2. \A e, s : PushStep(e, s)' <=> PushStep(e, s)
  BY DEF PushStep, Owner
<1>3. \A e, d, s : LoadStep(e, d, s)' <=> LoadStep(e, d, s)
  BY <1>2 DEF LoadStep
<1>. QED BY <1>1, <1>2, <1>3

\* The other threads have the same to do.
LEMMA OthersStay ==
  ASSUME Calls, NEW t \in Threads, todo[t] # <<>>, NEW r \in Seq(Steps(typed)), Then(t, r)
  PROVE  /\ todo'[t] = r \o Tail(todo[t]) /\ Continues(todo'[t], r, todo[t])
         /\ \A u \in Threads \ {t} : todo'[u] = todo[u]
<1>1. todo[t] \in Seq(Steps(typed))
  BY DEF Calls
<1>2. todo'[t] = r \o Tail(todo[t]) /\ \A u \in Threads \ {t} : todo'[u] = todo[u]
  BY DEF Then, Calls
<1>3. Continues(r \o Tail(todo[t]), r, todo[t])
  BY <1>1, ThenIs, Zenon
<1>. QED BY <1>2, <1>3

LEMMA CallKeepsPhases ==
  ASSUME Types, Order, NEW t \in Threads, Effects(At(t)), At(t).op \in callOps, todo[t] # <<>>,
         NEW r \in Seq(Steps(typed)), Then(t, r), Answers(r, At(t))
  PROVE  Phases'
<1>0. Calls /\ Phases /\ todo[t] \in Seq(Steps(typed)) /\ 1 \in DOMAIN todo[t] /\ At(t) = todo[t][1]
  BY DEF Types, Order, Calls, At
<1>1. /\ todo'[t] = r \o Tail(todo[t]) /\ Continues(todo'[t], r, todo[t])
      /\ \A u \in Threads \ {t} : todo'[u] = todo[u]
  BY <1>0, OthersStay
<1>2. t = UI => Emptying
  <2>1. t = UI => todo[UI][1].op # "modify" /\ 1 \in DOMAIN todo[UI]
    BY <1>0 DEF callOps
  <2>. QED BY <2>1 DEF Emptying
<1>3. Emptying' => Emptying
  BY <1>1, <1>2, ThreadsDiffer DEF Emptying
<1>4. saveJobs' # {} => saveJobs # {} \/ \E u \in Threads \ {UI} : todo[u] # <<>>
  <2>1. CASE At(t).op = "store"
    <3>1. t # UI
      BY <2>1, <1>0 DEF Order, UIWork, UIStep
    <3>. QED BY <3>1
  <2>2. CASE At(t).op # "store"
    BY <2>2 DEF Effects
  <2>. QED BY <2>1, <2>2
<1>. QED BY <1>0, <1>1, <1>3, <1>4, PhasesRest DEF Effects

LEMMA CallKeepsUI ==
  ASSUME Types, Order, NEW t \in Threads, Effects(At(t)), At(t).op \in callOps, todo[t] # <<>>,
         NEW r \in Seq(Steps(typed)), Then(t, r), Answers(r, At(t))
  PROVE  UIWork'
<1>0. Calls /\ UIWork /\ todo[t] \in Seq(Steps(typed)) /\ 1 \in DOMAIN todo[t] /\ At(t) = todo[t][1]
  BY DEF Types, Order, Calls, At
<1>1. /\ todo'[t] = r \o Tail(todo[t]) /\ Continues(todo'[t], r, todo[t])
      /\ \A u \in Threads \ {t} : todo'[u] = todo[u]
  BY <1>0, OthersStay
<1>2. \A s : UIStep(s)' <=> UIStep(s)
  BY StepsStay DEF Effects, docVars
<1>3. CASE t # UI
  BY <1>0, <1>1, <1>2, <1>3, ThreadsDiffer DEF UIWork
<1>4. CASE t = UI
  <2>1. UIStep(At(t)) /\ At(t).op # "modify"
    BY <1>0, <1>4 DEF UIWork, callOps
  <2>2. \A i \in DOMAIN r : UIStep(r[i])
    BY <2>1 DEF UIStep, Answers, callOps
  <2>3. \A i \in DOMAIN todo'[UI] : UIStep(todo'[UI][i])
    <3>. SUFFICES ASSUME NEW i \in DOMAIN todo'[UI] PROVE UIStep(todo'[UI][i])
      OBVIOUS
    <3>1. \/ i \in DOMAIN r /\ todo'[UI][i] = r[i]
          \/ \E k \in DOMAIN todo[UI] : todo'[UI][i] = todo[UI][k]
      BY <1>1, <1>4 DEF Continues
    <3>. QED BY <3>1, <2>2, <1>0 DEF UIWork
  <2>. QED BY <2>3, <1>2 DEF UIWork
<1>. QED BY <1>3, <1>4

LEMMA CallKeepsTimers ==
  ASSUME Types, Order, NEW t \in Threads, Effects(At(t)), At(t).op \in callOps, todo[t] # <<>>,
         NEW r \in Seq(Steps(typed)), Then(t, r), Answers(r, At(t))
  PROVE  TimerWork'
<1>0. Calls /\ TimerWork /\ todo[t] \in Seq(Steps(typed)) /\ 1 \in DOMAIN todo[t] /\ At(t) = todo[t][1]
  BY DEF Types, Order, Calls, At
<1>1. /\ todo'[t] = r \o Tail(todo[t]) /\ Continues(todo'[t], r, todo[t])
      /\ \A u \in Threads \ {t} : todo'[u] = todo[u]
  BY <1>0, OthersStay
<1>2. \A e, s : PushStep(e, s)' <=> PushStep(e, s)
  BY StepsStay DEF Effects, docVars
<1>. SUFFICES ASSUME NEW e \in Editors, NEW i \in DOMAIN todo'[Timer(e)]
              PROVE  /\ PushStep(e, todo'[Timer(e)][i])
                     /\ todo'[Timer(e)][i].op = "leave" =>
                          i = 1 \/ (i = 2 /\ todo'[Timer(e)][1].op = "save" /\ todo'[Timer(e)][1].on # e)
  BY <1>2 DEF TimerWork
<1>3. CASE t # Timer(e)
  <2>1. todo'[Timer(e)] = todo[Timer(e)]
    BY <1>1, <1>3, ThreadsDiffer
  <2>. QED BY <2>1, <1>0 DEF TimerWork
<1>4. CASE t = Timer(e)
  <2>. DEFINE q == todo[t]
              s == At(t)
              q1 == todo'[t]
  <2>0. q \in Seq(Steps(typed)) /\ q # <<>> /\ Continues(q1, r, q) /\ i \in DOMAIN q1 /\ s = q[1]
    BY <1>0, <1>1, <1>4
  <2>1. PushStep(e, s) /\ \A k \in DOMAIN q : PushStep(e, q[k]) /\
          (q[k].op = "leave" => k = 1 \/ (k = 2 /\ s.op = "save" /\ s.on # e))
    BY <1>0, <1>4 DEF TimerWork
  <2>2. /\ \A k \in DOMAIN r : PushStep(e, r[k])
        /\ s.op = "save" /\ s.on # e => r = <<>>
        /\ \A k \in DOMAIN r : r[k].op = "leave" => k = 2 /\ s.op = "notify" /\ r[1].op = "save" /\ r[1].on = s.on
    BY <2>1 DEF Answers
  <2>3. s.op = "notify" => s.on # e
    BY <2>1 DEF PushStep
  <2>4. /\ Len(r) \in Nat /\ DOMAIN r = 1 .. Len(r) /\ DOMAIN q = 1 .. Len(q)
        /\ \/ i \in DOMAIN r /\ q1[i] = r[i]
           \/ \E k \in DOMAIN q : k > 1 /\ i = k + Len(r) - 1 /\ q1[i] = q[k]
    <3>. HIDE DEF q, q1
    <3>. QED BY <2>0 DEF Continues
  <2>5. CASE i \in DOMAIN r /\ q1[i] = r[i]
    <3>1. r[i].op = "leave" => q1[1] = r[1]
      <4>1. r[i].op = "leave" => i = 2 /\ 1 \in DOMAIN r
        BY <2>2, <2>4, <2>5
      <4>2. 1 \in DOMAIN r => q1[1] = r[1]
        <5>. HIDE DEF q, q1
        <5>. QED BY <2>0 DEF Continues
      <4>. QED BY <4>1, <4>2
    <3>. QED BY <3>1, <2>2, <2>3, <2>5, <1>4
  <2>6. ASSUME NEW k \in DOMAIN q, k > 1, i = k + Len(r) - 1, q1[i] = q[k]
        PROVE  PushStep(e, q1[i]) /\ (q1[i].op = "leave" => i = 1)
    <3>1. q[k].op = "leave" => k = 2 /\ r = <<>>
      BY <2>1, <2>2, <2>6
    <3>2. r = <<>> => Len(r) = 0
      OBVIOUS
    <3>. QED BY <3>1, <3>2, <2>1, <2>6
  <2>. QED BY <2>4, <2>5, <2>6, <1>4
<1>. QED BY <1>3, <1>4

LEMMA CallKeepsLoads ==
  ASSUME Types, Order, NEW t \in Threads, Effects(At(t)), At(t).op \in callOps, todo[t] # <<>>,
         NEW r \in Seq(Steps(typed)), Then(t, r), Answers(r, At(t))
  PROVE  LoadWork' /\ \A e \in Editors : BeingLoaded(e) => BeingLoaded(e)'
<1>0. Calls /\ Phases /\ Maps /\ Flowing /\ LoadWork /\ todo[t] \in Seq(Steps(typed)) /\ 1 \in DOMAIN todo[t]
      /\ At(t) = todo[t][1] /\ At(t) \in Steps(typed)
  BY DEF Types, Order, Calls, At
<1>1. /\ todo'[t] = r \o Tail(todo[t]) /\ Continues(todo'[t], r, todo[t])
      /\ \A u \in Threads \ {t} : todo'[u] = todo[u]
  BY <1>0, OthersStay
<1>2. \A n \in 1 .. MaxLoads : LoadJob(n) # t => todo[LoadJob(n)] = <<>> /\ todo'[LoadJob(n)] = <<>>
  BY <1>0, <1>1, ThreadsDiffer DEF Phases, Alone
<1>3. CASE \A n \in 1 .. MaxLoads : LoadJob(n) # t
  BY <1>2, <1>3 DEF LoadWork, BeingLoaded
<1>4. ASSUME NEW n \in 1 .. MaxLoads, t = LoadJob(n)
      PROVE  LoadWork' /\ \A e \in Editors : BeingLoaded(e) => BeingLoaded(e)'
  <2>1. PICK e \in Editors, d \in Docs, p \in Seq(Steps(typed)) :
          /\ todo[t] = p \o Ending(e, d) /\ p # <<>> /\ Ahead(p, e, d)
          /\ At(t) = p[1] /\ LoadStep(e, d, At(t))
          /\ \A x \in Docs : ~Registered(e, x)
    BY <1>4, CallIsIn, ThreadsDiffer
  <2>. DEFINE s == At(t)
              p1 == r \o Tail(p)
  <2>2. todo'[t] = p1 \o Ending(e, d) /\ p1 \in Seq(Steps(typed)) /\ Continues(p1, r, p)
    <3>1. Ending(e, d) \in Seq(Steps(typed))
      BY EndingIs
    <3>2. r \o Tail(p \o Ending(e, d)) = p1 \o Ending(e, d)
      BY <3>1, <2>1, EndStays
    <3>3. p1 \in Seq(Steps(typed)) /\ Continues(p1, r, p)
      BY <2>1, ThenIs, Zenon
    <3>. QED BY <3>2, <3>3, <1>1, <2>1
  <2>3. \A i \in DOMAIN r : LoadStep(e, d, r[i])
    BY <2>1 DEF Answers
  <2>. HIDE DEF p1
  <2>4. \A i \in DOMAIN p1 : LoadStep(e, d, p1[i])
    <3>. SUFFICES ASSUME NEW i \in DOMAIN p1 PROVE LoadStep(e, d, p1[i])
      OBVIOUS
    <3>1. \/ i \in DOMAIN r /\ p1[i] = r[i]
          \/ \E k \in DOMAIN p : p1[i] = p[k]
      BY <2>2 DEF Continues
    <3>. QED BY <3>1, <2>1, <2>3 DEF Ahead
  <2>5. \A k \in DOMAIN p : k > 1 => \E i \in DOMAIN p1 : p1[i] = p[k]
    BY <2>2 DEF Continues
  <2>6. \A k \in DOMAIN r : \E i \in DOMAIN p1 : p1[i] = r[k]
    BY <2>2 DEF Continues
  <2>7. s.on \in Editors /\ (s.op = "page" /\ s.on = e => s.arg.doc = d) /\ DOMAIN p = 1 .. Len(p)
    <3>1. s.on \in Editors
      BY <1>0, StepIs
    <3>2. s.op = "page" /\ s.on = e => s.arg.doc = d
      BY <2>1 DEF LoadStep, PushStep
    <3>. QED BY <3>1, <3>2, LenProperties
  <2>. HIDE DEF s
  <2>8. task'[e] = {} \/ \E i \in DOMAIN p1 : p1[i].on = e /\ p1[i].op \in {"notify", "leave"}
    <3>1. CASE task[e] = {}
      BY <3>1, <1>0, <2>7 DEF Effects, Flowing, s
    <3>2. ASSUME NEW k \in DOMAIN p, p[k].on = e, p[k].op \in {"notify", "leave"}
          PROVE  task'[e] = {} \/ \E i \in DOMAIN p1 : p1[i].on = e /\ p1[i].op \in {"notify", "leave"}
      <4>1. CASE k > 1
        BY <4>1, <3>2, <2>5
      <4>2. CASE p[k] = s /\ s.op = "leave"
        BY <4>2, <3>2, <1>0 DEF Effects, Flowing, s
      <4>3. CASE p[k] = s /\ s.op = "notify"
        <5>1. task[e] = {} \/ \E i \in DOMAIN r : r[i].op = "leave" /\ r[i].on = e
          BY <4>3, <3>2 DEF Answers, s
        <5>. QED BY <5>1, <3>1, <2>6
      <4>. QED BY <4>1, <4>2, <4>3, <3>2, <2>1, <2>7 DEF s
    <3>. QED BY <3>1, <3>2, <2>1 DEF Ahead
  <2>9. page'[e].doc = d \/ \E i \in DOMAIN p1 : p1[i].on = e /\ p1[i].op = "page"
    <3>1. CASE page[e].doc = d
      BY <3>1, <1>0, <2>7 DEF Effects, Flowing, s
    <3>2. ASSUME NEW k \in DOMAIN p, p[k].on = e, p[k].op = "page"
          PROVE  page'[e].doc = d \/ \E i \in DOMAIN p1 : p1[i].on = e /\ p1[i].op = "page"
      <4>1. CASE k > 1
        BY <4>1, <3>2, <2>5
      <4>2. CASE p[k] = s
        BY <4>2, <3>2, <2>7, <1>0 DEF Effects, Flowing, s
      <4>. QED BY <4>1, <4>2, <3>2, <2>1, <2>7 DEF s
    <3>. QED BY <3>1, <3>2, <2>1 DEF Ahead
  <2>10. Ahead(p1, e, d)' /\ (\A x \in Docs : ~Registered(e, x)') /\ typed' = typed
    <3>1. \A i \in DOMAIN p1 : LoadStep(e, d, p1[i])'
      BY <2>4, StepsStay DEF Effects, docVars
    <3>. QED BY <3>1, <2>1, <2>8, <2>9 DEF Ahead, Registered, Effects, docVars, history
  <2>11. LoadQueue(todo[t], e, d)'
    BY <2>2, <2>10 DEF LoadQueue
  <2>12. LoadWork'
    BY <2>11, <1>2, <1>4, ThreadsDiffer DEF LoadWork
  <2>13. ASSUME NEW f \in Editors, BeingLoaded(f) PROVE BeingLoaded(f)'
    <3>1. PICK k \in DOMAIN todo[t] : todo[t][k].op = "loaded" /\ todo[t][k].on = f
      BY <2>13, <1>2, <1>4 DEF BeingLoaded
    <3>2. k > 1
      <4>1. k # 1
        BY <3>1, <1>0 DEF callOps
      <4>. QED BY <4>1, <1>0, LenProperties
    <3>3. \E i \in DOMAIN todo'[t] : todo'[t][i] = todo[t][k]
      BY <3>2, <1>1 DEF Continues
    <3>. QED BY <3>1, <3>3, <1>4 DEF BeingLoaded
  <2>. QED BY <2>12, <2>13
<1>. QED BY <1>3, <1>4

LEMMA CallKeepsContents ==
  ASSUME Types, Order, NEW t \in Threads, CallStep(t), Effects(At(t)), At(t).op \in callOps, todo[t] # <<>>,
         \A e \in Editors : BeingLoaded(e) => BeingLoaded(e)'
  PROVE  Contained'
<1>. DEFINE s == At(t)
<1>0. Maps /\ Flowing /\ Contained /\ s \in Steps(typed) /\ s.on \in Editors
  <2>1. Maps /\ Flowing /\ Contained /\ s \in Steps(typed)
    BY DEF Types, Order, Calls, At
  <2>. QED BY <2>1, StepIs
<1>1. /\ s.op = "store" /\ loadedObject[s.on] # NoDoc => s.arg.doc = loadedObject[s.on]
      /\ s.op = "page" /\ loadedObject[s.on] # NoDoc => s.arg.doc = loadedObject[s.on] \/ BeingLoaded(s.on)
  <2>1. CASE UIStep(s)
    BY <2>1 DEF UIStep
  <2>2. ASSUME NEW e \in Editors, PushStep(e, s)
        PROVE  s.op \in {"store", "page"} => s.arg.doc = loadedObject[s.on]
    BY <2>2 DEF PushStep
  <2>3. ASSUME NEW n \in 1 .. MaxLoads, NEW e \in Editors, NEW d \in Docs, NEW p \in Seq(Steps(typed)),
               t = LoadJob(n), todo[t] = p \o Ending(e, d), LoadStep(e, d, s)
        PROVE  \/ PushStep(e, s)
               \/ s.op # "store" /\ BeingLoaded(s.on)
    <3>1. \E i \in DOMAIN todo[t] : todo[t][i].op = "loaded" /\ todo[t][i].on = e
      BY <2>3, AheadLoads
    <3>2. BeingLoaded(e)
      BY <3>1, <2>3 DEF BeingLoaded
    <3>. QED BY <3>2, <2>3 DEF LoadStep
  <2>4. \/ UIStep(s)
        \/ \E e \in Editors : PushStep(e, s)
        \/ s.op # "store" /\ BeingLoaded(s.on)
    BY <2>3, CallIsIn
  <2>. QED BY <2>1, <2>2, <2>4
<1>. HIDE DEF s
<1>2. \A d \in Docs : stored'[d].doc = d
  BY <1>0 DEF Effects, Contained
<1>3. \A j \in saveJobs' : j.html.doc = j.doc
  <2>1. CASE s.op # "store"
    BY <2>1, <1>0 DEF Effects, Contained, s
  <2>2. CASE s.op = "store"
    <3>1. ScheduleSave(t)
      BY <2>2 DEF CallStep, NotifyNow, LeaveMonitor, AssignOldHtml, SetPage, Save, Next1, At, s
    <3>2. \A j \in saveJobs' : \/ j \in saveJobs
                              \/ /\ loadedObject[s.on] # NoDoc
                                 /\ j = [by |-> s.on, doc |-> loadedObject[s.on], html |-> s.arg, running |-> FALSE]
      BY <3>1 DEF ScheduleSave, s
    <3>. QED BY <3>2, <2>2, <1>1, <1>0 DEF Contained
  <2>. QED BY <2>1, <2>2
<1>4. \A e \in Editors : noticed'[e] \/ waiting'[e] => loadedObject'[e] # NoDoc
  BY <1>0 DEF Effects, Contained
<1>5. \A e \in Editors : loadedObject'[e] # NoDoc => \A h \in task'[e] : h.doc = loadedObject'[e]
  BY <1>0 DEF Effects, Contained, Flowing, s
<1>6. \A e \in Editors : loadedObject'[e] # NoDoc => page'[e].doc = loadedObject'[e] \/ BeingLoaded(e)'
  BY <1>0, <1>1 DEF Effects, Contained, Flowing, s
<1>. QED BY <1>2, <1>3, <1>4, <1>5, <1>6 DEF Contained

LEMMA RegistrationRests ==
  ASSUME Registration, UNCHANGED <<responsibleEditors, loadedObject>>
  PROVE  Registration'
BY DEF Registration, Registered

\* The steps of calls of the notifier, the composer and save.
LEMMA CallKeepsOrder ==
  ASSUME Types, Considerate, Order, NEW t \in Threads, CallStep(t)
  PROVE  Order'
<1>1. Effects(At(t)) /\ At(t).op \in callOps /\ todo[t] # <<>>
  BY CallDoes
<1>2. \/ t = UI /\ UIStep(At(t))
      \/ \E e \in Editors : PushStep(e, At(t))
      \/ \E e \in Editors, d \in Docs : LoadStep(e, d, At(t))
  BY <1>1, CallIsIn
<1>3. PICK r \in Seq(Steps(typed)) : Then(t, r) /\ Answers(r, At(t))
  BY <1>2, CallPuts DEF Order
<1>4. Phases' /\ UIWork' /\ TimerWork'
  BY <1>1, <1>3, CallKeepsPhases, CallKeepsUI, CallKeepsTimers
<1>5. LoadWork' /\ \A e \in Editors : BeingLoaded(e) => BeingLoaded(e)'
  BY <1>1, <1>3, CallKeepsLoads
<1>6. Contained'
  BY <1>1, <1>5, CallKeepsContents
<1>7. Registration'
  BY <1>1, RegistrationRests DEF Order, Effects, docVars
<1>. QED BY <1>4, <1>5, <1>6, <1>7 DEF Order

-----------------------------------------------------------------------------
(* What a step leaves alone.                                                *)

LEMMA UIRests ==
  ASSUME UIWork, todo'[UI] = todo[UI], loadedObject' = loadedObject
  PROVE  UIWork'
BY DEF UIWork, UIStep

LEMMA TimersRest ==
  ASSUME TimerWork, \A e \in Editors : todo'[Timer(e)] = todo[Timer(e)],
         UNCHANGED <<loadedObject, lastFocussedEditor>>
  PROVE  TimerWork'
<1>1. \A e, s : PushStep(e, s)' <=> PushStep(e, s)
  BY StepsStay
<1>. QED BY <1>1 DEF TimerWork

LEMMA LoadsRest ==
  ASSUME LoadWork, \A n \in 1 .. MaxLoads : todo'[LoadJob(n)] = todo[LoadJob(n)],
         \A n \in 1 .. MaxLoads : todo[LoadJob(n)] # <<>> =>
           UNCHANGED <<loadedObject, docVars, typed, task, page>>
  PROVE  LoadWork' /\ \A e \in Editors : BeingLoaded(e)' <=> BeingLoaded(e)
<1>1. ASSUME NEW n \in 1 .. MaxLoads, todo'[LoadJob(n)] # <<>>
      PROVE  \E e \in Editors, d \in Docs : LoadQueue(todo[LoadJob(n)], e, d)'
  <2>1. UNCHANGED <<todo[LoadJob(n)], loadedObject, docVars, typed, task, page>>
    BY <1>1
  <2>2. PICK e \in Editors, d \in Docs : LoadQueue(todo[LoadJob(n)], e, d)
    BY <1>1 DEF LoadWork
  <2>3. \A p : Ahead(p, e, d) => Ahead(p, e, d)'
    <3>1. \A s : LoadStep(e, d, s)' <=> LoadStep(e, d, s)
      BY <2>1, StepsStay DEF docVars
    <3>. QED BY <2>1, <3>1 DEF Ahead
  <2>4. LoadQueue(todo[LoadJob(n)], e, d)'
    BY <2>1, <2>2, <2>3 DEF LoadQueue, Registered, docVars
  <2>. QED BY <2>4
<1>2. LoadWork'
  BY <1>1 DEF LoadWork
<1>3. \A e \in Editors : BeingLoaded(e)' <=> BeingLoaded(e)
  BY DEF BeingLoaded
<1>. QED BY <1>2, <1>3

\* While something is edited or saved nothing is loaded or emptied.
LEMMA PhasesNone ==
  ASSUME \A n \in 1 .. MaxLoads : todo'[LoadJob(n)] = <<>>, \A e \in Editors : ~posted'[e], ~Emptying'
  PROVE  Phases'
BY DEF Phases

LEMMA WhileEditing ==
  ASSUME Types, Phases, \/ \E e \in Editors : noticed[e] \/ waiting[e]
                        \/ Next1(UI, "modify")
  PROVE  /\ \A n \in 1 .. MaxLoads : todo[LoadJob(n)] = <<>>
         /\ \A e \in Editors : ~posted[e]
         /\ ~Emptying
<1>1. CASE \E e \in Editors : noticed[e] \/ waiting[e]
  BY <1>1 DEF Phases, Alone
<1>2. CASE Next1(UI, "modify")
  <2>1. UI \in Threads /\ todo[UI] # <<>> /\ Head(todo[UI]) = todo[UI][1] /\ todo[UI][1].op = "modify" /\ 1 \in DOMAIN todo[UI]
    <3>1. UI \in Threads /\ Calls
      BY ThreadsDiffer DEF Types
    <3>. QED BY <1>2, <3>1, HeadIs DEF Next1, At
  <2>2. Len(todo[UI]) = 1 /\ DOMAIN todo[UI] = 1 .. Len(todo[UI])
    <3>1. todo[UI] \in Seq(Steps(typed))
      BY <2>1 DEF Types, Calls
    <3>. QED BY <2>1, <3>1, LenProperties DEF Types, Monitors
  <2>3. ~Emptying
    BY <2>1, <2>2 DEF Emptying
  <2>. QED BY <2>1, <2>3, ThreadsDiffer DEF Phases, Alone
<1>. QED BY <1>1, <1>2

-----------------------------------------------------------------------------
(* Editing and saving.                                                      *)

LEMMA EventKeepsOrder ==
  ASSUME Types, Considerate, Order, NEW e \in Editors, TimerFires(e) \/ Notice(e) \/ Type(e)
  PROVE  Order'
<1>0. Maps /\ Flowing /\ Calls /\ Registration /\ Phases /\ UIWork /\ TimerWork /\ LoadWork /\ Contained
      /\ UI \in Threads /\ Timer(e) \in Threads
  BY ThreadsDiffer DEF Types, Order
<1>1. CASE TimerFires(e)
  <2>1. waiting[e] /\ todo[Timer(e)] = <<>> /\ waiting' = [waiting EXCEPT ![e] = FALSE]
        /\ UNCHANGED <<loadedObject, docVars, posted, saveJobs, stored, page, noticed, task, typed>>
    BY <1>1 DEF TimerFires, composerVars, history
  <2>2. PICK h \in task[e] : todo' = [todo EXCEPT ![Timer(e)] = <<Step("save", e, h)>>]
    BY <1>1 DEF TimerFires
  <2>3. \A t \in Threads \ {Timer(e)} : todo'[t] = todo[t]
    BY <2>2, <1>0 DEF Calls
  <2>4. todo'[Timer(e)] = <<Step("save", e, h)>>
    BY <2>2, <1>0 DEF Calls
  <2>5. /\ \A n \in 1 .. MaxLoads : todo[LoadJob(n)] = <<>> /\ todo'[LoadJob(n)] = todo[LoadJob(n)]
        /\ todo'[UI] = todo[UI] /\ (\A f \in Editors : ~posted[f]) /\ ~Emptying
    BY <1>0, <2>1, <2>3, WhileEditing, ThreadsDiffer
  <2>6. Phases'
    BY <2>1, <2>5, PhasesNone DEF Emptying
  <2>7. UIWork' /\ LoadWork' /\ (\A f \in Editors : BeingLoaded(f)' <=> BeingLoaded(f)) /\ Registration'
    BY <1>0, <2>1, <2>5, UIRests, LoadsRest, RegistrationRests DEF docVars
  <2>8. TimerWork'
    <3>1. PushStep(e, Step("save", e, h))
      BY <1>0, <2>1, <2>2 DEF PushStep, Step, Contained
    <3>2. \A f, s : PushStep(f, s)' <=> PushStep(f, s)
      BY <2>1, StepsStay DEF docVars
    <3>3. \A i \in DOMAIN todo'[Timer(e)] : todo'[Timer(e)][i] = Step("save", e, h)
      BY <2>4
    <3>4. Step("save", e, h).op # "leave"
      BY DEF Step
    <3>5. \A f \in Editors : f # e => todo'[Timer(f)] = todo[Timer(f)]
      BY <2>3, ThreadsDiffer
    <3>. QED BY <3>1, <3>2, <3>3, <3>4, <3>5, <1>0 DEF TimerWork
  <2>9. Contained'
    BY <1>0, <2>1, <2>7 DEF Contained, Maps
  <2>. QED BY <2>6, <2>7, <2>8, <2>9 DEF Order
<1>2. CASE Notice(e)
  <2>1. noticed[e] /\ todo[UI] = <<>> /\ noticed' = [noticed EXCEPT ![e] = FALSE]
        /\ UNCHANGED <<loadedObject, docVars, posted, saveJobs, stored, page, waiting, task, typed>>
    BY <1>2 DEF Notice, UIFree, notifierVars, history
  <2>2. todo' = todo \/ todo' = [todo EXCEPT ![UI] = <<Step("modify", e, page[e])>>]
    BY <1>2 DEF Notice
  <2>3. \A t \in Threads \ {UI} : todo'[t] = todo[t]
    BY <2>2, <1>0 DEF Calls
  <2>4. \A i \in DOMAIN todo'[UI] : todo'[UI][i] = Step("modify", e, page[e])
    BY <2>1, <2>2, <1>0 DEF Calls
  <2>5. /\ \A n \in 1 .. MaxLoads : todo[LoadJob(n)] = <<>> /\ todo'[LoadJob(n)] = todo[LoadJob(n)]
        /\ (\A f \in Editors : todo'[Timer(f)] = todo[Timer(f)]) /\ (\A f \in Editors : ~posted[f])
    BY <1>0, <2>1, <2>3, WhileEditing, ThreadsDiffer
  <2>6. Phases'
    <3>1. ~Emptying'
      BY <2>4 DEF Emptying, Step
    <3>. QED BY <2>1, <2>5, <3>1, PhasesNone
  <2>7. TimerWork' /\ LoadWork' /\ (\A f \in Editors : BeingLoaded(f)' <=> BeingLoaded(f)) /\ Registration'
    BY <1>0, <2>1, <2>5, TimersRest, LoadsRest, RegistrationRests DEF docVars
  <2>8. UIWork'
    <3>1. loadedObject[e] # NoDoc /\ page[e].doc = loadedObject[e]
      BY <1>0, <2>1, <2>5 DEF Contained, BeingLoaded
    <3>2. UIStep(Step("modify", e, page[e]))'
      BY <3>1, <2>1 DEF UIStep, Step
    <3>. QED BY <2>1, <2>4, <3>2 DEF UIWork
  <2>9. Contained'
    BY <1>0, <2>1, <2>7 DEF Contained, Maps
  <2>. QED BY <2>6, <2>7, <2>8, <2>9 DEF Order
<1>3. CASE Type(e)
  <2>1. loadedObject[e] # NoDoc /\ ~Loading /\ \A f \in Editors : ~posted[f]
    BY <1>3 DEF Type, MayType, Considerate
  <2>2. todo[UI] = <<>> /\ noticed' = [noticed EXCEPT ![e] = TRUE]
        /\ UNCHANGED <<loadedObject, docVars, posted, saveJobs, stored, waiting, task, todo>>
    BY <1>3 DEF Type, UIFree, notifierVars
  <2>3. /\ \A n \in 1 .. MaxLoads : todo[LoadJob(n)] = <<>> /\ todo'[LoadJob(n)] = todo[LoadJob(n)]
        /\ (\A f \in Editors : todo'[Timer(f)] = todo[Timer(f)]) /\ todo'[UI] = todo[UI]
    BY <2>1, <2>2 DEF Loading
  <2>4. Phases'
    <3>1. ~Emptying'
      BY <2>2 DEF Emptying
    <3>. QED BY <2>1, <2>2, <2>3, <3>1, PhasesNone
  <2>5. UIWork' /\ TimerWork' /\ LoadWork' /\ (\A f \in Editors : BeingLoaded(f)' <=> BeingLoaded(f)) /\ Registration'
    BY <1>0, <2>2, <2>3, UIRests, TimersRest, LoadsRest, RegistrationRests DEF docVars
  <2>6. \A f \in Editors : page'[f].doc = page[f].doc
    <3>1. \E k : page' = [page EXCEPT ![e].rev = k]
      BY <1>3 DEF Type
    <3>. QED BY <3>1, <1>0 DEF Flowing, Contents
  <2>7. Contained'
    BY <1>0, <2>1, <2>2, <2>5, <2>6 DEF Contained, Maps
  <2>. QED BY <2>4, <2>5, <2>7 DEF Order
<1>. QED BY <1>1, <1>2, <1>3

LEMMA LastOne ==
  ASSUME NEW S, NEW q \in Seq(S), Len(q) = 1
  PROVE  Tail(q) = <<>> /\ <<>> \o Tail(q) = <<>>
<1>1. q # <<>>
  OBVIOUS
<1>2. Tail(q) \in Seq(S) /\ Len(Tail(q)) = 0
  BY <1>1, HeadTailProperties
<1>3. Tail(q) = <<>>
  BY <1>2, EmptySeq
<1>. QED BY <1>3

LEMMA ModifyKeepsOrder ==
  ASSUME Types, Order, Modify
  PROVE  Order'
<1>. DEFINE s == At(UI)
            e == s.on
<1>0. Maps /\ Flowing /\ Calls /\ Registration /\ Phases /\ UIWork /\ TimerWork /\ LoadWork /\ Contained /\ UI \in Threads
  BY ThreadsDiffer DEF Types, Order
<1>1. Next1(UI, "modify") /\ Then(UI, <<>>)
      /\ UNCHANGED <<loadedObject, docVars, posted, saveJobs, stored, page, noticed, typed>>
  BY DEF Modify, composerVars, history
<1>2. todo[UI] \in Seq(Steps(typed)) /\ todo[UI] # <<>> /\ 1 \in DOMAIN todo[UI] /\ s = todo[UI][1] /\ s.op = "modify" /\ e \in Editors
  BY <1>0, <1>1, HeadIs
<1>3. task' = [task EXCEPT ![e] = {s.arg}] /\ waiting' = [waiting EXCEPT ![e] = TRUE]
  BY DEF Modify
<1>4. loadedObject[e] # NoDoc /\ s.arg.doc = loadedObject[e]
  BY <1>0, <1>2 DEF UIWork, UIStep
<1>. HIDE DEF s, e
<1>5. todo'[UI] = <<>> /\ \A u \in Threads \ {UI} : todo'[u] = todo[u]
  <2>1. todo'[UI] = <<>> \o Tail(todo[UI]) /\ Continues(todo'[UI], <<>>, todo[UI]) /\ \A u \in Threads \ {UI} : todo'[u] = todo[u]
    <3>1. <<>> \in Seq(Steps(typed))
      OBVIOUS
    <3>. QED BY <3>1, <1>0, <1>1, <1>2, OthersStay
  <2>2. Len(todo[UI]) = 1
    BY <1>0, <1>2 DEF Types, Monitors
  <2>3. Tail(todo[UI]) = <<>>
    BY <1>2, <2>2, LastOne
  <2>. QED BY <2>1, <2>3
<1>6. /\ \A n \in 1 .. MaxLoads : todo[LoadJob(n)] = <<>> /\ todo'[LoadJob(n)] = todo[LoadJob(n)]
      /\ (\A f \in Editors : todo'[Timer(f)] = todo[Timer(f)]) /\ (\A f \in Editors : ~posted[f])
  BY <1>0, <1>1, <1>5, WhileEditing, ThreadsDiffer
<1>7. Phases'
  <2>1. ~Emptying'
    BY <1>5 DEF Emptying
  <2>. QED BY <1>1, <1>6, <2>1, PhasesNone
<1>8. TimerWork' /\ LoadWork' /\ (\A f \in Editors : BeingLoaded(f)' <=> BeingLoaded(f)) /\ Registration'
  BY <1>0, <1>1, <1>6, TimersRest, LoadsRest, RegistrationRests DEF docVars
<1>9. UIWork'
  BY <1>5 DEF UIWork
<1>10. Contained'
  BY <1>0, <1>1, <1>3, <1>4, <1>8 DEF Contained, Maps, Flowing
<1>. QED BY <1>7, <1>8, <1>9, <1>10 DEF Order

\* The jobs that store a content store that of their document.
LEMMA JobKeepsOrder ==
  ASSUME Types, Order, NEW j \in saveJobs, StartSaveJob(j) \/ FinishSaveJob(j)
  PROVE  Order'
<1>0. Maps /\ Flowing /\ Calls /\ Registration /\ Phases /\ UIWork /\ TimerWork /\ LoadWork /\ Contained
  BY DEF Types, Order
<1>1. UNCHANGED <<loadedObject, docVars, posted, page, noticed, waiting, task, typed, todo>>
  BY DEF StartSaveJob, FinishSaveJob, composerVars, notifierVars, history
<1>2. Phases'
  <2>1. Emptying' <=> Emptying
    BY <1>1 DEF Emptying
  <2>. QED BY <1>0, <1>1, <2>1, PhasesRest
<1>3. UIWork' /\ TimerWork' /\ LoadWork' /\ (\A f \in Editors : BeingLoaded(f)' <=> BeingLoaded(f)) /\ Registration'
  BY <1>0, <1>1, UIRests, TimersRest, LoadsRest, RegistrationRests DEF docVars
<1>4. \A d \in Docs : stored'[d].doc = d
  <2>1. CASE StartSaveJob(j)
    BY <2>1, <1>0 DEF StartSaveJob, Contained
  <2>2. CASE FinishSaveJob(j)
    BY <2>2, <1>0 DEF FinishSaveJob, Contained, Flowing
  <2>. QED BY <2>1, <2>2
<1>5. \A k \in saveJobs' : k.html.doc = k.doc
  <2>1. CASE StartSaveJob(j)
    <3>1. j \in SaveJobs(typed) /\ j.html.doc = j.doc
      BY <1>0 DEF Flowing, Contained
    <3>2. [j EXCEPT !.running = TRUE].html.doc = [j EXCEPT !.running = TRUE].doc
      BY <3>1 DEF SaveJobs
    <3>. QED BY <2>1, <3>2, <1>0 DEF StartSaveJob, Contained
  <2>2. CASE FinishSaveJob(j)
    BY <2>2, <1>0 DEF FinishSaveJob, Contained
  <2>. QED BY <2>1, <2>2
<1>6. Contained'
  BY <1>0, <1>1, <1>3, <1>4, <1>5 DEF Contained
<1>. QED BY <1>2, <1>3, <1>6 DEF Order

-----------------------------------------------------------------------------
(* Loading.                                                                 *)

Unlisted(e) == \A x \in Docs : ~Registered(e, x)

\* What a load job does next, unless it takes a step of a call.
LEMMA LoadHead ==
  ASSUME Types, Order, NEW n \in 1 .. MaxLoads, NEW t, t = LoadJob(n), todo[t] # <<>>, At(t).op \notin callOps
  PROVE  \E e \in Editors, d \in Docs :
           \/ todo[t] = <<Step("enable", e, TRUE)>> /\ At(t) = Step("enable", e, TRUE)
           \/ Unlisted(e) /\ todo[t] = <<Step("start", e, d)>> /\ At(t) = Step("start", e, d)
           \/ Unlisted(e) /\ todo[t] = Ending(e, d) /\ At(t) = Step("loaded", e, d) /\ Ahead(<<>>, e, d)
<1>1. PICK e \in Editors, d \in Docs : LoadQueue(todo[t], e, d)
  BY DEF Order, LoadWork
<1>2. CASE todo[t] = <<Step("enable", e, TRUE)>>
  <2>1. At(t) = Step("enable", e, TRUE)
    BY <1>2 DEF At
  <2>. QED BY <1>2, <2>1
<1>3. CASE Unlisted(e) /\ todo[t] = <<Step("start", e, d)>>
  <2>1. At(t) = Step("start", e, d)
    BY <1>3 DEF At
  <2>. QED BY <1>3, <2>1
<1>4. ASSUME Unlisted(e), NEW p \in Seq(Steps(typed)), todo[t] = p \o Ending(e, d), Ahead(p, e, d)
      PROVE  todo[t] = Ending(e, d) /\ At(t) = Step("loaded", e, d) /\ Ahead(<<>>, e, d)
  <2>1. CASE p = <<>>
    <3>1. todo[t] = Ending(e, d)
      BY <1>4, <2>1, AheadLoads
    <3>2. At(t) = Step("loaded", e, d)
      BY <3>1 DEF At, Ending
    <3>. QED BY <1>4, <2>1, <3>1, <3>2
  <2>2. CASE p # <<>>
    <3>1. Ending(e, d) \in Seq(Steps(typed))
      BY EndingIs
    <3>2. At(t) = p[1] /\ 1 \in DOMAIN p
      BY <1>4, <2>2, <3>1, EndStays DEF At
    <3>3. LoadStep(e, d, At(t))
      BY <1>4, <3>2 DEF Ahead
    <3>. QED BY <3>3 DEF LoadStep, PushStep, callOps
  <2>. QED BY <2>1, <2>2
<1>5. \/ todo[t] = <<Step("enable", e, TRUE)>>
      \/ Unlisted(e) /\ todo[t] = <<Step("start", e, d)>>
      \/ Unlisted(e) /\ \E p \in Seq(Steps(typed)) : todo[t] = p \o Ending(e, d) /\ Ahead(p, e, d)
  BY <1>1 DEF LoadQueue, Unlisted
<1>. QED BY <1>2, <1>3, <1>4, <1>5

\* Nothing else goes on while a document is loaded.
LEMMA WhileLoading ==
  ASSUME Phases, NEW n \in 1 .. MaxLoads, todo[LoadJob(n)] # <<>>
  PROVE  /\ \A u \in Threads \ {LoadJob(n)} : todo[u] = <<>>
         /\ \A e \in Editors : ~noticed[e] /\ ~waiting[e] /\ ~posted[e]
         /\ \A f \in Editors : BeingLoaded(f) =>
              \E i \in DOMAIN todo[LoadJob(n)] : todo[LoadJob(n)][i].op = "loaded" /\ todo[LoadJob(n)][i].on = f
<1>1. /\ \A u \in Threads \ {LoadJob(n)} : todo[u] = <<>>
      /\ \A e \in Editors : ~noticed[e] /\ ~waiting[e] /\ ~posted[e]
  BY DEF Phases, Alone
<1>2. \A k \in 1 .. MaxLoads : LoadJob(k) \in Threads
  BY ThreadsDiffer
<1>. QED BY <1>1, <1>2 DEF BeingLoaded

LEMMA EnableKeepsOrder ==
  ASSUME Types, Order, NEW t \in Threads, SetEnabled(t)
  PROVE  Order'
<1>0. Maps /\ Flowing /\ Calls /\ Registration /\ Phases /\ UIWork /\ TimerWork /\ LoadWork /\ Contained /\ UI \in Threads
  BY ThreadsDiffer DEF Types, Order
<1>1. Next1(t, "enable") /\ Then(t, <<>>)
      /\ UNCHANGED <<loadedObject, docVars, posted, saveJobs, stored, page, noticed, waiting, task, typed>>
  BY DEF SetEnabled, notifierVars, history
<1>2. todo[t] \in Seq(Steps(typed)) /\ todo[t] # <<>> /\ 1 \in DOMAIN todo[t] /\ At(t) = todo[t][1] /\ At(t).op = "enable"
  BY <1>0, <1>1, HeadIs
<1>3. todo'[t] = <<>> \o Tail(todo[t]) /\ Continues(todo'[t], <<>>, todo[t]) /\ \A u \in Threads \ {t} : todo'[u] = todo[u]
  <2>1. <<>> \in Seq(Steps(typed))
    OBVIOUS
  <2>. QED BY <2>1, <1>0, <1>1, <1>2, OthersStay
<1>4. Registration'
  BY <1>0, <1>1, RegistrationRests DEF docVars
<1>5. CASE t = UI
  <2>1. \A i \in DOMAIN todo'[UI] : \E k \in DOMAIN todo[UI] : todo'[UI][i] = todo[UI][k]
    <3>1. DOMAIN <<>> = {}
      OBVIOUS
    <3>. QED BY <3>1, <1>3, <1>5 DEF Continues
  <2>2. Emptying' => Emptying
    BY <2>1 DEF Emptying
  <2>3. Phases'
    BY <1>0, <1>1, <1>2, <1>3, <2>2, PhasesRest
  <2>4. UIWork'
    <3>1. \A s : UIStep(s)' <=> UIStep(s)
      BY <1>1, StepsStay DEF docVars
    <3>. QED BY <1>0, <2>1, <3>1 DEF UIWork
  <2>5. TimerWork' /\ LoadWork' /\ (\A f \in Editors : BeingLoaded(f)' <=> BeingLoaded(f))
    <3>1. (\A f \in Editors : todo'[Timer(f)] = todo[Timer(f)]) /\ \A n \in 1 .. MaxLoads : todo'[LoadJob(n)] = todo[LoadJob(n)]
      BY <1>3, <1>5, ThreadsDiffer
    <3>. QED BY <3>1, <1>0, <1>1, TimersRest, LoadsRest DEF docVars
  <2>6. Contained'
    BY <1>0, <1>1, <2>5 DEF Contained
  <2>. QED BY <1>4, <2>3, <2>4, <2>5, <2>6 DEF Order
<1>6. ASSUME NEW e \in Editors, t = Timer(e) PROVE FALSE
  <2>1. PushStep(e, At(t))
    BY <1>0, <1>2, <1>6 DEF TimerWork
  <2>. QED BY <2>1, <1>2 DEF PushStep
<1>7. ASSUME NEW n \in 1 .. MaxLoads, t = LoadJob(n) PROVE Order'
  <2>1. PICK e \in Editors : todo[t] = <<Step("enable", e, TRUE)>>
    <3>1. At(t).op \notin callOps
      BY <1>2 DEF callOps
    <3>2. PICK e \in Editors, d \in Docs :
           \/ todo[t] = <<Step("enable", e, TRUE)>> /\ At(t) = Step("enable", e, TRUE)
           \/ Unlisted(e) /\ todo[t] = <<Step("start", e, d)>> /\ At(t) = Step("start", e, d)
           \/ Unlisted(e) /\ todo[t] = Ending(e, d) /\ At(t) = Step("loaded", e, d) /\ Ahead(<<>>, e, d)
      BY <3>1, <1>2, <1>7, LoadHead
    <3>3. At(t) # Step("start", e, d) /\ At(t) # Step("loaded", e, d)
      BY <1>2 DEF Step
    <3>. QED BY <3>2, <3>3
  <2>2. todo'[t] = <<>>
    <3>1. Len(todo[t]) = 1
      BY <2>1
    <3>. QED BY <3>1, <1>2, <1>3, LastOne
  <2>3. \A u \in Threads : todo'[u] = <<>>
    BY <2>2, <1>0, <1>2, <1>3, <1>7, WhileLoading
  <2>4. \A f \in Editors : ~BeingLoaded(f) /\ ~noticed[f] /\ ~waiting[f] /\ ~posted[f]
    <3>1. \A i \in DOMAIN todo[t] : todo[t][i].op # "loaded"
      BY <2>1 DEF Step
    <3>. QED BY <3>1, <1>0, <1>2, <1>7, WhileLoading
  <2>5. Phases'
    BY <2>3, <2>4, <1>1, PhasesNone, ThreadsDiffer DEF Emptying
  <2>6. UIWork' /\ TimerWork' /\ LoadWork'
    BY <2>3, ThreadsDiffer DEF UIWork, TimerWork, LoadWork
  <2>7. Contained'
    BY <1>0, <1>1, <2>4 DEF Contained
  <2>. QED BY <1>4, <2>5, <2>6, <2>7 DEF Order
<1>. QED BY <1>5, <1>6, <1>7, ThreadsDiffer

\* The document is read, and its content to be set.
LEMMA StartKeepsOrder ==
  ASSUME Types, Order, NEW n \in 1 .. MaxLoads, RunLoadJob(n)
  PROVE  Order'
<1>. DEFINE t == LoadJob(n)
<1>0. Maps /\ Flowing /\ Calls /\ Registration /\ Phases /\ UIWork /\ TimerWork /\ LoadWork /\ Contained /\ t \in Threads
  BY ThreadsDiffer DEF Types, Order
<1>1. Next1(t, "start")
      /\ UNCHANGED <<loadedObject, docVars, posted, saveJobs, stored, page, noticed, waiting, task, typed>>
  BY DEF RunLoadJob, notifierVars, composerVars, history
<1>2. todo[t] \in Seq(Steps(typed)) /\ todo[t] # <<>> /\ At(t).op = "start"
  BY <1>0, <1>1, HeadIs
<1>3. PICK e \in Editors, d \in Docs :
        Unlisted(e) /\ todo[t] = <<Step("start", e, d)>> /\ At(t) = Step("start", e, d)
  <2>1. At(t).op \notin callOps
    BY <1>2 DEF callOps
  <2>2. PICK e \in Editors, d \in Docs :
         \/ todo[t] = <<Step("enable", e, TRUE)>> /\ At(t) = Step("enable", e, TRUE)
         \/ Unlisted(e) /\ todo[t] = <<Step("start", e, d)>> /\ At(t) = Step("start", e, d)
         \/ Unlisted(e) /\ todo[t] = Ending(e, d) /\ At(t) = Step("loaded", e, d) /\ Ahead(<<>>, e, d)
    BY <2>1, <1>2, LoadHead
  <2>3. At(t) # Step("enable", e, TRUE) /\ At(t) # Step("loaded", e, d)
    BY <1>2 DEF Step
  <2>. QED BY <2>2, <2>3
<1>p. PICK p : p = SetSource(e, stored[d])
  OBVIOUS
<1>4. Then(t, p \o Ending(e, d))
  <2>1. At(t).on = e /\ At(t).arg = d
    BY <1>3 DEF Step
  <2>. QED BY <2>1, <1>p DEF RunLoadJob, Ending
<1>5. stored[d] \in Contents(typed) /\ stored[d].doc = d
  BY <1>0 DEF Flowing, Contained
<1>6. p \in Seq(Steps(typed)) /\ Ending(e, d) \in Seq(Steps(typed)) /\ p \o Ending(e, d) \in Seq(Steps(typed))
  <2>1. p \in Seq(Steps(typed)) /\ Ending(e, d) \in Seq(Steps(typed))
    BY <1>5, <1>p, SetSourceTyped, EndingIs, Zenon
  <2>. QED BY <2>1, ConcatTyped, Zenon
<1>7. Ahead(p, e, d)
  <2>1. /\ DOMAIN p = 1 .. 3 /\ p[1] = Step("notify", e, stored[d])
        /\ p[2] = Step("assign", e, stored[d]) /\ p[3] = Step("page", e, stored[d])
    BY <1>p DEF SetSource
  <2>2. /\ LoadStep(e, d, Step("notify", e, stored[d])) /\ LoadStep(e, d, Step("assign", e, stored[d]))
        /\ LoadStep(e, d, Step("page", e, stored[d]))
    BY <1>5 DEF LoadStep, Step
  <2>3. \A i \in DOMAIN p : LoadStep(e, d, p[i])
    <3>1. \A i \in 1 .. 3 : i = 1 \/ i = 2 \/ i = 3
      OBVIOUS
    <3>. QED BY <3>1, <2>1, <2>2
  <2>4. 1 \in DOMAIN p /\ p[1].on = e /\ p[1].op = "notify" /\ 3 \in DOMAIN p /\ p[3].on = e /\ p[3].op = "page"
    BY <2>1 DEF Step
  <2>. QED BY <2>3, <2>4 DEF Ahead
<1>8. todo'[t] = p \o Ending(e, d) /\ \A u \in Threads \ {t} : todo'[u] = todo[u]
  <2>. DEFINE x == p \o Ending(e, d)
  <2>. HIDE DEF x
  <2>1. x \in Seq(Steps(typed)) /\ Then(t, x)
    BY <1>4, <1>6 DEF x
  <2>2. todo'[t] = x \o Tail(todo[t]) /\ \A u \in Threads \ {t} : todo'[u] = todo[u]
    BY <2>1, <1>0, <1>2, OthersStay
  <2>3. Tail(todo[t]) = <<>>
    <3>1. Len(todo[t]) = 1
      BY <1>3
    <3>. QED BY <3>1, <1>2, LastOne
  <2>4. x \o <<>> = x
    BY <2>1, ConcatEmptySeq
  <2>. QED BY <2>2, <2>3, <2>4 DEF x
<1>9. /\ \A u \in Threads \ {t} : todo[u] = <<>> /\ todo'[u] = <<>>
      /\ \A f \in Editors : ~BeingLoaded(f) /\ ~noticed[f] /\ ~waiting[f] /\ ~posted[f]
  <2>1. \A i \in DOMAIN todo[t] : todo[t][i].op # "loaded"
    BY <1>3 DEF Step
  <2>2. \A u \in Threads \ {t} : todo[u] = <<>>
    BY <1>0, <1>2, WhileLoading
  <2>3. \A f \in Editors : ~BeingLoaded(f) /\ ~noticed[f] /\ ~waiting[f] /\ ~posted[f]
    BY <2>1, <1>0, <1>2, WhileLoading
  <2>. QED BY <2>2, <2>3, <1>8
<1>10. Phases'
  <2>1. ~Emptying'
    BY <1>9, ThreadsDiffer DEF Emptying
  <2>. QED BY <2>1, <1>0, <1>1, <1>2, <1>9, PhasesRest
<1>11. UIWork' /\ TimerWork'
  BY <1>9, ThreadsDiffer DEF UIWork, TimerWork
<1>12. LoadWork'
  <2>1. Ahead(p, e, d)'
    <3>1. \A s : LoadStep(e, d, s)' <=> LoadStep(e, d, s)
      BY <1>1, StepsStay DEF docVars
    <3>. QED BY <3>1, <1>1, <1>7 DEF Ahead
  <2>2. LoadQueue(todo[t], e, d)'
    BY <2>1, <1>1, <1>3, <1>6, <1>8 DEF LoadQueue, Registered, Unlisted, docVars
  <2>3. \A k \in 1 .. MaxLoads : todo'[LoadJob(k)] # <<>> => LoadJob(k) = t
    BY <1>9, ThreadsDiffer
  <2>. QED BY <2>2, <2>3 DEF LoadWork
<1>13. Contained' /\ Registration'
  BY <1>0, <1>1, <1>9, RegistrationRests DEF Contained, docVars
<1>. QED BY <1>10, <1>11, <1>12, <1>13 DEF Order

\* A load job that fails is the only thread that has anything to do, and that is
\* about an editor that is not registered.
LEMMA FailureIs ==
  ASSUME Types, Order, NEW n \in 1 .. MaxLoads, LoadJobFails(n)
  PROVE  \E e \in Editors :
           /\ Unlisted(e) /\ loadedObject' = [loadedObject EXCEPT ![e] = NoDoc]
           /\ \A u \in Threads : todo'[u] = <<>>
           /\ \A u \in Threads : \A i \in DOMAIN todo[u] :
                todo[u][i].op \in {"start", "page", "loaded", "enable"} /\ todo[u][i].on = e
<1>. DEFINE t == LoadJob(n)
<1>0. Calls /\ Phases /\ t \in Threads /\ todo[t] # <<>>
  BY ThreadsDiffer DEF Types, Order, LoadJobFails
<1>1. PICK e \in Editors, d \in Docs : LoadQueue(todo[t], e, d)
  BY <1>0 DEF Order, LoadWork
<1>. DEFINE Busy(q) ==
       /\ At(t).on = e
       /\ \A i \in DOMAIN q : q[i].op \in {"start", "page", "loaded", "enable"} /\ q[i].on = e
<1>2. todo[t] # <<Step("enable", e, TRUE)>>
  BY DEF LoadJobFails, At, Step
<1>3. ASSUME todo[t] = <<Step("start", e, d)>> PROVE Busy(todo[t])
  BY <1>3 DEF At, Step
<1>4. ASSUME NEW p \in Seq(Steps(typed)), todo[t] = p \o Ending(e, d), Ahead(p, e, d)
      PROVE  Busy(todo[t])
  <2>x. PICK x : x = Ending(e, d)
    OBVIOUS
  <2>1. x \in Seq(Steps(typed)) /\ Len(x) = 2 /\ x[1] = Step("loaded", e, d) /\ x[2] = Step("enable", e, TRUE)
    BY <2>x, EndingIs, Zenon
  <2>2. /\ Len(p) \in Nat /\ DOMAIN p = 1 .. Len(p) /\ DOMAIN todo[t] = 1 .. Len(p) + 2
        /\ \A i \in 1 .. Len(p) + 2 : todo[t][i] = IF i <= Len(p) THEN p[i] ELSE x[i - Len(p)]
    <3>1. /\ p \o x \in Seq(Steps(typed)) /\ Len(p \o x) = Len(p) + Len(x)
          /\ \A i \in 1 .. Len(p) + Len(x) : (p \o x)[i] = IF i <= Len(p) THEN p[i] ELSE x[i - Len(p)]
      BY <2>1, ConcatProperties
    <3>2. todo[t] = p \o x
      BY <1>4, <2>x
    <3>. QED BY <3>1, <3>2, <2>1, LenProperties
  <2>3. At(t) = todo[t][1]
    BY <1>0 DEF Calls, At
  <2>4. Len(p) # 0
    <3>1. Len(p) = 0 => At(t) = Step("loaded", e, d)
      BY <2>1, <2>2, <2>3
    <3>. QED BY <3>1 DEF LoadJobFails, Step
  <2>5. \A i \in DOMAIN p : p[i].op \in callOps
    BY <1>4 DEF Ahead, LoadStep, PushStep, callOps
  <2>6. At(t) = p[1] /\ At(t).op \in callOps
    BY <2>2, <2>3, <2>4, <2>5
  <2>7. PICK y \in Docs : At(t).op = "page" /\ todo[t][2] = Step("loaded", At(t).on, y)
    BY <2>6 DEF LoadJobFails, callOps
  <2>8. todo[t][2].op = "loaded" /\ todo[t][2].on = At(t).on
    BY <2>7 DEF Step
  <2>9. Len(p) = 1
    <3>1. Len(p) >= 2 => todo[t][2] = p[2] /\ 2 \in DOMAIN p
      BY <2>2
    <3>. QED BY <3>1, <2>2, <2>4, <2>5, <2>8 DEF callOps
  <2>10. todo[t][2] = x[1] /\ todo[t][3] = x[2] /\ \A i \in DOMAIN todo[t] : i \in {1, 2, 3}
    BY <2>2, <2>9
  <2>11. x[1].op = "loaded" /\ x[1].on = e /\ x[2].op = "enable" /\ x[2].on = e
    BY <2>1 DEF Step
  <2>. QED BY <2>3, <2>7, <2>8, <2>10, <2>11
<1>5. Unlisted(e) /\ Busy(todo[t])
  BY <1>1, <1>2, <1>3, <1>4 DEF LoadQueue, Unlisted
<1>6. \A u \in Threads \ {t} : todo[u] = <<>>
  BY <1>0 DEF Phases, Alone
<1>7. \A u \in Threads : todo'[u] = <<>>
  BY <1>0, <1>6 DEF LoadJobFails, Calls
<1>8. loadedObject' = [loadedObject EXCEPT ![e] = NoDoc]
  BY <1>5 DEF LoadJobFails
<1>9. \A u \in Threads : \A i \in DOMAIN todo[u] :
        todo[u][i].op \in {"start", "page", "loaded", "enable"} /\ todo[u][i].on = e
  <2>. SUFFICES ASSUME NEW u \in Threads, NEW i \in DOMAIN todo[u]
                PROVE  todo[u][i].op \in {"start", "page", "loaded", "enable"} /\ todo[u][i].on = e
    OBVIOUS
  <2>1. u = t
    <3>1. DOMAIN <<>> = {}
      OBVIOUS
    <3>. QED BY <3>1, <1>6
  <2>. QED BY <2>1, <1>5
<1>. QED BY <1>5, <1>7, <1>8, <1>9

\* The load fails: the editor has no document then.
LEMMA FailureKeepsOrder ==
  ASSUME Types, Order, NEW n \in 1 .. MaxLoads, LoadJobFails(n)
  PROVE  Order'
<1>. DEFINE t == LoadJob(n)
<1>0. Maps /\ Flowing /\ Calls /\ Registration /\ Phases /\ Contained /\ t \in Threads
  BY ThreadsDiffer DEF Types, Order
<1>1. todo[t] # <<>> /\ UNCHANGED <<docVars, posted, saveJobs, stored, page, noticed, waiting, task>>
  BY DEF LoadJobFails, notifierVars, composerVars
<1>2. PICK e \in Editors :
        /\ Unlisted(e) /\ loadedObject' = [loadedObject EXCEPT ![e] = NoDoc]
        /\ \A u \in Threads : todo'[u] = <<>>
        /\ \A u \in Threads : \A i \in DOMAIN todo[u] :
             todo[u][i].op \in {"start", "page", "loaded", "enable"} /\ todo[u][i].on = e
  BY FailureIs
<1>6. \A f \in Editors : (BeingLoaded(f) => f = e) /\ ~BeingLoaded(f)' /\ ~noticed[f] /\ ~waiting[f] /\ ~posted[f]
  <2>1. \A f \in Editors : ~noticed[f] /\ ~waiting[f] /\ ~posted[f]
    BY <1>0, <1>1, WhileLoading
  <2>. QED BY <2>1, <1>2, ThreadsDiffer DEF BeingLoaded
<1>7. Phases' /\ UIWork' /\ TimerWork' /\ LoadWork'
  BY <1>1, <1>2, <1>6, PhasesNone, ThreadsDiffer DEF Emptying, UIWork, TimerWork, LoadWork
<1>8. Registration'
  <2>1. \A x \in Docs, f \in Editors : Registered(f, x)' => Registered(f, x) /\ f # e
    BY <1>1, <1>2 DEF Registered, Unlisted, docVars
  <2>. QED BY <2>1, <1>0, <1>1, <1>2 DEF Registration, Maps, docVars
<1>9. Contained'
  BY <1>0, <1>1, <1>2, <1>6 DEF Contained, Maps
<1>. QED BY <1>7, <1>8, <1>9 DEF Order

\* The document is the one that is loaded, when its content is shown and what
\* was pending is done with.
LEMMA RegisterKeepsOrder ==
  ASSUME Types, Order, NEW n \in 1 .. MaxLoads, Register(n)
  PROVE  Order'
<1>. DEFINE t == LoadJob(n)
<1>0. Maps /\ Flowing /\ Calls /\ Registration /\ Phases /\ Contained /\ t \in Threads
  BY ThreadsDiffer DEF Types, Order
<1>1. Next1(t, "loaded") /\ Then(t, <<>>)
      /\ UNCHANGED <<lastFocussedEditor, posted, saveJobs, stored, page, noticed, waiting, task>>
  BY DEF Register, notifierVars, composerVars
<1>2. todo[t] \in Seq(Steps(typed)) /\ todo[t] # <<>> /\ At(t).op = "loaded"
  BY <1>0, <1>1, HeadIs
<1>3. PICK e \in Editors, d \in Docs :
        Unlisted(e) /\ todo[t] = Ending(e, d) /\ At(t) = Step("loaded", e, d) /\ Ahead(<<>>, e, d)
  <2>1. At(t).op \notin callOps
    BY <1>2 DEF callOps
  <2>2. PICK e \in Editors, d \in Docs :
         \/ todo[t] = <<Step("enable", e, TRUE)>> /\ At(t) = Step("enable", e, TRUE)
         \/ Unlisted(e) /\ todo[t] = <<Step("start", e, d)>> /\ At(t) = Step("start", e, d)
         \/ Unlisted(e) /\ todo[t] = Ending(e, d) /\ At(t) = Step("loaded", e, d) /\ Ahead(<<>>, e, d)
    BY <2>1, <1>2, LoadHead
  <2>3. At(t) # Step("enable", e, TRUE) /\ At(t) # Step("start", e, d)
    BY <1>2 DEF Step
  <2>. QED BY <2>2, <2>3
<1>4. /\ loadedObject' = [loadedObject EXCEPT ![e] = d]
      /\ responsibleEditors' = [responsibleEditors EXCEPT ![d] = Append(@, e)]
  <2>1. At(t).on = e /\ At(t).arg = d
    BY <1>3 DEF Step
  <2>. QED BY <2>1 DEF Register
<1>5. task[e] = {} /\ page[e].doc = d
  <2>1. DOMAIN <<>> = {}
    OBVIOUS
  <2>. QED BY <2>1, <1>3 DEF Ahead
<1>6. todo'[t] = <<Step("enable", e, TRUE)>> /\ \A u \in Threads \ {t} : todo'[u] = todo[u] /\ todo[u] = <<>>
  <2>1. todo'[t] = <<>> \o Tail(todo[t]) /\ \A u \in Threads \ {t} : todo'[u] = todo[u]
    <3>1. <<>> \in Seq(Steps(typed))
      OBVIOUS
    <3>. QED BY <3>1, <1>0, <1>1, <1>2, OthersStay
  <2>2. <<>> \o Tail(todo[t]) = <<Step("enable", e, TRUE)>>
    <3>1. Tail(todo[t]) = <<Step("enable", e, TRUE)>>
      <4>1. \A a, b : Tail(<<a, b>>) = <<b>>
        OBVIOUS
      <4>. QED BY <4>1, <1>3, Zenon DEF Ending
    <3>2. Tail(todo[t]) \in Seq(Steps(typed))
      BY <1>2, HeadTailProperties
    <3>. QED BY <3>1, <3>2, ConcatEmptySeq
  <2>. QED BY <2>1, <2>2, <1>0, <1>2, WhileLoading
<1>7. \A f \in Editors : (BeingLoaded(f) => f = e) /\ ~noticed[f] /\ ~waiting[f] /\ ~posted[f]
  <2>1. \A i \in DOMAIN todo[t] : todo[t][i].op = "loaded" => todo[t][i].on = e
    BY <1>3 DEF Ending, Step
  <2>. QED BY <2>1, <1>0, <1>2, WhileLoading
<1>8. Phases'
  <2>1. ~Emptying'
    BY <1>6, ThreadsDiffer DEF Emptying
  <2>. QED BY <2>1, <1>1, <1>6, <1>7, ThreadsDiffer DEF Phases, Alone
<1>9. UIWork' /\ TimerWork'
  BY <1>6, ThreadsDiffer DEF UIWork, TimerWork
<1>10. LoadWork'
  <2>1. LoadQueue(todo[t], e, d)'
    BY <1>6 DEF LoadQueue
  <2>2. \A k \in 1 .. MaxLoads : todo'[LoadJob(k)] # <<>> => LoadJob(k) = t
    BY <1>6, ThreadsDiffer
  <2>. QED BY <2>1, <2>2 DEF LoadWork
<1>11. Registration'
  <2>. DEFINE list == responsibleEditors[d]
              list1 == Append(list, e)
  <2>1. list \in Seq(Editors) /\ responsibleEditors'[d] = list1 /\ \A x \in Docs : x # d => responsibleEditors'[x] = responsibleEditors[x]
    BY <1>0, <1>4 DEF Maps
  <2>2. /\ DOMAIN list = 1 .. Len(list) /\ Len(list) \in Nat /\ DOMAIN list1 = 1 .. Len(list) + 1
        /\ list1[Len(list) + 1] = e /\ \A i \in DOMAIN list : list1[i] = list[i]
    <3>. HIDE DEF list
    <3>. QED BY <2>1
  <2>3. \A i \in DOMAIN list : list[i] # e
    BY <1>3 DEF Unlisted, Registered
  <2>4. \A i, k \in DOMAIN list : list[i] = list[k] => i = k
    BY <1>0 DEF Registration
  <2>5. \A i, k \in DOMAIN list1 : list1[i] = list1[k] => i = k
    <3>. HIDE DEF list, list1
    <3>. QED BY <2>2, <2>3, <2>4
  <2>6. \A i \in DOMAIN list1 : list1[i] = e \/ \E k \in DOMAIN list : list1[i] = list[k]
    <3>. HIDE DEF list, list1
    <3>. QED BY <2>2
  <2>7. \A x \in Docs, f \in Editors : Registered(f, x)' => (x = d /\ f = e) \/ Registered(f, x)
    BY <2>1, <2>6 DEF Registered
  <2>8. \A x \in Docs : ~Registered(e, x)
    BY <1>3 DEF Unlisted
  <2>9. \A x \in Docs, f \in Editors : Registered(f, x)' => loadedObject'[f] = x
    BY <2>7, <2>8, <1>0, <1>4 DEF Registration, Maps
  <2>10. \A x \in Docs : \A i, k \in DOMAIN responsibleEditors'[x] :
           responsibleEditors'[x][i] = responsibleEditors'[x][k] => i = k
    <3>. HIDE DEF list1
    <3>. QED BY <2>1, <2>5, <1>0 DEF Registration
  <2>. QED BY <2>9, <2>10 DEF Registration
<1>12. Contained'
  BY <1>0, <1>1, <1>4, <1>5, <1>7 DEF Contained, Maps
<1>. QED BY <1>8, <1>9, <1>10, <1>11, <1>12 DEF Order

\* A composer that shows no document is emptied.
LEMMA PostedKeepsOrder ==
  ASSUME Types, Order, NEW e \in Editors, RunPosted(e)
  PROVE  Order'
<1>0. Maps /\ Flowing /\ Calls /\ Registration /\ Phases /\ UIWork /\ TimerWork /\ LoadWork /\ Contained /\ UI \in Threads
  BY ThreadsDiffer DEF Types, Order
<1>1. posted[e] /\ posted' = [posted EXCEPT ![e] = FALSE]
      /\ UNCHANGED <<loadedObject, docVars, saveJobs, stored, page, noticed, waiting, task, typed>>
  BY DEF RunPosted, notifierVars, composerVars, history
<1>2. PICK p : p = SetSource(e, Blank) \o <<Step("enable", e, FALSE)>>
  OBVIOUS
<1>3. todo'[UI] = p /\ \A u \in Threads \ {UI} : todo'[u] = todo[u]
  BY <1>0, <1>2 DEF RunPosted, Calls
<1>4. /\ Alone(UI) /\ todo[UI] = <<>> /\ saveJobs = {} /\ loadedObject[e] = NoDoc
      /\ \A f \in Editors : posted[f] => f = e
  BY <1>0, <1>1 DEF Phases
<1>5. \A i \in DOMAIN p : p[i].on = e /\ p[i].op \in {"notify", "assign", "page", "enable"}
  BY <1>2 DEF SetSource, Step
<1>6. \A f \in Editors : ~posted'[f]
  BY <1>0, <1>1, <1>4 DEF Maps
<1>7. \A u \in Threads \ {UI} : todo'[u] = todo[u] /\ todo[u] = <<>>
  BY <1>3, <1>4 DEF Alone
<1>8. Phases'
  <2>1. Alone(UI)'
    BY <1>1, <1>4, <1>7 DEF Alone
  <2>. QED BY <2>1, <1>1, <1>4, <1>6, <1>7, ThreadsDiffer DEF Phases
<1>9. UIWork'
  BY <1>1, <1>3, <1>4, <1>5 DEF UIWork, UIStep
<1>10. TimerWork' /\ LoadWork' /\ (\A f \in Editors : BeingLoaded(f)' <=> BeingLoaded(f)) /\ Registration'
  <2>1. (\A f \in Editors : todo'[Timer(f)] = todo[Timer(f)]) /\ \A n \in 1 .. MaxLoads : todo'[LoadJob(n)] = todo[LoadJob(n)]
    BY <1>7, ThreadsDiffer
  <2>. QED BY <2>1, <1>0, <1>1, TimersRest, LoadsRest, RegistrationRests DEF docVars
<1>11. Contained'
  BY <1>0, <1>1, <1>10 DEF Contained
<1>. QED BY <1>8, <1>9, <1>10, <1>11 DEF Order

-----------------------------------------------------------------------------
(* What clients do when nothing is pending.                                 *)

\* An editor that is unregistered is in no list any more.
LEMMA UnregisteredIs ==
  ASSUME Maps, Registration, NEW e \in Editors, responsibleEditors' = Unregistered(e)
  PROVE  /\ \A x \in Docs : \A i, k \in DOMAIN responsibleEditors'[x] :
              responsibleEditors'[x][i] = responsibleEditors'[x][k] => i = k
         /\ \A x \in Docs, f \in Editors : Registered(f, x)' => Registered(f, x) /\ f # e
<1>1. CASE loadedObject[e] = NoDoc
  <2>1. responsibleEditors' = responsibleEditors
    BY <1>1 DEF Unregistered
  <2>2. \A x \in Docs : ~Registered(e, x)
    BY <1>1, EditorsDiffer DEF Registration
  <2>. QED BY <2>1, <2>2 DEF Registration, Registered
<1>2. CASE loadedObject[e] # NoDoc
  <2>y. PICK y : y = loadedObject[e]
    OBVIOUS
  <2>. DEFINE list == responsibleEditors[y]
              list1 == RemoveFirst(list, e)
  <2>1. y \in Docs /\ list \in Seq(Editors)
    BY <1>2, <2>y DEF Maps
  <2>2. responsibleEditors'[y] = list1 /\ \A x \in Docs : x # y => responsibleEditors'[x] = responsibleEditors[x]
    BY <1>2, <2>y, <2>1 DEF Unregistered, Maps
  <2>3. \A i, k \in DOMAIN list : list[i] = list[k] => i = k
    BY <2>1 DEF Registration
  <2>4. /\ \A i \in DOMAIN list1 : list1[i] # e /\ \E k \in DOMAIN list : list[k] = list1[i]
        /\ \A i, k \in DOMAIN list1 : list1[i] = list1[k] => i = k
    <3>1. \A S : \A q \in Seq(S) : (\A i, k \in DOMAIN q : q[i] = q[k] => i = k) =>
            /\ \A i \in DOMAIN RemoveFirst(q, e) : RemoveFirst(q, e)[i] # e /\ \E k \in DOMAIN q : q[k] = RemoveFirst(q, e)[i]
            /\ \A i, k \in DOMAIN RemoveFirst(q, e) : RemoveFirst(q, e)[i] = RemoveFirst(q, e)[k] => i = k
      BY RemoveFirstIs, Zenon
    <3>. HIDE DEF list
    <3>. QED BY <2>1, <2>3, <3>1, Zenon
  <2>. HIDE DEF list1
  <2>5. \A x \in Docs : \A i, k \in DOMAIN responsibleEditors'[x] :
          responsibleEditors'[x][i] = responsibleEditors'[x][k] => i = k
    BY <2>2, <2>4 DEF Registration
  <2>6. \A f : Registered(f, y)' => Registered(f, y) /\ f # e
    <3>1. responsibleEditors'[y] = list1
      BY <2>2
    <3>. SUFFICES ASSUME NEW f, NEW i \in DOMAIN list1, list1[i] = f PROVE Registered(f, y) /\ f # e
      BY <3>1 DEF Registered
    <3>. QED BY <2>4 DEF Registered
  <2>7. \A x \in Docs, f \in Editors : x # y /\ Registered(f, x)' => Registered(f, x) /\ f # e
    BY <2>2, <2>y DEF Registered, Registration
  <2>. QED BY <2>5, <2>6, <2>7
<1>. QED BY <1>1, <1>2

LEMMA NothingIsCancelled ==
  ASSUME Maps, Calls, NEW e \in Editors, \A t \in Threads : todo[t] = <<>>
  PROVE  Cancelled(e) = {todo}
<1>1. loadJob[e] # 0 => LoadJob(loadJob[e]) \in Threads
  BY ThreadsDiffer, EditorsDiffer DEF Maps
<1>. QED BY <1>1 DEF Cancelled, Next1

LEMMA ClientKeepsOrder ==
  ASSUME Types, Considerate, Order, NEW e \in Editors,
         Focus(e) \/ LoadNothing(e) \/ LoadAgain(e) \/ \E d \in Docs : Load(e, d)
  PROVE  Order'
<1>0. Maps /\ Flowing /\ Calls /\ Registration /\ Phases /\ Contained /\ UI \in Threads
  BY ThreadsDiffer DEF Types, Order
<1>1. /\ \A t \in Threads : todo[t] = <<>>
      /\ saveJobs = {} /\ \A f \in Editors : ~noticed[f] /\ ~waiting[f] /\ ~posted[f]
  BY DEF Focus, LoadNothing, LoadAgain, Load, MayLoad, MayCall, AtRest, Considerate
<1>2. \A f \in Editors : ~BeingLoaded(f)
  BY <1>1, ThreadsDiffer DEF BeingLoaded
<1>3. /\ UNCHANGED <<stored, saveJobs, page, noticed, waiting, task>>
      /\ loadedObject' = loadedObject \/ loadedObject' = [loadedObject EXCEPT ![e] = NoDoc]
  BY DEF Focus, LoadNothing, LoadAgain, Load, composerVars, notifierVars
<1>4. Contained'
  <2>1. \A f \in Editors : loadedObject'[f] # NoDoc => loadedObject'[f] = loadedObject[f]
    BY <1>3, <1>0 DEF Maps
  <2>. QED BY <2>1, <1>0, <1>1, <1>2, <1>3 DEF Contained
<1>5. Cancelled(e) = {todo}
  BY <1>0, <1>1, NothingIsCancelled
<1>6. CASE Focus(e) \/ LoadAgain(e) \/ LoadNothing(e)
  <2>1. \A t \in Threads : todo'[t] = <<>>
    BY <1>1, <1>5, <1>6 DEF Focus, LoadAgain, LoadNothing
  <2>2. UIWork' /\ TimerWork' /\ LoadWork'
    BY <2>1, ThreadsDiffer DEF UIWork, TimerWork, LoadWork
  <2>3. Phases'
    <3>1. \A n \in 1 .. MaxLoads : todo'[LoadJob(n)] = <<>>
      BY <2>1, ThreadsDiffer
    <3>2. ~Emptying'
      BY <1>0, <2>1 DEF Emptying
    <3>3. Alone(UI)' /\ todo'[UI] = <<>>
      BY <1>0, <1>1, <1>3, <2>1 DEF Alone
    <3>4. \A f \in Editors : posted'[f] => f = e /\ loadedObject'[f] = NoDoc
      BY <1>0, <1>1, <1>6 DEF Focus, LoadAgain, LoadNothing, Maps
    <3>. QED BY <1>1, <1>3, <3>1, <3>2, <3>3, <3>4 DEF Phases
  <2>4. Registration'
    <3>1. CASE Focus(e)
      BY <3>1, <1>0, RegistrationRests DEF Focus
    <3>2. CASE LoadAgain(e)
      BY <3>2, <1>0, UnregisteredIs DEF LoadAgain, Registration
    <3>3. CASE LoadNothing(e)
      <4>1. responsibleEditors' = Unregistered(e) /\ \A f \in Editors : f # e => loadedObject'[f] = loadedObject[f]
        BY <3>3, <1>0 DEF LoadNothing, Maps
      <4>. QED BY <4>1, <1>0, UnregisteredIs DEF Registration
    <3>. QED BY <1>6, <3>1, <3>2, <3>3
  <2>. QED BY <1>4, <2>2, <2>3, <2>4 DEF Order
<1>7. ASSUME NEW d \in Docs, Load(e, d) PROVE Order'
  <2>1. PICK n \in 1 .. MaxLoads : n = Jobs + 1 /\ LoadJob(n) \in Threads
    <3>1. Jobs + 1 \in 1 .. MaxLoads
      BY <1>7, JobIs DEF Load
    <3>. QED BY <3>1, ThreadsDiffer
  <2>2. /\ todo'[LoadJob(n)] = <<Step("start", e, d)>>
        /\ \A t \in Threads \ {LoadJob(n)} : todo'[t] = <<>>
    BY <1>0, <1>1, <1>5, <1>7, <2>1 DEF Load, Calls
  <2>3. responsibleEditors' = Unregistered(e) /\ loadedObject' = loadedObject /\ posted' = posted
    BY <1>7 DEF Load
  <2>4. Registration' /\ \A x \in Docs : ~Registered(e, x)'
    BY <2>3, <1>0, UnregisteredIs DEF Registration
  <2>5. Phases'
    <3>1. ~Emptying'
      BY <2>1, <2>2, <1>0, ThreadsDiffer DEF Emptying
    <3>. QED BY <3>1, <2>1, <2>2, <2>3, <1>1, <1>3, ThreadsDiffer DEF Phases, Alone
  <2>6. UIWork' /\ TimerWork'
    BY <2>1, <2>2, ThreadsDiffer DEF UIWork, TimerWork
  <2>7. LoadWork'
    <3>1. LoadQueue(todo[LoadJob(n)], e, d)'
      BY <2>2, <2>4 DEF LoadQueue
    <3>2. \A k \in 1 .. MaxLoads : todo'[LoadJob(k)] # <<>> => LoadJob(k) = LoadJob(n)
      BY <2>2, ThreadsDiffer
    <3>. QED BY <3>1, <3>2 DEF LoadWork
  <2>. QED BY <1>4, <2>4, <2>5, <2>6, <2>7 DEF Order
<1>. QED BY <1>6, <1>7

-----------------------------------------------------------------------------
(* The invariant.                                                           *)

LEMMA InitOrder == Init => Order
<1>. SUFFICES ASSUME Init PROVE Order
  OBVIOUS
<1>1. \A t \in Threads : todo[t] = <<>>
  BY DEF Init
<1>2. Phases /\ UIWork /\ TimerWork /\ LoadWork
  BY <1>1, ThreadsDiffer DEF Init, Phases, Emptying, UIWork, TimerWork, LoadWork
<1>3. Registration /\ Contained
  BY DEF Init, Registration, Registered, Contained
<1>. QED BY <1>2, <1>3 DEF Order

LEMMA StepKeepsOrder == Considerate /\ Types /\ Order /\ [Next]_vars => Order'
<1>. SUFFICES ASSUME Considerate, Types, Order, [Next]_vars PROVE Order'
  OBVIOUS
<1>1. ASSUME NEW t \in Threads, Proceed(t) PROVE Order'
  BY <1>1, CallKeepsOrder, EnableKeepsOrder, ModifyKeepsOrder, StartKeepsOrder, FailureKeepsOrder,
     RegisterKeepsOrder, Zenon DEF Proceed, CallStep
<1>2. ASSUME NEW e \in Editors, EventLoop(e) \/ TimerFires(e) PROVE Order'
  BY <1>2, EventKeepsOrder, PostedKeepsOrder, Zenon DEF EventLoop
<1>3. ASSUME NEW j \in saveJobs, StartSaveJob(j) \/ FinishSaveJob(j) PROVE Order'
  BY <1>3, JobKeepsOrder, Zenon
<1>4. CASE User
  <2>1. PICK e \in Editors : Type(e) \/ Focus(e) \/ LoadNothing(e) \/ LoadAgain(e) \/ \E d \in Docs : Load(e, d)
    BY <1>4 DEF User
  <2>. QED BY <2>1, EventKeepsOrder, ClientKeepsOrder, Zenon
<1>5. CASE UNCHANGED vars
  <2>1. UNCHANGED <<loadedObject, responsibleEditors, lastFocussedEditor, posted, saveJobs, stored, page, noticed, waiting, task, typed, todo>>
    BY <1>5 DEF vars, docVars, composerVars, notifierVars, history
  <2>2. Phases'
    BY <2>1 DEF Order, Phases, Alone, Emptying
  <2>3. UIWork' /\ TimerWork' /\ LoadWork' /\ (\A f \in Editors : BeingLoaded(f)' <=> BeingLoaded(f)) /\ Registration'
    BY <2>1, UIRests, TimersRest, LoadsRest, RegistrationRests DEF Order, docVars
  <2>4. Contained'
    BY <2>1, <2>3 DEF Order, Contained
  <2>. QED BY <2>2, <2>3, <2>4 DEF Order
<1>. QED BY <1>1, <1>2, <1>3, <1>4, <1>5 DEF Next, System

\* No document gets the content of another one, however often editors load and
\* save, and push what they save to each other.
THEOREM ContentStaysOwn ==
  ASSUME Considerate
  PROVE  Spec => []OwnContentOnly
<1>1. Order => OwnContentOnly
  BY DEF Order, Contained, OwnContentOnly
<1>2. Init => Types /\ Order
  BY InitTypes, InitOrder
<1>3. Types /\ Order /\ [Next]_vars => (Types /\ Order)'
  BY StepKeepsTypes, StepKeepsOrder
<1>. QED BY <1>1, <1>2, <1>3, PTL DEF Spec

\* No thread waits for the UI thread in a monitor that the UI thread waits for:
\* the timers leave a monitor before they set a page, and load jobs run alone.
THEOREM MonitorsAreLeft ==
  ASSUME Considerate
  PROVE  Spec => []NoDeadlock
<1>1. Types /\ Order => NoDeadlock
  <2>. SUFFICES ASSUME Types, Order, NEW t \in Threads \ {UI},
                       Next1(t, "page") \/ Next1(t, "enable"),
                       Next1(UI, "modify") \/ Next1(UI, "notify"),
                       InMonitor(t, At(UI).on)
                PROVE  FALSE
    BY DEF NoDeadlock
  <2>0. Calls /\ Phases /\ TimerWork /\ UI \in Threads
    BY ThreadsDiffer DEF Types, Order
  <2>1. /\ todo[t] # <<>> /\ todo[UI] # <<>> /\ At(t) = todo[t][1] /\ At(t).op \in {"page", "enable"}
    BY <2>0, HeadIs
  <2>2. \A n \in 1 .. MaxLoads : t # LoadJob(n)
    BY <2>0, <2>1, ThreadsDiffer DEF Phases, Alone
  <2>3. PICK e \in Editors : t = Timer(e)
    BY <2>2, ThreadsDiffer
  <2>4. PICK i \in DOMAIN todo[t] : todo[t][i].op = "leave"
    BY DEF InMonitor
  <2>5. todo[t][1].op \in {"leave", "save"}
    BY <2>0, <2>3, <2>4 DEF TimerWork
  <2>. QED BY <2>1, <2>5
<1>2. Init => Types /\ Order
  BY InitTypes, InitOrder
<1>3. Types /\ Order /\ [Next]_vars => (Types /\ Order)'
  BY StepKeepsTypes, StepKeepsOrder
<1>. QED BY <1>1, <1>2, <1>3, PTL DEF Spec
=============================================================================
