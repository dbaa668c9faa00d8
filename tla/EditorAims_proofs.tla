--------------------------- MODULE EditorAims_proofs ---------------------------
(***************************************************************************)
(* Proofs about what the editors of a document agree on in the end, for    *)
(* any number of editors, documents, edits and loads: when nothing is      *)
(* pending, all editors that are registered for a document show the same,  *)
(* and the document holds what was typed last.                             *)
(***************************************************************************)
EXTENDS EditorContent_proofs

\* The clients and the user behave, the page does not take what is set for a
\* change, a document is written by one job after the other, and what is typed
\* is new.
Orderly == {"settles", "waits", "queues", "refocuses", "quiet", "renews"} \subseteq Habits

-----------------------------------------------------------------------------
(* The inductive invariant.                                                 *)

\* The steps that are still to be taken, by whatever thread.
InHand == UNION {{todo[t][i] : i \in DOMAIN todo[t]} : t \in Threads}
Due(op, e) == \E s \in InHand : s.op = op /\ s.on = e

Owns(e, d) == loadedObject[e] = d /\ lastFocussedEditor[d] = e

\* A change that has been typed into e has not reached save yet.
Upstream(e) == noticed[e] \/ waiting[e] \/ Due("modify", e)

\* Whoever has a change to tell has the focus of its document.
Ownership ==
  /\ \A e \in Editors : noticed[e] \/ waiting[e] \/ todo[Timer(e)] # <<>> => Owner(e)
  /\ \A s \in InHand : s.op \in {"modify", "store"} => Owner(s.on)
  /\ \A j \in saveJobs : j.by = lastFocussedEditor[j.doc]

\* What the page will report is newer than what was reported or accepted; the
\* change that is told is the one that is shown.
Telling ==
  /\ \A e \in Editors : noticed[e] => \A h \in {oldHtml[e]} \cup accepted[e] : h.rev < page[e].rev
  /\ \A s \in InHand : s.op = "modify" => s.arg = page[s.on]
  /\ \A e \in Editors : waiting[e] /\ ~noticed[e] /\ ~Due("modify", e) => task[e] = {page[e]}

\* A document has one job that writes it, and one that is to follow.
Queued == \A j, k \in saveJobs : j.doc = k.doc /\ j.running = k.running => j = k

\* Who shows a document is registered for it, unless it was loaded again.
Known ==
  \A e \in Editors : loadedObject[e] \in Docs \ again =>
    Registered(e, loadedObject[e]) \/ Due("start", e) \/ Due("loaded", e)

\* A load job that tells an owner's last change does that before all else.
First ==
  \A t \in Threads : \A i \in DOMAIN todo[t] :
    todo[t][i].op = "notify" /\ Owner(todo[t][i].on) =>
      /\ i = 1
      /\ \A k \in DOMAIN todo[t] : k > 1 => todo[t][k].op \in {"assign", "page", "loaded", "enable"}
                                            /\ todo[t][k].on = todo[t][i].on

\* The task that stays in its field is what is shown, and is gone before that
\* is replaced.
Clearing(f) == Due("notify", f) \/ Due("leave", f)
Cleared ==
  /\ \A s \in InHand : s.op = "page" => task[s.on] = {} \/ Clearing(s.on)
  /\ \A d \in Docs, f \in Editors : Registered(f, d) =>
       task[f] \subseteq {page[f]} \/ noticed[f] \/ Due("modify", f) \/ Clearing(f)

Tidy == Ownership /\ Telling /\ Queued /\ Known /\ First /\ Cleared

Pending(d) == \E e \in Editors : Owns(e, d) /\ Upstream(e)
Saving(d) == \E s \in InHand : s.op = "save" /\ Owns(s.on, d)
Storing(d) == \E s \in InHand : s.op = "store" /\ Owns(s.on, d)

\* g was typed last into a page of d, and is what is shown there, carried from
\* there, shown in the end by the others, and stored in the end.
Newest(d, g) ==
  /\ g.doc = d /\ (d \notin again => g.rev = latest[d])
  /\ \A e \in Editors : Owns(e, d) /\ Upstream(e) => page[e] = g

Carried(d, g) ==
  /\ \A s \in InHand : s.op \in {"save", "store"} /\ Owns(s.on, d) => Upstream(s.on) \/ s.arg = g
  /\ \A s \in InHand : s.op = "page" /\ Registered(s.on, d) => Pending(d) \/ s.arg = g

Shown(d, g) ==
  \A f \in Editors : Registered(f, d) =>
    \/ page[f] = g
    \/ ~Owns(f, d) /\ (Pending(d) \/ Saving(d) \/ Due("page", f))

InJobs(d, g) ==
  \/ \E j \in saveJobs : j.doc = d /\ ~j.running /\ j.html = g
  \/ /\ \A j \in saveJobs : j.doc = d => j.running /\ j.html = g
     /\ stored[d] = g \/ \E j \in saveJobs : j.doc = d

Stored(d, g) == Pending(d) \/ Saving(d) \/ Storing(d) \/ InJobs(d, g)

\* What an editor has told last before it loads another document.
Told(d, g) ==
  d \notin again => \A s \in InHand : s.op \in {"start", "notify"} /\ Owns(s.on, d) => task[s.on] \subseteq {g}

\* What is loaded is what is stored.
Loaded(d, g) ==
  \A s \in InHand : s.op \in {"start", "loaded"} /\ s.arg = d =>
    /\ stored[d] = g /\ \A j \in saveJobs : j.doc # d
    /\ loadedObject[s.on] # d
    /\ s.op = "loaded" =>
         /\ page[s.on] = g \/ Due("page", s.on)
         /\ \A r \in InHand : r.op = "page" /\ r.on = s.on => r.arg = g

Aim(d, g) == Newest(d, g) /\ Carried(d, g) /\ Shown(d, g) /\ Stored(d, g) /\ Told(d, g) /\ Loaded(d, g)

Aims == \A d \in Docs : \E g \in Contents(typed) : Aim(d, g)

-----------------------------------------------------------------------------
(* The steps in hand.                                                       *)

LEMMA InHandIs ==
  ASSUME Calls
  PROVE  /\ \A t \in Threads : \A i \in DOMAIN todo[t] : todo[t][i] \in InHand
         /\ \A s \in InHand : s \in Steps(typed) /\ \E t \in Threads : \E i \in DOMAIN todo[t] : s = todo[t][i]
<1>1. \A t \in Threads : \A i \in DOMAIN todo[t] : todo[t][i] \in Steps(typed)
  BY DEF Calls
<1>. QED BY <1>1 DEF InHand

\* Thread t takes its step, and has the steps r to take instead.
Moves(t, r) ==
  /\ At(t) \in InHand /\ At(t) \in Steps(typed)
  /\ \A s \in InHand' : s \in InHand \/ \E i \in DOMAIN r : s = r[i]
  /\ \A s \in InHand : s \in InHand' \/ s = At(t)
  /\ \A i \in DOMAIN r : r[i] \in InHand'

LEMMA HandMoves ==
  ASSUME Calls, NEW t \in Threads, todo[t] # <<>>, NEW r \in Seq(Steps(typed)), Then(t, r)
  PROVE  Moves(t, r)
<1>1. /\ todo'[t] = r \o Tail(todo[t]) /\ Continues(todo'[t], r, todo[t])
      /\ \A u \in Threads \ {t} : todo'[u] = todo[u]
  BY OthersStay
<1>2. todo[t] \in Seq(Steps(typed)) /\ At(t) = todo[t][1] /\ 1 \in DOMAIN todo[t]
  BY DEF Calls, At
<1>3. At(t) \in InHand /\ At(t) \in Steps(typed)
  BY <1>2, InHandIs
<1>4. ASSUME NEW s \in InHand' PROVE s \in InHand \/ \E i \in DOMAIN r : s = r[i]
  <2>1. PICK u \in Threads : \E i \in DOMAIN todo'[u] : s = todo'[u][i]
    BY <1>4 DEF InHand
  <2>2. CASE u # t
    BY <1>1, <2>1, <2>2 DEF InHand
  <2>3. CASE u = t
    <3>1. PICK i \in DOMAIN todo'[t] : s = todo'[t][i]
      BY <2>1, <2>3
    <3>2. (i \in DOMAIN r /\ s = r[i]) \/ \E k \in DOMAIN todo[t] : s = todo[t][k]
      BY <1>1, <3>1 DEF Continues
    <3>. QED BY <3>2 DEF InHand
  <2>. QED BY <2>2, <2>3
<1>5. ASSUME NEW s \in InHand PROVE s \in InHand' \/ s = At(t)
  <2>1. PICK u \in Threads : \E i \in DOMAIN todo[u] : s = todo[u][i]
    BY <1>5 DEF InHand
  <2>2. CASE u # t
    BY <1>1, <2>1, <2>2 DEF InHand
  <2>3. CASE u = t
    <3>1. PICK i \in DOMAIN todo[t] : s = todo[t][i]
      BY <2>1, <2>3
    <3>2. CASE i = 1
      BY <3>1, <3>2, <1>2
    <3>3. CASE i # 1
      <4>1. i \in Nat /\ i > 1
        <5>1. DOMAIN todo[t] = 1 .. Len(todo[t])
          BY <1>2
        <5>. QED BY <5>1, <3>1, <3>3
      <4>2. \E k \in DOMAIN todo'[t] : todo'[t][k] = todo[t][i]
        BY <1>1, <4>1, <3>1 DEF Continues
      <4>. QED BY <3>1, <4>2 DEF InHand
    <3>. QED BY <3>2, <3>3
  <2>. QED BY <2>2, <2>3
<1>6. \A i \in DOMAIN r : r[i] \in InHand'
  BY <1>1 DEF Continues, InHand
<1>. QED BY <1>3, <1>4, <1>5, <1>6 DEF Moves

\* In which call a step is taken.
LEMMA StepIsIn ==
  ASSUME Types, Order, NEW s \in InHand, s.op \in callOps
  PROVE  \/ loadedObject[s.on] = NoDoc /\ Emptying
         \/ \E e \in Editors : PushStep(e, s) /\ todo[Timer(e)] # <<>>
         \/ \E n \in 1 .. MaxLoads, e \in Editors, d \in Docs :
              todo[LoadJob(n)] # <<>> /\ LoadStep(e, d, s) /\ Unlisted(e)
<1>0. Calls
  BY DEF Types
<1>1. PICK t \in Threads : \E i \in DOMAIN todo[t] : s = todo[t][i]
  BY <1>0, InHandIs
<1>2. PICK i \in DOMAIN todo[t] : s = todo[t][i]
  BY <1>1
<1>3. CASE t = UI
  <2>1. UIStep(s) /\ s.op # "modify"
    BY <1>2, <1>3 DEF Order, UIWork, callOps
  <2>. QED BY <2>1, <1>2, <1>3 DEF UIStep, Emptying
<1>4. ASSUME NEW e \in Editors, t = Timer(e) PROVE PushStep(e, s) /\ todo[Timer(e)] # <<>>
  BY <1>2, <1>4 DEF Order, TimerWork
<1>5. ASSUME NEW n \in 1 .. MaxLoads, t = LoadJob(n)
      PROVE  \E e \in Editors, d \in Docs : todo[LoadJob(n)] # <<>> /\ LoadStep(e, d, s) /\ Unlisted(e)
  <2>0. todo[t] # <<>>
    BY <1>2
  <2>1. PICK e \in Editors, d \in Docs : LoadQueue(todo[t], e, d)
    BY <2>0, <1>5 DEF Order, LoadWork
  <2>2. todo[t] # <<Step("enable", e, TRUE)>> /\ todo[t] # <<Step("start", e, d)>>
    <3>1. ASSUME NEW x, todo[t] = <<x>> PROVE s = x
      <4>1. i = 1
        BY <1>2, <3>1
      <4>. QED BY <4>1, <1>2, <3>1
    <3>2. /\ s # Step("enable", e, TRUE)
          /\ s # Step("start", e, d)
      BY DEF callOps, Step
    <3>. QED BY <3>1, <3>2, Zenon
  <2>3. PICK p \in Seq(Steps(typed)) : todo[t] = p \o Ending(e, d) /\ Ahead(p, e, d)
    BY <2>1, <2>2 DEF LoadQueue
  <2>x. PICK x : x = Ending(e, d)
    OBVIOUS
  <2>4. x \in Seq(Steps(typed)) /\ Len(x) = 2 /\ x[1].op = "loaded" /\ x[2].op = "enable"
    <3>1. x \in Seq(Steps(typed)) /\ Len(x) = 2 /\ x[1] = Step("loaded", e, d) /\ x[2] = Step("enable", e, TRUE)
      BY <2>x, EndingIs, Zenon
    <3>. QED BY <3>1 DEF Step
  <2>5. i \in DOMAIN p /\ s = p[i]
    <3>1. /\ todo[t] \in Seq(Steps(typed)) /\ Len(todo[t]) = Len(p) + 2 /\ Len(p) \in Nat
          /\ \A k \in 1 .. Len(p) + 2 : todo[t][k] = IF k <= Len(p) THEN p[k] ELSE x[k - Len(p)]
      <4>1. /\ p \o x \in Seq(Steps(typed)) /\ Len(p \o x) = Len(p) + Len(x)
            /\ \A k \in 1 .. Len(p) + Len(x) : (p \o x)[k] = IF k <= Len(p) THEN p[k] ELSE x[k - Len(p)]
        BY <2>3, <2>4, ConcatProperties
      <4>2. todo[t] = p \o x
        BY <2>3, <2>x
      <4>. QED BY <4>1, <4>2, <2>4, LenProperties
    <3>2. i \in 1 .. Len(p) + 2
      BY <3>1
    <3>3. CASE i <= Len(p)
      BY <3>1, <3>2, <3>3, <1>2
    <3>4. CASE i = Len(p) + 1
      <4>1. s = x[1]
        BY <3>1, <3>2, <3>4, <1>2
      <4>. QED BY <4>1, <2>4 DEF callOps
    <3>5. CASE i = Len(p) + 2
      <4>1. s = x[2]
        BY <3>1, <3>2, <3>5, <1>2
      <4>. QED BY <4>1, <2>4 DEF callOps
    <3>. QED BY <3>1, <3>2, <3>3, <3>4, <3>5
  <2>6. LoadStep(e, d, s)
    BY <2>3, <2>5 DEF Ahead
  <2>7. Unlisted(e)
    BY <2>1, <2>2 DEF LoadQueue, Unlisted
  <2>. QED BY <2>0, <2>6, <2>7, <1>5
<1>. QED BY <1>3, <1>4, <1>5, ThreadsDiffer

\* While a document is loaded no change is told.
LEMMA LoadsAlone ==
  ASSUME Types, Phases, NEW n \in 1 .. MaxLoads, todo[LoadJob(n)] # <<>>
  PROVE  /\ \A e \in Editors : ~Upstream(e)
         /\ \A s \in InHand : \E i \in DOMAIN todo[LoadJob(n)] : s = todo[LoadJob(n)][i]
<1>0. Calls /\ Monitors /\ LoadJob(n) \in Threads /\ LoadJob(n) # UI
  BY ThreadsDiffer DEF Types
<1>1. \A u \in Threads : u # LoadJob(n) => todo[u] = <<>>
  BY DEF Phases, Alone
<1>2. \A s \in InHand : \E i \in DOMAIN todo[LoadJob(n)] : s = todo[LoadJob(n)][i]
  <2>1. \A u \in Threads : \A i \in DOMAIN todo[u] : u = LoadJob(n)
    BY <1>1
  <2>. QED BY <1>0, <2>1, InHandIs
<1>3. \A s \in InHand : s.op # "modify"
  BY <1>0, <1>2 DEF Monitors
<1>4. \A e \in Editors : ~noticed[e] /\ ~waiting[e]
  BY DEF Phases, Alone
<1>. QED BY <1>2, <1>3, <1>4 DEF Upstream, Due

\* A composer that is told or shown something has no change of its own to tell,
\* and one that shows what another one saves is not the one in focus.
LEMMA Bystanders ==
  ASSUME Types, Order, Ownership, NEW s \in InHand, s.op \in {"notify", "leave", "assign", "page"}
  PROVE  /\ ~Upstream(s.on)
         /\ s.op = "page" => \A d \in Docs : Registered(s.on, d) => ~Owns(s.on, d)
<1>0. Calls /\ Registration /\ Phases /\ s.on \in Editors /\ s.op \in callOps
  BY InHandIs, StepIs DEF Types, Order, callOps
<1>1. \A e \in Editors : Upstream(e) => Owner(e)
  BY DEF Ownership, Upstream, Due
<1>2. CASE loadedObject[s.on] = NoDoc
  BY <1>0, <1>1, <1>2, EditorsDiffer DEF Owner, Registration
<1>3. ASSUME NEW e \in Editors, PushStep(e, s)
      PROVE  ~Owner(s.on) /\ \A d \in Docs : Registered(s.on, d) => ~Owns(s.on, d)
  <2>1. s.on # e /\ loadedObject[s.on] = loadedObject[e] /\ Owner(e)
    BY <1>3 DEF PushStep
  <2>. QED BY <2>1, <1>0 DEF Owner, Owns, Registration
<1>4. ASSUME NEW n \in 1 .. MaxLoads, NEW e \in Editors, NEW d \in Docs,
             todo[LoadJob(n)] # <<>>, LoadStep(e, d, s), Unlisted(e)
      PROVE  /\ ~Upstream(s.on)
             /\ s.op = "page" => \A x \in Docs : Registered(s.on, x) => ~Owns(s.on, x)
  <2>1. ~Upstream(s.on)
    BY <1>0, <1>4, LoadsAlone
  <2>2. s.on = e \/ PushStep(e, s)
    BY <1>4 DEF LoadStep
  <2>. QED BY <2>1, <2>2, <1>3, <1>4 DEF Unlisted
<1>. QED BY <1>0, <1>1, <1>2, <1>3, <1>4, StepIsIn

\* As long as a timer waits, nothing of its document is on its way.
LEMMA TimerIsFirst ==
  ASSUME Types, Order, Ownership, NEW e \in Editors, waiting[e], todo[Timer(e)] = <<>>,
         NEW s \in InHand
  PROVE  /\ s.op \in {"save", "store"} => s.on # e
         /\ s.op = "page" => loadedObject[s.on] # loadedObject[e]
         /\ s.op \notin {"start", "loaded"}
<1>0. Calls /\ Phases /\ s.on \in Editors /\ Owner(e)
  BY InHandIs, StepIs DEF Types, Order, Ownership
<1>1. /\ \A n \in 1 .. MaxLoads : todo[LoadJob(n)] = <<>>
      /\ ~Emptying
  BY <1>0, WhileEditing
<1>2. ASSUME s.op \in callOps
      PROVE  \E u \in Editors : PushStep(u, s) /\ Owner(u) /\ u # e
  <2>1. PICK u \in Editors : PushStep(u, s) /\ todo[Timer(u)] # <<>>
    BY <1>1, <1>2, StepIsIn
  <2>. QED BY <2>1 DEF Ownership
<1>3. \A u \in Editors : PushStep(u, s) /\ Owner(u) /\ u # e =>
        (s.op \in {"save", "store"} => s.on # e) /\ (s.op = "page" => loadedObject[s.on] # loadedObject[e])
  BY <1>0 DEF PushStep, Owner
<1>4. s.op \notin {"start", "loaded"}
  <2>1. PICK t \in Threads : \E i \in DOMAIN todo[t] : s = todo[t][i]
    BY <1>0, InHandIs
  <2>2. todo[t] # <<>>
    BY <2>1
  <2>3. t = UI \/ \E u \in Editors : t = Timer(u)
    BY <1>1, <2>2, ThreadsDiffer
  <2>4. CASE t = UI
    BY <2>1, <2>4 DEF Order, UIWork, UIStep
  <2>5. CASE \E u \in Editors : t = Timer(u)
    BY <2>1, <2>5 DEF Order, TimerWork, PushStep
  <2>. QED BY <2>3, <2>4, <2>5
<1>. QED BY <1>2, <1>3, <1>4 DEF callOps

-----------------------------------------------------------------------------
(* Steps that carry nothing.                                                *)

Standing == UNCHANGED <<loadedObject, docVars, again, latest>>

LEMMA StandingIs ==
  ASSUME Standing
  PROVE  /\ \A f, d : Registered(f, d)' <=> Registered(f, d)
         /\ \A e, d : Owns(e, d)' <=> Owns(e, d)
         /\ \A e : Owner(e)' <=> Owner(e)
<1>1. UNCHANGED <<loadedObject, responsibleEditors, lastFocussedEditor>>
  BY DEF Standing, docVars
<1>. QED BY <1>1 DEF Registered, Owns, Owner

\* A step that may be added without owing anything to a document.
Aside(s) ==
  \/ s.op \in {"modify", "leave", "assign", "enable"}
  \/ s.op \in {"save", "notify"} /\ ~Owner(s.on)
  \/ s.op = "page" /\ Unlisted(s.on) /\ \A q \in InHand : q.op \notin {"start", "loaded"}

\* What is on its way stays on its way.
Carries(s) ==
  \/ s.op \in {"page", "store", "start", "loaded"}
  \/ s.op = "save" /\ Owner(s.on)

LEMMA AimStays ==
  ASSUME Standing, UNCHANGED <<page, stored, saveJobs>>, NEW d \in Docs, NEW g, Aim(d, g),
         \A s \in InHand \cup InHand' : s.on \in Editors,
         \A e \in Editors : Upstream(e)' <=> Upstream(e),
         \A s \in InHand' : s \in InHand \/ Aside(s),
         \A s \in InHand : s \in InHand' \/ ~Carries(s),
         \A s \in InHand' : s.op \in {"start", "notify"} /\ Owner(s.on) => task'[s.on] \subseteq task[s.on]
  PROVE  Aim(d, g)'
<1>0. /\ \A f, x : Registered(f, x)' <=> Registered(f, x)
      /\ \A e, x : Owns(e, x)' <=> Owns(e, x)
      /\ \A e : Owner(e)' <=> Owner(e)
      /\ UNCHANGED <<page, stored, saveJobs, again, latest, loadedObject>>
  BY StandingIs DEF Standing
<1>1. \A e \in Editors : Owns(e, d) => Owner(e)
  BY EditorsDiffer DEF Owns, Owner
<1>2. Pending(d)' <=> Pending(d)
  BY <1>0 DEF Pending
<1>3. (Saving(d)' <=> Saving(d)) /\ (Storing(d)' <=> Storing(d))
  BY <1>0, <1>1 DEF Saving, Storing, Aside, Carries
<1>4. Newest(d, g)'
  BY <1>0 DEF Aim, Newest
<1>5. Carried(d, g)'
  <2>1. \A s \in InHand' : s.op \in {"save", "store"} /\ Owns(s.on, d) => s \in InHand
    BY <1>1 DEF Aside
  <2>2. \A s \in InHand' : s.op = "page" /\ Registered(s.on, d) => s \in InHand
    BY DEF Aside, Unlisted
  <2>3. ASSUME NEW s \in InHand', s.op \in {"save", "store"}, Owns(s.on, d)'
        PROVE  Upstream(s.on)' \/ s.arg = g
    <3>1. Owns(s.on, d) /\ s \in InHand /\ s.on \in Editors
      BY <1>0, <2>1, <2>3
    <3>. QED BY <2>3, <3>1 DEF Aim, Carried
  <2>4. ASSUME NEW s \in InHand', s.op = "page", Registered(s.on, d)'
        PROVE  Pending(d)' \/ s.arg = g
    <3>1. Registered(s.on, d) /\ s \in InHand
      BY <1>0, <2>2, <2>4
    <3>. QED BY <1>2, <2>4, <3>1 DEF Aim, Carried
  <2>. QED BY <2>3, <2>4 DEF Carried
<1>6. \A f \in Editors : Due("page", f) => Due("page", f)'
  BY DEF Due, Carries
<1>7. Shown(d, g)'
  BY <1>0, <1>2, <1>3, <1>6 DEF Aim, Shown
<1>8. Stored(d, g)'
  BY <1>0, <1>2, <1>3 DEF Aim, Stored, InJobs
<1>9. Told(d, g)'
  <2>1. \A s \in InHand' : s.op \in {"start", "notify"} /\ Owns(s.on, d) => s \in InHand /\ task'[s.on] \subseteq task[s.on]
    BY <1>1 DEF Aside
  <2>. QED BY <1>0, <2>1 DEF Aim, Told
<1>10. Loaded(d, g)'
  <2>1. \A s \in InHand' : s.op \in {"start", "loaded"} =>
          s \in InHand /\ \A r \in InHand' : r.op = "page" => r \in InHand
    BY DEF Aside
  <2>2. \A f \in Editors : Due("page", f) => Due("page", f)'
    BY <1>6
  <2>. QED BY <1>0, <2>1, <2>2 DEF Aim, Loaded
<1>. QED BY <1>4, <1>5, <1>7, <1>8, <1>9, <1>10 DEF Aim

-----------------------------------------------------------------------------
(* When nothing is on its way.                                              *)

Calm ==
  /\ \A e \in Editors : ~Upstream(e)
  /\ \A s \in InHand : s.op \notin {"save", "store", "page"}

LEMMA CalmIs ==
  ASSUME Calm, NEW d \in Docs, NEW g, Aim(d, g)
  PROVE  (\A f \in Editors : Registered(f, d) => page[f] = g) /\ InJobs(d, g)
<1>1. ~Pending(d) /\ ~Saving(d) /\ ~Storing(d) /\ \A f \in Editors : ~Due("page", f)
  BY DEF Calm, Pending, Saving, Storing, Due
<1>. QED BY <1>1 DEF Aim, Shown, Stored

LEMMA CalmKeepsAim ==
  ASSUME Calm, Calm', NEW d \in Docs, NEW g, Aim(d, g),
         UNCHANGED <<stored, saveJobs, latest>>, again \subseteq again',
         \A s \in InHand' : s.on \in Editors,
         \A f \in Editors : Registered(f, d)' => (Registered(f, d) /\ page'[f] = page[f]) \/ page'[f] = g,
         Told(d, g)', Loaded(d, g)'
  PROVE  Aim(d, g)'
<1>1. (\A f \in Editors : Registered(f, d) => page[f] = g) /\ InJobs(d, g)
  BY CalmIs
<1>2. Newest(d, g)'
  BY DEF Aim, Newest, Calm
<1>3. Carried(d, g)'
  BY DEF Carried, Calm
<1>4. Shown(d, g)'
  BY <1>1 DEF Shown
<1>5. Stored(d, g)'
  BY <1>1 DEF Stored, InJobs
<1>. QED BY <1>2, <1>3, <1>4, <1>5 DEF Aim

LEMMA RestIsCalm ==
  ASSUME Types, AtRest
  PROVE  Calm /\ InHand = {} /\ saveJobs = {} /\ \A t \in Threads : todo[t] = <<>>
<1>1. InHand = {}
  BY DEF AtRest, InHand
<1>. QED BY <1>1 DEF AtRest, Calm, Upstream, Due

Lists(s, f) == \E k \in DOMAIN s : s[k] = f

LEMMA RemoveFirstLeaves ==
  ASSUME NEW S, NEW s \in Seq(S), NEW e, NEW f, f # e, Lists(s, f)
  PROVE  Lists(RemoveFirst(s, e), f)
<1>1. /\ RemoveFirst(s, e) \in Seq(S)
      /\ \A h : h # e /\ (\E i \in DOMAIN s : s[i] = h) => \E k \in DOMAIN RemoveFirst(s, e) : RemoveFirst(s, e)[k] = h
      /\ (\A i, k \in DOMAIN s : s[i] = s[k] => i = k) =>
           /\ \A i \in DOMAIN RemoveFirst(s, e) : RemoveFirst(s, e)[i] # e /\ \E k \in DOMAIN s : s[k] = RemoveFirst(s, e)[i]
           /\ \A i, k \in DOMAIN RemoveFirst(s, e) : RemoveFirst(s, e)[i] = RemoveFirst(s, e)[k] => i = k
  BY RemoveFirstIs
<1>. QED BY <1>1, Zenon DEF Lists

\* An editor that is unregistered leaves the others registered.
LEMMA OthersAreRegistered ==
  ASSUME Maps, NEW e \in Editors, responsibleEditors' = Unregistered(e), NEW f \in Editors, f # e,
         NEW x \in Docs, Registered(f, x)
  PROVE  Registered(f, x)'
<1>1. CASE loadedObject[e] = NoDoc \/ loadedObject[e] # x
  BY <1>1 DEF Unregistered, Registered, Maps
<1>2. CASE loadedObject[e] = x /\ loadedObject[e] # NoDoc
  <2>1. responsibleEditors'[x] = RemoveFirst(responsibleEditors[x], e)
    BY <1>2 DEF Unregistered, Maps
  <2>2. responsibleEditors[x] \in Seq(Editors)
    BY DEF Maps
  <2>3. Lists(responsibleEditors[x], f)
    BY DEF Registered, Lists
  <2>4. Lists(RemoveFirst(responsibleEditors[x], e), f)
    BY <2>2, <2>3, RemoveFirstLeaves
  <2>. QED BY <2>1, <2>4 DEF Registered, Lists
<1>. QED BY <1>1, <1>2

Client(e) == Focus(e) \/ LoadNothing(e) \/ LoadAgain(e) \/ \E d \in Docs : Load(e, d)

\* What a client, or a change of the focus, does when nothing is pending.
LEMMA ClientDoes ==
  ASSUME Types, Orderly, Registration, NEW e \in Editors, Client(e)
  PROVE  /\ AtRest
         /\ UNCHANGED <<stored, saveJobs, latest, page, noticed, waiting, task>> /\ again \subseteq again'
         /\ \A x \in Docs, f \in Editors : Registered(f, x)' => Registered(f, x)
         /\ \A f \in Editors : f # e =>
              loadedObject'[f] = loadedObject[f] /\ \A x \in Docs : Registered(f, x) => Registered(f, x)'
         /\ \A t \in Threads : \A i \in DOMAIN todo'[t] :
              todo'[t][i].op = "start" /\ todo'[t][i].on = e /\ \E x \in Docs : Load(e, x) /\ todo'[t][i].arg = x
         /\ \A f \in Editors : todo'[Timer(f)] = <<>>
         /\ \A x \in Docs : Load(e, x) => Step("start", e, x) \in InHand'
<1>0. Maps /\ Calls
  BY DEF Types
<1>1. AtRest
  BY DEF Client, Focus, LoadNothing, LoadAgain, Load, MayLoad, MayCall, Orderly
<1>2. \A t \in Threads : todo[t] = <<>>
  BY <1>1 DEF AtRest
<1>3. Cancelled(e) = {todo}
  BY <1>0, <1>2, NothingIsCancelled
<1>4. UNCHANGED <<stored, saveJobs, latest, page, noticed, waiting, task>> /\ again \subseteq again'
  BY DEF Client, Focus, LoadNothing, LoadAgain, Load, composerVars, notifierVars, history
<1>5. responsibleEditors' = responsibleEditors \/ responsibleEditors' = Unregistered(e)
  BY DEF Client, Focus, LoadNothing, LoadAgain, Load
<1>6. loadedObject' = loadedObject \/ loadedObject' = [loadedObject EXCEPT ![e] = NoDoc]
  BY DEF Client, Focus, LoadNothing, LoadAgain, Load
<1>7. \A x \in Docs, f \in Editors : Registered(f, x)' => Registered(f, x)
  <2>1. CASE responsibleEditors' = responsibleEditors
    BY <2>1 DEF Registered
  <2>2. CASE responsibleEditors' = Unregistered(e)
    BY <2>2, <1>0, UnregisteredIs
  <2>. QED BY <1>5, <2>1, <2>2
<1>8. ASSUME NEW f \in Editors, f # e
      PROVE  loadedObject'[f] = loadedObject[f] /\ \A x \in Docs : Registered(f, x) => Registered(f, x)'
  <2>1. loadedObject'[f] = loadedObject[f]
    BY <1>0, <1>6, <1>8 DEF Maps
  <2>2. CASE responsibleEditors' = responsibleEditors
    BY <2>1, <2>2 DEF Registered
  <2>3. CASE responsibleEditors' = Unregistered(e)
    BY <2>1, <2>3, <1>0, <1>8, OthersAreRegistered
  <2>. QED BY <1>5, <2>2, <2>3
<1>9. ASSUME NEW x \in Docs, Load(e, x)
      PROVE  \E n \in 1 .. MaxLoads :
               /\ LoadJob(n) \in Threads /\ todo'[LoadJob(n)] = <<Step("start", e, x)>>
               /\ \A t \in Threads \ {LoadJob(n)} : todo'[t] = <<>>
  <2>1. Jobs + 1 \in 1 .. MaxLoads
    BY <1>9, JobIs DEF Load
  <2>2. LoadJob(Jobs + 1) \in Threads
    BY <2>1, ThreadsDiffer
  <2>. QED BY <2>1, <2>2, <1>0, <1>2, <1>3, <1>9 DEF Load, Calls
<1>10. todo' = todo \/ \E x \in Docs : Load(e, x)
  BY <1>3 DEF Client, Focus, LoadNothing, LoadAgain
<1>11. ASSUME NEW t \in Threads, NEW i \in DOMAIN todo'[t]
       PROVE  todo'[t][i].op = "start" /\ todo'[t][i].on = e /\ \E x \in Docs : Load(e, x) /\ todo'[t][i].arg = x
  <2>1. todo' # todo
    <3>1. DOMAIN <<>> = {}
      OBVIOUS
    <3>. QED BY <3>1, <1>2, <1>11
  <2>2. PICK x \in Docs : Load(e, x)
    BY <2>1, <1>10
  <2>3. PICK n \in 1 .. MaxLoads :
               /\ LoadJob(n) \in Threads /\ todo'[LoadJob(n)] = <<Step("start", e, x)>>
               /\ \A u \in Threads \ {LoadJob(n)} : todo'[u] = <<>>
    BY <2>2, <1>9
  <2>4. DOMAIN <<>> = {} /\ \A a : DOMAIN <<a>> = {1} /\ <<a>>[1] = a
    OBVIOUS
  <2>5. t = LoadJob(n)
    BY <2>3, <2>4, <1>11
  <2>6. i = 1
    BY <2>3, <2>4, <2>5, <1>11
  <2>7. todo'[t][i] = Step("start", e, x)
    BY <2>3, <2>4, <2>5, <2>6
  <2>. QED BY <2>2, <2>7 DEF Step
<1>12. ASSUME NEW x \in Docs, Load(e, x) PROVE Step("start", e, x) \in InHand'
  <2>1. PICK n \in 1 .. MaxLoads : LoadJob(n) \in Threads /\ todo'[LoadJob(n)] = <<Step("start", e, x)>>
    BY <1>9, <1>12
  <2>2. \A a : 1 \in DOMAIN <<a>> /\ <<a>>[1] = a
    OBVIOUS
  <2>. QED BY <2>1, <2>2 DEF InHand
<1>13. ASSUME NEW f \in Editors PROVE todo'[Timer(f)] = <<>>
  <2>1. Timer(f) \in Threads /\ \A n \in 1 .. MaxLoads : Timer(f) # LoadJob(n)
    BY ThreadsDiffer
  <2>. QED BY <2>1, <1>2, <1>9, <1>10
<1>. QED BY <1>1, <1>4, <1>7, <1>8, <1>11, <1>12, <1>13

LEMMA ClientKeepsTidy ==
  ASSUME Types, Orderly, Order, Tidy, NEW e \in Editors, Client(e)
  PROVE  Tidy'
<1>0. Maps /\ Calls /\ Registration
  BY DEF Types, Order
<1>1. /\ AtRest
      /\ UNCHANGED <<stored, saveJobs, page, noticed, waiting, task>> /\ again \subseteq again'
      /\ \A x \in Docs, f \in Editors : Registered(f, x)' => Registered(f, x)
      /\ \A f \in Editors : f # e =>
           loadedObject'[f] = loadedObject[f] /\ \A x \in Docs : Registered(f, x) => Registered(f, x)'
      /\ \A t \in Threads : \A i \in DOMAIN todo'[t] :
           todo'[t][i].op = "start" /\ todo'[t][i].on = e /\ \E x \in Docs : Load(e, x) /\ todo'[t][i].arg = x
      /\ \A f \in Editors : todo'[Timer(f)] = <<>>
      /\ \A x \in Docs : Load(e, x) => Step("start", e, x) \in InHand'
  BY <1>0, ClientDoes
<1>2. /\ saveJobs = {} /\ InHand = {} /\ \A f \in Editors : ~noticed[f] /\ ~waiting[f]
  BY <1>1, RestIsCalm DEF AtRest
<1>3. \A s \in InHand' : s.op = "start" /\ s.on = e
  BY <1>1 DEF InHand
<1>4. Ownership'
  <2>. QED BY <1>1, <1>2, <1>3 DEF Ownership
<1>5. Telling' /\ Queued'
  BY <1>1, <1>2, <1>3 DEF Telling, Queued
<1>6. Known'
  <2>1. Known
    BY DEF Tidy
  <2>2. \A f \in Editors : ~Due("start", f) /\ ~Due("loaded", f)
    BY <1>2 DEF Due
  <2>3. \A f \in Editors : f # e /\ loadedObject'[f] \in Docs \ again' => Registered(f, loadedObject[f])'
    BY <1>1, <2>1, <2>2 DEF Known
  <2>4. loadedObject'[e] \in Docs \ again' => Registered(e, loadedObject[e])' \/ Due("start", e)'
    <3>1. CASE Focus(e)
      <4>1. UNCHANGED <<loadedObject, responsibleEditors, again>>
        BY <3>1 DEF Focus, history
      <4>2. \A f, x : Registered(f, x)' <=> Registered(f, x)
        BY <4>1 DEF Registered
      <4>3. loadedObject[e] \in Docs \ again => Registered(e, loadedObject[e])
        BY <2>1, <2>2 DEF Known
      <4>. QED BY <4>1, <4>3 DEF Registered
    <3>2. CASE LoadNothing(e) \/ LoadAgain(e)
      BY <3>2, <1>0, EditorsDiffer DEF LoadNothing, LoadAgain, Maps
    <3>3. ASSUME NEW x \in Docs, Load(e, x) PROVE Due("start", e)'
      <4>1. Step("start", e, x) \in InHand'
        BY <1>1, <3>3
      <4>. QED BY <4>1 DEF Due, Step
    <3>. QED BY <3>1, <3>2, <3>3 DEF Client
  <2>. QED BY <2>3, <2>4 DEF Known
<1>7. First'
  BY <1>1 DEF First
<1>8. Cleared'
  <2>1. \A d \in Docs, f \in Editors : Registered(f, d) => task[f] \subseteq {page[f]}
    BY <1>2 DEF Tidy, Cleared, Due, Clearing
  <2>. QED BY <1>1, <1>3, <2>1 DEF Cleared
<1>. QED BY <1>4, <1>5, <1>6, <1>7, <1>8 DEF Tidy

LEMMA ClientKeepsAim ==
  ASSUME Types, Orderly, Order, Tidy, NEW e \in Editors, Client(e), NEW d \in Docs, NEW g, Aim(d, g)
  PROVE  Aim(d, g)'
<1>0. Maps /\ Calls /\ Registration
  BY DEF Types, Order
<1>1. /\ AtRest
      /\ UNCHANGED <<stored, saveJobs, latest, page, noticed, waiting, task>> /\ again \subseteq again'
      /\ \A x \in Docs, f \in Editors : Registered(f, x)' => Registered(f, x)
      /\ \A t \in Threads : \A i \in DOMAIN todo'[t] :
           todo'[t][i].op = "start" /\ todo'[t][i].on = e /\ \E x \in Docs : Load(e, x) /\ todo'[t][i].arg = x
  BY <1>0, ClientDoes
<1>2. /\ saveJobs = {} /\ InHand = {} /\ \A f \in Editors : ~noticed[f] /\ ~waiting[f]
      /\ Calm
  BY <1>1, RestIsCalm DEF AtRest
<1>3. \A s \in InHand' : s.op = "start" /\ s.on = e /\ \E x \in Docs : Load(e, x) /\ s.arg = x
  BY <1>1 DEF InHand
<1>4. \A s \in InHand' : s.op = "start" /\ s.on = e /\ Load(e, s.arg)
  BY <1>3
<1>5. Calm'
  BY <1>1, <1>2, <1>4 DEF Calm, Upstream, Due
<1>6. (\A f \in Editors : Registered(f, d) => page[f] = g) /\ InJobs(d, g)
  BY <1>2, CalmIs
<1>7. Told(d, g)'
  <2>. SUFFICES ASSUME d \notin again', NEW s \in InHand', Owns(s.on, d)'
                PROVE  task'[s.on] \subseteq {g}
    BY DEF Told
  <2>1. s.on = e /\ Load(e, s.arg)
    BY <1>4
  <2>2. loadedObject[e] = d /\ d \notin again
    BY <2>1 DEF Load, Owns, history
  <2>3. Registered(e, d)
    BY <1>2, <2>2 DEF Tidy, Known, Due
  <2>4. task[e] \subseteq {page[e]}
    BY <1>2, <2>3 DEF Tidy, Cleared, Due, Clearing
  <2>. QED BY <1>1, <1>6, <2>1, <2>3, <2>4
<1>8. Loaded(d, g)'
  <2>. SUFFICES ASSUME NEW s \in InHand', s.arg = d, s.op = "start"
                PROVE  stored'[d] = g /\ (\A j \in saveJobs' : j.doc # d) /\ loadedObject'[s.on] # d
    BY <1>4 DEF Loaded
  <2>1. stored[d] = g
    BY <1>2, <1>6 DEF InJobs
  <2>2. loadedObject'[e] # d
    BY <1>4 DEF Load
  <2>. QED BY <1>1, <1>2, <1>4, <2>1, <2>2
<1>. QED BY <1>1, <1>2, <1>4, <1>5, <1>7, <1>8, CalmKeepsAim

-----------------------------------------------------------------------------
(* Load jobs.                                                               *)

\* A load job that starts, or is about to register its editor, has nothing else
\* in hand, and nobody else has.
LEMMA LoadIsCalm ==
  ASSUME Types, Order, NEW n \in 1 .. MaxLoads, NEW op \in {"start", "loaded"}, Next1(LoadJob(n), op)
  PROVE  /\ Calm /\ LoadJob(n) \in Threads /\ todo[LoadJob(n)] # <<>>
         /\ \A f \in Editors : ~noticed[f] /\ ~waiting[f]
         /\ \A t \in Threads \ {LoadJob(n)} : todo[t] = <<>>
         /\ \E e \in Editors, d \in Docs :
              /\ Unlisted(e) /\ At(LoadJob(n)) = Step(op, e, d) /\ Step(op, e, d) \in InHand
              /\ op = "start" => todo[LoadJob(n)] = <<Step("start", e, d)>>
              /\ op = "loaded" => todo[LoadJob(n)] = <<Step("loaded", e, d), Step("enable", e, TRUE)>> /\ task[e] = {}
              /\ \A s \in InHand : s = Step(op, e, d) \/ s.op = "enable"
<1>. DEFINE t == LoadJob(n)
<1>0. Calls /\ Phases /\ t \in Threads
  BY ThreadsDiffer DEF Types, Order
<1>1. todo[t] \in Seq(Steps(typed)) /\ todo[t] # <<>> /\ At(t).op = op /\ At(t) \in InHand
  BY <1>0, HeadIs, InHandIs
<1>2. PICK e \in Editors, d \in Docs :
        Unlisted(e) /\ At(t) = Step(op, e, d) /\
        \/ op = "start" /\ todo[t] = <<Step("start", e, d)>>
        \/ op = "loaded" /\ todo[t] = Ending(e, d) /\ task[e] = {}
  <2>1. At(t).op \notin callOps
    BY <1>1 DEF callOps
  <2>2. PICK e \in Editors, d \in Docs :
         \/ todo[t] = <<Step("enable", e, TRUE)>> /\ At(t) = Step("enable", e, TRUE)
         \/ Unlisted(e) /\ todo[t] = <<Step("start", e, d)>> /\ At(t) = Step("start", e, d)
         \/ Unlisted(e) /\ todo[t] = Ending(e, d) /\ At(t) = Step("loaded", e, d) /\ Ahead(<<>>, e, d)
    BY <2>1, <1>1, LoadHead
  <2>3. At(t) # Step("enable", e, TRUE)
    BY <1>1 DEF Step
  <2>4. At(t) = Step("start", e, d) => op = "start"
    BY <1>1 DEF Step
  <2>5. At(t) = Step("loaded", e, d) => op = "loaded"
    BY <1>1 DEF Step
  <2>6. Ahead(<<>>, e, d) => task[e] = {}
    <3>1. DOMAIN <<>> = {}
      OBVIOUS
    <3>. QED BY <3>1 DEF Ahead
  <2>. QED BY <2>2, <2>3, <2>4, <2>5, <2>6
<1>3. \A s \in InHand : \E i \in DOMAIN todo[t] : s = todo[t][i]
  BY <1>0, <1>1, LoadsAlone DEF Types
<1>4. \A s \in InHand : s = Step(op, e, d) \/ s.op = "enable"
  <2>1. CASE op = "start" /\ todo[t] = <<Step("start", e, d)>>
    <3>1. \A a : DOMAIN <<a>> = {1} /\ <<a>>[1] = a
      OBVIOUS
    <3>. QED BY <2>1, <3>1, <1>3
  <2>2. CASE op = "loaded" /\ todo[t] = Ending(e, d)
    <3>1. \A a, b : DOMAIN <<a, b>> = {1, 2} /\ <<a, b>>[1] = a /\ <<a, b>>[2] = b
      OBVIOUS
    <3>2. Step("enable", e, TRUE).op = "enable"
      BY DEF Step
    <3>. SUFFICES ASSUME NEW s \in InHand PROVE s = Step(op, e, d) \/ s.op = "enable"
      OBVIOUS
    <3>a. PICK a : a = Step("loaded", e, d)
      OBVIOUS
    <3>b. PICK b : b = Step("enable", e, TRUE)
      OBVIOUS
    <3>3. todo[t] = <<a, b>>
      BY <2>2, <3>a, <3>b DEF Ending
    <3>4. PICK i \in DOMAIN todo[t] : s = todo[t][i]
      BY <1>3
    <3>5. i = 1 \/ i = 2
      BY <3>1, <3>3, <3>4
    <3>6. s = a \/ s = b
      BY <3>1, <3>3, <3>4, <3>5
    <3>. QED BY <2>2, <3>a, <3>b, <3>6, <3>2
  <2>. QED BY <1>2, <2>1, <2>2
<1>5. \A f \in Editors : ~Upstream(f) /\ ~noticed[f] /\ ~waiting[f]
  BY <1>0, <1>1, LoadsAlone DEF Phases, Alone
<1>6. Calm
  BY <1>4, <1>5 DEF Calm, Step
<1>7. \A u \in Threads \ {t} : todo[u] = <<>>
  BY <1>0, <1>1 DEF Phases, Alone
<1>. QED BY <1>0, <1>1, <1>2, <1>4, <1>5, <1>6, <1>7 DEF Ending

LEMMA RegisterKeeps ==
  ASSUME Types, Order, Tidy, NEW n \in 1 .. MaxLoads, Register(n)
  PROVE  Tidy' /\ \A d \in Docs : \A g : Aim(d, g) => Aim(d, g)'
<1>. DEFINE t == LoadJob(n)
<1>0. Maps /\ Calls /\ Registration /\ Tidy /\ Next1(t, "loaded")
  BY DEF Types, Order, Register
<1>1. /\ Calm /\ t \in Threads /\ todo[t] # <<>>
      /\ \A f \in Editors : ~noticed[f] /\ ~waiting[f]
      /\ \A u \in Threads \ {t} : todo[u] = <<>>
  BY <1>0, LoadIsCalm
<1>2. PICK e \in Editors, d \in Docs :
        /\ Unlisted(e) /\ At(t) = Step("loaded", e, d) /\ Step("loaded", e, d) \in InHand
        /\ todo[t] = <<Step("loaded", e, d), Step("enable", e, TRUE)>> /\ task[e] = {}
        /\ \A s \in InHand : s = Step("loaded", e, d) \/ s.op = "enable"
  BY <1>0, LoadIsCalm
<1>3. Then(t, <<>>) /\ UNCHANGED <<lastFocussedEditor, saveJobs, stored, page, oldHtml, accepted, noticed, waiting, task, latest, again>>
  BY DEF Register, composerVars, notifierVars, history
<1>4. /\ \A u \in Threads \ {t} : todo'[u] = <<>>
      /\ todo'[t] = <<Step("enable", e, TRUE)>>
  <2>1. <<>> \in Seq(Steps(typed))
    OBVIOUS
  <2>2. todo'[t] = <<>> \o Tail(todo[t]) /\ \A u \in Threads \ {t} : todo'[u] = todo[u]
    BY <2>1, <1>0, <1>1, <1>3, OthersStay
  <2>3. \A a, b : <<>> \o Tail(<<a, b>>) = <<b>>
    OBVIOUS
  <2>a. PICK a : a = Step("loaded", e, d)
    OBVIOUS
  <2>b. PICK b : b = Step("enable", e, TRUE)
    OBVIOUS
  <2>4. todo[t] = <<a, b>>
    BY <1>2, <2>a, <2>b
  <2>5. todo'[t] = <<b>>
    BY <2>2, <2>3, <2>4
  <2>. QED BY <1>1, <2>2, <2>5, <2>b
<1>5. \A s \in InHand' : s.op = "enable" /\ s.on = e
  <2>1. \A u \in Threads : \A i \in DOMAIN todo'[u] : todo'[u][i].op = "enable" /\ todo'[u][i].on = e
    <3>1. DOMAIN <<>> = {} /\ \A a : DOMAIN <<a>> = {1} /\ <<a>>[1] = a
      OBVIOUS
    <3>2. Step("enable", e, TRUE).op = "enable" /\ Step("enable", e, TRUE).on = e
      BY DEF Step
    <3>. SUFFICES ASSUME NEW u \in Threads, NEW i \in DOMAIN todo'[u]
                  PROVE  todo'[u][i].op = "enable" /\ todo'[u][i].on = e
      OBVIOUS
    <3>3. u = t
      BY <3>1, <1>4
    <3>. QED BY <3>1, <3>2, <3>3, <1>4
  <2>. QED BY <2>1 DEF InHand
<1>6. Calm'
  BY <1>1, <1>3, <1>5 DEF Calm, Upstream, Due
<1>8. \A f \in Editors : ~Due("modify", f) /\ ~Clearing(f) /\ ~Due("start", f) /\ (f # e => ~Due("loaded", f))
  BY <1>2 DEF Due, Step, Clearing
<1>9. /\ \A x \in Docs, f \in Editors : Registered(f, x)' <=> Registered(f, x) \/ (f = e /\ x = d)
      /\ loadedObject' = [loadedObject EXCEPT ![e] = d]
  <2>1. At(t).on = e /\ At(t).arg = d
    BY <1>2 DEF Step
  <2>2. responsibleEditors' = [responsibleEditors EXCEPT ![d] = Append(@, e)] /\ loadedObject' = [loadedObject EXCEPT ![e] = d]
    BY <2>1 DEF Register
  <2>3. PICK list \in Seq(Editors) : list = responsibleEditors[d] /\ responsibleEditors'[d] = Append(list, e)
    BY <2>2, <1>0 DEF Maps
  <2>a. PICK q : q = Append(list, e)
    OBVIOUS
  <2>b. /\ DOMAIN list = 1 .. Len(list) /\ Len(list) \in Nat /\ DOMAIN q = 1 .. Len(list) + 1
        /\ q[Len(list) + 1] = e /\ \A i \in 1 .. Len(list) : q[i] = list[i]
    BY <2>a, <2>3
  <2>c. \A f : Lists(q, f) <=> Lists(list, f) \/ f = e
    BY <2>b DEF Lists
  <2>4. \A f : Lists(Append(list, e), f) <=> Lists(list, f) \/ f = e
    BY <2>a, <2>c
  <2>5. \A f : Registered(f, d)' <=> Registered(f, d) \/ f = e
    BY <2>3, <2>4 DEF Registered, Lists
  <2>6. \A x \in Docs, f \in Editors : x # d => (Registered(f, x)' <=> Registered(f, x))
    BY <2>2, <1>0 DEF Registered, Maps
  <2>. QED BY <2>2, <2>5, <2>6
<1>10. Tidy'
  <2>1. Ownership'
    <3>1. \A f \in Editors : todo'[Timer(f)] = <<>>
      BY <1>4, ThreadsDiffer
    <3>. QED BY <3>1, <1>1, <1>3, <1>5 DEF Ownership, Tidy
  <2>2. Telling' /\ Queued'
    BY <1>1, <1>3, <1>5 DEF Telling, Queued, Tidy
  <2>3. Known'
    <3>1. \A f \in Editors : f # e => loadedObject'[f] = loadedObject[f]
      BY <1>0, <1>9 DEF Maps
    <3>2. \A f \in Editors : f # e /\ loadedObject[f] \in Docs \ again => Registered(f, loadedObject[f])'
      <4>1. Known
        BY DEF Tidy
      <4>. QED BY <4>1, <3>1, <1>8, <1>9 DEF Known
    <3>3. loadedObject'[e] = d /\ Registered(e, d)'
      BY <1>0, <1>9 DEF Maps
    <3>. QED BY <3>1, <3>2, <3>3, <1>3 DEF Known
  <2>4. First'
    <3>1. \A u \in Threads : \A i \in DOMAIN todo'[u] : todo'[u][i].op = "enable"
      BY <1>5 DEF InHand
    <3>. QED BY <3>1 DEF First
  <2>5. Cleared'
    <3>1. \A x \in Docs, f \in Editors : Registered(f, x) => task[f] \subseteq {page[f]}
      BY <1>1, <1>8 DEF Cleared, Tidy
    <3>. QED BY <3>1, <1>2, <1>3, <1>5, <1>9 DEF Cleared
  <2>. QED BY <2>1, <2>2, <2>3, <2>4, <2>5 DEF Tidy
<1>11. ASSUME NEW x \in Docs, NEW g, Aim(x, g) PROVE Aim(x, g)'
  <2>1. Told(x, g)' /\ Loaded(x, g)'
    BY <1>5 DEF Told, Loaded
  <2>2. x = d => page[e] = g
    <3>1. Loaded(x, g)
      BY <1>11 DEF Aim
    <3>2. ~Due("page", e)
      BY <1>1 DEF Calm, Due
    <3>. QED BY <3>1, <3>2, <1>2 DEF Loaded, Step
  <2>3. \A s \in InHand' : s.on \in Editors
    BY <1>5
  <2>4. \A f \in Editors : Registered(f, x)' => (Registered(f, x) /\ page'[f] = page[f]) \/ page'[f] = g
    BY <2>2, <1>3, <1>9
  <2>. QED BY <1>1, <1>3, <1>6, <1>11, <2>1, <2>3, <2>4, CalmKeepsAim
<1>. QED BY <1>10, <1>11

\* A load job that fails leaves the documents and the editors registered for
\* them as they are.
LEMMA FailureKeeps ==
  ASSUME Types, Order, Tidy, NEW n \in 1 .. MaxLoads, LoadJobFails(n)
  PROVE  Tidy' /\ \A d \in Docs : \A g : Aim(d, g) => Aim(d, g)'
<1>0. /\ Maps /\ Calls /\ Phases /\ todo[LoadJob(n)] # <<>>
      /\ Ownership /\ Queued /\ Known /\ Cleared
  BY DEF Types, Order, Tidy, LoadJobFails
<1>1. PICK e \in Editors :
        /\ Unlisted(e) /\ loadedObject' = [loadedObject EXCEPT ![e] = NoDoc]
        /\ \A u \in Threads : todo'[u] = <<>>
        /\ \A u \in Threads : \A i \in DOMAIN todo[u] :
             todo[u][i].op \in {"start", "page", "loaded", "enable"} /\ todo[u][i].on = e
  BY FailureIs
<1>2. UNCHANGED <<responsibleEditors, lastFocussedEditor, saveJobs, stored, page, noticed, waiting, task, latest, again>>
  BY DEF LoadJobFails, docVars, composerVars, notifierVars, history
<1>3. \A s \in InHand : s.op \in {"start", "page", "loaded", "enable"} /\ s.on = e
  BY <1>0, <1>1, InHandIs
<1>4. InHand' = {}
  BY <1>1 DEF InHand
<1>5. \A f \in Editors : ~noticed[f] /\ ~waiting[f]
  BY <1>0, WhileLoading
<1>6. /\ \A f \in Editors : ~Upstream(f) /\ ~Upstream(f)' /\ ~Due("modify", f) /\ ~Clearing(f)
      /\ \A f \in Editors : f # e => ~Due("start", f) /\ ~Due("loaded", f) /\ ~Due("page", f)
  BY <1>2, <1>3, <1>4, <1>5 DEF Upstream, Due, Clearing
<1>7. \A x \in Docs, f \in Editors : Registered(f, x)' <=> Registered(f, x) /\ f # e
  BY <1>1, <1>2 DEF Registered, Unlisted
<1>8. Tidy'
  <2>1. Ownership'
    <3>1. \A f \in Editors : todo'[Timer(f)] = <<>>
      BY <1>1, ThreadsDiffer
    <3>. QED BY <3>1, <1>0, <1>2, <1>4, <1>5 DEF Ownership
  <2>2. Telling' /\ Queued' /\ First'
    BY <1>0, <1>1, <1>2, <1>4, <1>5 DEF Telling, Queued, First
  <2>3. Known'
    <3>1. \A f \in Editors : f # e => loadedObject'[f] = loadedObject[f]
      BY <1>0, <1>1 DEF Maps
    <3>2. loadedObject'[e] = NoDoc
      BY <1>0, <1>1 DEF Maps
    <3>. QED BY <3>1, <3>2, <1>0, <1>2, <1>6, <1>7, EditorsDiffer DEF Known
  <2>4. Cleared'
    BY <1>0, <1>2, <1>4, <1>5, <1>6, <1>7 DEF Cleared
  <2>. QED BY <2>1, <2>2, <2>3, <2>4 DEF Tidy
<1>9. ASSUME NEW d \in Docs, NEW g, Aim(d, g) PROVE Aim(d, g)'
  <2>1. ~Pending(d) /\ ~Saving(d) /\ ~Storing(d)
    BY <1>3, <1>6 DEF Pending, Saving, Storing
  <2>2. Newest(d, g)'
    BY <1>2, <1>6, <1>9 DEF Aim, Newest
  <2>3. Carried(d, g)' /\ Told(d, g)' /\ Loaded(d, g)'
    BY <1>4 DEF Carried, Told, Loaded
  <2>4. Shown(d, g)'
    BY <1>2, <1>6, <1>7, <1>9, <2>1 DEF Aim, Shown
  <2>5. Stored(d, g)'
    BY <1>2, <1>9, <2>1 DEF Aim, Stored, InJobs
  <2>. QED BY <2>2, <2>3, <2>4, <2>5 DEF Aim
<1>. QED BY <1>8, <1>9

\* What a load job does with a document it has read as h.
Five(q, e, h, d) ==
  /\ DOMAIN q = 1 .. 5
  /\ q[1] = Step("notify", e, h) /\ q[2] = Step("assign", e, h) /\ q[3] = Step("page", e, h)
  /\ q[4] = Step("loaded", e, d) /\ q[5] = Step("enable", e, TRUE)

LEMMA LoadStarts ==
  ASSUME Types, Order, NEW n \in 1 .. MaxLoads, RunLoadJob(n)
  PROVE  /\ Calm /\ Standing /\ LoadJob(n) \in Threads
         /\ UNCHANGED <<saveJobs, stored, page, noticed, waiting, task>>
         /\ \A f \in Editors : ~noticed[f] /\ ~waiting[f]
         /\ \A t \in Threads \ {LoadJob(n)} : todo'[t] = <<>>
         /\ \E e \in Editors, d \in Docs :
              /\ Unlisted(e) /\ Step("start", e, d) \in InHand /\ \A s \in InHand : s = Step("start", e, d)
              /\ Five(todo'[LoadJob(n)], e, stored[d], d)
<1>. DEFINE t == LoadJob(n)
<1>0. Maps /\ Flowing /\ Calls
  BY DEF Types
<1>1. Next1(t, "start")
  BY DEF RunLoadJob
<1>2. /\ Calm /\ t \in Threads /\ todo[t] # <<>>
      /\ \A f \in Editors : ~noticed[f] /\ ~waiting[f]
      /\ \A u \in Threads \ {t} : todo[u] = <<>>
  BY <1>1, LoadIsCalm
<1>3. PICK e \in Editors, d \in Docs :
        /\ Unlisted(e) /\ At(t) = Step("start", e, d) /\ Step("start", e, d) \in InHand
        /\ todo[t] = <<Step("start", e, d)>>
        /\ \A s \in InHand : s = Step("start", e, d) \/ s.op = "enable"
  BY <1>1, LoadIsCalm
<1>4. Standing /\ UNCHANGED <<saveJobs, stored, page, noticed, waiting, task>>
  BY DEF RunLoadJob, Standing, docVars, composerVars, notifierVars, history
<1>5. \A s \in InHand : s = Step("start", e, d)
  <2>1. \A a : DOMAIN <<a>> = {1} /\ <<a>>[1] = a
    OBVIOUS
  <2>2. \A i \in DOMAIN todo[t] : todo[t][i] = Step("start", e, d)
    BY <2>1, <1>3
  <2>3. \A u \in Threads \ {t} : \A i \in DOMAIN todo[u] : FALSE
    BY <1>2
  <2>. QED BY <2>2, <2>3 DEF InHand
<1>p. PICK p : p = SetSource(e, stored[d])
  OBVIOUS
<1>x. PICK x : x = Ending(e, d)
  OBVIOUS
<1>6. Then(t, p \o x)
  <2>1. At(t).on = e /\ At(t).arg = d
    BY <1>3 DEF Step
  <2>. QED BY <2>1, <1>p, <1>x DEF RunLoadJob, Ending
<1>7. /\ p \in Seq(Steps(typed)) /\ Len(p) = 3 /\ p[1] = Step("notify", e, stored[d])
      /\ p[2] = Step("assign", e, stored[d]) /\ p[3] = Step("page", e, stored[d])
  <2>1. stored[d] \in Contents(typed)
    BY <1>0 DEF Flowing
  <2>2. p \in Seq(Steps(typed))
    BY <2>1, <1>p, SetSourceTyped, Zenon
  <2>. QED BY <2>2, <1>p DEF SetSource
<1>8. x \in Seq(Steps(typed)) /\ Len(x) = 2 /\ x[1] = Step("loaded", e, d) /\ x[2] = Step("enable", e, TRUE)
  BY <1>x, EndingIs, Zenon
<1>q. PICK q : q = p \o x
  OBVIOUS
<1>9. q \in Seq(Steps(typed)) /\ Five(q, e, stored[d], d)
  <2>1. /\ q \in Seq(Steps(typed)) /\ Len(q) = 5
        /\ \A i \in 1 .. 5 : q[i] = IF i <= 3 THEN p[i] ELSE x[i - 3]
    <3>1. /\ p \o x \in Seq(Steps(typed)) /\ Len(p \o x) = Len(p) + Len(x)
          /\ \A i \in 1 .. Len(p) + Len(x) : (p \o x)[i] = IF i <= Len(p) THEN p[i] ELSE x[i - Len(p)]
      BY <1>7, <1>8, ConcatProperties
    <3>2. /\ q \in Seq(Steps(typed)) /\ Len(q) = Len(p) + Len(x)
          /\ \A i \in 1 .. Len(p) + Len(x) : q[i] = IF i <= Len(p) THEN p[i] ELSE x[i - Len(p)]
      BY <3>1, <1>q
    <3>. QED BY <3>2, <1>7, <1>8
  <2>2. q[1] = p[1] /\ q[2] = p[2] /\ q[3] = p[3] /\ q[4] = x[1] /\ q[5] = x[2]
    BY <2>1
  <2>3. DOMAIN q = 1 .. 5
    BY <2>1, LenProperties
  <2>. QED BY <2>1, <2>2, <2>3, <1>7, <1>8 DEF Five
<1>10. todo'[t] = q /\ \A u \in Threads \ {t} : todo'[u] = <<>>
  <2>1. todo'[t] = q \o Tail(todo[t]) /\ \A u \in Threads \ {t} : todo'[u] = todo[u]
    BY <1>0, <1>2, <1>6, <1>9, <1>q, OthersStay
  <2>2. \A a : Tail(<<a>>) = <<>>
    OBVIOUS
  <2>3. Tail(todo[t]) = <<>>
    BY <2>2, <1>3
  <2>4. q \o <<>> = q
    BY <1>9, ConcatEmptySeq
  <2>. QED BY <2>1, <2>3, <2>4, <1>2
<1>. QED BY <1>2, <1>3, <1>4, <1>5, <1>9, <1>10

LEMMA LoadStartKeeps ==
  ASSUME Types, Order, Tidy, NEW n \in 1 .. MaxLoads, RunLoadJob(n)
  PROVE  Tidy' /\ \A d \in Docs : \A g : Aim(d, g) => Aim(d, g)'
<1>. DEFINE t == LoadJob(n)
<1>1. /\ Calm /\ Standing /\ t \in Threads
      /\ UNCHANGED <<saveJobs, stored, page, noticed, waiting, task>>
      /\ \A f \in Editors : ~noticed[f] /\ ~waiting[f]
      /\ \A u \in Threads \ {t} : todo'[u] = <<>>
  BY LoadStarts
<1>2. PICK e \in Editors, d \in Docs :
        /\ Unlisted(e) /\ Step("start", e, d) \in InHand /\ \A s \in InHand : s = Step("start", e, d)
        /\ Five(todo'[t], e, stored[d], d)
  BY LoadStarts
<1>h. PICK h : h = stored[d]
  OBVIOUS
<1>3. /\ \A f, x : Registered(f, x)' <=> Registered(f, x)
      /\ \A f, x : Owns(f, x)' <=> Owns(f, x)
      /\ \A f : Owner(f)' <=> Owner(f)
      /\ UNCHANGED <<loadedObject, lastFocussedEditor, again, latest>>
  BY <1>1, StandingIs DEF Standing, docVars
<1>4. /\ \A s \in InHand' : /\ s.on = e /\ s.op \in {"notify", "assign", "page", "loaded", "enable"}
                            /\ s.op = "page" => s.arg = h
                            /\ s.op = "loaded" => s.arg = d
      /\ Due("notify", e)' /\ Due("page", e)' /\ Due("loaded", e)'
  <2>1. \A i \in DOMAIN todo'[t] :
          /\ todo'[t][i].on = e /\ todo'[t][i].op \in {"notify", "assign", "page", "loaded", "enable"}
          /\ todo'[t][i].op = "page" => todo'[t][i].arg = h
          /\ todo'[t][i].op = "loaded" => todo'[t][i].arg = d
    <3>1. \A i \in 1 .. 5 : i = 1 \/ i = 2 \/ i = 3 \/ i = 4 \/ i = 5
      OBVIOUS
    <3>. QED BY <3>1, <1>2, <1>h DEF Five, Step
  <2>2. \A u \in Threads : \A i \in DOMAIN todo'[u] : u = t
    BY <1>1
  <2>3. /\ 1 \in DOMAIN todo'[t] /\ todo'[t][1].op = "notify" /\ todo'[t][1].on = e
        /\ 3 \in DOMAIN todo'[t] /\ todo'[t][3].op = "page" /\ todo'[t][3].on = e
        /\ 4 \in DOMAIN todo'[t] /\ todo'[t][4].op = "loaded" /\ todo'[t][4].on = e
    BY <1>2 DEF Five, Step
  <2>4. \A i \in DOMAIN todo'[t] : todo'[t][i] \in InHand'
    BY <1>1 DEF InHand
  <2>5. Due("notify", e)' /\ Due("page", e)' /\ Due("loaded", e)'
    BY <2>3, <2>4 DEF Due
  <2>. QED BY <2>1, <2>2, <2>5 DEF InHand
<1>5. \A f \in Editors : ~Due("modify", f) /\ ~Clearing(f) /\ ~Due("loaded", f) /\ (Due("start", f) => f = e)
  BY <1>2 DEF Due, Clearing, Step
<1>6. \A f \in Editors : ~Upstream(f)'
  BY <1>1, <1>4 DEF Upstream, Due
<1>7. Ownership' /\ Telling' /\ Queued'
  <2>1. \A f \in Editors : todo'[Timer(f)] = <<>>
    BY <1>1, ThreadsDiffer
  <2>2. Ownership'
    BY <2>1, <1>1, <1>3, <1>4 DEF Ownership, Tidy
  <2>3. Telling'
    BY <1>1, <1>4 DEF Telling
  <2>4. Queued'
    BY <1>1 DEF Queued, Tidy
  <2>. QED BY <2>2, <2>3, <2>4
<1>8. Known'
  <2>1. Known
    BY DEF Tidy
  <2>. QED BY <2>1, <1>3, <1>4, <1>5 DEF Known
<1>9. First'
  <2>. SUFFICES ASSUME NEW u \in Threads, NEW i \in DOMAIN todo'[u], todo'[u][i].op = "notify"
                PROVE  /\ i = 1
                       /\ \A k \in DOMAIN todo'[u] : k > 1 =>
                            /\ todo'[u][k].op \in {"assign", "page", "loaded", "enable"}
                            /\ todo'[u][k].on = todo'[u][i].on
    BY DEF First
  <2>1. u = t
    BY <1>1
  <2>2. \A k \in DOMAIN todo'[t] : todo'[t][k].on = e
    BY <1>1, <1>4 DEF InHand
  <2>3. \A k \in 1 .. 5 : k = 1 \/ k = 2 \/ k = 3 \/ k = 4 \/ k = 5
    OBVIOUS
  <2>4. \A k \in DOMAIN todo'[t] : k # 1 => todo'[t][k].op \in {"assign", "page", "loaded", "enable"}
    BY <2>3, <1>2 DEF Five, Step
  <2>. QED BY <2>1, <2>2, <2>4
<1>10. Cleared'
  <2>1. \A x \in Docs, f \in Editors : Registered(f, x) => task[f] \subseteq {page[f]}
    BY <1>1, <1>5 DEF Cleared, Tidy
  <2>. QED BY <2>1, <1>1, <1>3, <1>4 DEF Cleared, Clearing
<1>11. ASSUME NEW x \in Docs, NEW g, Aim(x, g) PROVE Aim(x, g)'
  <2>1. (\A f \in Editors : Registered(f, x) => page[f] = g) /\ InJobs(x, g)
    BY <1>1, <1>11, CalmIs
  <2>2. Newest(x, g)'
    BY <1>3, <1>6, <1>11 DEF Aim, Newest
  <2>3. Carried(x, g)'
    BY <1>2, <1>3, <1>4 DEF Carried, Unlisted
  <2>4. Shown(x, g)' /\ Stored(x, g)'
    BY <2>1, <1>1, <1>3 DEF Shown, Stored, InJobs
  <2>5. Told(x, g)'
    <3>1. x \notin again /\ Owns(e, x) => task[e] \subseteq {g}
      BY <1>2, <1>11 DEF Aim, Told, Step
    <3>. QED BY <3>1, <1>1, <1>3, <1>4 DEF Told
  <2>6. Loaded(x, g)'
    <3>1. x = d => h = g /\ stored[x] = g /\ loadedObject[e] # d /\ \A j \in saveJobs : j.doc # x
      BY <1>2, <1>11, <1>h DEF Aim, Loaded, Step
    <3>. QED BY <3>1, <1>1, <1>3, <1>4 DEF Loaded
  <2>. QED BY <2>2, <2>3, <2>4, <2>5, <2>6 DEF Aim
<1>. QED BY <1>7, <1>8, <1>9, <1>10, <1>11 DEF Tidy

-----------------------------------------------------------------------------
(* Calls.                                                                   *)

\* The steps r leave everything tidy when they take the place of another one.
Tame(r) ==
  \A i \in DOMAIN r :
    /\ r[i].op # "modify"
    /\ r[i].op = "notify" => ~Owner(r[i].on)
    /\ r[i].op = "store" => Owner(r[i].on)
    /\ r[i].op = "page" => \E k \in DOMAIN r : r[k].op = "notify" /\ r[k].on = r[i].on

\* What a step does to editor f leaves everything tidy.
Clean(f) ==
  /\ waiting'[f] => waiting[f]
  /\ Upstream(f) => /\ page'[f] = page[f] /\ oldHtml'[f] = oldHtml[f]
                    /\ accepted'[f] = accepted[f] /\ task'[f] = task[f]
  /\ task'[f] \subseteq task[f]
  /\ task[f] = {} \/ Clearing(f) => task'[f] = {} \/ Clearing(f)'
  /\ page'[f] = page[f] \/ task[f] = {} \/ Clearing(f)

LEMMA CallKeepsTidy ==
  ASSUME Calls, Tidy, NEW t \in Threads, todo[t] # <<>>, NEW r \in Seq(Steps(typed)), Then(t, r),
         Standing, noticed' = noticed, At(t).op \notin {"modify", "start", "loaded"}, Tame(r),
         \A f \in Editors : Clean(f),
         Queued', \A j \in saveJobs' : j \in saveJobs \/ j.by = lastFocussedEditor[j.doc]
  PROVE  Tidy'
<1>0. Ownership /\ Telling /\ Known /\ First /\ Cleared
  BY DEF Tidy
<1>1. Moves(t, r)
  BY HandMoves
<1>2. /\ \A f, x : Registered(f, x)' <=> Registered(f, x)
      /\ \A f : Owner(f)' <=> Owner(f)
      /\ UNCHANGED <<loadedObject, lastFocussedEditor, again>>
  BY StandingIs DEF Standing, docVars
<1>3. /\ todo'[t] = r \o Tail(todo[t]) /\ Continues(todo'[t], r, todo[t])
      /\ \A u \in Threads \ {t} : todo'[u] = todo[u]
  BY OthersStay
<1>4. /\ \A s \in InHand : s \in InHand' \/ s.op \notin {"modify", "start", "loaded"}
      /\ \A s \in InHand' : s.op = "modify" => s \in InHand
  BY <1>1 DEF Moves, Tame
<1>5. /\ \A f \in Editors : Due("modify", f)' <=> Due("modify", f)
      /\ \A f \in Editors : Due("start", f) => Due("start", f)'
      /\ \A f \in Editors : Due("loaded", f) => Due("loaded", f)'
  BY <1>4 DEF Due
<1>s. /\ \A s \in InHand : s.on \in Editors
      /\ \A s \in InHand' : s.on \in Editors
  <2>1. \A s \in InHand : s.on \in Editors
    BY InHandIs, StepIs
  <2>2. \A i \in DOMAIN r : r[i].on \in Editors
    <3>1. \A i \in DOMAIN r : r[i] \in Steps(typed)
      OBVIOUS
    <3>. QED BY <3>1, StepIs
  <2>. QED BY <2>1, <2>2, <1>1 DEF Moves
<1>6. Ownership'
  <2>1. \A f \in Editors : todo'[Timer(f)] # <<>> => todo[Timer(f)] # <<>>
    BY <1>3, ThreadsDiffer
  <2>2. \A f \in Editors : noticed'[f] \/ waiting'[f] \/ todo'[Timer(f)] # <<>> => Owner(f)'
    BY <2>1, <1>0, <1>2 DEF Ownership, Clean
  <2>3. \A s \in InHand' : s.op \in {"modify", "store"} => Owner(s.on)'
    BY <1>0, <1>1, <1>2 DEF Ownership, Moves, Tame
  <2>4. \A j \in saveJobs' : j.by = lastFocussedEditor'[j.doc]
    BY <1>0, <1>2 DEF Ownership
  <2>. QED BY <2>2, <2>3, <2>4 DEF Ownership
<1>7. Telling'
  <2>1. \A f \in Editors : noticed'[f] => \A h \in {oldHtml'[f]} \cup accepted'[f] : h.rev < page'[f].rev
    BY <1>0 DEF Telling, Clean, Upstream
  <2>2. \A s \in InHand' : s.op = "modify" => s.arg = page'[s.on]
    <3>1. \A s \in InHand : s.op = "modify" => Upstream(s.on)
      BY DEF Upstream, Due
    <3>. QED BY <3>1, <1>0, <1>4, <1>s DEF Telling, Clean
  <2>3. \A f \in Editors : waiting'[f] /\ ~noticed'[f] /\ ~Due("modify", f)' => task'[f] = {page'[f]}
    BY <1>0, <1>5 DEF Telling, Clean, Upstream
  <2>. QED BY <2>1, <2>2, <2>3 DEF Telling
<1>8. Known'
  BY <1>0, <1>2, <1>5 DEF Known
<1>9. First'
  <2>. SUFFICES ASSUME NEW u \in Threads, NEW i \in DOMAIN todo'[u], todo'[u][i].op = "notify", Owner(todo'[u][i].on)
                PROVE  /\ i = 1
                       /\ \A k \in DOMAIN todo'[u] : k > 1 =>
                            /\ todo'[u][k].op \in {"assign", "page", "loaded", "enable"}
                            /\ todo'[u][k].on = todo'[u][i].on
    BY <1>2 DEF First, Owner
  <2>1. u # t
    <3>. SUFFICES ASSUME u = t PROVE FALSE
      OBVIOUS
    <3>1. (i \in DOMAIN r /\ todo'[t][i] = r[i]) \/ \E k \in DOMAIN todo[t] : k > 1 /\ todo'[t][i] = todo[t][k]
      BY <1>3 DEF Continues
    <3>2. \A k \in DOMAIN todo[t] : k > 1 => todo[t][k].op # "notify" \/ ~Owner(todo[t][k].on)
      BY <1>0 DEF First
    <3>. QED BY <3>1, <3>2 DEF Tame
  <2>. QED BY <2>1, <1>0, <1>3 DEF First
<1>10. Cleared'
  <2>1. ASSUME NEW s \in InHand', s.op = "page" PROVE task'[s.on] = {} \/ Clearing(s.on)'
    <3>1. CASE s \in InHand
      BY <3>1, <2>1, <1>0, <1>s DEF Cleared, Clean
    <3>2. CASE \E i \in DOMAIN r : s = r[i]
      <4>1. \E k \in DOMAIN r : r[k].op = "notify" /\ r[k].on = s.on
        BY <3>2, <2>1 DEF Tame
      <4>2. Due("notify", s.on)'
        BY <4>1, <1>1 DEF Moves, Due
      <4>. QED BY <4>2 DEF Clearing
    <3>. QED BY <3>1, <3>2, <1>1 DEF Moves
  <2>2. ASSUME NEW d \in Docs, NEW f \in Editors, Registered(f, d)
        PROVE  task'[f] \subseteq {page'[f]} \/ noticed'[f] \/ Due("modify", f)' \/ Clearing(f)'
    <3>1. task[f] \subseteq {page[f]} \/ noticed[f] \/ Due("modify", f) \/ Clearing(f)
      BY <1>0, <2>2 DEF Cleared
    <3>2. task[f] = {} \/ Clearing(f) => task'[f] = {} \/ Clearing(f)'
      BY DEF Clean
    <3>3. page'[f] = page[f] \/ task'[f] = {} \/ Clearing(f)'
      BY <3>2 DEF Clean
    <3>4. task'[f] \subseteq task[f]
      BY DEF Clean
    <3>. QED BY <3>1, <3>2, <3>3, <3>4, <1>5
  <2>. QED BY <2>1, <2>2, <1>2 DEF Cleared
<1>. QED BY <1>6, <1>7, <1>8, <1>9, <1>10 DEF Tidy

\* Steps that change neither what is shown nor what is stored, and take up or
\* drop nothing of what is told.
Light(r) == \A i \in DOMAIN r : r[i].op = "leave" \/ (r[i].op = "save" /\ ~Owner(r[i].on))

LEMMA LightStepKeeps ==
  ASSUME Types, Tidy, NEW t \in Threads, todo[t] # <<>>, NEW r \in Seq(Steps(typed)), Then(t, r), Light(r),
         Standing, UNCHANGED <<page, stored, saveJobs, noticed>>,
         \A f \in Editors : waiting'[f] <=> waiting[f],
         At(t).op \notin {"modify", "start", "loaded"}, ~Carries(At(t)),
         \A f \in Editors : Clean(f)
  PROVE  Tidy' /\ \A d \in Docs : \A g : Aim(d, g) => Aim(d, g)'
<1>0. Calls
  BY DEF Types
<1>1. Moves(t, r)
  BY <1>0, HandMoves
<1>2. Tidy'
  <2>1. Tame(r)
    BY DEF Light, Tame
  <2>2. Queued'
    BY DEF Tidy, Queued
  <2>. QED BY <2>1, <2>2, <1>0, CallKeepsTidy
<1>3. ASSUME NEW d \in Docs, NEW g, Aim(d, g) PROVE Aim(d, g)'
  <2>1. /\ \A s \in InHand : s \in InHand' \/ s.op # "modify"
        /\ \A s \in InHand' : s.op = "modify" => s \in InHand
    BY <1>1 DEF Moves, Light
  <2>2. \A e \in Editors : Upstream(e)' <=> Upstream(e)
    BY <2>1 DEF Upstream, Due
  <2>3. \A s \in InHand \cup InHand' : s.on \in Editors
    <3>1. \A s \in InHand : s.on \in Editors
      BY <1>0, InHandIs, StepIs
    <3>2. \A i \in DOMAIN r : r[i].on \in Editors
      <4>1. \A i \in DOMAIN r : r[i] \in Steps(typed)
        OBVIOUS
      <4>. QED BY <4>1, StepIs
    <3>. QED BY <3>1, <3>2, <1>1 DEF Moves
  <2>4. \A s \in InHand' : s \in InHand \/ Aside(s)
    BY <1>1 DEF Moves, Light, Aside
  <2>5. \A s \in InHand : s \in InHand' \/ ~Carries(s)
    BY <1>1 DEF Moves
  <2>6. \A s \in InHand' : task'[s.on] \subseteq task[s.on]
    BY <2>3 DEF Clean
  <2>. QED BY <2>2, <2>3, <2>4, <2>5, <2>6, <1>3, AimStays
<1>. QED BY <1>2, <1>3

\* A notifier that is being cleared still is, unless this step was about that.
LEMMA StaysClearing ==
  ASSUME NEW t, NEW r, Moves(t, r), NEW f, Clearing(f)
  PROVE  Clearing(f)' \/ (At(t).on = f /\ At(t).op \in {"notify", "leave"})
BY DEF Moves, Clearing, Due

LEMMA LightCallKeeps ==
  ASSUME Types, Orderly, Order, Tidy, NEW t \in Threads,
         \/ SetEnabled(t)
         \/ LeaveMonitor(t)
         \/ AssignOldHtml(t)
         \/ NotifyNow(t) /\ (task[At(t).on] = {} \/ ~Owner(At(t).on))
         \/ Save(t) /\ ~Owner(At(t).on)
  PROVE  Tidy' /\ \A d \in Docs : \A g : Aim(d, g) => Aim(d, g)'
<1>. DEFINE s == At(t)
            e == s.on
<1>0. Maps /\ Flowing /\ Calls /\ Ownership
  BY DEF Types, Tidy
<1>1. \A op : Next1(t, op) => s.op = op /\ e \in Editors /\ s \in InHand /\ todo[t] # <<>>
  <2>. SUFFICES ASSUME NEW op, Next1(t, op) PROVE s.op = op /\ e \in Editors /\ s \in InHand /\ todo[t] # <<>>
    OBVIOUS
  <2>1. s.op = op /\ e \in Editors /\ todo[t] # <<>> /\ s = todo[t][1] /\ 1 \in DOMAIN todo[t]
    BY <1>0, HeadIs
  <2>. QED BY <2>1, <1>0, InHandIs
<1>2. \A op \in {"notify", "leave", "assign"} : Next1(t, op) => ~Upstream(e)
  BY <1>1, <1>0, Bystanders
<1>3. <<>> \in Seq(Steps(typed)) /\ Light(<<>>)
  <2>1. DOMAIN <<>> = {}
    OBVIOUS
  <2>. QED BY <2>1 DEF Light
<1>4. CASE SetEnabled(t) \/ (Save(t) /\ ~Owner(e))
  <2>1. /\ Then(t, <<>>) /\ Standing /\ UNCHANGED <<page, oldHtml, accepted, stored, saveJobs, noticed, waiting, task>>
        /\ todo[t] # <<>> /\ s.op \in {"enable", "save"} /\ ~Carries(s)
    <3>1. CASE SetEnabled(t)
      <4>1. Next1(t, "enable") /\ Then(t, <<>>) /\ Standing /\ UNCHANGED <<page, oldHtml, accepted, stored, saveJobs, noticed, waiting, task>>
        BY <3>1 DEF SetEnabled, Standing, docVars, notifierVars, history
      <4>. QED BY <4>1, <1>1 DEF Carries
    <3>2. CASE Save(t) /\ ~Owner(e)
      <4>1. Next1(t, "save") /\ Then(t, <<>>) /\ Standing /\ UNCHANGED <<page, oldHtml, accepted, stored, saveJobs, noticed, waiting, task>>
        BY <3>2 DEF Save, Owner, Standing, docVars, composerVars, notifierVars, history
      <4>. QED BY <4>1, <3>2, <1>1 DEF Carries
    <3>. QED BY <1>4, <3>1, <3>2
  <2>2. Moves(t, <<>>)
    BY <2>1, <1>0, <1>3, HandMoves
  <2>3. \A f \in Editors : Clean(f)
    BY <2>1, <2>2, StaysClearing DEF Clean
  <2>. QED BY <2>1, <2>3, <1>3, LightStepKeeps
<1>5. CASE LeaveMonitor(t)
  <2>1. Next1(t, "leave") /\ Then(t, <<>>) /\ Standing /\ UNCHANGED <<page, oldHtml, accepted, stored, saveJobs, noticed, waiting>>
        /\ task' = [task EXCEPT ![e] = {}]
    BY <1>5 DEF LeaveMonitor, Standing, docVars, composerVars, history
  <2>2. s.op = "leave" /\ e \in Editors /\ todo[t] # <<>> /\ ~Upstream(e) /\ ~Carries(s)
    BY <2>1, <1>1, <1>2 DEF Carries
  <2>3. Moves(t, <<>>)
    BY <2>1, <2>2, <1>0, <1>3, HandMoves
  <2>4. \A f \in Editors : (f # e => task'[f] = task[f]) /\ task'[e] = {}
    BY <2>1, <2>2, <1>0 DEF Flowing
  <2>5. \A f \in Editors : Clean(f)
    BY <2>1, <2>2, <2>3, <2>4, StaysClearing DEF Clean
  <2>. QED BY <2>1, <2>2, <2>5, <1>3, LightStepKeeps
<1>6. CASE AssignOldHtml(t)
  <2>1. Next1(t, "assign") /\ Then(t, <<>>) /\ Standing /\ UNCHANGED <<page, accepted, stored, saveJobs, noticed, waiting, task>>
        /\ oldHtml' = [oldHtml EXCEPT ![e] = s.arg]
    BY <1>6 DEF AssignOldHtml, Standing, docVars, notifierVars, history
  <2>2. s.op = "assign" /\ e \in Editors /\ todo[t] # <<>> /\ ~Upstream(e) /\ ~Carries(s)
    BY <2>1, <1>1, <1>2 DEF Carries
  <2>3. Moves(t, <<>>)
    BY <2>1, <2>2, <1>0, <1>3, HandMoves
  <2>4. \A f \in Editors : f # e => oldHtml'[f] = oldHtml[f]
    BY <2>1, <2>2, <1>0 DEF Flowing
  <2>5. \A f \in Editors : Clean(f)
    BY <2>1, <2>2, <2>3, <2>4, StaysClearing DEF Clean
  <2>. QED BY <2>1, <2>2, <2>5, <1>3, LightStepKeeps
<1>7. CASE NotifyNow(t) /\ (task[e] = {} \/ ~Owner(e))
  <2>1. Next1(t, "notify") /\ Standing /\ UNCHANGED <<page, oldHtml, accepted, stored, saveJobs, noticed, task>>
        /\ waiting' = [waiting EXCEPT ![e] = FALSE]
    BY <1>7 DEF NotifyNow, Standing, docVars, composerVars, history
  <2>2. s.op = "notify" /\ e \in Editors /\ todo[t] # <<>> /\ ~Upstream(e)
    BY <2>1, <1>1, <1>2
  <2>3. \A f \in Editors : waiting'[f] <=> waiting[f]
    BY <2>1, <2>2, <1>0 DEF Maps, Upstream
  <2>4. ~Carries(s)
    BY <2>2 DEF Carries
  <2>5. PICK r \in Seq(Steps(typed)) :
          Then(t, r) /\ Light(r) /\ (task[e] = {} \/ \E i \in DOMAIN r : r[i].op = "leave" /\ r[i].on = e)
    <3>1. CASE task[e] = {}
      <4>1. Then(t, <<>>)
        BY <3>1, <1>7 DEF NotifyNow
      <4>. QED BY <3>1, <4>1, <1>3
    <3>2. CASE task[e] # {}
      <4>1. PICK h \in task[e] : Then(t, <<Step("save", e, h), Step("leave", e, Blank)>>)
        BY <3>2, <1>7 DEF NotifyNow
      <4>2. h \in Contents(typed) /\ typed \in Nat
        BY <4>1, <2>2, <1>0, EditorsDiffer DEF Flowing
      <4>a. PICK a : a = Step("save", e, h)
        OBVIOUS
      <4>b. PICK b : b = Step("leave", e, Blank)
        OBVIOUS
      <4>3. a \in Steps(typed) /\ b \in Steps(typed)
        BY <4>a, <4>b, <4>2, <2>2, IsAStep, BlankIs
      <4>4. a.op = "save" /\ a.on = e /\ b.op = "leave" /\ b.on = e
        BY <4>a, <4>b DEF Step
      <4>r. PICK r : r = <<a, b>>
        OBVIOUS
      <4>5. r \in Seq(Steps(typed)) /\ DOMAIN r = {1, 2} /\ r[1] = a /\ r[2] = b
        BY <4>r, <4>3
      <4>6. Light(r)
        BY <4>4, <4>5, <3>2, <1>7 DEF Light
      <4>7. Then(t, r)
        BY <4>1, <4>a, <4>b, <4>r
      <4>. QED BY <4>4, <4>5, <4>6, <4>7
    <3>. QED BY <3>1, <3>2
  <2>6. Moves(t, r)
    BY <2>2, <2>5, <1>0, HandMoves
  <2>7. \A f : f = e => task[f] = {} \/ Clearing(f)'
    <3>. SUFFICES ASSUME NEW f, f = e, task[f] # {} PROVE Clearing(f)'
      OBVIOUS
    <3>1. PICK i \in DOMAIN r : r[i].op = "leave" /\ r[i].on = f
      BY <2>5
    <3>2. r[i] \in InHand'
      BY <2>6 DEF Moves
    <3>3. Due("leave", f)'
      BY <3>1, <3>2, <2>1 DEF Due
    <3>. QED BY <3>3 DEF Clearing
  <2>8. \A f \in Editors : Clean(f)
    <3>1. \A f : Clearing(f) => Clearing(f)' \/ f = e
      BY <2>6, StaysClearing
    <3>. QED BY <3>1, <2>1, <2>2, <2>3, <2>7 DEF Clean
  <2>. QED BY <2>1, <2>2, <2>3, <2>4, <2>5, <2>8, LightStepKeeps
<1>. QED BY <1>4, <1>5, <1>6, <1>7

-----------------------------------------------------------------------------
(* Reports of a change, and the emptying of a composer.                     *)

\* Thread t, which has had nothing to do, has the steps q to take.
Begins(t, q) ==
  /\ todo'[t] = q /\ \A u \in Threads \ {t} : todo'[u] = todo[u]
  /\ \A s \in InHand' : s \in InHand \/ \E i \in DOMAIN q : s = q[i]
  /\ \A s \in InHand : s \in InHand'
  /\ \A i \in DOMAIN q : q[i] \in InHand'

LEMMA HandGrows ==
  ASSUME Calls, NEW t \in Threads, todo[t] = <<>>, NEW q, todo' = [todo EXCEPT ![t] = q]
  PROVE  Begins(t, q)
<1>1. todo'[t] = q /\ \A u \in Threads \ {t} : todo'[u] = todo[u]
  BY DEF Calls
<1>2. \A i \in DOMAIN todo[t] : FALSE
  <2>1. DOMAIN <<>> = {}
    OBVIOUS
  <2>. QED BY <2>1
<1>3. ASSUME NEW s \in InHand' PROVE s \in InHand \/ \E i \in DOMAIN q : s = q[i]
  <2>1. PICK u \in Threads : \E i \in DOMAIN todo'[u] : s = todo'[u][i]
    BY <1>3 DEF InHand
  <2>. QED BY <1>1, <2>1 DEF InHand
<1>4. ASSUME NEW s \in InHand PROVE s \in InHand'
  <2>1. PICK u \in Threads : \E i \in DOMAIN todo[u] : s = todo[u][i]
    BY <1>4 DEF InHand
  <2>2. u # t
    BY <1>2, <2>1
  <2>. QED BY <1>1, <2>1, <2>2 DEF InHand
<1>5. \A i \in DOMAIN q : q[i] \in InHand'
  BY <1>1 DEF InHand
<1>. QED BY <1>1, <1>3, <1>4, <1>5 DEF Begins

LEMMA NothingIsLoaded ==
  ASSUME Types, Order, \A n \in 1 .. MaxLoads : todo[LoadJob(n)] = <<>>, NEW s \in InHand
  PROVE  s.op \notin {"start", "loaded"}
<1>0. Calls
  BY DEF Types
<1>1. PICK t \in Threads : \E i \in DOMAIN todo[t] : s = todo[t][i]
  BY <1>0, InHandIs
<1>2. todo[t] # <<>>
  BY <1>1
<1>3. t = UI \/ \E u \in Editors : t = Timer(u)
  BY <1>2, ThreadsDiffer
<1>4. CASE t = UI
  BY <1>1, <1>4 DEF Order, UIWork, UIStep
<1>5. CASE \E u \in Editors : t = Timer(u)
  BY <1>1, <1>5 DEF Order, TimerWork, PushStep
<1>. QED BY <1>3, <1>4, <1>5

LEMMA NoticeKeeps ==
  ASSUME Types, Order, Tidy, NEW e \in Editors, Notice(e)
  PROVE  Tidy' /\ \A d \in Docs : \A g : Aim(d, g) => Aim(d, g)'
<1>0. Maps /\ Flowing /\ Calls /\ UI \in Threads /\ Ownership /\ Telling /\ Queued /\ Known /\ First /\ Cleared
  BY ThreadsDiffer DEF Types, Tidy
<1>1. /\ noticed[e] /\ todo[UI] = <<>> /\ noticed' = [noticed EXCEPT ![e] = FALSE]
      /\ UNCHANGED <<page, stored, saveJobs, waiting, task>> /\ Standing
  BY DEF Notice, UIFree, Standing, docVars, history
<1>2. /\ ~ \E h \in {oldHtml[e]} \cup accepted[e] : Same(page[e], h)
      /\ ~ Same(page[e], oldHtml[e])
  <2>1. \A h \in {oldHtml[e]} \cup accepted[e] : h.rev < page[e].rev /\ h.rev \in Nat /\ page[e].rev \in Nat
    BY <1>0, <1>1 DEF Telling, Flowing, Contents
  <2>. QED BY <2>1 DEF Same
<1>3. /\ oldHtml' = [oldHtml EXCEPT ![e] = page[e]] /\ accepted' = [accepted EXCEPT ![e] = {page[e]}]
      /\ todo' = [todo EXCEPT ![UI] = <<Step("modify", e, page[e])>>]
  BY <1>2 DEF Notice
<1>m. PICK m : m = Step("modify", e, page[e])
  OBVIOUS
<1>q. PICK q : q = <<m>>
  OBVIOUS
<1>4. m.op = "modify" /\ m.on = e /\ m.arg = page[e] /\ DOMAIN q = {1} /\ q[1] = m
  BY <1>m, <1>q DEF Step
<1>5. Begins(UI, q)
  BY <1>0, <1>1, <1>3, <1>m, <1>q, HandGrows
<1>6. /\ \A s \in InHand' : s \in InHand \/ s = m
      /\ \A s \in InHand : s \in InHand'
      /\ m \in InHand'
  BY <1>4, <1>5 DEF Begins
<1>7. /\ \A f, x : Registered(f, x)' <=> Registered(f, x)
      /\ \A f : Owner(f)' <=> Owner(f)
      /\ UNCHANGED <<loadedObject, lastFocussedEditor, again>>
  BY <1>1, StandingIs DEF Standing, docVars
<1>8. \A f \in Editors : noticed'[f] <=> noticed[f] /\ f # e
  BY <1>0, <1>1 DEF Maps
<1>9. /\ \A f \in Editors : Due("modify", f)' <=> Due("modify", f) \/ f = e
      /\ \A f \in Editors : Due("start", f) => Due("start", f)'
      /\ \A f \in Editors : Due("loaded", f) => Due("loaded", f)'
      /\ \A f \in Editors : Clearing(f) => Clearing(f)'
  BY <1>4, <1>6 DEF Due, Clearing
<1>10. Ownership'
  <2>1. \A f \in Editors : todo'[Timer(f)] = todo[Timer(f)]
    BY <1>5, ThreadsDiffer DEF Begins
  <2>2. \A f \in Editors : noticed'[f] \/ waiting'[f] \/ todo'[Timer(f)] # <<>> => Owner(f)'
    BY <2>1, <1>0, <1>1, <1>7, <1>8 DEF Ownership
  <2>3. \A s \in InHand' : s.op \in {"modify", "store"} => Owner(s.on)'
    BY <1>0, <1>1, <1>4, <1>6, <1>7 DEF Ownership
  <2>. QED BY <2>2, <2>3, <1>0, <1>1, <1>7 DEF Ownership
<1>11. Telling'
  <2>1. \A f \in Editors : f # e => oldHtml'[f] = oldHtml[f] /\ accepted'[f] = accepted[f]
    BY <1>0, <1>3 DEF Flowing
  <2>2. \A f \in Editors : noticed'[f] => \A h \in {oldHtml'[f]} \cup accepted'[f] : h.rev < page'[f].rev
    BY <2>1, <1>0, <1>1, <1>8 DEF Telling
  <2>3. \A s \in InHand' : s.op = "modify" => s.arg = page'[s.on]
    BY <1>0, <1>1, <1>4, <1>6 DEF Telling
  <2>4. \A f \in Editors : waiting'[f] /\ ~noticed'[f] /\ ~Due("modify", f)' => task'[f] = {page'[f]}
    BY <1>0, <1>1, <1>8, <1>9 DEF Telling
  <2>. QED BY <2>2, <2>3, <2>4 DEF Telling
<1>12. Queued' /\ Known'
  BY <1>0, <1>1, <1>7, <1>9 DEF Queued, Known
<1>13. First'
  <2>1. \A u \in Threads : \A i \in DOMAIN todo'[u] : todo'[u][i].op = "notify" => todo'[u] = todo[u]
    BY <1>4, <1>5 DEF Begins
  <2>. QED BY <2>1, <1>0, <1>7 DEF First, Owner
<1>14. Cleared'
  <2>1. \A s \in InHand' : s.op = "page" => s \in InHand /\ s.on \in Editors
    BY <1>0, <1>4, <1>6, InHandIs, StepIs
  <2>2. \A s \in InHand' : s.op = "page" => task'[s.on] = {} \/ Clearing(s.on)'
    BY <2>1, <1>0, <1>1, <1>9 DEF Cleared
  <2>3. \A d \in Docs, f \in Editors : Registered(f, d)' =>
          task'[f] \subseteq {page'[f]} \/ noticed'[f] \/ Due("modify", f)' \/ Clearing(f)'
    BY <1>0, <1>1, <1>7, <1>8, <1>9 DEF Cleared
  <2>. QED BY <2>2, <2>3 DEF Cleared
<1>15. ASSUME NEW d \in Docs, NEW g, Aim(d, g) PROVE Aim(d, g)'
  <2>1. \A f \in Editors : Upstream(f)' <=> Upstream(f)
    BY <1>1, <1>8, <1>9 DEF Upstream
  <2>2. \A s \in InHand \cup InHand' : s.on \in Editors
    BY <1>0, <1>4, <1>6, InHandIs, StepIs
  <2>3. \A s \in InHand' : s \in InHand \/ Aside(s)
    BY <1>4, <1>6 DEF Aside
  <2>. QED BY <2>1, <2>2, <2>3, <1>1, <1>6, <1>15, AimStays
<1>. QED BY <1>10, <1>11, <1>12, <1>13, <1>14, <1>15 DEF Tidy

LEMMA ModifyKeeps ==
  ASSUME Types, Order, Tidy, Modify
  PROVE  Tidy' /\ \A d \in Docs : \A g : Aim(d, g) => Aim(d, g)'
<1>0. Maps /\ Flowing /\ Calls /\ Phases /\ UI \in Threads /\ Ownership /\ Telling /\ Queued /\ Known /\ First /\ Cleared
  BY ThreadsDiffer DEF Types, Order, Tidy
<1>m. PICK m : m = At(UI)
  OBVIOUS
<1>e. PICK e : e = m.on
  OBVIOUS
<1>1. /\ Next1(UI, "modify") /\ Then(UI, <<>>) /\ UNCHANGED <<page, oldHtml, accepted, noticed, stored, saveJobs>> /\ Standing
      /\ task' = [task EXCEPT ![e] = {m.arg}] /\ waiting' = [waiting EXCEPT ![e] = TRUE]
  BY <1>m, <1>e DEF Modify, Standing, docVars, composerVars, history
<1>2. /\ m.op = "modify" /\ e \in Editors /\ todo[UI] # <<>> /\ m = todo[UI][1] /\ 1 \in DOMAIN todo[UI]
  BY <1>0, <1>1, <1>m, <1>e, HeadIs
<1>3. <<>> \in Seq(Steps(typed)) /\ DOMAIN <<>> = {}
  OBVIOUS
<1>4. Moves(UI, <<>>) /\ Continues(todo'[UI], <<>>, todo[UI]) /\ \A u \in Threads \ {UI} : todo'[u] = todo[u]
  BY <1>0, <1>1, <1>2, <1>3, HandMoves, OthersStay
<1>5. /\ \A s \in InHand' : s \in InHand
      /\ \A s \in InHand : s \in InHand' \/ s = m
      /\ m \in InHand
  BY <1>3, <1>4, <1>m DEF Moves
<1>6. m.arg = page[e] /\ Owner(e) /\ Upstream(e)
  BY <1>0, <1>2, <1>5, <1>e DEF Telling, Ownership, Upstream, Due
<1>7. /\ \A f, x : Registered(f, x)' <=> Registered(f, x)
      /\ \A f : Owner(f)' <=> Owner(f)
      /\ UNCHANGED <<loadedObject, lastFocussedEditor, again>>
  BY <1>1, StandingIs DEF Standing, docVars
<1>8. /\ task'[e] = {page[e]} /\ waiting'[e]
      /\ \A f \in Editors : f # e => task'[f] = task[f] /\ waiting'[f] = waiting[f]
  BY <1>0, <1>1, <1>2, <1>6 DEF Maps, Flowing
<1>9. /\ \A f \in Editors : f # e => (Due("modify", f)' <=> Due("modify", f))
      /\ \A f \in Editors : Due("start", f) => Due("start", f)'
      /\ \A f \in Editors : Due("loaded", f) => Due("loaded", f)'
      /\ \A f \in Editors : Clearing(f) => Clearing(f)'
  BY <1>2, <1>5, <1>e DEF Due, Clearing
<1>10. \A s \in InHand : s.on \in Editors /\ (s.op \in {"notify", "page"} => s.on # e) /\ s.op \notin {"start", "loaded"}
  <2>1. \A n \in 1 .. MaxLoads : todo[LoadJob(n)] = <<>>
    BY <1>0, <1>1, WhileEditing
  <2>. SUFFICES ASSUME NEW s \in InHand
                PROVE  s.on \in Editors /\ (s.op \in {"notify", "page"} => s.on # e) /\ s.op \notin {"start", "loaded"}
    OBVIOUS
  <2>2. s.on \in Editors
    BY <1>0, InHandIs, StepIs
  <2>3. s.op \in {"notify", "page"} => ~Upstream(s.on)
    BY <1>0, Bystanders
  <2>4. s.op \notin {"start", "loaded"}
    BY <2>1, NothingIsLoaded
  <2>. QED BY <2>2, <2>3, <2>4, <1>6
<1>11. Ownership'
  <2>1. \A f \in Editors : todo'[Timer(f)] = todo[Timer(f)]
    BY <1>4, ThreadsDiffer
  <2>2. \A f \in Editors : noticed'[f] \/ waiting'[f] \/ todo'[Timer(f)] # <<>> => Owner(f)'
    BY <2>1, <1>0, <1>1, <1>6, <1>7, <1>8 DEF Ownership
  <2>. QED BY <2>2, <1>0, <1>1, <1>5, <1>7 DEF Ownership
<1>12. Telling'
  <2>1. \A s \in InHand' : s.op = "modify" => s.arg = page'[s.on]
    BY <1>0, <1>1, <1>5 DEF Telling
  <2>2. \A f \in Editors : waiting'[f] /\ ~noticed'[f] /\ ~Due("modify", f)' => task'[f] = {page'[f]}
    BY <1>0, <1>1, <1>8, <1>9 DEF Telling
  <2>. QED BY <2>1, <2>2, <1>0, <1>1 DEF Telling
<1>13. Queued' /\ Known'
  BY <1>0, <1>1, <1>7, <1>9 DEF Queued, Known
<1>14. First'
  <2>1. \A i \in DOMAIN todo'[UI] : todo'[UI][i].op # "notify" \/ ~Owner(todo'[UI][i].on)
    <3>. SUFFICES ASSUME NEW i \in DOMAIN todo'[UI] PROVE todo'[UI][i].op # "notify" \/ ~Owner(todo'[UI][i].on)
      OBVIOUS
    <3>1. \E k \in DOMAIN todo[UI] : k > 1 /\ todo'[UI][i] = todo[UI][k]
      BY <1>3, <1>4 DEF Continues
    <3>2. \A k \in DOMAIN todo[UI] : k > 1 => todo[UI][k].op # "notify" \/ ~Owner(todo[UI][k].on)
      BY <1>0 DEF First
    <3>. QED BY <3>1, <3>2
  <2>. QED BY <2>1, <1>0, <1>4, <1>7 DEF First, Owner
<1>15. Cleared'
  <2>1. \A s \in InHand' : s.op = "page" => task'[s.on] = {} \/ Clearing(s.on)'
    BY <1>0, <1>5, <1>8, <1>9, <1>10 DEF Cleared
  <2>2. \A d \in Docs, f \in Editors : Registered(f, d)' =>
          task'[f] \subseteq {page'[f]} \/ noticed'[f] \/ Due("modify", f)' \/ Clearing(f)'
    BY <1>0, <1>1, <1>7, <1>8, <1>9 DEF Cleared
  <2>. QED BY <2>1, <2>2 DEF Cleared
<1>16. ASSUME NEW d \in Docs, NEW g, Aim(d, g) PROVE Aim(d, g)'
  <2>1. \A f \in Editors : Upstream(f)' <=> Upstream(f)
    BY <1>1, <1>6, <1>8, <1>9 DEF Upstream
  <2>2. \A s \in InHand : s \in InHand' \/ ~Carries(s)
    BY <1>2, <1>5 DEF Carries
  <2>3. \A s \in InHand' : s.op \in {"start", "notify"} => task'[s.on] \subseteq task[s.on]
    BY <1>5, <1>8, <1>10
  <2>4. \A s \in InHand \cup InHand' : s.on \in Editors
    BY <1>5, <1>10
  <2>. QED BY <2>1, <2>2, <2>3, <2>4, <1>1, <1>5, <1>16, AimStays
<1>. QED BY <1>11, <1>12, <1>13, <1>14, <1>15, <1>16 DEF Tidy

LEMMA PostedKeeps ==
  ASSUME Types, Order, Tidy, NEW e \in Editors, RunPosted(e)
  PROVE  Tidy' /\ \A d \in Docs : \A g : Aim(d, g) => Aim(d, g)'
<1>0. Maps /\ Flowing /\ Calls /\ Registration /\ Phases /\ UI \in Threads /\ typed \in Nat
      /\ Ownership /\ Telling /\ Queued /\ Known /\ First /\ Cleared
  BY ThreadsDiffer, EditorsDiffer DEF Types, Flowing, Order, Tidy
<1>1. /\ posted[e] /\ UNCHANGED <<page, oldHtml, stored, saveJobs, noticed, waiting, task>> /\ Standing
      /\ todo' = [todo EXCEPT ![UI] = SetSource(e, Blank) \o <<Step("enable", e, FALSE)>>]
  BY DEF RunPosted, Standing, docVars, composerVars, notifierVars, history
<1>2. /\ \A t \in Threads : todo[t] = <<>>
      /\ \A f \in Editors : ~noticed[f] /\ ~waiting[f]
      /\ loadedObject[e] = NoDoc
  BY <1>0, <1>1 DEF Phases, Alone
<1>3. InHand = {} /\ Unlisted(e) /\ ~Owner(e)
  <2>1. DOMAIN <<>> = {}
    OBVIOUS
  <2>2. InHand = {}
    BY <2>1, <1>2 DEF InHand
  <2>. QED BY <2>2, <1>0, <1>2, EditorsDiffer DEF Registration, Unlisted, Owner
<1>p. PICK p : p = SetSource(e, Blank)
  OBVIOUS
<1>x. PICK x : x = <<Step("enable", e, FALSE)>>
  OBVIOUS
<1>q. PICK q : q = p \o x
  OBVIOUS
<1>4. /\ p \in Seq(Steps(typed)) /\ Len(p) = 3 /\ p[1] = Step("notify", e, Blank)
      /\ p[2] = Step("assign", e, Blank) /\ p[3] = Step("page", e, Blank)
  <2>1. p \in Seq(Steps(typed))
    BY <1>0, <1>p, BlankIs, SetSourceTyped, Zenon
  <2>. QED BY <2>1, <1>p DEF SetSource
<1>5. x \in Seq(Steps(typed)) /\ Len(x) = 1 /\ x[1] = Step("enable", e, FALSE)
  <2>1. Step("enable", e, FALSE) \in Steps(typed)
    BY EnableIsAStep
  <2>z. PICK z : z = Step("enable", e, FALSE)
    OBVIOUS
  <2>2. z \in Steps(typed) /\ x = <<z>>
    BY <2>1, <2>z, <1>x
  <2>3. x \in Seq(Steps(typed)) /\ Len(x) = 1 /\ x[1] = z
    BY <2>2
  <2>. QED BY <2>3, <2>z
<1>6. /\ DOMAIN q = 1 .. 4 /\ q[1] = Step("notify", e, Blank) /\ q[2] = Step("assign", e, Blank)
      /\ q[3] = Step("page", e, Blank) /\ q[4] = Step("enable", e, FALSE)
  <2>1. /\ p \o x \in Seq(Steps(typed)) /\ Len(p \o x) = Len(p) + Len(x)
        /\ \A i \in 1 .. Len(p) + Len(x) : (p \o x)[i] = IF i <= Len(p) THEN p[i] ELSE x[i - Len(p)]
    BY <1>4, <1>5, ConcatProperties
  <2>2. /\ q \in Seq(Steps(typed)) /\ Len(q) = Len(p) + Len(x)
        /\ \A i \in 1 .. Len(p) + Len(x) : q[i] = IF i <= Len(p) THEN p[i] ELSE x[i - Len(p)]
    BY <2>1, <1>q
  <2>3. Len(q) = 4 /\ DOMAIN q = 1 .. Len(q)
    BY <2>2, <1>4, <1>5, LenProperties
  <2>4. q[1] = p[1] /\ q[2] = p[2] /\ q[3] = p[3] /\ q[4] = x[1]
    <3>1. Len(p) = 3 /\ Len(x) = 1
      BY <1>4, <1>5
    <3>2. \A i \in 1 .. 4 : q[i] = IF i <= 3 THEN p[i] ELSE x[i - 3]
      BY <2>2, <3>1
    <3>. QED BY <3>2
  <2>. QED BY <2>3, <2>4, <1>4, <1>5
<1>7. Begins(UI, q)
  BY <1>0, <1>1, <1>2, <1>p, <1>x, <1>q, HandGrows
<1>8. /\ \A s \in InHand' : s.on = e /\ s.op \in {"notify", "assign", "page", "enable"}
      /\ Due("notify", e)'
  <2>1. \A i \in 1 .. 4 : i = 1 \/ i = 2 \/ i = 3 \/ i = 4
    OBVIOUS
  <2>2. \A i \in DOMAIN q : q[i].on = e /\ q[i].op \in {"notify", "assign", "page", "enable"}
    BY <2>1, <1>6 DEF Step
  <2>3. 1 \in DOMAIN q /\ q[1].op = "notify" /\ q[1].on = e
    BY <1>6 DEF Step
  <2>. QED BY <2>2, <2>3, <1>3, <1>7 DEF Begins, Due
<1>9. /\ \A f, y : Registered(f, y)' <=> Registered(f, y)
      /\ \A f : Owner(f)' <=> Owner(f)
      /\ UNCHANGED <<loadedObject, lastFocussedEditor, again>>
  BY <1>1, StandingIs DEF Standing, docVars
<1>10. Ownership' /\ Telling' /\ Queued'
  <2>1. \A f \in Editors : todo'[Timer(f)] = <<>>
    BY <1>2, <1>7, ThreadsDiffer DEF Begins
  <2>2. Ownership'
    BY <2>1, <1>0, <1>1, <1>2, <1>8, <1>9 DEF Ownership
  <2>3. Telling'
    BY <1>1, <1>2, <1>8 DEF Telling
  <2>. QED BY <2>2, <2>3, <1>0, <1>1 DEF Queued
<1>11. Known'
  BY <1>0, <1>3, <1>9 DEF Known, Due
<1>12. First'
  <2>1. \A u \in Threads : \A i \in DOMAIN todo'[u] : todo'[u][i].on = e
    BY <1>8 DEF InHand
  <2>. QED BY <2>1, <1>3, <1>9 DEF First, Owner
<1>13. Cleared'
  <2>1. \A y \in Docs, f \in Editors : Registered(f, y) => task[f] \subseteq {page[f]}
    BY <1>0, <1>2, <1>3 DEF Cleared, Due, Clearing
  <2>. QED BY <2>1, <1>1, <1>8, <1>9 DEF Cleared, Clearing
<1>14. ASSUME NEW d \in Docs, NEW g, Aim(d, g) PROVE Aim(d, g)'
  <2>1. \A f \in Editors : ~Upstream(f)' /\ ~Upstream(f)
    BY <1>1, <1>2, <1>3, <1>8 DEF Upstream, Due
  <2>2. \A s \in InHand' : Aside(s) /\ s.on \in Editors /\ ~Owner(s.on)
    BY <1>3, <1>8 DEF Aside
  <2>. QED BY <2>1, <2>2, <1>1, <1>3, <1>14, AimStays
<1>. QED BY <1>10, <1>11, <1>12, <1>13, <1>14 DEF Tidy

-----------------------------------------------------------------------------
(* What is shown, saved and stored.                                         *)

LEMMA SetPageKeeps ==
  ASSUME Types, Orderly, Order, Tidy, NEW t \in Threads, SetPage(t)
  PROVE  Tidy' /\ \A d \in Docs : \A g : Aim(d, g) => Aim(d, g)'
<1>0. Maps /\ Flowing /\ Calls /\ Ownership /\ Cleared
  BY DEF Types, Tidy
<1>s. PICK s : s = At(t)
  OBVIOUS
<1>f. PICK f : f = s.on
  OBVIOUS
<1>1. /\ Next1(t, "page") /\ Then(t, <<>>) /\ page' = [page EXCEPT ![f] = s.arg]
      /\ UNCHANGED <<oldHtml, accepted, noticed, waiting, task, stored, saveJobs>> /\ Standing
  BY <1>s, <1>f DEF SetPage, Orderly, Standing, docVars, notifierVars, history
<1>2. s.op = "page" /\ f \in Editors /\ todo[t] # <<>> /\ s = todo[t][1] /\ 1 \in DOMAIN todo[t]
  BY <1>0, <1>1, <1>s, <1>f, HeadIs
<1>3. <<>> \in Seq(Steps(typed)) /\ DOMAIN <<>> = {}
  OBVIOUS
<1>4. Moves(t, <<>>)
  BY <1>0, <1>1, <1>2, <1>3, HandMoves
<1>5. /\ \A r \in InHand' : r \in InHand
      /\ \A r \in InHand : r \in InHand' \/ r = s
      /\ s \in InHand /\ \A r \in InHand : r.on \in Editors
  BY <1>0, <1>3, <1>4, <1>s, InHandIs, StepIs DEF Moves
<1>6. ~Upstream(f) /\ \A d \in Docs : Registered(f, d) => ~Owns(f, d)
  BY <1>0, <1>2, <1>5, <1>f, Bystanders
<1>7. /\ \A e, x : Registered(e, x)' <=> Registered(e, x)
      /\ \A e, x : Owns(e, x)' <=> Owns(e, x)
      /\ UNCHANGED <<loadedObject, again, latest>>
  BY <1>1, StandingIs DEF Standing
<1>8. page'[f] = s.arg /\ \A e \in Editors : e # f => page'[e] = page[e]
  BY <1>0, <1>1, <1>2 DEF Flowing
<1>9. Tidy'
  <2>1. \A e : Clearing(e) => Clearing(e)'
    BY <1>2, <1>4, <1>s, StaysClearing
  <2>2. task[f] = {} \/ Clearing(f)
    BY <1>0, <1>2, <1>5, <1>f DEF Cleared
  <2>3. \A e \in Editors : Clean(e)
    BY <2>1, <2>2, <1>1, <1>6, <1>8 DEF Clean
  <2>4. Tame(<<>>)
    BY <1>3 DEF Tame
  <2>5. Queued'
    BY <1>1 DEF Tidy, Queued
  <2>. QED BY <2>3, <2>4, <2>5, <1>0, <1>1, <1>2, <1>3, <1>s, CallKeepsTidy
<1>10. ASSUME NEW d \in Docs, NEW g, Aim(d, g) PROVE Aim(d, g)'
  <2>0. Newest(d, g) /\ Carried(d, g) /\ Shown(d, g) /\ Stored(d, g) /\ Told(d, g) /\ Loaded(d, g)
    BY <1>10 DEF Aim
  <2>1. \A e \in Editors : Upstream(e)' <=> Upstream(e)
    BY <1>1, <1>2, <1>5 DEF Upstream, Due
  <2>2. /\ Pending(d)' <=> Pending(d)
        /\ Saving(d)' <=> Saving(d)
        /\ Storing(d)' <=> Storing(d)
    BY <2>1, <1>2, <1>5, <1>7 DEF Pending, Saving, Storing
  <2>3. Newest(d, g)'
    BY <2>0, <2>1, <1>6, <1>7, <1>8 DEF Newest
  <2>4. Carried(d, g)'
    BY <2>0, <2>1, <2>2, <1>5, <1>7 DEF Carried
  <2>5. \A e \in Editors : e # f => (Due("page", e) => Due("page", e)')
    BY <1>5, <1>f DEF Due
  <2>6. Shown(d, g)'
    <3>1. Registered(f, d) => Pending(d) \/ s.arg = g
      BY <2>0, <1>2, <1>5, <1>f DEF Carried
    <3>. QED BY <3>1, <2>0, <2>2, <2>5, <1>6, <1>7, <1>8 DEF Shown
  <2>7. Stored(d, g)' /\ Told(d, g)'
    BY <2>0, <2>2, <1>1, <1>5, <1>7 DEF Stored, InJobs, Told
  <2>8. Loaded(d, g)'
    <3>. SUFFICES ASSUME NEW r \in InHand', r.op \in {"start", "loaded"}, r.arg = d
                  PROVE  /\ stored'[d] = g /\ \A j \in saveJobs' : j.doc # d
                         /\ loadedObject'[r.on] # d
                         /\ r.op = "loaded" =>
                              /\ page'[r.on] = g \/ Due("page", r.on)'
                              /\ \A q \in InHand' : q.op = "page" /\ q.on = r.on => q.arg = g
      BY DEF Loaded
    <3>1. /\ stored[d] = g /\ \A j \in saveJobs : j.doc # d
          /\ loadedObject[r.on] # d /\ r.on \in Editors
          /\ r.op = "loaded" =>
               /\ page[r.on] = g \/ Due("page", r.on)
               /\ \A q \in InHand : q.op = "page" /\ q.on = r.on => q.arg = g
      BY <2>0, <1>5 DEF Loaded
    <3>2. r.op = "loaded" /\ r.on = f => s.arg = g
      BY <3>1, <1>2, <1>5, <1>f
    <3>. QED BY <3>1, <3>2, <2>5, <1>1, <1>5, <1>7, <1>8
  <2>. QED BY <2>3, <2>4, <2>6, <2>7, <2>8 DEF Aim
<1>. QED BY <1>9, <1>10

\* What is done while a load job is under way is done for that.
LEMMA LoadingIs ==
  ASSUME Types, Order, NEW s \in InHand, s.op \in callOps, NEW q \in InHand, q.op \in {"start", "loaded"}
  PROVE  LoadStep(q.on, q.arg, s) /\ Unlisted(q.on)
<1>0. Calls /\ Phases
  BY DEF Types, Order
<1>1. PICK t \in Threads : \E i \in DOMAIN todo[t] : q = todo[t][i]
  BY <1>0, InHandIs
<1>2. todo[t] # <<>>
  BY <1>1
<1>3. ~ \A n \in 1 .. MaxLoads : todo[LoadJob(n)] = <<>>
  BY NothingIsLoaded
<1>4. PICK n \in 1 .. MaxLoads : todo[LoadJob(n)] # <<>>
  BY <1>3
<1>5. PICK i \in DOMAIN todo[LoadJob(n)] : s = todo[LoadJob(n)][i]
  BY <1>0, <1>4, LoadsAlone
<1>6. PICK k \in DOMAIN todo[LoadJob(n)] : q = todo[LoadJob(n)][k]
  BY <1>0, <1>4, LoadsAlone
<1>v. PICK v : v = todo[LoadJob(n)]
  OBVIOUS
<1>7. PICK e \in Editors, d \in Docs : LoadQueue(v, e, d)
  BY <1>4, <1>v DEF Order, LoadWork
<1>8. v # <<Step("enable", e, TRUE)>> /\ v # <<Step("start", e, d)>>
  <2>1. ASSUME NEW x, v = <<x>> PROVE s = x
    <3>1. i = 1
      BY <1>5, <1>v, <2>1
    <3>. QED BY <3>1, <1>5, <1>v, <2>1
  <2>2. /\ s # Step("enable", e, TRUE)
        /\ s # Step("start", e, d)
    BY DEF callOps, Step
  <2>. QED BY <2>1, <2>2, Zenon
<1>9. PICK p \in Seq(Steps(typed)) : v = p \o Ending(e, d) /\ Ahead(p, e, d)
  BY <1>7, <1>8 DEF LoadQueue
<1>x. PICK x : x = Ending(e, d)
  OBVIOUS
<1>10. x \in Seq(Steps(typed)) /\ Len(x) = 2 /\ x[1] = Step("loaded", e, d) /\ x[2] = Step("enable", e, TRUE)
  BY <1>x, EndingIs, Zenon
<1>11. /\ Len(p) \in Nat /\ DOMAIN p = 1 .. Len(p) /\ DOMAIN v = 1 .. Len(p) + 2
       /\ \A m \in 1 .. Len(p) + 2 : v[m] = IF m <= Len(p) THEN p[m] ELSE x[m - Len(p)]
  <2>1. /\ p \o x \in Seq(Steps(typed)) /\ Len(p \o x) = Len(p) + Len(x)
        /\ \A m \in 1 .. Len(p) + Len(x) : (p \o x)[m] = IF m <= Len(p) THEN p[m] ELSE x[m - Len(p)]
    BY <1>9, <1>10, ConcatProperties
  <2>2. v = p \o x
    BY <1>9, <1>x
  <2>3. v \in Seq(Steps(typed)) /\ Len(v) = Len(p) + 2
    BY <2>1, <2>2, <1>10
  <2>. QED BY <2>1, <2>2, <2>3, <1>9, <1>10, LenProperties
<1>12. \A m \in DOMAIN v : (m \in DOMAIN p /\ v[m] = p[m]) \/ v[m] = x[1] \/ v[m] = x[2]
  <2>. SUFFICES ASSUME NEW m \in DOMAIN v PROVE (m \in DOMAIN p /\ v[m] = p[m]) \/ v[m] = x[1] \/ v[m] = x[2]
    OBVIOUS
  <2>1. m <= Len(p) \/ m = Len(p) + 1 \/ m = Len(p) + 2
    BY <1>11
  <2>. QED BY <2>1, <1>11
<1>13. s.op \in callOps => \E m \in DOMAIN p : s = p[m]
  BY <1>5, <1>v, <1>10, <1>12 DEF Step, callOps
<1>14. LoadStep(e, d, s)
  BY <1>9, <1>13 DEF Ahead
<1>15. q = Step("loaded", e, d)
  <2>1. \A m \in DOMAIN p : p[m].op \notin {"start", "loaded"}
    BY <1>9 DEF Ahead, LoadStep, PushStep
  <2>2. x[2].op = "enable"
    BY <1>10 DEF Step
  <2>. QED BY <2>1, <2>2, <1>6, <1>v, <1>10, <1>12
<1>16. q.on = e /\ q.arg = d
  BY <1>15 DEF Step
<1>17. Unlisted(e)
  BY <1>7, <1>8 DEF LoadQueue, Unlisted
<1>. QED BY <1>14, <1>16, <1>17

LEMMA ScheduleSaveKeeps ==
  ASSUME Types, Order, Tidy, NEW t \in Threads, ScheduleSave(t)
  PROVE  Tidy' /\ \A d \in Docs : \A g : Aim(d, g) => Aim(d, g)'
<1>0. Maps /\ Flowing /\ Calls /\ Ownership /\ Queued
  BY DEF Types, Tidy
<1>s. PICK s : s = At(t)
  OBVIOUS
<1>e. PICK e : e = s.on
  OBVIOUS
<1>1. /\ Next1(t, "store") /\ Then(t, <<>>)
      /\ UNCHANGED <<page, oldHtml, accepted, noticed, waiting, task, stored>> /\ Standing
  BY DEF ScheduleSave, Standing, docVars, composerVars, notifierVars, history
<1>2. s.op = "store" /\ e \in Editors /\ todo[t] # <<>> /\ s = todo[t][1] /\ 1 \in DOMAIN todo[t]
  BY <1>0, <1>1, <1>s, <1>e, HeadIs
<1>3. <<>> \in Seq(Steps(typed)) /\ DOMAIN <<>> = {}
  OBVIOUS
<1>4. Moves(t, <<>>)
  BY <1>0, <1>1, <1>2, <1>3, HandMoves
<1>5. /\ \A r \in InHand' : r \in InHand
      /\ \A r \in InHand : r \in InHand' \/ r = s
      /\ s \in InHand /\ \A r \in InHand : r.on \in Editors
  BY <1>0, <1>3, <1>4, <1>s, InHandIs, StepIs DEF Moves
<1>6. Owner(e)
  BY <1>0, <1>2, <1>5, <1>e DEF Ownership
<1>d. PICK d0 \in Docs : d0 = loadedObject[e] /\ Owns(e, d0)
  BY <1>0, <1>2, <1>6 DEF Owner, Owns, Maps
<1>j. PICK j0 : j0 = [by |-> e, doc |-> d0, html |-> s.arg, running |-> FALSE]
  OBVIOUS
<1>7. /\ j0.by = e /\ j0.doc = d0 /\ j0.html = s.arg /\ j0.running = FALSE
      /\ saveJobs' = {j \in saveJobs : j.by # e \/ j.doc # d0 \/ j.running} \cup {j0}
  <2>1. d0 # NoDoc
    BY <1>d, EditorsDiffer
  <2>. QED BY <2>1, <1>s, <1>e, <1>d, <1>j DEF ScheduleSave
<1>8. /\ \A j \in saveJobs' : j = j0 \/ (j \in saveJobs /\ (j.doc = d0 => j.running))
      /\ \A j \in saveJobs : j.doc # d0 => j \in saveJobs'
      /\ j0 \in saveJobs'
  <2>1. \A j \in saveJobs : j.doc = d0 => j.by = e
    BY <1>0, <1>d DEF Ownership, Owns
  <2>. QED BY <2>1, <1>7
<1>9. /\ \A f, x : Registered(f, x)' <=> Registered(f, x)
      /\ \A f, x : Owns(f, x)' <=> Owns(f, x)
      /\ UNCHANGED <<loadedObject, again, latest>>
  BY <1>1, StandingIs DEF Standing
<1>10. Tidy'
  <2>1. \A f : Clearing(f) => Clearing(f)'
    BY <1>2, <1>4, <1>s, StaysClearing
  <2>2. \A f \in Editors : Clean(f)
    BY <2>1, <1>1 DEF Clean
  <2>3. Tame(<<>>)
    BY <1>3 DEF Tame
  <2>4. Queued'
    BY <1>0, <1>7, <1>8 DEF Queued
  <2>5. \A j \in saveJobs' : j \in saveJobs \/ j.by = lastFocussedEditor[j.doc]
    BY <1>7, <1>8, <1>d DEF Owns
  <2>. QED BY <2>2, <2>3, <2>4, <2>5, <1>0, <1>1, <1>2, <1>3, <1>s, CallKeepsTidy
<1>11. ASSUME NEW d \in Docs, NEW g, Aim(d, g) PROVE Aim(d, g)'
  <2>0. Newest(d, g) /\ Carried(d, g) /\ Shown(d, g) /\ Stored(d, g) /\ Told(d, g) /\ Loaded(d, g)
    BY <1>11 DEF Aim
  <2>1. \A f \in Editors : Upstream(f)' <=> Upstream(f)
    BY <1>1, <1>2, <1>5 DEF Upstream, Due
  <2>2. /\ Pending(d)' <=> Pending(d)
        /\ Saving(d)' <=> Saving(d)
        /\ d # d0 => (Storing(d)' <=> Storing(d))
    <3>1. \A x : Owns(e, x) => x = d0
      BY <1>d DEF Owns
    <3>2. Pending(d)' <=> Pending(d)
      BY <2>1, <1>9 DEF Pending
    <3>3. Saving(d)' <=> Saving(d)
      BY <1>2, <1>5, <1>9 DEF Saving
    <3>4. d # d0 => (Storing(d)' <=> Storing(d))
      BY <3>1, <1>5, <1>9, <1>e DEF Storing
    <3>. QED BY <3>2, <3>3, <3>4
  <2>3. Newest(d, g)' /\ Carried(d, g)' /\ Told(d, g)'
    BY <2>0, <2>1, <2>2, <1>1, <1>5, <1>9 DEF Newest, Carried, Told
  <2>4. \A f \in Editors : Due("page", f) => Due("page", f)'
    BY <1>2, <1>5 DEF Due
  <2>5. Shown(d, g)'
    BY <2>0, <2>2, <2>4, <1>1, <1>9 DEF Shown
  <2>6. Stored(d, g)'
    <3>1. CASE d = d0
      <4>1. Upstream(e) \/ s.arg = g
        BY <3>1, <2>0, <1>2, <1>5, <1>d, <1>e DEF Carried
      <4>2. Upstream(e) => Pending(d)'
        BY <3>1, <2>2, <1>2, <1>d DEF Pending
      <4>. QED BY <3>1, <4>1, <4>2, <1>7, <1>8 DEF Stored, InJobs
    <3>2. CASE d # d0
      <4>1. InJobs(d, g) => InJobs(d, g)'
        BY <3>2, <1>1, <1>7, <1>8 DEF InJobs
      <4>. QED BY <3>2, <4>1, <2>0, <2>2 DEF Stored
    <3>. QED BY <3>1, <3>2
  <2>7. Loaded(d, g)'
    <3>1. ASSUME NEW q \in InHand, q.op \in {"start", "loaded"}, q.arg = d PROVE d # d0
      <4>1. LoadStep(q.on, q.arg, s)
        BY <3>1, <1>2, <1>5, LoadingIs DEF callOps
      <4>2. loadedObject[q.on] = d0
        BY <4>1, <1>2, <1>d, <1>e DEF LoadStep, PushStep
      <4>. QED BY <4>2, <3>1, <2>0 DEF Loaded
    <3>. QED BY <3>1, <2>0, <2>4, <1>1, <1>5, <1>7, <1>8, <1>9 DEF Loaded
  <2>. QED BY <2>3, <2>5, <2>6, <2>7 DEF Aim
<1>. QED BY <1>10, <1>11

\* What the owner e of d0 does when it saves h: it shows h in the others, each of
\* which is told first, and stores h.
Pushes(r, e, d0, h) ==
  /\ \A i \in DOMAIN r :
       /\ r[i].on \in Editors /\ r[i].op \in {"notify", "assign", "page", "store"}
       /\ r[i].op \in {"page", "store"} => r[i].arg = h
       /\ r[i].op = "store" => r[i].on = e
       /\ r[i].op # "store" => r[i].on # e /\ Registered(r[i].on, d0)
       /\ r[i].op = "page" => \E k \in DOMAIN r : r[k].op = "notify" /\ r[k].on = r[i].on
  /\ \A f \in Editors : Registered(f, d0) /\ f # e => \E i \in DOMAIN r : r[i].op = "page" /\ r[i].on = f
  /\ \E i \in DOMAIN r : r[i].op = "store" /\ r[i].on = e

LEMMA SavePuts ==
  ASSUME Types, NEW e \in Editors, NEW d0 \in Docs, NEW h \in Contents(typed)
  PROVE  \E r \in Seq(Steps(typed)) :
           r = SetSources(responsibleEditors[d0], e, h) \o <<Step("store", e, h)>> /\ Pushes(r, e, d0, h)
<1>0. Maps
  BY DEF Types
<1>l. PICK list \in Seq(Editors) : list = responsibleEditors[d0]
  BY <1>0 DEF Maps
<1>p. PICK p : p = SetSources(list, e, h)
  OBVIOUS
<1>z. PICK z \in Steps(typed) : z = Step("store", e, h)
  BY IsAStep
<1>. DEFINE All == UNION {{Step("notify", f, h), Step("assign", f, h), Step("page", f, h)} :
                            f \in {list[k] : k \in 1 .. Len(list)} \ {e}}
<1>1. /\ p \in Seq(All)
      /\ \A k \in 1 .. Len(list) : list[k] # e => \E i \in DOMAIN p : p[i] = Step("page", list[k], h)
      /\ \A i \in DOMAIN p : p[i].op = "page" =>
           \E k \in DOMAIN p : k < i /\ p[k].op = "notify" /\ p[k].on = p[i].on
  <2>1. LoopDone(p, Len(list), list, e, h)
    BY <1>p, SetSourcesAre
  <2>. QED BY <2>1 DEF LoopDone
<1>2. p \in Seq(Steps(typed))
  BY <1>p, SetSourcesTyped
<1>3. \A s \in All : /\ s.on \in Editors /\ s.on # e /\ Registered(s.on, d0)
                     /\ s.op \in {"notify", "assign", "page"} /\ s.arg = h
  <2>1. \A f \in {list[k] : k \in 1 .. Len(list)} \ {e} : f \in Editors /\ f # e /\ Registered(f, d0)
    <3>. SUFFICES ASSUME NEW k \in 1 .. Len(list), list[k] # e PROVE list[k] \in Editors /\ Registered(list[k], d0)
      OBVIOUS
    <3>1. list[k] \in Editors /\ k \in DOMAIN list
      OBVIOUS
    <3>. QED BY <3>1, <1>l DEF Registered
  <2>2. \A f \in Editors : f # e /\ Registered(f, d0) =>
          \A s \in {Step("notify", f, h), Step("assign", f, h), Step("page", f, h)} :
            /\ s.on \in Editors /\ s.on # e /\ Registered(s.on, d0)
            /\ s.op \in {"notify", "assign", "page"} /\ s.arg = h
    BY DEF Step
  <2>. SUFFICES ASSUME NEW s \in All
                PROVE  /\ s.on \in Editors /\ s.on # e /\ Registered(s.on, d0)
                       /\ s.op \in {"notify", "assign", "page"} /\ s.arg = h
    OBVIOUS
  <2>3. PICK f \in {list[k] : k \in 1 .. Len(list)} \ {e} :
          s \in {Step("notify", f, h), Step("assign", f, h), Step("page", f, h)}
    OBVIOUS
  <2>4. f \in Editors /\ f # e /\ Registered(f, d0)
    BY <2>1
  <2>. QED BY <2>2, <2>3, <2>4
<1>. HIDE DEF All
<1>4. \A i \in DOMAIN p : /\ p[i].on \in Editors /\ p[i].on # e /\ Registered(p[i].on, d0)
                          /\ p[i].op \in {"notify", "assign", "page"} /\ p[i].arg = h
  <2>1. \A i \in DOMAIN p : p[i] \in All
    BY <1>1
  <2>. QED BY <2>1, <1>3
<1>5. z.op = "store" /\ z.on = e /\ z.arg = h
  BY <1>z DEF Step
<1>r. PICK r : r = p \o <<z>>
  OBVIOUS
<1>6. /\ r \in Seq(Steps(typed)) /\ \A i \in DOMAIN p : i \in DOMAIN r /\ r[i] = p[i]
      /\ \A i \in DOMAIN r : (i \in DOMAIN p /\ r[i] = p[i]) \/ r[i] = z
      /\ \E i \in DOMAIN r : r[i] = z
  <2>0. <<z>> \in Seq(Steps(typed)) /\ Len(<<z>>) = 1 /\ <<z>>[1] = z
    OBVIOUS
  <2>x. PICK x \in Seq(Steps(typed)) : x = <<z>> /\ Len(x) = 1 /\ x[1] = z
    BY <2>0
  <2>1. /\ p \o x \in Seq(Steps(typed)) /\ Len(p \o x) = Len(p) + Len(x)
        /\ \A i \in 1 .. Len(p) + Len(x) : (p \o x)[i] = IF i <= Len(p) THEN p[i] ELSE x[i - Len(p)]
    BY <1>2, ConcatProperties
  <2>2. r = p \o x
    BY <1>r, <2>x
  <2>3. /\ r \in Seq(Steps(typed)) /\ Len(r) = Len(p) + 1
        /\ \A i \in 1 .. Len(p) + 1 : r[i] = IF i <= Len(p) THEN p[i] ELSE x[i - Len(p)]
    BY <2>1, <2>2, <2>x
  <2>4. Len(p) \in Nat /\ DOMAIN p = 1 .. Len(p) /\ DOMAIN r = 1 .. Len(p) + 1
    BY <1>2, <2>3, LenProperties
  <2>5. \A i \in DOMAIN p : i \in DOMAIN r /\ r[i] = p[i]
    BY <2>3, <2>4
  <2>6. Len(p) + 1 \in DOMAIN r /\ r[Len(p) + 1] = z
    BY <2>3, <2>4, <2>x
  <2>7. \A i \in DOMAIN r : i \in DOMAIN p \/ i = Len(p) + 1
    BY <2>4
  <2>. QED BY <2>3, <2>5, <2>6, <2>7
<1>7. \A f \in Editors : Registered(f, d0) /\ f # e => \E i \in DOMAIN r : r[i].op = "page" /\ r[i].on = f
  <2>. SUFFICES ASSUME NEW f \in Editors, Registered(f, d0), f # e
                PROVE  \E i \in DOMAIN r : r[i].op = "page" /\ r[i].on = f
    OBVIOUS
  <2>1. PICK k \in 1 .. Len(list) : list[k] = f
    BY <1>l DEF Registered
  <2>2. PICK i \in DOMAIN p : p[i] = Step("page", f, h)
    BY <1>1, <2>1
  <2>3. p[i].op = "page" /\ p[i].on = f
    BY <2>2 DEF Step
  <2>. QED BY <2>2, <2>3, <1>6
<1>8. Pushes(r, e, d0, h)
  <2>1. \A i \in DOMAIN r :
          /\ r[i].on \in Editors /\ r[i].op \in {"notify", "assign", "page", "store"}
          /\ r[i].op \in {"page", "store"} => r[i].arg = h
          /\ r[i].op = "store" => r[i].on = e
          /\ r[i].op # "store" => r[i].on # e /\ Registered(r[i].on, d0)
    BY <1>4, <1>5, <1>6
  <2>2. \A i \in DOMAIN r : r[i].op = "page" => \E k \in DOMAIN r : r[k].op = "notify" /\ r[k].on = r[i].on
    <3>. SUFFICES ASSUME NEW i \in DOMAIN r, r[i].op = "page"
                  PROVE  \E k \in DOMAIN r : r[k].op = "notify" /\ r[k].on = r[i].on
      OBVIOUS
    <3>1. i \in DOMAIN p /\ r[i] = p[i]
      BY <1>5, <1>6
    <3>2. PICK k \in DOMAIN p : p[k].op = "notify" /\ p[k].on = p[i].on
      BY <3>1, <1>1
    <3>. QED BY <3>1, <3>2, <1>6
  <2>3. \E i \in DOMAIN r : r[i].op = "store" /\ r[i].on = e
    BY <1>5, <1>6
  <2>. QED BY <2>1, <2>2, <2>3, <1>7 DEF Pushes
<1>. QED BY <1>6, <1>8, <1>l, <1>p, <1>r, <1>z

LEMMA OwnerSaveKeeps ==
  ASSUME Types, Order, Tidy, NEW t \in Threads, Save(t), Owner(At(t).on)
  PROVE  Tidy' /\ \A d \in Docs : \A g : Aim(d, g) => Aim(d, g)'
<1>0. Maps /\ Flowing /\ Calls /\ Registration
  BY DEF Types, Order
<1>s. PICK s : s = At(t)
  OBVIOUS
<1>e. PICK e : e = s.on
  OBVIOUS
<1>h. PICK h : h = s.arg
  OBVIOUS
<1>1. /\ Next1(t, "save") /\ UNCHANGED <<page, oldHtml, accepted, noticed, waiting, task, stored, saveJobs>> /\ Standing
  BY DEF Save, Standing, docVars, composerVars, notifierVars, history
<1>2. s.op = "save" /\ e \in Editors /\ todo[t] # <<>> /\ s = todo[t][1] /\ 1 \in DOMAIN todo[t] /\ h \in Contents(typed)
  <2>1. s.op = "save" /\ e \in Editors /\ todo[t] # <<>> /\ s = todo[t][1] /\ 1 \in DOMAIN todo[t] /\ s \in Steps(typed)
    BY <1>0, <1>1, <1>s, <1>e, HeadIs
  <2>. QED BY <2>1, <1>h, StepIs
<1>d. PICK d0 \in Docs : d0 = loadedObject[e] /\ Owns(e, d0) /\ Owner(e)
  BY <1>0, <1>2, <1>s, <1>e DEF Owner, Owns, Maps
<1>r. PICK r \in Seq(Steps(typed)) :
        r = SetSources(responsibleEditors[d0], e, h) \o <<Step("store", e, h)>> /\ Pushes(r, e, d0, h)
  BY <1>2, SavePuts
<1>3. Then(t, r)
  <2>1. d0 # NoDoc /\ lastFocussedEditor[d0] = e
    BY <1>d, EditorsDiffer DEF Owns
  <2>. QED BY <2>1, <1>s, <1>e, <1>h, <1>d, <1>r DEF Save
<1>4. Moves(t, r)
  BY <1>0, <1>2, <1>3, HandMoves
<1>p. /\ \A i \in DOMAIN r :
           /\ r[i].on \in Editors /\ r[i].op \in {"notify", "assign", "page", "store"}
           /\ r[i].op \in {"page", "store"} => r[i].arg = h
           /\ r[i].op = "store" => r[i].on = e
           /\ r[i].op # "store" => r[i].on # e /\ Registered(r[i].on, d0)
           /\ r[i].op = "page" => \E k \in DOMAIN r : r[k].op = "notify" /\ r[k].on = r[i].on
      /\ \A f \in Editors : Registered(f, d0) /\ f # e => \E i \in DOMAIN r : r[i].op = "page" /\ r[i].on = f
      /\ \E i \in DOMAIN r : r[i].op = "store" /\ r[i].on = e
  BY <1>r DEF Pushes
<1>5. /\ \A f \in Editors : Registered(f, d0) /\ f # e => ~Owner(f)
      /\ \A f \in Editors, x \in Docs : Registered(f, x) /\ Registered(f, d0) => x = d0
      /\ \A x : Owns(e, x) => x = d0
      /\ \A f \in Editors, x \in Docs : Owns(f, x) => Owner(f)
  BY <1>0, <1>d, EditorsDiffer DEF Registration, Owner, Owns
<1>6. \A q \in InHand' : \/ q \in InHand
                         \/ /\ q.on \in Editors /\ q.op \in {"notify", "assign", "page", "store"}
                            /\ q.op \in {"page", "store"} => q.arg = h
                            /\ q.op = "store" => q.on = e
                            /\ q.op # "store" => q.on # e /\ Registered(q.on, d0) /\ ~Owner(q.on)
  BY <1>4, <1>5, <1>p DEF Moves
<1>7. /\ \A q \in InHand : q \in InHand' \/ q = s
      /\ s \in InHand /\ \A q \in InHand : q.on \in Editors
  BY <1>0, <1>4, <1>s, InHandIs, StepIs DEF Moves
<1>8. /\ \A f \in Editors : Registered(f, d0) /\ f # e => Due("page", f)'
      /\ \E q \in InHand' : q.op = "store" /\ q.on = e
  <2>1. \A i \in DOMAIN r : r[i] \in InHand'
    BY <1>4 DEF Moves
  <2>. QED BY <2>1, <1>p DEF Due
<1>9. /\ \A f, x : Registered(f, x)' <=> Registered(f, x)
      /\ \A f, x : Owns(f, x)' <=> Owns(f, x)
      /\ UNCHANGED <<loadedObject, again, latest>>
  BY <1>1, StandingIs DEF Standing
<1>10. Tidy'
  <2>1. \A f : Clearing(f) => Clearing(f)'
    BY <1>2, <1>4, <1>s, StaysClearing
  <2>2. \A f \in Editors : Clean(f)
    BY <2>1, <1>1 DEF Clean
  <2>3. Tame(r)
    BY <1>5, <1>d, <1>p DEF Tame
  <2>4. Queued'
    BY <1>1 DEF Tidy, Queued
  <2>. QED BY <2>2, <2>3, <2>4, <1>0, <1>1, <1>2, <1>3, <1>s, CallKeepsTidy
<1>11. ASSUME NEW d \in Docs, NEW g, Aim(d, g) PROVE Aim(d, g)'
  <2>0. Newest(d, g) /\ Carried(d, g) /\ Shown(d, g) /\ Stored(d, g) /\ Told(d, g) /\ Loaded(d, g)
    BY <1>11 DEF Aim
  <2>1. \A f \in Editors : Upstream(f)' <=> Upstream(f)
    <3>1. \A f \in Editors : Due("modify", f)' <=> Due("modify", f)
      BY <1>2, <1>6, <1>7 DEF Due
    <3>. QED BY <3>1, <1>1 DEF Upstream
  <2>2. Pending(d)' <=> Pending(d)
    BY <2>1, <1>9 DEF Pending
  <2>3. d = d0 => (Upstream(e) /\ Pending(d)) \/ h = g
    BY <2>0, <1>2, <1>7, <1>d, <1>e, <1>h DEF Carried, Pending
  <2>4. d = d0 => Storing(d)'
    BY <1>8, <1>9, <1>d DEF Storing
  <2>5. d # d0 => (Saving(d) => Saving(d)')
    BY <1>5, <1>7, <1>9, <1>e DEF Saving
  <2>6. Storing(d) => Storing(d)'
    BY <1>2, <1>7, <1>9 DEF Storing
  <2>7. Newest(d, g)'
    BY <2>0, <2>1, <1>1, <1>9 DEF Newest
  <2>8. Carried(d, g)'
    <3>1. ASSUME NEW q \in InHand', q.op \in {"save", "store"}, Owns(q.on, d)
          PROVE  Upstream(q.on)' \/ q.arg = g
      <4>1. CASE q \in InHand
        BY <3>1, <4>1, <2>0, <2>1, <1>7 DEF Carried
      <4>2. CASE q \notin InHand
        <5>1. q.on = e /\ q.arg = h /\ d = d0
          BY <3>1, <4>2, <1>5, <1>6
        <5>. QED BY <5>1, <2>1, <2>3, <1>2
      <4>. QED BY <4>1, <4>2
    <3>2. ASSUME NEW q \in InHand', q.op = "page", Registered(q.on, d)
          PROVE  Pending(d)' \/ q.arg = g
      <4>1. CASE q \in InHand
        BY <3>2, <4>1, <2>0, <2>2 DEF Carried
      <4>2. CASE q \notin InHand
        <5>1. q.arg = h /\ d = d0
          BY <3>2, <4>2, <1>5, <1>6
        <5>. QED BY <5>1, <2>2, <2>3
      <4>. QED BY <4>1, <4>2
    <3>. QED BY <3>1, <3>2, <1>9 DEF Carried
  <2>9. \A f \in Editors : Due("page", f) => Due("page", f)'
    BY <1>2, <1>7 DEF Due
  <2>10. Shown(d, g)'
    <3>1. CASE d = d0
      BY <3>1, <2>0, <2>2, <1>1, <1>8, <1>9, <1>d DEF Shown
    <3>2. CASE d # d0
      BY <3>2, <2>0, <2>2, <2>5, <2>9, <1>1, <1>9 DEF Shown
    <3>. QED BY <3>1, <3>2
  <2>11. Stored(d, g)'
    <3>1. InJobs(d, g) => InJobs(d, g)'
      BY <1>1 DEF InJobs
    <3>. QED BY <3>1, <2>0, <2>2, <2>4, <2>5, <2>6 DEF Stored
  <2>12. Told(d, g)'
    <3>1. \A q \in InHand' : q.op \in {"start", "notify"} /\ Owns(q.on, d) => q \in InHand
      BY <1>5, <1>6
    <3>. QED BY <3>1, <2>0, <1>1, <1>9 DEF Told
  <2>13. Loaded(d, g)'
    <3>. SUFFICES ASSUME NEW q \in InHand', q.op \in {"start", "loaded"}, q.arg = d
                  PROVE  /\ stored'[d] = g /\ \A j \in saveJobs' : j.doc # d
                         /\ loadedObject'[q.on] # d
                         /\ q.op = "loaded" =>
                              /\ page'[q.on] = g \/ Due("page", q.on)'
                              /\ \A p \in InHand' : p.op = "page" /\ p.on = q.on => p.arg = g
      BY DEF Loaded
    <3>1. q \in InHand
      BY <1>6
    <3>2. /\ stored[d] = g /\ \A j \in saveJobs : j.doc # d
          /\ loadedObject[q.on] # d /\ q.on \in Editors
          /\ q.op = "loaded" =>
               /\ page[q.on] = g \/ Due("page", q.on)
               /\ \A p \in InHand : p.op = "page" /\ p.on = q.on => p.arg = g
      BY <3>1, <2>0, <1>7 DEF Loaded
    <3>3. ~Registered(q.on, d0)
      <4>1. Unlisted(q.on)
        BY <3>1, <1>2, <1>7, LoadingIs DEF callOps
      <4>. QED BY <4>1 DEF Unlisted
    <3>4. \A p \in InHand' : p.op = "page" /\ p.on = q.on => p \in InHand
      BY <3>3, <1>6
    <3>5. Due("page", q.on) => Due("page", q.on)'
      BY <2>9, <3>2
    <3>. QED BY <3>2, <3>4, <3>5, <1>1, <1>9
  <2>. QED BY <2>7, <2>8, <2>10, <2>11, <2>12, <2>13 DEF Aim
<1>. QED BY <1>10, <1>11

\* What the jobs of other documents do is of no concern.
Written(d, g) ==
  /\ InJobs(d, g) => InJobs(d, g)'
  /\ (\A j \in saveJobs : j.doc # d) => stored'[d] = stored[d] /\ \A j \in saveJobs' : j.doc # d

LEMMA JobKeeps ==
  ASSUME UNCHANGED <<loadedObject, responsibleEditors, lastFocussedEditor, page, oldHtml, noticed, accepted, task, waiting, todo, again, latest>>
  PROVE  /\ Tidy /\ Queued' /\ (\A j \in saveJobs' : j.by = lastFocussedEditor[j.doc]) => Tidy'
         /\ \A d \in Docs : \A g : Aim(d, g) /\ Written(d, g) => Aim(d, g)'
<1>1. InHand' = InHand
  BY DEF InHand
<1>2. /\ \A f, x : Registered(f, x)' <=> Registered(f, x)
      /\ \A f, x : Owns(f, x)' <=> Owns(f, x)
      /\ \A f : Owner(f)' <=> Owner(f)
      /\ \A op, f : Due(op, f)' <=> Due(op, f)
      /\ \A f : Clearing(f)' <=> Clearing(f)
      /\ \A f : Upstream(f)' <=> Upstream(f)
  <2>1. /\ \A f, x : Registered(f, x)' <=> Registered(f, x)
        /\ \A f, x : Owns(f, x)' <=> Owns(f, x)
        /\ \A f : Owner(f)' <=> Owner(f)
    BY DEF Registered, Owns, Owner
  <2>2. \A op, f : Due(op, f)' <=> Due(op, f)
    BY <1>1 DEF Due
  <2>. QED BY <2>1, <2>2 DEF Clearing, Upstream
<1>3. ASSUME Tidy, Queued', \A j \in saveJobs' : j.by = lastFocussedEditor[j.doc] PROVE Tidy'
  <2>0. Ownership /\ Telling /\ Known /\ First /\ Cleared
    BY <1>3 DEF Tidy
  <2>1. Ownership'
    BY <2>0, <1>1, <1>2, <1>3 DEF Ownership
  <2>2. Telling'
    BY <2>0, <1>1, <1>2 DEF Telling
  <2>3. Known'
    BY <2>0, <1>2 DEF Known
  <2>4. First'
    BY <2>0, <1>2 DEF First, Owner
  <2>5. Cleared'
    BY <2>0, <1>1, <1>2 DEF Cleared
  <2>. QED BY <2>1, <2>2, <2>3, <2>4, <2>5, <1>3 DEF Tidy
<1>4. ASSUME NEW d \in Docs, NEW g, Aim(d, g), Written(d, g) PROVE Aim(d, g)'
  <2>0. Newest(d, g) /\ Carried(d, g) /\ Shown(d, g) /\ Stored(d, g) /\ Told(d, g) /\ Loaded(d, g)
    BY <1>4 DEF Aim
  <2>1. /\ Pending(d)' <=> Pending(d)
        /\ Saving(d)' <=> Saving(d)
        /\ Storing(d)' <=> Storing(d)
    BY <1>1, <1>2 DEF Pending, Saving, Storing
  <2>2. Newest(d, g)'
    BY <2>0, <1>2 DEF Newest
  <2>3. Carried(d, g)'
    BY <2>0, <2>1, <1>1, <1>2 DEF Carried
  <2>4. Shown(d, g)'
    BY <2>0, <2>1, <1>2 DEF Shown
  <2>5. Stored(d, g)'
    BY <2>0, <2>1, <1>4 DEF Stored, Written
  <2>6. Told(d, g)'
    BY <2>0, <1>1, <1>2 DEF Told
  <2>7. Loaded(d, g)'
    <3>. SUFFICES ASSUME NEW s \in InHand, s.op \in {"start", "loaded"}, s.arg = d
                  PROVE  /\ stored'[d] = g /\ \A j \in saveJobs' : j.doc # d
                         /\ loadedObject[s.on] # d
                         /\ s.op = "loaded" =>
                              /\ page[s.on] = g \/ Due("page", s.on)
                              /\ \A r \in InHand : r.op = "page" /\ r.on = s.on => r.arg = g
      BY <1>1, <1>2 DEF Loaded
    <3>1. /\ stored[d] = g /\ \A j \in saveJobs : j.doc # d
          /\ loadedObject[s.on] # d
          /\ s.op = "loaded" =>
               /\ page[s.on] = g \/ Due("page", s.on)
               /\ \A r \in InHand : r.op = "page" /\ r.on = s.on => r.arg = g
      BY <2>0 DEF Loaded
    <3>. QED BY <3>1, <1>4 DEF Written
  <2>. QED BY <2>2, <2>3, <2>4, <2>5, <2>6, <2>7 DEF Aim
<1>. QED BY <1>3, <1>4

LEMMA SaveJobKeeps ==
  ASSUME Types, Orderly, Tidy, NEW j \in saveJobs, StartSaveJob(j) \/ FinishSaveJob(j)
  PROVE  Tidy' /\ \A d \in Docs : \A g : Aim(d, g) => Aim(d, g)'
<1>0. Flowing /\ Ownership /\ Queued
  BY DEF Types, Tidy
<1>1. UNCHANGED <<loadedObject, responsibleEditors, lastFocussedEditor, page, oldHtml, accepted, noticed, task, waiting, todo, again, latest>>
  BY DEF StartSaveJob, FinishSaveJob, docVars, composerVars, notifierVars, history
<1>2. j.doc \in Docs /\ \A k \in saveJobs : k.running \in BOOLEAN
  BY <1>0 DEF Flowing, SaveJobs
<1>3. CASE StartSaveJob(j)
  <2>1. /\ ~j.running /\ \A k \in saveJobs : k.doc = j.doc => ~k.running
        /\ saveJobs' = (saveJobs \ {j}) \cup {[j EXCEPT !.running = TRUE]} /\ stored' = stored
    BY <1>3 DEF StartSaveJob, Orderly
  <2>i. PICK i : i = [j EXCEPT !.running = TRUE]
    OBVIOUS
  <2>2. i.by = j.by /\ i.doc = j.doc /\ i.html = j.html /\ i.running = TRUE
    <3>1. j \in SaveJobs(typed)
      BY <1>0 DEF Flowing
    <3>. QED BY <3>1, <2>i DEF SaveJobs
  <2>3. \A k \in saveJobs : k.doc = j.doc => k = j
    BY <2>1, <1>0, <1>2 DEF Queued
  <2>4. /\ \A k \in saveJobs' : (k \in saveJobs /\ k.doc # j.doc) \/ k = i
        /\ \A k \in saveJobs : k.doc # j.doc => k \in saveJobs'
        /\ i \in saveJobs'
    BY <2>1, <2>3, <2>i
  <2>5. Queued'
    BY <2>2, <2>4, <1>0 DEF Queued
  <2>6. \A k \in saveJobs' : k.by = lastFocussedEditor[k.doc]
    BY <2>2, <2>4, <1>0 DEF Ownership
  <2>7. \A d \in Docs : \A g : Written(d, g)
    <3>. SUFFICES ASSUME NEW d \in Docs, NEW g PROVE Written(d, g)
      OBVIOUS
    <3>1. CASE d = j.doc
      <4>1. InJobs(d, g) => j.html = g
        BY <3>1, <2>1, <2>3 DEF InJobs
      <4>2. j.html = g => InJobs(d, g)'
        BY <3>1, <2>2, <2>4 DEF InJobs
      <4>. QED BY <3>1, <4>1, <4>2 DEF Written
    <3>2. CASE d # j.doc
      <4>1. InJobs(d, g) => InJobs(d, g)'
        BY <3>2, <2>1, <2>2, <2>4 DEF InJobs
      <4>. QED BY <4>1, <3>2, <2>1, <2>2, <2>4 DEF Written
    <3>. QED BY <3>1, <3>2
  <2>. QED BY <2>5, <2>6, <2>7, <1>1, JobKeeps
<1>4. CASE FinishSaveJob(j)
  <2>1. j.running /\ saveJobs' = saveJobs \ {j} /\ stored' = [stored EXCEPT ![j.doc] = j.html]
    BY <1>4 DEF FinishSaveJob
  <2>2. stored'[j.doc] = j.html /\ \A d \in Docs : d # j.doc => stored'[d] = stored[d]
    BY <2>1, <1>0, <1>2 DEF Flowing
  <2>3. Queued'
    BY <2>1, <1>0 DEF Queued
  <2>4. \A k \in saveJobs' : k.by = lastFocussedEditor[k.doc]
    BY <2>1, <1>0 DEF Ownership
  <2>5. \A d \in Docs : \A g : Written(d, g)
    <3>. SUFFICES ASSUME NEW d \in Docs, NEW g PROVE Written(d, g)
      OBVIOUS
    <3>1. CASE d = j.doc
      <4>1. ASSUME InJobs(d, g) PROVE InJobs(d, g)'
        <5>1. CASE \E k \in saveJobs : k.doc = d /\ ~k.running /\ k.html = g
          BY <5>1, <2>1 DEF InJobs
        <5>2. CASE \A k \in saveJobs : k.doc = d => k.running /\ k.html = g
          <6>1. \A k \in saveJobs : k.doc = d => k = j
            BY <5>2, <3>1, <2>1, <1>0, <1>2 DEF Queued
          <6>2. \A k \in saveJobs' : k.doc # d
            BY <6>1, <2>1
          <6>3. stored'[d] = g
            BY <5>2, <3>1, <2>2
          <6>. QED BY <6>2, <6>3 DEF InJobs
        <5>. QED BY <4>1, <5>1, <5>2 DEF InJobs
      <4>. QED BY <4>1, <3>1 DEF Written
    <3>2. CASE d # j.doc
      <4>1. InJobs(d, g) => InJobs(d, g)'
        BY <3>2, <2>1, <2>2 DEF InJobs
      <4>. QED BY <4>1, <3>2, <2>1, <2>2 DEF Written
    <3>. QED BY <3>1, <3>2
  <2>. QED BY <2>3, <2>4, <2>5, <1>1, JobKeeps
<1>. QED BY <1>3, <1>4

LEMMA TimerKeeps ==
  ASSUME Types, Order, Tidy, NEW e \in Editors, TimerFires(e)
  PROVE  Tidy' /\ \A d \in Docs : \A g : Aim(d, g) => Aim(d, g)'
<1>0. Maps /\ Flowing /\ Calls /\ Registration /\ Timer(e) \in Threads
      /\ Ownership /\ Telling /\ Queued /\ Known /\ First /\ Cleared
  BY ThreadsDiffer DEF Types, Order, Tidy
<1>1. /\ todo[Timer(e)] = <<>> /\ waiting[e] /\ waiting' = [waiting EXCEPT ![e] = FALSE]
      /\ UNCHANGED <<page, oldHtml, accepted, noticed, task, stored, saveJobs>> /\ Standing
  BY DEF TimerFires, Standing, docVars, composerVars, history
<1>h. PICK h \in task[e] : todo' = [todo EXCEPT ![Timer(e)] = <<Step("save", e, h)>>]
  BY DEF TimerFires
<1>m. PICK m : m = Step("save", e, h)
  OBVIOUS
<1>q. PICK q : q = <<m>>
  OBVIOUS
<1>2. m.op = "save" /\ m.on = e /\ m.arg = h /\ DOMAIN q = {1} /\ q[1] = m
  BY <1>m, <1>q DEF Step
<1>3. Begins(Timer(e), q)
  BY <1>0, <1>1, <1>h, <1>m, <1>q, HandGrows
<1>4. /\ \A s \in InHand' : s \in InHand \/ s = m
      /\ \A s \in InHand : s \in InHand'
      /\ m \in InHand' /\ \A s \in InHand : s.on \in Editors
  BY <1>0, <1>2, <1>3, InHandIs, StepIs DEF Begins
<1>d. PICK d0 \in Docs : d0 = loadedObject[e] /\ Owns(e, d0) /\ Owner(e)
  <2>1. Owner(e)
    BY <1>0, <1>1 DEF Ownership
  <2>. QED BY <2>1, <1>0 DEF Owner, Owns, Maps
<1>5. /\ \A f, x : Registered(f, x)' <=> Registered(f, x)
      /\ \A f, x : Owns(f, x)' <=> Owns(f, x)
      /\ \A f : Owner(f)' <=> Owner(f)
      /\ UNCHANGED <<loadedObject, lastFocussedEditor, again, latest>>
  BY <1>1, StandingIs DEF Standing, docVars
<1>6. \A f \in Editors : waiting'[f] <=> waiting[f] /\ f # e
  BY <1>0, <1>1 DEF Maps
<1>7. /\ \A f \in Editors : Due("modify", f)' <=> Due("modify", f)
      /\ \A f \in Editors : Due("start", f) => Due("start", f)'
      /\ \A f \in Editors : Due("loaded", f) => Due("loaded", f)'
      /\ \A f \in Editors : Due("page", f) => Due("page", f)'
      /\ \A f \in Editors : Clearing(f) => Clearing(f)'
  BY <1>2, <1>4 DEF Due, Clearing
<1>8. Ownership'
  <2>1. \A f \in Editors : f # e => todo'[Timer(f)] = todo[Timer(f)]
    BY <1>3, ThreadsDiffer DEF Begins
  <2>2. \A f \in Editors : noticed'[f] \/ waiting'[f] \/ todo'[Timer(f)] # <<>> => Owner(f)'
    BY <2>1, <1>0, <1>1, <1>5, <1>6, <1>d DEF Ownership
  <2>3. \A s \in InHand' : s.op \in {"modify", "store"} => Owner(s.on)'
    BY <1>0, <1>2, <1>4, <1>5 DEF Ownership
  <2>. QED BY <2>2, <2>3, <1>0, <1>1, <1>5 DEF Ownership
<1>9. Telling'
  <2>1. \A s \in InHand' : s.op = "modify" => s.arg = page'[s.on]
    BY <1>0, <1>1, <1>2, <1>4 DEF Telling
  <2>2. \A f \in Editors : waiting'[f] /\ ~noticed'[f] /\ ~Due("modify", f)' => task'[f] = {page'[f]}
    BY <1>0, <1>1, <1>6, <1>7 DEF Telling
  <2>. QED BY <2>1, <2>2, <1>0, <1>1 DEF Telling
<1>10. Queued' /\ Known'
  BY <1>0, <1>1, <1>5, <1>7 DEF Queued, Known
<1>11. First'
  <2>1. \A u \in Threads : \A i \in DOMAIN todo'[u] : todo'[u][i].op = "notify" => todo'[u] = todo[u]
    BY <1>2, <1>3 DEF Begins
  <2>. QED BY <2>1, <1>0, <1>5 DEF First, Owner
<1>12. Cleared'
  <2>1. \A s \in InHand' : s.op = "page" => task'[s.on] = {} \/ Clearing(s.on)'
    BY <1>0, <1>1, <1>2, <1>4, <1>7 DEF Cleared
  <2>2. \A d \in Docs, f \in Editors : Registered(f, d)' =>
          task'[f] \subseteq {page'[f]} \/ noticed'[f] \/ Due("modify", f)' \/ Clearing(f)'
    BY <1>0, <1>1, <1>5, <1>7 DEF Cleared
  <2>. QED BY <2>1, <2>2 DEF Cleared
<1>13. ASSUME NEW d \in Docs, NEW g, Aim(d, g) PROVE Aim(d, g)'
  <2>0. Newest(d, g) /\ Carried(d, g) /\ Shown(d, g) /\ Stored(d, g) /\ Told(d, g) /\ Loaded(d, g)
    BY <1>13 DEF Aim
  <2>1. \A f \in Editors : /\ f # e => (Upstream(f)' <=> Upstream(f))
                           /\ Upstream(f)' => Upstream(f)
                           /\ Upstream(f)' <=> noticed[f] \/ Due("modify", f) \/ (waiting[f] /\ f # e)
    BY <1>1, <1>6, <1>7 DEF Upstream
  <2>2. \A f, x : Owns(f, x) => (x = d0 <=> f = e)
    BY <1>d DEF Owns
  <2>3. Newest(d, g)'
    BY <2>0, <2>1, <1>1, <1>5 DEF Newest
  <2>4. Told(d, g)' /\ Loaded(d, g)'
    <3>1. Told(d, g)'
      BY <2>0, <1>1, <1>2, <1>4, <1>5 DEF Told
    <3>2. \A s \in InHand' : s.op \in {"start", "loaded", "page"} => s \in InHand
      BY <1>2, <1>4
    <3>3. Loaded(d, g)'
      BY <3>2, <2>0, <1>1, <1>4, <1>5, <1>7 DEF Loaded
    <3>. QED BY <3>1, <3>3
  <2>5. (Saving(d) => Saving(d)') /\ (Storing(d) => Storing(d)') /\ (InJobs(d, g) => InJobs(d, g)')
    <3>1. (Saving(d) => Saving(d)') /\ (Storing(d) => Storing(d)')
      BY <1>4, <1>5 DEF Saving, Storing
    <3>. QED BY <3>1, <1>1 DEF InJobs
  <2>6. CASE d # d0
    <3>1. Pending(d)' <=> Pending(d)
      BY <2>1, <2>2, <2>6, <1>5 DEF Pending
    <3>2. \A f \in Editors : Owns(f, d) => f # e
      BY <2>2, <2>6
    <3>3. Carried(d, g)'
      BY <3>1, <3>2, <2>0, <2>1, <1>2, <1>4, <1>5 DEF Carried
    <3>4. Shown(d, g)'
      BY <3>1, <2>0, <2>5, <1>1, <1>5, <1>7 DEF Shown
    <3>5. Stored(d, g)'
      BY <3>1, <2>0, <2>5 DEF Stored
    <3>. QED BY <3>3, <3>4, <3>5, <2>3, <2>4 DEF Aim
  <2>7. CASE d = d0
    <3>1. Owns(e, d) /\ Upstream(e) /\ page[e] = g
      BY <2>0, <2>7, <1>1, <1>d DEF Newest, Upstream
    <3>2. Saving(d)'
      BY <3>1, <1>2, <1>4, <1>5 DEF Saving
    <3>3. Upstream(e)' \/ h = g
      BY <3>1, <2>1, <1>0, <1>1, <1>h DEF Telling
    <3>4. Carried(d, g)'
      <4>1. ASSUME NEW s \in InHand', s.op \in {"save", "store"}, Owns(s.on, d) PROVE Upstream(s.on)' \/ s.arg = g
        <5>1. s.on = e
          BY <4>1, <2>2, <2>7
        <5>2. s = m
          BY <4>1, <5>1, <1>0, <1>1, <1>4, TimerIsFirst
        <5>. QED BY <5>1, <5>2, <3>3, <1>2
      <4>2. ASSUME NEW s \in InHand', s.op = "page", Registered(s.on, d) PROVE FALSE
        <5>1. s \in InHand /\ s.on \in Editors
          BY <4>2, <1>2, <1>4
        <5>2. loadedObject[s.on] # loadedObject[e]
          BY <4>2, <5>1, <1>0, <1>1, TimerIsFirst
        <5>. QED BY <4>2, <5>1, <5>2, <2>7, <1>0, <1>d DEF Registration
      <4>. QED BY <4>1, <4>2, <1>5 DEF Carried
    <3>5. Shown(d, g)'
      <4>1. \A f \in Editors : Owns(f, d) => f = e
        BY <2>2, <2>7
      <4>. QED BY <4>1, <3>1, <3>2, <1>1, <1>5 DEF Shown
    <3>6. Stored(d, g)'
      BY <3>2 DEF Stored
    <3>. QED BY <3>4, <3>5, <3>6, <2>3, <2>4 DEF Aim
  <2>. QED BY <2>6, <2>7
<1>. QED BY <1>8, <1>9, <1>10, <1>11, <1>12, <1>13 DEF Tidy

\* An editor that has the focus of its document is told to save only when it
\* loads another one, and then nothing else is on its way.
LEMMA OwnerIsTold ==
  ASSUME Types, Order, Tidy, NEW t \in Threads, Next1(t, "notify"), Owner(At(t).on)
  PROVE  /\ Unlisted(At(t).on) /\ \A f \in Editors : ~Upstream(f)
         /\ \A s \in InHand : s = At(t) \/ (s.on = At(t).on /\ s.op \in {"assign", "page", "loaded", "enable"})
<1>0. Calls /\ Phases /\ Ownership /\ First
  BY DEF Types, Order, Tidy
<1>s. PICK s : s = At(t)
  OBVIOUS
<1>1. s.op = "notify" /\ s.on \in Editors /\ todo[t] # <<>> /\ s = todo[t][1] /\ 1 \in DOMAIN todo[t]
  BY <1>0, <1>s, HeadIs
<1>2. s \in InHand /\ Owner(s.on)
  BY <1>0, <1>1, <1>s, InHandIs
<1>3. \A u \in Editors : ~PushStep(u, s)
  BY <1>1, <1>2 DEF PushStep, Owner
<1>4. PICK n \in 1 .. MaxLoads, e \in Editors, d \in Docs : todo[LoadJob(n)] # <<>> /\ LoadStep(e, d, s) /\ Unlisted(e)
  BY <1>1, <1>2, <1>3, StepIsIn DEF callOps, Owner
<1>5. s.on = e
  BY <1>3, <1>4 DEF LoadStep
<1>6. /\ \A f \in Editors : ~Upstream(f)
      /\ \A r \in InHand : \E i \in DOMAIN todo[LoadJob(n)] : r = todo[LoadJob(n)][i]
  BY <1>0, <1>4, LoadsAlone
<1>7. LoadJob(n) = t
  BY <1>0, <1>1, <1>4, ThreadsDiffer DEF Phases, Alone
<1>8. \A k \in DOMAIN todo[t] : k > 1 => todo[t][k].op \in {"assign", "page", "loaded", "enable"} /\ todo[t][k].on = s.on
  BY <1>0, <1>1, <1>2 DEF First
<1>9. \A k \in DOMAIN todo[t] : k = 1 \/ k > 1
  <2>1. DOMAIN todo[t] = 1 .. Len(todo[t]) /\ Len(todo[t]) \in Nat
    BY <1>0, LenProperties DEF Calls
  <2>. QED BY <2>1
<1>10. \A r \in InHand : r = s \/ (r.on = s.on /\ r.op \in {"assign", "page", "loaded", "enable"})
  BY <1>1, <1>6, <1>7, <1>8, <1>9
<1>. QED BY <1>4, <1>5, <1>6, <1>10, <1>s

LEMMA OwnerToldKeeps ==
  ASSUME Types, Order, Tidy, NEW t \in Threads, NotifyNow(t), task[At(t).on] # {}, Owner(At(t).on)
  PROVE  Tidy' /\ \A d \in Docs : \A g \in Contents(typed) : Aim(d, g) => \E x \in Contents(typed) : Aim(d, x)'
<1>0. Maps /\ Flowing /\ Calls /\ Registration /\ Contained
  BY DEF Types, Order
<1>s. PICK s : s = At(t)
  OBVIOUS
<1>e. PICK e : e = s.on
  OBVIOUS
<1>1. /\ Next1(t, "notify") /\ waiting' = [waiting EXCEPT ![e] = FALSE]
      /\ UNCHANGED <<page, oldHtml, accepted, noticed, task, stored, saveJobs>> /\ Standing
  BY <1>s, <1>e DEF NotifyNow, Standing, docVars, composerVars, history
<1>2. s.op = "notify" /\ e \in Editors /\ todo[t] # <<>> /\ Owner(e) /\ task[e] # {}
  BY <1>0, <1>1, <1>s, <1>e, HeadIs
<1>3. /\ Unlisted(e) /\ \A f \in Editors : ~Upstream(f)
      /\ \A q \in InHand : q = s \/ (q.on = e /\ q.op \in {"assign", "page", "loaded", "enable"})
  BY <1>1, <1>2, <1>s, <1>e, OwnerIsTold
<1>h. PICK h \in task[e] : Then(t, <<Step("save", e, h), Step("leave", e, Blank)>>)
  BY <1>2, <1>s, <1>e DEF NotifyNow
<1>4. task[e] = {h} /\ h \in Contents(typed) /\ typed \in Nat
  <2>1. task[e] \in {{}} \cup {{x} : x \in Contents(typed)}
    BY <1>0, <1>2 DEF Flowing
  <2>2. typed \in Nat
    BY <1>0, EditorsDiffer DEF Flowing
  <2>. QED BY <2>1, <2>2
<1>a. PICK a : a = Step("save", e, h)
  OBVIOUS
<1>b. PICK b : b = Step("leave", e, Blank)
  OBVIOUS
<1>5. /\ a \in Steps(typed) /\ b \in Steps(typed)
      /\ a.op = "save" /\ a.on = e /\ a.arg = h /\ b.op = "leave" /\ b.on = e
  <2>1. a \in Steps(typed) /\ b \in Steps(typed)
    BY <1>a, <1>b, <1>2, <1>4, IsAStep, BlankIs
  <2>. QED BY <2>1, <1>a, <1>b DEF Step
<1>r. PICK r : r = <<a, b>>
  OBVIOUS
<1>6. r \in Seq(Steps(typed)) /\ DOMAIN r = {1, 2} /\ r[1] = a /\ r[2] = b /\ Then(t, r)
  BY <1>r, <1>5, <1>h, <1>a, <1>b
<1>7. Moves(t, r)
  BY <1>0, <1>2, <1>6, HandMoves
<1>8. /\ \A q \in InHand' : q \in InHand \/ q = a \/ q = b
      /\ \A q \in InHand : q \in InHand' \/ q = s
      /\ a \in InHand' /\ b \in InHand'
  BY <1>6, <1>7, <1>s DEF Moves
<1>9. \A f \in Editors : waiting'[f] <=> waiting[f]
  BY <1>0, <1>1, <1>2, <1>3 DEF Maps, Upstream
<1>10. /\ \A f, x : Registered(f, x)' <=> Registered(f, x)
       /\ \A f, x : Owns(f, x)' <=> Owns(f, x)
       /\ UNCHANGED <<loadedObject, again, latest>>
  BY <1>1, StandingIs DEF Standing
<1>11. Tidy'
  <2>1. \A f : Clearing(f) => Clearing(f)' \/ f = e
    BY <1>7, <1>s, <1>e, StaysClearing
  <2>2. Clearing(e)'
    BY <1>5, <1>8 DEF Clearing, Due
  <2>3. \A f \in Editors : Clean(f)
    BY <2>1, <2>2, <1>1, <1>9 DEF Clean
  <2>4. Tame(r)
    BY <1>5, <1>6 DEF Tame
  <2>5. Queued'
    BY <1>1 DEF Tidy, Queued
  <2>. QED BY <2>3, <2>4, <2>5, <1>0, <1>1, <1>2, <1>6, <1>s, CallKeepsTidy
<1>12. ASSUME NEW d \in Docs, NEW g \in Contents(typed), Aim(d, g) PROVE \E x \in Contents(typed) : Aim(d, x)'
  <2>0. Newest(d, g) /\ Carried(d, g) /\ Shown(d, g) /\ Stored(d, g) /\ Told(d, g) /\ Loaded(d, g)
    BY <1>12 DEF Aim
  <2>1. /\ \A q \in InHand' : /\ q.op = "save" => q = a
                              /\ q.op \notin {"store", "start", "notify", "modify"}
                              /\ q.op \in {"page", "loaded"} => q \in InHand /\ q.on = e
        /\ \A f \in Editors : ~Upstream(f)'
    <3>1. \A q \in InHand' : /\ q.op = "save" => q = a
                             /\ q.op \in {"page", "loaded"} => q \in InHand /\ q.on = e
      BY <1>2, <1>3, <1>5, <1>8
    <3>2. \A q \in InHand' : q.op \notin {"store", "start", "modify"}
      BY <1>2, <1>3, <1>5, <1>8
    <3>3. \A q \in InHand' : q.op # "notify"
      <4>1. \A i \in DOMAIN todo'[t] : todo'[t][i].op # "notify"
        <5>1. Continues(todo'[t], r, todo[t])
          BY <1>0, <1>2, <1>6, OthersStay
        <5>2. \A i \in DOMAIN todo[t] : i > 1 => todo[t][i].op # "notify"
          <6>1. First /\ todo[t][1] = s /\ 1 \in DOMAIN todo[t]
            BY <1>0, <1>1, <1>s, HeadIs DEF Tidy
          <6>. QED BY <6>1, <1>2, <1>e DEF First
        <5>. QED BY <5>1, <5>2, <1>5, <1>6 DEF Continues
      <4>2. \A u \in Threads \ {t} : \A i \in DOMAIN todo'[u] : todo'[u][i].op # "notify"
        <5>1. \A u \in Threads \ {t} : todo'[u] = todo[u]
          BY <1>0, <1>2, <1>6, OthersStay
        <5>2. ASSUME NEW u \in Threads \ {t}, NEW i \in DOMAIN todo[u], todo[u][i].op = "notify" PROVE FALSE
          <6>1. todo[u][i] = s /\ Owner(todo[u][i].on)
            BY <5>2, <1>0, <1>2, <1>3, <1>e, InHandIs
          <6>2. PICK n \in 1 .. MaxLoads : todo[LoadJob(n)] # <<>>
            <7>1. \A x \in Editors : ~PushStep(x, s)
              BY <1>2, <1>e DEF PushStep, Owner
            <7>2. s \in InHand
              BY <6>1, <1>0, InHandIs
            <7>. QED BY <7>1, <7>2, <1>2, <1>e, StepIsIn DEF callOps, Owner
          <6>3. todo[u] # <<>>
            BY <5>2
          <6>. QED BY <6>2, <6>3, <1>0, <1>2, ThreadsDiffer DEF Order, Phases, Alone
        <5>. QED BY <5>1, <5>2
      <4>. QED BY <4>1, <4>2 DEF InHand
    <3>4. \A f \in Editors : ~Upstream(f)'
      BY <3>2, <1>1, <1>3, <1>9 DEF Upstream, Due
    <3>. QED BY <3>1, <3>2, <3>3, <3>4
  <2>2. /\ ~Pending(d) /\ ~Saving(d) /\ ~Storing(d)
        /\ \A f \in Editors : Registered(f, d) => f # e /\ ~Due("page", f)
    <3>1. ~Pending(d) /\ ~Saving(d) /\ ~Storing(d)
      BY <1>2, <1>3 DEF Pending, Saving, Storing
    <3>2. \A f \in Editors : Registered(f, d) => f # e
      BY <1>3 DEF Unlisted
    <3>3. \A f \in Editors : f # e => ~Due("page", f)
      BY <1>2, <1>3, <1>e DEF Due
    <3>. QED BY <3>1, <3>2, <3>3
  <2>3. \A f \in Editors : Registered(f, d) => page[f] = g
    BY <2>0, <2>2 DEF Shown
  <2>4. InJobs(d, g)'
    <3>1. InJobs(d, g)
      BY <2>0, <2>2 DEF Stored
    <3>. QED BY <3>1, <1>1 DEF InJobs
  <2>5. \A x : Told(d, x)'
    BY <2>1 DEF Told
  <2>6. Loaded(d, g)'
    <3>1. \A q \in InHand' : q.op \in {"start", "loaded"} => q \in InHand /\ q.op = "loaded" /\ q.on = e
      BY <2>1
    <3>2. Due("page", e) => Due("page", e)'
      BY <1>2, <1>8 DEF Due
    <3>3. \A q \in InHand' : q.op = "page" => q \in InHand
      BY <2>1
    <3>. QED BY <3>1, <3>2, <3>3, <2>0, <1>1, <1>10 DEF Loaded
  <2>7. CASE ~Owns(e, d) \/ h = g
    <3>1. Newest(d, g)'
      BY <2>0, <2>1, <1>10 DEF Newest
    <3>2. Carried(d, g)'
      BY <2>1, <2>2, <2>7, <1>2, <1>5, <1>10 DEF Carried
    <3>3. Shown(d, g)' /\ Stored(d, g)'
      BY <2>3, <2>4, <1>1, <1>10 DEF Shown, Stored
    <3>. QED BY <3>1, <3>2, <3>3, <2>5, <2>6 DEF Aim
  <2>8. CASE Owns(e, d) /\ h # g
    <3>1. d \in again
      <4>1. d \notin again => task[e] \subseteq {g}
        <5>1. s \in InHand
          BY <1>7, <1>s DEF Moves
        <5>. QED BY <5>1, <2>0, <2>8, <1>2, <1>e DEF Told
      <4>. QED BY <4>1, <2>8, <1>4
    <3>2. h.doc = d
      BY <2>8, <1>0, <1>2, <1>4, EditorsDiffer DEF Contained, Owns
    <3>3. Newest(d, h)'
      BY <3>1, <3>2, <2>1, <1>10 DEF Newest
    <3>4. Carried(d, h)'
      BY <2>1, <2>2, <1>2, <1>5, <1>10 DEF Carried
    <3>5. Saving(d)'
      BY <2>8, <1>5, <1>8, <1>10 DEF Saving
    <3>6. Shown(d, h)' /\ Stored(d, h)'
      <4>1. \A f \in Editors : Owns(f, d) => f = e
        BY <2>8 DEF Owns
      <4>. QED BY <4>1, <3>5, <2>2, <1>10 DEF Shown, Stored
    <3>7. Loaded(d, h)'
      <4>1. \A q \in InHand' : q.op \in {"start", "loaded"} => q \in InHand /\ q.on = e
        BY <2>1
      <4>2. loadedObject[e] = d
        BY <2>8 DEF Owns
      <4>3. \A q \in InHand' : q.op \in {"start", "loaded"} => q.arg # d
        BY <4>1, <4>2, <2>0 DEF Loaded
      <4>. QED BY <4>3 DEF Loaded
    <3>8. Aim(d, h)'
      BY <3>3, <3>4, <3>6, <3>7, <2>5 DEF Aim
    <3>. QED BY <3>8, <1>4
  <2>. QED BY <2>7, <2>8
<1>. QED BY <1>11, <1>12

\* What is typed last is what its document is to hold and its editors are to show.
LEMMA TypeKeeps ==
  ASSUME Types, Orderly, Order, Tidy, NEW e \in Editors, Type(e)
  PROVE  Tidy' /\ (Aims => Aims')
<1>0. Maps /\ Flowing /\ Calls /\ Monitors /\ Registration /\ Contained /\ typed \in Nat
      /\ Ownership /\ Telling /\ Queued /\ Known /\ First /\ Cleared
  BY EditorsDiffer DEF Types, Flowing, Order, Tidy
<1>1. /\ todo[UI] = <<>> /\ typed' = typed + 1
      /\ page' = [page EXCEPT ![e].rev = typed + 1] /\ noticed' = [noticed EXCEPT ![e] = TRUE]
      /\ latest' = IF page[e].doc \in Docs THEN [latest EXCEPT ![page[e].doc] = typed + 1] ELSE latest
      /\ UNCHANGED <<again, loadedObject, responsibleEditors, lastFocussedEditor, saveJobs, stored, oldHtml, accepted, waiting, task, todo>>
  BY DEF Type, UIFree, docVars, notifierVars, Orderly
<1>2. loadedObject[e] # NoDoc /\ ~Loading /\ lastFocussedEditor[loadedObject[e]] = e
  BY DEF Type, MayType, Orderly
<1>3. \A n \in 1 .. MaxLoads : todo[LoadJob(n)] = <<>>
  BY <1>2 DEF Loading
<1>d. PICK d0 \in Docs : d0 = loadedObject[e] /\ Owns(e, d0) /\ Owner(e)
  BY <1>0, <1>2 DEF Owner, Owns, Maps
<1>4. page[e].doc = d0
  <2>1. \A n \in 1 .. MaxLoads : \A i \in DOMAIN todo[LoadJob(n)] : FALSE
    BY <1>3
  <2>2. ~BeingLoaded(e)
    BY <2>1 DEF BeingLoaded
  <2>. QED BY <2>2, <1>0, <1>2, <1>d DEF Contained
<1>g. PICK x : x = page'[e]
  OBVIOUS
<1>5. /\ x.doc = d0 /\ x.rev = typed + 1 /\ x \in Contents(typed + 1)
      /\ \A f \in Editors : f # e => page'[f] = page[f]
  <2>1. page[e] \in [doc : Docs \cup {NoDoc}, rev : 0 .. typed]
    BY <1>0 DEF Flowing, Contents
  <2>2. page'[e] = [page[e] EXCEPT !.rev = typed + 1] /\ \A f \in Editors : f # e => page'[f] = page[f]
    BY <1>0, <1>1 DEF Flowing
  <2>3. [page[e] EXCEPT !.rev = typed + 1] \in [doc : Docs \cup {NoDoc}, rev : 0 .. typed + 1]
    BY <2>1, <1>0
  <2>4. [page[e] EXCEPT !.rev = typed + 1].doc = page[e].doc /\ [page[e] EXCEPT !.rev = typed + 1].rev = typed + 1
    BY <2>1
  <2>. QED BY <2>2, <2>3, <2>4, <1>4, <1>g DEF Contents
<1>6. latest'[d0] = typed + 1 /\ \A d \in Docs : d # d0 => latest'[d] = latest[d]
  BY <1>0, <1>1, <1>4 DEF Flowing
<1>7. /\ InHand' = InHand
      /\ \A f, d : Registered(f, d)' <=> Registered(f, d)
      /\ \A f, d : Owns(f, d)' <=> Owns(f, d)
      /\ \A f : Owner(f)' <=> Owner(f)
      /\ \A op, f : Due(op, f)' <=> Due(op, f)
      /\ \A f : Clearing(f)' <=> Clearing(f)
  <2>1. InHand' = InHand
    BY <1>1 DEF InHand
  <2>2. \A op, f : Due(op, f)' <=> Due(op, f)
    BY <2>1 DEF Due
  <2>. QED BY <2>1, <2>2, <1>1 DEF Registered, Owns, Owner, Clearing
<1>8. \A f \in Editors : noticed'[f] <=> noticed[f] \/ f = e
  BY <1>0, <1>1 DEF Maps
<1>9. \A s \in InHand : /\ s.on \in Editors /\ s.op \notin {"modify", "start", "loaded"}
                        /\ s.op = "notify" => s.on # e
  <2>. SUFFICES ASSUME NEW s \in InHand
                PROVE  s.on \in Editors /\ s.op \notin {"modify", "start", "loaded"} /\ (s.op = "notify" => s.on # e)
    OBVIOUS
  <2>1. PICK t \in Threads : \E i \in DOMAIN todo[t] : s = todo[t][i]
    BY <1>0, InHandIs
  <2>2. t # UI
    BY <2>1, <1>1
  <2>3. s.op # "modify"
    BY <2>1, <2>2, <1>0 DEF Monitors
  <2>4. s.op \notin {"start", "loaded"} /\ s.on \in Editors
    BY <1>0, <1>3, NothingIsLoaded, InHandIs, StepIs
  <2>5. ASSUME s.op = "notify", s.on = e PROVE FALSE
    <3>1. PICK u \in Editors : PushStep(u, s)
      BY <2>5, <1>2, <1>3, StepIsIn DEF callOps
    <3>. QED BY <3>1, <2>5, <1>2 DEF PushStep, Owner
  <2>. QED BY <2>3, <2>4, <2>5
<1>10. Ownership'
  BY <1>0, <1>1, <1>7, <1>8, <1>d DEF Ownership
<1>11. Telling'
  <2>1. \A h \in {oldHtml'[e]} \cup accepted'[e] : h.rev < page'[e].rev
    <3>1. \A h \in {oldHtml[e]} \cup accepted[e] : h.rev \in 0 .. typed
      BY <1>0 DEF Flowing, Contents
    <3>2. \A h \in {oldHtml[e]} \cup accepted[e] : h.rev < x.rev
      BY <3>1, <1>0, <1>5
    <3>. QED BY <3>2, <1>1, <1>g
  <2>2. \A f \in Editors : noticed'[f] => \A h \in {oldHtml'[f]} \cup accepted'[f] : h.rev < page'[f].rev
    BY <2>1, <1>0, <1>1, <1>5, <1>8 DEF Telling
  <2>3. \A s \in InHand' : s.op = "modify" => s.arg = page'[s.on]
    BY <1>7, <1>9
  <2>4. \A f \in Editors : waiting'[f] /\ ~noticed'[f] /\ ~Due("modify", f)' => task'[f] = {page'[f]}
    BY <1>0, <1>1, <1>5, <1>7, <1>8 DEF Telling
  <2>. QED BY <2>2, <2>3, <2>4 DEF Telling
<1>12. Queued' /\ Known'
  BY <1>0, <1>1, <1>7 DEF Queued, Known
<1>13. First'
  BY <1>0, <1>1, <1>7 DEF First, Owner
<1>14. Cleared'
  BY <1>0, <1>1, <1>5, <1>7, <1>8 DEF Cleared
<1>15. \A f \in Editors : Upstream(f)' <=> Upstream(f) \/ f = e
  BY <1>1, <1>7, <1>8 DEF Upstream
<1>16. \A f, d : Owns(f, d) => (d = d0 <=> f = e)
  BY <1>d DEF Owns
<1>17. ASSUME NEW d \in Docs, d # d0, NEW g, Aim(d, g) PROVE Aim(d, g)'
  <2>0. Newest(d, g) /\ Carried(d, g) /\ Shown(d, g) /\ Stored(d, g) /\ Told(d, g) /\ Loaded(d, g)
    BY <1>17 DEF Aim
  <2>1. \A f : Owns(f, d) => f # e
    BY <1>16, <1>17
  <2>2. /\ Pending(d)' <=> Pending(d)
        /\ Saving(d)' <=> Saving(d)
        /\ Storing(d)' <=> Storing(d)
    BY <2>1, <1>7, <1>15 DEF Pending, Saving, Storing
  <2>3. Newest(d, g)'
    BY <2>0, <2>1, <1>1, <1>5, <1>6, <1>7, <1>15, <1>17 DEF Newest
  <2>4. Carried(d, g)'
    BY <2>0, <2>1, <2>2, <1>7, <1>9, <1>15 DEF Carried
  <2>5. Shown(d, g)'
    <3>1. \A f \in Editors : Registered(f, d) => f # e
      BY <1>0, <1>17, <1>d DEF Registration
    <3>. QED BY <3>1, <2>0, <2>2, <1>5, <1>7 DEF Shown
  <2>6. Stored(d, g)'
    BY <2>0, <2>2, <1>1 DEF Stored, InJobs
  <2>7. Told(d, g)'
    BY <2>0, <1>1, <1>7 DEF Told
  <2>8. Loaded(d, g)'
    BY <1>7, <1>9 DEF Loaded
  <2>. QED BY <2>3, <2>4, <2>5, <2>6, <2>7, <2>8 DEF Aim
<1>18. Aim(d0, x)'
  <2>1. Pending(d0)'
    BY <1>7, <1>15, <1>d DEF Pending
  <2>2. Newest(d0, x)'
    BY <1>5, <1>6, <1>7, <1>16, <1>g DEF Newest
  <2>3. Carried(d0, x)'
    BY <2>1, <1>7, <1>9, <1>15, <1>16 DEF Carried
  <2>4. Shown(d0, x)'
    BY <2>1, <1>7, <1>16, <1>g DEF Shown
  <2>5. Stored(d0, x)'
    BY <2>1 DEF Stored
  <2>6. Told(d0, x)'
    BY <1>7, <1>9, <1>16 DEF Told
  <2>7. Loaded(d0, x)'
    BY <1>7, <1>9 DEF Loaded
  <2>. QED BY <2>2, <2>3, <2>4, <2>5, <2>6, <2>7 DEF Aim
<1>19. ASSUME Aims PROVE Aims'
  <2>1. Contents(typed) \subseteq Contents(typed + 1)
    BY <1>0, ContentsGrow
  <2>2. ASSUME NEW d \in Docs PROVE \E g \in Contents(typed + 1) : Aim(d, g)'
    <3>1. PICK g \in Contents(typed) : Aim(d, g)
      BY <1>19 DEF Aims
    <3>2. CASE d = d0
      BY <3>2, <1>5, <1>18
    <3>3. CASE d # d0
      BY <3>1, <3>3, <2>1, <1>17
    <3>. QED BY <3>2, <3>3
  <2>3. Contents(typed)' = Contents(typed + 1)
    BY <1>1 DEF Contents
  <2>. QED BY <2>2, <2>3 DEF Aims
<1>. QED BY <1>10, <1>11, <1>12, <1>13, <1>14, <1>19 DEF Tidy

-----------------------------------------------------------------------------
(* The theorems.                                                            *)

LEMMA InitAims == Init => Tidy /\ Aims
<1>. SUFFICES ASSUME Init PROVE Tidy /\ Aims
  OBVIOUS
<1>1. \A t \in Threads : todo[t] = <<>>
  BY DEF Init
<1>2. InHand = {}
  <2>1. DOMAIN <<>> = {}
    OBVIOUS
  <2>. QED BY <2>1, <1>1 DEF InHand
<1>3. /\ \A f \in Editors : ~noticed[f] /\ ~waiting[f] /\ ~Upstream(f) /\ loadedObject[f] = NoDoc
      /\ saveJobs = {}
  BY <1>2 DEF Init, Upstream, Due
<1>4. \A d \in Docs, f \in Editors : ~Registered(f, d)
  BY DEF Init, Registered
<1>5. Ownership /\ Telling /\ Queued
  <2>1. \A f \in Editors : todo[Timer(f)] = <<>>
    BY <1>1, ThreadsDiffer
  <2>. QED BY <2>1, <1>2, <1>3 DEF Ownership, Telling, Queued
<1>6. Known
  BY <1>3, EditorsDiffer DEF Known
<1>7. First
  BY <1>1 DEF First
<1>8. Cleared
  BY <1>2, <1>4 DEF Cleared
<1>9. ASSUME NEW d \in Docs PROVE \E g \in Contents(typed) : Aim(d, g)
  <2>g. PICK g : g = stored[d]
    OBVIOUS
  <2>1. g = [doc |-> d, rev |-> 0] /\ latest[d] = 0 /\ typed = 0
    BY <2>g DEF Init
  <2>2. g \in Contents(typed)
    BY <2>1 DEF Contents
  <2>3. Newest(d, g)
    BY <2>1, <1>3 DEF Newest
  <2>4. Carried(d, g) /\ Told(d, g) /\ Loaded(d, g)
    BY <1>2 DEF Carried, Told, Loaded
  <2>5. Shown(d, g) /\ Stored(d, g)
    BY <2>g, <1>3, <1>4 DEF Shown, Stored, InJobs
  <2>. QED BY <2>2, <2>3, <2>4, <2>5 DEF Aim
<1>. QED BY <1>5, <1>6, <1>7, <1>8, <1>9 DEF Tidy, Aims

\* A step of the system leaves every document its aim, or sets another one.
LEMMA ProceedKeepsAims ==
  ASSUME Types, Orderly, Order, Tidy, Aims, NEW t \in Threads, Proceed(t)
  PROVE  (Tidy /\ Aims)'
<1>1. typed' = typed
  BY DEF Proceed, NotifyNow, LeaveMonitor, AssignOldHtml, SetPage, SetEnabled, Save, ScheduleSave, Modify,
         RunLoadJob, LoadJobFails, Register, history
<1>2. Contents(typed)' = Contents(typed)
  BY <1>1 DEF Contents
<1>3. ASSUME Tidy', \A d \in Docs : \A g : Aim(d, g) => Aim(d, g)' PROVE (Tidy /\ Aims)'
  BY <1>2, <1>3 DEF Aims
<1>4. CASE SetEnabled(t) \/ LeaveMonitor(t) \/ AssignOldHtml(t)
  BY <1>3, <1>4, LightCallKeeps, Zenon
<1>5. CASE NotifyNow(t)
  <2>1. CASE task[At(t).on] = {} \/ ~Owner(At(t).on)
    BY <1>3, <1>5, <2>1, LightCallKeeps, Zenon
  <2>2. CASE task[At(t).on] # {} /\ Owner(At(t).on)
    <3>1. Tidy' /\ \A d \in Docs : \A g \in Contents(typed) : Aim(d, g) => \E x \in Contents(typed) : Aim(d, x)'
      BY <1>5, <2>2, OwnerToldKeeps
    <3>. QED BY <3>1, <1>2 DEF Aims
  <2>. QED BY <2>1, <2>2
<1>6. CASE Save(t)
  <2>1. CASE ~Owner(At(t).on)
    BY <1>3, <1>6, <2>1, LightCallKeeps, Zenon
  <2>2. CASE Owner(At(t).on)
    BY <1>3, <1>6, <2>2, OwnerSaveKeeps, Zenon
  <2>. QED BY <2>1, <2>2
<1>7. CASE SetPage(t)
  BY <1>3, <1>7, SetPageKeeps, Zenon
<1>8. CASE ScheduleSave(t)
  BY <1>3, <1>8, ScheduleSaveKeeps, Zenon
<1>9. CASE Modify
  BY <1>3, <1>9, ModifyKeeps, Zenon
<1>10. ASSUME NEW n \in 1 .. MaxLoads, RunLoadJob(n) PROVE (Tidy /\ Aims)'
  BY <1>3, <1>10, LoadStartKeeps, Zenon
<1>11. ASSUME NEW n \in 1 .. MaxLoads, LoadJobFails(n) \/ Register(n) PROVE (Tidy /\ Aims)'
  BY <1>3, <1>11, FailureKeeps, RegisterKeeps, Zenon
<1>. QED BY <1>4, <1>5, <1>6, <1>7, <1>8, <1>9, <1>10, <1>11, Zenon DEF Proceed

LEMMA StepKeepsAims == Orderly /\ Types /\ Order /\ Tidy /\ Aims /\ [Next]_vars => (Tidy /\ Aims)'
<1>. SUFFICES ASSUME Orderly, Types, Order, Tidy, Aims, [Next]_vars PROVE (Tidy /\ Aims)'
  OBVIOUS
<1>1. ASSUME NEW t \in Threads, Proceed(t) PROVE (Tidy /\ Aims)'
  BY <1>1, ProceedKeepsAims
<1>2. ASSUME typed' = typed, Tidy', \A d \in Docs : \A g : Aim(d, g) => Aim(d, g)' PROVE (Tidy /\ Aims)'
  <2>1. Contents(typed)' = Contents(typed)
    BY <1>2 DEF Contents
  <2>. QED BY <2>1, <1>2 DEF Aims
<1>3. ASSUME NEW e \in Editors, EventLoop(e) \/ TimerFires(e) PROVE (Tidy /\ Aims)'
  <2>1. typed' = typed
    BY <1>3 DEF EventLoop, Notice, RunPosted, TimerFires, history
  <2>. QED BY <1>2, <1>3, <2>1, NoticeKeeps, PostedKeeps, TimerKeeps, Zenon DEF EventLoop
<1>4. ASSUME NEW j \in saveJobs, StartSaveJob(j) \/ FinishSaveJob(j) PROVE (Tidy /\ Aims)'
  <2>1. typed' = typed
    BY <1>4 DEF StartSaveJob, FinishSaveJob, history
  <2>. QED BY <1>2, <1>4, <2>1, SaveJobKeeps, Zenon
<1>5. ASSUME NEW e \in Editors, Client(e) PROVE (Tidy /\ Aims)'
  <2>1. typed' = typed
    BY <1>5 DEF Client, Focus, LoadNothing, LoadAgain, Load, history
  <2>2. Tidy'
    BY <1>5, ClientKeepsTidy
  <2>3. \A d \in Docs : \A g : Aim(d, g) => Aim(d, g)'
    BY <1>5, ClientKeepsAim
  <2>. QED BY <1>2, <2>1, <2>2, <2>3
<1>6. CASE User
  <2>1. PICK e \in Editors : Type(e) \/ Client(e)
    BY <1>6 DEF User, Client
  <2>. QED BY <2>1, <1>5, TypeKeeps
<1>7. CASE UNCHANGED vars
  <2>1. UNCHANGED <<loadedObject, responsibleEditors, lastFocussedEditor, page, oldHtml, noticed, accepted, task, waiting, todo, again, latest, saveJobs, stored, typed>>
    BY <1>7 DEF vars, docVars, composerVars, notifierVars, history
  <2>2. Queued' /\ \A j \in saveJobs' : j.by = lastFocussedEditor[j.doc]
    BY <2>1 DEF Tidy, Queued, Ownership
  <2>3. \A d \in Docs : \A g : Written(d, g)
    BY <2>1 DEF Written, InJobs
  <2>4. Tidy' /\ \A d \in Docs : \A g : Aim(d, g) => Aim(d, g)'
    BY <2>1, <2>2, <2>3, JobKeeps
  <2>. QED BY <2>1, <2>4, <1>2
<1>. QED BY <1>1, <1>3, <1>4, <1>6, <1>7 DEF Next, System

\* When nothing is pending a document has reached its aim: it is shown by all
\* editors that are registered for it, and is stored.
LEMMA AimsAreReached ==
  ASSUME Types, Aims, AtRest, NEW d \in Docs
  PROVE  \E g : /\ \A f \in Editors : Registered(f, d) => page[f] = g
                /\ stored[d] = g /\ (d \notin again => g.rev = latest[d])
<1>1. PICK g \in Contents(typed) : Aim(d, g)
  BY DEF Aims
<1>2. Calm /\ saveJobs = {}
  BY RestIsCalm
<1>3. (\A f \in Editors : Registered(f, d) => page[f] = g) /\ InJobs(d, g)
  BY <1>1, <1>2, CalmIs
<1>4. stored[d] = g
  BY <1>2, <1>3 DEF InJobs
<1>. QED BY <1>1, <1>3, <1>4 DEF Aim, Newest

LEMMA AimsHold ==
  ASSUME Orderly
  PROVE  Spec => [](Types /\ Aims)
<1>1. Considerate
  BY DEF Orderly, Considerate
<1>2. Init => Types /\ Order /\ Tidy /\ Aims
  BY InitTypes, InitOrder, InitAims
<1>3. Types /\ Order /\ Tidy /\ Aims /\ [Next]_vars => (Types /\ Order /\ Tidy /\ Aims)'
  BY <1>1, StepKeepsTypes, StepKeepsOrder, StepKeepsAims
<1>. QED BY <1>2, <1>3, PTL DEF Spec

\* However often an editor loads another document, and whatever is typed and
\* pushed from one to the others before: once nothing is pending, the editors that
\* are registered for a document show the same.
THEOREM OthersShowTheSame ==
  ASSUME Orderly
  PROVE  Spec => []OthersReflect
<1>1. Types /\ Aims => OthersReflect
  <2>. SUFFICES ASSUME Types, Aims, AtRest, NEW d \in Docs,
                       NEW i \in DOMAIN responsibleEditors[d], NEW k \in DOMAIN responsibleEditors[d]
                PROVE  page[responsibleEditors[d][i]] = page[responsibleEditors[d][k]]
    BY DEF OthersReflect, Same
  <2>1. PICK g : \A f \in Editors : Registered(f, d) => page[f] = g
    BY AimsAreReached
  <2>2. responsibleEditors[d][i] \in Editors /\ responsibleEditors[d][k] \in Editors
    BY DEF Types, Maps
  <2>. QED BY <2>1, <2>2 DEF Registered
<1>. QED BY <1>1, AimsHold, PTL

\* However the timers, the save jobs and the loads of other documents follow each
\* other: once nothing is pending, a document holds what was typed last into a
\* page that showed it, unless it was loaded where it was loaded already.
THEOREM LastEditIsStored ==
  ASSUME Orderly
  PROVE  Spec => []NothingIsLost
<1>1. Types /\ Aims => NothingIsLost
  BY AimsAreReached DEF NothingIsLost
<1>. QED BY <1>1, AimsHold, PTL
=============================================================================
