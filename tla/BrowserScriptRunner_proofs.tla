---------------------- MODULE BrowserScriptRunner_proofs ----------------------
(***************************************************************************)
(* Proofs about BrowserScriptRunner for any clients and scripts. What the  *)
(* worker keeps by itself (IInv) is proved in OffWorker_proofs.            *)
(***************************************************************************)
EXTENDS BrowserScriptRunner, OffWorker_proofs

Ended == browserStatus \in {"LOADED", "TIMEDOUT", "DISPOSED"}

(* The worker is started once, by the call that ends loading, and nothing  *)
(* but the calls of that follow-up and submissions reach it.               *)
MonitorFlow ==
  \/ /\ ~Ended /\ pending[Monitor] = <<>>
     /\ state = "INIT" /\ runner = "new"
  \/ /\ Ended /\ state = "INIT" /\ runner = "new"
     /\ pending[Monitor] \in {<<ShutdownTask, "start", FinishTask>>, <<"start", FinishTask>>,
                              <<"RUNNING", "runner.start", FinishTask>>}
  \/ /\ Ended /\ state = "RUNNING" /\ runner = "new"
     /\ pending[Monitor] = <<"runner.start", FinishTask>>
  \/ /\ Ended /\ state \in {"RUNNING", "SHUTDOWN"} /\ runner # "new"
     /\ pending[Monitor] \in {<<FinishTask>>, <<>>}

(* Client c is in the call of run with script s.                           *)
Has(c, s) == pending[c] = <<s>> \/ immediate[c] = s

(* A client hands over one script at a time, which nobody else has and     *)
(* which is accepted and neither submitted nor evaluated yet.              *)
ClientFlow ==
  /\ \A c \in Clients : pending[c] # <<>> => \E s \in Scripts : pending[c] = <<s>>
  /\ \A c \in Clients : immediate[c] # NoScript => browserStatus = "LOADED" /\ pending[c] = <<>>
  /\ \A c \in Clients, s \in Scripts : Has(c, s) => result[s] = "open" /\ phase[s] = "new"
  /\ \A c, d \in Clients, s \in Scripts : Has(c, s) /\ Has(d, s) => c = d

(* An accepted script that is still open is with its client or with the    *)
(* worker, and one that has a value was evaluated, once.                   *)
Results ==
  /\ \A s \in Scripts :
       /\ result[s] = "open" => Underway(s) \/ phase[s] \in {"waiting", "running"}
       /\ phase[s] \in {"waiting", "running"} => result[s] = "open"
       /\ phase[s] # "dropped"
       /\ result[s] = "value" => s \in Evaluated
       /\ s \in Evaluated => result[s] \in {"value", "error"}
  /\ \A i, j \in DOMAIN evaluated : evaluated[i] = evaluated[j] => i = j

(* A script whose run had returned before stays returned, and it has the   *)
(* smaller ticket.                                                         *)
Earlier ==
  \A s \in Scripts : \A u \in before[s] :
    /\ s # u /\ u \in Returned
    /\ phase[s] # "new" /\ phase[u] # "new" => ticket[u] < ticket[s]

SameWay(s, u) == (Delayed(s) <=> Delayed(u)) /\ result[u] \in {"open", "value"}

(* OrderWithinMode, by the places of the scripts among the evaluated ones. *)
Order ==
  \A j \in DOMAIN evaluated : \A u \in before[evaluated[j]] :
    SameWay(evaluated[j], u) => \E i \in DOMAIN evaluated : i < j /\ evaluated[i] = u

RInv == IInv /\ RunnerTypeOK /\ MonitorFlow /\ ClientFlow /\ Results /\ Earlier /\ Order

LEMMA NamesDiffer ==
  /\ Scripts \subseteq Tasks /\ ShutdownTask \in Finishers /\ FinishTask \in Finishers
  /\ Finishers \subseteq Tasks /\ Scripts \cap Finishers = {} /\ UriScripts \subseteq Scripts
  /\ Monitor \in Callers /\ Monitor \notin Clients /\ Clients \subseteq Callers
  /\ Callers = Clients \cup {Monitor} /\ NoScript \notin Scripts
  /\ \A t \in Tasks : t \notin States /\ t \notin Methods /\ t \notin Effects
BY CallersAreClients, TasksAreScripts, TasksAreNotSteps

LEMMA SeqOfSuperset ==
  ASSUME NEW S, NEW T, S \subseteq T, NEW q \in Seq(S)
  PROVE  q \in Seq(T)
OBVIOUS

(* Appending to a sequence.                                                *)
LEMMA AppendOne ==
  ASSUME NEW S, NEW q \in Seq(S), NEW e \in S
  PROVE  /\ Append(q, e) \in Seq(S) /\ Append(q, e) # q
         /\ Len(q) \in Nat /\ DOMAIN q = 1 .. Len(q) /\ DOMAIN Append(q, e) = 1 .. Len(q) + 1
         /\ \A i \in 1 .. Len(q) : Append(q, e)[i] = q[i]
         /\ Append(q, e)[Len(q) + 1] = e
<1>1. Append(q, e) \in Seq(S) /\ Len(q) \in Nat /\ DOMAIN q = 1 .. Len(q)
  OBVIOUS
<1>2. Len(Append(q, e)) = Len(q) + 1
  OBVIOUS
<1>3. Append(q, e) # q
  <2>0. \A n \in Nat : n + 1 # n
    OBVIOUS
  <2>1. Len(q) + 1 # Len(q)
    BY <1>1, <2>0, Zenon
  <2>2. Append(q, e) = q => Len(Append(q, e)) = Len(q)
    BY Zenon
  <2>. QED BY <1>2, <2>1, <2>2, Zenon
<1>4. DOMAIN Append(q, e) = 1 .. Len(q) + 1
  BY <1>1, <1>2
<1>5. \A i \in 1 .. Len(q) : Append(q, e)[i] = q[i]
  BY AppendProperties
<1>6. Append(q, e)[Len(q) + 1] = e
  BY AppendProperties
<1>. QED BY <1>1, <1>3, <1>4, <1>5, <1>6

LEMMA EvaluatedAreCalled ==
  ASSUME RInv
  PROVE  /\ evaluated \in Seq(Scripts) /\ evaluated \in Seq(Called) /\ Called \subseteq Scripts
         /\ DOMAIN evaluated = 1 .. Len(evaluated) /\ Len(evaluated) \in Nat
         /\ \A i \in DOMAIN evaluated : evaluated[i] \in Called /\ evaluated[i] \in Scripts
<1>1. Called \subseteq Scripts /\ evaluated \in Seq(Called)
  BY DEF Called, RInv, RunnerTypeOK
<1>2. evaluated \in Seq(Scripts)
  BY <1>1, SeqOfSuperset
<1>. QED BY <1>1, <1>2

-----------------------------------------------------------------------------
(* What the callers of the worker are doing.                                *)

(* A client only submits the script it has.                                *)
LEMMA ClientSubmits ==
  ASSUME RInv, NEW c \in Clients, CallerStep(c)
  PROVE  \E s \in Scripts : /\ pending[c] = <<s>> /\ Accept(c, s) /\ queue' = Append(queue, s)
                            /\ pending' = [pending EXCEPT ![c] = <<>>]
<1>1. pending[c] # <<>>
  BY DEF CallerStep, Dispatch, Assign, Interrupt, StartRunner, Throw, Flush, Submit, Accept, Doing
<1>2. PICK s \in Scripts : pending[c] = <<s>>
  BY <1>1 DEF RInv, ClientFlow
<1>3. Head(pending[c]) = s /\ Tail(pending[c]) = <<>>
  BY <1>2
<1>4. Submit(c)
  BY <1>3, NamesDiffer DEF CallerStep, Dispatch, Assign, Interrupt, StartRunner, Throw, Flush, Doing, Effects
<1>. QED BY <1>2, <1>3, <1>4 DEF Submit, Accept, Doing, Done

(* What start puts before the rest of the follow-up.                       *)
LEMMA ThreeAccesses ==
  ASSUME NEW S, NEW a \in S, NEW b \in S, NEW c \in S
  PROVE  <<a, b>> \o <<c>> = <<a, b, c>>
<1> DEFINE p == <<a, b>> q == <<c>> r == <<a, b, c>>
<1>1. p \in Seq(S) /\ q \in Seq(S) /\ r \in Seq(S) /\ Len(p) = 2 /\ Len(q) = 1 /\ Len(r) = 3
  OBVIOUS
<1>2. p[1] = a /\ p[2] = b /\ q[1] = c /\ r[1] = a /\ r[2] = b /\ r[3] = c
  OBVIOUS
<1> HIDE DEF p, q, r
<1>3. Len(p \o q) = 3 /\ \A i \in 1 .. 3 : (p \o q)[i] = IF i <= 2 THEN p[i] ELSE q[i - 2]
  <2>1. /\ Len(p \o q) = Len(p) + Len(q)
        /\ \A i \in 1 .. Len(p) + Len(q) : (p \o q)[i] = IF i <= Len(p) THEN p[i] ELSE q[i - Len(p)]
    BY <1>1, ConcatProperties, Zenon
  <2>2. Len(p) + Len(q) = 3
    BY <1>1
  <2>. QED BY <1>1, <2>1, <2>2
<1>4. ASSUME NEW i \in 1 .. 3 PROVE (p \o q)[i] = r[i]
  <2>1. (p \o q)[i] = IF i <= 2 THEN p[i] ELSE q[i - 2]
    BY <1>3
  <2>2. i <= 2 => i = 1 \/ i = 2
    OBVIOUS
  <2>3. ~(i <= 2) => i = 3 /\ i - 2 = 1
    OBVIOUS
  <2>. QED BY <1>2, <2>1, <2>2, <2>3
<1>5. p \o q \in Seq(S) /\ Len(p \o q) = Len(r)
  BY <1>1, <1>3
<1>6. p \o q = r
  BY <1>1, <1>3, <1>4, <1>5, SeqEqual
<1>. QED BY <1>6 DEF p, q, r

(* The steps of the follow-up, in their order.                             *)
MonitorStep ==
  \/ /\ Ended /\ UNCHANGED <<state, runner>>
     /\ pending[Monitor] = <<ShutdownTask, "start", FinishTask>>
     /\ pending'[Monitor] = <<"start", FinishTask>>
     /\ Accept(Monitor, ShutdownTask)
  \/ /\ Ended /\ UNCHANGED <<state, runner>>
     /\ pending[Monitor] = <<"start", FinishTask>>
     /\ pending'[Monitor] = <<"RUNNING", "runner.start", FinishTask>>
     /\ UNCHANGED taskVars
  \/ /\ Ended /\ state' = "RUNNING" /\ UNCHANGED runner
     /\ pending[Monitor] = <<"RUNNING", "runner.start", FinishTask>>
     /\ pending'[Monitor] = <<"runner.start", FinishTask>>
     /\ UNCHANGED taskVars
  \/ /\ Ended /\ UNCHANGED state /\ runner' = "top"
     /\ pending[Monitor] = <<"runner.start", FinishTask>>
     /\ pending'[Monitor] = <<FinishTask>>
     /\ UNCHANGED taskVars
  \/ /\ Ended /\ UNCHANGED <<state, runner>>
     /\ pending[Monitor] = <<FinishTask>>
     /\ pending'[Monitor] = <<>>
     /\ Accept(Monitor, FinishTask)

LEMMA MonitorFollowsUp ==
  ASSUME RInv, CallerStep(Monitor)
  PROVE  MonitorStep /\ \A c \in Clients : pending'[c] = pending[c]
<1>1. /\ Monitor \in Callers /\ pending \in [Callers -> Seq(Steps)]
      /\ pending[Monitor] # <<>>
  BY NamesDiffer DEF RInv, RunnerTypeOK, TypeOK,
     CallerStep, Dispatch, Assign, Interrupt, StartRunner, Throw, Flush, Submit, Accept, Doing
<1>2. \A c \in Clients : pending'[c] = pending[c]
  BY <1>1, NamesDiffer
     DEF CallerStep, Dispatch, Assign, Interrupt, StartRunner, Throw, Flush, Submit, Accept, Done
<1>3. Done(Monitor) => pending'[Monitor] = Tail(pending[Monitor])
  BY <1>1 DEF Done
<1>4. CASE pending[Monitor] = <<ShutdownTask, "start", FinishTask>>
  <2>1. Head(pending[Monitor]) = ShutdownTask /\ Tail(pending[Monitor]) = <<"start", FinishTask>>
    BY <1>4
  <2>2. Submit(Monitor)
    BY <2>1, NamesDiffer DEF CallerStep, Dispatch, Assign, Interrupt, StartRunner, Throw, Flush, Doing, Effects
  <2>3. Accept(Monitor, ShutdownTask)
    BY <2>1, <2>2 DEF Submit, Accept, Doing
  <2>4. Ended
    BY <1>4 DEF RInv, MonitorFlow
  <2>. QED BY <1>2, <1>3, <1>4, <2>1, <2>3, <2>4 DEF Accept, MonitorStep
<1>5. CASE pending[Monitor] = <<"start", FinishTask>>
  <2>1. Head(pending[Monitor]) = "start" /\ Tail(pending[Monitor]) = <<FinishTask>>
    BY <1>5
  <2>2. Ended /\ state = "INIT"
    BY <1>5 DEF RInv, MonitorFlow
  <2>3. Dispatch(Monitor)
    BY <2>1, NamesDiffer
       DEF CallerStep, Assign, Interrupt, StartRunner, Throw, Flush, Submit, Accept, Doing, States, Methods
  <2>4. pending' = [pending EXCEPT ![Monitor] = Body["start"][state] \o Tail(@)]
    BY <2>1, <2>3 DEF Dispatch, Doing
  <2>5. Body["start"][state] = <<"RUNNING", "runner.start">>
    BY <2>2 DEF Body, StartBody
  <2>6. pending'[Monitor] = <<"RUNNING", "runner.start">> \o <<FinishTask>>
    BY <1>1, <2>1, <2>4, <2>5
  <2>7. pending'[Monitor] = <<"RUNNING", "runner.start", FinishTask>>
    <3>1. "RUNNING" \in Steps /\ "runner.start" \in Steps /\ FinishTask \in Steps
      BY NamesDiffer DEF Steps, States, Effects
    <3>. QED BY <2>6, <3>1, ThreeAccesses
  <2>. QED BY <1>2, <1>5, <2>2, <2>3, <2>7 DEF Dispatch, MonitorStep, runnerVars
<1>6. CASE pending[Monitor] = <<"RUNNING", "runner.start", FinishTask>>
  <2>1. Head(pending[Monitor]) = "RUNNING" /\ Tail(pending[Monitor]) = <<"runner.start", FinishTask>>
    BY <1>6
  <2>2. Assign(Monitor)
    BY <2>1, NamesDiffer
       DEF CallerStep, Dispatch, Interrupt, StartRunner, Throw, Flush, Submit, Accept, Doing, States, Methods
  <2>3. Ended
    BY <1>6 DEF RInv, MonitorFlow
  <2>. QED BY <1>2, <1>3, <1>6, <2>1, <2>2, <2>3 DEF Assign, Doing, MonitorStep
<1>7. CASE pending[Monitor] = <<"runner.start", FinishTask>>
  <2>1. Head(pending[Monitor]) = "runner.start" /\ Tail(pending[Monitor]) = <<FinishTask>>
    BY <1>7
  <2>2. StartRunner(Monitor)
    BY <2>1, NamesDiffer
       DEF CallerStep, Dispatch, Assign, Interrupt, Throw, Flush, Submit, Accept, Doing, States, Methods, Effects
  <2>3. Ended /\ runner = "new"
    BY <1>7 DEF RInv, MonitorFlow
  <2>. QED BY <1>2, <1>3, <1>7, <2>1, <2>2, <2>3 DEF StartRunner, MonitorStep
<1>8. CASE pending[Monitor] = <<FinishTask>>
  <2>1. Head(pending[Monitor]) = FinishTask /\ Tail(pending[Monitor]) = <<>>
    BY <1>8
  <2>2. Submit(Monitor)
    BY <2>1, NamesDiffer DEF CallerStep, Dispatch, Assign, Interrupt, StartRunner, Throw, Flush, Doing, Effects
  <2>3. Accept(Monitor, FinishTask)
    BY <2>1, <2>2 DEF Submit, Accept, Doing
  <2>4. Ended
    BY <1>1, <1>8 DEF RInv, MonitorFlow
  <2>. QED BY <1>2, <1>3, <1>8, <2>1, <2>3, <2>4 DEF Accept, MonitorStep
<1>. QED BY <1>1, <1>4, <1>5, <1>6, <1>7, <1>8 DEF RInv, MonitorFlow

-----------------------------------------------------------------------------
(* What scripts keep while none is called, submitted or evaluated.          *)

LEMMA ScriptsRest ==
  ASSUME RInv, UNCHANGED scriptVars,
         browserStatus = "LOADED" => browserStatus' = "LOADED",
         \A c \in Clients : pending'[c] = pending[c],
         \A s \in Scripts : /\ ticket'[s] = ticket[s]
                            /\ phase'[s] = phase[s] \/ (phase[s] = "waiting" /\ phase'[s] = "running")
  PROVE  /\ ClientFlow' /\ Results' /\ Earlier' /\ Order'
         /\ \A s \in Scripts : phase'[s] # "new" => s \in Called'
         /\ evaluated' \in Seq(Called')
<1>1. UNCHANGED <<result, immediate, waiter, evaluated, before>>
  BY DEF scriptVars
<1>2. Called' = Called /\ Evaluated' = Evaluated
  BY <1>1 DEF Called, Evaluated
<1>3. \A s \in Scripts : /\ Underway(s)' <=> Underway(s)
                         /\ phase'[s] = "new" <=> phase[s] = "new"
                         /\ \A c \in Clients : Has(c, s)' <=> Has(c, s)
  BY <1>1 DEF Underway, Has
<1>4. Returned' = Returned
  BY <1>2, <1>3 DEF Returned, Called
<1>5. ClientFlow'
  <2>1. \A c \in Clients : pending[c] # <<>> => \E s \in Scripts : pending[c] = <<s>>
    BY DEF RInv, ClientFlow
  <2>2. \A c \in Clients : immediate[c] # NoScript => browserStatus = "LOADED" /\ pending[c] = <<>>
    BY DEF RInv, ClientFlow
  <2>3. \A c, d \in Clients, s \in Scripts :
          /\ Has(c, s) => result[s] = "open" /\ phase[s] = "new"
          /\ Has(c, s) /\ Has(d, s) => c = d
    BY DEF RInv, ClientFlow
  <2>. QED BY <1>1, <1>3, <2>1, <2>2, <2>3 DEF ClientFlow
<1>6. Results'
  <2>1. \A s \in Scripts :
          /\ (result[s] = "open" => Underway(s) \/ phase[s] \in {"waiting", "running"})'
          /\ (phase[s] \in {"waiting", "running"} => result[s] = "open")'
          /\ phase'[s] # "dropped"
          /\ (result[s] = "value" => s \in Evaluated)'
          /\ (s \in Evaluated => result[s] \in {"value", "error"})'
    BY <1>1, <1>2, <1>3 DEF RInv, Results
  <2>. QED BY <1>1, <2>1 DEF RInv, Results
<1>7. Earlier'
  <2> SUFFICES ASSUME NEW s \in Scripts, NEW u \in before[s]
               PROVE  /\ s # u /\ u \in Returned'
                      /\ phase'[s] # "new" /\ phase'[u] # "new" => ticket'[u] < ticket'[s]
    BY <1>1 DEF Earlier
  <2>1. /\ s # u /\ u \in Returned /\ u \in Scripts
        /\ phase[s] # "new" /\ phase[u] # "new" => ticket[u] < ticket[s]
    BY DEF RInv, Earlier, Returned, Called
  <2>. QED BY <1>3, <1>4, <2>1
<1>8. Order'
  <2> SUFFICES ASSUME NEW j \in DOMAIN evaluated, NEW u \in before[evaluated[j]], SameWay(evaluated[j], u)'
               PROVE  \E i \in DOMAIN evaluated : i < j /\ evaluated[i] = u
    BY <1>1 DEF Order
  <2>1. evaluated[j] \in Scripts /\ u \in Scripts
    BY EvaluatedAreCalled DEF RInv, RunnerTypeOK
  <2>2. SameWay(evaluated[j], u)
    BY <1>1, <1>3, <2>1 DEF SameWay, Delayed
  <2>. QED BY <2>2 DEF RInv, Order
<1>9. \A s \in Scripts : phase'[s] # "new" => s \in Called'
  BY <1>2, <1>3 DEF RInv, RunnerTypeOK
<1>. QED BY <1>1, <1>2, <1>5, <1>6, <1>7, <1>8, <1>9 DEF RInv, RunnerTypeOK

LEMMA TypesRest ==
  ASSUME RInv, UNCHANGED scriptVars, TypeOK', browserStatus' \in BrowserStatus, widgetDisposed' \in BOOLEAN,
         \A s \in Scripts : phase'[s] # "new" => s \in Called',
         evaluated' \in Seq(Called')
  PROVE  RunnerTypeOK'
BY DEF RInv, RunnerTypeOK, scriptVars

-----------------------------------------------------------------------------
(* The steps of the worker and of the holder of the monitor.                *)

LEMMA LoopKeeps ==
  ASSUME RInv, LoopTop \/ CheckPaused \/ TakeInterrupted \/ SwitchInterrupted,
         UNCHANGED <<runnerStatus, scriptVars>>
  PROVE  RInv'
<1>1. IInv'
  BY LoopIInv DEF RInv
<1>2. /\ UNCHANGED <<state, pending, phase, ticket>>
      /\ runner # "new" /\ runner' # "new"
  BY DEF LoopTop, CheckPaused, TakeInterrupted, SwitchInterrupted, taskVars, RInv, RunnerTypeOK, TypeOK, States
<1>3. UNCHANGED <<browserStatus, widgetDisposed>>
  BY DEF runnerStatus
<1>4. MonitorFlow'
  BY <1>2, <1>3 DEF RInv, MonitorFlow, Ended
<1>5. /\ ClientFlow' /\ Results' /\ Earlier' /\ Order'
      /\ \A s \in Scripts : phase'[s] # "new" => s \in Called'
      /\ evaluated' \in Seq(Called')
  BY <1>2, <1>3, ScriptsRest
<1>6. RunnerTypeOK'
  BY <1>1, <1>3, <1>5, TypesRest DEF IInv, RInv, RunnerTypeOK
<1>. QED BY <1>1, <1>4, <1>5, <1>6 DEF RInv

LEMMA TakeKeeps ==
  ASSUME RInv, Take, UNCHANGED <<runnerStatus, scriptVars>>
  PROVE  RInv'
<1>1. IInv'
  BY TakeIInv DEF RInv
<1>2. /\ phase' = [phase EXCEPT ![Head(queue)] = "running"] /\ phase[Head(queue)] = "waiting"
      /\ UNCHANGED <<state, pending, ticket>>
      /\ runner # "new" /\ runner' # "new"
  BY HeadIsOldest DEF Take, RInv
<1>3. UNCHANGED <<browserStatus, widgetDisposed>>
  BY DEF runnerStatus
<1>4. MonitorFlow'
  BY <1>2, <1>3 DEF RInv, MonitorFlow, Ended
<1>5. \A s \in Scripts : phase'[s] = phase[s] \/ (phase[s] = "waiting" /\ phase'[s] = "running")
  BY <1>2, NamesDiffer DEF RInv, RunnerTypeOK, TypeOK
<1>6. /\ ClientFlow' /\ Results' /\ Earlier' /\ Order'
      /\ \A s \in Scripts : phase'[s] # "new" => s \in Called'
      /\ evaluated' \in Seq(Called')
  BY <1>2, <1>3, <1>5, ScriptsRest
<1>7. RunnerTypeOK'
  BY <1>1, <1>3, <1>6, TypesRest DEF IInv, RInv, RunnerTypeOK
<1>. QED BY <1>1, <1>4, <1>6, <1>7 DEF RInv

LEMMA RunFinisherKeeps ==
  ASSUME RInv, RunFinisher, UNCHANGED <<runnerStatus, scriptVars>>
  PROVE  RInv'
<1>1. IInv'
  BY RunIInv DEF RInv
<1>2. /\ \E t \in Finishers : phase' = [phase EXCEPT ![t] = "done"]
      /\ UNCHANGED <<pending, ticket>>
      /\ state' = "SHUTDOWN" /\ runner # "new" /\ runner' # "new"
  BY DEF RunFinisher
<1>3. UNCHANGED <<browserStatus, widgetDisposed>>
  BY DEF runnerStatus
<1>4. MonitorFlow'
  BY <1>2, <1>3 DEF RInv, MonitorFlow, Ended
<1>5. \A s \in Scripts : phase'[s] = phase[s]
  BY <1>2, NamesDiffer DEF RInv, RunnerTypeOK, TypeOK
<1>6. /\ ClientFlow' /\ Results' /\ Earlier' /\ Order'
      /\ \A s \in Scripts : phase'[s] # "new" => s \in Called'
      /\ evaluated' \in Seq(Called')
  BY <1>2, <1>3, <1>5, ScriptsRest
<1>7. RunnerTypeOK'
  BY <1>1, <1>3, <1>6, TypesRest DEF IInv, RInv, RunnerTypeOK
<1>. QED BY <1>1, <1>4, <1>6, <1>7 DEF RInv

LEMMA MonitorKeeps ==
  ASSUME RInv, CallerStep(Monitor), UNCHANGED <<runnerStatus, scriptVars>>
  PROVE  RInv'
<1>1. IInv'
  BY NamesDiffer, QuietCallerStep, FlushIInv, SubmitIInv DEF RInv, CallerStep
<1>2. MonitorStep /\ \A c \in Clients : pending'[c] = pending[c]
  BY MonitorFollowsUp
<1>3. UNCHANGED <<browserStatus, widgetDisposed>>
  BY DEF runnerStatus
<1>4. MonitorFlow'
  <2>1. MonitorFlow
    BY DEF RInv
  <2>2. CASE pending[Monitor] = <<ShutdownTask, "start", FinishTask>>
    <3>1. Head(pending[Monitor]) = ShutdownTask /\ ShutdownTask # "RUNNING" /\ Len(pending[Monitor]) = 3
      BY <2>2, NamesDiffer DEF States
    <3>2. state = "INIT" /\ runner = "new" /\ Ended
      BY <2>1, <2>2, <3>1 DEF MonitorFlow
    <3>3. UNCHANGED <<state, runner>> /\ pending'[Monitor] = <<"start", FinishTask>>
      BY <1>2, <2>2, <3>1 DEF MonitorStep
    <3>. QED BY <1>3, <3>2, <3>3 DEF MonitorFlow, Ended
  <2>3. CASE pending[Monitor] = <<"start", FinishTask>>
    <3>1. Head(pending[Monitor]) = "start" /\ Len(pending[Monitor]) = 2
      BY <2>3
    <3>2. state = "INIT" /\ runner = "new" /\ Ended
      BY <2>1, <2>3, <3>1 DEF MonitorFlow
    <3>3. UNCHANGED <<state, runner>> /\ pending'[Monitor] = <<"RUNNING", "runner.start", FinishTask>>
      BY <1>2, <2>3, <3>1 DEF MonitorStep
    <3>. QED BY <1>3, <3>2, <3>3 DEF MonitorFlow, Ended
  <2>4. CASE pending[Monitor] = <<"RUNNING", "runner.start", FinishTask>>
    BY <1>2, <1>3, <2>1, <2>4 DEF MonitorFlow, Ended, MonitorStep
  <2>5. CASE pending[Monitor] = <<"runner.start", FinishTask>>
    <3>1. Head(pending[Monitor]) = "runner.start" /\ Len(pending[Monitor]) = 2
      BY <2>5
    <3>2. state = "RUNNING" /\ Ended
      BY <2>1, <2>5, <3>1 DEF MonitorFlow
    <3>3. UNCHANGED state /\ runner' = "top" /\ pending'[Monitor] = <<FinishTask>>
      BY <1>2, <2>5, <3>1 DEF MonitorStep
    <3>. QED BY <1>3, <3>2, <3>3 DEF MonitorFlow, Ended
  <2>6. CASE pending[Monitor] \in {<<FinishTask>>, <<>>}
    BY <1>2, <1>3, <2>1, <2>6 DEF MonitorFlow, Ended, MonitorStep
  <2>. QED BY <2>1, <2>2, <2>3, <2>4, <2>5, <2>6 DEF MonitorFlow
<1>5. \A s \in Scripts : phase'[s] = phase[s] /\ ticket'[s] = ticket[s]
  BY <1>2, NamesDiffer DEF MonitorStep, Accept, taskVars, RInv, RunnerTypeOK, TypeOK
<1>6. /\ ClientFlow' /\ Results' /\ Earlier' /\ Order'
      /\ \A s \in Scripts : phase'[s] # "new" => s \in Called'
      /\ evaluated' \in Seq(Called')
  BY <1>2, <1>3, <1>5, ScriptsRest
<1>7. RunnerTypeOK'
  BY <1>1, <1>3, <1>6, TypesRest DEF IInv, RInv, RunnerTypeOK
<1>. QED BY <1>1, <1>4, <1>6, <1>7 DEF RInv

LEMMA SetBrowserStatusKeeps ==
  ASSUME RInv, NEW new \in BrowserStatus, SetBrowserStatus(new), widgetDisposed' \in BOOLEAN,
         UNCHANGED scriptVars
  PROVE  RInv'
<1>1. /\ UNCHANGED <<state, queue, runner, interrupted, calls, phase, ticket, issued>>
      /\ pending[Monitor] = <<>>
  BY DEF SetBrowserStatus, runnerVars, taskVars
<1>2. /\ pending \in [Callers -> Seq(Steps)] /\ Monitor \in Callers
      /\ \A c \in Clients : c \in Callers /\ c # Monitor
  BY NamesDiffer DEF RInv, RunnerTypeOK, TypeOK
<1>3. FollowUp(new) \in Seq(Steps)
  <2>1. "start" \in Steps /\ ShutdownTask \in Steps /\ FinishTask \in Steps
    BY NamesDiffer DEF Steps, Methods
  <2>. QED BY <2>1 DEF FollowUp
<1>4. /\ pending' \in [Callers -> Seq(Steps)]
      /\ \A c \in Clients : pending'[c] = pending[c]
  BY <1>2, <1>3 DEF SetBrowserStatus
<1>5. IInv'
  BY <1>1, <1>4, QuietStep DEF RInv, RunnerTypeOK, TypeOK, orderVars
<1>6. CASE UNCHANGED <<browserStatus, pending>>
  <2>1. MonitorFlow'
    BY <1>1, <1>6 DEF RInv, MonitorFlow, Ended
  <2>2. /\ ClientFlow' /\ Results' /\ Earlier' /\ Order'
        /\ \A s \in Scripts : phase'[s] # "new" => s \in Called'
        /\ evaluated' \in Seq(Called')
    BY <1>1, <1>4, <1>6, ScriptsRest
  <2>3. RunnerTypeOK'
    BY <1>5, <1>6, <2>2, TypesRest DEF IInv, RInv, RunnerTypeOK
  <2>. QED BY <1>5, <2>1, <2>2, <2>3 DEF RInv
<1>7. CASE /\ new # browserStatus /\ Allowed(browserStatus, new)
           /\ browserStatus' = new /\ pending' = [pending EXCEPT ![Monitor] = FollowUp(new)]
  <2>1. /\ ~Ended /\ browserStatus # "LOADED" /\ state = "INIT" /\ runner = "new"
        /\ pending'[Monitor] = FollowUp(new)
    BY <1>1, <1>2, <1>7 DEF Allowed, Ended, RInv, MonitorFlow
  <2>2. MonitorFlow'
    <3>1. CASE new = "LOADED"
      BY <1>1, <1>7, <2>1, <3>1 DEF FollowUp, MonitorFlow, Ended
    <3>2. CASE new \in {"TIMEDOUT", "DISPOSED"}
      BY <1>1, <1>7, <2>1, <3>2 DEF FollowUp, MonitorFlow, Ended
    <3>3. CASE new \in {"INITIALIZING", "LOADING"}
      BY <1>1, <1>7, <2>1, <3>3 DEF FollowUp, MonitorFlow, Ended
    <3>. QED BY <3>1, <3>2, <3>3 DEF BrowserStatus
  <2>3. /\ ClientFlow' /\ Results' /\ Earlier' /\ Order'
        /\ \A s \in Scripts : phase'[s] # "new" => s \in Called'
        /\ evaluated' \in Seq(Called')
    BY <1>1, <1>4, <2>1, ScriptsRest
  <2>4. RunnerTypeOK'
    BY <1>5, <1>7, <2>3, TypesRest DEF IInv
  <2>. QED BY <1>5, <2>2, <2>3, <2>4 DEF RInv
<1>. QED BY <1>6, <1>7 DEF SetBrowserStatus

LEMMA WidgetKeeps ==
  ASSUME RInv, UNCHANGED <<vars, browserStatus, scriptVars>>, widgetDisposed' \in BOOLEAN
  PROVE  RInv'
<1>1. UNCHANGED <<state, queue, runner, interrupted, pending, calls, phase, ticket, issued>>
  BY DEF vars
<1>2. IInv' /\ MonitorFlow'
  BY <1>1, QuietStep DEF RInv, RunnerTypeOK, TypeOK, orderVars, MonitorFlow, Ended
<1>3. /\ ClientFlow' /\ Results' /\ Earlier' /\ Order'
      /\ \A s \in Scripts : phase'[s] # "new" => s \in Called'
      /\ evaluated' \in Seq(Called')
  BY <1>1, ScriptsRest
<1>4. RunnerTypeOK'
  BY <1>2, <1>3, TypesRest DEF IInv, RInv, RunnerTypeOK
<1>. QED BY <1>2, <1>3, <1>4 DEF RInv

-----------------------------------------------------------------------------
(* The steps of the clients.                                                *)

LEMMA ClientSubmitKeeps ==
  ASSUME RInv, NEW c \in Clients, CallerStep(c), UNCHANGED <<runnerStatus, scriptVars>>
  PROVE  RInv'
<1>1. PICK s \in Scripts :
        /\ pending[c] = <<s>> /\ Accept(c, s) /\ pending' = [pending EXCEPT ![c] = <<>>]
  BY ClientSubmits
<1>2. IInv'
  BY NamesDiffer, QuietCallerStep, FlushIInv, SubmitIInv DEF RInv, CallerStep
<1>3. /\ UNCHANGED <<state, runner, browserStatus, widgetDisposed, result, immediate, waiter, evaluated, before>>
      /\ phase[s] = "new" /\ phase' = [phase EXCEPT ![s] = "waiting"]
      /\ ticket' = [ticket EXCEPT ![s] = issued + 1]
  BY <1>1 DEF Accept, runnerStatus, scriptVars
<1>4. /\ pending'[c] = <<>> /\ pending'[Monitor] = pending[Monitor]
      /\ \A d \in Clients : d # c => pending'[d] = pending[d]
  BY <1>1, NamesDiffer DEF RInv, RunnerTypeOK, TypeOK
<1>5. /\ phase'[s] = "waiting" /\ ticket'[s] = issued + 1
      /\ \A u \in Scripts : u # s => phase'[u] = phase[u] /\ ticket'[u] = ticket[u]
      /\ \A u \in Scripts : ticket[u] \in Nat /\ ticket[u] <= issued /\ issued \in Nat
  BY <1>3, NamesDiffer DEF RInv, IInv, TypeOK, Tickets
<1>6. /\ Has(c, s) /\ result[s] = "open" /\ \A d \in Clients : Has(d, s) => d = c
  BY <1>1 DEF RInv, ClientFlow, Has
<1>7. MonitorFlow'
  BY <1>3, <1>4 DEF RInv, MonitorFlow, Ended
<1>8. immediate[c] = NoScript
  BY <1>1 DEF RInv, ClientFlow
<1>9. \A d \in Clients, u \in Scripts : Has(d, u)' => Has(d, u) /\ u # s
  BY <1>1, <1>3, <1>4, <1>6, <1>8, NamesDiffer DEF Has
<1>10. ClientFlow'
  <2>1. \A d \in Clients : pending'[d] # <<>> => \E u \in Scripts : pending'[d] = <<u>>
    BY <1>4 DEF RInv, ClientFlow
  <2>2. \A d \in Clients : immediate'[d] # NoScript => browserStatus' = "LOADED" /\ pending'[d] = <<>>
    BY <1>3, <1>4, <1>8 DEF RInv, ClientFlow
  <2>3. \A d \in Clients, u \in Scripts : Has(d, u)' => result'[u] = "open" /\ phase'[u] = "new"
    BY <1>3, <1>5, <1>9 DEF RInv, ClientFlow
  <2>4. \A d, e \in Clients, u \in Scripts : Has(d, u)' /\ Has(e, u)' => d = e
    BY <1>9 DEF RInv, ClientFlow
  <2>. QED BY <2>1, <2>2, <2>3, <2>4 DEF ClientFlow
<1>11. Called' = Called /\ Evaluated' = Evaluated
  BY <1>3 DEF Called, Evaluated
<1>12. \A u \in Scripts : u # s => (Underway(u)' <=> Underway(u))
  BY <1>1, <1>3, <1>4 DEF Underway
<1>13. s \in Called /\ Underway(s)
  BY <1>1, <1>6 DEF Called, Underway
<1>14. \A u \in Returned : u \in Returned' /\ u # s
  BY <1>11, <1>12, <1>13 DEF Returned, Called
<1>15. Results'
  <2>1. \A u \in Scripts :
          /\ (result[u] = "open" => Underway(u) \/ phase[u] \in {"waiting", "running"})'
          /\ (phase[u] \in {"waiting", "running"} => result[u] = "open")'
          /\ phase'[u] # "dropped"
          /\ (result[u] = "value" => u \in Evaluated)'
          /\ (u \in Evaluated => result[u] \in {"value", "error"})'
    BY <1>3, <1>5, <1>6, <1>11, <1>12 DEF RInv, Results
  <2>. QED BY <1>3, <2>1 DEF RInv, Results
<1>16. Earlier'
  <2> SUFFICES ASSUME NEW x \in Scripts, NEW u \in before[x]
               PROVE  /\ x # u /\ u \in Returned'
                      /\ phase'[x] # "new" /\ phase'[u] # "new" => ticket'[u] < ticket'[x]
    BY <1>3 DEF Earlier
  <2>1. /\ x # u /\ u \in Returned /\ u \in Scripts
        /\ phase[x] # "new" /\ phase[u] # "new" => ticket[u] < ticket[x]
    BY DEF RInv, Earlier, Returned, Called
  <2>2. u \in Returned' /\ u # s
    BY <1>14, <2>1
  <2>3. CASE x = s
    BY <1>5, <2>1, <2>2, <2>3
  <2>4. CASE x # s
    BY <1>5, <2>1, <2>2, <2>4
  <2>. QED BY <2>1, <2>2, <2>3, <2>4
<1>17. Order'
  <2> SUFFICES ASSUME NEW j \in DOMAIN evaluated, NEW u \in before[evaluated[j]], SameWay(evaluated[j], u)'
               PROVE  \E i \in DOMAIN evaluated : i < j /\ evaluated[i] = u
    BY <1>3 DEF Order
  <2>1. evaluated[j] \in Scripts /\ u \in Returned /\ u \in Scripts
    BY EvaluatedAreCalled DEF RInv, Earlier, Returned, Called
  <2>2. evaluated[j] # s /\ u # s
    BY <1>6, <1>14, <2>1 DEF RInv, Results, Evaluated
  <2>3. SameWay(evaluated[j], u)
    BY <1>3, <1>5, <2>1, <2>2 DEF SameWay, Delayed
  <2>. QED BY <2>3 DEF RInv, Order
<1>18. RunnerTypeOK'
  <2>1. \A u \in Scripts : phase'[u] # "new" => u \in Called'
    BY <1>5, <1>11, <1>13 DEF RInv, RunnerTypeOK
  <2>2. evaluated' \in Seq(Called')
    BY <1>3, <1>11 DEF RInv, RunnerTypeOK
  <2>. QED BY <1>2, <1>3, <2>1, <2>2, TypesRest DEF IInv, RInv, RunnerTypeOK
<1>. QED BY <1>2, <1>7, <1>10, <1>15, <1>16, <1>17, <1>18 DEF RInv

(* A call of run changes the result of its script alone, which was none.   *)
LEMMA RunKeeps ==
  ASSUME RInv, NEW c \in Clients, NEW s \in Scripts, Run(c, s),
         waiter' \in [UriScripts -> WaiterStatus]
  PROVE  RInv'
<1>1. /\ pending[c] = <<>> /\ immediate[c] = NoScript /\ result[s] = "none"
      /\ before' = [before EXCEPT ![s] = Returned]
      /\ UNCHANGED <<state, queue, runner, interrupted, calls, phase, ticket, issued,
                     browserStatus, widgetDisposed, evaluated>>
  BY DEF Run, Idle, runnerVars, taskVars, runnerStatus
<1>2. /\ pending \in [Callers -> Seq(Steps)] /\ immediate \in [Clients -> Scripts \cup {NoScript}]
      /\ result \in [Scripts -> {"none", "open", "value", "error"}] /\ c \in Callers
      /\ Monitor \in Callers /\ c # Monitor
  BY NamesDiffer DEF RInv, RunnerTypeOK, TypeOK
<1>3. /\ pending'[c] \in {<<>>, <<s>>} /\ immediate'[c] \in {NoScript, s}
      /\ immediate'[c] # NoScript => browserStatus = "LOADED" /\ pending'[c] = <<>>
      /\ (pending'[c] = <<s>> \/ immediate'[c] = s) <=> result'[s] = "open"
      /\ \A d \in Callers : d # c => pending'[d] = pending[d]
      /\ \A d \in Clients : d # c => immediate'[d] = immediate[d]
      /\ result'[s] \in {"open", "error"}
      /\ \A u \in Scripts : u # s => result'[u] = result[u]
  <2>1. s # NoScript /\ <<s>> # <<>>
    BY NamesDiffer
  <2>2. /\ \A d \in Callers : d # c => pending'[d] = pending[d]
        /\ \A d \in Clients : d # c => immediate'[d] = immediate[d]
        /\ \A u \in Scripts : u # s => result'[u] = result[u]
    BY <1>2 DEF Run
  <2>3. \/ pending'[c] = <<s>> /\ immediate'[c] = NoScript /\ result'[s] = "open"
        \/ pending'[c] = <<>> /\ immediate'[c] = s /\ result'[s] = "open" /\ browserStatus = "LOADED"
        \/ pending'[c] = <<>> /\ immediate'[c] = NoScript /\ result'[s] = "error"
    BY <1>1, <1>2 DEF Run
  <2>. QED BY <2>1, <2>2, <2>3
<1>4. /\ pending' \in [Callers -> Seq(Steps)] /\ immediate' \in [Clients -> Scripts \cup {NoScript}]
      /\ result' \in [Scripts -> {"none", "open", "value", "error"}]
  <2>1. <<s>> \in Seq(Steps)
    BY NamesDiffer DEF Steps
  <2>. QED BY <1>2, <2>1 DEF Run
<1>5. IInv'
  BY <1>1, <1>4, QuietStep DEF RInv, RunnerTypeOK, TypeOK, orderVars
<1>6. MonitorFlow'
  BY <1>1, <1>2, <1>3 DEF RInv, MonitorFlow, Ended
<1>7. /\ \A d \in Clients : ~Has(d, s)
      /\ \A d \in Clients, u \in Scripts : u # s => (Has(d, u)' <=> Has(d, u))
      /\ \A d \in Clients : Has(d, s)' => d = c /\ result'[s] = "open"
      /\ result'[s] = "open" => Has(c, s)'
      /\ phase[s] = "new"
  <2>1. \A d \in Clients : ~Has(d, s)
    BY <1>1 DEF RInv, ClientFlow
  <2>2. \A u \in Scripts : ~Has(c, u)
    BY <1>1, NamesDiffer DEF Has
  <2>3. \A u \in Scripts : u # s => ~Has(c, u)'
    BY <1>3, NamesDiffer DEF Has
  <2>4. \A d \in Clients, u \in Scripts : d # c => (Has(d, u)' <=> Has(d, u))
    BY <1>3, NamesDiffer DEF Has
  <2>5. Has(c, s)' <=> result'[s] = "open"
    BY <1>3 DEF Has
  <2>6. phase[s] = "new"
    BY <1>1 DEF RInv, RunnerTypeOK, Called
  <2>. QED BY <2>1, <2>2, <2>3, <2>4, <2>5, <2>6
<1>8. ClientFlow'
  <2>1. \A d \in Clients : pending'[d] # <<>> => \E u \in Scripts : pending'[d] = <<u>>
    BY <1>3, NamesDiffer DEF RInv, ClientFlow
  <2>2. \A d \in Clients : immediate'[d] # NoScript => browserStatus' = "LOADED" /\ pending'[d] = <<>>
    BY <1>1, <1>3, NamesDiffer DEF RInv, ClientFlow
  <2>3. \A d \in Clients, u \in Scripts : Has(d, u)' => result'[u] = "open" /\ phase'[u] = "new"
    BY <1>1, <1>3, <1>7 DEF RInv, ClientFlow
  <2>4. \A d, e \in Clients, u \in Scripts : Has(d, u)' /\ Has(e, u)' => d = e
    BY <1>7 DEF RInv, ClientFlow
  <2>. QED BY <2>1, <2>2, <2>3, <2>4 DEF ClientFlow
<1>9. /\ Called \subseteq Called' /\ s \notin Called /\ Evaluated' = Evaluated
      /\ \A u \in Scripts : u # s => (u \in Called' <=> u \in Called)
  BY <1>1, <1>3 DEF Called, Evaluated
<1>10. \A u \in Scripts : /\ Underway(u) <=> \E d \in Clients : Has(d, u)
                          /\ Underway(u)' <=> \E d \in Clients : Has(d, u)'
  BY DEF Underway, Has
<1>11. Returned \subseteq Returned' /\ Returned \subseteq Scripts /\ s \notin Returned
  BY <1>7, <1>9, <1>10 DEF Returned, Called
<1>12. s \notin Evaluated
  BY <1>1 DEF RInv, Results
<1>13. Results'
  <2>1. \A u \in Scripts : u # s =>
          /\ (result[u] = "open" => Underway(u) \/ phase[u] \in {"waiting", "running"})'
          /\ (phase[u] \in {"waiting", "running"} => result[u] = "open")'
          /\ phase'[u] # "dropped"
          /\ (result[u] = "value" => u \in Evaluated)'
          /\ (u \in Evaluated => result[u] \in {"value", "error"})'
    <3>1. \A u \in Scripts : u # s => (Underway(u)' <=> Underway(u))
      BY <1>7, <1>10
    <3>. QED BY <1>1, <1>3, <1>9, <3>1 DEF RInv, Results
  <2>2. /\ (result[s] = "open" => Underway(s))'
        /\ phase'[s] = "new" /\ result'[s] # "value" /\ s \notin Evaluated'
    BY <1>1, <1>3, <1>7, <1>9, <1>10, <1>12
  <2>3. \A i, j \in DOMAIN evaluated' : evaluated'[i] = evaluated'[j] => i = j
    BY <1>1 DEF RInv, Results
  <2>. QED BY <2>1, <2>2, <2>3 DEF Results
<1>14. before' \in [Scripts -> SUBSET Scripts] /\ before'[s] = Returned
       /\ \A u \in Scripts : u # s => before'[u] = before[u]
  BY <1>1, <1>11 DEF RInv, RunnerTypeOK
<1>15. Earlier'
  <2> SUFFICES ASSUME NEW x \in Scripts, NEW u \in before'[x]
               PROVE  /\ x # u /\ u \in Returned'
                      /\ phase[x] # "new" /\ phase[u] # "new" => ticket[u] < ticket[x]
    BY <1>1 DEF Earlier
  <2>1. CASE x = s
    BY <1>7, <1>11, <1>14, <2>1
  <2>2. CASE x # s
    BY <1>11, <1>14, <2>2 DEF RInv, Earlier
  <2>. QED BY <2>1, <2>2
<1>16. Order'
  <2> SUFFICES ASSUME NEW j \in DOMAIN evaluated, NEW u \in before'[evaluated[j]], SameWay(evaluated[j], u)'
               PROVE  \E i \in DOMAIN evaluated : i < j /\ evaluated[i] = u
    BY <1>1 DEF Order
  <2>1. evaluated[j] \in Scripts /\ evaluated[j] # s
    BY <1>12, EvaluatedAreCalled DEF Evaluated
  <2>2. u \in before[evaluated[j]] /\ u \in Returned /\ u \in Scripts /\ u # s
    BY <1>11, <1>14, <2>1 DEF RInv, Earlier
  <2>3. SameWay(evaluated[j], u)
    BY <1>1, <1>3, <2>1, <2>2 DEF SameWay, Delayed
  <2>. QED BY <2>2, <2>3 DEF RInv, Order
<1>17. RunnerTypeOK'
  <2>1. \A u \in Scripts : phase'[u] # "new" => u \in Called'
    BY <1>1, <1>9 DEF RInv, RunnerTypeOK
  <2>2. evaluated' \in Seq(Called')
    BY <1>1, <1>9, EvaluatedAreCalled, SeqOfSuperset
  <2>. QED BY <1>1, <1>4, <1>5, <1>14, <2>1, <2>2 DEF IInv, RInv, RunnerTypeOK
<1>. QED BY <1>5, <1>6, <1>8, <1>13, <1>15, <1>16, <1>17 DEF RInv

(* What the helper thread of run(URI) waits for disturbs no one else.       *)
LEMMA WaitersKeep ==
  ASSUME RInv, waiter' \in [UriScripts -> WaiterStatus],
         UNCHANGED <<vars, runnerStatus, result, immediate, evaluated, before>>
  PROVE  RInv'
<1>1. UNCHANGED <<state, queue, runner, interrupted, pending, calls, phase, ticket, issued,
                  browserStatus, widgetDisposed, result, immediate, evaluated, before>>
  BY DEF vars, runnerStatus
<1>2. IInv' /\ MonitorFlow'
  BY <1>1, QuietStep DEF RInv, RunnerTypeOK, TypeOK, orderVars, MonitorFlow, Ended
<1>3. \A u \in Scripts : /\ Underway(u)' <=> Underway(u)
                         /\ \A c \in Clients : Has(c, u)' <=> Has(c, u)
  BY <1>1 DEF Underway, Has
<1>4. Called' = Called /\ Returned' = Returned /\ Evaluated' = Evaluated
  BY <1>1, <1>3 DEF Called, Returned, Evaluated
<1>5. ClientFlow'
  BY <1>1, <1>3 DEF RInv, ClientFlow
<1>6. Results'
  <2>1. \A u \in Scripts :
          /\ (result[u] = "open" => Underway(u) \/ phase[u] \in {"waiting", "running"})'
          /\ (phase[u] \in {"waiting", "running"} => result[u] = "open")'
          /\ phase'[u] # "dropped"
          /\ (result[u] = "value" => u \in Evaluated)'
          /\ (u \in Evaluated => result[u] \in {"value", "error"})'
    BY <1>1, <1>3, <1>4 DEF RInv, Results
  <2>. QED BY <1>1, <2>1 DEF RInv, Results
<1>7. Earlier' /\ Order'
  BY <1>1, <1>4 DEF RInv, Earlier, Order, SameWay, Delayed
<1>8. RunnerTypeOK'
  BY <1>1, <1>2, <1>4 DEF IInv, RInv, RunnerTypeOK
<1>. QED BY <1>2, <1>5, <1>6, <1>7, <1>8 DEF RInv

-----------------------------------------------------------------------------
(* The evaluation of a script, directly or by the worker.                   *)

LEMMA EvaluateKeeps ==
  ASSUME RInv, NEW s \in Scripts, result[s] = "open",
         Evaluate(s) \/ (result' = [result EXCEPT ![s] = "error"] /\ UNCHANGED evaluated),
         \/ phase[s] = "new" /\ phase'[s] = "new"
         \/ phase[s] = "running" /\ phase'[s] \in {"done", "failed"},
         \A u \in Scripts : ticket'[u] = ticket[u] /\ (u # s => phase'[u] = phase[u]),
         \A c \in Clients : ~Has(c, s)' /\ \A u \in Scripts : u # s => (Has(c, u)' <=> Has(c, u)),
         UNCHANGED <<waiter, before>>
  PROVE  /\ Results' /\ Earlier' /\ Order'
         /\ \A u \in Scripts : phase'[u] # "new" => u \in Called'
         /\ evaluated' \in Seq(Called')
         /\ result' \in [Scripts -> {"none", "open", "value", "error"}]
<1>1. /\ result' \in [Scripts -> {"none", "open", "value", "error"}]
      /\ result'[s] \in {"value", "error"} /\ \A u \in Scripts : u # s => result'[u] = result[u]
      /\ result'[s] = "value" => evaluated' = Append(evaluated, s)
      /\ evaluated' \in {evaluated, Append(evaluated, s)}
  BY DEF Evaluate, RInv, RunnerTypeOK
<1>2. Called' = Called /\ s \in Called
  BY <1>1 DEF Called
<1>3. /\ evaluated \in Seq(Called) /\ Len(evaluated) \in Nat /\ DOMAIN evaluated = 1 .. Len(evaluated)
      /\ \A i \in DOMAIN evaluated : evaluated[i] \in Scripts
  BY EvaluatedAreCalled
<1>4. s \notin Evaluated /\ \A i \in DOMAIN evaluated : evaluated[i] # s
  BY DEF RInv, Results, Evaluated
<1>5. /\ evaluated' \in Seq(Called')
      /\ \A i \in DOMAIN evaluated : i \in DOMAIN evaluated' /\ evaluated'[i] = evaluated[i]
      /\ \A i \in DOMAIN evaluated' : i \in DOMAIN evaluated \/
           (i = Len(evaluated) + 1 /\ evaluated'[i] = s)
      /\ evaluated' = Append(evaluated, s) => Len(evaluated) + 1 \in DOMAIN evaluated'
                                              /\ evaluated'[Len(evaluated) + 1] = s
  <2>1. /\ Append(evaluated, s) \in Seq(Called) /\ Append(evaluated, s) # evaluated
        /\ DOMAIN Append(evaluated, s) = 1 .. Len(evaluated) + 1
        /\ \A i \in 1 .. Len(evaluated) : Append(evaluated, s)[i] = evaluated[i]
        /\ Append(evaluated, s)[Len(evaluated) + 1] = s
    <3>1. evaluated \in Seq(Called) /\ s \in Called
      BY <1>2, <1>3
    <3>. QED BY <3>1, AppendOne
  <2>2. CASE evaluated' = evaluated
    BY <1>2, <1>3, <2>1, <2>2
  <2>3. CASE evaluated' = Append(evaluated, s)
    <3>1. /\ evaluated' \in Seq(Called) /\ evaluated' # evaluated
          /\ DOMAIN evaluated' = 1 .. Len(evaluated) + 1
          /\ \A i \in 1 .. Len(evaluated) : evaluated'[i] = evaluated[i]
          /\ evaluated'[Len(evaluated) + 1] = s
      BY <2>1, <2>3, Zenon
    <3>2. DOMAIN evaluated = 1 .. Len(evaluated) /\ Len(evaluated) \in Nat
      BY <1>3
    <3>. QED BY <1>2, <3>1, <3>2
  <2>. QED BY <1>1, <2>2, <2>3
<1>6. /\ \A u \in Evaluated : u \in Evaluated'
      /\ \A u \in Evaluated' : u \in Evaluated \/ u = s
      /\ result'[s] = "value" => s \in Evaluated'
  BY <1>1, <1>5 DEF Evaluated
<1>7. \A u \in Scripts : /\ Underway(u) <=> \E c \in Clients : Has(c, u)
                         /\ Underway(u)' <=> \E c \in Clients : Has(c, u)'
  BY DEF Underway, Has
<1>8. /\ ~Underway(s)' /\ \A u \in Scripts : u # s => (Underway(u)' <=> Underway(u))
      /\ Returned \subseteq Returned' /\ Returned \subseteq Scripts
  BY <1>2, <1>7 DEF Returned, Called
<1>9. Results'
  <2>1. \A u \in Scripts : u # s =>
          /\ (result[u] = "open" => Underway(u) \/ phase[u] \in {"waiting", "running"})'
          /\ (phase[u] \in {"waiting", "running"} => result[u] = "open")'
          /\ phase'[u] # "dropped"
          /\ (result[u] = "value" => u \in Evaluated)'
          /\ (u \in Evaluated => result[u] \in {"value", "error"})'
    BY <1>1, <1>6, <1>8 DEF RInv, Results
  <2>2. /\ result'[s] \in {"value", "error"} /\ phase'[s] \in {"new", "done", "failed"}
        /\ (result[s] = "value" => s \in Evaluated)'
    BY <1>1, <1>6
  <2>3. \A i, j \in DOMAIN evaluated' : evaluated'[i] = evaluated'[j] => i = j
    <3> TAKE i, j \in DOMAIN evaluated'
    <3>1. \A k, l \in DOMAIN evaluated : evaluated[k] = evaluated[l] => k = l
      BY DEF RInv, Results
    <3>. QED BY <1>4, <1>5, <3>1
  <2>. QED BY <2>1, <2>2, <2>3 DEF Results
<1>10. \A u \in Scripts : Delayed(u)' <=> Delayed(u)
  BY DEF Delayed
<1>11. Earlier'
  BY <1>8, <1>10 DEF RInv, Earlier, Delayed
<1>12. ASSUME NEW u \in before[s], SameWay(s, u)'
       PROVE  u \in Evaluated
  <2>1. u \in Returned /\ u # s /\ u \in Scripts /\ ~Underway(u)
    BY DEF RInv, Earlier, Returned, Called
  <2>2. (Delayed(s) <=> Delayed(u)) /\ result[u] \in {"open", "value"}
    BY <1>1, <1>10, <1>12, <2>1 DEF SameWay
  <2>3. CASE result[u] = "value"
    BY <2>1, <2>3 DEF RInv, Results
  <2>4. CASE result[u] = "open"
    <3>1. phase[u] \in {"waiting", "running"}
      BY <2>1, <2>4 DEF RInv, Results
    <3>2. phase[s] = "running" /\ ticket[u] < ticket[s]
      BY <2>2, <3>1 DEF Delayed, RInv, Earlier
    <3>3. phase[u] = "waiting"
      BY <2>1, <3>1, <3>2, NamesDiffer DEF RInv, IInv, TypeOK
    <3>4. ticket[s] < ticket[u] /\ ticket[s] \in Nat /\ ticket[u] \in Nat
      BY <2>1, <3>2, <3>3, NamesDiffer DEF RInv, IInv, NoOvertaking, Started, InPhase, TypeOK
    <3>. QED BY <3>2, <3>4
  <2>. QED BY <2>2, <2>3, <2>4
<1>13. Order'
  <2> SUFFICES ASSUME NEW j \in DOMAIN evaluated', NEW u \in before[evaluated'[j]], SameWay(evaluated[j], u)'
               PROVE  \E i \in DOMAIN evaluated' : i < j /\ evaluated'[i] = u
    BY DEF Order
  <2>1. CASE j \in DOMAIN evaluated
    <3>1. evaluated'[j] = evaluated[j] /\ evaluated[j] \in Scripts /\ u \in Scripts
      BY <1>3, <1>5, <2>1 DEF RInv, RunnerTypeOK
    <3>2. SameWay(evaluated[j], u)
      BY <1>1, <1>10, <3>1 DEF SameWay
    <3>3. PICK i \in DOMAIN evaluated : i < j /\ evaluated[i] = u
      BY <2>1, <3>1, <3>2 DEF RInv, Order
    <3>. QED BY <1>5, <3>3
  <2>2. CASE j = Len(evaluated) + 1 /\ evaluated'[j] = s
    <3>1. PICK i \in DOMAIN evaluated : evaluated[i] = u
      BY <1>12, <2>2 DEF Evaluated
    <3>. QED BY <1>3, <1>5, <2>2, <3>1
  <2>. QED BY <1>5, <2>1, <2>2
<1>14. \A u \in Scripts : phase'[u] # "new" => u \in Called'
  BY <1>2, <1>10 DEF Delayed, RInv, RunnerTypeOK
<1>. QED BY <1>1, <1>5, <1>9, <1>11, <1>13, <1>14

LEMMA EvaluateImmediatelyKeeps ==
  ASSUME RInv, NEW c \in Clients, EvaluateImmediately(c)
  PROVE  RInv'
<1>1. PICK s \in Scripts :
      /\ s # NoScript /\ s = immediate[c] /\ Evaluate(s) /\ pending[c] = <<>>
      /\ immediate' = [immediate EXCEPT ![c] = NoScript]
      /\ UNCHANGED <<state, queue, runner, interrupted, pending, calls, phase, ticket, issued,
                     browserStatus, widgetDisposed, waiter, before>>
  BY DEF EvaluateImmediately, vars, runnerStatus, RInv, RunnerTypeOK, ClientFlow
<1>2. /\ immediate \in [Clients -> Scripts \cup {NoScript}]
      /\ immediate' \in [Clients -> Scripts \cup {NoScript}]
      /\ immediate[c] = s /\ immediate'[c] = NoScript /\ \A d \in Clients : d # c => immediate'[d] = immediate[d]
  BY <1>1 DEF RInv, RunnerTypeOK
<1>3. Has(c, s) /\ result[s] = "open" /\ phase[s] = "new"
  BY <1>1, <1>2 DEF RInv, ClientFlow, Has
<1>4. \A d \in Clients : ~Has(d, s)' /\ \A u \in Scripts : u # s => (Has(d, u)' <=> Has(d, u))
  <2>1. \A d \in Clients : Has(d, s) => d = c
    BY <1>1, <1>3 DEF RInv, ClientFlow
  <2>2. ~Has(c, s)' /\ \A u \in Scripts : u # s => (Has(c, u)' <=> Has(c, u))
    <3>1. \A u \in Scripts : u # NoScript /\ <<u>> # <<>>
      BY NamesDiffer
    <3>. QED BY <1>1, <1>2, <3>1 DEF Has
  <2>3. \A d \in Clients : d # c => \A u \in Scripts : Has(d, u)' <=> Has(d, u)
    BY <1>1, <1>2 DEF Has
  <2>. QED BY <2>1, <2>2, <2>3
<1>5. IInv' /\ MonitorFlow'
  BY <1>1, QuietStep DEF RInv, RunnerTypeOK, TypeOK, orderVars, MonitorFlow, Ended
<1>6. /\ Results' /\ Earlier' /\ Order'
      /\ \A u \in Scripts : phase'[u] # "new" => u \in Called'
      /\ evaluated' \in Seq(Called')
      /\ result' \in [Scripts -> {"none", "open", "value", "error"}]
  BY <1>1, <1>3, <1>4, EvaluateKeeps
<1>7. ClientFlow'
  <2>1. \A u \in Scripts : u # s => result'[u] = result[u]
    BY <1>1 DEF Evaluate, RInv, RunnerTypeOK
  <2>2. \A d \in Clients, u \in Scripts : Has(d, u)' => Has(d, u) /\ u # s
    BY <1>4
  <2>3. \A d \in Clients, u \in Scripts : Has(d, u)' => result'[u] = "open" /\ phase'[u] = "new"
    BY <1>1, <2>1, <2>2 DEF RInv, ClientFlow
  <2>4. \A d, e \in Clients, u \in Scripts : Has(d, u)' /\ Has(e, u)' => d = e
    BY <2>2 DEF RInv, ClientFlow
  <2>. QED BY <1>1, <1>2, <2>3, <2>4 DEF RInv, ClientFlow
<1>8. RunnerTypeOK'
  BY <1>1, <1>2, <1>5, <1>6 DEF IInv, RInv, RunnerTypeOK
<1>. QED BY <1>5, <1>6, <1>7, <1>8 DEF RInv

LEMMA EvaluateDelayedKeeps ==
  ASSUME RInv, EvaluateDelayed
  PROVE  RInv'
<1>1. PICK s \in Scripts \cap InPhase("running") :
        /\ RunTask
        /\ Evaluate(s) \/ (result' = [result EXCEPT ![s] = "error"] /\ UNCHANGED evaluated)
        /\ UNCHANGED <<browserStatus, widgetDisposed, immediate, waiter, before>>
  BY DEF EvaluateDelayed, runnerStatus
<1>2. IInv'
  BY <1>1, RunIInv DEF RInv
<1>3. /\ UNCHANGED <<state, pending, ticket>> /\ runner # "new" /\ runner' # "new"
      /\ \E t \in InPhase("running"), outcome \in {"done", "failed"} : phase' = [phase EXCEPT ![t] = outcome]
  BY <1>1 DEF RunTask
<1>4. phase[s] = "running" /\ \E outcome \in {"done", "failed"} : phase' = [phase EXCEPT ![s] = outcome]
  BY <1>1, <1>3, NamesDiffer DEF InPhase, RInv, IInv, TypeOK
<1>5. /\ phase'[s] \in {"done", "failed"}
      /\ \A u \in Scripts : u # s => phase'[u] = phase[u]
  BY <1>1, <1>4, NamesDiffer DEF RInv, IInv, TypeOK
<1>6. result[s] = "open"
  BY <1>4 DEF RInv, Results
<1>7. \A c \in Clients : ~Has(c, s) /\ \A u \in Scripts : Has(c, u)' <=> Has(c, u)
  <2>1. \A c \in Clients : ~Has(c, s)
    BY <1>4 DEF RInv, ClientFlow
  <2>. QED BY <1>1, <1>3, <2>1 DEF Has
<1>8. MonitorFlow'
  BY <1>1, <1>3 DEF RInv, MonitorFlow, Ended
<1>9. /\ Results' /\ Earlier' /\ Order'
      /\ \A u \in Scripts : phase'[u] # "new" => u \in Called'
      /\ evaluated' \in Seq(Called')
      /\ result' \in [Scripts -> {"none", "open", "value", "error"}]
  BY <1>1, <1>3, <1>4, <1>5, <1>6, <1>7, EvaluateKeeps
<1>10. ClientFlow'
  <2>1. \A u \in Scripts : u # s => result'[u] = result[u]
    BY <1>1 DEF Evaluate, RInv, RunnerTypeOK
  <2>2. \A d \in Clients, u \in Scripts : Has(d, u)' => Has(d, u) /\ u # s
    BY <1>7
  <2>3. \A d \in Clients, u \in Scripts : Has(d, u)' => result'[u] = "open" /\ phase'[u] = "new"
    BY <1>5, <2>1, <2>2 DEF RInv, ClientFlow
  <2>4. \A d, e \in Clients, u \in Scripts : Has(d, u)' /\ Has(e, u)' => d = e
    BY <2>2 DEF RInv, ClientFlow
  <2>. QED BY <1>1, <1>3, <2>3, <2>4 DEF RInv, ClientFlow
<1>11. RunnerTypeOK'
  BY <1>1, <1>2, <1>9 DEF IInv, RInv, RunnerTypeOK
<1>. QED BY <1>2, <1>8, <1>9, <1>10, <1>11 DEF RInv

-----------------------------------------------------------------------------

LEMMA InitRInv == BInit => RInv
<1> SUFFICES ASSUME BInit PROVE RInv
  OBVIOUS
<1>1. IInv
  BY InitIInv DEF BInit
<1>2. /\ DOMAIN evaluated = {} /\ evaluated = <<>>
      /\ \A s \in Scripts : result[s] = "none" /\ phase[s] = "new" /\ before[s] = {}
      /\ \A c \in Clients : immediate[c] = NoScript /\ pending[c] = <<>>
      /\ \A s \in UriScripts : waiter[s] = "none"
  BY NamesDiffer DEF BInit, Init
<1>3. RunnerTypeOK
  <2>1. evaluated \in Seq(Called) /\ TypeOK
    BY <1>1, <1>2 DEF IInv
  <2>2. /\ immediate \in [Clients -> Scripts \cup {NoScript}]
        /\ result \in [Scripts -> {"none", "open", "value", "error"}]
        /\ waiter \in [UriScripts -> WaiterStatus]
        /\ before \in [Scripts -> SUBSET Scripts]
        /\ browserStatus \in BrowserStatus /\ widgetDisposed \in BOOLEAN
    BY DEF BInit, BrowserStatus, WaiterStatus
  <2>. QED BY <1>2, <2>1, <2>2 DEF RunnerTypeOK
<1>4. MonitorFlow
  BY NamesDiffer DEF BInit, Init, MonitorFlow, Ended
<1>5. \A c \in Clients, s \in Scripts : ~Has(c, s)
  <2>1. \A s \in Scripts : s # NoScript /\ <<s>> # <<>>
    BY NamesDiffer
  <2>. QED BY <1>2, <2>1 DEF Has
<1>6. ClientFlow
  BY <1>2, <1>5 DEF ClientFlow
<1>7. Results /\ Earlier /\ Order
  BY <1>2 DEF Results, Earlier, Order, Evaluated
<1>. QED BY <1>1, <1>3, <1>4, <1>6, <1>7 DEF RInv

LEMMA ClientKeeps == RInv /\ ClientSteps => RInv'
<1> SUFFICES ASSUME RInv, ClientSteps PROVE RInv'
  OBVIOUS
<1>1. ASSUME NEW c \in Clients, NEW s \in Scripts, RunScript(c, s) PROVE RInv'
  BY <1>1, RunKeeps DEF RunScript, RInv, RunnerTypeOK
<1>2. ASSUME NEW c \in Clients, NEW s \in Scripts, RunUri(c, s) PROVE RInv'
  <2>1. waiter' \in [UriScripts -> WaiterStatus]
    BY <1>2 DEF RunUri, RInv, RunnerTypeOK, WaiterStatus
  <2>. QED BY <1>2, <2>1, RunKeeps DEF RunUri
<1>3. ASSUME NEW s \in UriScripts, RegisterCallback(s) \/ UriLoaded(s) \/ CancelUri(s) PROVE RInv'
  <2>1. waiter' \in [UriScripts -> WaiterStatus]
    BY <1>3 DEF RegisterCallback, UriLoaded, CancelUri, RInv, RunnerTypeOK, WaiterStatus
  <2>. QED BY <1>3, <2>1, WaitersKeep DEF RegisterCallback, UriLoaded, CancelUri
<1>. QED BY <1>1, <1>2, <1>3, EvaluateImmediatelyKeeps DEF ClientSteps

LEMMA WorkerKeeps == RInv /\ (WorkerCalls \/ WorkerLoop) => RInv'
<1> SUFFICES ASSUME RInv, WorkerCalls \/ WorkerLoop PROVE RInv'
  OBVIOUS
<1>1. ASSUME NEW c \in Callers, CallerStep(c), UNCHANGED <<runnerStatus, scriptVars>> PROVE RInv'
  BY <1>1, ClientSubmitKeeps, MonitorKeeps, NamesDiffer
<1>2. CASE WorkerLoop
  BY <1>2, LoopKeeps, TakeKeeps, RunFinisherKeeps DEF WorkerLoop, RunnerLoop
<1>. QED BY <1>1, <1>2 DEF WorkerCalls

(* The invariant is inductive for the script runner and for whoever calls  *)
(* setBrowserStatus otherwise.                                             *)
LEMMA StepKeepsRInv == RInv /\ [BNext]_bvars => RInv'
<1> SUFFICES ASSUME RInv, [BNext]_bvars PROVE RInv'
  OBVIOUS
<1>1. widgetDisposed \in BOOLEAN
  BY DEF RInv, RunnerTypeOK
<1>2. CASE SetStatus
  BY <1>1, <1>2, SetBrowserStatusKeeps DEF SetStatus
<1>3. CASE DisposeWidget
  BY <1>3, WidgetKeeps DEF DisposeWidget
<1>4. CASE UNCHANGED bvars
  BY <1>1, <1>4, WidgetKeeps DEF bvars, vars, scriptVars
<1>. QED BY <1>2, <1>3, <1>4, ClientKeeps, WorkerKeeps, EvaluateDelayedKeeps DEF BNext, RunnerSteps

-----------------------------------------------------------------------------
(* The theorems.                                                            *)

\* Every clause of the inductive invariant holds in every state: the follow-up
\* of setBrowserStatus, the scripts the clients and the worker have between
\* them, their results, and the order they are evaluated in.
THEOREM RunnerInvariant == BSpec => []RInv
<1>. QED BY InitRInv, StepKeepsRInv, PTL DEF BSpec

\* The variables of BrowserScriptRunner and its worker have their types, and
\* the worker is only given scripts that run was called with.
THEOREM RunnerTypes == BSpec => []RunnerTypeOK
<1>1. RInv => RunnerTypeOK
  BY DEF RInv
<1>. QED BY <1>1, RunnerInvariant, PTL

\* Whatever the statuses and the threads, setBrowserStatus and run never get a
\* StateException from the worker.
THEOREM WorkerIsUsedLegally == BSpec => []WorkerNeverRefuses
<1>1. RInv => WorkerNeverRefuses
  <2> SUFFICES ASSUME RInv, NEW c \in Callers, Doing(c, "throw") PROVE FALSE
    BY DEF WorkerNeverRefuses
  <2>1. pending[c] # <<>> /\ Head(pending[c]) = "throw"
    BY DEF Doing
  <2>2. ShutdownTask # "throw" /\ FinishTask # "throw" /\ \A s \in Scripts : s # "throw"
    BY NamesDiffer DEF Effects
  <2>3. CASE c = Monitor
    <3>1. pending[Monitor] \in {<<ShutdownTask, "start", FinishTask>>, <<"start", FinishTask>>,
                                <<"RUNNING", "runner.start", FinishTask>>,
                                <<"runner.start", FinishTask>>, <<FinishTask>>}
      BY <2>1, <2>3 DEF RInv, MonitorFlow
    <3>. QED BY <2>1, <2>2, <2>3, <3>1
  <2>4. CASE c \in Clients
    <3>1. PICK s \in Scripts : pending[c] = <<s>>
      BY <2>1, <2>4 DEF RInv, ClientFlow
    <3>. QED BY <2>1, <2>2, <3>1
  <2>. QED BY <2>3, <2>4, NamesDiffer
<1>. QED BY <1>1, RunnerInvariant, PTL

(* Where a script is among the evaluated ones.                             *)
LEMMA PositionIs ==
  ASSUME RInv, NEW i \in DOMAIN evaluated
  PROVE  Position(evaluated[i]) = i
<1>1. \A j \in DOMAIN evaluated : evaluated[j] = evaluated[i] => j = i
  BY DEF RInv, Results
<1>. QED BY <1>1 DEF Position

\* Of two scripts that went the same way, the queue of the worker or the UI
\* thread, the one whose run had returned before is evaluated first.
THEOREM OrderIsKept == BSpec => []OrderWithinMode
<1>1. RInv => OrderWithinMode
  <2> SUFFICES ASSUME RInv, NEW s \in Evaluated, NEW u \in before[s] \cap Called,
                      Delayed(s) <=> Delayed(u), result[u] \in {"open", "value"}
               PROVE  u \in Evaluated /\ Position(u) < Position(s)
    BY DEF OrderWithinMode
  <2>1. PICK j \in DOMAIN evaluated : evaluated[j] = s
    BY DEF Evaluated
  <2>2. PICK i \in DOMAIN evaluated : i < j /\ evaluated[i] = u
    BY <2>1 DEF RInv, Order, SameWay
  <2>. QED BY <2>1, <2>2, PositionIs DEF Evaluated
<1>. QED BY <1>1, RunnerInvariant, PTL

-----------------------------------------------------------------------------
(* The script runner implements the service it documents.                   *)

LEMMA ServiceRests ==
  ASSUME UNCHANGED <<browserStatus, result>>
  PROVE  UNCHANGED Service!pvars
BY DEF Service!pvars, Page

LEMMA RunIsAsked ==
  ASSUME RInv, NEW c \in Clients, NEW s \in Scripts, Run(c, s)
  PROVE  Service!Ask(s) \/ Service!Refuse(s)
<1>1. /\ UNCHANGED browserStatus /\ browserStatus \in BrowserStatus /\ Page' = Page
      /\ result[s] = "none"
  BY DEF Run, runnerStatus, RInv, RunnerTypeOK, Page
<1>2. CASE browserStatus \in {"LOADING", "LOADED"}
  <2>1. result' = [result EXCEPT ![s] = "open"]
    BY <1>2 DEF Run
  <2>2. Page \in {"loading", "loaded"}
    BY <1>2 DEF Page
  <2>. QED BY <1>1, <2>1, <2>2 DEF Service!Ask, Service!Resolve
<1>3. CASE browserStatus \in {"INITIALIZING", "TIMEDOUT", "DISPOSED"}
  <2>1. result' = [result EXCEPT ![s] = "error"]
    BY <1>3 DEF Run
  <2>2. Page # "loaded"
    BY <1>3 DEF Page
  <2>. QED BY <1>1, <2>1, <2>2 DEF Service!Refuse, Service!Resolve
<1>. QED BY <1>1, <1>2, <1>3 DEF BrowserStatus

LEMMA EvaluationResolves ==
  ASSUME RInv, UNCHANGED browserStatus, NEW s \in Scripts, result[s] = "open",
         \/ browserStatus = "LOADED" /\ Evaluate(s)
         \/ Ended /\ result' = [result EXCEPT ![s] = "error"]
  PROVE  Service!Fulfil(s) \/ Service!Break(s)
<1>1. Page' = Page /\ Ended /\ Page \in {"loaded", "aborted"}
  BY DEF Page, Ended
<1>2. CASE result' = [result EXCEPT ![s] = "error"]
  BY <1>1, <1>2 DEF Service!Break, Service!Resolve
<1>3. CASE browserStatus = "LOADED" /\ result' = [result EXCEPT ![s] = "value"]
  <2>1. Page = "loaded"
    BY <1>3 DEF Page
  <2>. QED BY <1>1, <1>3, <2>1 DEF Service!Fulfil, Service!Resolve
<1>. QED BY <1>2, <1>3 DEF Evaluate

LEMMA StatusMoves ==
  ASSUME RInv, NEW new \in BrowserStatus, SetBrowserStatus(new), UNCHANGED result
  PROVE  Service!Load \/ Service!Loaded \/ Service!Abort \/ UNCHANGED Service!pvars
<1>1. CASE UNCHANGED browserStatus
  BY <1>1, ServiceRests
<1>2. CASE Allowed(browserStatus, new) /\ browserStatus' = new /\ new # browserStatus
  <2>1. CASE new = "LOADING"
    BY <1>2, <2>1 DEF Allowed, Page, Service!Load
  <2>2. CASE new = "LOADED"
    BY <1>2, <2>2 DEF Allowed, Page, Service!Loaded
  <2>3. CASE new \in {"TIMEDOUT", "DISPOSED"}
    BY <1>2, <2>3 DEF Allowed, Page, Service!Abort
  <2>. QED BY <1>2, <2>1, <2>2, <2>3 DEF Allowed, BrowserStatus
<1>. QED BY <1>1, <1>2 DEF SetBrowserStatus

\* Every step of the script runner is a step of the service or leaves the page
\* and the promises alone: a script yields a value only in a loaded page, an
\* accepted one fails only when loading has ended, and its end is final.
THEOREM RunnerRefinement == BSpec => ImplementsScriptService
<1>1. BInit => Service!Init
  BY DEF BInit, Service!Init, Page
<1>2. RInv /\ [BNext]_bvars => [Service!Next]_(Service!pvars)
  <2> SUFFICES ASSUME RInv, [BNext]_bvars PROVE Service!Next \/ UNCHANGED Service!pvars
    OBVIOUS
  <2>1. ASSUME NEW c \in Clients, NEW s \in Scripts, Run(c, s) PROVE Service!Next
    BY <2>1, RunIsAsked DEF Service!Next
  <2>2. ASSUME NEW c \in Clients, EvaluateImmediately(c) PROVE Service!Next
    <3>1. PICK s \in Scripts : s = immediate[c] /\ Evaluate(s)
      BY <2>2 DEF EvaluateImmediately, RInv, RunnerTypeOK
    <3>2. result[s] = "open" /\ browserStatus = "LOADED"
      BY <2>2, <3>1 DEF EvaluateImmediately, RInv, ClientFlow, Has
    <3>3. UNCHANGED browserStatus
      BY <2>2 DEF EvaluateImmediately, runnerStatus
    <3>. QED BY <3>1, <3>2, <3>3, EvaluationResolves DEF Service!Next
  <2>3. CASE EvaluateDelayed
    <3>1. PICK s \in Scripts \cap InPhase("running") :
            /\ RunTask
            /\ \/ browserStatus = "LOADED" /\ Evaluate(s)
               \/ result' = [result EXCEPT ![s] = "error"]
            /\ UNCHANGED browserStatus
      BY <2>3 DEF EvaluateDelayed, runnerStatus
    <3>2. Ended /\ result[s] = "open"
      BY <3>1 DEF RunTask, InPhase, RInv, MonitorFlow, Results
    <3>. QED BY <3>1, <3>2, EvaluationResolves DEF Service!Next
  <2>4. CASE SetStatus
    BY <2>4, StatusMoves DEF SetStatus, scriptVars, Service!Next
  <2>5. CASE WorkerCalls \/ WorkerLoop
    BY <2>5, ServiceRests DEF WorkerCalls, WorkerLoop, runnerStatus, scriptVars
  <2>6. CASE DisposeWidget \/ UNCHANGED bvars
    BY <2>6, ServiceRests DEF DisposeWidget, bvars, scriptVars
  <2>7. ASSUME NEW s \in UriScripts, RegisterCallback(s) \/ UriLoaded(s) \/ CancelUri(s)
        PROVE  UNCHANGED Service!pvars
    BY <2>7, ServiceRests DEF RegisterCallback, UriLoaded, CancelUri, runnerStatus
  <2>. QED BY <2>1, <2>2, <2>3, <2>4, <2>5, <2>6, <2>7
           DEF BNext, RunnerSteps, ClientSteps, RunScript, RunUri
<1>. QED BY <1>1, <1>2, RunnerInvariant, PTL DEF BSpec, ImplementsScriptService, Service!Spec
=============================================================================
