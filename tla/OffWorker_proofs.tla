--------------------------- MODULE OffWorker_proofs ---------------------------
(***************************************************************************)
(* Proofs about OffWorker for any callers, tasks and calls.                *)
(***************************************************************************)
EXTENDS OffWorker, SequenceTheorems, TLAPS

(* The queue is sorted by submission, and a task has a ticket iff it was   *)
(* submitted.                                                              *)
Tickets ==
  /\ \A i, j \in DOMAIN queue : i < j => ticket[queue[i]] < ticket[queue[j]]
  /\ \A t \in Tasks : ticket[t] <= issued /\ (phase[t] = "new" <=> ticket[t] = 0)

(* The running task is the youngest one that was ever started.             *)
RunningIsYoungest ==
  \A t \in InPhase("running") : \A u \in Started : ticket[u] <= ticket[t] /\ (ticket[u] = ticket[t] => u = t)

IInv == TypeOK /\ Tickets /\ NoOvertaking /\ RunningIsYoungest

(* The variables the order of the tasks depends on.                        *)
orderVars == <<queue, phase, ticket, issued>>

LEMMA BodyType ==
  ASSUME NEW m \in Methods, NEW s \in States
  PROVE  Body[m][s] \in Seq(Steps)
<1>1. Stop \in Seq(Steps) /\ <<>> \in Seq(Steps) /\ <<"throw">> \in Seq(Steps)
  BY DEF Stop, Steps, States, Effects
<1>2. Stop \o Stop \in Seq(Steps)
  BY <1>1, ConcatProperties
<1>3. StartBody[s] \in Seq(Steps)
  <2>1. /\ StartBody["INIT"] = <<"RUNNING", "runner.start">> /\ StartBody["RUNNING"] = <<"throw">>
        /\ StartBody["PAUSED"] = <<"unpause">> /\ StartBody["SHUTDOWN"] = <<"throw">>
    BY DEF StartBody
  <2>2. <<"RUNNING", "runner.start">> \in Seq(Steps) /\ <<"unpause">> \in Seq(Steps)
    BY DEF Steps, States, Methods, Effects
  <2>. QED BY <1>1, <2>1, <2>2 DEF States
<1>4. PauseBody[s] \in Seq(Steps)
  <2>1. /\ PauseBody["INIT"] = <<"throw">> /\ PauseBody["RUNNING"] = <<"PAUSED", "interrupt">>
        /\ PauseBody["PAUSED"] = <<>> /\ PauseBody["SHUTDOWN"] = <<"throw">>
    BY DEF PauseBody
  <2>2. <<"PAUSED", "interrupt">> \in Seq(Steps)
    BY DEF Steps, States, Effects
  <2>. QED BY <1>1, <2>1, <2>2 DEF States
<1>5. UnpauseBody[s] \in Seq(Steps)
  <2>1. /\ UnpauseBody["INIT"] = <<"start">> /\ UnpauseBody["RUNNING"] = <<>>
        /\ UnpauseBody["PAUSED"] = <<"RUNNING", "interrupt">> /\ UnpauseBody["SHUTDOWN"] = <<"throw">>
    BY DEF UnpauseBody
  <2>2. <<"start">> \in Seq(Steps) /\ <<"RUNNING", "interrupt">> \in Seq(Steps)
    BY DEF Steps, States, Methods, Effects
  <2>. QED BY <1>1, <2>1, <2>2 DEF States
<1>6. ShutdownBody[s] \in Seq(Steps)
  <2>1. /\ ShutdownBody["INIT"] = <<"SHUTDOWN">> /\ ShutdownBody["RUNNING"] = Stop \o Stop
        /\ ShutdownBody["PAUSED"] = Stop /\ ShutdownBody["SHUTDOWN"] = Stop
    BY DEF ShutdownBody
  <2>2. <<"SHUTDOWN">> \in Seq(Steps)
    BY DEF Steps, States
  <2>. QED BY <1>1, <1>2, <2>1, <2>2 DEF States
<1>7. FlushBody[s] \in Seq(Steps)
  BY DEF FlushBody, Steps, Effects
<1>8. Body[m] \in {StartBody, PauseBody, UnpauseBody, ShutdownBody, FlushBody}
  BY DEF Body, Methods
<1>. QED BY <1>3, <1>4, <1>5, <1>6, <1>7, <1>8

LEMMA InitIInv == Init => IInv
<1> SUFFICES ASSUME Init PROVE IInv
  OBVIOUS
<1>1. queue \in Seq(Tasks) /\ DOMAIN queue = {}
  BY DEF Init
<1>2. pending \in [Callers -> Seq(Steps)]
  BY DEF Init
<1>3. TypeOK
  BY <1>1, <1>2 DEF Init, TypeOK, States
<1>4. Tickets /\ NoOvertaking /\ RunningIsYoungest
  BY <1>1 DEF Init, Tickets, NoOvertaking, RunningIsYoungest, Started, InPhase
<1>. QED BY <1>3, <1>4 DEF IInv

(* The steps of the callers that submit or flush nothing, and the runner's *)
(* steps between two tasks, keep the order.                                *)
LEMMA QuietStep ==
  ASSUME IInv,
         orderVars' = orderVars,
         state' \in States,
         interrupted' \in BOOLEAN,
         calls' \in Nat,
         pending' \in [Callers -> Seq(Steps)],
         runner' \in {"new", "top", "check", "take", "run", "switch", "dead", "done"},
         runner = "run" => runner' = "run"
  PROVE  IInv'
BY DEF IInv, TypeOK, Tickets, NoOvertaking, RunningIsYoungest, Started, InPhase, orderVars

LEMMA CallIInv ==
  ASSUME IInv, NEW c \in Callers, NEW method \in Calls, Call(c, method)
  PROVE  IInv'
<1>1. <<method>> \in Seq(Steps)
  BY CallsAreMethods DEF Steps
<1>2. pending' \in [Callers -> Seq(Steps)]
  BY <1>1 DEF Call, IInv, TypeOK
<1>. QED BY <1>2, QuietStep DEF Call, IInv, TypeOK, orderVars, runnerVars, taskVars

LEMMA CallSubmitIInv ==
  ASSUME IInv, NEW c \in Callers, NEW t \in Tasks, CallSubmit(c, t)
  PROVE  IInv'
<1>1. <<t>> \in Seq(Steps)
  BY DEF Steps
<1>2. pending' \in [Callers -> Seq(Steps)]
  BY <1>1 DEF CallSubmit, IInv, TypeOK
<1>. QED BY <1>2, QuietStep DEF CallSubmit, IInv, TypeOK, orderVars, runnerVars, taskVars

(* What is left of a call after an access is again a sequence of steps.    *)
LEMMA PendingType ==
  ASSUME TypeOK, NEW c \in Callers, NEW step, Doing(c, step)
  PROVE  /\ Tail(pending[c]) \in Seq(Steps)
         /\ [pending EXCEPT ![c] = Tail(@)] \in [Callers -> Seq(Steps)]
         /\ [pending EXCEPT ![c] = <<>>] \in [Callers -> Seq(Steps)]
<1>1. pending[c] \in Seq(Steps) /\ pending[c] # <<>>
  BY DEF TypeOK, Doing
<1>2. Tail(pending[c]) \in Seq(Steps)
  BY <1>1, HeadTailProperties
<1>3. <<>> \in Seq(Steps)
  OBVIOUS
<1>. QED BY <1>2, <1>3 DEF TypeOK

LEMMA QuietCallerStep ==
  ASSUME IInv, NEW c \in Callers,
         Dispatch(c) \/ Assign(c) \/ Interrupt(c) \/ StartRunner(c) \/ Throw(c)
  PROVE  IInv'
<1>0. TypeOK BY DEF IInv
<1>1. CASE Dispatch(c)
  <2>1. PICK method \in Methods : Doing(c, method) /\ pending' = [pending EXCEPT ![c] = Body[method][state] \o Tail(@)]
    BY <1>1 DEF Dispatch
  <2>2. Body[method][state] \o Tail(pending[c]) \in Seq(Steps)
    BY <1>0, <2>1, BodyType, PendingType, ConcatProperties DEF TypeOK
  <2>3. pending' \in [Callers -> Seq(Steps)]
    BY <1>0, <2>1, <2>2 DEF TypeOK
  <2>. QED BY <1>0, <1>1, <2>3, QuietStep DEF Dispatch, TypeOK, orderVars, runnerVars, taskVars
<1>2. CASE Assign(c)
  <2>1. pending' \in [Callers -> Seq(Steps)]
    BY <1>0, <1>2, PendingType DEF Assign, Done
  <2>. QED BY <1>0, <1>2, <2>1, QuietStep DEF Assign, TypeOK, orderVars, taskVars
<1>3. CASE Interrupt(c)
  <2>1. pending' \in [Callers -> Seq(Steps)]
    BY <1>0, <1>3, PendingType DEF Interrupt, Done
  <2>. QED BY <1>0, <1>3, <2>1, QuietStep DEF Interrupt, TypeOK, orderVars, taskVars, RunnerAlive
<1>4. CASE StartRunner(c)
  <2>1. pending' \in [Callers -> Seq(Steps)]
    BY <1>0, <1>4, PendingType DEF StartRunner, Done
  <2>. QED BY <1>0, <1>4, <2>1, QuietStep DEF StartRunner, TypeOK, orderVars, taskVars
<1>5. CASE Throw(c)
  <2>1. pending' \in [Callers -> Seq(Steps)]
    BY <1>0, <1>5, PendingType DEF Throw
  <2>. QED BY <1>0, <1>5, <2>1, QuietStep DEF Throw, TypeOK, orderVars, runnerVars, taskVars
<1>. QED BY <1>1, <1>2, <1>3, <1>4, <1>5

LEMMA FlushIInv ==
  ASSUME IInv, NEW c \in Callers, Flush(c)
  PROVE  IInv'
<1>0. TypeOK BY DEF IInv
<1>1. pending' \in [Callers -> Seq(Steps)]
  BY <1>0, PendingType DEF Flush, Done
<1>2. TypeOK'
  BY <1>0, <1>1 DEF Flush, TypeOK
<1>3. (Tickets /\ NoOvertaking)'
  BY DEF IInv, Flush, TypeOK, Tickets, NoOvertaking, Started, InPhase
<1>4. RunningIsYoungest'
  BY DEF IInv, Flush, TypeOK, RunningIsYoungest, Started, InPhase
<1>. QED BY <1>2, <1>3, <1>4 DEF IInv

LEMMA SubmitIInv ==
  ASSUME IInv, NEW c \in Callers, Submit(c)
  PROVE  IInv'
<1>0. TypeOK /\ Tickets /\ NoOvertaking /\ RunningIsYoungest BY DEF IInv
<1>1. PICK t \in Tasks :
        /\ Doing(c, t) /\ phase[t] = "new"
        /\ queue' = Append(queue, t)
        /\ phase' = [phase EXCEPT ![t] = "waiting"]
        /\ issued' = issued + 1
        /\ ticket' = [ticket EXCEPT ![t] = issued + 1]
        /\ Done(c)
        /\ UNCHANGED <<state, runner, interrupted, calls>>
  BY DEF Submit, Accept
<1>2. pending' \in [Callers -> Seq(Steps)]
  BY <1>0, <1>1, PendingType DEF Done
<1>3. /\ queue' \in Seq(Tasks)
      /\ DOMAIN queue' = 1 .. Len(queue) + 1
      /\ DOMAIN queue = 1 .. Len(queue)
      /\ Len(queue) \in Nat
      /\ \A i \in 1 .. Len(queue) : queue'[i] = queue[i]
      /\ queue'[Len(queue) + 1] = t
  BY <1>0, <1>1, AppendProperties DEF TypeOK
<1>4. ticket \in [Tasks -> Nat] /\ phase \in [Tasks -> {"new", "waiting", "running", "done", "failed", "dropped"}] /\ issued \in Nat
  BY <1>0 DEF TypeOK
<1>5. \A u \in Tasks : phase'[u] = "waiting" <=> \E i \in DOMAIN queue' : queue'[i] = u
  <2> TAKE u \in Tasks
  <2>1. phase[u] = "waiting" <=> \E i \in 1 .. Len(queue) : queue[i] = u
    BY <1>0, <1>3 DEF TypeOK
  <2>2. CASE u = t
    <3>1. Len(queue) + 1 \in DOMAIN queue' /\ queue'[Len(queue) + 1] = u
      BY <2>2, <1>3
    <3>. QED BY <3>1, <2>2, <1>1, <1>4
  <2>3. CASE u # t
    <3>1. phase'[u] = phase[u]
      BY <2>3, <1>1, <1>4
    <3>2. (\E i \in DOMAIN queue' : queue'[i] = u) <=> \E i \in 1 .. Len(queue) : queue[i] = u
      BY <2>3, <1>3
    <3>. QED BY <3>1, <3>2, <2>1
  <2>. QED BY <2>2, <2>3
<1>6. TypeOK'
  BY <1>0, <1>1, <1>2, <1>3, <1>4, <1>5 DEF TypeOK
<1>7. ASSUME NEW i \in DOMAIN queue', NEW j \in DOMAIN queue', i < j
      PROVE  ticket'[queue'[i]] < ticket'[queue'[j]]
  <2>1. i \in 1 .. Len(queue) /\ queue[i] \in Tasks /\ queue[i] # t /\ queue'[i] = queue[i]
    BY <1>0, <1>1, <1>3, <1>7 DEF TypeOK
  <2>2. ticket'[queue'[i]] = ticket[queue[i]] /\ ticket[queue[i]] <= issued /\ ticket[queue[i]] \in Nat
    BY <2>1, <1>0, <1>1, <1>4 DEF Tickets
  <2>3. CASE j = Len(queue) + 1
    BY <2>2, <2>3, <1>1, <1>3, <1>4
  <2>4. CASE j \in 1 .. Len(queue)
    <3>1. queue[j] \in Tasks /\ queue[j] # t /\ queue'[j] = queue[j]
      BY <1>0, <1>1, <1>3, <2>4 DEF TypeOK
    <3>. QED BY <3>1, <2>1, <2>2, <2>4, <1>0, <1>1, <1>3, <1>4, <1>7 DEF Tickets
  <2>. QED BY <2>3, <2>4, <1>3
<1>8. \A u \in Tasks : ticket'[u] <= issued' /\ (phase'[u] = "new" <=> ticket'[u] = 0)
  BY <1>0, <1>1, <1>4 DEF Tickets
<1>9. NoOvertaking'
  BY <1>0, <1>1, <1>4 DEF NoOvertaking, Tickets, Started, InPhase
<1>10. RunningIsYoungest'
  BY <1>0, <1>1, <1>4 DEF RunningIsYoungest, Started, InPhase
<1>. QED BY <1>6, <1>7, <1>8, <1>9, <1>10 DEF IInv, Tickets

(* The head of the queue is the oldest of the waiting tasks, and nothing   *)
(* is running when the runner takes it.                                    *)
LEMMA HeadIsOldest ==
  ASSUME IInv, Take
  PROVE  /\ Head(queue) \in Tasks
         /\ phase[Head(queue)] = "waiting"
         /\ InPhase("running") = {}
         /\ \A u \in InPhase("waiting") : u # Head(queue) => ticket[Head(queue)] < ticket[u]
<1>1. queue \in Seq(Tasks) /\ queue # <<>>
  BY DEF IInv, TypeOK, Take
<1>2. Head(queue) = queue[1] /\ 1 \in DOMAIN queue /\ DOMAIN queue = 1 .. Len(queue) /\ Len(queue) \in Nat
  BY <1>1
<1>3. Head(queue) \in Tasks /\ phase[Head(queue)] = "waiting"
  BY <1>1, <1>2 DEF IInv, TypeOK
<1>4. InPhase("running") = {}
  BY DEF IInv, TypeOK, Take, InPhase
<1>5. ASSUME NEW u \in InPhase("waiting"), u # Head(queue)
      PROVE  ticket[Head(queue)] < ticket[u]
  <2>1. PICK i \in DOMAIN queue : queue[i] = u
    BY DEF IInv, TypeOK, InPhase
  <2>2. 1 < i
    BY <2>1, <1>2, <1>5
  <2>. QED BY <2>1, <2>2, <1>2 DEF IInv, Tickets
<1>. QED BY <1>3, <1>4, <1>5

LEMMA TakeIInv ==
  ASSUME IInv, Take
  PROVE  IInv'
<1>0. TypeOK /\ Tickets /\ NoOvertaking /\ RunningIsYoungest BY DEF IInv
<1> DEFINE h == Head(queue)
<1>1. /\ h \in Tasks /\ phase[h] = "waiting" /\ InPhase("running") = {}
      /\ \A u \in InPhase("waiting") : u # h => ticket[h] < ticket[u]
  BY HeadIsOldest
<1>2. /\ phase' = [phase EXCEPT ![h] = "running"] /\ queue' = Tail(queue) /\ runner' = "run"
      /\ UNCHANGED <<state, interrupted, pending, calls, ticket, issued>>
  BY DEF Take
<1>3. ticket \in [Tasks -> Nat] /\ phase \in [Tasks -> {"new", "waiting", "running", "done", "failed", "dropped"}]
  BY <1>0 DEF TypeOK
<1>4. /\ queue \in Seq(Tasks) /\ queue # <<>> /\ queue' \in Seq(Tasks) /\ Len(queue) \in Nat
      /\ DOMAIN queue = 1 .. Len(queue) /\ DOMAIN queue' = 1 .. Len(queue) - 1
      /\ \A i \in 1 .. Len(queue) - 1 : queue'[i] = queue[i + 1]
      /\ queue[1] = h
  BY <1>0, <1>2 DEF TypeOK, Take
<1> HIDE DEF h
<1>5. \A i \in 2 .. Len(queue) : queue[i] # h
  <2> TAKE i \in 2 .. Len(queue)
  <2>1. ticket[queue[1]] < ticket[queue[i]]
    BY <1>0, <1>4 DEF Tickets
  <2>. QED BY <2>1, <1>1, <1>3, <1>4
<1>6. \A u \in Tasks : phase'[u] = "waiting" <=> \E i \in DOMAIN queue' : queue'[i] = u
  <2> TAKE u \in Tasks
  <2>1. phase[u] = "waiting" <=> \E i \in 1 .. Len(queue) : queue[i] = u
    BY <1>0, <1>4 DEF TypeOK
  <2>2. (\E i \in DOMAIN queue' : queue'[i] = u) <=> \E i \in 2 .. Len(queue) : queue[i] = u
    <3>1. ASSUME NEW i \in DOMAIN queue', queue'[i] = u PROVE i + 1 \in 2 .. Len(queue) /\ queue[i + 1] = u
      BY <3>1, <1>4
    <3>2. ASSUME NEW i \in 2 .. Len(queue), queue[i] = u PROVE i - 1 \in DOMAIN queue' /\ queue'[i - 1] = u
      BY <3>2, <1>4
    <3>. QED BY <3>1, <3>2
  <2>3. CASE u = h
    BY <2>2, <2>3, <1>2, <1>3, <1>5
  <2>4. CASE u # h
    BY <2>1, <2>2, <2>4, <1>2, <1>3, <1>4
  <2>. QED BY <2>3, <2>4
<1>7. TypeOK'
  BY <1>0, <1>1, <1>2, <1>3, <1>4, <1>6 DEF TypeOK, InPhase
<1>8. Tickets'
  <2>1. ASSUME NEW i \in DOMAIN queue', NEW j \in DOMAIN queue', i < j
        PROVE  ticket'[queue'[i]] < ticket'[queue'[j]]
    BY <2>1, <1>0, <1>2, <1>4 DEF Tickets
  <2>2. \A t \in Tasks : ticket'[t] <= issued' /\ (phase'[t] = "new" <=> ticket'[t] = 0)
    BY <1>0, <1>1, <1>2, <1>3 DEF Tickets
  <2>. QED BY <2>1, <2>2 DEF Tickets
<1>9. NoOvertaking'
  BY <1>0, <1>1, <1>2, <1>3 DEF NoOvertaking, Started, InPhase
<1>10. RunningIsYoungest'
  <2>1. ASSUME NEW u \in Tasks, u # h, phase[u] \in {"running", "done", "failed"}
        PROVE  ticket[u] < ticket[h]
    BY <2>1, <1>0, <1>1 DEF NoOvertaking, Started, InPhase
  <2>. QED BY <2>1, <1>1, <1>2, <1>3 DEF RunningIsYoungest, Started, InPhase
<1>. QED BY <1>7, <1>8, <1>9, <1>10 DEF IInv

LEMMA RunIInv ==
  ASSUME IInv, RunTask \/ RunFinisher
  PROVE  IInv'
<1>0. TypeOK /\ Tickets /\ NoOvertaking /\ RunningIsYoungest BY DEF IInv
<1>1. PICK t \in InPhase("running"), outcome \in {"done", "failed"} :
        /\ phase' = [phase EXCEPT ![t] = outcome]
        /\ runner = "run" /\ runner' = "top"
        /\ state' \in States /\ interrupted' \in BOOLEAN
        /\ UNCHANGED <<queue, pending, calls, ticket, issued>>
  BY <1>0 DEF RunTask, RunFinisher, TypeOK, States
<1>2. /\ t \in Tasks /\ phase[t] = "running"
      /\ phase \in [Tasks -> {"new", "waiting", "running", "done", "failed", "dropped"}]
  BY <1>0, <1>1 DEF TypeOK, InPhase
<1>3. TypeOK'
  BY <1>0, <1>1, <1>2 DEF TypeOK
<1>4. Tickets' /\ NoOvertaking' /\ RunningIsYoungest'
  BY <1>0, <1>1, <1>2 DEF TypeOK, Tickets, NoOvertaking, RunningIsYoungest, Started, InPhase
<1>. QED BY <1>3, <1>4 DEF IInv

LEMMA LoopIInv ==
  ASSUME IInv, LoopTop \/ CheckPaused \/ TakeInterrupted \/ SwitchInterrupted
  PROVE  IInv'
BY QuietStep DEF IInv, TypeOK, LoopTop, CheckPaused, TakeInterrupted, SwitchInterrupted, orderVars, taskVars, States

(* IInv holds in every state of the worker.                                *)
THEOREM Invariance == Spec => []IInv
<1>1. Init => IInv
  BY InitIInv
<1>2. IInv /\ [Next]_vars => IInv'
  <2> SUFFICES ASSUME IInv, [Next]_vars PROVE IInv'
    OBVIOUS
  <2>1. ASSUME NEW c \in Callers, NEW method \in Calls, Call(c, method) PROVE IInv'
    BY <2>1, CallIInv
  <2>2. ASSUME NEW c \in Callers, NEW t \in Tasks, CallSubmit(c, t) PROVE IInv'
    BY <2>2, CallSubmitIInv
  <2>3. ASSUME NEW c \in Callers, CallerStep(c) PROVE IInv'
    BY <2>3, QuietCallerStep, FlushIInv, SubmitIInv DEF CallerStep
  <2>4. CASE RunnerStep
    BY <2>4, LoopIInv, TakeIInv, RunIInv DEF RunnerStep, RunnerLoop
  <2>5. CASE UNCHANGED vars
    BY <2>5, QuietStep DEF vars, IInv, TypeOK, orderVars
  <2>. QED BY <2>1, <2>2, <2>3, <2>4, <2>5 DEF Next
<1>. QED BY <1>1, <1>2, PTL DEF Spec

(* The worker's variables have their types, and its queue, runner and      *)
(* futures agree.                                                          *)
THEOREM TypeCorrect == Spec => []TypeOK
<1>1. IInv => TypeOK
  BY DEF IInv
<1>. QED BY <1>1, Invariance, PTL

(* Tasks are started in the order of their submission.                     *)
THEOREM Fifo == Spec => []NoOvertaking
<1>1. IInv => NoOvertaking
  BY DEF IInv
<1>. QED BY <1>1, Invariance, PTL

(* When finish() takes effect, everything submitted before is worked off.  *)
THEOREM FinishWorksOff == Spec => []FinishDrains
<1>1. IInv => FinishDrains
  <2> SUFFICES ASSUME IInv, NEW f \in Finishers, phase[f] = "done",
                      NEW t \in Tasks, ticket[t] \in 1 .. ticket[f]
               PROVE  phase[t] \in {"done", "failed", "dropped"}
    BY DEF FinishDrains
  <2>1. f \in Started /\ f \in Tasks /\ ticket[f] \in Nat /\ ticket[t] \in Nat
    BY FinishersAreTasks DEF Started, IInv, TypeOK
  <2>2. phase[t] # "new"
    BY DEF IInv, Tickets
  <2>3. phase[t] # "waiting"
    BY <2>1 DEF IInv, NoOvertaking, InPhase
  <2>4. phase[t] # "running"
    BY <2>1 DEF IInv, RunningIsYoungest, InPhase
  <2>. QED BY <2>2, <2>3, <2>4 DEF IInv, TypeOK
<1>. QED BY <1>1, Invariance, PTL

-----------------------------------------------------------------------------

LEMMA QuietStepStutters ==
  ASSUME orderVars' = orderVars
  PROVE  UNCHANGED Executor!svars
BY DEF orderVars, Executor!svars

(* The worker implements the serial executor: each of its steps is a step  *)
(* of the executor or leaves phase, ticket and issued alone.               *)
THEOREM Refinement == Spec => ImplementsSerialExecutor
<1>1. Init => Executor!Init
  BY DEF Init, Executor!Init
<1>2. IInv /\ [Next]_vars => [Executor!Next]_Executor!svars
  <2> SUFFICES ASSUME IInv, [Next]_vars PROVE [Executor!Next]_Executor!svars
    OBVIOUS
  <2>1. ASSUME NEW c \in Callers, NEW method \in Calls, Call(c, method) PROVE UNCHANGED Executor!svars
    BY <2>1 DEF Call, taskVars, Executor!svars
  <2>2. ASSUME NEW c \in Callers, NEW t \in Tasks, CallSubmit(c, t) PROVE UNCHANGED Executor!svars
    BY <2>2 DEF CallSubmit, taskVars, Executor!svars
  <2>3. ASSUME NEW c \in Callers, Flush(c) PROVE Executor!Drop
    BY <2>3 DEF Flush, Executor!Drop
  <2>4. ASSUME NEW c \in Callers, Submit(c) PROVE \E t \in Tasks : Executor!Accept(t)
    BY <2>4 DEF Submit, Accept, Executor!Accept
  <2>5. ASSUME NEW c \in Callers, Dispatch(c) \/ Assign(c) \/ Interrupt(c) \/ StartRunner(c) \/ Throw(c)
        PROVE  UNCHANGED Executor!svars
    BY <2>5 DEF Dispatch, Assign, Interrupt, StartRunner, Throw, taskVars, Executor!svars
  <2>6. CASE Take
    <3>1. /\ Head(queue) \in Tasks /\ phase[Head(queue)] = "waiting" /\ InPhase("running") = {}
          /\ \A u \in InPhase("waiting") : u # Head(queue) => ticket[Head(queue)] < ticket[u]
      BY <2>6, HeadIsOldest
    <3>2. \A u \in Tasks : ticket[u] \in Nat
      BY DEF IInv, TypeOK
    <3>3. Executor!Begin(Head(queue))
      BY <2>6, <3>1, <3>2 DEF Take, InPhase, Executor!Begin, Executor!InPhase
    <3>. QED BY <3>1, <3>3 DEF Executor!Next
  <2>7. CASE RunTask \/ RunFinisher
    <3>1. \E t \in Tasks : Executor!End(t)
      BY <2>7 DEF RunTask, RunFinisher, InPhase, Executor!End
    <3>. QED BY <3>1 DEF Executor!Next
  <2>8. CASE LoopTop \/ CheckPaused \/ TakeInterrupted \/ SwitchInterrupted
    BY <2>8 DEF LoopTop, CheckPaused, TakeInterrupted, SwitchInterrupted, taskVars, Executor!svars
  <2>9. CASE UNCHANGED vars
    BY <2>9 DEF vars, Executor!svars
  <2>. QED BY <2>1, <2>2, <2>3, <2>4, <2>5, <2>6, <2>7, <2>8, <2>9
           DEF Next, CallerStep, RunnerStep, RunnerLoop, Executor!Next
<1>. QED BY <1>1, <1>2, Invariance, PTL DEF Spec, ImplementsSerialExecutor, Executor!Spec

-----------------------------------------------------------------------------
(* One calling thread that does not pause the worker.                       *)

OneThread == (\A c, d \in Callers : c = d) /\ "pause" \notin Calls

\* What can be left of a call that does not start the runner.
Rests ==
  {<<>>, <<"throw">>, <<"queue.clear">>, <<"interrupt">>, <<"SHUTDOWN">>, <<"SHUTDOWN", "interrupt">>,
   <<"interrupt", "SHUTDOWN", "interrupt">>, <<"SHUTDOWN", "interrupt", "SHUTDOWN", "interrupt">>}
    \cup {<<m>> : m \in Methods \ {"pause"}} \cup {<<t>> : t \in Tasks}

(* The thread that starts the runner finds it new and still does so in the *)
(* state it found when it looked.                                          *)
Starting ==
  \A c \in Callers :
    \/ pending[c] \in Rests
    \/ pending[c] = <<"RUNNING", "runner.start">> /\ state = "INIT"
    \/ pending[c] = <<"runner.start">> /\ state = "RUNNING" /\ runner = "new"

NeverPaused == state # "PAUSED" /\ (state = "INIT" => runner = "new")

(* After the task of finish() nothing gets between the runner and the end  *)
(* of its loop: the interrupt is still there or has just been seen.        *)
Ending ==
  \A f \in Finishers : phase[f] = "done" =>
    state = "SHUTDOWN" /\ ((runner = "top" /\ interrupted) \/ runner \in {"switch", "done"})

SoleInv == Starting /\ NeverPaused /\ Ending /\ NothingAfterFinish

LEMMA RestsAre ==
  ASSUME NEW p \in Rests, p # <<>>
  PROVE  /\ Tail(p) \in Rests
         /\ Head(p) \notin {"RUNNING", "PAUSED", "INIT", "runner.start", "pause"}
         /\ Head(p) \in Methods \cup Tasks => Tail(p) = <<>>
<1>1. CASE p \in {<<"throw">>, <<"queue.clear">>, <<"interrupt">>, <<"SHUTDOWN">>}
  <2>1. PICK x \in {"throw", "queue.clear", "interrupt", "SHUTDOWN"} : p = <<x>>
    BY <1>1
  <2>2. Head(p) = x /\ Tail(p) = <<>> /\ <<>> \in Rests
    BY <2>1 DEF Rests
  <2>. QED BY <2>2
<1>2. CASE p = <<"SHUTDOWN", "interrupt">>
  <2>1. Head(p) = "SHUTDOWN" /\ Tail(p) = <<"interrupt">>
    BY <1>2
  <2>. QED BY <2>1, TasksAreNotSteps DEF Rests, Methods, States
<1>3. CASE p = <<"interrupt", "SHUTDOWN", "interrupt">>
  <2>1. Head(p) = "interrupt" /\ Tail(p) = <<"SHUTDOWN", "interrupt">>
    BY <1>3
  <2>. QED BY <2>1, TasksAreNotSteps DEF Rests, Methods, Effects
<1>4. CASE p = <<"SHUTDOWN", "interrupt", "SHUTDOWN", "interrupt">>
  <2>1. Head(p) = "SHUTDOWN" /\ Tail(p) = <<"interrupt", "SHUTDOWN", "interrupt">>
    BY <1>4
  <2>. QED BY <2>1, TasksAreNotSteps DEF Rests, Methods, States
<1>5. CASE \E m \in Methods \ {"pause"} : p = <<m>>
  BY <1>5 DEF Rests, Methods
<1>6. CASE \E t \in Tasks : p = <<t>>
  <2>1. PICK t \in Tasks : p = <<t>>
    BY <1>6
  <2>2. t \notin States /\ t \notin Methods /\ t \notin Effects
    BY TasksAreNotSteps
  <2>. QED BY <2>1, <2>2 DEF Rests, Methods, Effects, States
<1>. QED BY <1>1, <1>2, <1>3, <1>4, <1>5, <1>6 DEF Rests

LEMMA BodyRests ==
  ASSUME NEW m \in Methods \ {"pause"}, NEW s \in States \ {"PAUSED"}
  PROVE  \/ Body[m][s] \in Rests
         \/ Body[m][s] = <<"RUNNING", "runner.start">> /\ s = "INIT"
<1>1. s \in {"INIT", "RUNNING", "SHUTDOWN"}
  BY DEF States
<1>2. Stop \o Stop = <<"SHUTDOWN", "interrupt", "SHUTDOWN", "interrupt">>
  <2>. DEFINE words == {"SHUTDOWN", "interrupt"}
              four == <<"SHUTDOWN", "interrupt", "SHUTDOWN", "interrupt">>
              both == Stop \o Stop
  <2>1. Stop \in Seq(words) /\ Len(Stop) = 2 /\ Stop[1] = "SHUTDOWN" /\ Stop[2] = "interrupt"
    BY DEF Stop
  <2>2. /\ four \in Seq(words) /\ Len(four) = 4
        /\ four[1] = "SHUTDOWN" /\ four[2] = "interrupt" /\ four[3] = "SHUTDOWN" /\ four[4] = "interrupt"
    OBVIOUS
  <2>. HIDE DEF words, four
  <2>3. /\ both \in Seq(words) /\ Len(both) = Len(Stop) + Len(Stop)
        /\ \A i \in 1 .. Len(Stop) + Len(Stop) : both[i] = IF i <= Len(Stop) THEN Stop[i] ELSE Stop[i - Len(Stop)]
    BY <2>1, ConcatProperties, ZenonT(30)
  <2>. HIDE DEF both
  <2>4. Len(both) = 4 /\ \A i \in 1 .. 4 : both[i] = IF i <= 2 THEN Stop[i] ELSE Stop[i - 2]
    BY <2>1, <2>3
  <2>5. both[1] = "SHUTDOWN" /\ both[2] = "interrupt" /\ both[3] = "SHUTDOWN" /\ both[4] = "interrupt"
    BY <2>1, <2>4
  <2>6. \A i \in 1 .. Len(both) : both[i] = four[i]
    BY <2>2, <2>4, <2>5
  <2>7. both = four
    BY <2>2, <2>3, <2>4, <2>6, SeqEqual
  <2>. QED BY <2>7 DEF both, four
<1>3. CASE m = "start"
  <2>1. Body[m] = StartBody
    BY <1>3 DEF Body
  <2>2. StartBody["INIT"] = <<"RUNNING", "runner.start">> /\ StartBody["RUNNING"] = <<"throw">> /\ StartBody["SHUTDOWN"] = <<"throw">>
    BY DEF StartBody
  <2>3. <<"throw">> \in Rests
    BY DEF Rests
  <2>. QED BY <1>1, <2>1, <2>2, <2>3
<1>4. CASE m = "unpause"
  <2>1. Body[m] = UnpauseBody
    BY <1>4 DEF Body
  <2>2. UnpauseBody["INIT"] = <<"start">> /\ UnpauseBody["RUNNING"] = <<>> /\ UnpauseBody["SHUTDOWN"] = <<"throw">>
    BY DEF UnpauseBody
  <2>3. <<"start">> \in Rests /\ <<>> \in Rests /\ <<"throw">> \in Rests
    BY DEF Rests, Methods
  <2>. QED BY <1>1, <2>1, <2>2, <2>3
<1>5. CASE m = "shutdown"
  <2>1. Body[m] = ShutdownBody
    BY <1>5 DEF Body
  <2>2. ShutdownBody["INIT"] = <<"SHUTDOWN">> /\ ShutdownBody["RUNNING"] = Stop \o Stop /\ ShutdownBody["SHUTDOWN"] = <<"SHUTDOWN", "interrupt">>
    BY DEF ShutdownBody, Stop
  <2>3. <<"SHUTDOWN">> \in Rests /\ <<"SHUTDOWN", "interrupt">> \in Rests
        /\ <<"SHUTDOWN", "interrupt", "SHUTDOWN", "interrupt">> \in Rests
    BY DEF Rests
  <2>. QED BY <1>1, <1>2, <2>1, <2>2, <2>3
<1>6. CASE m = "flush"
  <2>1. Body[m] = FlushBody
    BY <1>6 DEF Body
  <2>. QED BY <2>1 DEF FlushBody, Rests
<1>. QED BY <1>3, <1>4, <1>5, <1>6 DEF Methods

(* Accesses that leave the tasks alone, and neither the state nor the      *)
(* runner in one in which a task of finish() could have run.               *)
LEMMA SoleQuiet ==
  ASSUME IInv, SoleInv, UNCHANGED <<runner, taskVars>>,
         interrupted => interrupted', state' = state \/ state' = "SHUTDOWN",
         Starting'
  PROVE  SoleInv'
<1>1. NeverPaused'
  BY DEF SoleInv, NeverPaused
<1>2. Ending'
  BY DEF SoleInv, Ending, taskVars
<1>3. NothingAfterFinish'
  BY DEF SoleInv, NothingAfterFinish, taskVars
<1>. QED BY <1>1, <1>2, <1>3 DEF SoleInv

LEMMA SoleCaller ==
  ASSUME OneThread, IInv, SoleInv, NEW c \in Callers, CallerStep(c)
  PROVE  SoleInv' /\ (state = "SHUTDOWN" => state' = "SHUTDOWN")
<1>0. /\ \A d \in Callers : d = c
      /\ pending \in [Callers -> Seq(Steps)] /\ state \in States
  BY DEF OneThread, IInv, TypeOK
<1>1. \/ pending[c] \in Rests
      \/ pending[c] = <<"RUNNING", "runner.start">> /\ state = "INIT"
      \/ pending[c] = <<"runner.start">> /\ state = "RUNNING" /\ runner = "new"
  BY DEF SoleInv, Starting
<1>2. ASSUME pending'[c] \in Rests PROVE Starting'
  BY <1>0, <1>2 DEF Starting
<1>3. <<>> \in Rests
  BY DEF Rests
<1>4. ASSUME NEW step, Doing(c, step), Done(c), pending[c] \in Rests
      PROVE  Starting'
  <2>1. Tail(pending[c]) \in Rests
    BY <1>4, RestsAre DEF Doing
  <2>2. pending'[c] = Tail(pending[c])
    BY <1>0, <1>4 DEF Done
  <2>. QED BY <1>2, <2>1, <2>2
<1>5. CASE Dispatch(c)
  <2>1. PICK m \in Methods : Doing(c, m) /\ pending' = [pending EXCEPT ![c] = Body[m][state] \o Tail(@)]
                             /\ UNCHANGED <<runnerVars, taskVars, calls>>
    BY <1>5 DEF Dispatch
  <2>2. pending[c] # <<>> /\ Head(pending[c]) = m
    BY <2>1 DEF Doing
  <2>3. pending[c] \in Rests
    BY <1>1, <2>2 DEF Methods
  <2>4. m # "pause" /\ Tail(pending[c]) = <<>>
    BY <2>2, <2>3, RestsAre
  <2>5. Body[m][state] \in Seq(Steps) /\ state # "PAUSED"
    BY <1>0, BodyType DEF SoleInv, NeverPaused
  <2>6. pending'[c] = Body[m][state]
    <3>1. Body[m][state] \o <<>> = Body[m][state]
      BY <2>5, ConcatEmptySeq
    <3>. QED BY <1>0, <2>1, <2>4, <3>1
  <2>7. state' = state /\ Starting'
    <3>1. CASE Body[m][state] \in Rests
      BY <1>2, <2>1, <2>6, <3>1 DEF runnerVars
    <3>2. CASE Body[m][state] = <<"RUNNING", "runner.start">> /\ state = "INIT"
      BY <1>0, <2>1, <2>6, <3>2 DEF Starting, runnerVars
    <3>. QED BY <1>0, <2>4, <2>5, <3>1, <3>2, BodyRests
  <2>. QED BY <2>1, <2>7, SoleQuiet DEF runnerVars
<1>6. CASE Assign(c)
  <2>1. PICK s \in States : Doing(c, s) /\ state' = s /\ Done(c)
                            /\ UNCHANGED <<queue, runner, interrupted, calls, taskVars>>
    BY <1>6 DEF Assign
  <2>2. CASE pending[c] \in Rests
    <3>1. s = "SHUTDOWN"
      BY <2>1, <2>2, RestsAre DEF Doing, States
    <3>2. Starting'
      BY <1>4, <2>1, <2>2
    <3>. QED BY <2>1, <3>1, <3>2, SoleQuiet
  <2>3. CASE pending[c] = <<"RUNNING", "runner.start">> /\ state = "INIT"
    <3>1. s = "RUNNING" /\ pending'[c] = <<"runner.start">> /\ runner = "new"
      <4>1. Head(pending[c]) = "RUNNING" /\ Tail(pending[c]) = <<"runner.start">>
        BY <2>3
      <4>. QED BY <1>0, <2>1, <2>3, <4>1 DEF Doing, Done, SoleInv, NeverPaused
    <3>2. Starting'
      BY <1>0, <2>1, <3>1 DEF Starting
    <3>3. NeverPaused'
      BY <2>1, <3>1 DEF NeverPaused
    <3>4. \A f \in Finishers : phase'[f] # "done"
      BY <2>1, <2>3 DEF SoleInv, Ending, taskVars
    <3>. QED BY <2>3, <3>2, <3>3, <3>4 DEF SoleInv, Ending, NothingAfterFinish
  <2>4. CASE pending[c] = <<"runner.start">>
    BY <2>1, <2>4 DEF Doing, States
  <2>. QED BY <1>1, <2>2, <2>3, <2>4
<1>7. CASE Interrupt(c)
  <2>1. Doing(c, "interrupt") /\ Done(c) /\ interrupted' = (interrupted \/ RunnerAlive)
        /\ UNCHANGED <<state, queue, runner, calls, taskVars>>
    BY <1>7 DEF Interrupt
  <2>2. pending[c] \in Rests
    BY <1>1, <2>1 DEF Doing
  <2>. QED BY <1>4, <2>1, <2>2, SoleQuiet
<1>8. CASE Throw(c)
  <2>1. pending'[c] = <<>>
    BY <1>0, <1>8 DEF Throw
  <2>. QED BY <1>2, <1>3, <1>8, <2>1, SoleQuiet DEF Throw, runnerVars
<1>9. CASE StartRunner(c)
  <2>1. pending[c] = <<"runner.start">> /\ state = "RUNNING" /\ runner = "new"
    <3>1. pending[c] # <<>> /\ Head(pending[c]) = "runner.start"
      BY <1>9 DEF StartRunner, Doing
    <3>2. pending[c] \notin Rests
      BY <3>1, RestsAre
    <3>. QED BY <1>1, <3>1, <3>2
  <2>2. pending'[c] = <<>>
    BY <1>0, <1>9, <2>1 DEF StartRunner, Done
  <2>3. Starting'
    BY <1>2, <1>3, <2>2
  <2>4. state' = state /\ UNCHANGED taskVars
    BY <1>9 DEF StartRunner
  <2>5. \A f \in Finishers : phase'[f] # "done"
    BY <2>1, <2>4 DEF SoleInv, Ending, taskVars
  <2>. QED BY <2>1, <2>3, <2>4, <2>5 DEF SoleInv, NeverPaused, Ending, NothingAfterFinish
<1>10. CASE Flush(c)
  <2>1. Doing(c, "queue.clear") /\ Done(c) /\ UNCHANGED <<state, runner, interrupted, calls, ticket, issued>>
        /\ phase' = [t \in Tasks |-> IF phase[t] = "waiting" THEN "dropped" ELSE phase[t]]
    BY <1>10 DEF Flush
  <2>2. pending[c] \in Rests
    BY <1>1, <2>1 DEF Doing
  <2>3. Starting'
    BY <1>4, <2>1, <2>2
  <2>4. \A f \in Finishers : phase'[f] = "done" => phase[f] = "done"
    BY <2>1, FinishersAreTasks
  <2>5. NeverPaused' /\ Ending'
    BY <2>1, <2>4 DEF SoleInv, NeverPaused, Ending
  <2>6. NothingAfterFinish'
    BY <2>1, <2>4 DEF SoleInv, NothingAfterFinish
  <2>. QED BY <2>1, <2>3, <2>5, <2>6 DEF SoleInv
<1>11. CASE Submit(c)
  <2>1. PICK t \in Tasks : Accept(c, t)
    BY <1>11 DEF Submit
  <2>2. /\ Doing(c, t) /\ Done(c) /\ phase[t] = "new"
        /\ phase' = [phase EXCEPT ![t] = "waiting"] /\ ticket' = [ticket EXCEPT ![t] = issued + 1]
        /\ UNCHANGED <<state, runner, interrupted, calls>>
    BY <2>1 DEF Accept
  <2>3. pending[c] \in Rests
    BY <1>1, <2>2, TasksAreNotSteps DEF Doing, States, Effects
  <2>4. Starting'
    BY <1>4, <2>2, <2>3
  <2>5. \A f \in Finishers : phase'[f] = "done" => phase[f] = "done" /\ ticket'[f] = ticket[f]
    BY <2>2, FinishersAreTasks DEF IInv, TypeOK
  <2>6. NeverPaused' /\ Ending'
    BY <2>2, <2>5 DEF SoleInv, NeverPaused, Ending
  <2>7. NothingAfterFinish'
    <3>. SUFFICES ASSUME NEW f \in Finishers, phase'[f] = "done", NEW u \in Tasks, ticket'[u] > ticket'[f]
                  PROVE  phase'[u] \in {"waiting", "dropped"}
      BY DEF NothingAfterFinish
    <3>1. CASE u = t
      BY <2>2, <3>1 DEF IInv, TypeOK
    <3>2. CASE u # t
      <4>1. phase'[u] = phase[u] /\ ticket'[u] = ticket[u]
        BY <2>2, <3>2 DEF IInv, TypeOK
      <4>. QED BY <2>5, <4>1 DEF SoleInv, NothingAfterFinish
    <3>. QED BY <3>1, <3>2
  <2>. QED BY <2>2, <2>4, <2>6, <2>7 DEF SoleInv
<1>. QED BY <1>5, <1>6, <1>7, <1>8, <1>9, <1>10, <1>11 DEF CallerStep

LEMMA SoleRunner ==
  ASSUME OneThread, IInv, SoleInv, RunnerStep
  PROVE  SoleInv' /\ (state = "SHUTDOWN" => state' = "SHUTDOWN")
<1>1. runner # "new" /\ pending' = pending /\ runner' # "new"
  BY DEF RunnerStep, RunnerLoop, LoopTop, CheckPaused, TakeInterrupted, Take, SwitchInterrupted, RunTask, RunFinisher,
     SoleInv, NeverPaused, IInv, TypeOK, States
<1>2. state # "INIT" /\ state # "PAUSED" /\ \A c \in Callers : pending[c] \in Rests
  BY <1>1 DEF SoleInv, NeverPaused, Starting
<1>3. Starting'
  BY <1>1, <1>2 DEF Starting
<1>4. CASE LoopTop \/ CheckPaused \/ TakeInterrupted \/ SwitchInterrupted
  <2>1. UNCHANGED <<state, taskVars>>
    BY <1>4 DEF LoopTop, CheckPaused, TakeInterrupted, SwitchInterrupted
  <2>2. Ending'
    BY <1>4 DEF LoopTop, CheckPaused, TakeInterrupted, SwitchInterrupted, SoleInv, Ending, taskVars
  <2>3. NothingAfterFinish'
    BY <2>1 DEF SoleInv, NothingAfterFinish, taskVars
  <2>. QED BY <1>2, <1>3, <2>1, <2>2, <2>3 DEF SoleInv, NeverPaused
<1>5. ASSUME runner \in {"take", "run"}
      PROVE  \A f \in Finishers : phase[f] # "done"
  BY <1>5 DEF SoleInv, Ending
<1>6. CASE Take
  <2>1. state' = state /\ Head(queue) \in Tasks /\ phase' = [phase EXCEPT ![Head(queue)] = "running"]
    BY <1>6, HeadIsOldest DEF Take
  <2>2. \A f \in Finishers : phase'[f] # "done"
    BY <1>5, <1>6, <2>1, FinishersAreTasks DEF Take, IInv, TypeOK
  <2>. QED BY <1>2, <1>3, <2>1, <2>2 DEF SoleInv, NeverPaused, Ending, NothingAfterFinish
<1>7. CASE RunTask
  <2>1. PICK t \in InPhase("running") \ Finishers, outcome \in {"done", "failed"} :
          runner = "run" /\ state' = state /\ phase' = [phase EXCEPT ![t] = outcome]
    BY <1>7 DEF RunTask
  <2>2. \A f \in Finishers : phase'[f] # "done"
    BY <1>5, <2>1, FinishersAreTasks DEF IInv, TypeOK
  <2>. QED BY <1>2, <1>3, <2>1, <2>2 DEF SoleInv, NeverPaused, Ending, NothingAfterFinish
<1>8. CASE RunFinisher
  <2>1. PICK t \in InPhase("running") \cap Finishers :
          /\ runner = "run" /\ runner' = "top" /\ state' = "SHUTDOWN" /\ interrupted' = TRUE
          /\ phase' = [phase EXCEPT ![t] = "done"] /\ ticket' = ticket
    BY <1>8 DEF RunFinisher
  <2>2. \A f \in Finishers : phase'[f] = "done" => f = t
    BY <1>5, <2>1, FinishersAreTasks DEF IInv, TypeOK
  <2>3. NothingAfterFinish'
    <3>. SUFFICES ASSUME NEW u \in Tasks, ticket[u] > ticket[t]
                  PROVE  phase'[u] \in {"waiting", "dropped"}
      BY <2>1, <2>2 DEF NothingAfterFinish
    <3>1. t \in Tasks /\ ticket[t] \in Nat /\ ticket[u] \in Nat
      BY <2>1 DEF InPhase, IInv, TypeOK
    <3>2. u \notin Started
      BY <2>1, <3>1 DEF IInv, RunningIsYoungest
    <3>3. phase[u] # "new"
      BY <3>1 DEF IInv, Tickets
    <3>4. phase[u] \in {"waiting", "dropped"}
      BY <3>2, <3>3 DEF Started, IInv, TypeOK
    <3>5. u # t
      BY <3>1
    <3>. QED BY <2>1, <3>1, <3>4, <3>5 DEF IInv, TypeOK
  <2>. QED BY <1>3, <2>1, <2>3 DEF SoleInv, NeverPaused, Ending
<1>. QED BY <1>4, <1>6, <1>7, <1>8 DEF RunnerStep, RunnerLoop

LEMMA SoleInit == Init => SoleInv
<1>1. <<>> \in Rests
  BY DEF Rests
<1>. QED BY <1>1, FinishersAreTasks DEF Init, SoleInv, Starting, NeverPaused, Ending, NothingAfterFinish

LEMMA SoleStep ==
  ASSUME OneThread, IInv, SoleInv, [Next]_vars
  PROVE  SoleInv' /\ (state = "SHUTDOWN" => state' = "SHUTDOWN")
<1>1. ASSUME NEW c \in Callers, NEW method \in Calls, Call(c, method) PROVE SoleInv' /\ state' = state
  <2>1. <<method>> \in Rests
    BY CallsAreMethods DEF OneThread, Rests
  <2>2. pending'[c] = <<method>> /\ \A d \in Callers : d = c
    BY <1>1 DEF Call, OneThread, IInv, TypeOK
  <2>3. Starting'
    BY <2>1, <2>2 DEF Starting
  <2>. QED BY <1>1, <2>3, SoleQuiet DEF Call, runnerVars
<1>2. ASSUME NEW c \in Callers, NEW t \in Tasks, CallSubmit(c, t) PROVE SoleInv' /\ state' = state
  <2>1. <<t>> \in Rests
    BY DEF Rests
  <2>2. pending'[c] = <<t>> /\ \A d \in Callers : d = c
    BY <1>2 DEF CallSubmit, OneThread, IInv, TypeOK
  <2>3. Starting'
    BY <2>1, <2>2 DEF Starting
  <2>. QED BY <1>2, <2>3, SoleQuiet DEF CallSubmit, runnerVars
<1>3. CASE UNCHANGED vars
  <2>1. Starting'
    BY <1>3 DEF vars, SoleInv, Starting
  <2>. QED BY <1>3, <2>1, SoleQuiet DEF vars, taskVars
<1>. QED BY <1>1, <1>2, <1>3, SoleCaller, SoleRunner DEF Next

(* A thread that is the only one to use a worker and does not pause it can *)
(* rely on finish(): nothing that was submitted after it is executed.      *)
THEOREM FinishIsTheEnd ==
  ASSUME OneThread
  PROVE  Spec => []NothingAfterFinish
<1>1. SoleInv => NothingAfterFinish
  BY DEF SoleInv
<1>2. OneThread => (IInv /\ SoleInv /\ [Next]_vars => SoleInv')
  BY SoleStep
<1>. QED BY <1>1, <1>2, SoleInit, Invariance, PTL DEF Spec

(* Nor does a call, or the runner, lead such a worker out of SHUTDOWN.     *)
THEOREM ShutdownStays ==
  ASSUME OneThread
  PROVE  Spec => ShutdownIsFinal
<1>1. IInv /\ SoleInv /\ [Next]_vars => SoleInv'
  BY SoleStep
<1>2. IInv /\ SoleInv /\ [Next]_vars => [state = "SHUTDOWN" => state' = "SHUTDOWN"]_vars
  BY SoleStep
<1>. QED BY <1>1, <1>2, SoleInit, Invariance, PTL DEF Spec, ShutdownIsFinal
=============================================================================
