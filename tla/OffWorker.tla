------------------------------ MODULE OffWorker ------------------------------
(***************************************************************************)
(* com.bkahlert.nebula.utils.OffWorker: one runner thread that takes       *)
(* FutureTasks from a queue, and the threads that call the worker.         *)
(*                                                                         *)
(* No method but submit is synchronized and the field state is read and    *)
(* written without a lock, so a call is the sequence of the accesses it    *)
(* makes: dispatch on state, assign state, interrupt or start the runner.  *)
(* The accesses of different threads interleave.                           *)
(***************************************************************************)
EXTENDS Naturals, Sequences

CONSTANTS Callers,      \* threads that call the worker
          Tasks,        \* everything that is ever submitted
          Finishers,    \* the tasks finish() submits
          Calls,        \* the methods the callers use, besides submit and finish
          MaxCalls,     \* bound: calls made in a behaviour, submissions not counted
          Swallow       \* may a task swallow an interrupt sent to the runner?

States == {"INIT", "RUNNING", "PAUSED", "SHUTDOWN"}
Methods == {"start", "pause", "unpause", "shutdown", "flush"}
Effects == {"interrupt", "runner.start", "queue.clear", "throw"}
Steps == States \cup Methods \cup Effects \cup Tasks

ASSUME FinishersAreTasks == Finishers \subseteq Tasks
ASSUME CallsAreMethods == Calls \subseteq Methods
ASSUME MaxCallsIsNat == MaxCalls \in Nat
ASSUME TasksAreNotSteps == Tasks \cap (States \cup Methods \cup Effects) = {}

VARIABLES
  state,        \* OffWorker.state
  queue,        \* OffWorker.queue
  runner,       \* where the runner thread stands
  interrupted,  \* the runner's interrupt flag
  pending,      \* pending[c]: accesses left of the call caller c is making
  calls,        \* calls made so far (bounded by MaxCalls)
  phase,        \* phase[t]: state of the FutureTask t
  ticket,       \* history: ticket[t] is the position of t among the submissions
  issued        \* history: number of submissions

runnerVars == <<state, queue, runner, interrupted>>
taskVars == <<phase, ticket, issued>>
vars == <<state, queue, runner, interrupted, pending, calls, phase, ticket, issued>>

RunnerAlive == runner \notin {"new", "dead", "done"}
InPhase(p) == {t \in Tasks : phase[t] = p}
Started == {t \in Tasks : phase[t] \in {"running", "done", "failed"}}

Init ==
  /\ state = "INIT"
  /\ queue = <<>>
  /\ runner = "new"
  /\ interrupted = FALSE
  /\ pending = [c \in Callers |-> <<>>]
  /\ calls = 0
  /\ phase = [t \in Tasks |-> "new"]
  /\ ticket = [t \in Tasks |-> 0]
  /\ issued = 0

-----------------------------------------------------------------------------
(* The bodies of the methods: the accesses left after the switch over the  *)
(* state has been evaluated. "throw" is the StateException. pause and      *)
(* shutdown interrupt the runner; shutdown falls through from RUNNING into *)
(* PAUSED and therefore assigns and interrupts twice.                      *)

Stop == <<"SHUTDOWN", "interrupt">>

\* Mutant: start() revives a worker that has been shut down.
StartBodyRevives ==
  [ INIT     |-> <<"RUNNING", "runner.start">>,
    RUNNING  |-> <<"throw">>,
    PAUSED   |-> <<"unpause">>,
    SHUTDOWN |-> <<"RUNNING", "runner.start">> ]

StartBody ==
  [ INIT     |-> <<"RUNNING", "runner.start">>,
    RUNNING  |-> <<"throw">>,
    PAUSED   |-> <<"unpause">>,
    SHUTDOWN |-> <<"throw">> ]

PauseBody ==
  [ INIT     |-> <<"throw">>,
    RUNNING  |-> <<"PAUSED", "interrupt">>,
    PAUSED   |-> <<>>,
    SHUTDOWN |-> <<"throw">> ]

UnpauseBody ==
  [ INIT     |-> <<"start">>,
    RUNNING  |-> <<>>,
    PAUSED   |-> <<"RUNNING", "interrupt">>,
    SHUTDOWN |-> <<"throw">> ]

\* Mutant: shutdown() of a running worker relies on the state alone.
ShutdownBodyNoInterrupt ==
  [ INIT     |-> <<"SHUTDOWN">>,
    RUNNING  |-> <<"SHUTDOWN">>,
    PAUSED   |-> Stop,
    SHUTDOWN |-> Stop ]

ShutdownBody ==
  [ INIT     |-> <<"SHUTDOWN">>,
    RUNNING  |-> Stop \o Stop,
    PAUSED   |-> Stop,
    SHUTDOWN |-> Stop ]

FlushBody == [ s \in States |-> <<"queue.clear">> ]

Body == [ start    |-> StartBody,
          pause    |-> PauseBody,
          unpause  |-> UnpauseBody,
          shutdown |-> ShutdownBody,
          flush    |-> FlushBody ]

\* Caller c enters a method.
Call(c, method) ==
  /\ pending[c] = <<>>
  /\ calls < MaxCalls
  /\ calls' = calls + 1
  /\ pending' = [pending EXCEPT ![c] = <<method>>]
  /\ UNCHANGED <<runnerVars, taskVars>>

\* Caller c enters submit(t), or finish() when t is a finisher.
CallSubmit(c, t) ==
  /\ pending[c] = <<>>
  /\ phase[t] = "new"
  /\ \A d \in Callers : pending[d] # <<t>>
  /\ pending' = [pending EXCEPT ![c] = <<t>>]
  /\ UNCHANGED <<runnerVars, taskVars, calls>>

Doing(c, step) == pending[c] # <<>> /\ Head(pending[c]) = step
Done(c) == pending' = [pending EXCEPT ![c] = Tail(@)]

\* The switch over state at the top of a method.
Dispatch(c) ==
  \E method \in Methods :
    /\ Doing(c, method)
    /\ pending' = [pending EXCEPT ![c] = Body[method][state] \o Tail(@)]
    /\ UNCHANGED <<runnerVars, taskVars, calls>>

Assign(c) ==
  \E s \in States :
    /\ Doing(c, s)
    /\ state' = s
    /\ Done(c)
    /\ UNCHANGED <<queue, runner, interrupted, calls, taskVars>>

\* Interrupting a thread that has not been started or has ended does nothing.
Interrupt(c) ==
  /\ Doing(c, "interrupt")
  /\ interrupted' = (interrupted \/ RunnerAlive)
  /\ Done(c)
  /\ UNCHANGED <<state, queue, runner, calls, taskVars>>

\* Thread.start of a thread that was started before throws.
StartRunner(c) ==
  /\ Doing(c, "runner.start")
  /\ \/ runner = "new" /\ runner' = "top" /\ Done(c)
     \/ runner # "new" /\ runner' = runner /\ pending' = [pending EXCEPT ![c] = <<>>]
  /\ UNCHANGED <<state, queue, interrupted, calls, taskVars>>

\* The exception leaves the method and every method that called it.
Throw(c) ==
  /\ Doing(c, "throw")
  /\ pending' = [pending EXCEPT ![c] = <<>>]
  /\ UNCHANGED <<runnerVars, taskVars, calls>>

\* Mutant: flush() gives the tasks up but leaves them in the queue.
FlushKeepsQueue(c) ==
  /\ Doing(c, "queue.clear")
  /\ phase' = [t \in Tasks |-> IF phase[t] = "waiting" THEN "dropped" ELSE phase[t]]
  /\ Done(c)
  /\ UNCHANGED <<state, queue, runner, interrupted, calls, ticket, issued>>

\* flush() empties the queue; the futures of its tasks are never completed.
Flush(c) ==
  /\ Doing(c, "queue.clear")
  /\ queue' = <<>>
  /\ phase' = [t \in Tasks |-> IF phase[t] = "waiting" THEN "dropped" ELSE phase[t]]
  /\ Done(c)
  /\ UNCHANGED <<state, runner, interrupted, calls, ticket, issued>>

\* submit() makes a new FutureTask for t and hands it to the queue.
Accept(c, t) ==
  /\ Doing(c, t) /\ phase[t] = "new"
  /\ phase' = [phase EXCEPT ![t] = "waiting"]
  /\ issued' = issued + 1
  /\ ticket' = [ticket EXCEPT ![t] = issued + 1]
  /\ Done(c)
  /\ UNCHANGED <<state, runner, interrupted, calls>>

\* Mutant: a submitted task is put in front of the queue.
SubmitInFront(c) == \E t \in Tasks : Accept(c, t) /\ queue' = <<t>> \o queue

\* Mutant: finish() jumps the queue.
SubmitFinisherInFront(c) ==
  \E t \in Tasks :
    Accept(c, t) /\ queue' = IF t \in Finishers THEN <<t>> \o queue ELSE Append(queue, t)

\* The task is added at the end, whatever the state is.
Submit(c) == \E t \in Tasks : Accept(c, t) /\ queue' = Append(queue, t)

CallerStep(c) ==
  Dispatch(c) \/ Assign(c) \/ Interrupt(c) \/ StartRunner(c) \/ Throw(c) \/ Flush(c) \/ Submit(c)

-----------------------------------------------------------------------------
(* The runner's loop.                                                       *)

\* Thread.interrupted() reads and clears the flag.
LoopTop ==
  /\ runner = "top"
  /\ runner' = IF interrupted THEN "switch" ELSE "check"
  /\ interrupted' = FALSE
  /\ UNCHANGED <<state, queue, pending, calls, taskVars>>

\* Mutant: the test for a pause is inverted.
CheckNotPaused ==
  /\ runner = "check"
  /\ runner' = IF state # "PAUSED" THEN "dead" ELSE "take"
  /\ UNCHANGED <<state, queue, interrupted, pending, calls, taskVars>>

\* this.wait() on a monitor the runner does not own ends the thread with an
\* IllegalMonitorStateException.
CheckPaused ==
  /\ runner = "check"
  /\ runner' = IF state = "PAUSED" THEN "dead" ELSE "take"
  /\ UNCHANGED <<state, queue, interrupted, pending, calls, taskVars>>

\* queue.take() blocks on an empty queue and reacts to an interrupt first.
TakeInterrupted ==
  /\ runner = "take" /\ interrupted
  /\ runner' = "switch"
  /\ interrupted' = FALSE
  /\ UNCHANGED <<state, queue, pending, calls, taskVars>>

\* Mutant: the runner looks at the head of the queue and does not remove it.
TakePeeks ==
  /\ runner = "take" /\ ~interrupted
  /\ queue # <<>>
  /\ phase' = [phase EXCEPT ![Head(queue)] = "running"]
  /\ runner' = "run"
  /\ UNCHANGED <<state, queue, interrupted, pending, calls, ticket, issued>>

Take ==
  /\ runner = "take" /\ ~interrupted
  /\ queue # <<>>
  /\ phase' = [phase EXCEPT ![Head(queue)] = "running"]
  /\ queue' = Tail(queue)
  /\ runner' = "run"
  /\ UNCHANGED <<state, interrupted, pending, calls, ticket, issued>>

\* A submitted callable returns or throws ("done"), or fails because it reacted to an interrupt
\* meant for the runner; FutureTask.run keeps the exception in the future.
RunTask ==
  \E t \in InPhase("running") \ Finishers :
    /\ runner = "run"
    /\ \/ /\ phase' = [phase EXCEPT ![t] = "done"]
          /\ UNCHANGED interrupted
       \/ /\ Swallow /\ interrupted
          /\ phase' = [phase EXCEPT ![t] = "failed"]
          /\ interrupted' = FALSE
    /\ runner' = "top"
    /\ UNCHANGED <<state, queue, pending, calls, ticket, issued>>

\* Mutant: the callable of finish() only sets the state.
RunFinisherNoInterrupt ==
  \E t \in InPhase("running") \cap Finishers :
    /\ runner = "run"
    /\ state' = "SHUTDOWN"
    /\ phase' = [phase EXCEPT ![t] = "done"]
    /\ runner' = "top"
    /\ UNCHANGED <<queue, interrupted, pending, calls, ticket, issued>>

\* The callable of finish() calls shutdown() in the runner thread itself.
RunFinisher ==
  \E t \in InPhase("running") \cap Finishers :
    /\ runner = "run"
    /\ state' = "SHUTDOWN"
    /\ interrupted' = TRUE
    /\ phase' = [phase EXCEPT ![t] = "done"]
    /\ runner' = "top"
    /\ UNCHANGED <<queue, pending, calls, ticket, issued>>

\* Mutant: an interrupted runner that was shut down goes on.
SwitchInterruptedGoesOn ==
  /\ runner = "switch"
  /\ runner' = IF state = "INIT" THEN "dead" ELSE "top"
  /\ UNCHANGED <<state, queue, interrupted, pending, calls, taskVars>>

\* The switch over state of an interrupted runner: INIT is the
\* RuntimeException("Implementation Error"), SHUTDOWN leaves the loop.
SwitchInterrupted ==
  /\ runner = "switch"
  /\ runner' = CASE state = "INIT" -> "dead"
                 [] state \in {"RUNNING", "PAUSED"} -> "top"
                 [] state = "SHUTDOWN" -> "done"
  /\ UNCHANGED <<state, queue, interrupted, pending, calls, taskVars>>

RunnerLoop == LoopTop \/ CheckPaused \/ TakeInterrupted \/ Take \/ SwitchInterrupted
RunnerStep == RunnerLoop \/ RunTask \/ RunFinisher

-----------------------------------------------------------------------------
Next ==
  \/ \E c \in Callers :
       \/ \E method \in Calls : Call(c, method)
       \/ \E t \in Tasks : CallSubmit(c, t)
       \/ CallerStep(c)
  \/ RunnerStep

\* A thread in the middle of a method goes on; so does the runner thread.
\* No caller has to call anything.
Fairness == WF_vars(RunnerStep) /\ \A c \in Callers : WF_vars(CallerStep(c))

Spec == Init /\ [][Next]_vars
FairSpec == Spec /\ Fairness
-----------------------------------------------------------------------------
(* Properties.                                                              *)

\* The variables have their types; the queue holds exactly the accepted tasks
\* that wait, each once, and a task runs exactly while the runner is in its
\* run method. (OffWorker's queue, runner and futures agree.)
TypeOK ==
  /\ state \in States
  /\ queue \in Seq(Tasks)
  /\ runner \in {"new", "top", "check", "take", "run", "switch", "dead", "done"}
  /\ interrupted \in BOOLEAN
  /\ pending \in [Callers -> Seq(Steps)]
  /\ calls \in Nat
  /\ phase \in [Tasks -> {"new", "waiting", "running", "done", "failed", "dropped"}]
  /\ ticket \in [Tasks -> Nat]
  /\ issued \in Nat
  /\ \A t \in Tasks : phase[t] = "waiting" <=> \E i \in DOMAIN queue : queue[i] = t
  /\ \A t, u \in Tasks : phase[t] = "running" => runner = "run" /\ (phase[u] = "running" => t = u)

\* A task never starts while one that was submitted before it still waits:
\* the order OffWorkerTest reads off the tasks' timestamps, whatever the
\* callers do to the worker meanwhile.
NoOvertaking ==
  \A t \in Started : \A u \in InPhase("waiting") : ticket[t] < ticket[u]

\* When the task of finish() has run, nothing submitted before it is left:
\* finish() lets the worker work off its queue before the shutdown.
FinishDrains ==
  \A f \in Finishers : phase[f] = "done" =>
    \A t \in Tasks : ticket[t] \in 1 .. ticket[f] => phase[t] \in {"done", "failed", "dropped"}

\* The runner executes nothing that was submitted after finish(): the shutdown
\* in the task of finish() ends the loop before the next task is taken. Holds
\* for one calling thread that does not pause the worker.
NothingAfterFinish ==
  \A f \in Finishers : phase[f] = "done" =>
    \A t \in Tasks : ticket[t] > ticket[f] => phase[t] \in {"waiting", "dropped"}

\* No call leads out of SHUTDOWN: start, pause and unpause throw
\* (OffWorkerTest, after shutdown). Holds for one calling thread that does not
\* pause: the runner may shut down the worker in between.
ShutdownIsFinal == [][state = "SHUTDOWN" => state' = "SHUTDOWN"]_vars

\* Every behaviour of the worker is one of a queue that works its tasks off
\* one at a time, in the order of submission, each at most once, and never a
\* flushed one (flush: "the other jobs will never be executed").
Executor == INSTANCE SerialExecutor
ImplementsSerialExecutor == Executor!Spec

\* A worker that was finished stops its thread: the interrupt that ends the
\* loop is not lost.
FinishStopsRunner ==
  \A f \in Finishers : phase[f] = "done" ~> runner = "done"

\* Once the worker runs, a submitted task is executed or flushed unless the
\* worker is shut down; with FinishDrains, finish() abandons no task.
TasksComplete ==
  \A t \in Tasks :
    (state = "RUNNING" /\ phase[t] = "waiting")
      ~> (state = "SHUTDOWN" \/ phase[t] \in {"done", "failed", "dropped"})

\* A worker that is shut down lets go of its thread. Holds for one calling
\* thread and tasks that leave an interrupt to the runner.
ShutdownStopsRunner == (state = "SHUTDOWN" /\ RunnerAlive) ~> ~RunnerAlive
=============================================================================
