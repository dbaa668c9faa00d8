--------------------------- MODULE SerialExecutor ---------------------------
(***************************************************************************)
(* What OffWorker promises to the code that submits tasks to it, without   *)
(* its thread, its states and its interrupts: tasks are accepted in some   *)
(* order, at most one runs at a time, a task begins only when no older     *)
(* task is still waiting, and a flushed task never runs.                   *)
(***************************************************************************)
EXTENDS Naturals

CONSTANT Tasks

VARIABLES phase,    \* phase[t]: where the future of task t stands
          ticket,   \* ticket[t]: position of t in the order of submission
          issued    \* number of tasks submitted so far

svars == <<phase, ticket, issued>>

Phases == {"new", "waiting", "running", "done", "failed", "dropped"}

InPhase(p) == {t \in Tasks : phase[t] = p}

Init ==
  /\ phase = [t \in Tasks |-> "new"]
  /\ ticket = [t \in Tasks |-> 0]
  /\ issued = 0

Accept(t) ==
  /\ phase[t] = "new"
  /\ issued' = issued + 1
  /\ ticket' = [ticket EXCEPT ![t] = issued + 1]
  /\ phase' = [phase EXCEPT ![t] = "waiting"]

Begin(t) ==
  /\ phase[t] = "waiting"
  /\ InPhase("running") = {}
  /\ \A u \in InPhase("waiting") : ticket[t] <= ticket[u]
  /\ phase' = [phase EXCEPT ![t] = "running"]
  /\ UNCHANGED <<ticket, issued>>

End(t) ==
  /\ phase[t] = "running"
  /\ \E outcome \in {"done", "failed"} : phase' = [phase EXCEPT ![t] = outcome]
  /\ UNCHANGED <<ticket, issued>>

Drop ==
  /\ phase' = [t \in Tasks |-> IF phase[t] = "waiting" THEN "dropped" ELSE phase[t]]
  /\ UNCHANGED <<ticket, issued>>

Next == (\E t \in Tasks : Accept(t) \/ Begin(t) \/ End(t)) \/ Drop

Spec == Init /\ [][Next]_svars
=============================================================================
