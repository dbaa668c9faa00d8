---------------------------- MODULE ScriptService ----------------------------
(***************************************************************************)
(* What IBrowserScriptRunner promises: a script handed over while the page *)
(* is loading is kept until the page has finished loading one way or the   *)
(* other; it yields a value only in a loaded page; the way loading ended   *)
(* is final.                                                               *)
(***************************************************************************)
CONSTANT Scripts

VARIABLES page,     \* "none", "loading", "loaded" or "aborted"
          promise   \* promise[s]: "none", "open", "value" or "error"

pvars == <<page, promise>>

Init ==
  /\ page = "none"
  /\ promise = [s \in Scripts |-> "none"]

Resolve(s, from, outcome) ==
  /\ promise[s] = from
  /\ promise' = [promise EXCEPT ![s] = outcome]
  /\ UNCHANGED page

\* A script is taken while it can still be executed, and refused otherwise.
Ask(s)    == page \in {"loading", "loaded"} /\ Resolve(s, "none", "open")
Refuse(s) == page # "loaded" /\ Resolve(s, "none", "error")
\* An accepted script fails at the earliest when loading has ended.
Fulfil(s) == page = "loaded" /\ Resolve(s, "open", "value")
Break(s)  == page \in {"loaded", "aborted"} /\ Resolve(s, "open", "error")

Load == page = "none" /\ page' = "loading" /\ UNCHANGED promise

Loaded == page \in {"none", "loading"} /\ page' = "loaded" /\ UNCHANGED promise

Abort == page = "loading" /\ page' = "aborted" /\ UNCHANGED promise

Next ==
  \/ Load \/ Loaded \/ Abort
  \/ \E s \in Scripts : Ask(s) \/ Refuse(s) \/ Fulfil(s) \/ Break(s)

Spec == Init /\ [][Next]_pvars
=============================================================================
