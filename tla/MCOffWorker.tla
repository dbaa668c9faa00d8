----------------------------- MODULE MCOffWorker -----------------------------
(* Instances of OffWorker: which methods the callers of a run use.         *)
EXTENDS OffWorker

AllMethods == Methods
AllButPause == Methods \ {"pause"}
=============================================================================
