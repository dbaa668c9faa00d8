----------------------------- MODULE MCComposer -----------------------------
(* Instances of Composer: b is a with links.                               *)
EXTENDS Composer

CONSTANTS a, b

MCLinked == [v \in Values |-> b]
=============================================================================
