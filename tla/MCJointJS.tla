------------------------------ MODULE MCJointJS ------------------------------
(* Two nodes, two links and a permanent one; what is loaded.               *)
EXTENDS JointJS

CONSTANTS a, b, l1, l2, p

TwoNodes == {a, b}
ThreeLinks == {l1, l2, p}
OnePermanent == {p}

\* Three parallel links.
Parallel ==
  Json([nodes |-> {a, b}, links |-> [l \in ThreeLinks |-> LinkOf(a, b)], look |-> 1], 1, 0)

\* Node b is missing.
Torn ==
  Json([nodes |-> {a}, look |-> 0,
        links |-> [l \in ThreeLinks |-> IF l = l1 THEN LinkOf(a, b) ELSE LinkOf(b, a)]], 0, 1)

ToLoad == {Parallel, Torn, Garbage}
=============================================================================
