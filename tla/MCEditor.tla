------------------------------ MODULE MCEditor ------------------------------
(* Instances of Editor.                                                    *)
EXTENDS Editor

CONSTANTS e1, e2, d1, d2
=============================================================================
