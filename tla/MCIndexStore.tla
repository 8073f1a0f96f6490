----------------------------- MODULE MCIndexStore -----------------------------
(* Small instances of IndexStore. p1 and p2 have the same bare name in two       *)
(* groups, p3 has a name of its own.                                             *)
EXTENDS IndexStore, TLC

CONSTANTS p1, p2, p3, short, other

\* The bare names of the packages of an instance.
Names == [p \in Package |-> IF p = p3 THEN other ELSE short]

===============================================================================
