--------------------------- MODULE MCPackageFetch ---------------------------
EXTENDS PackageFetch, TLC

CONSTANTS p1, p2, v1, v2, a, b, c

WantsDef == [p \in Project |-> IF p = p1 THEN v1 ELSE v2]
FirstDef == [t \in Tag |-> IF t = v1 THEN a ELSE b]
=============================================================================
