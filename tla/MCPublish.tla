------------------------------ MODULE MCPublish ------------------------------
(* Small instances of Publish: an application that depends on a library.        *)
EXTENDS Publish, TLC

CONSTANTS app, lib

MCDeps == [n \in Node |-> IF n = app THEN {lib} ELSE {}]
MCTag == {1, 2}
===============================================================================
