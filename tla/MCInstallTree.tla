---------------------------- MODULE MCInstallTree ----------------------------
(* A small instance of InstallTree: one version of an application that needs a  *)
(* library, and a library in two versions of which the newer obsoletes the      *)
(* application and asks for it under a condition.                               *)
EXTENDS InstallTree

CONSTANTS app, lib

MCPkg == {app, lib}

Plain == [needs |-> Nothing, drops |-> {}, brings |-> {}, when |-> {}]
MCRegistry ==
    [p \in MCPkg |->
        IF p = app THEN <<[Plain EXCEPT !.needs = [Nothing EXCEPT ![lib] = {1, 2}]], None>>
        ELSE <<Plain, [Plain EXCEPT !.drops = {app}, !.when = {[dep |-> app]}]>>]
MCAsked == {<<app, {1, 2}>>, <<lib, {1}>>}

===============================================================================
