------------------------------ MODULE MCVvmStore ------------------------------
(* Small instances of VvmStore for TLC. Removals take no lock, and beside other  *)
(* commands, or killed half-way, they do leave dangling pointers and records;    *)
(* the specification here runs `self remove` and `self gc` only while no other   *)
(* command runs, and to their end. Installs and switches overlap and are killed  *)
(* at any step.                                                                  *)
EXTENDS VvmStore

Removing(p) == job[p].cmd \in {"remove", "prune"}

RemovesAlone == \A p, q \in Process : Removing(p) /\ p # q => pc[q] = "idle"

OrderlyNext ==
    /\ \/ \E p \in Process : Start(p) \/ Step(p) \/ (~Removing(p) /\ Crash(p))
       \/ RemoveStaleLock
    /\ RemovesAlone'

OrderlySpec == Init /\ [][OrderlyNext]_vars /\ \A p \in Process : WF_vars(Step(p))

===============================================================================
