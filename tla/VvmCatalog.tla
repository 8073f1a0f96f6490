------------------------------ MODULE VvmCatalog ------------------------------
(* What the version store of `vibe self` promises (spec/common/PROP-019, 2.4,    *)
(* 2.5, 2.13 and 2.15): an instance is written once and whole, its place is      *)
(* never filled again, only an instance that is there is recorded, the active    *)
(* pointer moves between recorded instances, what is active is not collected,    *)
(* and a record goes only after its directory.                                   *)
CONSTANTS Instance, Build, Absent, None

VARIABLES content,    \* what each instance holds
          recorded,   \* the instances the inventory lists
          active,     \* the instance the next `vibe` runs
          used        \* the instances ever written

vars == <<content, recorded, active, used>>

Init ==
    /\ content = [i \in Instance |-> Absent]
    /\ recorded = {}
    /\ active = None
    /\ used = {}

\* A whole instance appears at once, where there never was one.
Publish(i, b) ==
    /\ i \notin used
    /\ content' = [content EXCEPT ![i] = b]
    /\ used' = used \cup {i}
    /\ UNCHANGED <<recorded, active>>

Record(i) ==
    /\ content[i] # Absent
    /\ recorded' = recorded \cup {i}
    /\ UNCHANGED <<content, active, used>>

Activate(i) ==
    /\ i \in recorded
    /\ active' = i
    /\ UNCHANGED <<content, recorded, used>>

\* self remove (without --force) and self gc delete what is not active ...
Collect(i) ==
    /\ i # active
    /\ content' = [content EXCEPT ![i] = Absent]
    /\ UNCHANGED <<recorded, active, used>>

\* ... and then drop the records of what is gone.
Forget(gone) ==
    /\ \A i \in gone : content[i] = Absent
    /\ recorded' = recorded \ gone
    /\ UNCHANGED <<content, active, used>>

Next ==
    \/ \E i \in Instance : Record(i) \/ Activate(i) \/ Collect(i) \/ \E b \in Build : Publish(i, b)
    \/ \E gone \in SUBSET recorded : Forget(gone)

Spec == Init /\ [][Next]_vars
===============================================================================
