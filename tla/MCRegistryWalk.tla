---------------------------- MODULE MCRegistryWalk ----------------------------
(* Small worlds of RegistryWalk: two registries with a mirror each. The first    *)
(* registry takes every shape that the code tells apart, one aspect at a time.   *)
EXTENDS RegistryWalk, TLC

DeclaredVersionDef == [d \in Declaration |-> IF d = "path" THEN 1 ELSE 2]

Plain == [status |-> [r \in Registry |-> [s \in Source |-> "up"]],
          tags |-> [r \in Registry |-> [s \in Source |-> Version]],
          index |-> [r \in Registry |-> None],
          holds |-> [r \in Registry |-> [v \in Version |-> "package"]],
          target |-> [r \in Registry |-> "up"],
          auth |-> [r \in Registry |-> "none"],
          strict |-> FALSE, declared |-> {}, remote |-> "up",
          archive |-> TRUE]

\* The first registry's repositories, index and credentials; the second has the
\* package or has not.
Walks ==
    {[Plain EXCEPT !.status[1] = (1 :> primary @@ 2 :> mirror), !.status[2][1] = second,
                   !.status[2][2] = second, !.tags[1] = (1 :> has @@ 2 :> copied),
                   !.index[1] = index, !.auth[1] = auth, !.strict = strict,
                   !.archive = archive] :
        primary \in Status, mirror \in {"up", "down"}, second \in {"up", "missing"},
        has \in {{}, {2}, {1, 2}}, copied \in {{1}, {1, 2}}, index \in {None, {1, 2}},
        auth \in {"none", "token"}, strict \in BOOLEAN, archive \in BOOLEAN}

\* Stubs at the first registry.
Redirects ==
    {[Plain EXCEPT !.tags[1][1] = has, !.holds[1] = holds, !.target[1] = target] :
        has \in {{2}, {1, 2}}, holds \in [Version -> Holding], target \in {"up", "down", "stub"}}

\* Declarations that bypass the registries.
Bypasses ==
    {[Plain EXCEPT !.declared = declared, !.remote = remote, !.holds[1][2] = holds,
                   !.status[1][1] = first] :
        declared \in SUBSET Declaration \ {{}}, remote \in {"up", "down", "clone"}, holds \in {"package", "pass"},
        first \in {"up", "missing"}}

WorldsDef == {w \in Walks : w.strict \/ w.auth[1] = "token" => w.status[1][1] = "denied"}
             \cup Redirects \cup Bypasses

===============================================================================
