----------------------------- MODULE FixpointModel -----------------------------
(* The reference model of conditional dependencies that vibe-resolver keeps       *)
(* (fixpoint_model.rs): a package that is in the graph brings in others when a    *)
(* trigger is present, until nothing is added.                                    *)

VARIABLES model,   \* for each package [provides, conditional], a set of tags and
                   \* one of edges [trigger, dep]
          graph    \* the packages that are in

Present == graph \cup UNION {model[p].provides : p \in graph}

Fired == {e \in UNION {model[p].conditional : p \in graph} : e.trigger \in Present}
Added == {e.dep : e \in Fired} \ graph

Step == graph' = graph \cup Added /\ UNCHANGED model

Stable == Added = {}

=============================================================================
