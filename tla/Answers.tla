-------------------------------- MODULE Answers --------------------------------
(* What a solver of vibe-resolver may answer, and what planning puts together     *)
(* from its answers. A solver chooses packages at versions; build_resolved_graph  *)
(* then leaves out those that a chosen one obsoletes, needed or not. An offer is  *)
(* what the registry publishes: offer[p][v] is None or a manifest with            *)
(*   needs   the constraint it puts on each other package,                        *)
(*   drops   the packages it obsoletes,                                           *)
(*   brings  the packages that it may bring in besides: alternatives of a         *)
(*           [[requires_any]], providers of a capability, [recommends],           *)
(*   when    its conditions, each with the package `dep` that it asks for.        *)
EXTENDS Packages

\* A constraint is the set of versions it accepts, {} where nothing is asked.
Require == [Pkg -> SUBSET Version]
Graph == [Pkg -> Version \cup {None}]

Declared(req) == {p \in Pkg : req[p] # {}}
In(g) == {p \in Pkg : g[p] # None}

Meets(g, req) == \A p \in Declared(req) : g[p] \in req[p]

\* The published manifests.
Offered(offer) == {offer[p][v] : p \in Pkg, v \in Version} \ {None}

\* Everything that g holds is published, and has what it needs.
Closed(offer, g) ==
    \A p \in In(g) : offer[p][g[p]] # None /\ Meets(g, offer[p][g[p]].needs)

\* The packages of g that the names lead to over what packages of g need.
LedTo(offer, names, g) ==
    {p \in In(g) : \A S \in SUBSET In(g) :
        /\ names \cap In(g) \subseteq S
        /\ \A q \in S : Declared(offer[q][g[q]].needs) \cap In(g) \subseteq S
        => p \in S}

Brought(offer) == UNION {m.brings : m \in Offered(offer)}

\* What naive, sat or resolvo may choose for roots with these names. Naive and sat do
\* not always take the newest version that would do, and what is brought in depends
\* on the solver.
Choices(offer, names) ==
    LET from == names \cup Brought(offer)
    IN {g \in Graph : Closed(offer, g) /\ In(g) = LedTo(offer, from, g)}

\* The packages that chosen ones obsolete ...
Dropped(offer, g) == UNION {offer[p][g[p]].drops : p \in In(g)}

\* ... are not in the answer, though others need them or they are roots.
Answer(offer, g) == [p \in Pkg |-> IF p \in Dropped(offer, g) THEN None ELSE g[p]]

----------------------------------------------------------------------------
\* What planning makes of the answers

\* What conditions may ask for.
Late(offer) == {e.dep : e \in UNION {m.when : m \in Offered(offer)}}

\* Every package was in some answer, at the version it had there, and nothing of that
\* answer is missing.
PutTogether(offer, names, g) ==
    \A p \in In(g) : \E c \in Choices(offer, names) :
        c[p] = g[p] /\ p \in In(Answer(offer, c)) /\ In(Answer(offer, c)) \subseteq In(g)

Unconditional(offer, g) == \A p \in In(g) : offer[p][g[p]].when = {}

\* A plan for req has the roots at accepted versions, but for those that were left out
\* as obsoleted. It is the answer to one question, or was put together from several
\* because of conditions of packages in it.
Plans(offer, req) ==
    {g \in Graph :
        /\ Declared(req) \subseteq In(g) \cup UNION {m.drops : m \in Offered(offer)}
        /\ \A p \in Declared(req) \cap In(g) : g[p] \in req[p]
        /\ PutTogether(offer, Declared(req) \cup Late(offer), g)
        /\ Unconditional(offer, g) =>
              \E c \in Choices(offer, Declared(req)) : Meets(c, req) /\ g = Answer(offer, c)}

=============================================================================
