------------------------------- MODULE DepSolver -------------------------------
(* The dependency solvers of vibe-resolver: `naive` makes one pass over a queue   *)
(* of requests and takes the newest version for each; `sat` runs it again and     *)
(* again under upper bounds on the packages whose versions clashed; resolvo hands *)
(* the same world to a complete solver, here the declarative `Admits`.            *)
(*                                                                                *)
(* The world is what the registry offers: a manifest for every published version. *)
(* A constraint is the set of versions it accepts.                                *)
EXTENDS Packages, Integers, Sequences

CONSTANTS
    Capability,   \* capabilities at a version
    Worlds,       \* the worlds to solve in
    RootLists,    \* the requests to solve for
    MaxAttempts   \* MAX_ATTEMPTS of sat.rs

Constraint == (SUBSET Version) \ {{}}
Request == Pkg \X Constraint

\* What the solvers read of a package manifest. The alternatives of its
\* [[requires_any]] have an order, and so have [requires.packages]; a wanted
\* capability is the set of those that will do.
Manifest == [needs : Seq(Request), oneof : Seq(Request), bars : SUBSET Pkg,
             drops : SUBSET Pkg, gives : SUBSET Capability,
             wants : SUBSET SUBSET Capability]

ASSUME SolverAssumption ==
    /\ MaxAttempts \in Nat \ {0}
    /\ \A w \in Worlds : \A p \in Pkg : \A v \in Version : w[p][v] \in Manifest \cup {None}
    /\ \A r \in RootLists : r \in Seq(Request)
    /\ None \notin Pkg

VARIABLES
    world, roots, solver,
    queue,     \* requests to process
    chosen,    \* the version taken of each package
    barred,    \* packages that chosen ones conflict with
    dropped,   \* packages that chosen ones obsolete
    offered,   \* capabilities that chosen ones provide
    stack,     \* sat: <<package, bound>>, the newest last
    attempts,
    first,     \* sat: the first error
    graph,     \* the version of each package in the answer
    outcome

vars == <<world, roots, solver, queue, chosen, barred, dropped, offered, stack,
          attempts, first, graph, outcome>>

Error(kind, p) == [kind |-> kind, pkg |-> p]
Kind == {"barred", "clash", "none", "unmet"}

ASSUME NoneAssumption == \A kind \in Kind, p \in Pkg : Error(kind, p) # None

Running == Error("running", None)
Solved == Error("solved", None)

Init ==
    /\ world \in Worlds /\ roots \in RootLists /\ solver \in {"naive", "sat"}
    /\ queue = roots
    /\ chosen = [p \in Pkg |-> None]
    /\ barred = {} /\ dropped = {} /\ offered = {}
    /\ stack = <<>> /\ attempts = 1 /\ first = None
    /\ graph = [p \in Pkg |-> None]
    /\ outcome = Running

----------------------------------------------------------------------------
\* The provider, and the bounds that sat puts on it

Published(p) == {v \in Version : world[p][v] # None}
Highest(S) == CHOOSE v \in S : \A w \in S : w <= v

BoundsOf(p) == {stack[i][2] : i \in {i \in DOMAIN stack : stack[i][1] = p}}
Bounded(p) == BoundsOf(p) # {}

\* BoundedProvider: the versions of p below every bound on it.
Allowed(p) == {v \in Published(p) : \A b \in BoundsOf(p) : v < b}

Chosen == {p \in Pkg : chosen[p] # None}

----------------------------------------------------------------------------
\* One request of the queue: process_one

Asked == queue[1]
Target == Asked[1]
\* Bug: forgets the bounds.
CandidatesOfAll == Published(Target) \cap Asked[2]

Candidates == Allowed(Target) \cap Asked[2]
Picked == Highest(Candidates)
PickedManifest == world[Target][Picked]

\* The request is for a package that is in, at a version that suits it.
SuitsRequest == Target \in Chosen /\ chosen[Target] \in Asked[2]

\* The new package conflicts with one that is in.
Collides == PickedManifest.bars \cap Chosen # {}

\* verify_capability_requires: only what is in already counts, and the package.
Unmet == \E want \in PickedManifest.wants :
            want \cap (offered \cup PickedManifest.gives) = {}

\* What is wrong with the request, in the order of the checks; None if nothing is.
Trouble ==
    IF Target \in barred THEN Error("barred", Target)
    ELSE IF SuitsRequest THEN None
    ELSE IF Target \in Chosen THEN Error("clash", Target)
    ELSE IF Candidates = {} THEN Error("none", Target)
    ELSE IF Collides THEN Error("barred", Target)
    ELSE IF Unmet THEN Error("unmet", Target)
    ELSE None

\* handle_disjunction: an alternative that is in will do, at any version; else the
\* first one is asked for.
Alternatives ==
    LET options == PickedManifest.oneof IN
    IF options = <<>> \/ \E i \in DOMAIN options : options[i][1] \in Chosen
    THEN <<>> ELSE <<options[1]>>

Process ==
    /\ outcome = Running /\ queue # <<>> /\ Trouble = None
    /\ IF Target \in Chosen
       THEN /\ queue' = Tail(queue)
            /\ UNCHANGED <<chosen, barred, dropped, offered>>
       ELSE /\ queue' = Tail(queue) \o Alternatives \o PickedManifest.needs
            /\ chosen' = [chosen EXCEPT ![Target] = Picked]
            /\ barred' = barred \cup PickedManifest.bars
            /\ dropped' = dropped \cup PickedManifest.drops
            /\ offered' = offered \cup PickedManifest.gives
    /\ UNCHANGED <<world, roots, solver, stack, attempts, first, graph, outcome>>

\* The queue is empty: every package is chosen. build_resolved_graph leaves out those
\* that chosen ones obsolete, also where they are roots or others need them.
Finish ==
    /\ outcome = Running /\ queue = <<>>
    /\ outcome' = Solved
    /\ graph' = [p \in Pkg |-> IF p \in dropped THEN None ELSE chosen[p]]
    /\ UNCHANGED <<world, roots, solver, queue, chosen, barred, dropped, offered, stack,
                   attempts, first>>

----------------------------------------------------------------------------
\* What a failed pass leads to

FirstError == IF first = None THEN Trouble ELSE first

Stop(error) ==
    /\ outcome' = error
    /\ UNCHANGED <<world, roots, solver, queue, chosen, barred, dropped, offered, stack,
                   attempts, first, graph>>

\* The naive solver fails, and so does sat for an error that no bound can mend.
Fail ==
    /\ outcome = Running /\ queue # <<>> /\ Trouble # None
    /\ \/ solver = "naive"
       \/ Trouble.kind \notin {"clash", "none"}
       \/ Trouble.kind = "none" /\ ~Bounded(Target)
    /\ Stop(Trouble)

\* Bug: what packages of the last pass declared stays in force.
RetryKeepingDeclared(new) ==
    /\ attempts < MaxAttempts
    /\ stack' = new /\ attempts' = attempts + 1
    /\ queue' = roots /\ chosen' = [p \in Pkg |-> None]
    /\ UNCHANGED <<world, roots, solver, barred, dropped, offered, graph, outcome>>

\* The next pass starts, under the bounds of new.
Retry(new) ==
    /\ attempts < MaxAttempts
    /\ stack' = new /\ attempts' = attempts + 1
    /\ queue' = roots /\ chosen' = [p \in Pkg |-> None]
    /\ barred' = {} /\ dropped' = {} /\ offered' = {}
    /\ UNCHANGED <<world, roots, solver, graph, outcome>>

GivesUp == attempts >= MaxAttempts /\ Stop(FirstError)

\* A clash: the package is capped below the version that it clashed at. That version
\* was Allowed, so the new bound is the lowest and `tightens` is always true.
Narrow ==
    /\ outcome = Running /\ queue # <<>> /\ Trouble # None
    /\ solver = "sat" /\ Trouble.kind = "clash"
    /\ \/ Retry(Append(stack, <<Target, chosen[Target]>>)) /\ first' = FirstError
       \/ GivesUp

\* Bug: descends to the bound it comes from.
LowerOfSame(i) == {v \in Published(stack[i][1]) : v <= stack[i][2]}

\* The candidates below the bound of the stack's i-th entry.
Lower(i) == {v \in Published(stack[i][1]) : v < stack[i][2]}

\* A bound exhausted a package: the newest entry that can descend does, and what is
\* above it is gone. When none can, sat fails with the first error.
Backtrack ==
    /\ outcome = Running /\ queue # <<>> /\ Trouble # None
    /\ solver = "sat" /\ Trouble.kind = "none" /\ Bounded(Target)
    /\ LET able == {i \in DOMAIN stack : Lower(i) # {}}
           top == Highest(able)
       IN IF able = {} THEN Stop(FirstError)
          ELSE \/ /\ Retry(SubSeq(stack, 1, top - 1) \o <<<<stack[top][1], Highest(Lower(top))>>>>)
                  /\ UNCHANGED first
               \/ GivesUp

Next == Process \/ Finish \/ Fail \/ Narrow \/ Backtrack

Spec == Init /\ [][Next]_vars /\ WF_vars(Next)

----------------------------------------------------------------------------
\* resolvo: the clauses that VibevmResolvoProvider hands to the solver

\* A requirement is met by a version that it accepts.
Met(choice, request) == choice[request[1]] \in request[2]

\* One chosen version. Naive takes any version of an alternative for met, and so it
\* is here; the clauses have the versions that the alternative accepts.
Holds(choice, p) ==
    LET m == world[p][choice[p]] IN
    /\ m # None
    /\ \A i \in DOMAIN m.needs : Met(choice, m.needs[i])
    /\ m.oneof # <<>> => \E i \in DOMAIN m.oneof : choice[m.oneof[i][1]] # None
    /\ \A q \in m.bars : choice[q] = None
    /\ \A want \in m.wants :
          \E q \in Pkg : choice[q] # None /\ world[q][choice[q]].gives \cap want # {}

Admits(choice) ==
    /\ \A i \in DOMAIN roots : Met(choice, roots[i])
    /\ \A p \in Pkg : choice[p] # None => Holds(choice, p)

----------------------------------------------------------------------------
\* Properties

\* Every variable holds what its comment says it holds, and a bound is a published
\* version.
TypeOK ==
    /\ queue \in Seq(Request)
    /\ \A p \in Chosen : chosen[p] \in Allowed(p)
    /\ barred \subseteq Pkg /\ dropped \subseteq Pkg /\ offered \subseteq Capability
    /\ \A i \in DOMAIN stack : stack[i][2] \in Published(stack[i][1])
    /\ solver = "naive" => stack = <<>>
    /\ graph \in [Pkg -> Version \cup {None}]
    /\ outcome.kind \in Kind \cup {"running", "solved"}

\* What naive or sat takes for solved, resolvo admits: every request at a version it
\* accepts, nothing next to what it conflicts with, every capability there; only that
\* an alternative of a [[requires_any]] is at an accepted version is not asked. The
\* answer is this choice without what its packages obsolete, and nothing that only a
\* given-up pass or a package of an earlier bound obsoleted is missing from it.
SolvedIsAdmitted ==
    outcome = Solved =>
        /\ Admits(chosen)
        /\ \A p \in Pkg :
              graph[p] = IF \E q \in Chosen : p \in world[q][chosen[q]].drops THEN None
                         ELSE chosen[p]

\* "Every step strictly lowers some package's bound over a finite version set": the
\* search ends by itself, and never by its cap on attempts.
EndsBelowTheCap == <>(outcome # Running /\ attempts < MaxAttempts)

=============================================================================
