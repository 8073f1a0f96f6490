---------------------------- MODULE ConditionalDeps ----------------------------
(* Planning with conditional dependencies (vibe-install, plan.rs): the solver is  *)
(* asked for the roots, every package of its answer is fetched, and as long as    *)
(* conditions of fetched packages hold that ask for packages which are not there, *)
(* those are asked for as well and what the new answer adds is fetched.           *)
EXTENDS Answers

CONSTANTS
    Tag,            \* capabilities, apart from the packages' own tags
    Registries,     \* the registries to plan against
    RootSets,       \* the constraints to plan for
    MaxIterations   \* COND_DEP_MAX_ITER

\* A condition: every tag of `all` is present and no tag of `no`. A manifest that
\* says `or` has a condition for each side.
Edge == [all : SUBSET (Pkg \cup Tag), no : SUBSET (Pkg \cup Tag),
         dep : Pkg, accepts : (SUBSET Version) \ {{}}]

PlanManifest == [needs : Require, drops : SUBSET Pkg, brings : SUBSET Pkg,
                 when : SUBSET Edge, gives : SUBSET Tag]

ASSUME PlanAssumption ==
    /\ MaxIterations \in Nat
    /\ \A w \in Registries : \A p \in Pkg : \A v \in Version : w[p][v] \in PlanManifest \cup {None}
    /\ RootSets \subseteq Require

VARIABLES
    registry, wanted,
    fetched,    \* the version of each fetched package
    asked,      \* the fetched packages that a solve was asked for by name
    iteration,
    obsoleted,  \* history: the packages that were left out of answers
    pc

planVars == <<registry, wanted, fetched, asked, iteration, obsoleted, pc>>

PlanInit ==
    /\ registry \in Registries /\ wanted \in RootSets
    /\ fetched = [p \in Pkg |-> None]
    /\ asked = {} /\ iteration = 0 /\ obsoleted = {}
    /\ pc = "solve"

----------------------------------------------------------------------------
\* The conditions

ManifestOf(g, p) == registry[p][g[p]]

\* Bug: only the packages' own tags.
ContextOfPackages == In(fetched)

\* build_activation_context: the tags of the fetched packages and what they give.
Context == In(fetched) \cup UNION {ManifestOf(fetched, p).gives : p \in In(fetched)}

Applies(e) == e.all \subseteq Context /\ e.no \cap Context = {}

Firing == {e \in UNION {ManifestOf(fetched, p).when : p \in In(fetched)} : Applies(e)}

\* Packages that are fetched, at whatever version, are not asked for again.
Extras == {e.dep : e \in Firing} \ In(fetched)

\* The packages that are asked for to expand the plan, and what is asked of them: the
\* roots as they were first asked for, what was asked for since at the version that
\* was fetched, and the extras. Of two conditions for one package the first counts.
Names == Declared(wanted) \cup asked \cup Extras

MeetsCombined(c) ==
    /\ Meets(c, wanted)
    /\ \A p \in asked \ Declared(wanted) : c[p] = fetched[p]
    /\ \A p \in Extras \ Declared(wanted) : \E e \in Firing : e.dep = p /\ c[p] \in e.accepts

----------------------------------------------------------------------------
\* The steps

\* Bug: fetches what was asked for, and not what that needs.
RefetchAsked(g) == [p \in Pkg |-> IF p \in Extras THEN g[p] ELSE fetched[p]]

\* What the new answer adds is fetched. Packages that are fetched already stay as
\* they are, also where the answer has another version of them.
Refetch(g) == [p \in Pkg |-> IF fetched[p] # None THEN fetched[p] ELSE g[p]]

\* Bug: one more.
MayExpandOnceMore == iteration <= MaxIterations

MayExpand == iteration < MaxIterations

\* What an answer leaves out.
LeftOut(c) == In(c) \cap Dropped(registry, c)

\* The solver is asked for the roots, those that the lockfile satisfies at what it
\* has, and when it has no answer to that, for the roots as they are. Either answer
\* meets the roots.
Solve ==
    /\ pc = "solve"
    /\ \E c \in Choices(registry, Declared(wanted)) :
        /\ Meets(c, wanted)
        /\ fetched' = Answer(registry, c)
        /\ obsoleted' = LeftOut(c)
        /\ asked' = Declared(wanted) \cap In(Answer(registry, c))
    /\ pc' = "expand"
    /\ UNCHANGED <<registry, wanted, iteration>>

\* Of what the answer adds, that is marked as a root which was asked for. An extra
\* that the answer leaves out is asked for again, up to the cap.
Expand ==
    /\ pc = "expand" /\ Extras # {} /\ MayExpand
    /\ \E c \in Choices(registry, Names) :
        LET g == Refetch(Answer(registry, c)) IN
        /\ MeetsCombined(c)
        /\ fetched' = g
        /\ obsoleted' = obsoleted \cup LeftOut(c)
        /\ asked' = asked \cup (Names \cap (In(g) \ In(fetched)))
    /\ iteration' = iteration + 1
    /\ UNCHANGED <<registry, wanted, pc>>

Done ==
    /\ pc = "expand" /\ Extras = {}
    /\ pc' = "done"
    /\ UNCHANGED <<registry, wanted, fetched, asked, iteration, obsoleted>>

\* The solver has no answer, or the conditions keep bringing in packages.
NoPlan ==
    /\ pc = "solve" \/ (pc = "expand" /\ Extras # {})
    /\ pc' = "failed"
    /\ UNCHANGED <<registry, wanted, fetched, asked, iteration, obsoleted>>

PlanNext == Solve \/ Expand \/ Done \/ NoPlan

PlanSpec == PlanInit /\ [][PlanNext]_planVars

----------------------------------------------------------------------------
\* Properties

\* Every variable holds what its comment says it holds.
PlanTypeOK ==
    /\ fetched \in Graph
    /\ asked \subseteq In(fetched)
    /\ iteration \in 0 .. MaxIterations
    /\ obsoleted \subseteq Pkg
    /\ pc \in {"solve", "expand", "done", "failed"}

\* A plan lacks nothing but what an answer left out as obsoleted: what the roots and
\* the fetched packages name is fetched or was left out, and what a condition that
\* holds in the end asks for is fetched, although versions of packages differ between
\* the solves and conditions are taken back by `not`.
NothingMissing ==
    /\ pc \in {"expand", "done"} =>
          Declared(wanted) \cup UNION {Declared(ManifestOf(fetched, p).needs) : p \in In(fetched)}
              \subseteq In(fetched) \cup obsoleted
    /\ pc = "done" => {e.dep : e \in Firing} \subseteq In(fetched)

\* fixpoint_model.rs, "the production loop must agree with it": in a world of one
\* version each, without other dependencies, obsoletes or negations, a pass of the
\* loop is a step of the model, and the loop is done where the model is stable.
TheVersion(p) == CHOOSE v \in Version : registry[p][v] # None

Simple ==
    \A p \in Pkg : \E v \in Version :
        /\ registry[p][v] # None
        /\ \A w \in Version \ {v} : registry[p][w] = None
        /\ Declared(registry[p][v].needs) = {}
        /\ registry[p][v].drops = {} /\ registry[p][v].brings = {}
        /\ \A e \in registry[p][v].when : e.no = {} /\ \E t \in Pkg \cup Tag : e.all = {t}

ModelOf(p) ==
    [provides |-> registry[p][TheVersion(p)].gives,
     conditional |-> {[trigger |-> CHOOSE t \in e.all : TRUE, dep |-> e.dep] :
                        e \in registry[p][TheVersion(p)].when}]

Model == INSTANCE FixpointModel WITH graph <- In(fetched), model <- [p \in Pkg |-> ModelOf(p)]

FollowsModel == [][Simple => (Expand => Model!Step) /\ (Done => Model!Stable)]_planVars

=============================================================================
