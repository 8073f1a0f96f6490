----------------------------- MODULE RegistryWalk -----------------------------
(* Where one package of an install comes from (vibe-registry,                    *)
(* multi_registry_resolver): [[override]], path and git declarations before the  *)
(* registries, the registries in their order, each with an index, a primary      *)
(* repository and mirrors, and a repository that is a stub redirecting to        *)
(* another one. An install asks this several times over: for a version, for the  *)
(* manifest of that version, and again for the tree to put into the project.     *)
(* Every question to a registry is a step, and the registries change in between. *)
EXTENDS Integers, FiniteSets, FiniteSetsExt

CONSTANTS
    Registries,     \* how many are configured; 1 is asked first
    Sources,        \* how many repositories serve each; 1 is the primary
    Version,        \* the versions of the package
    TargetVersion,  \* what the target of a redirect declares, if not the tag's version
    DeclaredVersion,\* what the source of an override, path or git declaration has
    Worlds,         \* the worlds an install may find
    MaxChanges,     \* bound on what happens to the registries meanwhile
    None

Registry == 1 .. Registries
Source == 1 .. Sources
Status == {"up", "down", "missing", "denied"}
Declaration == {"override", "path", "git"}

\* A tag holds a package, or a stub whose redirect goes to the target's tag of the
\* same name, or to the ref it pins. What a target declares there is not compared with
\* the tag: under "stray" a tag of that name declares another version.
Holding == {"package", "pass", "stray", "pinned"}
Elsewhere == {"stray", "pinned"}

\* Some hosts (GitHub) hand out no single files: there, a file is read from a clone.
World == [status : [Registry -> [Source -> Status]],
          tags : [Registry -> [Source -> SUBSET Version]],
          index : [Registry -> (SUBSET Version) \cup {None}],
          holds : [Registry -> [Version -> Holding]],
          target : [Registry -> {"up", "down", "stub"}],
          auth : [Registry -> {"none", "token"}],
          strict : BOOLEAN,
          declared : SUBSET Declaration,
          remote : {"up", "down", "clone"}, \* the URLs of override and git declarations
          archive : BOOLEAN]                \* primaries hand out single files

ASSUME WalkAssumption ==
    /\ Registries \in Nat \ {0} /\ Sources \in Nat \ {0} /\ MaxChanges \in Nat
    /\ Version \subseteq Nat /\ TargetVersion \in Version
    /\ DeclaredVersion \in [Declaration -> Version]
    /\ Worlds \subseteq World
    /\ \A S \in SUBSET Version : S # None

\* The versions of a package are finitely many.
ASSUME NewestAssumption ==
    \A S \in SUBSET Version : S # {} => \E v \in S : \A w \in S : w <= v

Phase == {"list", "solve", "manifest", "again", "install"}

\* The tree at a tag of a registry, where the redirect of that tag leads, or what is
\* declared: `tag` is None where no tag was followed.
Tree == [via : Declaration \cup {"registry"}, at : Registry \cup {0}, holds : Holding,
         tag : Version \cup {None}, version : Version]

VARIABLES world,
    pc,       \* "idle", or the question that is asked next
    job,      \* the install under way
    result,   \* history: how the last install ended
    changes

vars == <<world, pc, job, result, changes>>

\* The registries whose primary has the repository, or does not tell: it is down, or
\* denies it to credentials that are configured, or to a strict user.
Standing(status) ==
    {r \in Registry :
        \/ status[r][1] \in {"up", "down"}
        \/ status[r][1] = "denied" /\ (world.auth[r] = "token" \/ world.strict)}

\* `standing`, history: the registries that have been standing all along.
Job == [phase : Phase, asked : SUBSET Version,  \* what the user's constraint admits
        want : SUBSET Version,                  \* what the walk under way looks for
        at : Nat, version : Version \cup {None},
        found : Tree \cup {None},               \* the source the walk came to
        read : Tree \cup {None},                \* the tree whose manifest was solved
        quiet : BOOLEAN, standing : SUBSET Registry]

NoJob == [phase |-> "solve", asked |-> {}, want |-> {}, at |-> 1, version |-> None,
          found |-> None, read |-> None, quiet |-> TRUE, standing |-> {}]

NoResult == [end |-> "none", job |-> NoJob, tree |-> None]

Init ==
    /\ world \in Worlds
    /\ pc = "idle" /\ job = NoJob /\ result = NoResult /\ changes = 0

----------------------------------------------------------------------------
\* What a registry answers

\* Bug: any failure counts as absence.
AbsentOnAnyFailure(r, why) == why # "up"

\* A registry says that it has no such package; a public one also by denying it.
Absent(r, why) ==
    \/ why = "missing"
    \/ why = "denied" /\ world.auth[r] = "none" /\ ~world.strict

Serving(r) == {s \in Source : world.status[r][s] = "up"}

\* The index when it knows the package, else the tags of the first source that
\* answers, else the primary's error.
Listing(r) ==
    IF world.index[r] # None THEN [why |-> "up", versions |-> world.index[r]]
    ELSE IF Serving(r) # {} THEN [why |-> "up", versions |-> world.tags[r][Min(Serving(r))]]
    ELSE [why |-> world.status[r][1], versions |-> {}]

\* The sources from which a file or the tree of a version can be had.
Having(r, v) == {s \in Serving(r) : v \in world.tags[r][s]}

TreeAt(r, v) == [via |-> "registry", at |-> r, holds |-> world.holds[r][v], tag |-> v, version |-> v]
Redirected(r, v) ==
    LET holds == world.holds[r][v]
    IN [via |-> "registry", at |-> r, holds |-> holds,
        tag |-> IF holds = "pinned" THEN None ELSE v,
        version |-> IF holds \in Elsewhere THEN TargetVersion ELSE v]
DeclaredTree(d) ==
    [via |-> d, at |-> 0, holds |-> "package", tag |-> None, version |-> DeclaredVersion[d]]

\* The first of override, path and git that is declared.
Surgical ==
    IF "override" \in world.declared THEN "override"
    ELSE IF "path" \in world.declared THEN "path" ELSE "git"

\* The manifest of an override is not looked for in a clone.
Answers(d) ==
    \/ d = "path"
    \/ d = "git" /\ world.remote \in {"up", "clone"}
    \/ d = "override" /\ world.remote = "up"

\* The tree a found source yields now.
Obtainable(t) ==
    CASE t.via # "registry"     -> Answers(t.via)
      [] t.via = "registry" /\ t.holds # "package" -> world.target[t.at] = "up"
      [] OTHER                  -> Having(t.at, t.version) # {}

----------------------------------------------------------------------------
\* One resolution

Ask(question, j) == pc' = question /\ job' = j

End(end, tree) ==
    /\ pc' = "idle" /\ job' = NoJob
    /\ result' = [end |-> end, job |-> job, tree |-> tree]

Fail == End("failed", None)

Here == UNCHANGED <<world, changes>>
Going == UNCHANGED result /\ Here

\* Bug: the manifest is asked for without its version.
ManifestOfLatest(v) ==
    [job EXCEPT !.phase = "manifest", !.version = v, !.want = Version, !.at = 1]

\* With a version chosen, its manifest is asked for by that version alone.
ManifestOf(v) ==
    [job EXCEPT !.phase = "manifest", !.version = v, !.want = {v}, !.at = 1]

\* A walk has come to t: for the solver that is a version, for its manifest the
\* place to read, for the install the tree to fetch. The second walk for a
\* manifest must lead to the version that was solved.
Resolved(t) ==
    CASE job.phase = "solve"    -> /\ Ask("resolve", ManifestOf(t.version)) /\ Going
      [] job.phase = "manifest" -> /\ Ask("read", [job EXCEPT !.found = t]) /\ Going
      [] job.phase = "again"    -> IF t.version = job.version
                                   THEN Ask("read", [job EXCEPT !.found = t]) /\ Going
                                   ELSE Fail /\ Here
      [] job.phase = "install"  -> /\ Ask("fetch", [job EXCEPT !.found = t]) /\ Going

\* No registry has a version that fits: only the walk for a manifest is tried
\* again, for any version.
Nothing ==
    IF job.phase = "manifest"
    THEN Ask("resolve", [job EXCEPT !.phase = "again", !.want = Version, !.at = 1]) /\ Going
    ELSE Fail /\ Here

\* A declaration for the package answers instead of the registries; a solver that
\* wants all versions then gets the one.
Resolve ==
    /\ pc = "resolve"
    /\ IF world.declared = {} THEN Ask("consult", job) /\ Going
       ELSE IF job.phase = "list" THEN Ask("resolve", [job EXCEPT !.phase = "solve"]) /\ Going
       ELSE IF Answers(Surgical) THEN Resolved(DeclaredTree(Surgical))
       ELSE Fail /\ Here

\* The next registry, or the end of the walk: a listing without versions goes on
\* as a walk for the latest one.
NextRegistry ==
    IF job.at < Registries THEN Ask("consult", [job EXCEPT !.at = @ + 1]) /\ Going
    ELSE IF job.phase = "list"
    THEN Ask("consult", [job EXCEPT !.phase = "solve", !.want = Version, !.at = 1]) /\ Going
    ELSE Nothing

\* All versions, for a solver that enumerates them; it may settle for any of them.
List ==
    /\ pc = "consult" /\ job.phase = "list"
    /\ LET found == Listing(job.at)
       IN IF Absent(job.at, found.why) \/ (found.why = "up" /\ found.versions = {}) THEN NextRegistry
          ELSE IF found.why # "up" \/ found.versions \cap job.asked = {} THEN Fail /\ Here
          ELSE \E v \in found.versions \cap job.asked : Ask("resolve", ManifestOf(v)) /\ Going

\* The newest version of the first registry that has the package. A registry that
\* fails otherwise, or has no fitting version, ends the walk.
Consult ==
    /\ pc = "consult" /\ job.phase # "list"
    /\ LET found == Listing(job.at)
           fits  == found.versions \cap job.want
       IN IF Absent(job.at, found.why) THEN NextRegistry
          ELSE IF found.why # "up" THEN Fail /\ Here
          ELSE IF fits = {} THEN Nothing
          ELSE Ask("probe", [job EXCEPT !.found = TreeAt(job.at, Max(fits))]) /\ Going

\* The primary, and it alone, is asked whether the tag is a stub; when it refuses
\* single files, whoever has the tag is cloned.
Probe ==
    /\ pc = "probe"
    /\ LET r == job.at  v == job.found.version
           readable == 1 \in Serving(r) /\ Having(r, v) \cap (IF world.archive THEN {1} ELSE Source) # {}
       IN IF ~readable THEN Fail /\ Here
          ELSE IF world.holds[r][v] = "package" THEN Resolved(TreeAt(r, v))
          ELSE Ask("target", job) /\ Going

\* The target must be there, and no stub itself.
Target ==
    /\ pc = "target"
    /\ IF world.target[job.at] = "up" THEN Resolved(Redirected(job.at, job.found.version))
       ELSE Fail /\ Here

----------------------------------------------------------------------------
\* An install

\* The naive and SAT solvers ask for the best version of a constraint, resolvo
\* for all versions.
Begin ==
    /\ pc = "idle" /\ result = NoResult
    /\ \E phase \in {"solve", "list"}, asked \in (SUBSET Version) \ {{}} :
        Ask("resolve", [NoJob EXCEPT !.phase = phase, !.asked = asked, !.want = asked,
                                     !.standing = Standing(world.status)])
    /\ Going

\* For an overridden package the manifest is read from the registries: past those
\* whose primary has a stub at the tag, and not past any other failure. A stub that
\* only a mirror has makes none: the primary's failure counts.
RegistryCopy(v) ==
    LET stubs == {r \in Registry : world.holds[r][v] # "package" /\ 1 \in Having(r, v)}
        rest  == Registry \ stubs
    IN IF rest = {} \/ Having(Min(rest), v) = {} \/ world.holds[Min(rest)][v] # "package"
       THEN None ELSE TreeAt(Min(rest), v)

\* The manifest, from the place the walk came to.
Read ==
    /\ pc = "read"
    /\ LET copy == IF job.found.via = "override" THEN RegistryCopy(job.version)
                   ELSE IF Obtainable(job.found) THEN job.found ELSE None
       IN IF copy = None THEN Fail /\ Here
          ELSE /\ Ask("resolve", [job EXCEPT !.phase = "install", !.read = copy,
                                             !.want = {job.version}, !.at = 1])
               /\ Going

\* Bug: the tree is taken from the primary alone.
FetchAtPrimary ==
    /\ pc = "fetch"
    /\ IF Obtainable(job.found) /\ (job.found.at # 0 => 1 \in Having(job.found.at, job.found.version))
       THEN End("ok", job.found) ELSE Fail
    /\ Here

\* The tree, after a walk of its own.
Fetch ==
    /\ pc = "fetch"
    /\ IF Obtainable(job.found) THEN End("ok", job.found) ELSE Fail
    /\ Here

Install == Begin \/ Resolve \/ List \/ Consult \/ Probe \/ Target \/ Read \/ Fetch

----------------------------------------------------------------------------
\* The registries: a repository goes down, comes back, is deleted or closed; a
\* version is pushed, or reaches a mirror; the index catches up.

Turn(r) == \E s \in Source, now \in Status : world' = [world EXCEPT !.status[r][s] = now]
Push(r) == \E s \in Source, v \in Version : world' = [world EXCEPT !.tags[r][s] = @ \cup {v}]
Catch(r) == world.index[r] # None /\ world' = [world EXCEPT !.index[r] = world.tags[r][1]]

Change ==
    /\ changes < MaxChanges /\ pc # "idle"
    /\ \E r \in Registry : Turn(r) \/ Push(r) \/ Catch(r)
    /\ world' # world
    /\ changes' = changes + 1
    /\ job' = [job EXCEPT !.quiet = FALSE,
                          !.standing = @ \cap Standing(world'.status)]
    /\ UNCHANGED <<pc, result>>

Next == Install \/ Change

Spec == Init /\ [][Next]_vars

----------------------------------------------------------------------------
\* Properties

\* MultiRegistryResolver::resolve: a registry supplies the package only when every
\* registry before it was, at some moment of the install, without the repository.
\* One that is down, that rejects credentials or that has other versions is not
\* passed over, whatever mirrors, indexes and redirects say and however things
\* change.
NeverPassedOver ==
    result.end = "ok" /\ result.tree.via = "registry" =>
        \A q \in result.job.standing : q >= result.tree.at

\* resolve, fetch_manifest and fetch walk on their own: while the registries hold
\* still, the tree that is installed is the one whose manifest was solved. An
\* overridden package is left out: its manifest is read elsewhere.
ReadIsInstalled ==
    result.end = "ok" /\ result.job.quiet /\ result.tree.via # "override" =>
        result.tree = result.job.read

\* While the registries hold still, what the solver could read can be installed:
\* only a redirect may fail then whose target declares a version that the stub has
\* no tag of.
SolvedIsFetchable ==
    result.end = "failed" /\ result.job.quiet /\ result.job.phase = "install" =>
        result.job.read.holds \in Elsewhere

===============================================================================
