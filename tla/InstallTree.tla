------------------------------ MODULE InstallTree ------------------------------
(* One project under the package commands of `vibe` (crates/vibe-install,        *)
(* vibe-workspace, vibe-cli): the manifest vibe.toml, the lockfile vibe.lock, the *)
(* slots of vibedeps/ and the boot index. A command is a program of file          *)
(* operations that may fail or be killed between any two of them; the user edits  *)
(* the manifest between commands and while one waits for a confirmation.          *)
(*                                                                                *)
(* The packages and what planning may answer are those of Answers.                *)
EXTENDS Answers

CONSTANTS
    Registry,  \* the manifests of the published versions
    Hooked,    \* the packages that declare a pre-install hook
    Asked,     \* <<package, constraint>> that users write by hand or ask for
    Command,   \* the commands they run
    Failing    \* whether solvers, hooks and file operations may fail, and kills occur

Manifest == [needs : Require, drops : SUBSET Pkg, brings : SUBSET Pkg, when : SUBSET [dep : Pkg]]

ASSUME InstallAssumption ==
    /\ None \notin Pkg
    /\ Registry \in [Pkg -> [Version -> Manifest \cup {None}]]
    /\ Hooked \subseteq Pkg
    /\ Asked \subseteq Pkg \X SUBSET Version
    /\ \A a \in Asked : a[2] # {}
    /\ Command \subseteq {"sync", "add", "remove", "update", "reinstall", "force"}
    /\ Failing \in BOOLEAN

Slot == Pkg \X Version

Nothing == [p \in Pkg |-> {}]
Empty == [p \in Pkg |-> None]

Phase == {"idle", "confirm", "supersede", "place", "prune", "unslot", "undeclare", "boot", "record"}

VARIABLES
    requires,  \* [requires] of vibe.toml
    lock,      \* vibe.lock: the packages, and meta.root_dependencies
    slots,     \* "torn": copied or removed in part; "raw": copied, its hook has not run; "ready"
    boot,      \* the slots that the boot index names
    pc,
    job,       \* what the running command has read and decided
    cut,       \* history: a command was cut short, and the tree not rebuilt since
    scoped,    \* history: uninstall or a scoped update wrote the lock last
    gone,      \* history: packages that were uninstalled and not asked for since
    bootFor    \* history: the declared names that boot was computed for

vars == <<requires, lock, slots, boot, pc, job, cut, scoped, gone, bootFor>>

NoJob == [cmd |-> "none", pkg |-> None, toml |-> Nothing, roots |-> Nothing,
          graph |-> Empty, todo |-> {}, at |-> None]

\* A project after `vibe init`.
Init ==
    /\ requires = Nothing
    /\ lock = [packages |-> Empty, roots |-> Nothing]
    /\ slots = [s \in Slot |-> "absent"]
    /\ boot = {}
    /\ pc = "idle" /\ job = NoJob
    /\ cut = FALSE /\ scoped = FALSE /\ gone = {} /\ bootFor = {}

----------------------------------------------------------------------------
\* Resolutions

Pairs(g) == {<<p, g[p]>> : p \in In(g)}
Present == {s \in Slot : slots[s] # "absent"}

\* The packages of g that the roots lead to over dependencies in g.
Reach(roots, g) == LedTo(Registry, roots, g)

\* What planning may come to for each root set, and an answer to a single question.
PlansFor == [req \in Require |-> Plans(Registry, req)]
AnswersFor == [req \in Require |->
    {Answer(Registry, c) : c \in {c \in Choices(Registry, Declared(req)) : Meets(c, req)}}]

\* Bug: a root that is no longer declared goes unnoticed.
FreshIgnoringRoots(req) ==
    /\ Meets(lock.packages, req)
    /\ Pairs(lock.packages) \subseteq Present

\* freshness::check: the lock can be applied without solving again.
Fresh(req) ==
    /\ Meets(lock.packages, req)
    /\ Declared(req) = Declared(lock.roots)
    /\ Pairs(lock.packages) \subseteq Present

\* Entries of `new` go over those of `old`.
Merged(old, new) == [p \in Pkg |-> IF new[p] # {} THEN new[p] ELSE old[p]]

\* What a requested root becomes in the manifest: as typed, or the caret of the
\* resolved version where no version was given. (--exact is to ask for {version}.)
Finalised(asked, version) ==
    IF asked = Version THEN {v \in Version : v >= version} ELSE asked

----------------------------------------------------------------------------
\* The beginning of each command, up to its confirmation

Starts(cmd) == pc = "idle" /\ cmd \in Command

\* vibe install, and vibe update --all. An empty manifest is seeded from the
\* lockfile's roots, and saved, before anything else; a fresh lock needs no
\* solving and no confirmation. Planning and fetching may fail.
PlanSync ==
    /\ Starts("sync")
    /\ LET declared == IF Declared(requires) = {} THEN lock.roots ELSE requires
           job0 == [NoJob EXCEPT !.cmd = "sync", !.roots = declared]
       IN /\ Declared(declared) # {}
          /\ requires' = declared
          /\ IF Fresh(declared)
             THEN pc' = "boot" /\ job' = [job0 EXCEPT !.cmd = "fresh"]
             ELSE \/ UNCHANGED <<pc, job>>
                  \/ \E g \in PlansFor[declared] :
                        pc' = "confirm" /\ job' = [job0 EXCEPT !.graph = g]
    /\ UNCHANGED <<lock, slots, boot, cut, scoped, gone, bootFor>>

\* vibe install <pkgref>: what was asked for is the whole root set, and ends the
\* command, before it changes anything, when it is left out as obsoleted.
PlanAdd ==
    /\ Starts("add")
    /\ \E a \in Asked : \E g \in PlansFor[[Nothing EXCEPT ![a[1]] = a[2]]] :
        /\ g[a[1]] # None
        /\ job' = [NoJob EXCEPT !.cmd = "add", !.pkg = a[1], !.toml = requires, !.graph = g,
                                !.roots = [Nothing EXCEPT ![a[1]] = Finalised(a[2], g[a[1]])]]
    /\ pc' = "confirm"
    /\ UNCHANGED <<requires, lock, slots, boot, cut, scoped, gone, bootFor>>

\* vibe update <pkgref>: solved once for this package alone, under the manifest's
\* constraint or else the one in the lockfile; conditions are not looked at.
PlanUpdate ==
    /\ Starts("update")
    /\ \E p \in In(lock.packages) :
        LET known == Merged(lock.roots, requires)[p]
            asked == [Nothing EXCEPT ![p] = IF known = {} THEN Version ELSE known]
        IN \E g \in AnswersFor[asked] :
            job' = [NoJob EXCEPT !.cmd = "update", !.toml = requires, !.graph = g]
    /\ pc' = "confirm"
    /\ UNCHANGED <<requires, lock, slots, boot, cut, scoped, gone, bootFor>>

\* vibe uninstall: any package in the lockfile.
PlanRemove ==
    /\ Starts("remove")
    /\ \E p \in In(lock.packages) :
        job' = [NoJob EXCEPT !.cmd = "remove", !.pkg = p, !.toml = requires]
    /\ pc' = "confirm"
    /\ UNCHANGED <<requires, lock, slots, boot, cut, scoped, gone, bootFor>>

\* vibe reinstall, which needs every locked slot, and vibe reinstall --force.
PlanReinstall ==
    /\ \/ /\ Starts("reinstall") /\ Pairs(lock.packages) \subseteq Present
          /\ job' = [NoJob EXCEPT !.cmd = "reinstall", !.toml = requires]
       \/ /\ Starts("force")
          /\ job' = [NoJob EXCEPT !.cmd = "force", !.toml = requires, !.graph = lock.packages]
    /\ pc' = "confirm"
    /\ UNCHANGED <<requires, lock, slots, boot, cut, scoped, gone, bootFor>>

Plan == PlanSync \/ PlanAdd \/ PlanUpdate \/ PlanRemove \/ PlanReinstall

\* The slots a materialisation has to write: only the missing ones, unless the
\* command overwrites them all (SlotIntegrity::Verify).
ToPlace ==
    {p \in In(job.graph) : job.cmd \in {"update", "force"} \/ slots[<<p, job.graph[p]>>] = "absent"}

\* The user agrees. An explicit install writes the manifest first, from the copy
\* it read for its plan, if its root is new there.
Approve ==
    /\ pc = "confirm"
    /\ LET merged == Merged(job.toml, job.roots)
       IN requires' = IF job.cmd = "add" /\ merged # job.toml THEN merged ELSE requires
    /\ pc' = CASE job.cmd \in {"sync", "add", "force"} -> "place"
               [] job.cmd = "update"                   -> "supersede"
               [] job.cmd = "remove"                   -> "unslot"
               [] job.cmd = "reinstall"                -> "boot"
    /\ job' = [job EXCEPT !.todo = ToPlace]
    /\ gone' = IF job.cmd = "add" THEN gone \ {job.pkg} ELSE gone
    /\ UNCHANGED <<lock, slots, boot, cut, scoped, bootFor>>

----------------------------------------------------------------------------
\* vibedeps/

Superseded ==
    (Pairs(lock.packages) \cap (In(job.graph) \X Version) \cap Present) \ Pairs(job.graph)

Stale == Present \ Pairs(job.graph)

\* update removes the slots of the versions it replaces.
Supersede ==
    /\ pc = "supersede"
    /\ \/ /\ \E s \in Superseded : slots' = [slots EXCEPT ![s] = "absent"]
          /\ UNCHANGED pc
       \/ Superseded = {} /\ pc' = "place" /\ UNCHANGED slots
    /\ UNCHANGED <<requires, lock, boot, job, cut, scoped, gone, bootFor>>

At == <<job.at, job.graph[job.at]>>

\* materialise_with clears the slot, creates it ...
Reset ==
    /\ pc = "place" /\ job.at = None
    /\ \E p \in job.todo :
        /\ slots' = [slots EXCEPT ![<<p, job.graph[p]>>] = "torn"]
        /\ job' = [job EXCEPT !.at = p]
    /\ UNCHANGED <<requires, lock, boot, pc, cut, scoped, gone, bootFor>>

\* ... and copies the content. reinstall --force runs no hooks.
Fill ==
    /\ pc = "place" /\ job.at # None /\ slots[At] = "torn"
    /\ slots' = [slots EXCEPT ![At] = IF job.at \in Hooked THEN "raw" ELSE "ready"]
    /\ job' = IF job.at \in Hooked /\ job.cmd # "force" THEN job
              ELSE [job EXCEPT !.todo = @ \ {job.at}, !.at = None]
    /\ UNCHANGED <<requires, lock, boot, pc, cut, scoped, gone, bootFor>>

\* The pre-install hook; when it fails its slot goes, if it can be removed, and the
\* command ends.
RunHook ==
    /\ pc = "place" /\ job.at # None /\ slots[At] = "raw"
    /\ \/ /\ slots' = [slots EXCEPT ![At] = "ready"]
          /\ job' = [job EXCEPT !.todo = @ \ {job.at}, !.at = None]
          /\ UNCHANGED <<pc, cut>>
       \/ /\ Failing /\ \E rest \in {"absent", "torn", "raw"} : slots' = [slots EXCEPT ![At] = rest]
          /\ pc' = "idle" /\ job' = NoJob /\ cut' = TRUE
    /\ UNCHANGED <<requires, lock, boot, scoped, gone, bootFor>>

Placed ==
    /\ pc = "place" /\ job.todo = {}
    /\ pc' = IF job.cmd = "update" THEN "boot" ELSE "prune"
    /\ UNCHANGED <<requires, lock, slots, boot, job, cut, scoped, gone, bootFor>>

\* Bug: only other versions of the packages just placed are pruned.
PruneVersions ==
    /\ pc = "prune"
    /\ LET versions == Stale \cap (In(job.graph) \X Version)
       IN \/ /\ \E s \in versions : slots' = [slots EXCEPT ![s] = "absent"]
             /\ UNCHANGED pc
          \/ versions = {} /\ pc' = "boot" /\ UNCHANGED slots
    /\ UNCHANGED <<requires, lock, boot, job, cut, scoped, gone, bootFor>>

\* prune_stale_slots: every slot that is not of this resolution.
Prune ==
    /\ pc = "prune"
    /\ \/ /\ \E s \in Stale : slots' = [slots EXCEPT ![s] = "absent"]
          /\ UNCHANGED pc
       \/ Stale = {} /\ pc' = "boot" /\ UNCHANGED slots
    /\ UNCHANGED <<requires, lock, boot, job, cut, scoped, gone, bootFor>>

Own == <<job.pkg, lock.packages[job.pkg]>>

\* Bug: the slot stays until the next install.
KeepSlot ==
    /\ pc = "unslot"
    /\ pc' = "undeclare"
    /\ UNCHANGED <<requires, lock, slots, boot, job, cut, scoped, gone, bootFor>>

\* uninstall: the slot of the locked version ...
RemoveSlot ==
    /\ pc = "unslot"
    /\ slots' = [slots EXCEPT ![Own] = "absent"]
    /\ pc' = "undeclare"
    /\ UNCHANGED <<requires, lock, boot, job, cut, scoped, gone, bootFor>>

\* ... and the declaration, if the manifest it has read had one.
Undeclare ==
    /\ pc = "undeclare"
    /\ requires' = IF job.toml[job.pkg] = {} THEN requires ELSE [job.toml EXCEPT ![job.pkg] = {}]
    /\ pc' = "boot"
    /\ UNCHANGED <<lock, slots, boot, job, cut, scoped, gone, bootFor>>

----------------------------------------------------------------------------
\* Boot index and lockfile

\* What read_materialised finds in the tree: one version of each package that has
\* slots, any of them if there are several; a torn slot may lack its manifest.
Found ==
    {g \in Graph :
        /\ Pairs(g) \subseteq Present
        /\ \A s \in Present : slots[s] # "torn" => g[s[1]] # None}

\* The manifest that a boot regeneration starts from: install discovers the
\* workspace again, the other commands have read it at their start.
Base == IF job.cmd \in {"fresh", "sync", "add"} THEN requires ELSE job.toml

\* The resolution at hand or, for the commands that have none, what is in the tree.
Resolution == IF job.cmd \in {"sync", "add", "force"} THEN {job.graph} ELSE Found

\* topo_order: of any of these packages one needs none of the others. No solver
\* looks for cycles.
Orderable(names, g) ==
    \A S \in (SUBSET names) \ {{}} : \E p \in S : Declared(Registry[p][g[p]].needs) \cap S = {}

\* The boot index is the closure of the manifest in the resolution, a dependency
\* before its dependents.
WriteBoot ==
    /\ pc = "boot"
    /\ \E g \in Resolution :
        LET names == Reach(Declared(Base), g)
        IN Orderable(names, g) /\ boot' = {<<p, g[p]>> : p \in names}
    /\ bootFor' = Declared(Base) \ (IF job.cmd = "remove" THEN {job.pkg} ELSE {})
    /\ IF job.cmd \in {"fresh", "reinstall", "force"}
       THEN pc' = "idle" /\ job' = NoJob /\ cut' = (cut /\ job.cmd # "force")
       ELSE pc' = "record" /\ UNCHANGED <<job, cut>>
    /\ UNCHANGED <<requires, lock, slots, scoped, gone>>

\* install replaces the packages of the lockfile as a whole and adds its roots.
RecordInstall ==
    /\ job.cmd \in {"sync", "add"}
    /\ lock' = [packages |-> job.graph, roots |-> Merged(lock.roots, job.roots)]
    /\ cut' = FALSE /\ scoped' = FALSE /\ UNCHANGED gone

\* update replaces the entries of what it solved for.
RecordUpdate ==
    /\ job.cmd = "update"
    /\ lock' = [lock EXCEPT !.packages =
                    [p \in Pkg |-> IF job.graph[p] # None THEN job.graph[p] ELSE @[p]]]
    /\ scoped' = TRUE /\ UNCHANGED <<cut, gone>>

\* Bug: the package stays among the roots of the lockfile.
RecordRemoveKeepingRoot ==
    /\ job.cmd = "remove"
    /\ lock' = [lock EXCEPT !.packages[job.pkg] = None]
    /\ scoped' = TRUE
    /\ gone' = gone \cup ({job.pkg} \ (Declared(requires) \ Declared(job.toml)))
    /\ UNCHANGED cut

\* uninstall drops the entry and the root. It counts as gone unless the user has
\* put it into the manifest in the meantime.
RecordRemove ==
    /\ job.cmd = "remove"
    /\ lock' = [lock EXCEPT !.packages[job.pkg] = None, !.roots[job.pkg] = {}]
    /\ scoped' = TRUE
    /\ gone' = gone \cup ({job.pkg} \ (Declared(requires) \ Declared(job.toml)))
    /\ UNCHANGED cut

WriteLock ==
    /\ pc = "record"
    /\ RecordInstall \/ RecordUpdate \/ RecordRemove
    /\ pc' = "idle" /\ job' = NoJob
    /\ UNCHANGED <<requires, slots, boot, bootFor>>

Step ==
    \/ Approve \/ Supersede \/ Reset \/ Fill \/ RunHook \/ Placed \/ Prune
    \/ RemoveSlot \/ Undeclare \/ WriteBoot \/ WriteLock

----------------------------------------------------------------------------
\* The user and the operating system

\* The user edits vibe.toml.
Edit ==
    /\ pc \in {"idle", "confirm"}
    /\ \E p \in Pkg : \E c \in {a[2] : a \in {b \in Asked : b[1] = p}} \cup {{}} :
        /\ requires' = [requires EXCEPT ![p] = c]
        /\ gone' = IF c = {} THEN gone ELSE gone \ {p}
    /\ UNCHANGED <<lock, slots, boot, pc, job, cut, scoped, bootFor>>

\* The slots that the command is about to remove.
Removing ==
    CASE pc = "supersede" -> Superseded
      [] pc = "prune"     -> Stale
      [] pc = "unslot"    -> {Own} \cap Present
      [] OTHER            -> {}

\* The confirmation is declined, the packages have no order to boot in, a file
\* operation fails, or the process is killed; a slot that was being removed may be
\* left in part.
Abort ==
    /\ \/ pc = "confirm"
       \/ pc = "boot" /\ \E g \in Resolution : ~Orderable(Reach(Declared(Base), g), g)
       \/ pc # "idle" /\ Failing
    /\ \/ UNCHANGED slots
       \/ \E s \in Removing : slots' = [slots EXCEPT ![s] = "torn"]
    /\ pc' = "idle" /\ job' = NoJob /\ cut' = (cut \/ pc # "confirm")
    /\ UNCHANGED <<requires, lock, boot, scoped, gone, bootFor>>

Next == Plan \/ Step \/ Edit \/ Abort

Spec == Init /\ [][Next]_vars

----------------------------------------------------------------------------
\* Properties

\* The shape of the files and of what the running command holds: what it is
\* placing is still to be done and belongs to its resolution.
TypeOK ==
    /\ requires \in Require
    /\ lock \in [packages : Graph, roots : Require]
    /\ slots \in [Slot -> {"absent", "torn", "raw", "ready"}]
    /\ boot \subseteq Slot
    /\ pc \in Phase
    /\ job \in [cmd : Command \cup {"none", "fresh"}, pkg : Pkg \cup {None}, toml : Require,
                roots : Require, graph : Graph, todo : SUBSET Pkg, at : Pkg \cup {None}]
    /\ job.at \in job.todo \cup {None} /\ job.todo \subseteq In(job.graph)
    /\ {cut, scoped} \subseteq BOOLEAN
    /\ gone \subseteq Pkg /\ bootFor \subseteq Pkg

\* install.rs, update.rs, uninstall.rs and reinstall.rs together: between commands
\* the tree holds exactly the locked packages. A command that was cut short may
\* leave it otherwise, until an install that solves or a forced reinstall has run.
TreeMatchesLock == pc = "idle" /\ ~cut => Present = Pairs(lock.packages)

\* bootgen.rs: the boot index names what the declared packages lead to in the
\* lockfile, whichever command wrote it and whether it had a resolution at hand or
\* read the tree, as long as no slot is torn.
BootMatchesLock ==
    pc = "idle" /\ ~cut /\ bootFor = Declared(requires) /\ (\A s \in Slot : slots[s] # "torn") =>
        boot = {<<p, lock.packages[p]>> : p \in Reach(bootFor, lock.packages)}

\* uninstall.rs: an uninstalled package is not declared again until somebody asks
\* for it; neither a retained root nor a killed command brings it back.
UninstalledStaysGone == gone \cap Declared(requires) = {}

\* The lock is what planning for the manifest could have given.
Resolved == lock.packages \in PlansFor[requires]

\* freshness.rs: a lock that is taken as fresh is a plan for the manifest, as long as
\* only installs have written it, through edits and aborted commands: each package in
\* it with all that its answer had, and all of it one answer where no package has
\* conditions. The check itself does not look at transitive packages.
FreshIsResolved == pc = "idle" /\ ~scoped /\ Fresh(requires) /\ Declared(requires) # {} => Resolved

===============================================================================
