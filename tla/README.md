# vibevm: formal models

TLA+ models of [vibevm](../src/README.md), a project manager for specification-driven
development: a CLI (`vibe`), a package registry over git, an index server (`vibe-index`)
and a version manager for the tool itself (`vibe self`). The models are written from the
source; documents and comments are used to learn what is promised.

`PROJECT.json` lists the components, the runs, the source lines each definition stands
for, the hazards of the code, the disagreement a run shows, and the theorems. To repeat a
run: `tlc -config <run>.cfg <module>.tla`; to check the proofs about a module:
`tlapm <module>_proofs.tla`. The proofs about `DepSolver` and `ConditionalDeps` are in
`Planning_proofs.tla`; `VvmCatalog`, `GitHost` and `FixpointModel` have none of their own.

| module | about | composed with |
| --- | --- | --- |
| `VvmStore`, `VvmCatalog` | version manager, and what it promises | refines `VvmCatalog` |
| `IndexStore` | index server and its data directory | |
| `OrgScan` | incremental and full scans of an organisation | its index is `IndexStore`'s, files and all taken as one |
| `InstallTree` | manifest, lockfile, slots and boot index of a project | takes any plan of `Answers` |
| `DepSolver` | the solvers | `naive` and `sat` against the clauses of resolvo |
| `ConditionalDeps`, `FixpointModel` | planning with conditional dependencies | takes any answer of `Answers`, as `DepSolver` gives them, and ends with one of its plans; follows `FixpointModel` |
| `Answers` | what a solver may answer, and what planning may put together | extended by `ConditionalDeps` and `InstallTree` |
| `Packages` | packages and versions | extended by `Answers` and `DepSolver` |
| `RegistryWalk` | which registry a package comes from | hands a source to `PackageFetch` |
| `PackageFetch` | the tree of that package, by the shared clone | |
| `Publish`, `GitHost` | the two publishing commands over a git host | `Publish` extends `GitHost` |

`MC<module>` and `MC<module>_<run>.cfg` instantiate a module for TLC.

## 1. Inventory

Every CLI command is a single-threaded process. Concurrency comes from several processes
on the same files (two terminals, a CI job beside a user, an editor that starts commands)
and from the one server, `vibe-index serve`, which handles requests on a tokio runtime.
Nothing runs over a database: state is files, replaced one at a time. So the hard
behaviours of the system are interleavings of file operations, kills between two of them,
failures of one of several, and reads that are stale when they are used.

### Version manager (`crates/vibe-cli/src/commands/vvm`)

* State: `state.toml` (instance counter and records), `versions/<kind>/<id>/<n>/`
  directories, one `.staging` directory per id, the `current` pointer, the marker
  `.install.lock`, source mirrors.
* Operations: install, use, remove (one id or all, forced or not), gc (`--prune-others`).
* Interaction: all commands read and rewrite the same files. Only install takes the lock.
* Hard: lost updates of `state.toml`, shared temporary names, kills during an install,
  deletions decided on an inventory read long before, directories in use.
* Correct when: a published instance is never changed, records and pointer name complete
  instances, installs exclude each other, the pointer never dangles.

### Index server and data directory (`crates/vibe-index/src/{server,index,cli,lock.rs}`)

* State: the index in memory under a read-write lock; on disk `by-name/*.json`,
  `primary.jsonl`, `by-cap/`, `by-purl/`, the manifest `repomd.json`, and
  `state/{server.lock,checkpoint.json}`.
* Operations: POST and DELETE routes, queries, file downloads; `serve`, `stop`, `init`,
  `add`, `remove`, `reindex`, `verify`.
* Interaction: handlers change the memory and rewrite all files under the write lock;
  downloads read the files without it; the commands rewrite the files from other
  processes and look for the server by its pid file.
* Hard: a rewrite that is cut short, a mutation that fails to persist, starts and stops
  that overlap, commands beside a server.
* Correct when: what was answered with success survives restarts, a verified directory is
  whole, one process writes at a time.

### Organisation scanner (`crates/vibe-index/src/scanner`, `index/checkpoint.rs`)

* State: clones of the organisation's repositories and a checkpoint of the last scan.
* Operations: full and incremental scans, from local clones or from GitHub.
* Hard: a tag that fails to build is recorded as seen and never tried again; clones that
  are not refreshed; a kill between writing the index and the checkpoint.
* Correct when: an incremental scan ends with what a full scan would find.

### Rate limiter (`crates/vibe-index/src/server/rate_limit.rs`)

* State: token buckets by client, bounded in number. Operations: refill, consume, evict.
* Hard: the arithmetic of refills, eviction at the limit forgetting a drained bucket.
* Correct when: no client gets more than its quota in a window.

### Install pipeline and package commands (`crates/vibe-install`, `crates/vibe-workspace/src/{install,vibedeps,freshness,hooks}.rs`, `crates/vibe-cli/src/commands`)

* State: `vibe.toml`, `vibe.lock`, the slots of `vibedeps/`, the boot artifacts.
* Operations: plan (resolve, fetch, expand conditional dependencies), apply (merge roots,
  materialise, prune, write lock and manifest, run hooks), the freshness short-cut;
  scoped update, uninstall and reinstall edit the same four things in orders of their own.
* Hard: a kill or an error between the writes; a slot copied half that later installs
  take for whole; a lockfile that names slots not there.
* Correct when: after a successful install the tree is what the lockfile says, and a
  failed one can be repeated.

### Dependency resolution (`crates/vibe-resolver`)

* State: none across calls; naive depth-first, backtracking and resolvo solvers, feature
  expansion, activation of subskills, the fixpoint over conditional dependencies.
* Hard: order dependence, missed solutions, loops that do not end.
* Correct when: a result satisfies all constraints, and none is missed where one exists
  (for the complete solvers); the fixpoint ends and does not depend on order.

### Registries (`crates/vibe-registry`)

* State: clones under `~/.vibe/registries`, shared by all processes; the search cache.
* Operations: the priority walk with mirrors, overrides, redirects and path or git
  sources, three times for one package (version, manifest, tree); clone or update; copy into
  the project and comparison with the pinned content hash; vendoring; search.
* Hard: which failures fall through to the next registry and which stop; redirect chains
  and loops; two processes that update one clone; mirrors with other content.
* Correct when: a package comes from the first registry that has it, and its content is
  the one the lockfile names.

### Publishing (`crates/vibe-publish`, `crates/vibe-workspace/src/publish.rs`)

* State: a remote repository, its tags, the index server.
* Operations: create the repository, commit, push, tag, post to the index; mirror tags to
  redirect stubs; publish a workspace's members one after the other.
* Hard: a failure between two of these, and the retry; tags that exist with other content.
* Correct when: a published version never changes and a retry ends in the same state.

### Others

The MCP server (`crates/vibe-mcp`) answers one request at a time over stdio and edits
agents' configuration files. `vibe-core` holds manifests, the lockfile, package references
and the content hash. `vibe-check`, `specmap-core`, `conform-core`, `specmark` and `xtask`
are read-only checkers and repository tooling. `vibe-wire` is generated, `vibe-graph` and
`vibe-llm` are empty.

## 2. Plan

In the order of what can be lost when the code is wrong:

1. `VvmStore` with the abstract `VvmCatalog`, and its proofs. Done.
2. `IndexStore`: server, files, commands, and its proofs. Done.
3. `InstallTree`: manifest, lockfile, materialisation tree and boot index under all
   package commands, and its proofs. Done for one command at a time.
4. `OrgScan`: incremental and full scans against what a full scan would find, with kills
   and a changing organisation. Done.
5. `Publish` over `GitHost`: repository, main, tag and index entry with lost replies, kills
   and several publishers. Done; redirect stubs are left.
6. `PackageFetch`: two projects on one clone. `RegistryWalk`: the walk with its failure
   classes, mirrors and redirects. Done.
7. `DepSolver`: naive and sat against the clauses of resolvo. `ConditionalDeps`: the loop
   over conditional dependencies, which follows the repository's own model of it. Done.
8. Proofs about 4 to 7, the refinement of `VvmCatalog`, and what `IndexStore` promises with
   one server, that the solvers answer what the planning reckons with, and that planning ends
   with what the install commands reckon with. Done.
9. Two commands at once on one project; the rate limiter; the MCP session and the upsert
   into agents' configuration files.

## 3. VvmStore

`VvmStore.tla` models the processes of `vibe self` as programs of atomic file operations.

| TLA+ | code |
| --- | --- |
| `inventory`, `inventoryTmp` | `state.toml`, `state.toml.tmp` |
| `dirs` | the instance directories: a build output, partly deleted (`Gutted`), or `Absent` |
| `staging` | `.staging` of each version id |
| `current`, `currentTmp` | the pointer file and its temporary file |
| `lock` | `.install.lock` |
| `pc`, `job` | where each process is in its command and what it has read |
| `published` | history: instances that were ever put in place |

Each action is one handler or the part of it between two file operations:
`StartInstall`, `BuildAndCompare`, `Alloc`, `Stage`, `ClearTarget`, `Publish`, `Record`,
then `FlipWrite` and `FlipSwap`; `WriteTmp` and `SwapTmp` are `save_state`, used by every
command that edits the inventory. `StartRemove`, `NextId`, `Sweep` and `Forget` are remove;
`StartPrune`, `Sweep` and `Forget` are gc. `Crash` kills a process between any two steps
and `RemoveStaleLock` is the user who follows the error message about a stale lock.

Abstractions: a build output is a value; two directories are equal when their manifests
are. The inventory's list of records is a set. A write of a temporary file is one step. The
reads of the inventory at the start of a remove or a prune are one step together with the
choice of what to delete; the confirmation and the deletions come later, with everything
the other processes do in between. Shims and environment files are left out.

`VvmCatalog.tla` is what the store promises: an instance appears whole and once, its number
is never used again, only an instance that is there is recorded, the pointer moves between
recorded instances, what is active is not collected, and a record goes after its directory.

The run `MCVvmStore_commands` has two processes and all four commands. Installs and switches
overlap and are killed at any step; removals and gc run while no other command does and
are not killed (`OrderlyNext` of `MCVvmStore`), not forced, and meet no busy directory. That
is the largest part of the behaviours for which the refinement `CatalogSpec` holds, and
`CurrentIsUsable` and `RecordsMatchDisk` need it too except for the busy directories:
removals take no lock and act on an inventory read long before, so beside an install they
roll the counter back and delete what has become active (see the hazards at `store.rs:214`
and `remove.rs:191`). The proofs have the same conditions as hypotheses.
`InstallersExclude` and `NamedWasPublished` hold without any of them, which the proofs
show. `CommandsEnd` holds under weak fairness of each process's steps: a running command is
a program the operating system schedules, so it keeps taking steps; nobody is obliged to
start one, to kill one or to clean up a lock.

Bounds: two processes are enough for every pairwise overlap, and the properties relate
pairs. Two ids tell "of this id" from "of any id". Three numbers let an install follow a
killed one and another one. With one build output an install finds what it built either
there already or not, and `--force` installs it again under a new number. `MaxNumber` bounds how many
numbers are handed out; an install that finds no number left does not start.

## 4. IndexStore

`IndexStore.tla` models servers and commands over one data directory.

| TLA+ | code |
| --- | --- |
| `byName`, `primary`, `repomd` | `by-name/*.json`, `primary.jsonl`, `repomd.json` |
| `lockFile` | `state/server.lock`, with the step between creation and pid |
| `ram` | the `Index` of a server or of a command |
| `touched`, `left`, `count` | the progress of a `write_to` |
| `draining` | a server after Ctrl-C that still finishes a handler |
| `acked`, `unsure` | history: entries as acknowledged, and entries whose last mutation failed or was cut short |

`Handle` takes the write lock and changes the memory; `Clear`, `WritePrimary`, `WriteNames`
and `WriteManifest` are the file operations of `write_to`, and `Fail` an error of any of
them. `ServeLoad`, `ServeLock`, `ServePid`, `Stop` and `Kill` are the life of a server,
`CliCheck`, `CliAdd`, `CliRemove` and `Reindex` the commands. The write lock shows as the
server's program counter: while it is in `write_to` it handles no other mutation.

Abstractions: an entry is (package, version); its other fields follow it. A hash stands for
the content. The files by-cap and by-purl are written and cleared as by-name is and never
read back. What a scan finds is any set of entries. Tokens, `--read-only` and the registry
check are static and only turn requests away.

Runs (module `MCIndexStore`):

* `server`: nothing acknowledged is lost over clean stops, even in the middle of a rewrite,
  and restarts (`AckedSurvives`, `AckedOnDisk`); three packages, two of which share a name.
  The proofs allow kills as well, as long as they do not fall into a rewrite.
* `crash`: with failing operations and kills, `ManifestSeals` and `VerifyCatchesTorn` hold:
  the damage a cut-short rewrite does is always visible to `vibe-index verify`. `WritesEnd`
  holds under weak fairness of the file operations of `write_to`, which has no await in it
  and so runs on once begun; that an operation fails is never required.
* `starts`: two servers and a process that adds, removes and reindexes, failures, kills,
  stale locks: `ServersExclude`.
* `tornRestart` is a counterexample (see Findings).

Bounds: mutations are independent up to the by-name file they touch, so two packages that
share one and a third that does not cover the cases; one version each, since a version is
an entry like any other. Two servers and one command cover the overlaps of two processes.

## 5. InstallTree

`InstallTree.tla` models one project, in which one command runs at a time while the user
edits the manifest before it or at its prompt.

| TLA+ | code |
| --- | --- |
| `requires` | `[requires]` of `vibe.toml`: for each package the versions it accepts, {} where undeclared |
| `lock.packages`, `lock.roots` | the entries of `vibe.lock` and `meta.root_dependencies` |
| `slots` | `vibedeps/<package>/<version>/`: absent, torn (in part), raw (hook not run), ready |
| `boot` | the slots that the generated boot index names |
| `pc`, `job` | how far the running command is, and what it has read and decided |
| `cut`, `scoped`, `gone`, `bootFor` | history that the properties need |

`PlanSync` is `vibe install` without a package (also `update --all`): the migration of an
empty manifest, the freshness check, the planning. `PlanAdd`,
`PlanUpdate`, `PlanRemove` and `PlanReinstall` begin the other commands, and `Approve` is
what follows the prompt, where an explicit install writes the manifest. `Supersede`,
`Reset`, `Fill`, `RunHook`, `Placed`, `Prune`, `RemoveSlot` and `Undeclare` are the file
operations; `WriteBoot` and `WriteLock` come last, in this order, in every command that
writes a lockfile. Boot entries need an order (`Orderable`); no solver rejects a dependency
cycle, and one ends the command there, after manifest and tree were changed. (The comment
at `boot.rs:183`, that a resolution is acyclic, does not hold.) `Abort` is that, a declined
prompt, an error or a kill.

Abstractions: planning may come to any of the plans that `Answers` allows for the declared
packages (`PlansFor`, section 11), and a scoped update, which solves once, to any answer
(`AnswersFor`), so the results hold for each of the solvers. Such a plan may lack a package that
another one obsoletes, even a root or one that is needed, and may hold packages that only a
condition asked for, at versions of differing answers. Held pins, features and languages only
choose among the plans. An explicit install whose root was obsoleted fails before it
writes anything (`RootNotFetched`). A package's slot name is its own. A pre-install hook either succeeds or
fails. Left out: in-place packages, git, path and capability requirements (which only make
the freshness check say no), several workspace nodes, post-install hooks, hook consent,
the bands and link modes of boot entries, the user setting that re-copies present slots,
and two commands at once.

Run `MCInstallTree_commands`: an application that needs either version of a library, whose
newer version obsoletes the application and has a condition that asks for it again; users ask
for the application, or for version 1 of the library. That is the smallest instance with a
transitive package, a choice of versions, a version bump, a downgrade, a root that is also
somebody's dependency, a lock without a package that was obsoleted, and one with a package
beside the version that obsoletes it; it has no dependency cycle, which the proofs allow. All
commands in any order, edits, declined prompts, failing hooks and solvers, aborts
everywhere: 5.9 million states, so a larger instance is left to the proofs. `TreeMatchesLock`, `BootMatchesLock`, `UninstalledStaysGone` and
`FreshIsResolved` hold.

How to read the conditions: `cut` says that a command was cut short and that neither an
install that solves nor a forced reinstall has run since. A fresh install does not repair
the tree and leaves `cut` as it is. `scoped` says that a scoped update or an uninstall was
the last to write the lockfile; they do not look at what other packages need, so a lock
they wrote may be taken as fresh and be none of the plans. `FreshIsResolved` asks for no more
than that the lock is a plan for what is declared now: that it lacks nothing that is needed
does not hold (hazard at `lib.rs:512` of the resolver). A declared package that
was obsoleted is not in the lock, so the check never takes that lock as fresh. `BootMatchesLock` leaves out trees
with a torn slot: such a slot may lack its manifest and is then skipped by the commands that
read the tree.

## 6. OrgScan

`OrgScan.tla` models `vibe-index reindex` over the repositories of an organisation.

| TLA+ | code |
| --- | --- |
| `org`, `past` | the repositories at the host: head and tags; history: all they ever were |
| `clones`, `source` | the local clones, and whether they are a mirror (`--from-clones`), a scratch directory or a kept cache (`--from-github`) |
| `index` | the entries of the index |
| `checkpoint` | `state/checkpoint.json`: head and tag names of each repository |
| `job` | the progress of a scan, and its report |
| `doubt` | history: repositories whose entries a fault may have spoilt |

`Begin` loads index and checkpoint, `Fetch` clones (a directory that exists is left alone),
`ListTags`, `Compare` and `Build` walk a repository with one git command each, `Kept` is the
carry-over of an incremental scan, `Write` and `Save` replace index and checkpoint one after
the other. `Abort` is an error or a kill, also in the middle of a clone or of the rewrite.
Pushes, moved and deleted tags, deleted repositories and refreshes of the mirror happen in
between.

Abstractions: a repository is one package; an entry is (repository, tag, tree), the rest of
it follows from the tree. That includes `resolved_commit`, which git is asked for once more
after the checkout: a tag that moves in between gives an entry the commit of another tree. A rewrite that is cut short leaves the entries of any of the
packages. How the host's API pages its listing is left out.

Run `MCOrgScan_scans`: one scanner, one repository, two tags, a good and an unusable tree,
all three sources, two pushes, one fault. `SkippedIsIndexed` says that whatever an
incremental scan would skip is indexed as a full scan would index it; `NoPhantoms` that
nothing is indexed that no tag ever had; `CatchesUp` that the index comes to hold what the
host has once nobody pushes. Repositories are scanned one after the other and share no state,
so one shows the cases; two tags let one change while another is built; two pushes let a
repository change and change back.

Conditions: `doubt` holds the repositories where a scan met an error, those of a rewrite
whose checkpoint is not there yet, and those that no carry-over rule is right for; each is a
hazard in `PROJECT.json`. `TagMoved` leaves out a repository in which one tag has named two
trees under one head, at whatever time: a checkpoint has the head and the names of the tags
and cannot tell. That goes further than a tag moved in place. A tag that was listed, was
deleted and made again with other content, was built, and is then put back as it was leaves
a checkpoint that matches with content that does not, although at no moment two checkpoints
look alike; it takes more pushes than the run has, and came out of the proof. With two scans
at once `SkippedIsIndexed` does not hold: `reindex` has no lock of its own, and the last of
the two writes its checkpoint over an index that it may not have written. `CatchesUp` leaves
out the kept cache, which is never refreshed. Fairness: a scan is started again and again
(cron, as PROP-005 describes), a running scan goes on, the operator refreshes the mirror;
pushes and faults are never required, and their bounds make them end.

## 7. Publish and GitHost

`GitHost.tla` is a git host: a push to main is taken when it is a fast-forward, a tag when
there is none. `Publish.tla` models `vibe workspace publish` and `vibe registry publish`.

| TLA+ | code |
| --- | --- |
| `source` | the packages' directories: the version in the manifest, and which edit they come from |
| `host` | for each package no repository, or main and tags |
| `index` | the entries that the post hook made |
| `pc`, `job` | the progress of each publishing process |
| `reported` | history: what runs printed as published |

`StartWorkspace` and `StartPackage` begin the commands; `Stage` copies the next node in
dependency order; `Probe`, `CreateRepo`, `Copy`, `PushMain`, `PushTag` and `Hook` are the
requests of `Publisher::publish`, `push_release` and `post_hook`. Each that changes the host
may lose its reply, and `Interrupt` is a request without effect or a kill. `Edit` is the
developer, `Provision` the operator who makes repositories for direct publishing.

Abstractions: a commit is the files it holds; every release commit is a root commit, as in
the code. Tokens, dry runs, redirect stubs and what staging adds to a copy are left out.

Run `MCPublish_releases`: two publishers, an application and the library it needs, two
versions, one edit, three runs, one fault. `TagNamesVersion`, `ReleaseIsOnMain`,
`DependenciesFirst`, `ReportIsTrue` and `IndexedIsReleased` hold. Two versions are needed for a
tag that says another version than its files; three runs let a third one follow
two that overlapped. Two of the properties leave out releases of packages that were edited while
they were published: the package command reads the manifest early and copies late, and the
hook reads the directory again (hazards at `orchestrator.rs:164` and `post_hook.rs:330`).

`ReleaseIsOnMain` holds for an unwelcome reason: as every release is a root commit, a
repository only ever takes one. A second version of a package cannot be published into its
repository, nor can a run be resumed that stopped between main and tag (hazard at
`git_publish.rs:71`).

## 8. RegistryWalk

`RegistryWalk.tla` follows one package through an install: for its version, for the
manifest of that version, and for the tree. Each of the three is a walk of its own, over
`[[override]]`, path and git declarations and then the registries in their order.

| TLA+ | code |
| --- | --- |
| `world` | for each registry the status and tags of primary and mirrors, the index, redirect stubs and their targets; credentials, strictness, declarations |
| `job.phase` | which of the questions is asked: all versions or the best one, manifest, manifest again for any version, tree |
| `job.at`, `job.found` | the registry being asked, and where the walk has come to |
| `job.read`, `result.tree` | where the manifest came from, and the tree |

`List` and `Consult` ask a registry for versions, `Probe` and `Target` follow a redirect,
`Resolve` looks at the declarations, `Read` and `Fetch` take manifest and tree. `Absent` is
the decision which failures let the walk go on to the next registry. `Change` lets a
repository go down, vanish, close or gain a version, and an index catch up, between any two
questions.

Run `MCRegistryWalk_walks`: two registries with a mirror each, two versions, two changes.
The first registry takes every status, tags, index and credentials that the code tells
apart, or else every redirect, or the declarations; the second has the package or not. `NeverPassedOver`:
a package comes from a registry only when every earlier one was without it at some
moment. `ReadIsInstalled` and `SolvedIsFetchable`: while nothing changes, the three walks agree.
One change may come between two walks and one within. Left out of the latter two properties:
overridden packages, whose manifest for the solver is read from the registries
(`walk.rs:494`), and redirects whose target declares a version that the stub has no tag of: a
pinned one, or one that passes the tag through to a target that declares another version there
("stray"; `redirect_follow.rs:192` takes that version and compares it with nothing).

Abstractions: a package has two versions, and a tree is where it came from and which version
it declares. Malformed manifests, prereleases and the search for names are left out.

## 9. PackageFetch

`PackageFetch.tla` takes over where a walk has found a registry: the fetch of a version from
its primary and mirrors through the clone that all projects of a user share.

| TLA+ | code |
| --- | --- |
| `served`, `up` | what each repository has under each tag, and which answer |
| `clone` | `~/.vibe/registries/...`: origin, tags, work tree, a lock file of a killed git |
| `pin`, `slot` | the content hash in a project's lockfile, and the tree in its slot |
| `pc`, `job`, `result` | the running command of each project, and how the last one ended |

`Update` and `Wipe` are the two outcomes of the update of a clone, `Bootstrap` and
`BootstrapFails` those of a new clone, `CopyBegins` and `Gate` the copy into the
project's cache and the comparison with the pin. `Killed` leaves a git lock file, a torn
work tree or half a clone. `TagChanges` and `Outage` are the owners of the repositories.
git's own behaviour (a fetch that refuses to move a tag, a clone that starts at a tag) is
part of the actions.

Run `MCPackageFetch_projects`: two projects that want two versions, three trees, a primary
and a mirror, three commands, two changes, one fault. `PrimaryIsEnough`: whatever
disturbed, killed or failed commands left in the clone, an undisturbed command succeeds when
the primary can serve it. `HandedOnWasServed`: an undisturbed command hands on a tree that
was served under its tag. `PassedIsPinned`: however commands interfere, what passes the gate is
the pinned tree. With two tags the clone has to be moved between commands; three trees leave
one that is pinned by nobody; of three commands two may overlap and a third meets what
they left.

What does not hold, and so is not stated: a first install, which has no pin, may lock a torn
tree when another project works on the clone; and a tree that misses its pin at every source
is installed all the same (hazards at `fetch.rs:350` and `fetch.rs:421`).

Not covered: each project wants one version for ever. The pin is looked up by group and name
(`plan.rs:350`), so when a project goes over to another version the fetch is judged by the old
version's hash, misses it at every source, wiping the clone each time, and is handed on as
`fetch.rs:421` says. The promise of `PrimaryIsEnough` also leaves out commands that meet a
clone made from a mirror.

## 10. DepSolver

`DepSolver.tla` models naive and sat step by step. A world gives each package's versions
their manifests: ordered requests, alternatives, conflicts, obsoletes and capabilities.

| TLA+ | code |
| --- | --- |
| `queue`, `chosen`, `barred`, `dropped`, `offered` | `SolverState` |
| `stack`, `attempts`, `first` | the bounds, the counter and the first error of `Sat::solve` |
| `Trouble` | the checks of `process_one`, in their order |
| `graph` | the answer: `build_resolved_graph` takes out what chosen packages obsolete |
| `Admits` | the clauses that `VibevmResolvoProvider` hands to resolvo |

`Process` is one request that is in order, `Fail` the end of naive, `Narrow` and `Backtrack`
what sat does about a clash and about a bound that leaves nothing. `Finish` makes the answer of
the choice. The two are not the same: a package that a chosen one obsoletes is taken out of the
answer, also when another needs it or it is a root (`lib.rs:512`; the test
`obsoletes_drops_obsolete_entry` has it so), and nothing checks what is left.

Run `MCDepSolver_worlds`: three packages with up to three versions, one capability; chains of
versions, alternatives, conflicts and capabilities in all combinations, four lists of roots.
`SolvedIsAdmitted`: what naive or sat has chosen, before anything is taken out, is admitted by
the clauses of resolvo, with one difference that `Holds` names: naive takes an alternative for
met at any version. The answer is that choice less what its own packages obsolete: nothing that
only a pass which sat gave up obsoleted is missing. Of the answer the clauses need not hold.
`EndsBelowTheCap`: the search of sat ends by itself. It is a function that runs, so `WF_vars(Next)`
is justified. `MAX_ATTEMPTS` is 256; with 24 the property is stronger, and no search in these
worlds needs more.

Proved beyond the run: each pass of sat lowers a bound or adds one below those that the package
has (`EachPassLowersABound`), and naive takes the newest versions (`NaiveTakesTheNewest`). Sat
does not: after the roots `c`, `a`, `b`, where the newest `a` needs an old `c` and `b` needs an
old `a`, the bound on `c` stays although nothing asks for it any more (`sat.rs:198`).

Abstractions: a constraint is the set of versions it accepts; a package has at most one
`[[requires_any]]`; the provider always answers. That sat finds an answer whenever there is
one does not hold (it lowers the package that clashed, never the one that made the demand)
and is not stated. The search of resolvo belongs to its library. In no world of the run does a
package list itself in `[conflicts]`: naive looks for a conflict among the packages that
were in before (`naive.rs:168`) and takes such a package, which no clause allows. The proof needs
this as a hypothesis (`NoneBarsItself`).

## 11. Answers, ConditionalDeps and FixpointModel

`Answers.tla` says what the solvers may answer, for those that only use the answer. A choice
(`Choices`) has published versions, is closed under `[requires]`, and has no package that the
names asked for, the needs and what manifests may bring in besides (`brings`: alternatives,
providers of a capability, `[recommends]`) do not lead to; it need not be the newest. An answer
(`Answer`) is a choice less what its packages obsolete. A solver may also fail where there is a
choice. That naive and sat answer so is proved (`SolversServeThePlanning`); for
resolvo, whose search is a library's, it is read off the clauses it is given. `Plans` is what
planning may make of answers: every package was in some answer at that version and came with
all that this answer had, the declared packages that are in are at accepted versions, and where
no package has a condition the whole is one answer.

`ConditionalDeps.tla` is the planning of an install: solve, fetch, evaluate the conditions of
what is fetched, solve again with what they ask for. `FixpointModel.tla` is the reference model
that the repository keeps in `fixpoint_model.rs`.

| TLA+ | code |
| --- | --- |
| `registry`, `wanted` | what is published, and the constraints of the roots |
| `fetched` | the nodes that were fetched, with their versions |
| `asked` | the fetched packages marked `is_root`: those that a solve was asked for by name |
| `obsoleted` | history: what was left out of answers |
| `Context`, `Applies` | `build_activation_context` and `ConditionalPredicate::evaluate` |
| `Names`, `MeetsCombined` | the roots of the next solve: the declared ones, those asked for since at their versions, the extras |
| `Refetch` | what its answer adds |

The pins of `hold_pins` only choose among the answers, and the solve without them follows when
there is none; `Solve` is both.

Run `MCConditionalDeps_plans`: four packages, up to two versions, conditions that chain, negate
and ask for a capability, packages that obsolete others or a root, one that brings another in,
two sets of roots. `NothingMissing`: what the roots and the fetched packages name is fetched or
was left out of an answer as obsoleted, and what a condition asks for that holds in the end is
fetched. `FollowsModel`: in registries
that the reference model can express, an `Expand` is one step of it and `Done` is its
stability ("the production loop must agree with it"). `COND_DEP_MAX_ITER` is 5, here
2: chains of conditions over four packages have up to three rounds, so that both the fixpoint
and the limit are reached.

Not stated, because they do not hold: that the versions kept from earlier rounds satisfy
the constraints of later ones, that a condition with `not` which fired still holds in the
end (hazards at `plan.rs:580` and `plan.rs:525`), that nothing needed is missing where
packages obsolete others, that what a later answer obsoletes goes, and that every round adds a
package, as the comment at `plan.rs:485` says: an extra that every answer leaves out is asked
for again up to the cap (hazard at `lib.rs:512`).

## 12. Proofs

Each rests on the named assumptions about the constants only, and on the hypotheses it states.
Liveness stays with TLC.

`VvmStore_proofs.tla`, for any number of processes, ids, outputs and instance numbers:

* `TypeCorrect`: `Spec => []TypeOK`. `TypeOK` is not inductive: a step that publishes or
  records its target needs to know that the process has one. `TypeInv` adds that.
* `InstallersAlone`: `Spec => []InstallersExclude`. Inductive with `TypeOK`, by the lemma
  `CriticalStep` about one process's step and `OthersKeep`, which says that a step leaves
  the other processes' memory alone.
* `NamedArePublished`: `Spec => []NamedWasPublished`. The strengthening `NamedInv` follows
  the target of an install from the moment it is in place and every inventory a process has
  in hand, since a stale inventory may be written back at any later time.
* `PointerIsUsable` and `RecordsAreWhole`: `CurrentIsUsable` and `RecordsMatchDisk` of every
  behaviour whose removals are not forced, run while no other command does (`RemovesAlone`)
  and are not killed (`RemoveEnds`; together `OrderlyRemovals`). `StoreInv` says of the files
  what must hold between any two file operations (`DiskInv`) and of each command what it may
  still rely on (`ProcInv`): that the number an installer took is still unused and
  that the inventory it writes back is still the one on disk plus its own record, that what
  a removal deletes is not active. A record without its directory is allowed only while a
  removal is about to drop it (`Doomed`). `Company` says who can run beside whom: switches
  beside the one installer that has the lock, nobody beside a removal.
* `ImplementsCatalog`: such a behaviour that meets no busy directory implements `VvmCatalog`.
  Each step of a command is one of the catalog's or leaves its variables alone; a record that
  goes has no directory any more, which needs the last part of `RemoveInv`.
* `CheckedIsOrderly`: the specification that the run checks is one of these.

`IndexStore_proofs.tla`, for any servers, commands, packages and names:

* `TypeCorrect`: also that no index, in memory or on disk, holds an entry without its row.
* `ServersAlone`: `Spec => []ServersExclude`, inductive with `TypeOK`.
* `VerifyIsSound` and `ManifestIsLast`: `Spec /\ []SingleWriter => []VerifyCatchesTorn`, and
  likewise for `ManifestSeals`. The invariant `WriteInv` says that the manifest on disk is
  that of some index, and for a rewrite under way which files are already in their new
  state. The hypothesis is needed and is not a theorem: it holds for one server by itself
  and fails as soon as a command runs beside it (hazard at `reindex.rs:74`).
* `AckedReachTheDisk` and `AckedSurviveRestarts`: `AckedOnDisk` and `AckedSurvives` for one
  server without commands (`OneServer`) whose rewrites run to their end (`RewritesFinish`); it
  may be stopped at any time and killed outside a rewrite. `AckInv` says that between
  rewrites the files hold what was acknowledged and that a loaded memory is what the files
  hold, and during one that memory has it, up to the entries that are being written. A kill
  inside a rewrite loses acknowledged entries (see Findings).
* `NothingCutShort`: where no operation fails and nothing is killed, `RewritesFinish` holds.

`InstallTree_proofs.tla`, for any packages, versions, dependencies, hooks and commands:

* `TypeCorrect`, inductive with `PhaseInv`, which says which command gets to which phase
  and what it has in hand there.
* `TreeIsLocked`: `Spec => []TreeMatchesLock`. `TreeInv` says, for each command and phase,
  what the tree holds on its way from the old lockfile to the new one: commands that prune
  make it what they have resolved whatever it was before, a scoped update and an uninstall
  only change their own slots and so need that nothing was cut short before.
* `BootIsLocked`: `Spec => []BootMatchesLock`, from `TreeInv`: a tree without torn slots
  that holds a resolution is read back as exactly that (`FoundIsTree`).
* `GoneStaysGone`: `Spec => []UninstalledStaysGone`. `GoneInv` follows every place from which
  a command may declare a package: the manifest, the roots in the lockfile, and the copies
  of both in a running command.
* `FreshLockIsResolved`: `Spec => []FreshIsResolved`. `ResolvedInv` keeps that the lockfile is
  put together from answers for the recorded roots (`Rooted`); a choice for some names is one
  for more (`ChoicesMonotone`), so merging older roots into the lockfile does no harm. The
  freshness check then says that the recorded roots are the declared ones and are met. What
  plans are is not assumed here: `PlansServeTheTree` below shows that planning ends with one.

`Publish_proofs.tla`, for any packages, versions, publishers, edits and faults:

* `TypeCorrect`, from `ShapeInv`, which also says what a publisher has in hand in each phase.
* `TagsNameVersions`, `ReleasesAreOnMain`, `DependenciesComeFirst`, `ReportsStayTrue`:
  inductive together (`ReleaseInv`) once `ProgressInv` is known, which follows a commit from the
  copy to the tag and says, for each run, which packages of its order are out. The step is
  always the same: what was released stays (`HostKeeps`), and what is new is the release of
  the process that tagged (`NewRelease`).
* `IndexFollowsReleases`, from `ReleaseInv`: the hook's entry was released before it is made.
* `HostOnlyGrows`: `Spec => [][HostKeeps]_vars`. No step moves or removes a tag, rewrites main
  or removes a repository.

`PackageFetch_proofs.tla`, for any projects, versions, trees, mirrors and commands:

* `TypeCorrect`, `PassedFetchesArePinned`, `FetchedTreesWereServed` and `ThePrimaryIsEnough` from one
  invariant: what the clone has was served at some time (`CloneOK`), and what an undisturbed
  command has in its hand is a tree of its version that it can still get (`Fit`). `OthersFit`
  says that a command which another one disturbs is marked as disturbed, so nothing is owed
  to it.

`RegistryWalk_proofs.tla`, for any registries, mirrors, declarations, versions and changes:

* `RegistriesAreNotPassedOver`, `TheTreeReadIsInstalled` and `WhatIsSolvedInstalls`. `Fits` has
  three parts: the shape of the walk at each question (`Shape`), that no registry which stood
  all along lies behind it (`Passing`), and, while nothing changes, that what was found
  and read is what the later walks come to (`OnTheWay`). The last is the heart: three walks with
  rules of their own agree because each of them passes only what has nothing to offer
  to the next (`ComesToNothing`). The assumption `NewestAssumption` says that a set of
  versions has a newest one, which every finite set has.

`Planning_proofs.tla`, of the solvers, for any packages, versions, worlds and lists of roots:

* `TypeCorrect`, with `Typed`: what is chosen is published and within the bounds.
* `SolvedAreAdmitted`: `NoneBarsItself => (Spec => []SolvedIsAdmitted)`. `Owed` says of every
  request of a root or of a chosen package that it is still in the queue or is met; when the
  queue is empty all of them are met, which is what the clauses say. It also says that what is
  marked as obsoleted is what the packages chosen in this pass obsolete.
* `EntriesDescend` and `EachPassLowersABound`: two comments of `sat.rs`. The bounds on one package
  descend along the stack (`Descending`), so that the newest of them is the lowest. A new bound
  is a version that was chosen under the old ones and so is below them, whence the branch of
  `sat.rs:229` for a clash that does not tighten is never taken; a bound that is lowered
  was the newest of its package in what is kept of the stack. The stack thus comes later, entry
  by entry, at every change, and no pass is made twice. That the search therefore ends is
  left to TLC (`EndsBelowTheCap`): it is liveness.
* `NaiveTakesTheNewest`, where no manifest offers alternatives (`NoAlternatives`). `NewestSoFar`:
  an admitted choice that is nowhere older than what naive has is the same so far, hence it
  meets every request of the queue, hence it is not newer in what naive takes next.

Of the planning, for any registries, constraints, conditions and limit on the rounds:

* `PlanTypeCorrect` and `PlansAreWhole` from `PlanInv`: what is fetched is published, and what it
  needs is fetched or was left out as obsoleted. A choice is closed by itself, an answer up to
  what is taken out of it; an answer's other version of a package that is there is passed over,
  and packages are only added.
* `PlansServeTheTree`: `PlanSpec => [](pc = "done" => fetched \in Plans(registry, wanted))`: what the
  loop ends with is a plan as `InstallTree` takes it. `ServeInv` says that each fetched package
  was in an answer to which nothing is missing now, and that a plan of more than one
  round holds a package with conditions.
* `LoopFollowsModel`: `PlanSpec => FollowsModel`. In a `Simple` registry the fetched version of a
  package is its only one, so the context is what the model has (`PresentIsContext`), the
  packages to add are the same (`AddedAreExtras`), and an answer has nothing else (`NothingElse`).

Of the two together, with the variables of both:

* `SolversServeThePlanning`: `Spec /\ PlanSpec /\ SameOffer => []Serves`. `SameOffer` says that the
  registry of the planning is the world of the solver, with the list of needs read as one
  constraint for each package and the alternatives among what may be brought in; as neither
  module changes it, that they begin so is enough. `Serves`: when naive or sat is done, what it
  chose is one of the `Choices` for its roots and within their constraints, and what it hands
  over is the `Answer` of that choice. Closed and within the constraints follows from `Owed`;
  that the roots lead to all of it is `Led`, which a new pass begins anew; that nothing else
  is taken out is the part of `Owed` about `dropped`, which a new pass must reset.

`OrgScan_proofs.tla`, for any repositories, tags, trees, clones and pushes:

* `TypeCorrect`, with `HeadsFit` and `InHand`, for any number of scanners.
* `EntriesHadATag`: `Spec => []NoPhantoms`, for any number of scanners. `Sourced`: clones are
  trees of the past, and so are the entries in the index and in the hand of every scan.
* `SkippingIsSafe`: `OneScanner => (Spec => []SkippedIsIndexed)`. `Indexed` says of a mark
  what the entries must be like (`Exact`): for each of its tags the content that a tree at
  its head or later had, and nothing else. It holds of the checkpoint and the index outside
  `doubt`, and inside a scan of its report, of what is skipped (no entries), of what is being
  built (`Building`, the tags so far) and between the two writes. From it, a clone that looks
  like the mark has the same content, since no tag was moved under its head. `NotAfter` is
  why: heads only grow and a clone is never ahead of the host.

Some of the proofs need that `None` is not among the values it stands beside
(`NoneAssumption` of `Publish`, `PackageFetch`, `DepSolver` and `OrgScan`, and a part of
`PackagesAssumption`); it is a value made
up for the models.

Only model-checked: the liveness properties (`CommandsEnd`, `WritesEnd`, `CatchesUp`,
`EndsBelowTheCap`), which are out of the prover's reach.

## 13. Findings

`findings` in `PROJECT.json` has the one disagreement that a run shows: a rewrite of the
index is not atomic although its comment says so, and a kill in the middle of it loses
packages that were acknowledged long before (`MCIndexStore_tornRestart`).

Other places where the code does something else than a document says, or that the properties
leave out by a condition, are in `hazards`, with the document's line and a note. Among them:
gc runs without the install lock and on what it read earlier; a deletion that failed to
persist is acknowledged when retried and not persisted; `reindex` does not look at the
server's lock; installing one package drops every other declared package from lockfile and tree;
a transitive package can be uninstalled; a package that another needs, or that was asked for, is
taken out as obsoleted; a second release of a package cannot be pushed;
a tree that misses its pin everywhere is installed; with only a mirror up nothing resolves.

## 14. Not modelled

* Workspace discovery and member expansion: a read-only walk whose result is an input here.
* Features and activation: one pass over a manifest, and a predicate; no state.
* The older single-repository registry, the local registry, vendoring: sequential file
  operations.
* Search and its cache: read-only, nothing is decided on it.
* Rate limiter, MCP session, agents' configuration files: small sequential state machines, in
  section 2 for later.
* Registry configuration and redirect commands: edits of one file, pushes of one stub.
* Manifest, lockfile and reference parsing, the linter, the traceability tooling, generated
  code and empty crates: data types, read-only checks, or outside the product.

Within the modelled components, the `note` of each in `PROJECT.json` says what is left out.
