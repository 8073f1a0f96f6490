----------------------------- MODULE PackageFetch -----------------------------
(* Fetching one package of a registry (vibe-registry, git_package_registry/      *)
(* fetch.rs): a primary repository and its mirrors, the clone that all projects   *)
(* of a user share, and for each project the cache it copies the clone into, the  *)
(* content its lockfile pins and the content in its slot. Nothing locks the       *)
(* clone. Repositories move and delete tags and go down; git fails, processes are *)
(* killed.                                                                        *)
EXTENDS Naturals, FiniteSets

CONSTANTS
    Project,     \* each with at most one command running
    Tag,         \* the version tags of the package
    Wants,       \* the version that each project asks for
    Sources,     \* how many repositories serve it; 1 is the primary
    Content,     \* the trees that a tag may point at
    First,       \* what the tags point at in the beginning
    MaxChanges,  \* bound on what happens to the repositories
    MaxFaults,   \* bound on failures of git and kills
    MaxRuns,     \* bound on the commands
    None,
    Torn         \* a tree that is nobody's: copied while it changed

Source == 1 .. Sources

ASSUME FetchAssumption ==
    /\ Wants \in [Project -> Tag]
    /\ First \in [Tag -> Content]
    /\ Sources \in Nat \ {0}
    /\ MaxChanges \in Nat /\ MaxFaults \in Nat /\ MaxRuns \in Nat
    /\ None \notin Content /\ Torn \notin Content /\ None # Torn

VARIABLES
    served,   \* what each repository has under each tag
    up,       \* the repositories that answer
    clone,    \* the shared clone: its origin, its tags, its work tree
    pin,      \* the content hash in each project's lockfile
    slot,     \* the tree in each project's slot
    pc, job,
    result,   \* history: how each project's last command ended
    ever,     \* history: what any repository ever had under each tag
    changes, faults, runs

vars == <<served, up, clone, pin, slot, pc, job, result, ever, changes, faults, runs>>

Maybe(S) == S \cup {None}

\* A clone with a `stuck` lock file of a killed git refuses every update.
Clone == [origin : Source, tags : [Tag -> Maybe(Content)],
          tree : Content \cup {Torn}, stuck : BOOLEAN]

ASSUME NoneAssumption == None \notin Clone

Job == [cmd : {"none", "install", "reinstall", "sync"},
        source : Source,
        copied : Maybe(Content \cup {Torn}),  \* the tree as the copy began
        last : Maybe(Content \cup {Torn}),    \* the last tree that missed the pin
        quiet : BOOLEAN,   \* history: no other command touched the clone meanwhile,
        still : BOOLEAN,   \* and not since the copy began
        good : BOOLEAN]    \* history: the primary could serve what is wanted all along

NoJob == [cmd |-> "none", source |-> 1, copied |-> None, last |-> None,
          quiet |-> TRUE, still |-> TRUE, good |-> TRUE]

NoResult == [end |-> "none", tree |-> None, wanted |-> None, quiet |-> TRUE, good |-> TRUE]

Init ==
    /\ served = [s \in Source |-> First]
    /\ up = Source
    /\ clone = None
    /\ pin = [p \in Project |-> None]
    /\ slot = [p \in Project |-> None]
    /\ pc = [p \in Project |-> "idle"]
    /\ job = [p \in Project |-> NoJob]
    /\ result = [p \in Project |-> NoResult]
    /\ ever = [t \in Tag |-> {First[t]}]
    /\ changes = 0 /\ faults = 0 /\ runs = 0

----------------------------------------------------------------------------
\* The bookkeeping of a step

Goto(p, phase) == pc' = [pc EXCEPT ![p] = phase]

\* p takes job j and changes the clone: whoever else is at work is disturbed.
Touch(p, j, new) ==
    /\ clone' = new
    /\ job' = [q \in Project |->
                 IF q = p THEN j
                 ELSE IF new = clone THEN job[q]
                 ELSE [job[q] EXCEPT !.quiet = FALSE, !.still = FALSE]]

Keep(p, j) == Touch(p, j, clone)

\* The primary answers and has what p wants: the pinned tree, or any.
Able(p, has, answering) ==
    /\ 1 \in answering
    /\ has[1][Wants[p]] \in IF pin[p] = None THEN Content ELSE {pin[p]}

\* The command of p, whose job has come to j, ends with the tree it hands on.
End(p, j, end, tree) ==
    /\ Goto(p, "idle")
    /\ result' = [result EXCEPT ![p] = [end |-> end, tree |-> tree, wanted |-> pin[p],
                                        quiet |-> j.quiet, good |-> j.good]]

\* Nothing beyond the clone and p's own command.
Inside == UNCHANGED <<served, up, ever, changes, runs, pin, slot>>

\* A git command fails for no reason the model knows.
Fails == faults < MaxFaults /\ faults' = faults + 1
Blamed(p) == [job[p] EXCEPT !.good = FALSE]

----------------------------------------------------------------------------
\* The commands

\* `vibe install` and `vibe reinstall --force` resolve the version first, by the
\* tags of the first repository that answers; `vibe registry sync` takes it from
\* the lockfile. The last two are for a package the lockfile has.
\* Left out: that a project goes over to another version. The pin is looked up by the
\* package's name alone, so the old version's hash would judge the new one.
Begin(p) ==
    /\ pc[p] = "idle" /\ runs < MaxRuns /\ runs' = runs + 1
    /\ \E cmd \in {"install", "reinstall", "sync"} :
        /\ cmd # "install" => pin[p] # None
        /\ cmd # "sync" =>
              \E s \in up : /\ \A t \in up : s <= t
                            /\ served[s][Wants[p]] # None
        /\ Keep(p, [NoJob EXCEPT !.cmd = cmd,
                                 !.good = /\ Able(p, served, up)
                                          /\ clone # None => clone.origin = 1])
    /\ Goto(p, "update")
    /\ UNCHANGED <<served, up, ever, changes, faults, pin, slot, result>>

\* fetch_with_expected_hash goes on to the next source. After the last one the
\* tree that missed the pin is handed on like any other: nothing compares it.
NextSource(p, j, new) ==
    IF j.source < Sources
    THEN /\ Touch(p, [j EXCEPT !.source = @ + 1], new)
         /\ Goto(p, "update")
         /\ UNCHANGED <<pin, slot, result>>
    ELSE /\ Touch(p, NoJob, new)
         /\ IF j.last = None
            THEN End(p, j, "error", None) /\ UNCHANGED <<pin, slot>>
            ELSE /\ End(p, j, "drift", j.last)
                 /\ slot' = [slot EXCEPT ![p] = j.last]
                 /\ pin' = [pin EXCEPT ![p] = IF j.cmd = "install" THEN j.last ELSE @]

\* The tags after a fetch: new ones come in, none is pruned, none is moved.
Fetched == [t \in Tag |-> IF clone.tags[t] = None THEN served[clone.origin][t] ELSE clone.tags[t]]

\* git fetch --prune --tags refuses to move a tag, and fails then.
Clobbers == \E t \in Tag : /\ served[clone.origin][t] # None
                           /\ clone.tags[t] \notin {None, served[clone.origin][t]}

\* Bug: goes on although the repository has no such tag.
UpdatesToNothing(p) == clone.origin \in up /\ ~clone.stuck /\ ~Clobbers

Updates(p) == /\ clone.origin \in up /\ ~clone.stuck /\ ~Clobbers
              /\ Fetched[Wants[p]] # None

\* Bug: fetches the tags and leaves the work tree where it was.
UpdatedWithoutReset(p) == [clone EXCEPT !.tags = Fetched]

\* GitBackend::update: fetch from the clone's own origin, whatever source is being
\* tried, and reset to the tag.
Updated(p) == [clone EXCEPT !.tags = Fetched, !.tree = Fetched[Wants[p]]]

\* A clone is at the tag: copy it, or be done.
Landed(p, j, new) ==
    IF j.cmd = "sync"
    THEN Touch(p, NoJob, new) /\ End(p, j, "synced", None)
    ELSE Touch(p, j, new) /\ Goto(p, "copy") /\ UNCHANGED result

Update(p) ==
    /\ pc[p] = "update" /\ clone # None /\ Updates(p)
    /\ Landed(p, job[p], Updated(p))
    /\ Inside /\ UNCHANGED faults

\* Bug: a failed update is the end of this source.
WipeNot(p) ==
    /\ pc[p] = "update" /\ clone # None /\ ~Updates(p)
    /\ NextSource(p, job[p], clone)
    /\ UNCHANGED <<served, up, ever, changes, runs, faults>>

\* bootstrap_or_update_at: when the update fails, the clone is wiped.
Wipe(p) ==
    /\ pc[p] = "update" /\ clone # None
    /\ \/ ~Updates(p) /\ Touch(p, job[p], None) /\ UNCHANGED faults
       \/ Fails /\ Touch(p, Blamed(p), None)
    /\ Goto(p, "clone")
    /\ Inside /\ UNCHANGED result

Bootstraps(p) == \/ pc[p] = "update" /\ clone = None
                 \/ pc[p] = "clone"

Serves(p, s) == s \in up /\ served[s][Wants[p]] # None

\* git clone --branch <tag> from the source being tried, over whatever is there.
Bootstrap(p) ==
    /\ Bootstraps(p) /\ Serves(p, job[p].source)
    /\ LET s == job[p].source IN
         Landed(p, job[p], [origin |-> s, tags |-> served[s],
                            tree |-> served[s][Wants[p]], stuck |-> FALSE])
    /\ Inside /\ UNCHANGED faults

BootstrapFails(p) ==
    /\ Bootstraps(p)
    /\ \/ ~Serves(p, job[p].source) /\ NextSource(p, job[p], None) /\ UNCHANGED faults
       \/ Fails /\ NextSource(p, Blamed(p), None)
    /\ UNCHANGED <<served, up, ever, changes, runs>>

\* The manifest and the commit are read from the clone, the cache is emptied and
\* the copy begins. A clone that is gone by now ends the command.
CopyBegins(p) ==
    /\ pc[p] = "copy"
    /\ IF clone = None
       THEN Keep(p, NoJob) /\ End(p, job[p], "error", None)
       ELSE /\ Keep(p, [job[p] EXCEPT !.copied = clone.tree, !.still = TRUE])
            /\ Goto(p, "gate") /\ UNCHANGED result
    /\ Inside /\ UNCHANGED faults

\* Bug: hashes what is in the clone rather than what was copied.
HashedOfClone(p, tree) == IF clone = None THEN tree ELSE clone.tree

\* compute_content_hash of the cache.
Hashed(p, tree) == tree

\* The copy is done and hashed. Without a pin, or at the pin, it is taken; else
\* the clone is wiped and the next source has its turn.
Gate(p) ==
    /\ pc[p] = "gate"
    /\ \E tree \in IF job[p].still THEN {job[p].copied} ELSE {job[p].copied, Torn} :
         IF pin[p] \in {None, Hashed(p, tree)}
         THEN /\ Keep(p, NoJob)
              /\ End(p, job[p], "taken", tree)
              /\ slot' = [slot EXCEPT ![p] = tree]
              /\ pin' = [pin EXCEPT ![p] = Hashed(p, tree)]
         ELSE NextSource(p, [job[p] EXCEPT !.last = Hashed(p, tree)], None)
    /\ UNCHANGED <<served, up, ever, changes, runs, faults>>

\* The process is killed. A git that ran dies with it, and leaves its lock file or
\* a work tree that is partly checked out.
Killed(p) ==
    /\ pc[p] # "idle" /\ Fails
    /\ \/ Keep(p, NoJob)
       \/ /\ pc[p] = "update" /\ clone # None
          /\ \E stuck \in BOOLEAN : Touch(p, NoJob, [clone EXCEPT !.tree = Torn, !.stuck = stuck])
       \/ /\ Bootstraps(p) /\ job[p].source \in up
          /\ Touch(p, NoJob, [origin |-> job[p].source, tags |-> [t \in Tag |-> None],
                              tree |-> Torn, stuck |-> FALSE])
    /\ End(p, job[p], "killed", None)
    /\ Inside

----------------------------------------------------------------------------
\* The repositories

Changes(has, answering) ==
    /\ changes < MaxChanges /\ changes' = changes + 1
    /\ served' = has /\ up' = answering
    /\ ever' = [t \in Tag |-> ever[t] \cup ({has[s][t] : s \in Source} \ {None})]
    /\ job' = [p \in Project |-> [job[p] EXCEPT !.good = @ /\ Able(p, has, answering)]]
    /\ UNCHANGED <<clone, pin, slot, pc, result, faults, runs>>

\* Somebody moves or deletes a tag of a repository.
TagChanges == \E s \in Source, t \in Tag, c \in Maybe(Content) :
    /\ c # served[s][t]
    /\ Changes([served EXCEPT ![s][t] = c], up)

\* A repository goes down, or is up again.
Outage == \E s \in Source : Changes(served, (up \ {s}) \cup ({s} \ up))

Next ==
    \/ \E p \in Project : \/ Begin(p) \/ Update(p) \/ Wipe(p) \/ Bootstrap(p)
                          \/ BootstrapFails(p) \/ CopyBegins(p) \/ Gate(p) \/ Killed(p)
    \/ TagChanges
    \/ Outage

Spec == Init /\ [][Next]_vars

----------------------------------------------------------------------------
\* Properties

\* Every variable holds what its comment says it holds.
TypeOK ==
    /\ served \in [Source -> [Tag -> Maybe(Content)]]
    /\ up \subseteq Source
    /\ clone = None \/ clone \in Clone
    /\ pin \in [Project -> Maybe(Content \cup {Torn})]
    /\ slot \in [Project -> Maybe(Content \cup {Torn})]
    /\ pc \in [Project -> {"idle", "update", "clone", "copy", "gate"}]
    /\ job \in [Project -> Job]
    /\ \A p \in Project : pc[p] = "idle" <=> job[p].cmd = "none"

\* A command that no other one disturbs succeeds as long as the primary answers
\* and has what is wanted, whatever disturbed, killed or failed commands left in
\* the shared clone: a stale or half-checked-out tree, moved tags, a lock file.
\* (Not so while the clone comes from a mirror: see `Begin`.)
PrimaryIsEnough ==
    \A p \in Project :
        result[p].good /\ result[p].quiet => result[p].end \in {"none", "taken", "synced", "killed"}

\* What an undisturbed command hands on was at some time served under the tag it
\* asked for, never another version's tree nor half of one.
HandedOnWasServed ==
    \A p \in Project :
        result[p].quiet /\ result[p].tree # None => result[p].tree \in ever[Wants[p]]

\* However commands run into each other in the shared clone, a fetch that passed
\* the gate put the pinned tree, whole, into the slot.
PassedIsPinned ==
    \A p \in Project :
        result[p].end = "taken" /\ result[p].wanted # None => result[p].tree = result[p].wanted

=============================================================================
