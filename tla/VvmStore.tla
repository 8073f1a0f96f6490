------------------------------- MODULE VvmStore -------------------------------
(* The version store of `vibe self` (crates/vibe-cli/src/commands/vvm): several  *)
(* CLI processes share one install root on disk and each runs one command at a   *)
(* time, one file operation per step.                                            *)
(*                                                                               *)
(* The shared files are state.toml (the inventory: the next instance number and  *)
(* the recorded instances), its temporary file state.toml.tmp, the instance      *)
(* directories, one .staging directory per version id, the `current` pointer     *)
(* and current.tmp, and the marker .install.lock that only installs take.        *)
EXTENDS Naturals, FiniteSets

CONSTANTS
    Process,        \* the CLI processes
    Id,             \* the version ids (kind and name)
    Build,          \* the distinguishable outputs of a build
    MaxNumber,      \* bound on the instance numbers handed out
    Command,        \* the commands users run: a subset of AllCommand
    RemoveForced,   \* whether users pass --force to `self remove`
    DirsBusy,       \* whether deleting a directory may fail because it is in use
    Crashing,       \* whether a process may be killed between two steps
    Absent,         \* a directory that does not exist
    Gutted,         \* a directory with part of its files
    None            \* no pointer, no temporary file

AllCommand == {"install", "use", "remove", "prune"}

ASSUME ConstantsAssumption ==
    /\ Id # {} /\ MaxNumber \in Nat \ {0}
    /\ Command \subseteq AllCommand
    /\ {RemoveForced, DirsBusy, Crashing} \subseteq BOOLEAN
    /\ Absent \notin Build /\ Gutted \notin Build /\ Absent # Gutted
    /\ None \notin Id \X (1 .. MaxNumber)
    /\ None \notin [next : 0 .. MaxNumber + 1, installs : SUBSET (Id \X (1 .. MaxNumber))]

Instance == Id \X (1 .. MaxNumber)
DirState == Build \cup {Absent, Gutted}

\* state.toml: the counter starts at 0, which alloc_instance reads as 1.
Inventory == [next : 0 .. MaxNumber + 1, installs : SUBSET Instance]
NoInventory == [next |-> 0, installs |-> {}]

Phase == {"idle", "build", "alloc", "write", "swap", "stage", "clear", "publish",
          "record", "flip", "flipSwap", "nextId", "sweep", "forget", "done"}

\* What a process remembers between two of its steps.
Job == [cmd : Command \cup {"none"},  \* the command it runs
        id : Id,                      \* install: the version id
        force : BOOLEAN,              \* install: --force
        content : DirState,           \* install: what the build produced
        target : Instance \cup {None},\* install, use: the instance to activate
        save : Inventory,             \* the inventory it is about to write
        then : Phase,                 \* where it goes on after the write
        ids : SUBSET Id,              \* remove: version ids still to remove
        queue : SUBSET Instance,      \* remove, prune: directories to delete
        victims : SUBSET Instance]    \* remove, prune: records to forget next

VARIABLES lock, inventory, inventoryTmp, dirs, staging, current, currentTmp,
          pc, job,
          published      \* history: the instances ever renamed into place

files == <<lock, inventory, inventoryTmp, dirs, staging, current, currentTmp>>
vars == <<lock, inventory, inventoryTmp, dirs, staging, current, currentTmp, pc, job, published>>

NoJob == [cmd |-> "none", id |-> CHOOSE i \in Id : TRUE, force |-> FALSE,
          content |-> Absent, target |-> None, save |-> NoInventory, then |-> "done",
          ids |-> {}, queue |-> {}, victims |-> {}]

Init ==
    /\ lock = FALSE
    /\ inventory = NoInventory
    /\ inventoryTmp = None
    /\ dirs = [i \in Instance |-> Absent]
    /\ staging = [v \in Id |-> Absent]
    /\ current = None
    /\ currentTmp = None
    /\ pc = [p \in Process |-> "idle"]
    /\ job = [p \in Process |-> NoJob]
    /\ published = {}

----------------------------------------------------------------------------
\* Helpers

Goto(p, phase) == pc' = [pc EXCEPT ![p] = phase]

Remember(p, r) == job' = [job EXCEPT ![p] = r]

RecordedOf(id) == {i \in inventory.installs : i[1] = id}

IsNewest(i, set) == i \in set /\ \A j \in set : j[2] <= i[2]

\* What a selector can resolve to: the newest recorded instance of some id.
Selected == {i \in inventory.installs : IsNewest(i, RecordedOf(i[1]))}

NextNumber == IF inventory.next = 0 THEN 1 ELSE inventory.next

\* The record the `current` file points at: none when the pointed-at directory
\* has no record.
Active == inventory.installs \cap {current}

Critical(p) == job[p].cmd = "install"

----------------------------------------------------------------------------
\* Saving the inventory: write state.toml.tmp, then rename it over state.toml.
\* The temporary name is shared by all processes.

WriteTmp(p) ==
    /\ pc[p] = "write"
    /\ inventoryTmp' = job[p].save
    /\ Goto(p, "swap")
    /\ UNCHANGED <<lock, inventory, dirs, staging, current, currentTmp, job, published>>

\* The rename publishes whatever the shared temporary file holds; when another
\* process has already renamed it away, the command fails.
SwapTmp(p) ==
    /\ pc[p] = "swap"
    /\ IF inventoryTmp = None
       THEN Goto(p, "done") /\ UNCHANGED inventory
       ELSE Goto(p, job[p].then) /\ inventory' = inventoryTmp
    /\ inventoryTmp' = None
    /\ UNCHANGED <<lock, dirs, staging, current, currentTmp, job, published>>

\* Repointing `current`: the same two steps on current.tmp.
FlipWrite(p) ==
    /\ pc[p] = "flip"
    /\ currentTmp' = job[p].target
    /\ Goto(p, "flipSwap")
    /\ UNCHANGED <<lock, inventory, inventoryTmp, dirs, staging, current, job, published>>

\* Bug: the loser of the race on current.tmp waits for it to come back.
FlipSwapRetry(p) ==
    /\ pc[p] = "flipSwap"
    /\ current' = IF currentTmp = None THEN current ELSE currentTmp
    /\ currentTmp' = None
    /\ Goto(p, IF currentTmp = None THEN "flipSwap" ELSE "done")
    /\ UNCHANGED <<lock, inventory, inventoryTmp, dirs, staging, job, published>>

FlipSwap(p) ==
    /\ pc[p] = "flipSwap"
    /\ current' = IF currentTmp = None THEN current ELSE currentTmp
    /\ currentTmp' = None
    /\ Goto(p, "done")
    /\ UNCHANGED <<lock, inventory, inventoryTmp, dirs, staging, job, published>>

----------------------------------------------------------------------------
\* vibe self install

\* Bug for the exclusion property: the lock file is opened without create_new.
StartInstallUnlocked(p) ==
    \E id \in Id, force \in BOOLEAN :
        /\ pc[p] = "idle" /\ "install" \in Command
        /\ inventory.next <= MaxNumber
        /\ lock' = TRUE
        /\ Remember(p, [NoJob EXCEPT !.cmd = "install", !.id = id, !.force = force])
        /\ Goto(p, "build")
        /\ UNCHANGED <<inventory, inventoryTmp, dirs, staging, current, currentTmp, published>>

\* The lock file is created exclusively; a second install bails out at once and
\* leaves no trace, so it is not a step here. MaxNumber caps the counter.
StartInstall(p) ==
    \E id \in Id, force \in BOOLEAN :
        /\ pc[p] = "idle" /\ "install" \in Command
        /\ inventory.next <= MaxNumber
        /\ ~lock
        /\ lock' = TRUE
        /\ Remember(p, [NoJob EXCEPT !.cmd = "install", !.id = id, !.force = force])
        /\ Goto(p, "build")
        /\ UNCHANGED <<inventory, inventoryTmp, dirs, staging, current, currentTmp, published>>

\* The build succeeds with some output or fails. The newest recorded instance
\* of the id and its manifest are then looked up: when the manifest equals the
\* fresh one and there is no --force, the install only flips `current`. A gutted
\* directory may still have its manifest.
BuildAndCompare(p) ==
    /\ pc[p] = "build"
    /\ \/ \E b \in Build :
            \/ \E prev \in RecordedOf(job[p].id) :
                 /\ IsNewest(prev, RecordedOf(job[p].id))
                 /\ ~job[p].force /\ dirs[prev] \in {b, Gutted}
                 /\ Remember(p, [job[p] EXCEPT !.content = b, !.target = prev])
                 /\ Goto(p, "flip")
            \/ /\ \A prev \in RecordedOf(job[p].id) :
                    IsNewest(prev, RecordedOf(job[p].id)) => job[p].force \/ dirs[prev] # b
               /\ Remember(p, [job[p] EXCEPT !.content = b])
               /\ Goto(p, "alloc")
       \/ Goto(p, "done") /\ UNCHANGED job
    /\ UNCHANGED <<files, published>>

\* Bug: the record is written together with the number, before the files.
AllocAndRecord(p) ==
    /\ pc[p] = "alloc" /\ NextNumber <= MaxNumber
    /\ Remember(p, [job[p] EXCEPT !.target = <<job[p].id, NextNumber>>,
                                  !.save = [next |-> NextNumber + 1,
                                       installs |-> inventory.installs \cup {<<job[p].id, NextNumber>>}],
                          !.then = "stage"])
    /\ Goto(p, "write")
    /\ UNCHANGED <<files, published>>

\* alloc_instance: load the inventory, take max(next, 1), save next + 1.
Alloc(p) ==
    /\ pc[p] = "alloc" /\ NextNumber <= MaxNumber
    /\ Remember(p, [job[p] EXCEPT !.target = <<job[p].id, NextNumber>>,
                                  !.save = [inventory EXCEPT !.next = NextNumber + 1],
                                  !.then = "stage"])
    /\ Goto(p, "write")
    /\ UNCHANGED <<files, published>>

\* Bug: a leftover .staging directory is kept instead of being cleared first.
StageOverLeftover(p) ==
    /\ pc[p] = "stage"
    /\ \/ /\ staging' = [staging EXCEPT ![job[p].id] = IF @ = Absent THEN job[p].content ELSE @]
          /\ Goto(p, "clear")
       \/ staging' = [staging EXCEPT ![job[p].id] = Gutted] /\ Goto(p, "done")
    /\ UNCHANGED <<lock, inventory, inventoryTmp, dirs, current, currentTmp, job, published>>

\* place, first half: .staging is cleared and filled (hardlink or copy, the same
\* content either way) with its manifest; a failed copy leaves it partial.
Stage(p) ==
    /\ pc[p] = "stage"
    /\ \/ staging' = [staging EXCEPT ![job[p].id] = job[p].content] /\ Goto(p, "clear")
       \/ staging' = [staging EXCEPT ![job[p].id] = Gutted] /\ Goto(p, "done")
    /\ UNCHANGED <<lock, inventory, inventoryTmp, dirs, current, currentTmp, job, published>>

\* place, second half: an existing directory of that number is deleted, then
\* .staging is renamed to it.
ClearTarget(p) ==
    /\ pc[p] = "clear"
    /\ dirs' = [dirs EXCEPT ![job[p].target] = Absent]
    /\ Goto(p, "publish")
    /\ UNCHANGED <<lock, inventory, inventoryTmp, staging, current, currentTmp, job, published>>

Publish(p) ==
    /\ pc[p] = "publish"
    /\ dirs' = [dirs EXCEPT ![job[p].target] = staging[job[p].id]]
    /\ staging' = [staging EXCEPT ![job[p].id] = Absent]
    /\ published' = published \cup {job[p].target}
    /\ Goto(p, "record")
    /\ UNCHANGED <<lock, inventory, inventoryTmp, current, currentTmp, job>>

\* record_install: load the inventory, add the record, save.
Record(p) ==
    /\ pc[p] = "record"
    /\ Remember(p, [job[p] EXCEPT !.save = [inventory EXCEPT !.installs = @ \cup {job[p].target}],
                                  !.then = "flip"])
    /\ Goto(p, "write")
    /\ UNCHANGED <<files, published>>

----------------------------------------------------------------------------
\* vibe self use: no lock is taken and the directory is not looked at.

StartUse(p) ==
    \E i \in Selected :
        /\ pc[p] = "idle" /\ "use" \in Command
        /\ Remember(p, [NoJob EXCEPT !.cmd = "use", !.target = i])
        /\ Goto(p, "flip")
        /\ UNCHANGED <<files, published>>

----------------------------------------------------------------------------
\* vibe self remove and vibe self gc --prune-others. Both read the active
\* instance and the inventory, ask for confirmation, and then delete.

\* One id, or all of them, less the id of the active instance unless forced.
StartRemove(p) ==
    \E all \in BOOLEAN, id \in Id, force \in {FALSE, RemoveForced} :
        LET recorded == {i[1] : i \in inventory.installs}
            chosen   == IF all THEN recorded ELSE recorded \cap {id}
            spared   == IF force THEN {} ELSE {i[1] : i \in Active}
        IN /\ pc[p] = "idle" /\ "remove" \in Command
           /\ chosen # {}
           /\ Remember(p, [NoJob EXCEPT !.cmd = "remove", !.ids = chosen \ spared])
           /\ Goto(p, "nextId")
           /\ UNCHANGED <<files, published>>

\* remove_id: the directories to delete come from a fresh load of the inventory.
NextId(p) ==
    /\ pc[p] = "nextId"
    /\ \/ \E id \in job[p].ids :
            /\ Remember(p, [job[p] EXCEPT !.ids = @ \ {id},
                                          !.queue = RecordedOf(id),
                                          !.victims = {i \in Instance : i[1] = id}])
            /\ Goto(p, "sweep")
       \/ job[p].ids = {} /\ Goto(p, "done") /\ UNCHANGED job
    /\ UNCHANGED <<files, published>>

\* Bug: the active instance is not left out of the prune.
StartPruneAll(p) ==
    /\ pc[p] = "idle" /\ "prune" \in Command
    /\ inventory.installs # {}
    /\ Remember(p, [NoJob EXCEPT !.cmd = "prune", !.queue = inventory.installs])
    /\ Goto(p, "sweep")
    /\ UNCHANGED <<files, published>>

StartPrune(p) ==
    /\ pc[p] = "idle" /\ "prune" \in Command
    /\ inventory.installs \ Active # {}
    /\ Remember(p, [NoJob EXCEPT !.cmd = "prune", !.queue = inventory.installs \ Active])
    /\ Goto(p, "sweep")
    /\ UNCHANGED <<files, published>>

\* Delete one directory, best effort. A prune forgets each instance after its
\* directory, a remove forgets the whole id after the last one.
Sweep(p) ==
    /\ pc[p] = "sweep"
    /\ \/ \E i \in job[p].queue :
            /\ \E left \in {Absent} \cup IF DirsBusy /\ dirs[i] # Absent THEN {dirs[i], Gutted} ELSE {} :
                 dirs' = [dirs EXCEPT ![i] = left]
            /\ Remember(p, [job[p] EXCEPT !.queue = @ \ {i},
                                          !.victims = IF job[p].cmd = "prune" THEN {i} ELSE @])
            /\ Goto(p, IF job[p].cmd = "prune" THEN "forget" ELSE "sweep")
       \/ /\ job[p].queue = {}
          /\ Goto(p, IF job[p].cmd = "prune" THEN "done" ELSE "forget")
          /\ UNCHANGED <<dirs, job>>
    /\ UNCHANGED <<lock, inventory, inventoryTmp, staging, current, currentTmp, published>>

\* Bug: the record is kept after its directory is gone.
ForgetNothing(p) ==
    /\ pc[p] = "forget"
    /\ Goto(p, IF job[p].cmd = "prune" THEN "sweep" ELSE "nextId")
    /\ UNCHANGED <<files, job, published>>

\* forget_instance and forget_id: load, drop the records, save when one went.
Forget(p) ==
    LET kept == inventory.installs \ job[p].victims
        back == IF job[p].cmd = "prune" THEN "sweep" ELSE "nextId"
    IN /\ pc[p] = "forget"
       /\ IF kept = inventory.installs
          THEN Goto(p, back) /\ UNCHANGED job
          ELSE /\ Remember(p, [job[p] EXCEPT !.save = [inventory EXCEPT !.installs = kept],
                                             !.then = back])
               /\ Goto(p, "write")
       /\ UNCHANGED <<files, published>>

----------------------------------------------------------------------------
\* The end of a command, in success or failure: dropping the guard deletes the
\* lock file of an install.
Finish(p) ==
    /\ pc[p] = "done"
    /\ lock' = (lock /\ ~Critical(p))
    /\ Remember(p, NoJob)
    /\ Goto(p, "idle")
    /\ UNCHANGED <<inventory, inventoryTmp, dirs, staging, current, currentTmp, published>>

\* A process killed between two steps: its guard is not dropped, its temporary
\* files stay.
Crash(p) ==
    /\ Crashing /\ pc[p] # "idle"
    /\ Remember(p, NoJob)
    /\ Goto(p, "idle")
    /\ UNCHANGED <<files, published>>

\* The user deletes a stale lock file, as the error message tells them to: when
\* no install is in fact running.
RemoveStaleLock ==
    /\ lock /\ \A p \in Process : ~Critical(p)
    /\ lock' = FALSE
    /\ UNCHANGED <<inventory, inventoryTmp, dirs, staging, current, currentTmp, pc, job, published>>

Start(p) == StartInstall(p) \/ StartUse(p) \/ StartRemove(p) \/ StartPrune(p)

Step(p) ==
    \/ WriteTmp(p) \/ SwapTmp(p) \/ FlipWrite(p) \/ FlipSwap(p)
    \/ BuildAndCompare(p) \/ Alloc(p) \/ Stage(p) \/ ClearTarget(p) \/ Publish(p) \/ Record(p)
    \/ NextId(p) \/ Sweep(p) \/ Forget(p) \/ Finish(p)

Next ==
    \/ \E p \in Process : Start(p) \/ Step(p) \/ Crash(p)
    \/ RemoveStaleLock

Spec == Init /\ [][Next]_vars

\* A process that runs a command keeps taking steps; nobody is forced to start
\* a command, to crash or to clean up a lock.
FairSpec == Spec /\ \A p \in Process : WF_vars(Step(p))

----------------------------------------------------------------------------
\* Properties

\* The shape of every file and of every process's memory.
TypeOK ==
    /\ lock \in BOOLEAN
    /\ inventory \in Inventory
    /\ inventoryTmp \in Inventory \cup {None}
    /\ dirs \in [Instance -> DirState]
    /\ staging \in [Id -> DirState]
    /\ current \in Instance \cup {None}
    /\ currentTmp \in Instance \cup {None}
    /\ pc \in [Process -> Phase]
    /\ job \in [Process -> Job]
    /\ published \subseteq Instance

\* install.rs InstallLock: two installs never run at once, whatever crashes and
\* stale-lock removals happen, and a running install has its lock on disk.
InstallersExclude ==
    /\ \A p \in Process : Critical(p) => lock
    /\ \A p, q \in Process : Critical(p) /\ Critical(q) => p = q

\* place then record_install then write_current: no file, and no inventory still
\* in some process's hands, names an instance that was never put in place, so a
\* kill at any point of any command leaves no record and no pointer to a
\* half-built instance.
NamedWasPublished ==
    /\ inventory.installs \subseteq published
    /\ inventoryTmp # None => inventoryTmp.installs \subseteq published
    /\ \A p \in Process : job[p].save.installs \subseteq published
    /\ {current, currentTmp} \subseteq published \cup {None}

\* write_current, remove and gc: the pointer the shims follow names a directory
\* that is there with all its files.
CurrentIsUsable == current # None => dirs[current] \in Build

\* record_install, remove_id and gc: between commands every recorded instance is
\* there with all its files, so that `use` may take any of them unseen.
RecordsMatchDisk ==
    (\A p \in Process : pc[p] = "idle") =>
        \A i \in inventory.installs : dirs[i] \in Build

\* Every command that is started comes to an end.
CommandsEnd == \A p \in Process : pc[p] # "idle" ~> pc[p] = "idle"

\* The version store as a catalogue of write-once instances.
Catalog == INSTANCE VvmCatalog WITH
    content <- dirs, recorded <- inventory.installs, active <- current, used <- published

\* All commands together implement the catalogue: nothing in use is overwritten or
\* collected, and number, directory, record and pointer keep their order.
CatalogSpec == Catalog!Spec

===============================================================================
