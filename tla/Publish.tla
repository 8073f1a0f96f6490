-------------------------------- MODULE Publish --------------------------------
(* Publishing packages (crates/vibe-publish and the commands `vibe workspace      *)
(* publish` and `vibe registry publish`): a repository per package is created on  *)
(* the host when there is none, a fresh commit is pushed to its main and then the *)
(* tag of the version; a package published on its own is also posted to the index.*)
(* Several publishers run at once, the developer edits, requests fail with and    *)
(* without their effect, and processes are killed.                                *)
EXTENDS Naturals, FiniteSets, GitHost

CONSTANTS
    Publisher,   \* the publishing processes
    Node,        \* the packages of the workspace
    Public,      \* those that are published to the registry
    Deps,        \* Deps[n]: the members that n depends on by path
    MaxVersion,  \* bound on the versions a package gets
    MaxEdits,    \* bound on the developer's edits
    MaxRuns,     \* bound on the runs of the two commands
    MaxFaults    \* bound on failing requests and kills

Version == 1 .. MaxVersion

ASSUME PublishAssumption ==
    /\ Public \subseteq Node
    /\ Deps \in [Node -> SUBSET Node]
    /\ Tag = Version
    /\ MaxVersion \in Nat \ {0} /\ MaxEdits \in Nat /\ MaxRuns \in Nat /\ MaxFaults \in Nat

\* A package's files: the version in the manifest, and which edit they come from.
Files == [version : Version, tree : 0 .. MaxEdits]

\* A released commit: the files, and as history the run that made it, what that
\* run had to publish before, and whether the package lay still since its manifest
\* was read. Every commit is a root commit.
Commit == [files : Files, run : 1 .. MaxRuns, staged : BOOLEAN, first : SUBSET Node,
           quiet : BOOLEAN]

\* What the index holds for a version.
Entry == [tree : 0 .. MaxEdits, quiet : BOOLEAN]

ASSUME NoneAssumption == None \notin Node \cup Commit \cup Entry /\ None \notin Repository(Commit)

VARIABLES
    source,   \* the files of every package
    host,     \* the repository of every package
    index,    \* the entries of the index server
    pc, job,  \* the progress of each process
    reported, \* history: what runs reported as published
    runs, edits, faults  \* how many of these there have been

vars == <<source, host, index, pc, job, reported, runs, edits, faults>>

Phase == {"idle", "next", "probe", "create", "copy", "main", "tag", "hook"}

Job == [workspace : BOOLEAN,        \* which of the two commands
        run : 0 .. MaxRuns,
        chosen : SUBSET Node,       \* workspace: the nodes to publish
        left : SUBSET Node,         \* those still to come
        node : Node \cup {None},    \* the package being published
        api : BOOLEAN,              \* by the host's API, or to a given URL
        version : Version \cup {None},  \* the version its manifest gave
        commit : Commit \cup {None},
        quiet : BOOLEAN]

NoJob == [workspace |-> FALSE, run |-> 0, chosen |-> {}, left |-> {}, node |-> None,
          api |-> TRUE, version |-> None, commit |-> None, quiet |-> TRUE]

Init ==
    /\ source = [n \in Node |-> [version |-> 1, tree |-> 0]]
    /\ host = [n \in Node |-> None]
    /\ index = [n \in Node |-> [v \in Version |-> None]]
    /\ pc = [p \in Publisher |-> "idle"]
    /\ job = [p \in Publisher |-> NoJob]
    /\ reported = {}
    /\ runs = 0 /\ edits = 0 /\ faults = 0

Goto(p, phase) == pc' = [pc EXCEPT ![p] = phase]
Put(p, j) == job' = [job EXCEPT ![p] = j]

\* The command ends: the loop over the nodes stops at the first failure.
End(p) == Goto(p, "idle") /\ Put(p, NoJob)

Fault == faults < MaxFaults /\ faults' = faults + 1
NoFault == UNCHANGED faults

----------------------------------------------------------------------------
\* The developer and the operator of the host

Edit(n) ==
    /\ edits < MaxEdits /\ edits' = edits + 1
    /\ \E bump \in {0, 1} :
        /\ source[n].version + bump \in Version
        /\ source' = [source EXCEPT ![n] = [version |-> @.version + bump, tree |-> @.tree + 1]]
    /\ job' = [p \in Publisher |-> [job[p] EXCEPT !.quiet = @ /\ job[p].node # n]]
    /\ UNCHANGED <<host, index, pc, reported, runs, faults>>

\* Repositories for publishing to a URL are made by hand.
Provision(n) ==
    /\ host[n] = None
    /\ host' = [host EXCEPT ![n] = Empty]
    /\ UNCHANGED <<source, index, pc, job, reported, runs, edits, faults>>

----------------------------------------------------------------------------
\* vibe workspace publish

\* topo_order finds an order unless the chosen nodes have a cycle.
Orderable(chosen) ==
    \A rest \in SUBSET chosen : rest = {} \/ \E n \in rest : (Deps[n] \ {n}) \cap rest = {}

\* All public nodes, or the one given with --member.
StartWorkspace(p) ==
    \E chosen \in {Public} \cup {{n} : n \in Public} :
        /\ pc[p] = "idle" /\ runs < MaxRuns /\ runs' = runs + 1
        /\ Orderable(chosen)
        /\ Put(p, [NoJob EXCEPT !.workspace = TRUE, !.run = runs', !.chosen = chosen,
                                !.left = chosen])
        /\ Goto(p, "next")
        /\ UNCHANGED <<source, host, index, reported, edits, faults>>

\* Bug: the nodes are taken in any order.
Unordered(p) == job[p].left

\* topo_order: a node is ready when what it depends on has been emitted.
Ready(p) == {n \in job[p].left : (Deps[n] \ {n}) \cap job[p].left = {}}

\* stage_node copies the package at its turn; the version is read from the copy.
Stage(p) ==
    /\ pc[p] = "next"
    /\ \/ \E n \in Ready(p) :
            LET commit == [files |-> source[n], run |-> job[p].run, staged |-> TRUE,
                           first |-> (Deps[n] \ {n}) \cap job[p].chosen, quiet |-> TRUE]
            IN /\ Put(p, [job[p] EXCEPT !.node = n, !.version = source[n].version,
                                        !.commit = commit])
               /\ Goto(p, "probe")
       \/ job[p].left = {} /\ End(p)
    /\ UNCHANGED <<source, host, index, reported, runs, edits, faults>>

----------------------------------------------------------------------------
\* vibe registry publish

StartPackage(p) ==
    \E n \in Node, api \in BOOLEAN :
        /\ pc[p] = "idle" /\ runs < MaxRuns /\ runs' = runs + 1
        /\ Put(p, [NoJob EXCEPT !.run = runs', !.node = n, !.api = api,
                                !.version = source[n].version])
        /\ Goto(p, IF api THEN "probe" ELSE "copy")
        /\ UNCHANGED <<source, host, index, reported, edits, faults>>

----------------------------------------------------------------------------
\* Publisher::publish

\* Bug: the package command pushes without having copied anything.
StraightToPush(p) == "main"

AfterCreation(p) == IF job[p].workspace THEN "main" ELSE "copy"

Probe(p) ==
    /\ pc[p] = "probe"
    /\ Goto(p, IF host[job[p].node] = None THEN "create" ELSE AfterCreation(p))
    /\ UNCHANGED <<source, host, index, job, reported, runs, edits, faults>>

\* The host refuses a second repository of the name; a reply may be lost.
CreateRepo(p) ==
    LET n == job[p].node
    IN /\ pc[p] = "create"
       /\ \/ /\ host[n] = None
             /\ host' = [host EXCEPT ![n] = Empty]
             /\ \/ Goto(p, AfterCreation(p)) /\ NoFault /\ UNCHANGED job
                \/ Fault /\ End(p)
          \/ host[n] # None /\ NoFault /\ End(p) /\ UNCHANGED host
       /\ UNCHANGED <<source, index, reported, runs, edits>>

\* push_release copies the package, after the requests that came before.
Copy(p) ==
    /\ pc[p] = "copy"
    /\ Put(p, [job[p] EXCEPT !.commit = [files |-> source[job[p].node], run |-> job[p].run,
                                         staged |-> FALSE, first |-> {}, quiet |-> job[p].quiet]])
    /\ Goto(p, "main")
    /\ UNCHANGED <<source, host, index, reported, runs, edits, faults>>

\* Bug: the hook is fired for a release that was refused.
RefusedAndHooked(p) == IF job[p].workspace THEN End(p) ELSE Goto(p, "hook") /\ UNCHANGED job

Refused(p) == End(p)

Takes(n, history) == host[n] # None /\ AcceptsMain(host[n], history)

\* Bug: the package is reported when its commit is on main.
PushMainReporting(p) ==
    LET n == job[p].node
        history == <<job[p].commit>>
    IN /\ pc[p] = "main"
       /\ \/ /\ Takes(n, history)
             /\ host' = [host EXCEPT ![n] = PushedMain(@, history)]
             /\ reported' = reported \cup {<<n, job[p].version, job[p].commit>>}
             /\ Goto(p, "tag") /\ NoFault /\ UNCHANGED job
          \/ ~Takes(n, history) /\ NoFault /\ Refused(p) /\ UNCHANGED <<host, reported>>
       /\ UNCHANGED <<source, index, runs, edits>>

\* The commit has no parent, so an empty repository takes it and no other does.
PushMain(p) ==
    LET n == job[p].node
        history == <<job[p].commit>>
    IN /\ pc[p] = "main"
       /\ \/ /\ Takes(n, history)
             /\ host' = [host EXCEPT ![n] = PushedMain(@, history)]
             /\ \/ Goto(p, "tag") /\ NoFault /\ UNCHANGED job
                \/ Fault /\ End(p)
          \/ ~Takes(n, history) /\ NoFault /\ Refused(p) /\ UNCHANGED host
       /\ UNCHANGED <<source, index, reported, runs, edits>>

\* Bug: the version is read again for the tag.
TagOfNow(p) == source[job[p].node].version

TagOf(p) == job[p].version

\* After the tag the package is reported as published. The workspace command goes
\* on to its next node, the other one to its hook, unless it was given a URL.
PushTag(p) ==
    LET n == job[p].node
        tag == TagOf(p)
        next == [job[p] EXCEPT !.left = @ \ {n}, !.node = None, !.version = None,
                               !.commit = None, !.quiet = TRUE]
    IN /\ pc[p] = "tag"
       /\ \/ /\ AcceptsTag(host[n], tag)
             /\ host' = [host EXCEPT ![n] = PushedTag(@, tag, job[p].commit)]
             /\ \/ /\ NoFault
                   /\ reported' = reported \cup {<<n, tag, job[p].commit>>}
                   /\ IF job[p].workspace THEN Goto(p, "next") /\ Put(p, next)
                      ELSE IF job[p].api THEN Goto(p, "hook") /\ UNCHANGED job
                      ELSE End(p)
                \/ Fault /\ End(p) /\ UNCHANGED reported
          \/ ~AcceptsTag(host[n], tag) /\ NoFault /\ End(p) /\ UNCHANGED <<host, reported>>
       /\ UNCHANGED <<source, index, runs, edits>>

\* post_hook: the entry is made from the package as it is now. A hook that fails is
\* a warning.
Hook(p) ==
    LET n == job[p].node
        entry == [tree |-> source[n].tree, quiet |-> job[p].quiet]
    IN /\ pc[p] = "hook"
       /\ \/ index' = [index EXCEPT ![n][source[n].version] = entry] /\ NoFault
          \/ Fault /\ UNCHANGED index
       /\ End(p)
       /\ UNCHANGED <<source, host, reported, runs, edits>>

\* A request fails without effect, or the process is killed.
Interrupt(p) ==
    /\ pc[p] # "idle" /\ Fault /\ End(p)
    /\ UNCHANGED <<source, host, index, reported, runs, edits>>

Step(p) ==
    \/ Stage(p) \/ Probe(p) \/ CreateRepo(p) \/ Copy(p)
    \/ PushMain(p) \/ PushTag(p) \/ Hook(p)

Next ==
    \/ \E p \in Publisher : StartWorkspace(p) \/ StartPackage(p) \/ Step(p) \/ Interrupt(p)
    \/ \E n \in Node : Edit(n) \/ Provision(n)

Spec == Init /\ [][Next]_vars

----------------------------------------------------------------------------
\* Properties

TypeOK ==
    /\ source \in [Node -> Files]
    /\ host \in [Node -> Repository(Commit) \cup {None}]
    /\ index \in [Node -> [Version -> Entry \cup {None}]]
    /\ pc \in [Publisher -> Phase]
    /\ job \in [Publisher -> Job]
    /\ reported \subseteq Node \X Version \X Commit
    /\ runs \in 0 .. MaxRuns /\ edits \in 0 .. MaxEdits /\ faults \in 0 .. MaxFaults
    /\ \A p \in Publisher : /\ pc[p] \notin {"idle", "next"} => job[p].node # None
                           /\ pc[p] \in {"main", "tag"} => job[p].commit # None

Released(n, v) == IF host[n] = None THEN None ELSE host[n].tags[v]

\* stage_node and publish: the tree under a tag says the version of the tag. The
\* package command, which reads the manifest and copies later, only achieves that
\* when nobody edits in between.
TagNamesVersion ==
    \A n \in Node, v \in Version :
        LET c == Released(n, v)
        IN c # None /\ (c.staged \/ c.quiet) => c.files.version = v

\* push_release: the branch goes first, so whoever finds a tag finds its commit on
\* main, and nobody's release is on a main that lacks it.
ReleaseIsOnMain ==
    \A n \in Node, v \in Version : Released(n, v) # None => host[n].main = <<Released(n, v)>>

\* publish_loop over topo_order: at no moment is a member on the host whose run has
\* not put there before what the member depends on.
DependenciesFirst ==
    \A n \in Node, v \in Version :
        Released(n, v) # None =>
            \A d \in Released(n, v).first :
                \E w \in Version : Released(d, w) # None /\ Released(d, w).run = Released(n, v).run

\* publish: what a run reported as published is what the host has under the tag,
\* also after other runs, failures and kills.
ReportIsTrue == \A r \in reported : Released(r[1], r[2]) = r[3]

\* post_hook: an entry of the index describes the release of that version, unless
\* the package was edited while it was being published.
IndexedIsReleased ==
    \A n \in Node, v \in Version :
        index[n][v] # None /\ index[n][v].quiet =>
            Released(n, v) # None /\ Released(n, v).files.tree = index[n][v].tree

===============================================================================
