-------------------------------- MODULE OrgScan --------------------------------
(* `vibe-index reindex` (crates/vibe-index: cli/reindex.rs, scanner, checkpoint): *)
(* the index is rebuilt from the git repositories of an organisation. A full scan *)
(* builds an entry for every tag of every repository; an incremental one skips    *)
(* the repositories that look as they did at the last checkpoint and carries      *)
(* their entries over. Repositories are pushed to, and the local clones that are  *)
(* walked are refreshed, while scans run.                                         *)
(*                                                                                *)
(* A repository holds one package, and an entry is (repository, tag, content):    *)
(* the rest of it follows from the content. IndexStore has the files of the       *)
(* index one by one; here a rewrite that is cut short leaves the entries of any   *)
(* of the packages.                                                               *)
EXTENDS Naturals, FiniteSets

CONSTANTS
    Scanner,    \* processes that run reindex: a cron job, an operator
    Repo,       \* repositories of the organisation
    Tag,        \* their v<semver> tags
    Content,    \* the trees that tags may name
    Invalid,    \* those of them without a usable manifest
    Source,     \* where the clones come from: a subset of AllSource
    Filed,      \* repositories named as the naming convention says
    MaxPushes,  \* bound on the changes in the organisation
    MaxFaults,  \* bound on the failures of git and of the disk, and on kills
    None

\* A mirror is refreshed by its operator; a scan from the host's API clones into
\* a scratch directory of its own, or into a cache that outlives it.
AllSource == {"mirror", "scratch", "cache"}

ASSUME ScanAssumption ==
    /\ Invalid \subseteq Content /\ None \notin Content
    /\ Source \subseteq AllSource /\ Source # {}
    /\ Filed \subseteq Repo
    /\ MaxPushes \in Nat /\ MaxFaults \in Nat

Entry == Repo \X Tag \X Content

\* A repository, and what a checkpoint records of it: the head of the default
\* branch and the names of the tags.
Tree == [head : 0 .. MaxPushes + 1, tags : [Tag -> Content \cup {None}]]
Mark == [head : 0 .. MaxPushes + 1, tags : SUBSET Tag]

ASSUME NoneAssumption == None \notin Repo \cup Tree \cup Mark

NewTree == [head |-> 1, tags |-> [t \in Tag |-> None]]
HalfCloned == [head |-> 0, tags |-> [t \in Tag |-> None]]

VARIABLES
    org,         \* the repositories as they are at the host, None once deleted
    clones,      \* the local clones
    source,      \* where they come from
    index,       \* the entries of the index
    checkpoint,  \* the marks of the last scan that finished
    pc, job,     \* the progress of each scan
    pushes, faults, \* how many of these there have been
    past,        \* history: the trees each repository has had
    doubt        \* history: repositories whose entries may be wrong, see Settled

vars == <<org, clones, source, index, checkpoint, pc, job, pushes, faults, past, doubt>>

Job == [incremental : BOOLEAN,
        old : SUBSET Entry,              \* the index as loaded at the start
        prior : [Repo -> Mark \cup {None}],
        fetch : SUBSET Repo,             \* repositories still to clone
        todo : SUBSET Repo,              \* directories still to walk
        repo : Repo \cup {None},         \* the one being walked
        tags : SUBSET Tag,               \* its tags, as listed
        left : SUBSET Tag,               \* those still to build
        entries : SUBSET Entry,          \* the report: entries,
        marks : [Repo -> Mark \cup {None}], \* and snapshots
        failed : SUBSET Repo]            \* history: walked with an error

NoMarks == [r \in Repo |-> None]
NoJob == [incremental |-> FALSE, old |-> {}, prior |-> NoMarks, fetch |-> {}, todo |-> {},
          repo |-> None, tags |-> {}, left |-> {}, entries |-> {}, marks |-> NoMarks,
          failed |-> {}]

Phase == {"idle", "fetch", "walk", "head", "build", "save"}

Init ==
    /\ org = [r \in Repo |-> NewTree]
    /\ clones = [r \in Repo |-> None]
    /\ source \in Source
    /\ index = {}
    /\ checkpoint = NoMarks
    /\ pc = [s \in Scanner |-> "idle"]
    /\ job = [s \in Scanner |-> NoJob]
    /\ pushes = 0 /\ faults = 0
    /\ past = [r \in Repo |-> {NewTree}]
    /\ doubt = {}

Fault == faults < MaxFaults /\ faults' = faults + 1 /\ UNCHANGED pushes
NoFault == UNCHANGED <<pushes, faults>>

Goto(s, phase) == pc' = [pc EXCEPT ![s] = phase]
Put(s, j) == job' = [job EXCEPT ![s] = j]

TagsOf(tree) == {t \in Tag : tree.tags[t] # None}
MarkOf(tree) == [head |-> tree.head, tags |-> TagsOf(tree)]
OfRepo(entries, r) == {e \in entries : e[1] = r}

\* What a full scan finds in a clone.
FullScan(r) ==
    IF clones[r] = None THEN {}
    ELSE {<<r, t, clones[r].tags[t]>> : t \in {u \in TagsOf(clones[r]) :
                                                  clones[r].tags[u] \notin Invalid}}

----------------------------------------------------------------------------
\* The organisation, and the operator of the mirror

\* A release is a commit and its tag, or a tag on a commit that was there; tags are
\* moved and deleted with or without a commit; repositories are deleted.
Push(r) ==
    /\ org[r] # None
    /\ pushes < MaxPushes /\ pushes' = pushes + 1
    /\ \E t \in Tag, c \in Content \cup {None}, h \in {0, 1} :
        org' = [org EXCEPT ![r] = [head |-> @.head + h, tags |-> [@.tags EXCEPT ![t] = c]]]
    /\ past' = [past EXCEPT ![r] = @ \cup {org'[r]}]
    /\ UNCHANGED <<clones, source, index, checkpoint, pc, job, faults, doubt>>

Retire(r) ==
    /\ org[r] # None
    /\ org' = [org EXCEPT ![r] = None]
    /\ UNCHANGED <<clones, source, index, checkpoint, pc, job, pushes, faults, past, doubt>>

Refresh(r) ==
    /\ source = "mirror" /\ clones[r] # org[r]
    /\ clones' = [clones EXCEPT ![r] = org[r]]
    /\ UNCHANGED <<org, source, index, checkpoint, pc, job, pushes, faults, past, doubt>>

----------------------------------------------------------------------------
\* reindex

\* The index is loaded first and, for an incremental scan, the checkpoint. A scan
\* from the API lists the organisation, a scan from clones lists a directory.
Begin(s) ==
    \E incremental \in BOOLEAN :
        LET start == [NoJob EXCEPT !.incremental = incremental, !.old = index,
                                   !.prior = IF incremental THEN checkpoint ELSE NoMarks]
            there == {r \in Repo : clones[r] # None}
            listed == {r \in Repo : org[r] # None}
        IN /\ pc[s] = "idle"
           /\ IF source = "mirror"
              THEN Put(s, [start EXCEPT !.todo = there]) /\ Goto(s, "walk") /\ UNCHANGED clones
              ELSE /\ Put(s, [start EXCEPT !.fetch = listed])
                   /\ Goto(s, "fetch")
                   /\ clones' = IF source = "scratch" THEN [r \in Repo |-> None] ELSE clones
           /\ UNCHANGED <<org, source, index, checkpoint, pushes, faults, past, doubt>>

\* clone_org: a directory that exists is left alone, whatever is in it. A clone
\* that fails ends the scan.
Fetch(s) ==
    \E r \in job[s].fetch :
        /\ pc[s] = "fetch"
        /\ \/ /\ clones[r] # None \/ org[r] # None
              /\ clones' = [clones EXCEPT ![r] = IF @ # None THEN @ ELSE org[r]]
              /\ Put(s, [job[s] EXCEPT !.fetch = @ \ {r}])
              /\ NoFault /\ UNCHANGED pc
           \/ /\ clones[r] = None
              /\ IF org[r] = None THEN NoFault ELSE Fault
              /\ Put(s, NoJob) /\ Goto(s, "idle") /\ UNCHANGED clones
        /\ UNCHANGED <<org, source, index, checkpoint, past, doubt>>

\* Then the whole directory is walked, with the clones of earlier scans in it.
Fetched(s) ==
    /\ pc[s] = "fetch" /\ job[s].fetch = {}
    /\ Put(s, [job[s] EXCEPT !.todo = {r \in Repo : clones[r] # None}])
    /\ Goto(s, "walk")
    /\ UNCHANGED <<org, clones, source, index, checkpoint, pushes, faults, past, doubt>>

\* scan_org_dir_with_filter lists the tags of the next directory; when that fails
\* the repository is left out of the report, and of the snapshots.
ListTags(s) ==
    \E r \in job[s].todo :
        /\ pc[s] = "walk"
        /\ \/ /\ clones[r] # None
              /\ Put(s, [job[s] EXCEPT !.todo = @ \ {r}, !.repo = r, !.tags = TagsOf(clones[r])])
              /\ NoFault /\ Goto(s, "head")
           \/ /\ IF clones[r] = None THEN NoFault ELSE Fault
              /\ Put(s, [job[s] EXCEPT !.todo = @ \ {r}, !.failed = @ \cup {r}])
              /\ UNCHANGED pc
        /\ UNCHANGED <<org, clones, source, index, checkpoint, past, doubt>>

\* Bug: a repository is skipped when its head is the same.
CompareHeads(s) ==
    LET r == job[s].repo
    IN /\ pc[s] = "head"
       /\ \E h \in {0, IF clones[r] = None THEN 0 ELSE clones[r].head} :
            LET mark == [head |-> h, tags |-> job[s].tags]
                seen == [job[s] EXCEPT !.marks[r] = mark]
            IN /\ IF h = 0 /\ clones[r] # None /\ clones[r].head # 0 THEN Fault ELSE NoFault
               /\ IF job[s].prior[r] # None /\ job[s].prior[r].head = h
                  THEN Put(s, [seen EXCEPT !.repo = None]) /\ Goto(s, "walk")
                  ELSE Put(s, [seen EXCEPT !.left = mark.tags]) /\ Goto(s, "build")
       /\ UNCHANGED <<org, clones, source, index, checkpoint, past, doubt>>

\* The head is read next, by a git of its own; an error counts as no head (0). A
\* repository that looks as it did at the checkpoint is skipped.
Compare(s) ==
    LET r == job[s].repo
    IN /\ pc[s] = "head"
       /\ \E h \in {0, IF clones[r] = None THEN 0 ELSE clones[r].head} :
            LET mark == [head |-> h, tags |-> job[s].tags]
                seen == [job[s] EXCEPT !.marks[r] = mark]
            IN /\ IF h = 0 /\ clones[r] # None /\ clones[r].head # 0 THEN Fault ELSE NoFault
               /\ IF job[s].prior[r] = mark
                  THEN Put(s, [seen EXCEPT !.repo = None]) /\ Goto(s, "walk")
                  ELSE Put(s, [seen EXCEPT !.left = mark.tags]) /\ Goto(s, "build")
       /\ UNCHANGED <<org, clones, source, index, checkpoint, past, doubt>>

\* Bug: a checkout that fails leaves the tree of another tag, which is built.
BuildStale(s) ==
    \E t \in job[s].left, u \in Tag :
        LET r == job[s].repo
            c == IF clones[r] = None THEN None ELSE clones[r].tags[u]
            next == [job[s] EXCEPT !.left = @ \ {t}]
        IN /\ pc[s] = "build"
           /\ \/ /\ c \notin Invalid \cup {None} /\ NoFault
                 /\ Put(s, [next EXCEPT !.entries = @ \cup {<<r, t, c>>}])
              \/ c \in Invalid \cup {None} /\ NoFault /\ Put(s, next)
           /\ UNCHANGED <<org, clones, source, index, checkpoint, pc, past, doubt>>

\* Bug: a tag that is gone since the tags were listed is built all the same.
BuildUnchecked(s) ==
    \E t \in job[s].left :
        LET r == job[s].repo
            c == IF clones[r] = None THEN None ELSE clones[r].tags[t]
            next == [job[s] EXCEPT !.left = @ \ {t}]
        IN /\ pc[s] = "build" /\ NoFault
           /\ Put(s, [next EXCEPT !.entries = @ \cup {<<r, t, c>>}])
           /\ UNCHANGED <<org, clones, source, index, checkpoint, pc, past, doubt>>

\* build_entry for one tag, from a checkout of it; an error skips the tag. The entry's
\* commit, which git is asked for after the checkout, is taken for that of its tree.
Build(s) ==
    \E t \in job[s].left :
        LET r == job[s].repo
            c == IF clones[r] = None THEN None ELSE clones[r].tags[t]
            next == [job[s] EXCEPT !.left = @ \ {t}]
        IN /\ pc[s] = "build"
           /\ \/ /\ c \notin Invalid \cup {None} /\ NoFault
                 /\ Put(s, [next EXCEPT !.entries = @ \cup {<<r, t, c>>}])
              \/ c \in Invalid /\ NoFault /\ Put(s, next)
              \/ /\ IF c = None THEN NoFault ELSE Fault
                 /\ Put(s, [next EXCEPT !.failed = @ \cup {r}])
           /\ UNCHANGED <<org, clones, source, index, checkpoint, pc, past, doubt>>

Built(s) ==
    /\ pc[s] = "build" /\ job[s].left = {}
    /\ Put(s, [job[s] EXCEPT !.repo = None, !.tags = {}])
    /\ Goto(s, "walk")
    /\ UNCHANGED <<org, clones, source, index, checkpoint, pushes, faults, past, doubt>>

\* Bug: an incremental scan carries over whatever the report does not have.
KeptAll(j) ==
    IF ~j.incremental THEN {} ELSE {e \in j.old : OfRepo(j.entries, e[1]) = {}}

\* What an incremental scan carries over: the entries of the repositories that are
\* in the snapshots, under the name the convention gives, and gave no entry now.
Kept(j) ==
    IF ~j.incremental THEN {}
    ELSE {e \in j.old : e[1] \in Filed /\ j.marks[e[1]] # None /\ OfRepo(j.entries, e[1]) = {}}

Found(s) == Kept(job[s]) \cup job[s].entries

\* Repositories with entries that this scan cannot have right: it met an error
\* there, it skipped a repository that was in doubt or is not filed under its name,
\* or it walked a repository that had entries and has none any more.
Unsettled(j) ==
    j.failed
    \cup {r \in Repo : j.incremental /\ j.marks[r] # None /\ j.marks[r] = j.prior[r]
                        /\ r \in doubt \cup (Repo \ Filed)}
    \cup {r \in Repo : OfRepo(Kept(j), r) # {} /\ j.marks[r] # j.prior[r]}

\* The index is replaced, then the checkpoint. Until the checkpoint is there, a
\* repository that goes back to its old look passes for unchanged.
Write(s) ==
    /\ pc[s] = "walk" /\ job[s].todo = {}
    /\ index' = Found(s)
    /\ doubt' = Unsettled(job[s]) \cup {r \in Repo : job[s].marks[r] # checkpoint[r]}
    /\ Goto(s, "save")
    /\ UNCHANGED <<org, clones, source, checkpoint, job, pushes, faults, past>>

Save(s) ==
    /\ pc[s] = "save"
    /\ checkpoint' = job[s].marks
    /\ doubt' = Unsettled(job[s])
    /\ Goto(s, "idle") /\ Put(s, NoJob)
    /\ UNCHANGED <<org, clones, source, index, pushes, faults, past>>

\* A scan ends early, by an error or by a kill: in the middle of the rewrite, with
\* the entries of some packages; in the middle of a clone, with a directory.
Abort(s) ==
    /\ pc[s] # "idle" /\ Fault
    /\ \/ UNCHANGED <<index, doubt>>
       \/ /\ pc[s] = "walk" /\ job[s].todo = {}
          /\ \E rest \in SUBSET Repo : index' = {e \in Found(s) : e[1] \in rest}
          /\ doubt' = Repo
    /\ \/ UNCHANGED clones
       \/ \E r \in job[s].fetch : clones[r] = None /\ clones' = [clones EXCEPT ![r] = HalfCloned]
    /\ Goto(s, "idle") /\ Put(s, NoJob)
    /\ UNCHANGED <<org, source, checkpoint, past>>

Step(s) ==
    \/ Fetch(s) \/ Fetched(s) \/ ListTags(s) \/ Compare(s)
    \/ Build(s) \/ Built(s) \/ Write(s) \/ Save(s)

Next ==
    \/ \E s \in Scanner : Begin(s) \/ Step(s) \/ Abort(s)
    \/ \E r \in Repo : Push(r) \/ Retire(r) \/ Refresh(r)

Spec == Init /\ [][Next]_vars

\* cron starts scans for ever, a scan that runs goes on without faults, the operator
\* refreshes the mirror.
FairSpec ==
    /\ Spec
    /\ \A s \in Scanner : WF_vars(Begin(s)) /\ WF_vars(Step(s))
    /\ \A r \in Repo : WF_vars(Refresh(r))

----------------------------------------------------------------------------
\* Properties

TypeOK ==
    /\ org \in [Repo -> Tree \cup {None}]
    /\ clones \in [Repo -> Tree \cup {None}]
    /\ source \in Source
    /\ index \subseteq Entry
    /\ checkpoint \in [Repo -> Mark \cup {None}]
    /\ pc \in [Scanner -> Phase]
    /\ job \in [Scanner -> Job]
    /\ pushes \in 0 .. MaxPushes /\ faults \in 0 .. MaxFaults
    /\ past \in [Repo -> SUBSET Tree]
    /\ doubt \subseteq Repo

\* A tag has named two trees under one head: a checkpoint, which has the head and the
\* names of the tags, cannot tell.
TagMoved(r) ==
    \E a, b \in past[r] : \E t \in TagsOf(a) \cap TagsOf(b) :
        a.head = b.head /\ a.tags[t] # b.tags[t]

Settled(r) == r \notin doubt /\ ~TagMoved(r)

\* The repository would be skipped by an incremental scan now.
Skippable(r) == clones[r] # None /\ checkpoint[r] = MarkOf(clones[r])

\* reindex.rs and org_walk.rs: whatever an incremental scan would skip is in the
\* index exactly as a full scan would put it there.
SkippedIsIndexed ==
    \A r \in Repo : Settled(r) /\ Skippable(r) => OfRepo(index, r) = FullScan(r)

\* Nothing is indexed that no tag of the repository ever had.
NoPhantoms ==
    \A e \in index : \E tree \in past[e[1]] : tree.tags[e[2]] = e[3]

\* Once nobody pushes, the index comes to hold what the host has, and keeps it.
CatchesUp ==
    \A r \in Repo : <>[](\/ ~Settled(r) \/ source = "cache"
                         \/ org[r] # None /\ OfRepo(index, r) =
                              {<<r, t, org[r].tags[t]>> : t \in {u \in TagsOf(org[r]) : org[r].tags[u] \notin Invalid}}
                         \/ org[r] = None /\ OfRepo(index, r) = {})

===============================================================================
