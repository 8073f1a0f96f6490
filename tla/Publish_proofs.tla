----------------------------- MODULE Publish_proofs -----------------------------
(* Proofs about Publish for every number of publishers, packages, versions, edits *)
(* and faults, and every dependency graph.                                        *)
EXTENDS Publish, SequenceTheorems, TLAPS

------------------------------------------------------------------------------
\* Repositories

\* A root commit is taken by an empty main and by a main that is that commit.
LEMMA RootPush ==
    ASSUME NEW S, NEW main \in Seq(S), NEW c \in S, IsPrefix(main, <<c>>)
    PROVE  main = <<>> \/ main = <<c>>
<1>1. <<c>> \in Seq(S) /\ Len(<<c>>) = 1
  OBVIOUS
<1>2. Len(main) \in Nat /\ Len(main) <= 1 /\ SubSeq(main, 1, Len(main)) = SubSeq(<<c>>, 1, Len(main))
  BY <1>1, LenProperties DEF IsPrefix
<1>3. SubSeq(main, 1, Len(main)) = main
  BY SubSeqFull
<1>4. CASE Len(main) = 0
  BY <1>4, EmptySeq
<1>5. CASE Len(main) = 1
  BY <1>1, <1>2, <1>3, <1>5, SubSeqFull
<1> QED BY <1>2, <1>4, <1>5

LEMMA EmptyType == ASSUME NEW S PROVE Empty \in Repository(S)
BY EmptySeq DEF Empty, Repository

LEMMA PushedMainType ==
    ASSUME NEW S, NEW repo \in Repository(S), NEW c \in S
    PROVE  /\ PushedMain(repo, <<c>>) \in Repository(S)
           /\ PushedMain(repo, <<c>>).main = <<c>> /\ PushedMain(repo, <<c>>).tags = repo.tags
<1>1. <<c>> \in Seq(S)
  OBVIOUS
<1> QED BY <1>1 DEF PushedMain, Repository

LEMMA PushedTagType ==
    ASSUME NEW S, NEW repo \in Repository(S), NEW t \in Tag, NEW c \in S
    PROVE  /\ PushedTag(repo, t, c) \in Repository(S)
           /\ PushedTag(repo, t, c).main = repo.main
           /\ PushedTag(repo, t, c).tags = [repo.tags EXCEPT ![t] = c]
BY DEF PushedTag, Repository

------------------------------------------------------------------------------
\* Type correctness

\* What the process has in hand in each phase.
Shape(p) ==
    /\ pc[p] # "idle" => job[p].run \in 1 .. MaxRuns
    /\ pc[p] \notin {"idle", "next"} => job[p].node \in Node /\ job[p].version \in Version
    /\ pc[p] \in {"main", "tag", "hook"} => job[p].commit \in Commit
    /\ pc[p] \in {"probe", "create"} /\ job[p].workspace => job[p].commit \in Commit
    /\ pc[p] \in {"copy", "hook"} => ~job[p].workspace
    /\ pc[p] = "next" => job[p].workspace
    /\ pc[p] = "tag" => host[job[p].node] # None

ProcessesOK ==
    /\ job \in [Publisher -> Job] /\ pc \in [Publisher -> Phase]
    /\ \A p \in Publisher : Shape(p)

\* Every tree is one edit younger than the one before.
FilesOK ==
    /\ source \in [Node -> Files]
    /\ host \in [Node -> Repository(Commit) \cup {None}]
    /\ index \in [Node -> [Version -> Entry \cup {None}]]
    /\ reported \subseteq Node \X Version \X Commit
    /\ runs \in 0 .. MaxRuns /\ edits \in 0 .. MaxEdits /\ faults \in 0 .. MaxFaults
    /\ \A n \in Node : source[n].tree <= edits

ShapeInv == ProcessesOK /\ FilesOK

LEMMA Facts ==
    /\ None \notin Node /\ None \notin Commit /\ None \notin Entry /\ None \notin Version
    /\ None \notin Repository(Commit) /\ Tag = Version /\ 1 \in Version
    /\ Public \subseteq Node /\ Deps \in [Node -> SUBSET Node]
    /\ MaxRuns \in Nat /\ MaxEdits \in Nat /\ MaxFaults \in Nat /\ MaxVersion \in Nat
BY PublishAssumption, HostAssumption, NoneAssumption DEF Version

LEMMA ShapeType == ShapeInv => TypeOK
BY Facts DEF ShapeInv, ProcessesOK, FilesOK, Shape, TypeOK

LEMMA NoJobType == NoJob \in Job
BY Facts DEF NoJob, Job

------------------------------------------------------------------------------
\* What the actions write into a job, named so that each is typed once

WorkspaceJob(r, c) == [NoJob EXCEPT !.workspace = TRUE, !.run = r, !.chosen = c, !.left = c]
PackageJob(r, n, a, v) == [NoJob EXCEPT !.run = r, !.node = n, !.api = a, !.version = v]
StagedJob(j, n, v, c) == [j EXCEPT !.node = n, !.version = v, !.commit = c]
CopiedJob(j, c) == [j EXCEPT !.commit = c]
DoneJob(j, left) ==
    [j EXCEPT !.left = left, !.node = None, !.version = None, !.commit = None, !.quiet = TRUE]
EditedJob(j, b) == [j EXCEPT !.quiet = b]

LEMMA WorkspaceJobType ==
    ASSUME NEW r \in 0 .. MaxRuns, NEW c \in SUBSET Node
    PROVE  LET k == WorkspaceJob(r, c)
           IN k \in Job /\ k.workspace /\ k.run = r /\ k.chosen = c /\ k.left = c
<1> DEFINE j1 == [NoJob EXCEPT !.workspace = TRUE, !.run = r]
           k == WorkspaceJob(r, c)
<1>1. j1 \in Job /\ j1.workspace /\ j1.run = r
  BY NoJobType DEF Job
<1>2. k = [j1 EXCEPT !.chosen = c, !.left = c]
  BY DEF WorkspaceJob
<1> HIDE DEF j1
<1>3. k \in Job /\ k.workspace /\ k.run = r /\ k.chosen = c /\ k.left = c
  BY <1>1, <1>2 DEF Job
<1> QED BY <1>3

LEMMA PackageJobType ==
    ASSUME NEW r \in 0 .. MaxRuns, NEW n \in Node, NEW a \in BOOLEAN, NEW v \in Version
    PROVE  LET k == PackageJob(r, n, a, v)
           IN k \in Job /\ ~k.workspace /\ k.run = r /\ k.node = n /\ k.version = v
<1> DEFINE j1 == [NoJob EXCEPT !.run = r, !.node = n]
           k == PackageJob(r, n, a, v)
<1>1. j1 \in Job /\ j1.run = r /\ j1.node = n /\ ~j1.workspace
  BY NoJobType DEF Job, NoJob
<1>2. k = [j1 EXCEPT !.api = a, !.version = v]
  BY DEF PackageJob
<1> HIDE DEF j1
<1>3. k \in Job /\ ~k.workspace /\ k.run = r /\ k.node = n /\ k.version = v
  BY <1>1, <1>2 DEF Job
<1> QED BY <1>3

LEMMA StagedJobType ==
    ASSUME NEW j \in Job, NEW n \in Node, NEW v \in Version, NEW c \in Commit
    PROVE  LET k == StagedJob(j, n, v, c)
           IN /\ k \in Job /\ k.node = n /\ k.version = v /\ k.commit = c
              /\ k.workspace = j.workspace /\ k.run = j.run /\ k.chosen = j.chosen
              /\ k.left = j.left /\ k.quiet = j.quiet
<1> DEFINE j1 == [j EXCEPT !.node = n, !.version = v]
           k == StagedJob(j, n, v, c)
<1>1. j1 \in Job /\ j1.node = n /\ j1.version = v /\ j1.workspace = j.workspace /\ j1.run = j.run
      /\ j1.chosen = j.chosen /\ j1.left = j.left /\ j1.quiet = j.quiet
  BY DEF Job
<1>2. k = [j1 EXCEPT !.commit = c]
  BY DEF StagedJob
<1> HIDE DEF j1
<1>3. /\ k \in Job /\ k.node = n /\ k.version = v /\ k.commit = c
      /\ k.workspace = j.workspace /\ k.run = j.run /\ k.chosen = j.chosen
      /\ k.left = j.left /\ k.quiet = j.quiet
  BY <1>1, <1>2 DEF Job
<1> QED BY <1>3

LEMMA DoneJobType ==
    ASSUME NEW j \in Job, NEW left \in SUBSET Node
    PROVE  LET k == DoneJob(j, left)
           IN /\ k \in Job /\ k.left = left /\ k.workspace = j.workspace /\ k.run = j.run
              /\ k.chosen = j.chosen
<1> DEFINE j1 == [j EXCEPT !.left = left, !.node = None]
           j2 == [j1 EXCEPT !.version = None, !.commit = None]
           k == DoneJob(j, left)
<1>1. j1 \in Job /\ j1.left = left /\ j1.workspace = j.workspace /\ j1.run = j.run
      /\ j1.chosen = j.chosen
  BY DEF Job
<1>2. k = [j2 EXCEPT !.quiet = TRUE]
  BY DEF DoneJob
<1> HIDE DEF j1
<1>3. j2 \in Job /\ j2.left = left /\ j2.workspace = j.workspace /\ j2.run = j.run
      /\ j2.chosen = j.chosen
  BY <1>1 DEF Job
<1> HIDE DEF j2
<1>4. k \in Job /\ k.left = left /\ k.workspace = j.workspace /\ k.run = j.run
      /\ k.chosen = j.chosen
  BY <1>2, <1>3 DEF Job
<1> QED BY <1>4

LEMMA CopiedJobType ==
    ASSUME NEW j \in Job, NEW c \in Commit
    PROVE  LET k == CopiedJob(j, c)
           IN /\ k \in Job /\ k.commit = c /\ k.node = j.node /\ k.version = j.version
              /\ k.workspace = j.workspace /\ k.run = j.run /\ k.chosen = j.chosen
              /\ k.left = j.left /\ k.quiet = j.quiet
BY DEF Job, CopiedJob

LEMMA EditedJobType ==
    ASSUME NEW j \in Job, NEW b \in BOOLEAN
    PROVE  LET k == EditedJob(j, b)
           IN /\ k \in Job /\ k.quiet = b /\ k.commit = j.commit /\ k.node = j.node
              /\ k.version = j.version /\ k.workspace = j.workspace /\ k.run = j.run
              /\ k.chosen = j.chosen /\ k.left = j.left
BY DEF Job, EditedJob

\* The commit of a staged package, and that of a package copied on its own.
StagedCommit(p, n) ==
    [files |-> source[n], run |-> job[p].run, staged |-> TRUE,
     first |-> (Deps[n] \ {n}) \cap job[p].chosen, quiet |-> TRUE]
CopiedCommit(p) ==
    [files |-> source[job[p].node], run |-> job[p].run, staged |-> FALSE, first |-> {},
     quiet |-> job[p].quiet]

LEMMA JobFields ==
    ASSUME ShapeInv, NEW p \in Publisher
    PROVE  /\ job[p] \in Job /\ Shape(p) /\ pc[p] \in Phase
           /\ {"idle", "next", "probe", "create", "copy", "main", "tag", "hook"} = Phase
BY DEF ShapeInv, ProcessesOK, FilesOK, Phase

LEMMA StagedCommitType ==
    ASSUME ShapeInv, NEW p \in Publisher, pc[p] = "next", NEW n \in Ready(p)
    PROVE  n \in Node /\ source[n].version \in Version /\ StagedCommit(p, n) \in Commit
<1>1. job[p] \in Job /\ job[p].run \in 1 .. MaxRuns
  BY JobFields DEF Shape
<1>2. n \in Node
  BY <1>1 DEF Ready, Job
<1>3. source[n] \in Files /\ (Deps[n] \ {n}) \cap job[p].chosen \in SUBSET Node
  BY <1>1, <1>2 DEF ShapeInv, FilesOK, Job
<1> QED BY <1>1, <1>2, <1>3 DEF StagedCommit, Commit, Files

LEMMA CopiedCommitType ==
    ASSUME ShapeInv, NEW p \in Publisher, pc[p] = "copy"
    PROVE  CopiedCommit(p) \in Commit
<1>1. job[p].node \in Node /\ job[p].run \in 1 .. MaxRuns /\ job[p].quiet \in BOOLEAN
  BY JobFields DEF Shape, Job
<1>2. source[job[p].node] \in Files /\ {} \in SUBSET Node
  BY <1>1 DEF ShapeInv, FilesOK
<1> QED BY <1>1, <1>2 DEF CopiedCommit, Commit

LEMMA StageDoes ==
    ASSUME NEW p \in Publisher, Stage(p)
    PROVE  \/ End(p)
           \/ \E n \in Ready(p) :
                /\ Put(p, StagedJob(job[p], n, source[n].version, StagedCommit(p, n)))
                /\ Goto(p, "probe")
BY DEF Stage, StagedJob, StagedCommit

------------------------------------------------------------------------------
\* The host only grows

HostTyped == host \in [Node -> Repository(Commit) \cup {None}]

\* A repository stays, a main that is not empty stays as it is, and so does a tag.
HostKeeps ==
    \A n \in Node : host[n] # None =>
        /\ host'[n] # None
        /\ host[n].main # <<>> => host'[n].main = host[n].main
        /\ \A v \in Version : host[n].tags[v] # None => host'[n].tags[v] = host[n].tags[v]

LEMMA HostSame == ShapeInv /\ host' = host => HostTyped' /\ HostKeeps
BY DEF ShapeInv, FilesOK, HostTyped, HostKeeps

LEMMA HostWrite ==
    ASSUME ShapeInv, NEW n \in Node, NEW r \in Repository(Commit), host' = [host EXCEPT ![n] = r],
           host[n] # None =>
             /\ host[n].main # <<>> => r.main = host[n].main
             /\ \A v \in Version : host[n].tags[v] # None => r.tags[v] = host[n].tags[v]
    PROVE  HostTyped' /\ HostKeeps
BY Facts DEF ShapeInv, FilesOK, HostTyped, HostKeeps

\* What a push that is taken does to the host.
Pushes(p) ==
    LET n == job[p].node
    IN /\ Takes(n, <<job[p].commit>>)
       /\ host' = [host EXCEPT ![n] = PushedMain(@, <<job[p].commit>>)]
Tags(p) ==
    LET n == job[p].node
    IN /\ AcceptsTag(host[n], job[p].version)
       /\ host' = [host EXCEPT ![n] = PushedTag(@, job[p].version, job[p].commit)]
TagDone(p) ==
    \/ /\ job[p].workspace /\ Goto(p, "next")
       /\ Put(p, DoneJob(job[p], job[p].left \ {job[p].node}))
    \/ ~job[p].workspace /\ Goto(p, "hook") /\ job' = job
    \/ End(p)

LEMMA PushesDoes ==
    ASSUME ShapeInv, NEW p \in Publisher, pc[p] = "main", Pushes(p)
    PROVE  LET n == job[p].node
           IN /\ HostTyped' /\ HostKeeps /\ host[n] # None
              /\ host[n].main \in {<<>>, <<job[p].commit>>}
              /\ host'[n].main = <<job[p].commit>> /\ host'[n].tags = host[n].tags
              /\ \A m \in Node \ {n} : host'[m] = host[m]
<1> DEFINE n == job[p].node
           c == job[p].commit
           r == PushedMain(host[n], <<c>>)
<1>1. n \in Node /\ c \in Commit
  BY JobFields DEF Shape
<1>2. host[n] # None /\ IsPrefix(host[n].main, <<c>>) /\ host' = [host EXCEPT ![n] = r]
  BY DEF Pushes, Takes, AcceptsMain
<1>3. host[n] \in Repository(Commit) /\ host[n].main \in Seq(Commit)
  BY <1>1, <1>2 DEF ShapeInv, FilesOK, Repository
<1>4. host[n].main = <<>> \/ host[n].main = <<c>>
  BY <1>1, <1>2, <1>3, RootPush
<1>5. r \in Repository(Commit) /\ r.main = <<c>> /\ r.tags = host[n].tags
  BY <1>1, <1>3, PushedMainType
<1> HIDE DEF n, c, r
<1>6. HostTyped' /\ HostKeeps
  BY <1>1, <1>2, <1>4, <1>5, HostWrite
<1>7. host'[n] = r /\ \A m \in Node \ {n} : host'[m] = host[m]
  BY <1>1, <1>2 DEF ShapeInv, FilesOK
<1>8. /\ HostTyped' /\ HostKeeps /\ host[n] # None /\ host[n].main \in {<<>>, <<c>>}
      /\ host'[n].main = <<c>> /\ host'[n].tags = host[n].tags
      /\ \A m \in Node \ {n} : host'[m] = host[m]
  BY <1>2, <1>4, <1>5, <1>6, <1>7
<1> QED BY <1>8 DEF n, c

LEMMA TagsDoes ==
    ASSUME ShapeInv, NEW p \in Publisher, pc[p] = "tag", Tags(p)
    PROVE  LET n == job[p].node
           IN /\ HostTyped' /\ HostKeeps /\ host[n] # None /\ host[n].tags[job[p].version] = None
              /\ host'[n].main = host[n].main
              /\ host'[n].tags = [host[n].tags EXCEPT ![job[p].version] = job[p].commit]
              /\ \A m \in Node \ {n} : host'[m] = host[m]
<1> DEFINE n == job[p].node
           c == job[p].commit
           v == job[p].version
           r == PushedTag(host[n], v, c)
<1>1. n \in Node /\ c \in Commit /\ v \in Version /\ host[n] # None
  BY JobFields DEF Shape
<1>2. host[n].tags[v] = None /\ host' = [host EXCEPT ![n] = r]
  BY DEF Tags, AcceptsTag
<1>3. host[n] \in Repository(Commit) /\ v \in Tag
  BY <1>1, Facts DEF ShapeInv, FilesOK
<1>4. /\ r \in Repository(Commit) /\ r.main = host[n].main
      /\ r.tags = [host[n].tags EXCEPT ![v] = c]
  BY <1>1, <1>3, PushedTagType
<1> HIDE DEF n, c, r, v
<1>5. HostTyped' /\ HostKeeps
  <2>1. \A w \in Version : host[n].tags[w] # None => r.tags[w] = host[n].tags[w]
    BY <1>2, <1>3, <1>4, Facts DEF Repository
  <2> QED BY <1>1, <1>2, <1>4, <2>1, HostWrite
<1>6. host'[n] = r /\ \A m \in Node \ {n} : host'[m] = host[m]
  BY <1>1, <1>2 DEF ShapeInv, FilesOK
<1>7. /\ HostTyped' /\ HostKeeps /\ host[n] # None /\ host[n].tags[v] = None
      /\ host'[n].main = host[n].main /\ host'[n].tags = [host[n].tags EXCEPT ![v] = c]
      /\ \A m \in Node \ {n} : host'[m] = host[m]
  BY <1>1, <1>2, <1>4, <1>5, <1>6
<1> QED BY <1>7 DEF n, c, v

------------------------------------------------------------------------------
\* Every step keeps the shape

LEMMA InitShape == Init => ShapeInv
<1> SUFFICES ASSUME Init PROVE ShapeInv
  OBVIOUS
<1>1. source \in [Node -> Files]
  BY Facts DEF Init, Files
<1> QED BY <1>1, Facts, NoJobType DEF Init, ShapeInv, ProcessesOK, FilesOK, Shape, Phase, Version, NoJob

\* The developer and the operator: no process moves.
LEMMA OutsideShape ==
    ASSUME ShapeInv, NEW n \in Node, Edit(n) \/ Provision(n)
    PROVE  ShapeInv'
<1>1. CASE Edit(n)
  <2>1. /\ source' \in [Node -> Files] /\ edits' \in 0 .. MaxEdits
        /\ \A m \in Node : source'[m].tree <= edits'
    <3>1. PICK bump \in {0, 1} :
             /\ source[n].version + bump \in Version
             /\ source' = [source EXCEPT ![n] = [version |-> source[n].version + bump,
                                                tree |-> source[n].tree + 1]]
      BY <1>1 DEF Edit
    <3>2. \A m \in Node : source[m].tree \in 0 .. MaxEdits /\ source[m].tree <= edits
      BY DEF ShapeInv, ProcessesOK, FilesOK, Files
    <3>3. edits \in Nat /\ edits < MaxEdits /\ edits' = edits + 1
      BY <1>1, Facts DEF Edit, ShapeInv, ProcessesOK, FilesOK
    <3>4. source[n].tree + 1 \in 0 .. MaxEdits
      BY <3>2, <3>3, Facts
    <3>5. [version |-> source[n].version + bump, tree |-> source[n].tree + 1] \in Files
      BY <3>1, <3>4 DEF Files
    <3>6. source' \in [Node -> Files]
      BY <3>1, <3>5 DEF ShapeInv, ProcessesOK, FilesOK
    <3>7. \A m \in Node : source'[m].tree <= edits'
      BY <3>1, <3>2, <3>3 DEF ShapeInv, ProcessesOK, FilesOK
    <3> QED BY <3>3, <3>6, <3>7, Facts
  <2>2. \A p \in Publisher : job'[p] = [job[p] EXCEPT !.quiet = @ /\ job[p].node # n]
    BY <1>1 DEF Edit
  <2>3. \A p \in Publisher :
          /\ job'[p] \in Job /\ job'[p].run = job[p].run /\ job'[p].node = job[p].node
          /\ job'[p].version = job[p].version /\ job'[p].commit = job[p].commit
          /\ job'[p].workspace = job[p].workspace
    <3> SUFFICES ASSUME NEW p \in Publisher
                 PROVE  /\ job'[p] \in Job /\ job'[p].run = job[p].run /\ job'[p].node = job[p].node
                        /\ job'[p].version = job[p].version /\ job'[p].commit = job[p].commit
                        /\ job'[p].workspace = job[p].workspace
      OBVIOUS
    <3>1. job[p] \in Job /\ (job[p].quiet /\ job[p].node # n) \in BOOLEAN
      BY DEF ShapeInv, ProcessesOK, Job
    <3>2. PICK b \in BOOLEAN : job'[p] = EditedJob(job[p], b)
      BY <2>2, <3>1, Zenon DEF EditedJob
    <3> QED BY <3>1, <3>2, EditedJobType
  <2>4. UNCHANGED <<host, index, pc, reported, runs, faults>>
    BY <1>1 DEF Edit
  <2>5. ProcessesOK'
    <3>1. job' \in [Publisher -> Job] /\ pc' \in [Publisher -> Phase]
      BY <1>1, <2>3, <2>4 DEF Edit, ShapeInv, ProcessesOK
    <3>2. \A p \in Publisher : Shape(p)'
      BY <2>3, <2>4 DEF ShapeInv, ProcessesOK, Shape
    <3> QED BY <3>1, <3>2 DEF ProcessesOK
  <2>6. FilesOK'
    BY <2>1, <2>4 DEF ShapeInv, FilesOK
  <2> QED BY <2>5, <2>6 DEF ShapeInv
<1>2. CASE Provision(n)
  <2>1. host' \in [Node -> Repository(Commit) \cup {None}]
    BY <1>2, EmptyType DEF Provision, ShapeInv, ProcessesOK, FilesOK
  <2>2. \A m \in Node : host[m] # None => host'[m] # None
    BY <1>2 DEF Provision, ShapeInv, ProcessesOK, FilesOK
  <2> QED BY <1>2, <2>1, <2>2 DEF Provision, ShapeInv, ProcessesOK, FilesOK, Shape
<1> QED BY <1>1, <1>2

\* A step of p leaves the others where they are.
LEMMA OthersKeep ==
    ASSUME ShapeInv, NEW p \in Publisher,
           StartWorkspace(p) \/ StartPackage(p) \/ Step(p) \/ Interrupt(p),
           NEW q \in Publisher, q # p
    PROVE  pc'[q] = pc[q] /\ job'[q] = job[q]
BY DEF StartWorkspace, StartPackage, Step, Stage, Probe, CreateRepo, Copy, PushMain, Refused, PushTag,
       Hook, Interrupt, Goto, Put, End, ShapeInv, ProcessesOK

\* The process that moves keeps its shape when the rest does.
LEMMA OneMoves ==
    ASSUME ShapeInv, NEW p \in Publisher, NEW j \in Job, NEW phase \in Phase,
           job' = [job EXCEPT ![p] = j], pc' = [pc EXCEPT ![p] = phase],
           UNCHANGED <<source, edits>>, Shape(p)',
           \A n \in Node : host[n] # None => host'[n] # None
    PROVE  ProcessesOK'
<1>1. job' \in [Publisher -> Job] /\ pc' \in [Publisher -> Phase]
  BY DEF ShapeInv, ProcessesOK, FilesOK
<1>2. \A q \in Publisher : Shape(q)'
  BY DEF ShapeInv, ProcessesOK, FilesOK, Shape
<1> QED BY <1>1, <1>2 DEF ProcessesOK

LEMMA EndShape ==
    ASSUME ShapeInv, NEW p \in Publisher, End(p), UNCHANGED <<source, edits>>,
           \A n \in Node : host[n] # None => host'[n] # None
    PROVE  ProcessesOK'
<1>1. pc' = [pc EXCEPT ![p] = "idle"] /\ job' = [job EXCEPT ![p] = NoJob]
  BY DEF End, Goto, Put
<1>2. Shape(p)'
  BY <1>1 DEF Shape, ShapeInv, ProcessesOK, FilesOK
<1>3. "idle" \in Phase
  BY DEF Phase
<1> QED BY <1>1, <1>2, <1>3, NoJobType, OneMoves

LEMMA Counted ==
    /\ ShapeInv /\ NoFault => faults' \in 0 .. MaxFaults
    /\ ShapeInv /\ Fault => faults' \in 0 .. MaxFaults
    /\ ShapeInv /\ runs < MaxRuns /\ runs' = runs + 1 => runs' \in 1 .. MaxRuns
BY Facts DEF ShapeInv, ProcessesOK, FilesOK, Fault, NoFault

LEMMA StartShape ==
    ASSUME ShapeInv, NEW p \in Publisher, StartWorkspace(p) \/ StartPackage(p)
    PROVE  ShapeInv'
<1>1. CASE StartWorkspace(p)
  <2>1. PICK chosen \in {Public} \cup {{n} : n \in Public} :
           /\ runs < MaxRuns /\ runs' = runs + 1
           /\ Put(p, [NoJob EXCEPT !.workspace = TRUE, !.run = runs', !.chosen = chosen, !.left = chosen])
           /\ Goto(p, "next")
           /\ UNCHANGED <<source, host, index, reported, edits, faults>>
    BY <1>1 DEF StartWorkspace
  <2> DEFINE j == WorkspaceJob(runs', chosen)
  <2>2. chosen \subseteq Node /\ runs' \in 1 .. MaxRuns
    BY <2>1, Facts, Counted
  <2>3. j \in Job /\ j.run = runs' /\ j.workspace
    <3>1. runs' \in 0 .. MaxRuns /\ chosen \in SUBSET Node
      BY <2>2, Facts
    <3> QED BY <3>1, WorkspaceJobType
  <2>4. job' = [job EXCEPT ![p] = j] /\ pc' = [pc EXCEPT ![p] = "next"]
    BY <2>1 DEF Put, Goto, WorkspaceJob
  <2> HIDE DEF j
  <2>5. Shape(p)'
    BY <2>2, <2>3, <2>4 DEF Shape, ShapeInv, ProcessesOK, FilesOK
  <2>6. ProcessesOK'
    BY <2>1, <2>3, <2>4, <2>5, JobFields, OneMoves
  <2> QED BY <2>1, <2>2, <2>6 DEF ShapeInv, FilesOK
<1>2. CASE StartPackage(p)
  <2>1. PICK n \in Node, api \in BOOLEAN :
           /\ runs < MaxRuns /\ runs' = runs + 1
           /\ Put(p, [NoJob EXCEPT !.run = runs', !.node = n, !.api = api, !.version = source[n].version])
           /\ Goto(p, IF api THEN "probe" ELSE "copy")
           /\ UNCHANGED <<source, host, index, reported, edits, faults>>
    BY <1>2 DEF StartPackage
  <2> DEFINE j == PackageJob(runs', n, api, source[n].version)
             phase == IF api THEN "probe" ELSE "copy"
  <2>2. source[n].version \in Version /\ runs' \in 1 .. MaxRuns
    BY <2>1, Counted DEF ShapeInv, ProcessesOK, FilesOK, Files
  <2>3. /\ j \in Job /\ j.run = runs' /\ ~j.workspace /\ j.node = n
        /\ j.version = source[n].version
    <3>1. runs' \in 0 .. MaxRuns
      BY <2>2, Facts
    <3> QED BY <2>2, <3>1, PackageJobType
  <2>4. job' = [job EXCEPT ![p] = j] /\ pc' = [pc EXCEPT ![p] = phase] /\ phase \in {"probe", "copy"}
    BY <2>1 DEF Put, Goto, PackageJob
  <2> HIDE DEF j, phase
  <2>5. Shape(p)'
    BY <2>2, <2>3, <2>4 DEF Shape, ShapeInv, ProcessesOK, FilesOK
  <2>6. ProcessesOK'
    BY <2>1, <2>3, <2>4, <2>5, JobFields, OneMoves
  <2> QED BY <2>1, <2>2, <2>6 DEF ShapeInv, FilesOK
<1> QED BY <1>1, <1>2

LEMMA InterruptShape == ASSUME ShapeInv, NEW p \in Publisher, Interrupt(p) PROVE ShapeInv'
<1>1. ProcessesOK'
  BY EndShape DEF Interrupt
<1> QED BY <1>1, Counted DEF Interrupt, ShapeInv, FilesOK

LEMMA StageShape == ASSUME ShapeInv, NEW p \in Publisher, Stage(p) PROVE ShapeInv'
<1>1. UNCHANGED <<source, host, index, reported, runs, edits, faults>> /\ pc[p] = "next"
  BY DEF Stage
<1>2. FilesOK'
  BY <1>1 DEF ShapeInv, FilesOK
<1>3. CASE End(p)
  BY <1>1, <1>2, <1>3, EndShape DEF ShapeInv
<1>4. ASSUME NEW n \in Ready(p),
             Put(p, StagedJob(job[p], n, source[n].version, StagedCommit(p, n))), Goto(p, "probe")
      PROVE  ProcessesOK'
  <2>1. n \in Node /\ StagedCommit(p, n) \in Commit /\ source[n].version \in Version
    BY <1>1, <1>4, JobFields, StagedCommitType
  <2> DEFINE j == StagedJob(job[p], n, source[n].version, StagedCommit(p, n))
  <2>2. j \in Job /\ j.node = n /\ j.version \in Version /\ j.commit \in Commit
        /\ j.workspace = job[p].workspace /\ j.run = job[p].run
    BY <2>1, JobFields, StagedJobType
  <2>3. job' = [job EXCEPT ![p] = j] /\ pc' = [pc EXCEPT ![p] = "probe"]
    BY <1>4 DEF Put, Goto
  <2> HIDE DEF j
  <2>4. Shape(p)'
    BY <1>1, <2>1, <2>2, <2>3, JobFields DEF Shape, ShapeInv, ProcessesOK
  <2> QED BY <1>1, <2>2, <2>3, <2>4, JobFields, OneMoves
<1> QED BY <1>2, <1>3, <1>4, StageDoes DEF ShapeInv

LEMMA ProbeShape == ASSUME ShapeInv, NEW p \in Publisher, Probe(p) PROVE ShapeInv'
<1> DEFINE phase == IF host[job[p].node] = None THEN "create" ELSE AfterCreation(p)
<1>1. /\ pc[p] = "probe" /\ pc' = [pc EXCEPT ![p] = phase] /\ job' = job
      /\ UNCHANGED <<source, host, index, reported, runs, edits, faults>>
  BY DEF Probe, Goto
<1>2. phase = "create" \/ (phase = "main" /\ job[p].workspace)
      \/ (phase = "copy" /\ ~job[p].workspace)
  BY DEF AfterCreation
<1> HIDE DEF phase
<1>3. job' = [job EXCEPT ![p] = job[p]]
  BY <1>1 DEF ShapeInv, ProcessesOK
<1>4. Shape(p)'
  BY <1>1, <1>2, JobFields DEF Shape, ShapeInv, ProcessesOK
<1>5. phase \in Phase /\ job[p] \in Job
  BY <1>2, JobFields
<1>6. ProcessesOK'
  BY <1>1, <1>3, <1>4, <1>5, OneMoves
<1> QED BY <1>1, <1>6 DEF ShapeInv, FilesOK

LEMMA CreateRepoShape == ASSUME ShapeInv, NEW p \in Publisher, CreateRepo(p) PROVE ShapeInv'
<1> DEFINE n == job[p].node
<1>1. n \in Node /\ pc[p] = "create" /\ UNCHANGED <<source, index, reported, runs, edits>>
  BY JobFields DEF CreateRepo, Shape
<1>2. \/ host[n] = None /\ host' = [host EXCEPT ![n] = Empty]
      \/ host' = host
  BY DEF CreateRepo
<1>3. HostTyped' /\ HostKeeps
  BY <1>1, <1>2, EmptyType, HostWrite, HostSame
<1>4. faults' \in 0 .. MaxFaults
  BY Counted DEF CreateRepo
<1>5. \A m \in Node : host[m] # None => host'[m] # None
  BY <1>3 DEF HostKeeps
<1>6. ASSUME End(p) PROVE ProcessesOK'
  BY <1>1, <1>5, <1>6, EndShape
<1>7. ASSUME Goto(p, AfterCreation(p)), job' = job PROVE ProcessesOK'
  <2> DEFINE phase == AfterCreation(p)
  <2>1. (phase = "main" /\ job[p].workspace) \/ (phase = "copy" /\ ~job[p].workspace)
    BY DEF AfterCreation
  <2>2. job' = [job EXCEPT ![p] = job[p]] /\ pc' = [pc EXCEPT ![p] = phase]
    BY <1>7 DEF ShapeInv, ProcessesOK, Goto
  <2> HIDE DEF phase
  <2>3. Shape(p)'
    BY <1>1, <2>1, <2>2, JobFields DEF Shape, ShapeInv, ProcessesOK
  <2>4. phase \in Phase /\ job[p] \in Job
    BY <2>1, JobFields
  <2> QED BY <1>1, <1>5, <2>2, <2>3, <2>4, OneMoves
<1>8. ProcessesOK'
  <2>1. End(p) \/ (Goto(p, AfterCreation(p)) /\ job' = job)
    BY DEF CreateRepo
  <2> QED BY <1>6, <1>7, <2>1
<1> QED BY <1>1, <1>3, <1>4, <1>8 DEF ShapeInv, FilesOK, HostTyped

LEMMA CopyShape == ASSUME ShapeInv, NEW p \in Publisher, Copy(p) PROVE ShapeInv'
<1> DEFINE j == CopiedJob(job[p], CopiedCommit(p))
<1>1. /\ pc[p] = "copy" /\ pc' = [pc EXCEPT ![p] = "main"] /\ job' = [job EXCEPT ![p] = j]
      /\ UNCHANGED <<source, host, index, reported, runs, edits, faults>>
  BY DEF Copy, Goto, Put, CopiedJob, CopiedCommit
<1>2. CopiedCommit(p) \in Commit
  BY <1>1, CopiedCommitType
<1>3. /\ j \in Job /\ j.commit \in Commit /\ j.node = job[p].node /\ j.version = job[p].version
      /\ j.workspace = job[p].workspace /\ j.run = job[p].run
  BY <1>2, JobFields, CopiedJobType
<1> HIDE DEF j
<1>4. Shape(p)'
  BY <1>1, <1>3, JobFields DEF Shape, ShapeInv, ProcessesOK
<1>5. ProcessesOK'
  BY <1>1, <1>3, <1>4, JobFields, OneMoves
<1> QED BY <1>1, <1>5 DEF ShapeInv, FilesOK

LEMMA PushMainShape == ASSUME ShapeInv, NEW p \in Publisher, PushMain(p) PROVE ShapeInv'
<1> DEFINE n == job[p].node
           c == job[p].commit
<1>1. n \in Node /\ c \in Commit /\ pc[p] = "main" /\ UNCHANGED <<source, index, reported, runs, edits>>
  BY JobFields DEF PushMain, Shape
<1>2. \/ End(p) /\ host' = host
      \/ Pushes(p) /\ (End(p) \/ (Goto(p, "tag") /\ job' = job))
  BY DEF PushMain, Refused, Pushes
<1>3. HostTyped' /\ HostKeeps
  BY <1>1, <1>2, PushesDoes, HostSame
<1>4. faults' \in 0 .. MaxFaults
  BY Counted DEF PushMain
<1>5. \A m \in Node : host[m] # None => host'[m] # None
  BY <1>3 DEF HostKeeps
<1>6. ASSUME End(p) PROVE ProcessesOK'
  BY <1>1, <1>5, <1>6, EndShape
<1>7. ASSUME Pushes(p), Goto(p, "tag"), job' = job PROVE ProcessesOK'
  <2>1. job' = [job EXCEPT ![p] = job[p]] /\ pc' = [pc EXCEPT ![p] = "tag"]
    BY <1>7 DEF ShapeInv, ProcessesOK, Goto
  <2>2. host'[n] # None
    BY <1>1, <1>5, <1>7, PushesDoes
  <2>3. Shape(p)'
    BY <1>1, <2>1, <2>2, JobFields DEF Shape, ShapeInv, ProcessesOK
  <2> QED BY <1>1, <1>5, <2>1, <2>3, JobFields, OneMoves
<1>8. ProcessesOK'
  BY <1>2, <1>6, <1>7
<1> QED BY <1>1, <1>3, <1>4, <1>8 DEF ShapeInv, FilesOK, HostTyped

LEMMA PushTagShape == ASSUME ShapeInv, NEW p \in Publisher, PushTag(p) PROVE ShapeInv'
<1> DEFINE n == job[p].node
           c == job[p].commit
           v == job[p].version
<1>1. /\ n \in Node /\ c \in Commit /\ v \in Version /\ host[n] # None /\ pc[p] = "tag"
      /\ UNCHANGED <<source, index, runs, edits>>
  BY JobFields DEF PushTag, Shape
<1>2. \/ End(p) /\ UNCHANGED <<host, reported>>
      \/ /\ Tags(p)
         /\ \/ End(p) /\ reported' = reported
            \/ /\ reported' = reported \cup {<<n, v, c>>}
               /\ TagDone(p)
  BY DEF PushTag, Tags, TagDone, TagOf, DoneJob
<1>3. HostTyped' /\ HostKeeps
  BY <1>1, <1>2, TagsDoes, HostSame
<1>4. faults' \in 0 .. MaxFaults
  BY Counted DEF PushTag
<1>5. \A m \in Node : host[m] # None => host'[m] # None
  BY <1>3 DEF HostKeeps
<1>6. ASSUME End(p) PROVE ProcessesOK'
  BY <1>1, <1>5, <1>6, EndShape
<1>7. ASSUME job[p].workspace, Goto(p, "next"), Put(p, DoneJob(job[p], job[p].left \ {n}))
      PROVE  ProcessesOK'
  <2> DEFINE j == DoneJob(job[p], job[p].left \ {n})
  <2>1. job[p].left \ {n} \in SUBSET Node
    BY JobFields DEF Job
  <2>2. j \in Job /\ j.workspace /\ j.run = job[p].run
    BY <1>7, <2>1, JobFields, DoneJobType
  <2>3. job' = [job EXCEPT ![p] = j] /\ pc' = [pc EXCEPT ![p] = "next"]
    BY <1>7 DEF Put, Goto
  <2> HIDE DEF j
  <2>4. Shape(p)'
    BY <1>1, <2>2, <2>3, JobFields DEF Shape, ShapeInv, ProcessesOK
  <2> QED BY <1>1, <1>5, <2>2, <2>3, <2>4, JobFields, OneMoves
<1>8. ASSUME ~job[p].workspace, Goto(p, "hook"), job' = job PROVE ProcessesOK'
  <2>1. job' = [job EXCEPT ![p] = job[p]] /\ pc' = [pc EXCEPT ![p] = "hook"]
    BY <1>8 DEF ShapeInv, ProcessesOK, Goto
  <2>2. Shape(p)'
    BY <1>1, <1>8, <2>1, JobFields DEF Shape, ShapeInv, ProcessesOK
  <2> QED BY <1>1, <1>5, <2>1, <2>2, JobFields, OneMoves
<1>9. ProcessesOK'
  BY <1>2, <1>6, <1>7, <1>8 DEF TagDone
<1>10. reported' \subseteq Node \X Version \X Commit
  BY <1>1, <1>2 DEF ShapeInv, FilesOK
<1> QED BY <1>1, <1>3, <1>4, <1>9, <1>10 DEF ShapeInv, FilesOK, HostTyped

LEMMA HookShape == ASSUME ShapeInv, NEW p \in Publisher, Hook(p) PROVE ShapeInv'
<1> DEFINE n == job[p].node
           v == source[n].version
           entry == [tree |-> source[n].tree, quiet |-> job[p].quiet]
<1>1. /\ pc[p] = "hook" /\ End(p) /\ n \in Node
      /\ UNCHANGED <<source, host, reported, runs, edits>>
      /\ index' = [index EXCEPT ![n][v] = entry] \/ index' = index
  BY JobFields DEF Hook, Shape
<1>2. faults' \in 0 .. MaxFaults
  BY Counted DEF Hook
<1>3. v \in Version /\ entry \in Entry
  BY <1>1, JobFields DEF ShapeInv, FilesOK, Files, Entry, Job
<1> HIDE DEF n, v, entry
<1>4. index' \in [Node -> [Version -> Entry \cup {None}]]
  <2>1. [index[n] EXCEPT ![v] = entry] \in [Version -> Entry \cup {None}]
    BY <1>1, <1>3 DEF ShapeInv, FilesOK
  <2>2. index' = [index EXCEPT ![n] = [index[n] EXCEPT ![v] = entry]] \/ index' = index
    BY <1>1
  <2> QED BY <1>1, <2>1, <2>2 DEF ShapeInv, FilesOK
<1>5. ProcessesOK'
  BY <1>1, EndShape
<1> QED BY <1>1, <1>2, <1>4, <1>5 DEF ShapeInv, FilesOK

LEMMA NextShape == ShapeInv /\ [Next]_vars => ShapeInv'
<1> SUFFICES ASSUME ShapeInv, [Next]_vars PROVE ShapeInv'
  OBVIOUS
<1>1. CASE UNCHANGED vars
  BY <1>1 DEF vars, ShapeInv, ProcessesOK, FilesOK, Shape
<1>2. CASE \E p \in Publisher : StartWorkspace(p) \/ StartPackage(p)
  BY <1>2, StartShape
<1>3. CASE \E p \in Publisher : Step(p)
  BY <1>3, StageShape, ProbeShape, CreateRepoShape, CopyShape, PushMainShape, PushTagShape,
     HookShape DEF Step
<1>4. CASE \E p \in Publisher : Interrupt(p)
  BY <1>4, InterruptShape
<1>5. CASE \E n \in Node : Edit(n) \/ Provision(n)
  BY <1>5, OutsideShape
<1> QED BY <1>1, <1>2, <1>3, <1>4, <1>5 DEF Next

\* Every reachable state is well typed: a process at a push has its commit, and one
\* at its tag a repository to put it on.
THEOREM TypeCorrect == Spec => []TypeOK
<1>1. Spec => []ShapeInv
  BY InitShape, NextShape, PTL DEF Spec
<1> QED BY <1>1, ShapeType, PTL

------------------------------------------------------------------------------
\* What a process knows of the release it is making

\* Some version of m that run r made is on the host.
OutBy(m, r) == \E w \in Version : Released(m, w) # None /\ Released(m, w).run = r

HasCommit(p) ==
    \/ pc[p] \in {"main", "tag", "hook"}
    \/ pc[p] \in {"probe", "create"} /\ job[p].workspace

\* The commit it has made: its version is the one the tag will name, unless the
\* package was edited between the two reads; what it depends on has had its turn.
CommitOK(p) ==
    LET j == job[p]
        c == job[p].commit
    IN HasCommit(p) =>
        /\ c.run = j.run
        /\ c.staged \/ c.quiet => c.files.version = j.version
        /\ j.workspace => c.first \subseteq j.chosen \ j.left
        /\ ~j.workspace => c.first = {}
        /\ ~j.workspace /\ j.quiet => c.quiet /\ c.files = source[j.node]

\* The manifest it has read, until the package is copied.
ReadOK(p) ==
    pc[p] \in {"probe", "create", "copy"} /\ ~job[p].workspace /\ job[p].quiet =>
        source[job[p].node].version = job[p].version

\* What it has pushed is still there.
PushedOK(p) ==
    /\ pc[p] = "tag" => host[job[p].node].main = <<job[p].commit>>
    /\ pc[p] = "hook" => Released(job[p].node, job[p].version) = job[p].commit

\* The nodes that have had their turn are out.
TurnsOK(p) ==
    job[p].workspace => \A m \in job[p].chosen \ job[p].left : OutBy(m, job[p].run)

Progress(p) == CommitOK(p) /\ ReadOK(p) /\ PushedOK(p) /\ TurnsOK(p)

ProgressInv == ShapeInv /\ \A p \in Publisher : Progress(p)

LEMMA ReleasedKeeps ==
    ASSUME ShapeInv, HostKeeps, NEW n \in Node, NEW v \in Version, Released(n, v) # None
    PROVE  Released(n, v)' = Released(n, v) /\ host'[n] # None /\ host'[n].tags[v] = Released(n, v)
BY DEF HostKeeps, Released, ShapeInv, FilesOK

LEMMA OutByKeeps ==
    ASSUME ShapeInv, HostKeeps, NEW m \in Node, NEW r, OutBy(m, r)
    PROVE  \E w \in Version : Released(m, w)' # None /\ Released(m, w)'.run = r
BY ReleasedKeeps DEF OutBy

\* A process that has not moved knows what it knew.
LEMMA Kept ==
    ASSUME ShapeInv, HostKeeps, source' = source, NEW q \in Publisher, Progress(q),
           pc'[q] = pc[q], job'[q] = job[q]
    PROVE  Progress(q)'
<1>1. CommitOK(q)' /\ ReadOK(q)'
  BY DEF Progress, CommitOK, ReadOK, HasCommit
<1>2. TurnsOK(q)'
  <2>1. \A m \in job[q].chosen : m \in Node
    BY JobFields DEF Job
  <2> QED BY <2>1, OutByKeeps DEF Progress, TurnsOK, OutBy
<1>3. PushedOK(q)'
  <2>1. CASE pc[q] = "tag"
    <3>1. job[q].node \in Node /\ job[q].commit \in Commit /\ host[job[q].node] # None
      BY <2>1, JobFields DEF Shape
    <3>2. host[job[q].node].main = <<job[q].commit>>
      BY <2>1 DEF Progress, PushedOK
    <3>3. <<job[q].commit>> # <<>>
      OBVIOUS
    <3>4. host'[job[q].node].main = <<job[q].commit>>
      BY <3>1, <3>2, <3>3 DEF HostKeeps
    <3> QED BY <2>1, <3>4 DEF PushedOK
  <2>2. CASE pc[q] = "hook"
    <3>1. job[q].node \in Node /\ job[q].version \in Version /\ job[q].commit \in Commit
      BY <2>2, JobFields DEF Shape
    <3>2. Released(job[q].node, job[q].version) = job[q].commit
      BY <2>2 DEF Progress, PushedOK
    <3>3. /\ host'[job[q].node] # None
          /\ host'[job[q].node].tags[job[q].version] = job[q].commit
      BY <3>1, <3>2, Facts, ReleasedKeeps
    <3> QED BY <2>2, <3>3 DEF PushedOK, Released
  <2>3. CASE pc[q] \notin {"tag", "hook"}
    BY <2>3 DEF PushedOK
  <2> QED BY <2>1, <2>2, <2>3
<1> QED BY <1>1, <1>2, <1>3 DEF Progress

\* A process that is idle or at the start of a command knows nothing yet.
LEMMA Fresh ==
    ASSUME NEW q \in Publisher, pc'[q] \in {"idle", "next"},
           job'[q].workspace => job'[q].chosen \ job'[q].left = {}
    PROVE  Progress(q)'
BY DEF Progress, CommitOK, ReadOK, PushedOK, TurnsOK, HasCommit

LEMMA Ended == ASSUME ShapeInv, NEW p \in Publisher, End(p) PROVE Progress(p)'
<1>1. pc'[p] = "idle" /\ ~job'[p].workspace
  BY DEF End, Goto, Put, NoJob, ShapeInv, ProcessesOK
<1> QED BY <1>1, Fresh

LEMMA NextFrame ==
    ASSUME ShapeInv, NEW p \in Publisher,
           StartWorkspace(p) \/ StartPackage(p) \/ Step(p) \/ Interrupt(p)
    PROVE  source' = source
BY DEF StartWorkspace, StartPackage, Step, Stage, Probe, CreateRepo, Copy, PushMain, PushTag, Hook,
       Interrupt

LEMMA HostStep == ShapeInv /\ [Next]_vars => HostKeeps
<1> SUFFICES ASSUME ShapeInv, [Next]_vars PROVE HostKeeps
  OBVIOUS
<1>1. CASE host' = host
  BY <1>1, HostSame
<1>2. ASSUME NEW n \in Node, Provision(n) PROVE HostKeeps
  BY <1>2, EmptyType, HostWrite DEF Provision
<1>3. ASSUME NEW p \in Publisher, CreateRepo(p) PROVE HostKeeps
  <2>1. job[p].node \in Node
    BY <1>3, JobFields DEF CreateRepo, Shape
  <2> QED BY <1>1, <1>3, <2>1, EmptyType, HostWrite DEF CreateRepo
<1>4. ASSUME NEW p \in Publisher, PushMain(p) PROVE HostKeeps
  <2>1. pc[p] = "main" /\ (host' = host \/ Pushes(p))
    BY <1>4 DEF PushMain, Pushes
  <2> QED BY <1>1, <2>1, PushesDoes
<1>5. ASSUME NEW p \in Publisher, PushTag(p) PROVE HostKeeps
  <2>1. pc[p] = "tag" /\ (host' = host \/ Tags(p))
    BY <1>5 DEF PushTag, Tags, TagOf
  <2> QED BY <1>1, <2>1, TagsDoes
<1> QED
  BY <1>1, <1>2, <1>3, <1>4, <1>5
  DEF vars, Next, Step, StartWorkspace, StartPackage, Stage, Probe, Copy, Hook, Interrupt, Edit

LEMMA InitProgress == Init => ProgressInv
<1> SUFFICES ASSUME Init PROVE ProgressInv
  OBVIOUS
<1>1. \A p \in Publisher : Progress(p)
  BY DEF Init, NoJob, Progress, CommitOK, ReadOK, PushedOK, TurnsOK, HasCommit
<1> QED BY <1>1, InitShape DEF ProgressInv

LEMMA StartProgress ==
    ASSUME ProgressInv, NEW p \in Publisher, StartWorkspace(p) \/ StartPackage(p)
    PROVE  Progress(p)'
<1>0. ShapeInv
  BY DEF ProgressInv
<1>1. CASE StartWorkspace(p)
  <2>1. PICK chosen \in {Public} \cup {{n} : n \in Public} :
           /\ runs < MaxRuns /\ runs' = runs + 1
           /\ job' = [job EXCEPT ![p] = WorkspaceJob(runs', chosen)] /\ pc' = [pc EXCEPT ![p] = "next"]
    BY <1>1 DEF StartWorkspace, Put, Goto, WorkspaceJob
  <2>2. chosen \in SUBSET Node /\ runs' \in 0 .. MaxRuns
    BY <1>0, <2>1, Facts, Counted
  <2>3. job'[p] = WorkspaceJob(runs', chosen) /\ pc'[p] = "next"
    BY <1>0, <2>1 DEF ShapeInv, ProcessesOK
  <2>4. job'[p].chosen = chosen /\ job'[p].left = chosen
    BY <2>2, <2>3, WorkspaceJobType
  <2> QED BY <2>3, <2>4, Fresh
<1>2. CASE StartPackage(p)
  <2>1. PICK n \in Node, api \in BOOLEAN :
           /\ runs < MaxRuns /\ runs' = runs + 1 /\ source' = source
           /\ job' = [job EXCEPT ![p] = PackageJob(runs', n, api, source[n].version)]
           /\ pc' = [pc EXCEPT ![p] = IF api THEN "probe" ELSE "copy"]
    BY <1>2 DEF StartPackage, Put, Goto, PackageJob
  <2>2. source[n].version \in Version /\ runs' \in 0 .. MaxRuns
    BY <1>0, <2>1, Facts, Counted DEF ShapeInv, FilesOK, Files
  <2>3. job'[p] = PackageJob(runs', n, api, source[n].version) /\ pc'[p] \in {"probe", "copy"}
    BY <1>0, <2>1 DEF ShapeInv, ProcessesOK
  <2>4. ~job'[p].workspace /\ job'[p].node = n /\ job'[p].version = source[n].version
    BY <2>2, <2>3, PackageJobType
  <2> QED BY <2>1, <2>3, <2>4 DEF Progress, CommitOK, ReadOK, PushedOK, TurnsOK, HasCommit
<1> QED BY <1>1, <1>2

LEMMA StageProgress == ASSUME ProgressInv, NEW p \in Publisher, Stage(p) PROVE Progress(p)'
<1>0. ShapeInv /\ Progress(p) /\ pc[p] = "next" /\ job[p].workspace /\ host' = host
  BY JobFields DEF ProgressInv, Stage, Shape
<1>1. CASE End(p)
  BY <1>0, <1>1, Ended
<1>2. ASSUME NEW n \in Ready(p),
             Put(p, StagedJob(job[p], n, source[n].version, StagedCommit(p, n))), Goto(p, "probe")
      PROVE  Progress(p)'
  <2> DEFINE c == StagedCommit(p, n)
             j == StagedJob(job[p], n, source[n].version, c)
  <2>1. n \in Node /\ source[n].version \in Version /\ c \in Commit /\ job[p] \in Job
    BY <1>0, <1>2, StagedCommitType, JobFields
  <2>2. /\ c.run = job[p].run /\ c.staged /\ c.files.version = source[n].version
        /\ c.first = (Deps[n] \ {n}) \cap job[p].chosen
    BY DEF StagedCommit
  <2>3. c.first \subseteq job[p].chosen \ job[p].left
    BY <1>2, <2>2 DEF Ready
  <2>4. /\ j.version = source[n].version /\ j.commit = c /\ j.workspace /\ j.run = job[p].run
        /\ j.chosen = job[p].chosen /\ j.left = job[p].left
    BY <1>0, <2>1, StagedJobType
  <2>5. job'[p] = j /\ pc'[p] = "probe"
    BY <1>0, <1>2 DEF Put, Goto, ShapeInv, ProcessesOK
  <2> HIDE DEF j, c
  <2>6. CommitOK(p)'
    BY <2>2, <2>3, <2>4, <2>5 DEF CommitOK
  <2>7. ReadOK(p)' /\ PushedOK(p)'
    BY <2>4, <2>5 DEF ReadOK, PushedOK
  <2>8. TurnsOK(p)'
    BY <1>0, <2>4, <2>5 DEF Progress, TurnsOK, OutBy, Released
  <2> QED BY <2>6, <2>7, <2>8 DEF Progress
<1> QED BY <1>1, <1>2, StageDoes

LEMMA TurnsKept ==
    ASSUME ShapeInv, HostKeeps, NEW p \in Publisher, TurnsOK(p),
           job'[p].workspace = job[p].workspace, job'[p].run = job[p].run,
           job'[p].chosen = job[p].chosen, job'[p].left = job[p].left
    PROVE  TurnsOK(p)'
<1>1. \A m \in job[p].chosen : m \in Node
  BY JobFields DEF Job
<1> QED BY <1>1, OutByKeeps DEF TurnsOK, OutBy

\* Up to the push of main with the commit it has, or to the copy that makes one.
LEMMA Waits ==
    ASSUME ShapeInv, HostKeeps, source' = source, NEW p \in Publisher, Progress(p),
           job'[p] = job[p], pc[p] \in {"probe", "create"},
           \/ pc'[p] = "create"
           \/ pc'[p] = "main" /\ job[p].workspace
           \/ pc'[p] = "copy" /\ ~job[p].workspace
    PROVE  Progress(p)'
<1>1. CommitOK(p)'
  BY DEF Progress, CommitOK, HasCommit
<1>2. ReadOK(p)' /\ PushedOK(p)'
  BY DEF Progress, ReadOK, PushedOK
<1>3. TurnsOK(p)'
  BY TurnsKept DEF Progress
<1> QED BY <1>1, <1>2, <1>3 DEF Progress

LEMMA ProbeProgress == ASSUME ProgressInv, NEW p \in Publisher, Probe(p) PROVE Progress(p)'
<1>1. /\ ShapeInv /\ Progress(p) /\ pc[p] = "probe" /\ job'[p] = job[p] /\ source' = source
      /\ host' = host
  BY DEF ProgressInv, Probe
<1>2. pc'[p] = IF host[job[p].node] = None THEN "create" ELSE AfterCreation(p)
  BY <1>1 DEF Probe, Goto, ShapeInv, ProcessesOK
<1> QED BY <1>1, <1>2, HostSame, Waits DEF AfterCreation

LEMMA CreateRepoProgress ==
    ASSUME ProgressInv, HostKeeps, NEW p \in Publisher, CreateRepo(p) PROVE Progress(p)'
<1>1. /\ ShapeInv /\ Progress(p) /\ pc[p] = "create" /\ source' = source
      /\ End(p) \/ (Goto(p, AfterCreation(p)) /\ job' = job)
  BY DEF ProgressInv, CreateRepo
<1>2. ASSUME Goto(p, AfterCreation(p)), job' = job PROVE Progress(p)'
  <2>1. pc'[p] = AfterCreation(p)
    BY <1>1, <1>2 DEF Goto, ShapeInv, ProcessesOK
  <2> QED BY <1>1, <1>2, <2>1, Waits DEF AfterCreation
<1> QED BY <1>1, <1>2, Ended

LEMMA CopyProgress == ASSUME ProgressInv, NEW p \in Publisher, Copy(p) PROVE Progress(p)'
<1> DEFINE c == CopiedCommit(p)
           j == CopiedJob(job[p], c)
<1>1. ShapeInv /\ Progress(p) /\ pc[p] = "copy" /\ source' = source /\ ~job[p].workspace
  BY JobFields DEF ProgressInv, Copy, Shape
<1>2. job'[p] = j /\ pc'[p] = "main"
  BY <1>1 DEF Copy, Put, Goto, CopiedJob, CopiedCommit, ShapeInv, ProcessesOK
<1>3. c \in Commit /\ job[p] \in Job
  BY <1>1, CopiedCommitType, JobFields
<1>4. /\ j.commit = c /\ j.workspace = job[p].workspace /\ j.run = job[p].run
      /\ j.version = job[p].version /\ j.node = job[p].node /\ j.quiet = job[p].quiet
  BY <1>3, CopiedJobType
<1>5. /\ c.run = job[p].run /\ ~c.staged /\ c.first = {} /\ c.quiet = job[p].quiet
      /\ c.files = source[job[p].node]
  BY DEF CopiedCommit
<1> HIDE DEF j, c
<1>6. job[p].quiet => c.files.version = job[p].version
  BY <1>1, <1>5 DEF Progress, ReadOK
<1>7. CommitOK(p)'
  BY <1>1, <1>2, <1>4, <1>5, <1>6 DEF CommitOK
<1> QED BY <1>1, <1>2, <1>4, <1>7 DEF Progress, ReadOK, PushedOK, TurnsOK

LEMMA PushMainProgress ==
    ASSUME ProgressInv, HostKeeps, NEW p \in Publisher, PushMain(p) PROVE Progress(p)'
<1>1. /\ ShapeInv /\ Progress(p) /\ pc[p] = "main" /\ source' = source
      /\ End(p) \/ (Pushes(p) /\ Goto(p, "tag") /\ job' = job)
  BY DEF ProgressInv, PushMain, Refused, Pushes
<1>2. ASSUME Pushes(p), Goto(p, "tag"), job' = job PROVE Progress(p)'
  <2>1. pc'[p] = "tag" /\ job'[p] = job[p]
    BY <1>1, <1>2 DEF Goto, ShapeInv, ProcessesOK
  <2>2. host'[job[p].node].main = <<job[p].commit>>
    BY <1>1, <1>2, PushesDoes
  <2>3. CommitOK(p)' /\ ReadOK(p)' /\ PushedOK(p)'
    BY <1>1, <2>1, <2>2 DEF Progress, CommitOK, HasCommit, ReadOK, PushedOK
  <2>4. TurnsOK(p)'
    BY <1>1, <2>1, TurnsKept DEF Progress
  <2> QED BY <2>3, <2>4 DEF Progress
<1> QED BY <1>1, <1>2, Ended

LEMMA PushTagProgress ==
    ASSUME ProgressInv, HostKeeps, NEW p \in Publisher, PushTag(p) PROVE Progress(p)'
<1>1. /\ ShapeInv /\ Progress(p) /\ pc[p] = "tag" /\ source' = source
      /\ End(p) \/ (Tags(p) /\ TagDone(p))
  BY DEF ProgressInv, PushTag, Tags, TagDone, TagOf, DoneJob
<1>2. PICK n \in Node, v \in Version, c \in Commit :
         n = job[p].node /\ v = job[p].version /\ c = job[p].commit
  BY <1>1, JobFields DEF Shape
<1>3. Tags(p) => host'[n] # None /\ host'[n].tags[v] = c
  <2>1. Tags(p) => host[n] # None /\ host[n] \in Repository(Commit) /\ host'[n].tags = [host[n].tags EXCEPT ![v] = c]
    BY <1>1, <1>2, TagsDoes DEF ShapeInv, FilesOK
  <2> QED BY <1>2, <2>1, Facts DEF Repository, HostKeeps
<1>4. ASSUME Tags(p), job[p].workspace, Goto(p, "next"), Put(p, DoneJob(job[p], job[p].left \ {n}))
      PROVE  Progress(p)'
  <2> DEFINE j == DoneJob(job[p], job[p].left \ {n})
  <2>1. job'[p] = j /\ pc'[p] = "next" /\ job[p] \in Job /\ job[p].left \ {n} \in SUBSET Node
    BY <1>1, <1>4, JobFields DEF Goto, Put, ShapeInv, ProcessesOK, Job
  <2>2. j.left = job[p].left \ {n} /\ j.workspace /\ j.run = job[p].run /\ j.chosen = job[p].chosen
    BY <1>4, <2>1, DoneJobType
  <2> HIDE DEF j
  <2>3. \E w \in Version : Released(n, w)' # None /\ Released(n, w)'.run = job[p].run
    <3>1. c.run = job[p].run
      BY <1>1, <1>2 DEF Progress, CommitOK, HasCommit
    <3>2. Released(n, v)' = c
      BY <1>3, <1>4 DEF Released
    <3> QED BY <3>1, <3>2, Facts
  <2>4. \A m \in job[p].chosen \ job[p].left :
            \E w \in Version : Released(m, w)' # None /\ Released(m, w)'.run = job[p].run
    <3>1. \A m \in job[p].chosen : m \in Node
      BY <2>1 DEF Job
    <3> QED BY <1>1, <1>4, <3>1, OutByKeeps DEF Progress, TurnsOK
  <2>5. TurnsOK(p)'
    BY <2>1, <2>2, <2>3, <2>4 DEF TurnsOK, OutBy
  <2> QED BY <2>1, <2>5 DEF Progress, CommitOK, HasCommit, ReadOK, PushedOK
<1>5. ASSUME Tags(p), ~job[p].workspace, Goto(p, "hook"), job' = job PROVE Progress(p)'
  <2>1. pc'[p] = "hook" /\ job'[p] = job[p]
    BY <1>1, <1>5 DEF Goto, ShapeInv, ProcessesOK
  <2>2. PushedOK(p)'
    BY <1>2, <1>3, <1>5, <2>1 DEF PushedOK, Released
  <2>3. CommitOK(p)' /\ ReadOK(p)'
    BY <1>1, <2>1 DEF Progress, CommitOK, HasCommit, ReadOK
  <2> QED BY <1>5, <2>1, <2>2, <2>3 DEF Progress, TurnsOK
<1> QED BY <1>1, <1>2, <1>4, <1>5, Ended DEF TagDone

LEMMA EditProgress ==
    ASSUME ProgressInv, NEW n \in Node, Edit(n), NEW q \in Publisher PROVE Progress(q)'
<1>0. ShapeInv /\ Progress(q) /\ job[q] \in Job
  BY JobFields DEF ProgressInv
<1>1. PICK b \in BOOLEAN :
         /\ b => job[q].quiet /\ job[q].node # n
         /\ job'[q] = EditedJob(job[q], b)
  <2>1. (job[q].quiet /\ job[q].node # n) \in BOOLEAN
    BY <1>0 DEF Job
  <2>2. job'[q] = [job[q] EXCEPT !.quiet = job[q].quiet /\ job[q].node # n]
    BY DEF Edit
  <2> QED BY <2>1, <2>2, Zenon DEF EditedJob
<1>2. /\ job'[q].quiet = b /\ job'[q].commit = job[q].commit /\ job'[q].node = job[q].node
      /\ job'[q].version = job[q].version /\ job'[q].workspace = job[q].workspace
      /\ job'[q].run = job[q].run /\ job'[q].chosen = job[q].chosen /\ job'[q].left = job[q].left
  BY <1>0, <1>1, EditedJobType
<1>3. host' = host /\ pc' = pc
  BY DEF Edit
<1>4. b => source'[job[q].node] = source[job[q].node]
  BY <1>0, <1>1 DEF Edit, ShapeInv, FilesOK
<1>5. CommitOK(q)' /\ ReadOK(q)'
  BY <1>0, <1>1, <1>2, <1>3, <1>4 DEF Progress, CommitOK, HasCommit, ReadOK
<1>6. PushedOK(q)'
  BY <1>0, <1>2, <1>3 DEF Progress, PushedOK, Released
<1>7. TurnsOK(q)'
  BY <1>0, <1>2, <1>3, HostSame, TurnsKept DEF Progress
<1> QED BY <1>5, <1>6, <1>7 DEF Progress

LEMMA NextProgress == ProgressInv /\ [Next]_vars => ProgressInv'
<1> SUFFICES ASSUME ProgressInv, [Next]_vars PROVE ProgressInv'
  OBVIOUS
<1>1. ShapeInv /\ ShapeInv' /\ HostKeeps
  BY NextShape, HostStep DEF ProgressInv
<1>2. ASSUME NEW p \in Publisher,
             StartWorkspace(p) \/ StartPackage(p) \/ Step(p) \/ Interrupt(p),
             NEW q \in Publisher
      PROVE  Progress(q)'
  <2>1. CASE q # p
    BY <1>1, <1>2, <2>1, OthersKeep, NextFrame, Kept DEF ProgressInv
  <2>2. CASE q = p
    <3>1. CASE Interrupt(p)
      BY <1>1, <2>2, <3>1, Ended DEF Interrupt
    <3>2. CASE Hook(p)
      BY <1>1, <2>2, <3>2, Ended DEF Hook
    <3> QED
      BY <1>1, <1>2, <2>2, <3>1, <3>2, StartProgress, StageProgress, ProbeProgress,
         CreateRepoProgress, CopyProgress, PushMainProgress, PushTagProgress DEF Step
  <2> QED BY <2>1, <2>2
<1>3. ASSUME NEW n \in Node, Provision(n), NEW q \in Publisher PROVE Progress(q)'
  BY <1>1, <1>3, Kept DEF Provision, ProgressInv
<1>4. ASSUME UNCHANGED vars, NEW q \in Publisher PROVE Progress(q)'
  BY <1>1, <1>4, Kept DEF vars, ProgressInv
<1>5. \A q \in Publisher : Progress(q)'
  BY <1>2, <1>3, <1>4, EditProgress DEF Next
<1> QED BY <1>1, <1>5 DEF ProgressInv

------------------------------------------------------------------------------
\* The properties

\* A tag that was not there is one that a process at its tag has just pushed.
LEMMA NewRelease ==
    ASSUME ProgressInv, [Next]_vars, NEW n \in Node, NEW v \in Version,
           Released(n, v)' # None, Released(n, v)' # Released(n, v)
    PROVE  \E p \in Publisher :
              /\ pc[p] = "tag" /\ n = job[p].node /\ v = job[p].version /\ HasCommit(p)
              /\ job[p].commit \in Commit /\ Released(n, v)' = job[p].commit
              /\ host[n] # None /\ host'[n].main = host[n].main
<1>1. ShapeInv
  BY DEF ProgressInv
<1>2. CASE host' = host
  BY <1>2 DEF Released
<1>3. ASSUME NEW m \in Node, host[m] = None, host' = [host EXCEPT ![m] = Empty]
      PROVE  Released(n, v)' = None \/ Released(n, v)' = Released(n, v)
  BY <1>1, <1>3, Facts DEF Released, Empty, ShapeInv, FilesOK
<1>4. ASSUME NEW p \in Publisher, pc[p] = "main", Pushes(p)
      PROVE  Released(n, v)' = Released(n, v)
  BY <1>1, <1>4, PushesDoes DEF Released, HostKeeps
<1>5. ASSUME NEW p \in Publisher, pc[p] = "tag", Tags(p)
      PROVE  /\ n = job[p].node /\ v = job[p].version /\ HasCommit(p) /\ job[p].commit \in Commit
             /\ Released(n, v)' = job[p].commit /\ host[n] # None /\ host'[n].main = host[n].main
  <2>1. job[p].node \in Node /\ job[p].version \in Version /\ job[p].commit \in Commit
    BY <1>1, <1>5, JobFields DEF Shape
  <2>2. /\ HostKeeps /\ host[job[p].node] # None
        /\ host'[job[p].node].main = host[job[p].node].main
        /\ host'[job[p].node].tags = [host[job[p].node].tags EXCEPT ![job[p].version] = job[p].commit]
        /\ \A m \in Node \ {job[p].node} : host'[m] = host[m]
    BY <1>1, <1>5, TagsDoes
  <2>3. host[job[p].node].tags \in [Version -> Commit \cup {None}]
    BY <1>1, <2>1, <2>2, Facts DEF ShapeInv, FilesOK, Repository
  <2>4. n = job[p].node
    BY <2>2 DEF Released
  <2>5. host'[n] # None
    BY <2>2, <2>4 DEF HostKeeps
  <2>6. v = job[p].version
    BY <2>2, <2>3, <2>4, <2>5 DEF Released
  <2> QED BY <1>5, <2>1, <2>2, <2>3, <2>4, <2>5, <2>6 DEF Released, HasCommit
<1>6. \/ host' = host
      \/ \E m \in Node : host[m] = None /\ host' = [host EXCEPT ![m] = Empty]
      \/ \E p \in Publisher : pc[p] = "main" /\ Pushes(p)
      \/ \E p \in Publisher : pc[p] = "tag" /\ Tags(p)
  <2>1. ASSUME NEW p \in Publisher, CreateRepo(p)
        PROVE  host' = host \/ \E m \in Node : host[m] = None /\ host' = [host EXCEPT ![m] = Empty]
    BY <1>1, <2>1, JobFields DEF CreateRepo, Shape
  <2>2. ASSUME NEW p \in Publisher, PushMain(p) PROVE host' = host \/ (pc[p] = "main" /\ Pushes(p))
    BY <2>2 DEF PushMain, Pushes
  <2>3. ASSUME NEW p \in Publisher, PushTag(p) PROVE host' = host \/ (pc[p] = "tag" /\ Tags(p))
    BY <2>3 DEF PushTag, Tags, TagOf
  <2> QED
    BY <2>1, <2>2, <2>3
    DEF vars, Next, Step, StartWorkspace, StartPackage, Stage, Probe, Copy, Hook, Interrupt, Edit,
        Provision
<1> QED BY <1>2, <1>3, <1>4, <1>5, <1>6

ReleaseInv == ProgressInv /\ TagNamesVersion /\ ReleaseIsOnMain /\ DependenciesFirst /\ ReportIsTrue

\* A step that tags: what was released stays, what is new is the tagging process's.
LEMMA NextTagNamesVersion == ReleaseInv /\ [Next]_vars => TagNamesVersion'
<1> SUFFICES ASSUME ReleaseInv, [Next]_vars, NEW n \in Node, NEW v \in Version,
                    Released(n, v)' # None, Released(n, v)'.staged \/ Released(n, v)'.quiet
             PROVE  Released(n, v)'.files.version = v
  BY DEF TagNamesVersion
<1>1. CASE Released(n, v)' = Released(n, v)
  BY <1>1 DEF ReleaseInv, TagNamesVersion
<1>2. CASE Released(n, v)' # Released(n, v)
  <2>1. PICK p \in Publisher : /\ v = job[p].version /\ HasCommit(p)
                               /\ Released(n, v)' = job[p].commit
    BY <1>2, NewRelease DEF ReleaseInv
  <2> QED BY <2>1 DEF ReleaseInv, ProgressInv, Progress, CommitOK
<1> QED BY <1>1, <1>2

LEMMA NextReleaseIsOnMain == ReleaseInv /\ [Next]_vars => ReleaseIsOnMain'
<1> SUFFICES ASSUME ReleaseInv, [Next]_vars, NEW n \in Node, NEW v \in Version,
                    Released(n, v)' # None
             PROVE  host'[n].main = <<Released(n, v)'>>
  BY DEF ReleaseIsOnMain
<1>1. CASE Released(n, v)' = Released(n, v)
  <2>1. host[n] # None /\ host[n].main = <<Released(n, v)>>
    BY <1>1 DEF ReleaseInv, ReleaseIsOnMain, Released
  <2>2. <<Released(n, v)>> # <<>>
    OBVIOUS
  <2> QED BY <1>1, <2>1, <2>2, HostStep DEF ReleaseInv, ProgressInv, HostKeeps
<1>2. CASE Released(n, v)' # Released(n, v)
  <2>1. PICK p \in Publisher : /\ pc[p] = "tag" /\ n = job[p].node
                               /\ Released(n, v)' = job[p].commit /\ host'[n].main = host[n].main
    BY <1>2, NewRelease DEF ReleaseInv
  <2> QED BY <2>1 DEF ReleaseInv, ProgressInv, Progress, PushedOK
<1> QED BY <1>1, <1>2

LEMMA NextDependenciesFirst == ReleaseInv /\ [Next]_vars => DependenciesFirst'
<1> SUFFICES ASSUME ReleaseInv, [Next]_vars, NEW n \in Node, NEW v \in Version,
                    Released(n, v)' # None, NEW d \in Released(n, v)'.first
             PROVE  \E w \in Version : /\ Released(d, w)' # None
                                       /\ Released(d, w)'.run = Released(n, v)'.run
  BY DEF DependenciesFirst
<1>0. ShapeInv /\ HostKeeps /\ ShapeInv'
  BY HostStep, NextShape DEF ReleaseInv, ProgressInv
<1>1. PICK c \in Commit : c = Released(n, v)'
  <2>1. host'[n] \in Repository(Commit) /\ Released(n, v)' = host'[n].tags[v]
    BY <1>0 DEF ShapeInv, FilesOK, Released
  <2> QED BY <2>1, Facts DEF Repository
<1>2. d \in Node
  BY <1>1 DEF Commit
<1>3. OutBy(d, c.run)
  <2>1. CASE Released(n, v)' = Released(n, v)
    BY <1>1, <2>1 DEF ReleaseInv, DependenciesFirst, OutBy
  <2>2. CASE Released(n, v)' # Released(n, v)
    <3>1. PICK p \in Publisher : HasCommit(p) /\ c = job[p].commit
      BY <1>1, <2>2, NewRelease DEF ReleaseInv
    <3>2. Progress(p) /\ job[p] \in Job
      BY <1>0, JobFields DEF ReleaseInv, ProgressInv
    <3>3. c.run = job[p].run /\ job[p].workspace /\ d \in job[p].chosen \ job[p].left
      BY <1>1, <3>1, <3>2 DEF Progress, CommitOK
    <3> QED BY <3>2, <3>3 DEF Progress, TurnsOK
  <2> QED BY <2>1, <2>2
<1> QED BY <1>0, <1>1, <1>2, <1>3, OutByKeeps

LEMMA NextReportIsTrue == ReleaseInv /\ [Next]_vars => ReportIsTrue'
<1> SUFFICES ASSUME ReleaseInv, [Next]_vars, NEW r \in reported'
             PROVE  Released(r[1], r[2])' = r[3]
  BY DEF ReportIsTrue
<1>0. ShapeInv /\ HostKeeps /\ ProgressInv
  BY HostStep DEF ReleaseInv, ProgressInv
<1>1. CASE r \in reported
  <2>1. r[1] \in Node /\ r[2] \in Version /\ r[3] \in Commit
    BY <1>0, <1>1 DEF ShapeInv, FilesOK
  <2>2. Released(r[1], r[2]) = r[3]
    BY <1>1 DEF ReleaseInv, ReportIsTrue
  <2> QED BY <1>0, <2>1, <2>2, Facts, ReleasedKeeps
<1>2. CASE r \notin reported
  <2>1. PICK p \in Publisher :
           PushTag(p) /\ Tags(p) /\ r = <<job[p].node, job[p].version, job[p].commit>>
    BY <1>2 DEF vars, Next, Step, StartWorkspace, StartPackage, Stage, Probe, CreateRepo, Copy,
       PushMain, PushTag, Hook, Interrupt, Edit, Provision, Tags, TagOf
  <2>2. PICK n \in Node, v \in Version, c \in Commit :
           n = job[p].node /\ v = job[p].version /\ c = job[p].commit /\ host[n] # None
    BY <1>0, <2>1, JobFields DEF PushTag, Shape
  <2>3. host[n] \in Repository(Commit) /\ HostKeeps /\ host'[n].tags = [host[n].tags EXCEPT ![v] = c]
    BY <1>0, <2>1, <2>2, TagsDoes DEF PushTag, ShapeInv, FilesOK
  <2>4. host'[n] # None /\ host'[n].tags[v] = c
    BY <2>2, <2>3, Facts DEF HostKeeps, Repository
  <2> QED BY <2>1, <2>2, <2>4 DEF Released
<1> QED BY <1>1, <1>2

LEMMA NextRelease == ReleaseInv /\ [Next]_vars => ReleaseInv'
BY NextProgress, NextTagNamesVersion, NextReleaseIsOnMain, NextDependenciesFirst, NextReportIsTrue
DEF ReleaseInv

LEMMA InitRelease == Init => ReleaseInv
<1> SUFFICES ASSUME Init PROVE ReleaseInv
  OBVIOUS
<1>1. \A n \in Node, v \in Version : Released(n, v) = None
  BY DEF Init, Released
<1>2. reported = {}
  BY DEF Init
<1> QED BY <1>1, <1>2, InitProgress
        DEF ReleaseInv, TagNamesVersion, ReleaseIsOnMain, DependenciesFirst, ReportIsTrue

LEMMA AlwaysRelease == Spec => []ReleaseInv
BY InitRelease, NextRelease, PTL DEF Spec

\* The hook writes what the package is now; while nobody has edited it, that is what
\* the process released.
LEMMA NextIndexed ==
    ProgressInv /\ IndexedIsReleased /\ [Next]_vars => IndexedIsReleased'
<1> SUFFICES ASSUME ProgressInv, IndexedIsReleased, [Next]_vars, NEW n \in Node, NEW v \in Version,
                    index'[n][v] # None, index'[n][v].quiet
             PROVE  Released(n, v)' # None /\ Released(n, v)'.files.tree = index'[n][v].tree
  BY DEF IndexedIsReleased
<1>0. ShapeInv /\ HostKeeps
  BY HostStep DEF ProgressInv
<1>1. CASE index'[n][v] = index[n][v]
  BY <1>0, <1>1, ReleasedKeeps DEF IndexedIsReleased
<1>2. CASE index'[n][v] # index[n][v]
  <2>1. PICK p \in Publisher : Hook(p) /\ index' # index
    BY <1>2 DEF vars, Next, Step, StartWorkspace, StartPackage, Stage, Probe, CreateRepo, Copy,
       PushMain, PushTag, Interrupt, Edit, Provision
  <2>2. PICK m \in Node, w \in Version, c \in Commit :
           /\ m = job[p].node /\ w = job[p].version /\ c = job[p].commit
           /\ ~job[p].workspace /\ pc[p] = "hook" /\ HasCommit(p)
    BY <1>0, <2>1, JobFields DEF Hook, Shape, HasCommit
  <2> DEFINE entry == [tree |-> source[m].tree, quiet |-> job[p].quiet]
  <2>3. index' = [index EXCEPT ![m] = [index[m] EXCEPT ![source[m].version] = entry]] /\ host' = host
    BY <2>1, <2>2 DEF Hook
  <2>4. n = m /\ v = source[m].version /\ index'[n][v] = entry
    BY <1>0, <1>2, <2>3 DEF ShapeInv, FilesOK
  <2>5. job[p].quiet /\ index'[n][v].tree = source[m].tree
    BY <2>4
  <2>6. c.files = source[m] /\ c.files.version = w /\ Released(m, w) = c
    BY <2>2, <2>5 DEF ProgressInv, Progress, CommitOK, PushedOK
  <2>7. Released(n, v)' = c
    BY <2>3, <2>4, <2>6 DEF Released
  <2> QED BY <2>5, <2>6, <2>7, Facts
<1> QED BY <1>1, <1>2

LEMMA InitIndexed == Init => IndexedIsReleased
BY DEF Init, IndexedIsReleased

\* stage_node and publish: whatever the number of publishers, packages and edits, the
\* tree under a tag says the version of the tag, if it was staged or the package lay
\* still while it was published.
THEOREM TagsNameVersions == Spec => []TagNamesVersion
BY AlwaysRelease, PTL DEF ReleaseInv

\* push_release: a tagged commit is the commit on main, for ever.
THEOREM ReleasesAreOnMain == Spec => []ReleaseIsOnMain
BY AlwaysRelease, PTL DEF ReleaseInv

\* publish_loop: for every dependency graph, what a member depends on within its run
\* is released before it, and stays.
THEOREM DependenciesComeFirst == Spec => []DependenciesFirst
BY AlwaysRelease, PTL DEF ReleaseInv

\* publish: a report stays true after any number of later runs, failures and kills.
THEOREM ReportsStayTrue == Spec => []ReportIsTrue
BY AlwaysRelease, PTL DEF ReleaseInv

\* post_hook: an entry made while the package lay still describes its release.
THEOREM IndexFollowsReleases == Spec => []IndexedIsReleased
<1>1. Spec => []ProgressInv
  BY AlwaysRelease, PTL DEF ReleaseInv
<1> QED BY <1>1, InitIndexed, NextIndexed, PTL DEF Spec

\* git push without force: a repository, its main once it has a commit, and its tags
\* are never replaced, by whichever process and after whatever failure.
THEOREM HostOnlyGrows == Spec => [][HostKeeps]_vars
<1>1. Spec => []ShapeInv
  BY InitShape, NextShape, PTL DEF Spec
<1>2. ShapeInv /\ [Next]_vars => [HostKeeps]_vars
  BY HostStep
<1> QED BY <1>1, <1>2, PTL DEF Spec

===============================================================================
