----------------------------- MODULE OrgScan_proofs -----------------------------
(* Proofs about OrgScan for every set of repositories, tags, trees and clones and *)
(* any number of pushes and faults.                                               *)
EXTENDS OrgScan, TLAPS

LEMMA Facts ==
    /\ Invalid \subseteq Content /\ None \notin Content /\ Source \subseteq AllSource /\ Filed \subseteq Repo
    /\ MaxPushes \in Nat /\ MaxFaults \in Nat
    /\ None \notin Repo /\ None \notin Tree /\ None \notin Mark
BY ScanAssumption, NoneAssumption

LEMMA Trees ==
    /\ NewTree \in Tree /\ HalfCloned \in Tree
    /\ NewTree.head = 1 /\ HalfCloned.head = 0
    /\ \A t \in Tag : NewTree.tags[t] = None /\ HalfCloned.tags[t] = None
BY Facts DEF NewTree, HalfCloned, Tree

LEMMA MarkType ==
    ASSUME NEW tree \in Tree
    PROVE  /\ TagsOf(tree) \subseteq Tag /\ MarkOf(tree) \in Mark
           /\ MarkOf(tree).head = tree.head /\ MarkOf(tree).tags = TagsOf(tree)
BY DEF Tree, Mark, MarkOf, TagsOf

------------------------------------------------------------------------------
\* What the actions write, named so that each is typed once

StartedJob(incremental, old, prior) ==
    [NoJob EXCEPT !.incremental = incremental, !.old = old, !.prior = prior]
FetchJob(j, S) == [j EXCEPT !.fetch = S]
TodoJob(j, S) == [j EXCEPT !.todo = S]
ListedJob(j, r, T) == [j EXCEPT !.todo = @ \ {r}, !.repo = r, !.tags = T]
MissedJob(j, r) == [j EXCEPT !.todo = @ \ {r}, !.failed = @ \cup {r}]
SeenJob(j, mark) == [j EXCEPT !.marks[j.repo] = mark]
SkippedJob(j, mark) == [SeenJob(j, mark) EXCEPT !.repo = None]
BuildingJob(j, mark) == [SeenJob(j, mark) EXCEPT !.left = mark.tags]
PassedJob(j, t) == [j EXCEPT !.left = @ \ {t}]
AddedJob(j, t, e) == [PassedJob(j, t) EXCEPT !.entries = @ \cup {e}]
FailedJob(j, t) == [PassedJob(j, t) EXCEPT !.failed = @ \cup {j.repo}]
DoneJob(j) == [j EXCEPT !.repo = None, !.tags = {}]

LEMMA JobFields ==
    ASSUME NEW j \in Job
    PROVE  /\ j.incremental \in BOOLEAN /\ j.old \subseteq Entry /\ j.prior \in [Repo -> Mark \cup {None}]
           /\ j.fetch \subseteq Repo /\ j.todo \subseteq Repo /\ j.repo \in Repo \cup {None}
           /\ j.tags \subseteq Tag /\ j.left \subseteq Tag /\ j.entries \subseteq Entry
           /\ j.marks \in [Repo -> Mark \cup {None}] /\ j.failed \subseteq Repo
BY DEF Job

LEMMA NoJobType ==
    /\ NoJob \in Job /\ NoJob.old = {} /\ NoJob.entries = {} /\ NoJob.marks = NoMarks
    /\ NoJob.failed = {} /\ NoJob.todo = {} /\ NoJob.fetch = {}
    /\ NoMarks \in [Repo -> Mark \cup {None}] /\ \A r \in Repo : NoMarks[r] = None
BY DEF NoJob, Job, NoMarks

LEMMA StartedJobType ==
    ASSUME NEW b \in BOOLEAN, NEW old \in SUBSET Entry, NEW prior \in [Repo -> Mark \cup {None}]
    PROVE  LET k == StartedJob(b, old, prior)
           IN /\ k \in Job /\ k.incremental = b /\ k.old = old /\ k.prior = prior /\ k.fetch = {}
              /\ k.todo = {} /\ k.entries = {} /\ k.marks = NoMarks /\ k.failed = {}
<1> DEFINE k1 == [NoJob EXCEPT !.incremental = b, !.old = old]
           k == StartedJob(b, old, prior)
<1>1. /\ k1 \in Job /\ k1.incremental = b /\ k1.old = old /\ k1.fetch = {}
      /\ k1.todo = {} /\ k1.entries = {} /\ k1.marks = NoMarks /\ k1.failed = {}
  BY NoJobType DEF Job
<1>2. k = [k1 EXCEPT !.prior = prior]
  BY DEF StartedJob
<1> HIDE DEF k1
<1> QED BY <1>1, <1>2 DEF Job

LEMMA FetchJobType ==
    ASSUME NEW j \in Job, NEW S \in SUBSET Repo
    PROVE  LET k == FetchJob(j, S)
           IN /\ k \in Job /\ k.incremental = j.incremental /\ k.old = j.old /\ k.prior = j.prior
              /\ k.fetch = S /\ k.todo = j.todo /\ k.entries = j.entries /\ k.marks = j.marks
              /\ k.failed = j.failed
BY DEF FetchJob, Job

LEMMA TodoJobType ==
    ASSUME NEW j \in Job, NEW S \in SUBSET Repo
    PROVE  LET k == TodoJob(j, S)
           IN /\ k \in Job /\ k.incremental = j.incremental /\ k.old = j.old /\ k.prior = j.prior
              /\ k.fetch = j.fetch /\ k.todo = S /\ k.entries = j.entries /\ k.marks = j.marks
              /\ k.failed = j.failed
BY DEF TodoJob, Job

LEMMA ListedJobType ==
    ASSUME NEW j \in Job, NEW r \in Repo, NEW T \in SUBSET Tag
    PROVE  LET k == ListedJob(j, r, T)
           IN /\ k \in Job /\ k.incremental = j.incremental /\ k.old = j.old /\ k.prior = j.prior
              /\ k.todo = j.todo \ {r} /\ k.repo = r /\ k.tags = T /\ k.entries = j.entries
              /\ k.marks = j.marks /\ k.failed = j.failed
<1> DEFINE k1 == [j EXCEPT !.todo = @ \ {r}, !.repo = r]
           k == ListedJob(j, r, T)
<1>1. /\ k1 \in Job /\ k1.incremental = j.incremental /\ k1.old = j.old /\ k1.prior = j.prior
      /\ k1.todo = j.todo \ {r} /\ k1.repo = r /\ k1.entries = j.entries
      /\ k1.marks = j.marks /\ k1.failed = j.failed
  BY DEF Job
<1>2. k = [k1 EXCEPT !.tags = T]
  BY DEF ListedJob
<1> HIDE DEF k1
<1> QED BY <1>1, <1>2 DEF Job

LEMMA MissedJobType ==
    ASSUME NEW j \in Job, NEW r \in Repo
    PROVE  LET k == MissedJob(j, r)
           IN /\ k \in Job /\ k.incremental = j.incremental /\ k.old = j.old /\ k.prior = j.prior
              /\ k.todo = j.todo \ {r} /\ k.entries = j.entries
              /\ k.marks = j.marks /\ k.failed = j.failed \cup {r}
BY DEF MissedJob, Job

LEMMA SeenJobType ==
    ASSUME NEW j \in Job, NEW mark \in Mark
    PROVE  LET k == SeenJob(j, mark)
           IN /\ k \in Job /\ k.incremental = j.incremental /\ k.old = j.old /\ k.prior = j.prior
              /\ k.todo = j.todo /\ k.repo = j.repo /\ k.entries = j.entries
              /\ k.marks = [j.marks EXCEPT ![j.repo] = mark] /\ k.failed = j.failed
<1>1. SeenJob(j, mark) = [j EXCEPT !.marks = [j.marks EXCEPT ![j.repo] = mark]]
  BY DEF SeenJob, Job
<1>2. [j.marks EXCEPT ![j.repo] = mark] \in [Repo -> Mark \cup {None}]
  BY DEF Job
<1> QED BY <1>1, <1>2 DEF Job

LEMMA SkippedJobType ==
    ASSUME NEW j \in Job, NEW mark \in Mark
    PROVE  LET k == SkippedJob(j, mark)
           IN /\ k \in Job /\ k.incremental = j.incremental /\ k.old = j.old /\ k.prior = j.prior
              /\ k.todo = j.todo /\ k.entries = j.entries
              /\ k.marks = [j.marks EXCEPT ![j.repo] = mark] /\ k.failed = j.failed
<1> DEFINE k1 == SeenJob(j, mark)
<1>1. /\ k1 \in Job /\ k1.incremental = j.incremental /\ k1.old = j.old /\ k1.prior = j.prior
      /\ k1.todo = j.todo /\ k1.entries = j.entries
      /\ k1.marks = [j.marks EXCEPT ![j.repo] = mark] /\ k1.failed = j.failed
  BY SeenJobType
<1>2. SkippedJob(j, mark) = [k1 EXCEPT !.repo = None]
  BY DEF SkippedJob
<1> HIDE DEF k1
<1> QED BY <1>1, <1>2 DEF Job

LEMMA BuildingJobType ==
    ASSUME NEW j \in Job, NEW mark \in Mark
    PROVE  LET k == BuildingJob(j, mark)
           IN /\ k \in Job /\ k.incremental = j.incremental /\ k.old = j.old /\ k.prior = j.prior
              /\ k.todo = j.todo /\ k.repo = j.repo /\ k.left = mark.tags /\ k.entries = j.entries
              /\ k.marks = [j.marks EXCEPT ![j.repo] = mark] /\ k.failed = j.failed
<1> DEFINE k1 == SeenJob(j, mark)
<1>1. /\ k1 \in Job /\ k1.incremental = j.incremental /\ k1.old = j.old /\ k1.prior = j.prior
      /\ k1.todo = j.todo /\ k1.repo = j.repo /\ k1.entries = j.entries
      /\ k1.marks = [j.marks EXCEPT ![j.repo] = mark] /\ k1.failed = j.failed
  BY SeenJobType
<1>2. BuildingJob(j, mark) = [k1 EXCEPT !.left = mark.tags] /\ mark.tags \in SUBSET Tag
  BY DEF BuildingJob, Mark
<1> HIDE DEF k1
<1> QED BY <1>1, <1>2 DEF Job

LEMMA PassedJobType ==
    ASSUME NEW j \in Job, NEW t
    PROVE  LET k == PassedJob(j, t)
           IN /\ k \in Job /\ k.incremental = j.incremental /\ k.old = j.old /\ k.prior = j.prior
              /\ k.todo = j.todo /\ k.repo = j.repo /\ k.left = j.left \ {t} /\ k.entries = j.entries
              /\ k.marks = j.marks /\ k.failed = j.failed
BY DEF PassedJob, Job

LEMMA AddedJobType ==
    ASSUME NEW j \in Job, NEW t, NEW e \in Entry
    PROVE  LET k == AddedJob(j, t, e)
           IN /\ k \in Job /\ k.incremental = j.incremental /\ k.old = j.old /\ k.prior = j.prior
              /\ k.todo = j.todo /\ k.repo = j.repo /\ k.left = j.left \ {t}
              /\ k.entries = j.entries \cup {e} /\ k.marks = j.marks /\ k.failed = j.failed
<1> DEFINE k1 == PassedJob(j, t)
<1>1. /\ k1 \in Job /\ k1.incremental = j.incremental /\ k1.old = j.old /\ k1.prior = j.prior
      /\ k1.todo = j.todo /\ k1.repo = j.repo /\ k1.left = j.left \ {t} /\ k1.entries = j.entries
      /\ k1.marks = j.marks /\ k1.failed = j.failed
  BY PassedJobType
<1>2. AddedJob(j, t, e) = [k1 EXCEPT !.entries = k1.entries \cup {e}]
  BY DEF AddedJob
<1> HIDE DEF k1
<1> QED BY <1>1, <1>2 DEF Job

LEMMA FailedJobType ==
    ASSUME NEW j \in Job, NEW t, j.repo \in Repo
    PROVE  LET k == FailedJob(j, t)
           IN /\ k \in Job /\ k.incremental = j.incremental /\ k.old = j.old /\ k.prior = j.prior
              /\ k.todo = j.todo /\ k.repo = j.repo /\ k.left = j.left \ {t}
              /\ k.entries = j.entries /\ k.marks = j.marks /\ k.failed = j.failed \cup {j.repo}
<1> DEFINE k1 == PassedJob(j, t)
<1>1. /\ k1 \in Job /\ k1.incremental = j.incremental /\ k1.old = j.old /\ k1.prior = j.prior
      /\ k1.todo = j.todo /\ k1.repo = j.repo /\ k1.left = j.left \ {t} /\ k1.entries = j.entries
      /\ k1.marks = j.marks /\ k1.failed = j.failed
  BY PassedJobType
<1>2. FailedJob(j, t) = [k1 EXCEPT !.failed = k1.failed \cup {j.repo}]
  BY DEF FailedJob
<1> HIDE DEF k1
<1> QED BY <1>1, <1>2 DEF Job

LEMMA DoneJobType ==
    ASSUME NEW j \in Job
    PROVE  LET k == DoneJob(j)
           IN /\ k \in Job /\ k.incremental = j.incremental /\ k.old = j.old /\ k.prior = j.prior
              /\ k.todo = j.todo /\ k.entries = j.entries /\ k.marks = j.marks
              /\ k.failed = j.failed
BY DEF DoneJob, Job

------------------------------------------------------------------------------
\* What the steps of a scanner do, in those terms

Turn(s, j, phase) == job' = [job EXCEPT ![s] = j] /\ pc' = [pc EXCEPT ![s] = phase]

Quiet == UNCHANGED <<org, source, pushes, past>> /\ faults' \in 0 .. MaxFaults

LEMMA FaultType ==
    ASSUME TypeOK, Fault \/ NoFault
    PROVE  pushes' = pushes /\ faults' \in 0 .. MaxFaults
BY Facts DEF TypeOK, Fault, NoFault

LEMMA ScannersAreQuiet ==
    ASSUME TypeOK, NEW s \in Scanner, Begin(s) \/ Step(s) \/ Abort(s)
    PROVE  Quiet
<1>1. CASE Begin(s)
  BY <1>1 DEF Begin, Quiet, TypeOK
<1>2. CASE Fetch(s)
  BY <1>2, FaultType DEF Fetch, Quiet
<1>3. CASE Fetched(s)
  BY <1>3 DEF Fetched, Quiet, TypeOK
<1>4. CASE ListTags(s)
  BY <1>4, FaultType DEF ListTags, Quiet
<1>5. CASE Compare(s)
  <2>1. /\ Fault \/ NoFault
        /\ UNCHANGED <<org, source, past>>
    BY <1>5, Zenon DEF Compare
  <2> QED BY <2>1, FaultType DEF Quiet
<1>6. CASE Build(s)
  <2>1. /\ Fault \/ NoFault
        /\ UNCHANGED <<org, source, past>>
    BY <1>6, Zenon DEF Build
  <2> QED BY <2>1, FaultType DEF Quiet
<1>7. CASE Built(s)
  BY <1>7 DEF Built, Quiet, TypeOK
<1>8. CASE Write(s)
  BY <1>8 DEF Write, Quiet, TypeOK
<1>9. CASE Save(s)
  BY <1>9 DEF Save, Quiet, TypeOK
<1>10. CASE Abort(s)
  BY <1>10, FaultType DEF Abort, Quiet
<1> QED BY <1>1, <1>2, <1>3, <1>4, <1>5, <1>6, <1>7, <1>8, <1>9, <1>10 DEF Step

LEMMA TurnGives ==
    ASSUME TypeOK, NEW s \in Scanner, NEW j \in Job, NEW phase \in Phase, Turn(s, j, phase)
    PROVE  /\ job' \in [Scanner -> Job] /\ pc' \in [Scanner -> Phase]
           /\ job'[s] = j /\ pc'[s] = phase
           /\ \A x \in Scanner : x # s => job'[x] = job[x] /\ pc'[x] = pc[x]
BY DEF TypeOK, Turn

StartOf(b) == StartedJob(b, index, IF b THEN checkpoint ELSE NoMarks)

LEMMA BeginDoes ==
    ASSUME NEW s \in Scanner, Begin(s)
    PROVE  /\ pc[s] = "idle" /\ UNCHANGED <<index, checkpoint, doubt>>
           /\ clones' = clones \/ clones' = [r \in Repo |-> None]
           /\ \E b \in BOOLEAN, S \in SUBSET Repo :
                \/ Turn(s, TodoJob(StartOf(b), S), "walk")
                \/ Turn(s, FetchJob(StartOf(b), S), "fetch")
<1>1. PICK b \in BOOLEAN :
        /\ pc[s] = "idle" /\ UNCHANGED <<index, checkpoint, doubt>>
        /\ \/ /\ Put(s, TodoJob(StartOf(b), {r \in Repo : clones[r] # None})) /\ Goto(s, "walk")
              /\ clones' = clones
           \/ /\ Put(s, FetchJob(StartOf(b), {r \in Repo : org[r] # None})) /\ Goto(s, "fetch")
              /\ clones' = clones \/ clones' = [r \in Repo |-> None]
  BY Zenon DEF Begin, StartOf, StartedJob, TodoJob, FetchJob
<1>2. {r \in Repo : clones[r] # None} \in SUBSET Repo /\ {r \in Repo : org[r] # None} \in SUBSET Repo
  OBVIOUS
<1> QED BY <1>1, <1>2, Zenon DEF Turn, Put, Goto

LEMMA FetchDoes ==
    ASSUME TypeOK, NEW s \in Scanner, Fetch(s)
    PROVE  /\ pc[s] = "fetch" /\ UNCHANGED <<index, checkpoint, doubt>>
           /\ \E r \in job[s].fetch :
                \/ /\ Turn(s, FetchJob(job[s], job[s].fetch \ {r}), "fetch")
                   /\ clones' = [clones EXCEPT ![r] = IF @ # None THEN @ ELSE org[r]]
                \/ Turn(s, NoJob, "idle") /\ clones' = clones
<1>1. PICK r \in job[s].fetch :
        /\ pc[s] = "fetch" /\ UNCHANGED <<index, checkpoint, doubt>>
        /\ \/ /\ job' = [job EXCEPT ![s] = FetchJob(job[s], job[s].fetch \ {r})] /\ pc' = pc
              /\ clones' = [clones EXCEPT ![r] = IF @ # None THEN @ ELSE org[r]]
           \/ /\ job' = [job EXCEPT ![s] = NoJob] /\ pc' = [pc EXCEPT ![s] = "idle"]
              /\ clones' = clones
  BY Zenon DEF Fetch, FetchJob, Put, Goto
<1>2. pc' = pc => pc' = [pc EXCEPT ![s] = "fetch"]
  BY <1>1 DEF TypeOK
<1> QED BY <1>1, <1>2, Zenon DEF Turn

LEMMA FetchedDoes ==
    ASSUME NEW s \in Scanner, Fetched(s)
    PROVE  /\ pc[s] = "fetch" /\ UNCHANGED <<clones, index, checkpoint, doubt>>
           /\ \E S \in SUBSET Repo : Turn(s, TodoJob(job[s], S), "walk")
<1>1. Turn(s, TodoJob(job[s], {r \in Repo : clones[r] # None}), "walk")
  BY Zenon DEF Fetched, TodoJob, Turn, Put, Goto
<1>2. {r \in Repo : clones[r] # None} \in SUBSET Repo
  OBVIOUS
<1> QED BY <1>1, <1>2, Zenon DEF Fetched

LEMMA ListTagsDoes ==
    ASSUME TypeOK, NEW s \in Scanner, ListTags(s)
    PROVE  /\ pc[s] = "walk" /\ UNCHANGED <<clones, index, checkpoint, doubt>>
           /\ \E r \in job[s].todo :
                \/ clones[r] # None /\ Turn(s, ListedJob(job[s], r, TagsOf(clones[r])), "head")
                \/ Turn(s, MissedJob(job[s], r), "walk")
<1>1. PICK r \in job[s].todo :
        /\ pc[s] = "walk" /\ UNCHANGED <<clones, index, checkpoint, doubt>>
        /\ \/ /\ clones[r] # None
              /\ job' = [job EXCEPT ![s] = ListedJob(job[s], r, TagsOf(clones[r]))]
              /\ pc' = [pc EXCEPT ![s] = "head"]
           \/ job' = [job EXCEPT ![s] = MissedJob(job[s], r)] /\ pc' = pc
  BY Zenon DEF ListTags, ListedJob, MissedJob, Put, Goto
<1>2. pc' = pc => pc' = [pc EXCEPT ![s] = "walk"]
  BY <1>1 DEF TypeOK
<1> QED BY <1>1, <1>2, Zenon DEF Turn

Marked(j, h) == [head |-> h, tags |-> j.tags]

LEMMA CompareDoes ==
    ASSUME TypeOK, NEW s \in Scanner, Compare(s)
    PROVE  /\ pc[s] = "head" /\ UNCHANGED <<clones, index, checkpoint, doubt>>
           /\ \E h \in {0, IF clones[job[s].repo] = None THEN 0 ELSE clones[job[s].repo].head} :
                \/ /\ job[s].prior[job[s].repo] = Marked(job[s], h)
                   /\ Turn(s, SkippedJob(job[s], Marked(job[s], h)), "walk")
                \/ /\ job[s].prior[job[s].repo] # Marked(job[s], h)
                   /\ Turn(s, BuildingJob(job[s], Marked(job[s], h)), "build")
<1>1. /\ pc[s] = "head" /\ UNCHANGED <<clones, index, checkpoint, doubt>>
  BY Zenon DEF Compare
<1>2. PICK h \in {0, IF clones[job[s].repo] = None THEN 0 ELSE clones[job[s].repo].head} :
        IF job[s].prior[job[s].repo] = Marked(job[s], h)
        THEN Turn(s, SkippedJob(job[s], Marked(job[s], h)), "walk")
        ELSE Turn(s, BuildingJob(job[s], Marked(job[s], h)), "build")
  BY Zenon DEF Compare, Marked, SkippedJob, BuildingJob, SeenJob, Turn, Put, Goto
<1> QED BY <1>1, <1>2, Zenon

LEMMA BuildDoes ==
    ASSUME TypeOK, NEW s \in Scanner, Build(s)
    PROVE  /\ pc[s] = "build" /\ UNCHANGED <<clones, index, checkpoint, doubt>>
           /\ \E t \in job[s].left :
                LET r == job[s].repo
                    c == clones[r].tags[t]
                IN \/ /\ clones[r] # None /\ c # None /\ c \notin Invalid
                      /\ Turn(s, AddedJob(job[s], t, <<r, t, c>>), "build")
                   \/ /\ clones[r] # None /\ c \in Invalid
                      /\ Turn(s, PassedJob(job[s], t), "build")
                   \/ Turn(s, FailedJob(job[s], t), "build")
<1> DEFINE r == job[s].repo
           c(t) == IF clones[r] = None THEN None ELSE clones[r].tags[t]
<1>1. PICK t \in job[s].left :
        /\ pc[s] = "build" /\ UNCHANGED <<clones, index, checkpoint, doubt>> /\ pc' = pc
        /\ \/ c(t) \notin Invalid \cup {None} /\ job' = [job EXCEPT ![s] = AddedJob(job[s], t, <<r, t, c(t)>>)]
           \/ c(t) \in Invalid /\ job' = [job EXCEPT ![s] = PassedJob(job[s], t)]
           \/ job' = [job EXCEPT ![s] = FailedJob(job[s], t)]
  BY Zenon DEF Build, AddedJob, PassedJob, FailedJob, Put
<1>2. pc' = [pc EXCEPT ![s] = "build"]
  BY <1>1 DEF TypeOK
<1>3. None \notin Invalid
  BY Facts
<1>4. c(t) \in Invalid \/ c(t) \notin Invalid \cup {None} => clones[r] # None /\ c(t) = clones[r].tags[t]
  BY <1>3
<1> HIDE DEF c
<1> QED BY <1>1, <1>2, <1>4, Zenon DEF Turn

LEMMA BuiltDoes ==
    ASSUME NEW s \in Scanner, Built(s)
    PROVE  /\ pc[s] = "build" /\ job[s].left = {} /\ UNCHANGED <<clones, index, checkpoint, doubt>>
           /\ Turn(s, DoneJob(job[s]), "walk")
BY Zenon DEF Built, DoneJob, Turn, Put, Goto

LEMMA WriteDoes ==
    ASSUME TypeOK, NEW s \in Scanner, Write(s)
    PROVE  /\ pc[s] = "walk" /\ job[s].todo = {} /\ UNCHANGED <<clones, checkpoint>>
           /\ index' = Found(s)
           /\ doubt' = Unsettled(job[s]) \cup {r \in Repo : job[s].marks[r] # checkpoint[r]}
           /\ Turn(s, job[s], "save")
BY DEF Write, Turn, Goto, TypeOK

LEMMA SaveDoes ==
    ASSUME NEW s \in Scanner, Save(s)
    PROVE  /\ pc[s] = "save" /\ UNCHANGED <<clones, index>>
           /\ checkpoint' = job[s].marks /\ doubt' = Unsettled(job[s])
           /\ Turn(s, NoJob, "idle")
BY DEF Save, Turn, Goto, Put

LEMMA AbortDoes ==
    ASSUME NEW s \in Scanner, Abort(s)
    PROVE  /\ pc[s] # "idle" /\ checkpoint' = checkpoint
           /\ Turn(s, NoJob, "idle")
           /\ \/ index' = index /\ doubt' = doubt
              \/ pc[s] = "walk" /\ index' \subseteq Found(s) /\ doubt' = Repo
           /\ \/ clones' = clones
              \/ \E r \in job[s].fetch : clones[r] = None /\ clones' = [clones EXCEPT ![r] = HalfCloned]
BY DEF Abort, Turn, Goto, Put

------------------------------------------------------------------------------
\* Types. A push adds at most one to a head, and there is one repository in hand
\* between the listing of its tags and the last of its entries.

HeadsFit == \A r \in Repo : org[r] # None => org[r].head <= pushes + 1
InHand == \A s \in Scanner : pc[s] \in {"head", "build"} => job[s].repo \in Repo
Typed == TypeOK /\ HeadsFit /\ InHand

Pushed(tree, h, t, c) == [head |-> tree.head + h, tags |-> [tree.tags EXCEPT ![t] = c]]

LEMMA PushDoes ==
    ASSUME Typed, NEW r \in Repo, Push(r)
    PROVE  /\ org[r] # None /\ org[r] \in Tree
           /\ UNCHANGED <<clones, source, index, checkpoint, pc, job, faults, doubt>>
           /\ pushes' \in 0 .. MaxPushes /\ pushes' = pushes + 1
           /\ \E new \in Tree : /\ new.head <= org[r].head + 1 /\ org[r].head <= new.head
                                /\ org' = [org EXCEPT ![r] = new]
                                /\ past' = [past EXCEPT ![r] = @ \cup {new}]
<1>1. /\ org[r] # None /\ org[r] \in Tree
      /\ org[r].head \in Nat /\ org[r].head <= pushes + 1 /\ org[r].tags \in [Tag -> Content \cup {None}]
      /\ pushes \in Nat /\ MaxPushes \in Nat
  BY Facts DEF Push, Typed, TypeOK, HeadsFit, Tree
<1>2. /\ UNCHANGED <<clones, source, index, checkpoint, pc, job, faults, doubt>>
      /\ pushes' \in 0 .. MaxPushes /\ pushes' = pushes + 1 /\ pushes < MaxPushes
  BY <1>1 DEF Push
<1>3. PICK t \in Tag, c \in Content \cup {None}, h \in {0, 1} :
        org' = [org EXCEPT ![r] = Pushed(org[r], h, t, c)]
  BY Zenon DEF Push, Pushed
<1> DEFINE new == Pushed(org[r], h, t, c)
<1>4. /\ new \in Tree /\ new.head = org[r].head + h
  BY <1>1, <1>2 DEF Pushed, Tree
<1> HIDE DEF new
<1>5. org'[r] = new
  BY <1>3 DEF Typed, TypeOK, new
<1>6. past' = [past EXCEPT ![r] = @ \cup {new}]
  BY <1>5 DEF Push
<1>7. new.head <= org[r].head + 1 /\ org[r].head <= new.head
  BY <1>1, <1>4
<1>8. org' = [org EXCEPT ![r] = new]
  BY <1>3 DEF new
<1> QED BY <1>1, <1>2, <1>4, <1>6, <1>7, <1>8

\* The surroundings of a scan: clones are replaced by what the host has, heads do
\* not go back, no tree is forgotten.
ClonesFollow ==
    /\ clones' \in [Repo -> Tree \cup {None}]
    /\ \A r \in Repo : clones'[r] \in {clones[r], org[r], None, HalfCloned}
HeadsGrow ==
    /\ org' \in [Repo -> Tree \cup {None}]
    /\ \A r \in Repo : org'[r] # None =>
         /\ org[r] # None /\ org[r].head <= org'[r].head
         /\ org'[r] = org[r] \/ org'[r] \in past'[r]
PastGrows ==
    /\ past' \in [Repo -> SUBSET Tree]
    /\ \A r \in Repo : past[r] \subseteq past'[r]
Surroundings == ClonesFollow /\ HeadsGrow /\ PastGrows

LEMMA SameSurroundings ==
    ASSUME TypeOK, UNCHANGED <<org, past>>
    PROVE  HeadsGrow /\ PastGrows
<1>1. \A r \in Repo : org[r] # None => org[r].head \in Nat
  BY Facts DEF TypeOK, Tree
<1>2. \A r \in Repo : org[r] # None => org[r].head <= org[r].head
  BY <1>1
<1> QED BY <1>2 DEF TypeOK, HeadsGrow, PastGrows

LEMMA SameClones ==
    ASSUME TypeOK, clones' = clones
    PROVE  ClonesFollow
BY DEF TypeOK, ClonesFollow

LEMMA OneClone ==
    ASSUME TypeOK, NEW r \in Repo, NEW c \in Tree \cup {None}, c \in {clones[r], org[r], None, HalfCloned},
           clones' = [clones EXCEPT ![r] = c]
    PROVE  ClonesFollow
BY DEF TypeOK, ClonesFollow

LEMMA TheSurroundings ==
    ASSUME Typed, [Next]_vars
    PROVE  Surroundings
<1>0. TypeOK
  BY DEF Typed
<1>1. CASE UNCHANGED vars
  BY <1>0, <1>1, SameSurroundings, SameClones DEF Surroundings, vars
<1>2. ASSUME NEW r \in Repo, Push(r) PROVE Surroundings
  <2>1. PICK new \in Tree : /\ new.head <= org[r].head + 1 /\ org[r].head <= new.head
                            /\ org' = [org EXCEPT ![r] = new]
                            /\ past' = [past EXCEPT ![r] = @ \cup {new}]
    BY <1>2, PushDoes
  <2>2. clones' = clones /\ org[r] # None /\ org \in [Repo -> Tree \cup {None}] /\ past \in [Repo -> SUBSET Tree]
    BY <1>2, PushDoes DEF Typed, TypeOK
  <2>3. PastGrows
    BY <2>1, <2>2 DEF PastGrows
  <2>4. org'[r] = new /\ new \in past'[r]
    BY <2>1, <2>2
  <2>5. \A q \in Repo : q # r => org'[q] = org[q]
    BY <2>1, <2>2
  <2>6. \A q \in Repo : org[q] # None => org[q].head \in Nat
    BY <2>2, Facts DEF Tree
  <2>7. \A q \in Repo : org[q] # None => org[q].head <= org[q].head
    BY <2>6
  <2>8. org' \in [Repo -> Tree \cup {None}]
    BY <2>1, <2>2
  <2>9. HeadsGrow
    BY <2>1, <2>2, <2>4, <2>5, <2>7, <2>8 DEF HeadsGrow
  <2> QED BY <1>0, <2>2, <2>3, <2>9, SameClones DEF Surroundings
<1>3. ASSUME NEW r \in Repo, Retire(r) PROVE Surroundings
  <2>1. org' = [org EXCEPT ![r] = None] /\ clones' = clones /\ past' = past
    BY <1>3 DEF Retire
  <2>2. org \in [Repo -> Tree \cup {None}] /\ past \in [Repo -> SUBSET Tree]
    BY <1>0 DEF TypeOK
  <2>3. /\ org' \in [Repo -> Tree \cup {None}]
        /\ \A q \in Repo : org'[q] # None => org'[q] = org[q]
    BY <2>1, <2>2
  <2>6. \A q \in Repo : org[q] # None => org[q].head \in Nat
    BY <2>2, Facts DEF Tree
  <2>7. \A q \in Repo : org[q] # None => org[q].head <= org[q].head
    BY <2>6
  <2>4. HeadsGrow
    BY <2>3, <2>7 DEF HeadsGrow
  <2>5. PastGrows
    BY <2>1, <2>2 DEF PastGrows
  <2> QED BY <1>0, <2>1, <2>4, <2>5, SameClones DEF Surroundings
<1>4. ASSUME NEW r \in Repo, Refresh(r) PROVE Surroundings
  <2>1. clones' = [clones EXCEPT ![r] = org[r]] /\ org[r] \in Tree \cup {None} /\ UNCHANGED <<org, past>>
    BY <1>0, <1>4 DEF Refresh, TypeOK
  <2> QED BY <1>0, <2>1, SameSurroundings, OneClone DEF Surroundings
<1>5. ASSUME NEW s \in Scanner, Begin(s) \/ Step(s) \/ Abort(s) PROVE Surroundings
  <2>1. HeadsGrow /\ PastGrows
    BY <1>0, <1>5, ScannersAreQuiet, SameSurroundings DEF Quiet
  <2> SUFFICES ClonesFollow
    BY <2>1 DEF Surroundings
  <2>2. CASE clones' = clones
    BY <1>0, <2>2, SameClones
  <2>3. CASE clones' = [q \in Repo |-> None]
    BY <2>3 DEF ClonesFollow
  <2>4. CASE Fetch(s)
    <3>1. PICK r \in job[s].fetch : \/ clones' = [clones EXCEPT ![r] = IF @ # None THEN @ ELSE org[r]]
                                    \/ clones' = clones
      BY <1>0, <2>4, FetchDoes
    <3>2. r \in Repo
      BY <1>0, JobFields DEF TypeOK
    <3> DEFINE c == IF clones[r] # None THEN clones[r] ELSE org[r]
    <3>3. c \in Tree \cup {None} /\ c \in {clones[r], org[r], None, HalfCloned}
      BY <1>0, <3>2 DEF TypeOK
    <3>4. clones' = [clones EXCEPT ![r] = c] \/ clones' = clones
      BY <3>1
    <3> HIDE DEF c
    <3> QED BY <1>0, <3>2, <3>3, <3>4, SameClones, OneClone
  <2>5. CASE Abort(s)
    <3>1. \/ clones' = clones
          \/ \E r \in job[s].fetch : clones' = [clones EXCEPT ![r] = HalfCloned]
      BY <2>5, AbortDoes
    <3>2. job[s].fetch \subseteq Repo
      BY <1>0, JobFields DEF TypeOK
    <3> QED BY <1>0, <3>1, <3>2, Trees, SameClones, OneClone
  <2>6. CASE Begin(s)
    BY <2>2, <2>3, <2>6, BeginDoes
  <2>7. CASE Fetched(s) \/ Built(s) \/ Save(s)
    BY <2>2, <2>7, FetchedDoes, BuiltDoes, SaveDoes
  <2>8. CASE ListTags(s) \/ Compare(s) \/ Build(s) \/ Write(s)
    BY <1>0, <2>2, <2>8, ListTagsDoes, CompareDoes, BuildDoes, WriteDoes
  <2> QED BY <1>5, <2>4, <2>5, <2>6, <2>7, <2>8 DEF Step
<1> QED BY <1>1, <1>2, <1>3, <1>4, <1>5 DEF Next

LEMMA KeptType ==
    ASSUME NEW j \in Job
    PROVE  /\ Kept(j) \subseteq j.old /\ Kept(j) \cup j.entries \subseteq Entry
           /\ Unsettled(j) \subseteq Repo
<1>1. j.old \subseteq Entry /\ j.entries \subseteq Entry /\ j.failed \subseteq Repo
  BY JobFields
<1>2. Kept(j) \subseteq j.old
  BY DEF Kept
<1>3. Unsettled(j) \subseteq Repo
  BY <1>1 DEF Unsettled
<1> QED BY <1>1, <1>2, <1>3

LEMMA StartOfType ==
    ASSUME TypeOK, NEW b \in BOOLEAN
    PROVE  LET k == StartOf(b)
           IN /\ k \in Job /\ k.incremental = b /\ k.old = index /\ k.fetch = {}
              /\ k.prior = (IF b THEN checkpoint ELSE NoMarks)
              /\ k.todo = {} /\ k.entries = {} /\ k.marks = NoMarks /\ k.failed = {}
<1> DEFINE P == IF b THEN checkpoint ELSE NoMarks
<1>1. P \in [Repo -> Mark \cup {None}] /\ index \in SUBSET Entry
  BY NoJobType DEF TypeOK
<1>2. StartOf(b) = StartedJob(b, index, P)
  BY Zenon DEF StartOf
<1> HIDE DEF P
<1>3. LET k == StartOf(b)
      IN /\ k \in Job /\ k.incremental = b /\ k.old = index /\ k.fetch = {} /\ k.prior = P
         /\ k.todo = {} /\ k.entries = {} /\ k.marks = NoMarks /\ k.failed = {}
  <2> DEFINE k == StartedJob(b, index, P)
  <2>1. /\ k \in Job /\ k.incremental = b /\ k.old = index /\ k.fetch = {} /\ k.prior = P
        /\ k.todo = {} /\ k.entries = {} /\ k.marks = NoMarks /\ k.failed = {}
    BY <1>1, StartedJobType
  <2> QED BY <1>2, <2>1, Zenon
<1> QED BY <1>3, Zenon DEF P

LEMMA HeadType ==
    ASSUME TypeOK, NEW r \in Repo, NEW h \in {0, IF clones[r] = None THEN 0 ELSE clones[r].head}
    PROVE  h \in 0 .. MaxPushes + 1
BY Facts DEF TypeOK, Tree

LEMMA TurnKeeps ==
    ASSUME TypeOK, InHand, NEW s \in Scanner, NEW j \in Job, NEW phase \in Phase, Turn(s, j, phase),
           phase \in {"head", "build"} => j.repo \in Repo
    PROVE  pc' \in [Scanner -> Phase] /\ job' \in [Scanner -> Job] /\ InHand'
<1>1. /\ job' \in [Scanner -> Job] /\ pc' \in [Scanner -> Phase]
      /\ job'[s] = j /\ pc'[s] = phase
      /\ \A x \in Scanner : x # s => job'[x] = job[x] /\ pc'[x] = pc[x]
  BY TurnGives
<1> QED BY <1>1 DEF InHand

LEMMA ScannersKeepTypes ==
    ASSUME Typed, NEW s \in Scanner, Begin(s) \/ Step(s) \/ Abort(s)
    PROVE  /\ pc' \in [Scanner -> Phase] /\ job' \in [Scanner -> Job] /\ InHand'
           /\ index' \subseteq Entry /\ checkpoint' \in [Repo -> Mark \cup {None}]
           /\ doubt' \subseteq Repo
<1>0. /\ TypeOK /\ InHand /\ job[s] \in Job /\ clones \in [Repo -> Tree \cup {None}]
      /\ index \subseteq Entry /\ checkpoint \in [Repo -> Mark \cup {None}] /\ doubt \subseteq Repo
  BY DEF Typed, TypeOK
<1>p. {"idle", "fetch", "walk", "head", "build", "save"} \subseteq Phase
  BY DEF Phase
<1>1. CASE Begin(s)
  <2>1. PICK b \in BOOLEAN, S \in SUBSET Repo :
          \/ Turn(s, TodoJob(StartOf(b), S), "walk")
          \/ Turn(s, FetchJob(StartOf(b), S), "fetch")
    BY <1>1, BeginDoes
  <2>2. StartOf(b) \in Job
    BY <1>0, StartOfType
  <2>3. TodoJob(StartOf(b), S) \in Job /\ FetchJob(StartOf(b), S) \in Job
    BY <2>2, TodoJobType, FetchJobType
  <2>4. pc' \in [Scanner -> Phase] /\ job' \in [Scanner -> Job] /\ InHand'
    BY <1>0, <1>p, <2>1, <2>3, TurnKeeps
  <2>5. UNCHANGED <<index, checkpoint, doubt>>
    BY <1>1, BeginDoes
  <2> QED BY <1>0, <2>4, <2>5
<1>2. CASE Fetch(s)
  <2>1. PICK r \in job[s].fetch :
          \/ Turn(s, FetchJob(job[s], job[s].fetch \ {r}), "fetch")
          \/ Turn(s, NoJob, "idle")
    BY <1>0, <1>2, FetchDoes
  <2>2. job[s].fetch \ {r} \in SUBSET Repo
    BY <1>0, JobFields
  <2>3. FetchJob(job[s], job[s].fetch \ {r}) \in Job /\ NoJob \in Job
    BY <1>0, <2>2, FetchJobType, NoJobType
  <2>4. pc' \in [Scanner -> Phase] /\ job' \in [Scanner -> Job] /\ InHand'
    BY <1>0, <1>p, <2>1, <2>3, TurnKeeps
  <2>5. UNCHANGED <<index, checkpoint, doubt>>
    BY <1>0, <1>2, FetchDoes
  <2> QED BY <1>0, <2>4, <2>5
<1>3. CASE Fetched(s)
  <2>1. PICK S \in SUBSET Repo : Turn(s, TodoJob(job[s], S), "walk")
    BY <1>3, FetchedDoes
  <2>2. TodoJob(job[s], S) \in Job
    BY <1>0, TodoJobType
  <2>4. pc' \in [Scanner -> Phase] /\ job' \in [Scanner -> Job] /\ InHand'
    BY <1>0, <1>p, <2>1, <2>2, TurnKeeps
  <2>5. UNCHANGED <<index, checkpoint, doubt>>
    BY <1>3, FetchedDoes
  <2> QED BY <1>0, <2>4, <2>5
<1>4. CASE ListTags(s)
  <2>6. UNCHANGED <<index, checkpoint, doubt>>
    BY <1>0, <1>4, ListTagsDoes
  <2>1. PICK r \in job[s].todo :
          \/ clones[r] # None /\ Turn(s, ListedJob(job[s], r, TagsOf(clones[r])), "head")
          \/ Turn(s, MissedJob(job[s], r), "walk")
    BY <1>0, <1>4, ListTagsDoes
  <2>2. r \in Repo
    BY <1>0, JobFields
  <2>3. clones[r] # None => TagsOf(clones[r]) \in SUBSET Tag
    BY <1>0, <2>2, MarkType
  <2>4. CASE clones[r] # None /\ Turn(s, ListedJob(job[s], r, TagsOf(clones[r])), "head")
    <3>1. /\ ListedJob(job[s], r, TagsOf(clones[r])) \in Job
          /\ ListedJob(job[s], r, TagsOf(clones[r])).repo = r
      BY <1>0, <2>2, <2>3, <2>4, ListedJobType
    <3> QED BY <1>0, <1>p, <2>6, <2>2, <2>4, <3>1, TurnKeeps
  <2>5. CASE Turn(s, MissedJob(job[s], r), "walk")
    <3>1. MissedJob(job[s], r) \in Job
      BY <1>0, <2>2, MissedJobType
    <3> QED BY <1>0, <1>p, <2>6, <2>5, <3>1, TurnKeeps
  <2> QED BY <2>1, <2>4, <2>5
<1>5. CASE Compare(s)
  <2>6. UNCHANGED <<index, checkpoint, doubt>>
    BY <1>0, <1>5, CompareDoes
  <2> DEFINE r == job[s].repo
  <2>1. PICK h \in {0, IF clones[r] = None THEN 0 ELSE clones[r].head} :
          \/ Turn(s, SkippedJob(job[s], Marked(job[s], h)), "walk")
          \/ Turn(s, BuildingJob(job[s], Marked(job[s], h)), "build")
    BY <1>0, <1>5, CompareDoes
  <2>2. r \in Repo
    BY <1>0, <1>5, CompareDoes DEF InHand
  <2>3. Marked(job[s], h) \in Mark
    BY <1>0, <2>2, HeadType, JobFields DEF Marked, Mark
  <2>4. CASE Turn(s, SkippedJob(job[s], Marked(job[s], h)), "walk")
    <3>1. SkippedJob(job[s], Marked(job[s], h)) \in Job
      BY <1>0, <2>3, SkippedJobType
    <3> QED BY <1>0, <1>p, <2>6, <2>4, <3>1, TurnKeeps
  <2>5. CASE Turn(s, BuildingJob(job[s], Marked(job[s], h)), "build")
    <3>1. /\ BuildingJob(job[s], Marked(job[s], h)) \in Job
          /\ BuildingJob(job[s], Marked(job[s], h)).repo = r
      BY <1>0, <2>3, BuildingJobType
    <3> QED BY <1>0, <1>p, <2>6, <2>2, <2>5, <3>1, TurnKeeps
  <2> QED BY <2>1, <2>4, <2>5
<1>6. CASE Build(s)
  <2>6. UNCHANGED <<index, checkpoint, doubt>>
    BY <1>0, <1>6, BuildDoes
  <2> DEFINE r == job[s].repo
  <2>1. PICK t \in job[s].left :
          LET c == clones[r].tags[t]
          IN \/ /\ clones[r] # None /\ c # None
                /\ Turn(s, AddedJob(job[s], t, <<r, t, c>>), "build")
             \/ Turn(s, PassedJob(job[s], t), "build")
             \/ Turn(s, FailedJob(job[s], t), "build")
    BY <1>0, <1>6, BuildDoes
  <2>2. r \in Repo /\ t \in Tag
    BY <1>0, <1>6, BuildDoes, JobFields DEF InHand
  <2> DEFINE c == clones[r].tags[t]
  <2>3. CASE clones[r] # None /\ c # None /\ Turn(s, AddedJob(job[s], t, <<r, t, c>>), "build")
    <3>1. <<r, t, c>> \in Entry
      BY <1>0, <2>2, <2>3 DEF Tree, Entry
    <3>2. AddedJob(job[s], t, <<r, t, c>>) \in Job /\ AddedJob(job[s], t, <<r, t, c>>).repo = r
      BY <1>0, <3>1, AddedJobType
    <3> QED BY <1>0, <1>p, <2>6, <2>2, <2>3, <3>2, TurnKeeps
  <2>4. CASE Turn(s, PassedJob(job[s], t), "build")
    <3>1. PassedJob(job[s], t) \in Job /\ PassedJob(job[s], t).repo = r
      BY <1>0, PassedJobType
    <3> QED BY <1>0, <1>p, <2>6, <2>2, <2>4, <3>1, TurnKeeps
  <2>5. CASE Turn(s, FailedJob(job[s], t), "build")
    <3>1. FailedJob(job[s], t) \in Job /\ FailedJob(job[s], t).repo = r
      BY <1>0, <2>2, FailedJobType
    <3> QED BY <1>0, <1>p, <2>6, <2>2, <2>5, <3>1, TurnKeeps
  <2> QED BY <2>1, <2>3, <2>4, <2>5
<1>7. CASE Built(s)
  <2>1. DoneJob(job[s]) \in Job
    BY <1>0, DoneJobType
  <2>2. Turn(s, DoneJob(job[s]), "walk") /\ UNCHANGED <<index, checkpoint, doubt>>
    BY <1>7, BuiltDoes
  <2> QED BY <1>0, <1>p, <2>1, <2>2, TurnKeeps
<1>8. CASE Write(s)
  <2>1. /\ Turn(s, job[s], "save") /\ index' = Found(s) /\ checkpoint' = checkpoint
        /\ doubt' = Unsettled(job[s]) \cup {r \in Repo : job[s].marks[r] # checkpoint[r]}
    BY <1>0, <1>8, WriteDoes
  <2>2. index' \subseteq Entry /\ doubt' \subseteq Repo
    BY <1>0, <2>1, KeptType DEF Found
  <2> QED BY <1>0, <1>p, <2>1, <2>2, TurnKeeps
<1>9. CASE Save(s)
  <2>1. /\ Turn(s, NoJob, "idle") /\ index' = index /\ checkpoint' = job[s].marks
        /\ doubt' = Unsettled(job[s])
    BY <1>9, SaveDoes
  <2>2. checkpoint' \in [Repo -> Mark \cup {None}] /\ doubt' \subseteq Repo
    BY <1>0, <2>1, KeptType, JobFields
  <2> QED BY <1>0, <1>p, <2>1, <2>2, NoJobType, TurnKeeps
<1>10. CASE Abort(s)
  <2>1. /\ Turn(s, NoJob, "idle") /\ checkpoint' = checkpoint
        /\ index' = index \/ index' \subseteq Found(s)
        /\ doubt' = doubt \/ doubt' = Repo
    BY <1>10, AbortDoes
  <2>2. Found(s) \subseteq Entry
    BY <1>0, KeptType DEF Found
  <2>3. index' \subseteq Entry /\ doubt' \subseteq Repo
    BY <1>0, <2>1, <2>2
  <2> QED BY <1>0, <1>p, <2>1, <2>3, NoJobType, TurnKeeps
<1> QED BY <1>1, <1>2, <1>3, <1>4, <1>5, <1>6, <1>7, <1>8, <1>9, <1>10 DEF Step

LEMMA InitTyped ==
    ASSUME Init
    PROVE  Typed
<1>1. /\ org \in [Repo -> Tree \cup {None}] /\ clones \in [Repo -> Tree \cup {None}] /\ source \in Source
      /\ index \subseteq Entry /\ doubt \subseteq Repo /\ past \in [Repo -> SUBSET Tree]
  BY Trees DEF Init
<1>2. checkpoint \in [Repo -> Mark \cup {None}] /\ job \in [Scanner -> Job] /\ pc \in [Scanner -> Phase]
  BY NoJobType DEF Init, Phase
<1>3. pushes \in 0 .. MaxPushes /\ faults \in 0 .. MaxFaults /\ pushes = 0
  BY Facts DEF Init
<1>4. HeadsFit
  BY <1>3, Trees DEF HeadsFit, Init
<1>5. InHand
  BY DEF InHand, Init
<1> QED BY <1>1, <1>2, <1>3, <1>4, <1>5 DEF Typed, TypeOK

LEMMA NextTyped ==
    ASSUME Typed, [Next]_vars
    PROVE  Typed'
<1>0. TypeOK /\ HeadsFit /\ InHand
  BY DEF Typed
<1>s. /\ clones' \in [Repo -> Tree \cup {None}] /\ org' \in [Repo -> Tree \cup {None}]
      /\ past' \in [Repo -> SUBSET Tree]
  BY TheSurroundings DEF Surroundings, ClonesFollow, HeadsGrow, PastGrows
<1>1. CASE UNCHANGED vars
  BY <1>0, <1>1 DEF Typed, TypeOK, HeadsFit, InHand, vars
<1>2. ASSUME NEW s \in Scanner, Begin(s) \/ Step(s) \/ Abort(s) PROVE Typed'
  <2>1. /\ pc' \in [Scanner -> Phase] /\ job' \in [Scanner -> Job] /\ InHand'
        /\ index' \subseteq Entry /\ checkpoint' \in [Repo -> Mark \cup {None}]
        /\ doubt' \subseteq Repo
    BY <1>2, ScannersKeepTypes
  <2>2. UNCHANGED <<org, source, pushes, past>> /\ faults' \in 0 .. MaxFaults
    BY <1>0, <1>2, ScannersAreQuiet DEF Quiet
  <2>3. TypeOK'
    BY <1>0, <1>s, <2>1, <2>2 DEF TypeOK
  <2>4. HeadsFit'
    BY <1>0, <2>2 DEF HeadsFit
  <2> QED BY <2>1, <2>3, <2>4 DEF Typed
<1>3. ASSUME NEW r \in Repo, Push(r) PROVE Typed'
  <2>1. /\ UNCHANGED <<source, index, checkpoint, pc, job, faults, doubt>>
        /\ pushes' \in 0 .. MaxPushes /\ pushes' = pushes + 1
    BY <1>3, PushDoes
  <2>2. PICK new \in Tree : new.head <= org[r].head + 1 /\ org' = [org EXCEPT ![r] = new]
    BY <1>3, PushDoes
  <2>3. /\ org \in [Repo -> Tree \cup {None}] /\ pushes \in Nat /\ org[r] # None
        /\ \A q \in Repo : org[q] # None => org[q].head \in Nat
    BY <1>0, <1>3, Facts DEF TypeOK, Push, Tree
  <2>4. org[r].head \in Nat /\ new.head \in Nat /\ org[r].head <= pushes + 1
    BY <1>0, <2>3, Facts DEF Tree, HeadsFit
  <2>5. HeadsFit'
    <3> SUFFICES ASSUME NEW q \in Repo, org'[q] # None PROVE org'[q].head <= pushes' + 1
      BY DEF HeadsFit
    <3>1. CASE q = r
      <4>1. org'[q] = new
        BY <2>2, <2>3, <3>1
      <4> QED BY <2>1, <2>2, <2>3, <2>4, <4>1
    <3>2. CASE q # r
      <4>1. org'[q] = org[q]
        BY <2>2, <2>3, <3>2
      <4> QED BY <1>0, <2>1, <2>3, <4>1 DEF HeadsFit
    <3> QED BY <3>1, <3>2
  <2>6. TypeOK'
    BY <1>0, <1>s, <2>1 DEF TypeOK
  <2>7. InHand'
    BY <1>0, <2>1 DEF InHand
  <2> QED BY <2>5, <2>6, <2>7 DEF Typed
<1>4. ASSUME NEW r \in Repo, Retire(r) \/ Refresh(r) PROVE Typed'
  <2>1. UNCHANGED <<source, index, checkpoint, pc, job, pushes, faults, doubt>>
    BY <1>4 DEF Retire, Refresh
  <2>2. org' = [org EXCEPT ![r] = None] \/ org' = org
    BY <1>4 DEF Retire, Refresh
  <2>3. \A q \in Repo : org'[q] # None => org'[q] = org[q]
    BY <1>0, <2>2 DEF TypeOK
  <2>4. HeadsFit'
    BY <1>0, <2>1, <2>3 DEF HeadsFit
  <2>5. TypeOK'
    BY <1>0, <1>s, <2>1 DEF TypeOK
  <2>6. InHand'
    BY <1>0, <2>1 DEF InHand
  <2> QED BY <2>4, <2>5, <2>6 DEF Typed
<1> QED BY <1>1, <1>2, <1>3, <1>4 DEF Next

LEMMA AlwaysTyped == Spec => []Typed
<1>1. Init => Typed
  BY InitTyped
<1>2. Typed /\ [Next]_vars => Typed'
  BY NextTyped
<1> QED BY <1>1, <1>2, PTL DEF Spec

\* The variables keep their types, whatever is pushed to the repositories and however
\* many scans run, fail and are killed: the heads of the repositories, the marks of the
\* checkpoint and the reports of the scans (reindex.rs, org_walk.rs, checkpoint.rs).
THEOREM TypeCorrect == Spec => []TypeOK
<1>1. Typed => TypeOK
  BY DEF Typed
<1> QED BY <1>1, AlwaysTyped, PTL

------------------------------------------------------------------------------
\* Where entries come from: a tree the repository has had, seen through a clone

Traced == {e \in Entry : \E tree \in past[e[1]] : tree.tags[e[2]] = e[3]}

Genuine ==
    /\ \A r \in Repo : org[r] \in past[r] \cup {None}
    /\ \A r \in Repo : clones[r] \in past[r] \cup {None, HalfCloned}
FromPast(j) == j.old \subseteq Traced /\ j.entries \subseteq Traced
Sourced == Genuine /\ index \subseteq Traced /\ \A s \in Scanner : FromPast(job[s])

LEMMA TracedGrows ==
    ASSUME PastGrows
    PROVE  Traced \subseteq Traced'
<1> SUFFICES ASSUME NEW e \in Traced PROVE e \in Traced'
  OBVIOUS
<1>1. e \in Entry /\ \E tree \in past[e[1]] : tree.tags[e[2]] = e[3]
  BY DEF Traced
<1>2. e[1] \in Repo
  BY <1>1 DEF Entry
<1>3. past[e[1]] \subseteq past'[e[1]]
  BY <1>2 DEF PastGrows
<1> QED BY <1>1, <1>3 DEF Traced

LEMMA StaysGenuine ==
    ASSUME Genuine, Surroundings
    PROVE  Genuine'
<1> SUFFICES ASSUME NEW r \in Repo
             PROVE  org'[r] \in past'[r] \cup {None} /\ clones'[r] \in past'[r] \cup {None, HalfCloned}
  BY DEF Genuine
<1>1. org[r] \in past[r] \cup {None} /\ clones[r] \in past[r] \cup {None, HalfCloned}
  BY DEF Genuine
<1>2. past[r] \subseteq past'[r] /\ clones'[r] \in {clones[r], org[r], None, HalfCloned}
  BY DEF Surroundings, PastGrows, ClonesFollow
<1>3. org'[r] # None => org'[r] = org[r] \/ org'[r] \in past'[r]
  BY DEF Surroundings, HeadsGrow
<1> QED BY <1>1, <1>2, <1>3

LEMMA TurnFromPast ==
    ASSUME TypeOK, NEW s \in Scanner, NEW j \in Job, NEW phase \in Phase, Turn(s, j, phase),
           FromPast(j), \A x \in Scanner : FromPast(job[x])
    PROVE  \A x \in Scanner : job'[x].old \subseteq Traced /\ job'[x].entries \subseteq Traced
<1> SUFFICES ASSUME NEW x \in Scanner PROVE job'[x].old \subseteq Traced /\ job'[x].entries \subseteq Traced
  OBVIOUS
<1>1. job'[x] = j \/ job'[x] = job[x]
  BY TurnGives
<1> QED BY <1>1 DEF FromPast

LEMMA FoundTraced ==
    ASSUME TypeOK, NEW s \in Scanner, FromPast(job[s])
    PROVE  Found(s) \subseteq Traced
BY KeptType DEF Found, FromPast, TypeOK

LEMMA ScannersTrace ==
    ASSUME Typed, Sourced, NEW s \in Scanner, Begin(s) \/ Step(s) \/ Abort(s)
    PROVE  /\ index' \subseteq Traced
           /\ \A x \in Scanner : job'[x].old \subseteq Traced /\ job'[x].entries \subseteq Traced
<1>0. /\ TypeOK /\ InHand /\ job[s] \in Job /\ clones \in [Repo -> Tree \cup {None}]
      /\ index \subseteq Entry
  BY DEF Typed, TypeOK
<1>f. FromPast(job[s]) /\ index \subseteq Traced /\ \A x \in Scanner : FromPast(job[x])
  BY DEF Sourced
<1>p. {"idle", "fetch", "walk", "head", "build", "save"} \subseteq Phase
  BY DEF Phase
<1>n. NoJob \in Job /\ FromPast(NoJob)
  BY NoJobType DEF FromPast
<1>1. CASE Begin(s)
  <2>1. PICK b \in BOOLEAN, S \in SUBSET Repo :
          \/ Turn(s, TodoJob(StartOf(b), S), "walk")
          \/ Turn(s, FetchJob(StartOf(b), S), "fetch")
    BY <1>1, BeginDoes
  <2>2. StartOf(b) \in Job /\ StartOf(b).old = index /\ StartOf(b).entries = {}
    BY <1>0, StartOfType
  <2>3. /\ TodoJob(StartOf(b), S) \in Job /\ FromPast(TodoJob(StartOf(b), S))
        /\ FetchJob(StartOf(b), S) \in Job /\ FromPast(FetchJob(StartOf(b), S))
    BY <1>f, <2>2, TodoJobType, FetchJobType DEF FromPast
  <2>5. index' = index
    BY <1>1, BeginDoes
  <2> QED BY <1>0, <1>f, <1>p, <2>1, <2>3, <2>5, TurnFromPast
<1>2. CASE Fetch(s)
  <2>1. PICK r \in job[s].fetch :
          \/ Turn(s, FetchJob(job[s], job[s].fetch \ {r}), "fetch")
          \/ Turn(s, NoJob, "idle")
    BY <1>0, <1>2, FetchDoes
  <2>2. job[s].fetch \ {r} \in SUBSET Repo
    BY <1>0, JobFields
  <2>3. /\ FetchJob(job[s], job[s].fetch \ {r}) \in Job
        /\ FromPast(FetchJob(job[s], job[s].fetch \ {r}))
    BY <1>0, <1>f, <2>2, FetchJobType DEF FromPast
  <2>5. index' = index
    BY <1>0, <1>2, FetchDoes
  <2> QED BY <1>0, <1>f, <1>n, <1>p, <2>1, <2>3, <2>5, TurnFromPast
<1>3. CASE Fetched(s)
  <2>1. PICK S \in SUBSET Repo : Turn(s, TodoJob(job[s], S), "walk")
    BY <1>3, FetchedDoes
  <2>2. TodoJob(job[s], S) \in Job /\ FromPast(TodoJob(job[s], S))
    BY <1>0, <1>f, TodoJobType DEF FromPast
  <2>5. index' = index
    BY <1>3, FetchedDoes
  <2> QED BY <1>0, <1>f, <1>p, <2>1, <2>2, <2>5, TurnFromPast
<1>4. CASE ListTags(s)
  <2>6. index' = index
    BY <1>0, <1>4, ListTagsDoes
  <2>1. PICK r \in job[s].todo :
          \/ clones[r] # None /\ Turn(s, ListedJob(job[s], r, TagsOf(clones[r])), "head")
          \/ Turn(s, MissedJob(job[s], r), "walk")
    BY <1>0, <1>4, ListTagsDoes
  <2>2. r \in Repo
    BY <1>0, JobFields
  <2>3. clones[r] # None => TagsOf(clones[r]) \in SUBSET Tag
    BY <1>0, <2>2, MarkType
  <2>4. CASE clones[r] # None /\ Turn(s, ListedJob(job[s], r, TagsOf(clones[r])), "head")
    <3>1. /\ ListedJob(job[s], r, TagsOf(clones[r])) \in Job
          /\ FromPast(ListedJob(job[s], r, TagsOf(clones[r])))
      BY <1>0, <1>f, <2>2, <2>3, <2>4, ListedJobType DEF FromPast
    <3> QED BY <1>0, <1>f, <1>p, <2>4, <2>6, <3>1, TurnFromPast
  <2>5. CASE Turn(s, MissedJob(job[s], r), "walk")
    <3>1. MissedJob(job[s], r) \in Job /\ FromPast(MissedJob(job[s], r))
      BY <1>0, <1>f, <2>2, MissedJobType DEF FromPast
    <3> QED BY <1>0, <1>f, <1>p, <2>5, <2>6, <3>1, TurnFromPast
  <2> QED BY <2>1, <2>4, <2>5
<1>5. CASE Compare(s)
  <2> DEFINE r == job[s].repo
  <2>6. index' = index
    BY <1>0, <1>5, CompareDoes
  <2>1. PICK h \in {0, IF clones[r] = None THEN 0 ELSE clones[r].head} :
          \/ Turn(s, SkippedJob(job[s], Marked(job[s], h)), "walk")
          \/ Turn(s, BuildingJob(job[s], Marked(job[s], h)), "build")
    BY <1>0, <1>5, CompareDoes
  <2>2. r \in Repo
    BY <1>0, <1>5, CompareDoes DEF InHand
  <2>3. Marked(job[s], h) \in Mark
    BY <1>0, <2>2, HeadType, JobFields DEF Marked, Mark
  <2>4. /\ SkippedJob(job[s], Marked(job[s], h)) \in Job
        /\ FromPast(SkippedJob(job[s], Marked(job[s], h)))
    BY <1>0, <1>f, <2>3, SkippedJobType DEF FromPast
  <2>5. /\ BuildingJob(job[s], Marked(job[s], h)) \in Job
        /\ FromPast(BuildingJob(job[s], Marked(job[s], h)))
    BY <1>0, <1>f, <2>3, BuildingJobType DEF FromPast
  <2> QED BY <1>0, <1>f, <1>p, <2>1, <2>4, <2>5, <2>6, TurnFromPast
<1>6. CASE Build(s)
  <2> DEFINE r == job[s].repo
  <2>6. index' = index
    BY <1>0, <1>6, BuildDoes
  <2>1. PICK t \in job[s].left :
          LET c == clones[r].tags[t]
          IN \/ /\ clones[r] # None /\ c # None
                /\ Turn(s, AddedJob(job[s], t, <<r, t, c>>), "build")
             \/ Turn(s, PassedJob(job[s], t), "build")
             \/ Turn(s, FailedJob(job[s], t), "build")
    BY <1>0, <1>6, BuildDoes
  <2>2. r \in Repo /\ t \in Tag
    BY <1>0, <1>6, BuildDoes, JobFields DEF InHand
  <2> DEFINE c == clones[r].tags[t]
  <2>3. CASE clones[r] # None /\ c # None /\ Turn(s, AddedJob(job[s], t, <<r, t, c>>), "build")
    <3>1. <<r, t, c>> \in Entry
      BY <1>0, <2>2, <2>3 DEF Tree, Entry
    <3>2. clones[r] \in past[r]
      BY <2>2, <2>3, Trees DEF Sourced, Genuine
    <3>3. <<r, t, c>> \in Traced
      BY <3>1, <3>2 DEF Traced
    <3>4. /\ AddedJob(job[s], t, <<r, t, c>>) \in Job
          /\ FromPast(AddedJob(job[s], t, <<r, t, c>>))
      BY <1>0, <1>f, <3>1, <3>3, AddedJobType DEF FromPast
    <3> QED BY <1>0, <1>f, <1>p, <2>3, <2>6, <3>4, TurnFromPast
  <2>4. PassedJob(job[s], t) \in Job /\ FromPast(PassedJob(job[s], t))
    BY <1>0, <1>f, PassedJobType DEF FromPast
  <2>5. FailedJob(job[s], t) \in Job /\ FromPast(FailedJob(job[s], t))
    BY <1>0, <1>f, <2>2, FailedJobType DEF FromPast
  <2>7. CASE Turn(s, PassedJob(job[s], t), "build")
    BY <1>0, <1>f, <1>p, <2>4, <2>6, <2>7, TurnFromPast
  <2>8. CASE Turn(s, FailedJob(job[s], t), "build")
    BY <1>0, <1>f, <1>p, <2>5, <2>6, <2>8, TurnFromPast
  <2> QED BY <2>1, <2>3, <2>7, <2>8
<1>7. CASE Built(s)
  <2>1. DoneJob(job[s]) \in Job /\ FromPast(DoneJob(job[s]))
    BY <1>0, <1>f, DoneJobType DEF FromPast
  <2>2. Turn(s, DoneJob(job[s]), "walk") /\ index' = index
    BY <1>7, BuiltDoes
  <2> QED BY <1>0, <1>f, <1>p, <2>1, <2>2, TurnFromPast
<1>8. CASE Write(s)
  <2>1. Turn(s, job[s], "save") /\ index' = Found(s)
    BY <1>0, <1>8, WriteDoes
  <2>2. index' \subseteq Traced
    BY <1>0, <1>f, <2>1, FoundTraced
  <2> QED BY <1>0, <1>f, <1>p, <2>1, <2>2, TurnFromPast
<1>9. CASE Save(s)
  <2>1. Turn(s, NoJob, "idle") /\ index' = index
    BY <1>9, SaveDoes
  <2> QED BY <1>0, <1>f, <1>n, <1>p, <2>1, TurnFromPast
<1>10. CASE Abort(s)
  <2>1. Turn(s, NoJob, "idle") /\ (index' = index \/ index' \subseteq Found(s))
    BY <1>10, AbortDoes
  <2>2. index' \subseteq Traced
    BY <1>0, <1>f, <2>1, FoundTraced
  <2> QED BY <1>0, <1>f, <1>n, <1>p, <2>1, <2>2, TurnFromPast
<1> QED BY <1>1, <1>2, <1>3, <1>4, <1>5, <1>6, <1>7, <1>8, <1>9, <1>10 DEF Step

LEMMA NextSourced ==
    ASSUME Typed, Sourced, [Next]_vars
    PROVE  Sourced'
<1>1. Surroundings
  BY TheSurroundings
<1>2. Genuine' /\ Traced \subseteq Traced'
  BY <1>1, StaysGenuine, TracedGrows DEF Surroundings, Sourced
<1>3. /\ index' \subseteq Traced
      /\ \A x \in Scanner : job'[x].old \subseteq Traced /\ job'[x].entries \subseteq Traced
  <2>1. CASE UNCHANGED <<index, job>>
    BY <2>1 DEF Sourced, FromPast
  <2>2. CASE \E s \in Scanner : Begin(s) \/ Step(s) \/ Abort(s)
    BY <2>2, ScannersTrace
  <2> QED BY <2>1, <2>2 DEF Next, Push, Retire, Refresh, vars
<1>4. \A x \in Scanner : FromPast(job[x])'
  BY <1>2, <1>3 DEF FromPast
<1> QED BY <1>2, <1>3, <1>4 DEF Sourced

LEMMA InitSourced ==
    ASSUME Init
    PROVE  Sourced
<1>1. Genuine
  BY DEF Genuine, Init
<1>2. \A s \in Scanner : FromPast(job[s])
  BY NoJobType DEF FromPast, Init
<1>3. index \subseteq Traced
  BY DEF Init
<1> QED BY <1>1, <1>2, <1>3 DEF Sourced

LEMMA AlwaysSourced == Spec => [](Typed /\ Sourced)
<1>1. Init => Typed /\ Sourced
  BY InitTyped, InitSourced
<1>2. Typed /\ Sourced /\ [Next]_vars => (Typed /\ Sourced)'
  BY NextTyped, NextSourced
<1> QED BY <1>1, <1>2, PTL DEF Spec

\* Whatever runs at the same time, and wherever scans are cut short, no entry of the
\* index has a content that the tag never named: build_entry reads what it checks out
\* (org_walk.rs), and an incremental scan carries entries over as they are (reindex.rs).
THEOREM EntriesHadATag == Spec => []NoPhantoms
<1>1. Sourced => NoPhantoms
  BY DEF Sourced, Traced, NoPhantoms
<1> QED BY <1>1, AlwaysSourced, PTL

------------------------------------------------------------------------------
\* One scanner. A checkpoint that is not in doubt says of a repository what the index
\* has: for each tag, the content of a tree at its head or later (Backed), and
\* nothing else (Exact). The report of a scan is like that for what is walked.

OneScanner == \A s, t \in Scanner : s = t

Real(c) == c \notin {None, HalfCloned}
NotAfter(h, c, o) == (Real(c) => h <= c.head) /\ (o # None => h <= o.head)

Backed(r, E, h, t, pa, cl, og) ==
    \E b \in pa[r] :
        /\ b.tags[t] # None /\ h <= b.head /\ NotAfter(b.head, cl[r], og[r])
        /\ \A x \in Content : <<r, t, x>> \in E <=> x = b.tags[t] /\ x \notin Invalid
Exact(r, E, h, T, pa, cl, og) ==
    /\ \A t \in T : Backed(r, E, h, t, pa, cl, og)
    /\ \A t \in Tag, x \in Content : <<r, t, x>> \in E => t \in T

Bare(r, E) == \A t \in Tag, x \in Content : <<r, t, x>> \notin E

HeadsInOrder ==
    \A r \in Repo : Real(clones[r]) /\ org[r] # None => clones[r].head <= org[r].head
CheckpointHolds ==
    \A r \in Repo : r \notin doubt /\ checkpoint[r] # None =>
        Exact(r, index, checkpoint[r].head, checkpoint[r].tags, past, clones, org)

Opened(p, j, ix, cp) ==
    /\ (j.incremental /\ j.prior = cp) \/ (~j.incremental /\ j.prior = NoMarks)
    /\ p # "save" => j.old = ix
Untouched(p, j) ==
    /\ p = "fetch" => j.entries = {} /\ j.marks = NoMarks
    /\ p \in {"head", "build"} => j.repo \notin j.todo
    /\ p = "head" => j.marks[j.repo] = None
    /\ \A r \in j.todo : j.marks[r] = None
    /\ \A r \in Repo : j.marks[r] = None => Bare(r, j.entries)
Walked(p, j, pa, cl, og) ==
    \A r \in Repo : r \notin j.failed /\ j.marks[r] # None /\ (p = "build" => r # j.repo) =>
        \/ j.marks[r] = j.prior[r] /\ Bare(r, j.entries)
        \/ /\ j.marks[r] # j.prior[r]
           /\ Exact(r, j.entries, j.marks[r].head, j.marks[r].tags, pa, cl, og)
Building(p, j, pa, cl, og) ==
    p = "build" =>
        LET r == j.repo
        IN /\ j.marks[r] # None /\ j.marks[r] # j.prior[r]
           /\ NotAfter(j.marks[r].head, cl[r], og[r]) /\ j.left \subseteq j.marks[r].tags
           /\ r \notin j.failed =>
                Exact(r, j.entries, j.marks[r].head, j.marks[r].tags \ j.left, pa, cl, og)
Written(p, j, ix) == p = "save" => ix = Kept(j) \cup j.entries

Scan(p, j, ix, cp, pa, cl, og) ==
    p # "idle" =>
        /\ Opened(p, j, ix, cp) /\ Untouched(p, j)
        /\ Walked(p, j, pa, cl, og) /\ Building(p, j, pa, cl, og) /\ Written(p, j, ix)

Indexed ==
    /\ HeadsInOrder /\ CheckpointHolds
    /\ \A s \in Scanner : Scan(pc[s], job[s], index, checkpoint, past, clones, org)

LEMMA NotAfterKeeps ==
    ASSUME Typed, Surroundings, NEW r \in Repo, NEW h \in Nat, NotAfter(h, clones[r], org[r])
    PROVE  NotAfter(h, clones'[r], org'[r])
<1>1. /\ clones'[r] \in {clones[r], org[r], None, HalfCloned}
      /\ org'[r] # None => org[r] # None /\ org[r].head <= org'[r].head
  BY DEF Surroundings, ClonesFollow, HeadsGrow
<1>2. org' \in [Repo -> Tree \cup {None}] /\ org \in [Repo -> Tree \cup {None}]
  BY DEF Surroundings, HeadsGrow, Typed, TypeOK
<1>3. /\ org[r] # None => org[r].head \in Nat
      /\ org'[r] # None => org'[r].head \in Nat
  BY <1>2, Facts DEF Tree
<1>4. Real(clones'[r]) => h <= clones'[r].head
  BY <1>1 DEF NotAfter, Real
<1>5. org'[r] # None => h <= org'[r].head
  BY <1>1, <1>3 DEF NotAfter
<1> QED BY <1>4, <1>5 DEF NotAfter

LEMMA ExactKeeps ==
    ASSUME Typed, Surroundings, NEW r \in Repo, NEW E, NEW h, NEW T,
           Exact(r, E, h, T, past, clones, org)
    PROVE  Exact(r, E, h, T, past', clones', org')
<1> SUFFICES ASSUME NEW t \in T PROVE Backed(r, E, h, t, past', clones', org')
  BY DEF Exact
<1>1. PICK b \in past[r] :
        /\ b.tags[t] # None /\ h <= b.head /\ NotAfter(b.head, clones[r], org[r])
        /\ \A x \in Content : <<r, t, x>> \in E <=> x = b.tags[t] /\ x \notin Invalid
  BY DEF Exact, Backed
<1>2. b \in past'[r] /\ b \in Tree
  BY DEF Surroundings, PastGrows, Typed, TypeOK
<1>3. b.head \in Nat
  BY <1>2, Facts DEF Tree
<1>4. NotAfter(b.head, clones'[r], org'[r])
  BY <1>1, <1>3, NotAfterKeeps
<1> QED BY <1>1, <1>2, <1>4 DEF Backed

\* Only the entries of the repository count.
LEMMA ExactSame ==
    ASSUME NEW r, NEW E, NEW F, NEW h, NEW T, NEW pa, NEW cl, NEW og, T \subseteq Tag,
           \A t \in Tag, x \in Content : <<r, t, x>> \in E <=> <<r, t, x>> \in F,
           Exact(r, E, h, T, pa, cl, og)
    PROVE  Exact(r, F, h, T, pa, cl, og)
<1>1. ASSUME NEW t \in T PROVE Backed(r, F, h, t, pa, cl, og)
  <2>1. PICK b \in pa[r] :
          /\ b.tags[t] # None /\ h <= b.head /\ NotAfter(b.head, cl[r], og[r])
          /\ \A x \in Content : <<r, t, x>> \in E <=> x = b.tags[t] /\ x \notin Invalid
    BY DEF Exact, Backed
  <2>2. \A x \in Content : <<r, t, x>> \in F <=> x = b.tags[t] /\ x \notin Invalid
    BY <2>1
  <2> QED BY <2>1, <2>2 DEF Backed
<1>2. \A t \in Tag, x \in Content : <<r, t, x>> \in F => t \in T
  BY DEF Exact
<1> QED BY <1>1, <1>2 DEF Exact

LEMMA ExactEmpty ==
    ASSUME NEW r, NEW E, NEW h, NEW pa, NEW cl, NEW og, Bare(r, E)
    PROVE  Exact(r, E, h, {}, pa, cl, og)
BY DEF Exact, Bare

\* One more tag is built: from the clone as it is now, which is no older than when its
\* head was read.
LEMMA ExactMore ==
    ASSUME NEW r, NEW E, NEW F, NEW h, NEW T, NEW U, NEW t, T \subseteq Tag,
           Exact(r, E, h, T, past, clones, org), t \in Tag, t \notin T, U = T \cup {t},
           \A u \in Tag, x \in Content : u # t => (<<r, u, x>> \in E <=> <<r, u, x>> \in F),
           clones[r] \in past[r], clones[r].tags[t] # None, h <= clones[r].head, NotAfter(clones[r].head, clones[r], org[r]),
           \A x \in Content : <<r, t, x>> \in F <=> x = clones[r].tags[t] /\ x \notin Invalid
    PROVE  Exact(r, F, h, U, past, clones, org)
<1>1. ASSUME NEW u \in U PROVE Backed(r, F, h, u, past, clones, org)
  <2>1. CASE u = t
    BY <2>1 DEF Backed
  <2>2. CASE u # t
    <3>1. u \in T
      BY <2>2
    <3>2. PICK b \in past[r] :
            /\ b.tags[u] # None /\ h <= b.head /\ NotAfter(b.head, clones[r], org[r])
            /\ \A x \in Content : <<r, u, x>> \in E <=> x = b.tags[u] /\ x \notin Invalid
      BY <3>1 DEF Exact, Backed
    <3>3. \A x \in Content : <<r, u, x>> \in F <=> x = b.tags[u] /\ x \notin Invalid
      BY <2>2, <3>1, <3>2
    <3> QED BY <3>2, <3>3 DEF Backed
  <2> QED BY <2>1, <2>2
<1>2. \A u \in Tag, x \in Content : <<r, u, x>> \in F => u \in U
  BY DEF Exact
<1> QED BY <1>1, <1>2 DEF Exact

LEMMA HeadsStayInOrder ==
    ASSUME Typed, Surroundings, HeadsInOrder
    PROVE  HeadsInOrder'
<1> SUFFICES ASSUME NEW r \in Repo, Real(clones'[r]), org'[r] # None
             PROVE  clones'[r].head <= org'[r].head
  BY DEF HeadsInOrder, Real
<1>1. clones'[r] \in {clones[r], org[r]}
  BY DEF Surroundings, ClonesFollow, Real
<1>2. org[r] # None /\ org[r].head <= org'[r].head
  BY DEF Surroundings, HeadsGrow
<1>3. /\ org' \in [Repo -> Tree \cup {None}] /\ org \in [Repo -> Tree \cup {None}]
      /\ clones \in [Repo -> Tree \cup {None}]
  BY DEF Surroundings, HeadsGrow, Typed, TypeOK
<1>4. org[r].head \in Nat /\ org'[r].head \in Nat /\ (Real(clones[r]) => clones[r].head \in Nat)
  BY <1>2, <1>3, Facts DEF Tree, Real
<1>5. CASE clones'[r] = org[r]
  BY <1>2, <1>5
<1>6. CASE clones'[r] = clones[r]
  <2>1. Real(clones[r])
    BY <1>6
  <2>2. clones[r].head <= org[r].head
    BY <1>2, <2>1 DEF HeadsInOrder
  <2> QED BY <1>2, <1>4, <1>6, <2>1, <2>2
<1> QED BY <1>1, <1>5, <1>6

\* What happens around a scan leaves it as it is.
LEMMA CheckpointKeeps ==
    ASSUME Typed, Surroundings, CheckpointHolds, UNCHANGED <<index, checkpoint, doubt>>
    PROVE  CheckpointHolds'
<1> SUFFICES ASSUME NEW r \in Repo, r \notin doubt, checkpoint[r] # None
             PROVE  Exact(r, index, checkpoint[r].head, checkpoint[r].tags, past', clones', org')
  BY DEF CheckpointHolds
<1>1. Exact(r, index, checkpoint[r].head, checkpoint[r].tags, past, clones, org)
  BY DEF CheckpointHolds
<1> QED BY <1>1, ExactKeeps

LEMMA ScanKeeps ==
    ASSUME Typed, Surroundings, NEW j \in Job, NEW p, p = "build" => j.repo \in Repo,
           Scan(p, j, index, checkpoint, past, clones, org)
    PROVE  Scan(p, j, index, checkpoint, past', clones', org')
<1> SUFFICES ASSUME p # "idle"
             PROVE  Walked(p, j, past', clones', org') /\ Building(p, j, past', clones', org')
  BY DEF Scan
<1>1. /\ Walked(p, j, past, clones, org) /\ Building(p, j, past, clones, org)
  BY DEF Scan
<1>2. Walked(p, j, past', clones', org')
  <2> SUFFICES ASSUME NEW r \in Repo, Exact(r, j.entries, j.marks[r].head, j.marks[r].tags, past, clones, org)
               PROVE  Exact(r, j.entries, j.marks[r].head, j.marks[r].tags, past', clones', org')
    BY <1>1 DEF Walked
  <2> QED BY ExactKeeps
<1>3. ASSUME p = "build" PROVE Building(p, j, past', clones', org')
  <2> DEFINE r == j.repo
  <2>1. r \in Repo /\ j.marks[r] # None /\ j.marks[r] \in Mark
    BY <1>1, <1>3, JobFields DEF Building
  <2>2. j.marks[r].head \in Nat
    BY <2>1, Facts DEF Mark
  <2>3. NotAfter(j.marks[r].head, clones'[r], org'[r])
    BY <1>1, <1>3, <2>1, <2>2, NotAfterKeeps DEF Building
  <2>4. r \notin j.failed =>
          Exact(r, j.entries, j.marks[r].head, j.marks[r].tags \ j.left, past', clones', org')
    BY <1>1, <1>3, <2>1, ExactKeeps DEF Building
  <2> QED BY <1>1, <1>3, <2>3, <2>4 DEF Building
<1>4. p # "build" => Building(p, j, past', clones', org')
  BY DEF Building
<1> QED BY <1>2, <1>3, <1>4

\* A scan with nothing in its report yet.
LEMMA FreshScan ==
    ASSUME NEW j \in Job, NEW p, p \in {"fetch", "walk"}, j.entries = {}, j.marks = NoMarks,
           NEW ix, NEW cp, NEW pa, NEW cl, NEW og, Opened(p, j, ix, cp)
    PROVE  Scan(p, j, ix, cp, pa, cl, og)
<1>1. j.todo \subseteq Repo /\ \A r \in Repo : j.marks[r] = None
  BY JobFields, NoJobType
<1>2. Untouched(p, j)
  BY <1>1 DEF Untouched, Bare
<1>3. Walked(p, j, pa, cl, og)
  BY <1>1 DEF Walked
<1> QED BY <1>2, <1>3 DEF Scan, Building, Written

LEMMA BeginIndexes ==
    ASSUME Typed, Indexed, NEW s \in Scanner, Begin(s)
    PROVE  CheckpointHolds' /\ Scan(pc'[s], job'[s], index', checkpoint', past', clones', org')
<1>0. TypeOK /\ CheckpointHolds /\ UNCHANGED <<index, checkpoint, doubt>>
  BY BeginDoes DEF Typed, Indexed
<1>1. CheckpointHolds'
  BY <1>0, TheSurroundings, CheckpointKeeps DEF Next
<1>2. PICK b \in BOOLEAN, S \in SUBSET Repo :
        \/ Turn(s, TodoJob(StartOf(b), S), "walk")
        \/ Turn(s, FetchJob(StartOf(b), S), "fetch")
  BY BeginDoes
<1> DEFINE k == StartOf(b)
<1>3. /\ k \in Job /\ k.incremental = b /\ k.old = index /\ k.prior = (IF b THEN checkpoint ELSE NoMarks)
      /\ k.entries = {} /\ k.marks = NoMarks
  BY <1>0, StartOfType
<1>4. (k.incremental /\ k.prior = checkpoint) \/ (~k.incremental /\ k.prior = NoMarks)
  BY <1>3, Zenon
<1> HIDE DEF k
<1>5. ASSUME NEW j \in Job, NEW p \in {"fetch", "walk"}, Turn(s, j, p), j.incremental = k.incremental,
             j.old = k.old, j.prior = k.prior, j.entries = {}, j.marks = NoMarks
      PROVE  Scan(pc'[s], job'[s], index', checkpoint', past', clones', org')
  <2>1. Opened(p, j, index', checkpoint')
    <3>1. (j.incremental /\ j.prior = checkpoint) \/ (~j.incremental /\ j.prior = NoMarks)
      BY <1>4, <1>5, Zenon
    <3>2. j.old = index' /\ checkpoint' = checkpoint
      BY <1>0, <1>3, <1>5
    <3> QED BY <3>1, <3>2, Zenon DEF Opened
  <2>2. job'[s] = j /\ pc'[s] = p
    BY <1>0, <1>5, TurnGives DEF Phase
  <2>3. Scan(p, j, index', checkpoint', past', clones', org')
    BY <1>5, <2>1, FreshScan
  <2> QED BY <2>2, <2>3, Zenon
<1>6. CASE Turn(s, TodoJob(k, S), "walk")
  BY <1>1, <1>3, <1>5, <1>6, TodoJobType
<1>7. CASE Turn(s, FetchJob(k, S), "fetch")
  BY <1>1, <1>3, <1>5, <1>7, FetchJobType
<1> QED BY <1>1, <1>2, <1>6, <1>7 DEF k

LEMMA FetchIndexes ==
    ASSUME Typed, Indexed, NEW s \in Scanner, Fetch(s)
    PROVE  CheckpointHolds' /\ Scan(pc'[s], job'[s], index', checkpoint', past', clones', org')
<1>0. /\ TypeOK /\ CheckpointHolds /\ UNCHANGED <<index, checkpoint, doubt>> /\ pc[s] = "fetch"
      /\ job[s] \in Job
  BY FetchDoes DEF Typed, TypeOK, Indexed
<1>1. CheckpointHolds'
  BY <1>0, TheSurroundings, CheckpointKeeps DEF Next, Step
<1>2. PICK r \in job[s].fetch : \/ Turn(s, FetchJob(job[s], job[s].fetch \ {r}), "fetch")
                                \/ Turn(s, NoJob, "idle")
  BY <1>0, FetchDoes
<1>3. CASE Turn(s, NoJob, "idle")
  <2>1. pc'[s] = "idle"
    BY <1>0, <1>3, NoJobType, TurnGives DEF Phase
  <2> QED BY <1>1, <2>1 DEF Scan
<1>4. CASE Turn(s, FetchJob(job[s], job[s].fetch \ {r}), "fetch")
  <2> DEFINE j == job[s]
             k == FetchJob(j, j.fetch \ {r})
  <2>1. Opened("fetch", j, index, checkpoint) /\ j.entries = {} /\ j.marks = NoMarks
    BY <1>0 DEF Indexed, Scan, Untouched
  <2>2. j.fetch \ {r} \in SUBSET Repo
    BY <1>0, JobFields
  <2>3. /\ k \in Job /\ k.incremental = j.incremental /\ k.old = j.old /\ k.prior = j.prior
        /\ k.entries = j.entries /\ k.marks = j.marks
    BY <1>0, <2>2, FetchJobType
  <2>4. job'[s] = k /\ pc'[s] = "fetch"
    BY <1>0, <1>4, <2>3, TurnGives DEF Phase
  <2> HIDE DEF j, k
  <2>5. Opened("fetch", k, index', checkpoint')
    BY <1>0, <2>1, <2>3, Zenon DEF Opened
  <2>6. Scan("fetch", k, index', checkpoint', past', clones', org')
    BY <2>1, <2>3, <2>5, FreshScan
  <2> QED BY <1>1, <2>4, <2>6, Zenon
<1> QED BY <1>2, <1>3, <1>4

LEMMA FetchedIndexes ==
    ASSUME Typed, Indexed, NEW s \in Scanner, Fetched(s)
    PROVE  CheckpointHolds' /\ Scan(pc'[s], job'[s], index', checkpoint', past', clones', org')
<1>0. /\ TypeOK /\ CheckpointHolds /\ UNCHANGED <<index, checkpoint, doubt>> /\ pc[s] = "fetch"
      /\ job[s] \in Job
  BY FetchedDoes DEF Typed, TypeOK, Indexed
<1>1. CheckpointHolds'
  BY <1>0, TheSurroundings, CheckpointKeeps DEF Next, Step
<1>2. PICK S \in SUBSET Repo : Turn(s, TodoJob(job[s], S), "walk")
  BY FetchedDoes
<1> DEFINE j == job[s]
           k == TodoJob(j, S)
<1>3. Opened("fetch", j, index, checkpoint) /\ j.entries = {} /\ j.marks = NoMarks
  BY <1>0 DEF Indexed, Scan, Untouched
<1>4. /\ k \in Job /\ k.incremental = j.incremental /\ k.old = j.old /\ k.prior = j.prior
      /\ k.entries = j.entries /\ k.marks = j.marks
  BY <1>0, TodoJobType
<1>5. job'[s] = k /\ pc'[s] = "walk"
  BY <1>0, <1>2, <1>4, TurnGives DEF Phase
<1> HIDE DEF j, k
<1>6. Opened("walk", k, index', checkpoint')
  BY <1>0, <1>3, <1>4, Zenon DEF Opened
<1>7. Scan("walk", k, index', checkpoint', past', clones', org')
  BY <1>3, <1>4, <1>6, FreshScan
<1> QED BY <1>1, <1>5, <1>7, Zenon

\* A step of the scan that changes nothing but its progress.
LEMMA OwnStep ==
    ASSUME Typed, Indexed, NEW s \in Scanner, Step(s), NEW j \in Job, NEW p \in Phase, Turn(s, j, p),
           UNCHANGED <<clones, index, checkpoint, doubt>>,
           Scan(p, j, index, checkpoint, past, clones, org)
    PROVE  CheckpointHolds' /\ Scan(pc'[s], job'[s], index', checkpoint', past', clones', org')
<1>1. UNCHANGED <<past, org>>
  BY ScannersAreQuiet DEF Typed, Quiet
<1>2. CheckpointHolds'
  BY TheSurroundings, CheckpointKeeps DEF Indexed, Next
<1>3. job'[s] = j /\ pc'[s] = p
  BY TurnGives DEF Typed
<1> QED BY <1>1, <1>2, <1>3, Zenon

LEMMA ListTagsIndexes ==
    ASSUME Typed, Indexed, NEW s \in Scanner, ListTags(s)
    PROVE  CheckpointHolds' /\ Scan(pc'[s], job'[s], index', checkpoint', past', clones', org')
<1> DEFINE j == job[s]
<1>0. TypeOK /\ pc[s] = "walk" /\ UNCHANGED <<clones, index, checkpoint, doubt>> /\ j \in Job
  BY ListTagsDoes DEF Typed, TypeOK
<1>1. /\ Opened("walk", j, index, checkpoint) /\ Untouched("walk", j) /\ Walked("walk", j, past, clones, org)
  BY <1>0 DEF Indexed, Scan
<1>2. PICK r \in j.todo :
        \/ clones[r] # None /\ Turn(s, ListedJob(j, r, TagsOf(clones[r])), "head")
        \/ Turn(s, MissedJob(j, r), "walk")
  BY <1>0, ListTagsDoes
<1>3. r \in Repo /\ j.marks[r] = None /\ {"walk", "head"} \subseteq Phase
  BY <1>0, <1>1, JobFields DEF Untouched, Phase
<1>4. CASE clones[r] # None /\ Turn(s, ListedJob(j, r, TagsOf(clones[r])), "head")
  <2> DEFINE k == ListedJob(j, r, TagsOf(clones[r]))
  <2>1. TagsOf(clones[r]) \in SUBSET Tag
    BY <1>0, <1>3, <1>4, MarkType DEF TypeOK
  <2>2. /\ k \in Job /\ k.incremental = j.incremental /\ k.old = j.old /\ k.prior = j.prior
        /\ k.todo = j.todo \ {r} /\ k.repo = r /\ k.entries = j.entries
        /\ k.marks = j.marks /\ k.failed = j.failed
    BY <1>0, <1>3, <2>1, ListedJobType
  <2> HIDE DEF k, j
  <2>3. Opened("head", k, index, checkpoint)
    BY <1>1, <2>2, Zenon DEF Opened
  <2>4. Untouched("head", k)
    BY <1>1, <1>3, <2>2 DEF Untouched
  <2>5. Walked("head", k, past, clones, org)
    BY <1>1, <2>2 DEF Walked
  <2>6. Scan("head", k, index, checkpoint, past, clones, org)
    BY <2>3, <2>4, <2>5 DEF Scan, Building, Written
  <2> QED BY <1>0, <1>3, <1>4, <2>2, <2>6, OwnStep DEF Step, k
<1>5. CASE Turn(s, MissedJob(j, r), "walk")
  <2> DEFINE k == MissedJob(j, r)
  <2>2. /\ k \in Job /\ k.incremental = j.incremental /\ k.old = j.old /\ k.prior = j.prior
        /\ k.todo = j.todo \ {r} /\ k.entries = j.entries
        /\ k.marks = j.marks /\ k.failed = j.failed \cup {r}
    BY <1>0, <1>3, MissedJobType
  <2> HIDE DEF k, j
  <2>3. Opened("walk", k, index, checkpoint)
    BY <1>1, <2>2, Zenon DEF Opened
  <2>4. Untouched("walk", k)
    BY <1>1, <1>3, <2>2 DEF Untouched
  <2>5. Walked("walk", k, past, clones, org)
    BY <1>1, <2>2 DEF Walked
  <2>6. Scan("walk", k, index, checkpoint, past, clones, org)
    BY <2>3, <2>4, <2>5 DEF Scan, Building, Written
  <2> QED BY <1>0, <1>3, <1>5, <2>2, <2>6, OwnStep DEF Step, k
<1> QED BY <1>2, <1>4, <1>5

LEMMA HeadIsNotAfter ==
    ASSUME TypeOK, HeadsInOrder, NEW r \in Repo,
           NEW h \in {0, IF clones[r] = None THEN 0 ELSE clones[r].head}
    PROVE  NotAfter(h, clones[r], org[r])
<1>1. /\ clones[r] # None => clones[r].head \in Nat
      /\ org[r] # None => org[r].head \in Nat
  BY Facts DEF TypeOK, Tree
<1>2. Real(clones[r]) => clones[r] # None
  BY DEF Real
<1>3. CASE h = 0
  BY <1>1, <1>2, <1>3 DEF NotAfter
<1>4. CASE clones[r] # None /\ h = clones[r].head
  <2>1. CASE Real(clones[r])
    BY <1>1, <1>2, <1>4, <2>1 DEF NotAfter, HeadsInOrder
  <2>2. CASE clones[r] = HalfCloned
    BY <1>3, <1>4, <2>2, Trees
  <2> QED BY <1>4, <2>1, <2>2 DEF Real
<1> QED BY <1>3, <1>4

LEMMA CompareIndexes ==
    ASSUME Typed, Indexed, NEW s \in Scanner, Compare(s)
    PROVE  CheckpointHolds' /\ Scan(pc'[s], job'[s], index', checkpoint', past', clones', org')
<1> DEFINE j == job[s]
           r == j.repo
<1>0. /\ TypeOK /\ HeadsInOrder /\ pc[s] = "head" /\ UNCHANGED <<clones, index, checkpoint, doubt>>
      /\ j \in Job /\ r \in Repo
  BY CompareDoes DEF Typed, TypeOK, InHand, Indexed
<1>1. /\ Opened("head", j, index, checkpoint) /\ Untouched("head", j) /\ Walked("head", j, past, clones, org)
  BY <1>0 DEF Indexed, Scan
<1>2. PICK h \in {0, IF clones[r] = None THEN 0 ELSE clones[r].head} :
        \/ /\ j.prior[r] = Marked(j, h)
           /\ Turn(s, SkippedJob(j, Marked(j, h)), "walk")
        \/ /\ j.prior[r] # Marked(j, h)
           /\ Turn(s, BuildingJob(j, Marked(j, h)), "build")
  BY <1>0, CompareDoes
<1>3. /\ j.marks[r] = None /\ r \notin j.todo /\ Bare(r, j.entries) /\ {"walk", "build"} \subseteq Phase
      /\ j.todo \subseteq Repo /\ j.marks \in [Repo -> Mark \cup {None}]
  BY <1>0, <1>1, JobFields DEF Untouched, Phase
<1>4. Marked(j, h) \in Mark
  BY <1>0, HeadType, JobFields DEF Marked, Mark
<1> DEFINE mark == Marked(j, h)
<1>5. mark \in Mark /\ mark # None /\ mark.head = h
  BY <1>4, Facts DEF Marked
<1>6. NotAfter(h, clones[r], org[r])
  BY <1>0, HeadIsNotAfter
<1> HIDE DEF mark
<1>7. CASE j.prior[r] = mark /\ Turn(s, SkippedJob(j, mark), "walk")
  <2> DEFINE k == SkippedJob(j, mark)
  <2>2. /\ k \in Job /\ k.incremental = j.incremental /\ k.old = j.old /\ k.prior = j.prior
        /\ k.todo = j.todo /\ k.entries = j.entries
        /\ k.marks = [j.marks EXCEPT ![r] = mark] /\ k.failed = j.failed
    BY <1>0, <1>5, SkippedJobType
  <2> HIDE DEF k, j
  <2>a. /\ k.marks[r] = mark /\ \A q \in Repo : q # r => k.marks[q] = j.marks[q]
    BY <1>0, <1>3, <2>2
  <2>3. Opened("walk", k, index, checkpoint)
    BY <1>1, <2>2, Zenon DEF Opened
  <2>4. Untouched("walk", k)
    BY <1>1, <1>3, <1>5, <2>2, <2>a DEF Untouched
  <2>5. Walked("walk", k, past, clones, org)
    BY <1>0, <1>1, <1>3, <1>7, <2>2, <2>a DEF Walked
  <2>6. Scan("walk", k, index, checkpoint, past, clones, org)
    BY <2>3, <2>4, <2>5 DEF Scan, Building, Written
  <2> QED BY <1>0, <1>3, <1>7, <2>2, <2>6, OwnStep DEF Step, k
<1>8. CASE j.prior[r] # mark /\ Turn(s, BuildingJob(j, mark), "build")
  <2> DEFINE k == BuildingJob(j, mark)
  <2>2. /\ k \in Job /\ k.incremental = j.incremental /\ k.old = j.old /\ k.prior = j.prior
        /\ k.todo = j.todo /\ k.repo = r /\ k.left = mark.tags /\ k.entries = j.entries
        /\ k.marks = [j.marks EXCEPT ![r] = mark] /\ k.failed = j.failed
    BY <1>0, <1>5, BuildingJobType
  <2> HIDE DEF k, j, r
  <2>a. /\ k.marks[r] = mark /\ \A q \in Repo : q # r => k.marks[q] = j.marks[q]
    BY <1>0, <1>3, <2>2
  <2>3. Opened("build", k, index, checkpoint)
    BY <1>1, <2>2, Zenon DEF Opened
  <2>4. Untouched("build", k)
    BY <1>1, <1>3, <1>5, <2>2, <2>a DEF Untouched
  <2>5. Walked("build", k, past, clones, org)
    BY <1>0, <1>1, <2>2, <2>a DEF Walked
  <2>6. Building("build", k, past, clones, org)
    <3>1. Exact(r, k.entries, mark.head, {}, past, clones, org)
      BY <1>3, <2>2, ExactEmpty
    <3>2. k.marks[r].tags \ k.left = {}
      BY <2>2, <2>a
    <3> QED BY <1>5, <1>6, <1>8, <2>2, <2>a, <3>1, <3>2 DEF Building
  <2>7. Scan("build", k, index, checkpoint, past, clones, org)
    BY <2>3, <2>4, <2>5, <2>6 DEF Scan, Written
  <2> QED BY <1>0, <1>3, <1>8, <2>2, <2>7, OwnStep DEF Step, k
<1> QED BY <1>2, <1>7, <1>8 DEF mark

\* What is built goes to the repository in hand; the others are as they were.
LEMMA OthersStay ==
    ASSUME NEW j \in Job, NEW k \in Job, NEW pa, NEW cl, NEW og,
           k.repo = j.repo, k.marks = j.marks, k.prior = j.prior, k.todo = j.todo,
           j.failed \subseteq k.failed, Untouched("build", j), Walked("build", j, pa, cl, og),
           j.repo \in Repo, j.marks[j.repo] # None,
           \A q \in Repo, t \in Tag, x \in Content :
             q # j.repo => (<<q, t, x>> \in j.entries <=> <<q, t, x>> \in k.entries)
    PROVE  Untouched("build", k) /\ Walked("build", k, pa, cl, og)
<1>1. Untouched("build", k)
  BY DEF Untouched, Bare
<1>2. Walked("build", k, pa, cl, og)
  <2> SUFFICES ASSUME NEW q \in Repo, q \notin k.failed, k.marks[q] # None, q # k.repo
               PROVE  \/ k.marks[q] = k.prior[q] /\ Bare(q, k.entries)
                      \/ /\ k.marks[q] # k.prior[q]
                         /\ Exact(q, k.entries, k.marks[q].head, k.marks[q].tags, pa, cl, og)
    BY DEF Walked
  <2>1. \/ j.marks[q] = j.prior[q] /\ Bare(q, j.entries)
        \/ /\ j.marks[q] # j.prior[q]
           /\ Exact(q, j.entries, j.marks[q].head, j.marks[q].tags, pa, cl, og)
    BY DEF Walked
  <2>2. \A t \in Tag, x \in Content : <<q, t, x>> \in j.entries <=> <<q, t, x>> \in k.entries
    OBVIOUS
  <2>3. CASE Bare(q, j.entries) /\ j.marks[q] = j.prior[q]
    BY <2>2, <2>3 DEF Bare
  <2>4. CASE /\ j.marks[q] # j.prior[q]
             /\ Exact(q, j.entries, j.marks[q].head, j.marks[q].tags, pa, cl, og)
    <3>1. j.marks[q].tags \subseteq Tag
      BY JobFields DEF Mark
    <3>2. Exact(q, k.entries, j.marks[q].head, j.marks[q].tags, pa, cl, og)
      BY <2>2, <2>4, <3>1, ExactSame
    <3> QED BY <2>4, <3>2
  <2> QED BY <2>1, <2>3, <2>4
<1> QED BY <1>1, <1>2

LEMMA OneMoreTag ==
    ASSUME Typed, Genuine, HeadsInOrder, NEW j \in Job, NEW k \in Job, NEW t \in j.left,
           j.repo \in Repo, Building("build", j, past, clones, org),
           k.repo = j.repo, k.marks = j.marks, k.prior = j.prior, k.failed = j.failed,
           k.left = j.left \ {t},
           clones[j.repo] # None, clones[j.repo].tags[t] # None,
           \A u \in Tag, x \in Content : u # t =>
             (<<j.repo, u, x>> \in j.entries <=> <<j.repo, u, x>> \in k.entries),
           \A x \in Content : <<j.repo, t, x>> \in k.entries <=>
             \/ <<j.repo, t, x>> \in j.entries
             \/ x = clones[j.repo].tags[t] /\ x \notin Invalid
    PROVE  Building("build", k, past, clones, org)
<1> DEFINE r == j.repo
           m == j.marks[r]
           c == clones[r]
<1>1. /\ m # None /\ m # j.prior[r] /\ NotAfter(m.head, c, org[r]) /\ j.left \subseteq m.tags
      /\ r \notin j.failed => Exact(r, j.entries, m.head, m.tags \ j.left, past, clones, org)
  BY DEF Building
<1>2. m \in Mark /\ m.tags \subseteq Tag /\ t \in m.tags /\ t \in Tag
  BY <1>1, JobFields DEF Mark
<1>3. c \in past[r] /\ Real(c)
  BY <1>2, Trees DEF Genuine, Real
<1>4. m.head <= c.head /\ NotAfter(c.head, c, org[r])
  BY <1>1, <1>3, HeadIsNotAfter DEF NotAfter, Typed
<1>5. ASSUME r \notin j.failed
      PROVE  Exact(r, k.entries, m.head, m.tags \ k.left, past, clones, org)
  <2> DEFINE T == m.tags \ j.left
             U == m.tags \ k.left
  <2>1. T \subseteq Tag /\ t \notin T /\ U = T \cup {t}
    BY <1>2
  <2>2. Exact(r, j.entries, m.head, T, past, clones, org)
    BY <1>1, <1>5
  <2>3. \A x \in Content : <<r, t, x>> \notin j.entries
    BY <1>2, <2>1, <2>2 DEF Exact
  <2>4. \A x \in Content : <<r, t, x>> \in k.entries <=> x = c.tags[t] /\ x \notin Invalid
    BY <2>3
  <2>6. /\ \A u \in Tag, x \in Content : u # t => (<<r, u, x>> \in j.entries <=> <<r, u, x>> \in k.entries)
        /\ c.tags[t] # None
    OBVIOUS
  <2>7. clones[r] \in past[r] /\ m.head <= clones[r].head /\ NotAfter(clones[r].head, clones[r], org[r])
    BY <1>3, <1>4
  <2> HIDE DEF T, U, m, r
  <2>5. Exact(r, k.entries, m.head, U, past, clones, org)
    BY <1>2, <2>1, <2>2, <2>4, <2>6, <2>7, ExactMore
  <2> QED BY <2>5 DEF U
<1> QED BY <1>1, <1>5 DEF Building

LEMMA BuildIndexes ==
    ASSUME Typed, Sourced, Indexed, NEW s \in Scanner, Build(s)
    PROVE  CheckpointHolds' /\ Scan(pc'[s], job'[s], index', checkpoint', past', clones', org')
<1> DEFINE j == job[s]
           r == j.repo
<1>0. /\ TypeOK /\ HeadsInOrder /\ Genuine /\ pc[s] = "build"
      /\ UNCHANGED <<clones, index, checkpoint, doubt>>
      /\ j \in Job /\ r \in Repo /\ "build" \in Phase
  BY BuildDoes DEF Typed, TypeOK, InHand, Indexed, Sourced, Phase
<1>1. /\ Opened("build", j, index, checkpoint) /\ Untouched("build", j)
      /\ Walked("build", j, past, clones, org) /\ Building("build", j, past, clones, org)
  BY <1>0 DEF Indexed, Scan
<1>2. PICK t \in j.left :
        LET c == clones[r].tags[t]
        IN \/ /\ clones[r] # None /\ c # None /\ c \notin Invalid
              /\ Turn(s, AddedJob(j, t, <<r, t, c>>), "build")
           \/ /\ clones[r] # None /\ c \in Invalid
              /\ Turn(s, PassedJob(j, t), "build")
           \/ Turn(s, FailedJob(j, t), "build")
  BY <1>0, BuildDoes
<1> DEFINE c == clones[r].tags[t]
<1>3. j.marks[r] # None /\ t \in Tag
  BY <1>0, <1>1, JobFields DEF Building
<1>4. ASSUME NEW k \in Job, Turn(s, k, "build"), k.incremental = j.incremental, k.old = j.old,
             k.prior = j.prior, k.todo = j.todo, k.repo = r, k.marks = j.marks,
             j.failed \subseteq k.failed, Building("build", k, past, clones, org),
             \A q \in Repo, u \in Tag, x \in Content :
               q # r => (<<q, u, x>> \in j.entries <=> <<q, u, x>> \in k.entries)
      PROVE  CheckpointHolds' /\ Scan(pc'[s], job'[s], index', checkpoint', past', clones', org')
  <2>1. Opened("build", k, index, checkpoint)
    BY <1>1, <1>4, Zenon DEF Opened
  <2>2. Untouched("build", k) /\ Walked("build", k, past, clones, org)
    BY <1>0, <1>1, <1>3, <1>4, OthersStay
  <2>3. Scan("build", k, index, checkpoint, past, clones, org)
    BY <1>4, <2>1, <2>2 DEF Scan, Written
  <2> QED BY <1>0, <1>4, <2>3, OwnStep DEF Step
<1>5. CASE clones[r] # None /\ c # None /\ c \notin Invalid /\ Turn(s, AddedJob(j, t, <<r, t, c>>), "build")
  <2> DEFINE k == AddedJob(j, t, <<r, t, c>>)
  <2>1. <<r, t, c>> \in Entry
    BY <1>0, <1>3, <1>5 DEF TypeOK, Tree, Entry
  <2>2. /\ k \in Job /\ k.incremental = j.incremental /\ k.old = j.old /\ k.prior = j.prior
        /\ k.todo = j.todo /\ k.repo = r /\ k.left = j.left \ {t}
        /\ k.entries = j.entries \cup {<<r, t, c>>} /\ k.marks = j.marks /\ k.failed = j.failed
    BY <1>0, <2>1, AddedJobType
  <2> HIDE DEF k
  <2>3. Building("build", k, past, clones, org)
    BY <1>0, <1>1, <1>3, <1>5, <2>2, OneMoreTag
  <2>4. Turn(s, k, "build")
    BY <1>5 DEF k
  <2> QED BY <1>4, <2>2, <2>3, <2>4
<1>6. CASE clones[r] # None /\ c \in Invalid /\ Turn(s, PassedJob(j, t), "build")
  <2> DEFINE k == PassedJob(j, t)
  <2>2. /\ k \in Job /\ k.incremental = j.incremental /\ k.old = j.old /\ k.prior = j.prior
        /\ k.todo = j.todo /\ k.repo = r /\ k.left = j.left \ {t}
        /\ k.entries = j.entries /\ k.marks = j.marks /\ k.failed = j.failed
    BY <1>0, PassedJobType
  <2> HIDE DEF k
  <2>1. c # None
    BY <1>6, Facts
  <2>3. Building("build", k, past, clones, org)
    BY <1>0, <1>1, <1>3, <1>6, <2>1, <2>2, OneMoreTag
  <2>4. Turn(s, k, "build")
    BY <1>6 DEF k
  <2> QED BY <1>4, <2>2, <2>3, <2>4
<1>7. CASE Turn(s, FailedJob(j, t), "build")
  <2> DEFINE k == FailedJob(j, t)
  <2>2. /\ k \in Job /\ k.incremental = j.incremental /\ k.old = j.old /\ k.prior = j.prior
        /\ k.todo = j.todo /\ k.repo = r /\ k.left = j.left \ {t}
        /\ k.entries = j.entries /\ k.marks = j.marks /\ k.failed = j.failed \cup {r}
    BY <1>0, FailedJobType
  <2> HIDE DEF k
  <2>3. Building("build", k, past, clones, org)
    BY <1>1, <2>2 DEF Building
  <2>4. Turn(s, k, "build")
    BY <1>7 DEF k
  <2> QED BY <1>4, <2>2, <2>3, <2>4
<1> QED BY <1>2, <1>5, <1>6, <1>7

LEMMA BuiltIndexes ==
    ASSUME Typed, Indexed, NEW s \in Scanner, Built(s)
    PROVE  CheckpointHolds' /\ Scan(pc'[s], job'[s], index', checkpoint', past', clones', org')
<1> DEFINE j == job[s]
           k == DoneJob(j)
<1>0. /\ TypeOK /\ pc[s] = "build" /\ j.left = {} /\ UNCHANGED <<clones, index, checkpoint, doubt>>
      /\ j \in Job /\ "walk" \in Phase /\ Turn(s, k, "walk")
  BY BuiltDoes DEF Typed, TypeOK, Phase
<1>1. /\ Opened("build", j, index, checkpoint) /\ Untouched("build", j)
      /\ Walked("build", j, past, clones, org) /\ Building("build", j, past, clones, org)
  BY <1>0 DEF Indexed, Scan
<1>2. /\ k \in Job /\ k.incremental = j.incremental /\ k.old = j.old /\ k.prior = j.prior
      /\ k.todo = j.todo /\ k.entries = j.entries /\ k.marks = j.marks /\ k.failed = j.failed
  BY <1>0, DoneJobType
<1> HIDE DEF k
<1>3. Opened("walk", k, index, checkpoint)
  BY <1>1, <1>2, Zenon DEF Opened
<1>4. Untouched("walk", k)
  BY <1>1, <1>2 DEF Untouched
<1>5. Walked("walk", k, past, clones, org)
  <2> DEFINE r == j.repo
  <2>1. j.marks[r] # j.prior[r]
    BY <1>1 DEF Building
  <2>2. j.marks[r].tags \ j.left = j.marks[r].tags
    BY <1>0
  <2>3. r \notin j.failed => Exact(r, j.entries, j.marks[r].head, j.marks[r].tags, past, clones, org)
    BY <1>1, <2>2 DEF Building
  <2> QED BY <1>1, <1>2, <2>1, <2>3 DEF Walked
<1>6. Scan("walk", k, index, checkpoint, past, clones, org)
  BY <1>3, <1>4, <1>5 DEF Scan, Building, Written
<1> QED BY <1>0, <1>2, <1>6, OwnStep DEF Step

LEMMA BareMeans ==
    ASSUME NEW E \in SUBSET Entry, NEW r
    PROVE  Bare(r, E) <=> OfRepo(E, r) = {}
<1>1. ASSUME NEW e \in OfRepo(E, r)
      PROVE  e \in E /\ e[2] \in Tag /\ e[3] \in Content /\ e = <<r, e[2], e[3]>>
  BY DEF OfRepo, Entry
<1>2. ASSUME Bare(r, E) PROVE OfRepo(E, r) = {}
  BY <1>1, <1>2 DEF Bare
<1>3. ASSUME OfRepo(E, r) = {} PROVE Bare(r, E)
  BY <1>3 DEF Bare, OfRepo
<1> QED BY <1>2, <1>3

LEMMA WhatIsKept ==
    ASSUME NEW j \in Job, NEW r \in Repo
    PROVE  /\ ~j.incremental => Kept(j) = {}
           /\ j.incremental /\ r \in Filed /\ j.marks[r] # None /\ Bare(r, j.entries) =>
                \A t \in Tag, x \in Content : <<r, t, x>> \in Kept(j) <=> <<r, t, x>> \in j.old
<1>1. ~j.incremental => Kept(j) = {}
  BY Zenon DEF Kept
<1>2. ASSUME j.incremental, r \in Filed, j.marks[r] # None, Bare(r, j.entries),
             NEW t \in Tag, NEW x \in Content
      PROVE  <<r, t, x>> \in Kept(j) <=> <<r, t, x>> \in j.old
  <2>1. Kept(j) = {e \in j.old : e[1] \in Filed /\ j.marks[e[1]] # None /\ OfRepo(j.entries, e[1]) = {}}
    BY <1>2, Zenon DEF Kept
  <2>2. OfRepo(j.entries, r) = {}
    BY <1>2, BareMeans, JobFields
  <2> QED BY <1>2, <2>1, <2>2
<1> QED BY <1>1, <1>2, Zenon

LEMMA WhatIsSettled ==
    ASSUME NEW j \in Job, NEW r \in Repo, r \notin Unsettled(j)
    PROVE  /\ r \notin j.failed
           /\ j.incremental /\ j.marks[r] # None /\ j.marks[r] = j.prior[r] => r \notin doubt /\ r \in Filed
           /\ j.marks[r] # j.prior[r] => Bare(r, Kept(j))
<1>1. /\ r \notin j.failed
      /\ r \notin {q \in Repo : j.incremental /\ j.marks[q] # None /\ j.marks[q] = j.prior[q]
                                 /\ q \in doubt \cup (Repo \ Filed)}
      /\ r \notin {q \in Repo : OfRepo(Kept(j), q) # {} /\ j.marks[q] # j.prior[q]}
  BY Zenon DEF Unsettled
<1>2. j.incremental /\ j.marks[r] # None /\ j.marks[r] = j.prior[r] => r \notin doubt /\ r \in Filed
  BY <1>1
<1>3. Kept(j) \in SUBSET Entry
  BY KeptType, JobFields
<1>4. j.marks[r] # j.prior[r] => Bare(r, Kept(j))
  BY <1>1, <1>3, BareMeans
<1> QED BY <1>1, <1>2, <1>4

\* The index is replaced. What was skipped is carried over; what was built is new.
LEMMA WriteIndexes ==
    ASSUME Typed, Indexed, NEW s \in Scanner, Write(s)
    PROVE  CheckpointHolds' /\ Scan(pc'[s], job'[s], index', checkpoint', past', clones', org')
<1> DEFINE j == job[s]
           new == Kept(j) \cup j.entries
<1>0. /\ TypeOK /\ pc[s] = "walk" /\ UNCHANGED <<clones, checkpoint>> /\ Turn(s, j, "save")
      /\ index' = new /\ doubt' = Unsettled(j) \cup {r \in Repo : j.marks[r] # checkpoint[r]}
      /\ j \in Job /\ "save" \in Phase /\ CheckpointHolds
  BY WriteDoes DEF Typed, TypeOK, Phase, Found, Indexed
<1>1. /\ Opened("walk", j, index, checkpoint) /\ Untouched("walk", j)
      /\ Walked("walk", j, past, clones, org)
  BY <1>0 DEF Indexed, Scan
<1>2. UNCHANGED <<past, org>>
  BY <1>0, ScannersAreQuiet DEF Quiet, Step
<1>3. job'[s] = j /\ pc'[s] = "save"
  BY <1>0, TurnGives
<1>4. Scan("save", j, new, checkpoint, past, clones, org)
  <2>1. Opened("save", j, new, checkpoint)
    BY <1>1, Zenon DEF Opened
  <2>2. Untouched("save", j) /\ Walked("save", j, past, clones, org) /\ Written("save", j, new)
    BY <1>1 DEF Untouched, Walked, Written
  <2> QED BY <2>1, <2>2 DEF Scan, Building
<1>5. CheckpointHolds'
  <2> SUFFICES ASSUME NEW r \in Repo, r \notin doubt', checkpoint[r] # None
               PROVE  Exact(r, new, checkpoint[r].head, checkpoint[r].tags, past, clones, org)
    BY <1>0, <1>2 DEF CheckpointHolds
  <2>1. r \notin Unsettled(j) /\ j.marks[r] = checkpoint[r]
    BY <1>0
  <2>2. checkpoint[r].tags \subseteq Tag
    BY <1>0 DEF TypeOK, Mark
  <2>3. /\ r \notin j.failed
        /\ j.incremental /\ j.marks[r] = j.prior[r] => r \notin doubt /\ r \in Filed
    BY <1>0, <2>1, WhatIsSettled
  <2>4. \/ j.marks[r] = j.prior[r] /\ Bare(r, j.entries)
        \/ j.marks[r] # j.prior[r] /\ Exact(r, j.entries, checkpoint[r].head, checkpoint[r].tags, past, clones, org)
    BY <1>1, <2>1, <2>3 DEF Walked
  <2>5. CASE j.incremental
    <3>1. j.prior = checkpoint /\ j.old = index
      BY <1>1, <2>5, Zenon DEF Opened
    <3>2. Bare(r, j.entries) /\ r \notin doubt /\ r \in Filed
      BY <2>1, <2>3, <2>4, <2>5, <3>1
    <3>3. \A t \in Tag, x \in Content : <<r, t, x>> \in Kept(j) <=> <<r, t, x>> \in index
      BY <1>0, <2>1, <2>5, <3>1, <3>2, WhatIsKept
    <3>4. \A t \in Tag, x \in Content : <<r, t, x>> \in index <=> <<r, t, x>> \in new
      BY <3>2, <3>3 DEF Bare
    <3>5. Exact(r, index, checkpoint[r].head, checkpoint[r].tags, past, clones, org)
      BY <1>0, <3>2 DEF CheckpointHolds
    <3> HIDE DEF new
    <3> QED BY <2>2, <3>4, <3>5, ExactSame
  <2>6. CASE ~j.incremental
    <3>1. j.prior = NoMarks
      BY <1>1, <2>6, Zenon DEF Opened
    <3>2. j.marks[r] # j.prior[r]
      BY <2>1, <3>1, NoJobType
    <3>3. Kept(j) = {}
      BY <1>0, <2>6, WhatIsKept
    <3>4. new = j.entries
      BY <3>3
    <3> QED BY <2>4, <3>2, <3>4
  <2> QED BY <2>5, <2>6
<1> QED BY <1>0, <1>2, <1>3, <1>4, <1>5

\* The checkpoint is replaced by the snapshots of the scan that wrote the index.
LEMMA SaveIndexes ==
    ASSUME Typed, Indexed, NEW s \in Scanner, Save(s)
    PROVE  CheckpointHolds' /\ Scan(pc'[s], job'[s], index', checkpoint', past', clones', org')
<1> DEFINE j == job[s]
<1>0. /\ TypeOK /\ pc[s] = "save" /\ UNCHANGED <<clones, index>> /\ Turn(s, NoJob, "idle")
      /\ checkpoint' = j.marks /\ doubt' = Unsettled(j) /\ j \in Job /\ CheckpointHolds
  BY SaveDoes DEF Typed, TypeOK, Indexed
<1>1. /\ Opened("save", j, index, checkpoint) /\ Walked("save", j, past, clones, org)
      /\ index = Kept(j) \cup j.entries
  BY <1>0 DEF Indexed, Scan, Written
<1>2. UNCHANGED <<past, org>>
  BY <1>0, ScannersAreQuiet DEF Quiet, Step
<1>3. pc'[s] = "idle"
  BY <1>0, NoJobType, TurnGives DEF Phase
<1>4. CheckpointHolds'
  <2> SUFFICES ASSUME NEW r \in Repo, r \notin Unsettled(j), j.marks[r] # None
               PROVE  Exact(r, index, j.marks[r].head, j.marks[r].tags, past, clones, org)
    BY <1>0, <1>2 DEF CheckpointHolds
  <2>1. j.marks[r].tags \subseteq Tag
    BY <1>0, JobFields DEF Mark
  <2>2. /\ r \notin j.failed
        /\ j.incremental /\ j.marks[r] = j.prior[r] => r \notin doubt
        /\ j.marks[r] # j.prior[r] => Bare(r, Kept(j))
    BY <1>0, WhatIsSettled
  <2>3. \/ j.marks[r] = j.prior[r] /\ Bare(r, j.entries)
        \/ /\ j.marks[r] # j.prior[r]
           /\ Exact(r, j.entries, j.marks[r].head, j.marks[r].tags, past, clones, org)
    BY <1>1, <2>2 DEF Walked
  <2>4. CASE j.marks[r] = j.prior[r]
    <3>1. j.incremental /\ j.prior = checkpoint
      <4>1. j.prior # NoMarks
        BY <2>4, NoJobType
      <4> QED BY <1>1, <4>1, Zenon DEF Opened
    <3>2. r \notin doubt
      BY <2>2, <2>4, <3>1
    <3> QED BY <1>0, <2>4, <3>1, <3>2 DEF CheckpointHolds
  <2>5. CASE j.marks[r] # j.prior[r]
    <3>1. \A t \in Tag, x \in Content : <<r, t, x>> \in j.entries <=> <<r, t, x>> \in index
      BY <1>1, <2>2, <2>5 DEF Bare
    <3> QED BY <2>1, <2>3, <2>5, <3>1, ExactSame
  <2> QED BY <2>4, <2>5
<1> QED BY <1>3, <1>4 DEF Scan

LEMMA AbortIndexes ==
    ASSUME Typed, Indexed, NEW s \in Scanner, Abort(s)
    PROVE  CheckpointHolds' /\ Scan(pc'[s], job'[s], index', checkpoint', past', clones', org')
<1>0. /\ TypeOK /\ Turn(s, NoJob, "idle") /\ checkpoint' = checkpoint /\ CheckpointHolds
      /\ \/ index' = index /\ doubt' = doubt
         \/ doubt' = Repo
  BY AbortDoes DEF Typed, Indexed
<1>1. pc'[s] = "idle"
  BY <1>0, NoJobType, TurnGives DEF Phase
<1>2. CheckpointHolds'
  <2>1. CASE index' = index /\ doubt' = doubt
    BY <1>0, <2>1, TheSurroundings, CheckpointKeeps DEF Next
  <2>2. CASE doubt' = Repo
    BY <2>2 DEF CheckpointHolds
  <2> QED BY <1>0, <2>1, <2>2
<1> QED BY <1>1, <1>2 DEF Scan

LEMMA NextIndexed ==
    ASSUME OneScanner, Typed, Sourced, Indexed, [Next]_vars
    PROVE  Indexed'
<1>1. Surroundings /\ HeadsInOrder'
  BY TheSurroundings, HeadsStayInOrder DEF Indexed
<1>2. ASSUME NEW s \in Scanner, Begin(s) \/ Step(s) \/ Abort(s)
      PROVE  Indexed'
  <2>1. CheckpointHolds' /\ Scan(pc'[s], job'[s], index', checkpoint', past', clones', org')
    BY <1>2, BeginIndexes, FetchIndexes, FetchedIndexes, ListTagsIndexes, CompareIndexes, BuildIndexes,
       BuiltIndexes, WriteIndexes, SaveIndexes, AbortIndexes DEF Step
  <2>2. \A x \in Scanner : x = s
    BY DEF OneScanner
  <2> QED BY <1>1, <2>1, <2>2 DEF Indexed
<1>3. ASSUME UNCHANGED <<index, checkpoint, doubt, pc, job>>
      PROVE  Indexed'
  <2>1. CheckpointHolds'
    BY <1>1, <1>3, CheckpointKeeps DEF Indexed
  <2>2. ASSUME NEW s \in Scanner
        PROVE  Scan(pc[s], job[s], index, checkpoint, past', clones', org')
    <3>1. job[s] \in Job /\ (pc[s] = "build" => job[s].repo \in Repo)
      BY DEF Typed, TypeOK, InHand
    <3> QED BY <1>1, <3>1, ScanKeeps DEF Indexed
  <2> QED BY <1>1, <1>3, <2>1, <2>2 DEF Indexed
<1>4. ASSUME NEW r \in Repo, Push(r) \/ Retire(r) \/ Refresh(r)
      PROVE  UNCHANGED <<index, checkpoint, doubt, pc, job>>
  BY <1>4 DEF Push, Retire, Refresh
<1>5. UNCHANGED vars => UNCHANGED <<index, checkpoint, doubt, pc, job>>
  BY DEF vars
<1> QED BY <1>2, <1>3, <1>4, <1>5 DEF Next

LEMMA InitIndexed ==
    ASSUME Init
    PROVE  Indexed
<1>1. HeadsInOrder
  BY DEF Init, HeadsInOrder, Real
<1>2. CheckpointHolds
  BY NoJobType DEF Init, CheckpointHolds
<1>3. \A s \in Scanner : Scan(pc[s], job[s], index, checkpoint, past, clones, org)
  BY DEF Init, Scan
<1> QED BY <1>1, <1>2, <1>3 DEF Indexed

\* A tag that was not moved under its head has one content there.
LEMMA SkippedIsRight ==
    ASSUME Typed, Sourced, Indexed, NEW r \in Repo, Settled(r), Skippable(r)
    PROVE  OfRepo(index, r) = FullScan(r)
<1> DEFINE c == clones[r]
<1>1. /\ c # None /\ c \in Tree /\ index \in SUBSET Entry /\ c \in past[r] \cup {HalfCloned}
      /\ checkpoint[r] = MarkOf(c)
  BY DEF Skippable, Typed, TypeOK, Sourced, Genuine
<1>2. /\ checkpoint[r] # None /\ checkpoint[r].head = c.head /\ checkpoint[r].tags = TagsOf(c)
      /\ TagsOf(c) \subseteq Tag
  BY <1>1, MarkType, Facts
<1>3. Exact(r, index, c.head, TagsOf(c), past, clones, org)
  BY <1>2 DEF Indexed, CheckpointHolds, Settled
<1>4. \A t \in Tag, x \in Content : <<r, t, x>> \in index <=> t \in TagsOf(c) /\ x = c.tags[t] /\ x \notin Invalid
  <2> SUFFICES ASSUME NEW t \in Tag, NEW x \in Content
               PROVE  <<r, t, x>> \in index <=> t \in TagsOf(c) /\ x = c.tags[t] /\ x \notin Invalid
    OBVIOUS
  <2>1. <<r, t, x>> \in index => t \in TagsOf(c)
    BY <1>3 DEF Exact
  <2>2. ASSUME t \in TagsOf(c)
        PROVE  <<r, t, x>> \in index <=> x = c.tags[t] /\ x \notin Invalid
    <3>1. PICK b \in past[r] :
            /\ b.tags[t] # None /\ c.head <= b.head /\ NotAfter(b.head, c, org[r])
            /\ \A y \in Content : <<r, t, y>> \in index <=> y = b.tags[t] /\ y \notin Invalid
      BY <1>3, <2>2 DEF Exact, Backed
    <3>2. c.tags[t] # None
      BY <2>2 DEF TagsOf
    <3>3. Real(c) /\ c \in past[r]
      BY <1>1, <3>2, Trees DEF Real
    <3>4. b.head = c.head
      <4>1. b \in Tree
        BY <1>1 DEF Typed, TypeOK
      <4>2. b.head \in Nat /\ c.head \in Nat /\ b.head <= c.head
        BY <1>1, <3>1, <3>3, <4>1, Facts DEF NotAfter, Tree
      <4> QED BY <3>1, <4>2
    <3>5. b.tags[t] = c.tags[t]
      <4>1. t \in TagsOf(b) \cap TagsOf(c)
        BY <2>2, <3>1 DEF TagsOf
      <4> QED BY <3>3, <3>4, <4>1 DEF Settled, TagMoved
    <3> QED BY <3>1, <3>5
  <2> QED BY <2>1, <2>2
<1>5. FullScan(r) = {<<r, t, c.tags[t]>> : t \in {u \in TagsOf(c) : c.tags[u] \notin Invalid}}
  BY <1>1, Zenon DEF FullScan
<1>6. ASSUME NEW e \in OfRepo(index, r) PROVE e \in FullScan(r)
  <2>1. e \in index /\ e[1] = r /\ e[2] \in Tag /\ e[3] \in Content /\ e = <<r, e[2], e[3]>>
    BY <1>1 DEF OfRepo, Entry
  <2>2. e[2] \in TagsOf(c) /\ e[3] = c.tags[e[2]] /\ e[3] \notin Invalid
    BY <1>4, <2>1
  <2> QED BY <1>5, <2>1, <2>2
<1>7. ASSUME NEW e \in FullScan(r) PROVE e \in OfRepo(index, r)
  <2>1. PICK t \in TagsOf(c) : e = <<r, t, c.tags[t]>> /\ c.tags[t] \notin Invalid
    BY <1>5
  <2>2. t \in Tag /\ c.tags[t] \in Content
    BY <1>1, <1>2 DEF TagsOf, Tree
  <2>3. e \in index
    BY <1>4, <2>1, <2>2
  <2> QED BY <2>1, <2>3 DEF OfRepo
<1> QED BY <1>6, <1>7

\* With one scan at a time, whatever fails and whenever it is killed: a repository that
\* an incremental scan would skip is in the index exactly as a full scan would put it
\* there, unless a tag was moved under a head that stayed, or the last scan met an
\* error there (reindex.rs, org_walk.rs:repo_unchanged, checkpoint.rs).
THEOREM SkippingIsSafe == OneScanner => (Spec => []SkippedIsIndexed)
<1> SUFFICES ASSUME OneScanner PROVE Spec => []SkippedIsIndexed
  OBVIOUS
<1>1. Init => Indexed
  BY InitIndexed
<1>2. Typed /\ Sourced /\ Indexed /\ [Next]_vars => Indexed'
  BY NextIndexed
<1>3. Typed /\ Sourced /\ Indexed => SkippedIsIndexed
  BY SkippedIsRight DEF SkippedIsIndexed
<1> QED BY <1>1, <1>2, <1>3, AlwaysSourced, PTL DEF Spec

===============================================================================
