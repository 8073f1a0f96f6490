-------------------------- MODULE PackageFetch_proofs --------------------------
(* Proofs about PackageFetch for every number of projects, repositories, tags and *)
(* trees, and for any number of commands, failures and changes.                   *)
EXTENDS PackageFetch, TLAPS

------------------------------------------------------------------------------
\* What the actions write, named so that each is typed once

NewJob(cmd, good) == [NoJob EXCEPT !.cmd = cmd, !.good = good]
MovedJob(j) == [j EXCEPT !.source = j.source + 1]
DisturbedJob(j) == [j EXCEPT !.quiet = FALSE, !.still = FALSE]
CopyingJob(j, tree) == [j EXCEPT !.copied = tree, !.still = TRUE]
MissedJob(j, tree) == [j EXCEPT !.last = tree]
JudgedJob(j, good) == [j EXCEPT !.good = good]

Whole == Content \cup {Torn}
Busy == {"update", "clone", "copy", "gate"}
Result == [end : {"none", "error", "drift", "synced", "taken", "killed"}, tree : Maybe(Whole),
           wanted : Maybe(Whole), quiet : BOOLEAN, good : BOOLEAN]

LEMMA Facts ==
    /\ Wants \in [Project -> Tag] /\ First \in [Tag -> Content] /\ Sources \in Nat \ {0}
    /\ None \notin Content /\ Torn \notin Content /\ None # Torn /\ None \notin Clone
    /\ 1 \in Source /\ Source \subseteq Nat /\ \A s \in Source : s < Sources => s + 1 \in Source
BY FetchAssumption, NoneAssumption DEF Source

LEMMA NoJobType ==
    /\ NoJob \in Job /\ NoJob.cmd = "none" /\ NoJob.source = 1 /\ NoJob.last = None
    /\ NoJob.quiet /\ NoJob.still
BY Facts DEF NoJob, Job, Maybe

LEMMA NewJobType ==
    ASSUME NEW cmd \in {"install", "reinstall", "sync"}, NEW b \in BOOLEAN
    PROVE  LET k == NewJob(cmd, b)
           IN k \in Job /\ k.cmd = cmd /\ k.source = 1 /\ k.last = None /\ k.good = b
BY Facts DEF NewJob, NoJob, Job, Maybe

LEMMA MovedJobType ==
    ASSUME NEW j \in Job, j.source < Sources
    PROVE  LET k == MovedJob(j)
           IN /\ k \in Job /\ k.cmd = j.cmd /\ k.last = j.last /\ k.quiet = j.quiet
              /\ k.good = j.good
<1>1. j.source + 1 \in Source
  BY Facts DEF Job
<1> QED BY <1>1 DEF MovedJob, Job

LEMMA DisturbedJobType ==
    ASSUME NEW j \in Job
    PROVE  DisturbedJob(j) \in Job /\ DisturbedJob(j).cmd = j.cmd /\ ~DisturbedJob(j).quiet
BY DEF DisturbedJob, Job

LEMMA CopyingJobType ==
    ASSUME NEW j \in Job, NEW tree \in Whole
    PROVE  LET k == CopyingJob(j, tree)
           IN /\ k \in Job /\ k.cmd = j.cmd /\ k.source = j.source /\ k.last = j.last
              /\ k.quiet = j.quiet /\ k.good = j.good /\ k.copied = tree /\ k.still
BY DEF CopyingJob, Job, Maybe, Whole

LEMMA MissedJobType ==
    ASSUME NEW j \in Job, NEW tree \in Maybe(Whole)
    PROVE  LET k == MissedJob(j, tree)
           IN /\ k \in Job /\ k.cmd = j.cmd /\ k.source = j.source /\ k.last = tree
              /\ k.quiet = j.quiet /\ k.good = j.good
BY DEF MissedJob, Job, Maybe, Whole

LEMMA JudgedJobType ==
    ASSUME NEW j \in Job, NEW b \in BOOLEAN
    PROVE  LET k == JudgedJob(j, b)
           IN /\ k \in Job /\ k.cmd = j.cmd /\ k.source = j.source /\ k.last = j.last
              /\ k.quiet = j.quiet /\ k.still = j.still /\ k.copied = j.copied /\ k.good = b
BY DEF JudgedJob, Job

------------------------------------------------------------------------------
\* The inductive invariant

Typed == TypeOK /\ ever \in [Tag -> SUBSET Content] /\ result \in [Project -> Result]

\* Everything that is or was fetched was served.
ServedOK ==
    \A s \in Source, t \in Tag : served[s][t] # None => served[s][t] \in ever[t]
CloneOK(cl) ==
    cl = None \/ (cl \in Clone /\ \A t \in Tag : cl.tags[t] # None => cl.tags[t] \in ever[t])

\* What an undisturbed command has: a clone at a tree of its version, or a copy of
\* one.
HasServed(p, j, phase, cl) ==
    j.quiet =>
        /\ phase = "copy" => cl # None /\ cl.tree \in ever[Wants[p]]
        /\ phase = "gate" => j.still /\ j.copied \in ever[Wants[p]]
        /\ j.last # None => j.last \in ever[Wants[p]]

\* And when the primary has served it all along: no other source was needed.
ByPrimary(p, j, phase, cl) ==
    j.quiet /\ j.good /\ phase \in Busy =>
        /\ Able(p, served, up) /\ j.source = 1 /\ j.last = None
        /\ phase = "update" /\ cl # None => cl.origin = 1
        /\ phase = "copy" => pin[p] \in {None, cl.tree}
        /\ phase = "gate" => pin[p] \in {None, j.copied}

Fit(p, j, phase, cl) == HasServed(p, j, phase, cl) /\ ByPrimary(p, j, phase, cl)

Results == PrimaryIsEnough /\ HandedOnWasServed /\ PassedIsPinned

Inv == /\ Typed /\ ServedOK /\ CloneOK(clone)
       /\ \A p \in Project : Fit(p, job[p], pc[p], clone)
       /\ Results

World == <<served, up, ever>>

LEMMA Fields ==
    ASSUME Inv, NEW p \in Project
    PROVE  /\ job[p] \in Job /\ pc[p] \in Busy \cup {"idle"} /\ pin[p] \in Maybe(Whole)
           /\ slot[p] \in Maybe(Whole) /\ Wants[p] \in Tag /\ (pc[p] = "idle" <=> job[p].cmd = "none")
           /\ Fit(p, job[p], pc[p], clone) /\ (clone = None \/ clone \in Clone)
           /\ result[p] \in Result
BY Facts DEF Inv, Typed, TypeOK, Busy, Whole

LEMMA NoJobFits == ASSUME Typed, NEW p \in Project, NEW cl PROVE Fit(p, NoJob, "idle", cl)
BY NoJobType DEF Fit, HasServed, ByPrimary, Busy

\* Who is not at work on the clone keeps what it has, or is disturbed.
LEMMA OthersFit ==
    ASSUME Inv, NEW p \in Project, NEW j \in Job, NEW new, Touch(p, j, new), UNCHANGED World,
           NEW q \in Project \ {p}, pc'[q] = pc[q], pin'[q] = pin[q]
    PROVE  /\ job'[q] \in Job /\ job'[q].cmd = job[q].cmd
           /\ Fit(q, job[q], pc[q], clone)'
<1>1. job[q] \in Job /\ Fit(q, job[q], pc[q], clone)
  BY Fields
<1>2. CASE clone' = clone /\ job'[q] = job[q]
  BY <1>1, <1>2 DEF Fit, HasServed, ByPrimary, Able, World
<1>3. CASE job'[q] = DisturbedJob(job[q])
  <2>1. job'[q] \in Job /\ job'[q].cmd = job[q].cmd /\ ~job'[q].quiet
    BY <1>1, <1>3, DisturbedJobType
  <2> QED BY <2>1 DEF Fit, HasServed, ByPrimary
<1>4. job'[q] = IF new = clone THEN job[q] ELSE DisturbedJob(job[q])
  BY DEF Touch, DisturbedJob
<1> QED BY <1>2, <1>3, <1>4 DEF Touch

LEMMA TouchType ==
    ASSUME Inv, NEW p \in Project, NEW j \in Job, NEW new, Touch(p, j, new), UNCHANGED World,
           \A q \in Project \ {p} : pc'[q] = pc[q] /\ pin'[q] = pin[q]
    PROVE  job' \in [Project -> Job] /\ job'[p] = j /\ clone' = new
<1>1. \A q \in Project : job'[q] \in Job
  <2>1. job'[p] \in Job
    BY DEF Touch
  <2>2. \A q \in Project \ {p} : job'[q] \in Job
    BY OthersFit
  <2> QED BY <2>1, <2>2
<1> QED BY <1>1 DEF Touch

\* p goes on with job j at a clone that has become new.
LEMMA MovesOK ==
    ASSUME Inv, NEW p \in Project, NEW j \in Job, NEW new, NEW phase \in Busy,
           Touch(p, j, new), Goto(p, phase), UNCHANGED World, UNCHANGED <<pin, slot, result>>,
           j.cmd # "none", CloneOK(new), Fit(p, j, phase, new)
    PROVE  Inv'
<1>1. /\ pc' \in [Project -> Busy \cup {"idle"}] /\ pc'[p] = phase
      /\ \A q \in Project \ {p} : pc'[q] = pc[q] /\ pin'[q] = pin[q]
  BY DEF Inv, Typed, TypeOK, Goto, Busy
<1>2. job' \in [Project -> Job] /\ job'[p] = j /\ clone' = new
  BY <1>1, TouchType
<1>3. \A q \in Project : Fit(q, job[q], pc[q], clone)'
  <2>1. Fit(p, job[p], pc[p], clone)'
    BY <1>1, <1>2 DEF Fit, HasServed, ByPrimary, Able, World
  <2>2. \A q \in Project \ {p} : Fit(q, job[q], pc[q], clone)'
    BY <1>1, OthersFit
  <2> QED BY <2>1, <2>2
<1>4. \A q \in Project : pc'[q] = "idle" <=> job'[q].cmd = "none"
  <2>1. \A q \in Project \ {p} : job'[q].cmd = job[q].cmd
    BY <1>1, OthersFit
  <2> QED BY <1>1, <1>2, <2>1, Fields DEF Busy
<1>5. Typed'
  BY <1>1, <1>2, <1>4 DEF Inv, Typed, TypeOK, CloneOK, World, Busy
<1>6. ServedOK' /\ CloneOK(clone)' /\ Results'
  BY <1>2 DEF Inv, ServedOK, CloneOK, World, Results, PrimaryIsEnough, HandedOnWasServed, PassedIsPinned
<1> QED BY <1>3, <1>5, <1>6 DEF Inv

\* The command of p ends with job j and a tree, at a clone that has become new.
LEMMA EndsOK ==
    ASSUME Inv, NEW p \in Project, NEW j \in Job, NEW new, NEW tree \in Maybe(Whole),
           NEW end \in {"error", "drift", "synced", "taken", "killed"},
           NEW newPin \in Maybe(Whole), NEW newSlot \in Maybe(Whole),
           Touch(p, NoJob, new), End(p, j, end, tree), UNCHANGED World,
           pin' = [pin EXCEPT ![p] = newPin], slot' = [slot EXCEPT ![p] = newSlot],
           CloneOK(new),
           j.good /\ j.quiet => end \in {"synced", "taken", "killed"},
           j.quiet /\ tree # None => tree \in ever[Wants[p]],
           end = "taken" /\ pin[p] # None => tree = pin[p]
    PROVE  Inv'
<1>1. /\ pc' \in [Project -> Busy \cup {"idle"}] /\ pc'[p] = "idle"
      /\ pin' \in [Project -> Maybe(Whole)] /\ slot' \in [Project -> Maybe(Whole)]
      /\ \A q \in Project \ {p} : pc'[q] = pc[q] /\ pin'[q] = pin[q]
  BY DEF Inv, Typed, TypeOK, End, Goto, Busy, Whole
<1>2. job' \in [Project -> Job] /\ job'[p] = NoJob /\ clone' = new
  BY <1>1, TouchType, NoJobType
<1>3. \A q \in Project : Fit(q, job[q], pc[q], clone)'
  <2>1. Fit(p, job[p], pc[p], clone)'
    BY <1>1, <1>2, NoJobType DEF Fit, HasServed, ByPrimary, Busy
  <2>2. \A q \in Project \ {p} : Fit(q, job[q], pc[q], clone)'
    BY <1>1, OthersFit, NoJobType
  <2> QED BY <2>1, <2>2
<1>4. \A q \in Project : pc'[q] = "idle" <=> job'[q].cmd = "none"
  <2>1. \A q \in Project \ {p} : job'[q].cmd = job[q].cmd
    BY <1>1, OthersFit, NoJobType
  <2> QED BY <1>1, <1>2, <2>1, Fields, NoJobType
<1>5. PICK r \in Result : /\ result' = [result EXCEPT ![p] = r] /\ r.end = end /\ r.tree = tree
                          /\ r.wanted = pin[p] /\ r.quiet = j.quiet /\ r.good = j.good
  <2> DEFINE r == [end |-> end, tree |-> tree, wanted |-> pin[p], quiet |-> j.quiet, good |-> j.good]
  <2>1. j.quiet \in BOOLEAN /\ j.good \in BOOLEAN /\ pin[p] \in Maybe(Whole)
    BY Fields DEF Job
  <2>2. r \in Result
    BY <2>1 DEF Result
  <2> QED BY <2>2 DEF End
<1>6. result' \in [Project -> Result] /\ result'[p] = r
      /\ \A q \in Project \ {p} : result'[q] = result[q]
  BY <1>5 DEF Inv, Typed
<1>7. Typed'
  BY <1>1, <1>2, <1>4, <1>6 DEF Inv, Typed, TypeOK, CloneOK, World, Busy, Whole
<1>8. ServedOK' /\ CloneOK(clone)'
  BY <1>2 DEF Inv, ServedOK, CloneOK, World
<1>9. Results'
  <2>1. PrimaryIsEnough'
    BY <1>5, <1>6 DEF Inv, Results, PrimaryIsEnough
  <2>2. HandedOnWasServed'
    BY <1>5, <1>6 DEF Inv, Results, HandedOnWasServed, World
  <2>3. PassedIsPinned'
    BY <1>5, <1>6 DEF Inv, Results, PassedIsPinned
  <2> QED BY <2>1, <2>2, <2>3 DEF Results
<1> QED BY <1>3, <1>7, <1>8, <1>9 DEF Inv

\* The next source is tried with the tree that missed the pin, if there is one; and
\* the primary's turn is over.
LEMMA NextSourceOK ==
    ASSUME Inv, NEW p \in Project, pc[p] # "idle", NEW j \in Job, NEW new,
           NextSource(p, j, new), UNCHANGED World, j.cmd = job[p].cmd, CloneOK(new),
           j.quiet /\ j.last # None => j.last \in ever[Wants[p]],
           ~(j.quiet /\ j.good)
    PROVE  Inv'
<1>1. CASE j.source < Sources
  <2> DEFINE k == MovedJob(j)
  <2>1. /\ k \in Job /\ k.cmd = j.cmd /\ k.last = j.last /\ k.quiet = j.quiet /\ k.good = j.good
    BY <1>1, MovedJobType
  <2>2. Touch(p, k, new) /\ Goto(p, "update") /\ UNCHANGED <<pin, slot, result>>
    BY <1>1 DEF NextSource, MovedJob
  <2> HIDE DEF k
  <2>3. k.cmd # "none"
    BY <2>1, Fields
  <2>4. Fit(p, k, "update", new)
    BY <2>1 DEF Fit, HasServed, ByPrimary
  <2>5. "update" \in Busy
    BY DEF Busy
  <2> QED BY <2>1, <2>2, <2>3, <2>4, <2>5, MovesOK
<1>2. CASE ~(j.source < Sources) /\ j.last = None
  <2>1. /\ Touch(p, NoJob, new) /\ End(p, j, "error", None)
        /\ pin' = [pin EXCEPT ![p] = pin[p]] /\ slot' = [slot EXCEPT ![p] = slot[p]]
    BY <1>2 DEF NextSource, Inv, Typed, TypeOK
  <2>2. None \in Maybe(Whole) /\ pin[p] \in Maybe(Whole) /\ slot[p] \in Maybe(Whole)
    BY Fields DEF Maybe
  <2> QED BY <2>1, <2>2, EndsOK
<1>3. CASE ~(j.source < Sources) /\ j.last # None
  <2>1. PICK newPin \in Maybe(Whole) :
           /\ Touch(p, NoJob, new) /\ End(p, j, "drift", j.last)
           /\ pin' = [pin EXCEPT ![p] = newPin] /\ slot' = [slot EXCEPT ![p] = j.last]
    <3>1. j.last \in Maybe(Whole) /\ pin[p] \in Maybe(Whole)
      BY Fields DEF Job, Whole
    <3> QED BY <1>3, <3>1 DEF NextSource
  <2>2. j.last \in Maybe(Whole)
    BY DEF Job, Whole
  <2> QED BY <2>1, <2>2, EndsOK
<1> QED BY <1>1, <1>2, <1>3

\* The clone has come to the tag.
LEMMA LandedOK ==
    ASSUME Inv, NEW p \in Project, pc[p] # "idle", NEW new, Landed(p, job[p], new), UNCHANGED World,
           UNCHANGED <<pin, slot>>, CloneOK(new), Fit(p, job[p], "copy", new)
    PROVE  Inv'
<1>1. job[p] \in Job /\ job[p].cmd # "none" /\ "copy" \in Busy
  BY Fields DEF Busy
<1>2. CASE job[p].cmd = "sync"
  <2>1. /\ Touch(p, NoJob, new) /\ End(p, job[p], "synced", None)
        /\ pin' = [pin EXCEPT ![p] = pin[p]] /\ slot' = [slot EXCEPT ![p] = slot[p]]
    BY <1>2 DEF Landed, Inv, Typed, TypeOK
  <2>2. None \in Maybe(Whole) /\ pin[p] \in Maybe(Whole) /\ slot[p] \in Maybe(Whole)
    BY Fields DEF Maybe
  <2> QED BY <1>1, <2>1, <2>2, EndsOK
<1>3. CASE job[p].cmd # "sync"
  <2>1. Touch(p, job[p], new) /\ Goto(p, "copy") /\ UNCHANGED <<pin, slot, result>>
    BY <1>3 DEF Landed
  <2> QED BY <1>1, <2>1, MovesOK
<1> QED BY <1>2, <1>3

LEMMA BeginOK == ASSUME Inv, NEW p \in Project, Begin(p) PROVE Inv'
<1>1. PICK cmd \in {"install", "reinstall", "sync"}, b \in BOOLEAN :
         /\ b => Able(p, served, up) /\ (clone # None => clone.origin = 1)
         /\ Touch(p, NewJob(cmd, b), clone)
  <2>1. PICK cmd \in {"install", "reinstall", "sync"} :
           Touch(p, [NoJob EXCEPT !.cmd = cmd, !.good = /\ Able(p, served, up)
                                                        /\ clone # None => clone.origin = 1], clone)
    BY DEF Begin, Keep
  <2>2. (Able(p, served, up) /\ (clone # None => clone.origin = 1)) \in BOOLEAN
    OBVIOUS
  <2> QED BY <2>1, <2>2, Zenon DEF NewJob
<1> DEFINE j == NewJob(cmd, b)
<1>2. j \in Job /\ j.cmd = cmd /\ j.source = 1 /\ j.last = None /\ j.good = b
  BY NewJobType
<1> HIDE DEF j
<1>3. Fit(p, j, "update", clone)
  BY <1>1, <1>2 DEF Fit, HasServed, ByPrimary
<1>4. /\ UNCHANGED World /\ UNCHANGED <<pin, slot, result>> /\ Goto(p, "update")
      /\ CloneOK(clone) /\ "update" \in Busy
  BY DEF Begin, World, Inv, Busy
<1> QED BY <1>1, <1>2, <1>3, <1>4, MovesOK DEF j

LEMMA UpdateOK == ASSUME Inv, NEW p \in Project, Update(p) PROVE Inv'
<1>1. /\ pc[p] = "update" /\ clone # None /\ clone \in Clone /\ clone.origin \in up
      /\ ~Clobbers /\ Fetched[Wants[p]] # None /\ Landed(p, job[p], Updated(p))
      /\ UNCHANGED World /\ UNCHANGED <<pin, slot>>
  BY Fields DEF Update, Updates, Inside, World
<1>2. /\ clone.origin \in Source /\ clone.tags \in [Tag -> Maybe(Content)] /\ Wants[p] \in Tag
      /\ \A s \in Source, t \in Tag : served[s][t] \in Maybe(Content)
      /\ \A t \in Tag : served[clone.origin][t] # None => served[clone.origin][t] \in ever[t]
      /\ \A t \in Tag : clone.tags[t] # None => clone.tags[t] \in ever[t]
  <2>1. clone.origin \in Source /\ clone.tags \in [Tag -> Maybe(Content)] /\ Wants[p] \in Tag
    BY <1>1, Fields DEF Clone
  <2>2. \A s \in Source, t \in Tag : served[s][t] \in Maybe(Content)
    BY DEF Inv, Typed, TypeOK
  <2>3. \A t \in Tag : served[clone.origin][t] # None => served[clone.origin][t] \in ever[t]
    BY <2>1 DEF Inv, ServedOK
  <2>4. \A t \in Tag : clone.tags[t] # None => clone.tags[t] \in ever[t]
    BY <1>1 DEF Inv, CloneOK
  <2> QED BY <2>1, <2>2, <2>3, <2>4
<1>3. /\ Fetched \in [Tag -> Maybe(Content)]
      /\ \A t \in Tag : Fetched[t] # None => Fetched[t] \in ever[t]
  BY <1>2 DEF Fetched
<1> DEFINE tree == Fetched[Wants[p]]
           new == Updated(p)
<1>4. tree \in Content /\ tree \in ever[Wants[p]]
  BY <1>1, <1>2, <1>3 DEF Maybe
<1>5. /\ new \in Clone /\ new.tags = Fetched /\ new.tree = tree
  BY <1>1, <1>3, <1>4 DEF Updated, Clone
<1>6. served[clone.origin][Wants[p]] # None => tree = served[clone.origin][Wants[p]]
  BY <1>1, <1>2 DEF Clobbers, Fetched
<1> HIDE DEF tree, new
<1>7. CloneOK(new)
  BY <1>3, <1>5 DEF CloneOK
<1>8. Fit(p, job[p], "copy", new)
  <2>1. HasServed(p, job[p], "copy", new)
    BY <1>4, <1>5, Facts, Fields DEF Fit, HasServed
  <2>2. ASSUME job[p].quiet, job[p].good
        PROVE  /\ Able(p, served, up) /\ job[p].source = 1 /\ job[p].last = None
               /\ pin[p] \in {None, tree}
    <3>1. Able(p, served, up) /\ job[p].source = 1 /\ job[p].last = None /\ clone.origin = 1
      BY <1>1, <2>2, Fields DEF Fit, ByPrimary, Busy
    <3>2. served[1][Wants[p]] \in IF pin[p] = None THEN Content ELSE {pin[p]}
      BY <3>1 DEF Able
    <3>3. served[1][Wants[p]] # None
      BY <3>2, Facts
    <3> QED BY <1>6, <3>1, <3>2, <3>3
  <2> QED BY <1>5, <2>1, <2>2 DEF Fit, ByPrimary
<1> QED BY <1>1, <1>7, <1>8, LandedOK DEF new

LEMMA WipeOK == ASSUME Inv, NEW p \in Project, Wipe(p) PROVE Inv'
<1>1. PICK b \in BOOLEAN : /\ b => job[p].good
                           /\ Touch(p, JudgedJob(job[p], b), None)
                           /\ pc[p] = "update" /\ Goto(p, "clone") /\ UNCHANGED World
                           /\ UNCHANGED <<pin, slot, result>>
  <2>1. job[p].good \in BOOLEAN /\ job[p] = JudgedJob(job[p], job[p].good)
    BY Fields DEF Job, JudgedJob
  <2>2. Blamed(p) = JudgedJob(job[p], FALSE)
    BY DEF Blamed, JudgedJob
  <2>3. /\ Touch(p, job[p], None) \/ Touch(p, Blamed(p), None)
        /\ pc[p] = "update" /\ Goto(p, "clone") /\ UNCHANGED World /\ UNCHANGED <<pin, slot, result>>
    BY DEF Wipe, Inside, World
  <2> QED BY <2>1, <2>2, <2>3
<1> DEFINE j == JudgedJob(job[p], b)
<1>2. /\ j \in Job /\ j.cmd = job[p].cmd /\ j.source = job[p].source /\ j.last = job[p].last
      /\ j.quiet = job[p].quiet /\ j.good = b
  BY Fields, JudgedJobType
<1> HIDE DEF j
<1>3. Fit(p, j, "clone", None)
  BY <1>1, <1>2, Fields DEF Fit, HasServed, ByPrimary, Busy
<1>4. "clone" \in Busy /\ CloneOK(None) /\ j.cmd # "none"
  BY <1>1, <1>2, Fields DEF Busy, CloneOK
<1> QED BY <1>1, <1>2, <1>3, <1>4, MovesOK DEF j

LEMMA BootstrapOK == ASSUME Inv, NEW p \in Project, Bootstrap(p) PROVE Inv'
<1> DEFINE s == job[p].source
           tree == served[s][Wants[p]]
           new == [origin |-> s, tags |-> served[s], tree |-> tree, stuck |-> FALSE]
<1>1. /\ pc[p] \in {"update", "clone"} /\ tree # None /\ Landed(p, job[p], new)
      /\ UNCHANGED World /\ UNCHANGED <<pin, slot>>
  BY DEF Bootstrap, Bootstraps, Serves, Inside, World
<1>2. s \in Source /\ Wants[p] \in Tag /\ served[s] \in [Tag -> Maybe(Content)]
  BY Fields DEF Job, Inv, Typed, TypeOK
<1>3. tree \in Content /\ tree \in ever[Wants[p]]
  BY <1>1, <1>2 DEF Inv, ServedOK, Maybe
<1>4. \A t \in Tag : served[s][t] # None => served[s][t] \in ever[t]
  BY <1>2 DEF Inv, ServedOK
<1> HIDE DEF tree, s
<1>5. new \in Clone /\ new.tags = served[s] /\ new.tree = tree
  BY <1>2, <1>3 DEF Clone
<1> HIDE DEF new
<1>6. CloneOK(new)
  BY <1>4, <1>5 DEF CloneOK
<1>7. HasServed(p, job[p], "copy", new)
  BY <1>3, <1>5, Facts, Fields DEF Fit, HasServed
<1>8. ByPrimary(p, job[p], "copy", new)
  <2> SUFFICES ASSUME job[p].quiet, job[p].good
               PROVE  /\ Able(p, served, up) /\ job[p].source = 1 /\ job[p].last = None
                      /\ pin[p] \in {None, tree}
    BY <1>5 DEF ByPrimary
  <2>1. Able(p, served, up) /\ job[p].source = 1 /\ job[p].last = None
    BY <1>1, Fields DEF Fit, ByPrimary, Busy
  <2>2. served[1][Wants[p]] \in IF pin[p] = None THEN Content ELSE {pin[p]}
    BY <2>1 DEF Able
  <2> QED BY <2>1, <2>2 DEF tree, s
<1> QED BY <1>1, <1>6, <1>7, <1>8, LandedOK DEF Fit, new, tree, s

LEMMA BootstrapFailsOK == ASSUME Inv, NEW p \in Project, BootstrapFails(p) PROVE Inv'
<1>1. /\ pc[p] \in {"update", "clone"} /\ UNCHANGED World
      /\ \/ ~Serves(p, job[p].source) /\ NextSource(p, job[p], None)
         \/ NextSource(p, Blamed(p), None)
  BY DEF BootstrapFails, Bootstraps, World
<1>2. CloneOK(None)
  BY DEF CloneOK
<1>3. job[p] \in Job /\ Fit(p, job[p], pc[p], clone) /\ Wants[p] \in Tag
  BY Fields
<1>4. ASSUME ~Serves(p, job[p].source), NextSource(p, job[p], None) PROVE Inv'
  <2>1. ~(job[p].quiet /\ job[p].good)
    <3> SUFFICES ASSUME job[p].quiet, job[p].good PROVE FALSE
      OBVIOUS
    <3>1. Able(p, served, up) /\ job[p].source = 1
      BY <1>1, <1>3 DEF Fit, ByPrimary, Busy
    <3>2. 1 \in up /\ served[1][Wants[p]] \in IF pin[p] = None THEN Content ELSE {pin[p]}
      BY <3>1 DEF Able
    <3> QED BY <1>4, <3>1, <3>2, Facts DEF Serves
  <2>2. job[p].quiet /\ job[p].last # None => job[p].last \in ever[Wants[p]]
    BY <1>3 DEF Fit, HasServed
  <2> QED BY <1>1, <1>2, <1>3, <1>4, <2>1, <2>2, NextSourceOK
<1>5. ASSUME NextSource(p, Blamed(p), None) PROVE Inv'
  <2> DEFINE j == JudgedJob(job[p], FALSE)
  <2>1. /\ j \in Job /\ j.cmd = job[p].cmd /\ j.last = job[p].last /\ j.quiet = job[p].quiet
        /\ ~j.good
    BY <1>3, JudgedJobType
  <2>2. NextSource(p, j, None)
    BY <1>5 DEF Blamed, JudgedJob
  <2> HIDE DEF j
  <2>3. j.quiet /\ j.last # None => j.last \in ever[Wants[p]]
    BY <1>3, <2>1 DEF Fit, HasServed
  <2> QED BY <1>1, <1>2, <2>1, <2>2, <2>3, NextSourceOK
<1> QED BY <1>1, <1>4, <1>5

LEMMA CopyBeginsOK == ASSUME Inv, NEW p \in Project, CopyBegins(p) PROVE Inv'
<1>1. pc[p] = "copy" /\ UNCHANGED World /\ UNCHANGED <<pin, slot>>
  BY DEF CopyBegins, Inside, World
<1>2. /\ job[p] \in Job /\ Fit(p, job[p], "copy", clone) /\ CloneOK(clone) /\ job[p].cmd # "none"
      /\ pin[p] \in Maybe(Whole) /\ slot[p] \in Maybe(Whole) /\ "gate" \in Busy
  BY <1>1, Fields DEF Inv, Busy
<1>3. CASE clone = None
  <2>1. /\ Touch(p, NoJob, clone) /\ End(p, job[p], "error", None)
        /\ pin' = [pin EXCEPT ![p] = pin[p]] /\ slot' = [slot EXCEPT ![p] = slot[p]]
    BY <1>1, <1>3 DEF CopyBegins, Keep, Inv, Typed, TypeOK
  <2>2. ~job[p].quiet
    BY <1>2, <1>3 DEF Fit, HasServed
  <2> QED BY <1>1, <1>2, <2>1, <2>2, EndsOK DEF Maybe
<1>4. CASE clone # None
  <2> DEFINE j == CopyingJob(job[p], clone.tree)
  <2>1. clone.tree \in Whole
    BY <1>2, <1>4 DEF CloneOK, Clone, Whole
  <2>2. /\ j \in Job /\ j.cmd = job[p].cmd /\ j.source = job[p].source /\ j.last = job[p].last
        /\ j.quiet = job[p].quiet /\ j.good = job[p].good /\ j.copied = clone.tree /\ j.still
    BY <1>2, <2>1, CopyingJobType
  <2>3. Touch(p, j, clone) /\ Goto(p, "gate") /\ UNCHANGED <<pin, slot, result>>
    BY <1>1, <1>4 DEF CopyBegins, Keep, CopyingJob
  <2> HIDE DEF j
  <2>4. Fit(p, j, "gate", clone)
    BY <1>2, <2>2 DEF Fit, HasServed, ByPrimary, Busy
  <2> QED BY <1>1, <1>2, <2>2, <2>3, <2>4, MovesOK
<1> QED BY <1>3, <1>4

LEMMA GateOK == ASSUME Inv, NEW p \in Project, Gate(p) PROVE Inv'
<1>1. PICK tree \in IF job[p].still THEN {job[p].copied} ELSE {job[p].copied, Torn} :
         /\ pc[p] = "gate" /\ UNCHANGED World
         /\ IF pin[p] \in {None, tree}
            THEN /\ Touch(p, NoJob, clone) /\ End(p, job[p], "taken", tree)
                 /\ slot' = [slot EXCEPT ![p] = tree] /\ pin' = [pin EXCEPT ![p] = tree]
            ELSE NextSource(p, MissedJob(job[p], tree), None)
  BY DEF Gate, Hashed, Keep, World, MissedJob
<1>2. /\ job[p] \in Job /\ Fit(p, job[p], "gate", clone) /\ CloneOK(clone) /\ CloneOK(None)
      /\ Wants[p] \in Tag
  BY <1>1, Fields DEF Inv, CloneOK
<1>3. tree \in Maybe(Whole)
  BY <1>1, <1>2 DEF Job, Whole, Maybe
<1>4. job[p].quiet => tree = job[p].copied /\ tree \in ever[Wants[p]]
  BY <1>1, <1>2 DEF Fit, HasServed
<1>5. CASE pin[p] \in {None, tree}
  BY <1>1, <1>2, <1>3, <1>4, <1>5, EndsOK
<1>6. CASE pin[p] \notin {None, tree}
  <2> DEFINE j == MissedJob(job[p], tree)
  <2>1. /\ j \in Job /\ j.cmd = job[p].cmd /\ j.last = tree /\ j.quiet = job[p].quiet
        /\ j.good = job[p].good
    BY <1>2, <1>3, MissedJobType
  <2> HIDE DEF j
  <2>2. ~(j.quiet /\ j.good)
    BY <1>2, <1>4, <1>6, <2>1 DEF Fit, ByPrimary, Busy
  <2> QED BY <1>1, <1>2, <1>4, <1>6, <2>1, <2>2, NextSourceOK DEF j
<1> QED BY <1>5, <1>6

LEMMA KilledOK == ASSUME Inv, NEW p \in Project, Killed(p) PROVE Inv'
<1>1. /\ job[p] \in Job /\ CloneOK(clone) /\ None \in Maybe(Whole)
      /\ pin[p] \in Maybe(Whole) /\ slot[p] \in Maybe(Whole)
  BY Fields DEF Inv, Maybe
<1>2. PICK new : Touch(p, NoJob, new) /\ CloneOK(new)
  <2>1. CASE Keep(p, NoJob)
    BY <1>1, <2>1 DEF Keep
  <2>2. ASSUME clone # None, NEW stuck \in BOOLEAN,
               Touch(p, NoJob, [clone EXCEPT !.tree = Torn, !.stuck = stuck])
        PROVE  \E new : Touch(p, NoJob, new) /\ CloneOK(new)
    <3>1. CloneOK([clone EXCEPT !.tree = Torn, !.stuck = stuck])
      BY <1>1, <2>2 DEF CloneOK, Clone
    <3> QED BY <2>2, <3>1
  <2>3. CASE Touch(p, NoJob, [origin |-> job[p].source, tags |-> [t \in Tag |-> None],
                              tree |-> Torn, stuck |-> FALSE])
    <3>1. CloneOK([origin |-> job[p].source, tags |-> [t \in Tag |-> None], tree |-> Torn,
                   stuck |-> FALSE])
      BY <1>1 DEF CloneOK, Clone, Job, Maybe
    <3> QED BY <2>3, <3>1
  <2> QED BY <2>1, <2>2, <2>3 DEF Killed
<1>3. /\ End(p, job[p], "killed", None) /\ UNCHANGED World
      /\ pin' = [pin EXCEPT ![p] = pin[p]] /\ slot' = [slot EXCEPT ![p] = slot[p]]
  BY DEF Killed, Inside, World, Inv, Typed, TypeOK
<1> QED BY <1>1, <1>2, <1>3, EndsOK

\* The repositories change: what was served stays among what was ever served.
LEMMA ChangesOK ==
    ASSUME Inv, NEW has \in [Source -> [Tag -> Maybe(Content)]], NEW answering \in SUBSET Source,
           Changes(has, answering)
    PROVE  Inv'
<1>1. /\ served' = has /\ up' = answering /\ UNCHANGED <<clone, pin, slot, pc, result>>
      /\ ever' = [t \in Tag |-> ever[t] \cup ({has[s][t] : s \in Source} \ {None})]
  BY DEF Changes
<1>2. /\ ever' \in [Tag -> SUBSET Content] /\ \A t \in Tag : ever[t] \subseteq ever'[t]
      /\ \A t \in Tag, s \in Source : has[s][t] # None => has[s][t] \in ever'[t]
  BY <1>1 DEF Inv, Typed, Maybe
<1>3. ASSUME NEW p \in Project
      PROVE  /\ job'[p] \in Job /\ job'[p].cmd = job[p].cmd
             /\ Fit(p, job[p], pc[p], clone)'
  <2>1. PICK b \in BOOLEAN : /\ b => job[p].good /\ Able(p, has, answering)
                             /\ job'[p] = JudgedJob(job[p], b)
    <3>1. job'[p] = [job[p] EXCEPT !.good = job[p].good /\ Able(p, has, answering)]
      BY DEF Changes
    <3>2. (job[p].good /\ Able(p, has, answering)) \in BOOLEAN
      BY Fields DEF Job
    <3> QED BY <3>1, <3>2, Zenon DEF JudgedJob
  <2>2. /\ job'[p] \in Job /\ job'[p].cmd = job[p].cmd /\ job'[p].source = job[p].source
        /\ job'[p].last = job[p].last /\ job'[p].quiet = job[p].quiet
        /\ job'[p].still = job[p].still /\ job'[p].copied = job[p].copied /\ job'[p].good = b
    BY <2>1, Fields, JudgedJobType
  <2>3. HasServed(p, job[p], pc[p], clone)'
    BY <1>1, <1>2, <2>2, Fields DEF Fit, HasServed
  <2>4. Able(p, has, answering) => Able(p, served, up)'
    BY <1>1 DEF Able
  <2>5. ByPrimary(p, job[p], pc[p], clone)'
    BY <1>1, <2>1, <2>2, <2>4, Fields DEF Fit, ByPrimary
  <2> QED BY <2>2, <2>3, <2>5 DEF Fit
<1>4. job' \in [Project -> Job]
  BY <1>3 DEF Changes
<1>5. Typed'
  BY <1>1, <1>2, <1>3, <1>4 DEF Inv, Typed, TypeOK
<1>6. ServedOK' /\ CloneOK(clone)'
  BY <1>1, <1>2 DEF Inv, ServedOK, CloneOK, Clone
<1>7. Results'
  BY <1>1, <1>2, Fields DEF Inv, Results, PrimaryIsEnough, HandedOnWasServed, PassedIsPinned
<1> QED BY <1>3, <1>5, <1>6, <1>7 DEF Inv

LEMMA InitInv == Init => Inv
<1> SUFFICES ASSUME Init PROVE Inv
  OBVIOUS
<1>1. served \in [Source -> [Tag -> Maybe(Content)]] /\ ever \in [Tag -> SUBSET Content]
  BY Facts DEF Init, Maybe
<1>2. result \in [Project -> Result]
  BY DEF Init, NoResult, Result, Maybe
<1>3. Typed
  BY <1>1, <1>2, NoJobType DEF Init, Typed, TypeOK, Maybe
<1>4. \A p \in Project : Fit(p, job[p], pc[p], clone)
  BY <1>3, NoJobFits DEF Init
<1>5. ServedOK /\ CloneOK(clone)
  BY DEF Init, ServedOK, CloneOK
<1>6. Results
  BY DEF Init, NoResult, Results, PrimaryIsEnough, HandedOnWasServed, PassedIsPinned
<1> QED BY <1>3, <1>4, <1>5, <1>6 DEF Inv

LEMMA NextInv == Inv /\ [Next]_vars => Inv'
<1> SUFFICES ASSUME Inv, [Next]_vars PROVE Inv'
  OBVIOUS
<1>1. CASE UNCHANGED vars
  BY <1>1 DEF vars, Inv, Typed, TypeOK, ServedOK, CloneOK, Fit, HasServed, ByPrimary, Able, Results,
     PrimaryIsEnough, HandedOnWasServed, PassedIsPinned
<1>2. ASSUME NEW p \in Project,
             Begin(p) \/ Update(p) \/ Wipe(p) \/ Bootstrap(p) \/ BootstrapFails(p)
             \/ CopyBegins(p) \/ Gate(p) \/ Killed(p)
      PROVE  Inv'
  BY <1>2, BeginOK, UpdateOK, WipeOK, BootstrapOK, BootstrapFailsOK, CopyBeginsOK, GateOK, KilledOK
<1>3. CASE TagChanges
  <2>1. PICK s \in Source, t \in Tag, c \in Maybe(Content) :
           Changes([served EXCEPT ![s][t] = c], up)
    BY <1>3 DEF TagChanges
  <2>2. [served EXCEPT ![s][t] = c] \in [Source -> [Tag -> Maybe(Content)]] /\ up \in SUBSET Source
    BY DEF Inv, Typed, TypeOK
  <2> QED BY <2>1, <2>2, ChangesOK
<1>4. CASE Outage
  <2>1. PICK s \in Source : Changes(served, (up \ {s}) \cup ({s} \ up))
    BY <1>4 DEF Outage
  <2>2. served \in [Source -> [Tag -> Maybe(Content)]]
        /\ (up \ {s}) \cup ({s} \ up) \in SUBSET Source
    BY DEF Inv, Typed, TypeOK
  <2> QED BY <2>1, <2>2, ChangesOK
<1> QED BY <1>1, <1>2, <1>3, <1>4 DEF Next

LEMMA AlwaysInv == Spec => []Inv
BY InitInv, NextInv, PTL DEF Spec

------------------------------------------------------------------------------
\* The theorems

\* Every reachable state is well typed: no command leaves a job behind, and no job
\* runs without a command.
THEOREM TypeCorrect == Spec => []TypeOK
BY AlwaysInv, PTL DEF Inv, Typed

\* fetch_with_expected_hash: however many projects share the clone, and whatever fails
\* or changes, a fetch that passed the gate put the pinned tree into the slot.
THEOREM PassedFetchesArePinned == Spec => []PassedIsPinned
BY AlwaysInv, PTL DEF Inv, Results

\* bootstrap_or_update_at: an undisturbed command hands on a tree that was served
\* under its own tag, never half of one, whatever state the clone was left in.
THEOREM FetchedTreesWereServed == Spec => []HandedOnWasServed
BY AlwaysInv, PTL DEF Inv, Results

\* bootstrap_or_update_at: an undisturbed command succeeds while the primary answers
\* and has what is wanted: nothing that earlier commands left behind stands in its way.
THEOREM ThePrimaryIsEnough == Spec => []PrimaryIsEnough
BY AlwaysInv, PTL DEF Inv, Results

===============================================================================
