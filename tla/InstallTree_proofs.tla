-------------------------- MODULE InstallTree_proofs --------------------------
(* Proofs about InstallTree for any packages, versions, dependencies, commands    *)
(* and failures.                                                                  *)
EXTENDS InstallTree, TLAPS

------------------------------------------------------------------------------
\* Helpers of the model

\* What is assumed of the constants.
LEMMA Facts ==
    /\ MaxVersion \in Nat \ {0} /\ Version \subseteq Nat /\ None \notin Pkg \cup Version
    /\ Registry \in [Pkg -> [Version -> Manifest \cup {None}]]
    /\ Hooked \subseteq Pkg
    /\ Asked \subseteq Pkg \X SUBSET Version /\ \A a \in Asked : a[2] # {}
    /\ Command \subseteq {"sync", "add", "remove", "update", "reinstall", "force"}
    /\ Failing \in BOOLEAN
BY PackagesAssumption, InstallAssumption DEF Version

\* The manifest and the resolution of a new project.
LEMMA EmptyTypes == Nothing \in Require /\ Empty \in Graph
BY DEF Nothing, Require, Empty, Graph

\* Roots lead to packages of the resolution only.
LEMMA ReachType == \A R, g : Reach(R, g) \subseteq In(g)
BY DEF Reach, LedTo

\* An answer is a resolution, and planning comes to one.
LEMMA AnswerType == \A offer, c : c \in Graph => Answer(offer, c) \in Graph
BY DEF Answer, Graph

LEMMA PlansType ==
    \A req \in Require : PlansFor[req] \subseteq Graph /\ AnswersFor[req] \subseteq Graph
BY AnswerType DEF PlansFor, Plans, AnswersFor, Choices

\* What the beginnings of the commands that solve come to.
LEMMA SyncPlans ==
    ASSUME requires \in Require, lock.roots \in Require, PlanSync
    PROVE  \E declared \in Require :
              LET job0 == [NoJob EXCEPT !.cmd = "sync", !.roots = declared] IN
              /\ declared = IF Declared(requires) = {} THEN lock.roots ELSE requires
              /\ requires' = declared
              /\ \/ pc' = "boot" /\ job' = [job0 EXCEPT !.cmd = "fresh"]
                 \/ pc' = pc /\ job' = job
                 \/ \E g \in PlansFor[declared] :
                       g \in Graph /\ pc' = "confirm" /\ job' = [job0 EXCEPT !.graph = g]
<1> DEFINE declared == IF Declared(requires) = {} THEN lock.roots ELSE requires
<1>1. declared \in Require
  OBVIOUS
<1>2. \A g \in PlansFor[declared] : g \in Graph
  BY <1>1, PlansType
<1> QED BY <1>1, <1>2 DEF PlanSync

LEMMA AskedType ==
    ASSUME NEW a \in Asked
    PROVE  a[1] \in Pkg /\ a[2] \subseteq Version /\ a[2] # {}
           /\ [Nothing EXCEPT ![a[1]] = a[2]] \in Require
<1>1. a[1] \in Pkg /\ a[2] \subseteq Version /\ a[2] # {}
  BY Facts
<1> QED BY <1>1 DEF Nothing, Require

LEMMA AddPlans ==
    ASSUME PlanAdd
    PROVE  \E a \in Asked : \E g \in PlansFor[[Nothing EXCEPT ![a[1]] = a[2]]] :
              /\ g \in Graph /\ g[a[1]] # None
              /\ job' = [NoJob EXCEPT !.cmd = "add", !.pkg = a[1], !.toml = requires, !.graph = g,
                                      !.roots = [Nothing EXCEPT ![a[1]] = Finalised(a[2], g[a[1]])]]
BY AskedType, PlansType DEF PlanAdd

LEMMA UpdatePlans ==
    ASSUME requires \in Require, lock.roots \in Require, PlanUpdate
    PROVE  \E g \in Graph : job' = [NoJob EXCEPT !.cmd = "update", !.toml = requires, !.graph = g]
<1>1. PICK p \in In(lock.packages) :
        LET known == Merged(lock.roots, requires)[p]
            asked == [Nothing EXCEPT ![p] = IF known = {} THEN Version ELSE known]
        IN \E g \in AnswersFor[asked] :
              job' = [NoJob EXCEPT !.cmd = "update", !.toml = requires, !.graph = g]
  BY DEF PlanUpdate
<1> DEFINE known == Merged(lock.roots, requires)[p]
           asked == [Nothing EXCEPT ![p] = IF known = {} THEN Version ELSE known]
<1>2. p \in Pkg
  BY DEF In
<1>3. known \subseteq Version
  BY <1>2 DEF Merged, Require
<1>4. asked \in Require
  BY <1>2, <1>3 DEF Nothing, Require
<1> HIDE DEF asked
<1>5. AnswersFor[asked] \subseteq Graph
  BY <1>4, PlansType
<1> QED BY <1>1, <1>5 DEF asked

\* Reading the tree gives a resolution.
LEMMA FoundType == Found \subseteq Graph
BY DEF Found

\* Merging requirements gives requirements.
LEMMA MergedType == \A a, b \in Require : Merged(a, b) \in Require
<1> SUFFICES ASSUME NEW a \in Require, NEW b \in Require PROVE Merged(a, b) \in Require
  OBVIOUS
<1>1. \A p \in Pkg : a[p] \subseteq Version /\ b[p] \subseteq Version
  BY DEF Require
<1>2. Merged(a, b) = [p \in Pkg |-> IF b[p] # {} THEN b[p] ELSE a[p]]
  BY DEF Merged
<1>3. \A p \in Pkg : (IF b[p] # {} THEN b[p] ELSE a[p]) \in SUBSET Version
  BY <1>1
<1> QED BY <1>2, <1>3 DEF Require

Job == [cmd : Command \cup {"none", "fresh"}, pkg : Pkg \cup {None}, toml : Require,
        roots : Require, graph : Graph, todo : SUBSET Pkg, at : Pkg \cup {None}]

\* The shape of what a command holds.
JobOK(j) ==
    /\ j \in Job
    /\ j.at \in j.todo \cup {None} /\ j.todo \subseteq In(j.graph)

\* The idle command holds nothing.
LEMMA NoJobOK == JobOK(NoJob)
BY EmptyTypes DEF NoJob, JobOK, Job

\* Which commands get to which phase, and what they hold there.
PhaseInv ==
    /\ pc = "idle" => job.cmd = "none"
    /\ pc = "confirm" => job.cmd \in Command
    /\ pc = "supersede" => job.cmd = "update"
    /\ pc = "place" => job.cmd \in {"sync", "add", "force", "update"}
    /\ pc = "prune" => job.cmd \in {"sync", "add", "force"}
    /\ pc \in {"unslot", "undeclare"} => job.cmd = "remove"
    /\ pc = "boot" => job.cmd # "none"
    /\ pc = "record" => job.cmd \in {"sync", "add", "update", "remove"}
    /\ pc # "place" => job.at = None
    /\ job.cmd = "remove" => job.pkg \in In(lock.packages)
    /\ job.cmd = "force" => job.graph = lock.packages

------------------------------------------------------------------------------
\* Shape

\* The beginnings of the commands keep the shape of the state.
LEMMA PlanShape == TypeOK /\ Plan => TypeOK'
<1> SUFFICES ASSUME TypeOK, Plan PROVE TypeOK'
  OBVIOUS
<1> USE EmptyTypes
<1>1. /\ lock.packages \in Graph /\ lock.roots \in Require /\ requires \in Require
      /\ \A p \in In(lock.packages) : p \in Pkg
  BY DEF TypeOK, In
<1>2. CASE PlanSync
  <2> DEFINE declared == IF Declared(requires) = {} THEN lock.roots ELSE requires
             job0 == [NoJob EXCEPT !.cmd = "sync", !.roots = declared]
  <2>1. declared \in Require
    BY <1>1
  <2>2. "sync" \in Command /\ requires' = declared
    BY <1>2 DEF PlanSync, Starts
  <2>3. \/ pc' = "boot" /\ job' = [job0 EXCEPT !.cmd = "fresh"]
        \/ pc' = pc /\ job' = job
        \/ \E g \in Graph : pc' = "confirm" /\ job' = [job0 EXCEPT !.graph = g]
    BY <1>1, <1>2, SyncPlans
  <2>4. JobOK([job0 EXCEPT !.cmd = "fresh"])
    BY <2>1 DEF NoJob, JobOK, Job
  <2>5. \A g \in Graph : JobOK([job0 EXCEPT !.graph = g])
    BY <2>1, <2>2 DEF NoJob, JobOK, Job
  <2>6. JobOK(job') /\ pc' \in Phase
    <3>1. JobOK(job) /\ pc \in Phase
      BY DEF TypeOK, JobOK, Job
    <3>2. {"boot", "confirm"} \subseteq Phase
      BY DEF Phase
    <3> HIDE DEF job0
    <3> QED BY <2>3, <2>4, <2>5, <3>1, <3>2
  <2>7. UNCHANGED <<lock, slots, boot, cut, scoped, gone, bootFor>>
    BY <1>2 DEF PlanSync
  <2> QED BY <2>1, <2>2, <2>6, <2>7 DEF TypeOK, JobOK, Job
<1>3. CASE PlanAdd
  <2>1. PICK a \in Asked, g \in Graph :
          job' = [NoJob EXCEPT !.cmd = "add", !.pkg = a[1], !.toml = requires, !.graph = g,
                               !.roots = [Nothing EXCEPT ![a[1]] = Finalised(a[2], g[a[1]])]]
    BY <1>3, AddPlans
  <2>2. "add" \in Command /\ pc' \in Phase
    BY <1>3 DEF PlanAdd, Starts, Phase
  <2>3. a[1] \in Pkg /\ a[2] \subseteq Version
    BY Facts
  <2>4. Finalised(a[2], g[a[1]]) \subseteq Version
    BY <2>3 DEF Finalised
  <2>5. [Nothing EXCEPT ![a[1]] = Finalised(a[2], g[a[1]])] \in Require
    BY <2>4 DEF Nothing, Require
  <2>6. JobOK(job')
    BY <2>1, <2>2, <2>3, <2>5, <1>1 DEF NoJob, JobOK, Job
  <2>7. UNCHANGED <<requires, lock, slots, boot, cut, scoped, gone, bootFor>>
    BY <1>3 DEF PlanAdd
  <2> QED BY <2>2, <2>6, <2>7 DEF TypeOK, JobOK, Job
<1>4. CASE PlanUpdate
  <2>1. PICK g \in Graph : job' = [NoJob EXCEPT !.cmd = "update", !.toml = requires, !.graph = g]
    BY <1>1, <1>4, UpdatePlans
  <2>2. "update" \in Command /\ pc' \in Phase
    BY <1>4 DEF PlanUpdate, Starts, Phase
  <2>3. JobOK(job')
    BY <2>1, <2>2, <1>1 DEF NoJob, JobOK, Job
  <2>4. UNCHANGED <<requires, lock, slots, boot, cut, scoped, gone, bootFor>>
    BY <1>4 DEF PlanUpdate
  <2> QED BY <2>2, <2>3, <2>4 DEF TypeOK, JobOK, Job
<1>5. CASE PlanRemove
  <2>1. PICK p \in Pkg : job' = [NoJob EXCEPT !.cmd = "remove", !.pkg = p, !.toml = requires]
    BY <1>1, <1>5 DEF PlanRemove
  <2>2. "remove" \in Command /\ pc' \in Phase
    BY <1>5 DEF PlanRemove, Starts, Phase
  <2>3. JobOK(job')
    BY <2>1, <2>2, <1>1 DEF NoJob, JobOK, Job
  <2>4. UNCHANGED <<requires, lock, slots, boot, cut, scoped, gone, bootFor>>
    BY <1>5 DEF PlanRemove
  <2> QED BY <2>2, <2>3, <2>4 DEF TypeOK, JobOK, Job
<1>6. CASE PlanReinstall
  <2>1. \/ /\ "reinstall" \in Command
           /\ job' = [NoJob EXCEPT !.cmd = "reinstall", !.toml = requires]
        \/ /\ "force" \in Command
           /\ job' = [NoJob EXCEPT !.cmd = "force", !.toml = requires, !.graph = lock.packages]
    BY <1>6 DEF PlanReinstall, Starts
  <2>2. JobOK(job')
    BY <2>1, <1>1 DEF NoJob, JobOK, Job
  <2>3. pc' \in Phase /\ UNCHANGED <<requires, lock, slots, boot, cut, scoped, gone, bootFor>>
    BY <1>6 DEF PlanReinstall, Phase
  <2> QED BY <2>2, <2>3 DEF TypeOK, JobOK, Job
<1> QED BY <1>2, <1>3, <1>4, <1>5, <1>6 DEF Plan

\* So do their later steps.
LEMMA StepShape == TypeOK /\ PhaseInv /\ Step => TypeOK'
<1> SUFFICES ASSUME TypeOK, PhaseInv, Step PROVE TypeOK'
  OBVIOUS
<1>1. /\ lock.packages \in Graph /\ lock.roots \in Require /\ requires \in Require
      /\ job \in Job /\ job.graph \in Graph /\ job.toml \in Require /\ job.roots \in Require
      /\ JobOK(job) /\ slots \in [Slot -> {"absent", "torn", "raw", "ready"}]
  BY DEF TypeOK, Job, JobOK
<1>2. CASE Approve
  <2>1. requires' \in Require
    BY <1>1, <1>2, MergedType DEF Approve
  <2>2. ToPlace \subseteq In(job.graph) /\ In(job.graph) \subseteq Pkg
    BY DEF ToPlace, In
  <2>3. pc' \in Phase
    BY <1>2, Facts DEF Approve, Phase, PhaseInv
  <2>4. JobOK(job')
    BY <1>1, <1>2, <2>2 DEF Approve, PhaseInv, JobOK, Job
  <2>5. gone' \subseteq Pkg /\ UNCHANGED <<lock, slots, boot, cut, scoped, bootFor>>
    BY <1>2 DEF Approve, TypeOK
  <2> QED BY <2>1, <2>3, <2>4, <2>5 DEF TypeOK, JobOK, Job
<1>3. CASE Supersede
  BY <1>1, <1>3 DEF Supersede, TypeOK, Phase
<1>4. CASE Reset
  <2>1. PICK p \in job.todo : /\ slots' = [slots EXCEPT ![<<p, job.graph[p]>>] = "torn"]
                             /\ job' = [job EXCEPT !.at = p]
    BY <1>4 DEF Reset
  <2>2. slots' \in [Slot -> {"absent", "torn", "raw", "ready"}]
    BY <1>1, <2>1
  <2>3. JobOK(job')
    BY <1>1, <2>1 DEF JobOK, Job
  <2>4. UNCHANGED <<requires, lock, boot, pc, cut, scoped, gone, bootFor>>
    BY <1>4 DEF Reset
  <2> QED BY <2>2, <2>3, <2>4 DEF TypeOK, JobOK, Job
<1>5. CASE Fill
  BY <1>1, <1>5 DEF Fill, TypeOK
<1>6. CASE RunHook
  <2>1. JobOK(job')
    <3>1. CASE job' = NoJob
      BY <3>1, NoJobOK
    <3>2. CASE job' = [job EXCEPT !.todo = @ \ {job.at}, !.at = None]
      BY <1>1, <3>2 DEF JobOK, Job
    <3> QED BY <1>6, <3>1, <3>2 DEF RunHook
  <2>2. slots' \in [Slot -> {"absent", "torn", "raw", "ready"}]
    BY <1>1, <1>6 DEF RunHook
  <2>3. pc' \in Phase /\ cut' \in BOOLEAN
    BY <1>6 DEF RunHook, TypeOK, Phase
  <2>4. UNCHANGED <<requires, lock, boot, scoped, gone, bootFor>>
    BY <1>6 DEF RunHook
  <2> QED BY <2>1, <2>2, <2>3, <2>4 DEF TypeOK, JobOK, Job
<1>7. CASE Placed
  BY <1>7 DEF Placed, TypeOK, Phase
<1>8. CASE Prune
  BY <1>1, <1>8 DEF Prune, TypeOK, Phase
<1>9. CASE RemoveSlot
  BY <1>1, <1>9 DEF RemoveSlot, TypeOK, Phase
<1>10. CASE Undeclare
  <2>1. [job.toml EXCEPT ![job.pkg] = {}] \in Require
    BY <1>1 DEF Require
  <2> QED BY <1>1, <1>10, <2>1 DEF Undeclare, TypeOK, Phase
<1>11. CASE WriteBoot
  <2>1. PICK g \in Graph : boot' = {<<p, g[p]>> : p \in Reach(Declared(Base), g)}
    BY <1>1, <1>11, FoundType DEF WriteBoot, Resolution, TypeOK, JobOK, Job
  <2>2. boot' \subseteq Slot
    BY <2>1, ReachType DEF Slot, In, Graph
  <2>3. bootFor' \subseteq Pkg
    BY <1>11 DEF WriteBoot, Declared
  <2>4. JobOK(job') /\ pc' \in Phase /\ cut' \in BOOLEAN
    BY <1>1, <1>11, NoJobOK DEF WriteBoot, TypeOK, Phase
  <2>5. UNCHANGED <<requires, lock, slots, scoped, gone>>
    BY <1>11 DEF WriteBoot
  <2> QED BY <2>2, <2>3, <2>4, <2>5 DEF TypeOK, JobOK, Job
<1>12. CASE WriteLock
  <2>1. lock' \in [packages : Graph, roots : Require] /\ gone' \subseteq Pkg
    <3>1. CASE RecordInstall
      BY <1>1, <3>1, MergedType DEF RecordInstall, TypeOK
    <3>2. CASE RecordUpdate
      BY <1>1, <3>2 DEF RecordUpdate, TypeOK, Graph
    <3>3. CASE RecordRemove
      <4>1. job.pkg \in Pkg
        BY <3>3 DEF RecordRemove, PhaseInv, In
      <4> QED BY <1>1, <3>3, <4>1 DEF RecordRemove, TypeOK, Graph, Require
    <3> QED BY <1>12, <3>1, <3>2, <3>3 DEF WriteLock
  <2>2. {cut', scoped'} \subseteq BOOLEAN
    BY <1>12 DEF WriteLock, RecordInstall, RecordUpdate, RecordRemove, TypeOK
  <2>3. JobOK(job') /\ pc' \in Phase /\ UNCHANGED <<requires, slots, boot, bootFor>>
    BY <1>12, NoJobOK DEF WriteLock, Phase
  <2> QED BY <2>1, <2>2, <2>3 DEF TypeOK, JobOK, Job
<1> QED BY <1>2, <1>3, <1>4, <1>5, <1>6, <1>7, <1>8, <1>9, <1>10, <1>11, <1>12 DEF Step

\* So do edits and aborted commands.
LEMMA OutsideShape == TypeOK /\ (Edit \/ Abort) => TypeOK'
<1>1. TypeOK /\ Edit => TypeOK'
  <2> SUFFICES ASSUME TypeOK, Edit PROVE TypeOK'
    OBVIOUS
  <2>1. \A a \in Asked : a[2] \subseteq Version
    BY Facts
  <2>2. requires' \in Require /\ gone' \subseteq Pkg
    BY <2>1 DEF Edit, Require, TypeOK
  <2> QED BY <2>2 DEF Edit, TypeOK
<1>2. TypeOK /\ Abort => TypeOK'
  BY NoJobOK DEF Abort, TypeOK, JobOK, Job, Phase
<1> QED BY <1>1, <1>2

\* The beginnings of the commands keep PhaseInv.
LEMMA PlanPhase == TypeOK /\ PhaseInv /\ Plan => PhaseInv'
<1> SUFFICES ASSUME TypeOK, PhaseInv, Plan PROVE PhaseInv'
  OBVIOUS
<1>1. lock' = lock /\ pc = "idle" /\ job.at = None
  BY DEF Plan, PlanSync, PlanAdd, PlanUpdate, PlanRemove, PlanReinstall, Starts, PhaseInv
<1>2. CASE PlanSync
  <2>1. \/ pc' = pc /\ job' = job
        \/ pc' = "boot" /\ job'.cmd = "fresh" /\ job'.at = None
        \/ pc' = "confirm" /\ job'.cmd = "sync" /\ job'.at = None
    BY <1>2 DEF PlanSync, NoJob
  <2>2. "sync" \in Command
    BY <1>2 DEF PlanSync, Starts
  <2> QED BY <1>1, <2>1, <2>2 DEF PhaseInv
<1>3. CASE PlanAdd
  <2>1. pc' = "confirm" /\ job'.cmd = "add" /\ job'.at = None /\ "add" \in Command
    BY <1>3 DEF PlanAdd, NoJob, Starts
  <2> QED BY <1>1, <2>1 DEF PhaseInv
<1>4. CASE PlanUpdate
  <2>1. pc' = "confirm" /\ job'.cmd = "update" /\ job'.at = None /\ "update" \in Command
    BY <1>4 DEF PlanUpdate, NoJob, Starts
  <2> QED BY <1>1, <2>1 DEF PhaseInv
<1>5. CASE PlanRemove
  <2>1. /\ pc' = "confirm" /\ job'.cmd = "remove" /\ job'.at = None /\ "remove" \in Command
        /\ job'.pkg \in In(lock.packages)
    BY <1>5 DEF PlanRemove, NoJob, Starts
  <2> QED BY <1>1, <2>1 DEF PhaseInv
<1>6. CASE PlanReinstall
  <2>1. /\ pc' = "confirm" /\ job'.at = None
        /\ \/ job'.cmd = "reinstall" /\ "reinstall" \in Command
           \/ job'.cmd = "force" /\ "force" \in Command /\ job'.graph = lock.packages
    BY <1>6 DEF PlanReinstall, NoJob, Starts
  <2> QED BY <1>1, <2>1 DEF PhaseInv
<1> QED BY <1>2, <1>3, <1>4, <1>5, <1>6 DEF Plan

\* So do all other steps.
LEMMA StepPhase == TypeOK /\ PhaseInv /\ (Step \/ Edit \/ Abort \/ UNCHANGED vars) => PhaseInv'
<1> SUFFICES ASSUME TypeOK, PhaseInv, Step \/ Edit \/ Abort \/ UNCHANGED vars PROVE PhaseInv'
  OBVIOUS
<1>1. job \in Job
  BY DEF TypeOK, Job
<1>2. NoJob.cmd = "none" /\ NoJob.at = None
  BY DEF NoJob
<1>3. CASE Approve
  <2>1. job'.cmd = job.cmd /\ job'.pkg = job.pkg /\ job'.at = job.at /\ job'.graph = job.graph
    BY <1>1, <1>3 DEF Approve, Job
  <2>2. job.cmd \in Command /\ job.at = None
    BY <1>3 DEF Approve, PhaseInv
  <2> QED BY <1>3, <2>1, <2>2, Facts DEF Approve, PhaseInv
<1>4. CASE Reset \/ Fill
  <2>1. pc = "place" /\ pc' = pc /\ lock' = lock
    BY <1>4 DEF Reset, Fill
  <2>2. job'.cmd = job.cmd /\ job'.pkg = job.pkg /\ job'.graph = job.graph
    BY <1>1, <1>4 DEF Reset, Fill, Job
  <2> QED BY <2>1, <2>2 DEF PhaseInv
<1>5. CASE RunHook
  BY <1>1, <1>2, <1>5 DEF RunHook, PhaseInv, Job
<1>6. CASE Placed
  BY <1>6 DEF Placed, PhaseInv, TypeOK
<1>7. CASE Supersede \/ Prune \/ RemoveSlot \/ Undeclare
  BY <1>7 DEF Supersede, Prune, RemoveSlot, Undeclare, PhaseInv
<1>8. CASE WriteBoot
  BY <1>2, <1>8, Facts DEF WriteBoot, PhaseInv, TypeOK
<1>9. CASE WriteLock \/ Abort
  BY <1>2, <1>9 DEF WriteLock, Abort, PhaseInv
<1>10. CASE Edit \/ UNCHANGED vars
  BY <1>10 DEF Edit, vars, PhaseInv
<1> QED BY <1>3, <1>4, <1>5, <1>6, <1>7, <1>8, <1>9, <1>10 DEF Step

ShapeInv == TypeOK /\ PhaseInv

\* The shape of the state and the phases of the commands are invariant together.
LEMMA ShapeCorrect == Spec => []ShapeInv
<1>1. Init => ShapeInv
  <2> SUFFICES ASSUME Init PROVE ShapeInv
    OBVIOUS
  <2>1. lock \in [packages : Graph, roots : Require] /\ requires \in Require
    BY EmptyTypes DEF Init
  <2>2. slots \in [Slot -> {"absent", "torn", "raw", "ready"}] /\ pc \in Phase
    BY DEF Init, Phase
  <2>3. JobOK(job)
    BY NoJobOK DEF Init
  <2>4. TypeOK
    BY <2>1, <2>2, <2>3 DEF Init, TypeOK, JobOK, Job
  <2>5. PhaseInv
    BY DEF Init, PhaseInv, NoJob
  <2> QED BY <2>4, <2>5 DEF ShapeInv
<1>2. ShapeInv /\ [Next]_vars => ShapeInv'
  <2>1. TypeOK /\ UNCHANGED vars => TypeOK'
    BY DEF TypeOK, vars
  <2> QED BY <2>1, PlanShape, StepShape, OutsideShape, PlanPhase, StepPhase DEF Next, ShapeInv
<1> QED BY <1>1, <1>2, PTL DEF Spec

\* Whatever the packages, versions and commands are, the files and what the running
\* command holds keep their shape.
THEOREM TypeCorrect == Spec => []TypeOK
BY ShapeCorrect, PTL DEF ShapeInv

------------------------------------------------------------------------------
\* The tree and the lockfile

Has(p, v) == slots[<<p, v>>] # "absent"

TreeIs(g) == \A p \in Pkg : \A v \in Version : Has(p, v) <=> g[p] = v

\* The lockfile's packages after the running update or uninstall.
Updated == [p \in Pkg |-> IF job.graph[p] # None THEN job.graph[p] ELSE lock.packages[p]]
Rest == [lock.packages EXCEPT ![job.pkg] = None]

\* Nothing has been changed yet, or nothing will be.
Settled ==
    \/ pc \in {"idle", "confirm", "unslot"}
    \/ pc = "boot" /\ job.cmd \in {"fresh", "reinstall"}
    => TreeIs(lock.packages)

\* Commands that make the tree what they have resolved, whatever it was before.
WholeInv ==
    job.cmd \in {"sync", "add", "force"} =>
        /\ pc = "place" => \A p \in In(job.graph) \ job.todo : Has(p, job.graph[p])
        /\ pc = "prune" => \A p \in In(job.graph) : Has(p, job.graph[p])
        /\ pc \in {"boot", "record"} => TreeIs(job.graph)

\* A scoped update replaces slots of its own subtree only.
UpdateInv ==
    job.cmd = "update" =>
        /\ pc = "supersede" =>
            /\ job.todo = In(job.graph)
            /\ \A p \in Pkg : \A v \in Version :
                /\ Has(p, v) => lock.packages[p] = v
                /\ lock.packages[p] = v /\ job.graph[p] \in {None, v} => Has(p, v)
        /\ pc = "place" => \A p \in Pkg : \A v \in Version :
                /\ Has(p, v) => Updated[p] = v
                /\ Updated[p] = v /\ p \notin job.todo => Has(p, v)
        /\ pc \in {"boot", "record"} => TreeIs(Updated)

RemoveInv ==
    job.cmd = "remove" /\ pc \in {"undeclare", "boot", "record"} => TreeIs(Rest)

TreeInv == WholeInv /\ (~cut => Settled /\ UpdateInv /\ RemoveInv)

\* Being the tree of a resolution, said slot by slot.
LEMMA TreeIsPairs ==
    ASSUME TypeOK, NEW g \in Graph
    PROVE  TreeIs(g) <=> Present = Pairs(g)
<1>1. \A p \in Pkg : g[p] \in Version \cup {None}
  BY DEF Graph
<1>2. \A p \in Pkg : \A v \in Version : <<p, v>> \in Pairs(g) <=> g[p] = v
  BY <1>1, Facts DEF Pairs, In
<1>3. \A p \in Pkg : \A v \in Version : <<p, v>> \in Present <=> Has(p, v)
  BY DEF Present, Has, Slot
<1>4. Present \subseteq Slot /\ Pairs(g) \subseteq Slot
  BY <1>1 DEF Present, Pairs, In, Slot
<1>5. Present = Pairs(g) <=> \A p \in Pkg : \A v \in Version :
                                <<p, v>> \in Present <=> <<p, v>> \in Pairs(g)
  BY <1>4 DEF Slot
<1> QED BY <1>2, <1>3, <1>5 DEF TreeIs

\* A command that starts leaves tree and lockfile alone.
LEMMA PlanTree == ShapeInv /\ TreeInv /\ Plan => TreeInv'
<1> SUFFICES ASSUME ShapeInv, TreeInv, Plan PROVE TreeInv'
  OBVIOUS
<1>1. UNCHANGED <<slots, lock, cut>> /\ pc = "idle"
  BY DEF Plan, PlanSync, PlanAdd, PlanUpdate, PlanRemove, PlanReinstall, Starts
<1>2. pc' \in {"idle", "confirm"} \/ (pc' = "boot" /\ job'.cmd = "fresh")
  BY <1>1 DEF Plan, PlanSync, PlanAdd, PlanUpdate, PlanRemove, PlanReinstall, NoJob
<1> QED BY <1>1, <1>2 DEF TreeInv, WholeInv, Settled, UpdateInv, RemoveInv, TreeIs, Has

\* A command that was approved starts from the locked tree.
LEMMA ApproveTree == ShapeInv /\ TreeInv /\ Approve => TreeInv'
<1> SUFFICES ASSUME ShapeInv, TreeInv, Approve PROVE TreeInv'
  OBVIOUS
<1>1. /\ UNCHANGED <<slots, lock, cut>> /\ pc = "confirm"
      /\ job'.cmd = job.cmd /\ job'.graph = job.graph /\ job'.todo = ToPlace
      /\ job.cmd \in {"sync", "add", "remove", "update", "reinstall", "force"}
  BY Facts DEF Approve, ShapeInv, PhaseInv, TypeOK
<1>2. ~cut => TreeIs(lock.packages)
  BY <1>1 DEF TreeInv, Settled
<1>3. CASE job.cmd \in {"sync", "add", "force"}
  <2>1. pc' = "place"
    BY <1>3 DEF Approve
  <2>2. \A p \in In(job.graph) \ ToPlace : Has(p, job.graph[p])
    BY <1>3 DEF ToPlace, Has
  <2> QED BY <1>1, <1>3, <2>1, <2>2 DEF TreeInv, WholeInv, Settled, UpdateInv, RemoveInv, Has, In
<1>4. CASE job.cmd = "update"
  <2>1. pc' = "supersede" /\ ToPlace = In(job.graph)
    BY <1>4 DEF Approve, ToPlace
  <2> QED BY <1>1, <1>2, <1>4, <2>1
          DEF TreeInv, WholeInv, Settled, UpdateInv, RemoveInv, TreeIs, Has, In
<1>5. CASE job.cmd \in {"remove", "reinstall"}
  <2>1. (pc' = "unslot" /\ job.cmd = "remove") \/ (pc' = "boot" /\ job.cmd = "reinstall")
    BY <1>5 DEF Approve
  <2> QED BY <1>1, <1>2, <1>5, <2>1
          DEF TreeInv, WholeInv, Settled, UpdateInv, RemoveInv, TreeIs, Has
<1> QED BY <1>1, <1>3, <1>4, <1>5

\* update removes only what it will replace.
LEMMA SupersedeTree == ShapeInv /\ TreeInv /\ Supersede => TreeInv'
<1> SUFFICES ASSUME ShapeInv, TreeInv, Supersede PROVE TreeInv'
  OBVIOUS
<1>1. /\ pc = "supersede" /\ job.cmd = "update" /\ UNCHANGED <<lock, job, cut>>
      /\ job.graph \in Graph /\ lock.packages \in Graph
      /\ slots \in [Slot -> {"absent", "torn", "raw", "ready"}]
  BY DEF Supersede, ShapeInv, PhaseInv, TypeOK
<1>2. WholeInv'
  BY <1>1 DEF WholeInv
<1>3. Settled' /\ RemoveInv'
  BY <1>1 DEF Settled, RemoveInv, Supersede
<1>4. ASSUME ~cut PROVE UpdateInv'
  <2>1. /\ job.todo = In(job.graph)
        /\ \A p \in Pkg : \A v \in Version :
            /\ Has(p, v) => lock.packages[p] = v
            /\ lock.packages[p] = v /\ job.graph[p] \in {None, v} => Has(p, v)
    BY <1>1, <1>4 DEF TreeInv, UpdateInv
  <2>2. \A p \in Pkg : \A v \in Version : <<p, v>> \in Superseded <=>
            lock.packages[p] = v /\ Has(p, v) /\ job.graph[p] \notin {None, v}
    BY <1>1, Facts DEF Superseded, Pairs, In, Present, Slot, Has
  <2>3. CASE pc' = "place" /\ Superseded = {} /\ slots' = slots
    BY <1>1, <2>1, <2>2, <2>3 DEF UpdateInv, Has, Updated, In
  <2>4. CASE pc' = pc /\ \E s \in Superseded : slots' = [slots EXCEPT ![s] = "absent"]
    <3>1. PICK s \in Superseded : slots' = [slots EXCEPT ![s] = "absent"]
      BY <2>4
    <3>2. PICK q \in Pkg, w \in Version : s = <<q, w>>
      BY <3>1 DEF Superseded, Present, Slot
    <3>3. \A p \in Pkg : \A v \in Version : Has(p, v)' <=> Has(p, v) /\ <<p, v>> # s
      BY <1>1, <3>1 DEF Has, Slot
    <3> QED BY <1>1, <2>1, <2>2, <2>4, <3>1, <3>2, <3>3 DEF UpdateInv
  <2> QED BY <2>3, <2>4 DEF Supersede
<1> QED BY <1>1, <1>2, <1>3, <1>4 DEF TreeInv

\* Materialising adds slots of the resolution, and leaves nothing out.
LEMMA PlaceTree == ShapeInv /\ TreeInv /\ (Reset \/ Fill \/ RunHook \/ Placed) => TreeInv'
<1> SUFFICES ASSUME ShapeInv, TreeInv, Reset \/ Fill \/ RunHook \/ Placed PROVE TreeInv'
  OBVIOUS
<1>1. /\ pc = "place" /\ job.cmd \in {"sync", "add", "force", "update"} /\ lock' = lock
      /\ job \in Job /\ job.graph \in Graph /\ lock.packages \in Graph
      /\ job.todo \subseteq In(job.graph) /\ job.at \in job.todo \cup {None}
      /\ slots \in [Slot -> {"absent", "torn", "raw", "ready"}]
  BY DEF Reset, Fill, RunHook, Placed, ShapeInv, PhaseInv, TypeOK, Job
<1>2. \A p \in In(job.graph) : p \in Pkg /\ job.graph[p] \in Version
  BY <1>1 DEF In, Graph
<1>3. CASE pc' = pc /\ cut' = cut /\ job'.cmd = job.cmd /\ job'.graph = job.graph
           /\ \E q \in job.todo :
                /\ \A p \in Pkg : \A v \in Version :
                      Has(p, v)' <=> Has(p, v) \/ (p = q /\ v = job.graph[q])
                /\ job'.todo = job.todo \/ job'.todo = job.todo \ {q}
  <2>1. PICK q \in job.todo :
           /\ \A p \in Pkg : \A v \in Version :
                 Has(p, v)' <=> Has(p, v) \/ (p = q /\ v = job.graph[q])
           /\ job'.todo = job.todo \/ job'.todo = job.todo \ {q}
    BY <1>3
  <2>2. WholeInv'
    BY <1>1, <1>2, <1>3, <2>1 DEF TreeInv, WholeInv
  <2>3. Settled' /\ RemoveInv'
    BY <1>1, <1>3 DEF Settled, RemoveInv
  <2>4. Updated' = Updated /\ Updated[q] = job.graph[q]
    BY <1>1, <1>2, <1>3 DEF Updated, In
  <2>5. ~cut => UpdateInv'
    BY <1>1, <1>2, <1>3, <2>1, <2>4 DEF TreeInv, UpdateInv
  <2> QED BY <1>3, <2>2, <2>3, <2>5 DEF TreeInv
<1>4. CASE Reset
  <2>1. PICK q \in job.todo : slots' = [slots EXCEPT ![<<q, job.graph[q]>>] = "torn"]
                             /\ job' = [job EXCEPT !.at = q]
    BY <1>4 DEF Reset
  <2>2. \A p \in Pkg : \A v \in Version :
            Has(p, v)' <=> Has(p, v) \/ (p = q /\ v = job.graph[q])
    BY <1>1, <1>2, <2>1 DEF Has, Slot
  <2>3. job'.cmd = job.cmd /\ job'.graph = job.graph /\ job'.todo = job.todo
    BY <1>1, <2>1 DEF Job
  <2>4. pc' = pc /\ cut' = cut
    BY <1>4 DEF Reset
  <2> QED BY <1>3, <2>2, <2>3, <2>4
<1>5. ASSUME job.at # None,
             slots' = [slots EXCEPT ![At] = "raw"] \/ slots' = [slots EXCEPT ![At] = "ready"]
      PROVE  \A p \in Pkg : \A v \in Version :
                Has(p, v)' <=> Has(p, v) \/ (p = job.at /\ v = job.graph[job.at])
  BY <1>1, <1>2, <1>5 DEF Has, Slot, At
<1>6. CASE Fill
  <2>1. job.at # None /\ job.at \in job.todo /\ pc' = pc /\ cut' = cut
    BY <1>1, <1>6 DEF Fill
  <2>2. /\ job'.cmd = job.cmd /\ job'.graph = job.graph
        /\ job'.todo = job.todo \/ job'.todo = job.todo \ {job.at}
    BY <1>1, <1>6 DEF Fill, Job
  <2>3. slots' = [slots EXCEPT ![At] = "raw"] \/ slots' = [slots EXCEPT ![At] = "ready"]
    BY <1>6 DEF Fill
  <2> QED BY <1>3, <1>5, <2>1, <2>2, <2>3
<1>7. CASE RunHook
  <2>1. CASE pc' = "idle" /\ job' = NoJob /\ cut' = TRUE
    BY <2>1 DEF TreeInv, WholeInv, NoJob
  <2>2. CASE /\ slots' = [slots EXCEPT ![At] = "ready"]
             /\ job' = [job EXCEPT !.todo = @ \ {job.at}, !.at = None]
             /\ UNCHANGED <<pc, cut>>
    <3>1. job.at # None /\ job.at \in job.todo
      BY <1>1, <1>7 DEF RunHook
    <3>2. job'.cmd = job.cmd /\ job'.graph = job.graph /\ job'.todo = job.todo \ {job.at}
      BY <1>1, <2>2 DEF Job
    <3> QED BY <1>3, <1>5, <2>2, <3>1, <3>2
  <2> QED BY <1>7, <2>1, <2>2 DEF RunHook
<1>8. CASE Placed
  <2>1. job.todo = {} /\ UNCHANGED <<slots, job, cut>>
    BY <1>8 DEF Placed
  <2>2. CASE job.cmd = "update"
    <3>1. pc' = "boot"
      BY <1>8, <2>2 DEF Placed
    <3>2. ~cut => TreeIs(Updated)
      BY <1>1, <2>1, <2>2 DEF TreeInv, UpdateInv, TreeIs
    <3> QED BY <1>1, <2>1, <2>2, <3>1, <3>2
            DEF TreeInv, WholeInv, Settled, UpdateInv, RemoveInv, TreeIs, Has, Updated
  <2>3. CASE job.cmd # "update"
    <3>1. pc' = "prune"
      BY <1>8, <2>3 DEF Placed
    <3> QED BY <1>1, <2>1, <2>3, <3>1
            DEF TreeInv, WholeInv, Settled, UpdateInv, RemoveInv, Has
  <2> QED BY <2>2, <2>3
<1> QED BY <1>4, <1>6, <1>7, <1>8

\* Pruning keeps the slots of the resolution and ends when no others are left.
LEMMA PruneTree == ShapeInv /\ TreeInv /\ Prune => TreeInv'
<1> SUFFICES ASSUME ShapeInv, TreeInv, Prune PROVE TreeInv'
  OBVIOUS
<1>1. /\ pc = "prune" /\ job.cmd \in {"sync", "add", "force"} /\ UNCHANGED <<lock, job, cut>>
      /\ job.graph \in Graph /\ slots \in [Slot -> {"absent", "torn", "raw", "ready"}]
  BY DEF Prune, ShapeInv, PhaseInv, TypeOK
<1>2. \A p \in In(job.graph) : Has(p, job.graph[p])
  BY <1>1 DEF TreeInv, WholeInv
<1>3. \A p \in Pkg : \A v \in Version : <<p, v>> \in Stale <=> Has(p, v) /\ job.graph[p] # v
  BY <1>1, Facts DEF Stale, Present, Pairs, In, Slot, Has
<1>4. Settled' /\ UpdateInv' /\ RemoveInv'
  BY <1>1 DEF Settled, UpdateInv, RemoveInv, Prune
<1>5. CASE pc' = "boot" /\ Stale = {} /\ slots' = slots
  <2>1. TreeIs(job.graph)
    BY <1>1, <1>2, <1>3, <1>5, Facts DEF TreeIs, In
  <2> QED BY <1>1, <1>4, <1>5, <2>1 DEF TreeInv, WholeInv, TreeIs, Has
<1>6. CASE pc' = pc /\ \E s \in Stale : slots' = [slots EXCEPT ![s] = "absent"]
  <2>1. PICK s \in Stale : slots' = [slots EXCEPT ![s] = "absent"]
    BY <1>6
  <2>2. PICK q \in Pkg, w \in Version : s = <<q, w>>
    BY <2>1 DEF Stale, Present, Slot
  <2>3. \A p \in Pkg : \A v \in Version : Has(p, v)' <=> Has(p, v) /\ <<p, v>> # s
    BY <1>1, <2>1 DEF Has, Slot
  <2>4. \A p \in In(job.graph) : p \in Pkg /\ job.graph[p] \in Version
    BY <1>1 DEF In, Graph
  <2>5. WholeInv'
    BY <1>1, <1>2, <1>3, <1>6, <2>1, <2>2, <2>3, <2>4 DEF WholeInv
  <2> QED BY <1>4, <2>5 DEF TreeInv
<1> QED BY <1>5, <1>6 DEF Prune

\* uninstall removes the one slot that the lockfile then loses.
LEMMA RemoveTree == ShapeInv /\ TreeInv /\ (RemoveSlot \/ Undeclare) => TreeInv'
<1> SUFFICES ASSUME ShapeInv, TreeInv, RemoveSlot \/ Undeclare PROVE TreeInv'
  OBVIOUS
<1>1. /\ job.cmd = "remove" /\ UNCHANGED <<lock, job, cut>>
      /\ job.pkg \in Pkg /\ lock.packages[job.pkg] \in Version /\ lock.packages \in Graph
      /\ slots \in [Slot -> {"absent", "torn", "raw", "ready"}]
  BY DEF RemoveSlot, Undeclare, ShapeInv, PhaseInv, TypeOK, In, Graph
<1>2. WholeInv' /\ UpdateInv'
  BY <1>1 DEF WholeInv, UpdateInv
<1>3. CASE RemoveSlot
  <2>1. pc = "unslot" /\ pc' = "undeclare" /\ slots' = [slots EXCEPT ![Own] = "absent"]
    BY <1>3 DEF RemoveSlot
  <2>2. \A p \in Pkg : \A v \in Version : Has(p, v)' <=> Has(p, v) /\ <<p, v>> # Own
    BY <1>1, <2>1 DEF Has, Slot, Own
  <2>3. \A p \in Pkg : \A v \in Version :
            Rest[p] = v <=> lock.packages[p] = v /\ <<p, v>> # Own
    BY <1>1, Facts DEF Rest, Own, Graph
  <2>4. Rest' = Rest /\ (~cut => TreeIs(lock.packages))
    BY <1>1, <2>1 DEF Rest, TreeInv, Settled
  <2> QED BY <1>1, <1>2, <2>1, <2>2, <2>3, <2>4 DEF TreeInv, Settled, RemoveInv, TreeIs
<1>4. CASE Undeclare
  <2>1. pc = "undeclare" /\ pc' = "boot" /\ slots' = slots
    BY <1>4 DEF Undeclare
  <2> QED BY <1>1, <1>2, <2>1 DEF TreeInv, Settled, RemoveInv, TreeIs, Has, Rest
<1> QED BY <1>3, <1>4

\* Writing boot index and lockfile brings the lockfile to the tree.
LEMMA WriteTree == ShapeInv /\ TreeInv /\ (WriteBoot \/ WriteLock) => TreeInv'
<1> SUFFICES ASSUME ShapeInv, TreeInv, WriteBoot \/ WriteLock PROVE TreeInv'
  OBVIOUS
<1>1. NoJob.cmd = "none"
  BY DEF NoJob
<1>2. CASE WriteBoot
  <2>1. pc = "boot" /\ UNCHANGED <<slots, lock>>
    BY <1>2 DEF WriteBoot
  <2>2. CASE job.cmd = "force"
    <3>1. pc' = "idle" /\ job' = NoJob /\ job.graph = lock.packages
      BY <1>2, <2>2 DEF WriteBoot, ShapeInv, PhaseInv
    <3>2. TreeIs(lock.packages)
      BY <2>1, <2>2, <3>1 DEF TreeInv, WholeInv
    <3> QED BY <1>1, <2>1, <3>1, <3>2
            DEF TreeInv, WholeInv, Settled, UpdateInv, RemoveInv, TreeIs, Has
  <2>3. CASE job.cmd \in {"fresh", "reinstall"}
    <3>1. pc' = "idle" /\ job' = NoJob /\ (~cut' => ~cut)
      BY <1>2, <2>3 DEF WriteBoot
    <3>2. ~cut => TreeIs(lock.packages)
      BY <2>1, <2>3 DEF TreeInv, Settled
    <3> QED BY <1>1, <2>1, <3>1, <3>2
            DEF TreeInv, WholeInv, Settled, UpdateInv, RemoveInv, TreeIs, Has
  <2>4. CASE job.cmd \notin {"fresh", "reinstall", "force"}
    <3>1. pc' = "record" /\ UNCHANGED <<job, cut>>
      BY <1>2, <2>4 DEF WriteBoot
    <3> QED BY <2>1, <2>4, <3>1
            DEF TreeInv, WholeInv, Settled, UpdateInv, RemoveInv, TreeIs, Has, Updated, Rest
  <2> QED BY <2>2, <2>3, <2>4
<1>3. CASE WriteLock
  <2>1. pc = "record" /\ pc' = "idle" /\ job' = NoJob /\ slots' = slots
        /\ lock \in [packages : Graph, roots : Require] /\ (~cut' /\ job.cmd \in {"update", "remove"} => ~cut)
    BY <1>3 DEF WriteLock, RecordInstall, RecordUpdate, RecordRemove, ShapeInv, TypeOK
  <2>2. ~cut' => TreeIs(lock'.packages)
    <3>1. CASE RecordInstall
      BY <2>1, <3>1 DEF RecordInstall, TreeInv, WholeInv
    <3>2. CASE RecordUpdate
      <4>1. lock'.packages = Updated
        BY <2>1, <3>2 DEF RecordUpdate, Updated
      <4> QED BY <2>1, <3>2, <4>1 DEF RecordUpdate, TreeInv, UpdateInv
    <3>3. CASE RecordRemove
      <4>1. lock'.packages = Rest
        BY <2>1, <3>3 DEF RecordRemove, Rest
      <4> QED BY <2>1, <3>3, <4>1 DEF RecordRemove, TreeInv, RemoveInv
    <3> QED BY <1>3, <3>1, <3>2, <3>3 DEF WriteLock
  <2> QED BY <1>1, <2>1, <2>2
          DEF TreeInv, WholeInv, Settled, UpdateInv, RemoveInv, TreeIs, Has
<1> QED BY <1>2, <1>3

\* A command that was cut short promises nothing; one that was declined did nothing.
LEMMA OutsideTree == ShapeInv /\ TreeInv /\ (Edit \/ Abort \/ UNCHANGED vars) => TreeInv'
<1> SUFFICES ASSUME ShapeInv, TreeInv, Edit \/ Abort \/ UNCHANGED vars PROVE TreeInv'
  OBVIOUS
<1>1. CASE Edit \/ UNCHANGED vars
  BY <1>1 DEF Edit, vars, TreeInv, WholeInv, Settled, UpdateInv, RemoveInv, TreeIs, Has, Updated, Rest
<1>2. CASE Abort
  <2>1. pc' = "idle" /\ job' = NoJob /\ lock' = lock /\ NoJob.cmd = "none"
    BY <1>2 DEF Abort, NoJob
  <2>2. ~cut' => ~cut /\ pc = "confirm" /\ slots' = slots
    BY <1>2 DEF Abort, Removing
  <2> QED BY <2>1, <2>2 DEF TreeInv, WholeInv, Settled, UpdateInv, RemoveInv, TreeIs, Has
<1> QED BY <1>1, <1>2

\* TreeInv is invariant.
LEMMA TreeCorrect == Spec => [](ShapeInv /\ TreeInv)
<1>1. Init => TreeInv
  <2>1. \A p \in Pkg : Empty[p] \notin Version
    BY Facts DEF Empty
  <2> QED BY <2>1 DEF Init, TreeInv, WholeInv, Settled, UpdateInv, RemoveInv, TreeIs, Has, Slot, NoJob
<1>2. ShapeInv /\ TreeInv /\ [Next]_vars => TreeInv'
  BY PlanTree, ApproveTree, SupersedeTree, PlaceTree, PruneTree, RemoveTree, WriteTree, OutsideTree
     DEF Next, Step
<1> QED BY <1>1, <1>2, ShapeCorrect, PTL DEF Spec

\* For any packages, dependencies and order of commands, hand edits, declined prompts,
\* failing hooks and kills: between commands vibedeps/ holds exactly the packages of
\* vibe.lock, unless a command was cut short and nothing has rebuilt the tree since.
THEOREM TreeIsLocked == Spec => []TreeMatchesLock
<1>1. ShapeInv /\ TreeInv => TreeMatchesLock
  <2> SUFFICES ASSUME ShapeInv, TreeInv, pc = "idle", ~cut PROVE Present = Pairs(lock.packages)
    BY DEF TreeMatchesLock
  <2>1. TypeOK /\ lock.packages \in Graph
    BY DEF ShapeInv, TypeOK
  <2>2. TreeIs(lock.packages)
    BY DEF TreeInv, Settled
  <2> QED BY <2>1, <2>2, TreeIsPairs
<1> QED BY <1>1, TreeCorrect, PTL

------------------------------------------------------------------------------
\* Uninstalled packages

\* No place from which a command may declare a package names one that is gone.
GoneInv ==
    /\ gone \cap Declared(requires) = {}
    /\ gone \cap Declared(lock.roots) = {}
    /\ gone \cap Declared(job.toml) = {}
    /\ job.cmd = "add" => Declared(job.roots) \subseteq {job.pkg}
    /\ job.cmd = "sync" \/ (job.cmd = "add" /\ pc # "confirm") => gone \cap Declared(job.roots) = {}
    /\ job.cmd = "remove" /\ pc \in {"boot", "record"} /\ job.toml[job.pkg] # {} =>
            job.pkg \notin Declared(requires)

\* Merging declares what one of the two declares.
LEMMA DeclaredMerged == \A a, b : Declared(Merged(a, b)) = Declared(a) \cup Declared(b)
BY DEF Declared, Merged

\* A command that starts reads places that name no package that is gone.
LEMMA PlanGone == ShapeInv /\ GoneInv /\ Plan => GoneInv'
<1> SUFFICES ASSUME ShapeInv, GoneInv, Plan PROVE GoneInv'
  OBVIOUS
<1>1. UNCHANGED <<lock, gone>> /\ pc = "idle" /\ Declared(Nothing) = {}
  BY DEF Plan, PlanSync, PlanAdd, PlanUpdate, PlanRemove, PlanReinstall, Starts, Declared, Nothing
<1>2. CASE PlanSync
  <2> DEFINE declared == IF Declared(requires) = {} THEN lock.roots ELSE requires
  <2>1. requires' = declared /\ gone \cap Declared(declared) = {}
    BY <1>2 DEF PlanSync, GoneInv
  <2>2. \/ pc' = pc /\ job' = job
        \/ pc' \in {"boot", "confirm"} /\ job'.cmd \in {"fresh", "sync"} /\ job'.toml = Nothing
           /\ job'.roots = declared
    BY <1>2 DEF PlanSync, NoJob
  <2>3. job.cmd = "none"
    BY <1>1 DEF ShapeInv, PhaseInv
  <2> QED BY <1>1, <2>1, <2>2, <2>3 DEF GoneInv
<1>3. CASE PlanAdd
  <2>1. PICK a \in Asked, x \in SUBSET Version :
           job'.cmd = "add" /\ job'.pkg = a[1] /\ job'.toml = requires
           /\ job'.roots = [Nothing EXCEPT ![a[1]] = x]
    <3>1. PICK a \in Asked, g \in Graph :
            job' = [NoJob EXCEPT !.cmd = "add", !.pkg = a[1], !.toml = requires, !.graph = g,
                                 !.roots = [Nothing EXCEPT ![a[1]] = Finalised(a[2], g[a[1]])]]
      BY <1>3, AddPlans
    <3>2. Finalised(a[2], g[a[1]]) \subseteq Version
      BY Facts DEF Finalised
    <3> QED BY <3>1, <3>2 DEF NoJob
  <2>2. Declared(job'.roots) \subseteq {job'.pkg}
    BY <2>1 DEF Declared, Nothing
  <2>3. requires' = requires /\ pc' = "confirm"
    BY <1>3 DEF PlanAdd
  <2> QED BY <1>1, <2>1, <2>2, <2>3 DEF GoneInv
<1>4. CASE PlanUpdate \/ PlanRemove \/ PlanReinstall
  <2>1. /\ job'.cmd \in {"update", "remove", "reinstall", "force"} /\ job'.toml = requires
        /\ requires' = requires /\ pc' = "confirm"
    BY <1>4 DEF PlanUpdate, PlanRemove, PlanReinstall, NoJob
  <2> QED BY <1>1, <2>1 DEF GoneInv
<1> QED BY <1>2, <1>3, <1>4 DEF Plan

\* Nor does a later step bring one back.
LEMMA StepGone == ShapeInv /\ GoneInv /\ Step => GoneInv'
<1> SUFFICES ASSUME ShapeInv, GoneInv, Step PROVE GoneInv'
  OBVIOUS
<1>1. /\ job \in Job /\ lock \in [packages : Graph, roots : Require] /\ requires \in Require
      /\ job.toml \in Require
  BY DEF ShapeInv, TypeOK, Job
<1>2. NoJob.cmd = "none" /\ Declared(NoJob.toml) = {}
  BY DEF NoJob, Nothing, Declared
<1>3. CASE Approve
  <2>1. /\ lock' = lock /\ job'.cmd = job.cmd /\ job'.toml = job.toml /\ job'.roots = job.roots
        /\ job'.pkg = job.pkg
    BY <1>1, <1>3 DEF Approve, Job
  <2>2. /\ pc' \notin {"confirm", "record"} /\ (job.cmd = "remove" => pc' = "unslot")
        /\ pc = "confirm"
    BY <1>3, Facts DEF Approve, ShapeInv, PhaseInv
  <2>3. CASE job.cmd = "add"
    <3>1. gone' = gone \ {job.pkg} /\ gone' \cap Declared(job.roots) = {}
      BY <1>3, <2>3 DEF Approve, GoneInv
    <3>2. requires' = Merged(job.toml, job.roots) \/ requires' = requires
      BY <1>3 DEF Approve
    <3>3. gone' \cap Declared(requires') = {}
      BY <3>1, <3>2, DeclaredMerged DEF GoneInv
    <3> QED BY <2>1, <2>3, <3>1, <3>3 DEF GoneInv
  <2>4. CASE job.cmd # "add"
    <3>1. gone' = gone /\ requires' = requires
      BY <1>3, <2>4 DEF Approve
    <3> QED BY <2>1, <2>2, <2>4, <3>1 DEF GoneInv
  <2> QED BY <2>3, <2>4
<1>4. CASE Reset \/ Fill
  <2>1. UNCHANGED <<requires, lock, gone, pc>>
    BY <1>4 DEF Reset, Fill
  <2>2. /\ job'.cmd = job.cmd /\ job'.toml = job.toml /\ job'.roots = job.roots
        /\ job'.pkg = job.pkg
    BY <1>1, <1>4 DEF Reset, Fill, Job
  <2> QED BY <2>1, <2>2 DEF GoneInv
<1>5. CASE RunHook
  <2>1. UNCHANGED <<requires, lock, gone>> /\ pc = "place" /\ pc' \in {"place", "idle"}
    BY <1>5 DEF RunHook
  <2>2. \/ job' = NoJob
        \/ /\ job'.cmd = job.cmd /\ job'.toml = job.toml /\ job'.roots = job.roots
           /\ job'.pkg = job.pkg
    BY <1>1, <1>5 DEF RunHook, Job
  <2> QED BY <1>2, <2>1, <2>2 DEF GoneInv
<1>6. CASE Supersede \/ Placed \/ Prune \/ RemoveSlot
  <2>1. pc # "confirm" /\ pc' # "confirm"
    BY <1>6 DEF Supersede, Placed, Prune, RemoveSlot
  <2>2. UNCHANGED <<requires, lock, gone, job>> /\ (job.cmd = "remove" => pc' = "undeclare")
    BY <1>6 DEF Supersede, Placed, Prune, RemoveSlot, ShapeInv, PhaseInv
  <2> QED BY <2>1, <2>2 DEF GoneInv
<1>7. CASE Undeclare
  <2>1. UNCHANGED <<lock, gone, job>> /\ job.cmd = "remove" /\ pc' = "boot" /\ job.pkg \in Pkg
    BY <1>7 DEF Undeclare, ShapeInv, PhaseInv, In
  <2>2. CASE job.toml[job.pkg] = {}
    BY <1>7, <2>1, <2>2 DEF Undeclare, GoneInv
  <2>3. CASE job.toml[job.pkg] # {}
    <3>1. requires' = [job.toml EXCEPT ![job.pkg] = {}]
      BY <1>7, <2>3 DEF Undeclare
    <3>2. Declared(requires') = Declared(job.toml) \ {job.pkg}
      BY <1>1, <2>1, <3>1 DEF Declared, Require
    <3> QED BY <2>1, <3>2 DEF GoneInv
  <2> QED BY <2>2, <2>3
<1>8. CASE WriteBoot
  <2>1. /\ UNCHANGED <<requires, lock, gone>> /\ pc = "boot"
        /\ job' = NoJob \/ (job' = job /\ pc' = "record")
    BY <1>8 DEF WriteBoot
  <2> QED BY <1>2, <2>1 DEF GoneInv
<1>9. CASE WriteLock
  <2>1. pc = "record" /\ pc' = "idle" /\ job' = NoJob /\ requires' = requires
    BY <1>9 DEF WriteLock
  <2>2. gone' \cap Declared(requires) = {} /\ gone' \cap Declared(lock'.roots) = {}
    <3>1. CASE RecordInstall
      <4>1. lock'.roots = Merged(lock.roots, job.roots) /\ gone' = gone
        BY <3>1 DEF RecordInstall
      <4>2. gone \cap Declared(job.roots) = {}
        BY <2>1, <3>1 DEF RecordInstall, GoneInv
      <4> QED BY <4>1, <4>2, DeclaredMerged DEF GoneInv
    <3>2. CASE RecordUpdate
      BY <1>1, <3>2 DEF RecordUpdate, GoneInv
    <3>3. CASE RecordRemove
      <4>1. job.cmd = "remove" /\ job.pkg \in Pkg
        BY <3>3 DEF RecordRemove, ShapeInv, PhaseInv, In
      <4>2. gone' = gone \cup ({job.pkg} \ (Declared(requires) \ Declared(job.toml)))
        BY <3>3 DEF RecordRemove
      <4>3. Declared(lock'.roots) = Declared(lock.roots) \ {job.pkg}
        BY <1>1, <3>3, <4>1 DEF RecordRemove, Declared, Require
      <4>4. job.pkg \in Declared(job.toml) => job.pkg \notin Declared(requires)
        BY <2>1, <4>1 DEF GoneInv, Declared
      <4> QED BY <4>2, <4>3, <4>4 DEF GoneInv
    <3> QED BY <1>9, <3>1, <3>2, <3>3 DEF WriteLock
  <2> QED BY <1>2, <2>1, <2>2 DEF GoneInv
<1> QED BY <1>3, <1>4, <1>5, <1>6, <1>7, <1>8, <1>9 DEF Step

\* Nor does an aborted command; an edit that declares one again asks for it.
LEMMA OutsideGone == ShapeInv /\ GoneInv /\ (Edit \/ Abort \/ UNCHANGED vars) => GoneInv'
<1> SUFFICES ASSUME ShapeInv, GoneInv, Edit \/ Abort \/ UNCHANGED vars PROVE GoneInv'
  OBVIOUS
<1>1. CASE Edit
  <2>1. PICK p \in Pkg, c \in SUBSET Version :
            /\ requires' = [requires EXCEPT ![p] = c]
            /\ gone' = IF c = {} THEN gone ELSE gone \ {p}
    <3>1. PICK p \in Pkg : \E c \in {a[2] : a \in {b \in Asked : b[1] = p}} \cup {{}} :
            /\ requires' = [requires EXCEPT ![p] = c]
            /\ gone' = IF c = {} THEN gone ELSE gone \ {p}
      BY <1>1 DEF Edit
    <3>2. \A a \in Asked : a[2] \in SUBSET Version
      BY Facts
    <3>3. PICK c \in {a[2] : a \in {b \in Asked : b[1] = p}} \cup {{}} :
            /\ requires' = [requires EXCEPT ![p] = c]
            /\ gone' = IF c = {} THEN gone ELSE gone \ {p}
      BY <3>1
    <3>4. c \in SUBSET Version
      BY <3>2, <3>3
    <3> QED BY <3>3, <3>4
  <2>2. UNCHANGED <<lock, job, pc>> /\ pc \in {"idle", "confirm"} /\ requires \in Require
    BY <1>1 DEF Edit, ShapeInv, TypeOK
  <2>3. gone' \cap Declared(requires') = {}
    BY <2>1, <2>2 DEF GoneInv, Declared, Require
  <2> QED BY <2>1, <2>2, <2>3 DEF GoneInv
<1>2. CASE Abort
  <2>1. job' = NoJob /\ UNCHANGED <<requires, lock, gone>>
    BY <1>2 DEF Abort
  <2>2. NoJob.cmd = "none" /\ Declared(NoJob.toml) = {}
    BY DEF NoJob, Nothing, Declared
  <2> QED BY <2>1, <2>2 DEF GoneInv
<1>3. CASE UNCHANGED vars
  BY <1>3 DEF vars, GoneInv
<1> QED BY <1>1, <1>2, <1>3

\* For any packages and order of commands, edits, failures and kills: an uninstalled
\* package is not declared again until somebody asks for it.
THEOREM GoneStaysGone == Spec => []UninstalledStaysGone
<1>1. Init => GoneInv
  BY DEF Init, GoneInv, NoJob, Nothing, Declared
<1>2. ShapeInv /\ GoneInv /\ [Next]_vars => GoneInv'
  BY PlanGone, StepGone, OutsideGone DEF Next
<1>3. GoneInv => UninstalledStaysGone
  BY DEF GoneInv, UninstalledStaysGone
<1> QED BY <1>1, <1>2, <1>3, ShapeCorrect, PTL DEF Spec

------------------------------------------------------------------------------
\* Fresh locks

\* Put together from answers for the roots and for what conditions ask for, and one
\* answer for the roots where no package has conditions.
Rooted(g, roots) ==
    /\ PutTogether(Registry, Declared(roots) \cup Late(Registry), g)
    /\ Unconditional(Registry, g) =>
          \E c \in Choices(Registry, Declared(roots)) : g = Answer(Registry, c)

ResolvedInv ==
    /\ ~scoped => Rooted(lock.packages, lock.roots)
    /\ job.cmd \in {"sync", "add"} => Rooted(job.graph, job.roots)

\* A choice for some names is one for more names.
LEMMA ChoicesMonotone ==
    ASSUME NEW offer, NEW names, NEW more, names \subseteq more
    PROVE  Choices(offer, names) \subseteq Choices(offer, more)
<1> SUFFICES ASSUME NEW g \in Choices(offer, names) PROVE g \in Choices(offer, more)
  OBVIOUS
<1>1. LedTo(offer, names \cup Brought(offer), g) \subseteq LedTo(offer, more \cup Brought(offer), g)
  BY DEF LedTo
<1>2. LedTo(offer, more \cup Brought(offer), g) \subseteq In(g)
  BY DEF LedTo
<1> QED BY <1>1, <1>2 DEF Choices

\* What is rooted in some roots is rooted in more.
LEMMA RootedMonotone ==
    ASSUME NEW g, NEW roots, NEW more, Rooted(g, roots), Declared(roots) \subseteq Declared(more)
    PROVE  Rooted(g, more)
<1>1. Choices(Registry, Declared(roots)) \subseteq Choices(Registry, Declared(more))
  BY ChoicesMonotone
<1>2. Choices(Registry, Declared(roots) \cup Late(Registry))
        \subseteq Choices(Registry, Declared(more) \cup Late(Registry))
  BY ChoicesMonotone
<1>3. PutTogether(Registry, Declared(more) \cup Late(Registry), g)
  BY <1>2 DEF Rooted, PutTogether
<1> QED BY <1>1, <1>3 DEF Rooted

\* A plan is rooted in what it was made for.
LEMMA PlansRooted ==
    ASSUME NEW req \in Require, NEW g \in PlansFor[req]
    PROVE  Rooted(g, req) /\ \A p \in Declared(req) : g[p] # None => g[p] \in req[p]
<1>1. g \in Plans(Registry, req)
  BY DEF PlansFor
<1> QED BY <1>1 DEF Plans, Rooted, In, Declared

\* What a command plans is rooted in the roots that it will record.
LEMMA PlanRooted == ShapeInv /\ ResolvedInv /\ Plan => ResolvedInv'
<1> SUFFICES ASSUME ShapeInv, ResolvedInv, Plan PROVE ResolvedInv'
  OBVIOUS
<1>1. UNCHANGED <<lock, scoped>>
  BY DEF Plan, PlanSync, PlanAdd, PlanUpdate, PlanRemove, PlanReinstall
<1>2. CASE PlanSync
  <2> DEFINE declared == IF Declared(requires) = {} THEN lock.roots ELSE requires
             job0 == [NoJob EXCEPT !.cmd = "sync", !.roots = declared]
  <2>1. /\ declared \in Require
        /\ \/ job' = job
           \/ job' = [job0 EXCEPT !.cmd = "fresh"]
           \/ \E g \in PlansFor[declared] : job' = [job0 EXCEPT !.graph = g]
    BY <1>2, SyncPlans DEF ShapeInv, TypeOK
  <2>2. \A g \in PlansFor[declared] : Rooted(g, declared)
    BY <2>1, PlansRooted
  <2>3. job' = job \/ job'.cmd = "fresh" \/ Rooted(job'.graph, job'.roots)
    <3> HIDE DEF declared
    <3> QED BY <2>1, <2>2 DEF NoJob
  <2> QED BY <1>1, <2>3 DEF ResolvedInv
<1>3. CASE PlanAdd
  <2>1. PICK a \in Asked : \E g \in PlansFor[[Nothing EXCEPT ![a[1]] = a[2]]] :
          /\ g[a[1]] # None
          /\ job' = [NoJob EXCEPT !.cmd = "add", !.pkg = a[1], !.toml = requires, !.graph = g,
                                  !.roots = [Nothing EXCEPT ![a[1]] = Finalised(a[2], g[a[1]])]]
    BY <1>3, AddPlans
  <2> DEFINE asked == [Nothing EXCEPT ![a[1]] = a[2]]
  <2>2. PICK g \in PlansFor[asked] :
          /\ g[a[1]] # None
          /\ job' = [NoJob EXCEPT !.cmd = "add", !.pkg = a[1], !.toml = requires, !.graph = g,
                                  !.roots = [Nothing EXCEPT ![a[1]] = Finalised(a[2], g[a[1]])]]
    BY <2>1
  <2>3. a[1] \in Pkg /\ a[2] \subseteq Version /\ a[2] # {} /\ Version \subseteq Nat /\ asked \in Require
    BY Facts, AskedType
  <2>4. Declared(asked) = {a[1]} /\ asked[a[1]] = a[2]
    BY <2>3 DEF Declared, Nothing
  <2>5. Rooted(g, asked) /\ g[a[1]] \in a[2]
    <3> HIDE DEF asked
    <3> QED BY <2>2, <2>3, <2>4, PlansRooted
  <2>6. Finalised(a[2], g[a[1]]) # {}
    <3>1. g[a[1]] \in Nat /\ g[a[1]] \in Version
      BY <2>3, <2>5
    <3>2. g[a[1]] >= g[a[1]]
      BY <3>1
    <3>3. g[a[1]] \in Finalised(a[2], g[a[1]])
      BY <2>5, <3>1, <3>2 DEF Finalised
    <3> QED BY <3>3
  <2>7. Declared([Nothing EXCEPT ![a[1]] = Finalised(a[2], g[a[1]])]) = {a[1]}
    BY <2>3, <2>6 DEF Declared, Nothing
  <2>8. job'.graph = g /\ job'.roots = [Nothing EXCEPT ![a[1]] = Finalised(a[2], g[a[1]])]
    BY <2>2 DEF NoJob
  <2>9. Rooted(job'.graph, job'.roots)
    <3> HIDE DEF asked
    <3> QED BY <2>4, <2>5, <2>7, <2>8, RootedMonotone
  <2> QED BY <1>1, <2>9 DEF ResolvedInv
<1>4. CASE PlanUpdate \/ PlanRemove \/ PlanReinstall
  <2>1. job'.cmd \notin {"sync", "add"}
    BY <1>4 DEF PlanUpdate, PlanRemove, PlanReinstall, NoJob
  <2> QED BY <1>1, <2>1 DEF ResolvedInv
<1> QED BY <1>2, <1>3, <1>4 DEF Plan

\* Later steps keep it, and recording an install hands it to the lockfile.
LEMMA StepRooted == ShapeInv /\ ResolvedInv /\ (Step \/ Edit \/ Abort \/ UNCHANGED vars) => ResolvedInv'
<1> SUFFICES ASSUME ShapeInv, ResolvedInv, Step \/ Edit \/ Abort \/ UNCHANGED vars
             PROVE  ResolvedInv'
  OBVIOUS
<1>1. job \in Job /\ NoJob.cmd = "none" /\ lock \in [packages : Graph, roots : Require]
  BY DEF ShapeInv, TypeOK, Job, NoJob
<1>2. CASE Approve \/ Reset \/ Fill \/ RunHook
  <2>1. UNCHANGED <<lock, scoped>>
    BY <1>2 DEF Approve, Reset, Fill, RunHook
  <2>2. \/ job' = NoJob
        \/ job'.cmd = job.cmd /\ job'.graph = job.graph /\ job'.roots = job.roots
    BY <1>1, <1>2 DEF Approve, Reset, Fill, RunHook, Job
  <2> QED BY <1>1, <2>1, <2>2 DEF ResolvedInv
<1>3. CASE \/ Supersede \/ Placed \/ Prune \/ RemoveSlot \/ Undeclare \/ WriteBoot
           \/ Edit \/ Abort \/ UNCHANGED vars
  <2>1. UNCHANGED <<lock, scoped>> /\ job' \in {job, NoJob}
    BY <1>3 DEF Supersede, Placed, Prune, RemoveSlot, Undeclare, WriteBoot, Edit, Abort, vars
  <2> QED BY <1>1, <2>1 DEF ResolvedInv
<1>4. CASE WriteLock
  <2>1. job' = NoJob
    BY <1>4 DEF WriteLock
  <2>2. ~scoped' => Rooted(lock'.packages, lock'.roots)
    <3>1. CASE RecordInstall
      <4>1. lock'.packages = job.graph /\ lock'.roots = Merged(lock.roots, job.roots)
        BY <3>1 DEF RecordInstall
      <4>2. Rooted(job.graph, job.roots)
        BY <3>1 DEF RecordInstall, ResolvedInv
      <4>3. Declared(job.roots) \subseteq Declared(lock'.roots)
        BY <4>1, DeclaredMerged
      <4> QED BY <4>1, <4>2, <4>3, RootedMonotone
    <3>2. CASE RecordUpdate \/ RecordRemove
      BY <3>2 DEF RecordUpdate, RecordRemove
    <3> QED BY <1>4, <3>1, <3>2 DEF WriteLock
  <2> QED BY <1>1, <2>1, <2>2 DEF ResolvedInv
<1> QED BY <1>2, <1>3, <1>4 DEF Step

\* An empty tree is rooted in no roots.
LEMMA EmptyRooted == Rooted(Empty, Nothing)
<1>1. Empty \in Graph /\ In(Empty) = {}
  BY EmptyTypes DEF In, Empty
<1>2. \A roots : LedTo(Registry, roots, Empty) = In(Empty)
  BY <1>1 DEF LedTo
<1>3. Empty \in Choices(Registry, Declared(Nothing))
  BY <1>1, <1>2 DEF Choices, Closed
<1>4. Answer(Registry, Empty) = Empty
  BY DEF Answer, Empty
<1> QED BY <1>1, <1>3, <1>4 DEF Rooted, PutTogether

\* Whatever was edited or cut short in between: a lock that only installs have written,
\* and that the check finds fresh, is one that planning for the manifest could have
\* come to, although the check does not look at transitive packages.
THEOREM FreshLockIsResolved == Spec => []FreshIsResolved
<1>1. Init => ResolvedInv
  BY EmptyRooted DEF Init, ResolvedInv, NoJob
<1>2. ShapeInv /\ ResolvedInv /\ [Next]_vars => ResolvedInv'
  BY PlanRooted, StepRooted DEF Next
<1>3. ShapeInv /\ ResolvedInv => FreshIsResolved
  <2> SUFFICES ASSUME ShapeInv, ResolvedInv, ~scoped, Fresh(requires)
               PROVE  lock.packages \in PlansFor[requires]
    BY DEF FreshIsResolved, Resolved
  <2> DEFINE g == lock.packages
             names == Declared(requires)
  <2>1. g \in Graph /\ requires \in Require /\ Rooted(g, lock.roots)
    BY DEF ShapeInv, TypeOK, ResolvedInv
  <2>2. Meets(g, requires) /\ names = Declared(lock.roots)
    BY DEF Fresh
  <2>3. \A p \in names : p \in Pkg /\ g[p] \in requires[p] /\ g[p] \in Version /\ g[p] # None
    <3>1. \A p \in names : p \in Pkg /\ g[p] \in requires[p]
      BY <2>2 DEF Meets, Declared
    <3>2. \A p \in Pkg : requires[p] \subseteq Version
      BY <2>1 DEF Require
    <3> QED BY <3>1, <3>2, Facts
  <2>4. names \subseteq In(g)
    BY <2>3 DEF In
  <2>5. PutTogether(Registry, names \cup Late(Registry), g)
    BY <2>1, <2>2 DEF Rooted
  <2>6. ASSUME Unconditional(Registry, g)
        PROVE  \E c \in Choices(Registry, names) : Meets(c, requires) /\ g = Answer(Registry, c)
    <3>1. PICK c \in Choices(Registry, names) : g = Answer(Registry, c)
      BY <2>1, <2>2, <2>6 DEF Rooted
    <3>2. \A p \in Pkg : g[p] # None => c[p] = g[p]
      BY <3>1 DEF Answer
    <3>3. Meets(c, requires)
      BY <2>3, <3>2 DEF Meets
    <3> QED BY <3>1, <3>3
  <2>7. g \in Plans(Registry, requires)
    <3> HIDE DEF g
    <3> QED BY <2>1, <2>3, <2>4, <2>5, <2>6 DEF Plans
  <2> QED BY <2>1, <2>7 DEF PlansFor
<1> QED BY <1>1, <1>2, <1>3, ShapeCorrect, PTL DEF Spec

------------------------------------------------------------------------------
\* The boot index

BootIs(g) == boot = {<<p, g[p]>> : p \in Reach(bootFor, g)}

NoneTorn == \A s \in Slot : slots[s] # "torn"

\* From the writing of the boot index on it fits what the lockfile names or will name.
BootInv ==
    /\ pc = "record" /\ job.cmd \in {"sync", "add"} => BootIs(job.graph)
    /\ ~cut /\ NoneTorn =>
        /\ pc \in {"idle", "confirm"} => BootIs(lock.packages)
        /\ pc = "record" /\ job.cmd = "update" => BootIs(Updated)
        /\ pc = "record" /\ job.cmd = "remove" => BootIs(Rest)

\* Reading a tree without torn slots gives the resolution whose tree it is.
LEMMA FoundIsTree ==
    ASSUME TypeOK, NoneTorn, NEW g \in Graph, TreeIs(g), NEW h \in Found
    PROVE  h = g
<1>1. Present = Pairs(g) /\ h \in Graph
  BY TreeIsPairs, FoundType
<1>2. Pairs(h) \subseteq Pairs(g)
  BY <1>1 DEF Found
<1>3. \A s \in Pairs(g) : h[s[1]] # None
  BY <1>1 DEF Found, NoneTorn, Present
<1>4. ASSUME NEW p \in Pkg, g[p] # None PROVE h[p] # None
  <2>1. <<p, g[p]>> \in Pairs(g)
    BY <1>4 DEF Pairs, In
  <2>2. h[<<p, g[p]>>[1]] # None
    BY <1>3, <2>1
  <2> QED BY <2>2
<1>5. \A p \in Pkg : h[p] # None => <<p, h[p]>> \in Pairs(g)
  BY <1>2 DEF Pairs, In
<1>6. \A p \in Pkg : h[p] # None => h[p] = g[p]
  BY <1>5 DEF Pairs
<1>7. \A p \in Pkg : h[p] = g[p]
  BY <1>4, <1>6
<1> QED BY <1>1, <1>7 DEF Graph

\* Only roots that are in the resolution matter.
LEMMA ReachSame ==
    \A Q, R, g : Q \cap In(g) = R \cap In(g) => Reach(Q, g) = Reach(R, g)
BY DEF Reach, LedTo

\* What is written is the boot index of the tree as it is, or of the resolution that
\* the tree was just made to match.
LEMMA WriteBootBoot == ShapeInv /\ TreeInv /\ BootInv /\ WriteBoot => BootInv'
<1> SUFFICES ASSUME ShapeInv, TreeInv, BootInv, WriteBoot PROVE BootInv'
  OBVIOUS
<1>1. /\ TypeOK /\ PhaseInv /\ lock.packages \in Graph /\ job.graph \in Graph
      /\ pc = "boot" /\ UNCHANGED <<slots, lock>> /\ NoJob.cmd = "none"
  BY DEF WriteBoot, ShapeInv, TypeOK, NoJob
<1>2. PICK g \in Resolution :
         boot' = {<<p, g[p]>> : p \in Reach(Declared(Base), g)}
  BY DEF WriteBoot
<1>3. NoneTorn' <=> NoneTorn
  BY <1>1 DEF NoneTorn
<1>4. CASE job.cmd \in {"sync", "add"}
  <2>1. bootFor' = Declared(Base) /\ g = job.graph
    BY <1>2, <1>4 DEF WriteBoot, Resolution
  <2>2. pc' = "record" /\ job' = job
    BY <1>4 DEF WriteBoot
  <2>3. BootIs(job.graph)'
    BY <1>2, <2>1, <2>2 DEF BootIs
  <2> QED BY <1>4, <2>2, <2>3 DEF BootInv
<1>5. CASE job.cmd = "force"
  <2>1. bootFor' = Declared(Base) /\ g = job.graph /\ job.graph = lock.packages
    BY <1>1, <1>2, <1>5 DEF WriteBoot, PhaseInv, Resolution
  <2>2. pc' = "idle"
    BY <1>5 DEF WriteBoot
  <2>3. BootIs(lock.packages)'
    BY <1>1, <1>2, <2>1 DEF BootIs
  <2> QED BY <2>2, <2>3 DEF BootInv
<1>6. CASE job.cmd \in {"fresh", "reinstall"}
  <2>1. bootFor' = Declared(Base) /\ g \in Found
    BY <1>2, <1>6 DEF WriteBoot, Resolution
  <2>2. pc' = "idle" /\ (~cut' => ~cut)
    BY <1>6 DEF WriteBoot
  <2>3. ~cut => TreeIs(lock.packages)
    BY <1>1, <1>6 DEF TreeInv, Settled
  <2>4. ~cut /\ NoneTorn => g = lock.packages
    BY <1>1, <2>1, <2>3, FoundIsTree
  <2>5. ~cut' /\ NoneTorn' => BootIs(lock.packages)'
    BY <1>1, <1>2, <1>3, <2>1, <2>2, <2>4 DEF BootIs
  <2> QED BY <2>2, <2>5 DEF BootInv
<1>7. CASE job.cmd = "update"
  <2>1. bootFor' = Declared(Base) /\ g \in Found
    BY <1>2, <1>7 DEF WriteBoot, Resolution
  <2>2. pc' = "record" /\ job' = job /\ cut' = cut
    BY <1>7 DEF WriteBoot
  <2>3. Updated \in Graph /\ Updated' = Updated
    BY <1>1, <2>2 DEF Updated, Graph
  <2>4. ~cut => TreeIs(Updated)
    BY <1>1, <1>7 DEF TreeInv, UpdateInv
  <2>5. ~cut /\ NoneTorn => g = Updated
    BY <1>1, <2>1, <2>3, <2>4, FoundIsTree
  <2>6. ~cut' /\ NoneTorn' => BootIs(Updated)'
    BY <1>2, <1>3, <2>1, <2>2, <2>3, <2>5 DEF BootIs
  <2> QED BY <1>7, <2>2, <2>6 DEF BootInv
<1>8. CASE job.cmd = "remove"
  <2>1. bootFor' = Declared(Base) \ {job.pkg} /\ g \in Found
    BY <1>2, <1>8 DEF WriteBoot, Resolution
  <2>2. pc' = "record" /\ job' = job /\ cut' = cut
    BY <1>8 DEF WriteBoot
  <2>3. Rest \in Graph /\ Rest' = Rest /\ job.pkg \notin In(Rest)
    BY <1>1, <2>2 DEF Rest, Graph, In
  <2>4. ~cut => TreeIs(Rest)
    BY <1>1, <1>8 DEF TreeInv, RemoveInv
  <2>5. ~cut /\ NoneTorn => g = Rest
    BY <1>1, <2>1, <2>3, <2>4, FoundIsTree
  <2>6. Reach(Declared(Base) \ {job.pkg}, Rest) = Reach(Declared(Base), Rest)
    BY <2>3, ReachSame
  <2>7. ~cut' /\ NoneTorn' => BootIs(Rest)'
    BY <1>2, <1>3, <2>1, <2>2, <2>3, <2>5, <2>6 DEF BootIs
  <2> QED BY <1>8, <2>2, <2>7 DEF BootInv
<1>9. job.cmd \in {"fresh", "reinstall", "sync", "add", "force", "update", "remove"}
  BY <1>1, Facts DEF TypeOK, PhaseInv
<1> QED BY <1>4, <1>5, <1>6, <1>7, <1>8, <1>9

\* The lockfile that is written is the one the boot index was made for.
LEMMA WriteLockBoot == ShapeInv /\ BootInv /\ WriteLock => BootInv'
<1> SUFFICES ASSUME ShapeInv, BootInv, WriteLock PROVE BootInv'
  OBVIOUS
<1>1. /\ pc = "record" /\ pc' = "idle" /\ UNCHANGED <<slots, boot, bootFor>>
      /\ lock \in [packages : Graph, roots : Require]
  BY DEF WriteLock, ShapeInv, TypeOK
<1>2. NoneTorn' <=> NoneTorn
  BY <1>1 DEF NoneTorn
<1>3. CASE RecordInstall
  <2>1. lock'.packages = job.graph /\ BootIs(job.graph)
    BY <1>1, <1>3 DEF RecordInstall, BootInv
  <2> QED BY <1>1, <2>1 DEF BootInv, BootIs
<1>4. CASE RecordUpdate
  <2>1. lock'.packages = Updated /\ cut' = cut /\ job.cmd = "update"
    BY <1>1, <1>4 DEF RecordUpdate, Updated
  <2> QED BY <1>1, <1>2, <2>1 DEF BootInv, BootIs
<1>5. CASE RecordRemove
  <2>1. lock'.packages = Rest /\ cut' = cut /\ job.cmd = "remove"
    BY <1>1, <1>5 DEF RecordRemove, Rest
  <2> QED BY <1>1, <1>2, <2>1 DEF BootInv, BootIs
<1> QED BY <1>3, <1>4, <1>5 DEF WriteLock

\* No other step ends a command that changed anything, unless it is cut short.
LEMMA OthersBoot ==
    ShapeInv /\ BootInv /\ (Plan \/ (Step /\ ~WriteBoot /\ ~WriteLock) \/ Edit \/ Abort \/ UNCHANGED vars)
        => BootInv'
<1> SUFFICES ASSUME ShapeInv, BootInv,
                    Plan \/ (Step /\ ~WriteBoot /\ ~WriteLock) \/ Edit \/ Abort \/ UNCHANGED vars
             PROVE  BootInv'
  OBVIOUS
<1>1. CASE Plan
  <2>1. pc = "idle" /\ UNCHANGED <<slots, lock, boot, bootFor, cut>> /\ pc' \in {"idle", "confirm", "boot"}
    BY <1>1 DEF Plan, PlanSync, PlanAdd, PlanUpdate, PlanRemove, PlanReinstall, Starts
  <2> QED BY <2>1 DEF BootInv, BootIs, NoneTorn
<1>2. CASE Step /\ ~WriteBoot /\ ~WriteLock
  <2>1. CASE RunHook
    BY <2>1 DEF RunHook, BootInv
  <2>2. CASE Approve \/ Supersede \/ Reset \/ Fill \/ Placed \/ Prune \/ RemoveSlot \/ Undeclare
    <3>1. pc' \notin {"idle", "confirm", "record"}
      BY <2>2, Facts
         DEF Approve, Supersede, Reset, Fill, Placed, Prune, RemoveSlot, Undeclare, ShapeInv, PhaseInv
    <3> QED BY <3>1 DEF BootInv
  <2> QED BY <1>2, <2>1, <2>2 DEF Step
<1>3. CASE Edit
  BY <1>3 DEF Edit, BootInv, BootIs, NoneTorn
<1>4. CASE Abort
  <2>1. pc' = "idle" /\ UNCHANGED <<lock, boot, bootFor>>
    BY <1>4 DEF Abort
  <2>2. ~cut' => ~cut /\ pc = "confirm" /\ slots' = slots
    BY <1>4 DEF Abort, Removing
  <2> QED BY <2>1, <2>2 DEF BootInv, BootIs, NoneTorn
<1>5. CASE UNCHANGED vars
  <2>1. UNCHANGED <<pc, job, cut, slots, lock, boot, bootFor>>
    BY <1>5 DEF vars
  <2>2. Updated' = Updated /\ Rest' = Rest /\ (NoneTorn' <=> NoneTorn)
    BY <2>1 DEF Updated, Rest, NoneTorn
  <2> QED BY <2>1, <2>2 DEF BootInv, BootIs
<1> QED BY <1>1, <1>2, <1>3, <1>4, <1>5

\* For any packages, dependencies and order of commands, edits, failures and kills: the
\* boot index names what the declared packages lead to in the lockfile, unless a command
\* was cut short and not repaired, or a torn slot is in the tree.
THEOREM BootIsLocked == Spec => []BootMatchesLock
<1>1. Init => BootInv
  <2>1. In(Empty) = {} /\ Reach(bootFor, Empty) = {}
    BY ReachType DEF In, Empty
  <2> QED BY <2>1 DEF Init, BootInv, BootIs
<1>2. ShapeInv /\ TreeInv /\ BootInv /\ [Next]_vars => BootInv'
  BY WriteBootBoot, WriteLockBoot, OthersBoot DEF Next
<1>3. BootInv => BootMatchesLock
  BY DEF BootInv, BootIs, NoneTorn, BootMatchesLock
<1> QED BY <1>1, <1>2, <1>3, TreeCorrect, PTL DEF Spec

===============================================================================
