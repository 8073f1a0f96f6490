--------------------------- MODULE VvmStore_proofs ---------------------------
(* Proofs about VvmStore for every number of processes, version ids, builds and  *)
(* instance numbers, every choice of commands and every combination of failures. *)
EXTENDS MCVvmStore, TLAPS

LEMMA NoJobType == NoJob \in Job
<1>1. (CHOOSE i \in Id : TRUE) \in Id
  BY ConstantsAssumption
<1>2. NoInventory \in Inventory
  BY ConstantsAssumption DEF NoInventory, Inventory
<1> QED BY <1>1, <1>2 DEF NoJob, Job, Phase, DirState

\* A process that remembers a job and moves to a phase leaves both functions well typed.
LEMMA MoveType ==
    ASSUME pc \in [Process -> Phase], job \in [Process -> Job], NEW p \in Process,
           NEW phase \in Phase, NEW r \in Job
    PROVE  /\ Goto(p, phase) => pc' \in [Process -> Phase]
           /\ Remember(p, r) => job' \in [Process -> Job]
BY DEF Goto, Remember

LEMMA InventoryType ==
    ASSUME inventory \in Inventory
    PROVE  /\ \A n \in 0 .. MaxNumber + 1 : [inventory EXCEPT !.next = n] \in Inventory
           /\ \A s \in SUBSET Instance : [inventory EXCEPT !.installs = s] \in Inventory
           /\ inventory.installs \subseteq Instance /\ inventory.next \in 0 .. MaxNumber + 1
BY DEF Inventory

\* The updates of a job the commands make.
LEMMA JobType ==
    ASSUME NEW j \in Job
    PROVE  /\ j.id \in Id /\ j.content \in DirState /\ j.target \in Instance \cup {None}
           /\ j.save \in Inventory /\ j.then \in Phase
           /\ j.ids \subseteq Id /\ j.queue \subseteq Instance /\ j.victims \subseteq Instance
           /\ \A b \in DirState : [j EXCEPT !.content = b] \in Job
           /\ \A b \in DirState, i \in Instance : [j EXCEPT !.content = b, !.target = i] \in Job
           /\ \A inv \in Inventory, t \in Phase : [j EXCEPT !.save = inv, !.then = t] \in Job
           /\ \A inv \in Inventory, t \in Phase, i \in Instance :
                [j EXCEPT !.target = i, !.save = inv, !.then = t] \in Job
           /\ \A s \in SUBSET Id, q \in SUBSET Instance, v \in SUBSET Instance :
                [j EXCEPT !.ids = s, !.queue = q, !.victims = v] \in Job
           /\ \A q \in SUBSET Instance, v \in SUBSET Instance :
                [j EXCEPT !.queue = q, !.victims = v] \in Job
BY DEF Job

LEMMA PhaseType ==
    {"idle", "build", "alloc", "write", "swap", "stage", "clear", "publish", "record", "flip",
     "flipSwap", "nextId", "sweep", "forget", "done"} \subseteq Phase
BY DEF Phase

------------------------------------------------------------------------------
\* An install that holds a number, and any command about to repoint `current`,
\* knows its instance. TypeOK alone is not inductive: a step that publishes or
\* records its target needs this.
TargetPhase == {"stage", "clear", "publish", "record", "flip"}

HasTarget(p) ==
    \/ pc[p] \in TargetPhase
    \/ pc[p] \in {"write", "swap"} /\ job[p].then \in TargetPhase

TypeInv == TypeOK /\ \A p \in Process : HasTarget(p) => job[p].target \in Instance

\* Each step of a command keeps the shape of the state.
LEMMA StepType == ASSUME TypeInv, NEW p \in Process, Step(p) PROVE TypeOK'
<1> USE DEF TypeInv
<1>0. job[p] \in Job
  BY DEF TypeOK
<1>1. CASE WriteTmp(p)
  BY <1>0, <1>1, JobType, PhaseType, MoveType DEF WriteTmp, TypeOK
<1>2. CASE SwapTmp(p)
  BY <1>0, <1>2, JobType, PhaseType, MoveType DEF SwapTmp, TypeOK
<1>3. CASE FlipWrite(p)
  BY <1>0, <1>3, JobType, PhaseType, MoveType DEF FlipWrite, TypeOK
<1>4. CASE FlipSwap(p)
  BY <1>0, <1>4, JobType, PhaseType, MoveType DEF FlipSwap, TypeOK
<1>5. CASE BuildAndCompare(p)
  <2>1. RecordedOf(job[p].id) \subseteq Instance
    BY InventoryType DEF RecordedOf, TypeOK
  <2> QED BY <1>0, <1>5, <2>1, JobType, PhaseType, MoveType DEF BuildAndCompare, files, TypeOK, DirState
<1>6. CASE Alloc(p)
  <2>1. NextNumber \in 1 .. MaxNumber /\ NextNumber + 1 \in 0 .. MaxNumber + 1
    BY <1>6, InventoryType, ConstantsAssumption DEF Alloc, NextNumber, TypeOK
  <2>2. <<job[p].id, NextNumber>> \in Instance
    BY <1>0, <2>1, JobType DEF Instance
  <2> QED BY <1>0, <1>6, <2>1, <2>2, InventoryType, JobType, PhaseType, MoveType DEF Alloc, files, TypeOK
<1>7. CASE Stage(p)
  BY <1>0, <1>7, JobType, PhaseType, MoveType DEF Stage, TypeOK, DirState
<1>8. CASE ClearTarget(p)
  BY <1>0, <1>8, JobType, PhaseType, MoveType DEF ClearTarget, TypeOK, DirState
<1>9. CASE Publish(p)
  <2>1. job[p].target \in Instance /\ job[p].id \in Id
    BY <1>0, <1>9, JobType DEF Publish, HasTarget, TargetPhase
  <2>2. dirs' \in [Instance -> DirState] /\ staging' \in [Id -> DirState]
    BY <1>9, <2>1 DEF Publish, TypeOK, DirState
  <2>3. published' \subseteq Instance
    BY <1>9, <2>1 DEF Publish, TypeOK
  <2>4. pc' \in [Process -> Phase] /\ UNCHANGED <<lock, inventory, inventoryTmp, current, currentTmp, job>>
    BY <1>9, PhaseType, MoveType DEF Publish, TypeOK
  <2> QED BY <2>2, <2>3, <2>4 DEF TypeOK
<1>10. CASE Record(p)
  <2>1. inventory.installs \cup {job[p].target} \in SUBSET Instance
    BY <1>10, InventoryType DEF Record, HasTarget, TargetPhase, TypeOK
  <2> QED BY <1>0, <1>10, <2>1, InventoryType, JobType, PhaseType, MoveType DEF Record, files, TypeOK
<1>11. CASE NextId(p)
  <2>1. \A id \in Id : RecordedOf(id) \in SUBSET Instance /\ {i \in Instance : i[1] = id} \in SUBSET Instance
    BY InventoryType DEF RecordedOf, TypeOK
  <2> QED BY <1>0, <1>11, <2>1, JobType, PhaseType, MoveType DEF NextId, files, TypeOK
<1>12. CASE Sweep(p)
  <2>1. CASE job[p].queue = {} /\ UNCHANGED <<dirs, job>>
    BY <1>12, <2>1, PhaseType, MoveType DEF Sweep, TypeOK
  <2>2. CASE \E i \in job[p].queue :
               Remember(p, [job[p] EXCEPT !.queue = @ \ {i},
                                          !.victims = IF job[p].cmd = "prune" THEN {i} ELSE @])
    <3>1. PICK i \in job[p].queue :
               Remember(p, [job[p] EXCEPT !.queue = @ \ {i},
                                          !.victims = IF job[p].cmd = "prune" THEN {i} ELSE @])
      BY <2>2
    <3> DEFINE v == IF job[p].cmd = "prune" THEN {i} ELSE job[p].victims
    <3>2. job[p].queue \ {i} \in SUBSET Instance /\ v \in SUBSET Instance
      BY <1>0, JobType
    <3>3. job' \in [Process -> Job]
      <4>1. [job[p] EXCEPT !.queue = @ \ {i}, !.victims = v] \in Job
        BY <1>0, <3>2, JobType
      <4> QED BY <3>1, <4>1, MoveType DEF TypeOK
    <3>4. pc' \in [Process -> Phase]
      BY <1>12, PhaseType, MoveType DEF Sweep, TypeOK
    <3>5. dirs' \in [Instance -> DirState]
      BY <1>0, <1>12, JobType DEF Sweep, TypeOK, DirState
    <3> QED BY <1>12, <3>3, <3>4, <3>5 DEF Sweep, TypeOK
  <2> QED BY <1>12, <2>1, <2>2 DEF Sweep
<1>13. CASE Forget(p)
  BY <1>0, <1>13, InventoryType, JobType, PhaseType, MoveType DEF Forget, files, TypeOK
<1>14. CASE Finish(p)
  BY <1>14, NoJobType, PhaseType, MoveType DEF Finish, TypeOK
<1> QED BY <1>1, <1>2, <1>3, <1>4, <1>5, <1>6, <1>7, <1>8, <1>9, <1>10, <1>11, <1>12, <1>13, <1>14 DEF Step

LEMMA StartType == ASSUME TypeInv, NEW p \in Process, Start(p) PROVE TypeOK'
<1> USE DEF TypeInv
<1>0. /\ NoJob \in Job
      /\ inventory.installs \subseteq Instance
      /\ \A id : RecordedOf(id) \subseteq inventory.installs
  BY NoJobType, InventoryType DEF TypeOK, RecordedOf
<1>1. CASE StartInstall(p)
  <2>1. PICK id \in Id, force \in BOOLEAN :
             Remember(p, [NoJob EXCEPT !.cmd = "install", !.id = id, !.force = force])
    BY <1>1 DEF StartInstall
  <2>2. [NoJob EXCEPT !.cmd = "install", !.id = id, !.force = force] \in Job
    BY <1>0, <1>1 DEF StartInstall, Job
  <2> QED BY <1>1, <2>1, <2>2, PhaseType, MoveType DEF StartInstall, TypeOK
<1>2. CASE StartUse(p)
  <2>1. PICK i \in Instance : Remember(p, [NoJob EXCEPT !.cmd = "use", !.target = i])
    BY <1>0, <1>2 DEF StartUse, Selected
  <2>2. [NoJob EXCEPT !.cmd = "use", !.target = i] \in Job
    BY <1>0, <1>2 DEF StartUse, Job
  <2> QED BY <1>2, <2>1, <2>2, PhaseType, MoveType DEF StartUse, files, TypeOK
<1>3. CASE StartRemove(p)
  <2>1. PICK ids \in SUBSET {i[1] : i \in inventory.installs} :
             Remember(p, [NoJob EXCEPT !.cmd = "remove", !.ids = ids])
    BY <1>3 DEF StartRemove
  <2>2. ids \in SUBSET Id
    BY <1>0 DEF Instance
  <2>3. [NoJob EXCEPT !.cmd = "remove", !.ids = ids] \in Job
    BY <1>0, <1>3, <2>2 DEF StartRemove, Job
  <2> QED BY <1>3, <2>1, <2>3, PhaseType, MoveType DEF StartRemove, files, TypeOK
<1>4. CASE StartPrune(p)
  <2>1. [NoJob EXCEPT !.cmd = "prune", !.queue = inventory.installs \ Active] \in Job
    BY <1>0, <1>4 DEF StartPrune, Job
  <2> QED BY <1>4, <2>1, PhaseType, MoveType DEF StartPrune, files, TypeOK
<1> QED BY <1>1, <1>2, <1>3, <1>4 DEF Start

------------------------------------------------------------------------------
\* A process changes its own program counter and memory only.

LEMMA OthersKeep ==
    ASSUME TypeOK, NEW p \in Process, Start(p) \/ Step(p) \/ Crash(p),
           NEW q \in Process, q # p
    PROVE  pc'[q] = pc[q] /\ job'[q] = job[q]
<1> USE DEF TypeOK, Goto, Remember
<1>1. CASE Start(p)
  BY <1>1 DEF Start, StartInstall, StartUse, StartRemove, StartPrune
<1>2. CASE WriteTmp(p) \/ SwapTmp(p) \/ FlipWrite(p) \/ FlipSwap(p)
  BY <1>2 DEF WriteTmp, SwapTmp, FlipWrite, FlipSwap
<1>3. CASE BuildAndCompare(p) \/ Alloc(p) \/ Record(p) \/ NextId(p) \/ Forget(p)
  BY <1>3 DEF BuildAndCompare, Alloc, Record, NextId, Forget
<1>4. CASE Stage(p) \/ ClearTarget(p) \/ Publish(p)
  BY <1>4 DEF Stage, ClearTarget, Publish
<1>5. CASE Sweep(p) \/ Finish(p) \/ Crash(p)
  BY <1>5 DEF Sweep, Finish, Crash
<1> QED BY <1>1, <1>2, <1>3, <1>4, <1>5 DEF Step

\* A process that has its target after its own step has a proper one.
LEMMA TargetStep ==
    ASSUME TypeInv, NEW p \in Process, Start(p) \/ Step(p) \/ Crash(p), HasTarget(p)'
    PROVE  job'[p].target \in Instance
<1> USE DEF TypeInv
<1>0. /\ job \in [Process -> Job] /\ pc \in [Process -> Phase]
      /\ job[p] \in Job /\ DOMAIN job[p] = DOMAIN NoJob
      /\ inventory.installs \subseteq Instance
      /\ \A id : RecordedOf(id) \subseteq inventory.installs
  BY InventoryType DEF TypeOK, RecordedOf, Job, NoJob
<1>1. CASE StartInstall(p) \/ StartRemove(p) \/ StartPrune(p)
  BY <1>0, <1>1 DEF StartInstall, StartRemove, StartPrune, HasTarget, TargetPhase, Goto
<1>2. CASE StartUse(p)
  <2>1. PICK i \in Instance : Remember(p, [NoJob EXCEPT !.cmd = "use", !.target = i])
    BY <1>0, <1>2 DEF StartUse, Selected
  <2>2. [NoJob EXCEPT !.cmd = "use", !.target = i].target = i
    BY DEF NoJob
  <2> QED BY <1>0, <2>1, <2>2 DEF Remember
<1>3. CASE WriteTmp(p) \/ SwapTmp(p)
  BY <1>0, <1>3 DEF WriteTmp, SwapTmp, HasTarget, TargetPhase, Goto
<1>4. CASE FlipWrite(p) \/ FlipSwap(p)
  BY <1>0, <1>4 DEF FlipWrite, FlipSwap, HasTarget, TargetPhase, Goto
<1>5. CASE BuildAndCompare(p)
  <2>1. CASE pc'[p] \in {"alloc", "done"}
    BY <2>1 DEF HasTarget, TargetPhase
  <2>2. CASE \E b \in Build, i \in Instance : Remember(p, [job[p] EXCEPT !.content = b, !.target = i])
    BY <1>0, <2>2 DEF Remember, Job
  <2> QED BY <1>0, <1>5, <2>1, <2>2 DEF BuildAndCompare, Goto
<1>6. CASE Alloc(p)
  <2>1. NextNumber \in 1 .. MaxNumber
    BY <1>6, InventoryType, ConstantsAssumption DEF Alloc, NextNumber, TypeOK
  <2>2. <<job[p].id, NextNumber>> \in Instance
    BY <1>0, <2>1, JobType DEF Instance
  <2> QED BY <1>0, <1>6, <2>2 DEF Alloc, Remember, Job
<1>7. CASE Stage(p) \/ ClearTarget(p) \/ Publish(p)
  BY <1>0, <1>7 DEF Stage, ClearTarget, Publish, HasTarget, TargetPhase, Goto
<1>8. CASE Record(p)
  BY <1>0, <1>8 DEF Record, HasTarget, TargetPhase, Goto, Remember, Job
<1>9. CASE NextId(p) \/ Sweep(p)
  BY <1>0, <1>9 DEF NextId, Sweep, HasTarget, TargetPhase, Goto
<1>10. CASE Forget(p)
  <2>1. job'[p].then \in {"sweep", "nextId"} \/ pc'[p] \in {"sweep", "nextId"}
    <3> DEFINE kept == inventory.installs \ job[p].victims
               back == IF job[p].cmd = "prune" THEN "sweep" ELSE "nextId"
    <3>1. CASE Goto(p, back)
      BY <1>0, <3>1 DEF Goto
    <3>2. CASE Remember(p, [job[p] EXCEPT !.save = [inventory EXCEPT !.installs = kept],
                                          !.then = back])
      <4> HIDE DEF kept
      <4> QED BY <1>0, <3>2 DEF Remember, Job
    <3> QED BY <1>10, <3>1, <3>2 DEF Forget
  <2>2. pc'[p] \in {"write", "sweep", "nextId"}
    BY <1>0, <1>10 DEF Forget, Goto
  <2> QED BY <2>1, <2>2 DEF HasTarget, TargetPhase
<1>11. CASE Finish(p) \/ Crash(p)
  BY <1>0, <1>11 DEF Finish, Crash, HasTarget, TargetPhase, Goto
<1> QED BY <1>1, <1>2, <1>3, <1>4, <1>5, <1>6, <1>7, <1>8, <1>9, <1>10, <1>11
  DEF Start, Step

\* The inductive invariant behind type correctness.
LEMMA TypeInvariant == Spec => []TypeInv
<1>1. Init => TypeInv
  <2> SUFFICES ASSUME Init PROVE TypeInv
    OBVIOUS
  <2>1. TypeOK
    <3>1. NoInventory \in Inventory
      BY ConstantsAssumption DEF NoInventory, Inventory
    <3> QED BY <3>1, NoJobType, PhaseType DEF Init, TypeOK, DirState
  <2> QED BY <2>1 DEF Init, TypeInv, HasTarget, TargetPhase
<1>2. TypeInv /\ [Next]_vars => TypeInv'
  <2> SUFFICES ASSUME TypeInv, [Next]_vars PROVE TypeInv'
    OBVIOUS
  <2>1. CASE UNCHANGED vars
    BY <2>1 DEF vars, TypeInv, TypeOK, HasTarget
  <2>2. CASE RemoveStaleLock
    BY <2>2 DEF RemoveStaleLock, TypeInv, TypeOK, HasTarget
  <2>3. ASSUME NEW p \in Process, Start(p) \/ Step(p) \/ Crash(p) PROVE TypeInv'
    <3>1. TypeOK'
      <4>1. CASE Crash(p)
        BY <4>1, NoJobType, PhaseType, MoveType DEF Crash, files, TypeInv, TypeOK
      <4> QED BY <2>3, <4>1, StartType, StepType
    <3>2. ASSUME NEW q \in Process, HasTarget(q)' PROVE job'[q].target \in Instance
      <4>1. CASE q = p
        BY <2>3, <3>2, <4>1, TargetStep
      <4>2. CASE q # p
        <5>1. pc'[q] = pc[q] /\ job'[q] = job[q]
          BY <2>3, <4>2, OthersKeep DEF TypeInv
        <5> QED BY <3>2, <5>1 DEF HasTarget, TypeInv
      <4> QED BY <4>1, <4>2
    <3> QED BY <3>1, <3>2 DEF TypeInv
  <2> QED BY <2>1, <2>2, <2>3 DEF Next
<1> QED BY <1>1, <1>2, PTL DEF Spec

\* The files and every process's memory keep their shape, for every behaviour of
\* the version store: whatever is read back from disk has the form it was
\* written in (store.rs load_state, read_current).
THEOREM TypeCorrect == Spec => []TypeOK
<1>1. TypeInv => TypeOK
  BY DEF TypeInv
<1> QED BY <1>1, TypeInvariant, PTL

------------------------------------------------------------------------------
\* Mutual exclusion of installs.

\* Remembering something does not change the command a process runs.
LEMMA SameCommand ==
    ASSUME NEW j \in Job
    PROVE  /\ \A b : [j EXCEPT !.content = b].cmd = j.cmd
           /\ \A b, i : [j EXCEPT !.content = b, !.target = i].cmd = j.cmd
           /\ \A inv, t : [j EXCEPT !.save = inv, !.then = t].cmd = j.cmd
           /\ \A i, inv, t : [j EXCEPT !.target = i, !.save = inv, !.then = t].cmd = j.cmd
           /\ \A s, q, v : [j EXCEPT !.ids = s, !.queue = q, !.victims = v].cmd = j.cmd
           /\ \A q, v : [j EXCEPT !.queue = q, !.victims = v].cmd = j.cmd
BY DEF Job

\* A process becomes critical by starting an install and in no other way, and
\* the lock file goes away only at the end of an install or as a stale one.
LEMMA CriticalStep ==
    ASSUME TypeOK, NEW p \in Process, Start(p) \/ Step(p) \/ Crash(p)
    PROVE  \/ Critical(p)' /\ ~lock /\ lock'
           \/ Critical(p)' = Critical(p) /\ lock' = lock
           \/ ~Critical(p)' /\ (~Critical(p) => lock' = lock)
<1>0. job \in [Process -> Job] /\ job[p] \in Job
  BY DEF TypeOK
<1> USE DEF Critical
<1>1. CASE StartInstall(p)
  BY <1>0, <1>1 DEF StartInstall, Remember, NoJob
<1>2. CASE StartUse(p) \/ StartRemove(p) \/ StartPrune(p)
  <2>1. lock' = lock
    BY <1>2 DEF StartUse, StartRemove, StartPrune, files
  <2>2. CASE StartUse(p)
    BY <1>0, <2>1, <2>2 DEF StartUse, Remember, NoJob
  <2>3. CASE StartRemove(p)
    BY <1>0, <2>1, <2>3 DEF StartRemove, Remember, NoJob
  <2>4. CASE StartPrune(p)
    BY <1>0, <2>1, <2>4 DEF StartPrune, Remember, NoJob
  <2> QED BY <1>2, <2>2, <2>3, <2>4
<1>3. CASE \/ WriteTmp(p) \/ SwapTmp(p) \/ FlipWrite(p) \/ FlipSwap(p)
           \/ Stage(p) \/ ClearTarget(p) \/ Publish(p)
  BY <1>0, <1>3 DEF WriteTmp, SwapTmp, FlipWrite, FlipSwap, Stage, ClearTarget, Publish
<1>4. CASE BuildAndCompare(p) \/ Alloc(p) \/ Record(p)
  <2>1. lock' = lock
    BY <1>4 DEF BuildAndCompare, Alloc, Record, files
  <2>2. job'[p].cmd = job[p].cmd
    <3>1. CASE BuildAndCompare(p)
      <4>1. \/ job' = job
            \/ \E b \in Build : Remember(p, [job[p] EXCEPT !.content = b])
            \/ \E b \in Build, i \in RecordedOf(job[p].id) :
                  Remember(p, [job[p] EXCEPT !.content = b, !.target = i])
        BY <3>1 DEF BuildAndCompare
      <4>2. ASSUME NEW b, Remember(p, [job[p] EXCEPT !.content = b]) PROVE job'[p].cmd = job[p].cmd
        BY <1>0, <4>2, SameCommand DEF Remember
      <4>3. ASSUME NEW b, NEW i, Remember(p, [job[p] EXCEPT !.content = b, !.target = i])
            PROVE  job'[p].cmd = job[p].cmd
        BY <1>0, <4>3, SameCommand DEF Remember
      <4> QED BY <4>1, <4>2, <4>3
    <3>2. CASE Alloc(p)
      <4> DEFINE i == <<job[p].id, NextNumber>>
                 inv == [inventory EXCEPT !.next = NextNumber + 1]
      <4>1. Remember(p, [job[p] EXCEPT !.target = i, !.save = inv, !.then = "stage"])
        BY <3>2 DEF Alloc
      <4> HIDE DEF i, inv
      <4> QED BY <1>0, <4>1, SameCommand DEF Remember
    <3>3. CASE Record(p)
      <4> DEFINE inv == [inventory EXCEPT !.installs = @ \cup {job[p].target}]
      <4>1. Remember(p, [job[p] EXCEPT !.save = inv, !.then = "flip"])
        BY <3>3 DEF Record
      <4> HIDE DEF inv
      <4> QED BY <1>0, <4>1, SameCommand DEF Remember
    <3> QED BY <1>4, <3>1, <3>2, <3>3
  <2> QED BY <2>1, <2>2
<1>5. CASE NextId(p) \/ Sweep(p)
  <2>1. lock' = lock
    BY <1>5 DEF NextId, Sweep, files
  <2>2. job'[p].cmd = job[p].cmd
    <3>1. CASE NextId(p)
      <4>1. CASE job' = job
        BY <4>1
      <4>2. ASSUME NEW id \in job[p].ids,
                   Remember(p, [job[p] EXCEPT !.ids = @ \ {id}, !.queue = RecordedOf(id),
                                              !.victims = {i \in Instance : i[1] = id}])
            PROVE  job'[p].cmd = job[p].cmd
        <5> DEFINE s == job[p].ids \ {id}  q == RecordedOf(id)  v == {i \in Instance : i[1] = id}
        <5>1. Remember(p, [job[p] EXCEPT !.ids = s, !.queue = q, !.victims = v])
          BY <4>2
        <5> HIDE DEF s, q, v
        <5> QED BY <1>0, <5>1, SameCommand DEF Remember
      <4> QED BY <3>1, <4>1, <4>2 DEF NextId
    <3>2. CASE Sweep(p)
      <4>1. CASE job' = job
        BY <4>1
      <4>2. ASSUME NEW i \in job[p].queue,
                   Remember(p, [job[p] EXCEPT !.queue = @ \ {i},
                                              !.victims = IF job[p].cmd = "prune" THEN {i} ELSE @])
            PROVE  job'[p].cmd = job[p].cmd
        <5> DEFINE q == job[p].queue \ {i}
                   v == IF job[p].cmd = "prune" THEN {i} ELSE job[p].victims
        <5>1. Remember(p, [job[p] EXCEPT !.queue = q, !.victims = v])
          BY <4>2
        <5> HIDE DEF q, v
        <5> QED BY <1>0, <5>1, SameCommand DEF Remember
      <4> QED BY <3>2, <4>1, <4>2 DEF Sweep
    <3> QED BY <1>5, <3>1, <3>2
  <2> QED BY <2>1, <2>2
<1>6. CASE Forget(p)
  <2>1. lock' = lock
    BY <1>6 DEF Forget, files
  <2>2. job'[p].cmd = job[p].cmd
    <3>1. CASE UNCHANGED job
      BY <3>1
    <3>2. CASE \E save, then : Remember(p, [job[p] EXCEPT !.save = save, !.then = then])
      <4>1. PICK save, then : Remember(p, [job[p] EXCEPT !.save = save, !.then = then])
        BY <3>2
      <4>2. job'[p] = [job[p] EXCEPT !.save = save, !.then = then]
        BY <1>0, <4>1 DEF Remember
      <4> QED BY <1>0, <4>2 DEF Job
    <3> QED BY <1>6, <3>1, <3>2 DEF Forget
  <2> QED BY <2>1, <2>2
<1>7. CASE Finish(p) \/ Crash(p)
  <2>1. job'[p].cmd = "none"
    BY <1>0, <1>7 DEF Finish, Crash, Remember, NoJob
  <2>2. ~Critical(p) => lock' = lock
    BY <1>7 DEF Finish, Crash, files, TypeOK
  <2> QED BY <2>1, <2>2
<1> QED BY <1>1, <1>2, <1>3, <1>4, <1>5, <1>6, <1>7 DEF Start, Step

\* Two installs never run at once and a running install has its lock file, for
\* any number of processes, with kills at any point and stale locks cleared by
\* hand (install.rs InstallLock).
THEOREM InstallersAlone == Spec => []InstallersExclude
<1>1. Init => InstallersExclude
  BY DEF Init, InstallersExclude, Critical, NoJob
<1>2. TypeOK /\ InstallersExclude /\ [Next]_vars => InstallersExclude'
  <2> SUFFICES ASSUME TypeOK, InstallersExclude, [Next]_vars PROVE InstallersExclude'
    OBVIOUS
  <2>1. CASE UNCHANGED vars
    BY <2>1 DEF vars, InstallersExclude, Critical
  <2>2. CASE RemoveStaleLock
    BY <2>2 DEF RemoveStaleLock, InstallersExclude, Critical
  <2>3. ASSUME NEW p \in Process, Start(p) \/ Step(p) \/ Crash(p) PROVE InstallersExclude'
    <3>1. \A q \in Process : q # p => (Critical(q)' <=> Critical(q))
      BY <2>3, OthersKeep DEF Critical
    <3> QED BY <2>3, <3>1, CriticalStep DEF InstallersExclude
  <2> QED BY <2>1, <2>2, <2>3 DEF Next
<1> QED BY <1>1, <1>2, TypeCorrect, PTL DEF Spec

------------------------------------------------------------------------------
\* Nothing on disk or in memory names an instance before it is in place.

\* An install that has put its instance in place, and any command about to
\* repoint `current`, works on a published instance. NamedWasPublished is not
\* inductive without it: record_install and write_current read the target.
OwnPhase == {"record", "flip"}

Owns(p) ==
    \/ pc[p] \in OwnPhase
    \/ pc[p] \in {"write", "swap"} /\ job[p].then \in OwnPhase

OwnNamed(p) ==
    /\ job[p].save.installs \subseteq published
    /\ Owns(p) => job[p].target \in published

FilesNamed ==
    /\ inventory.installs \subseteq published
    /\ inventoryTmp # None => inventoryTmp.installs \subseteq published
    /\ {current, currentTmp} \subseteq published \cup {None}

NamedInv == FilesNamed /\ \A p \in Process : OwnNamed(p)

LEMMA JobFields ==
    ASSUME NEW j \in Job
    PROVE  /\ \A b : LET r == [j EXCEPT !.content = b]
                     IN r.save = j.save /\ r.target = j.target /\ r.then = j.then
           /\ \A b, i : LET r == [j EXCEPT !.content = b, !.target = i]
                        IN r.save = j.save /\ r.target = i /\ r.then = j.then
           /\ \A inv, t : LET r == [j EXCEPT !.save = inv, !.then = t]
                          IN r.save = inv /\ r.target = j.target /\ r.then = t
           /\ \A i, inv, t : LET r == [j EXCEPT !.target = i, !.save = inv, !.then = t]
                             IN r.save = inv /\ r.target = i /\ r.then = t
           /\ \A s, q, v : LET r == [j EXCEPT !.ids = s, !.queue = q, !.victims = v]
                           IN r.save = j.save /\ r.target = j.target /\ r.then = j.then
           /\ \A q, v : LET r == [j EXCEPT !.queue = q, !.victims = v]
                        IN r.save = j.save /\ r.target = j.target /\ r.then = j.then
BY DEF Job

LEMMA NamedStep ==
    ASSUME TypeInv, NamedInv, NEW p \in Process, Start(p) \/ Step(p) \/ Crash(p)
    PROVE  published \subseteq published' /\ FilesNamed' /\ OwnNamed(p)'
<1>0. /\ job \in [Process -> Job] /\ pc \in [Process -> Phase] /\ job[p] \in Job
      /\ inventory \in Inventory /\ DOMAIN inventory = {"next", "installs"}
      /\ OwnNamed(p) /\ FilesNamed
      /\ \A id : RecordedOf(id) \subseteq inventory.installs
  BY DEF TypeInv, TypeOK, NamedInv, RecordedOf, Inventory
<1> USE DEF OwnNamed, Owns, OwnPhase, Goto
<1>1. CASE StartInstall(p) \/ StartRemove(p) \/ StartPrune(p)
  <2>1. job'[p].save = NoInventory
    <3>1. CASE StartInstall(p)
      <4>1. PICK id, force :
              Remember(p, [NoJob EXCEPT !.cmd = "install", !.id = id, !.force = force])
        BY <3>1 DEF StartInstall
      <4>2. job'[p] = [NoJob EXCEPT !.cmd = "install", !.id = id, !.force = force]
        BY <1>0, <4>1 DEF Remember
      <4> QED BY <4>2 DEF NoJob
    <3>2. CASE StartRemove(p)
      <4>1. PICK s : Remember(p, [NoJob EXCEPT !.cmd = "remove", !.ids = s])
        BY <3>2 DEF StartRemove
      <4>2. job'[p] = [NoJob EXCEPT !.cmd = "remove", !.ids = s]
        BY <1>0, <4>1 DEF Remember
      <4> QED BY <4>2 DEF NoJob
    <3>3. CASE StartPrune(p)
      <4>1. Remember(p, [NoJob EXCEPT !.cmd = "prune", !.queue = inventory.installs \ Active])
        BY <3>3 DEF StartPrune
      <4>2. job'[p] = [NoJob EXCEPT !.cmd = "prune", !.queue = inventory.installs \ Active]
        BY <1>0, <4>1 DEF Remember
      <4> QED BY <4>2 DEF NoJob
    <3> QED BY <1>1, <3>1, <3>2, <3>3
  <2>2. UNCHANGED <<inventory, inventoryTmp, current, currentTmp, published>>
    BY <1>1 DEF StartInstall, StartRemove, StartPrune, files
  <2>3. pc'[p] \in {"build", "nextId", "sweep"}
    BY <1>0, <1>1 DEF StartInstall, StartRemove, StartPrune
  <2> QED BY <1>0, <2>1, <2>2, <2>3 DEF FilesNamed, NoInventory
<1>2. CASE StartUse(p)
  <2>1. PICK i \in inventory.installs : Remember(p, [NoJob EXCEPT !.cmd = "use", !.target = i])
    BY <1>0, <1>2 DEF StartUse, Selected
  <2>2. job'[p].save = NoInventory /\ job'[p].target = i
    BY <1>0, <2>1 DEF Remember, NoJob
  <2> QED BY <1>0, <1>2, <2>2 DEF StartUse, files, FilesNamed, NoInventory
<1>3. CASE WriteTmp(p)
  BY <1>0, <1>3 DEF WriteTmp, FilesNamed
<1>4. CASE SwapTmp(p)
  BY <1>0, <1>4 DEF SwapTmp, FilesNamed
<1>5. CASE FlipWrite(p) \/ FlipSwap(p)
  BY <1>0, <1>5 DEF FlipWrite, FlipSwap, FilesNamed
<1>6. CASE BuildAndCompare(p)
  <2>1. UNCHANGED <<inventory, inventoryTmp, current, currentTmp, published>>
    BY <1>6 DEF BuildAndCompare, files
  <2>2. CASE job' = job /\ pc'[p] = "done"
    BY <1>0, <2>1, <2>2 DEF FilesNamed
  <2>3. ASSUME NEW b, Remember(p, [job[p] EXCEPT !.content = b]), pc'[p] = "alloc"
        PROVE  OwnNamed(p)'
    BY <1>0, <2>1, <2>3, JobFields DEF Remember
  <2>4. ASSUME NEW b, NEW i \in RecordedOf(job[p].id),
               Remember(p, [job[p] EXCEPT !.content = b, !.target = i])
        PROVE  OwnNamed(p)'
    BY <1>0, <2>1, <2>4, JobFields DEF Remember, FilesNamed
  <2> QED BY <1>0, <1>6, <2>1, <2>2, <2>3, <2>4 DEF BuildAndCompare, FilesNamed
<1>7. CASE Alloc(p)
  <2> DEFINE i == <<job[p].id, NextNumber>>
             inv == [inventory EXCEPT !.next = NextNumber + 1]
  <2>1. Remember(p, [job[p] EXCEPT !.target = i, !.save = inv, !.then = "stage"])
    BY <1>7 DEF Alloc
  <2>2. inv.installs = inventory.installs
    BY <1>0
  <2> HIDE DEF i, inv
  <2>3. job'[p].save = inv /\ job'[p].then = "stage"
    BY <1>0, <2>1, JobFields DEF Remember
  <2> QED BY <1>0, <1>7, <2>2, <2>3 DEF Alloc, files, FilesNamed
<1>8. CASE Stage(p) \/ ClearTarget(p)
  BY <1>0, <1>8 DEF Stage, ClearTarget, FilesNamed
<1>9. CASE Publish(p)
  BY <1>0, <1>9 DEF Publish, FilesNamed
<1>10. CASE Record(p)
  <2> DEFINE inv == [inventory EXCEPT !.installs = @ \cup {job[p].target}]
  <2>1. Remember(p, [job[p] EXCEPT !.save = inv, !.then = "flip"])
    BY <1>10 DEF Record
  <2>2. inv.installs = inventory.installs \cup {job[p].target}
    BY <1>0
  <2>3. job[p].target \in published
    BY <1>0, <1>10 DEF Record
  <2> HIDE DEF inv
  <2>4. job'[p].save = inv /\ job'[p].target = job[p].target
    BY <1>0, <2>1, JobFields DEF Remember
  <2> QED BY <1>0, <1>10, <2>2, <2>3, <2>4 DEF Record, files, FilesNamed
<1>11. CASE NextId(p) \/ Sweep(p)
  <2>1. UNCHANGED <<inventory, inventoryTmp, current, currentTmp, published>>
    BY <1>11 DEF NextId, Sweep, files
  <2>2. pc'[p] \in {"sweep", "forget", "done"}
    BY <1>0, <1>11 DEF NextId, Sweep
  <2>3. job'[p].save = job[p].save
    <3>1. ASSUME NEW s, NEW q, NEW v,
                 Remember(p, [job[p] EXCEPT !.ids = s, !.queue = q, !.victims = v])
          PROVE  job'[p].save = job[p].save
      BY <1>0, <3>1, JobFields DEF Remember
    <3>2. ASSUME NEW q, NEW v, Remember(p, [job[p] EXCEPT !.queue = q, !.victims = v])
          PROVE  job'[p].save = job[p].save
      BY <1>0, <3>2, JobFields DEF Remember
    <3>3. CASE NextId(p)
      BY <3>1, <3>3 DEF NextId
    <3>4. CASE Sweep(p)
      BY <3>2, <3>4 DEF Sweep
    <3> QED BY <1>11, <3>3, <3>4
  <2> QED BY <1>0, <2>1, <2>2, <2>3 DEF FilesNamed
<1>12. CASE Forget(p)
  <2> DEFINE kept == inventory.installs \ job[p].victims
             back == IF job[p].cmd = "prune" THEN "sweep" ELSE "nextId"
             inv == [inventory EXCEPT !.installs = kept]
  <2>1. UNCHANGED <<inventory, inventoryTmp, current, currentTmp, published>>
    BY <1>12 DEF Forget, files
  <2>2. CASE Goto(p, back) /\ job' = job
    BY <1>0, <2>1, <2>2 DEF FilesNamed
  <2>3. CASE Remember(p, [job[p] EXCEPT !.save = inv, !.then = back]) /\ Goto(p, "write")
    <3>1. inv.installs \subseteq inventory.installs /\ back \notin OwnPhase
      BY <1>0
    <3> HIDE DEF inv, back
    <3>2. job'[p].save = inv /\ job'[p].then = back
      BY <1>0, <2>3, JobFields DEF Remember
    <3> QED BY <1>0, <2>1, <2>3, <3>1, <3>2 DEF FilesNamed
  <2> QED BY <1>12, <2>2, <2>3 DEF Forget
<1>13. CASE Finish(p) \/ Crash(p)
  <2>1. job'[p].save = NoInventory /\ pc'[p] = "idle"
    BY <1>0, <1>13 DEF Finish, Crash, Remember, NoJob
  <2>2. UNCHANGED <<inventory, inventoryTmp, current, currentTmp, published>>
    BY <1>13 DEF Finish, Crash, files
  <2> QED BY <1>0, <2>1, <2>2 DEF FilesNamed, NoInventory
<1> QED BY <1>1, <1>2, <1>3, <1>4, <1>5, <1>6, <1>7, <1>8, <1>9, <1>10, <1>11, <1>12, <1>13
    DEF Start, Step

LEMMA NamedKept == TypeInv /\ NamedInv /\ [Next]_vars => NamedInv'
<1> SUFFICES ASSUME TypeInv, NamedInv, [Next]_vars PROVE NamedInv'
  OBVIOUS
<1>1. CASE UNCHANGED vars
  BY <1>1 DEF vars, NamedInv, FilesNamed, OwnNamed, Owns
<1>2. CASE RemoveStaleLock
  BY <1>2 DEF RemoveStaleLock, NamedInv, FilesNamed, OwnNamed, Owns
<1>3. ASSUME NEW p \in Process, Start(p) \/ Step(p) \/ Crash(p) PROVE NamedInv'
  <2>1. published \subseteq published' /\ FilesNamed' /\ OwnNamed(p)'
    BY <1>3, NamedStep
  <2>2. ASSUME NEW q \in Process, q # p PROVE OwnNamed(q)'
    <3>1. pc'[q] = pc[q] /\ job'[q] = job[q]
      BY <1>3, <2>2, OthersKeep DEF TypeInv
    <3> QED BY <2>1, <3>1 DEF NamedInv, OwnNamed, Owns
  <2> QED BY <2>1, <2>2 DEF NamedInv
<1> QED BY <1>1, <1>2, <1>3 DEF Next

LEMMA NamedInvariant == Spec => []NamedInv
<1>1. Init => NamedInv
  BY DEF Init, NamedInv, FilesNamed, OwnNamed, Owns, OwnPhase, NoInventory, NoJob
<1> QED BY <1>1, NamedKept, TypeInvariant, PTL DEF Spec

\* No record, no pointer and no inventory still in a process's hands names an
\* instance that was never put in place, in any behaviour: with every mix of
\* commands, overlapping saves of state.toml and kills at any step.
THEOREM NamedArePublished == Spec => []NamedWasPublished
<1>1. NamedInv => NamedWasPublished
  BY DEF NamedInv, FilesNamed, OwnNamed, NamedWasPublished
<1> QED BY <1>1, NamedInvariant, PTL

------------------------------------------------------------------------------
\* What each command does with its memory, and the phases it runs through

Saving(p) == pc[p] \in {"write", "swap"}

Flow(p) ==
    /\ pc[p] = "idle" <=> job[p].cmd = "none"
    /\ Critical(p) =>
         /\ pc[p] \in {"build", "alloc", "write", "swap", "stage", "clear", "publish", "record",
                       "flip", "flipSwap", "done"}
         /\ Saving(p) => job[p].then \in {"stage", "flip"}
    /\ job[p].cmd = "use" => pc[p] \in {"flip", "flipSwap", "done"}
    /\ Removing(p) =>
         /\ pc[p] \in {"nextId", "sweep", "forget", "write", "swap", "done"}
         /\ Saving(p) => job[p].then = IF job[p].cmd = "prune" THEN "sweep" ELSE "nextId"

LEMMA CommandOf ==
    ASSUME TypeOK, NEW p \in Process
    PROVE  job[p].cmd \in {"install", "use", "remove", "prune", "none"}
BY ConstantsAssumption DEF TypeOK, Job, AllCommand

\* Which command a phase belongs to.
LEMMA PhaseCommand ==
    ASSUME TypeOK, NEW p \in Process, Flow(p)
    PROVE  /\ pc[p] \in {"build", "alloc", "stage", "clear", "publish", "record"} => Critical(p)
           /\ pc[p] \in {"flip", "flipSwap"} => Critical(p) \/ job[p].cmd = "use"
           /\ pc[p] \in {"nextId", "sweep", "forget"} => Removing(p)
           /\ Saving(p) => Critical(p) \/ Removing(p)
BY CommandOf DEF Flow, Critical, Removing, Saving

LEMMA BuildEffect ==
    ASSUME TypeOK, NEW p \in Process, BuildAndCompare(p)
    PROVE  /\ job'[p].cmd = job[p].cmd
           /\ \/ pc'[p] = "flip" /\ job'[p].target \in inventory.installs
              \/ pc'[p] = "alloc" /\ job'[p].content \in Build
              \/ pc'[p] = "done"
<1>0. job \in [Process -> Job] /\ pc \in [Process -> Phase] /\ job[p] \in Job
  BY DEF TypeOK
<1>1. CASE Goto(p, "done") /\ UNCHANGED job
  BY <1>0, <1>1 DEF Goto
<1>2. ASSUME NEW b \in Build, Remember(p, [job[p] EXCEPT !.content = b]), Goto(p, "alloc")
      PROVE  job'[p].cmd = job[p].cmd /\ pc'[p] = "alloc" /\ job'[p].content \in Build
  <2>1. job'[p] = [job[p] EXCEPT !.content = b]
    BY <1>0, <1>2 DEF Remember
  <2> QED BY <1>0, <1>2, <2>1 DEF Goto, Job
<1>3. ASSUME NEW b \in Build, NEW i \in RecordedOf(job[p].id),
             Remember(p, [job[p] EXCEPT !.content = b, !.target = i]), Goto(p, "flip")
      PROVE  job'[p].cmd = job[p].cmd /\ pc'[p] = "flip" /\ job'[p].target \in inventory.installs
  <2>1. job'[p] = [job[p] EXCEPT !.content = b, !.target = i]
    BY <1>0, <1>3 DEF Remember
  <2> QED BY <1>0, <1>3, <2>1 DEF Goto, Job, RecordedOf
<1> QED BY <1>1, <1>2, <1>3 DEF BuildAndCompare

LEMMA AllocEffect ==
    ASSUME TypeOK, NEW p \in Process, Alloc(p)
    PROVE  /\ job'[p].cmd = job[p].cmd /\ job'[p].content = job[p].content
           /\ job'[p].target = <<job[p].id, NextNumber>> /\ job'[p].then = "stage"
           /\ job'[p].save.installs = inventory.installs
           /\ job'[p].save.next = NextNumber + 1
           /\ pc'[p] = "write"
<1>0. job \in [Process -> Job] /\ pc \in [Process -> Phase] /\ job[p] \in Job
  BY DEF TypeOK
<1> DEFINE i == <<job[p].id, NextNumber>>
           inv == [inventory EXCEPT !.next = NextNumber + 1]
<1>1. Remember(p, [job[p] EXCEPT !.target = i, !.save = inv, !.then = "stage"]) /\ Goto(p, "write")
  BY DEF Alloc
<1>2. inv.installs = inventory.installs /\ inv.next = NextNumber + 1
  BY DEF TypeOK, Inventory
<1> HIDE DEF i, inv
<1>3. job'[p] = [job[p] EXCEPT !.target = i, !.save = inv, !.then = "stage"]
  BY <1>0, <1>1 DEF Remember
<1>4. /\ job'[p].cmd = job[p].cmd /\ job'[p].content = job[p].content
      /\ job'[p].target = i /\ job'[p].then = "stage" /\ job'[p].save = inv
  BY <1>0, <1>3 DEF Job
<1> QED BY <1>0, <1>1, <1>2, <1>4 DEF Goto, i

LEMMA RecordEffect ==
    ASSUME TypeOK, NEW p \in Process, Record(p)
    PROVE  /\ job'[p].cmd = job[p].cmd /\ job'[p].target = job[p].target /\ job'[p].then = "flip"
           /\ job'[p].save = [inventory EXCEPT !.installs = @ \cup {job[p].target}]
           /\ pc'[p] = "write"
<1>0. job \in [Process -> Job] /\ pc \in [Process -> Phase] /\ job[p] \in Job
  BY DEF TypeOK
<1> DEFINE inv == [inventory EXCEPT !.installs = @ \cup {job[p].target}]
<1>1. Remember(p, [job[p] EXCEPT !.save = inv, !.then = "flip"]) /\ Goto(p, "write")
  BY DEF Record
<1> HIDE DEF inv
<1>2. job'[p] = [job[p] EXCEPT !.save = inv, !.then = "flip"]
  BY <1>0, <1>1 DEF Remember
<1>3. /\ job'[p].cmd = job[p].cmd /\ job'[p].target = job[p].target
      /\ job'[p].then = "flip" /\ job'[p].save = inv
  BY <1>0, <1>2 DEF Job
<1> QED BY <1>0, <1>1, <1>3 DEF Goto, inv

LEMMA NextIdEffect ==
    ASSUME TypeOK, NEW p \in Process, NextId(p)
    PROVE  /\ job'[p].cmd = job[p].cmd
           /\ \/ pc'[p] = "done" /\ job' = job
              \/ /\ pc'[p] = "sweep"
                 /\ \E id \in job[p].ids : /\ job'[p].ids = job[p].ids \ {id}
                                           /\ job'[p].queue = RecordedOf(id)
                                           /\ job'[p].victims = {i \in Instance : i[1] = id}
<1>0. job \in [Process -> Job] /\ pc \in [Process -> Phase] /\ job[p] \in Job
  BY DEF TypeOK
<1>1. CASE job[p].ids = {} /\ Goto(p, "done") /\ UNCHANGED job
  BY <1>0, <1>1 DEF Goto
<1>2. ASSUME NEW id \in job[p].ids, Goto(p, "sweep"),
             Remember(p, [job[p] EXCEPT !.ids = @ \ {id}, !.queue = RecordedOf(id),
                                        !.victims = {i \in Instance : i[1] = id}])
      PROVE  /\ job'[p].cmd = job[p].cmd /\ pc'[p] = "sweep"
             /\ job'[p].ids = job[p].ids \ {id} /\ job'[p].queue = RecordedOf(id)
             /\ job'[p].victims = {i \in Instance : i[1] = id}
  <2> DEFINE s == job[p].ids \ {id}  q == RecordedOf(id)  v == {i \in Instance : i[1] = id}
  <2>1. Remember(p, [job[p] EXCEPT !.ids = s, !.queue = q, !.victims = v])
    BY <1>2
  <2> HIDE DEF s, q, v
  <2>2. job'[p] = [job[p] EXCEPT !.ids = s, !.queue = q, !.victims = v]
    BY <1>0, <2>1 DEF Remember
  <2>3. /\ job'[p].cmd = job[p].cmd /\ job'[p].ids = s /\ job'[p].queue = q
        /\ job'[p].victims = v
    BY <1>0, <2>2 DEF Job
  <2> QED BY <1>0, <1>2, <2>3 DEF Goto, s, q, v
<1> QED BY <1>1, <1>2 DEF NextId

LEMMA SweepEffect ==
    ASSUME TypeOK, NEW p \in Process, Sweep(p)
    PROVE  /\ job'[p].cmd = job[p].cmd /\ job'[p].ids = job[p].ids
           /\ \/ /\ job[p].queue = {} /\ job' = job /\ dirs' = dirs
                 /\ pc'[p] = IF job[p].cmd = "prune" THEN "done" ELSE "forget"
              \/ \E i \in job[p].queue :
                   /\ \E left \in DirState : /\ dirs' = [dirs EXCEPT ![i] = left]
                                             /\ ~DirsBusy \/ dirs[i] = Absent => left = Absent
                   /\ job'[p].queue = job[p].queue \ {i}
                   /\ job'[p].victims = IF job[p].cmd = "prune" THEN {i} ELSE job[p].victims
                   /\ pc'[p] = IF job[p].cmd = "prune" THEN "forget" ELSE "sweep"
<1>0. /\ job \in [Process -> Job] /\ pc \in [Process -> Phase] /\ job[p] \in Job
      /\ job[p].queue \subseteq Instance
  BY JobType DEF TypeOK
<1>1. CASE /\ job[p].queue = {} /\ UNCHANGED <<dirs, job>>
           /\ Goto(p, IF job[p].cmd = "prune" THEN "done" ELSE "forget")
  BY <1>0, <1>1 DEF Goto
<1>2. ASSUME NEW i \in job[p].queue,
             \E left \in {Absent} \cup IF DirsBusy /\ dirs[i] # Absent THEN {dirs[i], Gutted} ELSE {} :
                 dirs' = [dirs EXCEPT ![i] = left],
             Remember(p, [job[p] EXCEPT !.queue = @ \ {i},
                                        !.victims = IF job[p].cmd = "prune" THEN {i} ELSE @]),
             Goto(p, IF job[p].cmd = "prune" THEN "forget" ELSE "sweep")
      PROVE  /\ \E left \in DirState : /\ dirs' = [dirs EXCEPT ![i] = left]
                                       /\ ~DirsBusy \/ dirs[i] = Absent => left = Absent
             /\ job'[p].cmd = job[p].cmd /\ job'[p].ids = job[p].ids
             /\ job'[p].queue = job[p].queue \ {i}
             /\ job'[p].victims = IF job[p].cmd = "prune" THEN {i} ELSE job[p].victims
             /\ pc'[p] = IF job[p].cmd = "prune" THEN "forget" ELSE "sweep"
  <2> DEFINE q == job[p].queue \ {i}
             v == IF job[p].cmd = "prune" THEN {i} ELSE job[p].victims
  <2>1. Remember(p, [job[p] EXCEPT !.queue = q, !.victims = v])
    BY <1>2
  <2> HIDE DEF q, v
  <2>2. job'[p] = [job[p] EXCEPT !.queue = q, !.victims = v]
    BY <1>0, <2>1 DEF Remember
  <2>3. /\ job'[p].cmd = job[p].cmd /\ job'[p].ids = job[p].ids
        /\ job'[p].queue = q /\ job'[p].victims = v
    BY <1>0, <2>2 DEF Job
  <2>4. \E left \in DirState :
          dirs' = [dirs EXCEPT ![i] = left] /\ (~DirsBusy \/ dirs[i] = Absent => left = Absent)
    <3>1. dirs[i] \in DirState /\ {Absent, Gutted} \subseteq DirState
      BY <1>0 DEF TypeOK, DirState
    <3> QED BY <1>2, <3>1
  <2> QED BY <1>0, <1>2, <2>3, <2>4 DEF Goto, q, v
<1> QED BY <1>1, <1>2 DEF Sweep

LEMMA ForgetEffect ==
    ASSUME TypeOK, NEW p \in Process, Forget(p)
    PROVE  LET back == IF job[p].cmd = "prune" THEN "sweep" ELSE "nextId"
           IN /\ job'[p].cmd = job[p].cmd /\ job'[p].ids = job[p].ids
              /\ job'[p].queue = job[p].queue /\ job'[p].victims = job[p].victims
              /\ \/ pc'[p] = back /\ inventory.installs \ job[p].victims = inventory.installs
                 \/ /\ pc'[p] = "write" /\ job'[p].then = back
                    /\ job'[p].save = [inventory EXCEPT !.installs = @ \ job[p].victims]
<1>0. job \in [Process -> Job] /\ pc \in [Process -> Phase] /\ job[p] \in Job
  BY DEF TypeOK
<1> DEFINE kept == inventory.installs \ job[p].victims
           back == IF job[p].cmd = "prune" THEN "sweep" ELSE "nextId"
           inv == [inventory EXCEPT !.installs = kept]
<1>1. CASE kept = inventory.installs /\ Goto(p, back) /\ UNCHANGED job
  BY <1>0, <1>1 DEF Goto
<1>2. CASE Remember(p, [job[p] EXCEPT !.save = inv, !.then = back]) /\ Goto(p, "write")
  <2>0. pc'[p] = "write"
    BY <1>0, <1>2 DEF Goto
  <2> HIDE DEF inv, back
  <2>1. job'[p] = [job[p] EXCEPT !.save = inv, !.then = back]
    BY <1>0, <1>2 DEF Remember
  <2>2. /\ job'[p].cmd = job[p].cmd /\ job'[p].ids = job[p].ids
        /\ job'[p].queue = job[p].queue /\ job'[p].victims = job[p].victims
        /\ job'[p].then = back /\ job'[p].save = inv
    BY <1>0, <2>1 DEF Job
  <2> QED BY <2>0, <2>2 DEF inv, back
<1> QED BY <1>1, <1>2 DEF Forget

\* What a command remembers as it starts.
LEMMA StartEffect ==
    ASSUME TypeOK, NEW p \in Process, Start(p)
    PROVE  /\ pc[p] = "idle"
           /\ UNCHANGED <<inventory, inventoryTmp, dirs, staging, current, currentTmp, published>>
           /\ \/ job'[p].cmd = "install" /\ pc'[p] = "build"
              \/ job'[p].cmd = "use" /\ pc'[p] = "flip" /\ job'[p].target \in inventory.installs
              \/ /\ job'[p].cmd = "remove" /\ pc'[p] = "nextId"
                 /\ job'[p].queue = {} /\ job'[p].victims = {}
                 /\ ~RemoveForced => \A i \in Active : i[1] \notin job'[p].ids
              \/ /\ job'[p].cmd = "prune" /\ pc'[p] = "sweep" /\ job'[p].victims = {}
                 /\ job'[p].queue = inventory.installs \ Active /\ job'[p].ids = {}
<1>0. job \in [Process -> Job] /\ pc \in [Process -> Phase]
  BY DEF TypeOK
<1>1. CASE StartInstall(p)
  <2>1. PICK id, force :
          Remember(p, [NoJob EXCEPT !.cmd = "install", !.id = id, !.force = force])
    BY <1>1 DEF StartInstall
  <2>2. job'[p] = [NoJob EXCEPT !.cmd = "install", !.id = id, !.force = force]
    BY <1>0, <2>1 DEF Remember
  <2>3. job'[p].cmd = "install"
    BY <2>2 DEF NoJob
  <2> QED BY <1>0, <1>1, <2>3 DEF StartInstall, Goto
<1>2. CASE StartUse(p)
  <2>1. PICK i \in inventory.installs : Remember(p, [NoJob EXCEPT !.cmd = "use", !.target = i])
    BY <1>2 DEF StartUse, Selected
  <2>2. job'[p] = [NoJob EXCEPT !.cmd = "use", !.target = i]
    BY <1>0, <2>1 DEF Remember
  <2>3. job'[p].cmd = "use" /\ job'[p].target = i
    BY <2>2 DEF NoJob
  <2> QED BY <1>0, <1>2, <2>3 DEF StartUse, Goto, files
<1>3. CASE StartRemove(p)
  <2> DEFINE recorded == {i[1] : i \in inventory.installs}
  <2>1. PICK all \in BOOLEAN, id \in Id, force \in {FALSE, RemoveForced} :
          Remember(p, [NoJob EXCEPT !.cmd = "remove",
                                    !.ids = (IF all THEN recorded ELSE recorded \cap {id})
                                              \ (IF force THEN {} ELSE {i[1] : i \in Active})])
    BY <1>3 DEF StartRemove
  <2> DEFINE s == (IF all THEN recorded ELSE recorded \cap {id})
                    \ (IF force THEN {} ELSE {i[1] : i \in Active})
  <2>2. ~RemoveForced => \A i \in Active : i[1] \notin s
    <3>1. ~RemoveForced => ~force
      BY <2>1
    <3> QED BY <3>1
  <2>3. Remember(p, [NoJob EXCEPT !.cmd = "remove", !.ids = s])
    BY <2>1
  <2> HIDE DEF s
  <2>4. job'[p] = [NoJob EXCEPT !.cmd = "remove", !.ids = s]
    BY <1>0, <2>3 DEF Remember
  <2>5. job'[p].cmd = "remove" /\ job'[p].queue = {} /\ job'[p].victims = {} /\ job'[p].ids = s
    BY <2>4 DEF NoJob
  <2> QED BY <1>0, <1>3, <2>2, <2>5 DEF StartRemove, Goto, files
<1>4. CASE StartPrune(p)
  <2> DEFINE q == inventory.installs \ Active
  <2>1. Remember(p, [NoJob EXCEPT !.cmd = "prune", !.queue = q])
    BY <1>4 DEF StartPrune
  <2> HIDE DEF q
  <2>2. job'[p] = [NoJob EXCEPT !.cmd = "prune", !.queue = q]
    BY <1>0, <2>1 DEF Remember
  <2>3. job'[p].cmd = "prune" /\ job'[p].queue = q /\ job'[p].victims = {} /\ job'[p].ids = {}
    BY <2>2 DEF NoJob
  <2> QED BY <1>0, <1>4, <2>3 DEF StartPrune, Goto, files, q
<1> QED BY <1>1, <1>2, <1>3, <1>4 DEF Start

LEMMA EndEffect ==
    ASSUME TypeOK, NEW p \in Process, Finish(p) \/ Crash(p)
    PROVE  /\ pc'[p] = "idle" /\ job'[p].cmd = "none" /\ pc[p] # "idle"
           /\ UNCHANGED <<inventory, inventoryTmp, dirs, staging, current, currentTmp, published>>
BY DEF Finish, Crash, Goto, Remember, NoJob, files, TypeOK

FlowInv == \A p \in Process : Flow(p)

LEMMA FlowStep ==
    ASSUME TypeOK, NEW p \in Process, Flow(p), Start(p) \/ Step(p) \/ Crash(p)
    PROVE  Flow(p)'
<1>0. job \in [Process -> Job] /\ pc \in [Process -> Phase]
  BY DEF TypeOK
<1> USE DEF Flow, Critical, Removing, Saving, Goto
<1>1. CASE Start(p)
  BY <1>1, StartEffect
<1>2. CASE WriteTmp(p) \/ SwapTmp(p)
  <2>1. job' = job /\ Saving(p) /\ pc'[p] \in {"swap", "done", job[p].then}
    BY <1>0, <1>2 DEF WriteTmp, SwapTmp
  <2> QED BY <2>1, PhaseCommand
<1>3. CASE FlipWrite(p) \/ FlipSwap(p)
  <2>1. job' = job /\ pc[p] \in {"flip", "flipSwap"} /\ pc'[p] \in {"flipSwap", "done"}
    BY <1>0, <1>3 DEF FlipWrite, FlipSwap
  <2> QED BY <2>1, PhaseCommand
<1>4. CASE BuildAndCompare(p)
  <2>1. pc[p] = "build"
    BY <1>4 DEF BuildAndCompare
  <2> QED BY <1>4, <2>1, BuildEffect, PhaseCommand
<1>5. CASE Alloc(p) \/ Record(p)
  <2>1. pc[p] \in {"alloc", "record"}
    BY <1>5 DEF Alloc, Record
  <2>2. job'[p].cmd = job[p].cmd /\ job'[p].then \in {"stage", "flip"} /\ pc'[p] = "write"
    BY <1>5, AllocEffect, RecordEffect
  <2> QED BY <2>1, <2>2, PhaseCommand
<1>6. CASE Stage(p) \/ ClearTarget(p) \/ Publish(p)
  <2>1. /\ job' = job /\ pc[p] \in {"stage", "clear", "publish"}
        /\ pc'[p] \in {"clear", "done", "publish", "record"}
    BY <1>0, <1>6 DEF Stage, ClearTarget, Publish
  <2> QED BY <2>1, PhaseCommand
<1>7. CASE NextId(p)
  <2>1. pc[p] = "nextId"
    BY <1>7 DEF NextId
  <2> QED BY <1>7, <2>1, NextIdEffect, PhaseCommand
<1>8. CASE Sweep(p)
  <2>1. pc[p] = "sweep"
    BY <1>8 DEF Sweep
  <2> QED BY <1>8, <2>1, SweepEffect, PhaseCommand
<1>9. CASE Forget(p)
  <2>1. pc[p] = "forget"
    BY <1>9 DEF Forget
  <2> QED BY <1>9, <2>1, ForgetEffect, PhaseCommand
<1>10. CASE Finish(p) \/ Crash(p)
  BY <1>10, EndEffect
<1> QED BY <1>1, <1>2, <1>3, <1>4, <1>5, <1>6, <1>7, <1>8, <1>9, <1>10 DEF Step

LEMMA FlowInvariant == Spec => []FlowInv
<1>1. Init => FlowInv
  BY DEF Init, NoJob, FlowInv, Flow, Critical, Removing
<1>2. TypeOK /\ FlowInv /\ [Next]_vars => FlowInv'
  <2> SUFFICES ASSUME TypeOK, FlowInv, [Next]_vars PROVE FlowInv'
    OBVIOUS
  <2>1. CASE UNCHANGED vars \/ RemoveStaleLock
    BY <2>1 DEF vars, RemoveStaleLock, FlowInv, Flow, Critical, Removing, Saving
  <2>2. ASSUME NEW p \in Process, Start(p) \/ Step(p) \/ Crash(p) PROVE FlowInv'
    <3>1. ASSUME NEW q \in Process, q # p PROVE Flow(q)'
      <4>1. pc'[q] = pc[q] /\ job'[q] = job[q]
        BY <2>2, <3>1, OthersKeep
      <4> QED BY <4>1 DEF FlowInv, Flow, Critical, Removing, Saving
    <3> QED BY <2>2, <3>1, FlowStep DEF FlowInv
  <2> QED BY <2>1, <2>2 DEF Next
<1> QED BY <1>1, <1>2, TypeCorrect, PTL DEF Spec

------------------------------------------------------------------------------
\* Removals that run alone and to their end

\* No other command runs beside a removal, and a removal once begun is not killed.
RemoveEnds == \A p \in Process : Removing(p) /\ pc'[p] = "idle" => pc[p] = "done"

OrderlyRemovals == []RemovesAlone /\ [][RemoveEnds]_vars

\* The instances whose directories a removal has dealt with and whose records it
\* has still to drop.
Doomed(p) ==
    IF ~Removing(p) THEN {}
    ELSE IF pc[p] = "sweep" /\ job[p].cmd = "remove" THEN job[p].victims \ job[p].queue
    ELSE IF pc[p] \in {"forget", "write", "swap"} THEN job[p].victims
    ELSE {}

\* What was never published has no directory and a number not yet handed out,
\* `current` and a pointer under way are recorded, and every record is whole
\* unless a removal is about to drop it.
DiskInv ==
    /\ \A i \in Instance : i \notin published => dirs[i] = Absent
    /\ \A i \in published : i[2] < inventory.next
    /\ current \in inventory.installs \cup {None}
    /\ (\E p \in Process : pc[p] = "flipSwap") => currentTmp \in inventory.installs \cup {None}
    /\ \A i \in inventory.installs : dirs[i] \in Build \/ \E p \in Process : i \in Doomed(p)

\* An install has its number but not yet its directory in place.
Numbering(p) == pc[p] \in {"stage", "clear", "publish"} \/ (Saving(p) /\ job[p].then = "stage")

\* An install has its directory in place but not yet its record.
Recording(p) == pc[p] = "record" \/ (Saving(p) /\ job[p].then = "flip")

InstallInv(p) ==
    /\ pc[p] = "alloc" => job[p].content \in Build
    /\ Numbering(p) =>
         /\ job[p].content \in Build /\ job[p].target \notin published
         /\ IF Saving(p)
            THEN /\ job[p].save.installs = inventory.installs
                 /\ inventory.next <= job[p].save.next /\ job[p].target[2] < job[p].save.next
            ELSE job[p].target[2] < inventory.next
    /\ pc[p] \in {"clear", "publish"} => staging[job[p].id] \in Build
    /\ Recording(p) =>
         /\ job[p].target \in published /\ dirs[job[p].target] \in Build
         /\ Saving(p) => job[p].save = [inventory EXCEPT !.installs = @ \cup {job[p].target}]

RemoveInv(p) ==
    Removing(p) =>
      /\ current \notin job[p].queue \cup job[p].victims
      /\ current = None \/ current[1] \notin job[p].ids
      /\ job[p].cmd = "remove" => job[p].queue \subseteq job[p].victims
      /\ Saving(p) => job[p].save = [inventory EXCEPT !.installs = @ \ job[p].victims]
      /\ ~DirsBusy => \A i \in Doomed(p) \cap inventory.installs : dirs[i] = Absent

ProcInv(p) ==
    /\ pc[p] = "swap" => inventoryTmp = job[p].save
    /\ pc[p] = "flip" => job[p].target \in inventory.installs
    /\ InstallInv(p)
    /\ RemoveInv(p)

StoreInv == DiskInv /\ \A p \in Process : ProcInv(p)

LEMMA InitStore == Init => StoreInv
BY DEF Init, NoJob, NoInventory, StoreInv, DiskInv, ProcInv, InstallInv, RemoveInv, Numbering,
       Recording, Saving, Removing

\* Everything the step lemmas below start from.
Context ==
    /\ TypeInv /\ NamedInv /\ InstallersExclude /\ FlowInv /\ RemovesAlone /\ StoreInv
    /\ ~RemoveForced

\* Who may run beside whom.
LEMMA Company ==
    ASSUME Context, NEW p \in Process, NEW q \in Process, p # q
    PROVE  /\ Removing(p) => pc[q] = "idle" /\ job[q].cmd = "none"
           /\ Critical(p) => job[q].cmd \in {"none", "use"}
           /\ pc[p] # "idle" => ~Removing(q)
<1>1. job[q].cmd \in {"install", "use", "remove", "prune", "none"}
  BY CommandOf DEF Context, TypeInv
<1>2. Removing(p) => pc[q] = "idle"
  BY DEF Context, RemovesAlone
<1>3. Removing(q) => pc[p] = "idle"
  BY DEF Context, RemovesAlone
<1>4. Critical(p) => ~Critical(q) /\ pc[p] # "idle"
  BY DEF Context, InstallersExclude, FlowInv, Flow, Critical
<1> QED BY <1>1, <1>2, <1>3, <1>4 DEF Context, FlowInv, Flow, Removing, Critical

\* What the commands of other processes rely on.
LEMMA KeepIdle == ASSUME NEW q, pc'[q] = "idle", job'[q].cmd = "none" PROVE ProcInv(q)'
BY DEF ProcInv, InstallInv, RemoveInv, Numbering, Recording, Saving, Removing

LEMMA KeepUse ==
    ASSUME Context, NEW q \in Process, job[q].cmd \in {"none", "use"},
           pc'[q] = pc[q], job'[q] = job[q], inventory.installs \subseteq inventory'.installs
    PROVE  ProcInv(q)'
<1>1. pc[q] \in {"idle", "flip", "flipSwap", "done"}
  BY DEF Context, FlowInv, Flow
<1>2. pc[q] = "flip" => job[q].target \in inventory.installs
  BY DEF Context, StoreInv, ProcInv
<1> QED BY <1>1, <1>2 DEF ProcInv, InstallInv, RemoveInv, Numbering, Recording, Saving, Removing

LEMMA KeepQuiet ==
    ASSUME Context, NEW q \in Process, ~Removing(q), pc'[q] = pc[q], job'[q] = job[q],
           UNCHANGED <<inventory, inventoryTmp, dirs, staging, published>>
    PROVE  ProcInv(q)'
BY DEF Context, StoreInv, ProcInv, InstallInv, RemoveInv, Numbering, Recording, Saving, Removing

\* Beside a command that is no removal every record is whole.
LEMMA AllWhole ==
    ASSUME Context, NEW p \in Process, pc[p] # "idle", ~Removing(p)
    PROVE  \A i \in inventory.installs : dirs[i] \in Build
<1>1. \A q \in Process : ~Removing(q)
  BY Company
<1> QED BY <1>1 DEF Context, StoreInv, DiskInv, Doomed

\* The files as they are when every record is whole after a step.
LEMMA WholeDisk ==
    ASSUME \A i \in Instance : i \notin published' => dirs'[i] = Absent,
           \A i \in published' : i[2] < inventory'.next,
           current' \in inventory'.installs \cup {None},
           (\E p \in Process : pc'[p] = "flipSwap") => currentTmp' \in inventory'.installs \cup {None},
           \A i \in inventory'.installs : dirs'[i] \in Build
    PROVE  DiskInv'
BY DEF DiskInv

LEMMA StoreStart ==
    ASSUME Context, RemovesAlone', NEW p \in Process, Start(p)
    PROVE  StoreInv'
<1>0. /\ pc[p] = "idle" /\ pc'[p] \notin {"idle", "flipSwap", "swap", "write"}
      /\ UNCHANGED <<inventory, inventoryTmp, dirs, staging, current, currentTmp, published>>
  BY StartEffect DEF Context, TypeInv
<1>1. \A q \in Process : q # p => pc'[q] = pc[q] /\ job'[q] = job[q]
  BY OthersKeep DEF Context, TypeInv
<1>2. \A q \in Process : ~Removing(q)
  <2>1. ~Removing(p)
    BY <1>0 DEF Context, FlowInv, Flow, Removing
  <2>2. ASSUME NEW q \in Process, q # p PROVE ~Removing(q)
    BY <1>0, <1>1, <2>2 DEF RemovesAlone, Removing
  <2> QED BY <2>1, <2>2
<1>3. \A i \in inventory.installs : dirs[i] \in Build
  BY <1>2 DEF Context, StoreInv, DiskInv, Doomed
<1>4. DiskInv'
  <2>1. ASSUME NEW q \in Process, pc'[q] = "flipSwap" PROVE pc[q] = "flipSwap"
    BY <1>0, <1>1, <2>1
  <2> QED BY <1>0, <1>3, <2>1, WholeDisk DEF Context, StoreInv, DiskInv
<1>5. ASSUME NEW q \in Process, q # p PROVE ProcInv(q)'
  BY <1>0, <1>1, <1>2, <1>5, KeepQuiet
<1>6. ProcInv(p)'
  <2>0. current # None => current \in Active
    BY DEF Context, StoreInv, DiskInv, Active
  <2>1. CASE job'[p].cmd = "install" /\ pc'[p] = "build"
    BY <2>1 DEF ProcInv, InstallInv, RemoveInv, Numbering, Recording, Saving, Removing
  <2>2. CASE job'[p].cmd = "use" /\ pc'[p] = "flip" /\ job'[p].target \in inventory.installs
    BY <1>0, <2>2 DEF ProcInv, InstallInv, RemoveInv, Numbering, Recording, Saving, Removing
  <2>3. CASE /\ job'[p].cmd = "remove" /\ pc'[p] = "nextId"
             /\ job'[p].queue = {} /\ job'[p].victims = {}
             /\ ~RemoveForced => \A i \in Active : i[1] \notin job'[p].ids
    <3>1. current = None \/ current[1] \notin job'[p].ids
      BY <2>0, <2>3 DEF Context
    <3>2. Doomed(p)' = {}
      BY <2>3 DEF Doomed
    <3> QED BY <1>0, <2>3, <3>1, <3>2 DEF ProcInv, InstallInv, RemoveInv, Numbering, Recording, Saving
  <2>4. CASE /\ job'[p].cmd = "prune" /\ pc'[p] = "sweep" /\ job'[p].victims = {}
             /\ job'[p].queue = inventory.installs \ Active /\ job'[p].ids = {}
    <3>1. current \notin job'[p].queue
      BY <2>4 DEF Active
    <3>2. Doomed(p)' = {}
      BY <2>4 DEF Doomed
    <3> QED BY <1>0, <2>4, <3>1, <3>2 DEF ProcInv, InstallInv, RemoveInv, Numbering, Recording, Saving
  <2> QED BY <2>1, <2>2, <2>3, <2>4, StartEffect DEF Context, TypeInv
<1> QED BY <1>4, <1>5, <1>6 DEF StoreInv

LEMMA StoreWriteTmp == ASSUME Context, NEW p \in Process, WriteTmp(p) PROVE StoreInv'
<1>0. /\ pc[p] = "write" /\ pc'[p] = "swap" /\ job' = job /\ inventoryTmp' = job[p].save
      /\ \A q \in Process : q # p => pc'[q] = pc[q]
      /\ UNCHANGED <<inventory, dirs, staging, current, currentTmp, published>>
  BY DEF WriteTmp, Goto, Context, TypeInv, TypeOK
<1>1. Flow(p) /\ TypeOK
  BY DEF Context, FlowInv, TypeInv
<1>2. Critical(p) \/ Removing(p)
  BY <1>0, <1>1, PhaseCommand DEF Saving
<1>3. ASSUME NEW q \in Process, q # p PROVE ProcInv(q)'
  <2>1. CASE Critical(p)
    BY <1>0, <1>3, <2>1, Company, KeepUse
  <2>2. CASE Removing(p)
    BY <1>0, <1>3, <2>2, Company, KeepIdle
  <2> QED BY <1>2, <2>1, <2>2
<1>4. \A q \in Process : Doomed(q)' = Doomed(q)
  <2> SUFFICES ASSUME NEW q \in Process PROVE Doomed(q)' = Doomed(q)
    OBVIOUS
  <2> QED BY <1>0 DEF Doomed, Removing
<1>5. ProcInv(p)'
  <2>1. ProcInv(p)
    BY DEF Context, StoreInv
  <2>2. InstallInv(p)'
    BY <1>0, <2>1 DEF ProcInv, InstallInv, Numbering, Recording, Saving
  <2>3. RemoveInv(p)'
    BY <1>0, <1>4, <2>1 DEF ProcInv, RemoveInv, Saving, Removing
  <2> QED BY <1>0, <2>2, <2>3 DEF ProcInv
<1>6. DiskInv'
  BY <1>0, <1>4 DEF Context, StoreInv, DiskInv
<1> QED BY <1>3, <1>5, <1>6 DEF StoreInv

\* No other command writes state.toml.tmp between the two steps of a save.
LEMMA SwapSaves ==
    ASSUME Context, NEW p \in Process, SwapTmp(p)
    PROVE  /\ pc[p] = "swap" /\ job' = job
           /\ inventory' = job[p].save /\ pc'[p] = job[p].then
           /\ \A q \in Process : q # p => pc'[q] = pc[q]
           /\ UNCHANGED <<dirs, staging, current, currentTmp, published>>
<1>0. TypeOK /\ ProcInv(p)
  BY DEF Context, StoreInv, TypeInv
<1>1. pc[p] = "swap"
  BY DEF SwapTmp
<1>2. inventoryTmp = job[p].save
  BY <1>0, <1>1 DEF ProcInv
<1>3. job[p].save \in Inventory
  BY <1>0, JobType DEF TypeOK
<1>4. None \notin Inventory
  BY ConstantsAssumption DEF Inventory, Instance
<1> QED BY <1>0, <1>1, <1>2, <1>3, <1>4 DEF SwapTmp, Goto, TypeOK

LEMMA StoreSwapTmp == ASSUME Context, NEW p \in Process, SwapTmp(p) PROVE StoreInv'
<1>0. /\ TypeOK /\ Flow(p) /\ ProcInv(p) /\ DiskInv
      /\ inventory \in Inventory /\ inventory.installs \subseteq published
      /\ inventory.installs \subseteq Instance
  BY InventoryType DEF Context, StoreInv, FlowInv, TypeInv, NamedInv, FilesNamed, TypeOK
<1>1. pc[p] = "swap" /\ Saving(p)
  BY SwapSaves DEF Saving
<1>2. /\ job' = job /\ inventory' = job[p].save /\ pc'[p] = job[p].then
      /\ \A q \in Process : q # p => pc'[q] = pc[q]
      /\ UNCHANGED <<dirs, staging, current, currentTmp, published>>
  BY SwapSaves
<1>3. CASE Critical(p)
  <2>0. ~Removing(p) /\ ~Removing(p)' /\ \A i \in inventory.installs : dirs[i] \in Build
    BY <1>1, <1>2, <1>3, AllWhole DEF Critical, Removing
  <2>1. CASE job[p].then = "stage"
    <3>1. Numbering(p) /\ InstallInv(p)
      BY <1>0, <1>1, <2>1 DEF Numbering, ProcInv
    <3>2. /\ job[p].content \in Build /\ job[p].target \notin published
          /\ inventory'.installs = inventory.installs
          /\ inventory.next <= inventory'.next /\ job[p].target[2] < inventory'.next
      BY <1>1, <1>2, <3>1 DEF InstallInv
    <3>3. \A i \in published : i[2] < inventory'.next
      <4> SUFFICES ASSUME NEW i \in published PROVE i[2] < inventory'.next
        OBVIOUS
      <4>1. i[2] \in Nat
        BY <1>0 DEF TypeOK, Instance
      <4>2. inventory \in Inventory /\ job[p].save \in Inventory
        BY <1>0, JobType DEF TypeOK
      <4>3. inventory.next \in Nat /\ inventory'.next \in Nat
        BY <1>2, <4>2 DEF Inventory
      <4> QED BY <1>0, <3>2, <4>1, <4>3 DEF DiskInv
    <3>4. ProcInv(p)'
      BY <1>2, <2>0, <2>1, <3>2 DEF ProcInv, InstallInv, RemoveInv, Numbering, Recording, Saving
    <3>5. ASSUME NEW q \in Process, q # p PROVE ProcInv(q)'
      BY <1>2, <1>3, <3>2, <3>5, Company, KeepUse
    <3>6. DiskInv'
      <4>1. ASSUME NEW q \in Process, pc'[q] = "flipSwap" PROVE pc[q] = "flipSwap"
        BY <1>2, <2>1, <4>1
      <4> QED BY <1>0, <1>2, <2>0, <3>2, <3>3, <4>1, WholeDisk DEF DiskInv
    <3> QED BY <3>4, <3>5, <3>6 DEF StoreInv
  <2>2. CASE job[p].then = "flip"
    <3>1. Recording(p) /\ InstallInv(p)
      BY <1>0, <1>1, <2>2 DEF Recording, ProcInv
    <3>2. /\ job[p].target \in published /\ dirs[job[p].target] \in Build
          /\ inventory' = [inventory EXCEPT !.installs = @ \cup {job[p].target}]
      BY <1>1, <1>2, <3>1 DEF InstallInv
    <3>3. /\ inventory'.installs = inventory.installs \cup {job[p].target}
          /\ inventory'.next = inventory.next
      BY <1>0, <3>2 DEF Inventory
    <3>4. ProcInv(p)'
      BY <1>2, <2>0, <2>2, <3>3 DEF ProcInv, InstallInv, RemoveInv, Numbering, Recording, Saving
    <3>5. ASSUME NEW q \in Process, q # p PROVE ProcInv(q)'
      BY <1>2, <1>3, <3>3, <3>5, Company, KeepUse
    <3>6. DiskInv'
      <4>1. ASSUME NEW q \in Process, pc'[q] = "flipSwap" PROVE pc[q] = "flipSwap"
        BY <1>2, <2>2, <4>1
      <4> QED BY <1>0, <1>2, <2>0, <3>2, <3>3, <4>1, WholeDisk DEF DiskInv
    <3> QED BY <3>4, <3>5, <3>6 DEF StoreInv
  <2> QED BY <1>0, <1>1, <1>3, <2>1, <2>2 DEF Flow
<1>4. CASE Removing(p)
  <2>0. RemoveInv(p) /\ ~Critical(p) /\ Removing(p)'
    BY <1>0, <1>2, <1>4 DEF ProcInv, Critical, Removing
  <2>1. inventory' = [inventory EXCEPT !.installs = @ \ job[p].victims]
    BY <1>1, <1>2, <1>4, <2>0 DEF RemoveInv
  <2>2. inventory'.installs = inventory.installs \ job[p].victims /\ inventory'.next = inventory.next
    BY <1>0, <2>1 DEF Inventory
  <2>3. /\ pc'[p] = IF job[p].cmd = "prune" THEN "sweep" ELSE "nextId"
        /\ Doomed(p)' = {}
    BY <1>0, <1>1, <1>2, <1>4 DEF Flow, Doomed, Removing
  <2>4. \A q \in Process : q # p => pc[q] = "idle" /\ job[q].cmd = "none" /\ Doomed(q) = {}
    BY <1>4, Company DEF Doomed, Removing
  <2>5. Doomed(p) = job[p].victims
    BY <1>1, <1>4 DEF Doomed
  <2>6. \A i \in inventory'.installs : dirs[i] \in Build
    BY <1>0, <2>2, <2>4, <2>5 DEF DiskInv
  <2>7. DiskInv'
    <3>1. current \in inventory'.installs \cup {None}
      BY <1>0, <1>4, <2>0, <2>2 DEF DiskInv, RemoveInv
    <3>2. \A q \in Process : pc'[q] # "flipSwap"
      BY <1>2, <2>3, <2>4
    <3> QED BY <1>0, <1>2, <2>2, <2>6, <3>1, <3>2, WholeDisk DEF DiskInv
  <2>8. ProcInv(p)'
    <3>1. InstallInv(p)' /\ ~Saving(p)' /\ pc'[p] \notin {"swap", "flip"}
      BY <2>3 DEF InstallInv, Numbering, Recording, Saving
    <3>2. RemoveInv(p)'
      BY <1>2, <1>4, <2>0, <2>3, <3>1 DEF RemoveInv
    <3> QED BY <3>1, <3>2 DEF ProcInv
  <2>9. ASSUME NEW q \in Process, q # p PROVE ProcInv(q)'
    BY <1>2, <2>4, <2>9, KeepIdle
  <2> QED BY <2>7, <2>8, <2>9 DEF StoreInv
<1> QED BY <1>0, <1>1, <1>3, <1>4, PhaseCommand

LEMMA StoreFlip ==
    ASSUME Context, NEW p \in Process, FlipWrite(p) \/ FlipSwap(p)
    PROVE  StoreInv'
<1>0. TypeOK /\ Flow(p) /\ ProcInv(p) /\ DiskInv
  BY DEF Context, StoreInv, FlowInv, TypeInv
<1>1. /\ pc[p] \in {"flip", "flipSwap"} /\ job' = job
      /\ \A q \in Process : q # p => pc'[q] = pc[q]
      /\ UNCHANGED <<inventory, inventoryTmp, dirs, staging, published>>
  BY <1>0 DEF FlipWrite, FlipSwap, Goto, TypeOK
<1>2. ~Removing(p)
  BY <1>0, <1>1, PhaseCommand DEF Critical, Removing
<1>3. \A i \in inventory.installs : dirs[i] \in Build
  BY <1>1, <1>2, AllWhole
<1>4. ASSUME NEW q \in Process, q # p PROVE ProcInv(q)'
  BY <1>1, <1>4, Company, KeepQuiet
<1>5. pc'[p] \in {"flipSwap", "done"}
  BY <1>0 DEF FlipWrite, FlipSwap, Goto, TypeOK
<1>6. ProcInv(p)'
  BY <1>1, <1>2, <1>5 DEF ProcInv, InstallInv, RemoveInv, Numbering, Recording, Saving, Removing
<1>7. DiskInv'
  <2>1. CASE FlipWrite(p)
    <3>1. current' = current /\ currentTmp' = job[p].target /\ job[p].target \in inventory.installs
      BY <1>0, <2>1 DEF FlipWrite, ProcInv
    <3> QED BY <1>0, <1>1, <1>3, <3>1, WholeDisk DEF DiskInv
  <2>2. CASE FlipSwap(p)
    <3>1. currentTmp \in inventory.installs \cup {None} /\ currentTmp' = None
      BY <1>0, <2>2 DEF FlipSwap, DiskInv
    <3>2. current' \in inventory.installs \cup {None}
      BY <1>0, <2>2, <3>1 DEF FlipSwap, DiskInv
    <3> QED BY <1>0, <1>1, <1>3, <3>1, <3>2, WholeDisk DEF DiskInv
  <2> QED BY <2>1, <2>2
<1> QED BY <1>4, <1>6, <1>7 DEF StoreInv

\* The steps of an install between its build and its save of the number leave
\* all files alone.
LEMMA StorePlan ==
    ASSUME Context, NEW p \in Process, BuildAndCompare(p) \/ Alloc(p) \/ Record(p)
    PROVE  StoreInv'
<1>0. /\ TypeOK /\ Flow(p) /\ ProcInv(p) /\ DiskInv /\ inventory \in Inventory
  BY DEF Context, StoreInv, FlowInv, TypeInv, TypeOK
<1>1. /\ pc[p] \in {"build", "alloc", "record"}
      /\ UNCHANGED <<inventory, inventoryTmp, dirs, staging, current, currentTmp, published>>
  BY DEF BuildAndCompare, Alloc, Record, files
<1>2. Critical(p) /\ ~Removing(p)
  BY <1>0, <1>1, PhaseCommand DEF Critical, Removing
<1>3. \A i \in inventory.installs : dirs[i] \in Build
  BY <1>1, <1>2, AllWhole
<1>4. \A q \in Process : q # p => pc'[q] = pc[q] /\ job'[q] = job[q]
  BY <1>0, OthersKeep DEF Step
<1>5. ASSUME NEW q \in Process, q # p PROVE ProcInv(q)'
  BY <1>1, <1>4, <1>5, Company, KeepQuiet
<1>6. pc'[p] \in {"flip", "alloc", "done", "write"} /\ job'[p].cmd = job[p].cmd
  BY <1>0, BuildEffect, AllocEffect, RecordEffect
<1>7. DiskInv'
  <2>1. ASSUME NEW q \in Process, pc'[q] = "flipSwap" PROVE pc[q] = "flipSwap"
    BY <1>4, <1>6, <2>1
  <2> QED BY <1>0, <1>1, <1>3, <2>1, WholeDisk DEF DiskInv
<1>8. RemoveInv(p)'
  BY <1>2, <1>6 DEF RemoveInv, Removing
<1>9. ProcInv(p)'
  <2>1. CASE BuildAndCompare(p)
    <3>1. pc'[p] = "flip" => job'[p].target \in inventory.installs
      BY <1>0, <2>1, BuildEffect
    <3>2. pc'[p] = "alloc" => job'[p].content \in Build
      BY <1>0, <2>1, BuildEffect
    <3>3. pc'[p] \in {"flip", "alloc", "done"}
      BY <1>0, <2>1, BuildEffect
    <3> QED BY <1>1, <1>8, <3>1, <3>2, <3>3 DEF ProcInv, InstallInv, Numbering, Recording, Saving
  <2>2. CASE Alloc(p)
    <3>1. /\ job'[p].content = job[p].content /\ job[p].content \in Build
          /\ job'[p].target = <<job[p].id, NextNumber>> /\ job'[p].then = "stage"
          /\ job'[p].save.installs = inventory.installs /\ job'[p].save.next = NextNumber + 1
          /\ pc'[p] = "write"
      BY <1>0, <2>2, AllocEffect DEF Alloc, ProcInv, InstallInv
    <3>2. /\ inventory.next \in Nat /\ NextNumber \in Nat /\ inventory.next <= NextNumber
      BY <1>0 DEF Inventory, NextNumber
    <3>3. job'[p].target[2] = NextNumber
      BY <3>1
    <3>4. job'[p].target \notin published
      <4> SUFFICES ASSUME job'[p].target \in published PROVE FALSE
        OBVIOUS
      <4>1. NextNumber < inventory.next
        BY <1>0, <3>3 DEF DiskInv
      <4> QED BY <3>2, <4>1
    <3>5. inventory.next <= job'[p].save.next /\ job'[p].target[2] < job'[p].save.next
      BY <3>1, <3>2, <3>3
    <3> QED BY <1>1, <1>8, <3>1, <3>4, <3>5 DEF ProcInv, InstallInv, Numbering, Recording, Saving
  <2>3. CASE Record(p)
    <3>1. /\ job'[p].target = job[p].target /\ job'[p].then = "flip"
          /\ job'[p].save = [inventory EXCEPT !.installs = @ \cup {job[p].target}]
          /\ pc'[p] = "write"
      BY <1>0, <2>3, RecordEffect
    <3>2. job[p].target \in published /\ dirs[job[p].target] \in Build
      BY <1>0, <2>3 DEF Record, ProcInv, InstallInv, Recording
    <3> QED BY <1>1, <1>8, <3>1, <3>2 DEF ProcInv, InstallInv, Numbering, Recording, Saving
  <2> QED BY <2>1, <2>2, <2>3
<1> QED BY <1>5, <1>7, <1>9 DEF StoreInv

\* place: the directory that is cleared and filled was never published before.
LEMMA PlaceTarget ==
    ASSUME Context, NEW p \in Process, pc[p] \in {"stage", "clear", "publish"}
    PROVE  /\ job[p].content \in Build /\ job[p].target \notin published
           /\ job[p].target[2] < inventory.next /\ job[p].target \in Instance
           /\ dirs[job[p].target] = Absent /\ job[p].id \in Id
<1>0. TypeOK /\ ProcInv(p) /\ DiskInv
  BY DEF Context, StoreInv, TypeInv
<1>1. Numbering(p) /\ ~Saving(p) /\ HasTarget(p)
  BY DEF Numbering, Saving, HasTarget, TargetPhase
<1>2. job[p].target \in Instance /\ job[p].id \in Id
  BY <1>0, <1>1, JobType DEF Context, TypeInv, TypeOK
<1> QED BY <1>0, <1>1, <1>2 DEF ProcInv, InstallInv, DiskInv

LEMMA StorePlace ==
    ASSUME Context, NEW p \in Process, Stage(p) \/ ClearTarget(p) \/ Publish(p)
    PROVE  StoreInv'
<1>0. /\ TypeOK /\ Flow(p) /\ ProcInv(p) /\ DiskInv /\ inventory.installs \subseteq published
      /\ published \subseteq Instance
  BY DEF Context, StoreInv, FlowInv, TypeInv, NamedInv, FilesNamed, TypeOK
<1>1. /\ pc[p] \in {"stage", "clear", "publish"} /\ job' = job
      /\ \A q \in Process : q # p => pc'[q] = pc[q]
      /\ UNCHANGED <<inventory, inventoryTmp, current, currentTmp>>
  BY <1>0 DEF Stage, ClearTarget, Publish, Goto, TypeOK
<1>2. Critical(p) /\ ~Removing(p) /\ ~Removing(p)'
  BY <1>0, <1>1, PhaseCommand DEF Critical, Removing
<1>3. \A i \in inventory.installs : dirs[i] \in Build
  BY <1>1, <1>2, AllWhole
<1>4. /\ job[p].content \in Build /\ job[p].target \notin published
      /\ job[p].target[2] < inventory.next /\ job[p].target \in Instance
      /\ dirs[job[p].target] = Absent /\ job[p].id \in Id
  BY <1>1, PlaceTarget
<1>5. ASSUME NEW q \in Process, q # p PROVE ProcInv(q)'
  BY <1>1, <1>2, <1>5, Company, KeepUse
<1>6. pc'[p] \in {"clear", "done", "publish", "record"}
  BY <1>0 DEF Stage, ClearTarget, Publish, Goto, TypeOK
<1>7. ASSUME NEW q \in Process, pc'[q] = "flipSwap" PROVE pc[q] = "flipSwap"
  BY <1>1, <1>6, <1>7
<1>8. RemoveInv(p)'
  BY <1>2 DEF RemoveInv
<1>9. CASE Stage(p)
  <2>1. UNCHANGED <<dirs, published>>
    BY <1>9 DEF Stage
  <2>2. DiskInv'
    BY <1>0, <1>1, <1>3, <1>7, <2>1, WholeDisk DEF DiskInv
  <2>3. pc'[p] = "done" \/ (pc'[p] = "clear" /\ staging'[job[p].id] = job[p].content)
    BY <1>0, <1>4, <1>9 DEF Stage, Goto, TypeOK
  <2>4. ProcInv(p)'
    BY <1>1, <1>4, <1>8, <2>1, <2>3 DEF ProcInv, InstallInv, Numbering, Recording, Saving
  <2> QED BY <1>5, <2>2, <2>4 DEF StoreInv
<1>10. CASE ClearTarget(p)
  <2>1. /\ UNCHANGED <<staging, published>> /\ dirs' = [dirs EXCEPT ![job[p].target] = Absent]
        /\ pc[p] = "clear" /\ pc'[p] = "publish"
    BY <1>0, <1>10 DEF ClearTarget, Goto, TypeOK
  <2>2. dirs' = dirs
    BY <1>0, <1>4, <2>1 DEF TypeOK
  <2>3. DiskInv'
    BY <1>0, <1>1, <1>3, <1>7, <2>1, <2>2, WholeDisk DEF DiskInv
  <2>4. staging[job[p].id] \in Build
    BY <1>0, <2>1 DEF ProcInv, InstallInv
  <2>5. ProcInv(p)'
    BY <1>1, <1>4, <1>8, <2>1, <2>2, <2>4 DEF ProcInv, InstallInv, Numbering, Recording, Saving
  <2> QED BY <1>5, <2>3, <2>5 DEF StoreInv
<1>11. CASE Publish(p)
  <2>1. /\ dirs' = [dirs EXCEPT ![job[p].target] = staging[job[p].id]]
        /\ published' = published \cup {job[p].target}
        /\ pc[p] = "publish" /\ pc'[p] = "record"
    BY <1>0, <1>11 DEF Publish, Goto, TypeOK
  <2>2. staging[job[p].id] \in Build
    BY <1>0, <2>1 DEF ProcInv, InstallInv
  <2>3. /\ dirs'[job[p].target] \in Build
        /\ \A i \in Instance : i # job[p].target => dirs'[i] = dirs[i]
    BY <1>0, <1>4, <2>1, <2>2 DEF TypeOK
  <2>4. DiskInv'
    <3>1. \A i \in Instance : i \notin published' => dirs'[i] = Absent
      BY <1>0, <2>1, <2>3 DEF DiskInv
    <3>2. \A i \in published' : i[2] < inventory'.next
      BY <1>0, <1>1, <1>4, <2>1 DEF DiskInv
    <3>3. \A i \in inventory'.installs : dirs'[i] \in Build
      BY <1>0, <1>1, <1>3, <2>3
    <3> QED BY <1>0, <1>1, <1>7, <3>1, <3>2, <3>3, WholeDisk DEF DiskInv
  <2>5. ProcInv(p)'
    BY <1>1, <1>8, <2>1, <2>3 DEF ProcInv, InstallInv, Numbering, Recording, Saving
  <2> QED BY <1>5, <2>4, <2>5 DEF StoreInv
<1> QED BY <1>9, <1>10, <1>11

\* remove and gc: what they delete is not `current`, and its record goes next.
LEMMA StoreRemove ==
    ASSUME Context, NEW p \in Process, NextId(p) \/ Sweep(p) \/ Forget(p)
    PROVE  StoreInv'
<1>0. /\ TypeOK /\ Flow(p) /\ ProcInv(p) /\ DiskInv
      /\ inventory.installs \subseteq published /\ inventory.installs \subseteq Instance
      /\ job[p].queue \subseteq Instance
  BY JobType, InventoryType
    DEF Context, StoreInv, FlowInv, TypeInv, NamedInv, FilesNamed, TypeOK
<1>1. /\ pc[p] \in {"nextId", "sweep", "forget"}
      /\ UNCHANGED <<inventory, inventoryTmp, staging, current, currentTmp, published>>
  BY DEF NextId, Sweep, Forget, files
<1>2. Removing(p) /\ RemoveInv(p)
  BY <1>0, <1>1, PhaseCommand DEF ProcInv
<1>3. \A q \in Process : q # p => pc'[q] = pc[q] /\ job'[q] = job[q]
  BY <1>0, OthersKeep DEF Step
<1>4. \A q \in Process : q # p => pc[q] = "idle" /\ job[q].cmd = "none" /\ Doomed(q) = {}
  BY <1>2, Company DEF Doomed, Removing
<1>5. ASSUME NEW q \in Process, q # p PROVE ProcInv(q)'
  BY <1>3, <1>4, <1>5, KeepIdle
<1>6. /\ pc'[p] \in {"done", "sweep", "forget", "nextId", "write"} /\ job'[p].cmd = job[p].cmd
      /\ Removing(p)'
  BY <1>0, <1>2, NextIdEffect, SweepEffect, ForgetEffect DEF Removing
<1>7. \A i \in inventory.installs : dirs[i] \in Build \/ i \in Doomed(p)
  BY <1>0, <1>4 DEF DiskInv
\* The invariant with the one removal spelt out.
<1>8. ASSUME \A i \in Instance : i \notin published => dirs'[i] = Absent,
             \A i \in inventory.installs : dirs'[i] \in Build \/ i \in Doomed(p)'
      PROVE  DiskInv'
  <2>1. \A q \in Process : pc'[q] # "flipSwap"
    BY <1>3, <1>4, <1>6
  <2> QED BY <1>0, <1>1, <1>8, <2>1 DEF DiskInv
<1>9. ASSUME current \notin job'[p].queue \cup job'[p].victims,
             current = None \/ current[1] \notin job'[p].ids,
             job'[p].cmd = "remove" => job'[p].queue \subseteq job'[p].victims,
             pc'[p] = "write" =>
               /\ job'[p].save = [inventory EXCEPT !.installs = @ \ job'[p].victims]
               /\ job'[p].then \notin {"stage", "flip"},
             ~DirsBusy => \A i \in Doomed(p)' \cap inventory.installs : dirs'[i] = Absent
      PROVE  ProcInv(p)'
  <2>1. RemoveInv(p)'
    BY <1>1, <1>6, <1>9 DEF RemoveInv, Saving
  <2>2. InstallInv(p)'
    BY <1>6, <1>9 DEF InstallInv, Numbering, Recording, Saving
  <2> QED BY <1>6, <2>1, <2>2 DEF ProcInv
<1>10. CASE NextId(p)
  <2>0. pc[p] = "nextId" /\ UNCHANGED dirs /\ Doomed(p) = {}
    BY <1>10 DEF NextId, files, Doomed
  <2>1. CASE pc'[p] = "done" /\ job' = job
    <3>1. Doomed(p)' = {}
      BY <2>1 DEF Doomed
    <3>2. ProcInv(p)'
      BY <1>2, <1>9, <2>1, <3>1 DEF RemoveInv
    <3>3. DiskInv'
      BY <1>0, <1>7, <1>8, <2>0 DEF DiskInv
    <3> QED BY <1>5, <3>2, <3>3 DEF StoreInv
  <2>2. ASSUME NEW id \in job[p].ids, pc'[p] = "sweep", job'[p].ids = job[p].ids \ {id},
               job'[p].queue = RecordedOf(id), job'[p].victims = {i \in Instance : i[1] = id}
        PROVE  StoreInv'
    <3>1. current \notin job'[p].queue \cup job'[p].victims
      <4>1. current # None => current[1] # id
        BY <1>2 DEF RemoveInv
      <4>2. None \notin Instance
        BY ConstantsAssumption DEF Instance
      <4> QED BY <1>0, <2>2, <4>1, <4>2 DEF RecordedOf
    <3>2. current = None \/ current[1] \notin job'[p].ids
      BY <1>2, <2>2 DEF RemoveInv
    <3>3. job'[p].queue \subseteq job'[p].victims
      BY <1>0, <2>2 DEF RecordedOf
    <3>4. Doomed(p)' \cap inventory.installs = {}
      BY <2>2 DEF Doomed, RecordedOf
    <3>5. ProcInv(p)'
      BY <1>9, <2>2, <3>1, <3>2, <3>3, <3>4
    <3>6. DiskInv'
      BY <1>0, <1>7, <1>8, <2>0 DEF DiskInv
    <3> QED BY <1>5, <3>5, <3>6 DEF StoreInv
  <2> QED BY <1>0, <1>10, <2>1, <2>2, NextIdEffect
<1>11. CASE Sweep(p)
  <2>0. pc[p] = "sweep" /\ job'[p].ids = job[p].ids
    BY <1>0, <1>11, SweepEffect DEF Sweep
  <2>1. CASE /\ job[p].queue = {} /\ job' = job /\ dirs' = dirs
             /\ pc'[p] = IF job[p].cmd = "prune" THEN "done" ELSE "forget"
    <3>1. Doomed(p)' = Doomed(p)
      BY <1>2, <2>0, <2>1 DEF Doomed, Removing
    <3>2. ProcInv(p)'
      BY <1>1, <1>2, <1>9, <2>1, <3>1 DEF RemoveInv
    <3>3. DiskInv'
      BY <1>0, <1>7, <1>8, <2>1, <3>1 DEF DiskInv
    <3> QED BY <1>5, <3>2, <3>3 DEF StoreInv
  <2>2. ASSUME NEW i \in job[p].queue,
               \E left \in DirState : /\ dirs' = [dirs EXCEPT ![i] = left]
                                      /\ ~DirsBusy \/ dirs[i] = Absent => left = Absent,
               job'[p].queue = job[p].queue \ {i},
               job'[p].victims = IF job[p].cmd = "prune" THEN {i} ELSE job[p].victims,
               pc'[p] = IF job[p].cmd = "prune" THEN "forget" ELSE "sweep"
        PROVE  StoreInv'
    <3>0. PICK left \in DirState : /\ dirs' = [dirs EXCEPT ![i] = left]
                                   /\ ~DirsBusy \/ dirs[i] = Absent => left = Absent
      BY <2>2
    <3>9. /\ i \in job[p].queue /\ i \in Instance
          /\ job'[p].queue = job[p].queue \ {i}
          /\ job'[p].victims = IF job[p].cmd = "prune" THEN {i} ELSE job[p].victims
          /\ pc'[p] = IF job[p].cmd = "prune" THEN "forget" ELSE "sweep"
      BY <1>0, <2>2
    <3>1. /\ dirs'[i] = left /\ \A k \in Instance : k # i => dirs'[k] = dirs[k]
      BY <1>0, <3>0, <3>9 DEF TypeOK
    <3>2. /\ Doomed(p)' = Doomed(p) \cup {i}
      <4>1. CASE job[p].cmd = "prune"
        BY <1>2, <1>6, <2>0, <3>9, <4>1 DEF Doomed, Removing
      <4>2. CASE job[p].cmd = "remove"
        <5>1. i \in job[p].victims
          BY <1>2, <4>2 DEF RemoveInv
        <5> QED BY <1>2, <1>6, <2>0, <3>9, <4>2, <5>1 DEF Doomed, Removing
      <4> QED BY <1>2, <4>1, <4>2 DEF Removing
    <3>3. \A k \in inventory.installs : dirs'[k] \in Build \/ k \in Doomed(p)'
      BY <1>0, <1>7, <3>1, <3>2
    <3>4. ~DirsBusy => \A k \in Doomed(p)' \cap inventory.installs : dirs'[k] = Absent
      BY <1>0, <1>2, <3>9, <3>0, <3>1, <3>2 DEF RemoveInv
    <3>5. /\ current \notin job'[p].queue \cup job'[p].victims
          /\ current = None \/ current[1] \notin job'[p].ids
          /\ job'[p].cmd = "remove" => job'[p].queue \subseteq job'[p].victims
      BY <1>2, <1>6, <2>0, <3>9 DEF RemoveInv
    <3>6. ProcInv(p)'
      BY <1>9, <3>9, <3>4, <3>5
    <3>7. \A k \in Instance : k \notin published => dirs'[k] = Absent
      BY <1>0, <3>9, <3>0, <3>1 DEF DiskInv, TypeOK
    <3>8. DiskInv'
      BY <1>8, <3>3, <3>7
    <3> QED BY <1>5, <3>6, <3>8 DEF StoreInv
  <2>3. TypeOK
    BY <1>0
  <2> QED BY <1>11, <2>1, <2>2, <2>3, SweepEffect
<1>12. CASE Forget(p)
  <2> DEFINE back == IF job[p].cmd = "prune" THEN "sweep" ELSE "nextId"
  <2>0. /\ pc[p] = "forget" /\ dirs' = dirs
        /\ job'[p].ids = job[p].ids /\ job'[p].queue = job[p].queue /\ job'[p].victims = job[p].victims
        /\ Doomed(p) = job[p].victims
    BY <1>0, <1>2, <1>12, ForgetEffect DEF Forget, files, Doomed
  <2>1. CASE pc'[p] = back /\ inventory.installs \ job[p].victims = inventory.installs
    <3>1. inventory.installs \cap Doomed(p) = {}
      BY <2>0, <2>1
    <3>2. Doomed(p)' = {}
      BY <1>6, <2>1 DEF Doomed
    <3>3. ProcInv(p)'
      BY <1>2, <1>6, <1>9, <2>0, <2>1, <3>2 DEF RemoveInv
    <3>4. DiskInv'
      BY <1>0, <1>7, <1>8, <2>0, <3>1 DEF DiskInv
    <3> QED BY <1>5, <3>3, <3>4 DEF StoreInv
  <2>2. CASE /\ pc'[p] = "write" /\ job'[p].then = back
             /\ job'[p].save = [inventory EXCEPT !.installs = @ \ job[p].victims]
    <3>1. Doomed(p)' = Doomed(p)
      BY <1>6, <2>0, <2>2 DEF Doomed
    <3>2. job'[p].then \notin {"stage", "flip"}
      BY <2>2
    <3>3. ProcInv(p)'
      BY <1>2, <1>6, <1>9, <2>0, <2>2, <3>1, <3>2 DEF RemoveInv
    <3>4. DiskInv'
      BY <1>0, <1>7, <1>8, <2>0, <3>1 DEF DiskInv
    <3> QED BY <1>5, <3>3, <3>4 DEF StoreInv
  <2> QED BY <1>0, <1>12, <2>1, <2>2, ForgetEffect
<1> QED BY <1>10, <1>11, <1>12

LEMMA StoreEnd ==
    ASSUME Context, RemoveEnds, NEW p \in Process, Finish(p) \/ Crash(p)
    PROVE  StoreInv'
<1>0. /\ pc[p] # "idle" /\ pc'[p] = "idle" /\ job'[p].cmd = "none" /\ TypeOK /\ DiskInv
      /\ UNCHANGED <<inventory, inventoryTmp, dirs, staging, current, currentTmp, published>>
  BY EndEffect DEF Context, TypeInv, StoreInv
<1>1. \A q \in Process : q # p => pc'[q] = pc[q] /\ job'[q] = job[q]
  BY <1>0, OthersKeep DEF Step
<1>2. Removing(p) => pc[p] = "done"
  BY <1>0 DEF RemoveEnds
<1>3. \A q \in Process : Doomed(q) = {}
  <2>1. Doomed(p) = {}
    BY <1>2 DEF Doomed
  <2>2. ASSUME NEW q \in Process, q # p PROVE Doomed(q) = {}
    BY <1>0, <2>2, Company DEF Doomed
  <2> QED BY <2>1, <2>2
<1>4. \A i \in inventory.installs : dirs[i] \in Build
  BY <1>0, <1>3 DEF DiskInv
<1>5. DiskInv'
  <2>1. ASSUME NEW q \in Process, pc'[q] = "flipSwap" PROVE pc[q] = "flipSwap"
    BY <1>0, <1>1, <2>1
  <2> QED BY <1>0, <1>4, <2>1, WholeDisk DEF DiskInv
<1>6. ASSUME NEW q \in Process, q # p PROVE ProcInv(q)'
  BY <1>0, <1>1, <1>6, Company, KeepQuiet
<1>7. ProcInv(p)'
  BY <1>0, KeepIdle
<1> QED BY <1>5, <1>6, <1>7 DEF StoreInv

LEMMA StoreStep ==
    ASSUME Context, RemovesAlone', [Next]_vars, [RemoveEnds]_vars
    PROVE  StoreInv'
<1>1. CASE UNCHANGED vars \/ RemoveStaleLock
  <2>1. UNCHANGED <<inventory, inventoryTmp, dirs, staging, current, currentTmp, pc, job, published>>
    BY <1>1 DEF vars, RemoveStaleLock
  <2>2. \A q \in Process : Doomed(q)' = Doomed(q)
    BY <2>1 DEF Doomed, Removing
  <2>3. DiskInv'
    BY <2>1, <2>2 DEF Context, StoreInv, DiskInv
  <2>4. ASSUME NEW q \in Process PROVE ProcInv(q)'
    <3>1. ProcInv(q)
      BY DEF Context, StoreInv
    <3> QED BY <2>1, <2>2, <3>1
        DEF ProcInv, InstallInv, RemoveInv, Numbering, Recording, Saving, Removing
  <2> QED BY <2>3, <2>4 DEF StoreInv
<1>2. ASSUME NEW p \in Process, Start(p) \/ Step(p) \/ Crash(p), ~UNCHANGED vars
      PROVE  StoreInv'
  <2>1. CASE Start(p)
    BY <2>1, StoreStart
  <2>2. CASE Finish(p) \/ Crash(p)
    BY <1>2, <2>2, StoreEnd
  <2>3. CASE Step(p) /\ ~Finish(p)
    BY <2>3, StoreWriteTmp, StoreSwapTmp, StoreFlip, StorePlan, StorePlace, StoreRemove DEF Step
  <2> QED BY <1>2, <2>1, <2>2, <2>3
<1> QED BY <1>1, <1>2 DEF Next

LEMMA ContextAlways == ASSUME ~RemoveForced PROVE Spec /\ OrderlyRemovals => []Context
<1>1. TypeInv /\ NamedInv /\ InstallersExclude /\ FlowInv /\ RemovesAlone /\ StoreInv => Context
  BY DEF Context
<1>2. Context => StoreInv
  BY DEF Context
<1>3. Context /\ RemovesAlone' /\ [Next]_vars /\ [RemoveEnds]_vars => StoreInv'
  BY StoreStep
<1> QED BY <1>1, <1>2, <1>3, InitStore, TypeInvariant, NamedInvariant, InstallersAlone, FlowInvariant,
           PTL DEF Spec, OrderlyRemovals

\* write_current, remove and gc: where removals are not forced, run alone and
\* run to their end, the pointer the shims follow names a whole directory, with
\* any number of installs and switches that overlap and are killed anywhere, and
\* also where a directory cannot be deleted.
THEOREM PointerIsUsable == ~RemoveForced => (Spec /\ OrderlyRemovals => []CurrentIsUsable)
<1> SUFFICES ASSUME ~RemoveForced PROVE Spec /\ OrderlyRemovals => []CurrentIsUsable
  OBVIOUS
<1>1. Context => CurrentIsUsable
  <2> SUFFICES ASSUME Context, current # None PROVE dirs[current] \in Build
    BY DEF CurrentIsUsable
  <2>1. /\ current \in inventory.installs
        /\ dirs[current] \in Build \/ \E p \in Process : current \in Doomed(p)
    BY DEF Context, StoreInv, DiskInv
  <2>2. ASSUME NEW p \in Process PROVE current \notin Doomed(p)
    BY DEF Context, StoreInv, ProcInv, RemoveInv, Doomed
  <2> QED BY <2>1, <2>2
<1> QED BY <1>1, ContextAlways, PTL

\* record_install, remove_id and gc: under the same conditions every record is
\* whole whenever no command runs.
THEOREM RecordsAreWhole == ~RemoveForced => (Spec /\ OrderlyRemovals => []RecordsMatchDisk)
<1> SUFFICES ASSUME ~RemoveForced PROVE Spec /\ OrderlyRemovals => []RecordsMatchDisk
  OBVIOUS
<1>1. Context => RecordsMatchDisk
  <2> SUFFICES ASSUME Context, \A p \in Process : pc[p] = "idle", NEW i \in inventory.installs
               PROVE  dirs[i] \in Build
    BY DEF RecordsMatchDisk
  <2>1. \A p \in Process : Doomed(p) = {}
    BY DEF Doomed
  <2> QED BY <2>1 DEF Context, StoreInv, DiskInv
<1> QED BY <1>1, ContextAlways, PTL

------------------------------------------------------------------------------
\* The store implements the catalogue of write-once instances

\* Each step is a step of the catalogue or leaves all it shows alone.
LEMMA CatalogStep ==
    ASSUME Context, ~DirsBusy, [Next]_vars
    PROVE  Catalog!Next \/ UNCHANGED Catalog!vars
<1> USE DEF Catalog!vars
<1>0. /\ TypeOK /\ DiskInv /\ inventory \in Inventory
      /\ inventory.installs \subseteq Instance /\ published \subseteq Instance
  BY InventoryType DEF Context, StoreInv, TypeInv, TypeOK
<1>1. CASE UNCHANGED <<dirs, inventory, current, published>>
  BY <1>1
<1>2. CASE UNCHANGED vars \/ RemoveStaleLock
  BY <1>1, <1>2 DEF vars, RemoveStaleLock
<1>3. ASSUME NEW p \in Process,
             \/ Start(p) \/ WriteTmp(p) \/ FlipWrite(p) \/ BuildAndCompare(p) \/ Alloc(p) \/ Stage(p)
             \/ Record(p) \/ NextId(p) \/ Forget(p) \/ Finish(p) \/ Crash(p)
      PROVE  UNCHANGED <<dirs, inventory, current, published>>
  <2>1. CASE Start(p) \/ Finish(p) \/ Crash(p)
    BY <1>0, <2>1, StartEffect, EndEffect
  <2> QED BY <1>3, <2>1 DEF WriteTmp, FlipWrite, BuildAndCompare, Alloc, Stage, Record, NextId, Forget, files
<1>4. ASSUME NEW p \in Process, SwapTmp(p) PROVE Catalog!Next \/ UNCHANGED Catalog!vars
  <2>0. /\ pc[p] = "swap" /\ Saving(p) /\ inventory' = job[p].save
        /\ UNCHANGED <<dirs, current, published>>
        /\ Flow(p) /\ ProcInv(p)
    BY <1>4, SwapSaves DEF Saving, Context, FlowInv, StoreInv
  <2>1. CASE Critical(p) /\ job[p].then = "stage"
    <3>1. inventory'.installs = inventory.installs
      BY <2>0, <2>1 DEF ProcInv, InstallInv, Numbering
    <3> QED BY <2>0, <3>1
  <2>2. CASE Critical(p) /\ job[p].then = "flip"
    <3>1. /\ job[p].target \in Instance /\ dirs[job[p].target] \in Build
          /\ inventory' = [inventory EXCEPT !.installs = @ \cup {job[p].target}]
      BY <1>0, <2>0, <2>2 DEF ProcInv, InstallInv, Recording
    <3>2. inventory'.installs = inventory.installs \cup {job[p].target}
      BY <1>0, <3>1 DEF Inventory
    <3>3. Catalog!Record(job[p].target)
      BY <2>0, <3>1, <3>2, ConstantsAssumption DEF Catalog!Record
    <3> QED BY <3>1, <3>3 DEF Catalog!Next
  <2>3. CASE Removing(p)
    <3> DEFINE gone == inventory.installs \cap job[p].victims
    <3>1. inventory' = [inventory EXCEPT !.installs = @ \ job[p].victims]
      BY <2>0, <2>3 DEF ProcInv, RemoveInv
    <3>2. inventory'.installs = inventory.installs \ gone
      BY <1>0, <3>1 DEF Inventory
    <3>3. \A i \in gone : dirs[i] = Absent
      BY <2>0, <2>3 DEF ProcInv, RemoveInv, Doomed
    <3>4. Catalog!Forget(gone)
      BY <2>0, <3>2, <3>3 DEF Catalog!Forget
    <3>5. gone \in SUBSET inventory.installs
      OBVIOUS
    <3> QED BY <3>4, <3>5 DEF Catalog!Next
  <2> QED BY <1>0, <2>0, <2>1, <2>2, <2>3, PhaseCommand DEF Flow
<1>5. ASSUME NEW p \in Process, FlipSwap(p) PROVE Catalog!Next \/ UNCHANGED Catalog!vars
  <2>1. currentTmp \in inventory.installs \cup {None}
    BY <1>0, <1>5 DEF FlipSwap, DiskInv
  <2>2. UNCHANGED <<inventory, dirs, published>>
    BY <1>5 DEF FlipSwap
  <2>3. CASE currentTmp = None
    BY <1>5, <2>2, <2>3 DEF FlipSwap
  <2>4. CASE currentTmp # None
    <3>1. Catalog!Activate(currentTmp) /\ currentTmp \in Instance
      BY <1>0, <1>5, <2>1, <2>2, <2>4 DEF FlipSwap, Catalog!Activate
    <3> QED BY <3>1 DEF Catalog!Next
  <2> QED BY <2>3, <2>4
<1>6. ASSUME NEW p \in Process, ClearTarget(p) PROVE Catalog!Next \/ UNCHANGED Catalog!vars
  <2>1. dirs' = dirs
    BY <1>0, <1>6, PlaceTarget DEF ClearTarget, TypeOK
  <2> QED BY <1>6, <2>1 DEF ClearTarget
<1>7. ASSUME NEW p \in Process, Publish(p) PROVE Catalog!Next \/ UNCHANGED Catalog!vars
  <2>1. /\ job[p].target \notin published /\ job[p].target \in Instance
        /\ staging[job[p].id] \in Build
    BY <1>7, PlaceTarget DEF Publish, Context, StoreInv, ProcInv, InstallInv
  <2>2. Catalog!Publish(job[p].target, staging[job[p].id])
    BY <1>7, <2>1 DEF Publish, Catalog!Publish
  <2> QED BY <2>1, <2>2 DEF Catalog!Next
<1>8. ASSUME NEW p \in Process, Sweep(p) PROVE Catalog!Next \/ UNCHANGED Catalog!vars
  <2>0. UNCHANGED <<inventory, current, published>> /\ job[p].queue \subseteq Instance
    BY <1>0, <1>8, JobType DEF Sweep, TypeOK
  <2>1. CASE dirs' = dirs
    BY <2>0, <2>1
  <2>2. ASSUME NEW i \in job[p].queue, dirs' = [dirs EXCEPT ![i] = Absent]
        PROVE  Catalog!Next
    <3>1. i # current
      <4>1. Removing(p) /\ RemoveInv(p)
        BY <1>0, <1>8, PhaseCommand DEF Sweep, Context, FlowInv, StoreInv, ProcInv
      <4> QED BY <4>1 DEF RemoveInv
    <3>2. Catalog!Collect(i)
      BY <2>0, <2>2, <3>1 DEF Catalog!Collect
    <3> QED BY <2>0, <3>2 DEF Catalog!Next
  <2>3. dirs' = dirs \/ \E i \in job[p].queue : dirs' = [dirs EXCEPT ![i] = Absent]
    <3>1. \/ dirs' = dirs
          \/ \E i \in job[p].queue : \E left \in DirState :
                dirs' = [dirs EXCEPT ![i] = left] /\ (~DirsBusy \/ dirs[i] = Absent => left = Absent)
      BY <1>0, <1>8, SweepEffect, Zenon
    <3> QED BY <3>1
  <2> QED BY <2>1, <2>2, <2>3
<1> QED BY <1>1, <1>2, <1>3, <1>4, <1>5, <1>6, <1>7, <1>8 DEF Next, Step

\* spec/common/PROP-019: where removals are not forced, run alone and to their
\* end, and delete what they are to delete, all commands together implement the
\* catalogue. Nothing in use is overwritten or collected, and number, directory,
\* record and pointer keep their order, with kills of installs anywhere.
THEOREM ImplementsCatalog ==
    ~RemoveForced /\ ~DirsBusy => (Spec /\ OrderlyRemovals => CatalogSpec)
<1> SUFFICES ASSUME ~RemoveForced, ~DirsBusy PROVE Spec /\ OrderlyRemovals => CatalogSpec
  OBVIOUS
<1>1. Init => Catalog!Init
  BY DEF Init, NoInventory, Catalog!Init
<1>2. Context /\ [Next]_vars => [Catalog!Next]_Catalog!vars
  BY CatalogStep
<1> QED BY <1>1, <1>2, ContextAlways, PTL DEF Spec, CatalogSpec, Catalog!Spec

------------------------------------------------------------------------------
\* The model-checked specification is an instance of these conditions.

LEMMA OrderlyStep ==
    ASSUME TypeOK, FlowInv, OrderlyNext
    PROVE  RemoveEnds
<1> SUFFICES ASSUME NEW p \in Process, Removing(p), pc'[p] = "idle" PROVE pc[p] = "done"
  BY DEF RemoveEnds
<1>0. /\ Flow(p) /\ job \in [Process -> Job] /\ pc \in [Process -> Phase]
      /\ pc[p] \in {"nextId", "sweep", "forget", "write", "swap", "done"}
      /\ Saving(p) => job[p].then \in {"sweep", "nextId"}
  BY DEF FlowInv, Flow, Removing, TypeOK
<1>1. ASSUME NEW q \in Process, Start(q) \/ Step(q) \/ (~Removing(q) /\ Crash(q)) PROVE pc[p] = "done"
  <2>1. q = p
    BY <1>0, <1>1, OthersKeep
  <2>2. ~Start(p)
    BY <1>0, StartEffect
  <2>3. CASE SwapTmp(p) \/ WriteTmp(p)
    BY <1>0, <2>3 DEF SwapTmp, WriteTmp, Goto, Saving
  <2>4. CASE NextId(p) \/ Sweep(p) \/ Forget(p)
    BY <1>0, <2>4, NextIdEffect, SweepEffect, ForgetEffect
  <2>5. CASE Finish(p)
    BY <2>5 DEF Finish
  <2>6. ~(\/ FlipWrite(p) \/ FlipSwap(p) \/ BuildAndCompare(p) \/ Alloc(p) \/ Stage(p)
          \/ ClearTarget(p) \/ Publish(p) \/ Record(p))
    BY <1>0 DEF FlipWrite, FlipSwap, BuildAndCompare, Alloc, Stage, ClearTarget, Publish, Record
  <2> QED BY <1>1, <2>1, <2>2, <2>3, <2>4, <2>5, <2>6 DEF Step
<1>2. CASE RemoveStaleLock
  BY <1>0, <1>2 DEF RemoveStaleLock
<1> QED BY <1>1, <1>2 DEF OrderlyNext

\* MCVvmStore, for all constants: its specification keeps removals alone and
\* unkilled, so that the three theorems above speak of what the run checks.
THEOREM CheckedIsOrderly == OrderlySpec => Spec /\ OrderlyRemovals
<1>1. OrderlyNext => Next /\ RemovesAlone'
  BY DEF OrderlyNext, Next
<1>2. Init => RemovesAlone
  BY DEF Init, NoJob, RemovesAlone
<1>3. RemovesAlone /\ UNCHANGED vars => RemovesAlone'
  BY DEF vars, RemovesAlone, Removing
<1>4. TypeOK /\ FlowInv /\ [OrderlyNext]_vars => [RemoveEnds]_vars
  BY OrderlyStep
<1>5. OrderlySpec => Init /\ [][OrderlyNext]_vars
  BY PTL DEF OrderlySpec
<1> QED BY <1>1, <1>2, <1>3, <1>4, <1>5, TypeCorrect, FlowInvariant, PTL DEF Spec, OrderlyRemovals

===============================================================================
