-------------------------- MODULE IndexStore_proofs --------------------------
(* Proofs about IndexStore for every number of servers, commands, packages,      *)
(* versions and names, and every combination of failures and kills.              *)
EXTENDS IndexStore, FiniteSetTheorems, TLAPS

------------------------------------------------------------------------------
\* The index in memory and its parts

LEMMA EmptyIndexType == EmptyIndex \in Index
BY DEF EmptyIndex, Index

\* The mutations of a handler or command keep the entries of an index below its rows.
LEMMA AppliedType ==
    ASSUME NEW x \in Index, NEW m \in Mutation
    PROVE  Applied(x, m) \in Index /\ Touched(m) \subseteq Entry
<1>0. /\ m.pkg \in Package /\ m.ver \in Version
      /\ m.do \in {"upsert", "deleteVersion", "deletePackage"}
      /\ x.rows \subseteq Package /\ x.entries \subseteq Entry
      /\ \A e \in x.entries : e[1] \in x.rows
  BY DEF Mutation, Index
<1>1. Touched(m) \subseteq Entry
  BY <1>0 DEF Touched, Entry
<1>2. CASE m.do = "upsert"
  <2> DEFINE y == [rows |-> x.rows \cup {m.pkg}, entries |-> x.entries \cup {<<m.pkg, m.ver>>}]
  <2>1. y \in Index
    BY <1>0 DEF Index, Entry
  <2>2. Applied(x, m) = y
    BY <1>2 DEF Applied
  <2> QED BY <1>1, <2>1, <2>2
<1>3. CASE m.do = "deleteVersion"
  <2> DEFINE y == [x EXCEPT !.entries = @ \ {<<m.pkg, m.ver>>}]
  <2>1. y \in Index
    BY <1>0 DEF Index
  <2>2. Applied(x, m) = y
    BY <1>3 DEF Applied
  <2> QED BY <1>1, <2>1, <2>2
<1>4. CASE m.do = "deletePackage"
  <2> DEFINE y == [rows |-> x.rows \ {m.pkg}, entries |-> {e \in x.entries : e[1] # m.pkg}]
  <2>1. y \in Index
    BY <1>0 DEF Index
  <2>2. Applied(x, m) = y
    BY <1>4 DEF Applied
  <2> QED BY <1>1, <2>1, <2>2
<1> QED BY <1>0, <1>2, <1>3, <1>4

\* A by-name file is an index of its own.
LEMMA PartType ==
    ASSUME NEW x \in Index, NEW n \in Name
    PROVE  Part(x, n) \in Index \cup {None}
<1> DEFINE rows == {p \in x.rows : NameOf[p] = n}
           y == [rows |-> rows, entries |-> {e \in x.entries : NameOf[e[1]] = n}]
<1>1. y \in Index
  BY DEF Index
<1>2. Part(x, n) = None \/ Part(x, n) = y
  BY DEF Part
<1> QED BY <1>1, <1>2

LEMMA NotNone == ASSUME NEW x \in Index PROVE x # None
<1>1. x \in [rows : SUBSET Package, entries : SUBSET (Package \X Version)]
  BY DEF Index, Entry
<1> QED BY <1>1, IndexAssumption

\* What a restart or a command reads back is an index again.
LEMMA LoadedType ==
    ASSUME byName \in [Name -> Index \cup {None}]
    PROVE  Loaded \in Index
<1>1. \A n \in Files : byName[n] \in Index
  BY DEF Files
<1>2. \A n \in Files : /\ byName[n].rows \subseteq Package /\ byName[n].entries \subseteq Entry
                       /\ \A e \in byName[n].entries : e[1] \in byName[n].rows
  BY <1>1 DEF Index
<1> DEFINE r == UNION {byName[n].rows : n \in Files}
           es == UNION {byName[n].entries : n \in Files}
<1>3. r \subseteq Package /\ es \subseteq Entry
  BY <1>2
<1>4. \A e \in es : e[1] \in r
  BY <1>2
<1>5. [rows |-> r, entries |-> es] \in Index
  <2> HIDE DEF r, es
  <2> QED BY <1>3, <1>4 DEF Index
<1> QED BY <1>5 DEF Loaded

LEMMA FilesFinite == Cardinality(Files) \in Nat
<1>1. Files \subseteq Name /\ IsFiniteSet(Name)
  BY IndexAssumption DEF Files
<1>2. IsFiniteSet(Files)
  BY <1>1, FS_Subset
<1> QED BY <1>2, FS_CardinalityType

LEMMA ManifestType ==
    ASSUME NEW x \in Index, NEW k \in Nat
    PROVE  Manifest(x, k) \in [names : [Name -> Index \cup {None}], entries : SUBSET Entry, count : Nat]
<1>1. x.entries \subseteq Entry
  BY DEF Index
<1>2. [n \in Name |-> Part(x, n)] \in [Name -> Index \cup {None}]
  BY PartType
<1> QED BY <1>1, <1>2 DEF Manifest

LEMMA PhaseType ==
    /\ {"down", "checked", "loaded", "locked", "ready", "clear", "primary", "names", "manifest"} = Phase
    /\ Writing = {"clear", "primary", "names", "manifest"}
BY DEF Phase, Writing

\* A rewrite begins with memory, progress and phase of the right shape.
LEMMA BeginType ==
    ASSUME TypeOK, NEW w \in Process, NEW x \in Index, NEW es \in SUBSET Entry, Begin(w, x, es)
    PROVE  /\ ram' \in [Process -> Index] /\ touched' \in [Process -> SUBSET Entry]
           /\ left' \in [Process -> SUBSET Name] /\ count' \in [Process -> Nat]
           /\ pc' \in [Process -> Phase]
<1>1. {NameOf[p] : p \in x.rows} \subseteq Name
  <2>1. x.rows \subseteq Package
    BY DEF Index
  <2> QED BY <2>1, IndexAssumption
<1> QED BY <1>1, PhaseType DEF Begin, Goto, TypeOK

\* The end of a rewrite keeps the shape of what it touches.
LEMMA ReturnType ==
    ASSUME TypeOK, NEW w \in Process, Return(w)
    PROVE  /\ ram' \in [Process -> Index] /\ touched' \in [Process -> SUBSET Entry]
           /\ left' \in [Process -> SUBSET Name] /\ count' \in [Process -> Nat]
           /\ pc' \in [Process -> Phase] /\ draining' \subseteq Server
           /\ lockFile' \in Server \cup {None, "empty"}
BY PhaseType, EmptyIndexType DEF Return, Goto, TypeOK

------------------------------------------------------------------------------
\* Type correctness

LEMMA InitType == Init => TypeOK
<1> SUFFICES ASSUME Init PROVE TypeOK
  OBVIOUS
<1>1. repomd \in [names : [Name -> Index \cup {None}], entries : SUBSET Entry, count : Nat]
  BY EmptyIndexType, ManifestType DEF Init
<1> QED BY <1>1, EmptyIndexType, PhaseType DEF Init, TypeOK

LEMMA WriteType == ASSUME TypeOK, NEW w \in Process, Write(w) \/ Fail(w) PROVE TypeOK'
<1>1. CASE Clear(w)
  BY <1>1, PhaseType DEF Clear, Goto, work, TypeOK
<1>2. CASE WritePrimary(w)
  <2>1. ram[w].entries \subseteq Entry
    BY DEF TypeOK, Index
  <2> QED BY <1>2, <2>1, PhaseType DEF WritePrimary, Goto, work, TypeOK
<1>3. CASE WriteNames(w)
  <2>1. \A n \in left[w] : n \in Name /\ Part(ram[w], n) \in Index \cup {None}
    BY PartType DEF TypeOK
  <2>2. byName' \in [Name -> Index \cup {None}]
    BY <1>3, <2>1 DEF WriteNames, TypeOK
  <2>3. left' \in [Process -> SUBSET Name]
    BY <1>3 DEF WriteNames, TypeOK
  <2>4. count' \in [Process -> Nat] /\ pc' \in [Process -> Phase]
    BY <1>3, FilesFinite, PhaseType DEF WriteNames, Goto, TypeOK
  <2> QED BY <1>3, <2>2, <2>3, <2>4 DEF WriteNames, TypeOK
<1>4. CASE WriteManifest(w)
  <2>1. ram[w] \in Index /\ count[w] \in Nat /\ ram[w].entries \subseteq Entry /\ touched[w] \subseteq Entry
    BY DEF TypeOK, Index
  <2>2. repomd' \in [names : [Name -> Index \cup {None}], entries : SUBSET Entry, count : Nat]
    BY <1>4, <2>1, ManifestType DEF WriteManifest
  <2>3. acked' \subseteq Entry /\ unsure' \subseteq Entry
    BY <1>4, <2>1 DEF WriteManifest, TypeOK
  <2>4. Return(w) /\ UNCHANGED <<byName, primary>>
    BY <1>4 DEF WriteManifest
  <2> QED BY <2>2, <2>3, <2>4, ReturnType DEF TypeOK
<1>5. CASE Fail(w)
  <2>1. unsure' \subseteq Entry
    BY <1>5 DEF Fail, TypeOK
  <2> QED BY <1>5, <2>1, ReturnType DEF Fail, disk, TypeOK
<1> QED BY <1>1, <1>2, <1>3, <1>4, <1>5 DEF Write

LEMMA ServeType == ASSUME TypeOK, NEW s \in Server, Serve(s) PROVE TypeOK'
<1>0. s \in Process
  BY DEF Process
<1>1. CASE ServeLoad(s)
  BY <1>0, <1>1, LoadedType, PhaseType DEF ServeLoad, Goto, disk, work, TypeOK
<1>2. CASE ServeLock(s)
  BY <1>0, <1>2, EmptyIndexType, PhaseType DEF ServeLock, Goto, disk, work, TypeOK
<1>3. CASE ServePid(s)
  BY <1>0, <1>3, PhaseType DEF ServePid, Goto, disk, work, TypeOK
<1>4. CASE Handle(s)
  <2>1. PICK m \in Mutation :
            /\ IF Changes(ram[s], m)
               THEN Begin(s, Applied(ram[s], m), Touched(m)) /\ UNCHANGED <<acked, unsure>>
               ELSE /\ acked' = acked \ Touched(m)
                    /\ unsure' = unsure \ Touched(m)
                    /\ UNCHANGED <<pc, ram, work>>
            /\ UNCHANGED <<disk, lockFile, draining>>
    BY <1>4 DEF Handle
  <2>2. Applied(ram[s], m) \in Index /\ Touched(m) \subseteq Entry
    BY <1>0, AppliedType DEF TypeOK
  <2>3. CASE Changes(ram[s], m)
    BY <1>0, <2>1, <2>2, <2>3, BeginType DEF disk, TypeOK
  <2>4. CASE ~Changes(ram[s], m)
    BY <2>1, <2>4 DEF disk, work, TypeOK
  <2> QED BY <2>3, <2>4
<1>5. CASE Stop(s)
  BY <1>0, <1>5, EmptyIndexType, PhaseType DEF Stop, Goto, disk, work, TypeOK
<1> QED BY <1>1, <1>2, <1>3, <1>4, <1>5 DEF Serve

LEMMA CommandType == ASSUME TypeOK, NEW c \in Cli, Command(c) PROVE TypeOK'
<1>0. c \in Process /\ Loaded \in Index
  BY LoadedType DEF Process, TypeOK
<1>1. CASE CliCheck(c)
  BY <1>0, <1>1, PhaseType DEF CliCheck, Goto, disk, work, TypeOK
<1>2. CASE CliAdd(c)
  <2>1. PICK m \in Mutation : Begin(c, Applied(Loaded, m), Touched(m))
    BY <1>2 DEF CliAdd
  <2> QED BY <1>0, <1>2, <2>1, AppliedType, BeginType DEF CliAdd, disk, TypeOK
<1>3. CASE CliRemove(c)
  <2>1. PICK m \in Mutation :
            IF Changes(Loaded, m) THEN Begin(c, Applied(Loaded, m), Touched(m))
            ELSE Goto(c, "down") /\ UNCHANGED <<ram, work>>
    BY <1>3 DEF CliRemove
  <2>2. CASE Changes(Loaded, m)
    BY <1>0, <1>3, <2>1, <2>2, AppliedType, BeginType DEF CliRemove, disk, TypeOK
  <2>3. CASE ~Changes(Loaded, m)
    BY <1>0, <1>3, <2>1, <2>3, PhaseType DEF CliRemove, Goto, disk, work, TypeOK
  <2> QED BY <2>2, <2>3
<1>4. CASE Reindex(c)
  <2>1. PICK found \in SUBSET Entry : Begin(c, [rows |-> {e[1] : e \in found}, entries |-> found], Entry)
    BY <1>4 DEF Reindex
  <2>2. [rows |-> {e[1] : e \in found}, entries |-> found] \in Index
    BY DEF Index, Entry
  <2> QED BY <1>0, <1>4, <2>1, <2>2, BeginType DEF Reindex, disk, TypeOK
<1> QED BY <1>1, <1>2, <1>3, <1>4 DEF Command

\* Files, lock and memory keep their shape, and no index ever holds an entry
\* without its row: what the by-name files and the server's memory are made of.
THEOREM TypeCorrect == Spec => []TypeOK
<1>1. TypeOK /\ [Next]_vars => TypeOK'
  <2> SUFFICES ASSUME TypeOK, [Next]_vars PROVE TypeOK'
    OBVIOUS
  <2>1. ASSUME NEW w \in Process, Write(w) \/ Fail(w) PROVE TypeOK'
    BY <2>1, WriteType
  <2>2. ASSUME NEW w \in Process, Kill(w) PROVE TypeOK'
    BY <2>2, EmptyIndexType, PhaseType DEF Kill, Goto, disk, TypeOK
  <2>3. ASSUME NEW s \in Server, Serve(s) PROVE TypeOK'
    BY <2>3, ServeType
  <2>4. ASSUME NEW c \in Cli, Command(c) PROVE TypeOK'
    BY <2>4, CommandType
  <2>5. CASE RemoveStaleLock
    BY <2>5 DEF RemoveStaleLock, disk, work, TypeOK
  <2>6. CASE UNCHANGED vars
    BY <2>6 DEF vars, disk, work, TypeOK
  <2> QED BY <2>1, <2>2, <2>3, <2>4, <2>5, <2>6 DEF Next
<1> QED BY InitType, <1>1, PTL DEF Spec

------------------------------------------------------------------------------
\* Exclusion of servers

\* A step of a process that is no server leaves the servers and the lock alone.
LEMMA OthersKeep ==
    ASSUME TypeOK, NEW w \in Process,
           Write(w) \/ Fail(w) \/ Kill(w) \/ (w \in Cli /\ Command(w))
    PROVE  /\ lockFile' = lockFile
           /\ \A s \in Server : s # w => pc'[s] = pc[s] /\ (s \in draining' <=> s \in draining)
BY DEF Write, Clear, WritePrimary, WriteNames, WriteManifest, Fail, Kill, Return, Goto,
       Command, CliCheck, CliAdd, CliRemove, Reindex, Begin, TypeOK, Process

\* A rewrite or a kill lets no process serve that did not serve before.
LEMMA WriteServing ==
    ASSUME TypeOK, NEW s \in Server, Write(s) \/ Fail(s) \/ Kill(s), Serving(s)'
    PROVE  Serving(s)
BY PhaseType DEF Write, Clear, WritePrimary, WriteNames, WriteManifest, Fail, Kill, Return, Goto,
       Serving, TypeOK, Process

\* At most one server is past its lock and the lock file is there as long as it
\* serves, through failures, kills and the removal of stale locks. The invariant
\* is inductive with TypeOK: a server that stops takes the lock file with it, and
\* is then the only one that could have needed it.
THEOREM ServersAlone == Spec => []ServersExclude
<1>1. Init => ServersExclude
  BY DEF Init, ServersExclude, Serving, Writing, Process
<1>2. TypeOK /\ TypeOK' /\ ServersExclude /\ [Next]_vars => ServersExclude'
  <2> SUFFICES ASSUME TypeOK, TypeOK', ServersExclude, [Next]_vars PROVE ServersExclude'
    OBVIOUS
  <2>1. ASSUME NEW w \in Process, Write(w) \/ Fail(w) \/ Kill(w) PROVE ServersExclude'
    <3>1. \A s \in Server : Serving(s)' => Serving(s)
      <4> SUFFICES ASSUME NEW s \in Server, Serving(s)' PROVE Serving(s)
        OBVIOUS
      <4>1. CASE s = w
        BY <2>1, <4>1, WriteServing
      <4>2. CASE s # w
        BY <2>1, <4>2, OthersKeep DEF Serving
      <4> QED BY <4>1, <4>2
    <3>2. lockFile' = lockFile
      BY <2>1, OthersKeep
    <3> QED BY <3>1, <3>2 DEF ServersExclude
  <2>2. ASSUME NEW c \in Cli, Command(c) PROVE ServersExclude'
    <3>1. c \in Process /\ c \notin Server
      BY <2>2, IndexAssumption DEF Process
    <3>2. \A s \in Server : Serving(s)' => Serving(s)
      BY <2>2, <3>1, OthersKeep DEF Serving
    <3>3. lockFile' = lockFile
      BY <2>2, <3>1, OthersKeep
    <3> QED BY <3>2, <3>3 DEF ServersExclude
  <2>3. ASSUME NEW s \in Server, Serve(s) PROVE ServersExclude'
    <3>0. s \in Process
      BY DEF Process
    <3>1. CASE ServeLoad(s) \/ ServePid(s) \/ Handle(s)
      <4>1. \A t \in Server : t # s => pc'[t] = pc[t]
        BY <3>1 DEF ServeLoad, ServePid, Handle, Begin, Goto, TypeOK, Process
      <4>2. draining' = draining /\ (lockFile' = lockFile \/ lockFile' = s)
        BY <3>1 DEF ServeLoad, ServePid, Handle
      <4>3. Serving(s)' => Serving(s)
        BY <3>0, <3>1, PhaseType DEF ServeLoad, ServePid, Handle, Begin, Goto, Serving, TypeOK
      <4>4. \A t \in Server : Serving(t)' => Serving(t)
        BY <4>1, <4>2, <4>3 DEF Serving
      <4>5. s # None
        BY IndexAssumption
      <4> QED BY <4>2, <4>4, <4>5 DEF ServersExclude
    <3>2. CASE ServeLock(s)
      <4>1. \A t \in Server : t # s => (Serving(t)' <=> Serving(t))
        BY <3>2 DEF ServeLock, Goto, Serving, TypeOK, Process
      <4>2. CASE lockFile = None
        <5>1. \A t \in Server : ~Serving(t)
          BY <4>2 DEF ServersExclude
        <5>2. lockFile' = "empty"
          BY <3>2, <4>2 DEF ServeLock
        <5> QED BY <4>1, <5>1, <5>2, IndexAssumption DEF ServersExclude
      <4>3. CASE lockFile # None
        <5>1. ~Serving(s)' /\ lockFile' = lockFile
          BY <3>0, <3>2, <4>3, PhaseType DEF ServeLock, Goto, Serving, TypeOK
        <5> QED BY <4>1, <5>1 DEF ServersExclude
      <4> QED BY <4>2, <4>3
    <3>3. CASE Stop(s)
      <4>1. Serving(s)
        BY <3>3 DEF Stop, Serving
      <4>2. ~Serving(s)'
        BY <3>0, <3>3, PhaseType DEF Stop, Goto, Serving, TypeOK
      <4>3. \A t \in Server : t # s => ~Serving(t)
        BY <4>1 DEF ServersExclude
      <4>4. \A t \in Server : t # s => (Serving(t)' <=> Serving(t))
        BY <3>3 DEF Stop, Goto, Serving, TypeOK, Process
      <4> QED BY <4>2, <4>3, <4>4 DEF ServersExclude
    <3> QED BY <2>3, <3>1, <3>2, <3>3 DEF Serve
  <2>4. CASE RemoveStaleLock
    BY <2>4, PhaseType DEF RemoveStaleLock, ServersExclude, Serving
  <2>5. CASE UNCHANGED vars
    BY <2>5 DEF vars, ServersExclude, Serving
  <2> QED BY <2>1, <2>2, <2>3, <2>4, <2>5 DEF Next
<1> QED BY TypeCorrect, <1>1, <1>2, PTL DEF Spec

------------------------------------------------------------------------------
\* Rewrites that do not overlap

NamesOf(x) == {NameOf[p] : p \in x.rows}

Named(x) == {n \in Name : Part(x, n) # None}

LEMMA PartOfNamed ==
    ASSUME NEW x \in Index, NEW n \in Name
    PROVE  /\ Part(x, n) # None <=> n \in NamesOf(x)
           /\ Part(x, n) # None => Part(x, n).entries = {e \in x.entries : NameOf[e[1]] = n}
<1> DEFINE rows == {p \in x.rows : NameOf[p] = n}
           y == [rows |-> rows, entries |-> {e \in x.entries : NameOf[e[1]] = n}]
<1>1. y \in Index
  BY DEF Index
<1>2. y # None
  BY <1>1, NotNone
<1>3. CASE rows = {}
  BY <1>3 DEF Part, NamesOf
<1>4. CASE rows # {}
  <2>1. Part(x, n) = y
    BY <1>4 DEF Part
  <2> QED BY <1>2, <1>4, <2>1 DEF NamesOf
<1> QED BY <1>3, <1>4

\* How far a rewrite has come: the files it has not reached are gone, the others
\* are those of the index it writes.
Progress(w) ==
    /\ pc[w] \in {"clear", "primary"} => left[w] = NamesOf(ram[w])
    /\ pc[w] = "primary" => Files = {}
    /\ pc[w] = "names" =>
         /\ primary = ram[w].entries
         /\ left[w] \subseteq NamesOf(ram[w])
         /\ \A n \in Name : byName[n] = IF n \in left[w] THEN None ELSE Part(ram[w], n)
    /\ pc[w] = "manifest" =>
         /\ primary = ram[w].entries
         /\ \A n \in Name : byName[n] = Part(ram[w], n)
         /\ count[w] = Cardinality(Files)

\* The manifest is that of some index, with the true number of its files.
ManifestOfIndex == \E x \in Index : repomd = Manifest(x, Cardinality(Named(x)))

WriteInv == ManifestOfIndex /\ \A w \in Process : Progress(w)

LEMMA InitWrite == Init => WriteInv
<1> SUFFICES ASSUME Init PROVE WriteInv
  OBVIOUS
<1>1. Named(EmptyIndex) = {}
  BY DEF Named, Part, EmptyIndex
<1>2. Cardinality(Named(EmptyIndex)) = 0
  BY <1>1, FS_EmptySet
<1>3. ManifestOfIndex
  BY <1>2, EmptyIndexType DEF Init, ManifestOfIndex
<1>4. \A w \in Process : Progress(w)
  BY DEF Init, Progress
<1> QED BY <1>3, <1>4 DEF WriteInv

\* A process that is not rewriting has nothing to keep.
LEMMA IdleProgress == ASSUME NEW w, pc'[w] \notin Writing PROVE Progress(w)'
BY DEF Progress, Writing

LEMMA BeginProgress ==
    ASSUME TypeOK, NEW w \in Process, NEW x \in Index, NEW es, Begin(w, x, es)
    PROVE  Progress(w)'
BY DEF Begin, Goto, Progress, NamesOf, TypeOK

\* A file operation of one rewrite takes that rewrite on.
LEMMA WriteProgress ==
    ASSUME TypeOK, NEW w \in Process, Progress(w), Write(w) \/ Fail(w)
    PROVE  Progress(w)'
<1>1. CASE Clear(w)
  <2>1. CASE pc'[w] = "primary"
    BY <1>1, <2>1 DEF Clear, Goto, work, Progress, Files, TypeOK
  <2>2. CASE pc'[w] # "primary"
    BY <1>1, <2>2 DEF Clear, Goto, work, Progress, TypeOK
  <2> QED BY <2>1, <2>2
<1>2. CASE WritePrimary(w)
  <2>1. \A n \in Name : byName[n] = None
    BY <1>2 DEF WritePrimary, Progress, Files
  <2>2. \A n \in Name : n \notin NamesOf(ram[w]) => Part(ram[w], n) = None
    BY PartOfNamed DEF TypeOK
  <2>3. left[w] = NamesOf(ram[w])
    BY <1>2 DEF WritePrimary, Progress
  <2>4. /\ pc'[w] = "names" /\ primary' = ram[w].entries
        /\ UNCHANGED <<byName, ram, left>>
    BY <1>2 DEF WritePrimary, Goto, work, TypeOK
  <2>5. \A n \in Name : byName[n] = IF n \in left[w] THEN None ELSE Part(ram[w], n)
    BY <2>1, <2>2, <2>3
  <2> QED BY <2>3, <2>4, <2>5 DEF Progress
<1>3. CASE WriteNames(w)
  <2>0. /\ pc[w] = "names" /\ UNCHANGED <<primary, ram>>
        /\ primary = ram[w].entries /\ left[w] \subseteq NamesOf(ram[w])
        /\ \A n \in Name : byName[n] = IF n \in left[w] THEN None ELSE Part(ram[w], n)
    BY <1>3 DEF WriteNames, Progress
  <2>1. CASE left[w] = {}
    <3>1. /\ pc'[w] = "manifest" /\ UNCHANGED <<byName, left>>
          /\ count'[w] = Cardinality(Files)
      BY <1>3, <2>1 DEF WriteNames, Goto, TypeOK
    <3>2. Files' = Files
      BY <3>1 DEF Files
    <3> QED BY <2>0, <2>1, <3>1, <3>2 DEF Progress
  <2>2. CASE left[w] # {}
    <3>1. PICK n \in left[w] : /\ byName' = [byName EXCEPT ![n] = Part(ram[w], n)]
                               /\ left' = [left EXCEPT ![w] = @ \ {n}]
                               /\ UNCHANGED <<pc, count>>
      BY <1>3, <2>2 DEF WriteNames
    <3>2. left'[w] = left[w] \ {n}
      BY <3>1 DEF TypeOK
    <3>3. \A k \in Name : byName'[k] = IF k = n THEN Part(ram[w], n) ELSE byName[k]
      BY <3>1 DEF TypeOK
    <3>4. \A k \in Name : byName'[k] = IF k \in left'[w] THEN None ELSE Part(ram[w], k)
      BY <2>0, <3>2, <3>3
    <3> QED BY <2>0, <3>1, <3>2, <3>4 DEF Progress
  <2> QED BY <2>1, <2>2
<1>4. CASE WriteManifest(w) \/ Fail(w)
  <2>1. pc'[w] \in {"down", "ready"}
    BY <1>4 DEF WriteManifest, Fail, Return, Goto, TypeOK
  <2> QED BY <2>1, IdleProgress DEF Writing
<1> QED BY <1>1, <1>2, <1>3, <1>4 DEF Write

\* At the end of a rewrite the files are those of the index it wrote.
LEMMA SealedAtEnd ==
    ASSUME TypeOK, NEW w \in Process, Progress(w), WriteManifest(w)
    PROVE  ManifestOfIndex' /\ Verified'
<1>1. /\ primary = ram[w].entries /\ \A n \in Name : byName[n] = Part(ram[w], n)
      /\ count[w] = Cardinality(Files) /\ ram[w] \in Index
  BY DEF WriteManifest, Progress, TypeOK
<1>2. repomd' = Manifest(ram[w], count[w]) /\ UNCHANGED <<byName, primary>>
  BY DEF WriteManifest
<1>3. Files = Named(ram[w])
  BY <1>1 DEF Files, Named
<1>4. ManifestOfIndex'
  BY <1>1, <1>2, <1>3 DEF ManifestOfIndex, Manifest, Named, Part
<1>5. Files' = Files
  BY <1>2 DEF Files
<1>6. Verified'
  BY <1>1, <1>2, <1>5 DEF Verified, Manifest
<1> QED BY <1>4, <1>6

\* A step that touches neither files nor the rewrite of w.
LEMMA KeepProgress ==
    ASSUME NEW w, Progress(w), pc'[w] = pc[w], ram'[w] = ram[w], left'[w] = left[w],
           count'[w] = count[w], UNCHANGED <<byName, primary>>
    PROVE  Progress(w)'
BY DEF Progress, Files

LEMMA OnlySealsWriteManifest ==
    ASSUME [Next]_vars, repomd' # repomd
    PROVE  \E w \in Process : WriteManifest(w)
<1> USE DEF disk
<1>1. ~UNCHANGED vars
  BY DEF vars
<1>2. ASSUME NEW w \in Process PROVE ~(Clear(w) \/ WritePrimary(w) \/ WriteNames(w) \/ Fail(w) \/ Kill(w))
  BY DEF Clear, WritePrimary, WriteNames, Fail, Kill
<1>3. ASSUME NEW s \in Server PROVE ~Serve(s)
  BY DEF Serve, ServeLoad, ServeLock, ServePid, Handle, Stop
<1>4. ASSUME NEW c \in Cli PROVE ~Command(c)
  BY DEF Command, CliCheck, CliAdd, CliRemove, Reindex
<1>5. ~RemoveStaleLock
  BY DEF RemoveStaleLock
<1> QED BY <1>1, <1>2, <1>3, <1>4, <1>5 DEF Next, Write

\* A step of one process leaves the memory of the others alone.
LEMMA OthersMemory ==
    ASSUME TypeOK, NEW v \in Process, NEW w \in Process, v # w,
           Write(v) \/ Fail(v) \/ Kill(v) \/ (v \in Server /\ Serve(v)) \/ (v \in Cli /\ Command(v))
    PROVE  pc'[w] = pc[w] /\ ram'[w] = ram[w] /\ left'[w] = left[w] /\ count'[w] = count[w]
<1>1. CASE Write(v) \/ Fail(v) \/ Kill(v)
  BY <1>1 DEF Write, Clear, WritePrimary, WriteNames, WriteManifest, Fail, Kill, Return, Goto, work, TypeOK
<1>2. CASE v \in Server /\ Serve(v)
  BY <1>2 DEF Serve, ServeLoad, ServeLock, ServePid, Handle, Stop, Begin, Goto, work, TypeOK
<1>3. CASE v \in Cli /\ Command(v)
  BY <1>3 DEF Command, CliCheck, CliAdd, CliRemove, Reindex, Begin, Goto, work, TypeOK
<1> QED BY <1>1, <1>2, <1>3

\* The steps of servers and commands that are no file operation: the process
\* begins a rewrite, keeps its place in one, or is in none.
LEMMA OtherStepProgress ==
    ASSUME TypeOK, NEW w \in Process, Progress(w),
           Kill(w) \/ (w \in Server /\ Serve(w)) \/ (w \in Cli /\ Command(w))
    PROVE  Progress(w)' /\ UNCHANGED <<byName, primary, repomd>>
<1>0. UNCHANGED <<byName, primary, repomd>>
  BY DEF Kill, Serve, ServeLoad, ServeLock, ServePid, Handle, Stop,
         Command, CliCheck, CliAdd, CliRemove, Reindex, disk
<1>1. CASE Kill(w)
  BY <1>0, <1>1, IdleProgress DEF Kill, Goto, Writing, TypeOK
<1>2. CASE w \in Server /\ (ServeLoad(w) \/ ServeLock(w) \/ ServePid(w))
  <2>1. pc'[w] \notin Writing
    BY <1>2 DEF ServeLoad, ServeLock, ServePid, Goto, Writing, TypeOK
  <2> QED BY <1>0, <2>1, IdleProgress
<1>3. CASE w \in Server /\ Handle(w)
  <2>1. PICK m \in Mutation :
            IF Changes(ram[w], m)
            THEN Begin(w, Applied(ram[w], m), Touched(m)) /\ UNCHANGED <<acked, unsure>>
            ELSE UNCHANGED <<pc, ram, work>>
    BY <1>3 DEF Handle
  <2>2. Applied(ram[w], m) \in Index
    BY AppliedType DEF TypeOK
  <2>3. CASE Changes(ram[w], m)
    BY <1>0, <2>1, <2>2, <2>3, BeginProgress
  <2>4. CASE ~Changes(ram[w], m)
    BY <1>0, <2>1, <2>4, KeepProgress DEF work
  <2> QED BY <2>3, <2>4
<1>4. CASE w \in Server /\ Stop(w)
  <2>1. CASE pc[w] = "ready"
    <3>1. pc'[w] = "down"
      BY <1>4, <2>1 DEF Stop, Goto, TypeOK
    <3> QED BY <1>0, <3>1, IdleProgress DEF Writing
  <2>2. CASE pc[w] # "ready"
    BY <1>0, <1>4, <2>2, KeepProgress DEF Stop, work
  <2> QED BY <2>1, <2>2
<1>5. CASE w \in Cli /\ CliCheck(w)
  BY <1>0, <1>5, IdleProgress DEF CliCheck, Goto, Writing, TypeOK
<1>6. CASE w \in Cli /\ CliAdd(w)
  <2>1. PICK m \in Mutation : Begin(w, Applied(Loaded, m), Touched(m))
    BY <1>6 DEF CliAdd
  <2> QED BY <1>0, <2>1, LoadedType, AppliedType, BeginProgress DEF TypeOK
<1>7. CASE w \in Cli /\ CliRemove(w)
  <2>1. PICK m \in Mutation :
            IF Changes(Loaded, m) THEN Begin(w, Applied(Loaded, m), Touched(m))
            ELSE Goto(w, "down") /\ UNCHANGED <<ram, work>>
    BY <1>7 DEF CliRemove
  <2>2. CASE Changes(Loaded, m)
    BY <1>0, <2>1, <2>2, LoadedType, AppliedType, BeginProgress DEF TypeOK
  <2>3. CASE ~Changes(Loaded, m)
    BY <1>0, <2>1, <2>3, IdleProgress DEF Goto, Writing, TypeOK
  <2> QED BY <2>2, <2>3
<1>8. CASE w \in Cli /\ Reindex(w)
  <2>1. PICK found \in SUBSET Entry : Begin(w, [rows |-> {e[1] : e \in found}, entries |-> found], Entry)
    BY <1>8 DEF Reindex
  <2>2. [rows |-> {e[1] : e \in found}, entries |-> found] \in Index
    BY DEF Index, Entry
  <2> QED BY <1>0, <2>1, <2>2, BeginProgress
<1> QED BY <1>1, <1>2, <1>3, <1>4, <1>5, <1>6, <1>7, <1>8 DEF Serve, Command

\* Rewrites that never overlap keep the order: clear, primary, by-name, manifest.
LEMMA StepWrite ==
    ASSUME TypeOK, TypeOK', SingleWriter, WriteInv, [Next]_vars
    PROVE  WriteInv'
<1>1. ASSUME NEW v \in Process, Write(v) \/ Fail(v) PROVE WriteInv'
  <2>1. pc[v] \in Writing
    BY <1>1 DEF Write, Clear, WritePrimary, WriteNames, WriteManifest, Fail, Writing
  <2>2. \A w \in Process : w # v => pc'[w] \notin Writing
    <3>1. \A w \in Process : w # v => pc[w] \notin Writing
      BY <2>1 DEF SingleWriter
    <3> QED BY <1>1, <3>1, OthersMemory
  <2>3. \A w \in Process : Progress(w)'
    <3> SUFFICES ASSUME NEW w \in Process PROVE Progress(w)'
      OBVIOUS
    <3>1. CASE w = v
      BY <1>1, <3>1, WriteProgress DEF WriteInv
    <3>2. CASE w # v
      BY <2>2, <3>2, IdleProgress
    <3> QED BY <3>1, <3>2
  <2>4. ManifestOfIndex'
    <3>1. CASE WriteManifest(v)
      BY <3>1, SealedAtEnd DEF WriteInv
    <3>2. CASE ~WriteManifest(v)
      <4>1. repomd' = repomd
        BY <1>1, <3>2 DEF Write, Clear, WritePrimary, WriteNames, Fail, disk
      <4> QED BY <4>1 DEF WriteInv, ManifestOfIndex, Manifest, Named, Part
    <3> QED BY <3>1, <3>2
  <2> QED BY <2>3, <2>4 DEF WriteInv
<1>2. ASSUME NEW v \in Process, Kill(v) \/ (v \in Server /\ Serve(v)) \/ (v \in Cli /\ Command(v))
      PROVE  WriteInv'
  <2>1. Progress(v)' /\ UNCHANGED <<byName, primary, repomd>>
    BY <1>2, OtherStepProgress DEF WriteInv
  <2>2. ASSUME NEW w \in Process, w # v PROVE Progress(w)'
    BY <1>2, <2>1, <2>2, OthersMemory, KeepProgress DEF WriteInv
  <2>3. ManifestOfIndex'
    BY <2>1 DEF WriteInv, ManifestOfIndex, Manifest, Named, Part
  <2> QED BY <2>1, <2>2, <2>3 DEF WriteInv
<1>3. CASE RemoveStaleLock \/ UNCHANGED vars
  <2>1. UNCHANGED <<byName, primary, repomd, pc, ram, left, count>>
    BY <1>3 DEF RemoveStaleLock, vars, disk, work
  <2>2. ManifestOfIndex'
    BY <2>1 DEF WriteInv, ManifestOfIndex, Manifest, Named, Part
  <2> QED BY <2>1, <2>2, KeepProgress DEF WriteInv
<1>4. Server \cup Cli = Process
  BY DEF Process
<1> QED BY <1>1, <1>2, <1>3, <1>4 DEF Next

\* A manifest whose files are all there, and whose count is right, leaves no room
\* for a by-name file that it does not name.
LEMMA VerifiedIsWhole == ASSUME TypeOK, ManifestOfIndex PROVE VerifyCatchesTorn
<1> SUFFICES ASSUME Verified PROVE Loaded.entries = primary
  BY DEF VerifyCatchesTorn
<1>1. PICK x \in Index : repomd = Manifest(x, Cardinality(Named(x)))
  BY DEF ManifestOfIndex
<1>2. /\ primary = x.entries
      /\ \A n \in Named(x) : byName[n] = Part(x, n)
      /\ Cardinality(Files) = Cardinality(Named(x))
  BY <1>1 DEF Verified, Manifest, Named
<1>3. Named(x) \subseteq Files
  BY <1>2 DEF Named, Files
<1>4. IsFiniteSet(Files)
  <2>1. Files \subseteq Name /\ IsFiniteSet(Name)
    BY IndexAssumption DEF Files
  <2> QED BY <2>1, FS_Subset
<1>5. Files = Named(x)
  BY <1>2, <1>3, <1>4, FS_Subset
<1>6. \A n \in Files : byName[n].entries = {e \in x.entries : NameOf[e[1]] = n}
  BY <1>2, <1>5, PartOfNamed DEF Named
<1>7. \A e \in x.entries : NameOf[e[1]] \in Files
  <2> SUFFICES ASSUME NEW e \in x.entries PROVE NameOf[e[1]] \in Files
    OBVIOUS
  <2>1. e[1] \in x.rows /\ x.rows \subseteq Package
    BY DEF Index
  <2>2. NameOf[e[1]] \in Name /\ NameOf[e[1]] \in NamesOf(x)
    BY <2>1, IndexAssumption DEF NamesOf
  <2> QED BY <1>5, <2>2, PartOfNamed DEF Named
<1>8. Loaded.entries = UNION {byName[n].entries : n \in Files}
  BY DEF Loaded
<1>9. x.entries = UNION {byName[n].entries : n \in Files}
  BY <1>6, <1>7
<1> QED BY <1>2, <1>8, <1>9

\* verify.rs: as long as rewrites do not overlap, a directory that passes
\* verification is whole, whatever failures and kills it went through.
THEOREM VerifyIsSound == Spec /\ []SingleWriter => []VerifyCatchesTorn
<1>1. TypeOK /\ TypeOK' /\ SingleWriter /\ WriteInv /\ [Next]_vars => WriteInv'
  BY StepWrite
<1>2. TypeOK /\ WriteInv => VerifyCatchesTorn
  BY VerifiedIsWhole DEF WriteInv
<1> QED BY InitWrite, TypeCorrect, <1>1, <1>2, PTL DEF Spec

\* write_to: as long as rewrites do not overlap, the manifest is replaced only
\* when every file it describes is in place.
THEOREM ManifestIsLast == Spec /\ []SingleWriter => ManifestSeals
<1>1. TypeOK /\ TypeOK' /\ SingleWriter /\ WriteInv /\ [Next]_vars => WriteInv'
  BY StepWrite
<1>2. TypeOK /\ WriteInv /\ [Next]_vars => [repomd' # repomd => Verified']_vars
  <2> SUFFICES ASSUME TypeOK, WriteInv, [Next]_vars, repomd' # repomd PROVE Verified'
    OBVIOUS
  <2>1. PICK w \in Process : WriteManifest(w)
    BY OnlySealsWriteManifest
  <2> QED BY <2>1, SealedAtEnd DEF WriteInv
<1> QED BY InitWrite, TypeCorrect, <1>1, <1>2, PTL DEF Spec, ManifestSeals

------------------------------------------------------------------------------
\* One server, whose rewrites all run to their end

OneServer == Cli = {} /\ \A s, t \in Server : s = t

\* No rewrite ends but by stamping the manifest: no failed file operation, and
\* no kill while a handler is in write_to. Kills between rewrites may happen.
RewritesFinish ==
    [][\A w \in Process : pc[w] \in Writing /\ pc'[w] \notin Writing => WriteManifest(w)]_vars

\* Between rewrites the files hold what was acknowledged and the memory is what
\* the files hold; during one the memory has it, but for the entries that are
\* being written. A rewrite that goes on after a stop is not acknowledged.
AckInv ==
    /\ AckedOnDisk
    /\ \A s \in Server :
        /\ pc[s] \notin Writing => touched[s] = {}
        /\ pc[s] \in {"loaded", "locked", "ready"} => ram[s].entries = Loaded.entries
        /\ pc[s] \in Writing =>
             ram[s].entries \ (touched[s] \cup unsure) = acked \ (touched[s] \cup unsure)
        /\ s \in draining => pc[s] \in Writing /\ touched[s] \subseteq unsure

\* What load_from reads when every by-name file is the index's part is the index.
LEMMA LoadedIsWritten ==
    ASSUME NEW x \in Index, \A n \in Name : byName[n] = Part(x, n)
    PROVE  Loaded.entries = x.entries
<1>1. \A n \in Files : byName[n].entries = {e \in x.entries : NameOf[e[1]] = n}
  BY PartOfNamed DEF Files
<1>2. \A e \in x.entries : NameOf[e[1]] \in Files
  <2> SUFFICES ASSUME NEW e \in x.entries PROVE NameOf[e[1]] \in Files
    OBVIOUS
  <2>1. e[1] \in x.rows /\ x.rows \subseteq Package
    BY DEF Index
  <2>2. NameOf[e[1]] \in Name /\ NameOf[e[1]] \in NamesOf(x)
    BY <2>1, IndexAssumption DEF NamesOf
  <2> QED BY <2>2, PartOfNamed DEF Files
<1>3. Loaded.entries = UNION {byName[n].entries : n \in Files}
  BY DEF Loaded
<1>4. x.entries = UNION {byName[n].entries : n \in Files}
  BY <1>1, <1>2
<1> QED BY <1>3, <1>4

\* A mutation changes no entry but those it touches, and one that changes nothing
\* finds none of them in the index.
LEMMA AppliedOutside ==
    ASSUME NEW x \in Index, NEW m \in Mutation
    PROVE  /\ Applied(x, m).entries \ Touched(m) = x.entries \ Touched(m)
           /\ ~Changes(x, m) => x.entries \cap Touched(m) = {}
<1>0. /\ m.pkg \in Package /\ m.ver \in Version
      /\ m.do \in {"upsert", "deleteVersion", "deletePackage"}
      /\ x.entries \subseteq Package \X Version
      /\ \A e \in x.entries : e[1] \in x.rows
  BY DEF Mutation, Index, Entry
<1>1. CASE m.do = "upsert"
  <2>1. Applied(x, m).entries = x.entries \cup {<<m.pkg, m.ver>>}
    BY <1>1 DEF Applied
  <2>2. Touched(m) = {<<m.pkg, m.ver>>} /\ Changes(x, m)
    BY <1>1 DEF Touched, Changes
  <2> QED BY <2>1, <2>2
<1>2. CASE m.do = "deleteVersion"
  <2>1. Applied(x, m).entries = x.entries \ {<<m.pkg, m.ver>>}
    BY <1>2 DEF Applied, Index
  <2>2. Touched(m) = {<<m.pkg, m.ver>>} /\ (Changes(x, m) <=> <<m.pkg, m.ver>> \in x.entries)
    BY <1>2 DEF Touched, Changes
  <2> QED BY <2>1, <2>2
<1>3. CASE m.do = "deletePackage"
  <2>1. Applied(x, m).entries = {e \in x.entries : e[1] # m.pkg}
    BY <1>3 DEF Applied
  <2>2. Touched(m) = {m.pkg} \X Version /\ (Changes(x, m) <=> m.pkg \in x.rows)
    BY <1>3 DEF Touched, Changes
  <2>3. \A e \in x.entries : e \in Touched(m) <=> e[1] = m.pkg
    BY <1>0, <2>2
  <2> QED BY <1>0, <2>1, <2>2, <2>3
<1> QED BY <1>0, <1>1, <1>2, <1>3

LEMMA OneProcess ==
    ASSUME OneServer, NEW s \in Server
    PROVE  Process = {s} /\ (Quiet <=> pc[s] \notin Writing)
BY DEF OneServer, Process, Quiet

LEMMA InitAck == Init => AckInv
<1> SUFFICES ASSUME Init PROVE AckInv
  OBVIOUS
<1>1. Files = {}
  BY DEF Init, Files
<1>2. Loaded.entries = {}
  BY <1>1 DEF Loaded
<1> QED BY <1>2 DEF Init, AckInv, AckedOnDisk, Process, Writing

\* A file operation of the rewrite, none of them the last.
LEMMA AckMidway ==
    ASSUME TypeOK, OneServer, AckInv, NEW s \in Server,
           Clear(s) \/ WritePrimary(s) \/ WriteNames(s)
    PROVE  AckInv'
<1>1. /\ pc[s] \in Writing /\ pc'[s] \in Writing
      /\ UNCHANGED <<ram, touched, draining, acked, unsure>>
  BY DEF Clear, WritePrimary, WriteNames, Goto, work, Writing, TypeOK, Process
<1>2. /\ ram[s].entries \ (touched[s] \cup unsure) = acked \ (touched[s] \cup unsure)
      /\ s \in draining => touched[s] \subseteq unsure
  BY <1>1 DEF AckInv
<1>3. pc'[s] \notin {"loaded", "locked", "ready"}
  BY <1>1 DEF Writing
<1>4. Quiet' = FALSE
  BY <1>1 DEF Quiet, Process
<1>5. \A t \in Server : t = s
  BY DEF OneServer
<1> QED BY <1>1, <1>2, <1>3, <1>4, <1>5 DEF AckInv, AckedOnDisk

\* The manifest: what was touched is acknowledged as it is in memory, and the
\* files hold the memory.
LEMMA AckSealed ==
    ASSUME TypeOK, OneServer, AckInv, NEW s \in Server, Progress(s), WriteManifest(s)
    PROVE  AckInv'
<1>1. /\ pc[s] = "manifest" /\ pc[s] \in Writing /\ ram[s] \in Index
      /\ \A n \in Name : byName[n] = Part(ram[s], n)
  BY DEF WriteManifest, Progress, Writing, TypeOK, Process
<1>2. Loaded.entries = ram[s].entries
  BY <1>1, LoadedIsWritten
<1>3. Loaded' = Loaded
  BY DEF WriteManifest, Loaded, Files
<1>4. /\ pc'[s] = IF s \in draining THEN "down" ELSE "ready"
      /\ ram'[s] = IF s \in draining THEN EmptyIndex ELSE ram[s]
      /\ touched'[s] = {}
  BY DEF WriteManifest, Return, Goto, OneServer, TypeOK, Process
<1>5. pc'[s] \notin Writing
  BY <1>4 DEF Writing
<1>6. /\ ram[s].entries \ (touched[s] \cup unsure) = acked \ (touched[s] \cup unsure)
      /\ s \in draining => touched[s] \subseteq unsure
  BY <1>1 DEF AckInv
<1>7. Loaded.entries \ unsure' = acked' \ unsure'
  <2>1. CASE s \in draining
    <3>1. acked' = acked /\ unsure' = unsure
      BY <2>1 DEF WriteManifest
    <3> QED BY <1>2, <1>6, <2>1, <3>1
  <2>2. CASE s \notin draining
    <3>1. /\ acked' = (acked \ touched[s]) \cup (ram[s].entries \cap touched[s])
          /\ unsure' = unsure \ touched[s]
      BY <2>2 DEF WriteManifest
    <3> QED BY <1>2, <1>6, <3>1
  <2> QED BY <2>1, <2>2
<1>8. \A t \in Server : t = s
  BY DEF OneServer
<1>9. Quiet' => Loaded'.entries \ unsure' = acked' \ unsure'
  BY <1>3, <1>7
<1>10. s \notin draining'
  BY DEF WriteManifest, Return
<1>11. pc'[s] \in {"loaded", "locked", "ready"} => ram'[s].entries = Loaded'.entries
  BY <1>2, <1>3, <1>4
<1> QED BY <1>4, <1>5, <1>8, <1>9, <1>10, <1>11 DEF AckInv, AckedOnDisk

\* A handler begins a rewrite of what it applied, or answers without one.
LEMMA AckHandle ==
    ASSUME TypeOK, OneServer, AckInv, NEW s \in Server, Handle(s)
    PROVE  AckInv'
<1>1. PICK m \in Mutation :
          IF Changes(ram[s], m)
          THEN Begin(s, Applied(ram[s], m), Touched(m)) /\ UNCHANGED <<acked, unsure>>
          ELSE /\ acked' = acked \ Touched(m)
               /\ unsure' = unsure \ Touched(m)
               /\ UNCHANGED <<pc, ram, work>>
  BY DEF Handle
<1>2. pc[s] = "ready" /\ pc[s] \notin Writing /\ UNCHANGED <<byName, draining>>
  BY DEF Handle, disk, Writing
<1>3. Loaded' = Loaded
  BY <1>2 DEF Loaded, Files
<1>4. /\ Loaded.entries \ unsure = acked \ unsure
      /\ ram[s].entries = Loaded.entries /\ touched[s] = {}
  BY <1>2, OneProcess DEF AckInv, AckedOnDisk
<1>5. ram[s] \in Index
  BY DEF TypeOK, Process
<1>6. \A t \in Server : t = s
  BY DEF OneServer
<1>7. s \notin draining
  BY <1>2 DEF AckInv
<1>8. CASE Changes(ram[s], m)
  <2>1. /\ pc'[s] = "clear" /\ ram'[s] = Applied(ram[s], m) /\ touched'[s] = Touched(m)
        /\ acked' = acked /\ unsure' = unsure
    BY <1>1, <1>8 DEF Begin, Goto, TypeOK, Process
  <2>2. ram'[s].entries \ Touched(m) = ram[s].entries \ Touched(m)
    BY <1>5, <2>1, AppliedOutside
  <2>3. ram'[s].entries \ (touched'[s] \cup unsure') = acked' \ (touched'[s] \cup unsure')
    BY <1>4, <2>1, <2>2
  <2>4. pc'[s] \in Writing /\ Quiet' = FALSE
    BY <2>1 DEF Quiet, Process, Writing
  <2> QED BY <1>2, <1>6, <1>7, <2>1, <2>3, <2>4 DEF AckInv, AckedOnDisk
<1>9. CASE ~Changes(ram[s], m)
  <2>1. /\ UNCHANGED <<pc, ram, touched>>
        /\ acked' = acked \ Touched(m) /\ unsure' = unsure \ Touched(m)
    BY <1>1, <1>9 DEF work
  <2>2. ram[s].entries \cap Touched(m) = {}
    BY <1>5, <1>9, AppliedOutside
  <2>3. Loaded.entries \ unsure' = acked' \ unsure'
    BY <1>4, <2>1, <2>2
  <2> QED BY <1>2, <1>3, <1>4, <1>6, <1>7, <2>1, <2>3 DEF AckInv, AckedOnDisk
<1> QED BY <1>8, <1>9

\* Loading, locking and stopping: the memory is filled from the files, and what a
\* stopped handler was about is no longer certain.
LEMMA AckServe ==
    ASSUME TypeOK, OneServer, AckInv, NEW s \in Server,
           ServeLoad(s) \/ ServeLock(s) \/ ServePid(s) \/ Stop(s) \/ (Kill(s) /\ pc[s] \notin Writing)
    PROVE  AckInv'
<1>1. UNCHANGED <<byName, acked>>
  BY DEF ServeLoad, ServeLock, ServePid, Stop, Kill, disk
<1>2. Loaded' = Loaded
  BY <1>1 DEF Loaded, Files
<1>3. \A t \in Server : t = s
  BY DEF OneServer
<1>4. pc[s] \notin Writing => /\ Loaded.entries \ unsure = acked \ unsure /\ touched[s] = {}
                              /\ s \notin draining
  BY OneProcess DEF AckInv, AckedOnDisk
<1>5. ASSUME pc[s] \notin Writing, pc'[s] \notin Writing, unsure' = unsure, touched'[s] = {},
             s \notin draining',
             pc'[s] \in {"loaded", "locked", "ready"} => ram'[s].entries = Loaded.entries
      PROVE  AckInv'
  BY <1>1, <1>2, <1>3, <1>4, <1>5 DEF AckInv, AckedOnDisk
<1>6. CASE ServeLoad(s)
  <2>1. /\ pc[s] \notin Writing /\ pc'[s] \notin Writing /\ ram'[s] = Loaded
        /\ UNCHANGED <<unsure, touched, draining>>
    BY <1>6 DEF ServeLoad, Goto, work, Writing, TypeOK, Process
  <2> QED BY <1>4, <1>5, <2>1
<1>7. CASE ServeLock(s) \/ ServePid(s)
  <2>1. /\ pc[s] \in {"loaded", "locked"} /\ pc'[s] \in {"down", "locked", "ready"}
        /\ pc'[s] # "down" => ram'[s] = ram[s]
        /\ UNCHANGED <<unsure, touched, draining>>
    BY <1>7 DEF ServeLock, ServePid, Goto, work, TypeOK, Process
  <2>2. pc[s] \notin Writing /\ pc'[s] \notin Writing
    BY <2>1 DEF Writing
  <2>3. ram[s].entries = Loaded.entries
    BY <2>1 DEF AckInv
  <2> QED BY <1>4, <1>5, <2>1, <2>2, <2>3
<1>8. CASE Stop(s) /\ pc[s] = "ready"
  <2>1. /\ pc[s] \notin Writing /\ pc'[s] = "down" /\ pc'[s] \notin Writing
        /\ unsure' = unsure \cup touched[s] /\ UNCHANGED <<touched, draining>>
    BY <1>8 DEF Stop, Goto, work, Writing, TypeOK, Process
  <2> QED BY <1>4, <1>5, <2>1
<1>9. CASE Stop(s) /\ pc[s] # "ready"
  <2>1. /\ pc[s] \in Writing /\ UNCHANGED <<pc, ram, touched>>
        /\ unsure' = unsure \cup touched[s]
    BY <1>9 DEF Stop, work
  <2>2. ram[s].entries \ (touched[s] \cup unsure) = acked \ (touched[s] \cup unsure)
    BY <2>1 DEF AckInv
  <2>3. pc[s] \notin {"loaded", "locked", "ready"} /\ Quiet' = FALSE
    BY <2>1 DEF Writing, Quiet, Process
  <2> QED BY <1>1, <1>3, <2>1, <2>2, <2>3 DEF AckInv, AckedOnDisk
<1>10. CASE Kill(s) /\ pc[s] \notin Writing
  <2>1. /\ pc'[s] = "down" /\ pc'[s] \notin Writing /\ touched'[s] = {}
        /\ unsure' = unsure \cup touched[s] /\ s \notin draining'
    BY <1>10 DEF Kill, Goto, Writing, TypeOK, Process
  <2> QED BY <1>4, <1>5, <1>10, <2>1
<1> QED BY <1>6, <1>7, <1>8, <1>9, <1>10

\* With a single server only the steps that cut a rewrite short lose something.
LEMMA StepAck ==
    ASSUME TypeOK, OneServer, AckInv, WriteInv, [Next]_vars,
           [\A w \in Process : pc[w] \in Writing /\ pc'[w] \notin Writing => WriteManifest(w)]_vars
    PROVE  AckInv'
<1>1. CASE UNCHANGED vars
  BY <1>1 DEF vars, disk, work, AckInv, AckedOnDisk, Quiet, Loaded, Files
<1>2. CASE RemoveStaleLock
  BY <1>2 DEF RemoveStaleLock, disk, work, AckInv, AckedOnDisk, Quiet, Loaded, Files
<1>3. ASSUME ~UNCHANGED vars, NEW s \in Server,
             Write(s) \/ Fail(s) \/ Kill(s) \/ Serve(s)
      PROVE  AckInv'
  <2>1. pc[s] \in Writing /\ pc'[s] \notin Writing => WriteManifest(s)
    BY <1>3 DEF Process
  <2>2. Progress(s)
    BY DEF WriteInv, Process
  <2>3. CASE WriteManifest(s)
    BY <2>2, <2>3, AckSealed
  <2>4. CASE Clear(s) \/ WritePrimary(s) \/ WriteNames(s)
    BY <2>4, AckMidway
  <2>5. CASE Fail(s)
    <3>1. pc[s] \in Writing /\ pc'[s] \notin Writing
      BY <2>5 DEF Fail, Return, Goto, Writing, TypeOK, Process
    <3> QED BY <2>1, <2>3, <3>1
  <2>6. CASE Kill(s)
    <3>1. pc'[s] \notin Writing
      BY <2>6 DEF Kill, Goto, Writing, TypeOK, Process
    <3>2. CASE pc[s] \in Writing
      BY <2>1, <2>3, <3>1, <3>2
    <3>3. CASE pc[s] \notin Writing
      BY <2>6, <3>3, AckServe
    <3> QED BY <3>2, <3>3
  <2>7. CASE Serve(s)
    <3>1. CASE Handle(s)
      BY <3>1, AckHandle
    <3>2. CASE ~Handle(s)
      <4>1. ServeLoad(s) \/ ServeLock(s) \/ ServePid(s) \/ Stop(s)
        BY <2>7, <3>2 DEF Serve
      <4> QED BY <4>1, AckServe
    <3> QED BY <3>1, <3>2
  <2> QED BY <1>3, <2>3, <2>4, <2>5, <2>6, <2>7 DEF Write
<1>4. Process = Server /\ Cli = {}
  BY DEF OneServer, Process
<1> QED BY <1>1, <1>2, <1>3, <1>4 DEF Next

\* A server that is ready answers from a memory that is what the files hold.
LEMMA AckedInMemory == ASSUME AckInv, OneServer PROVE AckedSurvives
<1> SUFFICES ASSUME NEW s \in Server, pc[s] = "ready"
             PROVE  ram[s].entries \ unsure = acked \ unsure
  BY DEF AckedSurvives
<1>1. pc[s] \notin Writing
  BY DEF Writing
<1> QED BY <1>1, OneProcess DEF AckInv, AckedOnDisk

LEMMA AckAlways == ASSUME OneServer PROVE Spec /\ RewritesFinish => []AckInv
<1>1. TypeOK /\ TypeOK' /\ WriteInv /\ [Next]_vars => WriteInv'
  <2>1. SingleWriter
    BY DEF SingleWriter, OneServer, Process
  <2> QED BY <2>1, StepWrite
<1>2. /\ TypeOK /\ WriteInv /\ AckInv /\ [Next]_vars
      /\ [\A w \in Process : pc[w] \in Writing /\ pc'[w] \notin Writing => WriteManifest(w)]_vars
      => AckInv'
  BY StepAck
<1> QED BY InitWrite, InitAck, TypeCorrect, <1>1, <1>2, PTL DEF Spec, RewritesFinish

\* packages.rs and write_to: with one server and no rewrite cut short, whenever no
\* rewrite is under way a restart would read back exactly the acknowledged
\* entries, whatever stops, and kills between rewrites, came before.
THEOREM AckedReachTheDisk == OneServer => (Spec /\ RewritesFinish => []AckedOnDisk)
<1> SUFFICES ASSUME OneServer PROVE Spec /\ RewritesFinish => []AckedOnDisk
  OBVIOUS
<1>1. AckInv => AckedOnDisk
  BY DEF AckInv
<1> QED BY AckAlways, <1>1, PTL

\* serve.rs and memory.rs: under the same conditions a server that is ready
\* answers with exactly the acknowledged entries, also after restarts.
THEOREM AckedSurviveRestarts == OneServer => (Spec /\ RewritesFinish => []AckedSurvives)
<1> SUFFICES ASSUME OneServer PROVE Spec /\ RewritesFinish => []AckedSurvives
  OBVIOUS
<1>1. AckInv => AckedSurvives
  BY AckedInMemory
<1> QED BY AckAlways, <1>1, PTL

\* Where no file operation fails and nobody is killed, every rewrite finishes:
\* a stop lets the handler in write_to run on to its end.
LEMMA StepFinishes ==
    ASSUME TypeOK, ~Failing, ~Killing, Next, NEW w \in Process,
           pc[w] \in Writing, pc'[w] \notin Writing
    PROVE  WriteManifest(w)
<1>1. ASSUME NEW v \in Process,
             Write(v) \/ Fail(v) \/ Kill(v) \/ (v \in Server /\ Serve(v)) \/ (v \in Cli /\ Command(v))
      PROVE  WriteManifest(w)
  <2>1. v = w
    BY <1>1, OthersMemory
  <2>2. ~Fail(v) /\ ~Kill(v)
    BY DEF Fail, Kill
  <2>3. CASE Clear(v) \/ WritePrimary(v) \/ WriteNames(v)
    BY <2>1, <2>3 DEF Clear, WritePrimary, WriteNames, Goto, Writing, TypeOK
  <2>4. CASE v \in Server /\ Serve(v)
    <3>1. CASE Stop(v)
      BY <2>1, <3>1 DEF Stop, Writing
    <3>2. CASE ~Stop(v)
      <4>1. pc[v] \in {"down", "loaded", "locked", "ready"}
        BY <2>4, <3>2 DEF Serve, ServeLoad, ServeLock, ServePid, Handle
      <4> QED BY <2>1, <4>1 DEF Writing
    <3> QED BY <3>1, <3>2
  <2>5. CASE v \in Cli /\ Command(v)
    <3>1. pc[v] \in {"down", "checked"}
      BY <2>5 DEF Command, CliCheck, CliAdd, CliRemove, Reindex
    <3> QED BY <2>1, <3>1 DEF Writing
  <2> QED BY <1>1, <2>1, <2>2, <2>3, <2>4, <2>5 DEF Write
<1>2. ~RemoveStaleLock
  BY DEF RemoveStaleLock
<1> QED BY <1>1, <1>2 DEF Next, Process

\* serve.rs: without failing file operations and kills no rewrite is cut short,
\* with any number of servers and commands and however often servers are stopped.
THEOREM NothingCutShort == ~Failing /\ ~Killing => (Spec => RewritesFinish)
<1> SUFFICES ASSUME ~Failing, ~Killing PROVE Spec => RewritesFinish
  OBVIOUS
<1>1. TypeOK /\ [Next]_vars =>
        [\A w \in Process : pc[w] \in Writing /\ pc'[w] \notin Writing => WriteManifest(w)]_vars
  BY StepFinishes
<1> QED BY TypeCorrect, <1>1, PTL DEF Spec, RewritesFinish

===============================================================================
