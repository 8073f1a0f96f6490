---------------------------- MODULE Planning_proofs ----------------------------
(* Proofs about DepSolver and ConditionalDeps, and about how they fit together,   *)
(* for every set of packages, versions and capabilities, every set of worlds and  *)
(* every list of requests.                                                        *)
EXTENDS DepSolver, ConditionalDeps, WellFoundedInduction, SequenceTheorems, TLAPS

LEMMA Facts ==
    /\ MaxVersion \in Nat \ {0} /\ MaxAttempts \in Nat \ {0}
    /\ \A w \in Worlds : \A p \in Pkg : \A v \in Version : w[p][v] \in Manifest \cup {None}
    /\ \A r \in RootLists : r \in Seq(Request)
    /\ None \notin Version /\ None \notin Pkg
    /\ \A kind \in Kind, p \in Pkg : Error(kind, p) # None
BY PackagesAssumption, SolverAssumption, NoneAssumption

------------------------------------------------------------------------------
\* Versions and sequences

\* A set of versions, or of places in a sequence, has a highest element.
LEMMA HighestIn ==
    ASSUME NEW n \in Nat, NEW S \in SUBSET (1 .. n), S # {}
    PROVE  Highest(S) \in S /\ \A w \in S : w <= Highest(S)
<1> DEFINE T == {k \in Nat : \E v \in S : k = n - v}
<1>1. T \in SUBSET Nat /\ T # {}
  <2>1. PICK v \in S : TRUE
    OBVIOUS
  <2>2. v \in Nat /\ n - v \in Nat
    BY <2>1
  <2>3. n - v \in T
    BY <2>2
  <2> QED BY <2>3
<1>2. PICK k \in T : \A m \in T : ~ (<<m, k>> \in OpToRel(<, Nat))
  <2> HIDE DEF T
  <2> QED BY <1>1, NatLessThanWellFounded, WFMin
<1>3. PICK v \in S : k = n - v
  BY <1>2
<1>4. ASSUME NEW w \in S PROVE w <= v
  <2>1. n - w \in T /\ n - w \in Nat /\ w \in Nat /\ v \in Nat
    BY <1>4
  <2>2. ~ (n - w < k)
    BY <1>2, <2>1 DEF OpToRel
  <2> QED BY <1>3, <2>1, <2>2
<1> QED BY <1>3, <1>4 DEF Highest

LEMMA AddLast ==
    ASSUME NEW S, NEW s \in Seq(S), NEW x \in S, NEW t, t = s \o <<x>>
    PROVE  t \in Seq(S) /\ \A i \in DOMAIN t : (i \in DOMAIN s /\ t[i] = s[i]) \/ t[i] = x
<1>1. <<x>> \in Seq(S) /\ Len(<<x>>) = 1 /\ <<x>>[1] = x
  OBVIOUS
<1>2. /\ t \in Seq(S) /\ DOMAIN t = 1 .. Len(s) + 1 /\ DOMAIN s = 1 .. Len(s) /\ Len(s) \in Nat
      /\ \A i \in 1 .. Len(s) : t[i] = s[i]
      /\ t[Len(s) + 1] = x
  BY <1>1
<1>3. \A i \in 1 .. Len(s) + 1 : i \in 1 .. Len(s) \/ i = Len(s) + 1
  BY <1>2
<1> QED BY <1>2, <1>3

\* x is in the sequence s.
Among(x, s) == \E i \in DOMAIN s : s[i] = x

LEMMA AmongConcat ==
    ASSUME NEW S, NEW s \in Seq(S), NEW t \in Seq(S), NEW x
    PROVE  Among(x, s) \/ Among(x, t) => Among(x, s \o t)
<1>1. /\ \A i \in 1 .. Len(s) : (s \o t)[i] = s[i]
      /\ \A i \in 1 .. Len(t) : (s \o t)[Len(s) + i] = t[i]
      /\ DOMAIN (s \o t) = 1 .. Len(s) + Len(t)
      /\ DOMAIN s = 1 .. Len(s) /\ DOMAIN t = 1 .. Len(t) /\ Len(s) \in Nat /\ Len(t) \in Nat
  OBVIOUS
<1>2. ASSUME NEW i \in DOMAIN s, s[i] = x PROVE Among(x, s \o t)
  <2>1. i \in DOMAIN (s \o t) /\ (s \o t)[i] = x
    BY <1>1, <1>2
  <2> QED BY <2>1 DEF Among
<1>3. ASSUME NEW i \in DOMAIN t, t[i] = x PROVE Among(x, s \o t)
  <2>1. Len(s) + i \in DOMAIN (s \o t) /\ (s \o t)[Len(s) + i] = x
    BY <1>1, <1>3
  <2> QED BY <2>1 DEF Among
<1> QED BY <1>2, <1>3 DEF Among

LEMMA AmongTail ==
    ASSUME NEW S, NEW s \in Seq(S), s # <<>>, NEW x, Among(x, s)
    PROVE  x = s[1] \/ Among(x, Tail(s))
<1>1. PICK i \in DOMAIN s : s[i] = x
  BY DEF Among
<1>2. CASE i = 1
  BY <1>1, <1>2
<1>3. CASE i # 1
  <2>1. i - 1 \in DOMAIN Tail(s) /\ Tail(s)[i - 1] = x
    BY <1>1, <1>3
  <2> QED BY <2>1 DEF Among
<1> QED BY <1>2, <1>3

------------------------------------------------------------------------------
\* Types

Bound == Pkg \X Version

Typed ==
    /\ world \in Worlds /\ roots \in RootLists /\ solver \in {"naive", "sat"}
    /\ queue \in Seq(Request)
    /\ chosen \in [Pkg -> Version \cup {None}]
    /\ \A p \in Chosen : chosen[p] \in Allowed(p)
    /\ barred \subseteq Pkg /\ dropped \subseteq Pkg /\ offered \subseteq Capability
    /\ stack \in Seq(Bound)
    /\ \A i \in DOMAIN stack : stack[i][2] \in Published(stack[i][1])
    /\ solver = "naive" => stack = <<>>
    /\ first = None \/ first.kind \in Kind
    /\ graph \in [Pkg -> Version \cup {None}]
    /\ outcome.kind \in Kind \cup {"running", "solved"}

LEMMA RequestType ==
    ASSUME NEW r \in Request
    PROVE  r[1] \in Pkg /\ r[2] \in Constraint /\ r[2] \subseteq Version
BY DEF Request, Constraint

LEMMA ManifestType ==
    ASSUME world \in Worlds, NEW p \in Pkg, NEW v \in Published(p)
    PROVE  /\ v \in Version /\ world[p][v] \in Manifest
           /\ world[p][v].needs \in Seq(Request) /\ world[p][v].oneof \in Seq(Request)
           /\ world[p][v].bars \subseteq Pkg /\ world[p][v].drops \subseteq Pkg
           /\ world[p][v].gives \subseteq Capability
<1>1. v \in Version /\ world[p][v] \in Manifest
  BY Facts DEF Published
<1> QED BY <1>1 DEF Manifest

LEMMA AllowedType ==
    ASSUME NEW p PROVE Allowed(p) \subseteq Published(p) /\ Published(p) \subseteq 1 .. MaxVersion
BY DEF Allowed, Published, Version

LEMMA AskedType ==
    ASSUME Typed, queue # <<>>
    PROVE  Asked \in Request /\ Target \in Pkg /\ Asked[2] \subseteq Version
<1>1. queue[1] \in Request
  BY DEF Typed
<1> QED BY <1>1, RequestType DEF Asked, Target

\* What a request comes to that nothing is wrong with.
LEMMA NoTrouble ==
    ASSUME Typed, queue # <<>>, Trouble = None
    PROVE  /\ Target \notin barred
           /\ SuitsRequest \/ (Target \notin Chosen /\ Candidates # {} /\ ~Collides /\ ~Unmet)
<1>1. \A kind \in Kind : Error(kind, Target) # None
  BY AskedType, Facts
<1> QED BY <1>1 DEF Trouble, Kind, SuitsRequest

LEMMA TroubleType ==
    ASSUME Trouble # None
    PROVE  /\ Trouble.kind \in Kind
           /\ Trouble.kind = "clash" => Target \in Chosen
BY DEF Trouble, Kind, Error

LEMMA PickedType ==
    ASSUME Typed, queue # <<>>, Candidates # {}
    PROVE  /\ Picked \in Candidates /\ Picked \in Allowed(Target) /\ Picked \in Asked[2]
           /\ Picked \in Version /\ PickedManifest \in Manifest
<1>1. Candidates \in SUBSET (1 .. MaxVersion) /\ MaxVersion \in Nat
  BY AllowedType, Facts DEF Candidates
<1>2. Picked \in Candidates
  BY <1>1, HighestIn DEF Picked
<1>3. Picked \in Published(Target)
  BY <1>2, AllowedType DEF Candidates
<1> QED BY <1>2, <1>3, AskedType, ManifestType DEF Candidates, PickedManifest, Typed

LEMMA AlternativesType ==
    ASSUME Typed, queue # <<>>, Candidates # {}
    PROVE  /\ Alternatives \in Seq(Request) /\ PickedManifest.needs \in Seq(Request)
           /\ PickedManifest.oneof \in Seq(Request)
<1>1. PickedManifest.oneof \in Seq(Request) /\ PickedManifest.needs \in Seq(Request)
  BY PickedType DEF Manifest
<1>2. PickedManifest.oneof # <<>> => PickedManifest.oneof[1] \in Request
  BY <1>1
<1> QED BY <1>1, <1>2 DEF Alternatives

\* What a pass starts from.
Fresh ==
    /\ queue = roots /\ chosen = [p \in Pkg |-> None]
    /\ barred = {} /\ dropped = {} /\ offered = {}

LEMMA InitTyped == Init => Typed
<1> SUFFICES ASSUME Init PROVE Typed
  OBVIOUS
<1>1. Chosen = {}
  BY DEF Init, Chosen
<1>2. queue \in Seq(Request) /\ stack \in Seq(Bound) /\ DOMAIN stack = {}
  BY Facts DEF Init
<1> QED BY <1>1, <1>2 DEF Init, Typed, Running, Error

LEMMA ProcessTyped == ASSUME Typed, Process PROVE Typed'
<1>1. /\ queue # <<>> /\ Trouble = None
      /\ UNCHANGED <<world, roots, solver, stack, attempts, first, graph, outcome>>
  BY DEF Process
<1>2. \A p : Published(p)' = Published(p) /\ Allowed(p)' = Allowed(p)
  BY <1>1 DEF Published, Allowed, BoundsOf
<1>3. Tail(queue) \in Seq(Request)
  BY <1>1 DEF Typed
<1>4. CASE Target \in Chosen
  <2>1. queue' = Tail(queue) /\ UNCHANGED <<chosen, barred, dropped, offered>>
    BY <1>4 DEF Process
  <2>2. Chosen' = Chosen
    BY <2>1 DEF Chosen
  <2> QED BY <1>1, <1>2, <1>3, <2>1, <2>2 DEF Typed
<1>5. CASE Target \notin Chosen
  <2>1. /\ queue' = Tail(queue) \o Alternatives \o PickedManifest.needs
        /\ chosen' = [chosen EXCEPT ![Target] = Picked]
        /\ barred' = barred \cup PickedManifest.bars
        /\ dropped' = dropped \cup PickedManifest.drops
        /\ offered' = offered \cup PickedManifest.gives
    BY <1>5 DEF Process
  <2>2. Candidates # {}
    BY <1>1, <1>5, NoTrouble DEF SuitsRequest
  <2>3. /\ PickedManifest.bars \subseteq Pkg /\ PickedManifest.drops \subseteq Pkg
        /\ PickedManifest.gives \subseteq Capability
    BY <1>1, <2>2, PickedType DEF Manifest
  <2>4. queue' \in Seq(Request)
    BY <1>1, <1>3, <2>1, <2>2, AlternativesType
  <2>5. chosen' \in [Pkg -> Version \cup {None}]
    BY <1>1, <2>1, <2>2, PickedType DEF Typed
  <2>6. ASSUME NEW p \in Chosen' PROVE chosen'[p] \in Allowed(p)
    <3>1. p \in Pkg /\ chosen'[p] # None
      BY <2>6 DEF Chosen
    <3>2. p = Target \/ (p \in Chosen /\ chosen'[p] = chosen[p])
      BY <2>1, <3>1 DEF Typed, Chosen
    <3> QED BY <1>1, <2>1, <2>2, <3>1, <3>2, PickedType DEF Typed
  <2>7. \A p \in Chosen' : chosen'[p] \in Allowed(p)'
    BY <1>2, <2>6
  <2> QED BY <1>1, <1>2, <2>1, <2>3, <2>4, <2>5, <2>7 DEF Typed
<1> QED BY <1>4, <1>5

LEMMA StopTyped ==
    ASSUME Typed, NEW error, error.kind \in Kind \cup {"solved"}, Stop(error) PROVE Typed'
BY DEF Typed, Stop, Chosen, Allowed, Published, BoundsOf

LEMMA FirstErrorType ==
    ASSUME Typed, Trouble # None PROVE FirstError.kind \in Kind
BY TroubleType DEF Typed, FirstError

LEMMA RetryTyped ==
    ASSUME Typed, solver = "sat", NEW new \in Seq(Bound), Retry(new),
           \A i \in DOMAIN new : new[i][2] \in Published(new[i][1]),
           first' = None \/ first'.kind \in Kind
    PROVE  Typed'
<1>1. Chosen' = {}
  BY DEF Retry, Chosen
<1>2. roots \in Seq(Request)
  BY Facts DEF Typed
<1>3. \A p : Published(p)' = Published(p)
  BY DEF Retry, Published
<1> QED BY <1>1, <1>2, <1>3 DEF Typed, Retry

LEMMA FinishTyped == ASSUME Typed, Finish PROVE Typed'
<1>1. /\ outcome'.kind = "solved" /\ graph' \in [Pkg -> Version \cup {None}]
      /\ UNCHANGED <<world, roots, solver, queue, chosen, barred, dropped, offered, stack, first>>
  BY DEF Typed, Finish, Solved, Error
<1> QED BY <1>1 DEF Typed, Chosen, Allowed, Published, BoundsOf

LEMMA FailTyped == ASSUME Typed, Fail PROVE Typed'
BY TroubleType, StopTyped DEF Fail

LEMMA NarrowTyped == ASSUME Typed, Narrow PROVE Typed'
<1>1. queue # <<>> /\ Trouble # None /\ solver = "sat" /\ Trouble.kind = "clash"
  BY DEF Narrow
<1> DEFINE b == <<Target, chosen[Target]>>
           new == Append(stack, b)
<1>2. CASE Retry(new) /\ first' = FirstError
  <2>1. Target \in Pkg /\ chosen[Target] \in Published(Target) /\ chosen[Target] \in Version
    <3>1. Target \in Pkg /\ chosen[Target] \in Allowed(Target)
      BY <1>1, AskedType, TroubleType DEF Typed
    <3> QED BY <3>1, AllowedType DEF Version
  <2>2. b \in Bound
    BY <2>1 DEF Bound
  <2>3. new \in Seq(Bound) /\ \A i \in DOMAIN new : (i \in DOMAIN stack /\ new[i] = stack[i]) \/ new[i] = b
    <3> HIDE DEF b
    <3> QED BY <2>2 DEF Typed
  <2>4. \A i \in DOMAIN new : new[i][2] \in Published(new[i][1])
    BY <2>1, <2>3 DEF Typed
  <2>5. first'.kind \in Kind
    BY <1>1, <1>2, FirstErrorType
  <2> HIDE DEF new
  <2> QED BY <1>1, <1>2, <2>3, <2>4, <2>5, RetryTyped
<1>3. CASE GivesUp
  BY <1>1, <1>3, FirstErrorType, StopTyped DEF GivesUp
<1> QED BY <1>2, <1>3 DEF Narrow

LEMMA BacktrackTyped == ASSUME Typed, Backtrack PROVE Typed'
<1> DEFINE able == {i \in DOMAIN stack : Lower(i) # {}}
           top == Highest(able)
           b == <<stack[top][1], Highest(Lower(top))>>
           new == SubSeq(stack, 1, top - 1) \o <<b>>
<1>1. queue # <<>> /\ Trouble # None /\ solver = "sat" /\ stack \in Seq(Bound)
  BY DEF Backtrack, Typed
<1>2. \/ able = {} /\ Stop(FirstError)
      \/ able # {} /\ Retry(new) /\ UNCHANGED first
      \/ GivesUp
  BY DEF Backtrack
<1>3. CASE (able = {} /\ Stop(FirstError)) \/ GivesUp
  BY <1>1, <1>3, FirstErrorType, StopTyped DEF GivesUp
<1>4. CASE able # {} /\ Retry(new) /\ UNCHANGED first
  <2>1. top \in DOMAIN stack /\ Lower(top) # {}
    <3>1. able \in SUBSET (1 .. Len(stack)) /\ Len(stack) \in Nat
      BY <1>1
    <3>2. top \in able
      <4> HIDE DEF able
      <4> QED BY <1>4, <3>1, HighestIn
    <3> QED BY <3>2
  <2> HIDE DEF able, top
  <2>2. stack[top] \in Bound /\ stack[top][1] \in Pkg
    BY <1>1, <2>1 DEF Bound
  <2>3. Highest(Lower(top)) \in Lower(top)
    <3>1. Lower(top) \in SUBSET (1 .. MaxVersion) /\ MaxVersion \in Nat
      BY Facts DEF Lower, Published, Version
    <3> QED BY <2>1, <3>1, HighestIn
  <2>4. b[2] \in Published(b[1]) /\ b \in Bound
    BY <2>2, <2>3 DEF Lower, Bound, Published
  <2>5. /\ new \in Seq(Bound)
        /\ \A i \in DOMAIN new : (i \in DOMAIN stack /\ new[i] = stack[i]) \/ new[i] = b
    <3>1. top \in 1 .. Len(stack) /\ Len(stack) \in Nat
      BY <1>1, <2>1
    <3> DEFINE s == SubSeq(stack, 1, top - 1)
    <3>2. /\ s \in Seq(Bound) /\ Len(s) = top - 1
          /\ \A i \in 1 .. top - 1 : s[i] = stack[i] /\ i \in DOMAIN stack
      BY <1>1, <3>1, SubSeqProperties
    <3>3. DOMAIN s = 1 .. top - 1
      BY <3>2
    <3>4. new = s \o <<b>>
      OBVIOUS
    <3> HIDE DEF s, b, new
    <3> QED BY <2>4, <3>2, <3>3, <3>4, AddLast
  <2>6. \A i \in DOMAIN new : new[i][2] \in Published(new[i][1])
    BY <2>4, <2>5 DEF Typed
  <2>7. first' = None \/ first'.kind \in Kind
    BY <1>4 DEF Typed
  <2> HIDE DEF new
  <2> QED BY <1>1, <1>4, <2>5, <2>6, <2>7, RetryTyped
<1> QED BY <1>2, <1>3, <1>4

LEMMA StepTyped == Typed /\ [Next]_vars => Typed'
<1> SUFFICES ASSUME Typed, [Next]_vars PROVE Typed'
  OBVIOUS
<1>1. CASE Next
  BY <1>1, ProcessTyped, FinishTyped, FailTyped, NarrowTyped, BacktrackTyped DEF Next
<1>2. CASE UNCHANGED vars
  BY <1>2 DEF vars, Typed, Chosen, Allowed, Published, BoundsOf
<1> QED BY <1>1, <1>2

LEMMA TypeInvariance == Spec => []Typed
BY InitTyped, StepTyped, PTL DEF Spec

\* The queue holds requests, every package that is taken is published and below all
\* bounds on it, and every bound is a published version: so `sat` never takes
\* a version that it has excluded, and `naive` runs without bounds.
THEOREM TypeCorrect == Spec => []TypeOK
<1>1. Typed => TypeOK
  BY DEF Typed, TypeOK
<1> QED BY <1>1, TypeInvariance, PTL

------------------------------------------------------------------------------
\* What a pass owes

ManifestAt(p) == world[p][chosen[p]]

\* A request that is still in the queue, or is met.
Promised(r) == Among(r, queue) \/ Met(chosen, r)

\* What the package p that is in asks for is promised, or there.
Kept(p) ==
    /\ \A i \in DOMAIN ManifestAt(p).needs : Promised(ManifestAt(p).needs[i])
    /\ ManifestAt(p).oneof # <<>> =>
          \E i \in DOMAIN ManifestAt(p).oneof :
              ManifestAt(p).oneof[i][1] \in Chosen \/ Among(ManifestAt(p).oneof[i], queue)
    /\ ManifestAt(p).bars \subseteq barred
    /\ ManifestAt(p).bars \cap Chosen \subseteq {p}
    /\ \A want \in ManifestAt(p).wants : \E q \in Chosen : ManifestAt(q).gives \cap want # {}

\* g is what is chosen without what the chosen packages obsolete.
LeavesOut(g) ==
    \A p \in Pkg : g[p] = IF \E q \in Chosen : p \in ManifestAt(q).drops THEN None ELSE chosen[p]

Owed ==
    /\ \A i \in DOMAIN roots : Promised(roots[i])
    /\ \A p \in Chosen : Kept(p)
    /\ \A c \in offered : \E q \in Chosen : c \in ManifestAt(q).gives
    /\ dropped = UNION {ManifestAt(q).drops : q \in Chosen}
    /\ outcome = Solved => queue = <<>> /\ LeavesOut(graph)

Inv == Typed /\ Owed

LEMMA InManifest ==
    ASSUME Typed, NEW p \in Chosen
    PROVE  /\ p \in Pkg /\ chosen[p] \in Published(p) /\ chosen[p] \in Version
           /\ ManifestAt(p).needs \in Seq(Request) /\ ManifestAt(p).oneof \in Seq(Request)
           /\ ManifestAt(p).bars \subseteq Pkg /\ ManifestAt(p).drops \subseteq Pkg
<1>1. p \in Pkg /\ chosen[p] \in Published(p)
  BY AllowedType DEF Typed, Chosen
<1>2. world \in Worlds
  BY DEF Typed
<1> QED BY <1>1, <1>2, ManifestType DEF ManifestAt

\* A request that is taken from the queue and suits the package that is in.
LEMMA SuitedOK == ASSUME Inv, Process, Target \in Chosen PROVE Owed'
<1>1. /\ queue # <<>> /\ SuitsRequest /\ queue' = Tail(queue) /\ queue \in Seq(Request)
      /\ UNCHANGED <<world, roots, chosen, barred, dropped, offered, outcome>> /\ outcome = Running
  BY NoTrouble DEF Process, Inv, Typed
<1>2. Chosen' = Chosen /\ \A p : ManifestAt(p)' = ManifestAt(p)
  BY <1>1 DEF Chosen, ManifestAt
<1>3. ASSUME NEW r, Among(r, queue) PROVE Among(r, queue') \/ r = Asked
  BY <1>1, <1>3, AmongTail DEF Asked
<1>4. Met(chosen, Asked) /\ Asked[1] \in Chosen
  BY <1>1 DEF SuitsRequest, Met, Target
<1>5. ASSUME NEW r, Promised(r) PROVE Among(r, queue') \/ Met(chosen', r)
  BY <1>1, <1>3, <1>4, <1>5 DEF Promised
<1>6. ASSUME NEW p \in Chosen PROVE Kept(p)'
  <2> DEFINE m == ManifestAt(p)
  <2>1. Kept(p)
    BY <1>6 DEF Inv, Owed
  <2>2. \A i \in DOMAIN m.needs : Promised(m.needs[i])'
    BY <1>1, <1>2, <1>5, <2>1 DEF Kept, Promised
  <2>3. m.oneof # <<>> => \E i \in DOMAIN m.oneof : m.oneof[i][1] \in Chosen \/ Among(m.oneof[i], queue')
    BY <1>3, <1>4, <2>1 DEF Kept
  <2> QED BY <1>1, <1>2, <2>1, <2>2, <2>3 DEF Kept, Promised, Among
<1>7. \A i \in DOMAIN roots' : Promised(roots[i])'
  BY <1>1, <1>5 DEF Inv, Owed, Promised
<1>8. outcome' # Solved
  BY <1>1 DEF Running, Solved, Error
<1> QED BY <1>1, <1>2, <1>6, <1>7, <1>8 DEF Inv, Owed

\* A package that is taken for a request.
LEMMA TakenOK == ASSUME Inv, Process, Target \notin Chosen PROVE Owed'
<1> SUFFICES ASSUME NEW t, t = Target PROVE Owed'
  OBVIOUS
<1> DEFINE m == PickedManifest
<1>1. /\ queue # <<>> /\ queue \in Seq(Request) /\ Trouble = None /\ outcome = Running
      /\ UNCHANGED <<world, roots, outcome>> /\ Typed
  BY DEF Process, Inv, Typed
<1>2. Target \in Pkg /\ Target \notin barred /\ Candidates # {} /\ ~Collides /\ ~Unmet
  BY <1>1, NoTrouble, AskedType DEF SuitsRequest
<1>3. Picked \in Published(Target) /\ Picked \in Asked[2] /\ Picked \in Version
  BY <1>1, <1>2, PickedType, AllowedType
<1>4. /\ queue' = Tail(queue) \o Alternatives \o m.needs
      /\ chosen' = [chosen EXCEPT ![Target] = Picked]
      /\ barred' = barred \cup m.bars /\ offered' = offered \cup m.gives
      /\ dropped' = dropped \cup m.drops
  BY DEF Process
<1>5. /\ Chosen' = Chosen \cup {t} /\ ManifestAt(t)' = m
      /\ \A p \in Chosen : chosen'[p] = chosen[p] /\ ManifestAt(p)' = ManifestAt(p)
  <2>1. Picked # None /\ chosen \in [Pkg -> Version \cup {None}]
    BY <1>1, <1>3, Facts DEF Typed
  <2>2. chosen'[Target] = Picked /\ \A p \in Pkg \ {Target} : chosen'[p] = chosen[p]
    BY <1>2, <1>4, <2>1
  <2>3. Chosen \subseteq Pkg \ {Target}
    BY DEF Process, Chosen
  <2> QED BY <1>1, <1>2, <2>1, <2>2, <2>3 DEF Chosen, ManifestAt, PickedManifest
<1>6. Among(Asked, queue) /\ Met(chosen', Asked)
  <2>1. chosen'[Target] = Picked
    BY <1>1, <1>2, <1>4 DEF Typed
  <2>2. 1 \in DOMAIN queue /\ queue[1] = Asked
    BY <1>1 DEF Asked
  <2> QED BY <1>3, <2>1, <2>2 DEF Met, Target, Among
<1>7. /\ \A r : Among(r, Tail(queue)) \/ Among(r, Alternatives) \/ Among(r, m.needs) => Among(r, queue')
  <2>1. Tail(queue) \in Seq(Request) /\ Alternatives \in Seq(Request) /\ m.needs \in Seq(Request)
    BY <1>1, <1>2, AlternativesType
  <2>2. Tail(queue) \o Alternatives \in Seq(Request)
    BY <2>1
  <2> HIDE DEF m
  <2> QED BY <1>4, <2>1, <2>2, AmongConcat
<1>8. \A r : Among(r, queue) => Among(r, queue') \/ r = Asked
  BY <1>1, <1>7, AmongTail DEF Asked
<1>9. ASSUME NEW r \in Request, Promised(r) PROVE Among(r, queue') \/ Met(chosen', r)
  <2>1. CASE Among(r, queue)
    BY <1>6, <1>8, <2>1
  <2>2. CASE Met(chosen, r)
    <3>1. r[1] \in Pkg /\ chosen[r[1]] \in Version /\ chosen[r[1]] # None
      BY <2>2, RequestType, Facts DEF Met
    <3> QED BY <1>5, <2>2, <3>1 DEF Met, Chosen
  <2> QED BY <1>9, <2>1, <2>2 DEF Promised
<1> HIDE DEF m
<1>10. ASSUME NEW p \in Chosen PROVE Kept(p)'
  <2> DEFINE o == ManifestAt(p)
  <2>1. Kept(p) /\ p \in Pkg /\ o.needs \in Seq(Request) /\ p \in Chosen'
    BY <1>1, <1>5, <1>10, InManifest DEF Inv, Owed
  <2>2. \A i \in DOMAIN o.needs : Among(o.needs[i], queue') \/ Met(chosen', o.needs[i])
    <3>1. \A i \in DOMAIN o.needs : o.needs[i] \in Request
      BY <2>1
    <3> QED BY <1>9, <2>1, <3>1 DEF Kept
  <2>3. o.oneof # <<>> => \E i \in DOMAIN o.oneof : o.oneof[i][1] \in Chosen' \/ Among(o.oneof[i], queue')
    BY <1>5, <1>8, <2>1 DEF Kept, Target
  <2>4. o.bars \subseteq barred' /\ o.bars \cap Chosen' \subseteq {p}
    BY <1>2, <1>4, <1>5, <2>1 DEF Kept
  <2>5. \A want \in o.wants : \E q \in Chosen' : ManifestAt(q)'.gives \cap want # {}
    BY <1>5, <2>1 DEF Kept
  <2>6. ManifestAt(p)' = o
    BY <1>5, <1>10
  <2> HIDE DEF o
  <2> QED BY <2>2, <2>3, <2>4, <2>5, <2>6 DEF Kept, Promised, Among
<1>11. \A c \in offered' : \E q \in Chosen' : c \in ManifestAt(q)'.gives
  <2>1. \A c \in offered : \E q \in Chosen : c \in ManifestAt(q).gives
    BY DEF Inv, Owed
  <2> QED BY <1>4, <1>5, <2>1
<1>12. Kept(t)'
  <2>1. \A i \in DOMAIN m.needs : Among(m.needs[i], queue')
    BY <1>7 DEF Among
  <2>2. m.oneof # <<>> => \E i \in DOMAIN m.oneof : m.oneof[i][1] \in Chosen' \/ Among(m.oneof[i], queue')
    <3> SUFFICES ASSUME m.oneof # <<>>, \A i \in DOMAIN m.oneof : m.oneof[i][1] \notin Chosen
                 PROVE  \E i \in DOMAIN m.oneof : Among(m.oneof[i], queue')
      BY <1>5
    <3>1. Alternatives = <<m.oneof[1]>>
      BY DEF Alternatives, m
    <3>2. Among(m.oneof[1], Alternatives)
      BY <3>1 DEF Among
    <3>3. 1 \in DOMAIN m.oneof
      BY <1>1, <1>2, AlternativesType DEF m
    <3> QED BY <1>7, <3>2, <3>3
  <2>3. m.bars \subseteq barred' /\ m.bars \cap Chosen' \subseteq {t}
    BY <1>2, <1>4, <1>5 DEF Collides, m
  <2>4. \A want \in m.wants : \E q \in Chosen' : ManifestAt(q)'.gives \cap want # {}
    <3> SUFFICES ASSUME NEW want \in m.wants
                 PROVE  \E q \in Chosen' : ManifestAt(q)'.gives \cap want # {}
      OBVIOUS
    <3>1. PICK c \in want : c \in offered'
      BY <1>2, <1>4 DEF Unmet, m
    <3> QED BY <1>11, <3>1
  <2> QED BY <1>5, <2>1, <2>2, <2>3, <2>4 DEF Kept, Promised, Among
<1>13. \A i \in DOMAIN roots' : Promised(roots[i])'
  <2>1. \A i \in DOMAIN roots : roots[i] \in Request /\ Promised(roots[i])
    <3>1. roots \in Seq(Request)
      BY <1>1, Facts DEF Typed
    <3> QED BY <3>1 DEF Inv, Owed
  <2> QED BY <1>1, <1>9, <2>1 DEF Promised
<1>14. \A p \in Chosen' : Kept(p)'
  BY <1>5, <1>10, <1>12
<1>15. outcome' # Solved
  BY <1>1 DEF Running, Solved, Error
<1>16. dropped' = UNION {ManifestAt(q)'.drops : q \in Chosen'}
  <2>1. dropped = UNION {ManifestAt(q).drops : q \in Chosen}
    BY DEF Inv, Owed
  <2> QED BY <1>4, <1>5, <2>1
<1> QED BY <1>11, <1>13, <1>14, <1>15, <1>16 DEF Owed

\* A pass that starts owes the roots.
LEMMA RetryOwed == ASSUME Inv, NEW new, Retry(new), outcome = Running PROVE Owed'
<1>1. roots \in Seq(Request) /\ queue' = roots /\ roots' = roots /\ outcome' # Solved
  BY Facts DEF Inv, Typed, Retry, Running, Solved, Error
<1>2. Chosen' = {} /\ offered' = {} /\ dropped' = {}
  BY DEF Retry, Chosen
<1>3. \A i \in DOMAIN roots : Among(roots[i], queue')
  BY <1>1 DEF Among
<1> QED BY <1>1, <1>2, <1>3 DEF Owed, Promised

\* A solver that stops leaves what it has chosen as it is, and has an answer only when
\* nothing is promised any more.
LEMMA StopOwed ==
    ASSUME Inv, UNCHANGED <<world, roots, queue, chosen, barred, dropped, offered>>,
           outcome' = Solved => queue = <<>> /\ LeavesOut(graph')
    PROVE  Owed'
<1>1. UNCHANGED <<world, roots, queue, chosen, barred, dropped, offered>>
  OBVIOUS
<1>2. Chosen' = Chosen /\ \A p : ManifestAt(p)' = ManifestAt(p)
  BY <1>1 DEF Chosen, ManifestAt
<1>3. \A r : Promised(r)' <=> Promised(r)
  BY <1>1 DEF Promised, Among, Met
<1>4. \A p \in Chosen : Kept(p)'
  <2> SUFFICES ASSUME NEW p \in Chosen PROVE Kept(p)'
    OBVIOUS
  <2>1. Kept(p)
    BY DEF Inv, Owed
  <2>2. \A r : Among(r, queue') <=> Among(r, queue)
    BY <1>1
  <2> QED BY <1>1, <1>2, <1>3, <2>1, <2>2 DEF Kept, Among
<1>5. dropped' = UNION {ManifestAt(q)'.drops : q \in Chosen'}
  BY <1>1, <1>2 DEF Inv, Owed
<1>6. outcome' = Solved => queue' = <<>> /\ LeavesOut(graph)'
  BY <1>1, <1>2 DEF LeavesOut
<1> QED BY <1>1, <1>2, <1>3, <1>4, <1>5, <1>6 DEF Inv, Owed

\* A solver that fails.
LEMMA FailedOwed == ASSUME Inv, NEW error, error # Solved, Stop(error) PROVE Owed'
BY StopOwed DEF Stop

LEMMA FinishOwed == ASSUME Inv, Finish PROVE Owed'
<1>1. /\ queue = <<>> /\ UNCHANGED <<world, roots, queue, chosen, barred, dropped, offered>>
      /\ graph' = [p \in Pkg |-> IF p \in dropped THEN None ELSE chosen[p]]
  BY DEF Finish
<1>2. dropped = UNION {ManifestAt(q).drops : q \in Chosen}
  BY DEF Inv, Owed
<1>3. LeavesOut(graph')
  BY <1>1, <1>2 DEF LeavesOut
<1> QED BY <1>1, <1>3, StopOwed

LEMMA TroubleIsNotSolved ==
    ASSUME Typed, Trouble # None PROVE Trouble # Solved /\ FirstError # Solved
BY TroubleType, FirstErrorType DEF Solved, Error, Kind

LEMMA StepOwed == ASSUME Inv, [Next]_vars PROVE Owed'
<1>1. Typed
  BY DEF Inv
<1>2. CASE Process
  BY <1>2, SuitedOK, TakenOK
<1>3. CASE Finish
  BY <1>3, FinishOwed
<1>4. CASE Fail
  BY <1>1, <1>4, FailedOwed, TroubleIsNotSolved DEF Fail
<1>5. CASE Narrow
  BY <1>1, <1>5, FailedOwed, RetryOwed, TroubleIsNotSolved DEF Narrow, GivesUp
<1>6. CASE Backtrack
  BY <1>1, <1>6, FailedOwed, RetryOwed, TroubleIsNotSolved DEF Backtrack, GivesUp
<1>7. CASE UNCHANGED vars
  <2>1. UNCHANGED <<world, roots, queue, chosen, barred, dropped, offered, graph, outcome>>
    BY <1>7 DEF vars
  <2>2. outcome' = Solved => queue = <<>> /\ LeavesOut(graph')
    BY <2>1 DEF Inv, Owed
  <2> QED BY <2>1, <2>2, StopOwed
<1> QED BY <1>2, <1>3, <1>4, <1>5, <1>6, <1>7 DEF Next

LEMMA InitOwed == Init => Owed
<1> SUFFICES ASSUME Init PROVE Owed
  OBVIOUS
<1>1. Chosen = {} /\ offered = {} /\ dropped = {} /\ outcome # Solved
  BY DEF Init, Chosen, Running, Solved, Error
<1>2. \A i \in DOMAIN roots : Among(roots[i], queue)
  BY DEF Init, Among
<1> QED BY <1>1, <1>2 DEF Owed, Promised

LEMMA OwedInvariance == Spec => []Inv
<1>1. Init => Inv
  BY InitTyped, InitOwed DEF Inv
<1>2. Inv /\ [Next]_vars => Inv'
  BY StepTyped, StepOwed DEF Inv
<1> QED BY <1>1, <1>2, PTL DEF Spec

\* No package has itself among its conflicts. `process_one` looks for a conflict
\* among the packages that were in before, and would take such a package.
NoneBarsItself ==
    \A w \in Worlds : \A p \in Pkg : \A v \in Version : w[p][v] # None => p \notin w[p][v].bars

\* What naive or sat takes for solved is a solution of the clauses that resolvo is
\* given, whatever the order of requests, the shared capabilities and the bounds that
\* sat has put on and taken back, as long as no package conflicts with itself; and
\* the answer lacks what the chosen packages obsolete, and nothing else.
THEOREM SolvedAreAdmitted == NoneBarsItself => (Spec => []SolvedIsAdmitted)
<1> SUFFICES ASSUME NoneBarsItself PROVE Spec => []SolvedIsAdmitted
  OBVIOUS
<1>1. Inv => SolvedIsAdmitted
  <2>0. Inv /\ outcome = Solved => LeavesOut(graph)
    BY DEF Inv, Owed
  <2> SUFFICES ASSUME Inv, outcome = Solved PROVE Admits(chosen)
    BY <2>0 DEF SolvedIsAdmitted, LeavesOut, ManifestAt
  <2>1. queue = <<>> /\ \A r : ~Among(r, queue)
    BY DEF Inv, Owed, Among
  <2>2. \A i \in DOMAIN roots : Met(chosen, roots[i])
    BY <2>1 DEF Inv, Owed, Promised
  <2>3. ASSUME NEW p \in Pkg, chosen[p] # None PROVE Holds(chosen, p)
    <3> DEFINE m == ManifestAt(p)
    <3>1. p \in Chosen /\ Kept(p)
      BY <2>3 DEF Inv, Owed, Chosen
    <3>2. m # None
      BY <3>1, InManifest DEF Inv, ManifestAt, Published
    <3>3. \A i \in DOMAIN m.needs : Met(chosen, m.needs[i])
      BY <2>1, <3>1 DEF Kept, Promised
    <3>4. m.oneof # <<>> => \E i \in DOMAIN m.oneof : chosen[m.oneof[i][1]] # None
      BY <2>1, <3>1 DEF Kept, Chosen
    <3>5. \A q \in m.bars : chosen[q] = None
      <4>1. p \notin m.bars
        BY <3>1, <3>2, InManifest DEF Inv, Typed, NoneBarsItself, ManifestAt
      <4> QED BY <3>1, <4>1, InManifest DEF Inv, Kept, Chosen
    <3>6. \A want \in m.wants : \E q \in Pkg : chosen[q] # None /\ world[q][chosen[q]].gives \cap want # {}
      BY <3>1 DEF Kept, Chosen, ManifestAt
    <3> QED BY <3>2, <3>3, <3>4, <3>5, <3>6 DEF Holds, ManifestAt
  <2> QED BY <2>2, <2>3 DEF Admits
<1> QED BY <1>1, OwedInvariance, PTL

------------------------------------------------------------------------------
\* The search of sat descends

\* sat.rs: "entries for one package only ever descend".
Descending ==
    \A i, j \in DOMAIN stack : i < j /\ stack[i][1] = stack[j][1] => stack[j][2] < stack[i][2]

\* sat.rs: "every step strictly lowers some package's bound". The stack `new` has
\* the entries of `old` up to some place, and there a lower bound for the package
\* whose turn it was, or at the end a bound for one more.
LowersABound(old, new) ==
    \E i \in 1 .. Len(old) + 1 :
        /\ Len(new) = i
        /\ \A j \in 1 .. i - 1 : new[j] = old[j]
        /\ i \in DOMAIN old => new[i][1] = old[i][1] /\ new[i][2] < old[i][2]

\* A last entry below the earlier ones of its package keeps the entries descending.
LEMMA DescendOn ==
    ASSUME stack \in Seq(Bound), Descending, NEW t \in Seq(Bound), NEW i \in 1 .. Len(stack) + 1,
           Len(t) = i, \A j \in 1 .. i - 1 : t[j] = stack[j],
           \A j \in 1 .. i - 1 : stack[j][1] = t[i][1] => t[i][2] < stack[j][2]
    PROVE  \A j, k \in DOMAIN t : j < k /\ t[j][1] = t[k][1] => t[k][2] < t[j][2]
<1> SUFFICES ASSUME NEW j \in DOMAIN t, NEW k \in DOMAIN t, j < k, t[j][1] = t[k][1]
             PROVE  t[k][2] < t[j][2]
  OBVIOUS
<1>1. DOMAIN t = 1 .. i /\ DOMAIN stack = 1 .. Len(stack) /\ Len(stack) \in Nat /\ i \in Nat
  OBVIOUS
<1>2. j \in 1 .. i - 1 /\ t[j] = stack[j] /\ j \in DOMAIN stack
  BY <1>1
<1>3. CASE k = i
  BY <1>2, <1>3
<1>4. CASE k # i
  <2>1. k \in 1 .. i - 1 /\ t[k] = stack[k] /\ k \in DOMAIN stack
    BY <1>1, <1>4
  <2> QED BY <1>2, <2>1 DEF Descending
<1> QED BY <1>3, <1>4

\* A pass starts under other bounds: one more, or an earlier one lowered.
LEMMA NarrowDescends ==
    ASSUME Typed, Descending, Narrow, stack' # stack
    PROVE  Descending' /\ LowersABound(stack, stack')
<1> DEFINE b == <<Target, chosen[Target]>>
           n == Len(stack) + 1
<1>1. stack' = Append(stack, b) /\ stack \in Seq(Bound) /\ queue # <<>> /\ Trouble # None /\ Trouble.kind = "clash"
  BY DEF Narrow, Retry, GivesUp, Stop, Typed
<1>2. Target \in Pkg /\ chosen[Target] \in Allowed(Target) /\ chosen[Target] \in Version
  <2>1. Target \in Pkg /\ Target \in Chosen
    BY <1>1, AskedType, TroubleType
  <2> QED BY <2>1, AllowedType DEF Typed, Version
<1>3. b \in Bound
  BY <1>2 DEF Bound
<1>4. /\ stack' \in Seq(Bound) /\ Len(stack') = n /\ stack'[n] = b
      /\ \A j \in 1 .. n - 1 : stack'[j] = stack[j]
      /\ n \in 1 .. Len(stack) + 1 /\ n \notin DOMAIN stack /\ DOMAIN stack = 1 .. n - 1
  <2> HIDE DEF b
  <2> QED BY <1>1, <1>3
<1>5. \A j \in 1 .. n - 1 : stack[j][1] = stack'[n][1] => stack'[n][2] < stack[j][2]
  BY <1>2, <1>4 DEF Allowed, BoundsOf
<1> HIDE DEF n
<1>6. Descending'
  BY <1>1, <1>4, <1>5, DescendOn DEF Descending
<1> QED BY <1>4, <1>6 DEF LowersABound

LEMMA BacktrackDescends ==
    ASSUME Typed, Descending, Backtrack, stack' # stack
    PROVE  Descending' /\ LowersABound(stack, stack')
<1> DEFINE able == {i \in DOMAIN stack : Lower(i) # {}}
           top == Highest(able)
           b == <<stack[top][1], Highest(Lower(top))>>
<1>1. stack \in Seq(Bound) /\ able # {} /\ stack' = SubSeq(stack, 1, top - 1) \o <<b>>
  BY DEF Backtrack, Retry, GivesUp, Stop, Typed
<1>2. top \in 1 .. Len(stack) /\ Lower(top) # {} /\ Len(stack) \in Nat
  <2>1. able \in SUBSET (1 .. Len(stack)) /\ Len(stack) \in Nat
    BY <1>1
  <2>2. top \in able
    <3> HIDE DEF able
    <3> QED BY <1>1, <2>1, HighestIn
  <2> QED BY <2>1, <2>2
<1> HIDE DEF able, top
<1>3. Highest(Lower(top)) \in Lower(top)
  <2>1. Lower(top) \in SUBSET (1 .. MaxVersion) /\ MaxVersion \in Nat
    BY Facts DEF Lower, Published, Version
  <2> QED BY <1>2, <2>1, HighestIn
<1>4. stack[top] \in Bound /\ b \in Bound /\ b[1] = stack[top][1] /\ b[2] < stack[top][2]
  <2>1. stack[top] \in Bound
    BY <1>1, <1>2
  <2>2. Highest(Lower(top)) \in Version /\ Highest(Lower(top)) < stack[top][2]
    BY <1>3 DEF Lower, Published
  <2> QED BY <2>1, <2>2 DEF Bound
<1>5. /\ stack' \in Seq(Bound) /\ Len(stack') = top /\ stack'[top] = b
      /\ \A j \in 1 .. top - 1 : stack'[j] = stack[j]
  <2> DEFINE s == SubSeq(stack, 1, top - 1)
  <2>1. s \in Seq(Bound) /\ Len(s) = top - 1 /\ \A j \in 1 .. top - 1 : s[j] = stack[j]
    BY <1>1, <1>2, SubSeqProperties
  <2>2. stack' = s \o <<b>> /\ <<b>> \in Seq(Bound)
    BY <1>1, <1>4
  <2> HIDE DEF s, b
  <2> QED BY <1>2, <2>1, <2>2
<1>6. ASSUME NEW j \in 1 .. top - 1, stack[j][1] = stack'[top][1] PROVE stack'[top][2] < stack[j][2]
  <2>1. j \in DOMAIN stack /\ top \in DOMAIN stack /\ j < top /\ stack[j] \in Bound
    BY <1>1, <1>2
  <2>2. stack[top][2] < stack[j][2]
    BY <1>4, <1>5, <1>6, <2>1 DEF Descending
  <2>3. b[2] \in Nat /\ stack[top][2] \in Nat /\ stack[j][2] \in Nat
    BY <1>4, <2>1 DEF Bound, Version
  <2> HIDE DEF b
  <2> QED BY <1>4, <1>5, <2>2, <2>3
<1> HIDE DEF b
<1>7. top \in 1 .. Len(stack) + 1
  BY <1>2
<1>8. Descending'
  BY <1>1, <1>5, <1>6, <1>7, DescendOn DEF Descending
<1> QED BY <1>1, <1>4, <1>5, <1>7, <1>8 DEF LowersABound

LEMMA StepDescends ==
    ASSUME Typed, Descending, [Next]_vars
    PROVE  Descending' /\ (stack' # stack => LowersABound(stack, stack'))
<1>1. CASE stack' = stack
  BY <1>1 DEF Descending
<1>2. CASE stack' # stack
  <2>1. Narrow \/ Backtrack
    BY <1>2 DEF Next, vars, Process, Finish, Fail, Stop
  <2> QED BY <1>2, <2>1, NarrowDescends, BacktrackDescends
<1> QED BY <1>1, <1>2

LEMMA InitDescending == Init => Descending
BY DEF Init, Descending

\* The bounds that sat has on one package get lower and lower along its stack, so
\* that no entry repeats another and the newest is the one that counts.
THEOREM EntriesDescend == Spec => []Descending
BY InitDescending, StepDescends, TypeInvariance, PTL DEF Spec

\* Every new pass of sat starts under bounds that come later, in the order in which
\* stacks are compared entry by entry: no pass is ever made twice. This is the part of
\* the search's end that needs no fairness.
THEOREM EachPassLowersABound == Spec => [][stack' # stack => LowersABound(stack, stack')]_vars
<1>1. Typed /\ Descending /\ [Next]_vars => [stack' # stack => LowersABound(stack, stack')]_vars
  BY StepDescends
<1> QED BY <1>1, TypeInvariance, EntriesDescend, PTL DEF Spec

------------------------------------------------------------------------------
\* Where the solvers answer what the planning asks for

Targets(s) == {s[i][1] : i \in DOMAIN s}

\* What a list of requests asks for, as the planning says it: for each package the
\* versions that all the requests for it accept.
RequireOf(s) ==
    [p \in Pkg |-> {v \in Version : /\ p \in Targets(s)
                                    /\ \A i \in DOMAIN s : s[i][1] = p => v \in s[i][2]}]

\* The planning sees the registry that the solver searches, and knows what the
\* alternatives of a package may bring in. Conditions and capabilities are of no
\* concern to this.
SameOffer ==
    \A p \in Pkg : \A v \in Version :
        /\ registry[p][v] = None <=> world[p][v] = None
        /\ world[p][v] # None =>
              /\ registry[p][v].needs = RequireOf(world[p][v].needs)
              /\ registry[p][v].drops = world[p][v].drops
              /\ Targets(world[p][v].oneof) \subseteq registry[p][v].brings

\* What a package that is in leads to.
Leads(p) == Targets(ManifestAt(p).needs) \cup Targets(ManifestAt(p).oneof)

\* The roots lead, by way of what is chosen, to all that is chosen and asked for.
Led ==
    \A S \in SUBSET Pkg :
        /\ Targets(roots) \subseteq S
        /\ \A p \in S \cap Chosen : Leads(p) \subseteq S
        => Chosen \subseteq S /\ Targets(queue) \subseteq S

LEMMA TargetsConcat ==
    ASSUME NEW s \in Seq(Request), NEW t \in Seq(Request)
    PROVE  Targets(s \o t) = Targets(s) \cup Targets(t)
<1>1. /\ DOMAIN s = 1 .. Len(s) /\ DOMAIN t = 1 .. Len(t) /\ Len(s) \in Nat /\ Len(t) \in Nat
      /\ DOMAIN (s \o t) = 1 .. Len(s) + Len(t)
      /\ \A i \in DOMAIN s : (s \o t)[i] = s[i]
      /\ \A i \in DOMAIN t : (s \o t)[Len(s) + i] = t[i]
  OBVIOUS
<1>2. ASSUME NEW p \in Targets(s) PROVE p \in Targets(s \o t)
  <2>1. PICK i \in DOMAIN s : s[i][1] = p
    BY DEF Targets
  <2>2. i \in DOMAIN (s \o t) /\ (s \o t)[i] = s[i]
    BY <1>1
  <2> QED BY <2>1, <2>2 DEF Targets
<1>3. ASSUME NEW p \in Targets(t) PROVE p \in Targets(s \o t)
  <2>1. PICK i \in DOMAIN t : t[i][1] = p
    BY DEF Targets
  <2>2. Len(s) + i \in DOMAIN (s \o t) /\ (s \o t)[Len(s) + i] = t[i]
    BY <1>1
  <2> QED BY <2>1, <2>2 DEF Targets
<1>4. ASSUME NEW p \in Targets(s \o t) PROVE p \in Targets(s) \cup Targets(t)
  <2>1. PICK i \in DOMAIN (s \o t) : (s \o t)[i][1] = p
    BY <1>4 DEF Targets
  <2>2. CASE i \in DOMAIN s
    BY <1>1, <2>1, <2>2 DEF Targets
  <2>3. CASE i \notin DOMAIN s
    <3>1. i - Len(s) \in DOMAIN t /\ Len(s) + (i - Len(s)) = i
      BY <1>1, <2>1, <2>3
    <3>2. (s \o t)[i] = t[i - Len(s)]
      BY <1>1, <3>1
    <3> QED BY <2>1, <3>1, <3>2 DEF Targets
  <2> QED BY <2>2, <2>3
<1> QED BY <1>2, <1>3, <1>4

LEMMA TargetsTail ==
    ASSUME NEW s \in Seq(Request), s # <<>>
    PROVE  s[1][1] \in Targets(s) /\ Targets(Tail(s)) \subseteq Targets(s)
<1>1. 1 \in DOMAIN s /\ \A i \in DOMAIN Tail(s) : i + 1 \in DOMAIN s /\ Tail(s)[i] = s[i + 1]
  OBVIOUS
<1> QED BY <1>1 DEF Targets

\* A choice that meets all requests of a list meets what the list asks for.
LEMMA MetIsMet ==
    ASSUME NEW g \in Graph, NEW s \in Seq(Request), \A i \in DOMAIN s : Met(g, s[i])
    PROVE  Meets(g, RequireOf(s)) /\ Declared(RequireOf(s)) = Targets(s)
<1>1. Targets(s) \subseteq Pkg
  BY RequestType DEF Targets
<1>2. ASSUME NEW p \in Targets(s) PROVE g[p] \in RequireOf(s)[p]
  <2>1. PICK i \in DOMAIN s : s[i][1] = p
    BY DEF Targets
  <2>2. s[i] \in Request /\ g[p] \in s[i][2]
    BY <2>1 DEF Met
  <2>3. g[p] \in Version
    BY <2>2, RequestType
  <2>4. \A j \in DOMAIN s : s[j][1] = p => g[p] \in s[j][2]
    BY DEF Met
  <2> QED BY <1>1, <2>3, <2>4 DEF RequireOf
<1>3. \A p \in Declared(RequireOf(s)) : p \in Targets(s)
  BY DEF Declared, RequireOf
<1> QED BY <1>1, <1>2, <1>3 DEF Meets, Declared

LEMMA InitLed == Init => Led
BY DEF Init, Led, Chosen

\* What is asked for because of a package that is taken is where it leads.
LEMMA ProcessLed == ASSUME Typed, Led, Process PROVE Led'
<1> SUFFICES ASSUME NEW t, t = Target PROVE Led'
  OBVIOUS
<1>1. /\ queue # <<>> /\ queue \in Seq(Request) /\ Trouble = None
      /\ UNCHANGED <<world, roots>>
  BY DEF Process, Typed
<1>2. Target \in Targets(queue) /\ Targets(Tail(queue)) \subseteq Targets(queue)
  BY <1>1, TargetsTail DEF Target, Asked
<1>3. CASE Target \in Chosen
  <2>1. queue' = Tail(queue) /\ chosen' = chosen
    BY <1>3 DEF Process
  <2>2. Chosen' = Chosen /\ \A p : Leads(p)' = Leads(p)
    BY <1>1, <2>1 DEF Chosen, Leads, ManifestAt, Targets
  <2> QED BY <1>1, <1>2, <2>1, <2>2 DEF Led, Targets
<1>4. CASE Target \notin Chosen
  <2> DEFINE m == PickedManifest
             led == Targets(m.needs) \cup Targets(m.oneof)
  <2>1. Candidates # {} /\ Target \in Pkg
    BY <1>1, <1>4, NoTrouble, AskedType DEF SuitsRequest
  <2>2. Picked \in Version
    BY <1>1, <2>1, PickedType
  <2>3. /\ Alternatives \in Seq(Request) /\ m.needs \in Seq(Request) /\ m.oneof \in Seq(Request)
        /\ Tail(queue) \in Seq(Request)
    BY <1>1, <2>1, AlternativesType
  <2>4. Targets(Alternatives) \subseteq Targets(m.oneof)
    <3>1. CASE Alternatives = <<>>
      BY <3>1 DEF Targets
    <3>2. CASE Alternatives # <<>>
      <4>1. Alternatives = <<m.oneof[1]>> /\ m.oneof # <<>>
        BY <3>2 DEF Alternatives
      <4>2. 1 \in DOMAIN m.oneof
        BY <2>3, <4>1
      <4> HIDE DEF m
      <4> QED BY <4>1, <4>2 DEF Targets
    <3> QED BY <3>1, <3>2
  <2>5. Targets(queue') \subseteq Targets(queue) \cup led
    <3>1. queue' = (Tail(queue) \o Alternatives) \o m.needs
      BY <1>4 DEF Process
    <3> HIDE DEF m
    <3>2. Tail(queue) \o Alternatives \in Seq(Request)
      BY <2>3
    <3>3. Targets(queue') = Targets(Tail(queue)) \cup Targets(Alternatives) \cup Targets(m.needs)
      BY <2>3, <3>1, <3>2, TargetsConcat
    <3> QED BY <1>2, <2>4, <3>3
  <2>6. /\ t \in Chosen' /\ Leads(t)' = led
        /\ \A p \in Chosen : p \in Chosen' /\ Leads(p)' = Leads(p)
        /\ Chosen' \subseteq Chosen \cup {t}
    <3>1. chosen' = [chosen EXCEPT ![Target] = Picked] /\ chosen \in [Pkg -> Version \cup {None}]
      BY <1>4 DEF Process, Typed
    <3>2. chosen'[Target] = Picked /\ \A p \in Pkg \ {Target} : chosen'[p] = chosen[p]
      BY <2>1, <3>1
    <3>3. Chosen \subseteq Pkg \ {Target} /\ Picked # None
      BY <1>4, <2>2, Facts DEF Chosen
    <3>4. ManifestAt(t)' = m /\ \A p \in Chosen : ManifestAt(p)' = ManifestAt(p)
      BY <1>1, <2>1, <3>2, <3>3 DEF ManifestAt, PickedManifest
    <3>5. /\ t \in Chosen' /\ \A p \in Chosen : p \in Chosen'
          /\ Chosen' \subseteq Chosen \cup {t}
      BY <2>1, <3>2, <3>3 DEF Chosen
    <3> HIDE DEF m
    <3> QED BY <3>4, <3>5 DEF Leads, Targets
  <2> HIDE DEF led
  <2> SUFFICES ASSUME NEW S \in SUBSET Pkg, Targets(roots) \subseteq S,
                      \A p \in S \cap Chosen' : Leads(p)' \subseteq S
               PROVE  Chosen' \subseteq S /\ Targets(queue') \subseteq S
    BY <1>1 DEF Led, Targets
  <2>7. Chosen \subseteq S /\ Targets(queue) \subseteq S
    <3>1. \A p \in S \cap Chosen : Leads(p) \subseteq S
      BY <2>6
    <3> QED BY <3>1 DEF Led
  <2>8. t \in S /\ led \subseteq S
    BY <1>2, <2>6, <2>7
  <2> QED BY <2>5, <2>6, <2>7, <2>8
<1> QED BY <1>3, <1>4

LEMMA StepLed == ASSUME Typed, Led, [Next]_vars PROVE Led'
<1>1. CASE Process
  BY <1>1, ProcessLed
<1>2. CASE UNCHANGED <<world, roots, queue, chosen>>
  <2>1. Chosen' = Chosen /\ \A p : Leads(p)' = Leads(p)
    BY <1>2 DEF Chosen, Leads, ManifestAt, Targets
  <2>2. Targets(roots)' = Targets(roots) /\ Targets(queue)' = Targets(queue)
    BY <1>2 DEF Targets
  <2> QED BY <2>1, <2>2 DEF Led
<1>3. ASSUME NEW new, Retry(new) PROVE Led'
  BY <1>3 DEF Led, Chosen, Retry, Targets
<1>4. Process \/ UNCHANGED <<world, roots, queue, chosen>> \/ \E new : Retry(new)
  <2>1. Finish \/ Fail => UNCHANGED <<world, roots, queue, chosen>>
    BY DEF Finish, Fail, Stop
  <2>2. Narrow => UNCHANGED <<world, roots, queue, chosen>> \/ \E new : Retry(new)
    BY DEF Narrow, GivesUp, Stop
  <2>3. Backtrack => UNCHANGED <<world, roots, queue, chosen>> \/ \E new : Retry(new)
    BY DEF Backtrack, GivesUp, Stop
  <2>4. UNCHANGED vars => UNCHANGED <<world, roots, queue, chosen>>
    BY DEF vars
  <2> QED BY <2>1, <2>2, <2>3, <2>4 DEF Next
<1> QED BY <1>1, <1>2, <1>3, <1>4

\* The answer of naive or sat is one that the planning reckons with.
Serves ==
    outcome = Solved =>
        /\ chosen \in Choices(registry, Declared(RequireOf(roots)))
        /\ Meets(chosen, RequireOf(roots))
        /\ graph = Answer(registry, chosen)

LEMMA SolvedServes == ASSUME Inv, Led, SameOffer PROVE Serves
<1> SUFFICES ASSUME outcome = Solved
             PROVE  /\ chosen \in Choices(registry, Declared(RequireOf(roots)))
                    /\ Meets(chosen, RequireOf(roots))
                    /\ graph = Answer(registry, chosen)
  BY DEF Serves
<1>1. /\ queue = <<>> /\ \A r : ~Among(r, queue)
      /\ chosen \in Graph /\ In(chosen) = Chosen /\ roots \in Seq(Request)
  BY Facts DEF Inv, Owed, Among, Typed, Graph, In, Chosen
<1>2. Meets(chosen, RequireOf(roots)) /\ Declared(RequireOf(roots)) = Targets(roots)
  <2>1. \A i \in DOMAIN roots : Met(chosen, roots[i])
    BY <1>1 DEF Inv, Owed, Promised
  <2> QED BY <1>1, <2>1, MetIsMet
<1>3. ASSUME NEW p \in Chosen
      PROVE  LET m == registry[p][chosen[p]] IN
             /\ m # None /\ m \in Offered(registry)
             /\ Meets(chosen, m.needs) /\ Declared(m.needs) = Targets(ManifestAt(p).needs)
             /\ Targets(ManifestAt(p).oneof) \subseteq m.brings /\ m.drops = ManifestAt(p).drops
  <2>1. p \in Pkg /\ chosen[p] \in Version /\ ManifestAt(p).needs \in Seq(Request) /\ ManifestAt(p) # None
    BY InManifest DEF Inv, ManifestAt, Published
  <2>2. \A i \in DOMAIN ManifestAt(p).needs : Met(chosen, ManifestAt(p).needs[i])
    BY <1>1 DEF Inv, Owed, Kept, Promised
  <2>3. /\ registry[p][chosen[p]] # None /\ registry[p][chosen[p]].needs = RequireOf(ManifestAt(p).needs)
        /\ Targets(ManifestAt(p).oneof) \subseteq registry[p][chosen[p]].brings
        /\ registry[p][chosen[p]].drops = ManifestAt(p).drops
    BY <2>1 DEF SameOffer, ManifestAt
  <2>4. registry[p][chosen[p]] \in Offered(registry)
    BY <2>1, <2>3 DEF Offered
  <2>5. /\ Meets(chosen, RequireOf(ManifestAt(p).needs))
        /\ Declared(RequireOf(ManifestAt(p).needs)) = Targets(ManifestAt(p).needs)
    BY <1>1, <2>1, <2>2, MetIsMet
  <2> QED BY <2>3, <2>4, <2>5
<1>4. Closed(registry, chosen)
  BY <1>1, <1>3 DEF Closed
<1>5. ASSUME NEW S \in SUBSET Chosen,
             (Declared(RequireOf(roots)) \cup Brought(registry)) \cap Chosen \subseteq S,
             \A q \in S : Declared(registry[q][chosen[q]].needs) \cap Chosen \subseteq S
      PROVE  S = Chosen
  <2> DEFINE T == S \cup (Pkg \ Chosen)
  <2>1. T \in SUBSET Pkg /\ T \cap Chosen = S
    BY DEF Chosen
  <2>2. Targets(roots) \subseteq T
    BY <1>1, <1>2, <1>5, RequestType DEF Targets
  <2>3. ASSUME NEW p \in S PROVE Leads(p) \subseteq T
    <3>1. Targets(ManifestAt(p).needs) \subseteq Pkg /\ Targets(ManifestAt(p).oneof) \subseteq Pkg
      BY <2>3, InManifest, RequestType DEF Inv, Targets
    <3>2. Targets(ManifestAt(p).needs) \cap Chosen \subseteq S
      BY <1>3, <1>5, <2>3
    <3>3. Targets(ManifestAt(p).oneof) \subseteq Brought(registry)
      BY <1>3, <2>3 DEF Brought
    <3> QED BY <1>5, <3>1, <3>2, <3>3 DEF Leads
  <2>4. Chosen \subseteq T
    <3> HIDE DEF T
    <3> QED BY <2>1, <2>2, <2>3 DEF Led
  <2> QED BY <2>1, <2>4
<1>6. In(chosen) = LedTo(registry, Declared(RequireOf(roots)) \cup Brought(registry), chosen)
  BY <1>1, <1>5 DEF LedTo
<1>7. \A p \in Pkg : p \in Dropped(registry, chosen) <=> \E q \in Chosen : p \in ManifestAt(q).drops
  BY <1>1, <1>3 DEF Dropped
<1>8. graph = Answer(registry, chosen)
  <2>1. graph \in [Pkg -> Version \cup {None}] /\ LeavesOut(graph)
    BY DEF Inv, Owed, Typed
  <2> QED BY <1>7, <2>1 DEF LeavesOut, Answer
<1> QED BY <1>1, <1>2, <1>4, <1>6, <1>8 DEF Choices

\* Neither the solver nor the planning changes what is published.
LEMMA TheOfferStays == Spec /\ PlanSpec /\ SameOffer => []SameOffer
<1>1. SameOffer /\ [Next]_vars /\ [PlanNext]_planVars => SameOffer'
  <2> SUFFICES ASSUME SameOffer, [Next]_vars, [PlanNext]_planVars PROVE SameOffer'
    OBVIOUS
  <2>1. world' = world
    BY DEF vars, Next, Process, Finish, Fail, Narrow, Backtrack, Retry, GivesUp, Stop
  <2>2. registry' = registry
    BY DEF planVars, PlanNext, Solve, Expand, Done, NoPlan
  <2> QED BY <2>1, <2>2 DEF SameOffer, RequireOf, Targets
<1> QED BY <1>1, PTL DEF Spec, PlanSpec

\* What naive or sat hands over for solved is an answer as ConditionalDeps expects it
\* of a solver: a choice that is closed, within the roots' constraints, with nothing
\* that the roots and the alternatives do not lead to, and of it the packages that no
\* chosen one obsoletes. Passes that sat gave up leave no package behind, and keep
\* none out.
THEOREM SolversServeThePlanning == Spec /\ PlanSpec /\ SameOffer => []Serves
<1>1. Typed /\ Led /\ [Next]_vars => Led'
  BY StepLed
<1>2. Inv /\ Led /\ SameOffer => Serves
  BY SolvedServes
<1> QED BY InitLed, <1>1, <1>2, TypeInvariance, OwedInvariance, TheOfferStays, PTL DEF Spec

------------------------------------------------------------------------------
\* Naive takes the newest

\* No manifest offers alternatives, of which naive takes the first.
NoAlternatives ==
    \A w \in Worlds : \A p \in Pkg : \A v \in Version : w[p][v] # None => w[p][v].oneof = <<>>

\* h has all that is chosen, nothing of it in an older version.
NowhereOlder(h) == \A p \in Chosen : h[p] # None /\ chosen[p] <= h[p]

Agrees(h) == \A p \in Chosen : h[p] = chosen[p]

\* Where an admitted choice is nowhere older than what naive has so far, it is the
\* same so far, and meets all that is asked for next.
NewestSoFar ==
    solver = "naive" =>
        \A h \in Graph : Admits(h) /\ NowhereOlder(h) =>
            Agrees(h) /\ \A i \in DOMAIN queue : Met(h, queue[i])

LEMMA InitNewest == Init => NewestSoFar
BY DEF Init, NewestSoFar, Chosen, Agrees, Admits

\* What is taken is the newest that the request accepts.
LEMMA PickedIsNewest ==
    ASSUME Typed, solver = "naive", queue # <<>>, Candidates # {}, NEW v \in Published(Target),
           v \in Asked[2]
    PROVE  v <= Picked
<1>1. BoundsOf(Target) = {}
  BY DEF Typed, BoundsOf
<1>2. v \in Candidates
  BY <1>1 DEF Candidates, Allowed
<1>3. Candidates \in SUBSET (1 .. MaxVersion) /\ MaxVersion \in Nat
  BY AllowedType, Facts DEF Candidates
<1> QED BY <1>2, <1>3, HighestIn DEF Picked

\* What is admitted is a matter of the world and of the roots.
LEMMA StillAdmitted ==
    ASSUME world' = world, roots' = roots, NEW h
    PROVE  Admits(h)' <=> Admits(h)
BY DEF Admits, Holds, Met

LEMMA ProcessNewest == ASSUME Typed, NoAlternatives, NewestSoFar, Process PROVE NewestSoFar'
<1> SUFFICES ASSUME solver = "naive", NEW h \in Graph, Admits(h), NowhereOlder(h)'
             PROVE  Agrees(h)' /\ \A i \in DOMAIN queue' : Met(h, queue'[i])
  <2>1. world' = world /\ roots' = roots /\ solver' = solver
    BY DEF Process
  <2>2. \A h \in Graph : Admits(h)' <=> Admits(h)
    BY <2>1, StillAdmitted
  <2>3. \A h : (\A i \in DOMAIN queue : Met(h, queue[i]))' <=> \A i \in DOMAIN queue' : Met(h, queue'[i])
    BY DEF Met
  <2> QED BY <2>1, <2>2, <2>3 DEF NewestSoFar
<1> SUFFICES ASSUME NEW t, t = Target PROVE Agrees(h)' /\ \A i \in DOMAIN queue' : Met(h, queue'[i])
  OBVIOUS
<1>1. /\ queue # <<>> /\ queue \in Seq(Request) /\ Trouble = None /\ world' = world
      /\ chosen \in [Pkg -> Version \cup {None}]
  BY DEF Process, Typed
<1>2. CASE Target \in Chosen
  <2>1. queue' = Tail(queue) /\ chosen' = chosen
    BY <1>2 DEF Process
  <2>2. Chosen' = Chosen
    BY <2>1 DEF Chosen
  <2>3. Agrees(h) /\ \A i \in DOMAIN queue : Met(h, queue[i])
    BY <2>1, <2>2 DEF NewestSoFar, NowhereOlder
  <2>4. \A i \in DOMAIN queue' : i + 1 \in DOMAIN queue /\ queue'[i] = queue[i + 1]
    BY <1>1, <2>1
  <2> QED BY <2>1, <2>2, <2>3, <2>4 DEF Agrees
<1>3. CASE Target \notin Chosen
  <2>1. Candidates # {} /\ t \in Pkg
    BY <1>1, <1>3, NoTrouble, AskedType DEF SuitsRequest
  <2>2. Picked \in Version /\ PickedManifest \in Manifest /\ Picked \in Published(t)
    BY <1>1, <2>1, PickedType, AllowedType
  <2>3. /\ chosen'[t] = Picked /\ \A p \in Pkg \ {t} : chosen'[p] = chosen[p]
        /\ Chosen' = Chosen \cup {t} /\ t \notin Chosen
    <3>1. chosen' = [chosen EXCEPT ![t] = Picked]
      BY <1>3 DEF Process
    <3>2. chosen'[t] = Picked /\ \A p \in Pkg \ {t} : chosen'[p] = chosen[p]
      BY <1>1, <2>1, <3>1
    <3>3. Picked # None
      BY <2>2, Facts
    <3> QED BY <1>3, <2>1, <3>2, <3>3 DEF Chosen
  <2>4. NowhereOlder(h)
    BY <2>3 DEF NowhereOlder, Chosen
  <2>5. Agrees(h) /\ \A i \in DOMAIN queue : Met(h, queue[i])
    BY <2>4 DEF NewestSoFar
  <2>6. h[t] = Picked
    <3>1. h[t] \in Asked[2]
      <4>1. 1 \in DOMAIN queue
        BY <1>1
      <4> QED BY <2>5, <4>1 DEF Met, Asked, Target
    <3>2. h[t] \in Version /\ h[t] # None /\ Picked <= h[t]
      BY <2>1, <2>3, Facts DEF NowhereOlder, Graph
    <3>3. h[t] \in Published(t)
      BY <2>1, <3>2 DEF Admits, Holds, Published
    <3>4. h[t] <= Picked
      BY <1>1, <2>1, <3>1, <3>3, PickedIsNewest
    <3> QED BY <2>2, <3>2, <3>4, Facts DEF Version
  <2>7. Agrees(h)'
    BY <2>3, <2>5, <2>6 DEF Agrees, Chosen
  <2>8. queue' = Tail(queue) \o PickedManifest.needs
    <3>1. Alternatives = <<>>
      BY <2>1, <2>2 DEF NoAlternatives, Typed, Alternatives, PickedManifest, Published
    <3>2. Tail(queue) \o <<>> = Tail(queue)
      BY <1>1
    <3> QED BY <1>3, <3>1, <3>2 DEF Process
  <2>9. \A i \in DOMAIN PickedManifest.needs : Met(h, PickedManifest.needs[i])
    <3>1. Holds(h, t)
      BY <2>1, <2>2, <2>6, Facts DEF Admits
    <3> QED BY <2>6, <3>1 DEF Holds, PickedManifest
  <2>10. \A i \in DOMAIN Tail(queue) : Met(h, Tail(queue)[i])
    <3>1. \A i \in DOMAIN Tail(queue) : i + 1 \in DOMAIN queue /\ Tail(queue)[i] = queue[i + 1]
      BY <1>1
    <3> QED BY <2>5, <3>1
  <2>11. PickedManifest.needs \in Seq(Request) /\ Tail(queue) \in Seq(Request)
    BY <1>1, <2>1, AlternativesType
  <2>12. ASSUME NEW i \in DOMAIN queue' PROVE Met(h, queue'[i])
    <3> DEFINE u == Tail(queue)
               n == PickedManifest.needs
    <3>1. u \in Seq(Request) /\ n \in Seq(Request) /\ queue' = u \o n
      BY <2>8, <2>11
    <3> HIDE DEF u, n
    <3>2. CASE i \in DOMAIN u
      <4>1. queue'[i] = u[i]
        BY <3>1, <3>2
      <4> QED BY <2>10, <3>2, <4>1 DEF u
    <3>3. CASE i \notin DOMAIN u
      <4>1. i - Len(u) \in DOMAIN n /\ queue'[i] = n[i - Len(u)]
        BY <3>1, <3>3
      <4> QED BY <2>9, <4>1 DEF n
    <3> QED BY <3>2, <3>3
  <2> QED BY <2>7, <2>12
<1> QED BY <1>2, <1>3

LEMMA StepNewest == ASSUME Typed, NoAlternatives, NewestSoFar, [Next]_vars PROVE NewestSoFar'
<1>1. CASE Process
  BY <1>1, ProcessNewest
<1>2. CASE UNCHANGED <<world, roots, solver, queue, chosen>>
  <2>1. Chosen' = Chosen
    BY <1>2 DEF Chosen
  <2>2. \A h \in Graph : Admits(h)' <=> Admits(h)
    BY <1>2, StillAdmitted
  <2>3. \A h \in Graph : (NowhereOlder(h)' <=> NowhereOlder(h)) /\ (Agrees(h)' <=> Agrees(h))
    BY <1>2, <2>1 DEF NowhereOlder, Agrees
  <2>4. \A h \in Graph : (\A i \in DOMAIN queue : Met(h, queue[i])) => \A i \in DOMAIN queue' : Met(h, queue'[i])
    BY <1>2
  <2> QED BY <1>2, <2>2, <2>3, <2>4 DEF NewestSoFar, Met
<1>3. CASE solver' = "sat"
  BY <1>3 DEF NewestSoFar
<1>4. Process \/ UNCHANGED <<world, roots, solver, queue, chosen>> \/ solver' = "sat"
  <2>1. Finish \/ Fail \/ UNCHANGED vars => UNCHANGED <<world, roots, solver, queue, chosen>>
    BY DEF Finish, Fail, Stop, vars
  <2>2. Narrow \/ Backtrack => solver' = "sat"
    BY DEF Narrow, Backtrack, Retry, GivesUp, Stop
  <2> QED BY <2>1, <2>2 DEF Next
<1> QED BY <1>1, <1>2, <1>3, <1>4

\* Naive takes the newest: a choice that resolvo's clauses admit and that is nowhere
\* older than naive's choice has the same versions of all its packages. (Of sat this is
\* not true: it keeps bounds that a later bound has made needless.)
THEOREM NaiveTakesTheNewest ==
    NoAlternatives =>
        (Spec => [](solver = "naive" /\ outcome = Solved =>
                        \A h \in Graph : Admits(h) /\ NowhereOlder(h) => Agrees(h)))
<1> SUFFICES ASSUME NoAlternatives
             PROVE  Spec => [](solver = "naive" /\ outcome = Solved =>
                                 \A h \in Graph : Admits(h) /\ NowhereOlder(h) => Agrees(h))
  OBVIOUS
<1>1. Typed /\ NewestSoFar /\ [Next]_vars => NewestSoFar'
  BY StepNewest
<1>2. NewestSoFar => (solver = "naive" /\ outcome = Solved =>
                        \A h \in Graph : Admits(h) /\ NowhereOlder(h) => Agrees(h))
  BY DEF NewestSoFar
<1> QED BY InitNewest, <1>1, <1>2, TypeInvariance, PTL DEF Spec

------------------------------------------------------------------------------
\* The planning loop

\* What is fetched is published, and what it needs is fetched or was left out, as are
\* the roots; a plan that is done has what its conditions ask for.
PlanInv ==
    /\ registry \in Registries /\ wanted \in Require
    /\ PlanTypeOK
    /\ obsoleted \subseteq UNION {m.drops : m \in Offered(registry)}
    /\ pc \in {"expand", "done"} => Declared(wanted) \subseteq In(fetched) \cup obsoleted
    /\ \A p \in In(fetched) :
          /\ ManifestOf(fetched, p) # None
          /\ Declared(ManifestOf(fetched, p).needs) \subseteq In(fetched) \cup obsoleted
    /\ pc = "done" => {e.dep : e \in Firing} \subseteq In(fetched)

LEMMA OfferType ==
    ASSUME registry \in Registries, NEW g \in Graph, NEW p \in In(g), ManifestOf(g, p) # None
    PROVE  /\ p \in Pkg /\ g[p] \in Version
           /\ ManifestOf(g, p).needs \in Require /\ ManifestOf(g, p).when \subseteq Edge
<1>1. p \in Pkg /\ g[p] \in Version
  BY DEF In, Graph
<1>2. ManifestOf(g, p) \in PlanManifest
  BY <1>1, PlanAssumption DEF ManifestOf
<1> QED BY <1>1, <1>2 DEF PlanManifest

\* What a constraint asks for is in every choice that meets it.
LEMMA MeetsHas ==
    ASSUME NEW g \in Graph, NEW req \in Require, Meets(g, req)
    PROVE  Declared(req) \subseteq In(g)
BY PackagesAssumption DEF Meets, Declared, In, Graph, Require

LEMMA ChoiceHas ==
    ASSUME registry \in Registries, NEW names, NEW c \in Choices(registry, names)
    PROVE  /\ c \in Graph
           /\ \A p \in In(c) : ManifestOf(c, p) # None /\ Declared(ManifestOf(c, p).needs) \subseteq In(c)
<1>1. c \in Graph /\ Closed(registry, c)
  BY DEF Choices
<1>2. \A p \in In(c) : ManifestOf(c, p) # None /\ Meets(c, ManifestOf(c, p).needs)
  BY <1>1 DEF Closed, ManifestOf
<1>3. ASSUME NEW p \in In(c) PROVE Declared(ManifestOf(c, p).needs) \subseteq In(c)
  <2>1. ManifestOf(c, p).needs \in Require
    BY <1>1, <1>2, OfferType
  <2> QED BY <1>1, <1>2, <2>1, MeetsHas
<1> QED BY <1>1, <1>2, <1>3

\* What is in a choice is in the answer, as it is there, or left out.
LEMMA AnswerHas ==
    ASSUME registry \in Registries, NEW names, NEW c \in Choices(registry, names),
           NEW a, a = Answer(registry, c)
    PROVE  /\ a \in Graph /\ In(c) = In(a) \cup LeftOut(c)
           /\ \A p \in In(a) : a[p] = c[p] /\ ManifestOf(a, p) = ManifestOf(c, p)
           /\ \A p \in In(a) : ManifestOf(a, p) # None /\ Declared(ManifestOf(a, p).needs) \subseteq In(c)
           /\ LeftOut(c) \subseteq UNION {m.drops : m \in Offered(registry)}
           /\ LeftOut(c) \subseteq Pkg
<1>1. c \in Graph /\ \A p \in In(c) : ManifestOf(c, p) # None
  BY ChoiceHas
<1>2. a \in Graph /\ \A p \in Pkg : a[p] = IF p \in Dropped(registry, c) THEN None ELSE c[p]
  BY <1>1 DEF Answer, Graph
<1>3. In(c) = In(a) \cup LeftOut(c)
  BY <1>2 DEF In, LeftOut
<1>4. ASSUME NEW p \in In(a)
      PROVE  p \in In(c) /\ a[p] = c[p] /\ ManifestOf(a, p) = ManifestOf(c, p)
  BY <1>2, <1>4 DEF In, ManifestOf
<1>5. \A p \in In(c) : registry[p][c[p]] \in Offered(registry)
  <2>1. \A p \in In(c) : p \in Pkg /\ c[p] \in Version
    BY <1>1 DEF In, Graph
  <2> QED BY <1>1, <2>1 DEF Offered, ManifestOf
<1>6. LeftOut(c) \subseteq UNION {m.drops : m \in Offered(registry)}
  BY <1>5 DEF LeftOut, Dropped
<1>7. LeftOut(c) \subseteq Pkg
  BY DEF LeftOut, In
<1> QED BY <1>2, <1>3, <1>4, <1>6, <1>7, ChoiceHas

LEMMA InitPlanned == PlanInit => PlanInv
BY PlanAssumption, PackagesAssumption DEF PlanInit, PlanInv, PlanTypeOK, Graph, In

LEMMA SolvePlanned == ASSUME PlanInv, Solve PROVE PlanInv'
<1>1. PICK c \in Choices(registry, Declared(wanted)) :
        /\ Meets(c, wanted)
        /\ fetched' = Answer(registry, c) /\ obsoleted' = LeftOut(c)
        /\ asked' = Declared(wanted) \cap In(Answer(registry, c))
  BY DEF Solve
<1>2. UNCHANGED <<registry, wanted, iteration>> /\ pc' = "expand"
  BY DEF Solve
<1>3. /\ fetched' \in Graph /\ In(c) = In(fetched') \cup obsoleted'
      /\ \A p \in In(fetched') :
            /\ ManifestOf(fetched', p) # None
            /\ Declared(ManifestOf(fetched', p).needs) \subseteq In(fetched') \cup obsoleted'
      /\ obsoleted' \subseteq UNION {m.drops : m \in Offered(registry)} /\ obsoleted' \subseteq Pkg
  BY <1>1, AnswerHas DEF PlanInv
<1>4. Declared(wanted) \subseteq In(c)
  BY <1>1, ChoiceHas, MeetsHas DEF PlanInv
<1>5. In(fetched)' = In(fetched') /\ \A p : ManifestOf(fetched, p)' = ManifestOf(fetched', p)
  BY <1>2 DEF In, ManifestOf
<1>6. Declared(wanted)' = Declared(wanted) /\ Offered(registry)' = Offered(registry)
  BY <1>2 DEF Declared, Offered
<1>7. PlanTypeOK'
  BY <1>1, <1>2, <1>3, <1>5 DEF PlanInv, PlanTypeOK
<1>8. pc' # "done"
  BY <1>2
<1> QED BY <1>2, <1>3, <1>4, <1>5, <1>6, <1>7, <1>8 DEF PlanInv

\* What a round of the loop asks for is in every choice that meets it.
LEMMA CombinedHas ==
    ASSUME PlanInv, NEW c \in Graph, MeetsCombined(c) PROVE Names \subseteq In(c)
<1>1. Declared(wanted) \subseteq In(c)
  BY MeetsHas DEF PlanInv, MeetsCombined
<1>2. ASSUME NEW p \in asked \ Declared(wanted) PROVE p \in In(c)
  BY <1>2 DEF MeetsCombined, PlanInv, PlanTypeOK, In
<1>3. ASSUME NEW p \in Extras \ Declared(wanted) PROVE p \in In(c)
  <2>1. PICK e \in Firing : e.dep = p /\ c[p] \in e.accepts
    BY <1>3 DEF MeetsCombined
  <2>2. e \in Edge
    <3>1. PICK q \in In(fetched) : e \in ManifestOf(fetched, q).when
      BY <2>1 DEF Firing
    <3>2. ManifestOf(fetched, q).when \subseteq Edge
      BY <3>1, OfferType DEF PlanInv, PlanTypeOK
    <3> QED BY <3>1, <3>2
  <2>3. p \in Pkg /\ c[p] \in Version
    BY <2>1, <2>2 DEF Edge
  <2> QED BY <2>3, PackagesAssumption DEF In
<1> QED BY <1>1, <1>2, <1>3 DEF Names

\* A round of the loop keeps what is fetched and adds what the new answer has.
LEMMA RefetchType ==
    ASSUME NEW f \in Graph, f = fetched, NEW g \in Graph
    PROVE  /\ Refetch(g) \in Graph
           /\ In(Refetch(g)) = In(fetched) \cup In(g)
           /\ \A p \in In(fetched) : ManifestOf(Refetch(g), p) = ManifestOf(fetched, p)
           /\ \A p \in In(g) \ In(fetched) : ManifestOf(Refetch(g), p) = ManifestOf(g, p)
<1>1. \A p \in Pkg : Refetch(g)[p] = IF fetched[p] # None THEN fetched[p] ELSE g[p]
  BY DEF Refetch
<1> QED BY <1>1 DEF Refetch, Graph, In, ManifestOf

\* What a round of the loop does.
LEMMA ExpandStep ==
    ASSUME PlanInv, Expand
    PROVE  \E c \in Choices(registry, Names) : \E a \in Graph :
              /\ MeetsCombined(c) /\ a = Answer(registry, c)
              /\ fetched' = Refetch(a) /\ obsoleted' = obsoleted \cup LeftOut(c)
              /\ asked' = asked \cup (Names \cap (In(Refetch(a)) \ In(fetched)))
<1>1. PICK c \in Choices(registry, Names) :
        LET g == Refetch(Answer(registry, c)) IN
        /\ MeetsCombined(c)
        /\ fetched' = g /\ obsoleted' = obsoleted \cup LeftOut(c)
        /\ asked' = asked \cup (Names \cap (In(g) \ In(fetched)))
  BY DEF Expand
<1>2. Answer(registry, c) \in Graph
  BY AnswerHas DEF PlanInv
<1> QED BY <1>1, <1>2

LEMMA ExpandPlanned == ASSUME PlanInv, Expand PROVE PlanInv'
<1>1. PICK c \in Choices(registry, Names), a \in Graph :
              /\ MeetsCombined(c) /\ a = Answer(registry, c)
              /\ fetched' = Refetch(a) /\ obsoleted' = obsoleted \cup LeftOut(c)
              /\ asked' = asked \cup (Names \cap (In(Refetch(a)) \ In(fetched)))
  BY ExpandStep
<1>2. /\ registry' = registry /\ wanted' = wanted /\ iteration' = iteration + 1 /\ pc = "expand"
      /\ pc' = pc /\ iteration < MaxIterations
  BY DEF Expand, MayExpand
<1>3. /\ In(c) = In(a) \cup LeftOut(c)
      /\ \A p \in In(a) : ManifestOf(a, p) # None /\ Declared(ManifestOf(a, p).needs) \subseteq In(c)
      /\ LeftOut(c) \subseteq UNION {m.drops : m \in Offered(registry)} /\ LeftOut(c) \subseteq Pkg
  BY <1>1, AnswerHas DEF PlanInv
<1>4. fetched \in Graph /\ asked \subseteq In(fetched) /\ obsoleted \subseteq Pkg
  BY DEF PlanInv, PlanTypeOK
<1>5. /\ fetched' \in Graph /\ In(fetched') = In(fetched) \cup In(a)
      /\ \A p \in In(fetched) : ManifestOf(fetched', p) = ManifestOf(fetched, p)
      /\ \A p \in In(a) \ In(fetched) : ManifestOf(fetched', p) = ManifestOf(a, p)
  BY <1>1, <1>4, RefetchType
<1>6. In(fetched)' = In(fetched') /\ \A p : ManifestOf(fetched, p)' = ManifestOf(fetched', p)
  BY <1>2 DEF In, ManifestOf
<1>7. Declared(wanted)' = Declared(wanted) /\ Offered(registry)' = Offered(registry)
  BY <1>2 DEF Declared, Offered
<1>8. ASSUME NEW p \in In(fetched')
      PROVE  /\ ManifestOf(fetched', p) # None
             /\ Declared(ManifestOf(fetched', p).needs) \subseteq In(fetched') \cup obsoleted'
  <2>1. CASE p \in In(fetched)
    <3>1. /\ ManifestOf(fetched, p) # None
          /\ Declared(ManifestOf(fetched, p).needs) \subseteq In(fetched) \cup obsoleted
      BY <2>1 DEF PlanInv
    <3> QED BY <1>1, <1>5, <2>1, <3>1
  <2>2. CASE p \in In(a) \ In(fetched)
    BY <1>1, <1>3, <1>5, <2>2
  <2> QED BY <1>5, <1>8, <2>1, <2>2
<1>9. iteration' \in 0 .. MaxIterations
  BY <1>2, PlanAssumption DEF PlanInv, PlanTypeOK
<1>10. asked' \subseteq In(fetched')
  BY <1>1, <1>4, <1>5
<1>11. PlanTypeOK'
  BY <1>1, <1>2, <1>3, <1>4, <1>5, <1>6, <1>9, <1>10 DEF PlanInv, PlanTypeOK
<1>12. Declared(wanted) \subseteq In(fetched') \cup obsoleted'
  BY <1>1, <1>2, <1>5 DEF PlanInv
<1>13. obsoleted' \subseteq UNION {m.drops : m \in Offered(registry)}
  BY <1>1, <1>3 DEF PlanInv
<1>14. pc' # "done"
  BY <1>2
<1> QED BY <1>2, <1>6, <1>7, <1>8, <1>11, <1>12, <1>13, <1>14 DEF PlanInv

\* The steps that fetch nothing.
LEMMA StillPlanned ==
    ASSUME PlanInv, UNCHANGED <<registry, wanted, fetched, asked, iteration, obsoleted>>,
           pc' \in {"failed", pc} \/ Done
    PROVE  PlanInv'
<1>1. /\ In(fetched)' = In(fetched) /\ \A p : ManifestOf(fetched, p)' = ManifestOf(fetched, p)
      /\ Declared(wanted)' = Declared(wanted) /\ Offered(registry)' = Offered(registry)
      /\ pc' \in {"solve", "expand", "done", "failed"}
  BY DEF In, ManifestOf, Declared, Offered, Done, PlanInv, PlanTypeOK
<1>2. Firing' = Firing
  BY DEF Firing, Applies, Context, In, ManifestOf
<1>3. pc' = "done" => {e.dep : e \in Firing} \subseteq In(fetched)
  BY DEF Done, Extras, PlanInv
<1>4. pc' \in {"expand", "done"} => Declared(wanted) \subseteq In(fetched) \cup obsoleted
  BY DEF Done, PlanInv
<1> QED BY <1>1, <1>2, <1>3, <1>4 DEF PlanInv, PlanTypeOK

LEMMA StepPlanned == PlanInv /\ [PlanNext]_planVars => PlanInv'
<1> SUFFICES ASSUME PlanInv, [PlanNext]_planVars PROVE PlanInv'
  OBVIOUS
<1>1. CASE Done \/ NoPlan \/ UNCHANGED planVars
  <2>1. UNCHANGED <<registry, wanted, fetched, asked, iteration, obsoleted>> /\ (pc' \in {"failed", pc} \/ Done)
    BY <1>1 DEF Done, NoPlan, planVars
  <2> QED BY <2>1, StillPlanned
<1> QED BY <1>1, SolvePlanned, ExpandPlanned DEF PlanNext

LEMMA PlanInvariance == PlanSpec => []PlanInv
BY InitPlanned, StepPlanned, PTL DEF PlanSpec

\* What is fetched is a choice of versions, all that was asked for is fetched, and the
\* loop stays within its bound on rounds.
THEOREM PlanTypeCorrect == PlanSpec => []PlanTypeOK
<1>1. PlanInv => PlanTypeOK
  BY DEF PlanInv
<1> QED BY <1>1, PlanInvariance, PTL

\* A finished plan lacks nothing but what an answer left out as obsoleted, whichever
\* answers the solver gives in the rounds, whichever versions of a package they have,
\* and whatever conditions are taken back.
THEOREM PlansAreWhole == PlanSpec => []NothingMissing
<1>1. PlanInv => NothingMissing
  BY DEF PlanInv, NothingMissing
<1> QED BY <1>1, PlanInvariance, PTL

------------------------------------------------------------------------------
\* What the planning hands over

\* What has been asked for is a root or what a condition asks for; what is fetched was
\* put together from answers, and is one answer as long as no condition has held.
ServeInv ==
    /\ asked \subseteq Declared(wanted) \cup Late(registry)
    /\ \A p \in Declared(wanted) \cap In(fetched) : fetched[p] \in wanted[p]
    /\ PutTogether(registry, Declared(wanted) \cup Late(registry), fetched)
    /\ pc \in {"expand", "done"} /\ iteration = 0 =>
          \E c \in Choices(registry, Declared(wanted)) : Meets(c, wanted) /\ fetched = Answer(registry, c)
    /\ iteration # 0 => ~Unconditional(registry, fetched)

LEMMA ChoicesMonotone ==
    ASSUME NEW offer, NEW names, NEW more, names \subseteq more
    PROVE  Choices(offer, names) \subseteq Choices(offer, more)
<1> SUFFICES ASSUME NEW g \in Choices(offer, names) PROVE g \in Choices(offer, more)
  OBVIOUS
<1>1. LedTo(offer, names \cup Brought(offer), g) \subseteq LedTo(offer, more \cup Brought(offer), g)
  BY DEF LedTo
<1>2. LedTo(offer, more \cup Brought(offer), g) \subseteq In(g)
  BY DEF LedTo
<1> QED BY <1>1, <1>2 DEF Choices

LEMMA InitServes == PlanInit => ServeInv
<1> SUFFICES ASSUME PlanInit PROVE ServeInv
  OBVIOUS
<1>1. In(fetched) = {} /\ asked = {} /\ iteration = 0 /\ pc = "solve"
  BY DEF PlanInit, In
<1> QED BY <1>1 DEF ServeInv, PutTogether

LEMMA SolveServes == ASSUME PlanInv, Solve, iteration = 0 PROVE ServeInv'
<1>1. PICK c \in Choices(registry, Declared(wanted)) :
        /\ Meets(c, wanted)
        /\ fetched' = Answer(registry, c)
        /\ asked' = Declared(wanted) \cap In(Answer(registry, c))
  BY DEF Solve
<1>2. UNCHANGED <<registry, wanted>> /\ iteration' = 0
  BY DEF Solve
<1>3. \A p \in In(fetched') : fetched'[p] = c[p]
  BY <1>1, AnswerHas DEF PlanInv
<1>4. c \in Choices(registry, Declared(wanted) \cup Late(registry))
  BY <1>1, ChoicesMonotone
<1>5. PutTogether(registry, Declared(wanted) \cup Late(registry), fetched')
  BY <1>1, <1>3, <1>4 DEF PutTogether
<1>6. \A p \in Declared(wanted) \cap In(fetched') : fetched'[p] \in wanted[p]
  BY <1>1, <1>3 DEF Meets
<1> QED BY <1>1, <1>2, <1>5, <1>6 DEF ServeInv

\* Conditions that hold are conditions of published packages.
LEMMA ExtrasAreLate ==
    ASSUME PlanInv
    PROVE  Extras \subseteq Late(registry) /\ (Extras # {} => ~Unconditional(registry, fetched))
<1>1. ASSUME NEW d \in Extras
      PROVE  d \in Late(registry) /\ ~Unconditional(registry, fetched)
  <2>1. PICK e \in Firing : d = e.dep
    BY <1>1 DEF Extras
  <2>2. PICK p \in In(fetched) : e \in ManifestOf(fetched, p).when
    BY <2>1 DEF Firing
  <2>3. p \in Pkg /\ fetched[p] \in Version /\ ManifestOf(fetched, p) # None
    BY <2>2, OfferType DEF PlanInv, PlanTypeOK
  <2>4. ManifestOf(fetched, p) \in Offered(registry)
    BY <2>3 DEF Offered, ManifestOf
  <2>5. d \in Late(registry)
    BY <2>1, <2>2, <2>4 DEF Late
  <2> QED BY <2>2, <2>5 DEF Unconditional, ManifestOf
<1> QED BY <1>1

LEMMA ExpandServes == ASSUME PlanInv, ServeInv, Expand PROVE ServeInv'
<1> DEFINE late == Declared(wanted) \cup Late(registry)
<1>1. PICK c \in Choices(registry, Names), a \in Graph :
              /\ MeetsCombined(c) /\ a = Answer(registry, c)
              /\ fetched' = Refetch(a)
              /\ asked' = asked \cup (Names \cap (In(Refetch(a)) \ In(fetched)))
  BY ExpandStep
<1>2. /\ UNCHANGED <<registry, wanted>> /\ Extras # {} /\ iteration' = iteration + 1
      /\ iteration \in Nat /\ fetched \in Graph
  BY PlanAssumption DEF Expand, PlanInv, PlanTypeOK
<1>3. /\ Names \subseteq late /\ c \in Choices(registry, late)
  <2>1. Names \subseteq late
    BY ExtrasAreLate DEF Names, ServeInv
  <2> HIDE DEF late
  <2> QED BY <1>1, <2>1, ChoicesMonotone
<1>4. /\ In(fetched') = In(fetched) \cup In(a)
      /\ \A p \in In(fetched) : fetched'[p] = fetched[p]
      /\ \A p \in In(a) \ In(fetched) : fetched'[p] = c[p]
  <2>1. In(fetched') = In(fetched) \cup In(a)
    BY <1>1, <1>2, RefetchType
  <2>2. \A p \in Pkg : fetched'[p] = IF fetched[p] # None THEN fetched[p] ELSE a[p]
    BY <1>1 DEF Refetch
  <2>3. \A p \in In(a) : a[p] = c[p]
    BY <1>1, AnswerHas DEF PlanInv
  <2> QED BY <2>1, <2>2, <2>3 DEF In
<1>5. PutTogether(registry, late, fetched')
  <2> SUFFICES ASSUME NEW p \in In(fetched')
               PROVE  \E k \in Choices(registry, late) :
                         /\ k[p] = fetched'[p] /\ p \in In(Answer(registry, k))
                         /\ In(Answer(registry, k)) \subseteq In(fetched')
    BY DEF PutTogether
  <2>1. CASE p \in In(fetched)
    <3>1. PICK k \in Choices(registry, late) :
            /\ k[p] = fetched[p] /\ p \in In(Answer(registry, k))
            /\ In(Answer(registry, k)) \subseteq In(fetched)
      BY <2>1 DEF ServeInv, PutTogether
    <3> QED BY <1>4, <2>1, <3>1
  <2>2. CASE p \in In(a) \ In(fetched)
    BY <1>1, <1>3, <1>4, <2>2
  <2> QED BY <1>4, <2>1, <2>2
<1>6. \A p \in Declared(wanted) \cap In(fetched') : fetched'[p] \in wanted[p]
  BY <1>1, <1>4 DEF MeetsCombined, Meets, ServeInv
<1>7. asked' \subseteq late
  BY <1>1, <1>3 DEF ServeInv
<1>8. ~Unconditional(registry, fetched')
  BY <1>2, <1>4, ExtrasAreLate DEF Unconditional
<1>9. Declared(wanted)' = Declared(wanted) /\ Late(registry)' = Late(registry)
  BY <1>2 DEF Declared, Late, Offered
<1>10. iteration' # 0
  BY <1>2
<1> QED BY <1>2, <1>5, <1>6, <1>7, <1>8, <1>9, <1>10 DEF ServeInv

\* The loop's rounds are counted from the first answer on.
Counted == pc = "solve" => iteration = 0

LEMMA StepServes == PlanInv /\ ServeInv /\ Counted /\ [PlanNext]_planVars => ServeInv' /\ Counted'
<1> SUFFICES ASSUME PlanInv, ServeInv, Counted, [PlanNext]_planVars PROVE ServeInv' /\ Counted'
  OBVIOUS
<1>1. CASE Done \/ NoPlan \/ UNCHANGED planVars
  <2>1. /\ UNCHANGED <<registry, wanted, fetched, asked, iteration>>
        /\ pc' \in {"expand", "done"} => pc \in {"expand", "done"}
        /\ pc' = "solve" => pc = "solve"
    BY <1>1 DEF Done, NoPlan, planVars
  <2> QED BY <2>1 DEF ServeInv, Counted
<1>2. CASE Solve
  <2>1. pc = "solve" /\ pc' = "expand"
    BY <1>2 DEF Solve
  <2> QED BY <1>2, <2>1, SolveServes DEF Counted
<1>3. CASE Expand
  <2>1. pc' = "expand"
    BY <1>3 DEF Expand
  <2> QED BY <1>3, <2>1, ExpandServes DEF Counted
<1> QED BY <1>1, <1>2, <1>3 DEF PlanNext

\* What the planning loop hands to the commands of InstallTree is a plan as that module
\* expects it: whichever answers the rounds bring and whatever they obsolete, the roots
\* that are in are at accepted versions, each package comes with all that its answer
\* had, and where no package has conditions the whole is one answer.
THEOREM PlansServeTheTree == PlanSpec => [](pc = "done" => fetched \in Plans(registry, wanted))
<1>1. PlanInit => ServeInv /\ Counted
  BY InitServes DEF PlanInit, Counted
<1>2. PlanInv /\ ServeInv => (pc = "done" => fetched \in Plans(registry, wanted))
  <2> SUFFICES ASSUME PlanInv, ServeInv, pc = "done" PROVE fetched \in Plans(registry, wanted)
    OBVIOUS
  <2>1. fetched \in Graph
    BY DEF PlanInv, PlanTypeOK
  <2>2. Declared(wanted) \subseteq In(fetched) \cup UNION {m.drops : m \in Offered(registry)}
    BY DEF PlanInv
  <2> QED BY <2>1, <2>2 DEF ServeInv, Plans
<1> QED BY <1>1, <1>2, StepServes, PlanInvariance, PTL DEF PlanSpec

------------------------------------------------------------------------------
\* The reference model of the loop

\* Where a package has one version, that is the one that is fetched.
LEMMA OneVersion ==
    ASSUME PlanInv, Simple, NEW p \in In(fetched)
    PROVE  /\ p \in Pkg /\ fetched[p] = TheVersion(p)
           /\ ManifestOf(fetched, p) = registry[p][TheVersion(p)]
           /\ Declared(ManifestOf(fetched, p).needs) = {}
           /\ \A e \in ManifestOf(fetched, p).when :
                 e.no = {} /\ \E t \in Pkg \cup Tag : e.all = {t}
<1>1. p \in Pkg /\ fetched[p] \in Version /\ registry[p][fetched[p]] # None
  BY OfferType DEF PlanInv, PlanTypeOK, ManifestOf
<1>2. PICK v \in Version : /\ registry[p][v] # None
                           /\ \A w \in Version \ {v} : registry[p][w] = None
                           /\ Declared(registry[p][v].needs) = {}
                           /\ \A e \in registry[p][v].when :
                                 e.no = {} /\ \E t \in Pkg \cup Tag : e.all = {t}
  BY <1>1 DEF Simple
<1>3. fetched[p] = v
  BY <1>1, <1>2
<1>4. TheVersion(p) = v
  BY <1>2 DEF TheVersion
<1> QED BY <1>1, <1>2, <1>3, <1>4 DEF ManifestOf

\* In such a world the loop sees present what the model sees present, and asks for
\* what the model adds.
LEMMA PresentIsContext == ASSUME PlanInv, Simple PROVE Model!Present = Context
<1>1. \A p \in In(fetched) : p \in Pkg /\ ManifestOf(fetched, p).gives = ModelOf(p).provides
  BY OneVersion DEF ModelOf
<1>2. \A p \in In(fetched) : [q \in Pkg |-> ModelOf(q)][p].provides = ManifestOf(fetched, p).gives
  BY <1>1
<1> QED BY <1>2 DEF Model!Present, Context

LEMMA AddedAreExtras == ASSUME PlanInv, Simple PROVE Model!Added = Extras
<1> DEFINE edge(e) == [trigger |-> CHOOSE t \in e.all : TRUE, dep |-> e.dep]
<1>0. \A e : edge(e).dep = e.dep
  OBVIOUS
<1>1. ASSUME NEW p \in In(fetched)
      PROVE  [q \in Pkg |-> ModelOf(q)][p].conditional = {edge(e) : e \in ManifestOf(fetched, p).when}
  BY <1>1, OneVersion DEF ModelOf
<1>2. ASSUME NEW p \in In(fetched), NEW e \in ManifestOf(fetched, p).when
      PROVE  edge(e).trigger \in Model!Present <=> Applies(e)
  <2>1. PICK t : e.all = {t} /\ e.no = {}
    BY <1>2, OneVersion
  <2>2. (CHOOSE s \in e.all : TRUE) = t
    BY <2>1
  <2> QED BY <2>1, <2>2, PresentIsContext DEF Applies
<1> HIDE DEF edge
<1>3. ASSUME NEW d, d \in {e.dep : e \in Model!Fired} PROVE d \in {e.dep : e \in Firing}
  <2>1. PICK f \in Model!Fired : d = f.dep
    BY <1>3
  <2>2. PICK p \in In(fetched) : f \in [q \in Pkg |-> ModelOf(q)][p].conditional /\ f.trigger \in Model!Present
    BY <2>1 DEF Model!Fired
  <2>3. PICK e \in ManifestOf(fetched, p).when : f = edge(e)
    BY <1>1, <2>2
  <2>4. Applies(e) /\ d = e.dep
    BY <1>0, <1>2, <2>1, <2>2, <2>3
  <2> QED BY <2>3, <2>4 DEF Firing
<1>4. ASSUME NEW d, d \in {e.dep : e \in Firing} PROVE d \in {e.dep : e \in Model!Fired}
  <2>1. PICK e \in Firing : d = e.dep
    BY <1>4
  <2>2. PICK p \in In(fetched) : e \in ManifestOf(fetched, p).when /\ Applies(e)
    BY <2>1 DEF Firing
  <2>3. edge(e) \in [q \in Pkg |-> ModelOf(q)][p].conditional /\ edge(e).trigger \in Model!Present
    BY <1>1, <1>2, <2>2
  <2>4. edge(e) \in Model!Fired /\ edge(e).dep = d
    BY <1>0, <2>1, <2>2, <2>3 DEF Model!Fired
  <2> QED BY <2>4
<1> QED BY <1>3, <1>4 DEF Model!Added, Extras

\* Where no package needs, brings or obsoletes another, an answer is what was asked for.
LEMMA NothingElse ==
    ASSUME PlanInv, Simple, NEW names, NEW c \in Choices(registry, names), names \subseteq In(c)
    PROVE  In(Answer(registry, c)) = names
<1>1. c \in Graph /\ \A p \in In(c) : ManifestOf(c, p) # None
  BY ChoiceHas DEF PlanInv
<1>2. ASSUME NEW p \in Pkg, NEW v \in Version, registry[p][v] # None
      PROVE  /\ Declared(registry[p][v].needs) = {}
             /\ registry[p][v].brings = {} /\ registry[p][v].drops = {}
  BY <1>2 DEF Simple
<1>3. \A p \in In(c) : p \in Pkg /\ c[p] \in Version /\ registry[p][c[p]] # None
  BY <1>1 DEF In, Graph, ManifestOf
<1>4. Brought(registry) = {}
  BY <1>2 DEF Brought, Offered
<1>5. Dropped(registry, c) = {}
  BY <1>2, <1>3 DEF Dropped
<1>6. In(c) = LedTo(registry, names \cup Brought(registry), c)
  BY DEF Choices
<1>7. \A p \in In(c) : Declared(registry[p][c[p]].needs) = {}
  BY <1>2, <1>3
<1>8. In(c) \subseteq names
  BY <1>4, <1>6, <1>7 DEF LedTo
<1>9. In(Answer(registry, c)) = In(c)
  BY <1>5 DEF Answer, In
<1> QED BY <1>8, <1>9

LEMMA ExpandFollows == ASSUME PlanInv, Simple, Expand PROVE Model!Step
<1>1. PICK c \in Choices(registry, Names), a \in Graph :
        MeetsCombined(c) /\ a = Answer(registry, c) /\ fetched' = Refetch(a)
  BY ExpandStep
<1>2. registry' = registry /\ pc = "expand"
  BY DEF Expand
<1>3. In(a) = Names
  BY <1>1, ChoiceHas, CombinedHas, NothingElse DEF PlanInv
<1>4. Declared(wanted) \cup asked \subseteq In(fetched) /\ fetched \in Graph
  <2>1. \A p \in Pkg : \A v \in Version : registry[p][v] # None => registry[p][v].drops = {}
    BY DEF Simple
  <2>2. obsoleted = {}
    BY <2>1 DEF PlanInv, Offered
  <2> QED BY <1>2, <2>2 DEF PlanInv, PlanTypeOK
<1>5. In(fetched') = In(fetched) \cup Extras
  BY <1>1, <1>3, <1>4, RefetchType DEF Names
<1>6. In(fetched)' = In(fetched) \cup Model!Added
  BY <1>5, AddedAreExtras DEF In
<1>7. [p \in Pkg |-> ModelOf(p)]' = [p \in Pkg |-> ModelOf(p)]
  BY <1>2 DEF ModelOf, TheVersion
<1> QED BY <1>6, <1>7 DEF Model!Step

\* The production loop agrees with the repository's model of it, for any number of
\* packages and rounds: a pass adds what a step of the model adds, and the loop is done
\* only where the model is stable.
THEOREM LoopFollowsModel == PlanSpec => FollowsModel
<1>1. PlanInv /\ [PlanNext]_planVars =>
        [Simple => (Expand => Model!Step) /\ (Done => Model!Stable)]_planVars
  <2> SUFFICES ASSUME PlanInv, Simple PROVE (Expand => Model!Step) /\ (Done => Model!Stable)
    OBVIOUS
  <2>1. Done => Model!Stable
    BY AddedAreExtras DEF Done, Model!Stable
  <2> QED BY <2>1, ExpandFollows
<1> QED BY <1>1, PlanInvariance, PTL DEF PlanSpec, FollowsModel

===============================================================================
