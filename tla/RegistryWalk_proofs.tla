-------------------------- MODULE RegistryWalk_proofs --------------------------
(* Proofs about RegistryWalk for every number of registries, mirrors and versions, *)
(* every set of worlds and any number of changes.                                 *)
EXTENDS RegistryWalk, WellFoundedInduction, TLAPS

LEMMA Facts ==
    /\ Registries \in Nat \ {0} /\ Sources \in Nat \ {0} /\ Version \subseteq Nat
    /\ TargetVersion \in Version /\ DeclaredVersion \in [Declaration -> Version]
    /\ Worlds \subseteq World /\ \A S \in SUBSET Version : S # None
    /\ 1 \in Registry /\ 1 \in Source /\ Registry \subseteq Nat
    /\ \A r \in Registry : r >= 1 /\ r <= Registries /\ (r < Registries => r + 1 \in Registry)
BY WalkAssumption DEF Registry, Source

\* The newest of some versions is one of them.
LEMMA MaxIn == ASSUME NEW S \in SUBSET Version, S # {} PROVE Max(S) \in S
<1>1. PICK v \in S : \A w \in S : w <= v
  BY NewestAssumption
<1>2. v \in S /\ \A w \in S : v >= w
  BY <1>1, Facts
<1> QED BY <1>2 DEF Max

LEMMA MinIn == ASSUME NEW S \in SUBSET Nat, S # {} PROVE Min(S) \in S
<1>1. PICK x \in S : \A y \in S : ~ (<<y, x>> \in OpToRel(<, Nat))
  BY NatLessThanWellFounded, WFMin
<1>2. \A y \in S : ~ (y < x)
  BY <1>1 DEF OpToRel
<1>3. \A y \in S : x <= y
  BY <1>2
<1> QED BY <1>3 DEF Min

LEMMA MaxOne == ASSUME NEW v \in Version PROVE Max({v}) = v
<1>1. {v} \in SUBSET Version /\ {v} # {}
  OBVIOUS
<1> QED BY <1>1, MaxIn

------------------------------------------------------------------------------
\* What the actions write, named so that each is typed once

BegunJob(phase, asked, standing) ==
    [NoJob EXCEPT !.phase = phase, !.asked = asked, !.want = asked, !.standing = standing]
SolveJob(j) == [j EXCEPT !.phase = "solve"]
LatestJob(j) == [j EXCEPT !.phase = "solve", !.want = Version, !.at = 1]
ManifestJob(j, v) == [j EXCEPT !.phase = "manifest", !.version = v, !.want = {v}, !.at = 1]
AgainJob(j) == [j EXCEPT !.phase = "again", !.want = Version, !.at = 1]
InstallJob(j, copy) ==
    [j EXCEPT !.phase = "install", !.read = copy, !.want = {j.version}, !.at = 1]
NextJob(j) == [j EXCEPT !.at = j.at + 1]
FoundJob(j, t) == [j EXCEPT !.found = t]
ChangedJob(j, standing) == [j EXCEPT !.quiet = FALSE, !.standing = standing]

Typed(j) == j \in Job /\ j.at \in Registry

LEMMA NoJobType == Typed(NoJob)
BY Facts DEF Typed, NoJob, Job, Phase

LEMMA BegunJobType ==
    ASSUME NEW phase \in Phase, NEW asked \in SUBSET Version, NEW standing \in SUBSET Registry
    PROVE  LET k == BegunJob(phase, asked, standing)
           IN Typed(k) /\ k.phase = phase /\ k.want = asked /\ k.standing = standing /\ k.at = 1
<1> DEFINE k1 == [NoJob EXCEPT !.phase = phase, !.asked = asked]
           k == BegunJob(phase, asked, standing)
<1>1. k1 \in Job /\ k1.phase = phase /\ k1.at = 1
  BY NoJobType DEF Typed, NoJob, Job
<1>2. k = [k1 EXCEPT !.want = asked, !.standing = standing]
  BY DEF BegunJob
<1> HIDE DEF k1
<1> QED BY <1>1, <1>2, Facts DEF Typed, Job

LEMMA SolveJobType ==
    ASSUME NEW j, Typed(j)
    PROVE  LET k == SolveJob(j)
           IN /\ Typed(k) /\ k.phase = "solve" /\ k.at = j.at /\ k.standing = j.standing
              /\ k.quiet = j.quiet
BY DEF SolveJob, Typed, Job, Phase

LEMMA LatestJobType ==
    ASSUME NEW j, Typed(j)
    PROVE  LET k == LatestJob(j)
           IN Typed(k) /\ k.phase = "solve" /\ k.at = 1 /\ k.standing = j.standing
              /\ k.quiet = j.quiet
<1> DEFINE k1 == [j EXCEPT !.phase = "solve", !.want = Version]
           k == LatestJob(j)
<1>1. k1 \in Job /\ k1.phase = "solve" /\ k1.standing = j.standing /\ k1.quiet = j.quiet
  BY DEF Typed, Job, Phase
<1>2. k = [k1 EXCEPT !.at = 1]
  BY DEF LatestJob
<1> HIDE DEF k1
<1> QED BY <1>1, <1>2, Facts DEF Typed, Job

LEMMA ManifestJobType ==
    ASSUME NEW j, Typed(j), NEW v \in Version
    PROVE  LET k == ManifestJob(j, v)
           IN /\ Typed(k) /\ k.phase = "manifest" /\ k.version = v /\ k.want = {v} /\ k.at = 1
              /\ k.standing = j.standing /\ k.quiet = j.quiet
<1> DEFINE k1 == [j EXCEPT !.phase = "manifest", !.version = v]
           k == ManifestJob(j, v)
<1>1. /\ k1 \in Job /\ k1.phase = "manifest" /\ k1.version = v /\ k1.standing = j.standing
      /\ k1.quiet = j.quiet
  BY DEF Typed, Job, Phase
<1>2. k = [k1 EXCEPT !.want = {v}, !.at = 1]
  BY DEF ManifestJob
<1> HIDE DEF k1, k
<1>3. {v} \in SUBSET Version /\ 1 \in Nat /\ 1 \in Registry
  BY Facts
<1>4. k \in Job /\ k.at = 1 /\ k.want = {v}
  BY <1>1, <1>2, <1>3 DEF Job
<1>5. k.phase = k1.phase /\ k.version = k1.version /\ k.standing = k1.standing /\ k.quiet = k1.quiet
  BY <1>1, <1>2 DEF Job
<1> QED BY <1>1, <1>3, <1>4, <1>5 DEF Typed, k

LEMMA AgainJobType ==
    ASSUME NEW j, Typed(j)
    PROVE  LET k == AgainJob(j)
           IN /\ Typed(k) /\ k.phase = "again" /\ k.version = j.version /\ k.want = Version
              /\ k.at = 1 /\ k.standing = j.standing /\ k.quiet = j.quiet
<1> DEFINE k1 == [j EXCEPT !.phase = "again", !.want = Version]
           k == AgainJob(j)
<1>1. /\ k1 \in Job /\ k1.phase = "again" /\ k1.want = Version /\ k1.version = j.version
      /\ k1.standing = j.standing /\ k1.quiet = j.quiet
  BY DEF Typed, Job, Phase
<1>2. k = [k1 EXCEPT !.at = 1]
  BY DEF AgainJob
<1> HIDE DEF k1
<1> QED BY <1>1, <1>2, Facts DEF Typed, Job

LEMMA InstallJobType ==
    ASSUME NEW j, Typed(j), j.version \in Version, NEW copy \in Tree
    PROVE  LET k == InstallJob(j, copy)
           IN /\ Typed(k) /\ k.phase = "install" /\ k.version = j.version /\ k.want = {j.version}
              /\ k.read = copy /\ k.at = 1 /\ k.standing = j.standing /\ k.quiet = j.quiet
<1> DEFINE k1 == [j EXCEPT !.phase = "install", !.read = copy]
           k == InstallJob(j, copy)
<1>1. /\ k1 \in Job /\ k1.phase = "install" /\ k1.version = j.version /\ k1.read = copy
      /\ k1.standing = j.standing /\ k1.quiet = j.quiet
  BY DEF Typed, Job, Phase
<1>2. k = [k1 EXCEPT !.want = {j.version}, !.at = 1]
  BY DEF InstallJob
<1> HIDE DEF k1, k
<1>3. {j.version} \in SUBSET Version /\ 1 \in Nat /\ 1 \in Registry
  BY Facts
<1>4. k \in Job /\ k.at = 1 /\ k.want = {j.version}
  BY <1>1, <1>2, <1>3 DEF Job
<1>5. /\ k.phase = k1.phase /\ k.version = k1.version /\ k.standing = k1.standing
      /\ k.quiet = k1.quiet /\ k.read = k1.read
  BY <1>1, <1>2 DEF Job
<1> QED BY <1>1, <1>3, <1>4, <1>5 DEF Typed, k

LEMMA NextJobType ==
    ASSUME NEW j, Typed(j), j.at < Registries
    PROVE  LET k == NextJob(j)
           IN /\ Typed(k) /\ k.phase = j.phase /\ k.version = j.version /\ k.want = j.want
              /\ k.read = j.read /\ k.at = j.at + 1 /\ k.standing = j.standing
              /\ k.quiet = j.quiet
<1>1. j.at + 1 \in Registry /\ j.at + 1 \in Nat
  BY Facts DEF Typed
<1> QED BY <1>1 DEF NextJob, Typed, Job

LEMMA FoundJobType ==
    ASSUME NEW j, Typed(j), NEW t \in Tree
    PROVE  LET k == FoundJob(j, t)
           IN /\ Typed(k) /\ k.phase = j.phase /\ k.version = j.version /\ k.want = j.want
              /\ k.read = j.read /\ k.at = j.at /\ k.standing = j.standing /\ k.quiet = j.quiet
              /\ k.found = t
BY DEF FoundJob, Typed, Job

LEMMA ChangedJobType ==
    ASSUME NEW j, Typed(j), NEW S \in SUBSET Registry
    PROVE  LET k == ChangedJob(j, S)
           IN /\ Typed(k) /\ k.phase = j.phase /\ k.version = j.version /\ k.want = j.want
              /\ k.read = j.read /\ k.at = j.at /\ k.standing = S /\ ~k.quiet
              /\ k.found = j.found
BY DEF ChangedJob, Typed, Job

------------------------------------------------------------------------------
\* Where a walk comes to while the registries hold still

Gone(r) == Absent(r, Listing(r).why)

\* r is reached: every registry before it has no such package.
Reached(r) == \A q \in Registry : q < r => Gone(q)

\* The first registry that does not count as absent lists versions.
Lists(r) == Reached(r) /\ ~Gone(r) /\ Listing(r).why = "up"

\* Its newest version that fits is v, and can be read.
Offers(r, want, v) ==
    Lists(r) /\ Listing(r).versions \cap want # {} /\ v = Max(Listing(r).versions \cap want)
Readable(r, v) ==
    1 \in Serving(r) /\ Having(r, v) \cap (IF world.archive THEN {1} ELSE Source) # {}

ByRegistry(want, t) ==
    \E r \in Registry, v \in Version :
        /\ Offers(r, want, v) /\ Readable(r, v)
        /\ \/ world.holds[r][v] = "package" /\ t = TreeAt(r, v)
           \/ /\ world.holds[r][v] # "package" /\ world.target[r] = "up"
              /\ t = Redirected(r, v)

\* A walk for a version in want comes to t, or finds no version that fits.
Comes(want, t) ==
    \/ world.declared # {} /\ Answers(Surgical) /\ t = DeclaredTree(Surgical)
    \/ world.declared = {} /\ ByRegistry(want, t)
ComesToNothing(want) ==
    /\ world.declared = {}
    /\ \/ \A q \in Registry : Gone(q)
       \/ \E r \in Registry : Lists(r) /\ Listing(r).versions \cap want = {}

LEMMA WorldTypes ==
    ASSUME world \in World, NEW r \in Registry
    PROVE  /\ \A v \in Version : world.holds[r][v] \in Holding
           /\ \A s \in Source : world.status[r][s] \in Status /\ world.tags[r][s] \subseteq Version
           /\ world.index[r] # None => world.index[r] \subseteq Version
           /\ Serving(r) \subseteq Source
           /\ \A v \in Version : Having(r, v) \subseteq Serving(r)
<1>1. /\ world.holds \in [Registry -> [Version -> Holding]]
      /\ world.status \in [Registry -> [Source -> Status]]
      /\ world.tags \in [Registry -> [Source -> SUBSET Version]]
      /\ world.index \in [Registry -> (SUBSET Version) \cup {None}]
  BY DEF World
<1>2. Serving(r) \subseteq Source /\ \A v \in Version : Having(r, v) \subseteq Serving(r)
  BY DEF Serving, Having
<1> QED BY <1>1, <1>2

LEMMA ListingType ==
    ASSUME world \in World, NEW r \in Registry
    PROVE  /\ Listing(r).versions \subseteq Version
           /\ Listing(r).why = "up" \/ Listing(r).why = world.status[r][1]
<1>1. Serving(r) # {} => Min(Serving(r)) \in Source
  <2>1. Serving(r) \in SUBSET Nat
    BY WorldTypes DEF Source
  <2> QED BY <2>1, MinIn, WorldTypes
<1> QED BY <1>1, WorldTypes DEF Listing

LEMMA TreeTypes ==
    ASSUME world \in World, NEW r \in Registry, NEW v \in Version
    PROVE  TreeAt(r, v) \in Tree /\ Redirected(r, v) \in Tree
BY Facts, WorldTypes DEF TreeAt, Redirected, Tree

LEMMA SurgicalType ==
    /\ Surgical \in Declaration
    /\ \A d \in Declaration : DeclaredTree(d) \in Tree
BY Facts DEF Surgical, Declaration, DeclaredTree, Tree, Holding, Registry

\* There is one first registry that is not absent, so a walk comes to one place.
LEMMA OneReached ==
    ASSUME NEW r \in Registry, NEW q \in Registry, Reached(r), ~Gone(r), Reached(q), ~Gone(q)
    PROVE  r = q
<1>1. r \in Nat /\ q \in Nat
  BY Facts
<1>2. ~(r < q) /\ ~(q < r)
  BY DEF Reached
<1> QED BY <1>1, <1>2

LEMMA OnePlace ==
    ASSUME NEW want, NEW t, NEW u, Comes(want, t), Comes(want, u)
    PROVE  t = u
<1>1. CASE world.declared # {}
  BY <1>1 DEF Comes
<1>2. CASE world.declared = {}
  <2>1. PICK r \in Registry, v \in Version :
           /\ Offers(r, want, v)
           /\ \/ world.holds[r][v] = "package" /\ t = TreeAt(r, v)
              \/ world.holds[r][v] # "package" /\ t = Redirected(r, v)
    BY <1>2 DEF Comes, ByRegistry
  <2>2. PICK q \in Registry, w \in Version :
           /\ Offers(q, want, w)
           /\ \/ world.holds[q][w] = "package" /\ u = TreeAt(q, w)
              \/ world.holds[q][w] # "package" /\ u = Redirected(q, w)
    BY <1>2 DEF Comes, ByRegistry
  <2>3. r = q
    BY <2>1, <2>2, OneReached DEF Offers, Lists
  <2>4. v = w
    BY <2>1, <2>2, <2>3 DEF Offers
  <2> QED BY <2>1, <2>2, <2>3, <2>4
<1> QED BY <1>1, <1>2

LEMMA NotNothing == ASSUME NEW want, NEW t, Comes(want, t) PROVE ~ComesToNothing(want)
BY OneReached DEF Comes, ByRegistry, Offers, Lists, ComesToNothing

\* A walk for any version that comes to version v, which a walk for v alone did not
\* find, has come to a redirect that leads elsewhere.
LEMMA OnlyPinned ==
    ASSUME world \in World, NEW v, NEW t, ComesToNothing({v}), Comes(Version, t), t.version = v
    PROVE  t.holds \in Elsewhere
<1>1. world.declared = {}
  BY DEF ComesToNothing
<1>2. PICK r \in Registry, w \in Version :
         /\ Offers(r, Version, w)
         /\ \/ world.holds[r][w] = "package" /\ t = TreeAt(r, w)
            \/ world.holds[r][w] # "package" /\ t = Redirected(r, w)
  BY <1>1 DEF Comes, ByRegistry
<1>3. w \in Listing(r).versions
  <2>1. Listing(r).versions \cap Version \in SUBSET Version /\ Listing(r).versions \cap Version # {}
    BY <1>2 DEF Offers
  <2> QED BY <1>2, <2>1, MaxIn DEF Offers
<1>4. Listing(r).versions \cap {v} = {}
  <2>1. ~ \A q \in Registry : Gone(q)
    BY <1>2 DEF Offers, Lists
  <2>2. PICK q \in Registry : Lists(q) /\ Listing(q).versions \cap {v} = {}
    BY <2>1 DEF ComesToNothing
  <2> QED BY <1>2, <2>2, OneReached DEF Offers, Lists
<1>5. w # v
  BY <1>3, <1>4
<1>6. world.holds[r][w] \in Holding
  BY WorldTypes
<1> QED BY <1>2, <1>5, <1>6 DEF TreeAt, Redirected, Holding, Elsewhere

------------------------------------------------------------------------------
\* The inductive invariant

Asking == {"consult", "probe", "target"}

\* What an install under way looks like: each walk starts at the first registry,
\* and looks for what its phase looks for.
Shape(q, j) ==
    /\ Typed(j)
    /\ q \in Asking \cup {"resolve", "read", "fetch"}
    /\ q = "resolve" => j.at = 1
    /\ q \in {"probe", "target"} => j.phase # "list" /\ j.found \in Tree
    /\ q = "read" => j.phase \in {"manifest", "again"} /\ j.found \in Tree
    /\ q = "fetch" => j.phase = "install" /\ j.found \in Tree
    /\ j.phase \in {"manifest", "again", "install"} => j.version \in Version
    /\ j.phase \in {"manifest", "install"} => j.want = {j.version}
    /\ j.phase = "again" => j.want = Version

\* No registry that stood all along is behind the walk.
Passing(q, j) ==
    /\ j.standing \subseteq Standing(world.status)
    /\ q \in Asking /\ j.phase # "list" => \A x \in j.standing : x >= j.at
    /\ q \in {"read", "fetch"} /\ j.found.via = "registry" => \A x \in j.standing : x >= j.found.at

\* What was read is what the walk for the install will come to; when it will come to
\* nothing, what was read is the target of a redirect that leads elsewhere.
Installable(j) ==
    IF world.declared # {}
    THEN Answers(Surgical) /\ (Surgical # "override" => j.read = DeclaredTree(Surgical))
    ELSE /\ Obtainable(j.read)
         /\ Comes(j.want, j.read) \/ (ComesToNothing(j.want) /\ j.read.holds \in Elsewhere)

\* The walk is where the registries lead it.
OnTheWay(q, j) ==
    /\ q \in Asking => world.declared = {}
    /\ q \in Asking /\ j.phase # "list" => Reached(j.at)
    /\ q \in {"probe", "target"} => Offers(j.at, j.want, j.found.version)
    /\ q = "target" => Readable(j.at, j.found.version) /\ world.holds[j.at][j.found.version] # "package"
    /\ q \in {"read", "fetch"} => Comes(j.want, j.found)
    /\ j.phase = "again" => ComesToNothing({j.version})
    /\ j.phase = "again" /\ q = "read" => j.found.version = j.version
    /\ j.phase = "install" => Installable(j)

Fits(q, j) == Shape(q, j) /\ Passing(q, j) /\ (j.quiet => OnTheWay(q, j))

Inv ==
    /\ world \in World
    /\ pc = "idle" \/ Fits(pc, job)
    /\ NeverPassedOver /\ ReadIsInstalled /\ SolvedIsFetchable

\* While the registries hold still, so does everything that is said about them.
LEMMA StillServing ==
    ASSUME world' = world, NEW r
    PROVE  Serving(r)' = Serving(r) /\ \A why : Absent(r, why)' <=> Absent(r, why)
BY DEF Serving, Absent

LEMMA StillListing ==
    ASSUME world' = world, NEW r
    PROVE  Listing(r)' = Listing(r) /\ (Gone(r)' <=> Gone(r))
BY StillServing DEF Listing, Gone

LEMMA StillHaving ==
    ASSUME world' = world, NEW r, NEW v
    PROVE  Having(r, v)' = Having(r, v) /\ (Readable(r, v)' <=> Readable(r, v))
BY StillServing DEF Having, Readable

LEMMA StillReached ==
    ASSUME world' = world, NEW r
    PROVE  (Reached(r)' <=> Reached(r)) /\ (Lists(r)' <=> Lists(r))
BY StillListing DEF Reached, Lists

LEMMA StillOffers ==
    ASSUME world' = world, NEW r, NEW want, NEW v
    PROVE  Offers(r, want, v)' <=> Offers(r, want, v)
BY StillListing, StillReached DEF Offers

LEMMA StillAnswers ==
    ASSUME world' = world
    PROVE  Surgical' = Surgical /\ \A d : Answers(d)' <=> Answers(d)
BY DEF Surgical, Answers

LEMMA StillComes ==
    ASSUME world' = world, NEW want, NEW t
    PROVE  Comes(want, t)' <=> Comes(want, t)
BY StillOffers, StillHaving, StillAnswers DEF Comes, ByRegistry, TreeAt, Redirected, DeclaredTree

LEMMA StillNothing ==
    ASSUME world' = world, NEW want
    PROVE  ComesToNothing(want)' <=> ComesToNothing(want)
BY StillListing, StillReached DEF ComesToNothing

LEMMA StillObtainable ==
    ASSUME world' = world, NEW t
    PROVE  Obtainable(t)' <=> Obtainable(t)
BY StillHaving, StillAnswers DEF Obtainable

LEMMA StillStanding ==
    ASSUME world' = world, NEW status
    PROVE  Standing(status)' = Standing(status)
BY DEF Standing

LEMMA StillFits ==
    ASSUME Here, NEW q, NEW j, Fits(q, j)
    PROVE  Fits(q, j)'
<1>1. world' = world
  BY DEF Here
<1>2. Shape(q, j)'
  BY DEF Fits, Shape, Typed
<1>3. Passing(q, j)'
  BY <1>1, StillStanding DEF Fits, Passing
<1>4. ASSUME j.quiet PROVE OnTheWay(q, j)'
  <2>1. OnTheWay(q, j)
    BY <1>4 DEF Fits
  <2>2. j.phase = "install" => Installable(j)'
    BY <1>1, <2>1, StillAnswers, StillObtainable, StillComes, StillNothing
    DEF OnTheWay, Installable, DeclaredTree
  <2> QED
    BY <1>1, <2>1, <2>2, StillReached, StillOffers, StillHaving, StillComes, StillNothing
    DEF OnTheWay
<1> QED BY <1>2, <1>3, <1>4 DEF Fits

------------------------------------------------------------------------------
\* How an install goes on, and how it ends

LEMMA UnderWay ==
    ASSUME Inv, pc # "idle"
    PROVE  /\ Fits(pc, job) /\ Shape(pc, job) /\ Passing(pc, job) /\ Typed(job) /\ world \in World
           /\ job.quiet => OnTheWay(pc, job)
BY DEF Inv, Fits, Shape

LEMMA AskOK == ASSUME Inv, NEW q, NEW j, Ask(q, j), Going, Fits(q, j) PROVE Inv'
<1>1. Here /\ result' = result /\ world' = world
  BY DEF Going, Here
<1>2. Fits(q, j)'
  BY <1>1, StillFits
<1>3. Fits(pc, job)'
  BY <1>2 DEF Ask
<1>4. (NeverPassedOver /\ ReadIsInstalled /\ SolvedIsFetchable)'
  BY <1>1 DEF Inv, NeverPassedOver, ReadIsInstalled, SolvedIsFetchable
<1> QED BY <1>1, <1>3, <1>4 DEF Inv

LEMMA FailOK ==
    ASSUME Inv, Fail, Here, job.quiet /\ job.phase = "install" => job.read.holds \in Elsewhere
    PROVE  Inv'
<1>1. /\ pc' = "idle" /\ world' = world
      /\ result'.end = "failed" /\ result'.job = job /\ result'.tree = None
  BY DEF Fail, End, Here
<1> QED BY <1>1 DEF Inv, NeverPassedOver, ReadIsInstalled, SolvedIsFetchable

\* The walk for the tree that was read finds nothing only when a redirect led elsewhere.
LEMMA NothingOK ==
    ASSUME Inv, pc = "consult", job.phase # "list", job.quiet => ComesToNothing(job.want), Nothing
    PROVE  Inv'
<1>1. Shape(pc, job) /\ Passing(pc, job) /\ Typed(job) /\ (job.quiet => OnTheWay(pc, job))
  BY UnderWay
<1>2. CASE job.phase = "manifest"
  <2> DEFINE j == AgainJob(job)
  <2>1. /\ Typed(j) /\ j.phase = "again" /\ j.version = job.version /\ j.want = Version
        /\ j.at = 1 /\ j.standing = job.standing /\ j.quiet = job.quiet
    BY <1>1, AgainJobType
  <2>2. Ask("resolve", j) /\ Going
    BY <1>2 DEF Nothing, AgainJob
  <2> HIDE DEF j
  <2>3. Shape("resolve", j)
    BY <1>1, <1>2, <2>1 DEF Shape
  <2>4. Passing("resolve", j)
    BY <1>1, <2>1 DEF Passing, Asking
  <2>5. j.quiet => OnTheWay("resolve", j)
    BY <1>1, <1>2, <2>1 DEF OnTheWay, Asking, Shape
  <2> QED BY <2>2, <2>3, <2>4, <2>5, AskOK DEF Fits
<1>3. CASE job.phase # "manifest"
  <2>1. Fail /\ Here
    BY <1>3 DEF Nothing
  <2>2. ASSUME job.quiet, job.phase = "install" PROVE job.read.holds \in Elsewhere
    <3>1. Installable(job) /\ world.declared = {}
      BY <1>1, <2>2 DEF OnTheWay, Asking
    <3> QED BY <2>2, <3>1, NotNothing DEF Installable
  <2> QED BY <2>1, <2>2, FailOK
<1> QED BY <1>2, <1>3

LEMMA ResolvedOK ==
    ASSUME Inv, pc # "idle", job.phase # "list", NEW t \in Tree, Resolved(t),
           t.via = "registry" => \A x \in job.standing : x >= t.at,
           job.quiet => Comes(job.want, t)
    PROVE  Inv'
<1>1. Shape(pc, job) /\ Passing(pc, job) /\ Typed(job) /\ (job.quiet => OnTheWay(pc, job))
  BY UnderWay
<1>2. t.version \in Version /\ job.phase \in Phase
  BY <1>1 DEF Tree, Typed, Job
<1>3. CASE job.phase = "solve"
  <2> DEFINE j == ManifestJob(job, t.version)
  <2>1. /\ Typed(j) /\ j.phase = "manifest" /\ j.version = t.version /\ j.want = {t.version}
        /\ j.at = 1 /\ j.standing = job.standing /\ j.quiet = job.quiet
    BY <1>1, <1>2, ManifestJobType
  <2>2. Ask("resolve", j) /\ Going
    BY <1>3 DEF Resolved, ManifestOf, ManifestJob
  <2> HIDE DEF j
  <2>3. Shape("resolve", j)
    BY <1>2, <2>1 DEF Shape
  <2>4. Passing("resolve", j)
    BY <1>1, <2>1 DEF Passing, Asking
  <2>5. OnTheWay("resolve", j)
    BY <2>1 DEF OnTheWay, Asking
  <2> QED BY <2>2, <2>3, <2>4, <2>5, AskOK DEF Fits
<1> DEFINE j == FoundJob(job, t)
<1>4. /\ Typed(j) /\ j.phase = job.phase /\ j.version = job.version /\ j.want = job.want
      /\ j.read = job.read /\ j.standing = job.standing /\ j.quiet = job.quiet /\ j.found = t
  BY <1>1, FoundJobType
<1>5. ASSUME NEW q \in {"read", "fetch"}, Ask(q, j), Going,
             q = "read" => job.phase \in {"manifest", "again"},
             q = "fetch" => job.phase = "install",
             job.phase = "again" => t.version = job.version
      PROVE  Inv'
  <2> HIDE DEF j
  <2>1. Shape(q, j)
    BY <1>1, <1>4, <1>5 DEF Shape
  <2>2. Passing(q, j)
    BY <1>1, <1>4, <1>5 DEF Passing, Asking
  <2>3. ASSUME j.quiet PROVE OnTheWay(q, j)
    <3>1. OnTheWay(pc, job) /\ Comes(job.want, t)
      BY <1>1, <1>4, <2>3
    <3>2. job.phase = "install" => Installable(j)
      BY <1>4, <3>1 DEF OnTheWay, Installable
    <3> QED BY <1>4, <1>5, <3>1, <3>2 DEF OnTheWay, Asking
  <2> QED BY <1>5, <2>1, <2>2, <2>3, AskOK DEF Fits
<1>6. CASE job.phase = "manifest"
  <2>1. Ask("read", j) /\ Going
    BY <1>6 DEF Resolved, FoundJob
  <2> QED BY <1>5, <1>6, <2>1
<1>7. CASE job.phase = "again" /\ t.version = job.version
  <2>1. Ask("read", j) /\ Going
    BY <1>7 DEF Resolved, FoundJob
  <2> QED BY <1>5, <1>7, <2>1
<1>8. CASE job.phase = "again" /\ t.version # job.version
  <2>1. Fail /\ Here
    BY <1>8 DEF Resolved
  <2> QED BY <1>8, <2>1, FailOK
<1>9. CASE job.phase = "install"
  <2>1. Ask("fetch", j) /\ Going
    BY <1>9 DEF Resolved, FoundJob
  <2> QED BY <1>5, <1>9, <2>1
<1> QED BY <1>2, <1>3, <1>6, <1>7, <1>8, <1>9 DEF Phase

------------------------------------------------------------------------------
\* The steps of a walk

LEMMA BeginOK == ASSUME Inv, Begin PROVE Inv'
<1>1. PICK phase \in {"solve", "list"}, asked \in (SUBSET Version) \ {{}} :
         Ask("resolve", [NoJob EXCEPT !.phase = phase, !.asked = asked, !.want = asked,
                                      !.standing = Standing(world.status)])
  BY DEF Begin
<1> DEFINE j == BegunJob(phase, asked, Standing(world.status))
<1>2. Standing(world.status) \subseteq Registry /\ phase \in Phase /\ asked \in SUBSET Version
  BY DEF Standing, Phase
<1>3. Typed(j) /\ j.phase = phase /\ j.standing = Standing(world.status) /\ j.at = 1
  BY <1>2, BegunJobType
<1>4. Ask("resolve", j) /\ Going
  BY <1>1 DEF BegunJob, Begin
<1> HIDE DEF j
<1>5. Shape("resolve", j) /\ Passing("resolve", j) /\ OnTheWay("resolve", j)
  BY <1>3 DEF Shape, Passing, OnTheWay, Asking
<1> QED BY <1>4, <1>5, AskOK DEF Fits

\* Nothing is before the first registry.
LEMMA FirstReached == Reached(1)
BY Facts DEF Reached

LEMMA FirstPasses == ASSUME Inv, pc # "idle" PROVE \A x \in job.standing : x >= 1
BY UnderWay, Facts DEF Typed, Job

LEMMA ResolveOK == ASSUME Inv, Resolve PROVE Inv'
<1>1. /\ pc = "resolve" /\ Shape(pc, job) /\ Passing(pc, job) /\ Typed(job)
      /\ job.quiet => OnTheWay(pc, job)
  BY UnderWay DEF Resolve
<1>2. CASE world.declared = {}
  <2>1. Ask("consult", job) /\ Going
    BY <1>2 DEF Resolve
  <2>2. job.at = 1
    BY <1>1 DEF Shape
  <2>3. Shape("consult", job)
    BY <1>1 DEF Shape, Asking
  <2>4. Passing("consult", job)
    BY <1>1, <2>2, FirstPasses DEF Passing
  <2>5. job.quiet => OnTheWay("consult", job)
    BY <1>1, <1>2, <2>2, FirstReached DEF OnTheWay
  <2> QED BY <2>1, <2>3, <2>4, <2>5, AskOK DEF Fits
<1>3. CASE world.declared # {} /\ job.phase = "list"
  <2> DEFINE j == SolveJob(job)
  <2>1. /\ Typed(j) /\ j.phase = "solve" /\ j.at = job.at /\ j.standing = job.standing
        /\ j.quiet = job.quiet
    BY <1>1, SolveJobType
  <2>2. Ask("resolve", j) /\ Going
    BY <1>3 DEF Resolve, SolveJob
  <2> HIDE DEF j
  <2>3. Shape("resolve", j)
    BY <1>1, <2>1 DEF Shape
  <2>4. Passing("resolve", j)
    BY <1>1, <2>1 DEF Passing, Asking
  <2>5. OnTheWay("resolve", j)
    BY <2>1 DEF OnTheWay, Asking
  <2> QED BY <2>2, <2>3, <2>4, <2>5, AskOK DEF Fits
<1>4. CASE world.declared # {} /\ job.phase # "list" /\ Answers(Surgical)
  <2> DEFINE t == DeclaredTree(Surgical)
  <2>1. Resolved(t)
    BY <1>4 DEF Resolve
  <2>2. t \in Tree /\ t.via # "registry"
    BY SurgicalType DEF DeclaredTree, Declaration
  <2>3. Comes(job.want, t)
    BY <1>4 DEF Comes
  <2> QED BY <1>1, <1>4, <2>1, <2>2, <2>3, ResolvedOK
<1>5. CASE world.declared # {} /\ job.phase # "list" /\ ~Answers(Surgical)
  <2>1. Fail /\ Here
    BY <1>5 DEF Resolve
  <2>2. ~(job.quiet /\ job.phase = "install")
    BY <1>1, <1>5 DEF OnTheWay, Installable
  <2> QED BY <2>1, <2>2, FailOK
<1> QED BY <1>2, <1>3, <1>4, <1>5

\* A registry that counts as absent has not been standing all along.
LEMMA GoneFalls ==
    ASSUME world \in World, NEW r \in Registry, Gone(r)
    PROVE  r \notin Standing(world.status)
BY ListingType DEF Gone, Absent, Standing

LEMMA RegistryOrder ==
    ASSUME NEW r \in Registry, NEW q \in Registry
    PROVE  /\ q < r + 1 => q < r \/ q = r
           /\ r >= Registries => q < r \/ q = r
<1>1. r \in Nat /\ q \in Nat /\ Registries \in Nat /\ q <= Registries
  BY Facts
<1> QED BY <1>1

LEMMA NextRegistryOK ==
    ASSUME Inv, pc = "consult", job.phase = "list" \/ Gone(job.at), NextRegistry
    PROVE  Inv'
<1>1. /\ Shape(pc, job) /\ Passing(pc, job) /\ Typed(job) /\ world \in World
      /\ job.quiet => OnTheWay(pc, job)
  BY UnderWay
<1>2. job.at \in Registry /\ job.standing \subseteq Registry
  BY <1>1 DEF Typed, Job
<1>3. CASE job.at < Registries
  <2> DEFINE j == NextJob(job)
  <2>1. /\ Typed(j) /\ j.phase = job.phase /\ j.version = job.version /\ j.want = job.want
        /\ j.read = job.read /\ j.at = job.at + 1 /\ j.standing = job.standing
        /\ j.quiet = job.quiet
    BY <1>1, <1>3, NextJobType
  <2>2. Ask("consult", j) /\ Going
    BY <1>3 DEF NextRegistry, NextJob
  <2> HIDE DEF j
  <2>3. Shape("consult", j)
    BY <1>1, <2>1 DEF Shape, Asking
  <2>4. ASSUME job.phase # "list", NEW x \in job.standing PROVE x >= job.at + 1
    <3>1. x >= job.at /\ x # job.at /\ x \in Nat /\ job.at \in Nat
      BY <1>1, <1>2, <2>4, GoneFalls, Facts DEF Passing, Asking
    <3> QED BY <3>1
  <2>5. Passing("consult", j)
    BY <1>1, <2>1, <2>4 DEF Passing, Asking
  <2>6. ASSUME j.quiet PROVE OnTheWay("consult", j)
    <3>1. OnTheWay(pc, job)
      BY <1>1, <2>1, <2>6
    <3>2. ASSUME job.phase # "list" PROVE Reached(job.at + 1)
      <4>1. Reached(job.at) /\ Gone(job.at)
        BY <3>1, <3>2 DEF OnTheWay, Asking
      <4>2. \A q \in Registry : q < job.at + 1 => q < job.at \/ q = job.at
        BY <1>2, RegistryOrder
      <4> QED BY <4>1, <4>2 DEF Reached
    <3>3. job.phase = "install" => Installable(j)
      BY <2>1, <3>1 DEF OnTheWay, Installable
    <3> QED BY <2>1, <3>1, <3>2, <3>3 DEF OnTheWay, Asking
  <2> QED BY <2>2, <2>3, <2>5, <2>6, AskOK DEF Fits
<1>4. CASE job.at >= Registries /\ job.phase = "list"
  <2> DEFINE j == LatestJob(job)
  <2>1. /\ Typed(j) /\ j.phase = "solve" /\ j.at = 1 /\ j.standing = job.standing
        /\ j.quiet = job.quiet
    BY <1>1, LatestJobType
  <2>2. Ask("consult", j) /\ Going
    BY <1>2, <1>4, Facts DEF NextRegistry, LatestJob
  <2> HIDE DEF j
  <2>3. Shape("consult", j)
    BY <2>1 DEF Shape, Asking
  <2>4. Passing("consult", j)
    BY <1>1, <2>1, FirstPasses DEF Passing
  <2>5. j.quiet => OnTheWay("consult", j)
    BY <1>1, <2>1, FirstReached DEF OnTheWay, Asking
  <2> QED BY <2>2, <2>3, <2>4, <2>5, AskOK DEF Fits
<1>5. CASE job.at >= Registries /\ job.phase # "list"
  <2>1. Nothing
    BY <1>2, <1>5, Facts DEF NextRegistry
  <2>2. ASSUME job.quiet PROVE ComesToNothing(job.want)
    <3>1. Reached(job.at) /\ Gone(job.at) /\ world.declared = {}
      BY <1>1, <1>5, <2>2 DEF OnTheWay, Asking
    <3>2. \A q \in Registry : q < job.at \/ q = job.at
      BY <1>2, <1>5, RegistryOrder
    <3> QED BY <3>1, <3>2 DEF Reached, ComesToNothing
  <2> QED BY <1>5, <2>1, <2>2, NothingOK
<1>6. Registries \in Nat /\ job.at \in Nat
  BY <1>2, Facts
<1> QED BY <1>3, <1>4, <1>5, <1>6

LEMMA ListOK == ASSUME Inv, List PROVE Inv'
<1> DEFINE found == Listing(job.at)
<1>1. /\ pc = "consult" /\ job.phase = "list" /\ Shape(pc, job) /\ Passing(pc, job)
      /\ Typed(job) /\ world \in World /\ (job.quiet => OnTheWay(pc, job))
  BY UnderWay DEF List
<1>2. found.versions \subseteq Version
  BY <1>1, ListingType DEF Typed
<1>3. \/ NextRegistry
      \/ Fail /\ Here
      \/ \E v \in found.versions \cap job.asked : Ask("resolve", ManifestOf(v)) /\ Going
  BY DEF List
<1> HIDE DEF found
<1>4. CASE NextRegistry
  BY <1>1, <1>4, NextRegistryOK
<1>5. CASE Fail /\ Here
  BY <1>1, <1>5, FailOK
<1>6. ASSUME NEW v \in found.versions \cap job.asked, Ask("resolve", ManifestOf(v)), Going
      PROVE  Inv'
  <2> DEFINE j == ManifestJob(job, v)
  <2>1. /\ Typed(j) /\ j.phase = "manifest" /\ j.version = v /\ j.want = {v} /\ j.at = 1
        /\ j.standing = job.standing /\ j.quiet = job.quiet
    BY <1>1, <1>2, ManifestJobType
  <2>2. Ask("resolve", j) /\ Going
    BY <1>6 DEF ManifestOf, ManifestJob
  <2> HIDE DEF j
  <2>3. Shape("resolve", j)
    BY <1>2, <2>1 DEF Shape
  <2>4. Passing("resolve", j)
    BY <1>1, <2>1 DEF Passing, Asking
  <2>5. OnTheWay("resolve", j)
    BY <2>1 DEF OnTheWay, Asking
  <2> QED BY <2>2, <2>3, <2>4, <2>5, AskOK DEF Fits
<1> QED BY <1>3, <1>4, <1>5, <1>6

\* A walk for the version that was read, which ends in an error where the registries
\* lead it, would have ended before anything was read.
LEMMA ErrorOK ==
    ASSUME Inv, pc \in Asking, Fail, Here,
           job.quiet /\ job.phase = "install" =>
               \A t : ~Comes(job.want, t) /\ ~ComesToNothing(job.want)
    PROVE  Inv'
<1>1. job.quiet => OnTheWay(pc, job)
  BY UnderWay DEF Asking
<1>2. ASSUME job.quiet, job.phase = "install" PROVE FALSE
  <2>1. Installable(job) /\ world.declared = {}
    BY <1>1, <1>2 DEF OnTheWay
  <2> QED BY <1>2, <2>1 DEF Installable
<1> QED BY <1>2, FailOK

LEMMA ConsultOK == ASSUME Inv, Consult PROVE Inv'
<1> DEFINE found == Listing(job.at)
           fits == found.versions \cap job.want
           t == TreeAt(job.at, Max(fits))
           j == FoundJob(job, t)
<1>1. /\ pc = "consult" /\ job.phase # "list" /\ Shape(pc, job) /\ Passing(pc, job)
      /\ Typed(job) /\ world \in World /\ (job.quiet => OnTheWay(pc, job)) /\ job.at \in Registry
  BY UnderWay DEF Consult, Typed
<1>2. CASE Gone(job.at)
  <2>1. NextRegistry
    BY <1>2 DEF Consult, Gone
  <2> QED BY <1>1, <1>2, <2>1, NextRegistryOK
<1>3. CASE ~Gone(job.at) /\ found.why # "up"
  <2>1. Fail /\ Here
    BY <1>3 DEF Consult, Gone
  <2>2. ASSUME job.quiet, NEW u PROVE ~Comes(job.want, u) /\ ~ComesToNothing(job.want)
    <3>1. Reached(job.at) /\ world.declared = {}
      BY <1>1, <2>2 DEF OnTheWay, Asking
    <3> QED BY <1>1, <1>3, <3>1, OneReached DEF Comes, ByRegistry, Offers, Lists, ComesToNothing
  <2> QED BY <1>1, <2>1, <2>2, ErrorOK DEF Asking
<1>4. CASE ~Gone(job.at) /\ found.why = "up" /\ fits = {}
  <2>1. Nothing
    BY <1>4 DEF Consult, Gone
  <2>2. ASSUME job.quiet PROVE ComesToNothing(job.want)
    <3>1. Reached(job.at) /\ world.declared = {}
      BY <1>1, <2>2 DEF OnTheWay, Asking
    <3> QED BY <1>1, <1>4, <3>1 DEF ComesToNothing, Lists
  <2> QED BY <1>1, <2>1, <2>2, NothingOK
<1>5. CASE ~Gone(job.at) /\ found.why = "up" /\ fits # {}
  <2>1. Ask("probe", j) /\ Going
    BY <1>5 DEF Consult, Gone, FoundJob
  <2>2. Max(fits) \in Version
    <3>1. fits \in SUBSET Version
      BY <1>1, ListingType
    <3> QED BY <1>5, <3>1, MaxIn
  <2>3. t \in Tree /\ t.version = Max(fits)
    BY <1>1, <2>2, TreeTypes DEF TreeAt
  <2>4. /\ Typed(j) /\ j.phase = job.phase /\ j.version = job.version /\ j.want = job.want
        /\ j.read = job.read /\ j.at = job.at /\ j.standing = job.standing
        /\ j.quiet = job.quiet /\ j.found = t
    BY <1>1, <2>3, FoundJobType
  <2> HIDE DEF j, t
  <2>5. Shape("probe", j)
    BY <1>1, <2>3, <2>4 DEF Shape, Asking
  <2>6. Passing("probe", j)
    BY <1>1, <2>4 DEF Passing, Asking
  <2>7. ASSUME j.quiet PROVE OnTheWay("probe", j)
    <3>1. OnTheWay(pc, job)
      BY <1>1, <2>4, <2>7
    <3>2. Offers(job.at, job.want, t.version)
      BY <1>1, <1>5, <2>3, <3>1 DEF OnTheWay, Asking, Offers, Lists
    <3>3. job.phase = "install" => Installable(j)
      BY <2>4, <3>1 DEF OnTheWay, Installable
    <3> QED BY <1>1, <2>4, <3>1, <3>2, <3>3 DEF OnTheWay, Asking
  <2> QED BY <2>1, <2>5, <2>6, <2>7, AskOK DEF Fits
<1> QED BY <1>2, <1>3, <1>4, <1>5

\* Only where what is offered can be read, and its target is there, a walk comes to a tree.
LEMMA OfferIsOnly ==
    ASSUME NEW r \in Registry, NEW want, NEW v, Offers(r, want, v), world.declared = {}
    PROVE  /\ ~ComesToNothing(want)
           /\ \A u : Comes(want, u) =>
                  Readable(r, v) /\ (world.holds[r][v] = "package" \/ world.target[r] = "up")
<1>1. ~ComesToNothing(want)
  BY OneReached DEF Offers, Lists, ComesToNothing
<1>2. ASSUME NEW u, Comes(want, u)
      PROVE  Readable(r, v) /\ (world.holds[r][v] = "package" \/ world.target[r] = "up")
  <2>1. PICK q \in Registry, w \in Version :
           /\ Offers(q, want, w) /\ Readable(q, w)
           /\ world.holds[q][w] = "package" \/ world.target[q] = "up"
    BY <1>2 DEF Comes, ByRegistry
  <2>2. q = r
    BY <2>1, OneReached DEF Offers, Lists
  <2>3. w = v
    BY <2>1, <2>2 DEF Offers
  <2> QED BY <2>1, <2>2, <2>3
<1> QED BY <1>1, <1>2

LEMMA ProbeOK == ASSUME Inv, Probe PROVE Inv'
<1> DEFINE r == job.at
           v == job.found.version
<1>1. /\ pc = "probe" /\ job.phase # "list" /\ Shape(pc, job) /\ Passing(pc, job)
      /\ Typed(job) /\ world \in World /\ (job.quiet => OnTheWay(pc, job))
  BY UnderWay DEF Probe, Shape
<1>2. r \in Registry /\ v \in Version
  BY <1>1 DEF Typed, Shape, Tree
<1>3. job.quiet => Offers(r, job.want, v) /\ world.declared = {}
  BY <1>1 DEF OnTheWay, Asking
<1>4. CASE ~Readable(r, v)
  <2>1. Fail /\ Here
    BY <1>4 DEF Probe, Readable
  <2> QED BY <1>1, <1>2, <1>3, <1>4, <2>1, OfferIsOnly, ErrorOK DEF Asking
<1>5. CASE Readable(r, v) /\ world.holds[r][v] = "package"
  <2>1. Resolved(TreeAt(r, v))
    BY <1>5 DEF Probe, Readable
  <2>2. TreeAt(r, v) \in Tree /\ TreeAt(r, v).at = r
    BY <1>1, <1>2, TreeTypes DEF TreeAt
  <2>3. \A x \in job.standing : x >= TreeAt(r, v).at
    BY <1>1, <2>2 DEF Passing, Asking
  <2>4. job.quiet => Comes(job.want, TreeAt(r, v))
    BY <1>2, <1>3, <1>5 DEF Comes, ByRegistry
  <2> HIDE DEF r, v
  <2> QED BY <1>1, <2>1, <2>2, <2>3, <2>4, ResolvedOK
<1>6. CASE Readable(r, v) /\ world.holds[r][v] # "package"
  <2>1. Ask("target", job) /\ Going
    BY <1>6 DEF Probe, Readable
  <2>2. Shape("target", job)
    BY <1>1 DEF Shape, Asking
  <2>3. Passing("target", job)
    BY <1>1 DEF Passing, Asking
  <2>4. job.quiet => OnTheWay("target", job)
    BY <1>1, <1>6 DEF OnTheWay, Asking
  <2> QED BY <2>1, <2>2, <2>3, <2>4, AskOK DEF Fits
<1> QED BY <1>4, <1>5, <1>6

LEMMA TargetOK == ASSUME Inv, Target PROVE Inv'
<1> DEFINE r == job.at
           v == job.found.version
<1>1. /\ pc = "target" /\ job.phase # "list" /\ Shape(pc, job) /\ Passing(pc, job)
      /\ Typed(job) /\ world \in World /\ (job.quiet => OnTheWay(pc, job))
  BY UnderWay DEF Target, Shape
<1>2. r \in Registry /\ v \in Version
  BY <1>1 DEF Typed, Shape, Tree
<1>3. job.quiet => /\ Offers(r, job.want, v) /\ world.declared = {}
                   /\ Readable(r, v) /\ world.holds[r][v] # "package"
  BY <1>1 DEF OnTheWay, Asking
<1>4. CASE world.target[r] # "up"
  <2>1. Fail /\ Here
    BY <1>4 DEF Target
  <2> QED BY <1>1, <1>2, <1>3, <1>4, <2>1, OfferIsOnly, ErrorOK DEF Asking
<1>5. CASE world.target[r] = "up"
  <2>1. Resolved(Redirected(r, v))
    BY <1>5 DEF Target
  <2>2. Redirected(r, v) \in Tree /\ Redirected(r, v).at = r
    BY <1>1, <1>2, TreeTypes DEF Redirected
  <2>3. \A x \in job.standing : x >= Redirected(r, v).at
    BY <1>1, <2>2 DEF Passing, Asking
  <2>4. job.quiet => Comes(job.want, Redirected(r, v))
    BY <1>2, <1>3, <1>5 DEF Comes, ByRegistry
  <2> HIDE DEF r, v
  <2> QED BY <1>1, <2>1, <2>2, <2>3, <2>4, ResolvedOK
<1> QED BY <1>4, <1>5

LEMMA RegistryCopyType ==
    ASSUME world \in World, NEW v \in Version
    PROVE  RegistryCopy(v) = None \/ RegistryCopy(v) \in Tree
<1> DEFINE rest == Registry \ {r \in Registry : world.holds[r][v] # "package" /\ 1 \in Having(r, v)}
<1>1. rest # {} => Min(rest) \in Registry
  <2>1. rest \in SUBSET Nat /\ rest \subseteq Registry
    BY Facts
  <2> HIDE DEF rest
  <2> QED BY <2>1, MinIn
<1>2. RegistryCopy(v) = IF rest = {} \/ Having(Min(rest), v) = {} \/ world.holds[Min(rest)][v] # "package"
                              THEN None ELSE TreeAt(Min(rest), v)
  BY DEF RegistryCopy
<1> HIDE DEF rest
<1> QED BY <1>1, <1>2, TreeTypes

LEMMA ReadOK == ASSUME Inv, Read PROVE Inv'
<1> DEFINE copy == IF job.found.via = "override" THEN RegistryCopy(job.version)
                   ELSE IF Obtainable(job.found) THEN job.found ELSE None
           j == InstallJob(job, copy)
<1>1. /\ pc = "read" /\ Shape(pc, job) /\ Passing(pc, job) /\ Typed(job) /\ world \in World
      /\ job.phase \in {"manifest", "again"} /\ (job.quiet => OnTheWay(pc, job))
      /\ job.version \in Version /\ job.found \in Tree
  BY UnderWay DEF Read, Shape
<1>2. CASE copy = None
  <2>1. Fail /\ Here
    BY <1>2 DEF Read
  <2> QED BY <1>1, <2>1, FailOK
<1>3. CASE copy # None
  <2>1. Ask("resolve", j) /\ Going
    BY <1>3 DEF Read, InstallJob
  <2>2. copy \in Tree
    BY <1>1, <1>3, RegistryCopyType
  <2>3. job.found.via # "override" => copy = job.found /\ Obtainable(job.found)
    BY <1>3
  <2> HIDE DEF copy
  <2>4. /\ Typed(j) /\ j.phase = "install" /\ j.version = job.version /\ j.want = {job.version}
        /\ j.read = copy /\ j.at = 1 /\ j.standing = job.standing /\ j.quiet = job.quiet
    BY <1>1, <2>2, InstallJobType
  <2> HIDE DEF j
  <2>5. Shape("resolve", j)
    BY <1>1, <2>4 DEF Shape
  <2>6. Passing("resolve", j)
    BY <1>1, <2>4 DEF Passing, Asking
  <2>7. ASSUME j.quiet PROVE Installable(j)
    <3>1. OnTheWay(pc, job) /\ Comes(job.want, job.found)
      BY <1>1, <2>4, <2>7 DEF OnTheWay
    <3>2. CASE world.declared # {}
      <4>1. Answers(Surgical) /\ job.found = DeclaredTree(Surgical) /\ job.found.via = Surgical
        BY <3>1, <3>2 DEF Comes, DeclaredTree
      <4> QED BY <2>3, <2>4, <3>2, <4>1 DEF Installable
    <3>3. CASE world.declared = {}
      <4>1. ByRegistry(job.want, job.found)
        BY <3>1, <3>3 DEF Comes
      <4>2. job.found.via = "registry"
        BY <4>1 DEF ByRegistry, TreeAt, Redirected
      <4>3. copy = job.found /\ Obtainable(copy)
        BY <2>3, <4>2
      <4>4. CASE job.phase = "manifest"
        <5>1. job.want = {job.version}
          BY <1>1, <4>4 DEF Shape
        <5> QED BY <2>4, <3>1, <3>3, <4>3, <5>1 DEF Installable
      <4>5. CASE job.phase = "again"
        <5>1. /\ ComesToNothing({job.version}) /\ job.found.version = job.version
              /\ job.want = Version
          BY <1>1, <3>1, <4>5 DEF OnTheWay, Shape
        <5>2. job.found.holds \in Elsewhere
          BY <1>1, <3>1, <5>1, OnlyPinned
        <5> QED BY <2>4, <3>3, <4>3, <5>1, <5>2 DEF Installable
      <4> QED BY <1>1, <4>4, <4>5
    <3> QED BY <3>2, <3>3
  <2>8. j.quiet => OnTheWay("resolve", j)
    BY <2>4, <2>7 DEF OnTheWay, Asking
  <2> QED BY <2>1, <2>5, <2>6, <2>8, AskOK DEF Fits
<1> QED BY <1>2, <1>3

LEMMA FetchOK == ASSUME Inv, Fetch PROVE Inv'
<1>1. /\ pc = "fetch" /\ Passing(pc, job) /\ job.phase = "install" /\ world \in World
      /\ (job.quiet => OnTheWay(pc, job)) /\ Here
  BY UnderWay DEF Fetch, Shape
<1>2. ASSUME job.quiet
      PROVE  /\ job.found.via # "override" => job.found = job.read
             /\ Obtainable(job.found)
  <2>1. Comes(job.want, job.found) /\ Installable(job)
    BY <1>1, <1>2 DEF OnTheWay
  <2>2. CASE world.declared # {}
    <3>1. Answers(Surgical) /\ job.found = DeclaredTree(Surgical)
      BY <2>1, <2>2 DEF Comes
    <3>2. job.found.via = Surgical /\ Surgical # "registry"
      BY <3>1, SurgicalType DEF DeclaredTree, Declaration
    <3>3. Obtainable(job.found)
      BY <3>1, <3>2 DEF Obtainable
    <3> QED BY <2>1, <2>2, <3>1, <3>2, <3>3 DEF Installable
  <2>3. CASE world.declared = {}
    <3>1. Comes(job.want, job.read) /\ Obtainable(job.read)
      BY <2>1, <2>3, NotNothing DEF Installable
    <3>2. job.found = job.read
      BY <2>1, <3>1, OnePlace
    <3> QED BY <3>1, <3>2
  <2> QED BY <2>2, <2>3
<1>3. CASE Obtainable(job.found)
  <2>1. /\ pc' = "idle" /\ world' = world
        /\ result'.end = "ok" /\ result'.job = job /\ result'.tree = job.found
    BY <1>1, <1>3 DEF Fetch, End, Here
  <2>2. NeverPassedOver'
    BY <1>1, <2>1 DEF NeverPassedOver, Passing
  <2>3. ReadIsInstalled'
    BY <1>2, <2>1 DEF ReadIsInstalled
  <2>4. SolvedIsFetchable'
    BY <2>1 DEF SolvedIsFetchable
  <2> QED BY <1>1, <2>1, <2>2, <2>3, <2>4 DEF Inv
<1>4. CASE ~Obtainable(job.found)
  <2>1. Fail /\ Here
    BY <1>1, <1>4 DEF Fetch
  <2> QED BY <1>2, <1>4, <2>1, FailOK
<1> QED BY <1>3, <1>4

------------------------------------------------------------------------------
\* The registries change

LEMMA ChangedWorld ==
    ASSUME world \in World, NEW r \in Registry, Turn(r) \/ Push(r) \/ Catch(r)
    PROVE  world' \in World /\ world'.auth = world.auth /\ world'.strict = world.strict
<1>1. /\ world.status \in [Registry -> [Source -> Status]]
      /\ world.tags \in [Registry -> [Source -> SUBSET Version]]
      /\ world.index \in [Registry -> (SUBSET Version) \cup {None}] /\ 1 \in Source
  BY Facts DEF World
<1>2. CASE Turn(r)
  <2>1. PICK s \in Source, now \in Status : world' = [world EXCEPT !.status[r][s] = now]
    BY <1>2 DEF Turn
  <2> DEFINE new == [world.status EXCEPT ![r][s] = now]
  <2>2. new \in [Registry -> [Source -> Status]]
    BY <1>1
  <2>3. world' = [world EXCEPT !.status = new]
    BY <1>1, <2>1 DEF World
  <2> HIDE DEF new
  <2> QED BY <2>2, <2>3 DEF World
<1>3. CASE Push(r)
  <2>1. PICK s \in Source, v \in Version : world' = [world EXCEPT !.tags[r][s] = @ \cup {v}]
    BY <1>3 DEF Push
  <2> DEFINE new == [world.tags EXCEPT ![r][s] = @ \cup {v}]
  <2>2. new \in [Registry -> [Source -> SUBSET Version]]
    BY <1>1
  <2>3. world' = [world EXCEPT !.tags = new]
    BY <1>1, <2>1 DEF World
  <2> HIDE DEF new
  <2> QED BY <2>2, <2>3 DEF World
<1>4. CASE Catch(r)
  <2> DEFINE new == [world.index EXCEPT ![r] = world.tags[r][1]]
  <2>1. new \in [Registry -> (SUBSET Version) \cup {None}]
    BY <1>1
  <2>2. world' = [world EXCEPT !.index = new]
    BY <1>1, <1>4 DEF Catch, World
  <2> HIDE DEF new
  <2> QED BY <2>1, <2>2 DEF World
<1> QED BY <1>2, <1>3, <1>4

LEMMA ChangeOK == ASSUME Inv, Change PROVE Inv'
<1>1. Shape(pc, job) /\ Passing(pc, job) /\ Typed(job) /\ world \in World
  BY UnderWay DEF Change
<1>2. PICK r \in Registry : Turn(r) \/ Push(r) \/ Catch(r)
  BY DEF Change
<1>3. world' \in World /\ world'.auth = world.auth /\ world'.strict = world.strict
  BY <1>1, <1>2, ChangedWorld
<1> DEFINE S == job.standing \cap Standing(world'.status)
           j == ChangedJob(job, S)
<1>4. S \subseteq Registry /\ S \subseteq job.standing
  BY <1>1 DEF Typed, Job
<1>5. Standing(world.status)' = Standing(world'.status)
  BY <1>3 DEF Standing
<1>6. S \subseteq Standing(world.status)'
  BY <1>5
<1>7. pc' = pc /\ job' = j /\ result' = result
  BY DEF Change, ChangedJob
<1> HIDE DEF S
<1>8. /\ Typed(j) /\ j.phase = job.phase /\ j.version = job.version /\ j.want = job.want
      /\ j.read = job.read /\ j.at = job.at /\ j.standing = S /\ ~j.quiet /\ j.found = job.found
  BY <1>1, <1>4, ChangedJobType
<1> HIDE DEF j
<1>9. Shape(pc, job)'
  BY <1>1, <1>7, <1>8 DEF Shape, Typed
<1>10. Passing(pc, job)'
  BY <1>1, <1>4, <1>6, <1>7, <1>8 DEF Passing
<1>11. Fits(pc, job)'
  BY <1>7, <1>8, <1>9, <1>10 DEF Fits
<1> QED BY <1>3, <1>7, <1>11 DEF Inv, NeverPassedOver, ReadIsInstalled, SolvedIsFetchable

------------------------------------------------------------------------------

LEMMA InitOK == Init => Inv
BY Facts DEF Init, Inv, NoResult, NeverPassedOver, ReadIsInstalled, SolvedIsFetchable

LEMMA StepOK == Inv /\ [Next]_vars => Inv'
<1> SUFFICES ASSUME Inv, [Next]_vars PROVE Inv'
  OBVIOUS
<1>1. CASE Install
  BY <1>1, BeginOK, ResolveOK, ListOK, ConsultOK, ProbeOK, TargetOK, ReadOK, FetchOK DEF Install
<1>2. CASE Change
  BY <1>2, ChangeOK
<1>3. CASE UNCHANGED vars
  <2>1. Here /\ pc' = pc /\ job' = job /\ result' = result
    BY <1>3 DEF vars, Here
  <2>2. pc = "idle" \/ Fits(pc, job)'
    <3>1. SUFFICES ASSUME Fits(pc, job) PROVE Fits(pc, job)'
      BY DEF Inv
    <3>2. ASSUME NEW q, NEW j, q = pc, j = job PROVE Fits(q, j)'
      BY <2>1, <3>1, <3>2, StillFits
    <3> QED BY <2>1, <3>2
  <2> QED BY <2>1, <2>2 DEF Inv, Here, NeverPassedOver, ReadIsInstalled, SolvedIsFetchable
<1> QED BY <1>1, <1>2, <1>3 DEF Next

LEMMA Invariance == Spec => []Inv
BY InitOK, StepOK, PTL DEF Spec

\* The tree that is installed is never that of a registry behind one that had the
\* package, or did not tell, from the beginning of the install to its end: whatever
\* is down, denied, mirrored, indexed or redirected, and whenever that changes.
THEOREM RegistriesAreNotPassedOver == Spec => []NeverPassedOver
BY Invariance, PTL DEF Inv

\* While the registries hold still, the walk for the tree comes to the tree whose
\* manifest was solved, though it is a walk of its own.
THEOREM TheTreeReadIsInstalled == Spec => []ReadIsInstalled
BY Invariance, PTL DEF Inv

\* While the registries hold still, an install whose manifest was solved fails only
\* for the target of a redirect that leads elsewhere.
THEOREM WhatIsSolvedInstalls == Spec => []SolvedIsFetchable
BY Invariance, PTL DEF Inv

===============================================================================
