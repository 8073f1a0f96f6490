------------------------------ MODULE IndexStore ------------------------------
(* The data directory of `vibe-index` (crates/vibe-index): one server keeps the  *)
(* index in memory and rewrites the files on every mutation; the commands add,   *)
(* remove and reindex rewrite the same files from processes of their own. A      *)
(* rewrite is several file operations, and a failure or a kill may fall between  *)
(* any two of them.                                                              *)
(*                                                                               *)
(* A package is known by (group, name); packages that share their bare name      *)
(* share one by-name file. by-name is what a restart reads back, primary.jsonl   *)
(* lists all entries, repomd.json is the manifest with a hash of every file: two *)
(* files have the same hash when they have the same content.                     *)
EXTENDS Naturals, FiniteSets

CONSTANTS
    Server,      \* processes that run `vibe-index serve`
    Cli,         \* processes that run add, remove or reindex
    CliCommand,  \* the commands they run: a subset of {"add", "remove", "reindex"}
    Package,     \* (group, name) identities
    Version,
    Name,        \* bare names
    NameOf,      \* the bare name of each package
    Failing,     \* whether a file operation may fail
    Killing,     \* whether a process may be killed (SIGTERM by `vibe-index stop`)
    None

ASSUME IndexAssumption ==
    /\ Server \cap Cli = {}
    /\ CliCommand \subseteq {"add", "remove", "reindex"}
    /\ NameOf \in [Package -> Name] /\ IsFiniteSet(Name)
    /\ {Failing, Killing} \subseteq BOOLEAN
    /\ None \notin Server \cup Cli \cup {"empty"}
    /\ None \notin [rows : SUBSET Package, entries : SUBSET (Package \X Version)]

Process == Server \cup Cli
Entry == Package \X Version

\* An index has a row per package, with or without versions, and the entries of
\* the versions. A by-name file is the part of an index with that bare name.
Index == {x \in [rows : SUBSET Package, entries : SUBSET Entry] :
            \A e \in x.entries : e[1] \in x.rows}
EmptyIndex == [rows |-> {}, entries |-> {}]

Mutation == [do : {"upsert", "deleteVersion", "deletePackage"}, pkg : Package, ver : Version]

Writing == {"clear", "primary", "names", "manifest"}
Phase == {"down", "checked", "loaded", "locked", "ready"} \cup Writing

VARIABLES
    byName,    \* by-name/<name>.json, None where there is no file
    primary,   \* primary.jsonl
    repomd,    \* repomd.json: the hashes of the files, and how many by-name files
    lockFile,  \* state/server.lock: None, "empty" before the pid is in, or a server
    pc,
    ram,       \* the index each process holds in memory
    touched,   \* the entries that the rewrite under way is about
    left,      \* the by-name files it has still to write
    count,     \* the number of by-name files it has counted
    draining,  \* servers that have stopped serving and still finish a rewrite
    acked,     \* history: the entries as of the mutations answered with success
    unsure     \* history: the entries whose last mutation failed or was cut short

disk == <<byName, primary, repomd>>
work == <<touched, left, count>>
vars == <<disk, lockFile, pc, ram, work, draining, acked, unsure>>

----------------------------------------------------------------------------
\* The index in memory

\* Bug: the row goes and its entries stay.
AppliedRowOnly(x, m) ==
    CASE m.do = "upsert"        -> [rows |-> x.rows \cup {m.pkg},
                                    entries |-> x.entries \cup {<<m.pkg, m.ver>>}]
      [] m.do = "deleteVersion" -> [x EXCEPT !.entries = @ \ {<<m.pkg, m.ver>>}]
      [] m.do = "deletePackage" -> [x EXCEPT !.rows = @ \ {m.pkg}]

\* upsert creates the row when needed; remove_version leaves it; remove_package
\* drops it with its entries.
Applied(x, m) ==
    CASE m.do = "upsert"        -> [rows |-> x.rows \cup {m.pkg},
                                    entries |-> x.entries \cup {<<m.pkg, m.ver>>}]
      [] m.do = "deleteVersion" -> [x EXCEPT !.entries = @ \ {<<m.pkg, m.ver>>}]
      [] m.do = "deletePackage" -> [rows |-> x.rows \ {m.pkg},
                                    entries |-> {e \in x.entries : e[1] # m.pkg}]

\* What remove_version and remove_package return; an upsert always counts.
Changes(x, m) ==
    CASE m.do = "upsert"        -> TRUE
      [] m.do = "deleteVersion" -> <<m.pkg, m.ver>> \in x.entries
      [] m.do = "deletePackage" -> m.pkg \in x.rows

Touched(m) == IF m.do = "deletePackage" THEN {m.pkg} \X Version ELSE {<<m.pkg, m.ver>>}

\* Bug: packages of one bare name overwrite each other's file.
PartLastOnly(x, n) ==
    LET rows == {p \in x.rows : NameOf[p] = n}
    IN IF rows = {} THEN None
       ELSE LET p == CHOOSE q \in rows : TRUE
            IN [rows |-> {p}, entries |-> {e \in x.entries : e[1] = p}]

\* The candidate set that goes into by-name/<n>.json.
Part(x, n) ==
    LET rows == {p \in x.rows : NameOf[p] = n}
    IN IF rows = {} THEN None
       ELSE [rows |-> rows, entries |-> {e \in x.entries : NameOf[e[1]] = n}]

Files == {n \in Name : byName[n] # None}

\* load_from: every by-name file that is there, whatever the manifest says.
Loaded == [rows |-> UNION {byName[n].rows : n \in Files},
           entries |-> UNION {byName[n].entries : n \in Files}]

Manifest(x, n) == [names |-> [k \in Name |-> Part(x, k)], entries |-> x.entries, count |-> n]

\* vibe-index init has written an empty index.
Init ==
    /\ byName = [n \in Name |-> None] /\ primary = {} /\ repomd = Manifest(EmptyIndex, 0)
    /\ lockFile = None
    /\ pc = [w \in Process |-> "down"]
    /\ ram = [w \in Process |-> EmptyIndex]
    /\ touched = [w \in Process |-> {}]
    /\ left = [w \in Process |-> {}]
    /\ count = [w \in Process |-> 0]
    /\ draining = {} /\ acked = {} /\ unsure = {}

Goto(w, phase) == pc' = [pc EXCEPT ![w] = phase]

----------------------------------------------------------------------------
\* write_to, by a handler under the write lock of its server or by a command

\* A process begins to rewrite the files from x.
Begin(w, x, entries) ==
    /\ ram' = [ram EXCEPT ![w] = x]
    /\ touched' = [touched EXCEPT ![w] = entries]
    /\ left' = [left EXCEPT ![w] = {NameOf[p] : p \in x.rows}]
    /\ count' = [count EXCEPT ![w] = 0]
    /\ Goto(w, "clear")

\* Bug: stale by-name files are not removed.
ClearNothing(w) ==
    /\ pc[w] = "clear"
    /\ Goto(w, "primary")
    /\ UNCHANGED <<disk, lockFile, ram, work, draining, acked, unsure>>

\* clear_by_name removes the files one after the other.
Clear(w) ==
    /\ pc[w] = "clear"
    /\ \/ \E n \in Files : byName' = [byName EXCEPT ![n] = None] /\ UNCHANGED pc
       \/ Files = {} /\ Goto(w, "primary") /\ UNCHANGED byName
    /\ UNCHANGED <<primary, repomd, lockFile, ram, work, draining, acked, unsure>>

\* Bug: the manifest is stamped before the by-name files are there.
WritePrimaryAndStamp(w) ==
    /\ pc[w] = "primary"
    /\ primary' = ram[w].entries
    /\ repomd' = Manifest(ram[w], 0)
    /\ Goto(w, "names")
    /\ UNCHANGED <<byName, lockFile, ram, work, draining, acked, unsure>>

WritePrimary(w) ==
    /\ pc[w] = "primary"
    /\ primary' = ram[w].entries
    /\ Goto(w, "names")
    /\ UNCHANGED <<byName, repomd, lockFile, ram, work, draining, acked, unsure>>

\* Bug: the loop over the names does not advance.
WriteSameName(w) ==
    /\ pc[w] = "names"
    /\ \/ \E n \in left[w] : byName' = [byName EXCEPT ![n] = Part(ram[w], n)] /\ UNCHANGED <<pc, count>>
       \/ left[w] = {} /\ Goto(w, "manifest") /\ UNCHANGED <<byName, count>>
    /\ UNCHANGED <<primary, repomd, lockFile, ram, touched, left, draining, acked, unsure>>

\* One by-name file at a time, each renamed into place; after the last one the
\* files of the directory are counted for the manifest.
WriteNames(w) ==
    /\ pc[w] = "names"
    /\ \/ \E n \in left[w] :
            /\ byName' = [byName EXCEPT ![n] = Part(ram[w], n)]
            /\ left' = [left EXCEPT ![w] = @ \ {n}]
            /\ UNCHANGED <<pc, count>>
       \/ /\ left[w] = {}
          /\ count' = [count EXCEPT ![w] = Cardinality(Files)]
          /\ Goto(w, "manifest")
          /\ UNCHANGED <<byName, left>>
    /\ UNCHANGED <<primary, repomd, lockFile, ram, touched, draining, acked, unsure>>

\* A rewrite is over: a handler of a serving server answers and the server is
\* ready again; a command, and a server that was told to stop, exit.
Return(w) ==
    LET exits == w \in Cli \cup draining
    IN /\ Goto(w, IF exits THEN "down" ELSE "ready")
       /\ ram' = IF exits THEN [ram EXCEPT ![w] = EmptyIndex] ELSE ram
       /\ draining' = draining \ {w}
       /\ touched' = [touched EXCEPT ![w] = {}]
       /\ left' = [left EXCEPT ![w] = {}]
       /\ count' = [count EXCEPT ![w] = 0]
       /\ UNCHANGED lockFile

\* repomd.json last; the mutation is then answered with success. A server that
\* was told to stop may not get the answer out.
WriteManifest(w) ==
    /\ pc[w] = "manifest"
    /\ repomd' = Manifest(ram[w], count[w])
    /\ IF w \in draining
       THEN UNCHANGED <<acked, unsure>>
       ELSE /\ acked' = (acked \ touched[w]) \cup (ram[w].entries \cap touched[w])
            /\ unsure' = unsure \ touched[w]
    /\ Return(w)
    /\ UNCHANGED <<byName, primary>>

\* Any file operation of write_to fails: the error goes to the client (500) or
\* to the user. A server keeps the mutation in memory.
Fail(w) ==
    /\ Failing /\ pc[w] \in Writing
    /\ unsure' = unsure \cup touched[w]
    /\ Return(w)
    /\ UNCHANGED <<disk, acked>>

Write(w) == Clear(w) \/ WritePrimary(w) \/ WriteNames(w) \/ WriteManifest(w)

----------------------------------------------------------------------------
\* vibe-index serve

\* The index is loaded before the lock is taken.
ServeLoad(s) ==
    /\ pc[s] = "down"
    /\ ram' = [ram EXCEPT ![s] = Loaded]
    /\ Goto(s, "loaded")
    /\ UNCHANGED <<disk, lockFile, work, draining, acked, unsure>>

\* Bug: an existing lock file is opened.
ServeLockAnyway(s) ==
    /\ pc[s] = "loaded"
    /\ Goto(s, "locked") /\ lockFile' = "empty" /\ UNCHANGED ram
    /\ UNCHANGED <<disk, work, draining, acked, unsure>>

\* The lock file is created exclusively; with one in place serve gives up.
ServeLock(s) ==
    /\ pc[s] = "loaded"
    /\ IF lockFile = None
       THEN Goto(s, "locked") /\ lockFile' = "empty" /\ UNCHANGED ram
       ELSE Goto(s, "down") /\ ram' = [ram EXCEPT ![s] = EmptyIndex] /\ UNCHANGED lockFile
    /\ UNCHANGED <<disk, work, draining, acked, unsure>>

ServePid(s) ==
    /\ pc[s] = "locked"
    /\ lockFile' = s
    /\ Goto(s, "ready")
    /\ UNCHANGED <<disk, ram, work, draining, acked, unsure>>

\* Bug: an upsert of a version of a known package is not persisted.
HandleUnpersisted(s) ==
    \E m \in Mutation :
        /\ pc[s] = "ready"
        /\ IF Changes(ram[s], m) /\ ~(m.do = "upsert" /\ m.pkg \in ram[s].rows)
           THEN Begin(s, Applied(ram[s], m), Touched(m)) /\ UNCHANGED <<acked, unsure>>
           ELSE /\ ram' = [ram EXCEPT ![s] = Applied(@, m)]
                /\ acked' = (acked \ Touched(m)) \cup (Applied(ram[s], m).entries \cap Touched(m))
                /\ unsure' = unsure \ Touched(m)
                /\ UNCHANGED <<pc, work>>
        /\ UNCHANGED <<disk, lockFile, draining>>

\* A POST or DELETE that passed the checks has the write lock: the mutation is
\* applied in memory, then persisted under the same lock. A DELETE of what is
\* not in memory is answered at once, with nothing written.
Handle(s) ==
    \E m \in Mutation :
        /\ pc[s] = "ready"
        /\ IF Changes(ram[s], m)
           THEN Begin(s, Applied(ram[s], m), Touched(m)) /\ UNCHANGED <<acked, unsure>>
           ELSE /\ acked' = acked \ Touched(m)
                /\ unsure' = unsure \ Touched(m)
                /\ UNCHANGED <<pc, ram, work>>
        /\ UNCHANGED <<disk, lockFile, draining>>

\* Ctrl-C: the lock file goes at once, while a handler that is in write_to runs
\* on to its end before the process exits.
Stop(s) ==
    /\ pc[s] \in {"ready"} \cup Writing /\ s \notin draining
    /\ lockFile' = None
    /\ IF pc[s] = "ready"
       THEN Goto(s, "down") /\ ram' = [ram EXCEPT ![s] = EmptyIndex] /\ UNCHANGED draining
       ELSE draining' = draining \cup {s} /\ UNCHANGED <<pc, ram>>
    /\ unsure' = unsure \cup touched[s]
    /\ UNCHANGED <<disk, work, acked>>

Serve(s) == ServeLoad(s) \/ ServeLock(s) \/ ServePid(s) \/ Handle(s) \/ Stop(s)

----------------------------------------------------------------------------
\* vibe-index add, remove and reindex

\* add and remove look once for the pid of a server; a lock file without its pid
\* counts as none.
CliCheck(c) ==
    /\ pc[c] = "down" /\ CliCommand \cap {"add", "remove"} # {}
    /\ lockFile \in {None, "empty"}
    /\ Goto(c, "checked")
    /\ UNCHANGED <<disk, lockFile, ram, work, draining, acked, unsure>>

\* The index is loaded, the entry put in, and the rewrite begins.
CliAdd(c) ==
    /\ pc[c] = "checked" /\ "add" \in CliCommand
    /\ \E m \in Mutation :
        m.do = "upsert" /\ Begin(c, Applied(Loaded, m), Touched(m))
    /\ UNCHANGED <<disk, lockFile, draining, acked, unsure>>

\* A remove of what is not there is an error.
CliRemove(c) ==
    /\ pc[c] = "checked" /\ "remove" \in CliCommand
    /\ \E m \in Mutation :
        /\ m.do # "upsert"
        /\ IF Changes(Loaded, m) THEN Begin(c, Applied(Loaded, m), Touched(m))
           ELSE Goto(c, "down") /\ UNCHANGED <<ram, work>>
    /\ UNCHANGED <<disk, lockFile, draining, acked, unsure>>

\* reindex looks for no server. It replaces the whole index by what its scan of
\* the organisation finds (and, incrementally, keeps).
Reindex(c) ==
    /\ pc[c] = "down" /\ "reindex" \in CliCommand
    /\ \E found \in SUBSET Entry :
        Begin(c, [rows |-> {e[1] : e \in found}, entries |-> found], Entry)
    /\ UNCHANGED <<disk, lockFile, draining, acked, unsure>>

Command(c) == CliCheck(c) \/ CliAdd(c) \/ CliRemove(c) \/ Reindex(c)

----------------------------------------------------------------------------
\* SIGTERM, which is all that `vibe-index stop` sends, ends the process where it
\* is: no handler catches it, and the lock file stays.
Kill(w) ==
    /\ Killing /\ pc[w] # "down"
    /\ unsure' = unsure \cup touched[w]
    /\ ram' = [ram EXCEPT ![w] = EmptyIndex]
    /\ touched' = [touched EXCEPT ![w] = {}]
    /\ left' = [left EXCEPT ![w] = {}]
    /\ count' = [count EXCEPT ![w] = 0]
    /\ draining' = draining \ {w}
    /\ Goto(w, "down")
    /\ UNCHANGED <<disk, lockFile, acked>>

\* The operator removes a lock file that no live server owns.
RemoveStaleLock ==
    /\ lockFile # None /\ \A s \in Server : pc[s] \in {"down", "loaded"}
    /\ lockFile' = None
    /\ UNCHANGED <<disk, pc, ram, work, draining, acked, unsure>>

Next ==
    \/ \E w \in Process : Write(w) \/ Fail(w) \/ Kill(w)
    \/ \E s \in Server : Serve(s)
    \/ \E c \in Cli : Command(c)
    \/ RemoveStaleLock

Spec == Init /\ [][Next]_vars

\* A handler or command in write_to runs on: there is no await in it. No file
\* operation has to fail.
FairSpec == Spec /\ \A w \in Process : WF_vars(Write(w))

----------------------------------------------------------------------------
\* Properties

Quiet == \A w \in Process : pc[w] \notin Writing

\* `vibe-index verify`: every file the manifest names is there with its hash, and
\* the number of by-name files is the counted one.
Verified ==
    /\ primary = repomd.entries
    /\ \A n \in Name : repomd.names[n] # None => byName[n] = repomd.names[n]
    /\ Cardinality(Files) = repomd.count

\* The shape of the files and of every process's memory; an index never holds an
\* entry without its row, in memory or in a file.
TypeOK ==
    /\ byName \in [Name -> Index \cup {None}]
    /\ primary \subseteq Entry
    /\ repomd \in [names : [Name -> Index \cup {None}], entries : SUBSET Entry, count : Nat]
    /\ lockFile \in Server \cup {None, "empty"}
    /\ pc \in [Process -> Phase]
    /\ ram \in [Process -> Index]
    /\ touched \in [Process -> SUBSET Entry]
    /\ left \in [Process -> SUBSET Name]
    /\ count \in [Process -> Nat]
    /\ draining \subseteq Server
    /\ acked \subseteq Entry /\ unsure \subseteq Entry

\* packages.rs, serve.rs and memory.rs together: what a server answers is what the
\* mutations answered with success made of the index, across restarts, except for
\* entries whose last mutation failed.
AckedSurvives ==
    \A s \in Server : pc[s] = "ready" => ram[s].entries \ unsure = acked \ unsure

\* write_to: whenever no rewrite is under way, a restart would read back exactly
\* the acknowledged entries.
AckedOnDisk == Quiet => Loaded.entries \ unsure = acked \ unsure

\* write_to stamps the manifest last: at the step that replaces repomd.json every
\* file it describes is in place, through failures and kills of earlier rewrites.
ManifestSeals == [][repomd' # repomd => Verified']_vars

\* verify.rs: a directory that passes verification was not left half-written; its
\* by-name files and primary.jsonl hold the same entries.
VerifyCatchesTorn == Verified => Loaded.entries = primary

Serving(s) == pc[s] \in {"locked", "ready"} \cup Writing /\ s \notin draining

\* lock.rs: at most one server is past its lock, and the lock file is there as long
\* as it serves, whatever kills and stale locks came before.
ServersExclude ==
    /\ \A s \in Server : Serving(s) => lockFile # None
    /\ \A s, t \in Server : Serving(s) /\ Serving(t) => s = t

\* Only one process at a time rewrites the directory.
SingleWriter == \A v, w \in Process : pc[v] \in Writing /\ pc[w] \in Writing => v = w

\* A rewrite ends, so that the write lock is let go and queries are answered again.
WritesEnd == \A w \in Process : pc[w] \in Writing ~> pc[w] \notin Writing

===============================================================================
