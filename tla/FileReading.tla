---------------------------- MODULE FileReading ----------------------------
(***************************************************************************)
(* The first phase of the front end of circom: from the main file of a     *)
(* project to all the files it leads to (run_parser in parser/src/lib.rs,  *)
(* include_logic.rs).  FrontEnd goes on with what was read.                *)
(*                                                                         *)
(* A project has a directory and a name for every file; a file is          *)
(* [version, pragma, includes, definitions, main].                         *)
(***************************************************************************)
EXTENDS Integers, Sequences
LOCAL INSTANCE SequencesExt
LOCAL INSTANCE Functions

CONSTANTS
    Projects,       \* the projects to compile
    Libraries,      \* directories to look for includes in
    Compiler        \* the version of the compiler, a triple

IsList(s) == Len(s) \in Nat /\ DOMAIN s = 1 .. Len(s)

ASSUME FilesAssumption ==
    /\ IsList(Libraries)
    /\ \A p \in Projects : \A at \in DOMAIN p.files : IsList(p.files[at].includes)

VARIABLES
    project,    \* the files, [main: a path, files: a function from paths]
    stack,      \* FileStack.stack: where to read next
    seen,       \* FileStack.black_paths
    read,       \* the files read, in order
    edges,      \* IncludesGraph.adjacency: an included path, who includes it
    phase
files == <<project, stack, seen, read, edges>>

---------------------------------------------------------------------------
(* Files.  The path of the main file is the one that was given, the others *)
(* are canonical.                                                          *)

Canonical(at) == [at |-> at, given |-> FALSE]
Given(at)     == [at |-> at, given |-> TRUE]
File(path)    == project.files[path.at]

\* add_include: the directory of the including file, then the libraries.
Directory(dir, i) == IF i = 0 THEN dir ELSE Libraries[i]

Places(dir, name) == {i \in 0 .. Len(Libraries) : <<Directory(dir, i), name>> \in DOMAIN project.files}

Included(dir, name) ==
    <<Directory(dir, CHOOSE i \in Places(dir, name) : \A j \in Places(dir, name) : i <= j), name>>

\* The paths to push: those that were not read.
NotIn(paths, known) ==
    LET kept[n \in Nat] == IF n = 0 THEN <<>>
                           ELSE IF paths[n] \in known THEN kept[n - 1]
                           ELSE Append(kept[n - 1], paths[n])
    IN  kept[Len(paths)]

\* take_next: files that were read are dropped.
Unread == {i \in 1 .. Len(stack) : stack[i] \notin seen}

AtMost(v, w) ==
    \/ v[1] < w[1]
    \/ v[1] = w[1] /\ v[2] < w[2]
    \/ v[1] = w[1] /\ v[2] = w[2] /\ v[3] <= w[3]

VersionAccepted(file) ==
    file.version # <<>> => file.version[1] = Compiler[1] /\ AtMost(file.version, Compiler)

\* Custom templates exist since 2.0.6.
CustomGatesAccepted(file) ==
    file.pragma => AtMost(<<2, 0, 6>>, IF file.version = <<>> THEN Compiler ELSE file.version)

UsesCustomGates(file) == \E i \in DOMAIN file.definitions : file.definitions[i].custom

\* The file can be found, parsed by this compiler, and so can its includes be found.
Readable(path) ==
    /\ path.at \in DOMAIN project.files
    /\ \A k \in DOMAIN File(path).includes : Places(path.at[1], File(path).includes[k]) # {}
    /\ VersionAccepted(File(path)) /\ CustomGatesAccepted(File(path))

IncludesOf(path) ==
    [k \in DOMAIN File(path).includes |-> Canonical(Included(path.at[1], File(path).includes[k]))]

Take(top, path) ==
    /\ seen' = seen \union {path}
    /\ read' = Append(read, path)
    /\ edges' = edges \union {<<IncludesOf(path)[k], Len(read) + 1>> : k \in DOMAIN IncludesOf(path)}
    /\ stack' = SubSeq(stack, 1, top - 1) \o NotIn(IncludesOf(path), seen')
    /\ UNCHANGED <<project, phase>>

ReadFile ==
    /\ phase = "reading"
    /\ \E top \in Unread :
        /\ \A i \in Unread : i <= top
        /\ IF Readable(stack[top]) THEN Take(top, stack[top])
           ELSE phase' = "rejected" /\ UNCHANGED files

---------------------------------------------------------------------------
(* What the files must be together *)

Definitions == FlattenSeq([i \in DOMAIN read |-> File(read[i]).definitions])
Mains       == FlattenSeq([i \in DOMAIN read |-> File(read[i]).main])
NameOf(ds)  == [i \in DOMAIN ds |-> ds[i].name]

\* traverse: everybody who includes a file with custom templates, directly
\* or not, must have the pragma.
IncludersIn(nodes) ==
    \A e \in edges : \A i \in nodes : e[1] = read[i] => e[2] \in nodes

\* Wrong: only those that include it directly.
includersOnly(nodes) ==
    nodes \union {e[2] : e \in {f \in edges : \E i \in nodes : f[1] = read[i]}}

Traversed(nodes) ==
    {n \in DOMAIN read : \A S \in SUBSET DOMAIN read : nodes \subseteq S /\ IncludersIn(S) => n \in S}

CustomGatesNodes == {i \in DOMAIN read : UsesCustomGates(File(read[i]))}

PragmaMissing == \E i \in Traversed(CustomGatesNodes) : ~File(read[i]).pragma

FilesAccepted == Len(Mains) = 1 /\ ~PragmaMissing /\ IsInjective(NameOf(Definitions))

EndReading ==
    /\ phase = "reading" /\ Unread = {}
    /\ phase' = IF FilesAccepted THEN "desugaring" ELSE "rejected"
    /\ UNCHANGED files

\* The later phases work on the definitions, and leave the files alone.
LaterPhase ==
    /\ phase \notin {"reading", "rejected"}
    /\ phase' # "reading"
    /\ UNCHANGED files

ReadingInit ==
    /\ project \in Projects
    /\ stack = <<Given(project.main)>>
    /\ seen = {} /\ read = <<>> /\ edges = {}
    /\ phase = "reading"

ReadingSpec == ReadingInit /\ [][ReadFile \/ EndReading \/ LaterPhase]_<<files, phase>>

---------------------------------------------------------------------------
(* Properties *)

\* Where an include leads to: beside the file, or in the first library.
LeadsTo(at, name) ==
    LET beside == <<at[1], name>>
        isFile(l) == <<Libraries[l], name>> \in DOMAIN project.files
    IN IF beside \in DOMAIN project.files THEN {beside}
       ELSE {<<Libraries[l], name>> :
                l \in {k \in 1 .. Len(Libraries) : isFile(k) /\ \A j \in 1 .. k - 1 : ~isFile(j)}}

Targets(at) ==
    UNION {LeadsTo(at, project.files[at].includes[k]) : k \in DOMAIN project.files[at].includes}

Closed(ats) == \A at \in ats : Targets(at) \subseteq ats

IncludedBy(ats) ==
    {at \in DOMAIN project.files :
        \A S \in SUBSET DOMAIN project.files : ats \subseteq S /\ Closed(S) => at \in S}

\* IncludesClosed: once the files are merged, the ones read are those the main
\* file leads to, each read once (the main file, whose path is not canonical,
\* again when it is included), and whoever uses custom templates through any
\* chain of includes has the pragma.
IncludesClosed ==
    phase \notin {"reading", "rejected"} =>
        LET ats == {read[i].at : i \in DOMAIN read}
        IN /\ ats = IncludedBy({project.main})
           /\ \A i, j \in DOMAIN read : read[i].at = read[j].at /\ i # j => read[i].at = project.main
           /\ \A at, user \in ats :
                 user \in IncludedBy({at}) /\ UsesCustomGates(project.files[user])
                    => project.files[at].pragma

---------------------------------------------------------------------------
(* The inductive invariant *)

\* A file is read once by each of its paths, and exists.
ReadOnce ==
    /\ seen = {read[i] : i \in DOMAIN read}
    /\ \A i, j \in DOMAIN read : read[i] = read[j] => i = j
    /\ \A i \in DOMAIN read : read[i].at \in DOMAIN project.files

\* Every path that is known comes from the main file.
Waiting == {stack[i] : i \in 1 .. Len(stack)}

FromMain ==
    \A path \in Waiting \union seen :
        \/ path = Given(project.main)
        \/ \E at \in IncludedBy({project.main}) : path = Canonical(at)

\* What a file that was read leads to was read, or waits for it.
NothingLost ==
    /\ Given(project.main) \in Waiting \union seen
    /\ \A i \in DOMAIN read : \A at \in Targets(read[i].at) : Canonical(at) \in Waiting \union seen

\* The edges are the includes of the files that were read.
EdgesRight ==
    edges = UNION {{<<Canonical(at), i>> : at \in Targets(read[i].at)} : i \in DOMAIN read}

Paths == {Given(project.main)} \union {Canonical(at) : at \in DOMAIN project.files}

ReadingTypeOK ==
    /\ project \in Projects
    /\ stack \in Seq(Paths) /\ read \in Seq(Paths)

Merging == phase \notin {"reading", "rejected"} => Unread = {} /\ ~PragmaMissing

ReadingInv ==
    /\ ReadingTypeOK /\ ReadOnce /\ FromMain /\ NothingLost /\ EdgesRight /\ Merging
=============================================================================
