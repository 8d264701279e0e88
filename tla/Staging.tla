------------------------------- MODULE Staging -------------------------------
(***************************************************************************)
(* The staging directory of one build: what comp.Fetch leaves there, the   *)
(* static files mergeDir copies on top, the metadata CreateSysext adds,    *)
(* and the squashfs workspace it is copied to.                             *)
(*                                                                         *)
(* A tree is a function from paths, sequences of names, to nodes.  Its     *)
(* symbolic links lead anywhere, and the operating system follows those    *)
(* that are in the way.                                                    *)
(***************************************************************************)
EXTENDS Naturals, Sequences, SequencesExt

CONSTANTS
    Word,        \* names, and what files hold
    FetchedTree, \* the trees comp.Fetch may leave
    StaticTree,  \* the trees of static files there may be
    Place        \* where the repository may hold them

VARIABLES
    stagingPc,
    fetched,    \* what comp.Fetch left
    static,     \* the component's static files
    place,      \* where they are
    todo,       \* paths mergeDir has not come to
    went,       \* history: where the files and links of static were written
    staging,    \* the tree
    meta,       \* history: the paths that writing extension-release changed
    reload,     \* EXTENSION_RELOAD_MANAGER=1 is in it
    image       \* what is packed

stagingVars ==
    << stagingPc, fetched, static, place, todo, went, staging, meta, reload, image >>

Kind(tree, p) == IF p \in DOMAIN tree THEN tree[p].kind ELSE "none"
IsDir(tree, p) == p = << >> \/ Kind(tree, p) = "dir"

Folder == [kind |-> "dir", data |-> << >>, mode |-> 0]
UnitDir == << "usr", "lib", "systemd", "system" >>
ReleaseDir == << "usr", "lib", "extension-release.d" >>
Release == ReleaseDir \o << "extension-release.name" >>

Name == Word \ {"..", "/"}
Path == Seq(Name) \ {<< >>}
Node == [kind : {"dir", "file", "link"}, data : Seq(Word), mode : Nat]

Parents(p) == { SubSeq(p, 1, k) : k \in 1 .. Len(p) - 1 }
Way(p) == Parents(p) \cup {p}

IsTree(tree) ==
    \A p \in DOMAIN tree : /\ p \in Path /\ tree[p] \in Node
                          /\ \A q \in Parents(p) : Kind(tree, q) = "dir"

ASSUME StagingAssumption ==
    /\ {"usr", "lib", "systemd", "system", "extension-release.d",
        "extension-release.name", "metadata"} \subseteq Word
    /\ \A tree \in FetchedTree \cup StaticTree : IsTree(tree)
    /\ Place \subseteq {"files/component", "component.sysext/files"}

-----------------------------------------------------------------------------
(* What a path leads to.  "/" begins the target of an absolute link, which  *)
(* is a path of the host that builds.                                       *)

Outside == << "/" >>
Nowhere == << "/", "/" >>

Plain(tree, p) == p \in Seq(Name) /\ \A q \in Way(p) : Kind(tree, q) # "link"

\* The first name that is "..", the root or a link is followed.
Follow(tree, p) ==
    LET i == CHOOSE i \in DOMAIN p : /\ ~ Plain(tree, SubSeq(p, 1, i))
                                     /\ Plain(tree, SubSeq(p, 1, i - 1))
        before == SubSeq(p, 1, i - 1)
        rest == SubSeq(p, i + 1, Len(p))
    IN  CASE p[i] = "/" -> Outside
          [] p[i] = ".." /\ before = << >> -> Outside
          [] p[i] = ".." /\ before # << >> ->
                 IF IsDir(tree, before) THEN Front(before) \o rest ELSE p
          [] OTHER -> before \o tree[SubSeq(p, 1, i)].data \o rest

\* Linux gives up after as many links.
MaxLinks == 40

Walked(tree, p) ==
    LET walk[n \in 0 .. MaxLinks] ==
            IF n = 0 THEN p
            ELSE LET q == walk[n - 1]
                 IN  IF Plain(tree, q) THEN q ELSE Follow(tree, q)
    IN  walk[MaxLinks]

WithoutFiles(tree) == [q \in { x \in DOMAIN tree : tree[x].kind # "file" } |-> tree[q]]

\* The path without links that p leads to, be there anything or not.
Real(tree, p) ==
    IF Plain(tree, p) THEN p
    ELSE LET q == Walked(WithoutFiles(tree), p)
         IN  IF Plain(tree, q) \/ q = Outside THEN q ELSE Nowhere

\* The entry that p names, a link if it is one.
EntryAt(tree, p) ==
    LET dir == Real(tree, Front(p))
    IN  IF dir \in {Outside, Nowhere} THEN dir ELSE dir \o << Last(p) >>

-----------------------------------------------------------------------------
(* runBuild *)

Given == UNCHANGED << fetched, static, place >>

StagingInit ==
    /\ stagingPc = "fetch"
    /\ fetched \in FetchedTree
    /\ static \in StaticTree
    /\ place \in Place
    /\ todo = {} /\ went = << >>
    /\ staging = << >> /\ meta = {} /\ reload = FALSE /\ image = << >>

\* The registry's StaticFilesDir.  A directory that is not there is passed over.
StaticFilesDir == "files/component"
Found == place = StaticFilesDir

Fetch ==
    /\ stagingPc = "fetch"
    /\ staging' = fetched
    /\ IF Found THEN stagingPc' = "merge" /\ todo' = DOMAIN static
       ELSE stagingPc' = "create" /\ UNCHANGED todo
    /\ UNCHANGED << went, meta, reload, image >> /\ Given

-----------------------------------------------------------------------------
(* mergeDir, copyFile *)

\* A tree, and another where the first has nothing.
Over(tree, below) ==
    [q \in DOMAIN tree \cup DOMAIN below |-> IF q \in DOMAIN tree THEN tree[q] ELSE below[q]]

Put(tree, p, node) == Over([q \in {p} |-> node], tree)

\* os.MkdirAll: the first k names of p lead to a directory, and the next is not
\* there, not even as a link.
Makes(tree, p, k) ==
    LET base == Real(tree, SubSeq(p, 1, k))
    IN  IsDir(tree, base) /\ (k < Len(p) => Kind(tree, base \o << p[k + 1] >>) = "none")

MadeAt(tree, p, k, j) == Real(tree, SubSeq(p, 1, k)) \o SubSeq(p, k + 1, j)

\* The first definition is a mutant, as in every pair of this kind.
MadeWithoutParents(tree, p, k) ==
    IF k = Len(p) THEN tree ELSE Put(tree, MadeAt(tree, p, k, Len(p)), Folder)

Made(tree, p, k) ==
    Over(tree, [q \in { MadeAt(tree, p, k, j) : j \in k + 1 .. Len(p) } |-> Folder])

\* copyFile creates with the mode, and keeps the mode of a file that is there.
CopiedIfAbsent(tree, q, node) == IF q \in DOMAIN tree THEN tree ELSE Put(tree, q, node)

CopiedToBase(tree, q, node) == Put(tree, << Last(q) >>, node)

Copied(tree, q, node) ==
    Put(tree, q, IF Kind(tree, q) = "file" THEN [node EXCEPT !.mode = tree[q].mode] ELSE node)

HasChildren(tree, p) == \E q \in DOMAIN tree : p \in Parents(q)

\* What p leads to is opened for writing, in a directory that is there.
Written(tree, p, node) ==
    LET q == Real(tree, p) IN
    /\ q \in Path /\ IsDir(tree, Front(q)) /\ Kind(tree, q) # "dir"
    /\ staging' = Copied(tree, q, node)

MergedDir(p) ==
    /\ \E k \in 0 .. Len(p) : Makes(staging, p, k) /\ staging' = Made(staging, p, k)
    /\ UNCHANGED went

\* os.Remove, which leaves a directory that is not empty, and os.Symlink.
MergedLink(p) ==
    LET q == EntryAt(staging, p) IN
    /\ q \in Path /\ IsDir(staging, Front(q)) /\ ~ HasChildren(staging, q)
    /\ staging' = Put(staging, q, static[p])
    /\ went' = Put(went, p, q)

MergedFile(p) ==
    \E k \in 0 .. Len(p) - 1 :
        LET tree == Made(staging, Front(p), k) IN
        /\ Makes(staging, Front(p), k)
        /\ Written(tree, p, static[p])
        /\ went' = Put(went, p, Real(tree, p))

\* A link of p leads out of the staging directory; what is there is not followed.
MergedOutside(p) ==
    /\ Outside = IF static[p].kind = "link" THEN EntryAt(staging, p) ELSE Real(staging, p)
    /\ went' = IF static[p].kind = "dir" THEN went ELSE Put(went, p, Outside)
    /\ UNCHANGED staging

\* WalkDir is in lexical order; this is in any that has directories first.
Ready(p) == p \in todo /\ Parents(p) \cap todo = {}

MergeEntry(p) ==
    /\ stagingPc = "merge" /\ Ready(p)
    /\ \/ static[p].kind = "dir" /\ MergedDir(p)
       \/ static[p].kind = "link" /\ MergedLink(p)
       \/ static[p].kind = "file" /\ MergedFile(p)
       \/ MergedOutside(p)
    /\ todo' = todo \ {p}
    /\ UNCHANGED << stagingPc, meta, reload, image >> /\ Given

MergeEnds ==
    /\ stagingPc = "merge" /\ todo = {}
    /\ stagingPc' = "create"
    /\ UNCHANGED << todo, went, staging, meta, reload, image >> /\ Given

-----------------------------------------------------------------------------
(* CreateSysext *)

\* validateStagingDir: directories at the top.
ValidFiles(tree) == \A p \in DOMAIN tree :
    Len(p) = 1 /\ Kind(tree, p) = "file" => p[1] \in {"usr", "opt"}

Valid(tree) == \A p \in DOMAIN tree :
    Len(p) = 1 /\ Kind(tree, p) = "dir" => p[1] \in {"usr", "opt"}

\* What is no directory, at the unit directory or anywhere under it.
UnitsAtTop(tree) == \E p \in DOMAIN tree :
    Kind(tree, p) # "dir" /\ Front(p) = EntryAt(tree, UnitDir)

hasSystemdUnits(tree) == \E p \in DOMAIN tree :
    Kind(tree, p) # "dir" /\ EntryAt(tree, UnitDir) \in Way(p)

Reloads(tree) == IF EntryAt(tree, UnitDir) = Outside THEN BOOLEAN ELSE {hasSystemdUnits(tree)}

writeExtensionRelease ==
    /\ stagingPc = "create"
    /\ Valid(staging)
    /\ \/ \E k \in 0 .. Len(ReleaseDir) :
              LET tree == Made(staging, ReleaseDir, k) IN
              /\ Makes(staging, ReleaseDir, k)
              /\ reload' \in Reloads(tree)
              /\ Written(tree, Release, [kind |-> "file", data |-> << "metadata" >>, mode |-> 644])
       \/ Real(staging, Release) = Outside /\ reload' \in Reloads(staging) /\ UNCHANGED staging
    /\ meta' = { p \in DOMAIN staging' : Kind(staging, p) = "none" \/ staging'[p] # staging[p] }
    /\ stagingPc' = "pack"
    /\ UNCHANGED << todo, went, image >> /\ Given

\* Every node as it is, into an empty workspace.
populateWorkspace ==
    /\ stagingPc = "pack"
    /\ image' = staging
    /\ stagingPc' = "done"
    /\ UNCHANGED << todo, went, staging, meta, reload >> /\ Given

BuildFails ==
    /\ stagingPc \notin {"done", "failed"}
    /\ stagingPc' = "failed"
    /\ UNCHANGED << todo, went, staging, meta, reload, image >> /\ Given

StagingNext ==
    \/ Fetch
    \/ \E p \in todo : MergeEntry(p)
    \/ MergeEnds
    \/ writeExtensionRelease \/ populateWorkspace
    \/ BuildFails

StagingSpec == StagingInit /\ [][StagingNext]_stagingVars

-----------------------------------------------------------------------------

StagingTypeOK ==
    /\ stagingPc \in {"fetch", "merge", "create", "pack", "done", "failed"}
    /\ fetched \in FetchedTree /\ static \in StaticTree /\ place \in Place
    /\ todo \subseteq DOMAIN static /\ DOMAIN went \subseteq DOMAIN static \ todo
    /\ IsTree(staging) /\ IsTree(image)
    /\ reload \in BOOLEAN

Done == stagingPc = "done"

\* A merged sysext makes systemd reload if it has units, drop-ins included,
\* whether they were fetched or are static files and whatever links lead to them,
\* and only then.
ReloadIffUnits ==
    LET units == { p \in DOMAIN image : image[p].kind # "dir"
                                         /\ EntryAt(image, UnitDir) \in Way(p) }
    IN  Done /\ EntryAt(image, UnitDir) # Outside =>
            (units \ meta # {} => reload) /\ (reload => units # {})

\* One of the paths is a link, fetched or static.
HasLink(paths) ==
    \/ \E q \in paths : Kind(fetched, q) = "link"
    \/ \E s \in DOMAIN went : static[s].kind = "link" /\ went[s] \in paths

\* A static directory or fetched one that systemd-sysext does not merge makes
\* the build fail; none is made later, unless a link is in the metadata's way.
DirectoriesAreMerged ==
    Done => \A p \in DOMAIN image :
                image[p].kind = "dir" \/ Len(p) > 1 =>
                    p[1] \in {"usr", "opt"} \/ (p \in meta /\ HasLink(Way(Release)))

Overlaid == { s \in DOMAIN static : static[s].kind # "dir" }

\* Where the static files are found: a static file or link has gone to its own
\* path, unless a link is in the way; a path of the image where some have gone
\* holds one of them; and every other is as it was fetched, but for the metadata.
ImageIsOverlay ==
    Done /\ Found =>
        /\ \A s \in Overlaid :
               \/ went[s] = s
               \/ HasLink(IF static[s].kind = "link" THEN Parents(s) ELSE Way(s))
        /\ \A p \in DOMAIN image \ meta :
               LET here == { s \in Overlaid : went[s] = p }
                   Is(node) == image[p].kind = node.kind /\ image[p].data = node.data
               IN  IF here # {} THEN \E s \in here : Is(static[s])
                   ELSE image[p].kind # "dir" => Kind(fetched, p) # "none" /\ image[p] = fetched[p]

\* Nothing of what was fetched is missing, nor, where the static files are found,
\* one of those: it is where a link in its way led to, if that is in the image,
\* or else at its own path.
NothingIsLost ==
    Done => /\ DOMAIN fetched \subseteq DOMAIN image
            /\ Found => /\ \A s \in DOMAIN static : s \in DOMAIN image \/ HasLink(Way(s))
                        /\ \A s \in Overlaid : went[s] \in DOMAIN image \cup {Outside}

\* README.md, "Static files": what is in <component>.sysext/files is merged
\* over the staged binaries at build time.
StaticFilesArePacked ==
    Done => \A s \in DOMAIN static : s \in DOMAIN image \/ HasLink(Way(s))
=============================================================================
