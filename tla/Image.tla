-------------------------------- MODULE Image -------------------------------
(***************************************************************************)
(* The .raw file of one component, version and architecture, and the       *)
(* invocations of sysext-pkg that build and push it in one --out directory *)
(* at the same time or after each other:                                   *)
(*                                                                         *)
(*    build      stage, pack, pad                                          *)
(*    release    the same and then push                                    *)
(*    push       push the file it finds ("release --skip-build" as well)   *)
(*                                                                         *)
(* CreateSysext writes the file in place, under its final name, and an     *)
(* invocation ends at any moment by an error or a crash.  The file is not  *)
(* its bytes here but who wrote the parts of it, and its length.           *)
(***************************************************************************)
EXTENDS Integers

CONSTANTS
    Proc,         \* invocations of sysext-pkg
    NoOne, Mixed, \* writers of a part of the file that is none of one of them
    Command,      \* the command of each
    Block,        \* 4096 in the code
    ImageSize,    \* the length of the squashfs image each packs
    Entry,        \* names that may stand at the top of a staging tree
    Directory,    \* those that are directories
    Tree          \* what comp.Fetch and mergeDir can leave in a staging tree

VARIABLES
    raw,          \* the file
    pc,
    tree,         \* the top-level names of the tree each packs
    padding,      \* what padTo4096 found missing
    layerDesc,    \* what store.Add read and digested
    layers,       \* the layers in the registry, by who pushed them
    opener,       \* history: who last created or truncated the file
    overlapped,   \* history: another was writing when opener did
    whole,        \* history: opener has written and padded it since
    takenFrom     \* history: opener when store.Add read a file that was
                  \* whole and nobody else wrote to

history == << opener, overlapped, whole, takenFrom >>
vars == << raw, pc, tree, padding, layerDesc, layers, history >>

ASSUME CommandAssumption == Command \in [Proc -> {"build", "release", "push"}]
ASSUME SizeAssumption ==
    Block \in Nat \ {0} /\ ImageSize \in [Proc -> Nat \ {0}]
ASSUME TreeAssumption == Directory \subseteq Entry /\ Tree \subseteq SUBSET Entry

ASSUME WriterAssumption == NoOne \notin Proc /\ Mixed \notin Proc

Writer == Proc \cup {NoOne, Mixed}

\* The data blocks and tables, the superblock in front of them, the length.
File == [body : Writer, super : Writer, size : Nat]
NoFile == [body |-> NoOne, super |-> NoOne, size |-> -1]
Truncated == [body |-> NoOne, super |-> NoOne, size |-> 0]

Writing == {"body", "super", "stat", "pad"}
Live == {"stage", "create", "hash", "upload"} \cup Writing
Ended == {"built", "pushed", "failed"}

Init ==
    /\ raw = NoFile
    /\ pc = [p \in Proc |-> "idle"]
    /\ tree = [p \in Proc |-> {}]
    /\ padding = [p \in Proc |-> 0]
    /\ layerDesc = [p \in Proc |-> NoFile]
    /\ layers = [p \in Proc |-> NoFile]
    /\ opener = NoOne
    /\ overlapped = FALSE
    /\ whole = FALSE
    /\ takenFrom = [p \in Proc |-> NoOne]

Start(p) ==
    /\ pc[p] = "idle"
    /\ pc' = [pc EXCEPT ![p] = IF Command[p] = "push" THEN "hash" ELSE "stage"]
    /\ UNCHANGED << raw, tree, padding, layerDesc, layers, history >>

-----------------------------------------------------------------------------
(* runBuild *)

\* A directory of another name makes the build fail; what is no directory is
\* not looked at.
validateStagingDir(t) == t \cap Directory \subseteq {"usr", "opt"}

\* comp.Fetch, mergeDir and validateStagingDir, on a directory of its own.
Stage(p) ==
    /\ pc[p] = "stage"
    /\ \E t \in Tree :
        /\ tree' = [tree EXCEPT ![p] = t]
        /\ pc' = [pc EXCEPT ![p] = IF validateStagingDir(t) THEN "create"
                                   ELSE "failed"]
    /\ UNCHANGED << raw, padding, layerDesc, layers, history >>

\* os.Create keeps the file that is there and empties it.  The first is a
\* mutant, as in every pair of this kind.
openedNoTruncate == IF raw = NoFile THEN Truncated ELSE raw

opened == Truncated

Create(p) ==
    /\ pc[p] = "create"
    /\ raw' = opened
    /\ pc' = [pc EXCEPT ![p] = "body"]
    /\ opener' = p
    /\ overlapped' = \E q \in Proc : pc[q] \in Writing
    /\ whole' = FALSE
    /\ UNCHANGED << tree, padding, layerDesc, layers, takenFrom >>

Longer(m, n) == IF m < n THEN n ELSE m

\* squashfs Finalize writes the image from the superblock's end on, and what
\* is longer in the file stays; the superblock comes last.
WriteBody(p) ==
    /\ pc[p] = "body"
    /\ raw' = [body  |-> IF raw.size <= ImageSize[p] THEN p ELSE Mixed,
               super |-> raw.super,
               size  |-> Longer(raw.size, ImageSize[p])]
    /\ pc' = [pc EXCEPT ![p] = "super"]
    /\ UNCHANGED << tree, padding, layerDesc, layers, history >>

WriteSuper(p) ==
    /\ pc[p] = "super"
    /\ raw' = [body |-> raw.body, super |-> p, size |-> Longer(raw.size, 1)]
    /\ pc' = [pc EXCEPT ![p] = "stat"]
    /\ UNCHANGED << tree, padding, layerDesc, layers, history >>

PadLengthFullBlock(size) == Block - (size % Block)

PadLength(size) == (Block - (size % Block)) % Block

\* padTo4096 asks for the length of the file and then appends to it.
PadStat(p) ==
    /\ pc[p] = "stat"
    /\ padding' = [padding EXCEPT ![p] = PadLength(raw.size)]
    /\ pc' = [pc EXCEPT ![p] = "pad"]
    /\ UNCHANGED << raw, tree, layerDesc, layers, history >>

PadWrite(p) ==
    /\ pc[p] = "pad"
    /\ raw' = [body |-> raw.body, super |-> raw.super,
               size |-> raw.size + padding[p]]
    /\ pc' = [pc EXCEPT ![p] = IF Command[p] = "release" THEN "hash"
                               ELSE "built"]
    /\ whole' = (whole \/ opener = p)
    /\ UNCHANGED << tree, padding, layerDesc, layers, opener, overlapped,
                    takenFrom >>

-----------------------------------------------------------------------------
(* PushVariant *)

\* store.Add reads the file for its digest.
Hash(p) ==
    /\ pc[p] = "hash"
    /\ raw # NoFile
    /\ layerDesc' = [layerDesc EXCEPT ![p] = raw]
    /\ takenFrom' = [takenFrom EXCEPT ![p] =
                        IF whole /\ ~ overlapped THEN opener ELSE NoOne]
    /\ pc' = [pc EXCEPT ![p] = "upload"]
    /\ UNCHANGED << raw, tree, padding, layers, opener, overlapped, whole >>

\* oras.Copy reads the file again.  Bytes that have another digest by now are
\* refused; a layer the registry has is not uploaded.
Upload(p) ==
    /\ pc[p] = "upload"
    /\ \/ raw = layerDesc[p]
       \/ \E q \in Proc : layers[q] = layerDesc[p]
    /\ layers' = [layers EXCEPT ![p] = layerDesc[p]]
    /\ pc' = [pc EXCEPT ![p] = "pushed"]
    /\ UNCHANGED << raw, tree, padding, layerDesc, history >>

\* An error return before the effect of a step, or the end of the process.
\* The file stays as it is.
Fail(p) ==
    /\ pc[p] \in Live
    /\ pc' = [pc EXCEPT ![p] = "failed"]
    /\ UNCHANGED << raw, tree, padding, layerDesc, layers, history >>

Next ==
    \E p \in Proc :
        \/ Start(p) \/ Stage(p)
        \/ Create(p) \/ WriteBody(p) \/ WriteSuper(p) \/ PadStat(p) \/ PadWrite(p)
        \/ Hash(p) \/ Upload(p)
        \/ Fail(p)

Spec == Init /\ [][Next]_vars

-----------------------------------------------------------------------------

TypeOK ==
    /\ raw \in File \cup {NoFile}
    /\ pc \in [Proc -> {"idle"} \cup Live \cup Ended]
    /\ tree \in [Proc -> SUBSET Entry]
    /\ padding \in [Proc -> 0 .. Block - 1]
    /\ layerDesc \in [Proc -> File \cup {NoFile}]
    /\ layers \in [Proc -> File \cup {NoFile}]
    /\ opener \in Proc \cup {NoOne}
    /\ overlapped \in BOOLEAN
    /\ whole \in BOOLEAN
    /\ takenFrom \in [Proc -> Proc \cup {NoOne}]
    /\ \A p \in Proc : pc[p] \in Writing => raw # NoFile

Complete(p) ==
    [body |-> p, super |-> p, size |-> ImageSize[p] + PadLength(ImageSize[p])]

\* What builds that failed or were killed left in the file never reaches the
\* registry through a later build: whoever pushes after a build that ended
\* and that no other build ran into publishes exactly that build's image.
CleanBuildIsPublishedWhole ==
    \A p \in Proc :
        layers[p] # NoFile /\ takenFrom[p] # NoOne =>
            layers[p] = Complete(takenFrom[p])

\* squashfs.go: the image is padded to a 4096-byte boundary, by less than a
\* block, whatever length the packing gives it.
PublishedIsAligned ==
    \A p \in Proc :
        layers[p] # NoFile /\ takenFrom[p] # NoOne =>
            /\ layers[p].size % Block = 0
            /\ layers[p].size - ImageSize[takenFrom[p]] < Block
=============================================================================
