------------------------------- MODULE Fetch --------------------------------
(***************************************************************************)
(* The Fetch functions of build.go, as one invocation calls them: once for *)
(* each architecture, each time into an empty staging directory.           *)
(*                                                                         *)
(* A Fetch function is the sequence of its requests and file operations.   *)
(* The answers are arbitrary: other bytes than the publisher's, an archive *)
(* whose members are missing or in other places, a checksum that is        *)
(* missing, empty or wrong.  Which version of crictl is asked for is       *)
(* CRITools'.                                                              *)
(***************************************************************************)
EXTENDS Integers, Sequences

CONSTANTS
    Component,  \* components that may be fetched
    ArchLists   \* values of --arches; with an empty one nothing is fetched

VARIABLES
    comp,
    arches,     \* its architectures, in order
    fetchPc,
    step,       \* the step of comp's Fetch function it is at
    staged,     \* the files in the staging directory
    sum,        \* what the last request for a checksum was answered
    held,       \* history: the members of this architecture's archives, and
                \* their places
    images      \* what was fetched so far, one for each architecture

fetchVars == << comp, arches, fetchPc, step, staged, sum, held, images >>

ASSUME FetchAssumption ==
    /\ Component \subseteq
           {"kubernetes", "eksd", "containerd", "crio", "k3s", "cni-plugins"}
    /\ ArchLists \subseteq Seq(STRING) \ {<< >>}

-----------------------------------------------------------------------------
(* The Fetch functions: "bin" is where a component's binaries go, "tmp"    *)
(* where its archives go before they are extracted.                        *)

Get(name) == [do |-> "download", name |-> name, dir |-> "bin"]
GetArchive(name) == [do |-> "download", name |-> name, dir |-> "tmp"]
Text == [do |-> "text"]
Sum(kind) == [do |-> "sum", kind |-> kind]
Extract(kind) == [do |-> "extract", kind |-> kind]

\* After latestCRIToolsForK8s.
fetchCrictl == << Text, GetArchive("crictl.tar.gz"), Extract("flat") >>

Kubelet == << Get("kubelet"), Get("kubeadm"), Get("kubectl") >>

FetchKubernetes == Kubelet \o fetchCrictl \o << [do |-> "marker"] >>

FetchEKSD == << Text >> \o FetchKubernetes

\* The first definition is a mutant, as in every pair of this kind.
FetchRuncUnchecked ==
    << Sum("required"), GetArchive("containerd.tar.gz"), Extract("stripped"),
       Text, Get("runc") >>

FetchContainerd ==
    << Sum("required"), GetArchive("containerd.tar.gz"), Extract("stripped"),
       Text, Sum("listed"), Get("runc") >>

FetchCRIO ==
    << Sum("optional"), GetArchive("crio.tar.gz"), Extract("bundle"), [do |-> "move"] >>

FetchK3s == << Get("k3s"), [do |-> "link"] >>

FetchCNIPlugins == << Sum("careless"), GetArchive("cni.tgz"), Extract("flat") >>

Steps(c) == CASE c = "kubernetes" -> FetchKubernetes
              [] c = "eksd" -> FetchEKSD
              [] c = "containerd" -> FetchContainerd
              [] c = "crio" -> FetchCRIO
              [] c = "k3s" -> FetchK3s
              [] c = "cni-plugins" -> FetchCNIPlugins

-----------------------------------------------------------------------------
(* helpers *)

toReleaseArch(arch) == IF arch \in {"x86-64", "x86_64"} THEN "amd64" ELSE arch

\* The architecture of the file behind a URL: k3s has two file names.
UrlArchOneName(name, arch) == IF name = "k3s" THEN "amd64" ELSE toReleaseArch(arch)

UrlArch(name, arch) ==
    IF name = "k3s" /\ toReleaseArch(arch) # "arm64" THEN "amd64"
    ELSE toReleaseArch(arch)

\* The answers with which the code goes on, and the answers with which it
\* takes the first field of an empty string.
GoesOn(kind) == CASE kind = "required" -> {"right", "wrong"}
                  [] kind = "optional" -> {"right", "wrong", "missing"}
                  [] kind = "careless" -> {"right", "wrong"}
                  [] kind = "listed" -> {"right", "wrong", "empty", "unlisted"}

Panics(kind) == CASE kind = "listed" -> {}
                  [] kind = "careless" -> {"empty", "missing"}
                  [] OTHER -> {"empty"}

\* Whether downloadFile keeps bytes that are the publisher's (TRUE) or not.
Passes(bytes) == CASE sum = "right" -> bytes
                   [] sum = "wrong" -> FALSE
                   [] OTHER -> TRUE

-----------------------------------------------------------------------------
(* Archives *)

\* What an archive is downloaded for.  CRI-O's may have an entry for the
\* directory "bin" as well.
Members(archive) == CASE archive = "crictl.tar.gz" -> {"crictl"}
                      [] archive = "containerd.tar.gz" -> {"containerd"}
                      [] archive = "crio.tar.gz" -> {"crio", "conmon", "bin"}
                      [] archive = "cni.tgz" -> {"bridge"}
                      [] OTHER -> {}

\* Where a member is: in the directory the code expects ("bin/" of containerd's
\* archive, "cri-o/bin/" of CRI-O's, the top of the others), below it, beside
\* it, or not even in "cri-o".  Above the top of an archive counts as beside.
MemberPlace == {"expected", "below", "beside", "outside"}

\* The archives there may be.  Some members are missing.
Layout(archive) ==
    { holds \in UNION { [has -> MemberPlace] : has \in SUBSET Members(archive) } :
          "bin" \in DOMAIN holds => holds["bin"] = "beside" }

\* Where extractTar puts a member: what the prefix does not match, or what would
\* be out of the directory, is skipped.
Lands(kind, place) ==
    IF kind = "bundle"
    THEN CASE place = "expected" -> "cri-o/bin"
           [] place = "below" -> "cri-o/bin/*"
           [] place = "beside" -> "cri-o"
           [] place = "outside" -> "elsewhere"
    ELSE CASE place = "expected" -> "bin"
           [] place = "below" -> "elsewhere"
           [] OTHER -> "skipped"

-----------------------------------------------------------------------------

Arch == arches[Len(images) + 1]
Now == Steps(comp)[step]
At(do) == fetchPc = "fetch" /\ step <= Len(Steps(comp)) /\ Now.do = do

FetchInit ==
    /\ comp \in Component
    /\ arches \in ArchLists
    /\ fetchPc = "fetch"
    /\ step = 1
    /\ staged = {}
    /\ sum = "none"
    /\ held = {}
    /\ images = << >>

Advance == step' = step + 1 /\ UNCHANGED << comp, arches, fetchPc, images >>

\* downloadFile, with the checksum the preceding step obtained, if any.
DownloadFile ==
    /\ At("download")
    /\ \E good \in BOOLEAN, holds \in Layout(Now.name) :
        /\ Passes(good)
        /\ staged' = staged \cup
               { [name |-> Now.name, dir |-> Now.dir, good |-> good, sum |-> sum,
                  arch |-> UrlArch(Now.name, Arch), holds |-> holds] }
        /\ held' = held \cup { << m, holds[m] >> : m \in DOMAIN holds }
    /\ sum' = "none"
    /\ Advance

\* extractTar and then os.Remove(tmpTar).
ExtractedKeepsArchive(f) ==
    {f} \cup
    { [f EXCEPT !.name = m, !.dir = Lands(Now.kind, f.holds[m]), !.holds = << >>] :
          m \in { n \in DOMAIN f.holds : Lands(Now.kind, f.holds[n]) # "skipped" } }

Extracted(f) ==
    { [f EXCEPT !.name = m, !.dir = Lands(Now.kind, f.holds[m]), !.holds = << >>] :
          m \in { n \in DOMAIN f.holds : Lands(Now.kind, f.holds[n]) # "skipped" } }

ExtractTar ==
    /\ At("extract")
    /\ staged' = UNION { IF f.dir = "tmp" THEN Extracted(f) ELSE {f} : f \in staged }
    /\ Advance /\ UNCHANGED << sum, held >>

FetchChecksum ==
    /\ At("sum")
    /\ sum' \in GoesOn(Now.kind)
    /\ Advance /\ UNCHANGED << staged, held >>

\* strings.Fields(...)[0] of nothing.
FetchChecksumPanics ==
    /\ At("sum")
    /\ sum' \in Panics(Now.kind)
    /\ fetchPc' = "panicked"
    /\ UNCHANGED << comp, arches, step, staged, held, images >>

\* The pinned runc version, the EKS-D manifest, the list of cri-tools.
FetchText == At("text") /\ Advance /\ UNCHANGED << staged, sum, held >>

\* ReadDir finds cri-o/bin if anything was extracted there, the directory itself
\* for one.  What is in it, be it nothing, is moved to usr/local/bin, and the
\* rest of cri-o is removed.
Moved(f) == CASE f.dir = "cri-o/bin" -> { [f EXCEPT !.dir = "bin"] }
              [] f.dir = "cri-o/bin/*" -> { [f EXCEPT !.dir = "elsewhere"] }
              [] f.dir = "cri-o" -> {}
              [] OTHER -> {f}

Move ==
    /\ At("move")
    /\ \E f \in staged : \/ f.dir \in {"cri-o/bin", "cri-o/bin/*"}
                         \/ f.dir = "cri-o" /\ f.name = "bin"
    /\ staged' = UNION { Moved(f) : f \in staged }
    /\ Advance /\ UNCHANGED << sum, held >>

\* Files that are made here: kubernetes-version, the links to k3s.
Make ==
    /\ At("marker") \/ At("link")
    /\ staged' = staged \cup
           { [name |-> n, dir |-> "bin", good |-> TRUE, sum |-> "none",
              arch |-> toReleaseArch(Arch), holds |-> << >>] :
                 n \in IF Now.do = "link" THEN {"kubectl", "crictl", "ctr"}
                       ELSE {"kubernetes-version"} }
    /\ Advance /\ UNCHANGED << sum, held >>

\* The architectures CreateSysext packs for.
SysextArch == {"amd64", "arm64"}

\* Whether these are all images of the invocation.
AllFetchedLate(done) == Len(done) > Len(arches)

AllFetched(done) == Len(done) = Len(arches)

\* The Fetch function returns, the image is packed, and the next architecture
\* is fetched.
Fetched ==
    /\ fetchPc = "fetch" /\ step = Len(Steps(comp)) + 1
    /\ Arch \in SysextArch
    /\ images' = Append(images, [files |-> staged, held |-> held])
    /\ fetchPc' = IF AllFetched(images') THEN "done" ELSE "fetch"
    /\ step' = 1
    /\ staged' = {}
    /\ held' = {}
    /\ UNCHANGED << comp, arches, sum >>

\* An error of any step ends the invocation; one for an architecture CreateSysext
\* does not know ends here.
FetchFails ==
    /\ fetchPc = "fetch"
    /\ fetchPc' = "failed"
    /\ UNCHANGED << comp, arches, step, staged, sum, held, images >>

FetchNext == \/ DownloadFile \/ ExtractTar \/ FetchChecksum \/ FetchChecksumPanics
             \/ FetchText \/ Move \/ Make \/ Fetched \/ FetchFails

FetchSpec == FetchInit /\ [][FetchNext]_fetchVars

-----------------------------------------------------------------------------

Answer == {"none", "right", "wrong", "missing", "empty", "unlisted"}
Dir == {"bin", "tmp", "cri-o", "cri-o/bin", "cri-o/bin/*", "elsewhere"}

FetchTypeOK ==
    /\ comp \in Component
    /\ arches \in ArchLists
    /\ fetchPc \in {"fetch", "done", "failed", "panicked"}
    /\ step \in 1 .. Len(Steps(comp)) + 1
    /\ sum \in Answer
    /\ Len(images) \in 0 .. Len(arches)
    /\ fetchPc = "fetch" => Len(images) < Len(arches)
    /\ \A f \in staged \cup UNION { images[a].files : a \in DOMAIN images } :
           f.dir \in Dir /\ f.sum \in Answer

\* The files whose publisher offers a checksum, and the answers without which
\* the code does without it.
Waived(name) ==
    CASE name \in Members("containerd.tar.gz") \cup Members("cni.tgz") -> {}
      [] name = "runc" -> {"empty", "unlisted"}
      [] name \in Members("crio.tar.gz") -> {"missing"}
      [] OTHER -> {"none"}

\* downloadFile and its callers, across the steps of a Fetch function: bytes other
\* than the publisher's are never in an image as containerd or a CNI plugin; as
\* runc only if its list of checksums does not have one, and as CRI-O only if the
\* request for the checksum failed.  Of the Kubernetes binaries, crictl and k3s
\* none is asked for.
VerifiedIfPublished ==
    \A a \in DOMAIN images : \A f \in images[a].files :
        ~ f.good => f.sum \in Waived(f.name)

\* What a Fetch function is for; what of it comes in an archive.
Promised(c) == CASE c = "containerd" -> {"containerd", "runc"}
                 [] c = "crio" -> {"crio", "conmon"}
                 [] c = "k3s" -> {"k3s", "kubectl", "crictl", "ctr"}
                 [] c = "cni-plugins" -> {"bridge"}
                 [] OTHER -> {"kubelet", "kubeadm", "kubectl", "crictl"}

Archived(c) == CASE c = "containerd" -> {"containerd"}
                 [] c = "crio" -> {"crio", "conmon"}
                 [] c = "k3s" -> {}
                 [] c = "cni-plugins" -> {"bridge"}
                 [] OTHER -> {"crictl"}

\* A Fetch function that succeeds has put every binary where binaries go, but for
\* those its archive does not hold where the code expects them, which nothing
\* notices as long as CRI-O's has some cri-o/bin; and it leaves no archive and
\* nothing half unpacked, only what was in another directory of the archive.
FetchedIsComplete ==
    \A a \in DOMAIN images :
        /\ \A n \in Promised(comp) :
               \/ \E f \in images[a].files : f.name = n /\ f.dir = "bin"
               \/ n \in Archived(comp) /\ << n, "expected" >> \notin images[a].held
        /\ \A f \in images[a].files :
               \/ f.dir = "bin"
               \/ /\ f.dir = "elsewhere"
                  /\ \E place \in {"below", "outside"} : << f.name, place >> \in images[a].held
        /\ comp = "crio" =>
               \E m \in images[a].held : m[2] \in {"expected", "below"} \/ m[1] = "bin"

\* The files of an image are of the architecture it was asked for.
ImageIsOfItsArch ==
    \A a \in DOMAIN images : \A f \in images[a].files : f.arch = toReleaseArch(arches[a])

\* build.go, FetchCNIPlugins: a checksum may not exist for all releases, and
\* the fetch proceeds without the check.
ChecksumMayBeMissing == fetchPc = "panicked" => sum # "missing"
=============================================================================
