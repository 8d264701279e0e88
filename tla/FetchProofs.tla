----------------------------- MODULE FetchProofs -----------------------------
(***************************************************************************)
(* What is fetched, for every list of architectures and whatever upstream  *)
(* answers.                                                                *)
(*                                                                         *)
(* The Fetch functions are written out as tables, and each is divided into *)
(* phases by what has become of its archive: it is not there yet, packed,  *)
(* extracted but not moved, or where it stays.  FInv says for each phase   *)
(* where the files of the staging directory came from (Origin), that what  *)
(* the archive held in the expected place is where the phase has it (Kept),*)
(* and which steps have left their files (Left); and for each step what    *)
(* the last checksum can have been answered (Pending).                     *)
(***************************************************************************)
EXTENDS Fetch, TLAPS

-----------------------------------------------------------------------------
(* The Fetch functions as tables *)

LEMMA Joined ==
    ASSUME NEW T, NEW s \in Seq(T), NEW t \in Seq(T), NEW r \in Seq(T),
           Len(r) = Len(s) + Len(t),
           \A i \in 1 .. Len(s) : r[i] = s[i],
           \A i \in 1 .. Len(t) : r[Len(s) + i] = t[i]
    PROVE  s \o t = r
<1>1. s \o t \in Seq(T) /\ Len(s \o t) = Len(r)
  OBVIOUS
<1>2. \A i \in 1 .. Len(r) : (s \o t)[i] = r[i]
  <2> SUFFICES ASSUME NEW i \in 1 .. Len(r)
               PROVE  (s \o t)[i] = r[i]
    OBVIOUS
  <2>1. CASE i <= Len(s)
    BY <2>1
  <2>2. CASE i > Len(s)
    <3>1. i - Len(s) \in 1 .. Len(t) /\ Len(s) + (i - Len(s)) = i
      BY <2>2
    <3> QED
      BY <2>2, <3>1
  <2> QED
    BY <2>1, <2>2
<1> QED
  BY <1>1, <1>2

LEMMA KubernetesSteps ==
    FetchKubernetes =
        << Get("kubelet"), Get("kubeadm"), Get("kubectl"), Text,
           GetArchive("crictl.tar.gz"), Extract("flat"), [do |-> "marker"] >>
<1>1. ASSUME NEW a, NEW b, NEW c, NEW d, NEW e, NEW f, NEW g
      PROVE  (<< a, b, c >> \o << d, e, f >>) \o << g >> = << a, b, c, d, e, f, g >>
  <2> DEFINE V == {a, b, c, d, e, f, g}
             s == << a, b, c >>
             t == << d, e, f >>
             u == << g >>
             x == << a, b, c, d, e, f >>
             r == << a, b, c, d, e, f, g >>
  <2>1. /\ s \in Seq(V) /\ t \in Seq(V) /\ u \in Seq(V)
        /\ x \in Seq(V) /\ r \in Seq(V)
    OBVIOUS
  <2>2. /\ Len(x) = Len(s) + Len(t)
        /\ \A i \in 1 .. Len(s) : x[i] = s[i]
        /\ \A i \in 1 .. Len(t) : x[Len(s) + i] = t[i]
    OBVIOUS
  <2>3. /\ Len(r) = Len(x) + Len(u)
        /\ \A i \in 1 .. Len(x) : r[i] = x[i]
        /\ \A i \in 1 .. Len(u) : r[Len(x) + i] = u[i]
    OBVIOUS
  <2> HIDE DEF s, t, u, x, r, V
  <2>4. s \o t = x
    BY <2>1, <2>2, Joined
  <2>5. x \o u = r
    BY <2>1, <2>3, Joined
  <2>6. (s \o t) \o u = r
    BY <2>4, <2>5
  <2> QED
    BY <2>6 DEF s, t, u, r
<1> QED
  BY <1>1 DEF FetchKubernetes, Kubelet, fetchCrictl

LEMMA EKSDSteps ==
    FetchEKSD =
        << Text, Get("kubelet"), Get("kubeadm"), Get("kubectl"), Text,
           GetArchive("crictl.tar.gz"), Extract("flat"), [do |-> "marker"] >>
<1>1. ASSUME NEW a, NEW b, NEW c, NEW d, NEW e, NEW f, NEW g, NEW h
      PROVE  << h >> \o << a, b, c, d, e, f, g >> = << h, a, b, c, d, e, f, g >>
  <2> DEFINE V == {a, b, c, d, e, f, g, h}
             s == << h >>
             t == << a, b, c, d, e, f, g >>
             r == << h, a, b, c, d, e, f, g >>
  <2>1. /\ s \in Seq(V) /\ t \in Seq(V) /\ r \in Seq(V)
        /\ Len(r) = Len(s) + Len(t)
    OBVIOUS
  <2>2. /\ \A i \in 1 .. Len(s) : r[i] = s[i]
        /\ \A i \in 1 .. Len(t) : r[Len(s) + i] = t[i]
    OBVIOUS
  <2> HIDE DEF s, t, r, V
  <2>3. s \o t = r
    BY <2>1, <2>2, Joined
  <2> QED
    BY <2>3 DEF s, t, r
<1> QED
  BY <1>1, KubernetesSteps DEF FetchEKSD

Components == {"kubernetes", "eksd", "containerd", "crio", "k3s", "cni-plugins"}

StepsOf(c) ==
    CASE c = "kubernetes" ->
             << Get("kubelet"), Get("kubeadm"), Get("kubectl"), Text,
                GetArchive("crictl.tar.gz"), Extract("flat"), [do |-> "marker"] >>
      [] c = "eksd" ->
             << Text, Get("kubelet"), Get("kubeadm"), Get("kubectl"), Text,
                GetArchive("crictl.tar.gz"), Extract("flat"), [do |-> "marker"] >>
      [] c = "containerd" ->
             << Sum("required"), GetArchive("containerd.tar.gz"), Extract("stripped"),
                Text, Sum("listed"), Get("runc") >>
      [] c = "crio" ->
             << Sum("optional"), GetArchive("crio.tar.gz"), Extract("bundle"),
                [do |-> "move"] >>
      [] c = "k3s" -> << Get("k3s"), [do |-> "link"] >>
      [] c = "cni-plugins" ->
             << Sum("careless"), GetArchive("cni.tgz"), Extract("flat") >>

LEMMA StepsAre == ASSUME NEW c \in Components PROVE Steps(c) = StepsOf(c)
BY KubernetesSteps, EKSDSteps
   DEF Components, Steps, StepsOf, FetchContainerd, FetchCRIO, FetchK3s, FetchCNIPlugins

Length(c) == CASE c = "kubernetes" -> 7 [] c = "eksd" -> 8 [] c = "containerd" -> 6
               [] c = "crio" -> 4 [] c = "k3s" -> 2 [] c = "cni-plugins" -> 3

LEMMA LengthIs == ASSUME NEW c \in Components PROVE Len(Steps(c)) = Length(c)
BY StepsAre DEF Components, StepsOf, Length

-----------------------------------------------------------------------------
(* The phases *)

\* The step that extracts the archive, and the one with which its files are where
\* they stay; k3s has no archive.
ExtractsAt(c) == CASE c = "kubernetes" -> 6 [] c = "eksd" -> 7 [] OTHER -> 3

Phase(c, s) ==
    CASE c = "k3s" \/ s < ExtractsAt(c) -> "before"
      [] c # "k3s" /\ s = ExtractsAt(c) -> "packed"
      [] c = "crio" /\ s = 4 -> "extracted"
      [] OTHER -> "final"

ArchiveOf(c) == CASE c = "containerd" -> "containerd.tar.gz"
                  [] c = "crio" -> "crio.tar.gz"
                  [] c = "cni-plugins" -> "cni.tgz"
                  [] OTHER -> "crictl.tar.gz"

Links == {"kubectl", "crictl", "ctr"}

\* What the last checksum can have been answered before a step.
Pending(c, s) ==
    CASE c = "containerd" /\ s = 2 -> GoesOn("required")
      [] c = "containerd" /\ s = 6 -> GoesOn("listed")
      [] c = "crio" /\ s = 2 -> GoesOn("optional")
      [] c = "cni-plugins" /\ s = 2 -> GoesOn("careless")
      [] OTHER -> {"none"}

\* The answers without which an archive is kept unchecked.
WaivedFor(archive) == CASE archive = "crictl.tar.gz" -> {"none"}
                        [] archive = "crio.tar.gz" -> {"missing"}
                        [] OTHER -> {}

\* What the tables say of one step.
StepIs(c, s, now, ph, next) ==
    /\ now.do \in {"download", "extract", "sum", "text", "move", "marker", "link"}
    /\ now.do = "download" =>
           /\ now.dir = "bin" => ph \in {"before", "final"} /\ next = ph
                                 /\ Members(now.name) = {}
           /\ now.dir # "bin" => /\ now.dir = "tmp" /\ now.name = ArchiveOf(c)
                                 /\ ph = "before" /\ next = "packed"
           /\ \A answer \in Pending(c, s) \ {"right", "wrong"} :
                  answer \in IF now.dir = "tmp" THEN WaivedFor(now.name) ELSE Waived(now.name)
           /\ Pending(c, s + 1) = {"none"}
    /\ now.do = "extract" =>
           /\ ph = "packed"
           /\ IF now.kind = "bundle" THEN next = "extracted"
              ELSE next = "final" /\ c # "crio"
    /\ now.do = "move" => /\ c = "crio" /\ ph = "extracted" /\ next = "final"
    /\ now.do \in {"sum", "text", "marker", "link"} =>
           /\ ph \in {"before", "final"} /\ next = ph
           /\ c # "crio" \/ ph = "before"
    /\ now.do = "sum" => Pending(c, s + 1) = GoesOn(now.kind)
                         /\ now.kind \in {"required", "optional", "careless", "listed"}
    /\ now.do \in {"extract", "text", "move", "marker", "link"} =>
           Pending(c, s) = {"none"} /\ Pending(c, s + 1) = {"none"}

LEMMA StepFacts ==
    ASSUME NEW c \in Components, NEW s \in 1 .. Len(Steps(c))
    PROVE  StepIs(c, s, Steps(c)[s], Phase(c, s), Phase(c, s + 1))
<1> USE DEF StepIs, Get, GetArchive, Text, Sum, Extract, Phase, ExtractsAt, ArchiveOf,
            Pending, GoesOn, Members, WaivedFor, Waived
<1>1. s \in 1 .. Length(c) /\ Steps(c) = StepsOf(c)
  BY StepsAre, LengthIs
<1>2. CASE c = "kubernetes"
  <2>1. s = 1 \/ s = 2 \/ s = 3 \/ s = 4 \/ s = 5 \/ s = 6 \/ s = 7
    BY <1>1, <1>2 DEF Length
  <2>2. CASE s = 1
    BY <1>1, <1>2, <2>2 DEF StepsOf
  <2>3. CASE s = 2
    BY <1>1, <1>2, <2>3 DEF StepsOf
  <2>4. CASE s = 3
    BY <1>1, <1>2, <2>4 DEF StepsOf
  <2>5. CASE s = 4
    BY <1>1, <1>2, <2>5 DEF StepsOf
  <2>6. CASE s = 5
    BY <1>1, <1>2, <2>6 DEF StepsOf
  <2>7. CASE s = 6
    BY <1>1, <1>2, <2>7 DEF StepsOf
  <2>8. CASE s = 7
    BY <1>1, <1>2, <2>8 DEF StepsOf
  <2> QED
    BY <2>1, <2>2, <2>3, <2>4, <2>5, <2>6, <2>7, <2>8
<1>3. CASE c = "eksd"
  <2>1. s = 1 \/ s = 2 \/ s = 3 \/ s = 4 \/ s = 5 \/ s = 6 \/ s = 7 \/ s = 8
    BY <1>1, <1>3 DEF Length
  <2>2. CASE s = 1
    BY <1>1, <1>3, <2>2 DEF StepsOf
  <2>3. CASE s = 2
    BY <1>1, <1>3, <2>3 DEF StepsOf
  <2>4. CASE s = 3
    BY <1>1, <1>3, <2>4 DEF StepsOf
  <2>5. CASE s = 4
    BY <1>1, <1>3, <2>5 DEF StepsOf
  <2>6. CASE s = 5
    BY <1>1, <1>3, <2>6 DEF StepsOf
  <2>7. CASE s = 6
    BY <1>1, <1>3, <2>7 DEF StepsOf
  <2>8. CASE s = 7
    BY <1>1, <1>3, <2>8 DEF StepsOf
  <2>9. CASE s = 8
    BY <1>1, <1>3, <2>9 DEF StepsOf
  <2> QED
    BY <2>1, <2>2, <2>3, <2>4, <2>5, <2>6, <2>7, <2>8, <2>9
<1>4. CASE c = "containerd"
  <2>1. s = 1 \/ s = 2 \/ s = 3 \/ s = 4 \/ s = 5 \/ s = 6
    BY <1>1, <1>4 DEF Length
  <2>2. CASE s = 1
    BY <1>1, <1>4, <2>2 DEF StepsOf
  <2>3. CASE s = 2
    BY <1>1, <1>4, <2>3 DEF StepsOf
  <2>4. CASE s = 3
    BY <1>1, <1>4, <2>4 DEF StepsOf
  <2>5. CASE s = 4
    BY <1>1, <1>4, <2>5 DEF StepsOf
  <2>6. CASE s = 5
    BY <1>1, <1>4, <2>6 DEF StepsOf
  <2>7. CASE s = 6
    BY <1>1, <1>4, <2>7 DEF StepsOf
  <2> QED
    BY <2>1, <2>2, <2>3, <2>4, <2>5, <2>6, <2>7
<1>5. CASE c = "crio"
  <2>1. s = 1 \/ s = 2 \/ s = 3 \/ s = 4
    BY <1>1, <1>5 DEF Length
  <2>2. CASE s = 1
    BY <1>1, <1>5, <2>2 DEF StepsOf
  <2>3. CASE s = 2
    BY <1>1, <1>5, <2>3 DEF StepsOf
  <2>4. CASE s = 3
    BY <1>1, <1>5, <2>4 DEF StepsOf
  <2>5. CASE s = 4
    BY <1>1, <1>5, <2>5 DEF StepsOf
  <2> QED
    BY <2>1, <2>2, <2>3, <2>4, <2>5
<1>6. CASE c = "k3s"
  <2>1. s = 1 \/ s = 2
    BY <1>1, <1>6 DEF Length
  <2>2. CASE s = 1
    BY <1>1, <1>6, <2>2 DEF StepsOf
  <2>3. CASE s = 2
    BY <1>1, <1>6, <2>3 DEF StepsOf
  <2> QED
    BY <2>1, <2>2, <2>3
<1>7. CASE c = "cni-plugins"
  <2>1. s = 1 \/ s = 2 \/ s = 3
    BY <1>1, <1>7 DEF Length
  <2>2. CASE s = 1
    BY <1>1, <1>7, <2>2 DEF StepsOf
  <2>3. CASE s = 2
    BY <1>1, <1>7, <2>3 DEF StepsOf
  <2>4. CASE s = 3
    BY <1>1, <1>7, <2>4 DEF StepsOf
  <2> QED
    BY <2>1, <2>2, <2>3, <2>4
<1> QED
  BY <1>2, <1>3, <1>4, <1>5, <1>6, <1>7 DEF Components

\* Where the tables begin and end, and that they leave nothing out.
LEMMA EndFacts ==
    ASSUME NEW c \in Components
    PROVE  /\ Len(Steps(c)) \in Nat
           /\ Phase(c, 1) = "before" /\ Pending(c, 1) = {"none"}
           /\ Phase(c, Len(Steps(c)) + 1) = "final" \/ c = "k3s"
           /\ Phase(c, Len(Steps(c)) + 1) \in {"before", "final"}
           /\ Pending(c, Len(Steps(c)) + 1) = {"none"}
           /\ Archived(c) = {} \/ c # "k3s"
           /\ \A n \in Promised(c) \ Archived(c) :
                  \E i \in 1 .. Len(Steps(c)) :
                      \/ Steps(c)[i] = Get(n)
                      \/ Steps(c)[i].do = "link" /\ n \in Links
<1>1. Len(Steps(c)) = Length(c) /\ Steps(c) = StepsOf(c)
  BY StepsAre, LengthIs
<1> USE DEF Length, StepsOf, Phase, ExtractsAt, Pending, Archived, Promised, Links
<1>2. CASE c = "kubernetes"
  BY <1>1, <1>2
<1>3. CASE c = "eksd"
  BY <1>1, <1>3
<1>4. CASE c = "containerd"
  BY <1>1, <1>4
<1>5. CASE c = "crio"
  BY <1>1, <1>5
<1>6. CASE c = "k3s"
  BY <1>1, <1>6
<1>7. CASE c = "cni-plugins"
  BY <1>1, <1>7
<1> QED
  BY <1>2, <1>3, <1>4, <1>5, <1>6, <1>7 DEF Components

-----------------------------------------------------------------------------
(* The invariant *)

Fields == {"name", "dir", "good", "sum", "arch", "holds"}

\* A file is the publisher's unless its checksum was to be done without, and of
\* the architecture; of another one only where CreateSysext will refuse it.
Right(f, arch) ==
    /\ DOMAIN f = Fields
    /\ f.dir \in Dir /\ f.sum \in Answer
    /\ ~ f.good => f.sum \in IF f.dir = "tmp" THEN WaivedFor(f.name) ELSE Waived(f.name)
    /\ \/ f.arch = toReleaseArch(arch)
       \/ f.arch = "amd64" /\ arch # "arm64"

Origin(f, c, ph, has) ==
    \/ f.dir = "bin"
    \/ /\ ph = "packed" /\ f.dir = "tmp" /\ f.name = ArchiveOf(c)
       /\ f.holds \in Layout(f.name)
       /\ \A m \in DOMAIN f.holds : << m, f.holds[m] >> \in has
    \/ /\ ph = "extracted"
       /\ \E place \in MemberPlace :
              << f.name, place >> \in has /\ f.dir = Lands("bundle", place)
    \/ /\ ph = "final" /\ f.dir = "elsewhere"
       /\ \E place \in {"below", "outside"} : << f.name, place >> \in has

\* f is, or holds, member n, which its archive has where it is expected.
Holds(f, n, ph) ==
    /\ ph = "packed" => f.dir = "tmp" /\ n \in DOMAIN f.holds /\ f.holds[n] = "expected"
    /\ ph = "extracted" => f.name = n /\ f.dir = "cri-o/bin"
    /\ ph = "final" => f.name = n /\ f.dir = "bin"

Kept(c, ph, files, has) ==
    /\ ph = "before" => has = {}
    /\ \A n : << n, "expected" >> \in has => \E f \in files : Holds(f, n, ph)
    /\ c = "crio" /\ ph = "final" =>
           \E m \in has : m[2] \in {"expected", "below"} \/ m[1] = "bin"

InBin(n, files) == \E f \in files : f.name = n /\ f.dir = "bin"

Left(now, files) ==
    /\ now.do = "download" /\ now.dir = "bin" => InBin(now.name, files)
    /\ now.do = "link" => \A n \in Links : InBin(n, files)

Whole(c, image) ==
    /\ \A n \in Promised(c) :
           \/ InBin(n, image.files)
           \/ n \in Archived(c) /\ << n, "expected" >> \notin image.held
    /\ \A f \in image.files :
           \/ f.dir = "bin"
           \/ /\ f.dir = "elsewhere"
              /\ \E place \in {"below", "outside"} : << f.name, place >> \in image.held
    /\ c = "crio" => \E m \in image.held : m[2] \in {"expected", "below"} \/ m[1] = "bin"

Packed(c, image, arch) ==
    /\ Whole(c, image)
    /\ \A f \in image.files : /\ f.sum \in Answer
                              /\ ~ f.good => f.sum \in Waived(f.name)
                              /\ f.arch = toReleaseArch(arch)

RunType ==
    /\ comp \in Component \cap Components
    /\ arches \in ArchLists
    /\ fetchPc \in {"fetch", "done", "failed", "panicked"}
    /\ step \in 1 .. Len(Steps(comp)) + 1
    /\ sum \in Answer
    /\ \E S : images \in Seq(S)
    /\ Len(images) \in 0 .. Len(arches)
    /\ fetchPc = "fetch" => Len(images) < Len(arches) /\ sum \in Pending(comp, step)

FInv ==
    /\ RunType
    /\ \A f \in staged : Right(f, Arch) /\ Origin(f, comp, Phase(comp, step), held)
    /\ Kept(comp, Phase(comp, step), staged, held)
    /\ \A i \in 1 .. step - 1 : Left(Steps(comp)[i], staged)
    /\ \A a \in DOMAIN images : Packed(comp, images[a], arches[a])

\* FInv at the start and after each image.
LEMMA NothingStaged ==
    ASSUME NEW c \in Components
    PROVE  Kept(c, Phase(c, 1), {}, {})
BY EndFacts DEF Kept

LEMMA Here ==
    ASSUME FInv, fetchPc = "fetch", step <= Len(Steps(comp))
    PROVE  /\ comp \in Components /\ step \in 1 .. Len(Steps(comp)) /\ sum \in Pending(comp, step)
           /\ StepIs(comp, step, Now, Phase(comp, step), Phase(comp, step + 1))
<1>1. comp \in Components /\ step \in 1 .. Len(Steps(comp)) /\ sum \in Pending(comp, step)
  BY EndFacts DEF FInv, RunType
<1> QED
  BY <1>1, StepFacts DEF Now

LEMMA PendingIsAnswer ==
    ASSUME NEW c, NEW s PROVE Pending(c, s) \subseteq Answer
BY DEF Pending, GoesOn, Answer

\* A step within a Fetch function that leaves what it is for, and no file of
\* usr/local/bin behind.
LEMMA Advances ==
    ASSUME FInv, Advance, fetchPc = "fetch", step <= Len(Steps(comp)),
           sum' \in Pending(comp, step + 1),
           \A f \in staged' : /\ Right(f, Arch)
                              /\ Origin(f, comp, Phase(comp, step + 1), held'),
           Kept(comp, Phase(comp, step + 1), staged', held'),
           \A f \in staged : f.dir = "bin" => f \in staged',
           Left(Now, staged')
    PROVE  FInv'
<1>1. /\ UNCHANGED << comp, arches, fetchPc, images >> /\ step' = step + 1
      /\ Steps(comp)' = Steps(comp) /\ Arch' = Arch
  BY DEF Advance, Arch, Steps
<1>2. RunType'
  BY <1>1, Here, PendingIsAnswer DEF FInv, RunType
<1>3. Phase(comp, step)' = Phase(comp, step + 1)
  BY <1>1 DEF Phase, ExtractsAt
<1>4. \A i \in 1 .. step' - 1 : Left(Steps(comp)[i], staged')
  <2> SUFFICES ASSUME NEW i \in 1 .. step' - 1
               PROVE  Left(Steps(comp)[i], staged')
    OBVIOUS
  <2>1. CASE i = step
    BY <2>1 DEF Now
  <2>2. CASE i # step
    <3>1. i \in 1 .. step - 1
      BY <1>1, <2>2, Here
    <3>2. Left(Steps(comp)[i], staged)
      BY <3>1 DEF FInv
    <3> QED
      BY <3>2 DEF Left, InBin
  <2> QED
    BY <2>1, <2>2
<1>5. \A a \in DOMAIN images' : Packed(comp', images'[a], arches'[a])
  BY <1>1 DEF FInv
<1> QED
  BY <1>1, <1>2, <1>3, <1>4, <1>5 DEF FInv

-----------------------------------------------------------------------------
(* The steps *)

LEMMA Origins ==
    ASSUME NEW f, NEW c, NEW ph, NEW has, NEW more,
           Origin(f, c, ph, has), has \subseteq more
    PROVE  Origin(f, c, ph, more)
BY DEF Origin

LEMMA DownloadKeepsFInv == ASSUME FInv, DownloadFile PROVE FInv'
<1>1. fetchPc = "fetch" /\ step <= Len(Steps(comp)) /\ Now.do = "download" /\ Advance
  BY DEF DownloadFile, At
<1>2. PICK good \in BOOLEAN, holds \in Layout(Now.name) :
          /\ Passes(good)
          /\ staged' = staged \cup
                 { [name |-> Now.name, dir |-> Now.dir, good |-> good, sum |-> sum,
                    arch |-> UrlArch(Now.name, Arch), holds |-> holds] }
          /\ held' = held \cup { << m, holds[m] >> : m \in DOMAIN holds }
  BY DEF DownloadFile
<1> DEFINE new == [name |-> Now.name, dir |-> Now.dir, good |-> good, sum |-> sum,
                   arch |-> UrlArch(Now.name, Arch), holds |-> holds]
           ph == Phase(comp, step)
           next == Phase(comp, step + 1)
<1>3. /\ DOMAIN new = Fields /\ new.name = Now.name /\ new.dir = Now.dir
      /\ new.good = good /\ new.sum = sum /\ new.holds = holds
      /\ new.arch = UrlArch(Now.name, Arch)
  BY DEF Fields
<1>4. staged' = staged \cup {new} /\ sum' = "none"
  BY <1>2 DEF DownloadFile
<1> HIDE DEF new
<1>5. StepIs(comp, step, Now, ph, next) /\ sum \in Pending(comp, step)
  BY <1>1, Here
<1>6. Right(new, Arch)
  <2>1. Now.dir \in {"bin", "tmp"}
    BY <1>1, <1>5 DEF StepIs
  <2>2. sum \in Answer
    BY <1>5, PendingIsAnswer
  <2>3. ~ good => sum \notin {"right", "wrong"}
    BY <1>2 DEF Passes
  <2>4. ~ good => sum \in IF Now.dir = "tmp" THEN WaivedFor(Now.name) ELSE Waived(Now.name)
    BY <1>1, <1>5, <2>3 DEF StepIs
  <2>5. \/ UrlArch(Now.name, Arch) = toReleaseArch(Arch)
        \/ UrlArch(Now.name, Arch) = "amd64" /\ Arch # "arm64"
    BY DEF UrlArch, toReleaseArch
  <2> QED
    BY <1>3, <2>1, <2>2, <2>4, <2>5 DEF Right, Dir
<1>7. sum' \in Pending(comp, step + 1)
  BY <1>1, <1>4, <1>5 DEF StepIs
<1>8. Left(Now, staged')
  BY <1>1, <1>3, <1>4 DEF Left, InBin
<1>9. CASE Now.dir = "bin"
  <2>1. next = ph /\ Members(Now.name) = {}
    BY <1>1, <1>5, <1>9 DEF StepIs
  <2>2. DOMAIN holds = {}
    BY <2>1 DEF Layout
  <2>3. held' = held
    BY <1>2, <2>2
  <2>4. \A f \in staged' : Right(f, Arch) /\ Origin(f, comp, next, held')
    BY <1>3, <1>4, <1>6, <1>9, <2>1, <2>3 DEF FInv, Origin
  <2>5. Kept(comp, next, staged', held')
    BY <1>4, <2>1, <2>3 DEF FInv, Kept
  <2> HIDE DEF next, ph
  <2> QED
    BY <1>1, <1>4, <1>7, <1>8, <2>4, <2>5, Advances DEF next
<1>10. CASE Now.dir # "bin"
  <2>1. /\ Now.dir = "tmp" /\ Now.name = ArchiveOf(comp)
        /\ ph = "before" /\ next = "packed"
    BY <1>1, <1>5, <1>10 DEF StepIs
  <2>2. \A f \in staged : f.dir = "bin"
    BY <2>1 DEF FInv, Origin
  <2>3. Origin(new, comp, next, held')
    BY <1>2, <1>3, <2>1 DEF Origin
  <2>4. \A f \in staged' : Right(f, Arch) /\ Origin(f, comp, next, held')
    BY <1>4, <1>6, <2>2, <2>3 DEF FInv, Origin
  <2>5. held' = { << m, holds[m] >> : m \in DOMAIN holds }
    BY <1>2, <2>1 DEF FInv, Kept
  <2>6. ASSUME NEW n, << n, "expected" >> \in held'
        PROVE  Holds(new, n, next)
    <3>1. n \in DOMAIN holds /\ holds[n] = "expected"
      BY <2>5, <2>6
    <3> QED
      BY <1>3, <2>1, <3>1 DEF Holds
  <2>7. Kept(comp, next, staged', held')
    BY <1>4, <2>1, <2>6 DEF Kept
  <2> HIDE DEF next, ph
  <2> QED
    BY <1>1, <1>4, <1>7, <1>8, <2>4, <2>7, Advances DEF next
<1> QED
  BY <1>9, <1>10

\* A member of an archive, extracted.
LEMMA MemberIsRight ==
    ASSUME NEW f, NEW arch, NEW c, NEW has, NEW kind, NEW m,
           Right(f, arch), f.dir = "tmp", f.name = ArchiveOf(c), f.holds \in Layout(f.name),
           \A n \in DOMAIN f.holds : << n, f.holds[n] >> \in has,
           m \in DOMAIN f.holds, Lands(kind, f.holds[m]) # "skipped",
           NEW g,
           DOMAIN g = Fields, g.name = m, g.dir = Lands(kind, f.holds[m]),
           g.good = f.good, g.sum = f.sum, g.arch = f.arch
    PROVE  /\ Right(g, arch)
           /\ kind = "bundle" => Origin(g, c, "extracted", has)
           /\ kind # "bundle" => Origin(g, c, "final", has)
<1> DEFINE place == f.holds[m]
<1>1. /\ DOMAIN g = Fields /\ g.name = m /\ g.dir = Lands(kind, place)
      /\ g.good = f.good /\ g.sum = f.sum /\ g.arch = f.arch
  OBVIOUS
<1>2. m \in Members(f.name) /\ place \in MemberPlace /\ << m, place >> \in has
  BY DEF Layout
<1> HIDE DEF place
<1>3. Lands(kind, place) \in Dir \ {"tmp"}
  BY <1>2 DEF Lands, MemberPlace, Dir, place
<1>4. WaivedFor(f.name) \subseteq Waived(m)
  <2>1. CASE f.name = "crictl.tar.gz"
    BY <1>2, <2>1 DEF Members, WaivedFor, Waived
  <2>2. CASE f.name = "crio.tar.gz"
    BY <1>2, <2>2 DEF Members, WaivedFor, Waived
  <2>3. CASE f.name \notin {"crictl.tar.gz", "crio.tar.gz"}
    BY <2>3 DEF WaivedFor
  <2> QED
    BY <2>1, <2>2, <2>3
<1>5. Right(g, arch)
  BY <1>1, <1>3, <1>4 DEF Right
<1>6. ASSUME kind = "bundle"
      PROVE  Origin(g, c, "extracted", has)
  <2>1. << g.name, place >> \in has /\ g.dir = Lands("bundle", place)
    BY <1>1, <1>2, <1>6
  <2> QED
    BY <1>2, <1>6, <2>1 DEF Origin
<1>7. ASSUME kind # "bundle"
      PROVE  Origin(g, c, "final", has)
  <2>1. \/ g.dir = "bin"
        \/ g.dir = "elsewhere" /\ place = "below"
    BY <1>1, <1>2, <1>7 DEF Lands, MemberPlace, place
  <2>2. << g.name, place >> \in has
    BY <1>1, <1>2
  <2> QED
    BY <1>7, <2>1, <2>2 DEF Origin
<1> QED
  BY <1>1, <1>5, <1>6, <1>7 DEF place

LEMMA ExtractKeepsFInv == ASSUME FInv, ExtractTar PROVE FInv'
<1> DEFINE ph == Phase(comp, step)
           next == Phase(comp, step + 1)
           kind == Now.kind
           Put(f, m) == [f EXCEPT !.name = m, !.dir = Lands(kind, f.holds[m]), !.holds = << >>]
<1>1. /\ fetchPc = "fetch" /\ step <= Len(Steps(comp)) /\ Now.do = "extract" /\ Advance
      /\ held' = held /\ sum' = sum
  BY DEF ExtractTar, At
<1>2. StepIs(comp, step, Now, ph, next) /\ sum \in Pending(comp, step)
  BY <1>1, Here
<1>3. /\ ph = "packed" /\ next = IF kind = "bundle" THEN "extracted" ELSE "final"
      /\ kind # "bundle" => comp # "crio"
      /\ sum' \in Pending(comp, step + 1)
  BY <1>1, <1>2 DEF StepIs
<1>4. staged' = UNION { IF f.dir = "tmp" THEN Extracted(f) ELSE {f} : f \in staged }
  BY DEF ExtractTar
<1>5. ASSUME NEW f \in staged
      PROVE  /\ Right(f, Arch)
             /\ f.dir # "tmp" => f.dir = "bin"
             /\ f.dir = "tmp" => /\ f.name = ArchiveOf(comp) /\ f.holds \in Layout(f.name)
                                 /\ \A n \in DOMAIN f.holds : << n, f.holds[n] >> \in held
  BY <1>3 DEF FInv, Origin
<1>6. ASSUME NEW f \in staged, f.dir = "tmp", NEW m \in DOMAIN f.holds,
             Lands(kind, f.holds[m]) # "skipped"
      PROVE  /\ Right(Put(f, m), Arch) /\ Origin(Put(f, m), comp, next, held)
             /\ Put(f, m).name = m /\ Put(f, m).dir = Lands(kind, f.holds[m])
             /\ Put(f, m) \in staged'
  <2>1. Put(f, m) \in Extracted(f)
    BY <1>6 DEF Extracted
  <2>2. Put(f, m) \in staged'
    BY <1>4, <1>6, <2>1
  <2> DEFINE g == Put(f, m)
  <2>3. /\ DOMAIN g = Fields /\ g.name = m /\ g.dir = Lands(kind, f.holds[m])
        /\ g.good = f.good /\ g.sum = f.sum /\ g.arch = f.arch
    <3>1. DOMAIN f = Fields
      BY <1>5 DEF Right
    <3> QED
      BY <3>1 DEF Fields
  <2>4. next = IF kind = "bundle" THEN "extracted" ELSE "final"
    BY <1>3
  <2> HIDE DEF kind, next, ph, g, Put
  <2>5. /\ Right(g, Arch)
        /\ kind = "bundle" => Origin(g, comp, "extracted", held)
        /\ kind # "bundle" => Origin(g, comp, "final", held)
    <3>1. /\ Right(f, Arch) /\ f.dir = "tmp" /\ f.name = ArchiveOf(comp)
          /\ f.holds \in Layout(f.name)
          /\ \A n \in DOMAIN f.holds : << n, f.holds[n] >> \in held
      BY <1>5, <1>6
    <3>2. Lands(kind, f.holds[m]) # "skipped"
      BY <1>6
    <3> QED
      BY <2>3, <3>1, <3>2, MemberIsRight
  <2> QED
    BY <2>2, <2>3, <2>4, <2>5 DEF g
<1>7. ASSUME NEW g \in staged'
      PROVE  Right(g, Arch) /\ Origin(g, comp, next, held')
  <2>1. PICK f \in staged : g \in IF f.dir = "tmp" THEN Extracted(f) ELSE {f}
    BY <1>4
  <2>2. CASE f.dir = "tmp"
    <3>1. PICK m \in DOMAIN f.holds : Lands(kind, f.holds[m]) # "skipped" /\ g = Put(f, m)
      BY <2>1, <2>2 DEF Extracted
    <3> HIDE DEF Put, kind, next
    <3> QED
      BY <1>1, <1>6, <2>2, <3>1
  <2>3. CASE f.dir # "tmp"
    BY <1>5, <2>1, <2>3 DEF Origin
  <2> QED
    BY <2>2, <2>3
<1>8. ASSUME NEW n, << n, "expected" >> \in held'
      PROVE  \E g \in staged' : Holds(g, n, next)
  <2>1. PICK f \in staged : f.dir = "tmp" /\ n \in DOMAIN f.holds /\ f.holds[n] = "expected"
    BY <1>1, <1>3, <1>8 DEF FInv, Kept, Holds
  <2>2. Lands(kind, "expected") = IF kind = "bundle" THEN "cri-o/bin" ELSE "bin"
    BY DEF Lands
  <2>3. Holds(Put(f, n), n, next) /\ Put(f, n) \in staged'
    <3>1. Lands(kind, f.holds[n]) = Lands(kind, "expected")
      BY <2>1
    <3> HIDE DEF Put, kind, next
    <3> QED
      BY <1>3, <1>6, <2>1, <2>2, <3>1 DEF Holds
  <2> QED
    BY <2>3
<1>9. Kept(comp, next, staged', held')
  BY <1>3, <1>8 DEF Kept
<1>10. \A f \in staged : f.dir = "bin" => f \in staged'
  BY <1>4
<1>11. Left(Now, staged')
  BY <1>1 DEF Left
<1> HIDE DEF next, ph
<1> QED
  BY <1>1, <1>3, <1>7, <1>9, <1>10, <1>11, Advances DEF next

\* A file whose place alone changes.
LEMMA PlaceChanges ==
    ASSUME NEW f, DOMAIN f = Fields, NEW place
    PROVE  LET g == [f EXCEPT !.dir = place]
           IN  /\ DOMAIN g = Fields /\ g.name = f.name /\ g.dir = place
               /\ g.good = f.good /\ g.sum = f.sum /\ g.arch = f.arch
BY DEF Fields

LEMMA MovedIsRight ==
    ASSUME NEW f, NEW arch, NEW c, NEW has,
           Right(f, arch), Origin(f, c, "extracted", has), NEW g \in Moved(f)
    PROVE  Right(g, arch) /\ Origin(g, c, "final", has)
<1>1. DOMAIN f = Fields /\ f.dir # "tmp"
  BY DEF Right, Origin, Lands, MemberPlace
<1>2. CASE f.dir = "cri-o/bin"
  <2>1. g = [f EXCEPT !.dir = "bin"]
    BY <1>2 DEF Moved
  <2>2. /\ DOMAIN g = Fields /\ g.name = f.name /\ g.dir = "bin"
        /\ g.good = f.good /\ g.sum = f.sum /\ g.arch = f.arch
    BY <1>1, <2>1, PlaceChanges
  <2> QED
    BY <1>1, <2>2 DEF Right, Origin, Dir
<1>3. CASE f.dir = "cri-o/bin/*"
  <2>1. g = [f EXCEPT !.dir = "elsewhere"]
    BY <1>3 DEF Moved
  <2>2. /\ DOMAIN g = Fields /\ g.name = f.name /\ g.dir = "elsewhere"
        /\ g.good = f.good /\ g.sum = f.sum /\ g.arch = f.arch
    BY <1>1, <2>1, PlaceChanges
  <2>3. << f.name, "below" >> \in has
    BY <1>3 DEF Origin, Lands, MemberPlace
  <2> QED
    BY <1>1, <2>2, <2>3 DEF Right, Origin, Dir
<1>4. CASE f.dir = "cri-o"
  BY <1>4 DEF Moved
<1>5. CASE f.dir \notin {"cri-o/bin", "cri-o/bin/*", "cri-o"}
  <2>1. g = f
    BY <1>5 DEF Moved
  <2>2. f.dir = "bin" \/ (f.dir = "elsewhere" /\ << f.name, "outside" >> \in has)
    BY <1>5 DEF Origin, Lands, MemberPlace
  <2> QED
    BY <2>1, <2>2 DEF Origin
<1> QED
  BY <1>2, <1>3, <1>4, <1>5

LEMMA MoveKeepsFInv == ASSUME FInv, Move PROVE FInv'
<1> DEFINE next == Phase(comp, step + 1)
<1>1. /\ fetchPc = "fetch" /\ step <= Len(Steps(comp)) /\ Now.do = "move" /\ Advance
      /\ held' = held /\ sum' = sum
  BY DEF Move, At
<1>2. /\ comp = "crio" /\ Phase(comp, step) = "extracted" /\ next = "final"
      /\ sum' \in Pending(comp, step + 1)
  BY <1>1, Here DEF StepIs
<1>3. staged' = UNION { Moved(f) : f \in staged }
  BY DEF Move
<1>4. \A f \in staged : Right(f, Arch) /\ Origin(f, comp, "extracted", held)
  BY <1>2 DEF FInv
<1>5. ASSUME NEW g \in staged'
      PROVE  Right(g, Arch) /\ Origin(g, comp, next, held')
  <2>1. PICK f \in staged : g \in Moved(f)
    BY <1>3
  <2> HIDE DEF next
  <2> QED
    BY <1>1, <1>2, <1>4, <2>1, MovedIsRight
<1>6. ASSUME NEW n, << n, "expected" >> \in held'
      PROVE  \E g \in staged' : Holds(g, n, next)
  <2>1. PICK f \in staged : f.name = n /\ f.dir = "cri-o/bin"
    BY <1>1, <1>2, <1>6 DEF FInv, Kept, Holds
  <2> DEFINE g == [f EXCEPT !.dir = "bin"]
  <2>2. g.name = n /\ g.dir = "bin"
    BY <1>4, <2>1, PlaceChanges DEF Right
  <2>3. g \in Moved(f)
    BY <2>1 DEF Moved
  <2> HIDE DEF g, next
  <2> QED
    BY <1>2, <1>3, <2>2, <2>3 DEF Holds
<1>7. \E m \in held' : m[2] \in {"expected", "below"} \/ m[1] = "bin"
  <2>1. PICK f \in staged : \/ f.dir \in {"cri-o/bin", "cri-o/bin/*"}
                            \/ f.dir = "cri-o" /\ f.name = "bin"
    BY DEF Move
  <2>2. PICK place \in MemberPlace :
            << f.name, place >> \in held /\ f.dir = Lands("bundle", place)
    BY <1>4, <2>1 DEF Origin
  <2>3. place \in {"expected", "below"} \/ f.name = "bin"
    BY <2>1, <2>2 DEF Lands, MemberPlace
  <2>4. << f.name, place >>[2] = place /\ << f.name, place >>[1] = f.name
    OBVIOUS
  <2> QED
    BY <1>1, <2>2, <2>3, <2>4
<1>8. Kept(comp, next, staged', held')
  BY <1>2, <1>6, <1>7 DEF Kept
<1>9. \A f \in staged : f.dir = "bin" => f \in staged'
  <2> SUFFICES ASSUME NEW f \in staged, f.dir = "bin"
               PROVE  f \in staged'
    OBVIOUS
  <2>1. f \in Moved(f)
    BY DEF Moved
  <2> QED
    BY <1>3, <2>1
<1>10. Left(Now, staged')
  BY <1>1 DEF Left
<1> HIDE DEF next
<1> QED
  BY <1>1, <1>2, <1>5, <1>8, <1>9, <1>10, Advances DEF next

LEMMA MakeKeepsFInv == ASSUME FInv, Make PROVE FInv'
<1> DEFINE ph == Phase(comp, step)
           next == Phase(comp, step + 1)
           names == IF Now.do = "link" THEN {"kubectl", "crictl", "ctr"}
                    ELSE {"kubernetes-version"}
           New(n) == [name |-> n, dir |-> "bin", good |-> TRUE, sum |-> "none",
                      arch |-> toReleaseArch(Arch), holds |-> << >>]
<1>1. /\ fetchPc = "fetch" /\ step <= Len(Steps(comp)) /\ Now.do \in {"marker", "link"}
      /\ Advance /\ held' = held /\ sum' = sum
  BY DEF Make, At
<1>2. next = ph /\ ph \in {"before", "final"} /\ sum' \in Pending(comp, step + 1)
  BY <1>1, Here DEF StepIs
<1>3. staged' = staged \cup { New(n) : n \in names }
  BY DEF Make
<1>4. ASSUME NEW n
      PROVE  /\ Right(New(n), Arch) /\ Origin(New(n), comp, next, held')
             /\ New(n).name = n /\ New(n).dir = "bin"
  BY DEF Right, Origin, Fields, Dir, Answer
<1> HIDE DEF New
<1>5. \A g \in staged' : Right(g, Arch) /\ Origin(g, comp, next, held')
  <2> SUFFICES ASSUME NEW g \in staged'
               PROVE  Right(g, Arch) /\ Origin(g, comp, next, held')
    OBVIOUS
  <2>1. CASE g \in staged
    <3>1. Right(g, Arch) /\ Origin(g, comp, ph, held)
      BY <2>1 DEF FInv
    <3> HIDE DEF next, ph
    <3> QED
      BY <1>1, <1>2, <3>1
  <2>2. CASE g \notin staged
    <3>1. PICK n \in names : g = New(n)
      BY <1>3, <2>2
    <3> HIDE DEF next, names
    <3> QED
      BY <1>4, <3>1
  <2> QED
    BY <2>1, <2>2
<1>6. Kept(comp, next, staged', held')
  <2>1. Kept(comp, ph, staged, held)
    BY DEF FInv
  <2> HIDE DEF next, ph
  <2> QED
    BY <1>1, <1>2, <1>3, <2>1 DEF Kept
<1>7. Left(Now, staged')
  <2> SUFFICES ASSUME NEW n \in Links, Now.do = "link"
               PROVE  InBin(n, staged')
    BY <1>1 DEF Left
  <2>1. New(n) \in staged'
    BY <1>3 DEF Links
  <2> QED
    BY <1>4, <2>1 DEF InBin
<1>8. \A f \in staged : f.dir = "bin" => f \in staged'
  BY <1>3
<1> HIDE DEF next, ph
<1> QED
  BY <1>1, <1>2, <1>5, <1>6, <1>7, <1>8, Advances DEF next

LEMMA AnswerKeepsFInv == ASSUME FInv, FetchChecksum \/ FetchText PROVE FInv'
<1> DEFINE ph == Phase(comp, step)
           next == Phase(comp, step + 1)
<1>1. /\ fetchPc = "fetch" /\ step <= Len(Steps(comp)) /\ Now.do \in {"sum", "text"}
      /\ Advance /\ UNCHANGED << staged, held >>
  BY DEF FetchChecksum, FetchText, At
<1>2. StepIs(comp, step, Now, ph, next) /\ sum \in Pending(comp, step)
  BY <1>1, Here
<1>3. next = ph
  BY <1>1, <1>2 DEF StepIs
<1>4. sum' \in Pending(comp, step + 1)
  BY <1>1, <1>2 DEF StepIs, FetchChecksum, FetchText, At
<1>5. \A f \in staged' : Right(f, Arch) /\ Origin(f, comp, next, held')
  BY <1>1, <1>3 DEF FInv
<1>6. Kept(comp, next, staged', held')
  BY <1>1, <1>3 DEF FInv
<1>7. Left(Now, staged')
  BY <1>1 DEF Left
<1> HIDE DEF next, ph
<1> QED
  BY <1>1, <1>4, <1>5, <1>6, <1>7, Advances DEF next

\* What a Fetch function that returns leaves is as an image is to be.
LEMMA StagedIsPacked ==
    ASSUME FInv, fetchPc = "fetch", step = Len(Steps(comp)) + 1, Arch \in SysextArch
    PROVE  Packed(comp, [files |-> staged, held |-> held], Arch)
<1> DEFINE image == [files |-> staged, held |-> held]
           ph == Phase(comp, step)
<1>1. image.files = staged /\ image.held = held
  OBVIOUS
<1>2. comp \in Components /\ (ph = "final" \/ comp = "k3s") /\ ph \in {"before", "final"}
  BY EndFacts DEF FInv, RunType
<1>3. Kept(comp, ph, staged, held)
  BY DEF FInv
<1>4. \A f \in staged : Right(f, Arch) /\ Origin(f, comp, ph, held)
  BY DEF FInv
<1> HIDE DEF image, ph
<1>5. ASSUME NEW n \in Promised(comp)
      PROVE  InBin(n, staged) \/ (n \in Archived(comp) /\ << n, "expected" >> \notin held)
  <2>1. CASE n \in Archived(comp)
    <3>1. ph = "final"
      BY <1>2, <2>1, EndFacts
    <3> QED
      BY <1>3, <2>1, <3>1 DEF Kept, Holds, InBin
  <2>2. CASE n \notin Archived(comp)
    <3>1. PICK i \in 1 .. Len(Steps(comp)) :
              \/ Steps(comp)[i] = Get(n)
              \/ Steps(comp)[i].do = "link" /\ n \in Links
      BY <1>2, <1>5, <2>2, EndFacts
    <3>2. Len(Steps(comp)) \in Nat
      BY <1>2, EndFacts
    <3>3. i \in 1 .. step - 1
      BY <3>2
    <3>4. Left(Steps(comp)[i], staged)
      BY <3>3 DEF FInv
    <3> QED
      BY <3>1, <3>4 DEF Left, Get
  <2> QED
    BY <2>1, <2>2
<1>6. ASSUME NEW f \in staged
      PROVE  \/ f.dir = "bin"
             \/ /\ f.dir = "elsewhere"
                /\ \E place \in {"below", "outside"} : << f.name, place >> \in held
  BY <1>2, <1>4 DEF Origin
<1>7. comp = "crio" => \E m \in held : m[2] \in {"expected", "below"} \/ m[1] = "bin"
  BY <1>2, <1>3 DEF Kept
<1>8. Whole(comp, image)
  BY <1>1, <1>5, <1>6, <1>7 DEF Whole
<1>9. ASSUME NEW f \in staged
      PROVE  /\ f.sum \in Answer
             /\ ~ f.good => f.sum \in Waived(f.name)
             /\ f.arch = toReleaseArch(Arch)
  <2>1. Right(f, Arch) /\ f.dir # "tmp"
    BY <1>4, <1>6
  <2> QED
    BY <2>1 DEF Right, SysextArch, toReleaseArch
<1> QED
  BY <1>1, <1>8, <1>9 DEF Packed, image

LEMMA FetchedKeepsFInv == ASSUME FInv, Fetched PROVE FInv'
<1> DEFINE image == [files |-> staged, held |-> held]
<1>1. /\ fetchPc = "fetch" /\ step = Len(Steps(comp)) + 1 /\ Arch \in SysextArch
      /\ images' = Append(images, image) /\ step' = 1 /\ staged' = {} /\ held' = {}
      /\ UNCHANGED << comp, arches, sum >>
      /\ fetchPc' = IF Len(images') = Len(arches) THEN "done" ELSE "fetch"
  BY DEF Fetched, AllFetched
<1>2. PICK S : images \in Seq(S)
  BY DEF FInv, RunType
<1> DEFINE T == S \cup {image}
<1>3. images \in Seq(T) /\ image \in T
  BY <1>2
<1>4. Packed(comp, image, Arch)
  BY <1>1, StagedIsPacked
<1>5. comp \in Components /\ Steps(comp)' = Steps(comp) /\ Len(Steps(comp)) \in Nat
  BY <1>1, EndFacts DEF FInv, RunType, Steps
<1> HIDE DEF image, T
<1>6. /\ images' \in Seq(T) /\ Len(images') = Len(images) + 1
      /\ \A a \in DOMAIN images' :
             \/ a \in DOMAIN images /\ images'[a] = images[a]
             \/ a = Len(images) + 1 /\ images'[a] = image
  BY <1>1, <1>3
<1>7. Len(images) \in Nat /\ Len(images) < Len(arches) /\ Len(arches) \in Nat
  BY <1>1 DEF FInv, RunType, FetchAssumption
<1>8. RunType'
  <2>1. sum \in Pending(comp, 1)
    BY <1>1, <1>5, EndFacts DEF FInv, RunType
  <2>2. Len(images') \in 0 .. Len(arches)
    BY <1>6, <1>7
  <2> QED
    BY <1>1, <1>5, <1>6, <1>7, <2>1, <2>2 DEF FInv, RunType
<1>9. \A a \in DOMAIN images' : Packed(comp, images'[a], arches[a])
  BY <1>4, <1>6 DEF FInv, Arch
<1>10. Kept(comp', Phase(comp, step)', staged', held')
  <2>1. Phase(comp, step)' = Phase(comp, 1)
    BY <1>1 DEF Phase, ExtractsAt
  <2> QED
    BY <1>1, <1>5, <2>1, NothingStaged
<1> QED
  BY <1>1, <1>8, <1>9, <1>10 DEF FInv

LEMMA StopKeepsFInv ==
    ASSUME FInv, FetchChecksumPanics \/ FetchFails \/ UNCHANGED fetchVars
    PROVE  FInv'
<1>1. /\ UNCHANGED << comp, arches, step, staged, held, images >>
      /\ UNCHANGED << fetchPc, sum >> \/ fetchPc' \in {"failed", "panicked"}
      /\ sum' \in Answer
  BY DEF FetchChecksumPanics, FetchFails, fetchVars, Panics, Answer, FInv, RunType
<1>2. /\ Steps(comp)' = Steps(comp) /\ Arch' = Arch
      /\ Phase(comp, step)' = Phase(comp, step) /\ Pending(comp, step)' = Pending(comp, step)
  BY <1>1 DEF Steps, Arch, Phase, ExtractsAt, Pending
<1> QED
  BY <1>1, <1>2 DEF FInv, RunType

-----------------------------------------------------------------------------

LEMMA FInvHolds == FetchSpec => []FInv
<1>1. FetchInit => FInv
  <2> SUFFICES ASSUME FetchInit
               PROVE  FInv
    OBVIOUS
  <2>1. comp \in Component \cap Components /\ arches \in ArchLists
    BY FetchAssumption DEF FetchInit, Components
  <2>2. /\ fetchPc = "fetch" /\ step = 1 /\ staged = {} /\ sum = "none" /\ held = {}
        /\ images = << >> /\ images \in Seq({}) /\ DOMAIN images = {} /\ Len(images) = 0
    BY DEF FetchInit
  <2>3. Len(arches) \in Nat /\ Len(arches) > 0
    <3>1. arches \in Seq(STRING) /\ arches # << >>
      BY <2>1, FetchAssumption
    <3> QED
      BY <3>1
  <2>4. Len(Steps(comp)) \in Nat /\ Pending(comp, 1) = {"none"}
    BY <2>1, EndFacts
  <2>5. Kept(comp, Phase(comp, 1), {}, {})
    BY <2>1, NothingStaged
  <2>6. RunType
    BY <2>1, <2>2, <2>3, <2>4 DEF RunType, Answer
  <2> QED
    BY <2>2, <2>5, <2>6 DEF FInv
<1>2. FInv /\ [FetchNext]_fetchVars => FInv'
  BY DownloadKeepsFInv, ExtractKeepsFInv, MoveKeepsFInv, MakeKeepsFInv,
     AnswerKeepsFInv, FetchedKeepsFInv, StopKeepsFInv DEF FetchNext
<1> QED
  BY <1>1, <1>2, PTL DEF FetchSpec

\* For every list of architectures, every component and every answer, FetchTypeOK.
THEOREM FetchTypes == FetchSpec => []FetchTypeOK
<1>1. FInv => FetchTypeOK
  BY DEF FInv, RunType, FetchTypeOK, Right, Packed, Whole, Dir
<1> QED
  BY <1>1, FInvHolds, PTL

\* Bytes other than the publisher's are in an image only as a file whose checksum
\* the code was to do without: never as containerd or a CNI plugin.
THEOREM FetchVerifies == FetchSpec => []VerifiedIfPublished
<1>1. FInv => VerifiedIfPublished
  BY DEF FInv, Packed, VerifiedIfPublished
<1> QED
  BY <1>1, FInvHolds, PTL

\* The files of every image that is packed are of the architecture it was asked
\* for, for every list of architectures, also of such as there is no image for.
THEOREM FetchImageIsOfItsArch == FetchSpec => []ImageIsOfItsArch
<1>1. FInv => ImageIsOfItsArch
  BY DEF FInv, Packed, ImageIsOfItsArch
<1> QED
  BY <1>1, FInvHolds, PTL

\* A Fetch function that returns has put every binary where binaries go that was
\* where it is expected, whatever else was in the archives.
THEOREM FetchIsComplete == FetchSpec => []FetchedIsComplete
<1>1. FInv => FetchedIsComplete
  BY DEF FInv, Packed, Whole, InBin, FetchedIsComplete
<1> QED
  BY <1>1, FInvHolds, PTL
=============================================================================
