---------------------------- MODULE ImageProofs -----------------------------
(***************************************************************************)
(* Theorems of Image, for every set of invocations, every block and every  *)
(* length of the images.                                                   *)
(*                                                                         *)
(* While no two builds overlap, only the one that opened the file last is  *)
(* writing, and the file holds what that one has written (FileInv): what a *)
(* build before it left was truncated.                                     *)
(***************************************************************************)
EXTENDS Image, TLAPS

\* What is missing to a boundary is less than a block.
LEMMA PadLengthType ==
    ASSUME NEW size \in Nat
    PROVE  PadLength(size) \in 0 .. Block - 1
  BY SizeAssumption DEF PadLength

\* With it the length is on a boundary.
LEMMA PadLengthAligns ==
    ASSUME NEW size \in Nat
    PROVE  (size + PadLength(size)) % Block = 0
  <1> DEFINE r == size % Block
             q == size \div Block
  <1>1. /\ Block \in Nat /\ Block > 0
        /\ r \in 0 .. Block - 1 /\ q \in Nat
        /\ size = Block * q + r
    BY SizeAssumption
  <1>2. CASE r = 0
    BY <1>1, <1>2 DEF PadLength
  <1>3. CASE r # 0
    <2>1. PadLength(size) = Block - r
      BY <1>1, <1>3 DEF PadLength
    <2>2. size + PadLength(size) = Block * (q + 1)
      BY <1>1, <2>1
    <2> HIDE DEF r, q
    <2>3. (Block * (q + 1)) % Block = 0
      BY <1>1
    <2> QED
      BY <2>2, <2>3
  <1> QED
    BY <1>2, <1>3

-----------------------------------------------------------------------------

\* What the opener p of the file has put into it by now, when it is alone.
FileOf(p) ==
    /\ whole => raw = Complete(p) /\ pc[p] \notin Writing
    /\ pc[p] = "body" => raw = Truncated
    /\ pc[p] = "super" =>
           raw = [body |-> p, super |-> NoOne, size |-> ImageSize[p]]
    /\ pc[p] \in {"stat", "pad"} =>
           raw = [body |-> p, super |-> p, size |-> ImageSize[p]]
    /\ pc[p] = "pad" => padding[p] = PadLength(ImageSize[p])

FileInv ==
    /\ opener = NoOne => ~ whole /\ \A q \in Proc : pc[q] \notin Writing
    /\ opener # NoOne /\ ~ overlapped =>
           /\ \A q \in Proc : q # opener => pc[q] \notin Writing
           /\ FileOf(opener)

\* What is in the registry is what was read, and what was read of a file that
\* was whole is the image of its opener.
PushInv ==
    \A p \in Proc :
        /\ takenFrom[p] # NoOne => layerDesc[p] = Complete(takenFrom[p])
        /\ layers[p] # NoFile => layers[p] = layerDesc[p] /\ pc[p] = "pushed"

Inv == TypeOK /\ FileInv /\ PushInv

\* A file has a length.
LEMMA FileIsThere ==
    ASSUME NEW f \in File
    PROVE  f # NoFile
  <1>1. f.size \in Nat /\ NoFile.size = -1
    BY DEF File, NoFile
  <1> QED
    BY <1>1

\* The invariant holds before anybody has started.
LEMMA InvInit == Init => Inv
  <1> SUFFICES ASSUME Init PROVE Inv
    OBVIOUS
  <1> USE DEF Init
  <1>1. TypeOK
    <2>1. padding \in [Proc -> 0 .. Block - 1]
      BY SizeAssumption
    <2>2. \A p \in Proc : pc[p] \notin Writing
      BY DEF Writing
    <2> QED
      BY <2>1, <2>2 DEF TypeOK
  <1>2. FileInv
    BY DEF FileInv, Writing
  <1>3. PushInv
    BY DEF PushInv
  <1> QED
    BY <1>1, <1>2, <1>3 DEF Inv

\* The types, for every step.
LEMMA TypeStep ==
    ASSUME Inv, [Next]_vars
    PROVE  TypeOK'
  <1> USE DEF Inv, TypeOK, Live, Ended, Writing
  <1>1. CASE UNCHANGED vars
    BY <1>1 DEF vars, history
  <1>2. ASSUME NEW p \in Proc, Start(p) \/ Fail(p)
        PROVE  TypeOK'
    BY <1>2 DEF Start, Fail, history
  <1>3. ASSUME NEW p \in Proc, Stage(p)
        PROVE  TypeOK'
    BY <1>3, TreeAssumption DEF Stage, history
  <1>4. ASSUME NEW p \in Proc, Create(p)
        PROVE  TypeOK'
    <2>1. Truncated \in File
      BY DEF Truncated, File, Writer
    <2>2. /\ raw' = Truncated
          /\ pc' = [pc EXCEPT ![p] = "body"]
          /\ opener' = p /\ whole' = FALSE
          /\ overlapped' = \E q \in Proc : pc[q] \in Writing
          /\ UNCHANGED << tree, padding, layerDesc, layers, takenFrom >>
      BY <1>4 DEF Create, opened
    <2>3. raw' \in File /\ raw' # NoFile
      BY <2>1, <2>2, FileIsThere
    <2>4. overlapped' \in BOOLEAN
      BY <2>2
    <2>5. pc' \in [Proc -> {"idle"} \cup Live \cup Ended]
      BY <2>2
    <2> QED
      BY <2>2, <2>3, <2>4, <2>5
  <1>5. ASSUME NEW p \in Proc, WriteBody(p)
        PROVE  TypeOK'
    <2>1. raw \in File
      BY <1>5 DEF WriteBody
    <2>2. raw' \in File
      BY <1>5, <2>1, SizeAssumption DEF WriteBody, Longer, File, Writer
    <2>3. raw' # NoFile
      BY <2>2, FileIsThere
    <2> QED
      BY <1>5, <2>2, <2>3 DEF WriteBody, Longer, history
  <1>6. ASSUME NEW p \in Proc, WriteSuper(p)
        PROVE  TypeOK'
    <2>1. raw \in File
      BY <1>6 DEF WriteSuper
    <2>2. raw' \in File
      BY <1>6, <2>1, SizeAssumption DEF WriteSuper, Longer, File, Writer
    <2>3. raw' # NoFile
      BY <2>2, FileIsThere
    <2> QED
      BY <1>6, <2>2, <2>3 DEF WriteSuper, Longer, history
  <1>7. ASSUME NEW p \in Proc, PadStat(p)
        PROVE  TypeOK'
    <2>1. raw.size \in Nat
      BY <1>7 DEF PadStat, File, NoFile
    <2> QED
      BY <1>7, <2>1, PadLengthType DEF PadStat, history
  <1>8. ASSUME NEW p \in Proc, PadWrite(p)
        PROVE  TypeOK'
    <2>1. raw \in File
      BY <1>8 DEF PadWrite
    <2>2. raw' \in File
      BY <1>8, <2>1, SizeAssumption DEF PadWrite, File, Writer
    <2>3. raw' # NoFile
      BY <2>2, FileIsThere
    <2> QED
      BY <1>8, <2>2, <2>3 DEF PadWrite
  <1>9. ASSUME NEW p \in Proc, Hash(p)
        PROVE  TypeOK'
    BY <1>9 DEF Hash
  <1>10. ASSUME NEW p \in Proc, Upload(p)
         PROVE  TypeOK'
    BY <1>10 DEF Upload, history
  <1> QED
    BY <1>1, <1>2, <1>3, <1>4, <1>5, <1>6, <1>7, <1>8, <1>9, <1>10 DEF Next

\* A step that touches neither the file nor a build of it.
LEMMA FileKept ==
    ASSUME Inv, NEW p \in Proc, NEW step, step \notin Writing,
           pc[p] \notin Writing, pc' = [pc EXCEPT ![p] = step],
           UNCHANGED << raw, padding, opener, overlapped, whole >>
    PROVE  FileInv'
  <1>1. \A q \in Proc : pc'[q] = pc[q]
                        \/ (pc'[q] \notin Writing /\ pc[q] \notin Writing)
    BY DEF Inv, TypeOK
  <1>2. opener \in Proc \cup {NoOne}
    BY DEF Inv, TypeOK
  <1> QED
    BY <1>1, <1>2 DEF Inv, FileInv, FileOf, Writing

\* The file holds what its opener has written, when it is alone.
LEMMA FileStep ==
    ASSUME Inv, [Next]_vars
    PROVE  FileInv'
  <1> USE DEF Inv
  <1>1. CASE UNCHANGED vars
    BY <1>1 DEF vars, history, FileInv, FileOf
  <1>2. ASSUME NEW p \in Proc,
               Start(p) \/ Stage(p) \/ Hash(p) \/ Upload(p)
        PROVE  FileInv'
    <2>1. PICK step :
              /\ pc' = [pc EXCEPT ![p] = step]
              /\ step \notin Writing
      BY <1>2 DEF Start, Stage, Hash, Upload, Writing
    <2>2. pc[p] \notin Writing
      BY <1>2 DEF Start, Stage, Hash, Upload, Writing
    <2>3. UNCHANGED << raw, padding, opener, overlapped, whole >>
      BY <1>2 DEF Start, Stage, Hash, Upload, history
    <2> QED
      BY <2>1, <2>2, <2>3, FileKept
  <1>3. ASSUME NEW p \in Proc, Create(p)
        PROVE  FileInv'
    <2>1. /\ opener' = p /\ ~ whole' /\ raw' = Truncated
          /\ pc' = [pc EXCEPT ![p] = "body"]
          /\ overlapped' = \E q \in Proc : pc[q] \in Writing
      BY <1>3 DEF Create, opened
    <2>2. pc'[p] = "body" /\ \A q \in Proc : q # p => pc'[q] = pc[q]
      BY <2>1 DEF TypeOK
    <2> QED
      BY <2>1, <2>2, WriterAssumption DEF FileInv, FileOf
  <1>4. ASSUME NEW p \in Proc,
               \/ WriteBody(p) \/ WriteSuper(p) \/ PadStat(p) \/ PadWrite(p)
               \/ Fail(p) /\ pc[p] \in Writing
        PROVE  FileInv'
    <2>1. PICK step : pc' = [pc EXCEPT ![p] = step]
      BY <1>4 DEF WriteBody, WriteSuper, PadStat, PadWrite, Fail
    <2>2. pc'[p] = step /\ \A q \in Proc : q # p => pc'[q] = pc[q]
      BY <2>1 DEF TypeOK
    <2>3. pc[p] \in Writing /\ UNCHANGED << opener, overlapped >>
      BY <1>4 DEF WriteBody, WriteSuper, PadStat, PadWrite, Fail, history, Writing
    <2>4. opener # NoOne
      BY <2>3 DEF FileInv
    <2>5. SUFFICES ASSUME ~ overlapped PROVE FileOf(p)' /\ opener = p
      BY <2>2, <2>3, <2>4 DEF FileInv
    <2>6. opener = p /\ FileOf(p)
      BY <2>3, <2>4, <2>5 DEF FileInv
    <2>7. ~ whole
      BY <2>3, <2>6 DEF FileOf
    <2>8. ImageSize[p] \in Nat /\ ImageSize[p] > 0
      BY SizeAssumption
    <2>9. CASE WriteBody(p)
      BY <2>2, <2>6, <2>7, <2>8, <2>9
      DEF WriteBody, FileOf, Truncated, Longer, history, TypeOK
    <2>10. CASE WriteSuper(p)
      BY <2>2, <2>6, <2>7, <2>8, <2>10
      DEF WriteSuper, FileOf, Longer, history, TypeOK
    <2>11. CASE PadStat(p)
      BY <2>2, <2>6, <2>7, <2>8, <2>11 DEF PadStat, FileOf, history, TypeOK
    <2>12. CASE PadWrite(p)
      BY <2>2, <2>6, <2>7, <2>8, <2>12
      DEF PadWrite, FileOf, Complete, Writing, TypeOK
    <2>13. CASE Fail(p)
      BY <2>2, <2>6, <2>7, <2>13 DEF Fail, FileOf, history, TypeOK
    <2> QED
      BY <1>4, <2>6, <2>9, <2>10, <2>11, <2>12, <2>13
  <1>5. ASSUME NEW p \in Proc, Fail(p), pc[p] \notin Writing
        PROVE  FileInv'
    <2>1. /\ pc' = [pc EXCEPT ![p] = "failed"]
          /\ UNCHANGED << raw, padding, opener, overlapped, whole >>
      BY <1>5 DEF Fail, history
    <2> QED
      BY <1>5, <2>1, FileKept DEF Writing
  <1> QED
    BY <1>1, <1>2, <1>3, <1>4, <1>5 DEF Next

\* What is pushed is what was read.
LEMMA PushStep ==
    ASSUME Inv, [Next]_vars
    PROVE  PushInv'
  <1> USE DEF Inv
  <1>1. CASE UNCHANGED vars
    BY <1>1 DEF vars, history, PushInv, Complete
  <1>2. ASSUME NEW p \in Proc, NEW step, pc[p] # "pushed",
               pc' = [pc EXCEPT ![p] = step],
               UNCHANGED << layerDesc, layers, takenFrom >>
        PROVE  PushInv'
    BY <1>2 DEF PushInv, Complete, TypeOK
  <1>3. ASSUME NEW p \in Proc,
               \/ Start(p) \/ Stage(p) \/ Create(p) \/ WriteBody(p)
               \/ WriteSuper(p) \/ PadStat(p) \/ PadWrite(p) \/ Fail(p)
        PROVE  PushInv'
    <2>1. pc[p] # "pushed" /\ UNCHANGED << layerDesc, layers, takenFrom >>
      BY <1>3 DEF Start, Stage, Create, WriteBody, WriteSuper, PadStat, PadWrite,
                  Fail, Live, Writing, history
    <2>2. \E step : pc' = [pc EXCEPT ![p] = step]
      BY <1>3 DEF Start, Stage, Create, WriteBody, WriteSuper, PadStat, PadWrite,
                  Fail
    <2> QED
      BY <1>2, <2>1, <2>2
  <1>4. ASSUME NEW p \in Proc, Hash(p)
        PROVE  PushInv'
    <2>1. whole /\ ~ overlapped => raw = Complete(opener)
      BY DEF FileInv, FileOf
    <2> QED
      BY <1>4, <2>1 DEF Hash, PushInv, Complete, TypeOK
  <1>5. ASSUME NEW p \in Proc, Upload(p)
        PROVE  PushInv'
    BY <1>5 DEF Upload, history, PushInv, Complete, TypeOK
  <1> QED
    BY <1>1, <1>3, <1>4, <1>5 DEF Next

\* Every step of every invocation keeps the invariant.
LEMMA InvNext == Inv /\ [Next]_vars => Inv'
  BY TypeStep, FileStep, PushStep DEF Inv

\* The invariant: types, the file is its opener's work as long as no two
\* builds overlap, and the registry has what was read of it.
THEOREM ImageInv == Spec => []Inv
  BY InvInit, InvNext, PTL DEF Spec

\* Types, and the padding is always less than a block.
THEOREM ImageTypeOK == Spec => []TypeOK
  <1>1. Inv => TypeOK
    BY DEF Inv
  <1> QED
    BY <1>1, ImageInv, PTL

\* What a failed or killed build left never reaches the registry through a
\* later build that no other ran into.
THEOREM ImageCleanBuildIsPublishedWhole == Spec => []CleanBuildIsPublishedWhole
  <1>1. Inv => CleanBuildIsPublishedWhole
    BY DEF Inv, PushInv, CleanBuildIsPublishedWhole
  <1> QED
    BY <1>1, ImageInv, PTL

\* Such an image ends on a block, with less than a block of padding.
THEOREM ImagePublishedIsAligned == Spec => []PublishedIsAligned
  <1>1. Inv => PublishedIsAligned
    <2> SUFFICES ASSUME Inv, NEW p \in Proc,
                        layers[p] # NoFile, takenFrom[p] # NoOne
                 PROVE  /\ layers[p].size % Block = 0
                        /\ layers[p].size - ImageSize[takenFrom[p]] < Block
      BY DEF PublishedIsAligned
    <2> DEFINE n == ImageSize[takenFrom[p]]
    <2>0. layers[p] = Complete(takenFrom[p])
      BY DEF Inv, PushInv
    <2>1. layers[p].size = n + PadLength(n)
      BY <2>0 DEF Complete
    <2>2. n \in Nat
      BY SizeAssumption DEF Inv, TypeOK
    <2>3. PadLength(n) \in 0 .. Block - 1 /\ (n + PadLength(n)) % Block = 0
      BY <2>2, PadLengthType, PadLengthAligns
    <2> HIDE DEF n
    <2>4. layers[p].size - n < Block
      BY <2>1, <2>2, <2>3, SizeAssumption
    <2> QED
      BY <2>1, <2>3, <2>4 DEF n
  <1> QED
    BY <1>1, ImageInv, PTL
=============================================================================
