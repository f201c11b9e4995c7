------------------------ MODULE PreviewArtifactProofs ------------------------
(***************************************************************************)
(* Proofs about PreviewArtifact for any number of writers and of acts of   *)
(* other programs: what is published is whole and validated, temporaries   *)
(* are removed or told of, and meshes belong to their manifest.            *)
(***************************************************************************)
EXTENDS PreviewArtifact, TLAPS

(* The labels after the write, and those after the self-validation. *)
Written == {"metadata", "load", "hash", "hashing", "publish"}
Validated == {"hash", "hashing", "publish"}

(* Each signature a writer holds is that of the temporary, unless another   *)
(* program has touched it since; then it is older and stays so.  Under the  *)
(* signature it holds after the self-validation the file is whole.          *)
ChainInv(w) ==
    /\ writer[w].pc \in Written => writer[w].stamp <= disk[w].stamp
    /\ writer[w].pc \in Validated /\ Untouched(w) => Content(w) = Whole(w)
    /\ writer[w].pc \in {"hashing", "publish"} => writer[w].report = Whole(w)

(* How a call stands and ends. *)
CallInv(w) ==
    /\ temporary[w] \in {"none", w, Stray}
    /\ writer[w].outcome = "running" <=> writer[w].pc \notin {"cleanup", "done"}
    /\ writer[w].pc = "cleanup" => writer[w].outcome = "raised"
    /\ writer[w].outcome = "published" => Sound(w) /\ temporary[w] = "none"
    /\ writer[w].outcome = "raised" /\ At(w, "done") =>
          temporary[w] # w \/ writer[w].told

(* A stray file is none of a writer's, and a writer's file reaches the      *)
(* destination by its success.                                              *)
FileInv ==
    /\ disk[Stray].of = Stray
    /\ destination \in Writers \union {Nobody}
    /\ destination \in Writers => writer[destination].outcome = "published"

(* A loader has seen the metadata of the document, and meshes of it alone.  *)
ReaderInv ==
    /\ reader.pc \in {"closed", "opening", "read", "open", "loading"} => reader.members = {}
    /\ reader.pc = "viewed" => reader.view = reader.manifest
    /\ reader.members \subseteq {reader.manifest}

IndInv ==
    /\ TypeOK
    /\ \A w \in Writers : ChainInv(w) /\ CallInv(w)
    /\ FileInv
    /\ ReaderInv

LEMMA InductiveInit == Init => IndInv
<1> SUFFICES ASSUME Init PROVE IndInv
  OBVIOUS
<1>1. disk \in [Inodes -> [of : Inodes, whole : BOOLEAN, stamp : Nat]]
  <2>1. \A i \in Inodes : (i = Nobody) \in BOOLEAN
    BY Zenon
  <2>2. \A i \in Inodes : (IF i = Nobody THEN i ELSE Stray) \in Inodes
    BY DEF Inodes
  <2>3. QED
    BY <2>1, <2>2 DEF Init
<1>2. writer \in [Writers -> Calls]
  <2>1. Nothing \in Contents
    BY DEF Nothing, Contents, Inodes
  <2>2. QED
    BY <2>1 DEF Init, Calls, WriterPcs, Errors
<1>3. reader \in Documents
  BY DEF Init, Documents, ReaderPcs, Inodes
<1>4. TypeOK
  <2>1. destination \in Inodes
    BY DEF Init, Inodes
  <2>2. temporary \in [Writers -> Inodes \union {"none"}]
    BY DEF Init
  <2>3. tampering \in 0..MaxTampering
    BY ArtifactAssumption DEF Init
  <2>4. QED
    BY <1>1, <1>2, <1>3, <2>1, <2>2, <2>3 DEF TypeOK
<1>5. ASSUME NEW w \in Writers PROVE ChainInv(w) /\ CallInv(w)
  BY DEF Init, ChainInv, CallInv, Written, Validated
<1>6. FileInv /\ ReaderInv
  BY ArtifactAssumption DEF Init, FileInv, ReaderInv, Inodes
<1>7. QED
  BY <1>4, <1>5, <1>6 DEF IndInv

----------------------------------------------------------------------------
(* Helpers. *)

(* What is said of a writer stays when nothing of it changes. *)
LEMMA Untroubled ==
    ASSUME NEW u \in Writers, ChainInv(u), CallInv(u),
           writer'[u] = writer[u], temporary'[u] = temporary[u], disk'[u] = disk[u]
    PROVE  ChainInv(u)' /\ CallInv(u)'
  BY DEF ChainInv, CallInv, Untouched, Content, Whole, Sound, At

(* A step of writer w that leaves the others, the destination and the       *)
(* reader alone, and w unpublished.                                         *)
LEMMA StepOfWriter ==
    ASSUME IndInv, NEW w \in Writers, TypeOK',
           writer[w].outcome # "published",
           \A u \in Writers \ {w} : /\ writer'[u] = writer[u]
                                    /\ temporary'[u] = temporary[u]
                                    /\ disk'[u] = disk[u],
           disk'[Stray] = disk[Stray],
           ChainInv(w)', CallInv(w)',
           UNCHANGED <<destination, reader>>
    PROVE  IndInv'
<1>1. ASSUME NEW u \in Writers PROVE ChainInv(u)' /\ CallInv(u)'
  <2>1. CASE u = w
    BY <2>1
  <2>2. CASE u # w
    BY <2>2, Untroubled DEF IndInv
  <2>3. QED
    BY <2>1, <2>2
<1>2. FileInv'
  <2>1. disk'[Stray].of = Stray
    BY DEF IndInv, FileInv
  <2>2. ASSUME destination \in Writers PROVE writer'[destination].outcome = "published"
    <3>1. destination # w
      BY <2>2 DEF IndInv, FileInv
    <3>2. QED
      BY <2>2, <3>1 DEF IndInv, FileInv
  <2>3. QED
    BY <2>1, <2>2 DEF IndInv, FileInv
<1>3. ReaderInv'
  BY DEF IndInv, ReaderInv
<1>4. QED
  BY <1>1, <1>2, <1>3 DEF IndInv

(* A writer fails: only its call and its own file change. *)
LEMMA Failing ==
    ASSUME IndInv, NEW w \in Writers, NEW cancelled \in BOOLEAN, Fail(w, cancelled),
           writer[w].outcome = "running",
           disk' \in [Inodes -> [of : Inodes, whole : BOOLEAN, stamp : Nat]],
           \A i \in Inodes \ {w} : disk'[i] = disk[i],
           UNCHANGED <<destination, temporary, reader, tampering>>
    PROVE  IndInv'
<1>1. writer \in [Writers -> Calls] /\ writer[w] \in Calls
  BY DEF IndInv, TypeOK
<1>2. TypeOK'
  <2>1. Nothing \in Contents
    BY DEF Nothing, Contents, Inodes
  <2>2. ErrorOf(w, cancelled) \in Errors
    BY DEF ErrorOf, Errors
  <2>3. writer' \in [Writers -> Calls]
    BY <1>1, <2>1, <2>2 DEF Fail, Calls, WriterPcs
  <2>4. QED
    BY <2>3 DEF IndInv, TypeOK
<1>3. /\ writer'[w].pc = "cleanup"
      /\ writer'[w].outcome = "raised"
  BY <1>1 DEF Fail, Calls
<1>4. \A u \in Writers \ {w} : writer'[u] = writer[u]
  BY <1>1 DEF Fail
<1>5. ChainInv(w)'
  BY <1>3 DEF ChainInv, Written, Validated
<1>6. CallInv(w)'
  BY <1>3 DEF IndInv, CallInv, At
<1>7. Stray # w /\ Stray \in Inodes /\ Writers \subseteq Inodes
  BY ArtifactAssumption DEF Inodes
<1>8. QED
  BY <1>2, <1>4, <1>5, <1>6, <1>7, StepOfWriter

(* A writer goes on to a label before the publication, and nothing else     *)
(* changes.                                                                 *)
LEMMA GoingOn ==
    ASSUME IndInv, NEW w \in Writers, NEW label \in WriterPcs \ {"cleanup", "done"},
           Goto(w, label), writer[w].outcome = "running",
           label \in Written => writer[w].pc \in Written,
           label \in Validated => writer[w].pc \in Validated
                                  \/ Content(w) = Whole(w),
           label \in {"hashing", "publish"} => writer[w].pc \in {"hashing", "publish"},
           UNCHANGED <<disk, destination, temporary, reader, tampering>>
    PROVE  IndInv'
<1>1. writer \in [Writers -> Calls] /\ writer[w] \in Calls
  BY DEF IndInv, TypeOK
<1>2. TypeOK'
  <2>1. writer' \in [Writers -> Calls]
    BY <1>1 DEF Goto, Calls
  <2>2. QED
    BY <2>1 DEF IndInv, TypeOK
<1>3. writer'[w] = [writer[w] EXCEPT !.pc = label]
  BY <1>1 DEF Goto
<1>4. /\ writer'[w].pc = label
      /\ writer'[w].outcome = "running"
      /\ writer'[w].stamp = writer[w].stamp
      /\ writer'[w].report = writer[w].report
  BY <1>1, <1>3 DEF Calls
<1>5. \A u \in Writers \ {w} : writer'[u] = writer[u]
  BY <1>1 DEF Goto
<1>6. ChainInv(w)'
  <2>1. ChainInv(w)
    BY DEF IndInv
  <2>2. Untouched(w)' <=> Untouched(w)
    BY <1>4 DEF Untouched
  <2>3. Content(w)' = Content(w) /\ Whole(w)' = Whole(w)
    BY DEF Content, Whole
  <2>4. QED
    BY <1>4, <2>1, <2>2, <2>3 DEF ChainInv
<1>7. CallInv(w)'
  BY <1>4 DEF IndInv, CallInv, At
<1>8. QED
  BY <1>2, <1>4, <1>5, <1>6, <1>7, StepOfWriter

----------------------------------------------------------------------------
(* The actions. *)

(* Nothing a writer knows of its file gets true by an overwriting.  The     *)
(* stray file is at no path that other programs overwrite.                  *)
LEMMA StepTamper == IndInv /\ Tamper => IndInv'
<1> SUFFICES ASSUME IndInv, Tamper PROVE IndInv'
  OBVIOUS
<1> USE DEF Tamper
<1>1. TypeOK /\ FileInv /\ ReaderInv /\ \A u \in Writers : ChainInv(u) /\ CallInv(u)
  BY DEF IndInv
<1>2. tampering' \in 0..MaxTampering
  BY <1>1, ArtifactAssumption DEF TypeOK
<1>3. Writers \subseteq Inodes /\ Stray \in Inodes /\ Nobody \in Inodes
  BY DEF Inodes
<1>4. ASSUME NEW w \in Writers, MoveTemporary(w) PROVE IndInv'
  <2> USE <1>4 DEF MoveTemporary
  <2>1. temporary' \in [Writers -> Inodes \union {"none"}]
    BY <1>1, <1>3 DEF TypeOK
  <2>2. TypeOK'
    BY <1>1, <1>2, <2>1 DEF TypeOK
  <2>3. temporary'[w] \in {"none", Stray}
    BY <1>1 DEF TypeOK
  <2>4. temporary'[w] # w
    BY <2>3, ArtifactAssumption
  <2>5. \A u \in Writers \ {w} : temporary'[u] = temporary[u]
    BY <1>1 DEF TypeOK
  <2>6. ASSUME NEW u \in Writers PROVE ChainInv(u)' /\ CallInv(u)'
    <3>1. CASE u # w
      BY <1>1, <2>5, <3>1, Untroubled
    <3>2. CASE u = w
      <4>1. ChainInv(w)'
        BY <1>1, <2>4 DEF ChainInv, Untouched
      <4>2. writer[w].outcome # "published"
        BY <1>1, ArtifactAssumption DEF CallInv
      <4>3. CallInv(w)'
        BY <1>1, <2>3, <2>4, <4>2 DEF CallInv, At
      <4>4. QED
        BY <3>2, <4>1, <4>3
    <3>3. QED
      BY <3>1, <3>2
  <2>7. FileInv' /\ ReaderInv'
    BY <1>1 DEF FileInv, ReaderInv
  <2>8. QED
    BY <2>2, <2>6, <2>7 DEF IndInv
<1>5. ASSUME NEW i \in {destination} \union {w \in Writers : temporary[w] = w}, Overwrite(i)
      PROVE  IndInv'
  <2>1. PICK of \in {Nobody, disk[i].of, disk[destination].of}, whole \in BOOLEAN :
           disk' = [disk EXCEPT ![i] = [of |-> of, whole |-> whole, stamp |-> @.stamp + 1]]
    BY <1>5 DEF Overwrite
  <2>2. UNCHANGED <<temporary, destination, writer, reader>>
    BY <1>5 DEF Overwrite
  <2>3. i \in Inodes /\ destination \in Inodes /\ i # Stray
    BY <1>1, <1>3, ArtifactAssumption DEF FileInv
  <2>4. /\ of \in Inodes
        /\ \A j \in Inodes : disk[j].stamp \in Nat
    BY <1>1, <1>3, <2>3 DEF TypeOK
  <2>5. disk' \in [Inodes -> [of : Inodes, whole : BOOLEAN, stamp : Nat]]
    <3>1. disk[i].stamp + 1 \in Nat
      BY <2>3, <2>4
    <3>2. [of |-> of, whole |-> whole, stamp |-> disk[i].stamp + 1]
             \in [of : Inodes, whole : BOOLEAN, stamp : Nat]
      BY <2>4, <3>1, Zenon
    <3>3. QED
      BY <1>1, <2>1, <2>3, <3>2 DEF TypeOK
  <2>6. TypeOK'
    BY <1>1, <1>2, <2>2, <2>5 DEF TypeOK
  <2>7. /\ \A j \in Inodes \ {i} : disk'[j] = disk[j]
        /\ disk'[i].stamp = disk[i].stamp + 1
    BY <1>1, <2>1, <2>3 DEF TypeOK
  <2>8. ASSUME NEW u \in Writers PROVE ChainInv(u)' /\ CallInv(u)'
    <3>1. CASE u # i
      BY <1>1, <1>3, <2>2, <2>7, <3>1, Untroubled
    <3>2. CASE u = i
      <4>1. writer[u].stamp \in Nat /\ disk[u].stamp \in Nat
        BY <1>1, <2>4, <3>2, <2>3 DEF TypeOK, Calls
      <4>2. disk'[u].stamp = disk[u].stamp + 1
        BY <2>7, <3>2
      <4>3. writer[u].pc \in Written =>
               writer[u].stamp <= disk'[u].stamp /\ writer[u].stamp # disk'[u].stamp
        BY <1>1, <4>1, <4>2 DEF ChainInv
      <4>4. Validated \subseteq Written
        BY DEF Validated, Written
      <4>5. ChainInv(u)'
        BY <1>1, <2>2, <4>3, <4>4 DEF ChainInv, Untouched, Whole
      <4>6. CallInv(u)'
        BY <1>1, <2>2 DEF CallInv, Sound, Whole, At
      <4>7. QED
        BY <4>5, <4>6
    <3>3. QED
      BY <3>1, <3>2
  <2>9. FileInv' /\ ReaderInv'
    BY <1>1, <1>3, <2>2, <2>3, <2>7 DEF FileInv, ReaderInv
  <2>10. QED
    BY <2>6, <2>8, <2>9 DEF IndInv
<1>6. QED
  BY <1>4, <1>5

LEMMA StepRaise == ASSUME IndInv, NEW w \in Writers, Raise(w) PROVE IndInv'
<1>1. PICK cancelled \in BOOLEAN : Fail(w, cancelled)
  BY DEF Raise
<1>2. writer[w].outcome = "running"
  BY DEF Raise, IndInv, CallInv
<1>3. disk' \in [Inodes -> [of : Inodes, whole : BOOLEAN, stamp : Nat]]
  BY DEF Raise, IndInv, TypeOK
<1>4. QED
  BY <1>1, <1>2, <1>3, Failing DEF Raise

(* An interrupted call says nothing of its temporary. *)
LEMMA StepInterrupt == ASSUME IndInv, NEW w \in Writers, Interrupt(w) PROVE IndInv'
<1>1. writer \in [Writers -> Calls] /\ writer[w] \in Calls
  BY DEF IndInv, TypeOK
<1>2. writer' \in [Writers -> Calls]
  BY <1>1 DEF Interrupt, Calls, WriterPcs
<1>3. TypeOK'
  BY <1>2 DEF Interrupt, IndInv, TypeOK
<1>4. /\ writer'[w].pc = "done"
      /\ writer'[w].outcome = "interrupted"
  BY <1>1 DEF Interrupt, Calls
<1>5. \A u \in Writers \ {w} : writer'[u] = writer[u]
  BY <1>1 DEF Interrupt
<1>6. ChainInv(w)'
  BY <1>4 DEF ChainInv, Written, Validated
<1>7. CallInv(w)'
  BY <1>4 DEF Interrupt, IndInv, CallInv, At
<1>8. writer[w].outcome # "published"
  BY DEF Interrupt, IndInv, CallInv, At
<1>9. QED
  BY <1>3, <1>4, <1>5, <1>6, <1>7, <1>8, StepOfWriter DEF Interrupt

LEMMA StepCreateTemporary ==
    ASSUME IndInv, NEW w \in Writers, CreateTemporary(w) PROVE IndInv'
<1>1. writer \in [Writers -> Calls] /\ writer[w] \in Calls
  BY DEF IndInv, TypeOK
<1>2. /\ temporary' \in [Writers -> Inodes \union {"none"}]
      /\ temporary'[w] = w
      /\ \A u \in Writers \ {w} : temporary'[u] = temporary[u]
  BY DEF CreateTemporary, IndInv, TypeOK, Inodes
<1>3. /\ writer' \in [Writers -> Calls]
      /\ \A u \in Writers \ {w} : writer'[u] = writer[u]
      /\ \/ writer'[w].pc = "write" /\ writer'[w].outcome = "running"
         \/ writer'[w].pc = "done" /\ writer'[w].outcome = "raised" /\ writer'[w].told
  <2>1. writer[w].outcome = "running"
    BY DEF CreateTemporary, At, IndInv, CallInv
  <2>2. CASE Goto(w, "write")
    BY <1>1, <2>1, <2>2 DEF Goto, Calls, WriterPcs
  <2>3. CASE writer' = [writer EXCEPT ![w].pc = "done", ![w].outcome = "raised",
                                      ![w].error = "failed", ![w].told = TRUE]
    BY <1>1, <2>3 DEF Calls, WriterPcs, Errors
  <2>4. QED
    BY <2>2, <2>3 DEF CreateTemporary
<1>4. TypeOK'
  BY <1>2, <1>3 DEF CreateTemporary, IndInv, TypeOK
<1>5. ChainInv(w)'
  BY <1>3 DEF ChainInv, Written, Validated
<1>6. CallInv(w)'
  BY <1>2, <1>3 DEF CallInv, At
<1>7. writer[w].outcome # "published"
  BY DEF CreateTemporary, At, IndInv, CallInv
<1>8. QED
  BY <1>2, <1>3, <1>4, <1>5, <1>6, <1>7, StepOfWriter DEF CreateTemporary

LEMMA StepBeginWrite == ASSUME IndInv, NEW w \in Writers, BeginWrite(w) PROVE IndInv'
<1> USE DEF BeginWrite
<1>1. writer \in [Writers -> Calls] /\ writer[w] \in Calls
  BY DEF IndInv, TypeOK
<1>2. writer[w].outcome = "running"
  BY DEF At, IndInv, CallInv
<1>3. /\ w \in Inodes /\ Stray \in Inodes /\ w # Stray
      /\ disk \in [Inodes -> [of : Inodes, whole : BOOLEAN, stamp : Nat]]
      /\ disk[w].stamp \in Nat
  BY ArtifactAssumption DEF IndInv, TypeOK, Inodes
<1>4. CASE /\ temporary[w] = w
           /\ disk' = [disk EXCEPT ![w] = [of |-> w, whole |-> FALSE, stamp |-> @.stamp + 1]]
           /\ writer' = [writer EXCEPT ![w].pc = "writing", ![w].stamp = disk[w].stamp + 1]
  <2>1. disk' \in [Inodes -> [of : Inodes, whole : BOOLEAN, stamp : Nat]]
    BY <1>3, <1>4
  <2>2. \A i \in Inodes \ {w} : disk'[i] = disk[i]
    BY <1>3, <1>4
  <2>3. /\ writer' \in [Writers -> Calls]
        /\ writer'[w].pc = "writing"
        /\ writer'[w].outcome = "running"
        /\ \A u \in Writers \ {w} : writer'[u] = writer[u]
    <3> HIDE DEF BeginWrite
    <3>1. writer' = [writer EXCEPT ![w].pc = "writing", ![w].stamp = disk[w].stamp + 1]
      BY <1>4
    <3>2. disk[w].stamp + 1 \in Nat
      BY <1>3
    <3>3. QED
      BY <1>1, <1>2, <3>1, <3>2 DEF Calls, WriterPcs
  <2>4. TypeOK'
    BY <2>1, <2>3 DEF IndInv, TypeOK
  <2>5. ChainInv(w)'
    BY <2>3 DEF ChainInv, Written, Validated
  <2>6. CallInv(w)'
    BY <2>3 DEF IndInv, CallInv, At
  <2>7. Writers \subseteq Inodes
    BY DEF Inodes
  <2>8. QED
    BY <1>2, <1>3, <2>2, <2>3, <2>4, <2>5, <2>6, <2>7, StepOfWriter
<1>5. CASE Fail(w, FALSE) /\ UNCHANGED disk
  BY <1>2, <1>3, <1>5, Failing
<1>6. QED
  BY <1>4, <1>5

LEMMA StepEndWrite == ASSUME IndInv, NEW w \in Writers, EndWrite(w) PROVE IndInv'
<1> USE DEF EndWrite
<1>1. writer \in [Writers -> Calls] /\ writer[w] \in Calls
  BY DEF IndInv, TypeOK
<1>2. writer[w].outcome = "running"
  BY DEF At, IndInv, CallInv
<1>3. /\ w \in Inodes /\ Stray \in Inodes /\ w # Stray
      /\ disk \in [Inodes -> [of : Inodes, whole : BOOLEAN, stamp : Nat]]
      /\ disk[w].stamp \in Nat
  BY ArtifactAssumption DEF IndInv, TypeOK, Inodes
<1>4. /\ disk' \in [Inodes -> [of : Inodes, whole : BOOLEAN, stamp : Nat]]
      /\ \A i \in Inodes \ {w} : disk'[i] = disk[i]
      /\ disk'[w].stamp = disk[w].stamp + 1
  <2>1. (disk[w].stamp = writer[w].stamp) \in BOOLEAN
    BY Zenon
  <2>2. QED
    BY <1>3, <2>1
<1>5. CASE temporary[w] = w
  <2>1. /\ writer' \in [Writers -> Calls]
        /\ writer'[w].pc = "metadata"
        /\ writer'[w].outcome = "running"
        /\ writer'[w].stamp = disk[w].stamp + 1
        /\ \A u \in Writers \ {w} : writer'[u] = writer[u]
    BY <1>1, <1>2, <1>3, <1>5 DEF Calls, WriterPcs
  <2>2. TypeOK'
    BY <1>4, <2>1 DEF IndInv, TypeOK
  <2>3. ChainInv(w)'
    BY <1>3, <1>4, <2>1 DEF ChainInv, Written, Validated
  <2>4. CallInv(w)'
    BY <2>1 DEF IndInv, CallInv, At
  <2>5. Writers \subseteq Inodes
    BY DEF Inodes
  <2>6. QED
    BY <1>2, <1>3, <1>4, <2>1, <2>2, <2>3, <2>4, <2>5, StepOfWriter
<1>6. CASE temporary[w] # w
  BY <1>2, <1>4, <1>6, Failing
<1>7. QED
  BY <1>5, <1>6

LEMMA StepReopenMetadata ==
    ASSUME IndInv, NEW w \in Writers, ReopenMetadata(w) PROVE IndInv'
<1> USE DEF ReopenMetadata
<1>1. writer[w].outcome = "running"
  BY DEF At, IndInv, CallInv
<1>2. disk' \in [Inodes -> [of : Inodes, whole : BOOLEAN, stamp : Nat]]
  BY DEF IndInv, TypeOK
<1>3. CASE Goto(w, "load")
  BY <1>1, <1>3, GoingOn DEF At, Written, Validated, WriterPcs
<1>4. CASE Fail(w, FALSE)
  BY <1>1, <1>2, <1>4, Failing
<1>5. QED
  BY <1>3, <1>4

(* Only the writer's own file can pass the loading of the meshes.           *)
LEMMA StepReopenMeshes ==
    ASSUME IndInv, NEW w \in Writers, ReopenMeshes(w) PROVE IndInv'
<1> USE DEF ReopenMeshes
<1>1. writer[w].outcome = "running"
  BY DEF At, IndInv, CallInv
<1>2. disk' \in [Inodes -> [of : Inodes, whole : BOOLEAN, stamp : Nat]]
  BY DEF IndInv, TypeOK
<1>3. CASE /\ temporary[w] # "none" /\ Content(temporary[w]) = Whole(w)
           /\ Goto(w, "hash")
  <2>1. temporary[w] # Stray
    BY <1>3, ArtifactAssumption DEF IndInv, FileInv, Content, Whole
  <2>2. Content(w) = Whole(w)
    BY <1>3, <2>1 DEF IndInv, CallInv
  <2>3. QED
    BY <1>1, <1>3, <2>2, GoingOn DEF At, Written, Validated, WriterPcs
<1>4. CASE Fail(w, FALSE)
  BY <1>1, <1>2, <1>4, Failing
<1>5. QED
  BY <1>3, <1>4

LEMMA StepBeginHash == ASSUME IndInv, NEW w \in Writers, BeginHash(w) PROVE IndInv'
<1> USE DEF BeginHash
<1>1. writer \in [Writers -> Calls] /\ writer[w] \in Calls
  BY DEF IndInv, TypeOK
<1>2. writer[w].outcome = "running"
  BY DEF At, IndInv, CallInv
<1>3. disk' \in [Inodes -> [of : Inodes, whole : BOOLEAN, stamp : Nat]]
  BY DEF IndInv, TypeOK
<1>4. CASE /\ Untouched(w)
           /\ writer' = [writer EXCEPT ![w].pc = "hashing", ![w].report = Content(w)]
  <2>1. Content(w) = Whole(w)
    BY <1>4 DEF At, IndInv, ChainInv, Validated
  <2>2. Whole(w) \in Contents
    BY DEF Whole, Contents, Inodes
  <2>3. /\ writer' \in [Writers -> Calls]
        /\ writer'[w].pc = "hashing"
        /\ writer'[w].outcome = "running"
        /\ writer'[w].stamp = writer[w].stamp
        /\ writer'[w].report = Whole(w)
        /\ \A u \in Writers \ {w} : writer'[u] = writer[u]
    BY <1>1, <1>2, <1>4, <2>1, <2>2 DEF Calls, WriterPcs
  <2>4. TypeOK'
    BY <2>3 DEF IndInv, TypeOK
  <2>5. writer[w].stamp <= disk[w].stamp
    BY DEF At, IndInv, ChainInv, Written
  <2>6. Content(w)' = Whole(w)' /\ Whole(w)' = Whole(w)
    BY <2>1 DEF Content, Whole
  <2>7. ChainInv(w)'
    BY <2>3, <2>5, <2>6 DEF ChainInv
  <2>8. CallInv(w)'
    BY <2>3 DEF IndInv, CallInv, At
  <2>9. QED
    BY <1>2, <2>3, <2>4, <2>7, <2>8, StepOfWriter
<1>5. CASE Fail(w, FALSE)
  BY <1>2, <1>3, <1>5, Failing
<1>6. QED
  BY <1>4, <1>5

LEMMA StepEndHash == ASSUME IndInv, NEW w \in Writers, EndHash(w) PROVE IndInv'
<1> USE DEF EndHash
<1>1. writer[w].outcome = "running"
  BY DEF At, IndInv, CallInv
<1>2. disk' \in [Inodes -> [of : Inodes, whole : BOOLEAN, stamp : Nat]]
  BY DEF IndInv, TypeOK
<1>3. CASE Goto(w, "publish")
  BY <1>1, <1>3, GoingOn DEF At, Written, Validated, WriterPcs
<1>4. CASE Fail(w, FALSE)
  BY <1>1, <1>2, <1>4, Failing
<1>5. QED
  BY <1>3, <1>4

(* What a writer publishes is what it validated and hashed.                 *)
LEMMA Published ==
    ASSUME IndInv, NEW w \in Writers, At(w, "publish"), Untouched(w),
           writer' = [writer EXCEPT ![w].pc = "done", ![w].outcome = "published",
                                    ![w].published = Content(w)]
    PROVE  /\ writer' \in [Writers -> Calls]
           /\ writer'[w].pc = "done"
           /\ writer'[w].outcome = "published"
           /\ Sound(w)'
           /\ \A u \in Writers \ {w} : writer'[u] = writer[u]
<1>1. writer \in [Writers -> Calls] /\ writer[w] \in Calls
  BY DEF IndInv, TypeOK
<1>2. Content(w) = Whole(w) /\ writer[w].report = Whole(w)
  BY DEF At, IndInv, ChainInv, Validated
<1>3. Whole(w) \in Contents
  BY DEF Whole, Contents, Inodes
<1>4. /\ writer' \in [Writers -> Calls]
      /\ writer'[w].pc = "done"
      /\ writer'[w].outcome = "published"
      /\ writer'[w].published = Whole(w)
      /\ writer'[w].report = Whole(w)
      /\ \A u \in Writers \ {w} : writer'[u] = writer[u]
  BY <1>1, <1>2, <1>3 DEF Calls, WriterPcs
<1>5. QED
  BY <1>4 DEF Sound, Whole

LEMMA StepPublish == ASSUME IndInv, NEW w \in Writers, Publish(w) PROVE IndInv'
<1>1. writer[w].outcome = "running"
  BY DEF Publish, At, IndInv, CallInv
<1>2. disk' = disk /\ reader' = reader /\ tampering' = tampering /\ At(w, "publish")
  BY DEF Publish
<1>3. disk' \in [Inodes -> [of : Inodes, whole : BOOLEAN, stamp : Nat]]
  BY <1>2 DEF IndInv, TypeOK
<1>4. CASE /\ Untouched(w)
           /\ destination' = w
           /\ temporary' = [temporary EXCEPT ![w] = "none"]
           /\ writer' = [writer EXCEPT ![w].pc = "done", ![w].outcome = "published",
                                       ![w].published = Content(w)]
  <2>1. /\ writer' \in [Writers -> Calls]
        /\ writer'[w].pc = "done"
        /\ writer'[w].outcome = "published"
        /\ Sound(w)'
        /\ \A u \in Writers \ {w} : writer'[u] = writer[u]
    BY <1>2, <1>4, Published
  <2>2. /\ temporary' \in [Writers -> Inodes \union {"none"}]
        /\ temporary'[w] = "none"
        /\ \A u \in Writers \ {w} : temporary'[u] = temporary[u]
    BY <1>4 DEF IndInv, TypeOK
  <2>3. TypeOK'
    BY <1>2, <1>4, <2>1, <2>2 DEF IndInv, TypeOK, Inodes
  <2>4. ASSUME NEW u \in Writers PROVE ChainInv(u)' /\ CallInv(u)'
    <3>1. CASE u # w
      BY <1>2, <2>1, <2>2, <3>1, Untroubled DEF IndInv
    <3>2. CASE u = w
      <4>1. ChainInv(w)'
        BY <2>1 DEF ChainInv, Written, Validated
      <4>2. CallInv(w)'
        BY <2>1, <2>2 DEF CallInv
      <4>3. QED
        BY <3>2, <4>1, <4>2
    <3>3. QED
      BY <3>1, <3>2
  <2>5. FileInv' /\ ReaderInv'
    BY <1>2, <1>4, <2>1 DEF IndInv, FileInv, ReaderInv
  <2>6. QED
    BY <2>3, <2>4, <2>5 DEF IndInv
<1>5. CASE Fail(w, FALSE) /\ UNCHANGED <<destination, temporary>>
  BY <1>1, <1>2, <1>3, <1>5, Failing
<1>6. QED
  BY <1>4, <1>5 DEF Publish

(* Either the file is gone, or the exception tells of it. *)
LEMMA StepCleanup == ASSUME IndInv, NEW w \in Writers, Cleanup(w) PROVE IndInv'
<1>1. writer \in [Writers -> Calls] /\ writer[w] \in Calls
  BY DEF IndInv, TypeOK
<1>2. writer[w].outcome = "raised"
  BY DEF Cleanup, At, IndInv, CallInv
<1>3. UNCHANGED <<disk, destination, reader, tampering>>
  BY DEF Cleanup
<1>4. /\ writer' \in [Writers -> Calls]
      /\ writer'[w].pc = "done"
      /\ writer'[w].outcome = "raised"
      /\ \A u \in Writers \ {w} : writer'[u] = writer[u] /\ temporary'[u] = temporary[u]
      /\ temporary' \in [Writers -> Inodes \union {"none"}]
      /\ temporary'[w] \in {"none", w, Stray}
      /\ temporary'[w] = "none" \/ writer'[w].told
  <2>1. temporary \in [Writers -> Inodes \union {"none"}] /\ temporary[w] \in {"none", w, Stray}
    BY DEF IndInv, TypeOK, CallInv
  <2>2. CASE /\ temporary' = [temporary EXCEPT ![w] = "none"]
             /\ Goto(w, "done")
    BY <1>1, <1>2, <2>1, <2>2 DEF Goto, Calls, WriterPcs
  <2>3. CASE /\ writer' = [writer EXCEPT ![w].pc = "done", ![w].told = TRUE]
             /\ UNCHANGED temporary
    BY <1>1, <1>2, <2>1, <2>3 DEF Calls, WriterPcs
  <2>4. QED
    BY <2>2, <2>3 DEF Cleanup
<1>5. TypeOK'
  BY <1>3, <1>4 DEF IndInv, TypeOK
<1>6. ChainInv(w)'
  BY <1>4 DEF ChainInv, Written, Validated
<1>7. CallInv(w)'
  BY <1>4, ArtifactAssumption DEF CallInv, At
<1>8. QED
  BY <1>2, <1>3, <1>4, <1>5, <1>6, <1>7, StepOfWriter

(* The reader changes nothing but its document.                             *)
LEMMA ReaderStep == ASSUME IndInv, Load PROVE reader' \in Documents /\ ReaderInv'
<1>1. /\ reader \in Documents
      /\ destination \in Inodes
      /\ disk[destination].stamp \in Nat
      /\ disk[reader.handle].of \in Inodes
  BY DEF IndInv, TypeOK, Documents
<1>2. ReaderInv
  BY DEF IndInv
<1>3. ASSUME NEW label \in {"opening", "loading"}, OpenPath(label), reader.members = {}
      PROVE  reader' \in Documents /\ ReaderInv'
  BY <1>1, <1>3 DEF OpenPath, Documents, ReaderPcs, ReaderInv
<1>4. ASSUME FailLoad PROVE reader' \in Documents /\ ReaderInv'
  BY <1>1, <1>4 DEF FailLoad, Documents, ReaderPcs, ReaderInv
<1>5. CASE BeginOpen \/ BeginLoad
  BY <1>2, <1>3, <1>5 DEF BeginOpen, BeginLoad, ReaderInv
<1>6. CASE ReadMetadata
  BY <1>1, <1>2, <1>6 DEF ReadMetadata, Documents, ReaderPcs, ReaderInv
<1>7. CASE EndOpen
  BY <1>1, <1>2, <1>7 DEF EndOpen, Documents, ReaderPcs, ReaderInv
<1>8. CASE ReadView
  BY <1>1, <1>2, <1>4, <1>8 DEF ReadView, Documents, ReaderPcs, ReaderInv
<1>9. CASE ReadMember
  <2>1. PICK m \in {disk[reader.handle].of} \union
                      (IF disk[reader.handle].whole THEN {} ELSE {Stray}) :
           IF m = reader.view
           THEN reader' = [reader EXCEPT !.members = @ \union {m}]
           ELSE FailLoad
    BY <1>9 DEF ReadMember
  <2>2. m \in Inodes
    BY <1>1, <2>1 DEF Inodes
  <2>3. CASE m = reader.view
    BY <1>1, <1>2, <1>9, <2>1, <2>2, <2>3 DEF ReadMember, Documents, ReaderPcs, ReaderInv
  <2>4. QED
    BY <1>4, <2>1, <2>3
<1>10. CASE EndLoad
  BY <1>1, <1>2, <1>4, <1>10 DEF EndLoad, Documents, ReaderPcs, ReaderInv
<1>11. CASE ReleaseSource
  BY <1>1, <1>2, <1>11 DEF ReleaseSource, Documents, ReaderPcs, ReaderInv
<1>12. QED
  BY <1>5, <1>6, <1>7, <1>8, <1>9, <1>10, <1>11 DEF Load

LEMMA StepLoad == IndInv /\ Load => IndInv'
<1> SUFFICES ASSUME IndInv, Load PROVE IndInv'
  OBVIOUS
<1>1. Unread
  BY DEF Load, BeginOpen, ReadMetadata, EndOpen, BeginLoad, ReadView, ReadMember, EndLoad,
         ReleaseSource
<1>2. reader' \in Documents /\ ReaderInv'
  BY ReaderStep
<1>3. TypeOK'
  BY <1>1, <1>2 DEF Unread, IndInv, TypeOK
<1>4. ASSUME NEW u \in Writers PROVE ChainInv(u)' /\ CallInv(u)'
  BY <1>1, Untroubled DEF Unread, IndInv
<1>5. FileInv'
  BY <1>1 DEF Unread, IndInv, FileInv
<1>6. QED
  BY <1>2, <1>3, <1>4, <1>5 DEF IndInv

LEMMA InductiveStep == IndInv /\ [Next]_vars => IndInv'
<1> SUFFICES ASSUME IndInv, [Next]_vars PROVE IndInv'
  OBVIOUS
<1>1. CASE Tamper
  BY <1>1, StepTamper
<1>2. ASSUME NEW w \in Writers, Write(w) PROVE IndInv'
  BY <1>2, StepCreateTemporary, StepBeginWrite, StepEndWrite, StepReopenMetadata,
     StepReopenMeshes, StepBeginHash, StepEndHash, StepPublish, StepCleanup DEF Write
<1>3. ASSUME NEW w \in Writers, Raise(w) \/ Interrupt(w) PROVE IndInv'
  BY <1>3, StepRaise, StepInterrupt
<1>4. CASE Load
  BY <1>4, StepLoad
<1>5. CASE UNCHANGED vars
  <2>1. TypeOK' /\ FileInv' /\ ReaderInv'
    BY <1>5 DEF vars, IndInv, TypeOK, FileInv, ReaderInv
  <2>2. \A u \in Writers : ChainInv(u)' /\ CallInv(u)'
    BY <1>5, Untroubled DEF vars, IndInv
  <2>3. QED
    BY <2>1, <2>2 DEF IndInv
<1>6. QED
  BY <1>1, <1>2, <1>3, <1>4, <1>5 DEF Next

LEMMA Inductive == Spec => []IndInv
  BY InductiveInit, InductiveStep, PTL DEF Spec

----------------------------------------------------------------------------
(* The theorems. *)

(* The files, the writers' calls and the reader's document keep their types *)
(* under every interleaving of cad_artifact.py and of other programs.       *)
THEOREM TypeCorrect == Spec => []TypeOK
<1>1. IndInv => TypeOK
  BY DEF IndInv
<1>2. QED
  BY <1>1, Inductive, PTL

(* A call that has ended has no temporary left, unless its exception tells  *)
(* of it or an interrupt ended it: _cleanup_after_failure() sees to it.     *)
THEOREM TemporariesHandled == Spec => []NoResidue
<1>1. IndInv => NoResidue
  <2> SUFFICES ASSUME IndInv, NEW w \in Writers, At(w, "done"), temporary[w] = w
               PROVE  writer[w].told \/ writer[w].outcome = "interrupted"
    BY DEF NoResidue
  <2>1. CallInv(w) /\ writer[w].outcome \in {"running", "published", "raised", "interrupted"}
    BY DEF IndInv, TypeOK, Calls
  <2>2. writer[w].outcome # "running" /\ writer[w].outcome # "published"
    BY <2>1, ArtifactAssumption DEF CallInv, At
  <2>3. QED
    BY <2>1, <2>2 DEF CallInv
<1>2. QED
  BY <1>1, Inductive, PTL

(* The lazy loader of a document decodes no mesh but those of the manifest  *)
(* the document was opened with, whatever is published at its path.         *)
THEOREM MeshesMatch == Spec => []MeshesBelongToManifest
<1>1. IndInv => MeshesBelongToManifest
  BY DEF IndInv, ReaderInv, MeshesBelongToManifest
<1>2. QED
  BY <1>1, Inductive, PTL

(* The refinement mapping, by names. *)
Author == IF destination \in Writers /\ ~Sound(destination) THEN Stray ELSE destination
OutcomeOf(w) ==
    CASE writer[w].outcome = "published"               -> "published"
      [] writer[w].outcome \in {"raised", "interrupted"} -> "ended"
      [] OTHER                                          -> "running"
Outcome == [w \in Writers |-> OutcomeOf(w)]

(* What is at the destination is always somebody's whole artifact.          *)
LEMMA AuthorIsDestination == IndInv => Author = destination
  BY DEF IndInv, FileInv, CallInv, Author

LEMMA OutputInit == Init => Output!Init
<1> SUFFICES ASSUME Init PROVE Author = Nobody /\ Outcome = [w \in Writers |-> "running"]
  BY DEF Output!Init, Author, Outcome, OutcomeOf
<1>1. Author = Nobody
  BY ArtifactAssumption DEF Init, Author
<1>2. \A w \in Writers : OutcomeOf(w) = "running"
  BY DEF Init, OutcomeOf
<1>3. QED
  BY <1>1, <1>2 DEF Outcome

(* What a step of writer w does to the outcomes and the destination. *)
Stutters(w) == OutcomeOf(w)' = OutcomeOf(w) /\ destination' = destination
Ends(w) ==
    /\ writer[w].outcome = "running"
    /\ writer'[w].outcome \in {"raised", "interrupted"}
    /\ destination' = destination
Publishes(w) ==
    /\ writer[w].outcome = "running"
    /\ writer'[w].outcome = "published"
    /\ destination' = w

LEMMA StepOutcome ==
    ASSUME IndInv, NEW w \in Writers, Write(w) \/ Raise(w) \/ Interrupt(w)
    PROVE  /\ \A u \in Writers \ {w} : writer'[u] = writer[u]
           /\ Stutters(w) \/ Ends(w) \/ Publishes(w)
<1> DEFINE Goal == /\ \A u \in Writers \ {w} : writer'[u] = writer[u]
                   /\ Stutters(w) \/ Ends(w) \/ Publishes(w)
<1>1. writer \in [Writers -> Calls] /\ writer[w] \in Calls /\ CallInv(w)
  BY DEF IndInv, TypeOK
<1>2. ASSUME NEW cancelled \in BOOLEAN, Fail(w, cancelled), destination' = destination,
             writer[w].outcome = "running"
      PROVE  Goal
  BY <1>1, <1>2 DEF Fail, Ends, Calls
<1>3. ASSUME NEW label, Goto(w, label), destination' = destination PROVE Goal
  BY <1>1, <1>3 DEF Goto, Stutters, OutcomeOf, Calls
<1>4. CASE CreateTemporary(w)
  BY <1>1, <1>3, <1>4 DEF CreateTemporary, At, CallInv, Ends, Calls
<1>5. CASE BeginWrite(w)
  <2>1. CASE writer' = [writer EXCEPT ![w].pc = "writing", ![w].stamp = disk[w].stamp + 1]
    <3>1. destination' = destination
      BY <1>5 DEF BeginWrite
    <3>2. QED
      BY <1>1, <2>1, <3>1 DEF Stutters, OutcomeOf, Calls
  <2>2. QED
    BY <1>1, <1>2, <1>5, <2>1 DEF BeginWrite, At, CallInv
<1>6. CASE EndWrite(w)
  <2>1. CASE writer' = [writer EXCEPT ![w].pc = "metadata", ![w].stamp = disk[w].stamp + 1]
    <3>1. destination' = destination
      BY <1>6 DEF EndWrite
    <3>2. QED
      BY <1>1, <2>1, <3>1 DEF Stutters, OutcomeOf, Calls
  <2>2. QED
    BY <1>1, <1>2, <1>6, <2>1 DEF EndWrite, At, CallInv
<1>7. CASE ReopenMetadata(w)
  BY <1>1, <1>2, <1>3, <1>7 DEF ReopenMetadata, At, CallInv
<1>8. CASE ReopenMeshes(w)
  BY <1>1, <1>2, <1>3, <1>8 DEF ReopenMeshes, At, CallInv
<1>9. CASE BeginHash(w)
  <2>1. CASE writer' = [writer EXCEPT ![w].pc = "hashing", ![w].report = Content(w)]
    <3>1. destination' = destination
      BY <1>9 DEF BeginHash
    <3>2. QED
      BY <1>1, <2>1, <3>1 DEF Stutters, OutcomeOf, Calls
  <2>2. QED
    BY <1>1, <1>2, <1>9, <2>1 DEF BeginHash, At, CallInv
<1>10. CASE EndHash(w)
  BY <1>1, <1>2, <1>3, <1>10 DEF EndHash, At, CallInv
<1>11. CASE Publish(w)
  <2>1. writer[w].outcome = "running" /\ At(w, "publish")
    BY <1>1, <1>11 DEF Publish, At, CallInv
  <2>2. CASE /\ Untouched(w)
             /\ destination' = w
             /\ writer' = [writer EXCEPT ![w].pc = "done", ![w].outcome = "published",
                                         ![w].published = Content(w)]
    BY <2>1, <2>2, Published DEF Publishes
  <2>3. QED
    BY <1>2, <1>11, <2>1, <2>2 DEF Publish
<1>12. CASE Cleanup(w)
  <2>1. destination' = destination
    BY <1>12 DEF Cleanup
  <2>2. CASE writer' = [writer EXCEPT ![w].pc = "done", ![w].told = TRUE]
    BY <1>1, <2>1, <2>2 DEF Stutters, OutcomeOf, Calls
  <2>3. QED
    BY <1>3, <1>12, <2>1, <2>2 DEF Cleanup
<1>13. CASE Raise(w)
  BY <1>1, <1>2, <1>13 DEF Raise, CallInv
<1>14. CASE Interrupt(w)
  <2>1. writer'[w].outcome = "interrupted" /\ destination' = destination
    BY <1>1, <1>14 DEF Interrupt, Calls
  <2>2. \A u \in Writers \ {w} : writer'[u] = writer[u]
    BY <1>1, <1>14 DEF Interrupt
  <2>3. writer[w].outcome = "running" \/ writer[w].outcome = "raised"
    BY <1>1, <1>14 DEF Interrupt, At, CallInv, Calls, WriterPcs
  <2>4. QED
    BY <2>1, <2>2, <2>3 DEF Stutters, OutcomeOf, Ends
<1>15. QED
  BY <1>4, <1>5, <1>6, <1>7, <1>8, <1>9, <1>10, <1>11, <1>12, <1>13, <1>14 DEF Write

(* Success is the publication, failure an end, and all else invisible. *)
LEMMA OutputStep ==
    IndInv /\ IndInv' /\ [Next]_vars => [Output!Next]_(Output!outputVars)
<1> SUFFICES ASSUME IndInv, IndInv', [Next]_vars
             PROVE  [Output!Next]_(Output!outputVars)
  OBVIOUS
<1> DEFINE Replaced(w) == /\ Outcome[w] = "running"
                          /\ Author' = w
                          /\ Outcome' = [Outcome EXCEPT ![w] = "published"]
           Ended(w) == /\ Outcome[w] = "running"
                       /\ Author' = Author
                       /\ Outcome' = [Outcome EXCEPT ![w] = "ended"]
<1>1. Author = destination /\ Author' = destination'
  <2>1. Author' = destination'
    BY DEF IndInv, FileInv, CallInv, Author
  <2>2. QED
    BY <2>1, AuthorIsDestination
<1>2. ASSUME NEW w \in Writers, Write(w) \/ Raise(w) \/ Interrupt(w)
      PROVE  (Author' = Author /\ Outcome' = Outcome) \/ Replaced(w) \/ Ended(w)
  <2>1. /\ \A u \in Writers \ {w} : writer'[u] = writer[u]
        /\ Stutters(w) \/ Ends(w) \/ Publishes(w)
    BY <1>2, StepOutcome
  <2>2. \A u \in Writers \ {w} : OutcomeOf(u)' = OutcomeOf(u)
    BY <2>1 DEF OutcomeOf
  <2>3. CASE Stutters(w)
    BY <1>1, <2>2, <2>3 DEF Stutters, Outcome
  <2>4. CASE Ends(w)
    <3>1. OutcomeOf(w) = "running" /\ OutcomeOf(w)' = "ended"
      BY <2>4 DEF Ends, OutcomeOf
    <3>2. QED
      BY <1>1, <2>2, <2>4, <3>1 DEF Ends, Outcome
  <2>5. CASE Publishes(w)
    <3>1. OutcomeOf(w) = "running" /\ OutcomeOf(w)' = "published"
      BY <2>5 DEF Publishes, OutcomeOf
    <3>2. QED
      BY <1>1, <2>2, <2>5, <3>1 DEF Publishes, Outcome
  <2>6. QED
    BY <2>1, <2>3, <2>4, <2>5
<1>3. CASE Tamper \/ Load \/ UNCHANGED vars
  <2>1. writer' = writer /\ destination' = destination
    BY <1>3 DEF Tamper, Load, BeginOpen, ReadMetadata, EndOpen, BeginLoad, ReadView,
                ReadMember, EndLoad, ReleaseSource, Unread, vars
  <2>2. Author' = Author /\ Outcome' = Outcome
    BY <1>1, <2>1 DEF Outcome, OutcomeOf
  <2>3. QED
    BY <2>2 DEF Output!outputVars, Author, Outcome, OutcomeOf
<1>4. ASSUME NEW w \in Writers, Replaced(w) PROVE Output!Next
  BY <1>4 DEF Output!Next, Output!Publish, Author, Outcome, OutcomeOf
<1>5. ASSUME NEW w \in Writers, Ended(w) PROVE Output!Next
  BY <1>5 DEF Output!Next, Output!End, Author, Outcome, OutcomeOf
<1>6. ASSUME Author' = Author /\ Outcome' = Outcome PROVE UNCHANGED Output!outputVars
  BY <1>6 DEF Output!outputVars, Author, Outcome, OutcomeOf
<1>7. QED
  BY <1>2, <1>3, <1>4, <1>5, <1>6 DEF Next

(* Writers replace the destination with whole validated artifacts of their  *)
(* own, each in the step in which write_preview_artifact() succeeds, for    *)
(* any number of writers and of acts of other programs.                     *)
THEOREM ImplementsOutput == Spec => OutputSpec
<1>1. Spec => Output!Init
  BY OutputInit DEF Spec
<1>2. QED
  BY <1>1, Inductive, OutputStep, PTL DEF Spec, OutputSpec, Output!Spec

=============================================================================
