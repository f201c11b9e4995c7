-------------------------- MODULE PreviewArtifact --------------------------
(***************************************************************************)
(* The preview artifact (src/src/anyfileio/cad_artifact.py): several       *)
(* write_preview_artifact() calls with one destination, and a document     *)
(* that open_preview_artifact() opens there and loads lazily, while other  *)
(* programs overwrite the files, and rename or remove the temporaries.     *)
(*                                                                         *)
(* An artifact is named by the writer that made it.  A file is an inode    *)
(* with a stamp, the number of changes that its stat signature tells       *)
(* apart.  A whole file holds all of the artifact it names; any other may  *)
(* hold the metadata of it and damaged meshes.                             *)
(***************************************************************************)
EXTENDS Naturals, FiniteSets

CONSTANTS
    Writers,      \* the calls, each writing an artifact of its own
    Nobody,       \* the artifact that was at the destination before
    Stray,        \* a file that is no artifact
    Interrupted,  \* the writers a KeyboardInterrupt may reach
    MaxTampering  \* bound: what other programs do to the files

ASSUME ArtifactAssumption ==
    /\ Nobody \notin Writers
    /\ "none" \notin Writers
    /\ Stray \notin Writers \union {Nobody}
    /\ Interrupted \subseteq Writers
    /\ MaxTampering \in Nat

VARIABLES
    disk,         \* the file of each inode
    destination,  \* the inode at the destination
    temporary,    \* the inode at each writer's temporary path
    writer,       \* each writer's call
    reader,       \* the document opened from the destination
    tampering     \* the number of things other programs did

vars == <<disk, destination, temporary, writer, reader, tampering>>

Inodes == Writers \union {Nobody, Stray}
Contents == [of : Inodes, whole : BOOLEAN]

Content(i) == [of |-> disk[i].of, whole |-> disk[i].whole]
Whole(w) == [of |-> w, whole |-> TRUE]
Nothing == [of |-> Stray, whole |-> FALSE]

WriterPcs == {"create", "write", "writing", "metadata", "load", "hash", "hashing", "publish",
              "cleanup", "done"}
Errors == {"none", "failed", "cancelled", "without_source"}

Calls ==
    [pc : WriterPcs,
     outcome : {"running", "published", "raised", "interrupted"},
     stamp : Nat,               \* the signature returned by the last step
     report : Contents,         \* the digest of the temporary
     published : Contents,      \* history: the bytes that were published
     cancelled : BOOLEAN,       \* did a cancellation end the call?
     error : Errors,            \* what was raised
     told : BOOLEAN]            \* and does it tell of a temporary left behind?

ReaderPcs == {"closed", "opening", "read", "open", "loading", "viewed", "loaded", "failed"}

Documents ==
    [pc : ReaderPcs,
     handle : Inodes,           \* the file the reader has open
     stamp : Nat,               \* its signature when it was opened
     manifest : Inodes,         \* whose manifest the document has
     source : BOOLEAN,          \* does it retain its source?
     view : Inodes,             \* whose metadata the lazy loader saw
     members : SUBSET Inodes,   \* whose meshes it decoded
     error : {"none", "invalid", "without_source"}]

TypeOK ==
    /\ disk \in [Inodes -> [of : Inodes, whole : BOOLEAN, stamp : Nat]]
    /\ destination \in Inodes
    /\ temporary \in [Writers -> Inodes \union {"none"}]
    /\ writer \in [Writers -> Calls]
    /\ reader \in Documents
    /\ tampering \in 0..MaxTampering

Init ==
    /\ disk = [i \in Inodes |-> [of |-> IF i = Nobody THEN i ELSE Stray,
                                whole |-> i = Nobody, stamp |-> 0]]
    /\ destination = Nobody
    /\ temporary = [w \in Writers |-> "none"]
    /\ writer = [w \in Writers |->
          [pc |-> "create", outcome |-> "running", stamp |-> 0, report |-> Nothing,
           published |-> Nothing, cancelled |-> FALSE, error |-> "none", told |-> FALSE]]
    /\ reader = [pc |-> "closed", handle |-> Nobody, stamp |-> 0, manifest |-> Nobody,
                 source |-> FALSE, view |-> Nobody, members |-> {}, error |-> "none"]
    /\ tampering = 0

----------------------------------------------------------------------------
(* Other programs.                                                          *)

(* Damage, or a copy of the old artifact or of what is at the destination,  *)
(* complete or not.                                                         *)
Overwrite(i) ==
    /\ \E of \in {Nobody, disk[i].of, disk[destination].of}, whole \in BOOLEAN :
          disk' = [disk EXCEPT ![i] = [of |-> of, whole |-> whole, stamp |-> @.stamp + 1]]
    /\ UNCHANGED temporary

(* Between the last look at a temporary and os.replace() nobody is quick    *)
(* enough: Publish is one step.                                             *)
MoveTemporary(w) ==
    /\ temporary[w] = w
    /\ \E i \in {"none", Stray} : temporary' = [temporary EXCEPT ![w] = i]
    /\ UNCHANGED disk

Tamper ==
    /\ tampering < MaxTampering
    /\ tampering' = tampering + 1
    /\ \/ \E w \in Writers : MoveTemporary(w)
       \/ \E i \in {destination} \union {w \in Writers : temporary[w] = w} : Overwrite(i)
    /\ UNCHANGED <<destination, writer, reader>>

----------------------------------------------------------------------------
(* write_preview_artifact(), once the payload is made.                      *)

At(w, label) == writer[w].pc = label

Goto(w, label) == writer' = [writer EXCEPT ![w].pc = label]

(* What a failure is raised as.  The lazy loader of the reopened temporary, *)
(* a document without a source, has one error for whatever went wrong in it. *)
ErrorOf(w, cancelled) ==
    CASE At(w, "load") -> "without_source"
      [] cancelled     -> "cancelled"
      [] OTHER         -> "failed"

(* Mutant: the self-validation is outside the try block. *)
FailUncaught(w, cancelled) ==
    writer' = [writer EXCEPT ![w].pc = IF @ = "load" THEN "done" ELSE "cleanup",
                             ![w].outcome = "raised",
                             ![w].cancelled = cancelled, ![w].error = ErrorOf(w, cancelled)]

(* The locals of the step are gone. *)
Fail(w, cancelled) ==
    writer' = [writer EXCEPT ![w].pc = "cleanup", ![w].outcome = "raised",
                             ![w].stamp = 0, ![w].report = Nothing,
                             ![w].cancelled = cancelled, ![w].error = ErrorOf(w, cancelled)]

(* A cancellation check or anything else raises in a step. *)
Raise(w) ==
    /\ writer[w].pc \in {"create", "write", "writing", "metadata", "load", "hash", "hashing",
                         "publish"}
    /\ \E cancelled \in BOOLEAN : Fail(w, cancelled)
    /\ UNCHANGED <<disk, destination, temporary, reader, tampering>>

(* A KeyboardInterrupt passes the except clause. *)
Interrupt(w) ==
    /\ w \in Interrupted
    /\ ~At(w, "done")
    /\ writer' = [writer EXCEPT ![w].pc = "done", ![w].outcome = "interrupted"]
    /\ UNCHANGED <<disk, destination, temporary, reader, tampering>>

(* _create_temporary().  A file whose identity cannot be read stays, and    *)
(* the exception says so.                                                   *)
CreateTemporary(w) ==
    /\ At(w, "create")
    /\ temporary' = [temporary EXCEPT ![w] = w]
    /\ \/ Goto(w, "write")
       \/ writer' = [writer EXCEPT ![w].pc = "done", ![w].outcome = "raised",
                                   ![w].error = "failed", ![w].told = TRUE]
    /\ UNCHANGED <<disk, destination, reader, tampering>>

(* _write_zip(): truncate and write, then note the signature.  A program    *)
(* that writes in between leaves a mixture.                                 *)
BeginWrite(w) ==
    /\ At(w, "write")
    /\ \/ /\ temporary[w] = w
          /\ disk' = [disk EXCEPT ![w] = [of |-> w, whole |-> FALSE, stamp |-> @.stamp + 1]]
          /\ writer' = [writer EXCEPT ![w].pc = "writing", ![w].stamp = disk[w].stamp + 1]
       \/ /\ temporary[w] # w
          /\ Fail(w, FALSE)
          /\ UNCHANGED disk
    /\ UNCHANGED <<destination, temporary, reader, tampering>>

EndWrite(w) ==
    /\ At(w, "writing")
    /\ disk' = [disk EXCEPT ![w] = [of |-> w, whole |-> @.stamp = writer[w].stamp,
                                    stamp |-> @.stamp + 1]]
    /\ IF temporary[w] = w
       THEN writer' = [writer EXCEPT ![w].pc = "metadata", ![w].stamp = disk[w].stamp + 1]
       ELSE Fail(w, FALSE)
    /\ UNCHANGED <<destination, temporary, reader, tampering>>

(* Self-validation: _open_artifact_metadata() insists on the identity, the  *)
(* lazy loader and the comparison with the records on the contents.         *)
ReopenMetadata(w) ==
    /\ At(w, "metadata")
    /\ IF temporary[w] = w THEN Goto(w, "load") ELSE Fail(w, FALSE)
    /\ UNCHANGED <<disk, destination, temporary, reader, tampering>>

ReopenMeshes(w) ==
    /\ At(w, "load")
    /\ IF temporary[w] # "none" /\ Content(temporary[w]) = Whole(w)
       THEN Goto(w, "hash")
       ELSE Fail(w, FALSE)
    /\ UNCHANGED <<disk, destination, temporary, reader, tampering>>

(* Is the temporary still the file, and as it was, that the last step left? *)
Untouched(w) == temporary[w] = w /\ disk[w].stamp = writer[w].stamp

(* Mutant: the temporary is hashed as it is found. *)
HashAsFound(w) ==
    /\ At(w, "hash")
    /\ IF temporary[w] = w
       THEN writer' = [writer EXCEPT ![w].pc = "hashing", ![w].report = Content(w),
                                     ![w].stamp = disk[w].stamp]
       ELSE Fail(w, FALSE)
    /\ UNCHANGED <<disk, destination, temporary, reader, tampering>>

(* _hash_owned_temporary(). *)
BeginHash(w) ==
    /\ At(w, "hash")
    /\ IF Untouched(w)
       THEN writer' = [writer EXCEPT ![w].pc = "hashing", ![w].report = Content(w)]
       ELSE Fail(w, FALSE)
    /\ UNCHANGED <<disk, destination, temporary, reader, tampering>>

EndHash(w) ==
    /\ At(w, "hashing")
    /\ IF Untouched(w) THEN Goto(w, "publish") ELSE Fail(w, FALSE)
    /\ UNCHANGED <<disk, destination, temporary, reader, tampering>>

(* Mutant: no look at the temporary before it is published. *)
PublishUnchecked(w) ==
    /\ At(w, "publish")
    /\ destination' = temporary[w]
    /\ temporary' = [temporary EXCEPT ![w] = "none"]
    /\ writer' = [writer EXCEPT ![w].pc = "done", ![w].outcome = "published",
                                ![w].published = Content(w)]
    /\ UNCHANGED <<disk, reader, tampering>>

(* The last lstat and os.replace(). *)
Publish(w) ==
    /\ At(w, "publish")
    /\ \/ /\ Untouched(w)
          /\ destination' = w
          /\ temporary' = [temporary EXCEPT ![w] = "none"]
          /\ writer' = [writer EXCEPT ![w].pc = "done", ![w].outcome = "published",
                                      ![w].published = Content(w)]
       \/ /\ ~Untouched(w)
          /\ Fail(w, FALSE)
          /\ UNCHANGED <<destination, temporary>>
    /\ UNCHANGED <<disk, reader, tampering>>

(* _cleanup_after_failure(): remove the file if it is the writer's own;     *)
(* note a refusal.                                                          *)
Cleanup(w) ==
    /\ At(w, "cleanup")
    /\ \/ /\ temporary[w] \in {"none", w}
          /\ temporary' = [temporary EXCEPT ![w] = "none"]
          /\ Goto(w, "done")
       \/ /\ temporary[w] # "none"
          /\ writer' = [writer EXCEPT ![w].pc = "done", ![w].told = TRUE]
          /\ UNCHANGED temporary
    /\ UNCHANGED <<disk, destination, reader, tampering>>

Write(w) ==
    \/ CreateTemporary(w) \/ BeginWrite(w) \/ EndWrite(w)
    \/ ReopenMetadata(w) \/ ReopenMeshes(w)
    \/ BeginHash(w) \/ EndHash(w) \/ Publish(w) \/ Cleanup(w)

----------------------------------------------------------------------------
(* open_preview_artifact() and the lazy loader of its document.             *)

Unread == UNCHANGED <<disk, destination, temporary, writer, tampering>>

OpenPath(label) ==
    reader' = [reader EXCEPT !.pc = label, !.handle = destination,
                             !.stamp = disk[destination].stamp]

(* The path and the open file have kept their signatures. *)
Unchanged == destination = reader.handle /\ disk[reader.handle].stamp = reader.stamp

BeginOpen == reader.pc = "closed" /\ OpenPath("opening") /\ Unread

(* The metadata of a whole file passes its checks, that of another may. *)
ReadMetadata ==
    /\ reader.pc = "opening"
    /\ \/ reader' = [reader EXCEPT !.pc = "read", !.manifest = disk[reader.handle].of]
       \/ ~disk[reader.handle].whole /\ reader' = [reader EXCEPT !.pc = "closed"]
    /\ Unread

(* A document, with or without a retained source, or an exception. *)
EndOpen ==
    /\ reader.pc = "read"
    /\ \/ /\ Unchanged
          /\ \E source \in BOOLEAN : reader' = [reader EXCEPT !.pc = "open", !.source = source]
       \/ reader' = [reader EXCEPT !.pc = "closed"]
    /\ Unread

(* The document caches the error of its loader. *)
FailLoad ==
    reader' = [reader EXCEPT !.pc = "failed", !.stamp = 0, !.members = {},
                             !.error = IF reader.source THEN "invalid" ELSE "without_source"]

BeginLoad == reader.pc = "open" /\ OpenPath("loading") /\ Unread

(* Mutant: whatever is at the path now is loaded. *)
ReadAnyView ==
    /\ reader.pc = "loading"
    /\ \/ reader' = [reader EXCEPT !.pc = "viewed", !.view = disk[reader.handle].of]
       \/ FailLoad
    /\ Unread

(* The metadata is read again and must be what the document was opened with. *)
ReadView ==
    /\ reader.pc = "loading"
    /\ \/ /\ disk[reader.handle].of = reader.manifest
          /\ reader' = [reader EXCEPT !.pc = "viewed", !.view = disk[reader.handle].of]
       \/ /\ ~disk[reader.handle].whole \/ disk[reader.handle].of # reader.manifest
          /\ FailLoad
    /\ Unread

(* One mesh after the other; its digest must be the manifest's. *)
ReadMember ==
    /\ reader.pc = "viewed"
    /\ \E m \in {disk[reader.handle].of} \union (IF disk[reader.handle].whole THEN {} ELSE {Stray}) :
          IF m = reader.view
          THEN reader' = [reader EXCEPT !.members = @ \union {m}]
          ELSE FailLoad
    /\ Unread

EndLoad ==
    /\ reader.pc = "viewed"
    /\ IF Unchanged THEN reader' = [reader EXCEPT !.pc = "loaded"] ELSE FailLoad
    /\ Unread

ReleaseSource ==
    /\ reader.pc \in {"open", "loading", "viewed", "loaded", "failed"}
    /\ reader.source
    /\ reader' = [reader EXCEPT !.source = FALSE]
    /\ Unread

Load ==
    \/ BeginOpen \/ ReadMetadata \/ EndOpen
    \/ BeginLoad \/ ReadView \/ ReadMember \/ EndLoad \/ ReleaseSource

Next ==
    \/ Tamper
    \/ \E w \in Writers : Write(w) \/ Raise(w) \/ Interrupt(w)
    \/ Load

Spec == Init /\ [][Next]_vars

----------------------------------------------------------------------------
(* Properties.                                                              *)

(* What a reader of the destination gets: the artifact of the writer that   *)
(* was there last, if the bytes it published were its own, whole, and those *)
(* of the digest it returned.                                               *)
Sound(w) == writer[w].published = Whole(w) /\ writer[w].report = Whole(w)

Output == INSTANCE AtomicOutput WITH
    author <- IF destination \in Writers /\ ~Sound(destination) THEN Stray ELSE destination,
    outcome <- [w \in Writers |->
                  CASE writer[w].outcome = "published"               -> "published"
                    [] writer[w].outcome \in {"raised", "interrupted"} -> "ended"
                    [] OTHER                                          -> "running"]

(* Writers replace the destination with whole validated artifacts of their  *)
(* own, each in the step in which it succeeds, although other programs      *)
(* overwrite, rename and remove the temporaries between any two of the      *)
(* writer's checks.                                                         *)
OutputSpec == Output!Spec

(* A call that has ended has no temporary left, unless its exception tells  *)
(* of it or an interrupt ended it.                                          *)
NoResidue ==
    \A w \in Writers :
        At(w, "done") /\ temporary[w] = w => writer[w].told \/ writer[w].outcome = "interrupted"

(* The meshes a document publishes are those of the manifest it was opened  *)
(* with, whatever was published at or written to its path in between.       *)
MeshesBelongToManifest == reader.pc = "loaded" => reader.members \subseteq {reader.manifest}

(* docs/CAD_BACKEND_CONTRACT.md:1076-1077: a true result of the check       *)
(* raises CadOperationCancelled with code cad.operation.cancelled.          *)
CancelledAsSuch == \A w \in Writers : writer[w].cancelled => writer[w].error = "cancelled"
============================================================================
