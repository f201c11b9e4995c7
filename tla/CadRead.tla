------------------------------- MODULE CadRead -------------------------------
(***************************************************************************)
(* One call of read_cad() (src/src/anyfileio/cad_operations.py): the copy  *)
(* of the source into a private snapshot while other programs write or     *)
(* replace the source, the provider's read of the snapshot, and who owns   *)
(* snapshot and provider session afterwards.                               *)
(*                                                                         *)
(* A write gives a file a new content and a new ctime; the writer may put  *)
(* its mtime back, and keeps its size.  The ctime stands for the content.  *)
(* The provider may do to the snapshot and return what it likes, but only  *)
(* during its call; nobody else touches the snapshot.  A cancelled check,  *)
(* a failing file operation or a provider error is the action Raise.       *)
(***************************************************************************)
EXTENDS Naturals, FiniteSets

CONSTANTS
    Files,         \* the files the source path may name
    MaxWrites,     \* bound: writes to each file by other programs
    Interruptible  \* may a KeyboardInterrupt reach the calling thread?

ASSUME ReadAssumption ==
    /\ Files # {}
    /\ MaxWrites \in Nat
    /\ Interruptible \in BOOLEAN

VARIABLES
    named,     \* the file the source path names
    mtime,     \* of each file
    ctime,     \* of each file, counting its writes
    options,   \* read mode and retain_source
    pc,        \* where the call stands
    seen,      \* the stat results it holds
    handle,    \* the file its reader has open
    copied,    \* the contents its blocks came from: pairs of file and ctime
    snapshot,  \* the file at the snapshot's path, and what it holds
    owner,     \* who has to remove the snapshot
    document,  \* what the provider returned
    outcome,   \* "running", "returned", "raised" or "interrupted"
    refused    \* did the removal fail, which the exception's notes then say?

sourceVars == <<named, mtime, ctime>>
copyVars == <<seen, handle, copied>>
ownVars == <<snapshot, owner, document, outcome, refused>>
vars == <<sourceVars, options, pc, copyVars, ownVars>>

Modes == {"manifest_only", "preview", "live"}
Views == {"path_before", "opened_before", "path_opened_before", "opened_after"}
Stats == [file : Files, mtime : Nat, ctime : Nat]
Snapshots == [file : {"none", "owned", "foreign"}, bytes : {"partial", "source", "changed"}]

(* A return value: is it a CadDocument, does its manifest and tessellation  *)
(* match the call, which path is attached, whose thread owns its session?   *)
Documents ==
    [is_document : BOOLEAN, matching : BOOLEAN, attached : {"none", "snapshot", "foreign"},
     session : {"none", "caller", "other", "stuck"}]

NoDocument == [is_document |-> FALSE, matching |-> FALSE, attached |-> "none",
               session |-> "none"]

Pcs == {"inspect", "make", "open", "stat", "compare", "copy", "copied", "check", "read",
        "validate", "settle", "close", "cleanup", "done"}

TypeOK ==
    /\ named \in Files
    /\ mtime \in [Files -> Nat]
    /\ ctime \in [Files -> Nat]
    /\ options \in [mode : Modes, retain_source : BOOLEAN]
    /\ pc \in Pcs
    /\ DOMAIN seen \subseteq Views /\ \A v \in DOMAIN seen : seen[v] \in Stats
    /\ handle \in Files
    /\ copied \subseteq Files \X Nat
    /\ snapshot \in Snapshots
    /\ owner \in {"nobody", "operation", "document"}
    /\ document \in Documents
    /\ outcome \in {"running", "returned", "raised", "interrupted"}
    /\ refused \in BOOLEAN

Init ==
    /\ named \in Files
    /\ mtime = [f \in Files |-> 0]
    /\ ctime = [f \in Files |-> 0]
    /\ options \in [mode : Modes, retain_source : BOOLEAN]
    /\ pc = "inspect"
    /\ seen = [v \in {} |-> 0]
    /\ handle = named
    /\ copied = {}
    /\ snapshot = [file |-> "none", bytes |-> "partial"]
    /\ owner = "nobody"
    /\ document = NoDocument
    /\ outcome = "running"
    /\ refused = FALSE

----------------------------------------------------------------------------
(* Other programs.                                                          *)

Write(f) ==
    /\ ctime[f] < MaxWrites
    /\ ctime' = [ctime EXCEPT ![f] = @ + 1]
    /\ \/ mtime' = [mtime EXCEPT ![f] = ctime[f] + 1]
       \/ UNCHANGED mtime
    /\ UNCHANGED <<named, options, pc, copyVars, ownVars>>

(* Another file is renamed to the source path. *)
Replace ==
    /\ named' \in Files \ {named}
    /\ UNCHANGED <<mtime, ctime, options, pc, copyVars, ownVars>>

----------------------------------------------------------------------------
(* _copy_source_snapshot().                                                 *)

(* _stat_signature() and _path_handle_anchor() of a stat result: the second *)
(* leaves the ctime out, for it may differ between path and handle.         *)
Signature(s) == <<s.file, s.mtime, s.ctime>>
Anchor(s) == <<s.file, s.mtime>>

Stat(f) == [file |-> f, mtime |-> mtime[f], ctime |-> ctime[f]]

See(view, f) ==
    seen' = [v \in DOMAIN seen \union {view} |-> IF v = view THEN Stat(f) ELSE seen[v]]

(* Exceptions leave for the except clause of read_cad().                    *)
Fail == pc' = "close"

Raise ==
    /\ pc \in {"inspect", "make", "open", "stat", "copy", "check", "validate", "settle"}
    /\ Fail
    /\ UNCHANGED <<sourceVars, options, copyVars, ownVars>>

StatSource ==
    /\ pc = "inspect"
    /\ See("path_before", named)
    /\ pc' = "make"
    /\ UNCHANGED <<sourceVars, options, handle, copied, ownVars>>

(* Mutant: the identity is not recorded. *)
MakeSnapshotUnrecorded ==
    /\ pc = "make"
    /\ snapshot' = [file |-> "unknown", bytes |-> "partial"]
    /\ owner' = "operation"
    /\ pc' = "open"
    /\ UNCHANGED <<sourceVars, options, copyVars, document, outcome, refused>>

(* mkstemp() and the fstat of its descriptor, which is taken to succeed.    *)
MakeSnapshot ==
    /\ pc = "make"
    /\ snapshot' = [file |-> "owned", bytes |-> "partial"]
    /\ owner' = "operation"
    /\ pc' = "open"
    /\ UNCHANGED <<sourceVars, options, copyVars, document, outcome, refused>>

OpenSource ==
    /\ pc = "open"
    /\ handle' = named
    /\ pc' = "stat"
    /\ UNCHANGED <<sourceVars, options, seen, copied, ownVars>>

StatHandle ==
    /\ pc = "stat"
    /\ See("opened_before", handle)
    /\ pc' = "compare"
    /\ UNCHANGED <<sourceVars, options, handle, copied, ownVars>>

(* The handle is of the file inspected, which the path still names.         *)
CompareViews ==
    /\ pc = "compare"
    /\ See("path_opened_before", named)
    /\ IF /\ Anchor(seen["opened_before"]) = Anchor(seen["path_before"])
          /\ Signature(seen["path_before"]) = Signature(Stat(named))
       THEN pc' = "copy"
       ELSE Fail
    /\ UNCHANGED <<sourceVars, options, handle, copied, ownVars>>

CopyBlock ==
    /\ pc = "copy"
    /\ copied' = copied \union {<<handle, ctime[handle]>>}
    /\ UNCHANGED <<sourceVars, options, pc, seen, handle, ownVars>>

EndCopy ==
    /\ pc = "copy"
    /\ See("opened_after", handle)
    /\ pc' = "copied"
    /\ UNCHANGED <<sourceVars, options, handle, copied, ownVars>>

(* Mutant: only the handle is compared. *)
AcceptCopyByHandle ==
    /\ pc = "copied"
    /\ IF Signature(seen["opened_before"]) = Signature(seen["opened_after"])
       THEN pc' = "check" /\ snapshot' = [snapshot EXCEPT !.bytes = "source"]
       ELSE Fail /\ UNCHANGED snapshot
    /\ UNCHANGED <<sourceVars, options, copyVars, owner, document, outcome, refused>>

(* Neither the handle nor the path has changed, each in its own view.       *)
AcceptCopy ==
    /\ pc = "copied"
    /\ IF /\ Signature(seen["opened_before"]) = Signature(seen["opened_after"])
          /\ Signature(seen["path_opened_before"]) = Signature(Stat(named))
       THEN pc' = "check" /\ snapshot' = [snapshot EXCEPT !.bytes = "source"]
       ELSE Fail /\ UNCHANGED snapshot
    /\ UNCHANGED <<sourceVars, options, copyVars, owner, document, outcome, refused>>

----------------------------------------------------------------------------
(* The provider's read.                                                     *)

(* The lstat of the fresh snapshot and a cancellation check.                *)
CheckSnapshot ==
    /\ pc = "check"
    /\ IF snapshot.file = "owned" THEN pc' = "read" ELSE Fail
    /\ UNCHANGED <<sourceVars, options, copyVars, ownVars>>

(* backend.read(): any value is returned, or an exception raised, and the   *)
(* snapshot may be written to, replaced or removed.  A document of another  *)
(* thread's session can only be one the provider keeps.                     *)
BackendRead ==
    /\ pc = "read"
    /\ \/ /\ document' \in {d \in Documents : d.is_document /\ d.session # "stuck"} \union {NoDocument}
          /\ pc' = "validate"
       \/ Fail /\ UNCHANGED document
    /\ snapshot' \in {snapshot, [snapshot EXCEPT !.bytes = "changed"],
                     [snapshot EXCEPT !.file = "foreign"], [snapshot EXCEPT !.file = "none"]}
    /\ UNCHANGED <<sourceVars, options, copyVars, owner, outcome, refused>>

(* Mutant: the snapshot is not looked at again. *)
ValidateDocumentAlone ==
    /\ pc = "validate"
    /\ IF /\ document.matching
          /\ document.attached \in {"none", "snapshot"}
          /\ options.retain_source => document.attached = "snapshot"
          /\ document.session = IF options.mode = "live" THEN "caller" ELSE "none"
       THEN pc' = "settle"
       ELSE Fail
    /\ UNCHANGED <<sourceVars, options, copyVars, ownVars>>

(* _validate_read_result().                                                 *)
ValidateReadResult ==
    /\ pc = "validate"
    /\ IF /\ document.is_document
          /\ document.matching
          /\ snapshot = [file |-> "owned", bytes |-> "source"]
          /\ document.attached \in {"none", "snapshot"}
          /\ options.retain_source => document.attached = "snapshot"
          /\ document.session = IF options.mode = "live" THEN "caller" ELSE "none"
       THEN pc' = "settle"
       ELSE Fail
    /\ UNCHANGED <<sourceVars, options, copyVars, ownVars>>

----------------------------------------------------------------------------
(* Custody of snapshot and session.                                         *)

Return ==
    /\ outcome' = "returned"
    /\ pc' = "done"

RetainSource ==
    /\ pc = "settle"
    /\ options.retain_source
    /\ owner' = "document"
    /\ Return
    /\ UNCHANGED <<sourceVars, options, copyVars, snapshot, document, refused>>

(* Mutant: the snapshot is forgotten before it is removed. *)
ForgetSource ==
    /\ pc = "settle"
    /\ ~options.retain_source
    /\ document' = [document EXCEPT !.attached = "none"]
    /\ owner' = "nobody"
    /\ \/ snapshot' = [snapshot EXCEPT !.file = "none"] /\ Return
       \/ Fail /\ UNCHANGED <<snapshot, outcome>>
    /\ UNCHANGED <<sourceVars, options, copyVars, refused>>

(* release_source() of a document that has the snapshot attached, else      *)
(* _unlink_owned(); the unlink may fail.                                    *)
DiscardSource ==
    /\ pc = "settle"
    /\ ~options.retain_source
    /\ document' = [document EXCEPT !.attached = "none"]
    /\ \/ /\ snapshot' = [snapshot EXCEPT !.file = "none"]
          /\ owner' = "nobody"
          /\ Return
       \/ /\ Fail
          /\ UNCHANGED <<snapshot, owner, outcome>>
    /\ UNCHANGED <<sourceVars, options, copyVars, refused>>

(* Mutant: only a live read is expected to have a session. *)
CloseLiveDocument ==
    /\ pc = "close"
    /\ pc' = "cleanup"
    /\ document' \in IF options.mode = "live" /\ document.session = "caller"
                     THEN {[document EXCEPT !.session = s] : s \in {"none", "stuck"}}
                     ELSE {document}
    /\ UNCHANGED <<sourceVars, options, copyVars, snapshot, owner, outcome, refused>>

(* _close_after_failure(): close() raises for another thread's session, and *)
(* the provider's callback may raise.                                       *)
CloseDocument ==
    /\ pc = "close"
    /\ pc' = "cleanup"
    /\ document' \in IF document.session = "caller"
                     THEN {[document EXCEPT !.session = s] : s \in {"none", "stuck"}}
                     ELSE {document}
    /\ UNCHANGED <<sourceVars, options, copyVars, snapshot, owner, outcome, refused>>

(* _cleanup_after_failure() with _unlink_owned(): a file that is not the    *)
(* operation's own is left alone.                                           *)
Cleanup ==
    /\ pc = "cleanup"
    /\ pc' = "done"
    /\ outcome' = "raised"
    /\ owner' = "nobody"
    /\ \/ /\ owner = "nobody" \/ snapshot.file = "none"
          /\ UNCHANGED <<snapshot, refused>>
       \/ /\ owner = "operation"
          /\ snapshot.file = "owned"
          /\ snapshot' = [snapshot EXCEPT !.file = "none"]
          /\ UNCHANGED refused
       \/ /\ owner = "operation"
          /\ snapshot.file # "none"
          /\ refused' = TRUE
          /\ UNCHANGED snapshot
    /\ UNCHANGED <<sourceVars, options, copyVars, document>>

(* A KeyboardInterrupt is no Exception: no clause of read_cad() sees it.    *)
Interrupt ==
    /\ Interruptible
    /\ pc # "done"
    /\ pc' = "done"
    /\ outcome' = "interrupted"
    /\ UNCHANGED <<sourceVars, options, copyVars, snapshot, owner, document, refused>>

Environment == Replace \/ \E f \in Files : Write(f)

Copy ==
    \/ StatSource \/ MakeSnapshot \/ OpenSource \/ StatHandle \/ CompareViews
    \/ CopyBlock \/ EndCopy \/ AcceptCopy

Read == CheckSnapshot \/ BackendRead \/ ValidateReadResult \/ RetainSource \/ DiscardSource

Next == Environment \/ Copy \/ Read \/ Raise \/ CloseDocument \/ Cleanup \/ Interrupt

Spec == Init /\ [][Next]_vars

----------------------------------------------------------------------------
(* Properties.                                                              *)

(* A copy is accepted only if every block came from what the source path    *)
(* names, as it is at that moment: no mixture of two versions, no file that *)
(* was renamed away, whatever was written, put back or replaced between the *)
(* stat calls.                                                              *)
SnapshotIsSource ==
    [][pc = "copied" /\ pc' = "check" => copied \subseteq {<<named, ctime[named]>>}]_vars

(* When the call has ended its snapshot belongs to the returned document    *)
(* that retains it, or is gone, or its removal was refused and the          *)
(* exception says so; only an interrupt leaves it behind.                   *)
SnapshotHasOneOwner ==
    pc = "done" /\ snapshot.file = "owned" /\ outcome # "interrupted" =>
        \/ /\ outcome = "returned"
           /\ owner = "document"
           /\ document.attached = "snapshot"
        \/ outcome = "raised" /\ refused

(* The source lease as it is born in the returned document. *)
phase == IF document.attached = "none" THEN "detached" ELSE "open"
file == IF snapshot.file = "none" THEN "absent" ELSE "present"
Lease == INSTANCE SourceLease WITH Readers <- {}, leases <- {}

(* A returned document is an initial state of the lease: open over the      *)
(* verified copy when the source was to be retained, detached with nothing  *)
(* on the disk otherwise, whatever the provider did to the snapshot.        *)
DocumentStartsAsLease ==
    outcome = "returned" =>
        /\ Lease!Init
        /\ phase = "open" <=> options.retain_source
        /\ phase = "open" => snapshot = [file |-> "owned", bytes |-> "source"]

(* No failed read leaves a session open that its thread could have closed,  *)
(* in whichever mode, and only a live read returns one, its caller's.       *)
SessionNotLost ==
    /\ outcome = "raised" => document.session # "caller"
    /\ outcome = "returned" =>
          document.session = IF options.mode = "live" THEN "caller" ELSE "none"
============================================================================
