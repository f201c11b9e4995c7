--------------------------- MODULE CadOperations ---------------------------
(***************************************************************************)
(* write_cad() and tessellate_cad() on one published document, called by   *)
(* several threads at once (src/src/anyfileio/cad_operations.py), with the *)
(* destination and the temporaries they create in the file system.         *)
(*                                                                         *)
(* The retained source is the SourceLease that CadDocument implements.     *)
(* A provider call may raise, leave half an output, replace the file it    *)
(* was given, or write other bytes than it reports; what it does ends      *)
(* with the call.  Nobody else touches a temporary.  Bytes stand for their *)
(* digest; a write of the source, of whatever bytes, gives it a new ctime, *)
(* so that no stat signature taken before matches one taken after.  A      *)
(* cancelled check, a failing file operation or a provider error at any    *)
(* label is the action Raise.                                              *)
(***************************************************************************)
EXTENDS Naturals, FiniteSets

CONSTANTS
    Callers,    \* the threads, one operation each
    NoCaller,   \* "nobody": the author of the old destination, no owner
    Owner,      \* the owner thread of the document's live session, or NoCaller
    Interrupted,\* the callers a KeyboardInterrupt may reach
    Asked       \* what each caller may ask for

Modes == {"preserve", "translate", "tessellate"}

ASSUME CallersAssumption ==
    /\ NoCaller \notin Callers
    /\ Owner \in Callers \union {NoCaller}
    /\ Interrupted \subseteq Callers
    /\ Asked \in [Callers -> SUBSET Modes]

VARIABLES
    phase, leases, file,  \* the lease on the retained source
    source_bytes,         \* what the retained source holds: "source" or "changed"
    live,                 \* does the document have its live session?
    destination,          \* who put the file at the destination, and the file
    temporary,            \* the file at each caller's temporary path
    op                    \* each caller's operation

leaseVars == <<phase, leases, file>>
vars == <<leaseVars, source_bytes, live, destination, temporary, op>>

Lease == INSTANCE SourceLease WITH Readers <- Callers

Bytes == {"blank", "partial", "source", "changed", "output"}
Files == {"none", "owned", "foreign"}
Signatures == {"none", "same", "stale"}
Gaps == {"before", "after"}
Pcs == {"idle", "temporary", "session", "borrow", "hash", "stat", "reopen", "work", "close",
        "compare", "rehash", "leave", "copy", "verify", "publish", "cleanup", "done"}

Operations ==
    [pc : Pcs,
     mode : Modes,
     failing : BOOLEAN,                           \* an exception is on its way
     interrupt : BOOLEAN,                         \* and it is no Exception
     transient : {"none", "open", "closed"},       \* the reopened session
     read : Bytes,                                \* what the provider read
     signature : Signatures,                      \* source_stat: still the source's?
     unseen : SUBSET Gaps,                        \* history: writes no check can see
     report : Bytes,                              \* the digest reported
     published : BOOLEAN,                         \* os.replace was done
     identity : BOOLEAN,                          \* the temporary's is recorded
     refused : BOOLEAN]                           \* removing it was refused

Idle == [pc |-> "idle", mode |-> "preserve", failing |-> FALSE, interrupt |-> FALSE,
         transient |-> "none", read |-> "blank", signature |-> "none", unseen |-> {},
         report |-> "blank", published |-> FALSE, identity |-> FALSE, refused |-> FALSE]

NoFile == [file |-> "none", bytes |-> "blank"]

TypeOK ==
    /\ phase \in {"open", "draining", "detached"}
    /\ leases \subseteq Callers
    /\ file \in {"present", "absent"}
    /\ source_bytes \in {"source", "changed"}
    /\ live \in BOOLEAN
    /\ destination \in [by : Callers \union {NoCaller}, file : Files, bytes : Bytes]
    /\ temporary \in [Callers -> [file : Files, bytes : Bytes]]
    /\ op \in [Callers -> Operations]

Init ==
    /\ Lease!Init
    /\ source_bytes = "source"
    /\ live = (Owner # NoCaller)
    /\ destination = [by |-> NoCaller, file |-> "owned", bytes |-> "blank"]
    /\ temporary = [c \in Callers |-> NoFile]
    /\ op = [c \in Callers |-> Idle]

----------------------------------------------------------------------------
(* Control.                                                                 *)

At(c, label) == op[c].pc = label

Goto(c, label) == op' = [op EXCEPT ![c].pc = label]

(* Where an exception goes: out of the borrow if there is one, through the  *)
(* transient session's finally clause if it was entered, to the except      *)
(* clause that removes the temporary.                                       *)
Handler(c) ==
    CASE At(c, "reopen") \/ (At(c, "work") /\ c \in leases) -> "close"
      [] c \in leases /\ ~At(c, "reopen") /\ ~At(c, "work")   -> "leave"
      [] OTHER                                                -> "cleanup"

Fail(c, interrupt) ==
    op' = [op EXCEPT ![c].pc = Handler(c), ![c].failing = TRUE, ![c].interrupt = interrupt]

(* What may reach caller c: an Exception, or an interrupt too. *)
Interrupts(c) == {FALSE} \union (IF c \in Interrupted THEN {TRUE} ELSE {})

(* An exception at any point before the destination is replaced, the finally *)
(* clause of the reopened source apart.                                      *)
Raise(c) ==
    /\ op[c].pc \in {"temporary", "session", "borrow", "hash", "stat", "reopen", "work",
                     "copy", "verify", "publish"}
    /\ \E interrupt \in Interrupts(c) : Fail(c, interrupt)
    /\ UNCHANGED <<leaseVars, source_bytes, live, destination, temporary>>

(* The checks that precede any effect have passed; the three modes begin    *)
(* differently.                                                             *)
Start(c) ==
    /\ At(c, "idle")
    /\ \E mode \in Asked[c] :
          op' = [op EXCEPT ![c].mode = mode,
                           ![c].pc = CASE mode = "preserve"   -> "borrow"
                                       [] mode = "translate"  -> "temporary"
                                       [] mode = "tessellate" -> "session"]
    /\ UNCHANGED <<leaseVars, source_bytes, live, destination, temporary>>

----------------------------------------------------------------------------
(* The source of an operation.                                              *)

(* Mutant: no owner check. *)
UseAnySession(c) ==
    /\ At(c, "session")
    /\ Goto(c, IF live THEN "work" ELSE "borrow")
    /\ UNCHANGED <<leaseVars, source_bytes, live, destination, temporary>>

(* _operation_document(): the live session on its owner thread needs no     *)
(* borrow; another thread's call raises; else a borrow is tried.            *)
UseSession(c) ==
    /\ At(c, "session")
    /\ \/ ~live /\ Goto(c, "borrow")
       \/ live /\ c = Owner /\ Goto(c, "work")
       \/ live /\ c # Owner /\ Fail(c, FALSE)
    /\ UNCHANGED <<leaseVars, source_bytes, live, destination, temporary>>

(* Mutant: wait for the source instead of raising. *)
BorrowOrWait(c) ==
    /\ At(c, "borrow")
    /\ Lease!Acquire(c)
    /\ Goto(c, "hash")
    /\ UNCHANGED <<source_bytes, live, destination, temporary>>

(* _borrow_source_snapshot(): unavailable once a release was requested. *)
BorrowSource(c) ==
    /\ At(c, "borrow")
    /\ \/ Lease!Acquire(c) /\ Goto(c, "hash")
       \/ phase # "open" /\ Fail(c, FALSE) /\ UNCHANGED leaseVars
    /\ UNCHANGED <<source_bytes, live, destination, temporary>>

(* _sha256_file(retained_source) against the manifest. *)
HashSource(c) ==
    /\ At(c, "hash")
    /\ \/ /\ source_bytes = "source"
          /\ Goto(c, IF op[c].mode = "preserve" THEN "temporary" ELSE "stat")
       \/ /\ source_bytes # "source"
          /\ Fail(c, FALSE)
    /\ UNCHANGED <<leaseVars, source_bytes, live, destination, temporary>>

(* source_stat: the signature the source has only after it was hashed. *)
StatSource(c) ==
    /\ At(c, "stat")
    /\ op' = [op EXCEPT ![c].pc = "reopen", ![c].signature = "same"]
    /\ UNCHANGED <<leaseVars, source_bytes, live, destination, temporary>>

(* backend.read() of the retained source gives a transient live session.    *)
(* One that fails the identity checks is open when the exception leaves.    *)
Reopen(c) ==
    /\ At(c, "reopen")
    /\ \/ op' = [op EXCEPT ![c].pc = "work", ![c].transient = "open", ![c].read = source_bytes]
       \/ op' = [op EXCEPT ![c].pc = "close", ![c].transient = "open", ![c].failing = TRUE]
    /\ UNCHANGED <<leaseVars, source_bytes, live, destination, temporary>>

(* The finally clause of the reopened source goes on at a label, normally    *)
(* or by an exception.  Such an exception is a note to the one on its way,   *)
(* if there is one, and is raised itself if there is none.                   *)
Passed(c, label, transient, signature) ==
    op' = [op EXCEPT ![c].pc = label, ![c].transient = transient, ![c].signature = signature]

Caught(c, label, transient, signature) ==
    \E interrupt \in Interrupts(c) :
        op' = [op EXCEPT ![c].pc = label, ![c].transient = transient,
                         ![c].signature = signature, ![c].failing = TRUE,
                         ![c].interrupt = IF op[c].failing THEN @ ELSE interrupt]

(* Mutant: a failed operation leaves the session open. *)
CloseAfterSuccess(c) ==
    /\ At(c, "close")
    /\ LET transient == IF op[c].failing THEN op[c].transient ELSE "closed"
       IN  Passed(c, "compare", transient, op[c].signature)
    /\ UNCHANGED <<leaseVars, source_bytes, live, destination, temporary>>

(* The transient session is closed, if there is one, and its close() may    *)
(* raise.                                                                   *)
CloseTransient(c) ==
    /\ At(c, "close")
    /\ \/ op[c].transient = "none" /\ Passed(c, "compare", "none", op[c].signature)
       \/ op[c].transient = "open" /\ Passed(c, "compare", "closed", op[c].signature)
       \/ op[c].transient = "open" /\ Caught(c, "compare", "closed", op[c].signature)
    /\ UNCHANGED <<leaseVars, source_bytes, live, destination, temporary>>

(* Mutant: the signatures are not compared, the digest alone decides. *)
CompareNothing(c) ==
    /\ At(c, "compare")
    /\ \/ Passed(c, "rehash", op[c].transient, "none")
       \/ Caught(c, "leave", op[c].transient, "none")
    /\ UNCHANGED <<leaseVars, source_bytes, live, destination, temporary>>

(* The source's stat signature is still the one taken before the provider   *)
(* read it; if not, or if the stat raises, the digest is not asked for.     *)
CompareSource(c) ==
    /\ At(c, "compare")
    /\ \/ op[c].signature = "same" /\ Passed(c, "rehash", op[c].transient, "none")
       \/ Caught(c, "leave", op[c].transient, "none")
    /\ UNCHANGED <<leaseVars, source_bytes, live, destination, temporary>>

(* And it still has the manifest's digest. *)
RehashSource(c) ==
    /\ At(c, "rehash")
    /\ \/ source_bytes = "source" /\ Passed(c, "leave", op[c].transient, "none")
       \/ Caught(c, "leave", op[c].transient, "none")
    /\ UNCHANGED <<leaseVars, source_bytes, live, destination, temporary>>

(* Leaving the borrow, and where the operation goes on.                     *)
AfterLeave(c) ==
    IF op[c].failing THEN "cleanup"
    ELSE IF op[c].mode = "translate" THEN "verify" ELSE "done"

(* Mutant: an exception leaves the source borrowed. *)
KeepBorrowOnFailure(c) ==
    /\ At(c, "leave")
    /\ IF op[c].failing THEN UNCHANGED leaseVars ELSE Lease!Drop(c)
    /\ Goto(c, AfterLeave(c))
    /\ UNCHANGED <<source_bytes, live, destination, temporary>>

LeaveBorrow(c) ==
    /\ At(c, "leave")
    /\ Lease!Drop(c)
    /\ Goto(c, AfterLeave(c))
    /\ UNCHANGED <<source_bytes, live, destination, temporary>>

----------------------------------------------------------------------------
(* The output.                                                              *)

(* _create_output_temporary(): mkstemp beside the destination.  When the   *)
(* new file's identity cannot be read, the file stays and the caller is     *)
(* given no path to it.                                                     *)
CreateTemporary(c) ==
    /\ At(c, "temporary")
    /\ temporary' = [temporary EXCEPT ![c] = [file |-> "owned", bytes |-> "blank"]]
    /\ \/ op' = [op EXCEPT ![c].identity = TRUE,
                            ![c].pc = IF op[c].mode = "preserve" THEN "copy" ELSE "session"]
       \/ Fail(c, FALSE)
    /\ UNCHANGED <<leaseVars, source_bytes, live, destination>>

(* preserve: the copying loop, whole or stopped by an exception half way.   *)
CopySource(c) ==
    /\ At(c, "copy")
    /\ \/ /\ temporary' = [temporary EXCEPT ![c].bytes = source_bytes]
          /\ Goto(c, "verify")
       \/ /\ temporary' = [temporary EXCEPT ![c].bytes = "partial"]
          /\ Fail(c, FALSE)
    /\ UNCHANGED <<leaseVars, source_bytes, live, destination>>

(* backend.translate(): what it leaves at the temporary path, and what it   *)
(* reports; it may also raise, having written.                              *)
AfterWork(c) ==
    IF c \in leases THEN "close"
    ELSE IF op[c].mode = "translate" THEN "verify" ELSE "done"

Leftovers == {NoFile} \union [file : {"owned", "foreign"}, bytes : {"partial", "output"}]

(* Mutant: a value that is no report is let through. *)
TranslateUnreported(c) ==
    /\ At(c, "work")
    /\ op[c].mode = "translate"
    /\ \E left \in Leftovers : temporary' = [temporary EXCEPT ![c] = left]
    /\ \E reported \in {"None", "output"} :
          op' = [op EXCEPT ![c].pc = AfterWork(c), ![c].report = reported]
    /\ UNCHANGED <<leaseVars, source_bytes, live, destination>>

Translate(c) ==
    /\ At(c, "work")
    /\ op[c].mode = "translate"
    /\ \E left \in Leftovers : temporary' = [temporary EXCEPT ![c] = left]
    /\ \/ op' = [op EXCEPT ![c].pc = AfterWork(c), ![c].report = "output"]
       \/ Fail(c, FALSE)
    /\ UNCHANGED <<leaseVars, source_bytes, live, destination>>

(* backend.tessellate() and _bind_tessellation(): a result or an exception. *)
Tessellate(c) ==
    /\ At(c, "work")
    /\ op[c].mode = "tessellate"
    /\ Goto(c, AfterWork(c))
    /\ UNCHANGED <<leaseVars, source_bytes, live, destination, temporary>>

(* The digest to find: the manifest's for preserve, the report's for        *)
(* translate.                                                               *)
Expected(c) == IF op[c].mode = "preserve" THEN "source" ELSE op[c].report

(* Mutant: whose file it is is not asked. *)
VerifyDigestOnly(c) ==
    /\ At(c, "verify")
    /\ \/ temporary[c].bytes = Expected(c) /\ Goto(c, "publish")
       \/ temporary[c].bytes # Expected(c) /\ Fail(c, FALSE)
    /\ UNCHANGED <<leaseVars, source_bytes, live, destination, temporary>>

(* The file at the path is the one created, before and after it is flushed  *)
(* and hashed, and has the expected digest.                                 *)
VerifyOutput(c) ==
    /\ At(c, "verify")
    /\ LET good == temporary[c].file = "owned" /\ temporary[c].bytes = Expected(c)
       IN  \/ good /\ Goto(c, "publish")
           \/ ~good /\ Fail(c, FALSE)
    /\ UNCHANGED <<leaseVars, source_bytes, live, destination, temporary>>

(* os.replace(): from here on nothing raises. *)
Replace(c) ==
    /\ destination' = [by |-> c, file |-> temporary[c].file, bytes |-> temporary[c].bytes]
    /\ temporary' = [temporary EXCEPT ![c] = NoFile]

(* Mutant: the operation can still be cancelled after the replacement. *)
ReplaceThenCheck(c) ==
    /\ At(c, "publish")
    /\ Replace(c)
    /\ \E cancelled \in BOOLEAN :
          op' = [op EXCEPT ![c].published = TRUE, ![c].failing = cancelled,
                           ![c].pc = IF c \in leases THEN "leave" ELSE "done"]
    /\ UNCHANGED <<leaseVars, source_bytes, live>>

Publish(c) ==
    /\ At(c, "publish")
    /\ Replace(c)
    /\ op' = [op EXCEPT ![c].published = TRUE,
                        ![c].pc = IF c \in leases THEN "leave" ELSE "done"]
    /\ UNCHANGED <<leaseVars, source_bytes, live>>

(* Mutants: whatever is at the path is removed, and nothing is. *)
CleanupByPath(c) ==
    /\ At(c, "cleanup")
    /\ temporary' = [temporary EXCEPT ![c] = NoFile]
    /\ Goto(c, "done")
    /\ UNCHANGED <<leaseVars, source_bytes, live, destination>>

CleanupNothing(c) ==
    /\ At(c, "cleanup")
    /\ Goto(c, "done")
    /\ UNCHANGED <<leaseVars, source_bytes, live, destination, temporary>>

(* _cleanup_after_failure() in `except Exception`: _unlink_owned() removes  *)
(* the file it knows by identity, refuses any other, and may itself fail,   *)
(* which becomes a note; an interrupt is no Exception.                      *)
Cleanup(c) ==
    /\ At(c, "cleanup")
    /\ LET tried == ~op[c].interrupt /\ op[c].identity /\ temporary[c].file # "none"
       IN  \/ /\ ~tried
              /\ Goto(c, "done")
              /\ UNCHANGED temporary
           \/ /\ tried
              /\ temporary[c].file = "owned"
              /\ temporary' = [temporary EXCEPT ![c] = NoFile]
              /\ Goto(c, "done")
           \/ /\ tried
              /\ op' = [op EXCEPT ![c].pc = "done", ![c].refused = TRUE]
              /\ UNCHANGED temporary
    /\ UNCHANGED <<leaseVars, source_bytes, live, destination>>

----------------------------------------------------------------------------
(* The rest of the process and its surroundings.                            *)

(* release_source() in another thread. *)
Release ==
    /\ Lease!Request \/ Lease!Detach \/ Lease!Delete
    /\ UNCHANGED <<source_bytes, live, destination, temporary, op>>

(* close() by the owner, between its operations. *)
CloseSession ==
    /\ live
    /\ op[Owner].pc \in {"idle", "done"}
    /\ live' = FALSE
    /\ UNCHANGED <<leaseVars, source_bytes, destination, temporary, op>>

(* What a write of these bytes leaves of the writes caller c cannot see: a   *)
(* change between its first digest and the signature it takes next, and the  *)
(* original put back between its last signature and its last digest.         *)
Unseen(c, bytes) ==
    IF At(c, "stat") THEN (IF bytes = "changed" THEN {"before"} ELSE {})
    ELSE IF At(c, "rehash") /\ bytes = "source" /\ op[c].unseen # {} THEN Gaps
    ELSE op[c].unseen

(* Another program writes the retained source: other bytes, or the ones it  *)
(* had.  Whoever holds a signature of it holds an old one now.              *)
Tamper ==
    /\ file = "present"
    /\ source_bytes' \in {"source", "changed"}
    /\ op' = [c \in Callers |->
                 [op[c] EXCEPT !.signature = IF @ = "none" THEN "none" ELSE "stale",
                               !.unseen = Unseen(c, source_bytes')]]
    /\ UNCHANGED <<leaseVars, live, destination, temporary>>

Step(c) ==
    \/ UseSession(c) \/ BorrowSource(c) \/ HashSource(c) \/ StatSource(c) \/ Reopen(c)
    \/ CloseTransient(c) \/ CompareSource(c) \/ RehashSource(c) \/ LeaveBorrow(c)
    \/ CreateTemporary(c) \/ CopySource(c) \/ Translate(c) \/ Tessellate(c)
    \/ VerifyOutput(c) \/ Publish(c) \/ Cleanup(c)

Next ==
    \/ \E c \in Callers : Start(c) \/ Step(c) \/ Raise(c)
    \/ Release \/ CloseSession \/ Tamper

Spec == Init /\ [][Next]_vars

(* A started operation keeps running, and a requested release goes on when  *)
(* the last borrower has left (CadDocument's ReleaseReturns).               *)
FairSpec ==
    /\ Spec
    /\ \A c \in Callers : WF_vars(Step(c))
    /\ WF_vars(phase = "draining" /\ Release)
----------------------------------------------------------------------------
(* Properties. *)

(* The destination and the operations are an AtomicOutput: a file put there *)
(* is the caller's own temporary with exactly the bytes it then reports, in *)
(* the one step that makes the operation succeed.                           *)
Intact ==
    \/ destination.by = NoCaller
    \/ /\ destination.by \in Callers
       /\ destination.file = "owned"
       /\ destination.bytes = Expected(destination.by)

Author == IF Intact THEN destination.by ELSE "damaged"

Outcome ==
    [c \in Callers |->
        IF op[c].published /\ ~op[c].failing THEN "published"
        ELSE IF At(c, "done") THEN "ended" ELSE "running"]

Output == INSTANCE AtomicOutput WITH
             Writers <- Callers, Nobody <- NoCaller, author <- Author, outcome <- Outcome

OutputSpec == Output!Spec

(* An operation that has ended, failed or not, has left no temporary beside *)
(* the destination, unless it says so: it was interrupted, the file's       *)
(* identity could not be recorded, or its removal was refused.              *)
NoResidue ==
    \A c \in Callers :
        At(c, "done") /\ op[c].identity /\ ~op[c].interrupt /\ ~op[c].refused =>
            temporary[c].file = "none"

(* A file that is not the one the operation created is never removed, moved *)
(* or rewritten by it: only the provider's own call changes such a file.    *)
ForeignFileKept ==
    [][\A c \in Callers :
         temporary[c].file = "foreign" => temporary'[c] = temporary[c]]_vars

(* A transient session lives inside its borrow: when the borrow has been    *)
(* left the session is closed, or its close was tried and raised.           *)
TransientInsideBorrow ==
    \A c \in Callers : op[c].transient = "open" => c \in leases

(* An operation that reopened the retained source and succeeds has worked   *)
(* on the bytes of the manifest's digest, though another program changes    *)
(* the file while the provider reads it, and even if it is put back before  *)
(* the digest is taken again (_operation_document's two stats around the    *)
(* work).  Only a file written in both gaps between a digest and a stat,    *)
(* changed in the first and put back in the second, escapes the checks.     *)
ReadsVerified ==
    \A c \in Callers :
        At(c, "done") /\ ~op[c].failing /\ op[c].transient # "none" =>
            op[c].read = "source" \/ op[c].unseen = Gaps

(* The provider only works on a document whose source cannot vanish under   *)
(* it: a borrowed one, or the live session on its owner's thread.           *)
WorkHasSource ==
    \A c \in Callers :
        At(c, "work") => \/ c \in leases /\ file = "present"
                         \/ live /\ c = Owner

(* A release waiting for borrowers gets the source, whichever way the       *)
(* operations end.                                                          *)
ReleaseNotStarved == phase = "draining" ~> phase = "detached"

(* No operation waits for a release: once started it ends.                  *)
OperationEnds == \A c \in Callers : ~At(c, "idle") ~> At(c, "done")
============================================================================
