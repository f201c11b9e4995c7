------------------------- MODULE CadDocumentProofs -------------------------
(***************************************************************************)
(* Proofs about CadDocument for every set of threads: the type invariant,  *)
(* the safety of borrowed sources, and the affinity of the live session.   *)
(***************************************************************************)
EXTENDS CadDocument, FiniteSetTheorems, TLAPS

USE DEF Goto, Waits, PcValues

(* TypeOK holds initially and every step of a thread keeps it. *)
LEMMA TypeInit == Init => TypeOK
<1> SUFFICES ASSUME Init PROVE TypeOK
  OBVIOUS
<1>1. closed \in BOOLEAN
  BY Zenon DEF Init, Allocate
<1>2. QED
  BY <1>1 DEF Init, Allocate, FromBackend, FromPreviewArtifact, TypeOK

(* Detach and the two branches of the release loop keep the types of what   *)
(* they change.                                                             *)
LEMMA AwaitType ==
    ASSUME TypeOK, NEW t \in Threads, AwaitBorrowers(t)
    PROVE  /\ source_snapshot' \in {"path", "None"}
           /\ source' \in [Threads -> {"path", "None"}]
           /\ pc' \in [Threads -> PcValues]
  BY DEF TypeOK, AwaitBorrowers, Detach

(* The counter is decremented only by a thread it counts. *)
CountInv == IsFiniteSet(borrows) /\ borrowers = Cardinality(borrows)

LEMMA CountPositive ==
    ASSUME CountInv, NEW t \in borrows
    PROVE  borrowers \in Nat /\ borrowers - 1 \in Nat
<1>1. Cardinality(borrows \ {t}) = borrowers - 1
  BY FS_RemoveElement DEF CountInv
<1>2. IsFiniteSet(borrows \ {t})
  BY FS_RemoveElement DEF CountInv
<1>3. QED
  BY <1>1, <1>2, FS_CardinalityType DEF CountInv

----------------------------------------------------------------------------
(* Type correctness. *)

LEMMA SourceStepType ==
    ASSUME TypeOK, CountInv, NEW t \in Threads, SourceStep(t)
    PROVE  TypeOK'
<1>1. CASE Borrow(t)
  BY <1>1 DEF TypeOK, Borrow, previewVars, sessionVars
<1>2. CASE ExitBorrow(t)
  <2>1. borrowers' \in Nat
    BY <1>2, CountPositive DEF ExitBorrow
  <2>2. pc' \in [Threads -> PcValues]
    BY <1>2 DEF TypeOK, ExitBorrow, NotifyAll
  <2>3. QED
    BY <1>2, <2>1, <2>2 DEF TypeOK, ExitBorrow, previewVars, sessionVars
<1>3. CASE ReleaseSource(t)
  <2>1. /\ source_snapshot' \in {"path", "None"}
        /\ source' \in [Threads -> {"path", "None"}]
        /\ pc' \in [Threads -> PcValues]
    BY <1>3, AwaitType DEF TypeOK, ReleaseSource
  <2>2. QED
    BY <1>3, <2>1 DEF TypeOK, ReleaseSource, previewVars, sessionVars
<1>4. CASE Reacquire(t)
  BY <1>4, AwaitType DEF TypeOK, Reacquire, previewVars, sessionVars
<1>5. CASE InterruptWait(t)
  BY <1>5 DEF TypeOK, InterruptWait, sourceVars, previewVars, sessionVars
<1>6. CASE Unlink(t)
  <2>1. snapshot_file' \in {"present", "absent"}
    BY <1>6 DEF TypeOK, Unlink
  <2>2. faults' \subseteq {"AttributeError", "release_failed"}
    BY <1>6 DEF TypeOK, Unlink
  <2>3. QED
    BY <1>6, <2>1, <2>2 DEF TypeOK, Unlink, previewVars, sessionVars
<1>7. QED
  BY <1>1, <1>2, <1>3, <1>4, <1>5, <1>6 DEF SourceStep

LEMMA PreviewStepType ==
    ASSUME TypeOK, NEW t \in Threads, PreviewStep(t)
    PROVE  TypeOK'
<1>1. CASE AccessPreview(t)
  BY <1>1 DEF TypeOK, AccessPreview, sourceVars, previewVars, sessionVars
<1>2. CASE EnterLoad(t)
  BY <1>2 DEF TypeOK, EnterLoad, sourceVars, sessionVars
<1>3. CASE LoaderReturns(t)
  BY <1>3 DEF TypeOK, LoaderReturns, sourceVars, sessionVars
<1>4. CASE LoaderFails(t)
  BY <1>4 DEF TypeOK, LoaderFails, sourceVars, sessionVars
<1>5. CASE LoaderInterrupted(t)
  BY <1>5 DEF TypeOK, LoaderInterrupted, sourceVars, previewVars, sessionVars
<1>6. CASE DropLoader(t)
  BY <1>6 DEF TypeOK, DropLoader, sourceVars, sessionVars
<1>7. CASE ResolvePreview(t)
  <2>1. PreviewOutcome \in {"meshes", "no_meshes", "load_failed", "invalid_without_source"}
    BY DEF TypeOK, PreviewOutcome
  <2>2. QED
    BY <1>7, <2>1 DEF TypeOK, ResolvePreview, sourceVars, sessionVars
<1>8. QED
  BY <1>1, <1>2, <1>3, <1>4, <1>5, <1>6, <1>7 DEF PreviewStep

LEMMA SessionStepType ==
    ASSUME TypeOK, NEW t \in Threads, SessionStep(t)
    PROVE  TypeOK'
<1>1. CASE EnterSession(t)
  BY <1>1 DEF TypeOK, EnterSession, sourceVars, previewVars, sessionVars
<1>2. CASE LeaveSession(t)
  BY <1>2 DEF TypeOK, LeaveSession, sourceVars, previewVars, sessionVars
<1>3. CASE Close(t)
  BY <1>3 DEF TypeOK, Close, sourceVars, previewVars
<1>4. CASE CloseCallbackReturns(t)
  BY <1>4 DEF TypeOK, CloseCallbackReturns, sourceVars, previewVars
<1>5. CASE CloseCallbackRaises(t)
  BY <1>5 DEF TypeOK, CloseCallbackRaises, sourceVars, previewVars, sessionVars
<1>6. QED
  BY <1>1, <1>2, <1>3, <1>4, <1>5 DEF SessionStep

----------------------------------------------------------------------------
(* The retained source.  A borrower keeps the snapshot attached, an         *)
(* attached snapshot is on disk, and a thread that will unlink the file has *)
(* detached it first.                                                       *)
SourceInv ==
    /\ CountInv
    /\ borrows # {} => source_snapshot = "path"
    /\ source_snapshot = "path" => snapshot_file = "present"
    /\ \A t \in Threads : pc[t] = "unlink" /\ source[t] = "path" => source_snapshot = "None"
    /\ NoForgottenSnapshot

LEMMA SourceInit == Init => SourceInv
  BY FS_EmptySet DEF Init, Allocate, SourceInv, CountInv, NoForgottenSnapshot

(* The release loop falls through only when nobody is inside a borrow, and  *)
(* then a snapshot it detaches is the one it will unlink.                   *)
LEMMA AwaitSource ==
    ASSUME TypeOK, SourceInv, NEW t \in Threads, pc[t] # "unlink", AwaitBorrowers(t),
           UNCHANGED <<borrowers, borrows, snapshot_file, faults>>
    PROVE  SourceInv'
<1>1. CountInv'
  BY DEF SourceInv, CountInv
<1>2. CASE borrowers > 0
  <2>1. UNCHANGED <<source, source_snapshot>> /\ Goto(t, "waiting")
    BY <1>2 DEF AwaitBorrowers, SourceInv, CountInv
  <2>2. QED
    BY <1>1, <2>1 DEF SourceInv, NoForgottenSnapshot, TypeOK
<1>3. CASE borrowers = 0
  <2>1. borrows = {}
    BY <1>3, FS_EmptySet DEF SourceInv, CountInv
  <2>2. Detach(t)
    BY <1>3 DEF AwaitBorrowers
  <2>3. NoForgottenSnapshot'
    BY <2>2 DEF Detach, SourceInv, NoForgottenSnapshot, TypeOK
  <2>4. QED
    BY <1>1, <2>1, <2>2, <2>3 DEF Detach, SourceInv, TypeOK
<1>4. QED
  BY <1>2, <1>3 DEF TypeOK

(* A step that leaves the source alone and takes no thread into or out of   *)
(* its unlink keeps the invariant.                                          *)
LEMMA SourceFrame ==
    ASSUME TypeOK, SourceInv, UNCHANGED sourceVars,
           \A t \in Threads : pc'[t] = "unlink" <=> pc[t] = "unlink"
    PROVE  SourceInv'
  BY DEF SourceInv, CountInv, NoForgottenSnapshot, sourceVars

LEMMA SourceStepSafe ==
    ASSUME TypeOK, SourceInv, NEW t \in Threads, SourceStep(t)
    PROVE  SourceInv'
<1>1. CASE Borrow(t)
  <2>1. CountInv'
    BY <1>1, FS_AddElement DEF Borrow, SourceInv, CountInv
  <2>2. QED
    BY <1>1, <2>1 DEF Borrow, SourceAvailable, SourceInv, NoForgottenSnapshot, TypeOK
<1>2. CASE ExitBorrow(t)
  <2>1. CountInv'
    BY <1>2, FS_RemoveElement DEF ExitBorrow, SourceInv, CountInv
  <2>2. \A u \in Threads : pc'[u] = "unlink" <=> pc[u] = "unlink"
    BY <1>2 DEF ExitBorrow, NotifyAll, TypeOK
  <2>3. QED
    BY <1>2, <2>1, <2>2 DEF ExitBorrow, SourceInv, NoForgottenSnapshot
<1>3. CASE ReleaseSource(t)
  <2>1. CASE source_snapshot = "None"
    BY <1>3, <2>1 DEF ReleaseSource, SourceInv, CountInv, NoForgottenSnapshot
  <2>2. CASE source_snapshot = "path"
    BY <1>3, <2>2, AwaitSource DEF ReleaseSource
  <2>3. QED
    BY <2>1, <2>2 DEF TypeOK
<1>4. CASE Reacquire(t)
  BY <1>4, AwaitSource DEF Reacquire
<1>5. CASE InterruptWait(t)
  BY <1>5, SourceFrame DEF InterruptWait, TypeOK
<1>6. CASE Unlink(t)
  <2>1. CountInv'
    BY <1>6 DEF Unlink, SourceInv, CountInv
  <2>2. NoForgottenSnapshot'
    BY <1>6 DEF Unlink, SourceInv, NoForgottenSnapshot, TypeOK
  <2>3. QED
    BY <1>6, <2>1, <2>2 DEF Unlink, SourceInv, TypeOK
<1>7. QED
  BY <1>1, <1>2, <1>3, <1>4, <1>5, <1>6 DEF SourceStep

LEMMA OtherStepSource ==
    ASSUME TypeOK, SourceInv, NEW t \in Threads, PreviewStep(t) \/ SessionStep(t)
    PROVE  SourceInv'
<1>1. UNCHANGED sourceVars
  BY DEF PreviewStep, SessionStep, AccessPreview, EnterLoad, LoaderReturns, LoaderFails,
         LoaderInterrupted, DropLoader, ResolvePreview, EnterSession, LeaveSession, Close,
         CloseCallbackReturns, CloseCallbackRaises
<1>2. \A u \in Threads : pc'[u] = "unlink" <=> pc[u] = "unlink"
  BY DEF TypeOK, PreviewStep, SessionStep, AccessPreview, EnterLoad, LoaderReturns,
         LoaderFails, LoaderInterrupted, DropLoader, ResolvePreview, EnterSession,
         LeaveSession, Close, CloseCallbackReturns, CloseCallbackRaises
<1>3. QED
  BY <1>1, <1>2, SourceFrame

----------------------------------------------------------------------------
(* The live session. *)

LEMMA SessionInit == Init => SessionAffinity
  BY DEF Init, Allocate, SessionAffinity

LEMMA SourceStepSession ==
    ASSUME TypeOK, SessionAffinity, NEW t \in Threads, SourceStep(t) \/ PreviewStep(t)
    PROVE  SessionAffinity'
<1>1. UNCHANGED sessionVars
  BY DEF SourceStep, PreviewStep, Borrow, ExitBorrow, ReleaseSource, Reacquire,
         InterruptWait, Unlink, AccessPreview, EnterLoad, LoaderReturns, LoaderFails,
         LoaderInterrupted, DropLoader, ResolvePreview
<1>2. \A u \in Threads : pc'[u] \in {"in_session", "closing"} => pc[u] = pc'[u]
  BY DEF TypeOK, SourceStep, PreviewStep, Borrow, ExitBorrow, NotifyAll, ReleaseSource,
         Reacquire, AwaitBorrowers, Detach, InterruptWait, Unlink, AccessPreview, EnterLoad,
         LoaderReturns, LoaderFails, LoaderInterrupted, DropLoader, ResolvePreview
<1>3. QED
  BY <1>1, <1>2 DEF SessionAffinity, sessionVars

LEMMA SessionStepSession ==
    ASSUME TypeOK, SessionAffinity, NEW t \in Threads, SessionStep(t)
    PROVE  SessionAffinity'
<1>1. CASE EnterSession(t)
  BY <1>1 DEF EnterSession, SessionUsableBy, SessionAffinity, sessionVars, TypeOK
<1>2. CASE LeaveSession(t)
  BY <1>2 DEF LeaveSession, SessionAffinity, sessionVars, TypeOK
<1>3. CASE Close(t)
  BY <1>3 DEF Close, SessionAffinity, TypeOK
<1>4. CASE CloseCallbackReturns(t)
  BY <1>4 DEF CloseCallbackReturns, SessionAffinity, TypeOK
<1>5. CASE CloseCallbackRaises(t)
  BY <1>5 DEF CloseCallbackRaises, SessionAffinity, sessionVars, TypeOK
<1>6. QED
  BY <1>1, <1>2, <1>3, <1>4, <1>5 DEF SessionStep

----------------------------------------------------------------------------
(* The lazy preview.  The lock is held exactly by the thread inside the     *)
(* loader's try block; until that block is left the loader is armed and no  *)
(* access has finished; afterwards the outcome no longer changes.           *)
InLoader(t) == pc[t] \in {"loading", "finally"}

LoadInv ==
    /\ \A t \in Threads : InLoader(t) <=> lock = t
    /\ lock # NoThread => loader = "armed" /\ loads = 1
    /\ loads <= 1
    /\ loader = "armed" =>
         /\ observed = {}
         /\ lock = NoThread => loads = 0
         /\ lock = NoThread \/ pc[lock] = "loading" =>
               loader_error = "None" /\ tessellation = "None"
    /\ \A t \in Threads : pc[t] = "resolve" => loader = "None"
    /\ observed \subseteq {PreviewOutcome}

LEMMA LoadInit == Init => LoadInv
  BY ThreadsAssumption DEF Init, Allocate, FromBackend, FromPreviewArtifact, LoadInv, InLoader

LEMMA LoadFrame ==
    ASSUME TypeOK, LoadInv, UNCHANGED <<previewVars, lock>>,
           \A t \in Threads : \/ pc'[t] = pc[t]
                              \/ {pc[t], pc'[t]} \cap {"loading", "finally", "resolve"} = {}
    PROVE  LoadInv'
<1>1. \A t \in Threads :
        /\ InLoader(t) <=> InLoader(t)'
        /\ pc'[t] = "resolve" => pc[t] = "resolve"
        /\ pc[t] = "loading" <=> pc'[t] = "loading"
  BY DEF InLoader
<1>2. PreviewOutcome' = PreviewOutcome
  BY DEF PreviewOutcome, previewVars
<1>3. lock = NoThread \/ pc[lock] = "loading" <=> lock' = NoThread \/ pc'[lock'] = "loading"
  BY <1>1 DEF TypeOK
<1>4. QED
  BY <1>1, <1>2, <1>3 DEF LoadInv, previewVars

LEMMA SourceStepLoad ==
    ASSUME TypeOK, LoadInv, NEW t \in Threads, SourceStep(t) \/ SessionStep(t)
    PROVE  LoadInv'
<1>1. UNCHANGED <<previewVars, lock>>
  BY DEF SourceStep, SessionStep, Borrow, ExitBorrow, ReleaseSource, Reacquire,
         InterruptWait, Unlink, EnterSession, LeaveSession, Close, CloseCallbackReturns,
         CloseCallbackRaises
<1>2. \A u \in Threads : \/ pc'[u] = pc[u]
                         \/ {pc[u], pc'[u]} \cap {"loading", "finally", "resolve"} = {}
  BY DEF TypeOK, SourceStep, SessionStep, Borrow, ExitBorrow, NotifyAll, ReleaseSource,
         Reacquire, AwaitBorrowers, Detach, InterruptWait, Unlink, EnterSession,
         LeaveSession, Close, CloseCallbackReturns, CloseCallbackRaises
<1>3. QED
  BY <1>1, <1>2, LoadFrame

LEMMA PreviewStepLoad ==
    ASSUME TypeOK, LoadInv, NEW t \in Threads, PreviewStep(t)
    PROVE  LoadInv'
<1> USE ThreadsAssumption DEF LoadInv, InLoader
<1>1. CASE AccessPreview(t)
  BY <1>1 DEF AccessPreview, TypeOK, PreviewOutcome, previewVars
<1>2. CASE EnterLoad(t)
  BY <1>2 DEF EnterLoad, TypeOK, PreviewOutcome
<1>3. CASE LoaderReturns(t)
  BY <1>3 DEF LoaderReturns, TypeOK, PreviewOutcome
<1>4. CASE LoaderFails(t)
  BY <1>4 DEF LoaderFails, TypeOK, PreviewOutcome
<1>5. CASE LoaderInterrupted(t)
  BY <1>5 DEF LoaderInterrupted, TypeOK, PreviewOutcome, previewVars
<1>6. CASE DropLoader(t)
  BY <1>6 DEF DropLoader, TypeOK, PreviewOutcome
<1>7. CASE ResolvePreview(t)
  BY <1>7 DEF ResolvePreview, TypeOK, PreviewOutcome
<1>8. QED
  BY <1>1, <1>2, <1>3, <1>4, <1>5, <1>6, <1>7 DEF PreviewStep

(* At most one invocation and one outcome. *)
LEMMA OneOutcome == LoadInv => OneLoadOneOutcome
<1>1. Cardinality({PreviewOutcome}) = 1 /\ IsFiniteSet({PreviewOutcome})
  BY FS_Singleton
<1>2. QED
  BY <1>1, FS_Subset DEF LoadInv, OneLoadOneOutcome

----------------------------------------------------------------------------
(* The retained source implements SourceLease. *)

LEMMA LeaseInit == Init => Lease!Init
  BY DEF Init, Allocate, Lease!Init, Phase, SourceAvailable

(* The release loop either waits, which changes the phase only by the       *)
(* request, or detaches the snapshot from a document nobody borrows from.   *)
LEMMA AwaitLease ==
    ASSUME TypeOK, SourceInv, NEW t \in Threads, AwaitBorrowers(t),
           release_requested', UNCHANGED <<borrows, snapshot_file>>
    PROVE  Lease!Request \/ Lease!Detach \/ UNCHANGED Lease!leaseVars
<1> USE DEF Lease!Request, Lease!Detach, Lease!leaseVars, Phase, SourceAvailable
<1>1. CASE borrowers > 0
  BY <1>1 DEF AwaitBorrowers, TypeOK
<1>2. CASE borrowers = 0
  <2>1. borrows = {}
    BY <1>2, FS_EmptySet DEF SourceInv, CountInv
  <2>2. QED
    BY <1>2, <2>1 DEF AwaitBorrowers, Detach, TypeOK
<1>3. QED
  BY <1>1, <1>2 DEF TypeOK

(* Whoever waits has requested the release. *)
RequestInv == \A t \in Threads : pc[t] \in Waits => release_requested

LEMMA RequestStep ==
    ASSUME TypeOK, RequestInv, NEW t \in Threads,
           SourceStep(t) \/ PreviewStep(t) \/ SessionStep(t)
    PROVE  RequestInv'
<1>1. release_requested => release_requested'
  BY DEF SourceStep, PreviewStep, SessionStep, Borrow, ExitBorrow, ReleaseSource, Reacquire,
         InterruptWait, Unlink, AccessPreview, EnterLoad, LoaderReturns, LoaderFails,
         LoaderInterrupted, DropLoader, ResolvePreview, EnterSession, LeaveSession, Close,
         CloseCallbackReturns, CloseCallbackRaises, sourceVars
<1>2. \A u \in Threads : pc'[u] \in Waits => pc[u] \in Waits \/ release_requested'
  BY DEF TypeOK, SourceStep, PreviewStep, SessionStep, Borrow, ExitBorrow, NotifyAll,
         ReleaseSource, Reacquire, AwaitBorrowers, Detach, InterruptWait, Unlink,
         AccessPreview, EnterLoad, LoaderReturns, LoaderFails, LoaderInterrupted, DropLoader,
         ResolvePreview, EnterSession, LeaveSession, Close, CloseCallbackReturns,
         CloseCallbackRaises
<1>3. QED
  BY <1>1, <1>2 DEF RequestInv

LEMMA SourceStepLease ==
    ASSUME TypeOK, SourceInv, RequestInv, NEW t \in Threads, SourceStep(t)
    PROVE  Lease!Next \/ UNCHANGED Lease!leaseVars
<1> USE DEF Lease!Next, Lease!leaseVars, Phase, SourceAvailable
<1>1. CASE Borrow(t)
  <2>1. Lease!Acquire(t)
    BY <1>1 DEF Borrow, Lease!Acquire
  <2>2. QED
    BY <2>1
<1>2. CASE ExitBorrow(t)
  <2>1. Lease!Drop(t)
    BY <1>2 DEF ExitBorrow, Lease!Drop
  <2>2. QED
    BY <2>1
<1>3. CASE ReleaseSource(t)
  <2>1. CASE source_snapshot = "None"
    BY <1>3, <2>1 DEF ReleaseSource
  <2>2. CASE source_snapshot = "path"
    BY <1>3, <2>2, AwaitLease DEF ReleaseSource
  <2>3. QED
    BY <2>1, <2>2 DEF TypeOK
<1>4. CASE Reacquire(t)
  BY <1>4, AwaitLease DEF Reacquire, RequestInv
<1>5. CASE InterruptWait(t)
  BY <1>5 DEF InterruptWait, sourceVars
<1>6. CASE Unlink(t)
  BY <1>6 DEF Unlink, Lease!Delete, SourceInv, TypeOK
<1>7. QED
  BY <1>1, <1>2, <1>3, <1>4, <1>5, <1>6 DEF SourceStep

LEMMA OtherStepLease ==
    ASSUME NEW t \in Threads, PreviewStep(t) \/ SessionStep(t)
    PROVE  UNCHANGED Lease!leaseVars
<1>1. UNCHANGED sourceVars
  BY DEF PreviewStep, SessionStep, AccessPreview, EnterLoad, LoaderReturns, LoaderFails,
         LoaderInterrupted, DropLoader, ResolvePreview, EnterSession, LeaveSession, Close,
         CloseCallbackReturns, CloseCallbackRaises
<1>2. QED
  BY <1>1 DEF sourceVars, Lease!leaseVars, Phase, SourceAvailable

----------------------------------------------------------------------------
(* The theorems.  Their invariants are proved together: the type of the     *)
(* borrower counter rests on SourceInv.                                     *)
IndInv == TypeOK /\ SourceInv /\ RequestInv /\ LoadInv /\ SessionAffinity

LEMMA InductiveInit == Init => IndInv
<1>1. Init => RequestInv
  BY DEF Init, Allocate, RequestInv
<1>2. QED
  BY <1>1, TypeInit, SourceInit, LoadInit, SessionInit DEF IndInv

LEMMA InductiveStep == IndInv /\ [Next]_vars => IndInv'
<1> SUFFICES ASSUME IndInv, [Next]_vars PROVE IndInv'
  OBVIOUS
<1>1. ASSUME NEW t \in Threads, SourceStep(t) PROVE IndInv'
  BY <1>1, SourceStepType, SourceStepSafe, SourceStepLoad, SourceStepSession, RequestStep
     DEF IndInv, SourceInv
<1>2. ASSUME NEW t \in Threads, PreviewStep(t) PROVE IndInv'
  BY <1>2, PreviewStepType, OtherStepSource, PreviewStepLoad, SourceStepSession, RequestStep
     DEF IndInv
<1>3. ASSUME NEW t \in Threads, SessionStep(t) PROVE IndInv'
  BY <1>3, SessionStepType, OtherStepSource, SourceStepLoad, SessionStepSession, RequestStep
     DEF IndInv
<1>4. CASE UNCHANGED vars
  BY <1>4 DEF IndInv, TypeOK, SourceInv, CountInv, NoForgottenSnapshot, RequestInv, LoadInv,
              InLoader, PreviewOutcome, SessionAffinity, vars, sourceVars, previewVars,
              sessionVars
<1>5. QED
  BY <1>1, <1>2, <1>3, <1>4 DEF Next

LEMMA InductiveInvariant == Spec => []IndInv
  BY InductiveInit, InductiveStep, PTL DEF Spec

(* Every field of the document, and every thread's place in its methods,    *)
(* keeps its type; in particular the borrower counter of                    *)
(* _borrow_source_snapshot() never goes below zero.                         *)
THEOREM TypeCorrect == Spec => []TypeOK
  BY InductiveInvariant, PTL DEF IndInv

(* _borrow_source_snapshot(): the snapshot outlives every borrow of it. *)
THEOREM BorrowSafety == Spec => []BorrowedSourceIntact
<1>1. IndInv => BorrowedSourceIntact
  BY DEF IndInv, SourceInv, BorrowedSourceIntact
<1>2. QED
  BY <1>1, InductiveInvariant, PTL

(* release_source(): a detached snapshot is unlinked, about to be unlinked, *)
(* or its failed unlink was reported.                                       *)
THEOREM NoLeak == Spec => []NoForgottenSnapshot
<1>1. IndInv => NoForgottenSnapshot
  BY DEF IndInv, SourceInv
<1>2. QED
  BY <1>1, InductiveInvariant, PTL

(* _ensure_preview_loaded(): one invocation of the loader, one outcome. *)
THEOREM SharedLoad == Spec => []OneLoadOneOutcome
<1>1. IndInv => OneLoadOneOutcome
  BY OneOutcome DEF IndInv
<1>2. QED
  BY <1>1, InductiveInvariant, PTL

(* close() and _backend_state_for(): the session stays with its owner. *)
THEOREM SessionStaysWithOwner == Spec => []SessionAffinity
  BY InductiveInvariant, PTL DEF IndInv

(* The document's source implements the abstract lease: no reader is let in *)
(* after a release request, and the source is detached only when the last   *)
(* reader has left and deleted only when detached.                          *)
THEOREM ImplementsLease == Spec => LeaseSpec
<1>1. IndInv /\ [Next]_vars => [Lease!Next]_Lease!leaseVars
  <2> SUFFICES ASSUME IndInv, [Next]_vars
               PROVE  Lease!Next \/ UNCHANGED Lease!leaseVars
    OBVIOUS
  <2>1. ASSUME NEW t \in Threads, SourceStep(t)
        PROVE  Lease!Next \/ UNCHANGED Lease!leaseVars
    BY <2>1, SourceStepLease DEF IndInv
  <2>2. ASSUME NEW t \in Threads, PreviewStep(t) \/ SessionStep(t)
        PROVE  Lease!Next \/ UNCHANGED Lease!leaseVars
    BY <2>2, OtherStepLease
  <2>3. CASE UNCHANGED vars
    BY <2>3 DEF vars, sourceVars, Lease!leaseVars, Phase, SourceAvailable
  <2>4. QED
    BY <2>1, <2>2, <2>3 DEF Next
<1>2. QED
  BY <1>1, LeaseInit, InductiveInvariant, PTL DEF Spec, LeaseSpec, Lease!Spec
============================================================================
