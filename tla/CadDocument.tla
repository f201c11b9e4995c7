---------------------------- MODULE CadDocument ----------------------------
(***************************************************************************)
(* One published CadDocument shared by the threads of a process            *)
(* (src/src/anyfileio/cad.py, class CadDocument): the retained source with *)
(* its borrowers, the one-shot preview loader, and the live provider       *)
(* session.                                                                *)
(*                                                                         *)
(* A critical section that does not call out is one action, enabled while  *)
(* nobody holds the condition's lock.  Two things hold the lock or leave   *)
(* it half way: the loader runs inside it, and release_source() waits on   *)
(* the condition.  Both are split into the steps other threads can see.    *)
(***************************************************************************)
EXTENDS Naturals, FiniteSets

CONSTANTS
    Threads,            \* the threads that hold a reference to the document
    NoThread,           \* "no thread": a free lock, an absent owner
    MainThread,         \* the thread a KeyboardInterrupt is delivered to
    ReentrantReleasers  \* threads whose callbacks release inside a borrow

ASSUME ThreadsAssumption ==
    /\ NoThread \notin Threads
    /\ MainThread \in Threads
    /\ ReentrantReleasers \subseteq Threads

VARIABLES
    (* fields of the document *)
    source_snapshot,    \* _source_snapshot: "path" or "None"
    release_requested,  \* _release_requested
    borrowers,          \* _borrowers
    lock,               \* owner of the RLock of _condition, across a call out
    loader,             \* _loader: "armed" or "None"
    loader_error,       \* _loader_error: "None" or the cached failure's code
    tessellation,       \* _tessellation: "None" or "meshes"
    backend_state,      \* _backend_state: "live" or "None"
    owner,              \* _owner_thread_id
    closed,             \* _closed
    (* the file system *)
    snapshot_file,      \* the snapshot on disk: "present" or "absent"
    (* the threads *)
    pc,                 \* where each thread stands inside a document method
    source,             \* the local variable `source` of release_source()
    borrows,            \* the threads inside a _borrow_source_snapshot() block
    (* history, read by the properties only *)
    origin,             \* the factory the document came from
    loads,              \* how often the loader was called
    observed,           \* what finished accesses of `tessellation` saw
    faults              \* what finished calls of release_source() raised

sourceVars  == <<source_snapshot, release_requested, borrowers,
                 snapshot_file, source, borrows, faults>>
previewVars == <<loader, loader_error, tessellation, loads, observed>>
sessionVars == <<backend_state, owner, closed>>
vars == <<sourceVars, previewVars, sessionVars, lock, pc, origin>>

Waits == {"waiting", "woken"}
PcValues == {"idle", "unlink", "enter", "loading", "finally", "resolve",
             "in_session", "closing"} \union Waits

TypeOK ==
    /\ source_snapshot \in {"path", "None"}
    /\ release_requested \in BOOLEAN
    /\ borrowers \in Nat
    /\ lock \in Threads \union {NoThread}
    /\ loader \in {"armed", "None"}
    /\ loader_error \in {"None", "load_failed", "invalid_without_source"}
    /\ tessellation \in {"None", "meshes"}
    /\ backend_state \in {"live", "None"}
    /\ owner \in Threads \union {NoThread}
    /\ closed \in BOOLEAN
    /\ snapshot_file \in {"present", "absent"}
    /\ pc \in [Threads -> PcValues]
    /\ source \in [Threads -> {"path", "None"}]
    /\ borrows \subseteq Threads
    /\ origin \in {"backend", "artifact"}
    /\ loads \in Nat
    /\ observed \subseteq {"meshes", "no_meshes", "load_failed", "invalid_without_source"}
    /\ faults \subseteq {"AttributeError", "release_failed"}

----------------------------------------------------------------------------
(* The factories.  _from_backend gives a document with or without a live    *)
(* session and with or without published meshes; _from_preview_artifact     *)
(* gives a session-free document with an armed loader.  Either may retain a *)
(* source snapshot, which _allocate requires to be a file.                  *)

Allocate ==
    /\ source_snapshot \in {"path", "None"}
    /\ snapshot_file = IF source_snapshot = "path" THEN "present" ELSE "absent"
    /\ release_requested = FALSE
    /\ borrowers = 0
    /\ lock = NoThread
    /\ loader_error = "None"
    /\ closed = (backend_state = "None")
    /\ pc = [t \in Threads |-> "idle"]
    /\ source = [t \in Threads |-> "None"]
    /\ borrows = {}
    /\ loads = 0
    /\ observed = {}
    /\ faults = {}

FromBackend ==
    /\ origin = "backend"
    /\ loader = "None"
    /\ tessellation \in {"None", "meshes"}
    /\ \/ backend_state = "live" /\ owner \in Threads
       \/ backend_state = "None" /\ owner = NoThread

FromPreviewArtifact ==
    /\ origin = "artifact"
    /\ loader = "armed"
    /\ tessellation = "None"
    /\ backend_state = "None"
    /\ owner = NoThread

Init == (FromBackend \/ FromPreviewArtifact) /\ Allocate

----------------------------------------------------------------------------
(* The retained source.                                                     *)

SourceAvailable == source_snapshot = "path" /\ ~release_requested

Goto(t, label) == pc' = [pc EXCEPT ![t] = label]

(* Mutants: a borrower that is not counted, and one let in after a release  *)
(* was requested.                                                           *)
UncountedBorrow(t) ==
    /\ pc[t] = "idle"
    /\ t \notin borrows
    /\ lock = NoThread
    /\ SourceAvailable
    /\ borrows' = borrows \union {t}
    /\ UNCHANGED <<source_snapshot, release_requested, borrowers, snapshot_file,
                   source, faults, previewVars, sessionVars, lock, pc, origin>>

LateBorrow(t) ==
    /\ pc[t] = "idle"
    /\ t \notin borrows
    /\ lock = NoThread
    /\ source_snapshot = "path"
    /\ borrowers' = borrowers + 1
    /\ borrows' = borrows \union {t}
    /\ UNCHANGED <<source_snapshot, release_requested, snapshot_file, source,
                   faults, previewVars, sessionVars, lock, pc, origin>>

(* `with document._borrow_source_snapshot()`: entering the block.  When the *)
(* source is unavailable the call raises and changes nothing.               *)
Borrow(t) ==
    /\ pc[t] = "idle"
    /\ t \notin borrows
    /\ lock = NoThread
    /\ SourceAvailable
    /\ borrowers' = borrowers + 1
    /\ borrows' = borrows \union {t}
    /\ UNCHANGED <<source_snapshot, release_requested, snapshot_file, source,
                   faults, previewVars, sessionVars, lock, pc, origin>>

(* Leaving the block, normally or by an exception: the last borrower wakes  *)
(* every waiting thread.                                                    *)
NotifyNobody == UNCHANGED pc

NotifyAll == pc' = [t \in Threads |-> IF pc[t] = "waiting" THEN "woken" ELSE pc[t]]

ExitBorrow(t) ==
    /\ pc[t] = "idle"
    /\ t \in borrows
    /\ lock = NoThread
    /\ borrowers' = borrowers - 1
    /\ borrows' = borrows \ {t}
    /\ IF borrowers = 1 THEN NotifyAll ELSE UNCHANGED pc
    /\ UNCHANGED <<source_snapshot, release_requested, snapshot_file, source,
                   faults, previewVars, sessionVars, lock, origin>>

(* source, self._source_snapshot = self._source_snapshot, None: the end of  *)
(* the critical section.  Whether a path is still there is not asked again. *)
Detach(t) ==
    /\ source' = [source EXCEPT ![t] = source_snapshot]
    /\ source_snapshot' = "None"
    /\ Goto(t, "unlink")

(* Mutants: release without waiting, and detach before waiting. *)
AwaitNobody(t) == Detach(t)

DetachBeforeAwait(t) ==
    \/ /\ borrowers > 0
       /\ source_snapshot' = "None"
       /\ Goto(t, "waiting")
       /\ UNCHANGED source
    \/ /\ borrowers = 0
       /\ Detach(t)

(* The loop `while self._borrowers: self._condition.wait()`, entered with   *)
(* the lock held: wait (which gives the lock up), or fall through.          *)
AwaitBorrowers(t) ==
    \/ /\ borrowers > 0
       /\ Goto(t, "waiting")
       /\ UNCHANGED <<source, source_snapshot>>
    \/ /\ borrowers = 0
       /\ Detach(t)

(* release_source() up to its first wait or its unlink. *)
ReleaseSource(t) ==
    /\ pc[t] = "idle"
    /\ t \in borrows => t \in ReentrantReleasers
    /\ lock = NoThread
    /\ release_requested' = TRUE
    /\ \/ /\ source_snapshot = "None"
          /\ UNCHANGED <<source_snapshot, source, pc>>
       \/ /\ source_snapshot = "path"
          /\ AwaitBorrowers(t)
    /\ UNCHANGED <<borrowers, snapshot_file, borrows, faults, previewVars,
                   sessionVars, lock, origin>>

(* wait() returns: the thread has the lock again and tests the loop. *)
Reacquire(t) ==
    /\ pc[t] = "woken"
    /\ lock = NoThread
    /\ AwaitBorrowers(t)
    /\ UNCHANGED <<release_requested, borrowers, snapshot_file, borrows, faults,
                   previewVars, sessionVars, lock, origin>>

(* A KeyboardInterrupt ends wait() with the lock taken back and given up    *)
(* on the way out: the request stays, the snapshot stays attached.          *)
InterruptWait(t) ==
    /\ t = MainThread
    /\ pc[t] \in Waits
    /\ lock = NoThread
    /\ Goto(t, "idle")
    /\ UNCHANGED <<sourceVars, previewVars, sessionVars, lock, origin>>

(* source.unlink(missing_ok=True), outside the lock.  On None it is an      *)
(* AttributeError; an OSError becomes cad.source.release_failed, and the    *)
(* reference is already gone.                                               *)
Unlink(t) ==
    /\ pc[t] = "unlink"
    /\ Goto(t, "idle")
    /\ source' = [source EXCEPT ![t] = "None"]
    /\ \/ /\ source[t] = "None"
          /\ faults' = faults \union {"AttributeError"}
          /\ UNCHANGED snapshot_file
       \/ /\ source[t] = "path"
          /\ snapshot_file' = "absent"
          /\ UNCHANGED faults
       \/ /\ source[t] = "path"
          /\ faults' = faults \union {"release_failed"}
          /\ UNCHANGED snapshot_file
    /\ UNCHANGED <<source_snapshot, release_requested, borrowers, borrows,
                   previewVars, sessionVars, lock, origin>>

----------------------------------------------------------------------------
(* The preview: `tessellation` and `prototype_meshes` through               *)
(* _ensure_preview_loaded().                                                *)

(* The unlocked test of `self._loader is None`. *)
AccessPreview(t) ==
    /\ pc[t] = "idle"
    /\ Goto(t, IF loader = "None" THEN "resolve" ELSE "enter")
    /\ UNCHANGED <<sourceVars, previewVars, sessionVars, lock, origin>>

(* Mutant: no second test under the lock. *)
EnterLoadUnchecked(t) ==
    /\ pc[t] = "enter"
    /\ lock = NoThread
    /\ Goto(t, "loading")
    /\ lock' = t
    /\ loads' = loads + 1
    /\ UNCHANGED <<sourceVars, sessionVars, loader, loader_error, tessellation,
                   observed, origin>>

(* The test again with the lock held, then the call of the loader in it. *)
EnterLoad(t) ==
    /\ pc[t] = "enter"
    /\ lock = NoThread
    /\ \/ /\ loader = "None"
          /\ Goto(t, "resolve")
          /\ UNCHANGED <<lock, loads>>
       \/ /\ loader = "armed"
          /\ Goto(t, "loading")
          /\ lock' = t
          /\ loads' = loads + 1
    /\ UNCHANGED <<sourceVars, sessionVars, loader, loader_error, tessellation,
                   observed, origin>>

LoaderReturns(t) ==
    /\ pc[t] = "loading"
    /\ tessellation' = "meshes"
    /\ Goto(t, "finally")
    /\ UNCHANGED <<sourceVars, sessionVars, loader, loader_error, loads, observed,
                   lock, origin>>

(* Any Exception of the loader or of _bind_tessellation is cached.  The     *)
(* artifact's loader asks source_available (the lock is reentrant) and      *)
(* gives its own failure the code for a document with no source to fall     *)
(* back on; a failure to bind its meshes has the other code.                *)
LoaderFails(t) ==
    /\ pc[t] = "loading"
    /\ \/ loader_error' = "load_failed"
       \/ ~SourceAvailable /\ loader_error' = "invalid_without_source"
    /\ Goto(t, "finally")
    /\ UNCHANGED <<sourceVars, sessionVars, loader, tessellation, loads, observed,
                   lock, origin>>

(* A KeyboardInterrupt in the loader is no Exception: nothing is cached. *)
LoaderInterrupted(t) ==
    /\ t = MainThread
    /\ pc[t] = "loading"
    /\ Goto(t, "finally")
    /\ UNCHANGED <<sourceVars, sessionVars, previewVars, lock, origin>>

(* Mutant: an exception leaves the lock taken. *)
DropLoaderOnly(t) ==
    /\ pc[t] = "finally"
    /\ loader' = "None"
    /\ lock' = IF loader_error = "None" THEN NoThread ELSE lock
    /\ Goto(t, IF loader_error = "None" /\ tessellation = "None" THEN "idle" ELSE "resolve")
    /\ UNCHANGED <<sourceVars, sessionVars, loader_error, tessellation, loads,
                   observed, origin>>

(* `finally: self._loader = None` and the end of the critical section; the  *)
(* interrupt passes through to the caller.                                  *)
DropLoader(t) ==
    /\ pc[t] = "finally"
    /\ loader' = "None"
    /\ lock' = NoThread
    /\ Goto(t, IF loader_error = "None" /\ tessellation = "None" THEN "idle" ELSE "resolve")
    /\ UNCHANGED <<sourceVars, sessionVars, loader_error, tessellation, loads,
                   observed, origin>>

PreviewOutcome ==
    CASE loader_error # "None"  -> loader_error
      [] tessellation = "meshes" -> "meshes"
      [] OTHER                   -> "no_meshes"

(* Raise the cached failure, or return the tessellation. *)
ResolvePreview(t) ==
    /\ pc[t] = "resolve"
    /\ observed' = observed \union {PreviewOutcome}
    /\ Goto(t, "idle")
    /\ UNCHANGED <<sourceVars, sessionVars, loader, loader_error, tessellation,
                   loads, lock, origin>>

----------------------------------------------------------------------------
(* The live session.                                                        *)

SessionUsableBy(t) == backend_state = "live" /\ ~closed /\ owner = t

(* An operation gets the session from _backend_state_for() and works in it. *)
(* Another thread's call raises; without a session the operation borrows.   *)
EnterSession(t) ==
    /\ pc[t] = "idle"
    /\ SessionUsableBy(t)
    /\ Goto(t, "in_session")
    /\ UNCHANGED <<sourceVars, previewVars, sessionVars, lock, origin>>

LeaveSession(t) ==
    /\ pc[t] = "in_session"
    /\ Goto(t, "idle")
    /\ UNCHANGED <<sourceVars, previewVars, sessionVars, lock, origin>>

(* Mutant: close() from any thread. *)
CloseAnywhere(t) ==
    /\ pc[t] = "idle"
    /\ \/ /\ backend_state = "None"
          /\ closed' = TRUE
          /\ UNCHANGED pc
       \/ /\ backend_state = "live"
          /\ Goto(t, "closing")
          /\ UNCHANGED closed
    /\ UNCHANGED <<sourceVars, previewVars, backend_state, owner, lock, origin>>

(* close(): nothing left to close, or the owner starts the close callback.  *)
(* Another thread's call on a live session raises and changes nothing.      *)
Close(t) ==
    /\ pc[t] = "idle"
    /\ \/ /\ backend_state = "None"
          /\ closed' = TRUE
          /\ UNCHANGED pc
       \/ /\ backend_state = "live"
          /\ owner = t
          /\ Goto(t, "closing")
          /\ UNCHANGED closed
    /\ UNCHANGED <<sourceVars, previewVars, backend_state, owner, lock, origin>>

CloseCallbackReturns(t) ==
    /\ pc[t] = "closing"
    /\ backend_state' = "None"
    /\ owner' = NoThread
    /\ closed' = TRUE
    /\ Goto(t, "idle")
    /\ UNCHANGED <<sourceVars, previewVars, lock, origin>>

(* The callback raises: the session stays for another close(). *)
CloseCallbackRaises(t) ==
    /\ pc[t] = "closing"
    /\ Goto(t, "idle")
    /\ UNCHANGED <<sourceVars, previewVars, sessionVars, lock, origin>>

----------------------------------------------------------------------------
SourceStep(t) ==
    Borrow(t) \/ ExitBorrow(t) \/ ReleaseSource(t) \/ Reacquire(t) \/ InterruptWait(t) \/ Unlink(t)

PreviewStep(t) ==
    \/ AccessPreview(t) \/ EnterLoad(t) \/ LoaderReturns(t) \/ LoaderFails(t)
    \/ LoaderInterrupted(t) \/ DropLoader(t) \/ ResolvePreview(t)

SessionStep(t) ==
    EnterSession(t) \/ LeaveSession(t) \/ Close(t) \/ CloseCallbackReturns(t) \/ CloseCallbackRaises(t)

Next == \E t \in Threads : SourceStep(t) \/ PreviewStep(t) \/ SessionStep(t)

Spec == Init /\ [][Next]_vars

(* A thread inside a call keeps running: a loader, a session operation and  *)
(* a close callback return or raise, and a thread ready for the lock gets   *)
(* it.  A borrow block makes finitely many other calls on the document      *)
(* before it ends, so leaving it is strongly fair.  Nothing makes a thread  *)
(* start a call.                                                            *)
Fairness ==
    \A t \in Threads :
        /\ SF_vars(ExitBorrow(t))
        /\ WF_vars(Reacquire(t))
        /\ WF_vars(Unlink(t))
        /\ WF_vars(EnterLoad(t))
        /\ WF_vars(LoaderReturns(t) \/ LoaderFails(t))
        /\ WF_vars(DropLoader(t))
        /\ WF_vars(ResolvePreview(t))
        /\ WF_vars(LeaveSession(t))
        /\ WF_vars(CloseCallbackReturns(t) \/ CloseCallbackRaises(t))

FairSpec == Spec /\ Fairness

----------------------------------------------------------------------------
(* Properties. *)

(* While any thread is inside a borrow block the document still refers to   *)
(* the snapshot and the file is still on disk, whatever releases, waits and *)
(* interrupts happen in other threads.                                      *)
BorrowedSourceIntact ==
    borrows # {} => source_snapshot = "path" /\ snapshot_file = "present"

(* A snapshot file no document refers to any more is never forgotten: some  *)
(* release_source() is about to unlink it, or has told its caller that the  *)
(* unlink failed.                                                           *)
NoForgottenSnapshot ==
    source_snapshot = "None" /\ snapshot_file = "present" =>
        \/ \E t \in Threads : pc[t] = "unlink" /\ source[t] = "path"
        \/ "release_failed" \in faults

(* Threads that race for the lazy preview share one invocation of the       *)
(* loader, and every access that finishes sees the same outcome of it.      *)
OneLoadOneOutcome ==
    /\ loads <= 1
    /\ Cardinality(observed) <= 1

(* The live session is used and closed on its owner thread alone: while a   *)
(* thread works in it or closes it, it is live and that thread owns it.     *)
SessionAffinity ==
    \A t \in Threads :
        pc[t] \in {"in_session", "closing"} => backend_state = "live" /\ owner = t

(* A thread that called release_source() inside its own borrow waits for    *)
(* itself.                                                                  *)
SelfBlocked(t) == t \in borrows /\ pc[t] \in Waits

(* A release that waits for borrowers returns, unless some thread released  *)
(* the source inside its own borrow.                                        *)
ReleaseReturns ==
    \A t \in Threads :
        pc[t] \in Waits ~> (pc[t] \notin Waits \/ \E u \in Threads : SelfBlocked(u))

(* An access to the preview returns or raises, whatever the releases do: a  *)
(* waiting release does not keep the lock, and a failing loader gives it    *)
(* back.                                                                    *)
AccessReturns ==
    \A t \in Threads :
        pc[t] \in {"enter", "loading", "finally", "resolve"} ~> pc[t] = "idle"

(* The retained source is a SourceLease. *)
Phase ==
    CASE source_snapshot = "None" -> "detached"
      [] SourceAvailable          -> "open"
      [] OTHER                    -> "draining"

Lease == INSTANCE SourceLease WITH
            Readers <- Threads, phase <- Phase, leases <- borrows, file <- snapshot_file

LeaseSpec == Lease!Spec

(* docs/CAD_BACKEND_CONTRACT.md:569 calls release_source() idempotent: no   *)
(* call of it fails on a source that another call has released.             *)
ReleaseIdempotent == "AttributeError" \notin faults

(* docs/CAD_BACKEND_CONTRACT.md:656-660: an access to the preview of an     *)
(* artifact returns the meshes bound by the one loader call or raises its   *)
(* cached failure; it never finds the preview simply missing.               *)
PreviewLoadedOrFailed == origin = "artifact" => "no_meshes" \notin observed
============================================================================
