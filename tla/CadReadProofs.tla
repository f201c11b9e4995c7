---------------------------- MODULE CadReadProofs ----------------------------
(***************************************************************************)
(* Proofs about CadRead for every set of files and every number of writes: *)
(* an accepted copy is the source as it is, snapshot and session have one  *)
(* owner in the end, and a returned document starts a lease.               *)
(***************************************************************************)
EXTENDS CadRead, TLAPS

(* The labels before the copy is made, while it is made, and after. *)
Before == {"inspect", "make", "open", "stat", "compare"}
Copying == {"copy", "copied"}

(* While the blocks are copied the reader has the file open that the path   *)
(* named after it was opened, and every block is of a version between the   *)
(* one seen then and the present one.                                       *)
CopyInv ==
    /\ pc \in {"make", "open", "stat", "compare"} => "path_before" \in DOMAIN seen
    /\ pc \in {"compare"} \union Copying => "opened_before" \in DOMAIN seen
    /\ pc \in {"compare"} => seen["opened_before"].file = handle
    /\ pc \in Before => copied = {}
    /\ pc \in Copying =>
          /\ "path_opened_before" \in DOMAIN seen
          /\ seen["path_opened_before"].file = handle
          /\ \A block \in copied :
                /\ block[1] = handle
                /\ seen["path_opened_before"].ctime <= block[2]
                /\ block[2] <= ctime[handle]
    /\ pc \in Copying => seen["path_opened_before"].ctime <= ctime[handle]
    /\ pc = "copied" => "opened_after" \in DOMAIN seen

(* Who holds the snapshot and the session at each label. *)
CustodyInv ==
    /\ outcome = "running" <=> pc # "done"
    /\ refused => outcome = "raised"
    /\ pc \in {"inspect", "make"} => owner = "nobody" /\ snapshot.file = "none"
    /\ pc \in {"open", "stat", "compare", "check", "read"} \union Copying =>
          owner = "operation" /\ snapshot.file = "owned"
    /\ pc \in Before \union Copying \union {"check", "read"} => document = NoDocument
    /\ pc \in {"validate", "settle"} => owner = "operation"
    /\ pc = "settle" =>
          /\ snapshot = [file |-> "owned", bytes |-> "source"]
          /\ document.attached \in {"none", "snapshot"}
          /\ options.retain_source => document.attached = "snapshot"
          /\ document.session = IF options.mode = "live" THEN "caller" ELSE "none"
    /\ pc \in {"close", "cleanup"} =>
          \/ owner = "operation"
          \/ owner = "nobody" /\ snapshot.file = "none"
    /\ pc = "cleanup" => document.session # "caller"

(* How a call ends. *)
EndInv ==
    /\ outcome = "raised" =>
          /\ document.session # "caller"
          /\ snapshot.file = "owned" => refused
    /\ outcome = "returned" =>
          /\ document.session = IF options.mode = "live" THEN "caller" ELSE "none"
          /\ options.retain_source =>
                /\ owner = "document"
                /\ document.attached = "snapshot"
                /\ snapshot = [file |-> "owned", bytes |-> "source"]
          /\ ~options.retain_source => document.attached = "none" /\ snapshot.file = "none"

IndInv == TypeOK /\ CopyInv /\ CustodyInv /\ EndInv

LEMMA InductiveInit == Init => IndInv
<1> SUFFICES ASSUME Init PROVE IndInv
  OBVIOUS
<1>1. refused \in BOOLEAN /\ ~refused
  BY Zenon DEF Init
<1>2. TypeOK
  BY <1>1 DEF Init, TypeOK, Snapshots, Documents, NoDocument, Modes, Views, Stats, Pcs
<1>3. CopyInv
  BY DEF Init, CopyInv, Copying
<1>4. CustodyInv /\ EndInv
  BY <1>1 DEF Init, CustodyInv, EndInv, Before, Copying
<1>5. QED
  BY <1>2, <1>3, <1>4 DEF IndInv

----------------------------------------------------------------------------
(* The steps of the environment and of the copy. *)

LEMMA EnvironmentStep ==
    ASSUME IndInv, Environment
    PROVE  IndInv'
<1>1. UNCHANGED <<options, pc, copyVars, ownVars>>
  BY DEF Environment, Write, Replace
<1>2. /\ named' \in Files
      /\ mtime' \in [Files -> Nat]
      /\ ctime' \in [Files -> Nat]
      /\ \A f \in Files : ctime[f] <= ctime'[f]
  BY DEF IndInv, TypeOK, Environment, Write, Replace
<1>3. TypeOK'
  BY <1>1, <1>2 DEF IndInv, TypeOK, copyVars, ownVars
<1>4. CopyInv'
  <2> USE <1>1, <1>2 DEF IndInv, copyVars
  <2>1. CASE pc \in Copying
    <3>1. /\ seen["path_opened_before"].ctime \in Nat
          /\ ctime[handle] \in Nat
          /\ ctime'[handle] \in Nat
          /\ ctime[handle] <= ctime'[handle]
      BY <2>1 DEF TypeOK, CopyInv, Stats
    <3>2. \A block \in copied : block[2] \in Nat
      BY DEF TypeOK
    <3>3. QED
      BY <2>1, <3>1, <3>2 DEF CopyInv
  <2>2. CASE pc \notin Copying
    BY <2>2 DEF CopyInv
  <2>3. QED
    BY <2>1, <2>2
<1>5. CustodyInv' /\ EndInv'
  BY <1>1 DEF IndInv, CustodyInv, EndInv, ownVars
<1>6. QED
  BY <1>3, <1>4, <1>5 DEF IndInv

(* A stat result is well typed, and See() remembers it. *)
LEMMA SeeKeeps ==
    ASSUME TypeOK, NEW view \in Views, NEW f \in Files, See(view, f)
    PROVE  /\ DOMAIN seen' = DOMAIN seen \union {view}
           /\ seen'[view] = Stat(f)
           /\ \A v \in DOMAIN seen : v # view => seen'[v] = seen[v]
           /\ DOMAIN seen' \subseteq Views
           /\ \A v \in DOMAIN seen' : seen'[v] \in Stats
  BY DEF TypeOK, See, Stat, Stats

LEMMA CopyStep ==
    ASSUME IndInv, Copy
    PROVE  IndInv'
<1> USE DEF IndInv
<1>0. outcome = "running" /\ ~refused /\ pc # "done"
  BY DEF Copy, StatSource, MakeSnapshot, OpenSource, StatHandle, CompareViews, CopyBlock,
         EndCopy, AcceptCopy, CustodyInv
<1>1. CASE StatSource
  <2>1. See("path_before", named) /\ "path_before" \in Views /\ named \in Files
    BY <1>1 DEF StatSource, Views, TypeOK
  <2>2. TypeOK'
    BY <1>1, <2>1, SeeKeeps DEF StatSource, TypeOK, Pcs, sourceVars, ownVars
  <2>3. CopyInv'
    BY <1>1, <2>1, SeeKeeps DEF StatSource, CopyInv, Before, Copying
  <2>4. CustodyInv' /\ EndInv'
    BY <1>0, <1>1 DEF StatSource, CustodyInv, EndInv, Before, Copying, ownVars
  <2>5. QED
    BY <2>2, <2>3, <2>4
<1>2. CASE MakeSnapshot
  <2>1. TypeOK'
    BY <1>2 DEF MakeSnapshot, TypeOK, Pcs, Snapshots, sourceVars, copyVars
  <2>2. CopyInv'
    BY <1>2 DEF MakeSnapshot, CopyInv, Before, Copying, copyVars
  <2>3. CustodyInv' /\ EndInv'
    BY <1>0, <1>2 DEF MakeSnapshot, CustodyInv, EndInv, Before, Copying
  <2>4. QED
    BY <2>1, <2>2, <2>3
<1>3. CASE OpenSource
  <2>1. TypeOK'
    BY <1>3 DEF OpenSource, TypeOK, Pcs, sourceVars, ownVars
  <2>2. CopyInv'
    BY <1>3 DEF OpenSource, CopyInv, Before, Copying
  <2>3. CustodyInv' /\ EndInv'
    BY <1>0, <1>3 DEF OpenSource, CustodyInv, EndInv, Before, Copying, ownVars
  <2>4. QED
    BY <2>1, <2>2, <2>3
<1>4. CASE StatHandle
  <2>1. See("opened_before", handle) /\ "opened_before" \in Views /\ handle \in Files
    BY <1>4 DEF StatHandle, Views, TypeOK
  <2>2. TypeOK'
    BY <1>4, <2>1, SeeKeeps DEF StatHandle, TypeOK, Pcs, sourceVars, ownVars
  <2>3. /\ pc' = "compare" /\ handle' = handle /\ copied' = {}
        /\ "path_before" \in DOMAIN seen' /\ "opened_before" \in DOMAIN seen'
        /\ seen'["opened_before"] = Stat(handle)
    BY <1>4, <2>1, SeeKeeps DEF StatHandle, CopyInv, Before
  <2>4. seen'["opened_before"].file = handle'
    BY <2>3 DEF Stat
  <2>5. CopyInv'
    BY <2>3, <2>4 DEF CopyInv, Before, Copying
  <2>6. CustodyInv' /\ EndInv'
    BY <1>0, <1>4 DEF StatHandle, CustodyInv, EndInv, Before, Copying, ownVars
  <2>7. QED
    BY <2>2, <2>5, <2>6
<1>5. CASE CompareViews
  <2>1. See("path_opened_before", named) /\ "path_opened_before" \in Views /\ named \in Files
    BY <1>5 DEF CompareViews, Views, TypeOK
  <2>2. TypeOK'
    BY <1>5, <2>1, SeeKeeps DEF CompareViews, Fail, TypeOK, Pcs, sourceVars, ownVars
  <2>3. ASSUME pc' = "copy" PROVE CopyInv'
    <3>1. /\ seen["opened_before"].file = handle
          /\ seen["opened_before"].file = seen["path_before"].file
          /\ seen["path_before"].file = named
      BY <1>5, <2>3 DEF CompareViews, Fail, CopyInv, Anchor, Signature, Stat
    <3>2. seen'["path_opened_before"] = Stat(named) /\ named = handle /\ copied = {}
      BY <1>5, <2>1, <3>1, SeeKeeps DEF CompareViews, CopyInv, Before
    <3>3. /\ handle' = handle /\ copied' = {} /\ ctime' = ctime
          /\ "opened_before" \in DOMAIN seen' /\ "path_opened_before" \in DOMAIN seen'
      BY <1>5, <2>1, <3>2, SeeKeeps DEF CompareViews, CopyInv, sourceVars
    <3>4. seen'["path_opened_before"].file = handle /\ seen'["path_opened_before"].ctime = ctime[handle]
      BY <3>2 DEF Stat
    <3>5. ctime[handle] \in Nat
      BY DEF TypeOK
    <3>6. QED
      BY <2>3, <3>3, <3>4, <3>5 DEF CopyInv, Before, Copying
  <2>4. ASSUME pc' = "close" PROVE CopyInv'
    BY <2>4 DEF CopyInv, Before, Copying
  <2>5. CopyInv'
    BY <1>5, <2>3, <2>4 DEF CompareViews, Fail
  <2>6. CustodyInv' /\ EndInv'
    BY <1>0, <1>5 DEF CompareViews, Fail, CustodyInv, EndInv, Before, Copying, ownVars
  <2>7. QED
    BY <2>2, <2>5, <2>6
<1>6. CASE CopyBlock
  <2>1. /\ seen["path_opened_before"].ctime \in Nat
        /\ seen["path_opened_before"].ctime <= ctime[handle]
        /\ ctime[handle] \in Nat
    BY <1>6 DEF CopyBlock, TypeOK, CopyInv, Copying, Stats
  <2>2. TypeOK'
    BY <1>6, <2>1 DEF CopyBlock, TypeOK, sourceVars, ownVars
  <2>3. CopyInv'
    BY <1>6, <2>1 DEF CopyBlock, CopyInv, Before, Copying, sourceVars
  <2>4. CustodyInv' /\ EndInv'
    BY <1>0, <1>6 DEF CopyBlock, CustodyInv, EndInv, Before, Copying, ownVars
  <2>5. QED
    BY <2>2, <2>3, <2>4
<1>7. CASE EndCopy
  <2>1. See("opened_after", handle) /\ "opened_after" \in Views /\ handle \in Files
    BY <1>7 DEF EndCopy, Views, TypeOK
  <2>2. TypeOK'
    BY <1>7, <2>1, SeeKeeps DEF EndCopy, TypeOK, Pcs, sourceVars, ownVars
  <2>3. CopyInv'
    BY <1>7, <2>1, SeeKeeps DEF EndCopy, CopyInv, Before, Copying, sourceVars
  <2>4. CustodyInv' /\ EndInv'
    BY <1>0, <1>7 DEF EndCopy, CustodyInv, EndInv, Before, Copying, ownVars
  <2>5. QED
    BY <2>2, <2>3, <2>4
<1>8. CASE AcceptCopy
  <2>1. TypeOK'
    BY <1>8 DEF AcceptCopy, Fail, TypeOK, Pcs, Snapshots, sourceVars, copyVars
  <2>2. CopyInv'
    BY <1>8 DEF AcceptCopy, Fail, CopyInv, Before, Copying
  <2>3. CustodyInv' /\ EndInv'
    BY <1>0, <1>8 DEF AcceptCopy, Fail, CustodyInv, EndInv, Before, Copying, TypeOK, Snapshots
  <2>4. QED
    BY <2>1, <2>2, <2>3
<1>9. QED
  BY <1>1, <1>2, <1>3, <1>4, <1>5, <1>6, <1>7, <1>8 DEF Copy

----------------------------------------------------------------------------
(* The provider's read and the custody of what is left. *)

(* Outside the copy its invariant says nothing. *)
LEMMA CopyOver ==
    ASSUME pc' \notin Before \union Copying
    PROVE  CopyInv'
  BY DEF CopyInv, Before, Copying

LEMMA ReadStep ==
    ASSUME IndInv, Read
    PROVE  IndInv'
<1> USE DEF IndInv
<1>0. outcome = "running" /\ ~refused /\ pc # "done"
  BY DEF Read, CheckSnapshot, BackendRead, ValidateReadResult, RetainSource, DiscardSource,
         CustodyInv
<1>1. CopyInv'
  BY CopyOver DEF Read, CheckSnapshot, BackendRead, ValidateReadResult, RetainSource,
                  DiscardSource, Fail, Return, Before, Copying
<1>2. CASE CheckSnapshot
  <2>1. TypeOK'
    BY <1>2 DEF CheckSnapshot, Fail, TypeOK, Pcs, sourceVars, copyVars, ownVars
  <2>2. CustodyInv' /\ EndInv'
    BY <1>0, <1>2 DEF CheckSnapshot, Fail, CustodyInv, EndInv, Before, Copying, ownVars
  <2>3. QED
    BY <1>1, <2>1, <2>2
<1>3. CASE BackendRead
  <2>1. snapshot' \in Snapshots
    BY <1>3 DEF BackendRead, TypeOK, Snapshots
  <2>2. NoDocument \in Documents
    BY DEF Documents, NoDocument
  <2>3. document' \in Documents
    BY <1>3, <2>2 DEF BackendRead, TypeOK
  <2>4. TypeOK'
    BY <1>3, <2>1, <2>3 DEF BackendRead, Fail, TypeOK, Pcs, sourceVars, copyVars
  <2>5. CustodyInv' /\ EndInv'
    BY <1>0, <1>3 DEF BackendRead, Fail, CustodyInv, EndInv, Before, Copying
  <2>6. QED
    BY <1>1, <2>4, <2>5
<1>4. CASE ValidateReadResult
  <2>1. TypeOK'
    BY <1>4 DEF ValidateReadResult, Fail, TypeOK, Pcs, sourceVars, copyVars, ownVars
  <2>2. CustodyInv' /\ EndInv'
    BY <1>0, <1>4 DEF ValidateReadResult, Fail, CustodyInv, EndInv, Before, Copying, ownVars
  <2>3. QED
    BY <1>1, <2>1, <2>2
<1>5. CASE RetainSource
  <2>1. TypeOK'
    BY <1>5 DEF RetainSource, Return, TypeOK, Pcs, sourceVars, copyVars
  <2>2. CustodyInv' /\ EndInv'
    BY <1>0, <1>5 DEF RetainSource, Return, CustodyInv, EndInv, Before, Copying
  <2>3. QED
    BY <1>1, <2>1, <2>2
<1>6. CASE DiscardSource
  <2>1. /\ document' \in Documents
        /\ document'.session = document.session
        /\ document'.attached = "none"
        /\ snapshot' \in Snapshots
        /\ pc' = "done" => snapshot'.file = "none"
    BY <1>6 DEF DiscardSource, Return, Fail, TypeOK, Documents, Snapshots
  <2>2. TypeOK'
    BY <1>6, <2>1 DEF DiscardSource, Return, Fail, TypeOK, Pcs, sourceVars, copyVars
  <2>3. CustodyInv' /\ EndInv'
    BY <1>0, <1>6, <2>1 DEF DiscardSource, Return, Fail, CustodyInv, EndInv, Before, Copying
  <2>4. QED
    BY <1>1, <2>2, <2>3
<1>7. QED
  BY <1>2, <1>3, <1>4, <1>5, <1>6 DEF Read

LEMMA RaiseStep ==
    ASSUME IndInv, Raise
    PROVE  IndInv'
<1>1. TypeOK'
  BY DEF IndInv, Raise, Fail, TypeOK, Pcs, sourceVars, copyVars, ownVars
<1>2. CopyInv'
  BY CopyOver DEF Raise, Fail, Before, Copying
<1>3. CustodyInv' /\ EndInv'
  BY DEF IndInv, Raise, Fail, CustodyInv, EndInv, Before, Copying, ownVars
<1>4. QED
  BY <1>1, <1>2, <1>3 DEF IndInv

LEMMA CloseStep ==
    ASSUME IndInv, CloseDocument
    PROVE  IndInv'
<1>1. document' \in Documents /\ document'.session # "caller"
  BY DEF IndInv, CloseDocument, TypeOK, Documents
<1>2. TypeOK'
  BY <1>1 DEF IndInv, CloseDocument, TypeOK, Pcs, sourceVars, copyVars
<1>3. CopyInv'
  BY CopyOver DEF CloseDocument, Before, Copying
<1>4. CustodyInv' /\ EndInv'
  BY <1>1 DEF IndInv, CloseDocument, CustodyInv, EndInv, Before, Copying
<1>5. QED
  BY <1>2, <1>3, <1>4 DEF IndInv

LEMMA CleanupStep ==
    ASSUME IndInv, Cleanup
    PROVE  IndInv'
<1>1. /\ snapshot' \in Snapshots
      /\ refused' \in BOOLEAN
      /\ snapshot'.file = "owned" => refused'
  BY DEF IndInv, Cleanup, TypeOK, Snapshots, CustodyInv
<1>2. TypeOK'
  BY <1>1 DEF IndInv, Cleanup, TypeOK, Pcs, sourceVars, copyVars
<1>3. CopyInv'
  BY CopyOver DEF Cleanup, Before, Copying
<1>4. CustodyInv' /\ EndInv'
  BY <1>1 DEF IndInv, Cleanup, CustodyInv, EndInv, Before, Copying
<1>5. QED
  BY <1>2, <1>3, <1>4 DEF IndInv

LEMMA InterruptStep ==
    ASSUME IndInv, Interrupt
    PROVE  IndInv'
<1>1. TypeOK'
  BY DEF IndInv, Interrupt, TypeOK, Pcs, sourceVars, copyVars
<1>2. CopyInv'
  BY CopyOver DEF Interrupt, Before, Copying
<1>3. CustodyInv' /\ EndInv'
  BY DEF IndInv, Interrupt, CustodyInv, EndInv, Before, Copying
<1>4. QED
  BY <1>1, <1>2, <1>3 DEF IndInv

----------------------------------------------------------------------------
(* The theorems. *)

LEMMA InductiveStep == IndInv /\ [Next]_vars => IndInv'
<1> SUFFICES ASSUME IndInv, [Next]_vars PROVE IndInv'
  OBVIOUS
<1>1. CASE UNCHANGED vars
  BY <1>1 DEF IndInv, TypeOK, CopyInv, CustodyInv, EndInv, vars, sourceVars, copyVars, ownVars
<1>2. QED
  BY <1>1, EnvironmentStep, CopyStep, ReadStep, RaiseStep, CloseStep, CleanupStep, InterruptStep
     DEF Next

LEMMA InductiveInvariant == Spec => []IndInv
  BY InductiveInit, InductiveStep, PTL DEF Spec

(* The locals of read_cad() keep their types. *)
THEOREM TypeCorrect == Spec => []TypeOK
  BY InductiveInvariant, PTL DEF IndInv

(* Every snapshot ends with one owner, is gone, or is told of. *)
THEOREM SingleOwner == Spec => []SnapshotHasOneOwner
<1>1. IndInv => SnapshotHasOneOwner
  BY DEF IndInv, TypeOK, CustodyInv, EndInv, SnapshotHasOneOwner
<1>2. QED
  BY <1>1, InductiveInvariant, PTL

(* A returned document starts a lease on the verified copy. *)
THEOREM LeaseStarts == Spec => []DocumentStartsAsLease
<1>1. IndInv => DocumentStartsAsLease
  BY DEF IndInv, EndInv, DocumentStartsAsLease, Lease!Init, phase, file
<1>2. QED
  BY <1>1, InductiveInvariant, PTL

(* No session is left open that could have been closed. *)
THEOREM SessionsClosed == Spec => []SessionNotLost
<1>1. IndInv => SessionNotLost
  BY DEF IndInv, EndInv, SessionNotLost
<1>2. QED
  BY <1>1, InductiveInvariant, PTL

(* An accepted copy consists of blocks of what the source path names, as it *)
(* is when the copy is accepted.                                            *)
THEOREM CopyIsSource == Spec => SnapshotIsSource
<1>1. ASSUME IndInv, [Next]_vars
      PROVE  [pc = "copied" /\ pc' = "check" => copied \subseteq {<<named, ctime[named]>>}]_vars
  <2> SUFFICES ASSUME pc = "copied", pc' = "check", Next, NEW block \in copied
               PROVE  block = <<named, ctime[named]>>
    BY <1>1
  <2>1. AcceptCopy
    BY DEF Next, Environment, Write, Replace, Copy, StatSource, MakeSnapshot, OpenSource,
           StatHandle, CompareViews, CopyBlock, EndCopy, Read, CheckSnapshot, BackendRead,
           ValidateReadResult, RetainSource, DiscardSource, Return, Fail, Raise, CloseDocument,
           Cleanup, Interrupt
  <2>2. Signature(seen["path_opened_before"]) = Signature(Stat(named))
    BY <2>1 DEF AcceptCopy, Fail
  <2>3. /\ seen["path_opened_before"].file = named
        /\ seen["path_opened_before"].ctime = ctime[named]
    BY <2>2 DEF Signature, Stat
  <2>4. /\ block \in Files \X Nat
        /\ ctime[named] \in Nat
        /\ block[1] = named
        /\ ctime[named] <= block[2]
        /\ block[2] <= ctime[named]
    BY <1>1, <2>3 DEF IndInv, TypeOK, CopyInv, Copying
  <2>5. QED
    BY <2>4
<1>2. QED
  BY <1>1, InductiveInvariant, PTL DEF Spec, SnapshotIsSource
============================================================================
