------------------------ MODULE CadOperationsProofs ------------------------
(***************************************************************************)
(* Proofs about CadOperations for any set of callers, any owner of the     *)
(* session and any interrupts: what write_cad() and tessellate_cad() leave *)
(* at the destination, beside it and of the retained source.               *)
(***************************************************************************)
EXTENDS CadOperations, TLAPS

(* Where an exception may still be raised. *)
Raising ==
    {"temporary", "session", "borrow", "hash", "stat", "reopen", "work", "copy", "verify", "publish"}

(* The finally clause of the reopened source. *)
Finally == {"close", "compare", "rehash"}

(* A source that is borrowed is there. *)
LeaseInv ==
    /\ phase = "detached" => leases = {}
    /\ phase # "detached" => file = "present"

(* At which labels a caller is inside a borrow; one that works without it   *)
(* is the owner of the live session.                                        *)
BorrowInv(c) ==
    /\ op[c].pc \in {"idle", "session", "borrow", "cleanup", "done"} => c \notin leases
    /\ op[c].pc \in {"hash", "stat", "reopen", "leave", "copy"} \union Finally => c \in leases
    /\ op[c].pc \in {"temporary", "verify", "publish"} => (c \in leases <=> op[c].mode = "preserve")
    /\ At(c, "work") /\ c \notin leases => live /\ c = Owner

(* At which labels which mode is, and how an operation stands: an exception *)
(* on its way, a published output and a recorded identity.                  *)
ModeInv(c) ==
    /\ op[c].pc \in {"temporary", "verify", "publish"} => op[c].mode # "tessellate"
    /\ At(c, "copy") => op[c].mode = "preserve"
    /\ op[c].pc \in {"session", "stat", "reopen", "work"} \union Finally => op[c].mode # "preserve"
    /\ At(c, "cleanup") => op[c].failing
    /\ op[c].pc \in Raising \union {"idle"} => ~op[c].failing
    /\ op[c].published => op[c].pc \in {"leave", "done"} /\ ~op[c].failing
    /\ At(c, "leave") /\ ~op[c].failing => (op[c].published <=> op[c].mode = "preserve")
    /\ At(c, "idle") => ~op[c].identity
    /\ op[c].identity => op[c].mode # "tessellate"

(* The transient session is opened and closed inside the borrow. *)
SessionInv(c) ==
    /\ op[c].transient = "open" => op[c].pc \in {"work", "close"} /\ c \in leases
    /\ At(c, "work") => (op[c].transient = "none" <=> c \notin leases)
    /\ op[c].pc \in {"idle", "temporary", "session", "borrow", "hash", "stat", "reopen", "copy"} =>
          op[c].transient = "none"

(* What the reopened session read is told by the source as it is, as long   *)
(* as its signature is the one taken: from then on only by what no check    *)
(* can see.                                                                 *)
Seen(c) == source_bytes = "source" \/ "before" \in op[c].unseen

Reading(c) == ~op[c].failing /\ op[c].transient # "none"

ReadInv(c) ==
    /\ At(c, "stat") \/ op[c].signature = "same" => Seen(c)
    /\ Reading(c) /\ op[c].signature = "same" => op[c].read = source_bytes
    /\ Reading(c) /\ At(c, "rehash") =>
          \/ op[c].read = "source"
          \/ "before" \in op[c].unseen /\ (source_bytes # "source" \/ op[c].unseen = Gaps)
    /\ Reading(c) /\ op[c].pc \notin {"work"} \union Finally =>
          op[c].read = "source" \/ op[c].unseen = Gaps

(* What may be at the temporary path. *)
FileInv(c) ==
    /\ op[c].pc \in {"idle", "temporary"} => temporary[c].file = "none"
    /\ op[c].pc \in {"borrow", "hash"} /\ op[c].mode = "preserve" => temporary[c].file = "none"
    /\ op[c].mode = "tessellate" => temporary[c].file = "none"
    /\ temporary[c].file = "foreign" => op[c].pc \in {"leave", "verify", "cleanup", "done"} \union Finally
    /\ At(c, "publish") => temporary[c].file = "owned" /\ temporary[c].bytes = Expected(c)
    /\ op[c].published => temporary[c].file = "none"
    /\ At(c, "done") /\ op[c].identity /\ ~op[c].interrupt /\ ~op[c].refused =>
          temporary[c].file = "none"

(* The author of the destination has published what it reports. *)
DestinationInv ==
    /\ Intact
    /\ destination.by \in Callers => op[destination.by].published

CallInv(c) == BorrowInv(c) /\ ModeInv(c) /\ SessionInv(c) /\ ReadInv(c) /\ FileInv(c)

IndInv == TypeOK /\ LeaseInv /\ DestinationInv /\ \A c \in Callers : CallInv(c)

LEMMA InductiveInit == Init => IndInv
<1> SUFFICES ASSUME Init PROVE IndInv
  OBVIOUS
<1>1. /\ leases = {}
      /\ \/ phase = "open" /\ file = "present"
         \/ phase = "detached" /\ file = "absent"
  BY DEF Init, Lease!Init
<1>2. Idle \in Operations
  BY DEF Idle, Operations, Pcs, Modes, Bytes, Signatures
<1>3. NoFile \in [file : Files, bytes : Bytes]
  BY DEF NoFile, Files, Bytes
<1>4. TypeOK
  <2>1. destination \in [by : Callers \union {NoCaller}, file : Files, bytes : Bytes]
    BY DEF Init, Files, Bytes
  <2>2. temporary \in [Callers -> [file : Files, bytes : Bytes]] /\ op \in [Callers -> Operations]
    BY <1>2, <1>3 DEF Init
  <2>3. QED
    BY <1>1, <2>1, <2>2 DEF Init, TypeOK
<1>5. LeaseInv
  BY <1>1 DEF LeaseInv
<1>6. DestinationInv
  BY CallersAssumption DEF Init, DestinationInv, Intact
<1>7. ASSUME NEW c \in Callers PROVE CallInv(c)
  <2>1. op[c] = Idle /\ temporary[c] = NoFile
    BY DEF Init
  <2>2. QED
    BY <1>1, <2>1 DEF CallInv, BorrowInv, ModeInv, SessionInv, ReadInv, Seen, Reading, FileInv, At,
                      Idle, NoFile, Finally
<1>8. QED
  BY <1>4, <1>5, <1>6, <1>7 DEF IndInv

----------------------------------------------------------------------------
(* Helpers. *)

(* What a step of caller c leaves of its operation. *)
Kept(c) ==
    /\ op'[c].mode = op[c].mode /\ op'[c].report = op[c].report
    /\ op'[c].published = op[c].published

KeptToo(c) ==
    /\ op'[c].transient = op[c].transient /\ op'[c].read = op[c].read
    /\ op'[c].signature = op[c].signature /\ op'[c].unseen = op[c].unseen
    /\ op'[c].identity = op[c].identity /\ op'[c].refused = op[c].refused

OthersKept(c) == \A u \in Callers \ {c} : op'[u] = op[u]

LEMMA GotoIs ==
    ASSUME TypeOK, NEW c \in Callers, NEW label \in Pcs, Goto(c, label)
    PROVE  /\ op' \in [Callers -> Operations]
           /\ op'[c].pc = label /\ op'[c].failing = op[c].failing /\ op'[c].interrupt = op[c].interrupt
           /\ Kept(c) /\ KeptToo(c) /\ OthersKept(c)
BY DEF TypeOK, Goto, Operations, Kept, KeptToo, OthersKept

LEMMA HandlerIs ==
    ASSUME NEW c \in Callers
    PROVE  /\ Handler(c) \in {"close", "leave", "cleanup"}
           /\ Handler(c) = "close" <=> At(c, "reopen") \/ (At(c, "work") /\ c \in leases)
           /\ Handler(c) = "leave" <=> c \in leases /\ ~At(c, "reopen") /\ ~At(c, "work")
BY DEF Handler, At

LEMMA FailIs ==
    ASSUME TypeOK, NEW c \in Callers, NEW interrupt \in BOOLEAN, Fail(c, interrupt)
    PROVE  /\ op' \in [Callers -> Operations]
           /\ op'[c].pc = Handler(c) /\ op'[c].failing = TRUE /\ op'[c].interrupt = interrupt
           /\ Kept(c) /\ KeptToo(c) /\ OthersKept(c)
<1>1. Handler(c) \in Pcs
  BY HandlerIs DEF Pcs
<1>2. QED
  BY <1>1 DEF TypeOK, Fail, Operations, Kept, KeptToo, OthersKept

LEMMA ChangeIs ==
    ASSUME TypeOK, NEW c \in Callers, NEW call \in Operations, op' = [op EXCEPT ![c] = call]
    PROVE  op' \in [Callers -> Operations] /\ op'[c] = call /\ OthersKept(c)
BY DEF TypeOK, OthersKept

(* What is said of a caller stays when nothing of it changes, though the    *)
(* session be closed between its operations.                                *)
LEMMA Untroubled ==
    ASSUME NEW u \in Callers, CallInv(u),
           op'[u] = op[u], temporary'[u] = temporary[u], u \in leases' <=> u \in leases,
           source_bytes' = source_bytes,
           live' = live \/ (u = Owner => ~At(u, "work"))
    PROVE  CallInv(u)'
<1>1. BorrowInv(u)' /\ ModeInv(u)'
  BY DEF CallInv, BorrowInv, ModeInv, At
<1>2. SessionInv(u)' /\ ReadInv(u)'
  BY DEF CallInv, SessionInv, ReadInv, Seen, Reading, At
<1>3. FileInv(u)'
  BY DEF CallInv, FileInv, At, Expected
<1>4. QED
  BY <1>1, <1>2, <1>3 DEF CallInv

(* A step of caller c that leaves the destination, the document and the     *)
(* other callers alone.                                                     *)
LEMMA StepOfCaller ==
    ASSUME IndInv, NEW c \in Callers,
           op' \in [Callers -> Operations], OthersKept(c), op[c].published => Kept(c),
           temporary' \in [Callers -> [file : Files, bytes : Bytes]],
           \A u \in Callers \ {c} : temporary'[u] = temporary[u],
           \/ leases' \in {leases, leases \ {c}}
           \/ leases' = leases \union {c} /\ phase = "open",
           CallInv(c)',
           UNCHANGED <<phase, file, source_bytes, live, destination>>
    PROVE  IndInv'
<1>1. TypeOK'
  BY DEF IndInv, TypeOK
<1>2. LeaseInv'
  BY DEF IndInv, LeaseInv
<1>3. ASSUME NEW u \in Callers PROVE CallInv(u)'
  <2>1. CASE u = c
    BY <2>1
  <2>2. CASE u # c
    <3>1. op'[u] = op[u] /\ temporary'[u] = temporary[u] /\ (u \in leases' <=> u \in leases)
      BY <2>2 DEF OthersKept
    <3>2. QED
      BY <3>1, Untroubled DEF IndInv
  <2>3. QED
    BY <2>1, <2>2
<1>4. DestinationInv'
  <2>1. CASE destination.by = NoCaller
    BY <2>1, CallersAssumption DEF DestinationInv, Intact
  <2>2. CASE destination.by # NoCaller
    <3>1. /\ destination.by \in Callers /\ op[destination.by].published
          /\ destination.file = "owned" /\ destination.bytes = Expected(destination.by)
      BY <2>2 DEF IndInv, DestinationInv, Intact
    <3>2. /\ op'[destination.by].mode = op[destination.by].mode
          /\ op'[destination.by].report = op[destination.by].report
          /\ op'[destination.by].published
      BY <3>1 DEF OthersKept, Kept
    <3>3. QED
      BY <3>1, <3>2 DEF DestinationInv, Intact, Expected
  <2>3. QED
    BY <2>1, <2>2
<1>5. QED
  BY <1>1, <1>2, <1>3, <1>4 DEF IndInv

(* An exception before the destination is replaced. *)
LEMMA Failing ==
    ASSUME IndInv, NEW c \in Callers, NEW interrupt \in BOOLEAN, Fail(c, interrupt),
           op[c].pc \in Raising,
           temporary' \in [Callers -> [file : Files, bytes : Bytes]],
           \A u \in Callers \ {c} : temporary'[u] = temporary[u],
           op[c].mode = "tessellate" => temporary'[c].file = "none",
           UNCHANGED <<leaseVars, source_bytes, live, destination>>
    PROVE  IndInv'
<1>1. TypeOK /\ CallInv(c)
  BY DEF IndInv
<1>2. /\ op' \in [Callers -> Operations]
      /\ op'[c].pc = Handler(c) /\ op'[c].failing = TRUE /\ op'[c].interrupt = interrupt
      /\ Kept(c) /\ KeptToo(c) /\ OthersKept(c)
  BY <1>1, FailIs
<1>3. /\ Handler(c) \in {"close", "leave", "cleanup"}
      /\ Handler(c) = "close" <=> At(c, "reopen") \/ (At(c, "work") /\ c \in leases)
      /\ Handler(c) = "leave" <=> c \in leases /\ ~At(c, "reopen") /\ ~At(c, "work")
  BY HandlerIs
<1>4. leases' = leases /\ phase' = phase /\ file' = file /\ source_bytes' = source_bytes /\ live' = live
      /\ destination' = destination
  BY DEF leaseVars
<1>5. ~op[c].published
  BY <1>1 DEF CallInv, ModeInv, Raising, Finally
<1>6. BorrowInv(c)'
  BY <1>1, <1>2, <1>3, <1>4 DEF CallInv, BorrowInv, At, Finally
<1>7. ModeInv(c)'
  BY <1>1, <1>2, <1>3, <1>5 DEF CallInv, BorrowInv, ModeInv, At, Kept, KeptToo, Raising, Finally
<1>8. SessionInv(c)' /\ ReadInv(c)'
  BY <1>1, <1>2, <1>3, <1>4 DEF CallInv, BorrowInv, SessionInv, ReadInv, Seen, Reading, At,
      KeptToo, Raising, Finally
<1>9. FileInv(c)'
  BY <1>2, <1>3, <1>5 DEF FileInv, At, Kept, Finally
<1>10. QED
  BY <1>2, <1>4, <1>6, <1>7, <1>8, <1>9, StepOfCaller DEF CallInv

(* Caller c goes on, and nothing but its label and its borrow changes.      *)
LEMMA GoingOn ==
    ASSUME IndInv, NEW c \in Callers, NEW label \in Pcs, Goto(c, label),
           \/ leases' \in {leases, leases \ {c}}
           \/ leases' = leases \union {c} /\ phase = "open",
           CallInv(c)',
           UNCHANGED <<phase, file, source_bytes, live, destination, temporary>>
    PROVE  IndInv'
<1>1. TypeOK
  BY DEF IndInv
<1>2. op' \in [Callers -> Operations] /\ Kept(c) /\ OthersKept(c)
  BY <1>1, GotoIs
<1>3. temporary' \in [Callers -> [file : Files, bytes : Bytes]]
  BY <1>1 DEF TypeOK
<1>4. QED
  BY <1>2, <1>3, StepOfCaller DEF CallInv

----------------------------------------------------------------------------
(* The actions. *)

LEMMA RaiseStep == ASSUME IndInv, NEW c \in Callers, Raise(c) PROVE IndInv'
<1>1. PICK interrupt \in BOOLEAN : Fail(c, interrupt)
  BY DEF Raise, Interrupts
<1>2. op[c].pc \in Raising /\ UNCHANGED <<leaseVars, source_bytes, live, destination, temporary>>
  BY DEF Raise, Raising
<1>3. /\ temporary' \in [Callers -> [file : Files, bytes : Bytes]]
      /\ op[c].mode = "tessellate" => temporary'[c].file = "none"
  BY <1>2 DEF IndInv, TypeOK, CallInv, FileInv, Finally
<1>4. QED
  BY <1>1, <1>2, <1>3, Failing

(* A step that fails where it stands and touches no file. *)
LEMMA FailsInPlace ==
    ASSUME IndInv, NEW c \in Callers, Fail(c, FALSE), op[c].pc \in Raising,
           UNCHANGED <<leaseVars, source_bytes, live, destination, temporary>>
    PROVE  IndInv'
<1>1. /\ temporary' \in [Callers -> [file : Files, bytes : Bytes]]
      /\ op[c].mode = "tessellate" => temporary'[c].file = "none"
  BY DEF IndInv, TypeOK, CallInv, FileInv, Finally
<1>2. QED
  BY <1>1, Failing

LEMMA StartStep == ASSUME IndInv, NEW c \in Callers, Start(c) PROVE IndInv'
<1>1. TypeOK /\ CallInv(c) /\ At(c, "idle")
  BY DEF IndInv, Start
<1>2. PICK mode \in Modes :
         op' = [op EXCEPT ![c].mode = mode,
                          ![c].pc = CASE mode = "preserve"   -> "borrow"
                                      [] mode = "translate"  -> "temporary"
                                      [] mode = "tessellate" -> "session"]
  BY CallersAssumption DEF Start
<1> DEFINE label == CASE mode = "preserve"   -> "borrow"
                      [] mode = "translate"  -> "temporary"
                      [] mode = "tessellate" -> "session"
<1>3. /\ label \in {"borrow", "temporary", "session"}
      /\ label = "borrow" <=> mode = "preserve"
      /\ label = "temporary" <=> mode = "translate"
      /\ label = "session" <=> mode = "tessellate"
  BY DEF Modes
<1> HIDE DEF label
<1>4. op' = [op EXCEPT ![c].mode = mode, ![c].pc = label]
  BY <1>2 DEF label
<1>5. /\ op' \in [Callers -> Operations]
      /\ op'[c].pc = label /\ op'[c].mode = mode /\ op'[c].failing = op[c].failing
      /\ op'[c].published = op[c].published /\ op'[c].interrupt = op[c].interrupt
      /\ KeptToo(c) /\ OthersKept(c)
  <2> DEFINE call == [op[c] EXCEPT !.mode = mode, !.pc = label]
  <2>1. op[c] \in Operations /\ op' = [op EXCEPT ![c] = call]
    BY <1>1, <1>4 DEF TypeOK
  <2>2. /\ call \in Operations /\ call.pc = label /\ call.mode = mode
        /\ call.failing = op[c].failing /\ call.published = op[c].published
        /\ call.interrupt = op[c].interrupt /\ call.transient = op[c].transient
        /\ call.read = op[c].read /\ call.signature = op[c].signature
        /\ call.unseen = op[c].unseen /\ call.identity = op[c].identity
        /\ call.refused = op[c].refused
    BY <1>3, <2>1 DEF Operations, Pcs
  <2> HIDE DEF call
  <2>3. op' \in [Callers -> Operations] /\ op'[c] = call /\ OthersKept(c)
    BY <1>1, <2>1, <2>2, ChangeIs
  <2>4. QED
    BY <2>2, <2>3 DEF KeptToo
<1>6. /\ UNCHANGED <<source_bytes, live, destination, temporary>>
      /\ leases' = leases /\ phase' = phase /\ file' = file
  BY DEF Start, leaseVars
<1>7. ~op[c].published
  BY <1>1 DEF CallInv, ModeInv, At, Finally
<1>8. BorrowInv(c)'
  BY <1>1, <1>3, <1>5, <1>6 DEF CallInv, BorrowInv, At, Finally
<1>9. ModeInv(c)'
  BY <1>1, <1>3, <1>5, <1>7 DEF CallInv, ModeInv, At, KeptToo, Raising, Finally
<1>10. SessionInv(c)' /\ ReadInv(c)'
  BY <1>1, <1>3, <1>5, <1>6 DEF CallInv, SessionInv, ReadInv, Seen, Reading, At, KeptToo, Finally
<1>11. FileInv(c)'
  BY <1>1, <1>3, <1>5, <1>6, <1>7 DEF CallInv, FileInv, At, Finally
<1>12. temporary' \in [Callers -> [file : Files, bytes : Bytes]]
  BY <1>1, <1>6 DEF TypeOK
<1>13. QED
  BY <1>5, <1>6, <1>7, <1>8, <1>9, <1>10, <1>11, <1>12, StepOfCaller DEF CallInv

LEMMA UseSessionStep == ASSUME IndInv, NEW c \in Callers, UseSession(c) PROVE IndInv'
<1>1. TypeOK /\ CallInv(c) /\ At(c, "session")
  BY DEF IndInv, UseSession
<1>2. UNCHANGED <<leaseVars, source_bytes, live, destination, temporary>> /\ leases' = leases
      /\ phase' = phase /\ file' = file
  BY DEF UseSession, leaseVars
<1>3. CASE Fail(c, FALSE)
  BY <1>1, <1>2, <1>3, FailsInPlace DEF At, Raising
<1>4. ASSUME NEW label \in {"borrow", "work"}, Goto(c, label), label = "work" => live /\ c = Owner
      PROVE  IndInv'
  <2>1. label \in Pcs
    BY DEF Pcs
  <2>2. /\ op'[c].pc = label /\ op'[c].failing = op[c].failing /\ op'[c].interrupt = op[c].interrupt
        /\ Kept(c) /\ KeptToo(c)
    BY <1>1, <1>4, <2>1, GotoIs
  <2>3. BorrowInv(c)' /\ ModeInv(c)'
    BY <1>1, <1>2, <1>4, <2>2 DEF CallInv, BorrowInv, ModeInv, At, Kept, KeptToo, Raising, Finally
  <2>4. SessionInv(c)' /\ ReadInv(c)' /\ FileInv(c)'
    BY <1>1, <1>2, <2>2 DEF CallInv, BorrowInv, ModeInv, SessionInv, ReadInv, Seen, Reading,
        FileInv, At, Kept, KeptToo, Finally
  <2>5. QED
    BY <1>2, <1>4, <2>1, <2>3, <2>4, GoingOn DEF CallInv
<1>5. QED
  BY <1>3, <1>4 DEF UseSession

LEMMA BorrowSourceStep == ASSUME IndInv, NEW c \in Callers, BorrowSource(c) PROVE IndInv'
<1>1. TypeOK /\ CallInv(c) /\ At(c, "borrow")
  BY DEF IndInv, BorrowSource
<1>2. UNCHANGED <<source_bytes, live, destination, temporary>>
  BY DEF BorrowSource
<1>3. CASE Fail(c, FALSE) /\ UNCHANGED leaseVars
  BY <1>1, <1>2, <1>3, FailsInPlace DEF At, Raising
<1>4. CASE Lease!Acquire(c) /\ Goto(c, "hash")
  <2>1. leases' = leases \union {c} /\ phase = "open" /\ phase' = phase /\ file' = file
    BY <1>4 DEF Lease!Acquire
  <2>2. "hash" \in Pcs
    BY DEF Pcs
  <2>3. /\ op'[c].pc = "hash" /\ op'[c].failing = op[c].failing /\ op'[c].interrupt = op[c].interrupt
        /\ Kept(c) /\ KeptToo(c)
    BY <1>1, <1>4, <2>2, GotoIs
  <2>4. BorrowInv(c)' /\ ModeInv(c)'
    BY <1>1, <2>1, <2>3 DEF CallInv, BorrowInv, ModeInv, At, Kept, KeptToo, Raising, Finally
  <2>5. SessionInv(c)' /\ ReadInv(c)' /\ FileInv(c)'
    BY <1>1, <1>2, <2>3 DEF CallInv, ModeInv, SessionInv, ReadInv, Seen, Reading, FileInv, At,
        Kept, KeptToo, Finally
  <2>6. QED
    BY <1>2, <1>4, <2>1, <2>2, <2>4, <2>5, GoingOn DEF CallInv
<1>5. QED
  BY <1>3, <1>4 DEF BorrowSource

LEMMA HashSourceStep == ASSUME IndInv, NEW c \in Callers, HashSource(c) PROVE IndInv'
<1>1. TypeOK /\ CallInv(c) /\ At(c, "hash")
  BY DEF IndInv, HashSource
<1>2. UNCHANGED <<leaseVars, source_bytes, live, destination, temporary>> /\ leases' = leases
      /\ phase' = phase /\ file' = file
  BY DEF HashSource, leaseVars
<1>3. CASE Fail(c, FALSE)
  BY <1>1, <1>2, <1>3, FailsInPlace DEF At, Raising
<1>4. CASE /\ source_bytes = "source"
           /\ Goto(c, IF op[c].mode = "preserve" THEN "temporary" ELSE "stat")
  <2> DEFINE label == IF op[c].mode = "preserve" THEN "temporary" ELSE "stat"
  <2>1. label \in Pcs
    BY DEF Pcs
  <2>2. /\ op'[c].pc = label /\ op'[c].failing = op[c].failing /\ op'[c].interrupt = op[c].interrupt
        /\ Kept(c) /\ KeptToo(c)
    BY <1>1, <1>4, <2>1, GotoIs
  <2>3. BorrowInv(c)' /\ ModeInv(c)'
    BY <1>1, <1>2, <2>2 DEF CallInv, BorrowInv, ModeInv, At, Kept, KeptToo, Raising, Finally
  <2>4. SessionInv(c)' /\ ReadInv(c)' /\ FileInv(c)'
    BY <1>1, <1>2, <1>4, <2>2 DEF CallInv, ModeInv, SessionInv, ReadInv, Seen, Reading, FileInv,
                                  At, Kept, KeptToo, Finally
  <2> HIDE DEF label
  <2>5. Goto(c, label)
    BY <1>4 DEF label
  <2>6. QED
    BY <1>2, <2>1, <2>3, <2>4, <2>5, GoingOn DEF CallInv
<1>5. QED
  BY <1>3, <1>4 DEF HashSource

LEMMA ReopenStep == ASSUME IndInv, NEW c \in Callers, Reopen(c) PROVE IndInv'
<1>1. TypeOK /\ CallInv(c) /\ At(c, "reopen")
  BY DEF IndInv, Reopen
<1>2. UNCHANGED <<source_bytes, live, destination, temporary>>
      /\ leases' = leases /\ phase' = phase /\ file' = file
  BY DEF Reopen, leaseVars
<1>3. temporary' \in [Callers -> [file : Files, bytes : Bytes]]
  BY <1>1, <1>2 DEF TypeOK
<1>4. CASE op' = [op EXCEPT ![c].pc = "work", ![c].transient = "open", ![c].read = source_bytes]
  <2>1. /\ op' \in [Callers -> Operations] /\ OthersKept(c) /\ Kept(c)
        /\ op'[c].pc = "work" /\ op'[c].transient = "open" /\ op'[c].read = source_bytes
        /\ op'[c].failing = op[c].failing /\ op'[c].identity = op[c].identity
        /\ op'[c].signature = op[c].signature /\ op'[c].unseen = op[c].unseen
    <3> DEFINE call == [op[c] EXCEPT !.pc = "work", !.transient = "open", !.read = source_bytes]
    <3>1. op[c] \in Operations /\ source_bytes \in Bytes
      BY <1>1 DEF TypeOK, Bytes
    <3>2. /\ call \in Operations /\ call.mode = op[c].mode /\ call.report = op[c].report
          /\ call.published = op[c].published /\ call.failing = op[c].failing
          /\ call.identity = op[c].identity
          /\ call.signature = op[c].signature /\ call.unseen = op[c].unseen
          /\ call.pc = "work" /\ call.transient = "open" /\ call.read = source_bytes
      BY <3>1 DEF Operations, Pcs
    <3>3. op' = [op EXCEPT ![c] = call]
      BY <1>1, <1>4 DEF TypeOK
    <3> HIDE DEF call
    <3>4. QED
      BY <1>1, <3>2, <3>3, ChangeIs DEF Kept
  <2>2. BorrowInv(c)' /\ ModeInv(c)'
    BY <1>1, <1>2, <2>1 DEF CallInv, BorrowInv, ModeInv, At, Kept, Raising, Finally
  <2>3. SessionInv(c)' /\ ReadInv(c)' /\ FileInv(c)'
    BY <1>1, <1>2, <2>1 DEF CallInv, BorrowInv, ModeInv, SessionInv, ReadInv, Seen, Reading,
        FileInv, At, Kept, Finally
  <2>4. QED
    BY <1>2, <1>3, <2>1, <2>2, <2>3, StepOfCaller DEF CallInv
<1>5. CASE op' = [op EXCEPT ![c].pc = "close", ![c].transient = "open", ![c].failing = TRUE]
  <2>1. /\ op' \in [Callers -> Operations] /\ OthersKept(c) /\ Kept(c)
        /\ op'[c].pc = "close" /\ op'[c].transient = "open" /\ op'[c].read = op[c].read
        /\ op'[c].failing = TRUE /\ op'[c].identity = op[c].identity
        /\ op'[c].signature = op[c].signature /\ op'[c].unseen = op[c].unseen
    <3> DEFINE call == [op[c] EXCEPT !.pc = "close", !.transient = "open", !.failing = TRUE]
    <3>1. op[c] \in Operations
      BY <1>1 DEF TypeOK
    <3>2. /\ call \in Operations /\ call.mode = op[c].mode /\ call.report = op[c].report
          /\ call.published = op[c].published /\ call.failing = TRUE
          /\ call.identity = op[c].identity /\ call.read = op[c].read
          /\ call.signature = op[c].signature /\ call.unseen = op[c].unseen
          /\ call.pc = "close" /\ call.transient = "open"
      BY <3>1 DEF Operations, Pcs
    <3>3. op' = [op EXCEPT ![c] = call]
      BY <1>1, <1>5 DEF TypeOK
    <3> HIDE DEF call
    <3>4. QED
      BY <1>1, <3>2, <3>3, ChangeIs DEF Kept
  <2>2. BorrowInv(c)' /\ ModeInv(c)'
    BY <1>1, <1>2, <2>1 DEF CallInv, BorrowInv, ModeInv, At, Kept, Raising, Finally
  <2>3. SessionInv(c)' /\ ReadInv(c)' /\ FileInv(c)'
    BY <1>1, <1>2, <2>1 DEF CallInv, BorrowInv, ModeInv, SessionInv, ReadInv, Seen, Reading,
        FileInv, At, Kept, Finally
  <2>4. QED
    BY <1>2, <1>3, <2>1, <2>2, <2>3, StepOfCaller DEF CallInv
<1>6. QED
  BY <1>4, <1>5 DEF Reopen

LEMMA StatSourceStep == ASSUME IndInv, NEW c \in Callers, StatSource(c) PROVE IndInv'
<1>1. TypeOK /\ CallInv(c) /\ At(c, "stat") /\ op[c] \in Operations
  BY DEF IndInv, StatSource, TypeOK
<1>2. UNCHANGED <<source_bytes, live, destination, temporary>>
      /\ leases' = leases /\ phase' = phase /\ file' = file
  BY DEF StatSource, leaseVars
<1> DEFINE call == [op[c] EXCEPT !.pc = "reopen", !.signature = "same"]
<1>3. op' = [op EXCEPT ![c] = call]
  BY <1>1 DEF StatSource, TypeOK
<1>4. /\ call \in Operations /\ call.mode = op[c].mode /\ call.report = op[c].report
      /\ call.published = op[c].published /\ call.failing = op[c].failing
      /\ call.identity = op[c].identity /\ call.read = op[c].read
      /\ call.signature = "same" /\ call.unseen = op[c].unseen
      /\ call.pc = "reopen" /\ call.transient = op[c].transient
  BY <1>1 DEF Operations, Pcs, Signatures
<1> HIDE DEF call
<1>5. op' \in [Callers -> Operations] /\ op'[c] = call /\ OthersKept(c)
  BY <1>1, <1>3, <1>4, ChangeIs
<1>6. ~op[c].published
  BY <1>1 DEF CallInv, ModeInv, At
<1>7. BorrowInv(c)' /\ ModeInv(c)'
  BY <1>1, <1>2, <1>4, <1>5, <1>6 DEF CallInv, BorrowInv, ModeInv, At, Raising, Finally
<1>8. SessionInv(c)' /\ ReadInv(c)'
  BY <1>1, <1>2, <1>4, <1>5 DEF CallInv, SessionInv, ReadInv, Seen, Reading, At, Finally
<1>9. FileInv(c)'
  BY <1>1, <1>2, <1>4, <1>5, <1>6 DEF CallInv, ModeInv, FileInv, At, Finally
<1>10. temporary' \in [Callers -> [file : Files, bytes : Bytes]]
  BY <1>1, <1>2 DEF TypeOK
<1>11. QED
  BY <1>2, <1>5, <1>6, <1>7, <1>8, <1>9, <1>10, StepOfCaller DEF CallInv

(* The finally clause: what goes on, and what an exception in it does. *)
LEMMA PassedIs ==
    ASSUME TypeOK, NEW c \in Callers, NEW label \in Pcs, NEW transient \in {"none", "closed"},
           NEW signature \in Signatures, Passed(c, label, transient, signature)
    PROVE  /\ op' \in [Callers -> Operations]
           /\ op'[c].pc = label /\ op'[c].transient = transient /\ op'[c].signature = signature
           /\ op'[c].failing = op[c].failing
           /\ op'[c].read = op[c].read /\ op'[c].unseen = op[c].unseen
           /\ Kept(c) /\ op'[c].identity = op[c].identity /\ OthersKept(c)
<1> DEFINE call == [op[c] EXCEPT !.pc = label, !.transient = transient, !.signature = signature]
<1>1. op[c] \in Operations /\ op' = [op EXCEPT ![c] = call]
  BY DEF TypeOK, Passed
<1>2. /\ call \in Operations /\ call.mode = op[c].mode /\ call.report = op[c].report
      /\ call.published = op[c].published /\ call.failing = op[c].failing
      /\ call.identity = op[c].identity /\ call.read = op[c].read
      /\ call.signature = signature /\ call.unseen = op[c].unseen
      /\ call.pc = label /\ call.transient = transient
  BY <1>1 DEF Operations
<1> HIDE DEF call
<1>3. op' \in [Callers -> Operations] /\ op'[c] = call /\ OthersKept(c)
  BY <1>1, <1>2, ChangeIs
<1>4. QED
  BY <1>2, <1>3 DEF Kept

LEMMA CaughtIs ==
    ASSUME TypeOK, NEW c \in Callers, NEW label \in Pcs, NEW transient \in {"none", "closed"},
           NEW signature \in Signatures, Caught(c, label, transient, signature)
    PROVE  /\ op' \in [Callers -> Operations]
           /\ op'[c].pc = label /\ op'[c].transient = transient /\ op'[c].signature = signature
           /\ op'[c].failing = TRUE
           /\ op'[c].read = op[c].read /\ op'[c].unseen = op[c].unseen
           /\ Kept(c) /\ op'[c].identity = op[c].identity /\ OthersKept(c)
<1>1. \E interrupt \in BOOLEAN :
         op' = [op EXCEPT ![c].pc = label, ![c].transient = transient,
                          ![c].signature = signature, ![c].failing = TRUE,
                          ![c].interrupt = IF op[c].failing THEN @ ELSE interrupt]
  BY DEF Caught, Interrupts
<1>2. PICK interrupt \in BOOLEAN :
         op' = [op EXCEPT ![c].pc = label, ![c].transient = transient,
                          ![c].signature = signature, ![c].failing = TRUE,
                          ![c].interrupt = IF op[c].failing THEN @ ELSE interrupt]
  BY <1>1
<1> DEFINE raised == IF op[c].failing THEN op[c].interrupt ELSE interrupt
           call == [op[c] EXCEPT !.pc = label, !.transient = transient,
                                 !.signature = signature, !.failing = TRUE, !.interrupt = raised]
<1>3. op[c] \in Operations
  BY DEF TypeOK
<1>4. raised \in BOOLEAN
  BY <1>3 DEF Operations
<1>5. op' = [op EXCEPT ![c] = call]
  BY <1>2 DEF TypeOK
<1> HIDE DEF raised
<1>6. /\ call \in Operations /\ call.mode = op[c].mode /\ call.report = op[c].report
      /\ call.published = op[c].published /\ call.failing = TRUE
      /\ call.identity = op[c].identity /\ call.read = op[c].read
      /\ call.signature = signature /\ call.unseen = op[c].unseen
      /\ call.pc = label /\ call.transient = transient
  BY <1>3, <1>4 DEF Operations
<1> HIDE DEF call
<1>7. op' \in [Callers -> Operations] /\ op'[c] = call /\ OthersKept(c)
  BY <1>5, <1>6, ChangeIs
<1>8. QED
  BY <1>6, <1>7 DEF Kept

LEMMA InFinally ==
    ASSUME IndInv, NEW c \in Callers, op[c].pc \in Finally,
           UNCHANGED <<leaseVars, source_bytes, live, destination, temporary>>,
           op' \in [Callers -> Operations], OthersKept(c), Kept(c),
           op'[c].pc \in {"compare", "rehash", "leave"}, op'[c].transient \in {"none", "closed"},
           op'[c].failing \in {op[c].failing, TRUE}, op'[c].identity = op[c].identity,
           ReadInv(c)'
    PROVE  IndInv'
<1>1. TypeOK /\ CallInv(c)
  BY DEF IndInv
<1>2. UNCHANGED <<source_bytes, live, destination, temporary>>
      /\ leases' = leases /\ phase' = phase /\ file' = file
  BY DEF leaseVars
<1>3. ~op[c].published /\ c \in leases /\ op[c].mode # "preserve"
  BY <1>1 DEF CallInv, BorrowInv, ModeInv, Finally
<1>4. BorrowInv(c)' /\ ModeInv(c)'
  BY <1>1, <1>2, <1>3 DEF CallInv, BorrowInv, ModeInv, At, Kept, Raising, Finally
<1>5. SessionInv(c)'
  BY <1>1 DEF SessionInv, At
<1>6. FileInv(c)'
  BY <1>1, <1>2, <1>3 DEF CallInv, FileInv, At, Kept, Finally
<1>7. temporary' \in [Callers -> [file : Files, bytes : Bytes]]
  BY <1>1, <1>2 DEF TypeOK
<1>8. QED
  BY <1>2, <1>4, <1>5, <1>6, <1>7, StepOfCaller DEF CallInv

LEMMA CloseTransientStep == ASSUME IndInv, NEW c \in Callers, CloseTransient(c) PROVE IndInv'
<1>1. TypeOK /\ CallInv(c) /\ At(c, "close") /\ op[c] \in Operations
  BY DEF IndInv, CloseTransient, TypeOK
<1>2. UNCHANGED <<leaseVars, source_bytes, live, destination, temporary>>
  BY DEF CloseTransient
<1>3. op[c].signature \in Signatures /\ "compare" \in Pcs /\ op[c].pc \in Finally
  BY <1>1 DEF Operations, Pcs, At, Finally
<1>4. ASSUME NEW transient \in {"none", "closed"}, transient = "closed" => op[c].transient = "open",
             Passed(c, "compare", transient, op[c].signature)
      PROVE  IndInv'
  <2>1. /\ op' \in [Callers -> Operations]
        /\ op'[c].pc = "compare" /\ op'[c].transient = transient
        /\ op'[c].signature = op[c].signature /\ op'[c].failing = op[c].failing
        /\ op'[c].read = op[c].read /\ op'[c].unseen = op[c].unseen
        /\ Kept(c) /\ op'[c].identity = op[c].identity /\ OthersKept(c)
    BY <1>1, <1>3, <1>4, PassedIs
  <2>2. ReadInv(c)'
    BY <1>1, <1>2, <1>4, <2>1 DEF CallInv, ReadInv, Seen, Reading, At, Finally
  <2>3. QED
    BY <1>2, <1>3, <2>1, <2>2, InFinally
<1>5. CASE Caught(c, "compare", "closed", op[c].signature)
  <2>1. /\ op' \in [Callers -> Operations]
        /\ op'[c].pc = "compare" /\ op'[c].transient = "closed"
        /\ op'[c].signature = op[c].signature /\ op'[c].failing = TRUE
        /\ op'[c].read = op[c].read /\ op'[c].unseen = op[c].unseen
        /\ Kept(c) /\ op'[c].identity = op[c].identity /\ OthersKept(c)
    BY <1>1, <1>3, <1>5, CaughtIs
  <2>2. ReadInv(c)'
    BY <1>1, <1>2, <2>1 DEF CallInv, ReadInv, Seen, Reading, At
  <2>3. QED
    BY <1>2, <1>3, <2>1, <2>2, InFinally
<1>6. QED
  BY <1>4, <1>5 DEF CloseTransient

(* An exception in one of the two checks of the source. *)
LEMMA CheckRaises ==
    ASSUME IndInv, NEW c \in Callers, op[c].pc \in {"compare", "rehash"},
           Caught(c, "leave", op[c].transient, "none"),
           UNCHANGED <<leaseVars, source_bytes, live, destination, temporary>>
    PROVE  IndInv'
<1>1. TypeOK /\ CallInv(c) /\ op[c] \in Operations
  BY DEF IndInv, TypeOK
<1>2. /\ op[c].transient \in {"none", "closed"} /\ "leave" \in Pcs /\ "none" \in Signatures
      /\ op[c].pc \in Finally
  BY <1>1 DEF CallInv, SessionInv, Operations, Pcs, Signatures, Finally
<1>3. /\ op' \in [Callers -> Operations]
      /\ op'[c].pc = "leave" /\ op'[c].transient = op[c].transient
      /\ op'[c].signature = "none" /\ op'[c].failing = TRUE
      /\ Kept(c) /\ op'[c].identity = op[c].identity /\ OthersKept(c)
  BY <1>1, <1>2, CaughtIs
<1>4. ReadInv(c)'
  BY <1>3 DEF ReadInv, Reading, At
<1>5. QED
  BY <1>2, <1>3, <1>4, InFinally

LEMMA CompareSourceStep == ASSUME IndInv, NEW c \in Callers, CompareSource(c) PROVE IndInv'
<1>1. TypeOK /\ CallInv(c) /\ At(c, "compare") /\ op[c] \in Operations
  BY DEF IndInv, CompareSource, TypeOK
<1>2. UNCHANGED <<leaseVars, source_bytes, live, destination, temporary>>
  BY DEF CompareSource
<1>3. /\ op[c].transient \in {"none", "closed"} /\ "rehash" \in Pcs /\ "none" \in Signatures
      /\ op[c].pc \in Finally
  BY <1>1 DEF CallInv, SessionInv, Operations, Pcs, Signatures, At, Finally
<1>4. CASE op[c].signature = "same" /\ Passed(c, "rehash", op[c].transient, "none")
  <2>1. /\ op' \in [Callers -> Operations]
        /\ op'[c].pc = "rehash" /\ op'[c].transient = op[c].transient
        /\ op'[c].signature = "none" /\ op'[c].failing = op[c].failing
        /\ op'[c].read = op[c].read /\ op'[c].unseen = op[c].unseen
        /\ Kept(c) /\ op'[c].identity = op[c].identity /\ OthersKept(c)
    BY <1>1, <1>3, <1>4, PassedIs
  <2>2. ReadInv(c)'
    BY <1>1, <1>2, <1>4, <2>1 DEF CallInv, ReadInv, Seen, Reading, At, Finally
  <2>3. QED
    BY <1>2, <1>3, <2>1, <2>2, InFinally
<1>5. CASE Caught(c, "leave", op[c].transient, "none")
  BY <1>1, <1>2, <1>5, CheckRaises DEF At
<1>6. QED
  BY <1>4, <1>5 DEF CompareSource

LEMMA RehashSourceStep == ASSUME IndInv, NEW c \in Callers, RehashSource(c) PROVE IndInv'
<1>1. TypeOK /\ CallInv(c) /\ At(c, "rehash") /\ op[c] \in Operations
  BY DEF IndInv, RehashSource, TypeOK
<1>2. UNCHANGED <<leaseVars, source_bytes, live, destination, temporary>>
  BY DEF RehashSource
<1>3. /\ op[c].transient \in {"none", "closed"} /\ "leave" \in Pcs /\ "none" \in Signatures
      /\ op[c].pc \in Finally
  BY <1>1 DEF CallInv, SessionInv, Operations, Pcs, Signatures, At, Finally
<1>4. CASE source_bytes = "source" /\ Passed(c, "leave", op[c].transient, "none")
  <2>1. /\ op' \in [Callers -> Operations]
        /\ op'[c].pc = "leave" /\ op'[c].transient = op[c].transient
        /\ op'[c].signature = "none" /\ op'[c].failing = op[c].failing
        /\ op'[c].read = op[c].read /\ op'[c].unseen = op[c].unseen
        /\ Kept(c) /\ op'[c].identity = op[c].identity /\ OthersKept(c)
    BY <1>1, <1>3, <1>4, PassedIs
  <2>2. ReadInv(c)'
    BY <1>1, <1>2, <1>4, <2>1 DEF CallInv, ReadInv, Seen, Reading, At, Finally
  <2>3. QED
    BY <1>2, <1>3, <2>1, <2>2, InFinally
<1>5. CASE Caught(c, "leave", op[c].transient, "none")
  BY <1>1, <1>2, <1>5, CheckRaises DEF At
<1>6. QED
  BY <1>4, <1>5 DEF RehashSource

LEMMA LeaveBorrowStep == ASSUME IndInv, NEW c \in Callers, LeaveBorrow(c) PROVE IndInv'
<1>1. TypeOK /\ CallInv(c) /\ At(c, "leave") /\ op[c] \in Operations
  BY DEF IndInv, LeaveBorrow, TypeOK
<1>2. UNCHANGED <<source_bytes, live, destination, temporary>>
      /\ leases' = leases \ {c} /\ phase' = phase /\ file' = file
  BY DEF LeaveBorrow, Lease!Drop
<1> DEFINE label == AfterLeave(c)
<1>3. /\ label \in {"cleanup", "verify", "done"}
      /\ label = "cleanup" <=> op[c].failing
      /\ label = "verify" <=> ~op[c].failing /\ op[c].mode = "translate"
  BY DEF AfterLeave
<1>4. label \in Pcs
  BY <1>3 DEF Pcs
<1>5. Goto(c, label)
  BY DEF LeaveBorrow
<1> HIDE DEF label
<1>6. /\ op'[c].pc = label /\ op'[c].failing = op[c].failing /\ op'[c].interrupt = op[c].interrupt
      /\ Kept(c) /\ KeptToo(c)
  BY <1>1, <1>4, <1>5, GotoIs
<1>7. op[c].mode \in Modes
  BY <1>1 DEF Operations
<1>8. BorrowInv(c)'
  BY <1>2, <1>3, <1>6 DEF BorrowInv, At, Kept, Finally
<1>9. ModeInv(c)'
  BY <1>1, <1>3, <1>6 DEF CallInv, ModeInv, At, Kept, KeptToo, Raising, Finally
<1>10. SessionInv(c)' /\ ReadInv(c)'
  BY <1>1, <1>2, <1>3, <1>6 DEF CallInv, SessionInv, ReadInv, Seen, Reading, At, KeptToo, Finally
<1>11. FileInv(c)'
  BY <1>1, <1>2, <1>3, <1>6, <1>7 DEF CallInv, ModeInv, FileInv, At, Kept, KeptToo, Modes, Finally
<1>12. QED
  BY <1>2, <1>4, <1>5, <1>8, <1>9, <1>10, <1>11, GoingOn DEF CallInv

LEMMA CreateTemporaryStep == ASSUME IndInv, NEW c \in Callers, CreateTemporary(c) PROVE IndInv'
<1>1. TypeOK /\ CallInv(c) /\ At(c, "temporary") /\ op[c] \in Operations
  BY DEF IndInv, CreateTemporary, TypeOK
<1>2. UNCHANGED <<leaseVars, source_bytes, live, destination>>
      /\ leases' = leases /\ phase' = phase /\ file' = file
  BY DEF CreateTemporary, leaseVars
<1>3. /\ temporary' \in [Callers -> [file : Files, bytes : Bytes]]
      /\ temporary'[c].file = "owned"
      /\ \A u \in Callers \ {c} : temporary'[u] = temporary[u]
  BY <1>1 DEF CreateTemporary, TypeOK, Files, Bytes
<1>4. CASE Fail(c, FALSE)
  <2>1. op[c].mode # "tessellate"
    BY <1>1 DEF CallInv, ModeInv, At, Finally
  <2>2. QED
    BY <1>1, <1>2, <1>3, <1>4, <2>1, Failing DEF At, Raising
<1>5. CASE op' = [op EXCEPT ![c].identity = TRUE,
                            ![c].pc = IF op[c].mode = "preserve" THEN "copy" ELSE "session"]
  <2> DEFINE label == IF op[c].mode = "preserve" THEN "copy" ELSE "session"
             call == [op[c] EXCEPT !.identity = TRUE, !.pc = label]
  <2>1. op' = [op EXCEPT ![c] = call]
    BY <1>1, <1>5 DEF TypeOK
  <2>2. label \in Pcs
    BY DEF Pcs
  <2>3. /\ call \in Operations /\ call.mode = op[c].mode /\ call.report = op[c].report
        /\ call.published = op[c].published /\ call.failing = op[c].failing
        /\ call.identity = TRUE /\ call.read = op[c].read
        /\ call.signature = op[c].signature /\ call.unseen = op[c].unseen
        /\ call.pc = label /\ call.transient = op[c].transient
    BY <1>1, <2>2 DEF Operations
  <2> HIDE DEF call
  <2>4. op' \in [Callers -> Operations] /\ op'[c] = call /\ OthersKept(c)
    BY <1>1, <2>1, <2>3, ChangeIs
  <2>5. BorrowInv(c)' /\ ModeInv(c)'
    BY <1>1, <1>2, <2>3, <2>4 DEF CallInv, BorrowInv, ModeInv, At, Raising, Finally
  <2>6. SessionInv(c)' /\ ReadInv(c)' /\ FileInv(c)'
    BY <1>1, <1>2, <1>3, <2>3, <2>4 DEF CallInv, ModeInv, SessionInv, ReadInv, Seen, Reading,
        FileInv, At, Finally
  <2>7. ~op[c].published
    BY <1>1 DEF CallInv, ModeInv, At, Finally
  <2>8. QED
    BY <1>2, <1>3, <2>4, <2>5, <2>6, <2>7, StepOfCaller DEF CallInv
<1>6. QED
  BY <1>4, <1>5 DEF CreateTemporary

LEMMA CopySourceStep == ASSUME IndInv, NEW c \in Callers, CopySource(c) PROVE IndInv'
<1>1. TypeOK /\ CallInv(c) /\ At(c, "copy") /\ op[c] \in Operations
  BY DEF IndInv, CopySource, TypeOK
<1>2. UNCHANGED <<leaseVars, source_bytes, live, destination>>
      /\ leases' = leases /\ phase' = phase /\ file' = file
  BY DEF CopySource, leaseVars
<1>3. PICK bytes \in Bytes : temporary' = [temporary EXCEPT ![c].bytes = bytes]
  BY <1>1 DEF CopySource, TypeOK, Bytes
<1>4. /\ temporary' \in [Callers -> [file : Files, bytes : Bytes]]
      /\ temporary'[c].file = temporary[c].file
      /\ \A u \in Callers \ {c} : temporary'[u] = temporary[u]
  BY <1>1, <1>3 DEF TypeOK
<1>5. CASE Fail(c, FALSE)
  <2>1. op[c].mode # "tessellate"
    BY <1>1 DEF CallInv, ModeInv, At, Finally
  <2>2. QED
    BY <1>1, <1>2, <1>4, <1>5, <2>1, Failing DEF At, Raising
<1>6. CASE Goto(c, "verify")
  <2>1. "verify" \in Pcs
    BY DEF Pcs
  <2>2. /\ op' \in [Callers -> Operations] /\ OthersKept(c)
        /\ op'[c].pc = "verify" /\ op'[c].failing = op[c].failing
        /\ Kept(c) /\ KeptToo(c)
    BY <1>1, <1>6, <2>1, GotoIs
  <2>3. BorrowInv(c)' /\ ModeInv(c)'
    BY <1>1, <1>2, <2>2 DEF CallInv, BorrowInv, ModeInv, At, Kept, KeptToo, Raising, Finally
  <2>4. SessionInv(c)' /\ ReadInv(c)' /\ FileInv(c)'
    BY <1>1, <1>2, <1>4, <2>2 DEF CallInv, ModeInv, SessionInv, ReadInv, Seen, Reading, FileInv,
                                  At, Kept, KeptToo, Finally
  <2>5. QED
    BY <1>2, <1>4, <2>2, <2>3, <2>4, StepOfCaller DEF CallInv
<1>7. QED
  BY <1>5, <1>6 DEF CopySource

LEMMA AfterWorkIs ==
    ASSUME NEW c \in Callers
    PROVE  /\ AfterWork(c) \in {"close", "verify", "done"}
           /\ AfterWork(c) = "close" <=> c \in leases
           /\ AfterWork(c) = "verify" <=> c \notin leases /\ op[c].mode = "translate"
BY DEF AfterWork

LEMMA TranslateStep == ASSUME IndInv, NEW c \in Callers, Translate(c) PROVE IndInv'
<1>1. TypeOK /\ CallInv(c) /\ At(c, "work") /\ op[c].mode = "translate" /\ op[c] \in Operations
  BY DEF IndInv, Translate, TypeOK
<1>2. UNCHANGED <<leaseVars, source_bytes, live, destination>>
      /\ leases' = leases /\ phase' = phase /\ file' = file
  BY DEF Translate, leaseVars
<1>3. PICK left \in Leftovers : temporary' = [temporary EXCEPT ![c] = left]
  BY DEF Translate
<1>4. left \in [file : Files, bytes : Bytes]
  BY DEF Leftovers, NoFile, Files, Bytes
<1>5. /\ temporary' \in [Callers -> [file : Files, bytes : Bytes]]
      /\ \A u \in Callers \ {c} : temporary'[u] = temporary[u]
  BY <1>1, <1>3, <1>4 DEF TypeOK
<1>6. CASE Fail(c, FALSE)
  BY <1>1, <1>2, <1>5, <1>6, Failing DEF At, Raising
<1>7. CASE op' = [op EXCEPT ![c].pc = AfterWork(c), ![c].report = "output"]
  <2> DEFINE label == AfterWork(c)
             call == [op[c] EXCEPT !.pc = label, !.report = "output"]
  <2>1. /\ label \in {"close", "verify"}
        /\ label = "close" <=> c \in leases
    BY <1>1, AfterWorkIs
  <2>2. op' = [op EXCEPT ![c] = call]
    BY <1>1, <1>7 DEF TypeOK
  <2> HIDE DEF label
  <2>3. /\ call \in Operations /\ call.mode = op[c].mode /\ call.report = "output"
        /\ call.published = op[c].published /\ call.failing = op[c].failing
        /\ call.identity = op[c].identity /\ call.read = op[c].read
        /\ call.signature = op[c].signature /\ call.unseen = op[c].unseen
        /\ call.pc = label /\ call.transient = op[c].transient
    BY <1>1, <2>1 DEF Operations, Pcs, Bytes
  <2> HIDE DEF call
  <2>4. op' \in [Callers -> Operations] /\ op'[c] = call /\ OthersKept(c)
    BY <1>1, <2>2, <2>3, ChangeIs
  <2>5. ~op[c].published
    BY <1>1 DEF CallInv, ModeInv, At, Finally
  <2>6. BorrowInv(c)'
    BY <1>1, <1>2, <2>1, <2>3, <2>4 DEF BorrowInv, At, Finally
  <2>7. ModeInv(c)'
    BY <1>1, <2>1, <2>3, <2>4, <2>5 DEF CallInv, ModeInv, At, Raising, Finally
  <2>8. SessionInv(c)' /\ ReadInv(c)'
    BY <1>1, <1>2, <2>1, <2>3, <2>4 DEF CallInv, SessionInv, ReadInv, Seen, Reading, At, Finally
  <2>9. FileInv(c)'
    BY <1>1, <2>1, <2>3, <2>4, <2>5 DEF FileInv, At, Finally
  <2>10. QED
    BY <1>2, <1>5, <2>4, <2>5, <2>6, <2>7, <2>8, <2>9, StepOfCaller DEF CallInv
<1>8. QED
  BY <1>6, <1>7 DEF Translate

LEMMA TessellateStep == ASSUME IndInv, NEW c \in Callers, Tessellate(c) PROVE IndInv'
<1>1. TypeOK /\ CallInv(c) /\ At(c, "work") /\ op[c].mode = "tessellate"
  BY DEF IndInv, Tessellate
<1>2. UNCHANGED <<source_bytes, live, destination, temporary>>
      /\ leases' = leases /\ phase' = phase /\ file' = file
  BY DEF Tessellate, leaseVars
<1> DEFINE label == AfterWork(c)
<1>3. label \in {"close", "done"} /\ (label = "close" <=> c \in leases)
  BY <1>1, AfterWorkIs
<1>4. label \in Pcs
  BY <1>3 DEF Pcs
<1>5. Goto(c, label)
  BY DEF Tessellate
<1> HIDE DEF label
<1>6. /\ op'[c].pc = label /\ op'[c].failing = op[c].failing /\ op'[c].interrupt = op[c].interrupt
      /\ Kept(c) /\ KeptToo(c)
  BY <1>1, <1>4, <1>5, GotoIs
<1>7. BorrowInv(c)' /\ ModeInv(c)'
  BY <1>1, <1>2, <1>3, <1>6 DEF CallInv, BorrowInv, ModeInv, At, Kept, KeptToo, Raising, Finally
<1>8. SessionInv(c)' /\ ReadInv(c)' /\ FileInv(c)'
  BY <1>1, <1>2, <1>3, <1>6 DEF CallInv, ModeInv, SessionInv, ReadInv, Seen, Reading, FileInv,
      At, Kept, KeptToo, Finally
<1>9. QED
  BY <1>2, <1>4, <1>5, <1>7, <1>8, GoingOn DEF CallInv

LEMMA VerifyOutputStep == ASSUME IndInv, NEW c \in Callers, VerifyOutput(c) PROVE IndInv'
<1>1. TypeOK /\ CallInv(c) /\ At(c, "verify")
  BY DEF IndInv, VerifyOutput
<1>2. UNCHANGED <<leaseVars, source_bytes, live, destination, temporary>>
      /\ leases' = leases /\ phase' = phase /\ file' = file
  BY DEF VerifyOutput, leaseVars
<1>3. CASE Fail(c, FALSE)
  BY <1>1, <1>2, <1>3, FailsInPlace DEF At, Raising
<1>4. CASE /\ temporary[c].file = "owned" /\ temporary[c].bytes = Expected(c)
           /\ Goto(c, "publish")
  <2>1. "publish" \in Pcs
    BY DEF Pcs
  <2>2. /\ op'[c].pc = "publish" /\ op'[c].failing = op[c].failing
        /\ op'[c].interrupt = op[c].interrupt /\ Kept(c) /\ KeptToo(c)
    BY <1>1, <1>4, <2>1, GotoIs
  <2>3. BorrowInv(c)' /\ ModeInv(c)'
    BY <1>1, <1>2, <2>2 DEF CallInv, BorrowInv, ModeInv, At, Kept, KeptToo, Raising, Finally
  <2>4. SessionInv(c)' /\ ReadInv(c)'
    BY <1>1, <1>2, <2>2 DEF CallInv, SessionInv, ReadInv, Seen, Reading, At, KeptToo, Finally
  <2>5. FileInv(c)'
    BY <1>1, <1>2, <1>4, <2>2 DEF CallInv, ModeInv, FileInv, At, Kept, KeptToo, Expected, Finally
  <2>6. QED
    BY <1>2, <1>4, <2>1, <2>3, <2>4, <2>5, GoingOn DEF CallInv
<1>5. QED
  BY <1>3, <1>4 DEF VerifyOutput

LEMMA CleanupStep == ASSUME IndInv, NEW c \in Callers, Cleanup(c) PROVE IndInv'
<1>1. TypeOK /\ CallInv(c) /\ At(c, "cleanup") /\ op[c] \in Operations
  BY DEF IndInv, Cleanup, TypeOK
<1>2. UNCHANGED <<leaseVars, source_bytes, live, destination>>
      /\ leases' = leases /\ phase' = phase /\ file' = file
  BY DEF Cleanup, leaseVars
<1>3. "done" \in Pcs
  BY DEF Pcs
<1>4. ~op[c].published
  BY <1>1 DEF CallInv, ModeInv, At, Finally
<1> DEFINE tried == ~op[c].interrupt /\ op[c].identity /\ temporary[c].file # "none"
<1>5. CASE Goto(c, "done") /\ ~tried /\ UNCHANGED temporary
  <2>1. /\ op'[c].pc = "done" /\ op'[c].failing = op[c].failing
        /\ op'[c].interrupt = op[c].interrupt /\ Kept(c) /\ KeptToo(c)
    BY <1>1, <1>3, <1>5, GotoIs
  <2>2. BorrowInv(c)' /\ ModeInv(c)'
    BY <1>1, <1>2, <2>1 DEF CallInv, BorrowInv, ModeInv, At, Kept, KeptToo, Raising, Finally
  <2>3. SessionInv(c)' /\ ReadInv(c)'
    BY <1>1, <1>2, <2>1 DEF CallInv, SessionInv, ReadInv, Seen, Reading, At, KeptToo, Finally
  <2>4. FileInv(c)'
    BY <1>1, <1>4, <1>5, <2>1 DEF CallInv, FileInv, At, Kept, KeptToo, Finally
  <2>5. QED
    BY <1>2, <1>3, <1>5, <2>2, <2>3, <2>4, GoingOn DEF CallInv
<1>6. CASE Goto(c, "done") /\ temporary' = [temporary EXCEPT ![c] = NoFile]
  <2>1. /\ op' \in [Callers -> Operations] /\ OthersKept(c)
        /\ op'[c].pc = "done" /\ op'[c].failing = op[c].failing
        /\ op'[c].interrupt = op[c].interrupt /\ Kept(c) /\ KeptToo(c)
    BY <1>1, <1>3, <1>6, GotoIs
  <2>2. /\ temporary' \in [Callers -> [file : Files, bytes : Bytes]]
        /\ temporary'[c].file = "none"
        /\ \A u \in Callers \ {c} : temporary'[u] = temporary[u]
    BY <1>1, <1>6 DEF TypeOK, NoFile, Files, Bytes
  <2>3. BorrowInv(c)' /\ ModeInv(c)'
    BY <1>1, <1>2, <2>1 DEF CallInv, BorrowInv, ModeInv, At, Kept, KeptToo, Raising, Finally
  <2>4. SessionInv(c)' /\ ReadInv(c)'
    BY <1>1, <1>2, <2>1 DEF CallInv, SessionInv, ReadInv, Seen, Reading, At, KeptToo, Finally
  <2>5. FileInv(c)'
    BY <2>1, <2>2 DEF FileInv, At, Finally
  <2>6. QED
    BY <1>2, <2>1, <2>2, <2>3, <2>4, <2>5, StepOfCaller DEF CallInv
<1>7. CASE op' = [op EXCEPT ![c].pc = "done", ![c].refused = TRUE] /\ UNCHANGED temporary
  <2> DEFINE call == [op[c] EXCEPT !.pc = "done", !.refused = TRUE]
  <2>1. op' = [op EXCEPT ![c] = call]
    BY <1>1, <1>7 DEF TypeOK
  <2>2. /\ call \in Operations /\ call.mode = op[c].mode /\ call.report = op[c].report
        /\ call.published = op[c].published /\ call.failing = op[c].failing
        /\ call.identity = op[c].identity /\ call.read = op[c].read
        /\ call.signature = op[c].signature /\ call.unseen = op[c].unseen
        /\ call.pc = "done" /\ call.transient = op[c].transient /\ call.refused = TRUE
    BY <1>1 DEF Operations, Pcs
  <2> HIDE DEF call
  <2>3. op' \in [Callers -> Operations] /\ op'[c] = call /\ OthersKept(c)
    BY <1>1, <2>1, <2>2, ChangeIs
  <2>4. BorrowInv(c)' /\ ModeInv(c)'
    BY <1>1, <1>2, <2>2, <2>3 DEF CallInv, BorrowInv, ModeInv, At, Raising, Finally
  <2>5. SessionInv(c)' /\ ReadInv(c)'
    BY <1>1, <1>2, <2>2, <2>3 DEF CallInv, SessionInv, ReadInv, Seen, Reading, At, Finally
  <2>6. FileInv(c)'
    BY <1>1, <1>4, <1>7, <2>2, <2>3 DEF CallInv, FileInv, At, Finally
  <2>7. temporary' \in [Callers -> [file : Files, bytes : Bytes]]
    BY <1>1, <1>7 DEF TypeOK
  <2>8. QED
    BY <1>2, <1>4, <1>7, <2>3, <2>4, <2>5, <2>6, <2>7, StepOfCaller DEF CallInv
<1>8. QED
  BY <1>5, <1>6, <1>7 DEF Cleanup

(* The replacement: the destination is now this caller's, whoever's it was. *)
LEMMA PublishStep == ASSUME IndInv, NEW c \in Callers, Publish(c) PROVE IndInv'
<1>1. TypeOK /\ CallInv(c) /\ At(c, "publish") /\ op[c] \in Operations
  BY DEF IndInv, Publish, TypeOK
<1>2. UNCHANGED <<source_bytes, live>> /\ leases' = leases /\ phase' = phase /\ file' = file
  BY DEF Publish, leaseVars
<1> DEFINE label == IF c \in leases THEN "leave" ELSE "done"
           call == [op[c] EXCEPT !.published = TRUE, !.pc = label]
<1>3. op' = [op EXCEPT ![c] = call]
  BY <1>1 DEF Publish, TypeOK
<1>4. /\ call \in Operations /\ call.mode = op[c].mode /\ call.report = op[c].report
      /\ call.published = TRUE /\ call.failing = op[c].failing
      /\ call.identity = op[c].identity /\ call.read = op[c].read
      /\ call.signature = op[c].signature /\ call.unseen = op[c].unseen
      /\ call.pc = label /\ call.transient = op[c].transient
  BY <1>1 DEF Operations, Pcs
<1> HIDE DEF call
<1>5. op' \in [Callers -> Operations] /\ op'[c] = call /\ OthersKept(c)
  BY <1>1, <1>3, <1>4, ChangeIs
<1>6. /\ temporary[c].file = "owned" /\ temporary[c].bytes = Expected(c)
      /\ temporary[c].bytes \in Bytes /\ ~op[c].failing
  BY <1>1 DEF CallInv, FileInv, ModeInv, At, Raising, TypeOK, Finally
<1>7. /\ temporary' \in [Callers -> [file : Files, bytes : Bytes]]
      /\ temporary'[c].file = "none"
      /\ \A u \in Callers \ {c} : temporary'[u] = temporary[u]
  BY <1>1 DEF Publish, Replace, TypeOK, NoFile, Files, Bytes
<1>8. destination' = [by |-> c, file |-> "owned", bytes |-> Expected(c)]
  BY <1>6 DEF Publish, Replace
<1>9. TypeOK'
  BY <1>1, <1>2, <1>5, <1>6, <1>7, <1>8 DEF TypeOK, Files
<1>10. LeaseInv'
  BY <1>2 DEF IndInv, LeaseInv
<1>11. DestinationInv'
  BY <1>4, <1>5, <1>8 DEF DestinationInv, Intact, Expected
<1>12. CallInv(c)'
  <2>1. BorrowInv(c)' /\ ModeInv(c)'
    BY <1>1, <1>2, <1>4, <1>5, <1>6 DEF CallInv, BorrowInv, ModeInv, At, Raising, Finally
  <2>2. SessionInv(c)' /\ ReadInv(c)'
    BY <1>1, <1>2, <1>4, <1>5 DEF CallInv, SessionInv, ReadInv, Seen, Reading, At, Finally
  <2>3. FileInv(c)'
    BY <1>1, <1>4, <1>5, <1>7 DEF FileInv, At, Finally
  <2>4. QED
    BY <2>1, <2>2, <2>3 DEF CallInv
<1>13. ASSUME NEW u \in Callers \ {c} PROVE CallInv(u)'
  BY <1>2, <1>5, <1>7, Untroubled DEF IndInv, OthersKept
<1>14. QED
  BY <1>9, <1>10, <1>11, <1>12, <1>13 DEF IndInv

(* What happens around the operations leaves what is said of them. *)
LEMMA Surroundings ==
    ASSUME IndInv, TypeOK', LeaseInv',
           UNCHANGED <<destination, temporary, op, leases>>,
           source_bytes' = source_bytes,
           \A u \in Callers : live' = live \/ (u = Owner => ~At(u, "work"))
    PROVE  IndInv'
<1>1. DestinationInv'
  BY DEF IndInv, DestinationInv, Intact, Expected
<1>2. ASSUME NEW u \in Callers PROVE CallInv(u)'
  BY Untroubled DEF IndInv
<1>3. QED
  BY <1>1, <1>2 DEF IndInv

LEMMA ReleaseStep == ASSUME IndInv, Release PROVE IndInv'
<1>1. TypeOK' /\ LeaseInv'
  BY DEF IndInv, TypeOK, LeaseInv, Release, Lease!Request, Lease!Detach, Lease!Delete
<1>2. leases' = leases
  BY DEF Release, Lease!Request, Lease!Detach, Lease!Delete
<1>3. QED
  BY <1>1, <1>2, Surroundings DEF Release

LEMMA CloseSessionStep == ASSUME IndInv, CloseSession PROVE IndInv'
<1>1. TypeOK' /\ LeaseInv' /\ leases' = leases
  BY DEF IndInv, TypeOK, LeaseInv, CloseSession, leaseVars
<1>2. \A u \in Callers : u = Owner => ~At(u, "work")
  BY DEF CloseSession, At
<1>3. QED
  BY <1>1, <1>2, Surroundings DEF CloseSession

LEMMA UnseenIs ==
    ASSUME TypeOK, NEW u \in Callers, NEW bytes \in {"source", "changed"}
    PROVE  /\ Unseen(u, bytes) \in SUBSET Gaps
           /\ At(u, "stat") /\ bytes # "source" => "before" \in Unseen(u, bytes)
           /\ At(u, "rehash") /\ "before" \in op[u].unseen =>
                 /\ "before" \in Unseen(u, bytes)
                 /\ bytes = "source" => Unseen(u, bytes) = Gaps
           /\ ~At(u, "stat") /\ ~At(u, "rehash") => Unseen(u, bytes) = op[u].unseen
BY DEF TypeOK, Operations, Unseen, Gaps, At

LEMMA TamperStep == ASSUME IndInv, Tamper PROVE IndInv'
<1>1. TypeOK
  BY DEF IndInv
<1>2. /\ source_bytes' \in {"source", "changed"}
      /\ UNCHANGED <<live, destination, temporary>>
      /\ leases' = leases /\ phase' = phase /\ file' = file
  BY DEF Tamper, leaseVars
<1>3. ASSUME NEW u \in Callers
      PROVE  /\ op'[u] \in Operations
             /\ Kept(u) /\ op'[u].pc = op[u].pc /\ op'[u].failing = op[u].failing
             /\ op'[u].interrupt = op[u].interrupt /\ op'[u].transient = op[u].transient
             /\ op'[u].read = op[u].read /\ op'[u].identity = op[u].identity
             /\ op'[u].refused = op[u].refused
             /\ op'[u].signature # "same" /\ op'[u].unseen = Unseen(u, source_bytes')
  <2> DEFINE signature == IF op[u].signature = "none" THEN "none" ELSE "stale"
             unseen == Unseen(u, source_bytes')
             call == [op[u] EXCEPT !.signature = signature, !.unseen = unseen]
  <2>1. op[u] \in Operations /\ op'[u] = call
    BY <1>1 DEF Tamper, TypeOK
  <2>2. signature \in Signatures /\ signature # "same" /\ unseen \in SUBSET Gaps
    BY <1>1, <1>2, UnseenIs DEF Signatures
  <2> HIDE DEF signature, unseen
  <2>3. /\ call \in Operations /\ call.mode = op[u].mode /\ call.report = op[u].report
        /\ call.published = op[u].published /\ call.failing = op[u].failing
        /\ call.identity = op[u].identity /\ call.read = op[u].read
        /\ call.interrupt = op[u].interrupt /\ call.refused = op[u].refused
        /\ call.signature = signature /\ call.unseen = unseen
        /\ call.pc = op[u].pc /\ call.transient = op[u].transient
    BY <2>1, <2>2 DEF Operations
  <2> HIDE DEF call
  <2>4. QED
    BY <2>1, <2>2, <2>3 DEF Kept, unseen
<1>4. op' \in [Callers -> Operations]
  <2>1. op' = [u \in Callers |-> op'[u]]
    BY DEF Tamper
  <2>2. QED
    BY <1>3, <2>1
<1>5. TypeOK' /\ LeaseInv'
  BY <1>2, <1>4 DEF IndInv, TypeOK, LeaseInv
<1>6. DestinationInv'
  BY <1>2, <1>3 DEF IndInv, DestinationInv, Intact, Expected, Kept
<1>7. ASSUME NEW u \in Callers PROVE CallInv(u)'
  <2>1. CallInv(u)
    BY DEF IndInv
  <2>2. BorrowInv(u)' /\ ModeInv(u)'
    BY <1>2, <1>3, <2>1 DEF CallInv, BorrowInv, ModeInv, At, Kept
  <2>3. SessionInv(u)' /\ FileInv(u)'
    BY <1>2, <1>3, <2>1 DEF CallInv, SessionInv, FileInv, At, Expected, Kept
  <2>4. ReadInv(u)'
    <3>1. CASE At(u, "stat")
      <4>1. op[u].transient = "none"
        BY <2>1, <3>1 DEF CallInv, SessionInv, At
      <4>2. QED
        BY <1>1, <1>2, <1>3, <3>1, <4>1, UnseenIs DEF ReadInv, Seen, Reading, At
    <3>2. CASE At(u, "rehash")
      BY <1>1, <1>2, <1>3, <2>1, <3>2, UnseenIs DEF CallInv, ReadInv, Seen, Reading, At, Finally
    <3>3. CASE ~At(u, "stat") /\ ~At(u, "rehash")
      BY <1>1, <1>2, <1>3, <2>1, <3>3, UnseenIs DEF CallInv, ReadInv, Seen, Reading, At
    <3>4. QED
      BY <3>1, <3>2, <3>3
  <2>5. QED
    BY <2>2, <2>3, <2>4 DEF CallInv
<1>8. QED
  BY <1>5, <1>6, <1>7 DEF IndInv

LEMMA StutteringStep == ASSUME IndInv, UNCHANGED vars PROVE IndInv'
<1>1. TypeOK' /\ LeaseInv' /\ leases' = leases
  BY DEF IndInv, TypeOK, LeaseInv, vars, leaseVars
<1>2. QED
  BY <1>1, Surroundings DEF vars

LEMMA InductiveStep == IndInv /\ [Next]_vars => IndInv'
<1> SUFFICES ASSUME IndInv, [Next]_vars PROVE IndInv'
  OBVIOUS
<1>1. ASSUME NEW c \in Callers, Step(c) PROVE IndInv'
  BY <1>1, UseSessionStep, BorrowSourceStep, HashSourceStep, StatSourceStep, ReopenStep,
     CloseTransientStep, CompareSourceStep, RehashSourceStep, LeaveBorrowStep,
     CreateTemporaryStep, CopySourceStep, TranslateStep, TessellateStep, VerifyOutputStep,
     PublishStep, CleanupStep DEF Step
<1>2. ASSUME NEW c \in Callers, Start(c) \/ Raise(c) PROVE IndInv'
  BY <1>2, StartStep, RaiseStep
<1>3. CASE Release \/ CloseSession \/ Tamper
  BY <1>3, ReleaseStep, CloseSessionStep, TamperStep
<1>4. CASE UNCHANGED vars
  BY <1>4, StutteringStep
<1>5. QED
  BY <1>1, <1>2, <1>3, <1>4 DEF Next

LEMMA Inductive == Spec => []IndInv
BY InductiveInit, InductiveStep, PTL DEF Spec

----------------------------------------------------------------------------
(* The theorems. *)

(* Type correctness: whatever callers, releases, closes and other programs  *)
(* do, each variable keeps its type.                                        *)
THEOREM TypeCorrect == Spec => []TypeOK
<1>1. IndInv => TypeOK
  BY DEF IndInv
<1>2. QED
  BY <1>1, Inductive, PTL

(* No temporary is left: an operation that has ended leaves none beside the *)
(* destination, unless it was interrupted, could not record the file's      *)
(* identity or was refused its removal (_cleanup_after_failure).            *)
THEOREM TemporariesHandled == Spec => []NoResidue
<1>1. IndInv => NoResidue
  BY DEF IndInv, CallInv, FileInv, NoResidue
<1>2. QED
  BY <1>1, Inductive, PTL

(* The transient session of an operation on the retained source is never    *)
(* open outside the borrow, however the operation ends.                     *)
THEOREM SessionInsideBorrow == Spec => []TransientInsideBorrow
<1>1. IndInv => TransientInsideBorrow
  BY DEF IndInv, CallInv, SessionInv, TransientInsideBorrow
<1>2. QED
  BY <1>1, Inductive, PTL

(* An operation on the reopened source that succeeds has read the bytes of  *)
(* the manifest's digest, however often the file is written: the two stats  *)
(* around the work find every write between them, the two digests around    *)
(* the stats a change outside of them, and only a file changed before the   *)
(* first stat and put back after the last escapes both.                     *)
THEOREM VerifiedReads == Spec => []ReadsVerified
<1>1. IndInv => ReadsVerified
  BY DEF IndInv, CallInv, ReadInv, Reading, ReadsVerified, At, Finally
<1>2. QED
  BY <1>1, Inductive, PTL

(* The provider works on a borrowed source, which is there, or on the live  *)
(* session in its owner's thread; no release or close takes either away.    *)
THEOREM ProviderHasSource == Spec => []WorkHasSource
<1>1. IndInv => WorkHasSource
  BY DEF IndInv, LeaseInv, CallInv, BorrowInv, WorkHasSource, At
<1>2. QED
  BY <1>1, Inductive, PTL

----------------------------------------------------------------------------
(* What a step of a caller may touch. *)

(* Its own operation and temporary only; and unless it publishes, neither   *)
(* the destination nor that it has been published.                          *)
Confined(c) ==
    /\ ~At(c, "done")
    /\ OthersKept(c)
    /\ \A u \in Callers \ {c} : temporary'[u] = temporary[u]
    /\ temporary[c].file = "foreign" => temporary'[c] = temporary[c]

Unpublishing(c) == destination' = destination /\ op'[c].published = op[c].published

LEMMA GotoEffect ==
    ASSUME TypeOK, NEW c \in Callers, NEW label, Goto(c, label)
    PROVE  OthersKept(c) /\ op'[c].published = op[c].published
BY DEF TypeOK, Goto, Operations, OthersKept

LEMMA FailEffect ==
    ASSUME TypeOK, NEW c \in Callers, NEW interrupt, Fail(c, interrupt)
    PROVE  OthersKept(c) /\ op'[c].published = op[c].published
BY DEF TypeOK, Fail, Operations, OthersKept

LEMMA PassedEffect ==
    ASSUME TypeOK, NEW c \in Callers, NEW label, NEW transient, NEW signature,
           Passed(c, label, transient, signature)
    PROVE  OthersKept(c) /\ op'[c].published = op[c].published
BY DEF TypeOK, Passed, Operations, OthersKept

LEMMA CaughtEffect ==
    ASSUME TypeOK, NEW c \in Callers, NEW label, NEW transient, NEW signature,
           Caught(c, label, transient, signature)
    PROVE  OthersKept(c) /\ op'[c].published = op[c].published
BY DEF TypeOK, Caught, Operations, OthersKept

LEMMA CallerStep ==
    ASSUME IndInv, NEW c \in Callers, Start(c) \/ Step(c) \/ Raise(c)
    PROVE  /\ Confined(c)
           /\ Unpublishing(c) \/ Publish(c)
<1> DEFINE Goal == Confined(c) /\ (Unpublishing(c) \/ Publish(c))
<1>1. TypeOK /\ op \in [Callers -> Operations] /\ op[c] \in Operations /\ CallInv(c)
      /\ temporary \in [Callers -> [file : Files, bytes : Bytes]]
  BY DEF IndInv, TypeOK
<1>2. CASE Raise(c)
  <2>1. PICK interrupt : Fail(c, interrupt)
    BY <1>2 DEF Raise
  <2>2. QED
    BY <1>1, <1>2, <2>1, FailEffect DEF Raise, Confined, Unpublishing, At
<1>3. CASE Start(c)
  BY <1>1, <1>3 DEF Start, Confined, Unpublishing, OthersKept, At, Operations
<1>4. CASE UseSession(c)
  BY <1>1, <1>4, GotoEffect, FailEffect DEF UseSession, Confined, Unpublishing, At
<1>5. CASE BorrowSource(c)
  BY <1>1, <1>5, GotoEffect, FailEffect DEF BorrowSource, Confined, Unpublishing, At
<1>6. CASE HashSource(c)
  BY <1>1, <1>6, GotoEffect, FailEffect DEF HashSource, Confined, Unpublishing, At
<1>7. CASE StatSource(c)
  BY <1>1, <1>7 DEF StatSource, Confined, Unpublishing, OthersKept, At, Operations
<1>8. CASE Reopen(c)
  BY <1>1, <1>8 DEF Reopen, Confined, Unpublishing, OthersKept, At, Operations
<1>9. CASE CloseTransient(c)
  BY <1>1, <1>9, PassedEffect, CaughtEffect DEF CloseTransient, Confined, Unpublishing, At
<1>10. CASE CompareSource(c)
  BY <1>1, <1>10, PassedEffect, CaughtEffect DEF CompareSource, Confined, Unpublishing, At
<1>11. CASE RehashSource(c)
  BY <1>1, <1>11, PassedEffect, CaughtEffect DEF RehashSource, Confined, Unpublishing, At
<1>12. CASE LeaveBorrow(c)
  BY <1>1, <1>12, GotoEffect DEF LeaveBorrow, Confined, Unpublishing, At
<1>13. CASE CreateTemporary(c)
  <2>1. ~At(c, "done") /\ destination' = destination /\ temporary[c].file # "foreign"
        /\ \A u \in Callers \ {c} : temporary'[u] = temporary[u]
    BY <1>1, <1>13 DEF CreateTemporary, CallInv, FileInv, At
  <2>2. OthersKept(c) /\ op'[c].published = op[c].published
    <3>1. CASE Fail(c, FALSE)
      BY <1>1, <3>1, FailEffect
    <3>2. CASE op' = [op EXCEPT ![c].identity = TRUE,
                                ![c].pc = IF op[c].mode = "preserve" THEN "copy" ELSE "session"]
      BY <1>1, <3>2 DEF OthersKept, Operations
    <3>3. QED
      BY <1>13, <3>1, <3>2 DEF CreateTemporary
  <2>3. QED
    BY <2>1, <2>2 DEF Confined, Unpublishing
<1>14. CASE CopySource(c)
  <2>1. ~At(c, "done") /\ destination' = destination /\ temporary[c].file # "foreign"
        /\ \A u \in Callers \ {c} : temporary'[u] = temporary[u]
    BY <1>1, <1>14 DEF CopySource, CallInv, FileInv, At, Finally
  <2>2. OthersKept(c) /\ op'[c].published = op[c].published
    BY <1>1, <1>14, GotoEffect, FailEffect DEF CopySource
  <2>3. QED
    BY <2>1, <2>2 DEF Confined, Unpublishing
<1>15. CASE Translate(c)
  <2>1. ~At(c, "done") /\ destination' = destination /\ temporary[c].file # "foreign"
        /\ \A u \in Callers \ {c} : temporary'[u] = temporary[u]
    BY <1>1, <1>15 DEF Translate, CallInv, FileInv, At, Finally
  <2>2. OthersKept(c) /\ op'[c].published = op[c].published
    <3>1. CASE Fail(c, FALSE)
      BY <1>1, <3>1, FailEffect
    <3>2. CASE op' = [op EXCEPT ![c].pc = AfterWork(c), ![c].report = "output"]
      BY <1>1, <3>2 DEF OthersKept, Operations
    <3>3. QED
      BY <1>15, <3>1, <3>2 DEF Translate
  <2>3. QED
    BY <2>1, <2>2 DEF Confined, Unpublishing
<1>16. CASE Tessellate(c)
  BY <1>1, <1>16, GotoEffect DEF Tessellate, Confined, Unpublishing, At
<1>17. CASE VerifyOutput(c)
  BY <1>1, <1>17, GotoEffect, FailEffect DEF VerifyOutput, Confined, Unpublishing, At
<1>18. CASE Publish(c)
  <2>1. ~At(c, "done") /\ temporary[c].file # "foreign"
        /\ \A u \in Callers \ {c} : temporary'[u] = temporary[u]
    BY <1>1, <1>18 DEF Publish, Replace, CallInv, FileInv, At
  <2>2. OthersKept(c)
    BY <1>1, <1>18 DEF Publish, OthersKept
  <2>3. QED
    BY <1>18, <2>1, <2>2 DEF Confined
<1>19. CASE Cleanup(c)
  <2>1. ~At(c, "done") /\ destination' = destination
    BY <1>19 DEF Cleanup, At
  <2>2. /\ temporary[c].file = "foreign" => temporary'[c] = temporary[c]
        /\ \A u \in Callers \ {c} : temporary'[u] = temporary[u]
    BY <1>1, <1>19 DEF Cleanup
  <2>3. OthersKept(c) /\ op'[c].published = op[c].published
    <3>1. CASE Goto(c, "done")
      BY <1>1, <3>1, GotoEffect
    <3>2. CASE op' = [op EXCEPT ![c].pc = "done", ![c].refused = TRUE]
      BY <1>1, <3>2 DEF OthersKept, Operations
    <3>3. QED
      BY <1>19, <3>1, <3>2 DEF Cleanup
  <2>4. QED
    BY <2>1, <2>2, <2>3 DEF Confined, Unpublishing
<1>20. QED
  BY <1>2, <1>3, <1>4, <1>5, <1>6, <1>8, <1>9, <1>12, <1>13, <1>14, <1>15, <1>16, <1>17,
     <1>18, <1>19, <1>7, <1>10, <1>11 DEF Step

(* A file that the operation did not create is only ever changed by the     *)
(* provider's own call: no copy, replacement or cleanup touches it.         *)
THEOREM ForeignFilesKept == Spec => ForeignFileKept
<1>1. IndInv /\ [Next]_vars =>
         [\A c \in Callers : temporary[c].file = "foreign" => temporary'[c] = temporary[c]]_vars
  <2> SUFFICES ASSUME IndInv, Next, NEW c \in Callers, temporary[c].file = "foreign"
               PROVE  temporary'[c] = temporary[c]
    OBVIOUS
  <2>1. ASSUME NEW u \in Callers, Start(u) \/ Step(u) \/ Raise(u)
        PROVE  temporary'[c] = temporary[c]
    <3>1. Confined(u)
      BY <2>1, CallerStep
    <3>2. QED
      BY <3>1 DEF Confined
  <2>2. CASE Release \/ CloseSession \/ Tamper
    BY <2>2 DEF Release, CloseSession, Tamper
  <2>3. QED
    BY <2>1, <2>2 DEF Next
<1>2. QED
  BY <1>1, Inductive, PTL DEF Spec, ForeignFileKept

----------------------------------------------------------------------------
(* The refinement of AtomicOutput. *)

(* The outcome of one caller's operation; no published output fails later.  *)
OutcomeOf(c) ==
    IF op[c].published THEN "published" ELSE IF At(c, "done") THEN "ended" ELSE "running"

LEMMA OutcomeIs == IndInv => Outcome = [c \in Callers |-> OutcomeOf(c)] /\ Author = destination.by
<1> SUFFICES ASSUME IndInv
             PROVE  Outcome = [c \in Callers |-> OutcomeOf(c)] /\ Author = destination.by
  OBVIOUS
<1>1. ASSUME NEW c \in Callers PROVE op[c].published => ~op[c].failing
  BY DEF IndInv, CallInv, ModeInv
<1>2. QED
  BY <1>1 DEF IndInv, DestinationInv, Author, Outcome, OutcomeOf

LEMMA OutputInit == Init => Output!Init
<1> SUFFICES ASSUME Init PROVE Author = NoCaller /\ Outcome = [c \in Callers |-> "running"]
  BY DEF Output!Init
<1>1. Author = NoCaller
  BY DEF Init, Author, Intact
<1>2. \A c \in Callers : ~op[c].published /\ ~At(c, "done")
  BY DEF Init, Idle, At
<1>3. QED
  BY <1>1, <1>2 DEF Outcome

(* The replacement is the publication, arriving at the end unpublished is   *)
(* the end, and all else is invisible.                                      *)
LEMMA OutputStep ==
    IndInv /\ IndInv' /\ [Next]_vars => [Output!Next]_(Output!outputVars)
<1> SUFFICES ASSUME IndInv, IndInv', [Next]_vars
             PROVE  [Output!Next]_(Output!outputVars)
  OBVIOUS
<1> DEFINE Replaced(c) == /\ Outcome[c] = "running"
                          /\ Author' = c
                          /\ Outcome' = [Outcome EXCEPT ![c] = "published"]
           Ended(c) == /\ Outcome[c] = "running"
                       /\ Author' = Author
                       /\ Outcome' = [Outcome EXCEPT ![c] = "ended"]
<1>1. Outcome = [c \in Callers |-> OutcomeOf(c)] /\ Author = destination.by
  BY OutcomeIs
<1>2. Outcome' = [c \in Callers |-> OutcomeOf(c)'] /\ Author' = destination'.by
  <2>1. (IndInv => Outcome = [c \in Callers |-> OutcomeOf(c)] /\ Author = destination.by)'
    BY OutcomeIs, PTL
  <2>2. QED
    BY <2>1
<1>3. ASSUME NEW c \in Callers, Start(c) \/ Step(c) \/ Raise(c)
      PROVE  (Author' = Author /\ Outcome' = Outcome) \/ Replaced(c) \/ Ended(c)
  <2>1. Confined(c) /\ (Unpublishing(c) \/ Publish(c))
    BY <1>3, CallerStep
  <2>2. \A u \in Callers \ {c} : OutcomeOf(u)' = OutcomeOf(u)
    BY <2>1 DEF Confined, OthersKept, OutcomeOf, At
  <2>3. CASE Publish(c)
    <3>1. op[c] \in Operations /\ op \in [Callers -> Operations]
      BY DEF IndInv, TypeOK
    <3>2. ~op[c].published
      BY <2>3 DEF IndInv, CallInv, ModeInv, Publish, At
    <3>3. OutcomeOf(c) = "running" /\ OutcomeOf(c)' = "published" /\ destination'.by = c
      BY <2>3, <3>1, <3>2 DEF Publish, Replace, OutcomeOf, At, Operations
    <3>4. QED
      BY <1>1, <1>2, <2>2, <3>3
  <2>4. CASE Unpublishing(c)
    <3>1. \/ OutcomeOf(c)' = OutcomeOf(c)
          \/ OutcomeOf(c) = "running" /\ OutcomeOf(c)' = "ended"
      BY <2>1, <2>4 DEF Confined, Unpublishing, OutcomeOf, At
    <3>2. destination'.by = destination.by
      BY <2>4 DEF Unpublishing
    <3>3. CASE OutcomeOf(c)' = OutcomeOf(c)
      <4>1. \A u \in Callers : OutcomeOf(u)' = OutcomeOf(u)
        BY <2>2, <3>3
      <4>2. QED
        BY <1>1, <1>2, <3>2, <4>1
    <3>4. CASE OutcomeOf(c) = "running" /\ OutcomeOf(c)' = "ended"
      BY <1>1, <1>2, <2>2, <3>2, <3>4
    <3>5. QED
      BY <3>1, <3>3, <3>4
  <2>5. QED
    BY <2>1, <2>3, <2>4
<1>4. CASE Release \/ CloseSession \/ Tamper \/ UNCHANGED vars
  <2>1. destination' = destination
    BY <1>4 DEF Release, CloseSession, Tamper, vars
  <2>2. \A u \in Callers : op'[u].published = op[u].published /\ op'[u].pc = op[u].pc
    <3>1. op \in [Callers -> Operations]
      BY DEF IndInv, TypeOK
    <3>2. CASE Tamper
      BY <3>1, <3>2 DEF Tamper, Operations
    <3>3. CASE Release \/ CloseSession \/ UNCHANGED vars
      BY <3>3 DEF Release, CloseSession, vars
    <3>4. QED
      BY <1>4, <3>2, <3>3
  <2>3. \A u \in Callers : OutcomeOf(u)' = OutcomeOf(u)
    BY <2>2 DEF OutcomeOf, At
  <2>4. Author' = Author /\ Outcome' = Outcome
    BY <1>1, <1>2, <2>1, <2>3
  <2>5. QED
    BY <2>4 DEF Output!outputVars
<1>5. ASSUME NEW c \in Callers, Replaced(c) \/ Ended(c) PROVE Output!Next
  BY <1>5 DEF Output!Next, Output!Publish, Output!End
<1>6. QED
  BY <1>3, <1>4, <1>5 DEF Next, Output!outputVars

(* write_cad() is an AtomicOutput: a caller's complete verified output      *)
(* appears at the destination in the one step that makes it succeed, and an *)
(* operation that ends otherwise has not touched it.                        *)
THEOREM ImplementsOutput == Spec => OutputSpec
<1>1. Init => Output!Init
  BY OutputInit
<1>2. QED
  BY <1>1, Inductive, OutputStep, PTL DEF Spec, OutputSpec, Output!Spec
============================================================================
