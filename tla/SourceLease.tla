---------------------------- MODULE SourceLease ----------------------------
(***************************************************************************)
(* What a CadDocument promises about its retained source                   *)
(* (docs/CAD_BACKEND_CONTRACT.md, section 4.4): any number of readers may  *)
(* hold the private snapshot; once a release is asked for no reader is     *)
(* let in; the snapshot is detached only when the last reader has left,    *)
(* and only a detached snapshot is deleted.                                *)
(***************************************************************************)

CONSTANT Readers

VARIABLES
    phase,     \* "open", "draining" or "detached"
    leases,    \* the readers inside a borrow
    file       \* "present" or "absent"

leaseVars == <<phase, leases, file>>

Init ==
    /\ leases = {}
    /\ \/ phase = "open" /\ file = "present"
       \/ phase = "detached" /\ file = "absent"

Acquire(r) ==
    /\ phase = "open"
    /\ r \notin leases
    /\ leases' = leases \union {r}
    /\ UNCHANGED <<phase, file>>

Drop(r) ==
    /\ r \in leases
    /\ leases' = leases \ {r}
    /\ UNCHANGED <<phase, file>>

Request ==
    /\ phase = "open"
    /\ phase' = "draining"
    /\ UNCHANGED <<leases, file>>

Detach ==
    /\ phase # "detached"
    /\ leases = {}
    /\ phase' = "detached"
    /\ UNCHANGED <<leases, file>>

Delete ==
    /\ phase = "detached"
    /\ file' = "absent"
    /\ UNCHANGED <<phase, leases>>

Next ==
    \/ \E r \in Readers : Acquire(r) \/ Drop(r)
    \/ Request
    \/ Detach
    \/ Delete

Spec == Init /\ [][Next]_leaseVars
============================================================================
