---------------------------- MODULE AtomicOutput ----------------------------
(***************************************************************************)
(* What write_cad() promises about its destination                         *)
(* (docs/CAD_BACKEND_CONTRACT.md, section 4.7): an operation either puts   *)
(* its complete, verified output at the destination in one step and        *)
(* succeeds, or ends without having touched it.                            *)
(***************************************************************************)

CONSTANTS
    Writers,
    Nobody      \* the author of the file that was there before

VARIABLES
    author,     \* whose complete output is at the destination
    outcome     \* of each writer: "running", "published" or "ended"

outputVars == <<author, outcome>>

Init ==
    /\ author = Nobody
    /\ outcome = [w \in Writers |-> "running"]

Publish(w) ==
    /\ outcome[w] = "running"
    /\ author' = w
    /\ outcome' = [outcome EXCEPT ![w] = "published"]

End(w) ==
    /\ outcome[w] = "running"
    /\ outcome' = [outcome EXCEPT ![w] = "ended"]
    /\ UNCHANGED author

Next == \E w \in Writers : Publish(w) \/ End(w)

Spec == Init /\ [][Next]_outputVars
=============================================================================
