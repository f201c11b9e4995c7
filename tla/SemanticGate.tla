---------------------------- MODULE SemanticGate ----------------------------
(***************************************************************************)
(* The optional packages behind meshes and materials                       *)
(* (_semantic_dependencies.py): checked when an operation needs them, and  *)
(* again until the checks succeed once.                                    *)
(***************************************************************************)
VARIABLE capabilities   \* _cached_capabilities: "none" or "loaded"

Distributions == {"ANYmesher", "ANYmaterial"}

(* How a distribution is installed: not, in a version outside of its range  *)
(* or not understood, without the module or a symbol it should have, well.  *)
Packages == [Distributions -> {"missing", "version", "broken", "good"}]

(* All distributions pass one check before any takes the next.              *)
GateVerdict(packages) ==
    CASE \E d \in Distributions : packages[d] = "missing" -> "SEM001"
      [] /\ \A d \in Distributions : packages[d] # "missing"
         /\ \E d \in Distributions : packages[d] = "version" -> "SEM002"
      [] /\ \A d \in Distributions : packages[d] \notin {"missing", "version"}
         /\ \E d \in Distributions : packages[d] = "broken" -> "SEM003"
      [] OTHER -> "loaded"

(* require_semantics(): what is installed does not matter any more after a  *)
(* success, and a failure is not kept.                                      *)
RequireSemantics ==
    capabilities' \in IF capabilities = "loaded" THEN {"loaded"}
                      ELSE {IF GateVerdict(packages) = "loaded" THEN "loaded" ELSE "none" :
                               packages \in Packages}
=============================================================================
