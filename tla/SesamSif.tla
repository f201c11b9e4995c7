------------------------------- MODULE SesamSif -------------------------------
(***************************************************************************)
(* The stresses in a SESAM result file (sesam/sif.py).                     *)
(*                                                                         *)
(* A stress is the place of the RVSTRESS record it is made of, a sum at a  *)
(* node the set of what is added: record and place of the node in the      *)
(* element.  Projection to global axes is left out; the corners of an      *)
(* element are taken not to lie on a line.                                 *)
(***************************************************************************)
EXTENDS SesamDocument

Results(R) == {i \in Named(R, {"RVSTRESS"}) : Len(R[i].numbers) >= 8}
CaseOf(R, i) == R[i].numbers[2]

(* Mutant: every load case is taken. *)
AnyCase(R, wanted) == wanted

(* Without a load case, the one of the first result.                        *)
LoadCase(R, wanted) ==
    IF wanted # None THEN wanted
    ELSE IF Results(R) = {} THEN None
    ELSE CaseOf(R, CHOOSE i \in Results(R) : \A j \in Results(R) : i <= j)

(* internal_to_external: of two elements with one internal number the last. *)
Numbering(R) == {i \in Named(R, {"GELMNT1"}) : Len(R[i].numbers) >= 2}
ExternalId(R, number) ==
    LET known == {i \in Numbering(R) : R[i].numbers[2] = number}
    IN  IF known = {} THEN number ELSE Id(R, CHOOSE i \in known : \A j \in known : j <= i)

(* _mean_rvstress_membrane_components(): how many values a row of the       *)
(* payload has, 0 if it has no rows.                                        *)
RowWidth(size, type) ==
    LET five == size % 5 = 0 /\ (type \in {26, 28} \/ size % 6 # 0)
    IN  IF size = 0 \/ (~five /\ size % 3 # 0) THEN 0 ELSE IF five THEN 5 ELSE 3

(* _element_corner_node_ids(); a frame needs three of them.                 *)
Corners(e) ==
    CASE e.type = 28 -> {e.nodes[1], e.nodes[3], e.nodes[5], e.nodes[7]}
      [] e.type = 26 -> {e.nodes[1], e.nodes[3], e.nodes[5]}
      [] OTHER -> ToSet(e.nodes)
HasFrame(R, e) == Cardinality({n \in Corners(e) : n \in Ids(R, Nodes(R))}) >= 3

(* The element a result is of, or None if the result is passed over.        *)
Subject(R, i) ==
    LET id == ExternalId(R, R[i].numbers[3])
        type == R[i].numbers[5]
        found == {j \in Elements(R) : Id(R, j) = id}
    IN  IF found = {} \/ type \notin Shells \/ RowWidth(Len(R[i].numbers) - 5, type) = 0 THEN None
        ELSE LET e == Element(R, CHOOSE j \in found : TRUE)
             IN  IF HasFrame(R, e) THEN e ELSE None

(* The places a node has in an element. *)
PlacesAt(e, n) == {k \in DOMAIN e.nodes : e.nodes[k] = n}

(* A result replaces the stress of its element and adds to the sums at its  *)
(* nodes; subject[i] is the element of the result i, or None.               *)
Accumulated(subject) ==
    LET used == {i \in DOMAIN subject : subject[i] # None}
        Latest(id) == CHOOSE i \in used : /\ subject[i].id = id
                                          /\ \A j \in used : subject[j].id = id => j <= i
        Added(n) == UNION {{i} \X PlacesAt(subject[i], n) : i \in used}
    IN  [element |-> [id \in {subject[i].id : i \in used} |-> Latest(id)],
         nodal   |-> [n \in UNION {ToSet(subject[i].nodes) : i \in used} |-> Added(n)]]

(* read_sesam_sif_stress() *)
Stress(R, wanted) ==
    LET case == LoadCase(R, wanted)
    IN  Accumulated([i \in {j \in Results(R) : case = None \/ CaseOf(R, j) = case} |-> Subject(R, i)])

(* read_sesam_sif_summary() *)
SifSummary(R) ==
    [records |-> [name \in {R[i].name : i \in DOMAIN R} |-> Cardinality(Named(R, {name}))],
     cases   |-> {CaseOf(R, i) : i \in Results(R)},
     nodes   |-> Cardinality(Nodes(R)),
     shells  |-> Cardinality({i \in Elements(R) : Element(R, i).type \in Shells}),
     beams   |-> Cardinality({i \in Elements(R) : Element(R, i).type \notin Shells})]

----------------------------------------------------------------------------
(* A file in which no element has two results in one load case. *)
OneResultEach(R) ==
    \A i, j \in Results(R) :
        CaseOf(R, i) = CaseOf(R, j) /\ ExternalId(R, R[i].numbers[3]) = ExternalId(R, R[j].numbers[3])
            => i = j

(* All stresses that are returned are of one load case, those of elements   *)
(* and those of nodes.  If no element has two results in one case, the      *)
(* stress of a node is the mean of the stresses returned for the elements   *)
(* around it, each of them once for each of its places at the node.  That   *)
(* these are shells only the result says, and nobody compares.              *)
StressOfOneCase(R, stress, elements) ==
    LET atNodes == UNION {stress.nodal[n] : n \in DOMAIN stress.nodal}
        ofElements == {stress.element[id] : id \in DOMAIN stress.element}
    IN  /\ Cardinality({CaseOf(R, i) : i \in {p[1] : p \in atNodes} \union ofElements}) <= 1
        /\ OneResultEach(R) =>
              \A n \in DOMAIN stress.nodal :
                  stress.nodal[n] =
                      UNION {{stress.element[e.id]} \X PlacesAt(e, n) :
                                e \in {f \in elements : f.id \in DOMAIN stress.element}}

OneCase(R) == StressOfOneCase(R, Stress(R, None), {Element(R, i) : i \in Elements(R)})
=============================================================================
