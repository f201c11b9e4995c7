---------------------------- MODULE SesamSemantics ----------------------------
(***************************************************************************)
(* What a SESAM document means as a mesh with supports and loads           *)
(* (sesam/semantics.py, read_sesam_semantics).                             *)
(*                                                                         *)
(* A vector is the id of the record it stands in, a pressure the values    *)
(* that are averaged.  The properties of materials and of beam sections,   *)
(* and transforms per node, which need negative numbers, are left out.     *)
(***************************************************************************)
EXTENDS SesamDocument

Of(E, types) == {e \in E : e.type \in types}
Quads == {24, 28}
Beams == {15, 23}

(* _install_elements() leaves out an element one of whose nodes is missing. *)
Installed(R) ==
    {e \in {Element(R, i) : i \in Elements(R)} : ToSet(e.nodes) \subseteq Ids(R, Nodes(R))}
Missing(R) == {Element(R, i) : i \in Elements(R)} \ Installed(R)

(* shell_thickness(): the default stands for a thickness that is not given, *)
(* and nothing is told of it.                                               *)
Thickness(R, e) ==
    LET given == {i \in Sections(R) : /\ R[i].name = "GELTH" /\ Id(R, i) = e.section
                                      /\ Len(R[i].numbers) >= 2
                                      /\ R[i].numbers[2] = Fraction \/ R[i].numbers[2] > 0}
    IN  IF given = {} THEN "default" ELSE R[CHOOSE i \in given : TRUE].numbers[2]

UnitVectors(R) == Ids(R, Numbered(R, {"GUNIVEC"}, 4))
Transforms(R) == Ids(R, Numbered(R, {"BNTRCOS"}, 10))

(* _element_transform_ids(): by the id of the element, for shells too.      *)
TransformIds(R, e) ==
    {id \in UnitVectors(R) \union Transforms(R) :
        \E r \in References(R) :
            Id(R, r) = e.id /\ Len(R[r].numbers) >= 12 /\ R[r].numbers[12] = id}

(* shell_local_axes() and beam_orientation(). *)
Direction(R, e) ==
    IF e.type \in Beams THEN TransformIds(R, e) ELSE TransformIds(R, e) \intersect Transforms(R)

(* Elements are grouped by section; 0 and None are no section.              *)
Groups(R, types) ==
    {<<s, {e.id : e \in {f \in Of(Installed(R), types) : f.section = s}}>> :
        s \in {e.section : e \in Of(Installed(R), types)} \ {None, 0}}

(* Several orders of shells leave the mesh as it was made, linear.          *)
Orders(R) ==
    {IF e.type \in {26, 28} THEN "quadratic" ELSE "linear" : e \in Of(Installed(R), Shells)}

----------------------------------------------------------------------------
(* _install_supports(). *)

(* A flag that is no integer is skipped, and those behind it count for the  *)
(* degree of freedom before theirs.                                         *)
Flags(numbers) ==
    LET start == IF Len(numbers) >= 8 THEN 3 ELSE 2
        last == IF Len(numbers) < start + 5 THEN Len(numbers) ELSE start + 5
    IN  SelectSeq(SubSeq(numbers, start, last), LAMBDA flag : flag # Fraction)

Boundaries(R) ==
    {[record |-> i, node |-> Id(R, i),
      dofs |-> {k \in DOMAIN Flags(R[i].numbers) : Flags(R[i].numbers)[k] # 0}] :
        i \in Numbered(R, {"BNBCD"}, 2)}

Supports(R) == {b \in Boundaries(R) : b.node \in Ids(R, Nodes(R)) /\ b.dofs # {}}

----------------------------------------------------------------------------
(* _install_loads(). *)

(* The pressures on a shell add up: each is the mean of the values of one   *)
(* record, and count records have these values.                             *)
Pressures(R) ==
    LET loads == {i \in Named(R, {"BEUSLO"}) :
                    /\ Len(R[i].numbers) >= 9
                    /\ R[i].numbers[5] \in {e.id : e \in Of(Installed(R), Shells)}}
        Values(i) == SubSeq(R[i].numbers, 9, Len(R[i].numbers))
        Same(i) == {j \in loads : R[j].numbers[5] = R[i].numbers[5] /\ Values(j) = Values(i)}
    IN  {[element |-> R[i].numbers[5], values |-> Values(i), count |-> Cardinality(Same(i))] :
            i \in {j \in loads : ToSet(Values(j)) # {0}}}

(* The last record that is not zero counts. *)
Gravity(R) ==
    LET given == {i \in Named(R, {"BGRAV"}) :
                    LET n == Len(R[i].numbers)
                    IN  n >= 7 /\ ToSet(SubSeq(R[i].numbers, n - 2, n)) # {0}}
    IN  IF given = {} THEN None
        ELSE LET numbers == R[CHOOSE i \in given : \A j \in given : j <= i].numbers
             IN  SubSeq(numbers, Len(numbers) - 2, Len(numbers))

----------------------------------------------------------------------------
(* read_sesam_semantics(). *)

Semantics(R) ==
    [nodes      |-> Ids(R, Nodes(R)),
     quads      |-> Of(Installed(R), Quads),
     tris       |-> Of(Installed(R), Shells \ Quads),
     beams      |-> Of(Installed(R), Beams),
     thickness  |-> {<<e.id, Thickness(R, e)>> : e \in Of(Installed(R), Shells)},
     directions |-> {<<e.id, Direction(R, e)>> : e \in Installed(R)},
     faces      |-> Groups(R, Shells),
     edges      |-> Groups(R, Beams),
     order      |-> IF Cardinality(Orders(R)) = 1 THEN CHOOSE o \in Orders(R) : TRUE ELSE "linear",
     supports   |-> Supports(R),
     pressures  |-> Pressures(R),
     gravity    |-> Gravity(R)]

(* What is added to the diagnostics of the document; none has a place.      *)
SemanticDiagnostics(R) ==
    (IF Missing(R) # {} \/ {b.node : b \in Boundaries(R)} \ Ids(R, Nodes(R)) # {}
     THEN {Error("FEM105", 0)} ELSE {})
    \union (IF \E e \in Installed(R) : e.material \notin {None, 0} \union Ids(R, Materials(R))
            THEN {Warning("FEM106", 0)} ELSE {})
    \union (IF Cardinality(Orders(R)) > 1 THEN {Warning("FEM107", 0)} ELSE {})
    \union (IF Named(R, Loads) # {} /\ Gravity(R) = None /\ Pressures(R) = {}
            THEN {Warning("FEM121", 0)} ELSE {})
    \union (IF Named(R, {"BLDEP"}) # {} THEN {Warning("FEM122", 0)} ELSE {})
=============================================================================
