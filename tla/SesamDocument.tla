---------------------------- MODULE SesamDocument ----------------------------
(***************************************************************************)
(* The typed document of a SESAM file (sesam/document.py) and its          *)
(* validation (sesam/validation.py): which record defines what, how        *)
(* elements find their references, and what is told about the others.      *)
(*                                                                         *)
(* Records is a sequence of what SesamRecords makes.  A table of the       *)
(* document is the set of the records (their places) that define it, since *)
(* every record keeps its numbers.  Names, coordinate transforms and the   *)
(* values inside of materials and sections are left out, and so are        *)
(* negative numbers.                                                       *)
(***************************************************************************)
EXTENDS SesamRecords

CONSTANTS
    None,      \* Python's None
    Fraction   \* a number that is no integer; it is positive

(* schema.py *)
NodeCount == [code \in {15, 23, 24, 25, 26, 28} |->
                 CASE code = 15 -> 2 [] code \in {23, 25} -> 3 [] code = 24 -> 4
                   [] code = 26 -> 6 [] code = 28 -> 8]
Types == DOMAIN NodeCount
Shells == {24, 25, 26, 28}
Dimensions == {"GBARM", "GBOX", "GIORH", "GLSEC", "GPIPE"}
Unsupported == {"BLDEP", "BEUSLO", "BNACCLO", "BGRAV"}
Loads == {"TDLOAD", "BEUSLO", "BNLOAD", "BNACCLO", "BGRAV"}
Concepts == {"TDSCONC", "SCONCEPT", "SCONMESH"}
Known ==
    {"IDENT", "DATE", "UNITS", "IEND", "TDMATER", "MISOSEL", "TDSECT", "GELTH", "GBEAMG",
     "GCOORD", "GNODE", "GELMNT1", "GELREF1", "GUNIVEC", "GECCEN", "BNTRCOS", "BNBCD", "BLDEP"}
    \union Dimensions \union Concepts \union Loads

Error(code, at) == [code |-> code, severity |-> "error", at |-> at]
Warning(code, at) == [code |-> code, severity |-> "warning", at |-> at]

----------------------------------------------------------------------------
(* Records that define something under the id in their first number.        *)

Named(R, names) == {i \in DOMAIN R : R[i].name \in names}
Id(R, i) == R[i].numbers[1]

(* strict_int() rejects a fraction. *)
Numbered(R, names, least) ==
    {i \in Named(R, names) : Len(R[i].numbers) >= least /\ Id(R, i) # Fraction}

(* The first record of an id is kept. *)
First(R, S) == {i \in S : \A j \in S : j < i => Id(R, j) # Id(R, i)}
Ids(R, S) == {Id(R, i) : i \in S}

TooShort(R, names, least) ==
    {Error("FEM101", i) : i \in {j \in Named(R, names) : Len(R[j].numbers) < least}}
BadIds(R, names, least) ==
    {Error("FEM002", i) : i \in {j \in Named(R, names) : Len(R[j].numbers) >= least
                                                        /\ Id(R, j) = Fraction}}
Duplicates(R, S) == {Error("FEM102", i) : i \in S \ First(R, S)}

Refusals(R, names, least) ==
    TooShort(R, names, least) \union BadIds(R, names, least)
    \union Duplicates(R, Numbered(R, names, least))

(* A fraction at one of some other places. *)
BadAt(R, S, places) ==
    {Error("FEM002", i) : i \in {j \in S : \E k \in places : k <= Len(R[j].numbers)
                                                      /\ R[j].numbers[k] = Fraction}}

----------------------------------------------------------------------------
(* The tables. *)

Materials(R) == First(R, Numbered(R, {"MISOSEL"}, 1))

(* A dimension record makes a section if there is none. *)
Sections(R) == First(R, Numbered(R, {"GELTH", "GBEAMG"}, 1))
SectionIds(R) == Ids(R, Sections(R)) \union Ids(R, Numbered(R, Dimensions, 1))

(* _parse_nodes(): GNODE does not replace a GCOORD, nor an earlier GNODE,   *)
(* and nothing is told of it.                                               *)
Coordinates(R) == First(R, Numbered(R, {"GCOORD"}, 4))
Pending(R) == {i \in Numbered(R, {"GNODE"}, 4) : Id(R, i) \notin Ids(R, Coordinates(R))}
BadSystem(R, i) == Len(R[i].numbers) >= 5 /\ R[i].numbers[2] = Fraction
Nodes(R) == Coordinates(R) \union First(R, {i \in Pending(R) : ~BadSystem(R, i)})

(* A fraction is told of unless the node is there already. *)
BadSystems(R) ==
    {Error("FEM002", i) : i \in {j \in Pending(R) :
        BadSystem(R, j) /\ \A k \in Nodes(R) : k < j => Id(R, k) # Id(R, j)}}

(* _parse_element_references(): the last record of an id is kept. *)
References(R) ==
    LET S == Numbered(R, {"GELREF1"}, 1)
    IN  {i \in S : \A j \in S : j > i => Id(R, j) # Id(R, i)}

Integer(number) == IF number = Fraction THEN None ELSE number
MaterialOf(r) == IF Len(r.numbers) >= 2 THEN Integer(r.numbers[2]) ELSE None

(* The place of the section: 9 if there is a positive number, else 3. *)
SectionPlaces(r) ==
    LET S == {k \in {3, 9} : Len(r.numbers) >= k
                             /\ (r.numbers[k] = Fraction \/ r.numbers[k] > 0)}
    IN  IF 9 \in S THEN {9} ELSE S
SectionOf(r) ==
    IF SectionPlaces(r) = {} THEN None
    ELSE Integer(r.numbers[CHOOSE k \in SectionPlaces(r) : TRUE])

BadReferences(R) ==
    UNION {BadAt(R, {i}, {2, 12} \union SectionPlaces(R[i])) : i \in Numbered(R, {"GELREF1"}, 1)}

CoordinateRefusals(R) == Refusals(R, {"GCOORD"}, 1) \union Refusals(R, {"GCOORD"}, 4)
TransformRefusals(R) == Refusals(R, {"GUNIVEC"}, 4) \union Refusals(R, {"BNTRCOS"}, 10)
ConceptRefusals(R) == BadAt(R, Named(R, Concepts), {1})
LoadRefusals(R) == BadAt(R, Named(R, Loads), {1, 2})

(* _parse_boundaries(): six flags, after a count in a long record. *)
BadFlags(R) ==
    UNION {BadAt(R, {i}, IF Len(R[i].numbers) >= 8 THEN 3..8 ELSE 2..7) :
              i \in Numbered(R, {"BNBCD"}, 2)}

(* The id of a named section stands behind a 4. *)
BadSectionNames(R) ==
    UNION {BadAt(R, {i}, IF Len(R[i].numbers) > 1 /\ Id(R, i) = 4 THEN {2} ELSE {1}) :
              i \in Named(R, {"TDSECT"})}

----------------------------------------------------------------------------
(* _parse_elements(). *)

(* _element_layout(): the type is the third number or the second. *)
TypeAt(numbers) ==
    IF numbers[3] \in Types THEN 3 ELSE IF numbers[2] \in Types THEN 2 ELSE 0

NodeIds(numbers) ==
    LET first == IF TypeAt(numbers) = 3 THEN 5 ELSE 3
    IN  SubSeq(numbers, first, first + NodeCount[numbers[TypeAt(numbers)]] - 1)

(* The checks of an element, in order, after that of its id. *)
Layout(numbers) == TypeAt(numbers) # 0
Complete(numbers) ==
    Layout(numbers) /\ LET first == IF TypeAt(numbers) = 3 THEN 5 ELSE 3
                       IN  Len(numbers) >= first + NodeCount[numbers[TypeAt(numbers)]] - 1
WellFormed(numbers) == Complete(numbers) /\ ~Contains(NodeIds(numbers), Fraction)

ElementRecords(R) == Numbered(R, {"GELMNT1"}, 3)
Elements(R) == First(R, {i \in ElementRecords(R) : WellFormed(R[i].numbers)})

(* Not duplicates of an element before them. *)
Fresh(R) == {i \in ElementRecords(R) : \A j \in Elements(R) : j < i => Id(R, j) # Id(R, i)}

(* Its type, its nodes, and whether these are integers. *)
Malformed(R) ==
    {Error("FEM103", i) : i \in {j \in Fresh(R) : ~Layout(R[j].numbers)}}
    \union {Error("FEM104", i) : i \in {j \in Fresh(R) : Layout(R[j].numbers)
                                                      /\ ~Complete(R[j].numbers)}}
    \union {Error("FEM002", i) : i \in {j \in Fresh(R) : Complete(R[j].numbers)
                                                      /\ ~WellFormed(R[j].numbers)}}

ElementRefusals(R) ==
    TooShort(R, {"GELMNT1"}, 3) \union BadIds(R, {"GELMNT1"}, 3)
    \union {Error("FEM102", i) : i \in ElementRecords(R) \ Fresh(R)}
    \union BadAt(R, Fresh(R), {3})
    \union (UNION {BadAt(R, {i}, {2}) : i \in {j \in Fresh(R) : TypeAt(R[j].numbers) # 3
                                                              \/ WellFormed(R[j].numbers)}})
    \union Malformed(R)

(* Mutant: one pass over the records, which has only seen the references    *)
(* before the element.                                                      *)
ReferenceBefore(R, i) ==
    LET S == {r \in References(R) : r < i /\ Id(R, r) \in {R[i].numbers[1], R[i].numbers[2]}}
    IN  IF S = {} THEN None ELSE R[CHOOSE r \in S : TRUE]

(* The reference of an element is found by the internal number of it or by  *)
(* its id: in this order for a shell, in the other for a beam.              *)
Wanted(numbers) ==
    IF numbers[2] = Fraction THEN <<numbers[1], numbers[1]>>
    ELSE IF numbers[TypeAt(numbers)] \in Shells THEN <<numbers[2], numbers[1]>>
    ELSE <<numbers[1], numbers[2]>>

ReferenceOf(R, i) ==
    LET ids == Ids(R, References(R))
        wanted == Wanted(R[i].numbers)
        id == IF wanted[1] \in ids THEN wanted[1] ELSE wanted[2]
    IN  IF id \notin ids THEN None
        ELSE R[CHOOSE r \in References(R) : Id(R, r) = id]

Element(R, i) ==
    LET reference == ReferenceOf(R, i)
    IN  [id       |-> Id(R, i),
         type     |-> R[i].numbers[TypeAt(R[i].numbers)],
         nodes    |-> NodeIds(R[i].numbers),
         material |-> IF reference = None THEN None ELSE MaterialOf(reference),
         section  |-> IF reference = None THEN None ELSE SectionOf(reference)]

----------------------------------------------------------------------------
(* The model in a file, whatever the places of its records. *)
Model(R) ==
    [materials  |-> {R[i].numbers : i \in Materials(R)},
     sections   |-> {<<R[i].name, R[i].numbers>> : i \in Sections(R)},
     sectionIds |-> SectionIds(R),
     nodes      |-> {<<R[i].name, R[i].numbers>> : i \in Nodes(R)},
     elements   |-> {Element(R, i) : i \in Elements(R)}]

(* parse_sesam_fem_records(), with strict=False. *)
ParseDiagnostics(R) ==
    Refusals(R, {"MISOSEL"}, 1) \union BadIds(R, {"TDMATER"}, 1)
    \union Refusals(R, {"GELTH", "GBEAMG"}, 1) \union BadIds(R, Dimensions, 1)
    \union BadSectionNames(R)
    \union CoordinateRefusals(R) \union TransformRefusals(R)
    \union TooShort(R, {"GNODE"}, 4) \union BadIds(R, {"GNODE"}, 4) \union BadSystems(R)
    \union TooShort(R, {"GELREF1"}, 1) \union BadIds(R, {"GELREF1"}, 1)
    \union BadReferences(R) \union ElementRefusals(R)
    \union TooShort(R, {"BNBCD"}, 2) \union BadIds(R, {"BNBCD"}, 2) \union BadFlags(R)
    \union ConceptRefusals(R) \union LoadRefusals(R)
    \union {Warning("FEM110", i) : i \in {j \in DOMAIN R : R[j].name \notin Known}}

(* Mutant: elements are not checked against the nodes. *)
ValidateLastRecord(R) == IF R = <<>> \/ Last(R).name # "IEND" THEN {Error("FEM003", 0)} ELSE {}

(* validate_sesam_fem_document(): what it says of an element has no place.  *)
ElementTold(R, e) ==
    (IF \E k \in DOMAIN e.nodes : e.nodes[k] \notin Ids(R, Nodes(R))
     THEN {Error("FEM105", 0)} ELSE {})
    \union (IF e.material \notin {None, 0} \union Ids(R, Materials(R))
            THEN {Warning("FEM106", 0)} ELSE {})
    \union (IF e.section \notin {None, 0} \union SectionIds(R)
            THEN {Warning("FEM107", 0)} ELSE {})

Validate(R) ==
    IF R = <<>> THEN {Error("FEM003", 0)} ELSE
    (IF Last(R).name # "IEND" THEN {Error("FEM003", 0)} ELSE {})
    \union (UNION {ElementTold(R, Element(R, i)) : i \in Elements(R)})
    \union {Warning("FEM120", i) : i \in Named(R, Unsupported)}

HasErrors(diagnostics) == \E d \in diagnostics : d.severity = "error"
=============================================================================
