----------------------------- MODULE CalculixDeck -----------------------------
(***************************************************************************)
(* Writing a CalculiX deck (calculix/deck.py, write_deck) and counting     *)
(* what is in a deck (calculix/inp.py).                                    *)
(*                                                                         *)
(* A model has elements, each with its family, its number of nodes, its    *)
(* material, thickness, beam section and orientation, which may be absent, *)
(* and says how many nodes, supports and loads there are.  A line is a     *)
(* keyword with its parameters or a row, of which only the number of parts *)
(* and what they stand for is kept.  The name of a set or material is kept *)
(* as far as names can agree: an identifier is a stem and the numbers at   *)
(* its end, each after a "_".                                              *)
(***************************************************************************)
EXTENDS SemanticGate, Naturals, SequencesExt

CONSTANTS
    DeckNone,    \* Python's None
    DeckModels,  \* the models that are written
    Identifier,  \* _identifier() of the names of materials
    PerLine,     \* values in one line
    MaxInpLines, \* lines the summary of a deck reads
    Cuts         \* bound: how many lines a failed write may leave

(* A model has so many elements and materials, by id and by name. *)
IsDeckModel(model) ==
    /\ DOMAIN model.elements \subseteq Nat /\ IsFiniteSet(DOMAIN model.elements)
    /\ IsFiniteSet(DOMAIN model.symmetry)
    /\ \A m \in DOMAIN model.symmetry : Identifier[m] \in [stem : STRING, numbers : Seq(Nat)]
    /\ {model.nodes, model.supports, model.loads, model.pressures} \subseteq Nat

ASSUME DeckAssumption ==
    /\ PerLine \in Nat \ {0} /\ MaxInpLines \in Nat /\ Cuts \subseteq Nat
    /\ \A model \in DeckModels : IsDeckModel(model)

VARIABLES
    deck,        \* the call of write_deck: where it stands, and its model
    inp          \* the lines at the destination, or DeckNone if nothing is there

deckVars == <<deck, inp, capabilities>>

Idle == [pc |-> "idle", model |-> DeckNone, analysis |-> DeckNone]

(* What is at the destination before may be a file. *)
DeckInit == deck = Idle /\ inp \in {DeckNone, <<>>} /\ capabilities = "none"

----------------------------------------------------------------------------
(* Lines. *)

Keyword(key, set, material, axes) ==
    << [key |-> key, set |-> set, material |-> material, axes |-> axes, parts |-> 0, data |-> {}] >>
Plain(key) == Keyword(key, DeckNone, DeckNone, DeckNone)
Row(parts, data) ==
    << [key |-> "row", set |-> DeckNone, material |-> DeckNone, axes |-> DeckNone,
        parts |-> parts, data |-> data] >>
RowsOf(ids, Text(_)) == FlattenSeq([k \in DOMAIN ids |-> Text(ids[k])])

Sorted(ids) ==
    CHOOSE s \in [1..Cardinality(ids) -> ids] : \A j, k \in DOMAIN s : j < k => s[j] < s[k]

(* _set_block(), without its first line: so many values in a line.          *)
Chunks(ids) ==
    LET size == Len(ids)
        Chunk(k) == SubSeq(ids, PerLine * (k - 1) + 1, IF PerLine * k < size THEN PerLine * k ELSE size)
    IN  FlattenSeq([k \in 1..((size + PerLine - 1) \div PerLine) |-> Row(Len(Chunk(k)), ToSet(Chunk(k)))])

SetBlock(kind, name, ids) ==
    IF ids = {} THEN <<>> ELSE Keyword(kind, name, DeckNone, DeckNone) \o Chunks(Sorted(ids))

----------------------------------------------------------------------------
(* Elements and their groups. *)

(* _element_type(); without a type the element is refused. *)
ElementType(e) ==
    IF e.family \in {"quad", "tri"} /\ e.count \in {3, 4, 6, 8} THEN <<"S", e.count>>
    ELSE IF e.family = "beam" /\ e.count \in {2, 3} THEN <<"B", e.count>> ELSE <<>>

DeckIds(model) == DOMAIN model.elements
GroupOf(model, id) == <<ElementType(model.elements[id]), model.elements[id].material>>
Members(model, id) == {other \in DeckIds(model) : GroupOf(model, other) = GroupOf(model, id)}

(* The groups in the order of their first elements. *)
Leaders(model) ==
    Sorted({id \in DeckIds(model) : \A other \in Members(model, id) : id <= other})

Symmetry(model, id) == model.symmetry[model.elements[id].material]

(* In the deck a group is named by the identifier of its material, and the  *)
(* set of an orthotropic shell by this and its id.                          *)
NameOf(model, id) == Identifier[model.elements[id].material]
SetOf(model, id) == <<ElementType(model.elements[id]), NameOf(model, id)>>
WithId(name, id) == [name EXCEPT !.numbers = Append(@, id)]
OwnSet(model, id) == <<ElementType(model.elements[id]), WithId(NameOf(model, id), id)>>

(* _element_blocks() *)
ElementsRefused(model) ==
    \E id \in DeckIds(model) :
        \/ model.elements[id].material \notin DOMAIN model.symmetry
        \/ ElementType(model.elements[id]) = <<>>

ElementBlock(model, id) ==
    Keyword("*element", SetOf(model, id), DeckNone, DeckNone)
    \o RowsOf(Sorted(Members(model, id)), LAMBDA m : Row(1 + model.elements[m].count, {m}))

ElementBlocks(model) == RowsOf(Leaders(model), LAMBDA id : ElementBlock(model, id))

----------------------------------------------------------------------------
(* _section_blocks() *)

IsBeam(model, id) == model.elements[id].family = "beam"
Thicknesses(model, id) ==
    {model.elements[m].thickness : m \in Members(model, id)} \ {DeckNone}

(* An orthotropic shell needs an orientation and a thickness of its own,    *)
(* isotropic ones of a group one thickness together; an orthotropic beam    *)
(* has no section in CalculiX.                                              *)
SectionRefused(model, id) ==
    IF Symmetry(model, id) = "orthotropic"
    THEN IsBeam(model, id) \/ \E m \in Members(model, id) :
            \/ model.elements[m].orientation \in {DeckNone, "invalid"}
            \/ model.elements[m].thickness = DeckNone
    ELSE ~IsBeam(model, id) /\ Cardinality(Thicknesses(model, id)) # 1

(* Mutant: a set may mix thicknesses, and the first is taken. *)
SectionsRefusedMixed(model) ==
    \E id \in ToSet(Leaders(model)) :
        SectionRefused(model, id) /\ ~(Symmetry(model, id) = "isotropic" /\ Thicknesses(model, id) # {})

SectionsRefused(model) == \E id \in ToSet(Leaders(model)) : SectionRefused(model, id)

(* _orthotropic_shell_section(): a set and an orientation for one element.  *)
OrthotropicSection(model, id) ==
    LET e == model.elements[id]
    IN  Keyword("*elset", OwnSet(model, id), DeckNone, DeckNone) \o Row(1, {id})
        \o (Plain("*orientation") \o Row(6, {}))
        \o (Keyword("*shell section", OwnSet(model, id), NameOf(model, id), e.orientation)
            \o Row(1, {e.thickness}))

(* A group of isotropic shells or of beams has one section; that of beams   *)
(* is the first beam's.                                                     *)
GroupSection(model, id) ==
    LET set == SetOf(model, id)
    IN  Keyword("*elset", set, DeckNone, DeckNone) \o Chunks(Sorted(Members(model, id)))
        \o IF IsBeam(model, id)
           THEN Keyword("*beam section", set, NameOf(model, id), DeckNone)
                \o Row(2, {model.elements[id].section})
           ELSE Keyword("*shell section", set, NameOf(model, id), DeckNone)
                \o Row(1, Thicknesses(model, id))

SectionBlock(model, id) ==
    IF Symmetry(model, id) = "orthotropic"
    THEN RowsOf(Sorted(Members(model, id)), LAMBDA m : OrthotropicSection(model, m))
    ELSE GroupSection(model, id)

SectionBlocks(model) == RowsOf(Leaders(model), LAMBDA id : SectionBlock(model, id))

----------------------------------------------------------------------------
(* write_deck() *)

(* _material_block(); those that no element has are written too.  All       *)
(* materials have a density.                                                *)
MaterialsRefused(model) ==
    \E m \in DOMAIN model.symmetry : model.symmetry[m] \notin {"isotropic", "orthotropic"}

MaterialBlock(model) ==
    RowsOf(SetToSeq(DOMAIN model.symmetry), LAMBDA m :
        Plain("*material") \o Plain("*elastic")
        \o (IF model.symmetry[m] = "orthotropic" THEN Row(8, {}) \o Row(1, {}) ELSE Row(2, {}))
        \o Plain("*density") \o Row(1, {}))

(* _boundary_block() and _load_block(): keywords with rows for so many nodes. *)
Block(key, count, parts) ==
    IF count = 0 THEN <<>> ELSE Plain(key) \o RowsOf([k \in 1..count |-> k], LAMBDA k : Row(parts, {}))

(* "buckling" is another name for "buckle". *)
Analysis(analysis) ==
    CASE analysis = "static" -> Plain("*static")
      [] analysis = "frequency" -> Plain("*frequency") \o Row(1, {})
      [] analysis \in {"buckle", "buckling"} -> Plain("*buckle") \o Row(1, {})

(* _node_block() *)
NodeBlock(model) == Plain("*node") \o RowsOf(Sorted(1..model.nodes), LAMBDA n : Row(4, {n}))

StepBlock(model, analysis) ==
    Plain("*step") \o Analysis(analysis)
    \o Block("*cload", model.loads, 3) \o Block("*dload", model.pressures, 3)
    \o Plain("*node file") \o Row(2, {}) \o Plain("*el file") \o Row(1, {})
    \o Plain("*node print") \o Row(1, {}) \o Plain("*end step")

DeckLines(model, analysis) ==
    FlattenSeq(<<Plain("**") \o Plain("**"), NodeBlock(model),
                 SetBlock("*nset", <<"NALL">>, 1..model.nodes),
                 SetBlock("*nset", <<"SUPPORT">>, 1..model.supports),
                 ElementBlocks(model), SetBlock("*elset", <<"ALL">>, DeckIds(model)),
                 MaterialBlock(model), SectionBlocks(model),
                 Block("*boundary", model.supports, 4), StepBlock(model, analysis)>>)

(* The first checks are about the call and the destination. *)
CallRefused(analysis, modes, overwrite) ==
    \/ analysis \notin {"static", "frequency", "buckle", "buckling"}
    \/ analysis # "static" /\ modes < 1
    \/ inp # DeckNone /\ ~overwrite

DeckCall(analysis, modes, overwrite) ==
    /\ deck.pc = "idle"
    /\ RequireSemantics
    /\ deck' = IF capabilities' = "none" \/ CallRefused(analysis, modes, overwrite)
               THEN [Idle EXCEPT !.pc = "failed"]
               ELSE [Idle EXCEPT !.pc = "build", !.analysis = analysis]
    /\ UNCHANGED inp

(* All lines are made before the file is touched. *)
ModelRefused(model) ==
    \/ model.nodes = 0
    \/ ElementsRefused(model)
    \/ SectionsRefused(model)
    \/ MaterialsRefused(model)
    \/ model.supports > 0 /\ model.unknownDof

(* No lines are None. *)
ASSUME NoneIsNoDeck ==
    \A model \in DeckModels : ~ModelRefused(model) =>
        \A analysis \in {"static", "frequency", "buckling"} : DeckLines(model, analysis) # DeckNone

DeckBuild(model) ==
    /\ deck.pc = "build"
    /\ deck' = IF ModelRefused(model) THEN [Idle EXCEPT !.pc = "failed"]
               ELSE [deck EXCEPT !.pc = "write", !.model = model]
    /\ UNCHANGED <<inp, capabilities>>

DeckTruncate ==
    /\ deck.pc = "write"
    /\ inp' = <<>>
    /\ deck' = [deck EXCEPT !.pc = "text"]
    /\ UNCHANGED capabilities

(* The file is written in place: what a failure leaves is a part of it.     *)
DeckWriteFails ==
    /\ deck.pc \in {"write", "text"}
    /\ IF deck.pc = "write" THEN UNCHANGED inp
       ELSE \E k \in Cuts :
              /\ k < Len(DeckLines(deck.model, deck.analysis))
              /\ inp' = SubSeq(DeckLines(deck.model, deck.analysis), 1, k)
    /\ deck' = [Idle EXCEPT !.pc = "failed"]
    /\ UNCHANGED capabilities

DeckWrite ==
    /\ deck.pc = "text"
    /\ inp' = DeckLines(deck.model, deck.analysis)
    /\ deck' = [deck EXCEPT !.pc = "written"]
    /\ UNCHANGED capabilities

Analyses == {"static", "frequency", "buckling", "other"}

DeckNext ==
    \/ \E analysis \in Analyses, modes \in {0, 1}, overwrite \in BOOLEAN :
          DeckCall(analysis, modes, overwrite)
    \/ \E model \in DeckModels : DeckBuild(model)
    \/ DeckTruncate \/ DeckWriteFails \/ DeckWrite

(* Other operations ask for the packages as well. *)
SemanticsAsked == RequireSemantics /\ UNCHANGED <<deck, inp>>

DeckSpec == DeckInit /\ [][DeckNext \/ SemanticsAsked]_deckVars

----------------------------------------------------------------------------
(* summarize_deck() *)

(* The keyword a line stands under; comments are passed over.               *)
Under(lines, k) ==
    LET keys == {j \in 1..k : lines[j].key \notin {"row", "**"}}
    IN  IF keys = {} THEN "none" ELSE lines[Max(keys)].key

RowsUnder(lines, key, parts) ==
    {k \in DOMAIN lines : /\ k <= MaxInpLines /\ lines[k].key = "row"
                          /\ Under(lines, k) = key /\ lines[k].parts >= parts}

(* A file that is not there has no nodes and no elements. *)
InpCounts(lines) ==
    IF lines = DeckNone THEN [nodes |-> 0, elements |-> 0]
    ELSE [nodes    |-> Cardinality(RowsUnder(lines, "*node", 4)),
          elements |-> Cardinality(RowsUnder(lines, "*element", 2))]

----------------------------------------------------------------------------
(* Properties. *)

(* What CalculiX finds in a deck: the elements of a set, and the sections   *)
(* of an element.                                                           *)
InSet(lines, name) ==
    UNION {UNION {lines[j].data : j \in {n \in (i + 1)..Len(lines) :
                                           \A m \in (i + 1)..n : lines[m].key = "row"}} :
              i \in {k \in DOMAIN lines : lines[k].key \in {"*element", "*elset"} /\ lines[k].set = name}}

SectionsAt(lines, id) ==
    {k \in DOMAIN lines : /\ lines[k].key \in {"*shell section", "*beam section"}
                          /\ id \in InSet(lines, lines[k].set)}

(* Materials have different names in the deck, and none is that of another  *)
(* with the id of one of its elements.                                      *)
NamesDiffer(model) ==
    \A m \in DOMAIN model.symmetry :
        /\ \A other \in DOMAIN model.symmetry : Identifier[m] = Identifier[other] => m = other
        /\ \A id \in DeckIds(model) : Identifier[m] # WithId(NameOf(model, id), id)

(* The beam sections or thicknesses given in the group of an element.       *)
Given(model, id) ==
    IF IsBeam(model, id) THEN {model.elements[m].section : m \in Members(model, id)}
    ELSE Thicknesses(model, id)

(* When write_deck() has returned, the summary counts the model's nodes and *)
(* elements, if it reads all lines.  If its names differ, every element     *)
(* stands in exactly one section, of its material and with what an element  *)
(* of its type and material gives: so a beam's is its own if they all give  *)
(* one, and a shell without thickness has that of the others.  A shell's    *)
(* own thickness is kept, and an orthotropic shell's orientation.  Grouping *)
(* and naming must lose no more than that.                                  *)
DeckSaysItsModel ==
    deck.pc = "written" =>
        /\ Len(inp) <= MaxInpLines =>
              InpCounts(inp) = [nodes |-> deck.model.nodes, elements |-> Cardinality(DeckIds(deck.model))]
        /\ NamesDiffer(deck.model) =>
              \A id \in DeckIds(deck.model) :
                 LET e == deck.model.elements[id]
                 IN  /\ Cardinality(SectionsAt(inp, id)) = 1
                     /\ \A k \in SectionsAt(inp, id) :
                           /\ inp[k].material = NameOf(deck.model, id)
                           /\ \E d \in Given(deck.model, id) : inp[k + 1].data = {d}
                           /\ e.family # "beam" /\ e.thickness # DeckNone => inp[k + 1].data = {e.thickness}
                           /\ Symmetry(deck.model, id) = "orthotropic" => inp[k].axes = e.orientation
=============================================================================
