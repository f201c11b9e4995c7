---------------------------- MODULE MCInspector ----------------------------
(* Inspector with two files: a SESAM model or result of a few records about  *)
(* four nodes and another SESAM file, or a CalculiX file beside a file that  *)
(* cannot be shown.                                                          *)
EXTENDS Inspector

Record(name, numbers) == RecordFromLines(1, <<[name |-> name, numbers |-> numbers, text |-> <<>>]>>)
Sequences(S, least, most) == UNION {[1..k -> S] : k \in least..most}

FourNodes == [n \in 1..4 |-> Record("GCOORD", <<n, 0, 0, 0>>)]
Triangle == Record("GELMNT1", <<1, 2, 25, 0, 1, 2, 3>>)
Neighbour == Record("GELMNT1", <<2, 1, 25, 0, 2, 3, 4>>)
Torn == Record("GELMNT1", <<2, 1, 15, 0, 4, 5>>)

Curved == Record("GELMNT1", <<1, 2, 23, 0, 1, 2, 3>>)

(* Results in two load cases, of elements with exchanged numbers, and one   *)
(* of a beam.                                                               *)
ResultLines ==
    {Record("RVSTRESS", <<0, 1, 1, 0, 25, 1, 1, 1>>), Record("RVSTRESS", <<0, 1, 2, 0, 25, 2, 2, 2>>),
     Record("RVSTRESS", <<0, 2, 1, 0, 25, 3, 3, 3>>), Record("RVSTRESS", <<0, 2, 2, 0, 15, 3, 3, 3>>)}

ModelLines ==
    {Neighbour, Torn, Record("BEUSLO", <<1, 0, 0, 0, 1, 0, 0, 0, 7>>),
     Record("BNBCD", <<1, 6, 1, 0, 1, 1, 1, 1>>), Record("BGRAV", <<1, 0, 0, 0, 0, 0, 9>>),
     Record("GELREF1", <<1, 1, 1>>), Record("GELTH", <<1, 8>>)}

SifFiles == {FourNodes \o <<Triangle, Neighbour>> \o results : results \in Sequences(ResultLines, 1, 3)}
FemFiles == {FourNodes \o <<Triangle>> \o lines : lines \in Sequences(ModelLines, 0, 2)}

File(kind, records, fault) == [kind |-> kind, records |-> records, fault |-> fault]
Pair(first, second) == [name \in {"first", "second"} |-> IF name = "first" THEN first ELSE second]
OtherModel == File("fem", FourNodes, "none")

MCFolders ==
    {Pair(File("fem", records, "none"), OtherModel) : records \in FemFiles}
    \union {Pair(File("sif", records, "none"), OtherModel) : records \in SifFiles}
    \union {Pair(File("fem", FourNodes \o <<Triangle>>, "load"), OtherModel),
            Pair(File("sif", FourNodes \o <<Triangle>>, "result"), OtherModel),
            Pair(File("fem", FourNodes \o <<Triangle>>, "infinite"), OtherModel)}
    \union {Pair(File(kind, <<>>, "none"), File("other", <<>>, "none")) : kind \in {"frd", "inp"}}
    \union {Pair(File("fem", FourNodes \o <<Triangle>>, "none"), other) :
              other \in {File("dat", <<>>, "none"), File("dat", <<>>, "unreadable"), File("cad", <<>>, "none")}}
    \union {Pair(File("frd", <<>>, "unreadable"), File("cad", <<>>, "none")),
            Pair(File("frd", <<>>, "infinite"), File("dat", <<>>, "infinite")),
            Pair(File("sif", FourNodes, "unreadable"), File("dat", <<>>, "none")),
            Pair(File("sif", FourNodes \o <<Curved, Record("RVSTRESS", <<0, 1, 1, 0, 25, 1, 1, 1>>)>>, "none"),
                 OtherModel)}

MCWidth == "DISP" :> 3 @@ "STRESS" :> 6 @@ "ERROR" :> 1

----------------------------------------------------------------------------
(* Models for the deck: shells and beams of an isotropic and of an          *)
(* orthotropic material, with and without what their sections need.         *)
Shell(count, material, thickness, orientation) ==
    [family |-> "quad", count |-> count, material |-> material, thickness |-> thickness,
     section |-> DeckNone, orientation |-> orientation]
Beam(material, section) ==
    [family |-> "beam", count |-> 2, material |-> material, thickness |-> DeckNone,
     section |-> section, orientation |-> DeckNone]

Variants ==
    {Shell(4, "steel", 1, DeckNone), Shell(4, "steel", 2, DeckNone), Shell(4, "steel", DeckNone, DeckNone),
     Shell(8, "steel", 1, DeckNone), Shell(5, "steel", 1, DeckNone),
     Shell(4, "wood", 1, "x"), Shell(4, "wood", 1, "y"), Shell(4, "wood", 2, DeckNone),
     Beam("steel", "a"), Beam("steel", "b"), Beam("wood", "a"), Shell(4, "lost", 1, DeckNone)}

DeckModel(elements, symmetry, count) ==
    [elements |-> elements, symmetry |-> symmetry, nodes |-> count,
     supports |-> Len(elements) % 2, unknownDof |-> FALSE, loads |-> Len(elements) \div 2, pressures |-> 1]

Usual == "steel" :> "isotropic" @@ "wood" :> "orthotropic"

(* Materials that have one name in the deck, or one like another's element. *)
Token(stem, numbers) == [stem |-> stem, numbers |-> numbers]
MCIdentifier ==
    "steel" :> Token("steel", <<>>) @@ "wood" :> Token("wood", <<>>) @@ "wood 1" :> Token("wood", <<1>>)
    @@ "steel A" :> Token("steel_A", <<>>) @@ "steel-A" :> Token("steel_A", <<>>)

Alike(first, second) ==
    DeckModel(<<first, second>>,
              [m \in {first.material, second.material} |-> IF m = "wood" THEN "orthotropic" ELSE "isotropic"], 2)

Namesakes ==
    {Shell(4, "wood", 1, "x"), Shell(4, "wood 1", 2, DeckNone), Shell(4, "steel A", 1, DeckNone),
     Shell(4, "steel-A", 1, DeckNone), Beam("steel-A", "b")}

MCDeckModels ==
    {DeckModel(elements, Usual, 2) : elements \in Sequences(Variants, 0, 2)}
    \union {Alike(first, second) : first \in Namesakes, second \in Namesakes}
    \union {DeckModel(<<>>, Usual, 0), DeckModel(<<>>, "steel" :> "anisotropic", 1),
            [DeckModel(<<Beam("steel", "a")>>, Usual, 1) EXCEPT !.unknownDof = TRUE]}
=============================================================================
