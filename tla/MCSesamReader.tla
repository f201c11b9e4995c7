---------------------------- MODULE MCSesamReader ----------------------------
(* SesamReader with the lines of a small model: a node, a beam and a shell   *)
(* that is written in two lines, references to a material by id and by       *)
(* internal number, a beam with a number in quotes behind its nodes, and     *)
(* lines that are out of order or not understood.                            *)
EXTENDS SesamReader

Line(name, numbers) == [name |-> name, numbers |-> numbers, text |-> <<>>]
Piece(word, capital, quoted, numbers) ==
    [word |-> word, capital |-> capital, quoted |-> quoted, numbers |-> numbers]

MCTemplates ==
    {Line("blank", <<>>),
     Line("more", <<1, 1>>),
     Line("IEND", <<>>),
     Line("MISOSEL", <<1>>),
     Line("GCOORD", <<1, 0, 0, 0>>),
     Line("GNODE", <<1, 0, 0, 0, 0>>),
     Line("GELREF1", <<1, 1, 1>>),
     Line("GELREF1", <<2, 0, Fraction>>),
     Line("GELMNT1", <<1, 2, 25, 0, 1>>),
     [name |-> "GELMNT1", numbers |-> <<1, 0, 15, 0, 1, 1>>,
      text |-> <<Piece("Beam", FALSE, TRUE, <<2>>)>>],
     [name |-> "FOOBAR", numbers |-> <<1>>,
      text |-> <<Piece("SPARE", TRUE, FALSE, <<>>), Piece("Plate", FALSE, TRUE, <<12>>)>>]}
=============================================================================
