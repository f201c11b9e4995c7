---------------------------- MODULE SesamRecords ----------------------------
(***************************************************************************)
(* The record layer of SESAM files (src/src/anyfileio/sesam/records.py):   *)
(* how a record is made of its lines, and how records become lines again.  *)
(*                                                                         *)
(* A line has a name, "blank" or "more" if it starts no record, its        *)
(* numbers, and then pieces of text.  A piece is a word of letters, all    *)
(* capital or not, in quotes or not, that numbers may follow inside of it. *)
(* How numbers are cut out of the columns of a line is left out.           *)
(***************************************************************************)
EXTENDS Naturals, SequencesExt

(* The records that keep all of their text. *)
TextRecords == {"DATE", "TDMATER", "TDSECT", "TDSCONC", "TDLOAD"}

(* _parse_numeric_fields(): numbers are found wherever they stand, in text  *)
(* and in quotes too.                                                       *)
NumbersOf(line) ==
    line.numbers \o FlattenSeq([k \in DOMAIN line.text |-> line.text[k].numbers])

(* _parse_text_fields(): quoted pieces first and as they are, then the      *)
(* others without their numbers; capitals are taken for text in some        *)
(* records only.                                                            *)
TextOf(name, text) ==
    LET quoted(p) == IF p.quoted THEN <<[p EXCEPT !.quoted = FALSE]>> ELSE <<>>
        other(p) == IF ~p.quoted /\ (name \in TextRecords \/ ~p.capital)
                    THEN <<[p EXCEPT !.numbers = <<>>]>> ELSE <<>>
    IN  FlattenSeq([k \in DOMAIN text |-> quoted(text[k])])
        \o FlattenSeq([k \in DOMAIN text |-> other(text[k])])

(* _record_from_lines(). *)
RecordFromLines(start, lines) ==
    LET name == lines[1].name
    IN  [name    |-> name,
         numbers |-> FlattenSeq([k \in DOMAIN lines |-> NumbersOf(lines[k])]),
         text    |-> TextOf(name, FlattenSeq([k \in DOMAIN lines |-> lines[k].text])),
         start   |-> start,
         end     |-> start + Len(lines) - 1,
         lines   |-> lines]

EndRecord == [name |-> "IEND", numbers |-> <<>>, text |-> <<>>]

(* Mutant: a record has one line. *)
FirstLineOnly(record) ==
    LET size == Len(record.numbers)
    IN  << [name |-> record.name, numbers |-> SubSeq(record.numbers, 1, IF size < 4 THEN size ELSE 4),
            text |-> record.text] >>

(* canonical_record_lines(): four numbers to a line, the text on the first. *)
CanonicalLines(record) ==
    LET size == Len(record.numbers)
        count == IF size = 0 THEN 1 ELSE (size + 3) \div 4
    IN  [k \in 1..count |->
           [name    |-> IF k = 1 THEN record.name ELSE "more",
            numbers |-> SubSeq(record.numbers, 4 * k - 3, IF 4 * k < size THEN 4 * k ELSE size),
            text    |-> IF k = 1 THEN record.text ELSE <<>>]]

(* records_to_text() and the raw mode of write_sesam_fem_document(). *)
Rewritten(records, mode) ==
    FlattenSeq([i \in DOMAIN records |->
                  IF mode = "raw" THEN records[i].lines ELSE CanonicalLines(records[i])])
    \o (IF \E i \in DOMAIN records : records[i].name = "IEND" THEN <<>> ELSE <<EndRecord>>)
=============================================================================
