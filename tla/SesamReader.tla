----------------------------- MODULE SesamReader -----------------------------
(***************************************************************************)
(* A SESAM file is read (read_sesam_fem_document), written in one of the   *)
(* two modes (write_sesam_fem_document), and read again, as roundtrip of   *)
(* the command line and the inspector's "canonical copy" are used.         *)
(***************************************************************************)
EXTENDS SesamDocument

CONSTANTS
    Templates,   \* the lines a file may have
    MaxLines     \* bound on the lines of the first file

(* What lines are made of. *)
Numbers == Nat \union {Fraction}
Words == UNION {{line.text[k].word : k \in DOMAIN line.text} : line \in Templates}
Pieces == [word : Words, capital : BOOLEAN, quoted : BOOLEAN, numbers : Seq(Numbers)]
Names == {line.name : line \in Templates} \union {"more", "IEND"}
Lines == [name : Names, numbers : Seq(Numbers), text : Seq(Pieces)]
Records ==
    [name : Names, numbers : Seq(Numbers), text : Seq(Pieces), start : Nat, end : Nat,
     lines : Seq(Lines)]

ASSUME ReaderAssumption == MaxLines \in Nat /\ Templates \subseteq Lines
ASSUME NoneAssumption == None \notin Records

VARIABLES
    pc,
    strict,
    file,         \* the lines of the file that is read, as far as they are read
    text,         \* what was written to the temporary
    current,      \* current_start and current_lines
    records,
    orphans,      \* lines that start no record and go on with none
    diagnostics,
    original,     \* history: what the first reading returned
    destination   \* "old", what was there if anything, or "new": text

vars == <<pc, strict, file, text, current, records, orphans, diagnostics, original, destination>>

NoRecord == [start |-> 0, lines |-> <<>>]
Nothing == [records |-> <<>>, mode |-> "none"]

Pcs == {"open", "lines", "parse", "validate", "returned", "write", "publish", "written", "ended"}
Codes == {"FEM002", "FEM003", "FEM101", "FEM102", "FEM103", "FEM104", "FEM105", "FEM106",
          "FEM107", "FEM110", "FEM120"}

(* Has the text been written, and is it being read again? *)
Again == original.mode # "none"

TypeOK ==
    /\ pc \in Pcs
    /\ strict \in BOOLEAN
    /\ Len(file) <= MaxLines \/ (Again /\ Len(file) <= Len(text))
    /\ current.start \in 0..Len(file) /\ Len(current.lines) <= Len(file)
    /\ \A i \in DOMAIN records : records[i].name \notin {"blank", "more"}
    /\ orphans \subseteq 1..Len(file)
    /\ \A d \in diagnostics : /\ d.code \in Codes
                              /\ d.severity \in {"error", "warning"}
                              /\ d.at \in 0..Len(records)
    /\ original.mode \in {"none", "canonical", "raw"}
    /\ destination \in {"old", "new"}

Init ==
    /\ pc = "open"
    /\ strict \in BOOLEAN
    /\ file = <<>> /\ text = <<>>
    /\ current = NoRecord /\ records = <<>> /\ orphans = {} /\ diagnostics = {}
    /\ original = Nothing
    /\ destination = "old"

----------------------------------------------------------------------------
(* read_raw_records(). *)

Flushed ==
    IF current.lines = <<>> THEN records
    ELSE Append(records, RecordFromLines(current.start, current.lines))

(* _guard_supported_file() refuses what is no text. *)
Open ==
    /\ pc = "open"
    /\ \/ pc' = "lines"
       \/ ~Again /\ pc' = "ended"
    /\ UNCHANGED <<strict, file, text, current, records, orphans, diagnostics, original, destination>>

Upcoming ==
    IF Again THEN IF Len(file) < Len(text) THEN {text[Len(file) + 1]} ELSE {}
    ELSE IF Len(file) < MaxLines THEN Templates ELSE {}

(* Mutant: a line before the first record starts one. *)
ReadLineStartsAny(line) ==
    /\ pc = "lines"
    /\ file' = Append(file, line)
    /\ IF line.name = "blank" THEN UNCHANGED <<current, records>>
       ELSE IF line.name = "more" /\ current.lines # <<>> THEN
              /\ current' = [current EXCEPT !.lines = Append(@, line)]
              /\ UNCHANGED records
       ELSE /\ records' = Flushed
            /\ current' = [start |-> Len(file) + 1, lines |-> <<line>>]
    /\ UNCHANGED <<pc, strict, text, orphans, diagnostics, original, destination>>

ReadLine(line) ==
    /\ pc = "lines"
    /\ file' = Append(file, line)
    /\ CASE line.name = "blank" -> UNCHANGED <<current, records, orphans>>
         [] line.name = "more" /\ current.lines # <<>> ->
              /\ current' = [current EXCEPT !.lines = Append(@, line)]
              /\ UNCHANGED <<records, orphans>>
         [] line.name = "more" /\ current.lines = <<>> ->
              /\ orphans' = orphans \union {Len(file) + 1}
              /\ UNCHANGED <<current, records>>
         [] OTHER ->
              /\ records' = Flushed
              /\ current' = [start |-> Len(file) + 1, lines |-> <<line>>]
              /\ UNCHANGED orphans
    /\ UNCHANGED <<pc, strict, text, diagnostics, original, destination>>

(* Strict reading raises what was noted; lenient reading forgets it.        *)
EndOfFile ==
    /\ pc = "lines"
    /\ Again => Len(file) = Len(text)
    /\ records' = Flushed
    /\ current' = NoRecord
    /\ pc' = IF strict /\ (orphans # {} \/ Flushed = <<>>) THEN "ended" ELSE "parse"
    /\ UNCHANGED <<strict, file, text, orphans, diagnostics, original, destination>>

----------------------------------------------------------------------------
(* The rest of read_sesam_fem_document(). *)

Parse ==
    /\ pc = "parse"
    /\ diagnostics' = ParseDiagnostics(records)
    /\ pc' = "validate"
    /\ UNCHANGED <<strict, file, text, current, records, orphans, original, destination>>

ValidateDocument ==
    /\ pc = "validate"
    /\ diagnostics' = diagnostics \union Validate(records)
    /\ pc' = IF strict /\ HasErrors(diagnostics') THEN "ended" ELSE "returned"
    /\ UNCHANGED <<strict, file, text, current, records, orphans, original, destination>>

----------------------------------------------------------------------------
(* write_sesam_fem_document(). *)

(* A file that is there is replaced only if that is asked for. *)
BeginWrite(mode, exists, overwrite) ==
    /\ pc = "returned" /\ ~Again
    /\ IF exists /\ ~overwrite THEN pc' = "ended" /\ UNCHANGED <<original, text>>
       ELSE /\ pc' = "write"
            /\ original' = [records |-> records, mode |-> mode]
            /\ text' = Rewritten(records, mode)
    /\ UNCHANGED <<strict, file, current, records, orphans, diagnostics, destination>>

(* The temporary cannot be written, as when a letter is not ASCII, or not   *)
(* renamed; it stays.                                                       *)
FailWrite ==
    /\ pc \in {"write", "publish"}
    /\ pc' = "ended"
    /\ UNCHANGED <<strict, file, text, current, records, orphans, diagnostics, original, destination>>

EndWrite ==
    /\ pc = "write"
    /\ pc' = "publish"
    /\ UNCHANGED <<strict, file, text, current, records, orphans, diagnostics, original, destination>>

Replace ==
    /\ pc = "publish"
    /\ destination' = "new"
    /\ pc' = "written"
    /\ UNCHANGED <<strict, file, text, current, records, orphans, diagnostics, original>>

ReadAgain ==
    /\ pc = "written"
    /\ pc' = "open"
    /\ file' = <<>> /\ records' = <<>> /\ orphans' = {} /\ diagnostics' = {}
    /\ UNCHANGED <<strict, text, current, original, destination>>

Next ==
    \/ Open \/ (\E line \in Upcoming : ReadLine(line)) \/ EndOfFile \/ Parse \/ ValidateDocument
    \/ \E mode \in {"canonical", "raw"}, exists, overwrite \in BOOLEAN : BeginWrite(mode, exists, overwrite)
    \/ FailWrite \/ EndWrite \/ Replace \/ ReadAgain

Spec == Init /\ [][Next]_vars

----------------------------------------------------------------------------
(* Properties. *)

(* What strict reading returns holds together: every line of the file is in *)
(* a record, the last of which ends the file; every element record made an  *)
(* element with nodes that exist, and no table has two records of one id.   *)
StrictHoldsTogether ==
    pc = "returned" /\ strict =>
        /\ orphans = {}
        /\ records # <<>> /\ Last(records).name = "IEND"
        /\ \A i \in Named(records, {"GELMNT1"}) :
              /\ WellFormed(records[i].numbers)
              /\ ToSet(NodeIds(records[i].numbers)) \subseteq Ids(records, Nodes(records))
        /\ \A name \in {"MISOSEL", "GCOORD", "GELMNT1"} :
              \A i, j \in Named(records, {name}) :
                  records[i].numbers[1] = records[j].numbers[1] => i = j

(* The records after two neighbours change places. *)
Swapped(R, i) == [R EXCEPT ![i] = R[i + 1], ![i + 1] = R[i]]

(* Two records of the same kind for one id, which lenient reading and the   *)
(* silent rules (the first node, the last reference) tell apart by order.   *)
Rivals(r, s) ==
    /\ r.name = s.name \/ {r.name, s.name} \subseteq {"GELTH", "GBEAMG"}
    /\ r.numbers # <<>> /\ s.numbers # <<>>
    /\ r.numbers[1] = s.numbers[1]

(* The model in a file does not depend on the order of its records, except  *)
(* that of records that define the same thing: names, references and        *)
(* materials may come before or after what refers to them.                  *)
OrderDoesNotMatter ==
    pc = "returned" =>
        \A i \in 1..(Len(records) - 1) :
            ~Rivals(records[i], records[i + 1]) =>
                Model(Swapped(records, i)) = Model(records)

(* The records whose numbers make the model and most of the diagnostics.    *)
Numeric == Known \ (TextRecords \union {"IEND"})

PlainText(r) == \A p \in DOMAIN r.text : r.text[p].numbers = <<>>

(* What was written of the records R has each number once: raw lines do, and *)
(* canonical ones unless the text kept of a record of numbers has some too.  *)
Plain(R, mode) == mode = "raw" \/ \A i \in DOMAIN R : R[i].name \in Numeric => PlainText(R[i])

(* A rewritten file holds the model that was read, and what strict reading  *)
(* accepted it accepts again: if it was rewritten raw, or canonically from  *)
(* records of numbers without numbers in quotes.                            *)
RewritingKeepsModel ==
    Again /\ Plain(original.records, original.mode) =>
        /\ pc = "returned" => Model(records) = Model(original.records)
        /\ strict /\ pc = "ended" => destination # "new"

(* README.md:107-108: "Round-tripping a parsed document is supported and    *)
(* guarded": the elements of a rewritten file have the nodes they had.      *)
RoundTripKeepsElements ==
    Again /\ pc = "returned" => Model(records).elements = Model(original.records).elements
=============================================================================
