------------------------------ MODULE CalculixFrd ------------------------------
(***************************************************************************)
(* Reading a CalculiX result file in FRD format (calculix/frd.py), a line  *)
(* at a time, beside the program that wrote the file.                      *)
(*                                                                         *)
(* A file has blocks: "2C" the nodes, "3C" the elements, and datasets of   *)
(* results, each with a label.  A record of a block is a line "-1" with    *)
(* its node and values, and lines "-2" with more values.  A value is       *)
(* <<r, k>>, the k-th of the r-th record of the file.  A line may be cut   *)
(* short, and the lines that end a record or a block may be missing.       *)
(***************************************************************************)
EXTENDS Naturals, Sequences

CONSTANTS
    FrdNone,      \* Python's None
    FrdNodes,     \* the numbers of nodes and of elements
    FrdWidth,     \* the labels of the datasets, and how many components each has
    MaxBlocks,    \* bounds on the file
    MaxRecords

Tables == {"coordinates", "displacements", "stresses", "reaction_forces"}

ASSUME FrdAssumption ==
    /\ FrdNone \notin FrdNodes /\ FrdNone \notin DOMAIN FrdWidth /\ FrdNone \notin Tables
    /\ DOMAIN FrdWidth \intersect {"none", "2C", "3C", "end"} = {}
    /\ FrdWidth \in [DOMAIN FrdWidth -> Nat \ {0}]
    /\ MaxBlocks \in Nat /\ MaxRecords \in Nat

VARIABLES
    reading,      \* reading_coordinates
    dataset,      \* dataset_name, _components, _header_components and _values
    pending,      \* pending_node and pending_values
    parsed,       \* the tables of CalculixParsedResults
    writer        \* where the file is, and the tables its whole records make

frdVars == <<reading, dataset, pending, parsed, writer>>

(* How many components a table keeps. *)
Kept == [table \in Tables |-> IF table = "stresses" THEN 6 ELSE 3]

(* _finalize_frd_dataset() goes by the label, or its first letters.         *)
TableOf(label) ==
    CASE label \in {"DISP", "DISPI"} -> "displacements"
      [] label \in {"STRESS", "STRESSI"} -> "stresses"
      [] label \in {"RF", "FORC", "FORCI", "FORCE", "REACTION"} -> "reaction_forces"
      [] OTHER -> FrdNone

Labels == DOMAIN FrdWidth
Values == (0..MaxRecords) \X Nat
Rows == [FrdNodes -> Seq(Values)]
Empty == [n \in FrdNodes |-> <<>>]
NoDataset == [name |-> FrdNone, components |-> 0, header |-> 0, values |-> Empty]
NoRow == [node |-> FrdNone, values |-> <<>>]

DatasetType == [name : Labels \union {FrdNone}, components : Nat, header : Nat, values : Rows]
RowType == [node : FrdNodes \union {FrdNone}, values : Seq(Values)]
WriterType == [block : Labels \union {"none", "2C", "3C", "end"}, blocks : 0..MaxBlocks,
               width : Nat, declare : Nat, all : BOOLEAN, record : 0..MaxRecords,
               node : FrdNodes \union {FrdNone}, next : Nat, whole : BOOLEAN,
               tables : [Tables -> Rows]]

FrdTypeOK ==
    /\ reading \in BOOLEAN
    /\ dataset \in DatasetType
    /\ pending \in RowType
    /\ parsed \in [Tables -> Rows]
    /\ writer \in WriterType

NoTables == [table \in Tables |-> Empty]
NoFile == [block |-> "none", blocks |-> 0, width |-> 0, declare |-> 0, all |-> FALSE,
           record |-> 0, node |-> FrdNone, next |-> 1, whole |-> TRUE, tables |-> NoTables]

FrdInit ==
    reading = FALSE /\ dataset = NoDataset /\ pending = NoRow /\ parsed = NoTables /\ writer = NoFile

(* parse_frd() is called for another file. *)
FrdCall ==
    /\ reading' = FALSE /\ dataset' = NoDataset /\ pending' = NoRow /\ parsed' = NoTables
    /\ writer' = NoFile

----------------------------------------------------------------------------
(* The program that writes the file. *)

(* A block may begin where the last one was not ended. *)
Begins(block, width, declare, all) ==
    /\ writer.block # "end" /\ writer.declare = 0 /\ ~writer.all
    /\ writer.blocks < MaxBlocks
    /\ writer' = [writer EXCEPT !.block = block, !.blocks = @ + 1, !.width = width,
                                !.declare = declare, !.all = all, !.node = FrdNone]

Ends(block) ==
    /\ writer.declare = 0 /\ ~writer.all
    /\ writer' = [writer EXCEPT !.block = block, !.node = FrdNone]

InBlock == writer.block \notin {"none", "end"} /\ writer.declare = 0 /\ ~writer.all

(* Up to the value last of the record is on this line, if it is not cut.    *)
Writes(record, node, last, whole) ==
    LET table == IF writer.block = "2C" THEN "coordinates" ELSE TableOf(writer.block)
    IN  writer' = [writer EXCEPT
            !.record = record, !.node = node, !.next = last + 1, !.whole = whole,
            !.tables = IF whole /\ last = writer.width /\ table # FrdNone /\ last >= Kept[table]
                       THEN [@ EXCEPT ![table][node] = [k \in 1..Kept[table] |-> <<record, k>>]]
                       ELSE @]

Line(record, first, last) == [k \in 1..(last + 1 - first) |-> <<record, first + k - 1>>]

----------------------------------------------------------------------------
(* What the reader does. *)

LastOf(row, count) == SubSeq(row, Len(row) - count + 1, Len(row))

(* _finalize_frd_dataset(): a row that is too short for its table is left.  *)
Finalized ==
    LET table == TableOf(dataset.name)
    IN  IF dataset.name = FrdNone \/ table = FrdNone THEN parsed
        ELSE [parsed EXCEPT ![table] =
                [n \in FrdNodes |->
                   IF Len(dataset.values[n]) >= Kept[table]
                   THEN SubSeq(dataset.values[n], 1, Kept[table]) ELSE @[n]]]

FinishDataset(next) ==
    /\ parsed' = Finalized
    /\ dataset' = next
    /\ pending' = NoRow

(* Mutant: the header is trusted, which counts ALL. *)
ComponentsOfHeader == IF dataset.header # 0 THEN dataset.header ELSE dataset.components

(* Declared components count, those of the header only if there are none.   *)
Components == IF dataset.components = 0 THEN dataset.header ELSE dataset.components

(* A row with as many values as there are components is stored. *)
Store(node, values) ==
    LET complete == Components > 0 /\ Len(values) >= Components
    IN  /\ dataset' = [dataset EXCEPT !.components = Components,
                                      !.values[node] = IF complete THEN LastOf(values, Components) ELSE @]
        /\ pending' = IF complete THEN NoRow ELSE [node |-> node, values |-> values]
        /\ UNCHANGED parsed

ReadFirst(node, values) ==
    IF reading /\ Len(values) >= 3 THEN
        /\ parsed' = [parsed EXCEPT !["coordinates"][node] = SubSeq(values, 1, 3)]
        /\ UNCHANGED <<dataset, pending>>
    ELSE IF dataset.name = FrdNone THEN UNCHANGED <<dataset, pending, parsed>>
    ELSE Store(node, values)

(* A line with all components is a row of a material, whose number stands   *)
(* before them.                                                             *)
ReadNext(values) ==
    IF dataset.name = FrdNone \/ values = <<>> THEN UNCHANGED <<dataset, pending, parsed>>
    ELSE IF pending.node = FrdNone THEN
        /\ dataset' = [dataset EXCEPT !.components = Components]
        /\ UNCHANGED <<pending, parsed>>
    ELSE Store(pending.node,
               IF Components > 0 /\ Len(values) >= Components THEN LastOf(values, Components)
               ELSE pending.values \o values)

----------------------------------------------------------------------------
(* The lines. *)

NodesHeader ==
    /\ Begins("2C", 3, 0, FALSE)
    /\ FinishDataset(NoDataset)
    /\ reading' = TRUE

(* "3C", "100C", "9999" *)
BlockHeader ==
    /\ writer.block \in {"none", "2C"}
    /\ Begins("3C", 3, 0, FALSE)
    /\ reading' = FALSE
    /\ UNCHANGED <<dataset, pending, parsed>>

(* "-4": the header counts ALL, which is in no row. *)
DatasetHeader(label, declared, all) ==
    /\ Begins(label, FrdWidth[label], IF declared THEN FrdWidth[label] ELSE 0, declared /\ all)
    /\ FinishDataset([NoDataset EXCEPT !.name = label,
                                       !.header = FrdWidth[label] + (IF declared /\ all THEN 1 ELSE 0)])
    /\ reading' = FALSE

(* "-5" *)
Component ==
    /\ writer.declare > 0
    /\ writer' = [writer EXCEPT !.declare = @ - 1]
    /\ dataset' = [dataset EXCEPT !.components = @ + 1]
    /\ UNCHANGED <<reading, pending, parsed>>

ComponentAll ==
    /\ writer.declare = 0 /\ writer.all
    /\ writer' = [writer EXCEPT !.all = FALSE]
    /\ UNCHANGED <<reading, dataset, pending, parsed>>

(* "-1": the first values up to last, of which the line has the first kept. *)
FirstRow(node, last, kept) ==
    /\ InBlock /\ writer.record < MaxRecords
    /\ writer.block = "2C" => last = writer.width
    /\ kept <= last
    /\ Writes(writer.record + 1, node, last, kept = last)
    /\ ReadFirst(node, Line(writer.record + 1, 1, kept))
    /\ UNCHANGED reading

(* "-2" *)
NextRow(last, kept) ==
    /\ InBlock /\ writer.node # FrdNone /\ writer.next <= kept + 1 /\ kept <= last
    /\ writer.next <= last
    /\ Writes(writer.record, writer.node, last, writer.whole /\ kept = last)
    /\ ReadNext(Line(writer.record, writer.next, kept))
    /\ UNCHANGED reading

(* "-2" with the number of a material. *)
MaterialRow ==
    /\ InBlock /\ writer.node # FrdNone /\ writer.next = 1
    /\ Writes(writer.record, writer.node, writer.width, TRUE)
    /\ ReadNext(<< <<0, 0>> >> \o Line(writer.record, 1, writer.width))
    /\ UNCHANGED reading

(* "-3" *)
EndBlock ==
    /\ writer.block \notin {"none", "end"}
    /\ Ends("none")
    /\ IF dataset.name = FrdNone THEN UNCHANGED <<dataset, pending, parsed>> ELSE FinishDataset(NoDataset)
    /\ reading' = FALSE

EndOfResults ==
    /\ writer.block # "end"
    /\ Ends("end")
    /\ FinishDataset(NoDataset)
    /\ UNCHANGED reading

FrdNext ==
    \/ NodesHeader \/ BlockHeader \/ Component \/ ComponentAll \/ MaterialRow \/ EndBlock \/ EndOfResults
    \/ \E label \in Labels, declared, all \in BOOLEAN : DatasetHeader(label, declared, all)
    \/ \E last, kept \in 0..writer.width :
          NextRow(last, kept) \/ \E node \in FrdNodes : FirstRow(node, last, kept)

FrdSpec == FrdInit /\ [][FrdNext \/ FrdCall]_frdVars

(* CalculixParsedResults.has_results *)
HasResults == \E table \in Tables \ {"coordinates"}, n \in FrdNodes : parsed[table][n] # <<>>

----------------------------------------------------------------------------
(* Properties. *)

(* Between blocks and at the end, the tables are those of the whole records *)
(* of the file: every value of a node comes from one record of that node in *)
(* a dataset for the table, and the last whole record is the one that       *)
(* counts.  A record that is cut or not finished leaves nothing, in its     *)
(* table or in another.                                                     *)
FrdTablesAreRecords ==
    writer.block \in {"none", "end"} => parsed = writer.tables
=============================================================================
