-------------------------- MODULE CalculixProofs --------------------------
(***************************************************************************)
(* Proofs about the two CalculiX modules, for all values of the constants. *)
(* CalculixFrd: the tables of a result file are those of its whole         *)
(* records.  CalculixDeck: a deck that was written says what its model     *)
(* says, however many nodes, elements, materials and sections there are.   *)
(* A deck is a sequence of blocks; each begins with a keyword, so a row is *)
(* under a keyword of its own block, and what a reader of the whole deck   *)
(* finds is what it finds block by block.                                  *)
(***************************************************************************)
EXTENDS CalculixFrd, CalculixDeck, SequenceTheorems, FiniteSetTheorems, WellFoundedInduction, TLAPS

----------------------------------------------------------------------------
(* The result file. *)

(* The reader is in the block that the writer writes. *)
BlockInv ==
    /\ writer.block # "end" => (reading <=> writer.block = "2C")
    /\ writer.block \in Labels =>
          /\ dataset.name = writer.block
          /\ writer.width = FrdWidth[writer.block]
    /\ writer.block \notin Labels =>
          dataset = NoDataset /\ pending = NoRow /\ writer.declare = 0 /\ ~writer.all
    /\ writer.block \in {"2C", "3C"} => writer.width = 3
    /\ writer.block \in {"none", "end"} => writer.node = FrdNone

(* Once the header is read, the reader knows how many components there are. *)
HeaderInv ==
    writer.block \in Labels =>
        \/ dataset.components = 0 /\ dataset.header = writer.width /\ writer.declare = 0 /\ ~writer.all
        \/ dataset.components + writer.declare = writer.width

(* A row of the dataset is a whole record. *)
ValuesInv ==
    writer.block \in Labels =>
        \A n \in FrdNodes :
            \/ dataset.values[n] = <<>>
            \/ \E r \in 0..MaxRecords : dataset.values[n] = Line(r, 1, writer.width)

(* A pending row is a record that is not finished or has lost values, and   *)
(* has fewer values than the record has places so far if it has lost any.   *)
PendingInv ==
    /\ writer.node # FrdNone => writer.next \in 1..(writer.width + 1)
    /\ writer.node = FrdNone => pending = NoRow
    /\ writer.block = "2C" /\ writer.node # FrdNone => writer.next = writer.width + 1
    /\ writer.block \in Labels /\ writer.node # FrdNone /\ writer.next <= writer.width =>
          pending.node = writer.node
    /\ pending.node # FrdNone =>
          /\ pending.node = writer.node
          /\ writer.whole => writer.next <= writer.width /\ pending.values = Line(writer.record, 1, writer.next - 1)
          /\ ~writer.whole => Len(pending.values) < writer.next - 1

(* What the reader has made and will make of the rows it has is the tables  *)
(* of the whole records.                                                    *)
TablesInv == writer.tables = Finalized

IndInv == FrdTypeOK /\ BlockInv /\ HeaderInv /\ ValuesInv /\ PendingInv /\ TablesInv

----------------------------------------------------------------------------
(* Lines. *)

LEMMA LineIs ==
    ASSUME NEW r \in 0..MaxRecords, NEW a \in Nat \ {0}, NEW b \in Nat, a <= b + 1
    PROVE  /\ Line(r, a, b) \in Seq(Values)
           /\ Len(Line(r, a, b)) = b + 1 - a
           /\ \A k \in 1..(b + 1 - a) : Line(r, a, b)[k] = <<r, a + k - 1>>
<1>1. DEFINE n == b + 1 - a
<1>2. n \in Nat
  BY SMT
<1>3. \A k \in 1..n : <<r, a + k - 1>> \in Values
  BY SMT DEF Values
<1>4. Line(r, a, b) = [k \in 1..n |-> <<r, a + k - 1>>]
  BY DEF Line
<1> HIDE DEF n
<1>5. [k \in 1..n |-> <<r, a + k - 1>>] \in Seq(Values)
  BY <1>2, <1>3, SMT
<1>6. Len([k \in 1..n |-> <<r, a + k - 1>>]) = n
  BY <1>2, SMT
<1>7. QED
  BY <1>4, <1>5, <1>6 DEF n

(* A line with the first values of a record. *)
LEMMA WholeLine ==
    ASSUME NEW r \in 0..MaxRecords, NEW w \in Nat
    PROVE  /\ Line(r, 1, w) \in Seq(Values)
           /\ Len(Line(r, 1, w)) = w
           /\ \A k \in 1..w : Line(r, 1, w)[k] = <<r, k>>
<1>1. 1 \in Nat \ {0} /\ 1 <= w + 1 /\ w + 1 - 1 = w /\ \A k \in 1..w : 1 + k - 1 = k
  BY SMT
<1>2. /\ Line(r, 1, w) \in Seq(Values)
      /\ Len(Line(r, 1, w)) = w + 1 - 1
      /\ \A k \in 1..(w + 1 - 1) : Line(r, 1, w)[k] = <<r, 1 + k - 1>>
  BY <1>1, LineIs, Zenon
<1>3. QED
  BY <1>1, <1>2

(* Two lines of a record that follow one another. *)
LEMMA LineAppend ==
    ASSUME NEW r \in 0..MaxRecords, NEW a \in Nat \ {0}, NEW b \in Nat, a <= b + 1
    PROVE  Line(r, 1, a - 1) \o Line(r, a, b) = Line(r, 1, b)
<1> DEFINE s == Line(r, 1, a - 1)
           t == Line(r, a, b)
           u == Line(r, 1, b)
<1>1. a - 1 \in Nat
  BY SMT
<1>2. s \in Seq(Values) /\ Len(s) = a - 1 /\ \A k \in 1..(a - 1) : s[k] = <<r, k>>
  BY <1>1, WholeLine
<1>3. t \in Seq(Values) /\ Len(t) = b + 1 - a /\ \A k \in 1..(b + 1 - a) : t[k] = <<r, a + k - 1>>
  BY LineIs
<1>4. u \in Seq(Values) /\ Len(u) = b /\ \A k \in 1..b : u[k] = <<r, k>>
  BY WholeLine
<1> HIDE DEF s, t, u
<1>5. /\ s \o t \in Seq(Values)
      /\ Len(s \o t) = Len(s) + Len(t)
      /\ \A k \in 1..Len(s) + Len(t) : (s \o t)[k] = IF k <= Len(s) THEN s[k] ELSE t[k - Len(s)]
  BY <1>2, <1>3, ConcatProperties, Zenon
<1>6. Len(s \o t) = b /\ \A k \in 1..b : (s \o t)[k] = u[k]
  <2>1. Len(s) + Len(t) = b
    BY <1>2, <1>3, SMT
  <2>2. ASSUME NEW k \in 1..b PROVE (s \o t)[k] = u[k]
    <3>1. CASE k <= a - 1
      <4>1. k \in 1..(a - 1)
        BY <3>1, SMT
      <4>2. QED
        BY <4>1, <3>1, <2>1, <1>2, <1>4, <1>5
    <3>2. CASE ~(k <= a - 1)
      <4>1. k - (a - 1) \in 1..(b + 1 - a) /\ a + (k - (a - 1)) - 1 = k
        BY <3>2, SMT
      <4>2. (s \o t)[k] = t[k - (a - 1)]
        BY <3>2, <2>1, <1>2, <1>5
      <4>3. QED
        BY <4>1, <4>2, <1>3, <1>4
    <3>3. QED
      BY <3>1, <3>2
  <2>3. QED
    BY <2>1, <2>2, <1>5
<1>7. s \o t = u
  BY <1>4, <1>5, <1>6, SeqEqual, Zenon
<1>8. QED
  BY <1>7 DEF s, t, u

(* A table keeps the first values of a row. *)
LEMMA LinePrefix ==
    ASSUME NEW r \in 0..MaxRecords, NEW w \in Nat, NEW count \in 1..w
    PROVE  SubSeq(Line(r, 1, w), 1, count) = [k \in 1..count |-> <<r, k>>]
<1>1. /\ Line(r, 1, w) \in Seq(Values) /\ Len(Line(r, 1, w)) = w
      /\ \A k \in 1..w : Line(r, 1, w)[k] = <<r, k>>
  BY WholeLine
<1> DEFINE s == Line(r, 1, w)
<1> HIDE DEF s
<1>2. SubSeq(s, 1, count) = [k \in 1..count |-> s[k]]
  BY <1>1, SMT DEF s
<1>3. QED
  BY <1>1, <1>2, SMT DEF s

(* The last values of a row that is as long as asked for, and of a row of a *)
(* material.                                                                *)
LEMMA LastOfLine ==
    ASSUME NEW r \in 0..MaxRecords, NEW w \in Nat \ {0}
    PROVE  /\ LastOf(Line(r, 1, w), w) = Line(r, 1, w)
           /\ LastOf(<< <<0, 0>> >> \o Line(r, 1, w), w) = Line(r, 1, w)
<1>1. /\ Line(r, 1, w) \in Seq(Values) /\ Len(Line(r, 1, w)) = w
  BY WholeLine
<1> DEFINE s == Line(r, 1, w)
<1> HIDE DEF s
<1>2. SubSeq(s, w - w + 1, w) = s
  BY <1>1, SMT DEF s
<1>3. <<0, 0>> \in Values
  BY FrdAssumption, SMT DEF Values
<1> DEFINE t == << <<0, 0>> >> \o s
<1>4. t \in Seq(Values) /\ Len(t) = w + 1 /\ \A k \in 1..w : t[k + 1] = s[k]
  BY <1>1, <1>3, SMT DEF s
<1> HIDE DEF t
<1>5. SubSeq(t, 2, w + 1) = s
  <2>1. SubSeq(t, 2, w + 1) \in Seq(Values) /\ Len(SubSeq(t, 2, w + 1)) = w
    BY <1>4, SMT
  <2>2. \A k \in 1..w : SubSeq(t, 2, w + 1)[k] = s[k]
    BY <1>4, SMT
  <2>3. QED
    BY <2>1, <2>2, <1>1, SeqEqual DEF s
<1>6. QED
  BY <1>1, <1>2, <1>4, <1>5, SMT DEF LastOf, s, t

----------------------------------------------------------------------------
(* Tables. *)

LEMMA TableIs ==
    /\ \A label : TableOf(label) \in Tables \union {FrdNone}
    /\ TableOf("3C") = FrdNone
    /\ \A table \in Tables : Kept[table] \in {3, 6}
    /\ Kept["coordinates"] = 3
    /\ "coordinates" \in Tables
BY DEF TableOf, Tables, Kept

LEMMA LabelsApart ==
    /\ FrdNone \notin Labels /\ "none" \notin Labels /\ "2C" \notin Labels
    /\ "3C" \notin Labels /\ "end" \notin Labels
    /\ \A label \in Labels : FrdWidth[label] \in Nat \ {0}
BY FrdAssumption DEF Labels

LEMMA EmptyRows == Empty \in Rows /\ NoTables \in [Tables -> Rows]
<1>1. <<>> \in Seq(Values)
  BY EmptySeq
<1>2. QED
  BY <1>1 DEF Empty, Rows, NoTables

(* Finishing a dataset gives well-typed tables. *)
LEMMA FinalizedType ==
    ASSUME FrdTypeOK
    PROVE  Finalized \in [Tables -> Rows]
<1>1. parsed \in [Tables -> Rows] /\ dataset.values \in Rows
  BY DEF FrdTypeOK, DatasetType
<1>2. CASE dataset.name = FrdNone \/ TableOf(dataset.name) = FrdNone
  BY <1>1, <1>2 DEF Finalized
<1>3. CASE ~(dataset.name = FrdNone \/ TableOf(dataset.name) = FrdNone)
  <2> DEFINE T == TableOf(dataset.name)
             row(n) == IF Len(dataset.values[n]) >= Kept[T]
                       THEN SubSeq(dataset.values[n], 1, Kept[T]) ELSE parsed[T][n]
  <2>1. T \in Tables /\ Kept[T] \in {3, 6}
    BY <1>3, TableIs
  <2>2. Finalized = [parsed EXCEPT ![T] = [n \in FrdNodes |-> row(n)]]
    BY <1>3 DEF Finalized
  <2>3. ASSUME NEW n \in FrdNodes PROVE row(n) \in Seq(Values)
    <3>1. dataset.values[n] \in Seq(Values) /\ parsed[T][n] \in Seq(Values)
      BY <1>1, <2>1 DEF Rows
    <3>2. Len(dataset.values[n]) >= Kept[T] => SubSeq(dataset.values[n], 1, Kept[T]) \in Seq(Values)
      BY <3>1, <2>1, SMT
    <3>3. QED
      BY <3>1, <3>2
  <2> HIDE DEF T, row
  <2>4. [n \in FrdNodes |-> row(n)] \in Rows
    BY <2>3 DEF Rows
  <2>5. QED
    BY <1>1, <2>1, <2>2, <2>4
<1>4. QED
  BY <1>2, <1>3

(* A dataset without rows adds nothing. *)
LEMMA NothingToFinalize ==
    parsed \in [Tables -> Rows] /\ (dataset.name = FrdNone \/ dataset.values = Empty)
        => Finalized = parsed
<1> SUFFICES ASSUME parsed \in [Tables -> Rows], dataset.name = FrdNone \/ dataset.values = Empty
             PROVE  Finalized = parsed
  OBVIOUS
<1>1. CASE dataset.name = FrdNone \/ TableOf(dataset.name) = FrdNone
  BY <1>1 DEF Finalized
<1>2. CASE ~(dataset.name = FrdNone \/ TableOf(dataset.name) = FrdNone)
  <2> DEFINE T == TableOf(dataset.name)
             rows == [n \in FrdNodes |-> IF Len(dataset.values[n]) >= Kept[T]
                                         THEN SubSeq(dataset.values[n], 1, Kept[T]) ELSE parsed[T][n]]
  <2>1. T \in Tables /\ Kept[T] \in {3, 6}
    BY <1>2, TableIs
  <2>2. \A n \in FrdNodes : Len(dataset.values[n]) = 0
    BY <1>2 DEF Empty
  <2>3. rows = [n \in FrdNodes |-> parsed[T][n]]
    BY <2>1, <2>2, SMT
  <2>4. [n \in FrdNodes |-> parsed[T][n]] = parsed[T]
    BY <2>1 DEF Rows
  <2>5. Finalized = [parsed EXCEPT ![T] = rows]
    BY <1>2 DEF Finalized
  <2> HIDE DEF T, rows
  <2>6. QED
    BY <2>1, <2>3, <2>4, <2>5
<1>3. QED
  BY <1>1, <1>2

(* A whole record of a dataset changes the tables at its node alone, and    *)
(* only if it is long enough for its table.                                 *)
LEMMA OneRowMore ==
    ASSUME FrdTypeOK, BlockInv, ValuesInv, writer.block \in Labels,
           NEW node \in FrdNodes, NEW r \in 0..MaxRecords, parsed' = parsed,
           dataset'.name = dataset.name,
           dataset'.values = [dataset.values EXCEPT ![node] = Line(r, 1, writer.width)]
    PROVE  LET table == TableOf(writer.block)
           IN  Finalized' = IF table # FrdNone /\ writer.width >= Kept[table]
                            THEN [Finalized EXCEPT ![table][node] = [k \in 1..Kept[table] |-> <<r, k>>]]
                            ELSE Finalized
<1> DEFINE T == TableOf(writer.block)
           w == writer.width
           row(values, n) == IF Len(values[n]) >= Kept[T] THEN SubSeq(values[n], 1, Kept[T]) ELSE parsed[T][n]
<1>1. dataset.name = writer.block /\ dataset.name # FrdNone /\ w \in Nat \ {0}
  BY LabelsApart DEF BlockInv
<1>2. CASE T = FrdNone
  BY <1>1, <1>2 DEF Finalized
<1>3. CASE T # FrdNone
  <2>1. T \in Tables /\ Kept[T] \in {3, 6}
    BY <1>3, TableIs
  <2>2. /\ Finalized = [parsed EXCEPT ![T] = [n \in FrdNodes |-> row(dataset.values, n)]]
        /\ Finalized' = [parsed EXCEPT ![T] = [n \in FrdNodes |-> row(dataset'.values, n)]]
    BY <1>1, <1>3 DEF Finalized
  <2>3. dataset.values \in Rows /\ parsed \in [Tables -> Rows]
    BY DEF FrdTypeOK, DatasetType
  <2>4. /\ \A n \in FrdNodes \ {node} : dataset'.values[n] = dataset.values[n]
        /\ dataset'.values[node] = Line(r, 1, w)
    BY <2>3 DEF Rows
  <2>5. Len(Line(r, 1, w)) = w
    BY <1>1, WholeLine
  <2>6. Len(dataset.values[node]) \in {0, w}
    BY <1>1, WholeLine DEF ValuesInv
  <2>7. CASE w >= Kept[T]
    <3>1. SubSeq(Line(r, 1, w), 1, Kept[T]) = [k \in 1..Kept[T] |-> <<r, k>>]
      <4>1. Kept[T] \in 1..w
        BY <1>1, <2>1, <2>7, SMT
      <4>2. QED
        BY <4>1, <1>1, LinePrefix, Zenon
    <3>2. row(dataset'.values, node) = [k \in 1..Kept[T] |-> <<r, k>>]
      BY <2>4, <2>5, <2>7, <3>1
    <3>3. \A n \in FrdNodes \ {node} : row(dataset'.values, n) = row(dataset.values, n)
      BY <2>4
    <3> HIDE DEF row, T, w
    <3>4. [n \in FrdNodes |-> row(dataset'.values, n)] =
              [[n \in FrdNodes |-> row(dataset.values, n)] EXCEPT ![node] = [k \in 1..Kept[T] |-> <<r, k>>]]
      BY <3>2, <3>3
    <3>5. Finalized' = [Finalized EXCEPT ![T][node] = [k \in 1..Kept[T] |-> <<r, k>>]]
      BY <3>4, <2>1, <2>2, <2>3
    <3>6. QED
      BY <3>5, <2>7, <1>3 DEF T, w
  <2>8. CASE ~(w >= Kept[T])
    <3>1. row(dataset'.values, node) = row(dataset.values, node)
      BY <2>1, <2>4, <2>5, <2>6, <2>8, <1>1, SMT
    <3>2. \A n \in FrdNodes : row(dataset'.values, n) = row(dataset.values, n)
      BY <2>4, <3>1
    <3> HIDE DEF row, T, w
    <3>3. Finalized' = Finalized
      BY <3>2, <2>2
    <3>4. QED
      BY <3>3, <2>8, <1>3 DEF T, w
  <2>9. QED
    BY <2>7, <2>8
<1>4. QED
  BY <1>2, <1>3

----------------------------------------------------------------------------
(* The initial state, and another file. *)

LEMMA StartTyped ==
    /\ NoDataset \in [name : {FrdNone}, components : {0}, header : {0}, values : {Empty}]
    /\ NoDataset \in DatasetType /\ NoRow \in RowType /\ NoFile \in WriterType
    /\ NoTables \in [Tables -> Rows] /\ FALSE \in BOOLEAN
<1>1. 0 \in 0..MaxBlocks /\ 0 \in 0..MaxRecords /\ 0 \in Nat /\ 1 \in Nat
  BY FrdAssumption, SMT
<1>2. <<>> \in Seq(Values)
  BY EmptySeq
<1>3. NoTables \in [Tables -> Rows] /\ Empty \in Rows
  BY EmptyRows
<1>4. NoFile \in WriterType
  <2> HIDE DEF NoTables
  <2>1. QED
    BY <1>1, <1>3 DEF NoFile, WriterType
<1>5. NoDataset \in DatasetType
  BY <1>1, <1>3 DEF NoDataset, DatasetType
<1>6. QED
  BY <1>2, <1>3, <1>4, <1>5 DEF NoDataset, NoRow, RowType

LEMMA Initially == FrdInit => IndInv
<1> SUFFICES ASSUME FrdInit PROVE IndInv
  OBVIOUS
<1>1. FrdTypeOK
  BY StartTyped DEF FrdInit, FrdTypeOK, DatasetType, RowType, WriterType
<1>2. BlockInv /\ HeaderInv /\ ValuesInv /\ PendingInv
  BY LabelsApart DEF FrdInit, BlockInv, HeaderInv, ValuesInv, PendingInv, NoDataset, NoRow, NoFile
<1>3. TablesInv
  BY EmptyRows, NothingToFinalize DEF FrdInit, TablesInv, NoDataset, NoFile
<1>4. QED
  BY <1>1, <1>2, <1>3 DEF IndInv

LEMMA AnotherFile == FrdCall => IndInv'
<1> SUFFICES ASSUME FrdCall PROVE IndInv'
  OBVIOUS
<1>1. FrdTypeOK'
  BY StartTyped DEF FrdCall, FrdTypeOK, DatasetType, RowType, WriterType
<1>2. BlockInv' /\ HeaderInv' /\ ValuesInv' /\ PendingInv'
  BY LabelsApart DEF FrdCall, BlockInv, HeaderInv, ValuesInv, PendingInv, NoDataset, NoRow, NoFile
<1>3. TablesInv'
  BY EmptyRows DEF FrdCall, TablesInv, NoDataset, NoFile, Finalized
<1>4. QED
  BY <1>1, <1>2, <1>3 DEF IndInv

----------------------------------------------------------------------------
(* Lines that begin or end a block. *)

(* What an ended dataset leaves. *)
LEMMA DatasetFinished ==
    ASSUME IndInv, writer'.tables = writer.tables,
           NEW next \in [name : Labels \union {FrdNone}, components : Nat, header : Nat, values : {Empty}],
           FinishDataset(next)
    PROVE  /\ TablesInv'
           /\ parsed' \in [Tables -> Rows] /\ dataset' \in DatasetType /\ pending' \in RowType
           /\ dataset' = next /\ pending' = NoRow
<1>1. parsed' \in [Tables -> Rows] /\ parsed' = writer.tables /\ dataset' = next /\ pending' = NoRow
  BY FinalizedType DEF FinishDataset, IndInv, TablesInv
<1>2. next.values = Empty
  OBVIOUS
<1>3. (parsed \in [Tables -> Rows] /\ (dataset.name = FrdNone \/ dataset.values = Empty))'
  BY <1>1, <1>2
<1>4. (Finalized = parsed)'
  BY <1>3, NothingToFinalize, PTL
<1>5. next \in DatasetType
  BY EmptyRows DEF DatasetType
<1>6. QED
  BY <1>1, <1>4, <1>5, StartTyped DEF TablesInv

(* A line that begins a block. *)
LEMMA BlockBegun ==
    ASSUME writer \in WriterType, NEW block \in Labels \union {"2C", "3C"}, NEW width \in Nat,
           NEW declare \in Nat, NEW all \in BOOLEAN, Begins(block, width, declare, all)
    PROVE  /\ writer' \in WriterType /\ writer'.tables = writer.tables
           /\ writer'.block = block /\ writer'.width = width
           /\ writer'.declare = declare /\ writer'.all = all /\ writer'.node = FrdNone
<1>1. writer.blocks + 1 \in 0..MaxBlocks
  BY FrdAssumption, SMT DEF Begins, WriterType
<1>2. writer' = [writer EXCEPT !.block = block, !.blocks = writer.blocks + 1, !.width = width,
                               !.declare = declare, !.all = all, !.node = FrdNone]
  BY DEF Begins
<1>3. QED
  BY <1>1, <1>2 DEF WriterType

(* A line that ends a block. *)
LEMMA BlockEnded ==
    ASSUME writer \in WriterType, NEW block \in {"none", "end"}, Ends(block)
    PROVE  /\ writer' \in WriterType /\ writer'.tables = writer.tables
           /\ writer'.block = block /\ writer'.declare = 0 /\ ~writer'.all
           /\ writer'.node = FrdNone
BY DEF Ends, WriterType

LEMMA Typed ==
    IndInv => /\ reading \in BOOLEAN /\ dataset \in DatasetType /\ pending \in RowType
              /\ parsed \in [Tables -> Rows] /\ writer \in WriterType
BY DEF IndInv, FrdTypeOK, DatasetType, RowType, WriterType

LEMMA TypedThen ==
    (/\ reading \in BOOLEAN /\ dataset \in DatasetType /\ pending \in RowType
     /\ parsed \in [Tables -> Rows] /\ writer \in WriterType)' => FrdTypeOK'
BY DEF FrdTypeOK

LEMMA NodesHeaderStep == IndInv /\ NodesHeader => IndInv'
<1> SUFFICES ASSUME IndInv, NodesHeader PROVE IndInv'
  OBVIOUS
<1>1. NoDataset \in [name : Labels \union {FrdNone}, components : Nat, header : Nat, values : {Empty}]
  BY DEF NoDataset
<1>2. /\ writer' \in WriterType /\ writer'.tables = writer.tables
      /\ writer'.block = "2C" /\ writer'.width = 3
      /\ writer'.declare = 0 /\ ~writer'.all /\ writer'.node = FrdNone
  BY Typed, BlockBegun DEF NodesHeader
<1>3. /\ TablesInv' /\ dataset' = NoDataset /\ pending' = NoRow
      /\ parsed' \in [Tables -> Rows] /\ dataset' \in DatasetType /\ pending' \in RowType
  BY <1>1, <1>2, DatasetFinished DEF NodesHeader
<1>4. reading' = TRUE
  BY DEF NodesHeader
<1>5. FrdTypeOK'
  BY <1>2, <1>3, <1>4, TypedThen
<1>6. BlockInv' /\ HeaderInv' /\ ValuesInv' /\ PendingInv'
  BY <1>2, <1>3, <1>4, LabelsApart DEF BlockInv, HeaderInv, ValuesInv, PendingInv, NoRow
<1>7. QED
  BY <1>3, <1>5, <1>6 DEF IndInv

LEMMA BlockHeaderStep == IndInv /\ BlockHeader => IndInv'
<1> SUFFICES ASSUME IndInv, BlockHeader PROVE IndInv'
  OBVIOUS
<1>1. /\ writer' \in WriterType /\ writer'.tables = writer.tables
      /\ writer'.block = "3C" /\ writer'.width = 3
      /\ writer'.declare = 0 /\ ~writer'.all /\ writer'.node = FrdNone
  BY Typed, BlockBegun DEF BlockHeader
<1>2. dataset' = dataset /\ pending' = pending /\ parsed' = parsed /\ reading' = FALSE
  BY DEF BlockHeader
<1>3. writer.block \notin Labels /\ dataset = NoDataset /\ pending = NoRow
  BY LabelsApart DEF BlockHeader, IndInv, BlockInv
<1>4. FrdTypeOK'
  BY <1>1, <1>2, Typed, TypedThen
<1>5. BlockInv' /\ HeaderInv' /\ ValuesInv' /\ PendingInv'
  BY <1>1, <1>2, <1>3, LabelsApart DEF BlockInv, HeaderInv, ValuesInv, PendingInv, NoRow
<1>6. TablesInv'
  BY <1>1, <1>2 DEF IndInv, TablesInv, Finalized
<1>7. QED
  BY <1>4, <1>5, <1>6 DEF IndInv

LEMMA EndStep ==
    ASSUME IndInv, NEW block \in {"none", "end"}, Ends(block),
           \/ dataset.name = FrdNone /\ UNCHANGED <<dataset, pending, parsed>>
           \/ FinishDataset(NoDataset),
           reading' \in BOOLEAN, block = "none" => ~reading'
    PROVE  IndInv'
<1>1. NoDataset \in [name : Labels \union {FrdNone}, components : Nat, header : Nat, values : {Empty}]
  BY DEF NoDataset
<1>2. /\ writer' \in WriterType /\ writer'.tables = writer.tables
      /\ writer'.block = block /\ writer'.declare = 0 /\ ~writer'.all /\ writer'.node = FrdNone
  BY Typed, BlockEnded
<1>3. /\ TablesInv' /\ dataset' = NoDataset /\ pending' = NoRow
      /\ parsed' \in [Tables -> Rows] /\ dataset' \in DatasetType /\ pending' \in RowType
  <2>1. CASE FinishDataset(NoDataset)
    BY <2>1, <1>1, <1>2, DatasetFinished
  <2>2. CASE dataset.name = FrdNone /\ UNCHANGED <<dataset, pending, parsed>>
    <3>1. writer.block \notin Labels
      BY <2>2, LabelsApart DEF IndInv, BlockInv
    <3>2. dataset' = NoDataset /\ pending' = NoRow /\ parsed' = parsed
      BY <2>2, <3>1 DEF IndInv, BlockInv
    <3>3. TablesInv'
      BY <1>2, <2>2 DEF IndInv, TablesInv, Finalized
    <3>4. QED
      BY <3>2, <3>3, Typed, StartTyped
  <2>3. QED
    BY <2>1, <2>2
<1>4. FrdTypeOK'
  BY <1>2, <1>3, TypedThen
<1>5. BlockInv' /\ HeaderInv' /\ ValuesInv' /\ PendingInv'
  BY <1>2, <1>3, LabelsApart DEF BlockInv, HeaderInv, ValuesInv, PendingInv, NoRow
<1>6. QED
  BY <1>3, <1>4, <1>5 DEF IndInv

LEMMA EndBlockStep == IndInv /\ EndBlock => IndInv'
BY EndStep DEF EndBlock

LEMMA EndOfResultsStep == IndInv /\ EndOfResults => IndInv'
<1> SUFFICES ASSUME IndInv, EndOfResults PROVE IndInv'
  OBVIOUS
<1>1. reading' \in BOOLEAN
  BY Typed DEF EndOfResults
<1>2. QED
  BY <1>1, EndStep DEF EndOfResults

LEMMA DatasetHeaderStep ==
    ASSUME IndInv, NEW label \in Labels, NEW declared \in BOOLEAN, NEW all \in BOOLEAN,
           DatasetHeader(label, declared, all)
    PROVE  IndInv'
<1> DEFINE declare == IF declared THEN FrdWidth[label] ELSE 0
           header == FrdWidth[label] + (IF declared /\ all THEN 1 ELSE 0)
           next == [NoDataset EXCEPT !.name = label, !.header = header]
<1>1. FrdWidth[label] \in Nat /\ declare \in Nat /\ header \in Nat /\ (declared /\ all) \in BOOLEAN
  BY LabelsApart, SMT
<1>2. Begins(label, FrdWidth[label], declare, declared /\ all) /\ FinishDataset(next) /\ reading' = FALSE
  BY DEF DatasetHeader
<1>3. ~declared => declare = 0 /\ header = FrdWidth[label]
  BY <1>1, SMT
<1>4. declared => declare = FrdWidth[label]
  OBVIOUS
<1> HIDE DEF declare, header
<1>5. next \in [name : Labels \union {FrdNone}, components : Nat, header : Nat, values : {Empty}]
      /\ next.name = label /\ next.components = 0 /\ next.header = header /\ next.values = Empty
  <2>1. NoDataset \in [name : {FrdNone}, components : {0}, header : {0}, values : {Empty}]
    BY StartTyped
  <2>2. 0 \in Nat
    OBVIOUS
  <2>3. QED
    BY <2>1, <2>2, <1>1
<1> HIDE DEF next
<1>6. /\ writer' \in WriterType /\ writer'.tables = writer.tables
      /\ writer'.block = label /\ writer'.width = FrdWidth[label]
      /\ writer'.declare = declare /\ writer'.all = (declared /\ all) /\ writer'.node = FrdNone
  BY <1>1, <1>2, Typed, BlockBegun
<1>7. /\ TablesInv' /\ dataset' = next /\ pending' = NoRow
      /\ parsed' \in [Tables -> Rows] /\ dataset' \in DatasetType /\ pending' \in RowType
  BY <1>2, <1>5, <1>6, DatasetFinished
<1>8. FrdTypeOK'
  BY <1>2, <1>6, <1>7, TypedThen
<1>9. HeaderInv'
  <2>1. CASE declared
    <3>1. dataset'.components + writer'.declare = writer'.width
      BY <2>1, <1>1, <1>4, <1>5, <1>6, <1>7, SMT
    <3>2. QED
      BY <3>1 DEF HeaderInv
  <2>2. CASE ~declared
    BY <2>2, <1>3, <1>5, <1>6, <1>7 DEF HeaderInv
  <2>3. QED
    BY <2>1, <2>2
<1>10. BlockInv' /\ ValuesInv' /\ PendingInv'
  BY <1>2, <1>5, <1>6, <1>7, LabelsApart DEF BlockInv, ValuesInv, PendingInv, NoRow, Empty
<1>11. QED
  BY <1>7, <1>8, <1>9, <1>10 DEF IndInv

LEMMA ComponentStep == IndInv /\ (Component \/ ComponentAll) => IndInv'
<1> SUFFICES ASSUME IndInv, Component \/ ComponentAll PROVE IndInv'
  OBVIOUS
<1>1. writer.block \in Labels
  BY SMT DEF IndInv, BlockInv, Component, ComponentAll
<1>2. /\ reading \in BOOLEAN /\ dataset \in DatasetType /\ pending \in RowType
      /\ parsed \in [Tables -> Rows] /\ writer \in WriterType
  BY Typed
<1>3. reading' = reading /\ pending' = pending /\ parsed' = parsed
  BY DEF Component, ComponentAll
<1>4. /\ writer' \in WriterType /\ writer'.block = writer.block /\ writer'.width = writer.width
      /\ writer'.record = writer.record /\ writer'.node = writer.node /\ writer'.next = writer.next
      /\ writer'.whole = writer.whole /\ writer'.tables = writer.tables
  <2>1. CASE Component
    <3>1. writer.declare - 1 \in Nat /\ writer' = [writer EXCEPT !.declare = writer.declare - 1]
      BY <2>1, <1>2, SMT DEF Component, WriterType
    <3>2. QED
      BY <3>1, <1>2 DEF WriterType
  <2>2. CASE ComponentAll
    BY <2>2, <1>2 DEF ComponentAll, WriterType
  <2>3. QED
    BY <2>1, <2>2
<1>5. dataset' \in DatasetType /\ dataset'.name = dataset.name /\ dataset'.values = dataset.values
  <2>1. CASE Component
    <3>1. dataset.components + 1 \in Nat /\ dataset' = [dataset EXCEPT !.components = dataset.components + 1]
      BY <2>1, <1>2, SMT DEF Component, DatasetType
    <3>2. QED
      BY <3>1, <1>2 DEF DatasetType
  <2>2. CASE ComponentAll
    BY <2>2, <1>2 DEF ComponentAll
  <2>3. QED
    BY <2>1, <2>2
<1>6. FrdTypeOK'
  BY <1>2, <1>3, <1>4, <1>5, TypedThen
<1>7. dataset'.components + writer'.declare = writer'.width
  <2>1. dataset.components + writer.declare = writer.width
    BY <1>1 DEF IndInv, HeaderInv, Component, ComponentAll
  <2>2. CASE Component
    <3>1. /\ dataset'.components = dataset.components + 1 /\ writer'.declare = writer.declare - 1
          /\ writer'.width = writer.width
      BY <2>2, <1>2 DEF Component, DatasetType, WriterType
    <3>2. dataset.components \in Nat /\ writer.declare \in Nat
      BY <1>2 DEF DatasetType, WriterType
    <3>3. QED
      BY <3>1, <3>2, <2>1, SMT
  <2>3. CASE ComponentAll
    BY <2>1, <2>3, <1>2 DEF ComponentAll, WriterType
  <2>4. QED
    BY <2>2, <2>3
<1>8. HeaderInv'
  BY <1>7 DEF HeaderInv
<1>9. BlockInv'
  BY <1>1, <1>3, <1>4, <1>5, LabelsApart DEF IndInv, BlockInv
<1>10. ValuesInv' /\ PendingInv'
  BY <1>3, <1>4, <1>5 DEF IndInv, ValuesInv, PendingInv, Line
<1>11. TablesInv'
  BY <1>3, <1>4, <1>5 DEF IndInv, TablesInv, Finalized
<1>12. QED
  BY <1>6, <1>8, <1>9, <1>10, <1>11 DEF IndInv

----------------------------------------------------------------------------
(* Lines of a record. *)

RecordTable == IF writer.block = "2C" THEN "coordinates" ELSE TableOf(writer.block)
RecordRow(record, table) == [k \in 1..Kept[table] |-> <<record, k>>]
TablesThen(record, node, last, whole) ==
    IF whole /\ last = writer.width /\ RecordTable # FrdNone /\ last >= Kept[RecordTable]
    THEN [writer.tables EXCEPT ![RecordTable][node] = RecordRow(record, RecordTable)]
    ELSE writer.tables

(* What a line of a record writes. *)
LEMMA LineWritten ==
    ASSUME IndInv, NEW record \in 0..MaxRecords, NEW node \in FrdNodes,
           NEW last \in 0..writer.width, NEW whole \in BOOLEAN, Writes(record, node, last, whole)
    PROVE  /\ writer' \in WriterType
           /\ writer'.block = writer.block /\ writer'.width = writer.width
           /\ writer'.declare = writer.declare /\ writer'.all = writer.all
           /\ writer'.record = record /\ writer'.node = node /\ writer'.whole = whole
           /\ writer'.next = last + 1 /\ last \in Nat /\ writer'.next \in 1..(writer.width + 1)
           /\ writer'.tables = TablesThen(record, node, last, whole)
<1> DEFINE tables == TablesThen(record, node, last, whole)
<1>1. writer \in WriterType
  BY Typed
<1>2. writer.width \in Nat /\ last \in Nat /\ last + 1 \in Nat /\ last + 1 \in 1..(writer.width + 1)
  BY <1>1, SMT DEF WriterType
<1>3. tables \in [Tables -> Rows]
  <2>1. writer.tables \in [Tables -> Rows]
    BY <1>1 DEF WriterType
  <2>2. CASE RecordTable # FrdNone
    <3>1. RecordTable \in Tables /\ Kept[RecordTable] \in Nat
      BY <2>2, TableIs DEF RecordTable
    <3>2. RecordRow(record, RecordTable) \in Seq(Values)
      <4>1. \A k \in 1..Kept[RecordTable] : <<record, k>> \in Values
        BY <3>1, SMT DEF Values
      <4>2. QED
        BY <4>1, <3>1, SMT DEF RecordRow
    <3> HIDE DEF RecordTable
    <3>3. [writer.tables EXCEPT ![RecordTable][node] = RecordRow(record, RecordTable)] \in [Tables -> Rows]
      BY <3>1, <3>2, <2>1 DEF Rows
    <3>4. QED
      BY <3>3, <2>1 DEF TablesThen
  <2>3. QED
    BY <2>1, <2>2 DEF TablesThen
<1>4. writer' = [writer EXCEPT !.record = record, !.node = node, !.next = last + 1, !.whole = whole,
                               !.tables = tables]
  BY DEF Writes, TablesThen, RecordTable, RecordRow
<1> HIDE DEF tables
<1>5. /\ writer' \in WriterType
      /\ writer'.block = writer.block /\ writer'.width = writer.width
      /\ writer'.declare = writer.declare /\ writer'.all = writer.all
      /\ writer'.record = record /\ writer'.node = node /\ writer'.whole = whole
      /\ writer'.next = last + 1 /\ writer'.tables = tables
  BY <1>1, <1>2, <1>3, <1>4 DEF WriterType
<1>6. QED
  BY <1>2, <1>5 DEF tables

(* What the reader's own state says of the block it is in. *)
LEMMA InDataset ==
    ASSUME IndInv, InBlock, writer.block \in Labels
    PROVE  /\ dataset.name = writer.block /\ dataset.name # FrdNone /\ ~reading
           /\ Components = writer.width /\ writer.width \in Nat \ {0}
           /\ RecordTable = TableOf(writer.block)
<1>1. /\ dataset.name = writer.block /\ dataset.name # FrdNone /\ writer.width \in Nat \ {0}
      /\ writer.block # "2C" /\ writer.block # "end"
  BY LabelsApart DEF IndInv, BlockInv
<1>2. ~reading
  BY <1>1, Typed DEF IndInv, BlockInv
<1>3. dataset.components \in Nat
  BY Typed DEF DatasetType
<1>4. Components = writer.width
  <2>1. writer.declare = 0
    BY DEF InBlock
  <2>2. CASE dataset.components = 0 /\ dataset.header = writer.width
    BY <2>2 DEF Components
  <2>3. CASE dataset.components + writer.declare = writer.width
    <3>1. dataset.components = writer.width /\ dataset.components # 0
      BY <2>1, <2>3, <1>1, <1>3, SMT
    <3>2. QED
      BY <3>1 DEF Components
  <2>4. QED
    BY <2>2, <2>3 DEF IndInv, HeaderInv
<1>5. QED
  BY <1>1, <1>2, <1>4 DEF RecordTable

(* The reader stores the values of a record, or keeps them until the next   *)
(* line.                                                                    *)
LEMMA StoreStep ==
    ASSUME IndInv, InBlock, writer.block \in Labels, NEW record \in 0..MaxRecords,
           NEW node \in FrdNodes, NEW last \in 0..writer.width, NEW whole \in BOOLEAN,
           NEW values \in Seq(Values), Writes(record, node, last, whole), Store(node, values),
           whole => values = Line(record, 1, last), ~whole => Len(values) < last, reading' = reading
    PROVE  IndInv'
<1> DEFINE w == writer.width
           complete == Len(values) >= w
<1>1. /\ dataset.name = writer.block /\ dataset.name # FrdNone /\ ~reading
      /\ Components = w /\ w \in Nat \ {0} /\ RecordTable = TableOf(writer.block)
  BY InDataset
<1>2. /\ writer' \in WriterType
      /\ writer'.block = writer.block /\ writer'.width = w
      /\ writer'.declare = writer.declare /\ writer'.all = writer.all
      /\ writer'.record = record /\ writer'.node = node /\ writer'.whole = whole
      /\ writer'.next = last + 1 /\ last \in Nat /\ writer'.next \in 1..(w + 1)
      /\ writer'.tables = TablesThen(record, node, last, whole)
  BY LineWritten
<1>3. Len(values) \in Nat /\ (whole => Len(values) = last)
  <2>1. Len(values) \in Nat
    BY SMT
  <2>2. whole => Len(values) = last
    BY <1>2, WholeLine
  <2>3. QED
    BY <2>1, <2>2
<1>4. complete <=> whole /\ last = w
  BY <1>1, <1>2, <1>3, SMT
<1>5. complete => values = Line(record, 1, w)
  BY <1>4
<1>6. ~complete /\ whole => last + 1 <= w
  BY <1>1, <1>2, <1>3, SMT
<1>7. LastOf(Line(record, 1, w), w) = Line(record, 1, w)
  BY <1>1, LastOfLine
<1>8. (Components > 0 /\ Len(values) >= Components) <=> complete
  BY <1>1, SMT
<1>9. /\ dataset' = [dataset EXCEPT !.components = w,
                                   !.values[node] = IF complete THEN LastOf(values, w) ELSE @]
      /\ pending' = (IF complete THEN NoRow ELSE [node |-> node, values |-> values])
      /\ parsed' = parsed
  BY <1>1, <1>8, Zenon DEF Store
<1> HIDE DEF complete
<1>10. /\ dataset \in DatasetType /\ dataset.values \in Rows /\ parsed \in [Tables -> Rows]
       /\ reading \in BOOLEAN
  BY Typed DEF DatasetType
<1>11. dataset'.name = dataset.name /\ dataset'.components = w /\ dataset'.header = dataset.header
  BY <1>9, <1>10 DEF DatasetType
<1>12. dataset'.values = IF complete THEN [dataset.values EXCEPT ![node] = Line(record, 1, w)]
                         ELSE dataset.values
  <2>1. CASE complete
    BY <2>1, <1>5, <1>7, <1>9, <1>10 DEF DatasetType, Rows
  <2>2. CASE ~complete
    <3>1. dataset' = [dataset EXCEPT !.components = w, !.values[node] = @]
      BY <2>2, <1>9
    <3>2. dataset'.values = [dataset.values EXCEPT ![node] = dataset.values[node]]
      BY <3>1, <1>10 DEF DatasetType
    <3>3. QED
      BY <2>2, <3>2, <1>10 DEF Rows
  <2>3. QED
    BY <2>1, <2>2
<1>13. dataset' \in DatasetType
  <2>1. Line(record, 1, w) \in Seq(Values)
    BY <1>1, WholeLine
  <2>2. dataset'.values \in Rows
    BY <2>1, <1>10, <1>12 DEF Rows
  <2>3. w \in Nat /\ dataset' = [name |-> dataset.name, components |-> w, header |-> dataset.header,
                                 values |-> dataset'.values]
    BY <1>1, <1>9, <1>10, <1>11 DEF DatasetType
  <2>4. QED
    BY <2>2, <2>3, <1>10 DEF DatasetType
<1>14. pending' \in RowType
  BY <1>9, StartTyped DEF RowType
<1>15. FrdTypeOK'
  BY <1>2, <1>9, <1>10, <1>13, <1>14, TypedThen
<1>16. BlockInv'
  BY <1>1, <1>2, <1>11, LabelsApart DEF IndInv, BlockInv
<1>17. HeaderInv'
  <2>1. w + writer.declare = w
    BY <1>1, SMT DEF InBlock
  <2>2. QED
    BY <2>1, <1>2, <1>11 DEF HeaderInv
<1>18. ValuesInv'
  <2>1. ASSUME NEW n \in FrdNodes
        PROVE  dataset'.values[n] = <<>> \/ \E r \in 0..MaxRecords : dataset'.values[n] = Line(r, 1, w)
    <3>1. dataset.values[n] = <<>> \/ \E r \in 0..MaxRecords : dataset.values[n] = Line(r, 1, w)
      BY DEF IndInv, ValuesInv
    <3>2. dataset'.values[n] \in {dataset.values[n], Line(record, 1, w)}
      BY <1>10, <1>12 DEF Rows
    <3>3. QED
      BY <3>1, <3>2
  <2>2. QED
    BY <2>1, <1>2 DEF ValuesInv, Line
<1>19. PendingInv'
  <2>1. CASE complete
    <3>1. last = w /\ pending' = NoRow /\ ~(last + 1 <= w)
      BY <2>1, <1>1, <1>4, <1>9, SMT
    <3>2. QED
      BY <3>1, <1>1, <1>2, LabelsApart DEF PendingInv, NoRow
  <2>2. CASE ~complete
    <3>1. pending' = [node |-> node, values |-> values]
      BY <2>2, <1>9
    <3>2. last + 1 - 1 = last /\ node # FrdNone
      BY <1>2, FrdAssumption, SMT
    <3>3. writer'.whole => writer'.next <= writer'.width /\ values = (Line(writer.record, 1, writer.next - 1))'
      BY <2>2, <1>2, <1>6, <3>2 DEF Line
    <3>4. ~writer'.whole => Len(values) < writer'.next - 1
      BY <1>2, <3>2
    <3>5. QED
      BY <3>1, <3>2, <3>3, <3>4, <1>1, <1>2, LabelsApart DEF PendingInv
  <2>3. QED
    BY <2>1, <2>2
<1>20. TablesInv'
  <2>1. CASE complete
    <3>1. Finalized' = IF RecordTable # FrdNone /\ w >= Kept[RecordTable]
                       THEN [Finalized EXCEPT ![RecordTable][node] = RecordRow(record, RecordTable)]
                       ELSE Finalized
      BY <2>1, <1>1, <1>9, <1>11, <1>12, OneRowMore DEF IndInv, RecordRow
    <3>2. QED
      BY <2>1, <3>1, <1>2, <1>4 DEF IndInv, TablesInv, TablesThen
  <2>2. CASE ~complete
    <3>1. dataset'.values = dataset.values /\ dataset'.name = dataset.name /\ parsed' = parsed
      BY <2>2, <1>9, <1>11, <1>12
    <3>2. Finalized' = Finalized
      BY <3>1 DEF Finalized
    <3>3. QED
      BY <2>2, <3>2, <1>2, <1>4 DEF IndInv, TablesInv, TablesThen
  <2>3. QED
    BY <2>1, <2>2
<1>21. QED
  BY <1>15, <1>16, <1>17, <1>18, <1>19, <1>20 DEF IndInv

(* Outside the datasets and the nodes the reader does nothing. *)
LEMMA OutsideStep ==
    ASSUME IndInv, InBlock, writer.block = "3C", NEW record \in 0..MaxRecords, NEW node \in FrdNodes,
           NEW last \in 0..writer.width, NEW whole \in BOOLEAN, Writes(record, node, last, whole),
           UNCHANGED <<reading, dataset, pending, parsed>>
    PROVE  IndInv'
<1>1. /\ writer' \in WriterType
      /\ writer'.block = writer.block /\ writer'.width = writer.width
      /\ writer'.declare = writer.declare /\ writer'.all = writer.all
      /\ writer'.record = record /\ writer'.node = node /\ writer'.whole = whole
      /\ writer'.next = last + 1 /\ last \in Nat /\ writer'.next \in 1..(writer.width + 1)
      /\ writer'.tables = TablesThen(record, node, last, whole)
  BY LineWritten
<1>2. reading' = reading /\ dataset' = dataset /\ pending' = pending /\ parsed' = parsed
  OBVIOUS
<1>3. writer.block \notin Labels /\ dataset = NoDataset /\ pending = NoRow
  BY LabelsApart DEF IndInv, BlockInv
<1>4. writer'.tables = writer.tables
  BY <1>1, TableIs DEF TablesThen, RecordTable
<1>5. FrdTypeOK'
  BY <1>1, <1>2, Typed, TypedThen
<1>6. BlockInv'
  BY <1>1, <1>2, <1>3, LabelsApart DEF IndInv, BlockInv
<1>7. HeaderInv' /\ ValuesInv' /\ PendingInv'
  BY <1>1, <1>2, <1>3, LabelsApart, FrdAssumption DEF HeaderInv, ValuesInv, PendingInv, NoRow
<1>8. TablesInv'
  BY <1>2, <1>4 DEF IndInv, TablesInv, Finalized
<1>9. QED
  BY <1>5, <1>6, <1>7, <1>8 DEF IndInv

(* A node with its coordinates, on one line. *)
LEMMA NodeStep ==
    ASSUME IndInv, InBlock, writer.block = "2C", NEW record \in 0..MaxRecords, NEW node \in FrdNodes,
           NEW kept \in 0..writer.width, Writes(record, node, writer.width, kept = writer.width),
           ReadFirst(node, Line(record, 1, kept)), reading' = reading
    PROVE  IndInv'
<1>1. /\ writer.block \notin Labels /\ dataset = NoDataset /\ pending = NoRow /\ writer.width = 3
      /\ reading
  BY LabelsApart, Typed DEF IndInv, BlockInv
<1>2. writer.width \in 0..writer.width /\ kept \in Nat
  BY <1>1, SMT
<1>3. /\ writer' \in WriterType
      /\ writer'.block = writer.block /\ writer'.width = writer.width
      /\ writer'.declare = writer.declare /\ writer'.all = writer.all
      /\ writer'.record = record /\ writer'.node = node /\ writer'.whole = (kept = writer.width)
      /\ writer'.next = writer.width + 1 /\ writer'.next \in 1..(writer.width + 1)
      /\ writer'.tables = TablesThen(record, node, writer.width, kept = writer.width)
  BY <1>2, LineWritten
<1>4. Len(Line(record, 1, kept)) = kept
  BY <1>2, WholeLine
<1>5. RecordTable = "coordinates" /\ "coordinates" \in Tables /\ Kept["coordinates"] = 3
      /\ "coordinates" # FrdNone
  BY TableIs, FrdAssumption DEF RecordTable
<1>6. /\ dataset' = dataset /\ pending' = pending
      /\ parsed' = IF kept = writer.width
                   THEN [parsed EXCEPT !["coordinates"][node] = RecordRow(record, "coordinates")]
                   ELSE parsed
  <2>1. CASE kept = writer.width
    <3>1. SubSeq(Line(record, 1, kept), 1, 3) = RecordRow(record, "coordinates")
      <4>1. 3 \in 1..kept
        BY <2>1, <1>1, SMT
      <4>2. QED
        BY <4>1, <1>2, <1>5, LinePrefix DEF RecordRow
    <3>2. Len(Line(record, 1, kept)) >= 3
      <4>1. Len(Line(record, 1, kept)) = 3
        BY <2>1, <1>1, <1>4
      <4>2. 3 >= 3
        BY SMT
      <4>3. QED
        BY <4>1, <4>2, Zenon
    <3>3. QED
      BY <2>1, <3>1, <3>2, <1>1 DEF ReadFirst
  <2>2. CASE kept # writer.width
    <3>1. ~(Len(Line(record, 1, kept)) >= 3)
      BY <2>2, <1>1, <1>4, SMT
    <3>2. QED
      BY <2>2, <3>1, <1>1 DEF ReadFirst, NoDataset
  <2>3. QED
    BY <2>1, <2>2
<1>7. writer.tables = parsed
  BY <1>1 DEF IndInv, TablesInv, Finalized, NoDataset
<1>8. writer'.tables = parsed'
  BY <1>1, <1>3, <1>5, <1>6, <1>7 DEF TablesThen
<1>9. TablesInv'
  <2>1. Finalized' = parsed'
    BY <1>1, <1>6 DEF Finalized, NoDataset
  <2>2. QED
    BY <2>1, <1>8 DEF TablesInv
<1>10. FrdTypeOK'
  <2>1. parsed' \in [Tables -> Rows]
    BY <1>3, <1>8 DEF WriterType
  <2>2. QED
    BY <2>1, <1>3, <1>6, Typed, TypedThen
<1>11. BlockInv'
  BY <1>1, <1>3, <1>6, LabelsApart DEF IndInv, BlockInv
<1>12. HeaderInv' /\ ValuesInv' /\ PendingInv'
  BY <1>1, <1>3, <1>6, LabelsApart, FrdAssumption DEF HeaderInv, ValuesInv, PendingInv, NoRow
<1>13. QED
  BY <1>9, <1>10, <1>11, <1>12 DEF IndInv

(* A record has a line only in a block. *)
LEMMA RecordBlock ==
    ASSUME IndInv, InBlock
    PROVE  writer.block \in Labels \/ writer.block = "2C" \/ writer.block = "3C"
BY Typed DEF InBlock, WriterType

LEMMA FirstRowStep ==
    ASSUME IndInv, NEW node \in FrdNodes, NEW last \in 0..writer.width, NEW kept \in 0..writer.width,
           FirstRow(node, last, kept)
    PROVE  IndInv'
<1> DEFINE record == writer.record + 1
           values == Line(record, 1, kept)
<1>1. /\ InBlock /\ kept <= last /\ Writes(record, node, last, kept = last)
      /\ ReadFirst(node, values) /\ reading' = reading
      /\ writer.block = "2C" => last = writer.width
  BY DEF FirstRow
<1>2. writer.width \in Nat /\ last \in Nat /\ kept \in Nat
  BY Typed, SMT DEF WriterType
<1>3. record \in 0..MaxRecords
  BY Typed, FrdAssumption, SMT DEF FirstRow, WriterType
<1> HIDE DEF record
<1>4. values \in Seq(Values) /\ Len(values) = kept
  BY <1>2, <1>3, WholeLine
<1>5. CASE writer.block \in Labels
  <2>1. Store(node, values)
    BY <1>1, <1>5, InDataset DEF ReadFirst
  <2>2. (kept = last => values = Line(record, 1, last)) /\ (kept # last => Len(values) < last)
    BY <1>1, <1>2, <1>4, SMT
  <2>3. (kept = last) \in BOOLEAN
    OBVIOUS
  <2> HIDE DEF values
  <2>4. QED
    BY <1>1, <1>3, <1>4, <1>5, <2>1, <2>2, <2>3, StoreStep
<1>6. CASE writer.block = "2C"
  BY <1>1, <1>3, <1>6, NodeStep
<1>7. CASE writer.block = "3C"
  <2>1. ~reading /\ dataset.name = FrdNone
    BY <1>7, LabelsApart, Typed DEF IndInv, BlockInv, NoDataset
  <2>2. UNCHANGED <<reading, dataset, pending, parsed>>
    BY <1>1, <2>1 DEF ReadFirst
  <2>3. QED
    BY <1>1, <1>3, <1>7, <2>2, OutsideStep
<1>8. QED
  BY <1>1, <1>5, <1>6, <1>7, RecordBlock

(* A line of a record that goes on. *)
LEMMA RecordGoesOn ==
    ASSUME IndInv, InBlock, writer.block \in Labels, writer.node # FrdNone, writer.next <= writer.width
    PROVE  /\ writer.node \in FrdNodes /\ pending.node = writer.node
           /\ writer.next \in 1..writer.width /\ pending.values \in Seq(Values)
           /\ writer.record \in 0..MaxRecords /\ writer.whole \in BOOLEAN
           /\ writer.whole => pending.values = Line(writer.record, 1, writer.next - 1)
           /\ ~writer.whole => Len(pending.values) < writer.next - 1
           /\ writer.next = 1 => writer.whole
<1>1. /\ writer.node \in FrdNodes /\ writer.record \in 0..MaxRecords /\ writer.whole \in BOOLEAN
      /\ pending.values \in Seq(Values) /\ writer.width \in Nat
  BY Typed DEF WriterType, RowType
<1>2. pending.node = writer.node /\ writer.next \in 1..(writer.width + 1)
  BY DEF IndInv, PendingInv
<1>3. /\ writer.whole => pending.values = Line(writer.record, 1, writer.next - 1)
      /\ ~writer.whole => Len(pending.values) < writer.next - 1
  BY <1>2 DEF IndInv, PendingInv
<1>4. Len(pending.values) \in Nat
  BY <1>1, SMT
<1>5. writer.next = 1 => writer.whole
  BY <1>1, <1>2, <1>3, <1>4, SMT
<1>6. writer.next \in 1..writer.width
  BY <1>1, <1>2, SMT
<1>7. QED
  BY <1>1, <1>2, <1>3, <1>5, <1>6

(* The nodes' block has no second lines. *)
LEMMA NodesHaveOneLine ==
    ASSUME IndInv, writer.block = "2C", writer.node # FrdNone
    PROVE  writer.next = 4 /\ writer.width = 3
BY DEF IndInv, BlockInv, PendingInv

(* The line is cut before its first value. *)
LEMMA LostLineStep ==
    ASSUME IndInv, InBlock, writer.block \in Labels, writer.node # FrdNone, NEW last \in 0..writer.width,
           writer.next <= last, Writes(writer.record, writer.node, last, FALSE),
           UNCHANGED <<reading, dataset, pending, parsed>>
    PROVE  IndInv'
<1>1. writer.width \in Nat /\ last \in Nat /\ writer.next \in Nat
  BY Typed, SMT DEF WriterType
<1>2. writer.next <= writer.width
  BY <1>1, SMT
<1>3. /\ writer.node \in FrdNodes /\ pending.node = writer.node
      /\ writer.next \in 1..writer.width /\ pending.values \in Seq(Values)
      /\ writer.record \in 0..MaxRecords /\ writer.whole \in BOOLEAN
      /\ writer.whole => pending.values = Line(writer.record, 1, writer.next - 1)
      /\ ~writer.whole => Len(pending.values) < writer.next - 1
  BY <1>2, RecordGoesOn
<1>4. /\ writer' \in WriterType
      /\ writer'.block = writer.block /\ writer'.width = writer.width
      /\ writer'.declare = writer.declare /\ writer'.all = writer.all
      /\ writer'.record = writer.record /\ writer'.node = writer.node /\ writer'.whole = FALSE
      /\ writer'.next = last + 1 /\ writer'.next \in 1..(writer.width + 1)
      /\ writer'.tables = TablesThen(writer.record, writer.node, last, FALSE)
  BY <1>3, LineWritten
<1>5. reading' = reading /\ dataset' = dataset /\ pending' = pending /\ parsed' = parsed
  OBVIOUS
<1>6. writer'.tables = writer.tables
  BY <1>4 DEF TablesThen
<1>7. FrdTypeOK'
  BY <1>4, <1>5, Typed, TypedThen
<1>8. BlockInv'
  BY <1>3, <1>4, <1>5, LabelsApart DEF IndInv, BlockInv
<1>9. HeaderInv' /\ ValuesInv'
  BY <1>4, <1>5 DEF IndInv, HeaderInv, ValuesInv, Line
<1>10. PendingInv'
  <2>1. Len(pending.values) < writer'.next - 1
    <3>1. writer.next - 1 \in Nat /\ Len(pending.values) \in Nat
      BY <1>3, SMT
    <3>2. Len(pending.values) <= writer.next - 1
      <4>1. CASE writer.whole
        <5>1. Len(pending.values) = writer.next - 1
          BY <4>1, <3>1, <1>3, WholeLine
        <5>2. QED
          BY <5>1, <3>1, SMT
      <4>2. CASE ~writer.whole
        BY <4>2, <3>1, <1>3, SMT
      <4>3. QED
        BY <4>1, <4>2
    <3>3. QED
      BY <3>1, <3>2, <1>1, <1>4, SMT
  <2>2. QED
    BY <2>1, <1>3, <1>4, <1>5, LabelsApart, FrdAssumption DEF PendingInv
<1>11. TablesInv'
  BY <1>5, <1>6 DEF IndInv, TablesInv, Finalized
<1>12. QED
  BY <1>7, <1>8, <1>9, <1>10, <1>11 DEF IndInv

LEMMA NextRowStep ==
    ASSUME IndInv, NEW last \in 0..writer.width, NEW kept \in 0..writer.width, NextRow(last, kept)
    PROVE  IndInv'
<1> DEFINE record == writer.record
           first == writer.next
           values == Line(record, first, kept)
           whole == writer.whole /\ kept = last
<1>1. /\ InBlock /\ writer.node # FrdNone /\ first <= kept + 1 /\ kept <= last /\ first <= last
      /\ Writes(record, writer.node, last, whole) /\ ReadNext(values) /\ reading' = reading
  BY DEF NextRow
<1>2. writer.width \in Nat /\ last \in Nat /\ kept \in Nat /\ first \in Nat /\ first <= writer.width
  BY <1>1, Typed, SMT DEF WriterType
<1>3. CASE writer.block \in Labels
  <2>1. /\ writer.node \in FrdNodes /\ pending.node = writer.node /\ pending.node # FrdNone
        /\ first \in 1..writer.width /\ pending.values \in Seq(Values)
        /\ record \in 0..MaxRecords /\ writer.whole \in BOOLEAN
        /\ writer.whole => pending.values = Line(record, 1, first - 1)
        /\ ~writer.whole => Len(pending.values) < first - 1
        /\ first = 1 => writer.whole
    BY <1>1, <1>2, <1>3, RecordGoesOn
  <2>2. /\ dataset.name # FrdNone /\ Components = writer.width /\ writer.width \in Nat \ {0}
    BY <1>1, <1>3, InDataset
  <2>3. whole \in BOOLEAN /\ first \in Nat \ {0} /\ first - 1 \in Nat
    BY <2>1, SMT
  <2>4. values \in Seq(Values) /\ Len(values) = kept + 1 - first
    BY <1>1, <1>2, <2>1, <2>3, LineIs
  <2>5. CASE values = <<>>
    <3>1. Len(values) = 0
      BY <2>5
    <3>2. kept < last
      BY <3>1, <2>4, <1>1, <1>2, SMT
    <3>3. whole = FALSE
      BY <3>2, <1>2, SMT
    <3>4. UNCHANGED <<reading, dataset, pending, parsed>>
      BY <2>5, <1>1 DEF ReadNext
    <3> HIDE DEF whole
    <3>5. QED
      BY <3>3, <3>4, <1>1, <1>3, LostLineStep
  <2>6. CASE values # <<>>
    <3> DEFINE all == IF Components > 0 /\ Len(values) >= Components THEN LastOf(values, Components)
                      ELSE pending.values \o values
    <3>1. Store(writer.node, all)
      BY <2>1, <2>2, <2>6, <1>1 DEF ReadNext
    <3>2. CASE Len(values) >= writer.width
      <4>1. first = 1 /\ kept = writer.width /\ last = writer.width
        BY <3>2, <2>1, <2>4, <1>1, <1>2, SMT
      <4>2. whole /\ all = Line(record, 1, last)
        <5>1. all = LastOf(Line(record, 1, writer.width), writer.width)
          BY <4>1, <3>2, <2>2, SMT
        <5>2. QED
          BY <5>1, <4>1, <2>1, <2>2, LastOfLine
      <4>3. all \in Seq(Values)
        BY <4>2, <1>2, <2>1, WholeLine
      <4> HIDE DEF all, whole
      <4>4. QED
        BY <4>2, <4>3, <3>1, <1>1, <1>3, <2>1, <2>3, StoreStep
    <3>3. CASE ~(Len(values) >= writer.width)
      <4>1. all = pending.values \o values
        BY <3>3, <2>2, Zenon
      <4> HIDE DEF all, values
      <4>2. all \in Seq(Values) /\ Len(all) = Len(pending.values) + Len(values)
        BY <4>1, <2>1, <2>4, SMT
      <4>3. whole => all = Line(record, 1, last)
        BY <4>1, <2>1, <2>3, <1>1, <1>2, LineAppend DEF values
      <4>4. ~whole => Len(all) < last
        <5>1. Len(pending.values) \in Nat
          BY <2>1, SMT
        <5>2. CASE writer.whole
          <6>1. (Len(pending.values) = first - 1 /\ kept # last) \/ whole
            BY <5>2, <2>1, <2>3, WholeLine
          <6>2. QED
            BY <6>1, <4>2, <2>4, <1>1, <1>2, SMT
        <5>3. CASE ~writer.whole
          BY <5>1, <5>3, <4>2, <2>1, <2>4, <1>1, <1>2, SMT
        <5>4. QED
          BY <5>2, <5>3
      <4> HIDE DEF whole
      <4>5. QED
        BY <4>2, <4>3, <4>4, <3>1, <1>1, <1>3, <2>1, <2>3, StoreStep
    <3>4. QED
      BY <3>2, <3>3
  <2>7. QED
    BY <2>5, <2>6
<1>4. CASE writer.block = "2C"
  <2>1. first = 4 /\ writer.width = 3
    BY <1>1, <1>4, NodesHaveOneLine
  <2>2. QED
    BY <2>1, <1>2, SMT
<1>5. CASE writer.block = "3C"
  <2>1. dataset.name = FrdNone
    BY <1>5, LabelsApart DEF IndInv, BlockInv, NoDataset
  <2>2. UNCHANGED <<reading, dataset, pending, parsed>>
    BY <1>1, <2>1 DEF ReadNext
  <2>3. writer.node \in FrdNodes /\ record \in 0..MaxRecords /\ whole \in BOOLEAN
    BY <1>1, Typed DEF WriterType
  <2> HIDE DEF whole
  <2>4. QED
    BY <1>1, <1>5, <2>2, <2>3, OutsideStep
<1>6. QED
  BY <1>1, <1>3, <1>4, <1>5, RecordBlock

LEMMA MaterialRowStep == IndInv /\ MaterialRow => IndInv'
<1> SUFFICES ASSUME IndInv, MaterialRow PROVE IndInv'
  OBVIOUS
<1> DEFINE record == writer.record
           w == writer.width
           values == << <<0, 0>> >> \o Line(record, 1, w)
<1>1. /\ InBlock /\ writer.node # FrdNone /\ writer.next = 1
      /\ Writes(record, writer.node, w, TRUE) /\ ReadNext(values) /\ reading' = reading
  BY DEF MaterialRow
<1>2. w \in Nat /\ w \in 0..w /\ writer.node \in FrdNodes /\ record \in 0..MaxRecords
  BY <1>1, Typed, SMT DEF WriterType
<1>3. CASE writer.block \in Labels
  <2>1. dataset.name # FrdNone /\ Components = w /\ w \in Nat \ {0}
    BY <1>1, <1>3, InDataset
  <2>2. pending.node = writer.node
    <3>1. writer.next <= w
      BY <1>1, <2>1, SMT
    <3>2. QED
      BY <3>1, <1>1, <1>3, RecordGoesOn
  <2>3. Line(record, 1, w) \in Seq(Values) /\ Len(Line(record, 1, w)) = w
    BY <1>2, WholeLine
  <2>4. values # <<>> /\ Len(values) = w + 1
    <3>1. <<0, 0>> \in Values
      BY FrdAssumption, SMT DEF Values
    <3>2. Len(values) = w + 1
      BY <3>1, <2>3, SMT
    <3>3. values # <<>>
      BY <3>2, <2>1, SMT
    <3>4. QED
      BY <3>2, <3>3
  <2>5. LastOf(values, w) = Line(record, 1, w)
    BY <1>2, <2>1, LastOfLine
  <2> HIDE DEF values
  <2>6. Components > 0 /\ Len(values) >= Components
    BY <2>1, <2>4, SMT
  <2>7. Store(writer.node, Line(record, 1, w))
    BY <1>1, <2>1, <2>2, <2>4, <2>5, <2>6 DEF ReadNext
  <2>8. QED
    BY <1>1, <1>2, <1>3, <2>3, <2>7, StoreStep
<1>4. CASE writer.block = "2C"
  BY <1>1, <1>4, NodesHaveOneLine
<1>5. CASE writer.block = "3C"
  <2>1. dataset.name = FrdNone
    BY <1>5, LabelsApart DEF IndInv, BlockInv, NoDataset
  <2>2. UNCHANGED <<reading, dataset, pending, parsed>>
    BY <1>1, <2>1 DEF ReadNext
  <2>3. QED
    BY <1>1, <1>2, <1>5, <2>2, OutsideStep
<1>6. QED
  BY <1>1, <1>3, <1>4, <1>5, RecordBlock

----------------------------------------------------------------------------
(* The theorems. *)

LEMMA NextStep == IndInv /\ FrdNext => IndInv'
<1> SUFFICES ASSUME IndInv, FrdNext PROVE IndInv'
  OBVIOUS
<1>1. CASE NodesHeader
  BY <1>1, NodesHeaderStep
<1>2. CASE BlockHeader
  BY <1>2, BlockHeaderStep
<1>3. CASE Component \/ ComponentAll
  BY <1>3, ComponentStep
<1>4. CASE MaterialRow
  BY <1>4, MaterialRowStep
<1>5. CASE EndBlock
  BY <1>5, EndBlockStep
<1>6. CASE EndOfResults
  BY <1>6, EndOfResultsStep
<1>7. CASE \E label \in Labels, declared, all \in BOOLEAN : DatasetHeader(label, declared, all)
  BY <1>7, DatasetHeaderStep
<1>8. ASSUME NEW last \in 0..writer.width, NEW kept \in 0..writer.width,
             NextRow(last, kept) \/ \E node \in FrdNodes : FirstRow(node, last, kept)
      PROVE  IndInv'
  BY <1>8, NextRowStep, FirstRowStep
<1>9. QED
  BY <1>1, <1>2, <1>3, <1>4, <1>5, <1>6, <1>7, <1>8 DEF FrdNext

LEMMA Nothing == IndInv /\ UNCHANGED frdVars => IndInv'
<1> SUFFICES ASSUME IndInv, UNCHANGED frdVars PROVE IndInv'
  OBVIOUS
<1>1. /\ reading' = reading /\ dataset' = dataset /\ pending' = pending
      /\ parsed' = parsed /\ writer' = writer
  BY DEF frdVars
<1>2. FrdTypeOK'
  BY <1>1 DEF IndInv, FrdTypeOK
<1>3. BlockInv' /\ HeaderInv' /\ ValuesInv' /\ PendingInv'
  BY <1>1 DEF IndInv, BlockInv, HeaderInv, ValuesInv, PendingInv, Line
<1>4. TablesInv'
  BY <1>1 DEF IndInv, TablesInv, Finalized
<1>5. QED
  BY <1>2, <1>3, <1>4 DEF IndInv

LEMMA Inductive == FrdSpec => []IndInv
<1>1. IndInv /\ [FrdNext \/ FrdCall]_frdVars => IndInv'
  BY NextStep, AnotherFile, Nothing
<1>2. QED
  BY <1>1, Initially, PTL DEF FrdSpec

(* The reader's state and the tables stay of their types. *)
THEOREM FrdTypeCorrect == FrdSpec => []FrdTypeOK
<1>1. IndInv => FrdTypeOK
  BY DEF IndInv
<1>2. QED
  BY <1>1, Inductive, PTL

(* Between blocks and at the end, the tables of parse_frd() are those of    *)
(* the whole records of the file, however its lines are cut.                *)
THEOREM TablesAreRecords == FrdSpec => []FrdTablesAreRecords
<1>1. IndInv => FrdTablesAreRecords
  BY LabelsApart DEF IndInv, BlockInv, TablesInv, FrdTablesAreRecords, Finalized, NoDataset
<1>2. QED
  BY <1>1, Inductive, PTL

----------------------------------------------------------------------------
(* Numbers. *)

(* Any numbers have a least one. *)
LEMMA LeastNumber ==
    ASSUME NEW T, T \subseteq Nat, T # {}
    PROVE  \E x \in T : \A y \in T : x <= y
<1> DEFINE U == {1..n : n \in T}
<1>1. U \subseteq FiniteSubsetsOf(Nat)
  <2>1. ASSUME NEW n \in T PROVE 1..n \in FiniteSubsetsOf(Nat)
    BY FS_Interval DEF FiniteSubsetsOf
  <2>2. QED
    BY <2>1
<1>2. U # {}
  OBVIOUS
<1>3. PICK s \in U : \A t \in U : ~(<<t, s>> \in StrictSubsetOrdering(Nat))
  <2> HIDE DEF U
  <2>1. IsWellFoundedOn(StrictSubsetOrdering(Nat), FiniteSubsetsOf(Nat))
    BY FS_StrictSubsetOrderingWellFounded
  <2>2. QED
    BY <1>1, <1>2, <2>1, WFMin
<1>4. PICK n \in T : s = 1..n
  BY <1>3
<1>5. ASSUME NEW y \in T PROVE n <= y
  <2>1. ~(<<1..y, 1..n>> \in StrictSubsetOrdering(Nat))
    BY <1>3, <1>4
  <2>2. CASE y < n
    <3>1. 1..y \subseteq 1..n /\ 1..y # 1..n
      BY <2>2
    <3>2. 1..y \subseteq Nat /\ 1..n \subseteq Nat
      OBVIOUS
    <3>3. QED
      BY <2>1, <3>1, <3>2 DEF StrictSubsetOrdering
  <2>3. QED
    BY <2>2
<1>6. QED
  BY <1>5

(* So do places in a file have a last one. *)
LEMMA LastPlace ==
    ASSUME NEW n \in Nat, NEW T, T \subseteq 1..n, T # {}
    PROVE  \E x \in T : \A y \in T : y <= x
<1> DEFINE U == {n - t : t \in T}
<1>1. U \subseteq Nat /\ U # {}
  <2>1. ASSUME NEW t \in T PROVE n - t \in Nat
    OBVIOUS
  <2>2. QED
    BY <2>1
<1>2. PICK u \in U : \A v \in U : u <= v
  <2> HIDE DEF U
  <2>1. QED
    BY <1>1, LeastNumber
<1>3. PICK x \in T : u = n - x
  BY <1>2
<1>4. ASSUME NEW y \in T PROVE y <= x
  <2>1. n - x <= n - y
    BY <1>2, <1>3
  <2>2. QED
    BY <2>1
<1>5. QED
  BY <1>4

----------------------------------------------------------------------------
(* Sequences. *)

(* Any sequence, whatever is in it.                                         *)
IsSeq(s) == s \in Seq({s[k] : k \in DOMAIN s})

(* The places of a sequence are 1 to its length.                            *)
LEMMA IsSeqHas ==
    ASSUME NEW s, IsSeq(s)
    PROVE  DOMAIN s = 1..Len(s) /\ Len(s) \in Nat /\ s = [k \in 1..Len(s) |-> s[k]]
BY DEF IsSeq

LEMMA FunctionIsSeq ==
    ASSUME NEW n \in Nat, NEW f, f = [k \in 1..n |-> f[k]]
    PROVE  IsSeq(f) /\ Len(f) = n
<1>1. DOMAIN f = 1..n
  OBVIOUS
<1>2. IsSeq(f)
  BY <1>1, IsASeq DEF IsSeq
<1>3. QED
  BY <1>1, <1>2, IsSeqHas

LEMMA SameSeq ==
    ASSUME NEW s, IsSeq(s), NEW t, IsSeq(t), Len(s) = Len(t), \A k \in 1..Len(s) : s[k] = t[k]
    PROVE  s = t
BY IsSeqHas

(* u \o v is u and then v.                                                  *)
LEMMA Concatenated ==
    ASSUME NEW u, IsSeq(u), NEW v, IsSeq(v)
    PROVE  /\ IsSeq(u \o v) /\ Len(u \o v) = Len(u) + Len(v)
           /\ \A k \in 1..Len(u) : (u \o v)[k] = u[k]
           /\ \A k \in 1..Len(v) : (u \o v)[Len(u) + k] = v[k]
<1> DEFINE S == {u[k] : k \in DOMAIN u} \union {v[k] : k \in DOMAIN v}
           w == u \o v
<1>1. u \in Seq(S) /\ v \in Seq(S)
  BY SeqMonotonic DEF IsSeq
<1>2. Len(u) \in Nat /\ Len(v) \in Nat
  BY IsSeqHas
<1> HIDE DEF S
<1>3. /\ w \in Seq(S) /\ Len(w) = Len(u) + Len(v)
      /\ \A k \in 1..(Len(u) + Len(v)) : w[k] = IF k <= Len(u) THEN u[k] ELSE v[k - Len(u)]
  BY <1>1, ConcatProperties
<1> HIDE DEF w
<1>4. IsSeq(w)
  <2>1. w = [k \in 1..Len(w) |-> w[k]] /\ Len(w) \in Nat
    BY <1>3
  <2>2. QED
    BY <2>1, FunctionIsSeq
<1>5. ASSUME NEW k \in 1..Len(u) PROVE w[k] = u[k]
  BY <1>2, <1>3
<1>6. ASSUME NEW k \in 1..Len(v) PROVE w[Len(u) + k] = v[k]
  <2>1. Len(u) + k \in 1..(Len(u) + Len(v)) /\ ~(Len(u) + k <= Len(u)) /\ Len(u) + k - Len(u) = k
    BY <1>2
  <2>2. QED
    BY <1>3, <2>1
<1>7. QED
  BY <1>3, <1>4, <1>5, <1>6 DEF w

----------------------------------------------------------------------------
(* Flattened sequences. *)

(* The function by which FlattenSeq is defined exists. *)
LEMMA FlattenExists ==
    ASSUME NEW ss, NEW N \in Nat
    PROVE  \E f : f = [i \in 1..N |-> IF i = 1 THEN ss[i] ELSE f[i-1] \o ss[i]]
<1> DEFINE Good(n) == \E f : f = [i \in 1..n |-> IF i = 1 THEN ss[i] ELSE f[i-1] \o ss[i]]
           T == {n \in Nat : ~Good(n)}
<1>1. SUFFICES ASSUME T # {} PROVE FALSE
  OBVIOUS
<1>2. PICK n \in T : \A m \in T : n <= m
  <2> HIDE DEF Good
  <2>1. QED
    BY <1>1, LeastNumber
<1>3. n # 0
  <2>1. [i \in {} |-> 0] = [i \in 1..0 |-> IF i = 1 THEN ss[i] ELSE [j \in {} |-> 0][i-1] \o ss[i]]
    OBVIOUS
  <2>2. QED
    BY <2>1
<1>4. Good(n - 1)
  <2> HIDE DEF Good
  <2>1. QED
    BY <1>2, <1>3
<1>5. PICK f : f = [i \in 1..(n-1) |-> IF i = 1 THEN ss[i] ELSE f[i-1] \o ss[i]]
  BY <1>4
<1> DEFINE g == [i \in 1..n |-> IF i = 1 THEN ss[i] ELSE f[i-1] \o ss[i]]
<1>6. ASSUME NEW i \in 1..(n-1) PROVE g[i] = f[i]
  <2>1. f[i] = IF i = 1 THEN ss[i] ELSE f[i-1] \o ss[i]
    BY <1>5
  <2>2. i \in 1..n
    BY <1>2
  <2>3. QED
    BY <2>1, <2>2
<1>7. g = [i \in 1..n |-> IF i = 1 THEN ss[i] ELSE g[i-1] \o ss[i]]
  <2>1. \A i \in 1..n : i # 1 => i - 1 \in 1..(n-1)
    BY <1>2
  <2>2. QED
    BY <1>6, <2>1
<1>8. QED
  BY <1>2, <1>7

(* The first n of G, one after the other, are w; e says where each one ends. *)
Joined(w, G, n, e) ==
    /\ e[0] = 0 /\ e[n] = Len(w)
    /\ \A j \in 0..n : e[j] \in Nat /\ e[j] <= Len(w)
    /\ \A j \in 1..n : e[j] = e[j-1] + Len(G[j])
    /\ \A j \in 1..n : \A m \in 1..Len(G[j]) : w[e[j-1] + m] = G[j][m]

(* A sequence of sequences.                                                 *)
Sequences(G) == IsSeq(G) /\ \A j \in 1..Len(G) : IsSeq(G[j])

(* FlattenSeq puts sequences one after the other, whatever is in them.      *)
LEMMA Flattened ==
    ASSUME NEW G, Sequences(G)
    PROVE  IsSeq(FlattenSeq(G)) /\ \E e : Joined(FlattenSeq(G), G, Len(G), e)
<1> DEFINE n == Len(G)
<1>1. /\ DOMAIN G = 1..n /\ n \in Nat
      /\ \A j \in 1..n : IsSeq(G[j]) /\ Len(G[j]) \in Nat
  BY IsSeqHas DEF Sequences
<1>2. CASE n = 0
  <2>1. G = <<>>
    BY <1>2, IsSeqHas DEF Sequences
  <2>2. FlattenSeq(G) = <<>> /\ Len(<<>>) = 0 /\ IsSeq(<<>>)
    BY <2>1 DEF FlattenSeq, IsSeq
  <2>3. Joined(<<>>, G, 0, [j \in {0} |-> 0])
    BY <2>2 DEF Joined
  <2>4. QED
    BY <1>2, <2>2, <2>3
<1>3. CASE n # 0
  <2>1. \E f : f = [i \in 1..n |-> IF i = 1 THEN G[i] ELSE f[i-1] \o G[i]]
    BY <1>1, FlattenExists
  <2>2. \E f : f = [i \in 1..n |-> IF i = 1 THEN G[i] ELSE f[i-1] \o G[i]] /\ FlattenSeq(G) = f[n]
    BY <1>3, <2>1 DEF FlattenSeq
  <2>3. PICK f : f = [i \in 1..n |-> IF i = 1 THEN G[i] ELSE f[i-1] \o G[i]] /\ FlattenSeq(G) = f[n]
    BY <2>2
  <2>4. f[1] = G[1] /\ \A i \in 2..n : f[i] = f[i-1] \o G[i] /\ i - 1 \in 1..n
    <3>1. \A i \in 1..n : f[i] = IF i = 1 THEN G[i] ELSE f[i-1] \o G[i]
      BY <2>3
    <3>2. \A i \in 2..n : i \in 1..n /\ i # 1 /\ i - 1 \in 1..n
      BY <1>1
    <3>3. 1 \in 1..n
      BY <1>1, <1>3
    <3>4. QED
      BY <3>1, <3>2, <3>3
  <2> DEFINE e == [j \in 0..n |-> IF j = 0 THEN 0 ELSE Len(f[j])]
             Good(i) == IsSeq(f[i]) /\ Joined(f[i], G, i, e)
             T == {i \in 1..n : ~Good(i)}
  <2>5. e[0] = 0 /\ \A j \in 1..n : e[j] = Len(f[j])
    BY <1>1
  <2> HIDE DEF e
  <2>6. Good(1)
    <3>1. e[1] = Len(G[1]) /\ Len(G[1]) \in Nat /\ IsSeq(G[1])
      BY <1>1, <1>3, <2>4, <2>5
    <3>2. 0..1 = {0, 1} /\ 1..1 = {1} /\ 1 - 1 = 0
      OBVIOUS
    <3>3. Joined(G[1], G, 1, e)
      BY <2>5, <3>1, <3>2 DEF Joined
    <3>4. QED
      BY <2>4, <3>1, <3>3
  <2>7. ASSUME NEW i \in 2..n, Good(i - 1) PROVE Good(i)
    <3> DEFINE u == f[i-1]
               v == G[i]
               w == u \o v
    <3>1. IsSeq(u) /\ Joined(u, G, i - 1, e) /\ IsSeq(v) /\ f[i] = w
      <4>1. i \in 1..n
        BY <1>1
      <4> HIDE DEF Joined
      <4>2. QED
        BY <1>1, <2>4, <2>7, <4>1
    <3>2. Len(u) \in Nat /\ Len(v) \in Nat /\ e[i-1] = Len(u)
      BY <2>4, <2>5, <3>1, IsSeqHas
    <3> HIDE DEF u
    <3>3. /\ IsSeq(w) /\ Len(w) = Len(u) + Len(v)
          /\ \A k \in 1..Len(u) : w[k] = u[k]
          /\ \A k \in 1..Len(v) : w[Len(u) + k] = v[k]
      BY <3>1, Concatenated
    <3>4. e[i] = Len(w)
      BY <1>1, <2>5, <3>1
    <3> HIDE DEF w
    <3>5. ASSUME NEW j \in 0..i PROVE e[j] \in Nat /\ e[j] <= Len(w)
      <4>1. CASE j = i
        BY <3>2, <3>3, <3>4, <4>1
      <4>2. CASE j # i
        <5>1. j \in 0..(i-1)
          BY <4>2
        <5>2. QED
          BY <3>1, <3>2, <3>3, <5>1 DEF Joined
      <4>3. QED
        BY <4>1, <4>2
    <3>6. ASSUME NEW j \in 1..i
          PROVE  e[j] = e[j-1] + Len(G[j]) /\ \A m \in 1..Len(G[j]) : w[e[j-1] + m] = G[j][m]
      <4>1. CASE j = i
        BY <3>2, <3>3, <3>4, <4>1
      <4>2. CASE j # i
        <5>1. j \in 1..(i-1) /\ j - 1 \in 0..(i-1) /\ j \in 0..(i-1) /\ j \in 1..n
          BY <1>1, <4>2
        <5>2. /\ e[j] = e[j-1] + Len(G[j]) /\ e[j] <= Len(u) /\ e[j-1] \in Nat /\ e[j] \in Nat
              /\ \A m \in 1..Len(G[j]) : u[e[j-1] + m] = G[j][m]
          BY <3>1, <5>1 DEF Joined
        <5>3. ASSUME NEW m \in 1..Len(G[j]) PROVE w[e[j-1] + m] = G[j][m]
          <6>1. Len(G[j]) \in Nat
            BY <1>1, <5>1
          <6>2. e[j-1] + m \in 1..Len(u)
            BY <3>2, <5>2, <6>1
          <6>3. QED
            BY <3>3, <5>2, <6>2
        <5>4. QED
          BY <5>2, <5>3
      <4>3. QED
        BY <4>1, <4>2
    <3>7. QED
      BY <2>5, <3>1, <3>3, <3>4, <3>5, <3>6 DEF Joined
  <2>8. T = {}
    <3>1. SUFFICES ASSUME T # {} PROVE FALSE
      OBVIOUS
    <3>2. PICK i \in T : \A j \in T : i <= j
      <4>1. T \subseteq Nat
        OBVIOUS
      <4> HIDE DEF T
      <4>2. QED
        BY <3>1, <4>1, LeastNumber
    <3>3. i # 1
      BY <2>6, <3>2
    <3>4. i \in 2..n /\ i - 1 \in 1..n /\ ~(i <= i - 1)
      BY <1>1, <3>2, <3>3
    <3>5. Good(i - 1)
      <4> HIDE DEF Good
      <4>1. QED
        BY <3>2, <3>4
    <3>6. QED
      BY <2>7, <3>2, <3>4, <3>5
  <2>9. Good(n)
    <3> HIDE DEF Good
    <3>1. QED
      BY <1>1, <1>3, <2>8
  <2>10. QED
    BY <2>3, <2>9
<1>4. QED
  BY <1>2, <1>3

----------------------------------------------------------------------------
(* Lines in parts. *)

(* The rows under the line i of L, and what they hold.                      *)
RowsAfter(L, i) == {n \in (i + 1)..Len(L) : \A m \in (i + 1)..n : L[m].key = "row"}
Data(L, i) == UNION {L[j].data : j \in RowsAfter(L, i)}
SetLines(L, name) == {k \in DOMAIN L : L[k].key \in {"*element", "*elset"} /\ L[k].set = name}

(* What CalculixDeck says is in a set, by lines.                            *)
LEMMA InSetIs ==
    ASSUME NEW L, NEW name
    PROVE  InSet(L, name) = UNION {Data(L, i) : i \in SetLines(L, name)}
BY DEF InSet, Data, RowsAfter, SetLines

(* The rows under a keyword, however many lines there are.                  *)
Counted(L, key, parts) ==
    {k \in DOMAIN L : L[k].key = "row" /\ Under(L, k) = key /\ L[k].parts >= parts}

(* Every row of a part stands under a keyword of it.                        *)
Piece(L) ==
    /\ IsSeq(L)
    /\ \A k \in DOMAIN L : L[k].key = "row" => \E j \in 1..k : L[j].key \notin {"row", "**"}

(* P stands in L after o lines, and no row comes next.                      *)
At(L, o, P) ==
    /\ o \in Nat /\ o + Len(P) <= Len(L)
    /\ \A k \in 1..Len(P) : L[o + k] = P[k]
    /\ o + Len(P) < Len(L) => L[o + Len(P) + 1].key # "row"

(* The rows under a line of a part that stands in L are those in L.         *)
LEMMA DataAt ==
    ASSUME NEW L, IsSeq(L), NEW P, IsSeq(P), NEW o, At(L, o, P), NEW k \in DOMAIN P
    PROVE  Data(L, o + k) = Data(P, k)
<1>1. /\ Len(L) \in Nat /\ Len(P) \in Nat /\ o \in Nat /\ k \in 1..Len(P)
      /\ o + Len(P) <= Len(L)
  BY IsSeqHas DEF At
<1>2. ASSUME NEW n \in RowsAfter(P, k) PROVE o + n \in RowsAfter(L, o + k) /\ L[o + n] = P[n]
  <2>1. n \in (k + 1)..Len(P) /\ \A m \in (k + 1)..n : P[m].key = "row"
    BY DEF RowsAfter
  <2>2. ASSUME NEW m \in (o + k + 1)..(o + n) PROVE L[m].key = "row"
    <3>1. m - o \in (k + 1)..n /\ m - o \in 1..Len(P) /\ o + (m - o) = m
      BY <1>1, <2>1
    <3>2. L[o + (m - o)] = P[m - o]
      BY <3>1 DEF At
    <3>3. QED
      BY <2>1, <3>1, <3>2
  <2>3. o + n \in (o + k + 1)..Len(L) /\ n \in 1..Len(P)
    BY <1>1, <2>1
  <2>4. QED
    BY <2>2, <2>3 DEF RowsAfter, At
<1>3. ASSUME NEW n \in RowsAfter(L, o + k)
      PROVE  n - o \in RowsAfter(P, k) /\ L[n] = P[n - o]
  <2>1. n \in (o + k + 1)..Len(L) /\ \A m \in (o + k + 1)..n : L[m].key = "row"
    BY DEF RowsAfter
  <2>2. n <= o + Len(P)
    <3>1. SUFFICES ASSUME n > o + Len(P) PROVE FALSE
      BY <1>1, <2>1
    <3>2. o + Len(P) < Len(L) /\ o + Len(P) + 1 \in (o + k + 1)..n
      BY <1>1, <2>1, <3>1
    <3>3. QED
      BY <2>1, <3>2 DEF At
  <2>3. n - o \in (k + 1)..Len(P) /\ n - o \in 1..Len(P) /\ o + (n - o) = n
    BY <1>1, <2>1, <2>2
  <2>4. ASSUME NEW m \in (k + 1)..(n - o) PROVE P[m].key = "row"
    <3>1. o + m \in (o + k + 1)..n /\ m \in 1..Len(P)
      BY <1>1, <2>1, <2>2
    <3>2. QED
      BY <2>1, <3>1 DEF At
  <2>5. L[n] = P[n - o]
    BY <2>3 DEF At
  <2>6. QED
    BY <2>3, <2>4, <2>5 DEF RowsAfter
<1>4. \A x : x \in Data(L, o + k) <=> x \in Data(P, k)
  BY <1>2, <1>3 DEF Data
<1>5. QED
  BY <1>4

(* A line stands under the last keyword up to it.                           *)
LEMMA UnderIs ==
    ASSUME NEW L, NEW k \in Nat, NEW j \in 1..k, L[j].key \notin {"row", "**"},
           \A m \in (j + 1)..k : L[m].key \in {"row", "**"}
    PROVE  Under(L, k) = L[j].key
<1> DEFINE keys == {i \in 1..k : L[i].key \notin {"row", "**"}}
<1>1. j \in keys /\ \A i \in keys : i \in 1..k
  OBVIOUS
<1>2. \A i \in keys : i <= j
  BY <1>1
<1>3. Max(keys) = j
  <2>1. \A i \in keys : i \in Int
    BY <1>1
  <2> HIDE DEF keys
  <2>2. \A x \in keys : (\A y \in keys : x >= y) => x = j
    BY <1>1, <1>2, <2>1
  <2>3. \A y \in keys : j >= y
    BY <1>1, <1>2, <2>1
  <2>4. QED
    BY <1>1, <2>2, <2>3 DEF Max
<1>4. QED
  BY <1>1, <1>3 DEF Under

(* Rows have a last keyword before them.                                    *)
LEMMA LastKeyword ==
    ASSUME NEW P, Piece(P), NEW k \in DOMAIN P, P[k].key = "row"
    PROVE  \E j \in 1..k : /\ P[j].key \notin {"row", "**"}
                           /\ \A m \in (j + 1)..k : P[m].key \in {"row", "**"}
<1> DEFINE keys == {j \in 1..k : P[j].key \notin {"row", "**"}}
<1>1. k \in Nat /\ keys \subseteq 1..k /\ keys # {}
  BY IsSeqHas DEF Piece
<1>2. PICK j \in keys : \A m \in keys : m <= j
  <2> HIDE DEF keys
  <2>1. QED
    BY <1>1, LastPlace
<1>3. ASSUME NEW m \in (j + 1)..k PROVE P[m].key \in {"row", "**"}
  <2>1. m \in 1..k /\ ~(m <= j)
    BY <1>1, <1>2
  <2>2. QED
    BY <1>2, <2>1
<1>4. QED
  BY <1>2, <1>3

(* A row of a part stands under a keyword of this part.                     *)
LEMMA UnderAt ==
    ASSUME NEW L, IsSeq(L), NEW P, Piece(P), NEW o, At(L, o, P), NEW k \in DOMAIN P, P[k].key = "row"
    PROVE  Under(L, o + k) = Under(P, k)
<1>1. /\ Len(P) \in Nat /\ o \in Nat /\ k \in 1..Len(P)
      /\ \A i \in 1..Len(P) : L[o + i] = P[i]
  BY IsSeqHas DEF At, Piece
<1>2. PICK j \in 1..k : /\ P[j].key \notin {"row", "**"}
                        /\ \A m \in (j + 1)..k : P[m].key \in {"row", "**"}
  BY LastKeyword
<1>3. Under(P, k) = P[j].key
  BY <1>1, <1>2, UnderIs
<1>4. ASSUME NEW m \in (o + j + 1)..(o + k) PROVE L[m].key \in {"row", "**"}
  <2>1. m - o \in (j + 1)..k /\ m - o \in 1..Len(P) /\ o + (m - o) = m
    BY <1>1
  <2>2. QED
    BY <1>1, <1>2, <2>1
<1>5. o + k \in Nat /\ o + j \in 1..(o + k) /\ L[o + j] = P[j]
  BY <1>1
<1>6. Under(L, o + k) = P[j].key
  BY <1>2, <1>4, <1>5, UnderIs
<1>7. QED
  BY <1>3, <1>6

(* So a row is counted in L exactly if it is counted in the part.           *)
LEMMA CountedAt ==
    ASSUME NEW L, IsSeq(L), NEW P, Piece(P), NEW o, At(L, o, P), NEW k \in DOMAIN P, NEW key, NEW parts
    PROVE  o + k \in Counted(L, key, parts) <=> k \in Counted(P, key, parts)
<1>1. /\ Len(P) \in Nat /\ Len(L) \in Nat /\ o \in Nat /\ k \in 1..Len(P) /\ o + Len(P) <= Len(L)
      /\ L[o + k] = P[k] /\ DOMAIN L = 1..Len(L)
  BY IsSeqHas DEF At, Piece
<1>2. o + k \in DOMAIN L
  BY <1>1
<1>3. P[k].key = "row" => Under(L, o + k) = Under(P, k)
  BY UnderAt
<1>4. QED
  BY <1>1, <1>2, <1>3 DEF Counted

(* The lines w are the parts of G, one after the other.                     *)
Parts(w, G, e) ==
    /\ IsSeq(w) /\ IsSeq(G) /\ \A j \in 1..Len(G) : Piece(G[j])
    /\ Joined(w, G, Len(G), e)

(* What it is to be the lines w in parts G.                                 *)
LEMMA PartsHave ==
    ASSUME NEW w, NEW G, NEW e, Parts(w, G, e)
    PROVE  /\ DOMAIN w = 1..Len(w) /\ Len(w) \in Nat /\ DOMAIN G = 1..Len(G) /\ Len(G) \in Nat
           /\ \A j \in 1..Len(G) : DOMAIN G[j] = 1..Len(G[j]) /\ Len(G[j]) \in Nat
           /\ e[0] = 0 /\ e[Len(G)] = Len(w)
           /\ \A j \in 0..Len(G) : e[j] \in Nat /\ e[j] <= Len(w)
           /\ \A j \in 1..Len(G) : e[j] = e[j-1] + Len(G[j])
           /\ \A j \in 1..Len(G) : \A m \in 1..Len(G[j]) : w[e[j-1] + m] = G[j][m]
BY IsSeqHas DEF Parts, Piece, Joined

(* Every line is in a part.                                                 *)
LEMMA PartOf ==
    ASSUME NEW w, NEW G, NEW e, Parts(w, G, e), NEW p \in DOMAIN w
    PROVE  \E j \in 1..Len(G) : \E m \in DOMAIN G[j] : p = e[j-1] + m
<1> DEFINE T == {j \in 1..Len(G) : p <= e[j]}
<1>1. /\ p \in 1..Len(w) /\ Len(w) \in Nat /\ Len(G) \in Nat /\ e[0] = 0 /\ e[Len(G)] = Len(w)
      /\ \A j \in 1..Len(G) : e[j] \in Nat /\ e[j-1] \in Nat /\ e[j] = e[j-1] + Len(G[j])
      /\ \A j \in 1..Len(G) : DOMAIN G[j] = 1..Len(G[j]) /\ Len(G[j]) \in Nat
  <2>1. \A j \in 1..Len(G) : j \in 0..Len(G) /\ j - 1 \in 0..Len(G)
    BY PartsHave
  <2>2. QED
    BY <2>1, PartsHave
<1>2. Len(G) # 0 /\ Len(G) \in T
  BY <1>1
<1>3. PICK j \in T : \A i \in T : j <= i
  <2>1. T \subseteq Nat
    OBVIOUS
  <2> HIDE DEF T
  <2>2. QED
    BY <1>2, <2>1, LeastNumber
<1>4. ~(p <= e[j-1])
  <2>1. CASE j = 1
    BY <1>1, <2>1
  <2>2. CASE j # 1
    <3>1. j - 1 \in 1..Len(G) /\ ~(j <= j - 1)
      BY <1>1, <1>3, <2>2
    <3>2. QED
      BY <1>3, <3>1
  <2>3. QED
    BY <2>1, <2>2
<1>5. p - e[j-1] \in 1..Len(G[j]) /\ p = e[j-1] + (p - e[j-1]) /\ j \in 1..Len(G)
  BY <1>1, <1>3, <1>4
<1>6. QED
  BY <1>1, <1>5

(* No row comes after a part: the next part that is not empty begins there. *)
LEMMA PartAt ==
    ASSUME NEW w, NEW G, NEW e, Parts(w, G, e), NEW j \in 1..Len(G)
    PROVE  At(w, e[j-1], G[j])
<1>1. /\ Len(w) \in Nat /\ Len(G) \in Nat /\ e[Len(G)] = Len(w) /\ Len(G[j]) \in Nat
      /\ e[j] \in Nat /\ e[j-1] \in Nat /\ e[j] = e[j-1] + Len(G[j]) /\ e[j] <= Len(w)
      /\ \A m \in 1..Len(G[j]) : w[e[j-1] + m] = G[j][m]
  <2>1. j \in 0..Len(G) /\ j - 1 \in 0..Len(G)
    BY PartsHave
  <2>2. QED
    BY <2>1, PartsHave
<1>2. ASSUME e[j] < Len(w) PROVE w[e[j] + 1].key # "row"
  <2> DEFINE T == {i \in (j + 1)..Len(G) : e[i] # e[j]}
  <2>1. Len(G) \in T
    BY <1>1, <1>2
  <2>2. PICK i \in T : \A m \in T : i <= m
    <3>1. T \subseteq Nat
      BY <1>1
    <3> HIDE DEF T
    <3>2. QED
      BY <2>1, <3>1, LeastNumber
  <2>3. e[i-1] = e[j]
    <3>1. CASE i = j + 1
      BY <3>1
    <3>2. CASE i # j + 1
      <4>1. i - 1 \in (j + 1)..Len(G) /\ ~(i <= i - 1)
        BY <1>1, <2>2, <3>2
      <4>2. QED
        BY <2>2, <4>1
    <3>3. QED
      BY <3>1, <3>2
  <2>4. i \in 1..Len(G) /\ e[i] # e[i-1]
    BY <1>1, <2>2, <2>3
  <2>5. /\ e[i] = e[i-1] + Len(G[i]) /\ Len(G[i]) \in Nat /\ DOMAIN G[i] = 1..Len(G[i]) /\ Piece(G[i])
        /\ \A m \in 1..Len(G[i]) : w[e[i-1] + m] = G[i][m]
    BY <2>4, PartsHave DEF Parts
  <2>6. 1 \in DOMAIN G[i] /\ w[e[j] + 1] = G[i][1]
    <3> DEFINE n == Len(G[i])
    <3>1. n \in Nat /\ e[i-1] \in Nat /\ e[i] = e[i-1] + n
      BY <1>1, <2>3, <2>5
    <3> HIDE DEF n
    <3>2. n # 0 /\ 1 \in 1..n
      BY <2>4, <3>1
    <3> USE DEF n
    <3>3. QED
      BY <2>3, <2>5, <3>2
  <2>7. G[i][1].key # "row"
    BY <2>5, <2>6 DEF Piece
  <2>8. QED
    BY <2>6, <2>7
<1>3. QED
  BY <1>1, <1>2 DEF At

(* If the rows of all parts are under keywords, those of the whole are.     *)
LEMMA PartsPiece ==
    ASSUME NEW w, NEW G, NEW e, Parts(w, G, e)
    PROVE  Piece(w)
<1>1. ASSUME NEW k \in DOMAIN w, w[k].key = "row" PROVE \E i \in 1..k : w[i].key \notin {"row", "**"}
  <2>1. PICK j \in 1..Len(G) : \E m \in DOMAIN G[j] : k = e[j-1] + m
    BY PartOf
  <2>2. PICK m \in DOMAIN G[j] : k = e[j-1] + m
    BY <2>1
  <2>3. At(w, e[j-1], G[j]) /\ Piece(G[j])
    BY PartAt DEF Parts
  <2>4. m \in 1..Len(G[j]) /\ Len(G[j]) \in Nat /\ G[j][m] = w[k] /\ e[j-1] \in Nat
    BY <2>2, <2>3, PartsHave DEF At
  <2>5. PICK i \in 1..m : G[j][i].key \notin {"row", "**"}
    BY <1>1, <2>3, <2>4 DEF Piece
  <2>6. e[j-1] + i \in 1..k /\ i \in 1..Len(G[j])
    BY <2>2, <2>4
  <2>7. w[e[j-1] + i] = G[j][i]
    BY <2>3, <2>6 DEF At
  <2>8. QED
    BY <2>5, <2>6, <2>7
<1>2. QED
  BY <1>1 DEF Piece, Parts

(* What a set has is what it has in the parts.                              *)
LEMMA InSetOfParts ==
    ASSUME NEW w, NEW G, NEW e, Parts(w, G, e), NEW name
    PROVE  InSet(w, name) = UNION {InSet(G[j], name) : j \in 1..Len(G)}
<1>1. ASSUME NEW j \in 1..Len(G), NEW m \in DOMAIN G[j]
      PROVE  /\ e[j-1] + m \in DOMAIN w /\ w[e[j-1] + m] = G[j][m]
             /\ Data(w, e[j-1] + m) = Data(G[j], m)
  <2>1. At(w, e[j-1], G[j]) /\ IsSeq(G[j]) /\ IsSeq(w)
    BY PartAt DEF Parts, Piece
  <2>2. Data(w, e[j-1] + m) = Data(G[j], m)
    BY <2>1, DataAt
  <2>3. DOMAIN w = 1..Len(w) /\ Len(w) \in Nat /\ m \in 1..Len(G[j]) /\ Len(G[j]) \in Nat
    BY PartsHave
  <2>4. QED
    BY <2>1, <2>2, <2>3 DEF At
<1>2. ASSUME NEW x \in InSet(w, name) PROVE \E j \in 1..Len(G) : x \in InSet(G[j], name)
  <2>1. PICK i \in SetLines(w, name) : x \in Data(w, i)
    BY InSetIs
  <2>2. PICK j \in 1..Len(G) : \E m \in DOMAIN G[j] : i = e[j-1] + m
    BY PartOf DEF SetLines
  <2>3. PICK m \in DOMAIN G[j] : i = e[j-1] + m
    BY <2>2
  <2>4. m \in SetLines(G[j], name) /\ x \in Data(G[j], m)
    BY <1>1, <2>1, <2>3 DEF SetLines
  <2>5. x \in InSet(G[j], name)
    BY <2>4, InSetIs
  <2>6. QED
    BY <2>5
<1>3. ASSUME NEW j \in 1..Len(G), NEW x \in InSet(G[j], name) PROVE x \in InSet(w, name)
  <2>1. PICK m \in SetLines(G[j], name) : x \in Data(G[j], m)
    BY InSetIs
  <2>2. m \in DOMAIN G[j]
    BY DEF SetLines
  <2>3. e[j-1] + m \in SetLines(w, name) /\ x \in Data(w, e[j-1] + m)
    BY <1>1, <2>1, <2>2 DEF SetLines
  <2>4. QED
    BY <2>3, InSetIs
<1>4. QED
  BY <1>2, <1>3

----------------------------------------------------------------------------
(* What is counted. *)

(* The rows under a keyword stand for the members of T, one for each.       *)
Lists(L, key, parts, T) ==
    /\ \A k \in Counted(L, key, parts) : \E t \in T : L[k].data = {t}
    /\ \A t \in T : \E k \in Counted(L, key, parts) : L[k].data = {t}
    /\ \A k, l \in Counted(L, key, parts) : L[k].data = L[l].data => k = l

(* Rows that stand for the members of T are as many.                        *)
LEMMA ListsCount ==
    ASSUME NEW L, NEW key, NEW parts, NEW T, IsFiniteSet(T), Lists(L, key, parts, T)
    PROVE  Cardinality(Counted(L, key, parts)) = Cardinality(T)
<1> DEFINE C == Counted(L, key, parts)
           f == [t \in T |-> CHOOSE k \in C : L[k].data = {t}]
<1>1. \A t \in T : f[t] \in C /\ L[f[t]].data = {t}
  BY DEF Lists
<1>2. \A k \in C : \E t \in T : f[t] = k
  BY <1>1 DEF Lists
<1>3. f \in Bijection(T, C)
  <2>1. f \in [T -> C] /\ \A s, t \in T : f[s] = f[t] => s = t
    BY <1>1
  <2> HIDE DEF f, C
  <2>2. QED
    BY <1>2, <2>1 DEF Bijection, Injection, Surjection, IsInjective
<1> HIDE DEF f, C
<1>4. Cardinality(C) = Cardinality(T)
  BY <1>3, FS_Bijection DEF ExistsBijection
<1>5. QED
  BY <1>4 DEF C

(* What rows of parts stand for, the rows of the whole stand for.           *)
LEMMA ListsOfParts ==
    ASSUME NEW w, NEW G, NEW e, Parts(w, G, e), NEW key, NEW parts, NEW T,
           \A j \in 1..Len(G) : Lists(G[j], key, parts, T[j]),
           \A i, j \in 1..Len(G) : i # j => T[i] \cap T[j] = {}
    PROVE  Lists(w, key, parts, UNION {T[j] : j \in 1..Len(G)})
<1> DEFINE C == Counted(w, key, parts)
           D(j) == Counted(G[j], key, parts)
<1>1. ASSUME NEW j \in 1..Len(G), NEW m \in DOMAIN G[j]
      PROVE  /\ e[j-1] + m \in C <=> m \in D(j)
             /\ w[e[j-1] + m] = G[j][m]
  <2>1. At(w, e[j-1], G[j]) /\ Piece(G[j]) /\ IsSeq(w)
    BY PartAt DEF Parts
  <2>2. m \in 1..Len(G[j])
    BY PartsHave
  <2>3. e[j-1] + m \in C <=> m \in D(j)
    BY <2>1, CountedAt
  <2>4. QED
    BY <2>1, <2>2, <2>3 DEF At
<1>2. \A j \in 1..Len(G) : D(j) \subseteq DOMAIN G[j]
  BY DEF Counted
<1>3. ASSUME NEW k \in C PROVE \E j \in 1..Len(G) : \E m \in D(j) : k = e[j-1] + m /\ w[k] = G[j][m]
  <2>1. PICK j \in 1..Len(G) : \E m \in DOMAIN G[j] : k = e[j-1] + m
    BY PartOf DEF Counted
  <2>2. PICK m \in DOMAIN G[j] : k = e[j-1] + m
    BY <2>1
  <2>3. m \in D(j) /\ w[k] = G[j][m]
    BY <1>1, <2>2
  <2>4. QED
    BY <2>2, <2>3
<1>4. ASSUME NEW j \in 1..Len(G)
      PROVE  /\ \A m \in D(j) : \E t \in T[j] : G[j][m].data = {t}
             /\ \A t \in T[j] : \E m \in D(j) : G[j][m].data = {t}
             /\ \A m, n \in D(j) : G[j][m].data = G[j][n].data => m = n
  BY DEF Lists
<1> HIDE DEF C, D
<1>5. \A k \in C : \E t \in UNION {T[j] : j \in 1..Len(G)} : w[k].data = {t}
  BY <1>3, <1>4
<1>6. ASSUME NEW j \in 1..Len(G), NEW t \in T[j] PROVE \E k \in C : w[k].data = {t}
  <2>1. PICK m \in D(j) : G[j][m].data = {t}
    BY <1>4
  <2>2. e[j-1] + m \in C /\ w[e[j-1] + m].data = {t}
    BY <1>1, <1>2, <2>1
  <2>3. QED
    BY <2>2
<1>7. ASSUME NEW k \in C, NEW l \in C, w[k].data = w[l].data PROVE k = l
  <2>1. PICK i \in 1..Len(G) : \E m \in D(i) : k = e[i-1] + m /\ w[k] = G[i][m]
    BY <1>3
  <2>2. PICK j \in 1..Len(G) : \E m \in D(j) : l = e[j-1] + m /\ w[l] = G[j][m]
    BY <1>3
  <2>3. PICK m \in D(i) : k = e[i-1] + m /\ w[k] = G[i][m]
    BY <2>1
  <2>4. PICK n \in D(j) : l = e[j-1] + n /\ w[l] = G[j][n]
    BY <2>2
  <2>5. (\E t \in T[i] : G[i][m].data = {t}) /\ (\E t \in T[j] : G[j][n].data = {t})
    BY <1>4
  <2>6. i = j
    BY <1>7, <2>3, <2>4, <2>5
  <2>7. m = n
    BY <1>4, <1>7, <2>3, <2>4, <2>6
  <2>8. QED
    BY <2>3, <2>4, <2>6, <2>7
<1>8. QED
  <2> DEFINE U == UNION {T[j] : j \in 1..Len(G)}
  <2>1. ASSUME NEW t \in U PROVE \E k \in C : w[k].data = {t}
    <3>1. PICK j \in 1..Len(G) : t \in T[j]
      OBVIOUS
    <3>2. QED
      BY <1>6, <3>1
  <2>2. \A k \in C : \E t \in U : w[k].data = {t}
    BY <1>5
  <2> HIDE DEF U
  <2>3. Lists(w, key, parts, U)
    BY <1>7, <2>1, <2>2 DEF Lists, C
  <2>4. QED
    BY <2>3 DEF U

(* Nothing is listed under a keyword that is not there,                     *)
LEMMA NoneListed ==
    ASSUME NEW L, Piece(L), NEW key, NEW parts, \A k \in DOMAIN L : L[k].key # key
    PROVE  Lists(L, key, parts, {})
<1>1. ASSUME NEW k \in Counted(L, key, parts) PROVE FALSE
  <2>1. k \in DOMAIN L /\ L[k].key = "row" /\ Under(L, k) = key /\ k \in Nat /\ DOMAIN L = 1..Len(L)
    BY IsSeqHas DEF Counted, Piece
  <2>2. PICK j \in 1..k : /\ L[j].key \notin {"row", "**"}
                          /\ \A m \in (j + 1)..k : L[m].key \in {"row", "**"}
    BY <2>1, LastKeyword
  <2>3. Under(L, k) = L[j].key
    BY <2>1, <2>2, UnderIs
  <2>4. j \in DOMAIN L
    BY <2>1, IsSeqHas DEF Piece
  <2>5. QED
    BY <2>1, <2>3, <2>4
<1>2. QED
  BY <1>1 DEF Lists

(* and nothing is in a set that is not there.                               *)
LEMMA NoneInSet ==
    ASSUME NEW L, NEW name, \A k \in DOMAIN L : L[k].key \notin {"*element", "*elset"} \/ L[k].set # name
    PROVE  InSet(L, name) = {}
<1>1. SetLines(L, name) = {}
  BY DEF SetLines
<1>2. QED
  BY <1>1, InSetIs

----------------------------------------------------------------------------
(* A keyword and its rows. *)

(* Rows alone, and the two kinds of lines.                                  *)
AllRows(R) == IsSeq(R) /\ \A i \in 1..Len(R) : R[i].key = "row"

KeywordLine(key, set, material, axes) ==
    [key |-> key, set |-> set, material |-> material, axes |-> axes, parts |-> 0, data |-> {}]
RowLine(parts, data) ==
    [key |-> "row", set |-> DeckNone, material |-> DeckNone, axes |-> DeckNone, parts |-> parts, data |-> data]

(* Keyword() and Row() are one line.                                        *)
LEMMA OneLine ==
    /\ \A key, set, material, axes :
          /\ IsSeq(Keyword(key, set, material, axes)) /\ Len(Keyword(key, set, material, axes)) = 1
          /\ Keyword(key, set, material, axes)[1] = KeywordLine(key, set, material, axes)
    /\ \A parts, data :
          IsSeq(Row(parts, data)) /\ Len(Row(parts, data)) = 1 /\ Row(parts, data)[1] = RowLine(parts, data)
<1>1. ASSUME NEW x PROVE IsSeq(<<x>>) /\ Len(<<x>>) = 1 /\ <<x>>[1] = x
  BY DEF IsSeq
<1>2. QED
  BY <1>1 DEF Keyword, Row, KeywordLine, RowLine

(* L is a line and the rows of R. *)
Headed(L, line, R) ==
    /\ Piece(L) /\ DOMAIN L = 1..(1 + Len(R)) /\ Len(R) \in Nat
    /\ L[1] = line
    /\ \A i \in 1..Len(R) : L[1 + i] = R[i]
    /\ \A k \in 2..(1 + Len(R)) : L[k].key = "row"
    /\ \A parts : Counted(L, line.key, parts) = {1 + i : i \in {k \in 1..Len(R) : R[k].parts >= parts}}
    /\ Data(L, 1) = UNION {R[i].data : i \in 1..Len(R)}

(* A keyword in front of rows has them under it.                            *)
LEMMA KeywordAndRows ==
    ASSUME NEW key, key \notin {"row", "**"}, NEW set, NEW material, NEW axes, NEW R, AllRows(R)
    PROVE  Headed(Keyword(key, set, material, axes) \o R, KeywordLine(key, set, material, axes), R)
<1> DEFINE K == Keyword(key, set, material, axes)
           line == KeywordLine(key, set, material, axes)
           L == K \o R
<1>1. IsSeq(K) /\ Len(K) = 1 /\ K[1] = line
  BY OneLine
<1>2. IsSeq(R) /\ Len(R) \in Nat /\ \A i \in 1..Len(R) : R[i].key = "row"
  BY IsSeqHas DEF AllRows
<1> HIDE DEF K
<1>3. IsSeq(L) /\ Len(L) = 1 + Len(R) /\ L[1] = K[1] /\ \A i \in 1..Len(R) : L[1 + i] = R[i]
  <2>1. IsSeq(K) /\ IsSeq(R)
    BY <1>1, <1>2
  <2>2. /\ IsSeq(L) /\ Len(L) = Len(K) + Len(R)
        /\ \A k \in 1..Len(K) : L[k] = K[k]
        /\ \A k \in 1..Len(R) : L[Len(K) + k] = R[k]
    BY <2>1, Concatenated
  <2>3. 1 \in 1..1
    OBVIOUS
  <2> HIDE DEF L
  <2>4. QED
    BY <1>1, <2>2, <2>3
<1>4. DOMAIN L = 1..(1 + Len(R))
  BY <1>3, IsSeqHas
<1> HIDE DEF L
<1>5. L[1].key = key
  BY <1>1, <1>3 DEF KeywordLine
<1>6. \A k \in 2..(1 + Len(R)) : k - 1 \in 1..Len(R) /\ 1 + (k - 1) = k /\ L[k].key = "row" /\ L[k] = R[k - 1]
  BY <1>2, <1>3
<1>7. Piece(L)
  BY <1>3, <1>4, <1>5 DEF Piece
<1>8. \A k \in 2..(1 + Len(R)) : Under(L, k) = key
  <2>1. SUFFICES ASSUME NEW k \in 2..(1 + Len(R)) PROVE Under(L, k) = key
    OBVIOUS
  <2>2. k \in Nat /\ 1 \in 1..k /\ \A m \in (1 + 1)..k : L[m].key \in {"row", "**"}
    BY <1>2, <1>6
  <2>3. QED
    BY <1>5, <2>2, UnderIs
<1>9. ASSUME NEW parts
      PROVE  Counted(L, key, parts) = {1 + i : i \in {k \in 1..Len(R) : R[k].parts >= parts}}
  <2>1. \A k \in Counted(L, key, parts) : k \in 2..(1 + Len(R)) /\ L[k].parts >= parts
    BY <1>2, <1>4, <1>5 DEF Counted
  <2>2. ASSUME NEW i \in 1..Len(R), R[i].parts >= parts PROVE 1 + i \in Counted(L, key, parts)
    <3>1. 1 + i \in 2..(1 + Len(R)) /\ 1 + i \in DOMAIN L /\ L[1 + i] = R[i]
      BY <1>2, <1>3, <1>4
    <3>2. QED
      BY <1>6, <1>8, <2>2, <3>1 DEF Counted
  <2>3. QED
    BY <1>6, <2>1, <2>2
<1>10. Data(L, 1) = UNION {R[i].data : i \in 1..Len(R)}
  <2>1. RowsAfter(L, 1) = 2..(1 + Len(R))
    BY <1>2, <1>3, <1>6 DEF RowsAfter
  <2>2. \A i \in 1..Len(R) : 1 + i \in 2..(1 + Len(R)) /\ L[1 + i] = R[i]
    BY <1>2, <1>3
  <2>3. ASSUME NEW x \in Data(L, 1) PROVE \E i \in 1..Len(R) : x \in R[i].data
    BY <1>6, <2>1 DEF Data
  <2>4. ASSUME NEW i \in 1..Len(R) PROVE R[i].data \subseteq Data(L, 1)
    BY <2>1, <2>2 DEF Data
  <2>5. QED
    BY <2>3, <2>4
<1>11. line.key = key
  BY DEF KeywordLine
<1> HIDE DEF line
<1>12. Headed(L, line, R)
  BY <1>1, <1>2, <1>3, <1>4, <1>6, <1>7, <1>9, <1>10, <1>11 DEF Headed
<1>13. QED
  BY <1>12 DEF L, K, line

----------------------------------------------------------------------------
(* Sets in an order. *)

(* s has the members of T, each once.                                       *)
Enumerates(s, T) ==
    /\ IsSeq(s) /\ \A k \in 1..Len(s) : s[k] \in T
    /\ \A t \in T : \E k \in 1..Len(s) : s[k] = t
    /\ \A j, k \in 1..Len(s) : s[j] = s[k] => j = k

(* As many different members as T has are all of T.                         *)
LEMMA EnumeratesIs ==
    ASSUME NEW T, IsFiniteSet(T), NEW s \in [1..Cardinality(T) -> T],
           \A j, k \in 1..Cardinality(T) : s[j] = s[k] => j = k
    PROVE  Enumerates(s, T) /\ Len(s) = Cardinality(T)
<1> DEFINE n == Cardinality(T)
<1>1. n \in Nat
  BY FS_CardinalityType
<1>2. IsSeq(s) /\ Len(s) = n
  BY <1>1, FunctionIsSeq
<1>3. \A t \in T : \E k \in 1..n : s[k] = t
  <2>1. s \in Injection(1..n, T)
    BY DEF Injection, IsInjective
  <2>2. IsFiniteSet(1..n) /\ Cardinality(1..n) = n
    BY <1>1, FS_Interval
  <2>3. s \in Surjection(1..n, T)
    BY <2>1, <2>2, FS_Injection
  <2>4. QED
    BY <2>3 DEF Surjection
<1>4. QED
  BY <1>2, <1>3 DEF Enumerates

(* The function that Sorted() chooses.                                      *)
Increasing(s, T) ==
    s \in [1..Cardinality(T) -> T] /\ \A j, k \in DOMAIN s : j < k => s[j] < s[k]

(* Every finite set of numbers has one: take a smallest set without.        *)
LEMMA IncreasingExists ==
    ASSUME NEW T, T \subseteq Nat, IsFiniteSet(T)
    PROVE  \E s : Increasing(s, T)
<1> DEFINE Good(n) == \A S : S \subseteq Nat /\ IsFiniteSet(S) /\ Cardinality(S) = n => \E s : Increasing(s, S)
           bad == {n \in Nat : ~Good(n)}
<1>1. ASSUME bad # {} PROVE FALSE
  <2>1. PICK n \in bad : \A m \in bad : n <= m
    <3>1. bad \subseteq Nat
      OBVIOUS
    <3> HIDE DEF bad
    <3>2. QED
      BY <1>1, <3>1, LeastNumber
  <2>2. PICK S : S \subseteq Nat /\ IsFiniteSet(S) /\ Cardinality(S) = n /\ ~\E s : Increasing(s, S)
    BY <2>1
  <2>3. n # 0
    <3>1. SUFFICES ASSUME n = 0 PROVE FALSE
      OBVIOUS
    <3>2. S = {}
      BY <2>2, <3>1, FS_EmptySet
    <3>3. Increasing([k \in {} |-> 0], S)
      BY <2>2, <3>1, <3>2 DEF Increasing
    <3>4. QED
      BY <2>2, <3>3
  <2>4. S # {}
    BY <2>2, <2>3, FS_EmptySet
  <2>5. PICK x \in S : \A y \in S : x <= y
    BY <2>2, <2>4, LeastNumber
  <2> DEFINE R == S \ {x}
  <2>6. IsFiniteSet(R) /\ Cardinality(R) = n - 1 /\ R \subseteq Nat
    BY <2>2, FS_RemoveElement
  <2>7. Good(n - 1)
    <3> HIDE DEF Good
    <3>1. n - 1 \in Nat /\ ~(n <= n - 1)
      BY <2>1, <2>3
    <3>2. QED
      BY <2>1, <3>1
  <2>8. PICK r : Increasing(r, R)
    <3> HIDE DEF R
    <3>1. QED
      BY <2>6, <2>7
  <2>9. r \in [1..(n-1) -> R] /\ \A j, k \in 1..(n-1) : j < k => r[j] < r[k]
    BY <2>6, <2>8 DEF Increasing
  <2> DEFINE s == [k \in 1..n |-> IF k = 1 THEN x ELSE r[k-1]]
  <2>10. \A k \in 2..n : k - 1 \in 1..(n-1) /\ s[k] = r[k-1] /\ s[k] \in R
    BY <2>1, <2>9
  <2>11. s[1] = x
    BY <2>1, <2>3
  <2>12. s \in [1..n -> S]
    BY <2>1, <2>5, <2>9
  <2>13. \A y \in R : x < y
    BY <2>2, <2>5
  <2> HIDE DEF s, R
  <2>14. ASSUME NEW j \in 1..n, NEW k \in 1..n, j < k PROVE s[j] < s[k]
    <3>1. k \in 2..n
      BY <2>1, <2>14
    <3>2. CASE j = 1
      BY <2>10, <2>11, <2>13, <3>1, <3>2
    <3>3. CASE j # 1
      <4>1. j \in 2..n /\ j - 1 < k - 1
        BY <2>1, <2>14, <3>3
      <4>2. QED
        BY <2>9, <2>10, <3>1, <4>1
    <3>4. QED
      BY <3>2, <3>3
  <2>15. Increasing(s, S)
    BY <2>2, <2>12, <2>14 DEF Increasing
  <2>16. QED
    BY <2>2, <2>15
<1>2. Good(Cardinality(T))
  BY <1>1, FS_CardinalityType
<1>3. QED
  BY <1>2

(* sorted() has the members of a set, each once.                            *)
LEMMA SortedIs ==
    ASSUME NEW T, T \subseteq Nat, IsFiniteSet(T)
    PROVE  Enumerates(Sorted(T), T) /\ Len(Sorted(T)) = Cardinality(T)
<1>1. Increasing(Sorted(T), T)
  <2>1. PICK s : Increasing(s, T)
    BY IncreasingExists
  <2>2. s \in [1..Cardinality(T) -> T] /\ \A j, k \in DOMAIN s : j < k => s[j] < s[k]
    BY <2>1 DEF Increasing
  <2>3. QED
    BY <2>2 DEF Sorted, Increasing
<1> DEFINE s == Sorted(T)
           n == Cardinality(T)
<1> HIDE DEF s
<1>2. s \in [1..n -> T] /\ (\A j, k \in 1..n : j < k => s[j] < s[k]) /\ n \in Nat
  BY <1>1, FS_CardinalityType DEF Increasing, s
<1>3. ASSUME NEW j \in 1..n, NEW k \in 1..n, s[j] = s[k] PROVE j = k
  <2>1. s[j] \in Nat /\ s[k] \in Nat
    BY <1>2
  <2>2. ~(j < k) /\ ~(k < j)
    BY <1>2, <1>3, <2>1
  <2>3. QED
    BY <1>2, <2>2
<1>4. QED
  BY <1>2, <1>3, EnumeratesIs DEF s

(* So has SetToSeq, in any order.                                           *)
LEMMA SetToSeqIs ==
    ASSUME NEW T, IsFiniteSet(T)
    PROVE  Enumerates(SetToSeq(T), T)
<1> DEFINE n == Cardinality(T)
<1>1. PICK f : f \in Bijection(1..n, T)
  BY FS_CardinalityType DEF ExistsBijection
<1>2. f \in [1..n -> T] /\ IsInjective(f)
  BY <1>1 DEF Bijection, Injection
<1>3. SetToSeq(T) \in [1..n -> T] /\ IsInjective(SetToSeq(T))
  BY <1>2 DEF SetToSeq
<1>4. QED
  BY <1>3, EnumeratesIs DEF IsInjective

----------------------------------------------------------------------------
(* Rows. *)

(* Parts of one line each are the lines.                                    *)
LEMMA LineByLine ==
    ASSUME NEW G, Sequences(G), \A j \in 1..Len(G) : Len(G[j]) = 1
    PROVE  /\ IsSeq(FlattenSeq(G)) /\ Len(FlattenSeq(G)) = Len(G)
           /\ \A j \in 1..Len(G) : FlattenSeq(G)[j] = G[j][1]
<1> DEFINE w == FlattenSeq(G)
           n == Len(G)
<1>1. IsSeq(w) /\ n \in Nat
  BY Flattened, IsSeqHas DEF Sequences
<1>2. PICK e : Joined(w, G, n, e)
  BY Flattened
<1> HIDE DEF w
<1>3. /\ e[0] = 0 /\ e[n] = Len(w)
      /\ \A j \in 1..n : e[j] = e[j-1] + 1
      /\ \A j \in 1..n : w[e[j-1] + 1] = G[j][1]
  <2>1. \A j \in 1..n : e[j] = e[j-1] + 1
    BY <1>2 DEF Joined
  <2>2. \A j \in 1..n : 1 \in 1..Len(G[j])
    OBVIOUS
  <2>3. \A j \in 1..n : w[e[j-1] + 1] = G[j][1]
    BY <1>2, <2>2 DEF Joined
  <2>4. QED
    BY <1>2, <2>1, <2>3 DEF Joined
<1>4. \A j \in 0..n : e[j] = j
  <2> DEFINE T == {j \in 0..n : e[j] # j}
  <2>1. SUFFICES ASSUME T # {} PROVE FALSE
    OBVIOUS
  <2>2. PICK j \in T : \A i \in T : j <= i
    <3>1. T \subseteq Nat
      OBVIOUS
    <3> HIDE DEF T
    <3>2. QED
      BY <2>1, <3>1, LeastNumber
  <2>3. j # 0
    BY <1>3, <2>2
  <2>4. j \in 1..n /\ j - 1 \in 0..n /\ ~(j <= j - 1)
    BY <1>1, <2>2, <2>3
  <2>5. e[j-1] = j - 1 /\ e[j] = e[j-1] + 1
    BY <1>3, <2>2, <2>4
  <2>6. e[j] = j
    BY <2>4, <2>5
  <2>7. QED
    BY <2>2, <2>6
<1>5. ASSUME NEW j \in 1..n PROVE w[j] = G[j][1]
  <2>1. j - 1 \in 0..n /\ (j - 1) + 1 = j
    BY <1>1
  <2>2. QED
    BY <1>3, <1>4, <2>1
<1>6. n \in 0..n
  BY <1>1
<1>7. QED
  BY <1>1, <1>3, <1>4, <1>5, <1>6 DEF w

LEMMA RowLineIs ==
    ASSUME NEW p, NEW d
    PROVE  RowLine(p, d).key = "row" /\ RowLine(p, d).parts = p /\ RowLine(p, d).data = d
BY DEF RowLine

(* A row for each k from 1 to n.                                            *)
LEMMA MadeRows ==
    ASSUME NEW n \in Nat, NEW p, NEW d, NEW G, G = [k \in 1..n |-> Row(p[k], d[k])]
    PROVE  /\ AllRows(FlattenSeq(G)) /\ Len(FlattenSeq(G)) = n
           /\ \A k \in 1..n : FlattenSeq(G)[k] = RowLine(p[k], d[k])
<1>1. \A k \in 1..n : G[k] = Row(p[k], d[k])
  OBVIOUS
<1>2. IsSeq(G) /\ Len(G) = n
  <2>1. G = [k \in 1..n |-> G[k]]
    OBVIOUS
  <2>2. QED
    BY <2>1, FunctionIsSeq
<1>3. \A k \in 1..n : IsSeq(G[k]) /\ Len(G[k]) = 1 /\ G[k][1] = RowLine(p[k], d[k])
  BY <1>1, OneLine
<1>4. Sequences(G)
  BY <1>2, <1>3 DEF Sequences
<1>5. /\ IsSeq(FlattenSeq(G)) /\ Len(FlattenSeq(G)) = n
      /\ \A k \in 1..n : FlattenSeq(G)[k] = G[k][1]
  BY <1>2, <1>3, <1>4, LineByLine
<1>6. \A k \in 1..n : FlattenSeq(G)[k] = RowLine(p[k], d[k])
  BY <1>3, <1>5
<1>7. \A k \in 1..n : FlattenSeq(G)[k].key = "row"
  BY <1>6, RowLineIs
<1>8. QED
  BY <1>5, <1>6, <1>7 DEF AllRows

(* Every value is in one of the lines. *)
LEMMA ChunkOf ==
    ASSUME NEW P \in Nat \ {0}, NEW size \in Nat, NEW i \in 1..size
    PROVE  \E k \in 1..((size + P - 1) \div P) : P * (k - 1) + 1 <= i /\ i <= P * k
<1> DEFINE T == {k \in Nat : i <= P * k}
<1>1. i \in T
  OBVIOUS
<1>2. PICK k \in T : \A m \in T : k <= m
  <2>1. T \subseteq Nat
    OBVIOUS
  <2> HIDE DEF T
  <2>2. QED
    BY <1>1, <2>1, LeastNumber
<1>3. k # 0
  BY <1>2
<1>4. P * (k - 1) < i
  <2>1. k - 1 \in Nat /\ ~(k <= k - 1)
    BY <1>2, <1>3
  <2>2. k - 1 \notin T
    BY <1>2, <2>1
  <2>3. P * (k - 1) \in Nat
    BY <2>1
  <2>4. QED
    BY <2>1, <2>2, <2>3
<1>5. P * k <= size + P - 1
  <2>1. P * k = P * (k - 1) + P
    BY <1>2
  <2>2. P * (k - 1) \in Int /\ P * k \in Int
    BY <1>2
  <2>3. QED
    BY <1>4, <2>1, <2>2
<1>6. k <= (size + P - 1) \div P
  <2> DEFINE a == size + P - 1
             q == a \div P
  <2>1. a \in Nat
    OBVIOUS
  <2> HIDE DEF a
  <2>2. q \in Nat /\ a < P * (q + 1)
    BY <2>1
  <2> HIDE DEF q
  <2>3. P * k < P * (q + 1)
    BY <1>2, <1>5, <2>1, <2>2 DEF a
  <2>4. k < q + 1
    BY <1>2, <2>2, <2>3
  <2>5. QED
    BY <1>2, <2>2, <2>4 DEF q, a
<1>7. P * (k - 1) + 1 <= i /\ i <= P * k /\ k \in 1..((size + P - 1) \div P)
  BY <1>2, <1>3, <1>4, <1>6
<1>8. QED
  BY <1>7

(* The lines of _set_block() hold the values that it is given, and no others. *)
LEMMA ChunksAre ==
    ASSUME NEW ids, IsSeq(ids), PerLine \in Nat \ {0}
    PROVE  /\ AllRows(Chunks(ids))
           /\ UNION {Chunks(ids)[i].data : i \in 1..Len(Chunks(ids))} = {ids[k] : k \in 1..Len(ids)}
<1> DEFINE size == Len(ids)
           n == (size + PerLine - 1) \div PerLine
           To(k) == IF PerLine * k < size THEN PerLine * k ELSE size
           Chunk(k) == SubSeq(ids, PerLine * (k - 1) + 1, To(k))
           G == [k \in 1..n |-> Row(Len(Chunk(k)), ToSet(Chunk(k)))]
           p == [k \in 1..n |-> Len(Chunk(k))]
           d == [k \in 1..n |-> ToSet(Chunk(k))]
           w == FlattenSeq(G)
<1>1. Chunks(ids) = w
  BY DEF Chunks
<1>2. size \in Nat /\ DOMAIN ids = 1..size /\ ids = [k \in 1..size |-> ids[k]]
  BY IsSeqHas
<1>3. n \in Nat
  BY <1>2
<1>4. AllRows(w) /\ Len(w) = n /\ \A k \in 1..n : w[k] = RowLine(p[k], d[k])
  <2>1. G = [k \in 1..n |-> Row(p[k], d[k])]
    OBVIOUS
  <2> HIDE DEF G, p, d, n
  <2>2. QED
    BY <1>3, <2>1, MadeRows
<1>5. \A k \in 1..n : w[k].data = ToSet(Chunk(k))
  <2> HIDE DEF w, n, Chunk
  <2>1. \A k \in 1..n : d[k] = ToSet(Chunk(k))
    OBVIOUS
  <2> HIDE DEF d, p
  <2>2. QED
    BY <1>4, <2>1, RowLineIs
<1>6. ASSUME NEW k \in 1..n PROVE ToSet(Chunk(k)) = {ids[i] : i \in (PerLine * (k - 1) + 1)..To(k)}
  <2> DEFINE a == PerLine * (k - 1) + 1
             b == To(k)
             c == Chunk(k)
             S == {ids[i] : i \in a..b}
  <2>1. a \in Int /\ b \in Int
    <3>1. PerLine * (k - 1) \in Int /\ PerLine * k \in Int
      BY <1>3
    <3>2. QED
      BY <1>2, <3>1
  <2> HIDE DEF a, b
  <2>2. /\ c \in Seq(S) /\ Len(c) = IF a <= b THEN b - a + 1 ELSE 0
        /\ \A i \in 1..(b - a + 1) : c[i] = ids[a + i - 1]
    <3>1. c = SubSeq(ids, a, b)
      BY DEF a, b
    <3>2. \A i \in a..b : ids[i] \in S
      OBVIOUS
    <3> HIDE DEF S, c
    <3>3. /\ SubSeq(ids, a, b) \in Seq(S) /\ Len(SubSeq(ids, a, b)) = IF a <= b THEN b - a + 1 ELSE 0
          /\ \A i \in 1..(b - a + 1) : SubSeq(ids, a, b)[i] = ids[a + i - 1]
      BY <2>1, <3>2, SubSeqProperties
    <3>4. QED
      BY <3>1, <3>3
  <2> HIDE DEF c
  <2>3. DOMAIN c = 1..(b - a + 1)
    BY <2>1, <2>2
  <2>4. \A i \in 1..(b - a + 1) : a + i - 1 \in a..b
    BY <2>1
  <2>5. \A i \in a..b : i - a + 1 \in 1..(b - a + 1) /\ a + (i - a + 1) - 1 = i
    BY <2>1
  <2>6. ToSet(c) = S
    <3>1. ASSUME NEW x \in ToSet(c) PROVE x \in S
      <4>1. PICK i \in 1..(b - a + 1) : x = c[i]
        BY <2>3 DEF ToSet
      <4>2. QED
        BY <2>2, <2>4, <4>1
    <3>2. ASSUME NEW i \in a..b PROVE ids[i] \in ToSet(c)
      <4>1. i - a + 1 \in DOMAIN c /\ c[i - a + 1] = ids[i]
        BY <2>2, <2>3, <2>5
      <4>2. QED
        BY <4>1 DEF ToSet
    <3>3. QED
      BY <3>1, <3>2
  <2>7. QED
    BY <2>6 DEF a, b, c
<1>7. ASSUME NEW i \in 1..size PROVE \E k \in 1..n : ids[i] \in w[k].data
  <2>1. PICK k \in 1..n : PerLine * (k - 1) + 1 <= i /\ i <= PerLine * k
    BY <1>2, ChunkOf
  <2>2. i \in (PerLine * (k - 1) + 1)..To(k)
    <3>1. PerLine * (k - 1) \in Int /\ PerLine * k \in Int
      BY <1>3
    <3>2. QED
      BY <1>2, <2>1, <3>1
  <2> HIDE DEF w, n, Chunk
  <2>3. QED
    BY <1>5, <1>6, <2>2
<1>8. ASSUME NEW k \in 1..n, NEW x \in w[k].data PROVE \E i \in 1..size : x = ids[i]
  <2> HIDE DEF w, Chunk
  <2>1. PICK i \in (PerLine * (k - 1) + 1)..To(k) : x = ids[i]
    BY <1>5, <1>6
  <2>2. i \in 1..size
    <3>1. k - 1 \in Nat
      BY <1>3
    <3>2. PerLine * (k - 1) \in Nat /\ PerLine * k \in Nat
      BY <1>3, <3>1
    <3>3. QED
      BY <1>2, <3>2
  <2>3. QED
    BY <2>1, <2>2
<1> HIDE DEF w, n
<1>9. UNION {w[k].data : k \in 1..n} = {ids[k] : k \in 1..size}
  BY <1>7, <1>8
<1>10. QED
  BY <1>1, <1>4, <1>9

----------------------------------------------------------------------------
(* Parts put together. *)

(* Parts are found again in the lines that FlattenSeq makes of them,        *)
LEMMA FlattenedParts ==
    ASSUME NEW G, IsSeq(G), \A j \in 1..Len(G) : Piece(G[j])
    PROVE  \E e : Parts(FlattenSeq(G), G, e)
<1>1. Sequences(G)
  BY DEF Sequences, Piece
<1>2. IsSeq(FlattenSeq(G)) /\ \E e : Joined(FlattenSeq(G), G, Len(G), e)
  BY <1>1, Flattened
<1>3. QED
  BY <1>2 DEF Parts

(* and two parts in A \o B.                                                 *)
LEMMA TwoParts ==
    ASSUME NEW A, Piece(A), NEW B, Piece(B)
    PROVE  \E e : e[1] = Len(A) /\ Parts(A \o B, <<A, B>>, e)
<1> DEFINE w == A \o B
           G == <<A, B>>
           e == [j \in 0..2 |-> IF j = 0 THEN 0 ELSE IF j = 1 THEN Len(A) ELSE Len(A) + Len(B)]
<1>1. IsSeq(A) /\ IsSeq(B) /\ Len(A) \in Nat /\ Len(B) \in Nat
  BY IsSeqHas DEF Piece
<1>2. /\ IsSeq(w) /\ Len(w) = Len(A) + Len(B)
      /\ \A k \in 1..Len(A) : w[k] = A[k]
      /\ \A k \in 1..Len(B) : w[Len(A) + k] = B[k]
  BY <1>1, Concatenated
<1>3. /\ Len(G) = 2 /\ G[1] = A /\ G[2] = B /\ IsSeq(G)
      /\ e[0] = 0 /\ e[1] = Len(A) /\ e[2] = Len(A) + Len(B)
  BY DEF IsSeq
<1> HIDE DEF w, G, e
<1>4. 1..2 = {1, 2} /\ 0..2 = {0, 1, 2} /\ 1 - 1 = 0 /\ 2 - 1 = 1
  OBVIOUS
<1>5. Joined(w, G, Len(G), e)
  <2>1. \A j \in {0, 1, 2} : e[j] \in Nat /\ e[j] <= Len(w)
    BY <1>1, <1>2, <1>3
  <2>2. \A j \in {1, 2} : e[j] = e[j-1] + Len(G[j])
    BY <1>1, <1>3, <1>4
  <2>3. \A j \in {1, 2} : \A m \in 1..Len(G[j]) : w[e[j-1] + m] = G[j][m]
    BY <1>1, <1>2, <1>3, <1>4
  <2>4. QED
    BY <1>2, <1>3, <1>4, <2>1, <2>2, <2>3 DEF Joined
<1>6. Parts(w, G, e)
  BY <1>2, <1>3, <1>4, <1>5 DEF Parts
<1>7. QED
  BY <1>3, <1>6 DEF w, G

(* Lines of no node, element, set of elements or section.                   *)
Loud == {"*node", "*element", "*elset", "*shell section", "*beam section"}
Quiet(L) == IsSeq(L) /\ \A k \in DOMAIN L : L[k].key \notin Loud

(* Lines that begin with a keyword. *)
Led(L) == IsSeq(L) /\ L # <<>> /\ L[1].key \notin {"row", "**"}

(* Lines that begin with a keyword are a part.                              *)
LEMMA LedPiece ==
    ASSUME NEW L, Led(L)
    PROVE  Piece(L)
<1>1. 1 \in DOMAIN L /\ DOMAIN L = 1..Len(L) /\ Len(L) \in Nat
  BY IsSeqHas DEF Led
<1>2. QED
  BY <1>1 DEF Piece, Led

LEMMA LedConcat ==
    ASSUME NEW A, Led(A), NEW B, IsSeq(B)
    PROVE  Led(A \o B)
<1> DEFINE w == A \o B
<1>1. IsSeq(A) /\ A # <<>> /\ DOMAIN A = 1..Len(A) /\ Len(A) \in Nat /\ Len(B) \in Nat
  BY IsSeqHas DEF Led
<1>2. IsSeq(w) /\ Len(w) = Len(A) + Len(B) /\ \A k \in 1..Len(A) : w[k] = A[k]
  BY <1>1, Concatenated
<1> HIDE DEF w
<1>3. Len(A) # 0
  BY <1>1 DEF Led
<1>4. w[1] = A[1] /\ w # <<>>
  BY <1>1, <1>2, <1>3
<1>5. Led(w)
  BY <1>2, <1>4 DEF Led
<1>6. QED
  BY <1>5 DEF w

LEMMA QuietConcat ==
    ASSUME NEW A, Quiet(A), NEW B, Quiet(B)
    PROVE  Quiet(A \o B)
<1> DEFINE w == A \o B
<1>1. /\ IsSeq(A) /\ DOMAIN A = 1..Len(A) /\ Len(A) \in Nat
      /\ IsSeq(B) /\ DOMAIN B = 1..Len(B) /\ Len(B) \in Nat
  BY IsSeqHas DEF Quiet
<1>2. /\ IsSeq(w) /\ Len(w) = Len(A) + Len(B)
      /\ \A k \in 1..Len(A) : w[k] = A[k]
      /\ \A k \in 1..Len(B) : w[Len(A) + k] = B[k]
  BY <1>1, Concatenated
<1> HIDE DEF w
<1>3. DOMAIN w = 1..(Len(A) + Len(B))
  BY <1>2, IsSeqHas
<1>4. ASSUME NEW k \in DOMAIN w PROVE w[k].key \notin Loud
  <2>1. CASE k <= Len(A)
    BY <1>1, <1>2, <1>3, <2>1 DEF Quiet
  <2>2. CASE ~(k <= Len(A))
    <3>1. k - Len(A) \in 1..Len(B) /\ Len(A) + (k - Len(A)) = k
      BY <1>1, <1>3, <2>2
    <3>2. w[k] = B[k - Len(A)]
      BY <1>2, <3>1
    <3>3. QED
      BY <1>1, <3>1, <3>2 DEF Quiet
  <2>3. QED
    BY <2>1, <2>2
<1>5. Quiet(w)
  BY <1>2, <1>4 DEF Quiet
<1>6. QED
  BY <1>5 DEF w

LEMMA PlainLine ==
    ASSUME NEW key
    PROVE  IsSeq(Plain(key)) /\ Len(Plain(key)) = 1 /\ Plain(key)[1].key = key
<1>1. /\ Plain(key)[1] = KeywordLine(key, DeckNone, DeckNone, DeckNone)
      /\ IsSeq(Plain(key)) /\ Len(Plain(key)) = 1
  BY OneLine DEF Plain
<1>2. QED
  BY <1>1 DEF KeywordLine

LEMMA QuietLines ==
    /\ \A key : key \notin Loud => Quiet(Plain(key))
    /\ \A key : key \notin {"row", "**"} => Led(Plain(key))
    /\ \A parts, data : Quiet(Row(parts, data))
<1>1. ASSUME NEW L, IsSeq(L), Len(L) = 1 PROVE DOMAIN L = {1} /\ L # <<>>
  BY <1>1, IsSeqHas
<1>2. \A key : /\ IsSeq(Plain(key)) /\ Len(Plain(key)) = 1
               /\ Plain(key)[1].key = key
  BY PlainLine
<1>3. \A parts, data : /\ IsSeq(Row(parts, data)) /\ Len(Row(parts, data)) = 1
                       /\ Row(parts, data)[1].key = "row"
  BY OneLine, RowLineIs
<1>4. "row" \notin Loud
  BY DEF Loud
<1>5. QED
  BY <1>1, <1>2, <1>3, <1>4 DEF Quiet, Led

----------------------------------------------------------------------------
(* Elements, their groups and the names of their sections. *)

(* A model that write_deck() accepts, and the set of the section of an element. *)
Sound(model) == IsDeckModel(model) /\ ~ModelRefused(model)

SectionName(model, id) ==
    IF Symmetry(model, id) = "orthotropic" THEN OwnSet(model, id) ELSE SetOf(model, id)

(* An element that is accepted has a type, of a beam or of a shell, and a   *)
(* material that there is.                                                  *)
LEMMA ElementIs ==
    ASSUME NEW model, Sound(model), NEW id \in DeckIds(model)
    PROVE  LET e == model.elements[id]
           IN  /\ e.count \in {2, 3, 4, 6, 8} /\ e.material \in DOMAIN model.symmetry
               /\ ElementType(e) = <<IF IsBeam(model, id) THEN "B" ELSE "S", e.count>>
<1> DEFINE e == model.elements[id]
<1>1. ElementType(e) # <<>> /\ e.material \in DOMAIN model.symmetry
  BY DEF Sound, ModelRefused, ElementsRefused
<1>2. e.family = "beam" <=> IsBeam(model, id)
  BY DEF IsBeam
<1> HIDE DEF e
<1>3. /\ e.count \in {2, 3, 4, 6, 8}
      /\ ElementType(e) = <<IF e.family = "beam" THEN "B" ELSE "S", e.count>>
  BY <1>1 DEF ElementType
<1>4. QED
  BY <1>1, <1>2, <1>3 DEF e

(* Elements of one group have one material and one set, and are all beams   *)
(* or all shells.                                                           *)
LEMMA OneGroup ==
    ASSUME NEW model, Sound(model), NEW id \in DeckIds(model), NEW other \in DeckIds(model),
           GroupOf(model, id) = GroupOf(model, other)
    PROVE  /\ model.elements[id].material = model.elements[other].material
           /\ ElementType(model.elements[id]) = ElementType(model.elements[other])
           /\ (IsBeam(model, id) <=> IsBeam(model, other))
           /\ Symmetry(model, id) = Symmetry(model, other)
           /\ SetOf(model, id) = SetOf(model, other) /\ NameOf(model, id) = NameOf(model, other)
<1> DEFINE t == ElementType(model.elements[id])
           u == ElementType(model.elements[other])
<1>1. t = u /\ model.elements[id].material = model.elements[other].material
  BY DEF GroupOf
<1>2. /\ t = <<IF IsBeam(model, id) THEN "B" ELSE "S", model.elements[id].count>>
      /\ u = <<IF IsBeam(model, other) THEN "B" ELSE "S", model.elements[other].count>>
  BY ElementIs
<1> HIDE DEF t, u
<1>3. IsBeam(model, id) <=> IsBeam(model, other)
  <2> DEFINE a == IF IsBeam(model, id) THEN "B" ELSE "S"
             b == IF IsBeam(model, other) THEN "B" ELSE "S"
  <2>1. a = b
    <3> DEFINE c == model.elements[id].count
               d == model.elements[other].count
    <3>1. t = <<a, c>> /\ u = <<b, d>>
      BY <1>2
    <3> HIDE DEF a, b, c, d
    <3>2. <<a, c>>[1] = a /\ <<b, d>>[1] = b
      OBVIOUS
    <3>3. t[1] = a /\ u[1] = b
      BY <3>1, <3>2
    <3>4. t = u
      BY <1>1
    <3>5. QED
      BY <3>3, <3>4
  <2>2. QED
    BY <2>1
<1>4. QED
  BY <1>1, <1>3 DEF t, u, Symmetry, SetOf, NameOf

(* An id at the end of a name can be read off it.                           *)
LEMMA IdIsRead ==
    ASSUME NEW name \in [stem : STRING, numbers : Seq(Nat)], NEW like \in [stem : STRING, numbers : Seq(Nat)],
           NEW id \in Nat, NEW other \in Nat, WithId(name, id) = WithId(like, other)
    PROVE  id = other
<1> DEFINE s == name.numbers
           t == like.numbers
<1>1. s \in Seq(Nat) /\ t \in Seq(Nat)
  OBVIOUS
<1>2. WithId(name, id).numbers = Append(s, id) /\ WithId(like, other).numbers = Append(t, other)
  BY DEF WithId
<1>3. Append(s, id) = Append(t, other)
  BY <1>2
<1> HIDE DEF s, t
<1>4. /\ Len(Append(s, id)) = Len(s) + 1 /\ Append(s, id)[Len(s) + 1] = id
      /\ Len(Append(t, other)) = Len(t) + 1 /\ Append(t, other)[Len(t) + 1] = other
      /\ Len(s) \in Nat /\ Len(t) \in Nat
  BY <1>1, AppendProperties
<1>5. QED
  BY <1>3, <1>4

(* The sets of single elements differ, whatever materials are called.       *)
LEMMA OwnSetsDiffer ==
    ASSUME NEW model, Sound(model), NEW id \in DeckIds(model), NEW other \in DeckIds(model),
           OwnSet(model, id) = OwnSet(model, other)
    PROVE  id = other
<1> DEFINE m == model.elements[id].material
           n == model.elements[other].material
<1>1. m \in DOMAIN model.symmetry /\ n \in DOMAIN model.symmetry
  BY ElementIs
<1>2. NameOf(model, id) = Identifier[m] /\ NameOf(model, other) = Identifier[n]
  BY DEF NameOf
<1>3. /\ Identifier[m] \in [stem : STRING, numbers : Seq(Nat)]
      /\ Identifier[n] \in [stem : STRING, numbers : Seq(Nat)] /\ id \in Nat /\ other \in Nat
  BY <1>1 DEF Sound, IsDeckModel, DeckIds
<1>4. WithId(NameOf(model, id), id) = WithId(NameOf(model, other), other)
  BY DEF OwnSet
<1>5. QED
  BY <1>2, <1>3, <1>4, IdIsRead

(* If the names of materials differ, the sets of groups and of single       *)
(* elements do, and no set is named like that of all elements.              *)
LEMMA NamesAre ==
    ASSUME NEW model, Sound(model), NamesDiffer(model), NEW id \in DeckIds(model), NEW other \in DeckIds(model)
    PROVE  /\ SetOf(model, id) = SetOf(model, other) => GroupOf(model, id) = GroupOf(model, other)
           /\ SetOf(model, id) # <<"ALL">> /\ OwnSet(model, id) # <<"ALL">>
           /\ OwnSet(model, id) # SetOf(model, other)
<1> DEFINE m == model.elements[id].material
           n == model.elements[other].material
           t == ElementType(model.elements[id])
           u == ElementType(model.elements[other])
           a == NameOf(model, id)
           b == NameOf(model, other)
           c == WithId(a, id)
<1>1. m \in DOMAIN model.symmetry /\ n \in DOMAIN model.symmetry
  BY ElementIs
<1>2. a = Identifier[m] /\ b = Identifier[n]
  BY DEF NameOf
<1>3. (a = b => m = n) /\ b # c
  BY <1>1, <1>2 DEF NamesDiffer
<1>4. /\ SetOf(model, id) = <<t, a>> /\ SetOf(model, other) = <<u, b>> /\ OwnSet(model, id) = <<t, c>>
      /\ GroupOf(model, id) = <<t, m>> /\ GroupOf(model, other) = <<u, n>>
  BY DEF SetOf, OwnSet, GroupOf
<1> HIDE DEF m, n, t, u, a, b, c
<1>5. QED
  BY <1>3, <1>4

(* An element is in its group.                                              *)
LEMMA MembersAre ==
    ASSUME NEW model, NEW id \in DeckIds(model)
    PROVE  /\ id \in Members(model, id) /\ Members(model, id) \subseteq DeckIds(model)
           /\ \A other \in Members(model, id) : GroupOf(model, other) = GroupOf(model, id)
BY DEF Members

(* Elements of one name are of one group, and one if it is orthotropic.     *)
LEMMA SectionNames ==
    ASSUME NEW model, Sound(model), NamesDiffer(model), NEW id \in DeckIds(model), NEW other \in DeckIds(model)
    PROVE  /\ SectionName(model, id) = SectionName(model, other) =>
                /\ GroupOf(model, id) = GroupOf(model, other)
                /\ Symmetry(model, id) = "orthotropic" => id = other
           /\ GroupOf(model, id) = GroupOf(model, other) /\ Symmetry(model, id) # "orthotropic" =>
                SectionName(model, id) = SectionName(model, other)
           /\ SectionName(model, id) # <<"ALL">>
<1>1. /\ SetOf(model, id) = SetOf(model, other) => GroupOf(model, id) = GroupOf(model, other)
      /\ SetOf(model, id) # <<"ALL">> /\ OwnSet(model, id) # <<"ALL">>
      /\ OwnSet(model, id) # SetOf(model, other)
  BY NamesAre
<1>2. OwnSet(model, other) # SetOf(model, id)
  BY NamesAre
<1>3. GroupOf(model, id) = GroupOf(model, other) =>
         Symmetry(model, id) = Symmetry(model, other) /\ SetOf(model, id) = SetOf(model, other)
  BY OneGroup
<1>4. OwnSet(model, id) = OwnSet(model, other) => id = other
  BY OwnSetsDiffer
<1>5. QED
  BY <1>1, <1>2, <1>3, <1>4 DEF SectionName

(* The first elements of groups.                                            *)
LeaderIds(model) == {id \in DeckIds(model) : \A other \in Members(model, id) : id <= other}

(* Every element is in the group of exactly one of them.                    *)
LEMMA LeadersAre ==
    ASSUME NEW model, Sound(model)
    PROVE  /\ Enumerates(Leaders(model), LeaderIds(model))
           /\ LeaderIds(model) \subseteq DeckIds(model)
           /\ \A id \in DeckIds(model) : \E l \in LeaderIds(model) : id \in Members(model, l)
           /\ \A l, m \in LeaderIds(model) : GroupOf(model, l) = GroupOf(model, m) => l = m
           /\ UNION {Members(model, l) : l \in LeaderIds(model)} = DeckIds(model)
<1>1. DeckIds(model) \subseteq Nat /\ IsFiniteSet(DeckIds(model))
  BY DEF Sound, IsDeckModel, DeckIds
<1>2. LeaderIds(model) \subseteq DeckIds(model)
  BY DEF LeaderIds
<1>3. LeaderIds(model) \subseteq Nat /\ IsFiniteSet(LeaderIds(model))
  BY <1>1, <1>2, FS_Subset
<1>4. Enumerates(Leaders(model), LeaderIds(model))
  BY <1>3, SortedIs DEF Leaders, LeaderIds
<1>5. ASSUME NEW id \in DeckIds(model) PROVE \E l \in LeaderIds(model) : id \in Members(model, l)
  <2>1. id \in Members(model, id) /\ Members(model, id) \subseteq DeckIds(model)
    BY MembersAre
  <2>2. Members(model, id) \subseteq Nat /\ Members(model, id) # {}
    BY <1>1, <2>1
  <2>3. PICK l \in Members(model, id) : \A other \in Members(model, id) : l <= other
    BY <2>2, LeastNumber
  <2>4. l \in DeckIds(model) /\ GroupOf(model, l) = GroupOf(model, id)
    BY DEF Members
  <2>5. Members(model, l) = Members(model, id)
    BY <2>4 DEF Members
  <2>6. QED
    BY <2>1, <2>3, <2>4, <2>5 DEF LeaderIds
<1>6. ASSUME NEW l \in LeaderIds(model), NEW m \in LeaderIds(model), GroupOf(model, l) = GroupOf(model, m)
      PROVE  l = m
  <2>1. l \in Members(model, m) /\ m \in Members(model, l)
    BY <1>2, <1>6 DEF Members
  <2>2. l <= m /\ m <= l /\ l \in Nat /\ m \in Nat
    BY <1>3, <2>1 DEF LeaderIds
  <2>3. QED
    BY <2>2
<1>7. UNION {Members(model, l) : l \in LeaderIds(model)} = DeckIds(model)
  <2>1. \A l \in LeaderIds(model) : Members(model, l) \subseteq DeckIds(model)
    BY <1>2, MembersAre
  <2>2. QED
    BY <1>5, <2>1
<1>8. QED
  BY <1>2, <1>4, <1>5, <1>6, <1>7

----------------------------------------------------------------------------
(* Blocks of one keyword. *)

(* A keyword with the name of a set and rows, which hold T.                 *)
HeadOf(L, key, set, T) ==
    /\ Piece(L) /\ 1 \in DOMAIN L /\ L[1].key = key /\ L[1].set = set
    /\ \A k \in DOMAIN L : k # 1 => L[k].key = "row"
    /\ Data(L, 1) = T

(* A keyword and rows hold what the rows hold,                              *)
LEMMA HeadedIs ==
    ASSUME NEW key, key \notin {"row", "**"}, NEW set, NEW m, NEW a, NEW R, AllRows(R)
    PROVE  HeadOf(Keyword(key, set, m, a) \o R, key, set, UNION {R[i].data : i \in 1..Len(R)})
<1> DEFINE line == KeywordLine(key, set, m, a)
           L == Keyword(key, set, m, a) \o R
<1>1. Headed(L, line, R)
  BY KeywordAndRows
<1>2. line.key = key /\ line.set = set
  BY DEF KeywordLine
<1> HIDE DEF line, L
<1>3. /\ Piece(L) /\ DOMAIN L = 1..(1 + Len(R)) /\ Len(R) \in Nat
      /\ L[1] = line
      /\ \A k \in 2..(1 + Len(R)) : L[k].key = "row"
      /\ Data(L, 1) = UNION {R[i].data : i \in 1..Len(R)}
  BY <1>1 DEF Headed
<1>4. 1 \in DOMAIN L /\ \A k \in DOMAIN L : k # 1 => k \in 2..(1 + Len(R))
  BY <1>3
<1>5. HeadOf(L, key, set, UNION {R[i].data : i \in 1..Len(R)})
  BY <1>2, <1>3, <1>4 DEF HeadOf
<1>6. QED
  BY <1>5 DEF L

(* and if the keyword makes a set, this is in it.                           *)
LEMMA HeadInSet ==
    ASSUME NEW L, NEW key, NEW set, NEW T, HeadOf(L, key, set, T), NEW name
    PROVE  InSet(L, name) = IF key \in {"*element", "*elset"} /\ set = name THEN T ELSE {}
<1>1. CASE key \in {"*element", "*elset"} /\ set = name
  <2>1. SetLines(L, name) = {1}
    BY <1>1 DEF SetLines, HeadOf
  <2>2. InSet(L, name) = Data(L, 1)
    BY <2>1, InSetIs
  <2>3. QED
    BY <1>1, <2>2 DEF HeadOf
<1>2. CASE ~(key \in {"*element", "*elset"} /\ set = name)
  <2>1. \A k \in DOMAIN L : L[k].key \notin {"*element", "*elset"} \/ L[k].set # name
    BY <1>2 DEF HeadOf
  <2>2. QED
    BY <1>2, <2>1, NoneInSet
<1>3. QED
  BY <1>1, <1>2

(* _set_block() makes a set of all ids, if there are any.                   *)
LEMMA SetBlockIs ==
    ASSUME NEW kind, kind \notin {"row", "**"}, NEW name, NEW ids, ids \subseteq Nat, IsFiniteSet(ids),
           PerLine \in Nat \ {0}
    PROVE  /\ ids = {} => SetBlock(kind, name, ids) = <<>>
           /\ HeadOf(Keyword(kind, name, DeckNone, DeckNone) \o Chunks(Sorted(ids)), kind, name, ids)
           /\ ids # {} => HeadOf(SetBlock(kind, name, ids), kind, name, ids)
<1> DEFINE s == Sorted(ids)
           R == Chunks(s)
           L == Keyword(kind, name, DeckNone, DeckNone) \o R
<1>1. Enumerates(s, ids)
  BY SortedIs
<1> HIDE DEF s, R
<1>2. IsSeq(s) /\ {s[k] : k \in 1..Len(s)} = ids
  <2>1. IsSeq(s) /\ (\A k \in 1..Len(s) : s[k] \in ids) /\ \A t \in ids : \E k \in 1..Len(s) : s[k] = t
    BY <1>1 DEF Enumerates
  <2>2. \A t : t \in ids <=> \E k \in 1..Len(s) : t = s[k]
    BY <2>1
  <2>3. QED
    BY <2>1, <2>2
<1>3. AllRows(R) /\ UNION {R[i].data : i \in 1..Len(R)} = ids
  BY <1>2, ChunksAre DEF R
<1>4. HeadOf(L, kind, name, UNION {R[i].data : i \in 1..Len(R)})
  <2>1. AllRows(R)
    BY <1>3
  <2>2. HeadOf(Keyword(kind, name, DeckNone, DeckNone) \o R, kind, name, UNION {R[i].data : i \in 1..Len(R)})
    BY <2>1, HeadedIs
  <2>3. QED
    BY <2>2
<1> HIDE DEF L
<1>5. HeadOf(L, kind, name, ids)
  BY <1>3, <1>4
<1>6. ids # {} => SetBlock(kind, name, ids) = L
  BY DEF SetBlock, L, R, s
<1>7. ids = {} => SetBlock(kind, name, ids) = <<>>
  BY DEF SetBlock
<1>8. QED
  BY <1>5, <1>6, <1>7 DEF L, R, s

(* Rows of one value each are a list of the values.                         *)
ListedRows(ids, c) == FlattenSeq([k \in DOMAIN ids |-> Row(c[ids[k]], {ids[k]})])

(* One row for each id: they are the rows that are counted, and in the set. *)
LEMMA RowByRow ==
    ASSUME NEW T, NEW ids, Enumerates(ids, T), NEW c, NEW parts, \A t \in T : c[t] >= parts,
           NEW key, key \notin {"row", "**"}, NEW set
    PROVE  /\ HeadOf(Keyword(key, set, DeckNone, DeckNone) \o ListedRows(ids, c), key, set, T)
           /\ Lists(Keyword(key, set, DeckNone, DeckNone) \o ListedRows(ids, c), key, parts, T)
<1> DEFINE n == Len(ids)
           p == [k \in 1..n |-> c[ids[k]]]
           d == [k \in 1..n |-> {ids[k]}]
           G == [k \in DOMAIN ids |-> Row(c[ids[k]], {ids[k]})]
           R == ListedRows(ids, c)
           L == Keyword(key, set, DeckNone, DeckNone) \o R
           line == KeywordLine(key, set, DeckNone, DeckNone)
<1>1. n \in Nat /\ DOMAIN ids = 1..n
  BY IsSeqHas DEF Enumerates
<1>2. G = [k \in 1..n |-> Row(p[k], d[k])]
  BY <1>1
<1>3. \A k \in 1..n : p[k] = c[ids[k]] /\ d[k] = {ids[k]}
  OBVIOUS
<1>4. R = FlattenSeq(G)
  BY DEF ListedRows
<1> HIDE DEF p, d, n, G, R
<1>5. AllRows(R) /\ Len(R) = n /\ \A k \in 1..n : R[k] = RowLine(p[k], d[k])
  BY <1>1, <1>2, <1>4, MadeRows
<1>6. \A k \in 1..n : R[k].parts = c[ids[k]] /\ R[k].data = {ids[k]}
  BY <1>3, <1>5, RowLineIs
<1>7. /\ \A k \in 1..n : ids[k] \in T
      /\ \A t \in T : \E k \in 1..n : ids[k] = t
      /\ \A j, k \in 1..n : ids[j] = ids[k] => j = k
  BY DEF Enumerates, n
<1>8. UNION {R[i].data : i \in 1..Len(R)} = T
  BY <1>5, <1>6, <1>7
<1>9. HeadOf(L, key, set, UNION {R[i].data : i \in 1..Len(R)})
  <2> HIDE DEF line
  <2>1. QED
    BY <1>5, HeadedIs
<1>10. Headed(L, line, R)
  BY <1>5, KeywordAndRows
<1>11. line.key = key
  BY DEF KeywordLine
<1> HIDE DEF line, L
<1>12. Counted(L, key, parts) = {1 + i : i \in 1..n}
  <2>1. Counted(L, line.key, parts) = {1 + i : i \in {k \in 1..Len(R) : R[k].parts >= parts}}
    BY <1>10 DEF Headed
  <2>2. {k \in 1..Len(R) : R[k].parts >= parts} = 1..n
    BY <1>5, <1>6, <1>7
  <2>3. QED
    BY <1>11, <2>1, <2>2
<1>13. \A i \in 1..n : L[1 + i].data = {ids[i]}
  BY <1>5, <1>6, <1>10 DEF Headed
<1>14. Lists(L, key, parts, T)
  <2>1. \A k \in Counted(L, key, parts) : \E i \in 1..n : k = 1 + i
    BY <1>12
  <2>2. \A i \in 1..n : 1 + i \in Counted(L, key, parts)
    BY <1>12
  <2> DEFINE C == Counted(L, key, parts)
  <2>3. \A k \in C : \E t \in T : L[k].data = {t}
    <3> HIDE DEF C
    <3>1. QED
      BY <1>7, <1>13, <2>1 DEF C
  <2>4. \A t \in T : \E k \in C : L[k].data = {t}
    BY <1>7, <1>13, <2>2
  <2>5. \A k, l \in C : L[k].data = L[l].data => k = l
    BY <1>7, <1>13, <2>1
  <2>6. QED
    BY <2>3, <2>4, <2>5 DEF Lists
<1>15. QED
  BY <1>8, <1>9, <1>14 DEF L, R

(* _node_block() has a row for each node.                                   *)
LEMMA NodeBlockIs ==
    ASSUME NEW model, IsDeckModel(model)
    PROVE  /\ HeadOf(NodeBlock(model), "*node", DeckNone, 1..model.nodes)
           /\ Lists(NodeBlock(model), "*node", 4, 1..model.nodes)
<1> DEFINE T == 1..model.nodes
           ids == Sorted(T)
           c == [t \in T |-> 4]
<1>1. model.nodes \in Nat
  BY DEF IsDeckModel
<1>2. T \subseteq Nat /\ IsFiniteSet(T)
  BY <1>1, FS_Interval
<1>3. Enumerates(ids, T)
  BY <1>2, SortedIs
<1>4. \A t \in T : c[t] = 4 /\ c[t] >= 4
  OBVIOUS
<1>5. NodeBlock(model) = Keyword("*node", DeckNone, DeckNone, DeckNone)
                         \o FlattenSeq([k \in DOMAIN ids |-> Row(4, {ids[k]})])
  BY DEF NodeBlock, Plain, RowsOf
<1> HIDE DEF ids, c, T
<1>6. ListedRows(ids, c) = FlattenSeq([k \in DOMAIN ids |-> Row(4, {ids[k]})])
  <2>1. \A k \in DOMAIN ids : c[ids[k]] = 4
    BY <1>3, <1>4, IsSeqHas DEF Enumerates
  <2>2. [k \in DOMAIN ids |-> Row(c[ids[k]], {ids[k]})] = [k \in DOMAIN ids |-> Row(4, {ids[k]})]
    BY <2>1
  <2>3. QED
    BY <2>2 DEF ListedRows
<1>7. /\ HeadOf(Keyword("*node", DeckNone, DeckNone, DeckNone) \o ListedRows(ids, c), "*node", DeckNone, T)
      /\ Lists(Keyword("*node", DeckNone, DeckNone, DeckNone) \o ListedRows(ids, c), "*node", 4, T)
  BY <1>3, <1>4, RowByRow
<1>8. QED
  BY <1>6, <1>5, <1>7 DEF T

----------------------------------------------------------------------------
(* The element blocks. *)

(* What stands where in parts, by the line of the part.                     *)
LEMMA LinesOfParts ==
    ASSUME NEW w, NEW G, NEW e, Parts(w, G, e)
    PROVE  /\ \A p \in DOMAIN w : \E j \in 1..Len(G) : \E m \in DOMAIN G[j] : p = e[j-1] + m /\ w[p] = G[j][m]
           /\ \A j \in 1..Len(G) : \A m \in DOMAIN G[j] :
                 e[j-1] + m \in DOMAIN w /\ w[e[j-1] + m] = G[j][m]
<1>1. ASSUME NEW j \in 1..Len(G), NEW m \in DOMAIN G[j]
      PROVE  e[j-1] + m \in DOMAIN w /\ w[e[j-1] + m] = G[j][m]
  <2>1. /\ e[j-1] \in Nat /\ e[j-1] + Len(G[j]) <= Len(w)
        /\ \A k \in 1..Len(G[j]) : w[e[j-1] + k] = G[j][k]
    BY PartAt DEF At
  <2>2. m \in 1..Len(G[j]) /\ Len(G[j]) \in Nat /\ DOMAIN w = 1..Len(w) /\ Len(w) \in Nat
    BY PartsHave
  <2>3. e[j-1] + m \in DOMAIN w
    BY <2>1, <2>2
  <2>4. QED
    BY <2>1, <2>2, <2>3
<1>2. ASSUME NEW p \in DOMAIN w
      PROVE  \E j \in 1..Len(G) : \E m \in DOMAIN G[j] : p = e[j-1] + m /\ w[p] = G[j][m]
  <2>1. PICK j \in 1..Len(G) : \E m \in DOMAIN G[j] : p = e[j-1] + m
    BY PartOf
  <2>2. PICK m \in DOMAIN G[j] : p = e[j-1] + m
    BY <2>1
  <2>3. QED
    BY <1>1, <2>2
<1>3. QED
  BY <1>1, <1>2

(* A keyword of lines is one of their parts.                                *)
LEMMA KeysOfParts ==
    ASSUME NEW w, NEW G, NEW e, Parts(w, G, e), NEW K,
           \A j \in 1..Len(G) : \A m \in DOMAIN G[j] : G[j][m].key \in K
    PROVE  \A p \in DOMAIN w : w[p].key \in K
<1>1. SUFFICES ASSUME NEW p \in DOMAIN w PROVE w[p].key \in K
  OBVIOUS
<1>2. PICK j \in 1..Len(G) : \E m \in DOMAIN G[j] : p = e[j-1] + m /\ w[p] = G[j][m]
  BY LinesOfParts
<1>3. QED
  BY <1>2

(* An element block has a row for each member of its group.                 *)
LEMMA ElementBlockIs ==
    ASSUME NEW model, Sound(model), NEW id \in DeckIds(model)
    PROVE  /\ HeadOf(ElementBlock(model, id), "*element", SetOf(model, id), Members(model, id))
           /\ Lists(ElementBlock(model, id), "*element", 2, Members(model, id))
<1> DEFINE T == Members(model, id)
           ids == Sorted(T)
           c == [t \in T |-> 1 + model.elements[t].count]
           name == SetOf(model, id)
<1>1. T \subseteq DeckIds(model) /\ DeckIds(model) \subseteq Nat /\ IsFiniteSet(DeckIds(model))
  BY DEF Members, Sound, IsDeckModel, DeckIds
<1>2. T \subseteq Nat /\ IsFiniteSet(T)
  BY <1>1, FS_Subset
<1>3. Enumerates(ids, T)
  BY <1>2, SortedIs
<1>4. \A t \in T : c[t] = 1 + model.elements[t].count /\ c[t] >= 2
  <2>1. SUFFICES ASSUME NEW t \in T PROVE 1 + model.elements[t].count >= 2
    OBVIOUS
  <2>2. model.elements[t].count \in {2, 3, 4, 6, 8}
    BY <1>1, ElementIs
  <2>3. QED
    BY <2>2
<1>5. ElementBlock(model, id) = Keyword("*element", name, DeckNone, DeckNone)
        \o FlattenSeq([k \in DOMAIN ids |-> Row(1 + model.elements[ids[k]].count, {ids[k]})])
  BY DEF ElementBlock, RowsOf
<1> HIDE DEF ids, c, T, name
<1>6. ListedRows(ids, c) = FlattenSeq([k \in DOMAIN ids |-> Row(1 + model.elements[ids[k]].count, {ids[k]})])
  <2>1. \A k \in DOMAIN ids : c[ids[k]] = 1 + model.elements[ids[k]].count
    BY <1>3, <1>4, IsSeqHas DEF Enumerates
  <2>2. [k \in DOMAIN ids |-> Row(c[ids[k]], {ids[k]})]
          = [k \in DOMAIN ids |-> Row(1 + model.elements[ids[k]].count, {ids[k]})]
    BY <2>1
  <2>3. QED
    BY <2>2 DEF ListedRows
<1>7. /\ HeadOf(Keyword("*element", name, DeckNone, DeckNone) \o ListedRows(ids, c), "*element", name, T)
      /\ Lists(Keyword("*element", name, DeckNone, DeckNone) \o ListedRows(ids, c), "*element", 2, T)
  BY <1>3, <1>4, RowByRow
<1>8. QED
  BY <1>5, <1>6, <1>7 DEF T, name

(* _element_blocks(): all elements are counted, and are in a set of their name. *)
LEMMA ElementBlocksAre ==
    ASSUME NEW model, Sound(model)
    PROVE  /\ Piece(ElementBlocks(model))
           /\ \A k \in DOMAIN ElementBlocks(model) : ElementBlocks(model)[k].key \in {"*element", "row"}
           /\ Lists(ElementBlocks(model), "*element", 2, DeckIds(model))
           /\ \A name : InSet(ElementBlocks(model), name)
                          = {id \in DeckIds(model) : SetOf(model, id) = name}
<1> DEFINE lead == Leaders(model)
           n == Len(lead)
           G == [k \in DOMAIN lead |-> ElementBlock(model, lead[k])]
           T == [k \in 1..n |-> Members(model, lead[k])]
           w == ElementBlocks(model)
<1>1. w = FlattenSeq(G)
  BY DEF ElementBlocks, RowsOf
<1>2. /\ Enumerates(lead, LeaderIds(model)) /\ LeaderIds(model) \subseteq DeckIds(model)
      /\ \A id \in DeckIds(model) : \E l \in LeaderIds(model) : id \in Members(model, l)
      /\ \A l, m \in LeaderIds(model) : GroupOf(model, l) = GroupOf(model, m) => l = m
      /\ UNION {Members(model, l) : l \in LeaderIds(model)} = DeckIds(model)
  BY LeadersAre
<1> HIDE DEF lead, w
<1>3. /\ n \in Nat /\ DOMAIN lead = 1..n
      /\ \A k \in 1..n : lead[k] \in LeaderIds(model) /\ lead[k] \in DeckIds(model)
      /\ \A l \in LeaderIds(model) : \E k \in 1..n : lead[k] = l
      /\ \A j, k \in 1..n : lead[j] = lead[k] => j = k
  BY <1>2, IsSeqHas DEF Enumerates
<1>4. IsSeq(G) /\ Len(G) = n /\ \A k \in 1..n : G[k] = ElementBlock(model, lead[k])
  <2>1. G = [k \in 1..n |-> G[k]] /\ \A k \in 1..n : G[k] = ElementBlock(model, lead[k])
    BY <1>3
  <2> HIDE DEF G
  <2>2. QED
    BY <1>3, <2>1, FunctionIsSeq
<1>5. \A k \in 1..n : T[k] = Members(model, lead[k])
  OBVIOUS
<1> HIDE DEF G, T, n
<1>6. \A k \in 1..n : /\ HeadOf(G[k], "*element", SetOf(model, lead[k]), T[k])
                      /\ Lists(G[k], "*element", 2, T[k])
  BY <1>3, <1>4, <1>5, ElementBlockIs
<1>7. \A k \in 1..n : Piece(G[k]) /\ \A m \in DOMAIN G[k] : G[k][m].key \in {"*element", "row"}
  BY <1>6 DEF HeadOf
<1>8. PICK e : Parts(w, G, e)
  BY <1>1, <1>4, <1>7, FlattenedParts
<1>9. Piece(w)
  BY <1>8, PartsPiece
<1>10. \A k \in DOMAIN w : w[k].key \in {"*element", "row"}
  BY <1>4, <1>7, <1>8, KeysOfParts
<1>11. UNION {T[k] : k \in 1..n} = DeckIds(model)
  <2>1. \A k \in 1..n : T[k] \subseteq DeckIds(model)
    BY <1>3, <1>5, MembersAre
  <2>2. \A id \in DeckIds(model) : \E k \in 1..n : id \in T[k]
    <3>1. SUFFICES ASSUME NEW id \in DeckIds(model) PROVE \E k \in 1..n : id \in T[k]
      OBVIOUS
    <3>2. PICK l \in LeaderIds(model) : id \in Members(model, l)
      BY <1>2
    <3>3. PICK k \in 1..n : lead[k] = l
      BY <1>3
    <3>4. QED
      BY <1>5, <3>2, <3>3
  <2>3. QED
    BY <2>1, <2>2
<1>12. \A i, j \in 1..n : i # j => T[i] \cap T[j] = {}
  <2>1. SUFFICES ASSUME NEW i \in 1..n, NEW j \in 1..n, NEW id, id \in T[i], id \in T[j] PROVE i = j
    OBVIOUS
  <2>2. GroupOf(model, id) = GroupOf(model, lead[i]) /\ GroupOf(model, id) = GroupOf(model, lead[j])
    BY <1>5, <2>1 DEF Members
  <2>3. QED
    BY <1>2, <1>3, <2>2
<1>13. Lists(w, "*element", 2, UNION {T[k] : k \in 1..n})
  <2>1. \A j \in 1..Len(G) : Lists(G[j], "*element", 2, T[j])
    BY <1>4, <1>6
  <2>2. \A i, j \in 1..Len(G) : i # j => T[i] \cap T[j] = {}
    BY <1>4, <1>12
  <2>3. Lists(w, "*element", 2, UNION {T[j] : j \in 1..Len(G)})
    BY <1>8, <2>1, <2>2, ListsOfParts
  <2>4. QED
    BY <1>4, <2>3
<1>14. ASSUME NEW name PROVE InSet(w, name) = {id \in DeckIds(model) : SetOf(model, id) = name}
  <2>1. InSet(w, name) = UNION {InSet(G[j], name) : j \in 1..n}
    BY <1>4, <1>8, InSetOfParts
  <2>2. \A j \in 1..n : InSet(G[j], name) = IF SetOf(model, lead[j]) = name THEN T[j] ELSE {}
    <3>1. SUFFICES ASSUME NEW j \in 1..n
                   PROVE  InSet(G[j], name) = IF SetOf(model, lead[j]) = name THEN T[j] ELSE {}
      OBVIOUS
    <3>2. HeadOf(G[j], "*element", SetOf(model, lead[j]), T[j])
      BY <1>6
    <3>3. QED
      BY <3>2, HeadInSet
  <2>3. \A j \in 1..n : \A id \in T[j] : id \in DeckIds(model) /\ SetOf(model, id) = SetOf(model, lead[j])
    <3>1. SUFFICES ASSUME NEW j \in 1..n, NEW id \in T[j]
                   PROVE  id \in DeckIds(model) /\ SetOf(model, id) = SetOf(model, lead[j])
      OBVIOUS
    <3>2. id \in DeckIds(model) /\ GroupOf(model, id) = GroupOf(model, lead[j])
      BY <1>5, <3>1 DEF Members
    <3>3. QED
      BY <1>3, <3>2, OneGroup
  <2>4. ASSUME NEW id \in InSet(w, name) PROVE id \in DeckIds(model) /\ SetOf(model, id) = name
    <3>1. PICK j \in 1..n : id \in InSet(G[j], name)
      BY <2>1
    <3>2. QED
      BY <2>2, <2>3, <3>1
  <2>5. ASSUME NEW id \in DeckIds(model), SetOf(model, id) = name PROVE id \in InSet(w, name)
    <3>1. PICK j \in 1..n : id \in T[j]
      BY <1>11
    <3>2. id \in InSet(G[j], name)
      BY <2>2, <2>3, <2>5, <3>1
    <3>3. QED
      BY <2>1, <3>2
  <2>6. QED
    BY <2>4, <2>5
<1>15. QED
  BY <1>9, <1>10, <1>11, <1>13, <1>14 DEF w

----------------------------------------------------------------------------
(* Sections. *)

(* The lines that give elements a section.                                  *)
SectionKeys == {"*shell section", "*beam section"}
SectionLines(L) == {k \in DOMAIN L : L[k].key \in SectionKeys}

(* The section at line k is one for the element id.                         *)
Says(L, k, model, id) ==
    /\ L[k].material = NameOf(model, id)
    /\ k + 1 \in DOMAIN L /\ \E d \in Given(model, id) : L[k + 1].data = {d}
    /\ model.elements[id].family # "beam" /\ model.elements[id].thickness # DeckNone =>
          L[k + 1].data = {model.elements[id].thickness}
    /\ Symmetry(model, id) = "orthotropic" => L[k].axes = model.elements[id].orientation

(* L has the sections of the elements M, one for each name of a section,    *)
(* and the sets of these names.                                             *)
SectionsSay(L, model, M) ==
    /\ Piece(L) /\ \A k \in DOMAIN L : L[k].key \notin {"*node", "*element"}
    /\ \A k \in SectionLines(L) :
          /\ \E id \in M : SectionName(model, id) = L[k].set
          /\ \A id \in M : SectionName(model, id) = L[k].set => Says(L, k, model, id)
    /\ \A id \in M : \E k \in SectionLines(L) : L[k].set = SectionName(model, id)
    /\ \A k, l \in SectionLines(L) : L[k].set = L[l].set => k = l
    /\ \A name : InSet(L, name) = {id \in M : SectionName(model, id) = name}

(* L has no lines under which nodes or elements are counted.                *)
Uncounted(L) == Piece(L) /\ \A k \in DOMAIN L : L[k].key \notin {"*node", "*element"}

(* Says() of a part is said by the lines it stands in.                      *)
LEMMA SaysAt ==
    ASSUME NEW w, NEW G, NEW e, Parts(w, G, e), NEW j \in 1..Len(G), NEW m \in DOMAIN G[j],
           NEW model, NEW id, Says(G[j], m, model, id)
    PROVE  Says(w, e[j-1] + m, model, id)
<1>1. w[e[j-1] + m] = G[j][m]
  BY LinesOfParts
<1>2. ASSUME m + 1 \in DOMAIN G[j]
      PROVE  (e[j-1] + m) + 1 \in DOMAIN w /\ w[(e[j-1] + m) + 1] = G[j][m + 1]
  <2>1. e[j-1] + (m + 1) \in DOMAIN w /\ w[e[j-1] + (m + 1)] = G[j][m + 1]
    BY <1>2, LinesOfParts
  <2>2. e[j-1] \in Nat /\ m \in Nat
    <3>1. \A i \in 0..Len(G) : e[i] \in Nat
      BY PartsHave
    <3>2. j - 1 \in 0..Len(G) /\ m \in 1..Len(G[j])
      BY PartsHave
    <3>3. QED
      BY <3>1, <3>2
  <2>3. e[j-1] + (m + 1) = (e[j-1] + m) + 1
    BY <2>2
  <2>4. QED
    BY <2>1, <2>3
<1> DEFINE p == e[j-1] + m
<1> HIDE DEF p
<1>3. w[p] = G[j][m] /\ (m + 1 \in DOMAIN G[j] => p + 1 \in DOMAIN w /\ w[p + 1] = G[j][m + 1])
  BY <1>1, <1>2 DEF p
<1>4. Says(w, p, model, id)
  BY <1>3 DEF Says
<1>5. QED
  BY <1>4 DEF p

(* Sections of parts are those of the whole, if the sets have different names. *)
LEMMA SectionsOfParts ==
    ASSUME NEW w, NEW G, NEW e, Parts(w, G, e), NEW model, NEW M,
           \A j \in 1..Len(G) : SectionsSay(G[j], model, M[j]),
           \A i, j \in 1..Len(G) : i # j =>
              \A id \in M[i] : \A other \in M[j] : SectionName(model, id) # SectionName(model, other)
    PROVE  SectionsSay(w, model, UNION {M[j] : j \in 1..Len(G)})
<1> DEFINE U == UNION {M[j] : j \in 1..Len(G)}
           n == Len(G)
<1>1. \A id : id \in U <=> \E j \in 1..n : id \in M[j]
  OBVIOUS
<1> HIDE DEF U
<1>2. Piece(w)
  BY PartsPiece
<1>3. ASSUME NEW p \in DOMAIN w
      PROVE  \E j \in 1..n : \E m \in DOMAIN G[j] : p = e[j-1] + m /\ w[p] = G[j][m]
  BY LinesOfParts
<1>4. ASSUME NEW j \in 1..n, NEW m \in DOMAIN G[j]
      PROVE  e[j-1] + m \in DOMAIN w /\ w[e[j-1] + m] = G[j][m]
  BY LinesOfParts
<1>5. \A k \in DOMAIN w : w[k].key \notin {"*node", "*element"}
  <2>1. SUFFICES ASSUME NEW p \in DOMAIN w PROVE w[p].key \notin {"*node", "*element"}
    OBVIOUS
  <2>2. PICK j \in 1..n : \E m \in DOMAIN G[j] : p = e[j-1] + m /\ w[p] = G[j][m]
    BY <1>3
  <2>3. \A m \in DOMAIN G[j] : G[j][m].key \notin {"*node", "*element"}
    BY DEF SectionsSay
  <2>4. QED
    BY <2>2, <2>3
<1>6. ASSUME NEW k \in SectionLines(w)
      PROVE  \E j \in 1..n : \E m \in SectionLines(G[j]) : k = e[j-1] + m /\ w[k] = G[j][m]
  <2>1. k \in DOMAIN w /\ w[k].key \in SectionKeys
    BY DEF SectionLines
  <2>2. PICK j \in 1..n : \E m \in DOMAIN G[j] : k = e[j-1] + m /\ w[k] = G[j][m]
    BY <1>3, <2>1
  <2>3. PICK m \in DOMAIN G[j] : k = e[j-1] + m /\ w[k] = G[j][m]
    BY <2>2
  <2>4. m \in SectionLines(G[j])
    BY <2>1, <2>3 DEF SectionLines
  <2>5. QED
    BY <2>3, <2>4
<1>7. ASSUME NEW i \in 1..n, NEW j \in 1..n, NEW id \in M[i], NEW other \in M[j],
             SectionName(model, id) = SectionName(model, other)
      PROVE  i = j
  BY <1>7
<1>8. ASSUME NEW j \in 1..n
      PROVE  /\ \A k \in SectionLines(G[j]) :
                  /\ \E id \in M[j] : SectionName(model, id) = G[j][k].set
                  /\ \A id \in M[j] : SectionName(model, id) = G[j][k].set => Says(G[j], k, model, id)
             /\ \A id \in M[j] : \E k \in SectionLines(G[j]) : G[j][k].set = SectionName(model, id)
             /\ \A k, l \in SectionLines(G[j]) : G[j][k].set = G[j][l].set => k = l
             /\ \A name : InSet(G[j], name) = {id \in M[j] : SectionName(model, id) = name}
  BY DEF SectionsSay
<1>9. ASSUME NEW k \in SectionLines(w)
      PROVE  /\ \E id \in U : SectionName(model, id) = w[k].set
             /\ \A id \in U : SectionName(model, id) = w[k].set => Says(w, k, model, id)
  <2>1. PICK j \in 1..n : \E m \in SectionLines(G[j]) : k = e[j-1] + m /\ w[k] = G[j][m]
    BY <1>6
  <2>2. PICK m \in SectionLines(G[j]) : k = e[j-1] + m /\ w[k] = G[j][m]
    BY <2>1
  <2>3. PICK own \in M[j] : SectionName(model, own) = w[k].set
    <3>1. \E own \in M[j] : SectionName(model, own) = G[j][m].set
      BY <1>8
    <3>2. QED
      BY <2>2, <3>1
  <2>4. ASSUME NEW id \in U, SectionName(model, id) = w[k].set PROVE Says(w, k, model, id)
    <3>1. PICK i \in 1..n : id \in M[i]
      BY <1>1
    <3>2. i = j
      BY <1>7, <2>3, <2>4, <3>1
    <3>3. Says(G[j], m, model, id)
      BY <1>8, <2>2, <2>4, <3>1, <3>2
    <3>4. m \in DOMAIN G[j]
      BY DEF SectionLines
    <3>5. QED
      BY <2>2, <3>3, <3>4, SaysAt
  <2>5. QED
    BY <1>1, <2>3, <2>4
<1>10. ASSUME NEW id \in U PROVE \E k \in SectionLines(w) : w[k].set = SectionName(model, id)
  <2>1. PICK j \in 1..n : id \in M[j]
    BY <1>1
  <2>2. PICK m \in SectionLines(G[j]) : G[j][m].set = SectionName(model, id)
    BY <1>8, <2>1
  <2>3. m \in DOMAIN G[j] /\ G[j][m].key \in SectionKeys
    BY DEF SectionLines
  <2>4. e[j-1] + m \in SectionLines(w) /\ w[e[j-1] + m] = G[j][m]
    BY <1>4, <2>3 DEF SectionLines
  <2>5. QED
    BY <2>2, <2>4
<1>11. ASSUME NEW k \in SectionLines(w), NEW l \in SectionLines(w), w[k].set = w[l].set PROVE k = l
  <2>1. PICK i \in 1..n : \E m \in SectionLines(G[i]) : k = e[i-1] + m /\ w[k] = G[i][m]
    BY <1>6
  <2>2. PICK j \in 1..n : \E m \in SectionLines(G[j]) : l = e[j-1] + m /\ w[l] = G[j][m]
    BY <1>6
  <2>3. PICK a \in SectionLines(G[i]) : k = e[i-1] + a /\ w[k] = G[i][a]
    BY <2>1
  <2>4. PICK b \in SectionLines(G[j]) : l = e[j-1] + b /\ w[l] = G[j][b]
    BY <2>2
  <2>5. PICK id \in M[i] : SectionName(model, id) = w[k].set
    BY <1>8, <2>3
  <2>6. PICK other \in M[j] : SectionName(model, other) = w[l].set
    BY <1>8, <2>4
  <2>7. i = j
    BY <1>7, <1>11, <2>5, <2>6
  <2>8. a = b
    BY <1>8, <1>11, <2>3, <2>4, <2>7
  <2>9. QED
    BY <2>3, <2>4, <2>7, <2>8
<1>12. ASSUME NEW name PROVE InSet(w, name) = {id \in U : SectionName(model, id) = name}
  <2>1. InSet(w, name) = UNION {InSet(G[j], name) : j \in 1..n}
    BY InSetOfParts
  <2>2. \A id : id \in InSet(w, name) <=> \E j \in 1..n : id \in InSet(G[j], name)
    BY <2>1
  <2>3. \A j \in 1..n : \A id : id \in InSet(G[j], name) <=> id \in M[j] /\ SectionName(model, id) = name
    BY <1>8
  <2>4. \A id : id \in InSet(w, name) <=> id \in U /\ SectionName(model, id) = name
    BY <1>1, <2>2, <2>3
  <2>5. QED
    BY <2>4
<1>13. SectionsSay(w, model, U)
  BY <1>2, <1>5, <1>9, <1>10, <1>11, <1>12 DEF SectionsSay
<1>14. QED
  BY <1>13 DEF U

(* A keyword and one row.                                                   *)
Pair(L, key, set, m, a, d) ==
    /\ HeadOf(L, key, set, d)
    /\ DOMAIN L = {1, 2} /\ L[2].key = "row" /\ L[2].data = d
    /\ L[1].key = key /\ L[1].set = set /\ L[1].material = m /\ L[1].axes = a

(* Keyword() and Row() are such lines.                                      *)
LEMMA LineAndRow ==
    ASSUME NEW key, key \notin {"row", "**"}, NEW set, NEW m, NEW a, NEW p, NEW d
    PROVE  Pair(Keyword(key, set, m, a) \o Row(p, d), key, set, m, a, d)
<1> DEFINE R == Row(p, d)
           B == Keyword(key, set, m, a) \o R
           line == KeywordLine(key, set, m, a)
<1>1. IsSeq(R) /\ Len(R) = 1 /\ R[1].key = "row" /\ R[1].data = d
  BY OneLine, RowLineIs
<1> HIDE DEF R
<1>2. AllRows(R) /\ UNION {R[i].data : i \in 1..Len(R)} = d
  <2>1. 1..Len(R) = {1}
    BY <1>1
  <2>2. QED
    BY <1>1, <2>1 DEF AllRows
<1>3. HeadOf(B, key, set, UNION {R[i].data : i \in 1..Len(R)})
  <2> HIDE DEF line
  <2>1. AllRows(R)
    BY <1>2
  <2>2. QED
    BY <2>1, HeadedIs
<1>4. Headed(B, line, R)
  BY <1>2, KeywordAndRows
<1>5. line.key = key /\ line.set = set /\ line.material = m /\ line.axes = a
  BY DEF KeywordLine
<1> HIDE DEF line, B
<1>6. DOMAIN B = 1..(1 + Len(R)) /\ B[1] = line /\ \A i \in 1..Len(R) : B[1 + i] = R[i]
  BY <1>4 DEF Headed
<1>7. 1..(1 + Len(R)) = {1, 2} /\ 1 + 1 = 2 /\ 1 \in 1..Len(R)
  BY <1>1
<1>8. Pair(B, key, set, m, a, d)
  BY <1>1, <1>2, <1>3, <1>5, <1>6, <1>7 DEF Pair
<1>9. QED
  BY <1>8 DEF B, R

(* Sets before them, of one name, and a section for this name.              *)
LEMMA OneSection ==
    ASSUME NEW model, NEW M, M # {}, NEW A, Piece(A),
           \A k \in DOMAIN A : A[k].key \notin {"*node", "*element"} /\ A[k].key \notin SectionKeys,
           NEW nm, \A name : InSet(A, name) = IF nm = name THEN M ELSE {},
           \A id \in M : SectionName(model, id) = nm,
           NEW key \in SectionKeys, NEW mat, NEW axes, NEW p, NEW d,
           \A id \in M :
              /\ NameOf(model, id) = mat
              /\ \E x \in Given(model, id) : d = {x}
              /\ model.elements[id].family # "beam" /\ model.elements[id].thickness # DeckNone =>
                    d = {model.elements[id].thickness}
              /\ Symmetry(model, id) = "orthotropic" => axes = model.elements[id].orientation
    PROVE  SectionsSay(A \o (Keyword(key, nm, mat, axes) \o Row(p, d)), model, M)
<1> DEFINE B == Keyword(key, nm, mat, axes) \o Row(p, d)
           G == <<A, B>>
           w == A \o B
<1>1. key \notin {"row", "**"} /\ key \notin {"*node", "*element", "*elset"}
  BY DEF SectionKeys
<1>2. HeadOf(B, key, nm, d) /\ DOMAIN B = {1, 2} /\ B[2].key = "row" /\ B[2].data = d
      /\ B[1].key = key /\ B[1].set = nm /\ B[1].material = mat /\ B[1].axes = axes
  <2>1. Pair(B, key, nm, mat, axes, d)
    BY <1>1, LineAndRow
  <2> HIDE DEF B
  <2>2. QED
    BY <2>1 DEF Pair
<1> HIDE DEF B
<1>3. Piece(B)
  BY <1>2 DEF HeadOf
<1>4. PICK e : e[1] = Len(A) /\ Parts(w, G, e)
  BY <1>3, TwoParts
<1>5. Len(G) = 2 /\ G[1] = A /\ G[2] = B /\ 1..Len(G) = {1, 2}
  OBVIOUS
<1> HIDE DEF G, w
<1>6. Piece(w)
  BY <1>4, PartsPiece
<1>7. \A name : InSet(w, name) = IF nm = name THEN M ELSE {}
  <2>1. SUFFICES ASSUME NEW name PROVE InSet(w, name) = IF nm = name THEN M ELSE {}
    OBVIOUS
  <2>2. InSet(w, name) = UNION {InSet(G[j], name) : j \in {1, 2}}
    BY <1>4, <1>5, InSetOfParts
  <2>3. InSet(B, name) = {}
    <3>1. InSet(B, name) = IF key \in {"*element", "*elset"} /\ nm = name THEN d ELSE {}
      BY <1>2, HeadInSet
    <3>2. QED
      BY <1>1, <3>1
  <2>4. InSet(A, name) = IF nm = name THEN M ELSE {}
    OBVIOUS
  <2>5. InSet(w, name) = InSet(A, name) \cup InSet(B, name)
    BY <1>5, <2>2
  <2>6. QED
    BY <2>3, <2>4, <2>5
<1>8. ASSUME NEW k \in DOMAIN w
       PROVE  \/ \E m \in DOMAIN A : w[k] = A[m]
              \/ k = e[1] + 1 /\ w[k] = B[1]
              \/ k = e[1] + 2 /\ w[k] = B[2]
  <2>1. PICK j \in {1, 2} : \E m \in DOMAIN G[j] : k = e[j-1] + m /\ w[k] = G[j][m]
    BY <1>4, <1>5, LinesOfParts
  <2>2. CASE j = 1
    BY <1>5, <2>1, <2>2
  <2>3. CASE j = 2
    <3>1. \E m \in DOMAIN B : k = e[1] + m /\ w[k] = B[m]
      BY <1>5, <2>1, <2>3
    <3>2. QED
      BY <1>2, <3>1
  <2>4. QED
    BY <2>1, <2>2, <2>3
<1> DEFINE s == e[1] + 1
<1>9. s \in DOMAIN w /\ w[s] = B[1] /\ s + 1 \in DOMAIN w /\ w[s + 1].data = d
  <2>1. \A m \in DOMAIN G[2] : e[2-1] + m \in DOMAIN w /\ w[e[2-1] + m] = G[2][m]
    <3>1. 2 \in 1..Len(G)
      BY <1>5
    <3>2. \A j \in 1..Len(G) : \A m \in DOMAIN G[j] :
             e[j-1] + m \in DOMAIN w /\ w[e[j-1] + m] = G[j][m]
      BY <1>4, LinesOfParts
    <3>3. QED
      BY <3>1, <3>2
  <2>2. \A m \in {1, 2} : e[1] + m \in DOMAIN w /\ w[e[1] + m] = B[m]
    BY <1>2, <1>5, <2>1
  <2>3. e[1] \in Nat
    BY <1>4, IsSeqHas DEF Piece
  <2>4. s + 1 = e[1] + 2
    BY <2>3
  <2>5. QED
    BY <1>2, <2>2, <2>4
<1>10. \A k \in DOMAIN w : w[k].key \notin {"*node", "*element"}
  BY <1>1, <1>2, <1>8
<1>11. SectionLines(w) = {s}
  <2>1. w[s].key \in SectionKeys
    BY <1>2, <1>9
  <2>2. "row" \notin SectionKeys
    BY DEF SectionKeys
  <2>3. ASSUME NEW k \in SectionLines(w) PROVE k = s
    <3>1. k \in DOMAIN w /\ w[k].key \in SectionKeys
      BY DEF SectionLines
    <3>2. QED
      BY <1>2, <1>8, <2>2, <3>1
  <2>4. QED
    BY <1>9, <2>1, <2>3 DEF SectionLines
<1>12. \A id \in M : Says(w, s, model, id)
  <2> HIDE DEF s
  <2>1. QED
    BY <1>2, <1>9 DEF Says
<1>13. w[s].set = nm
  BY <1>2, <1>9
<1> HIDE DEF s
<1>14. \A name : InSet(w, name) = {id \in M : SectionName(model, id) = name}
  BY <1>7
<1>15. SectionsSay(w, model, M)
  <2>1. \A k \in SectionLines(w) : \E id \in M : SectionName(model, id) = w[k].set
    BY <1>11, <1>13
  <2>2. \A k \in SectionLines(w) : \A id \in M : SectionName(model, id) = w[k].set => Says(w, k, model, id)
    BY <1>11, <1>12
  <2>3. \A id \in M : \E k \in SectionLines(w) : w[k].set = SectionName(model, id)
    BY <1>11, <1>13
  <2>4. \A k, l \in SectionLines(w) : w[k].set = w[l].set => k = l
    BY <1>11
  <2>5. QED
    BY <1>6, <1>10, <1>14, <2>1, <2>2, <2>3, <2>4 DEF SectionsSay
<1>16. QED
  BY <1>15 DEF w, B

(* _orthotropic_shell_section(): one element, its material, thickness and axes. *)
LEMMA OrthotropicSectionIs ==
    ASSUME NEW model, NEW id \in DeckIds(model), Symmetry(model, id) = "orthotropic",
           ~IsBeam(model, id), model.elements[id].thickness # DeckNone
    PROVE  SectionsSay(OrthotropicSection(model, id), model, {id})
<1> DEFINE el == model.elements[id]
           own == OwnSet(model, id)
           mat == NameOf(model, id)
           K == Keyword("*elset", own, DeckNone, DeckNone) \o Row(1, {id})
           O == Plain("*orientation") \o Row(6, {})
           A == K \o O
           G == <<K, O>>
<1>1. OrthotropicSection(model, id)
        = A \o (Keyword("*shell section", own, mat, el.orientation) \o Row(1, {el.thickness}))
  BY DEF OrthotropicSection
<1>2. SectionName(model, id) = own
  BY DEF SectionName
<1> HIDE DEF own
<1>3. HeadOf(K, "*elset", own, {id})
  <2>1. Pair(K, "*elset", own, DeckNone, DeckNone, {id})
    BY LineAndRow
  <2> HIDE DEF K
  <2>2. QED
    BY <2>1 DEF Pair
<1>4. HeadOf(O, "*orientation", DeckNone, {})
  <2>1. Pair(Keyword("*orientation", DeckNone, DeckNone, DeckNone) \o Row(6, {}), "*orientation",
             DeckNone, DeckNone, DeckNone, {})
    BY LineAndRow
  <2>2. Pair(O, "*orientation", DeckNone, DeckNone, DeckNone, {})
    BY <2>1 DEF Plain
  <2> HIDE DEF O
  <2>3. QED
    BY <2>2 DEF Pair
<1> HIDE DEF K, O
<1>5. Piece(K) /\ Piece(O)
  BY <1>3, <1>4 DEF HeadOf
<1>6. PICK e : Parts(A, G, e)
  BY <1>5, TwoParts
<1>7. Len(G) = 2 /\ G[1] = K /\ G[2] = O /\ 1..Len(G) = {1, 2}
  OBVIOUS
<1> HIDE DEF A, G
<1>8. Piece(A)
  BY <1>6, PartsPiece
<1>9. \A k \in DOMAIN A : A[k].key \notin {"*node", "*element"} /\ A[k].key \notin SectionKeys
  <2> DEFINE Keys == {"*elset", "*orientation", "row"}
  <2>1. \A j \in 1..Len(G) : \A m \in DOMAIN G[j] : G[j][m].key \in Keys
    <3>1. \A m \in DOMAIN K : K[m].key \in Keys
      BY <1>3 DEF HeadOf
    <3>2. \A m \in DOMAIN O : O[m].key \in Keys
      BY <1>4 DEF HeadOf
    <3>3. QED
      BY <1>7, <3>1, <3>2
  <2> HIDE DEF Keys
  <2>2. \A k \in DOMAIN A : A[k].key \in Keys
    BY <1>6, <2>1, KeysOfParts
  <2>3. QED
    BY <2>2 DEF Keys, SectionKeys
<1>10. \A name : InSet(A, name) = IF own = name THEN {id} ELSE {}
  <2>1. SUFFICES ASSUME NEW name PROVE InSet(A, name) = IF own = name THEN {id} ELSE {}
    OBVIOUS
  <2>2. InSet(A, name) = UNION {InSet(G[j], name) : j \in {1, 2}}
    BY <1>6, <1>7, InSetOfParts
  <2>3. InSet(K, name) = IF own = name THEN {id} ELSE {}
    BY <1>3, HeadInSet
  <2>4. InSet(O, name) = {}
    BY <1>4, HeadInSet
  <2>5. InSet(A, name) = InSet(K, name) \cup InSet(O, name)
    BY <1>7, <2>2
  <2>6. QED
    BY <2>3, <2>4, <2>5
<1>11. "*shell section" \in SectionKeys
  BY DEF SectionKeys
<1> DEFINE axes == el.orientation
           d == {el.thickness}
<1>12. \A x \in {id} : \E y \in Given(model, x) : d = {y}
  <2>1. el.thickness \in Given(model, id)
    BY MembersAre DEF Given, Thicknesses
  <2>2. QED
    BY <2>1
<1>13. \A x \in {id} :
          /\ NameOf(model, x) = mat
          /\ model.elements[x].family # "beam" /\ model.elements[x].thickness # DeckNone =>
                d = {model.elements[x].thickness}
          /\ Symmetry(model, x) = "orthotropic" => axes = model.elements[x].orientation
  OBVIOUS
<1> HIDE DEF mat, axes, d, el
<1>14. SectionsSay(A \o (Keyword("*shell section", own, mat, axes) \o Row(1, d)), model, {id})
  <2>1. \A x \in {id} : SectionName(model, x) = own
    BY <1>2
  <2>2. {id} # {}
    OBVIOUS
  <2>3. \A x \in {id} :
           /\ NameOf(model, x) = mat
           /\ \E y \in Given(model, x) : d = {y}
           /\ model.elements[x].family # "beam" /\ model.elements[x].thickness # DeckNone =>
                 d = {model.elements[x].thickness}
           /\ Symmetry(model, x) = "orthotropic" => axes = model.elements[x].orientation
    BY <1>12, <1>13
  <2>4. QED
    BY <1>8, <1>9, <1>10, <1>11, <2>1, <2>2, <2>3, OneSection
<1>15. QED
  BY <1>1, <1>14 DEF mat, axes, d, el

(* A section for a whole group; shells of one thickness, or it would be refused. *)
LEMMA GroupSectionIs ==
    ASSUME NEW model, Sound(model), PerLine \in Nat \ {0}, NEW id \in LeaderIds(model),
           Symmetry(model, id) # "orthotropic"
    PROVE  SectionsSay(GroupSection(model, id), model, Members(model, id))
<1> DEFINE M == Members(model, id)
           group == SetOf(model, id)
           A == Keyword("*elset", group, DeckNone, DeckNone) \o Chunks(Sorted(M))
           mat == NameOf(model, id)
           given == Given(model, id)
<1>1. id \in DeckIds(model) /\ id \in M /\ M \subseteq DeckIds(model)
  BY LeadersAre, MembersAre
<1>2. DeckIds(model) \subseteq Nat /\ IsFiniteSet(DeckIds(model))
  BY DEF Sound, IsDeckModel, DeckIds
<1>3. M \subseteq Nat /\ IsFiniteSet(M) /\ M # {}
  BY <1>1, <1>2, FS_Subset
<1>4. ASSUME NEW x \in M
      PROVE  /\ NameOf(model, x) = mat /\ (IsBeam(model, x) <=> IsBeam(model, id))
             /\ Symmetry(model, x) # "orthotropic" /\ SectionName(model, x) = group
             /\ Given(model, x) = given
  <2>1. x \in DeckIds(model) /\ GroupOf(model, x) = GroupOf(model, id)
    BY <1>1 DEF Members
  <2>2. /\ NameOf(model, x) = mat /\ (IsBeam(model, x) <=> IsBeam(model, id))
        /\ Symmetry(model, x) = Symmetry(model, id) /\ SetOf(model, x) = group
    BY <1>1, <2>1, OneGroup
  <2>3. Members(model, x) = Members(model, id)
    BY <2>1 DEF Members
  <2>4. Given(model, x) = given
    BY <2>2, <2>3 DEF Given, Thicknesses
  <2>5. QED
    BY <2>2, <2>4 DEF SectionName
<1>5. \A x \in M : model.elements[x].family = "beam" <=> IsBeam(model, id)
  BY <1>4 DEF IsBeam
<1>6. HeadOf(A, "*elset", group, M)
  <2> HIDE DEF M, group, mat, given
  <2>1. QED
    BY <1>3, SetBlockIs
<1>7. GroupSection(model, id) =
        A \o IF IsBeam(model, id)
             THEN Keyword("*beam section", group, mat, DeckNone) \o Row(2, {model.elements[id].section})
             ELSE Keyword("*shell section", group, mat, DeckNone) \o Row(1, Thicknesses(model, id))
  BY DEF GroupSection
<1>8. model.elements[id].section \in given \/ ~IsBeam(model, id)
  BY <1>1 DEF Given
<1> HIDE DEF A, group, mat, M, given
<1>9. Piece(A)
  BY <1>6 DEF HeadOf
<1>10. \A k \in DOMAIN A : A[k].key \notin {"*node", "*element"} /\ A[k].key \notin SectionKeys
  BY <1>6 DEF HeadOf, SectionKeys
<1>11. \A name : InSet(A, name) = IF group = name THEN M ELSE {}
  BY <1>6, HeadInSet
<1>12. "*beam section" \in SectionKeys /\ "*shell section" \in SectionKeys
  BY DEF SectionKeys
<1>13. \A x \in M : SectionName(model, x) = group /\ NameOf(model, x) = mat
                    /\ Symmetry(model, x) # "orthotropic" /\ Given(model, x) = given
  BY <1>4
<1>14. CASE IsBeam(model, id)
  <2> DEFINE d == {model.elements[id].section}
             key == "*beam section"
             axes == DeckNone
             p == 2
  <2>1. GroupSection(model, id) = A \o (Keyword(key, group, mat, axes) \o Row(p, d))
    BY <1>7, <1>14
  <2>2. \E y \in given : d = {y}
    BY <1>8, <1>14
  <2>3. key \in SectionKeys /\ \A x \in M : SectionName(model, x) = group
    BY <1>12, <1>13
  <2> HIDE DEF d, key, axes, p
  <2>4. \A x \in M : /\ NameOf(model, x) = mat
                     /\ \E y \in Given(model, x) : d = {y}
                     /\ model.elements[x].family # "beam" /\ model.elements[x].thickness # DeckNone =>
                           d = {model.elements[x].thickness}
                     /\ Symmetry(model, x) = "orthotropic" => axes = model.elements[x].orientation
    BY <1>5, <1>13, <1>14, <2>2
  <2>5. SectionsSay(A \o (Keyword(key, group, mat, axes) \o Row(p, d)), model, M)
    BY <1>3, <1>9, <1>10, <1>11, <2>3, <2>4, OneSection
  <2>6. QED
    BY <2>1, <2>5 DEF M
<1>15. CASE ~IsBeam(model, id)
  <2> DEFINE d == Thicknesses(model, id)
             key == "*shell section"
             axes == DeckNone
             p == 1
  <2>1. GroupSection(model, id) = A \o (Keyword(key, group, mat, axes) \o Row(p, d))
    BY <1>7, <1>15
  <2>2. Cardinality(d) = 1
    <3>1. id \in ToSet(Leaders(model))
      <4>1. PICK k \in 1..Len(Leaders(model)) : Leaders(model)[k] = id
        BY LeadersAre DEF Enumerates
      <4>2. k \in DOMAIN Leaders(model)
        BY LeadersAre, IsSeqHas DEF Enumerates
      <4>3. QED
        BY <4>1, <4>2 DEF ToSet
    <3>2. ~SectionRefused(model, id)
      BY <3>1 DEF Sound, ModelRefused, SectionsRefused
    <3>3. QED
      BY <1>15, <3>2 DEF SectionRefused
  <2>3. IsFiniteSet(d)
    <3>1. IsFiniteSet({model.elements[m].thickness : m \in M})
      <4> DEFINE f == [m \in M |-> model.elements[m].thickness]
                 S == {model.elements[m].thickness : m \in M}
      <4>1. f \in Surjection(M, S)
        BY DEF Surjection
      <4> HIDE DEF f, S
      <4>2. IsFiniteSet(S)
        BY <1>3, <4>1, FS_Surjection
      <4>3. QED
        BY <4>2 DEF S
    <3>2. QED
      BY <3>1, FS_Subset DEF Thicknesses, M
  <2>4. PICK only : d = {only}
    <3> HIDE DEF d
    <3>1. QED
      BY <2>2, <2>3, FS_Singleton
  <2>5. \A x \in M : model.elements[x].thickness # DeckNone => model.elements[x].thickness \in d
    BY DEF Thicknesses, M
  <2>6. given = d
    BY <1>15 DEF given, Given
  <2>7. \E y \in given : d = {y}
    BY <2>4, <2>6
  <2>8. key \in SectionKeys /\ \A x \in M : SectionName(model, x) = group
    BY <1>12, <1>13
  <2> HIDE DEF d, key, axes, p
  <2>9. \A x \in M : /\ NameOf(model, x) = mat
                     /\ \E y \in Given(model, x) : d = {y}
                     /\ model.elements[x].family # "beam" /\ model.elements[x].thickness # DeckNone =>
                           d = {model.elements[x].thickness}
                     /\ Symmetry(model, x) = "orthotropic" => axes = model.elements[x].orientation
    BY <1>13, <2>4, <2>5, <2>7
  <2>10. SectionsSay(A \o (Keyword(key, group, mat, axes) \o Row(p, d)), model, M)
    BY <1>3, <1>9, <1>10, <1>11, <2>8, <2>9, OneSection
  <2>11. QED
    BY <2>1, <2>10 DEF M
<1>16. QED
  BY <1>14, <1>15

(* Either way each member of a group has one section,                       *)
LEMMA SectionBlockIs ==
    ASSUME NEW model, Sound(model), PerLine \in Nat \ {0}, NEW id \in LeaderIds(model)
    PROVE  SectionsSay(SectionBlock(model, id), model, Members(model, id))
<1>1. CASE Symmetry(model, id) # "orthotropic"
  BY <1>1, GroupSectionIs DEF SectionBlock
<1>2. CASE Symmetry(model, id) = "orthotropic"
  <2> DEFINE T == Members(model, id)
             ids == Sorted(T)
             n == Len(ids)
             G == [k \in DOMAIN ids |-> OrthotropicSection(model, ids[k])]
             M == [k \in 1..n |-> {ids[k]}]
             w == SectionBlock(model, id)
  <2>1. w = FlattenSeq(G)
    BY <1>2 DEF SectionBlock, RowsOf
  <2>2. id \in DeckIds(model) /\ T \subseteq DeckIds(model)
    BY LeadersAre, MembersAre
  <2>3. T \subseteq Nat /\ IsFiniteSet(T)
    BY <2>2, FS_Subset DEF Sound, IsDeckModel, DeckIds
  <2>4. Enumerates(ids, T)
    BY <2>3, SortedIs
  <2>5. ASSUME NEW x \in T
        PROVE  /\ Symmetry(model, x) = "orthotropic" /\ ~IsBeam(model, x)
               /\ model.elements[x].thickness # DeckNone
    <3>1. x \in DeckIds(model) /\ GroupOf(model, x) = GroupOf(model, id)
      BY <2>2 DEF Members
    <3>2. Symmetry(model, x) = Symmetry(model, id) /\ (IsBeam(model, x) <=> IsBeam(model, id))
      BY <2>2, <3>1, OneGroup
    <3>3. id \in ToSet(Leaders(model))
      <4>1. PICK k \in 1..Len(Leaders(model)) : Leaders(model)[k] = id
        BY LeadersAre DEF Enumerates
      <4>2. k \in DOMAIN Leaders(model)
        BY LeadersAre, IsSeqHas DEF Enumerates
      <4>3. QED
        BY <4>1, <4>2 DEF ToSet
    <3>4. ~SectionRefused(model, id)
      BY <3>3 DEF Sound, ModelRefused, SectionsRefused
    <3>5. ~IsBeam(model, id) /\ model.elements[x].thickness # DeckNone
      BY <1>2, <3>4 DEF SectionRefused
    <3>6. QED
      BY <1>2, <3>2, <3>5
  <2> HIDE DEF ids, w, T
  <2>6. /\ n \in Nat /\ DOMAIN ids = 1..n /\ \A k \in 1..n : ids[k] \in T
        /\ \A t \in T : \E k \in 1..n : ids[k] = t
        /\ \A j, k \in 1..n : ids[j] = ids[k] => j = k
    BY <2>4, IsSeqHas DEF Enumerates
  <2>7. IsSeq(G) /\ Len(G) = n /\ \A k \in 1..n : G[k] = OrthotropicSection(model, ids[k])
    <3>1. G = [k \in 1..n |-> G[k]] /\ \A k \in 1..n : G[k] = OrthotropicSection(model, ids[k])
      BY <2>6
    <3> HIDE DEF G
    <3>2. QED
      BY <2>6, <3>1, FunctionIsSeq
  <2>8. \A k \in 1..n : M[k] = {ids[k]}
    OBVIOUS
  <2> HIDE DEF G, M, n
  <2>9. \A k \in 1..n : SectionsSay(G[k], model, M[k])
    BY <2>2, <2>5, <2>6, <2>7, <2>8, OrthotropicSectionIs
  <2>10. \A k \in 1..n : Piece(G[k])
    BY <2>9 DEF SectionsSay
  <2>11. PICK e : Parts(w, G, e)
    BY <2>1, <2>7, <2>10, FlattenedParts
  <2>12. ASSUME NEW i \in 1..n, NEW j \in 1..n, i # j, NEW x \in M[i], NEW y \in M[j]
         PROVE  SectionName(model, x) # SectionName(model, y)
    <3>1. x = ids[i] /\ y = ids[j] /\ x # y /\ x \in T /\ y \in T
      BY <2>6, <2>8, <2>12
    <3>2. /\ Symmetry(model, x) = "orthotropic" /\ Symmetry(model, y) = "orthotropic"
          /\ x \in DeckIds(model) /\ y \in DeckIds(model)
      BY <2>2, <2>5, <3>1
    <3>3. OwnSet(model, x) # OwnSet(model, y)
      BY <3>1, <3>2, OwnSetsDiffer
    <3>4. QED
      BY <3>2, <3>3 DEF SectionName
  <2>13. SectionsSay(w, model, UNION {M[j] : j \in 1..n})
    <3>1. \A j \in 1..Len(G) : SectionsSay(G[j], model, M[j])
      BY <2>7, <2>9
    <3>2. \A i, j \in 1..Len(G) : i # j =>
             \A x \in M[i] : \A y \in M[j] : SectionName(model, x) # SectionName(model, y)
      BY <2>7, <2>12
    <3>3. SectionsSay(w, model, UNION {M[j] : j \in 1..Len(G)})
      BY <2>11, <3>1, <3>2, SectionsOfParts
    <3>4. QED
      BY <2>7, <3>3
  <2>14. UNION {M[j] : j \in 1..n} = T
    <3>1. \A j \in 1..n : M[j] \subseteq T
      BY <2>6, <2>8
    <3>2. \A t \in T : \E j \in 1..n : t \in M[j]
      BY <2>6, <2>8
    <3>3. QED
      BY <3>1, <3>2
  <2>15. QED
    BY <2>13, <2>14 DEF w, T
<1>3. QED
  BY <1>1, <1>2

(* and so has every element, if names differ: _section_blocks().            *)
LEMMA SectionBlocksAre ==
    ASSUME NEW model, Sound(model), PerLine \in Nat \ {0}
    PROVE  /\ Uncounted(SectionBlocks(model))
           /\ NamesDiffer(model) => SectionsSay(SectionBlocks(model), model, DeckIds(model))
<1> DEFINE lead == Leaders(model)
           n == Len(lead)
           G == [k \in DOMAIN lead |-> SectionBlock(model, lead[k])]
           M == [k \in 1..n |-> Members(model, lead[k])]
           w == SectionBlocks(model)
<1>1. w = FlattenSeq(G)
  BY DEF SectionBlocks, RowsOf
<1>2. /\ Enumerates(lead, LeaderIds(model)) /\ LeaderIds(model) \subseteq DeckIds(model)
      /\ \A id \in DeckIds(model) : \E l \in LeaderIds(model) : id \in Members(model, l)
      /\ \A l, m \in LeaderIds(model) : GroupOf(model, l) = GroupOf(model, m) => l = m
  BY LeadersAre
<1> HIDE DEF lead, w
<1>3. /\ n \in Nat /\ DOMAIN lead = 1..n
      /\ \A k \in 1..n : lead[k] \in LeaderIds(model) /\ lead[k] \in DeckIds(model)
      /\ \A l \in LeaderIds(model) : \E k \in 1..n : lead[k] = l
      /\ \A j, k \in 1..n : lead[j] = lead[k] => j = k
  BY <1>2, IsSeqHas DEF Enumerates
<1>4. IsSeq(G) /\ Len(G) = n /\ \A k \in 1..n : G[k] = SectionBlock(model, lead[k])
  <2>1. G = [k \in 1..n |-> G[k]] /\ \A k \in 1..n : G[k] = SectionBlock(model, lead[k])
    BY <1>3
  <2> HIDE DEF G
  <2>2. QED
    BY <1>3, <2>1, FunctionIsSeq
<1>5. \A k \in 1..n : M[k] = Members(model, lead[k])
  OBVIOUS
<1> HIDE DEF G, M, n
<1>6. \A k \in 1..n : SectionsSay(G[k], model, M[k])
  BY <1>3, <1>4, <1>5, SectionBlockIs
<1>7. \A k \in 1..n : Piece(G[k])
  BY <1>6 DEF SectionsSay
<1>8. PICK e : Parts(w, G, e)
  BY <1>1, <1>4, <1>7, FlattenedParts
<1>9. Uncounted(w)
  <2>1. Piece(w)
    BY <1>8, PartsPiece
  <2>2. ASSUME NEW p \in DOMAIN w PROVE w[p].key \notin {"*node", "*element"}
    <3>1. PICK j \in 1..Len(G) : \E m \in DOMAIN G[j] : p = e[j-1] + m /\ w[p] = G[j][m]
      BY <1>8, LinesOfParts
    <3>2. \A m \in DOMAIN G[j] : G[j][m].key \notin {"*node", "*element"}
      BY <1>4, <1>6 DEF SectionsSay
    <3>3. QED
      BY <3>1, <3>2
  <2>3. QED
    BY <2>1, <2>2 DEF Uncounted
<1>10. ASSUME NamesDiffer(model) PROVE SectionsSay(w, model, UNION {M[j] : j \in 1..n})
  <2>1. ASSUME NEW i \in 1..n, NEW j \in 1..n, i # j, NEW x \in M[i], NEW y \in M[j]
        PROVE  SectionName(model, x) # SectionName(model, y)
    <3>1. /\ GroupOf(model, x) = GroupOf(model, lead[i]) /\ GroupOf(model, y) = GroupOf(model, lead[j])
          /\ x \in DeckIds(model) /\ y \in DeckIds(model)
      BY <1>5, <2>1 DEF Members
    <3>2. GroupOf(model, lead[i]) # GroupOf(model, lead[j])
      BY <1>2, <1>3, <2>1
    <3>3. QED
      BY <1>10, <3>1, <3>2, SectionNames
  <2>2. \A j \in 1..Len(G) : SectionsSay(G[j], model, M[j])
    BY <1>4, <1>6
  <2>3. \A i, j \in 1..Len(G) : i # j =>
           \A x \in M[i] : \A y \in M[j] : SectionName(model, x) # SectionName(model, y)
    BY <1>4, <2>1
  <2>4. SectionsSay(w, model, UNION {M[j] : j \in 1..Len(G)})
    BY <1>8, <2>2, <2>3, SectionsOfParts
  <2>5. QED
    BY <1>4, <2>4
<1>11. UNION {M[k] : k \in 1..n} = DeckIds(model)
  <2>1. \A k \in 1..n : M[k] \subseteq DeckIds(model)
    BY <1>3, <1>5, MembersAre
  <2>2. \A id \in DeckIds(model) : \E k \in 1..n : id \in M[k]
    <3>1. SUFFICES ASSUME NEW id \in DeckIds(model) PROVE \E k \in 1..n : id \in M[k]
      OBVIOUS
    <3>2. PICK l \in LeaderIds(model) : id \in Members(model, l)
      BY <1>2
    <3>3. PICK k \in 1..n : lead[k] = l
      BY <1>3
    <3>4. QED
      BY <1>5, <3>2, <3>3
  <2>3. QED
    BY <2>1, <2>2
<1>12. QED
  BY <1>9, <1>10, <1>11 DEF w

----------------------------------------------------------------------------
(* The rest of the deck has no nodes, elements, sets of elements or sections. *)

(* Lines without any of this.                                               *)
Bare(L) == Piece(L) /\ Quiet(L)

(* Such lines put together.                                                 *)
LEMMA LedQuiet ==
    ASSUME NEW A, Led(A), Quiet(A), NEW B, Quiet(B)
    PROVE  Led(A \o B) /\ Quiet(A \o B)
BY LedConcat, QuietConcat DEF Quiet

LEMMA EmptyBare == Bare(<<>>)
<1>1. IsSeq(<<>>) /\ DOMAIN <<>> = {}
  BY DEF IsSeq
<1>2. QED
  BY <1>1 DEF Bare, Piece, Quiet

LEMMA RowsQuiet ==
    ASSUME NEW R, AllRows(R)
    PROVE  Quiet(R)
BY IsSeqHas DEF AllRows, Quiet, Loud

LEMMA HeadBare ==
    ASSUME NEW L, NEW key, key \notin Loud, NEW set, NEW T, HeadOf(L, key, set, T)
    PROVE  Bare(L)
BY DEF HeadOf, Bare, Piece, Quiet, Loud

LEMMA BareParts ==
    ASSUME NEW w, NEW G, NEW e, Parts(w, G, e), \A j \in 1..Len(G) : Quiet(G[j])
    PROVE  Bare(w)
<1>1. Piece(w)
  BY PartsPiece
<1> DEFINE n == Len(G)
<1>2. ASSUME NEW p \in DOMAIN w
      PROVE  \E j \in 1..n : \E m \in DOMAIN G[j] : p = e[j-1] + m /\ w[p] = G[j][m]
  BY LinesOfParts
<1>3. \A p \in DOMAIN w : w[p].key \notin Loud
  BY <1>2 DEF Quiet
<1>4. QED
  BY <1>1, <1>3 DEF Bare, Quiet, Piece

(* The other blocks: comments, sets of nodes, supports, materials and the step. *)
LEMMA CommentsBare == Bare(Plain("**") \o Plain("**"))
<1> DEFINE A == Plain("**")
           w == A \o A
<1>1. IsSeq(A) /\ Len(A) = 1 /\ A[1].key = "**"
  BY PlainLine
<1> HIDE DEF A
<1>2. /\ IsSeq(w) /\ Len(w) = 2
      /\ \A k \in 1..1 : w[k] = A[k]
      /\ \A k \in 1..1 : w[1 + k] = A[k]
  <2>1. /\ IsSeq(A \o A) /\ Len(A \o A) = Len(A) + Len(A)
        /\ \A k \in 1..Len(A) : (A \o A)[k] = A[k]
        /\ \A k \in 1..Len(A) : (A \o A)[Len(A) + k] = A[k]
    <3>1. IsSeq(A)
      BY <1>1
    <3>2. QED
      BY <3>1, Concatenated
  <2>2. QED
    BY <1>1, <2>1
<1> HIDE DEF w
<1>3. DOMAIN w = {1, 2} /\ w[1] = A[1] /\ w[2] = A[1]
  BY <1>2, IsSeqHas
<1>4. Bare(w)
  BY <1>1, <1>2, <1>3 DEF Bare, Piece, Quiet, Loud
<1>5. QED
  BY <1>4 DEF w, A

LEMMA SetBlockBare ==
    ASSUME NEW kind, kind \notin {"row", "**"}, kind \notin Loud, NEW name, NEW n \in Nat,
           PerLine \in Nat \ {0}
    PROVE  Bare(SetBlock(kind, name, 1..n))
<1> DEFINE ids == 1..n
<1>1. ids \subseteq Nat /\ IsFiniteSet(ids)
  BY FS_Interval
<1> HIDE DEF ids
<1>2. ids = {} => SetBlock(kind, name, ids) = <<>>
  BY <1>1, SetBlockIs
<1>3. ids # {} => HeadOf(SetBlock(kind, name, ids), kind, name, ids)
  BY <1>1, SetBlockIs
<1>4. Bare(SetBlock(kind, name, ids))
  BY <1>2, <1>3, EmptyBare, HeadBare
<1>5. QED
  BY <1>4 DEF ids

LEMMA BlockBare ==
    ASSUME NEW key, key \notin {"row", "**"}, key \notin Loud, NEW count \in Nat, NEW parts
    PROVE  Bare(Block(key, count, parts))
<1>1. CASE count = 0
  BY <1>1, EmptyBare DEF Block
<1>2. CASE count # 0
  <2> DEFINE p == [k \in 1..count |-> parts]
             d == [k \in 1..count |-> {}]
             G == [k \in 1..count |-> Row(parts, {})]
             R == FlattenSeq(G)
  <2>1. Block(key, count, parts) = Plain(key) \o R
    <3>1. DOMAIN [k \in 1..count |-> k] = 1..count
      OBVIOUS
    <3>2. QED
      BY <1>2, <3>1 DEF Block, RowsOf
  <2>2. G = [k \in 1..count |-> Row(p[k], d[k])]
    OBVIOUS
  <2> HIDE DEF G, p, d
  <2>3. AllRows(R)
    BY <2>2, MadeRows
  <2> HIDE DEF R
  <2>4. Quiet(R) /\ Led(Plain(key)) /\ Quiet(Plain(key))
    BY <2>3, RowsQuiet, QuietLines
  <2>5. QED
    BY <2>1, <2>4, LedQuiet, LedPiece DEF Bare
<1>3. QED
  BY <1>1, <1>2

LEMMA MaterialBlockBare ==
    ASSUME NEW model, IsDeckModel(model)
    PROVE  Bare(MaterialBlock(model))
<1> DEFINE ids == SetToSeq(DOMAIN model.symmetry)
           n == Len(ids)
           Rest(m) == IF model.symmetry[m] = "orthotropic" THEN Row(8, {}) \o Row(1, {}) ELSE Row(2, {})
           Text(m) == Plain("*material") \o Plain("*elastic") \o Rest(m) \o Plain("*density") \o Row(1, {})
           G == [k \in DOMAIN ids |-> Text(ids[k])]
           w == MaterialBlock(model)
<1>1. w = FlattenSeq(G)
  BY DEF MaterialBlock, RowsOf
<1>2. n \in Nat /\ DOMAIN ids = 1..n
  BY SetToSeqIs, IsSeqHas DEF IsDeckModel, Enumerates
<1>3. ASSUME NEW m PROVE Led(Text(m)) /\ Quiet(Text(m))
  <2> DEFINE A1 == Plain("*material")
             A2 == A1 \o Plain("*elastic")
             A3 == A2 \o Rest(m)
             A4 == A3 \o Plain("*density")
             A5 == A4 \o Row(1, {})
  <2>1. Led(A1) /\ Quiet(A1) /\ Quiet(Plain("*elastic")) /\ Quiet(Plain("*density"))
    BY QuietLines DEF Loud
  <2>2. Quiet(Row(8, {})) /\ Quiet(Row(1, {})) /\ Quiet(Row(2, {}))
    BY QuietLines
  <2>3. Quiet(Rest(m))
    BY <2>2, QuietConcat
  <2> HIDE DEF A1, A2, A3, A4, Rest
  <2>4. Led(A2) /\ Quiet(A2)
    BY <2>1, LedQuiet DEF A2
  <2>5. Led(A3) /\ Quiet(A3)
    BY <2>3, <2>4, LedQuiet DEF A3
  <2>6. Led(A4) /\ Quiet(A4)
    BY <2>1, <2>5, LedQuiet DEF A4
  <2>7. Led(A5) /\ Quiet(A5)
    BY <2>2, <2>6, LedQuiet DEF A5
  <2>8. QED
    BY <2>7 DEF A1, A2, A3, A4
<1> HIDE DEF ids, Text, w
<1>4. IsSeq(G) /\ Len(G) = n /\ \A k \in 1..n : G[k] = Text(ids[k])
  <2>1. G = [k \in 1..n |-> G[k]] /\ \A k \in 1..n : G[k] = Text(ids[k])
    BY <1>2
  <2> HIDE DEF G
  <2>2. QED
    BY <1>2, <2>1, FunctionIsSeq
<1> HIDE DEF G
<1>5. \A k \in 1..n : Led(G[k]) /\ Quiet(G[k])
  BY <1>3, <1>4
<1>6. \A k \in 1..Len(G) : Piece(G[k]) /\ Quiet(G[k])
  BY <1>4, <1>5, LedPiece
<1>7. PICK e : Parts(w, G, e)
  BY <1>1, <1>4, <1>6, FlattenedParts
<1>8. Bare(w)
  BY <1>6, <1>7, BareParts
<1>9. QED
  BY <1>8 DEF w

LEMMA StepBlockBare ==
    ASSUME NEW model, IsDeckModel(model), NEW analysis \in {"static", "frequency", "buckling"}
    PROVE  Bare(StepBlock(model, analysis))
<1> DEFINE B1 == Analysis(analysis)
           B2 == Block("*cload", model.loads, 3)
           B3 == Block("*dload", model.pressures, 3)
           B4 == Plain("*node file")
           B5 == Row(2, {})
           B6 == Plain("*el file")
           B7 == Row(1, {})
           B8 == Plain("*node print")
           B9 == Plain("*end step")
           A0 == Plain("*step")
           A1 == A0 \o B1
           A2 == A1 \o B2
           A3 == A2 \o B3
           A4 == A3 \o B4
           A5 == A4 \o B5
           A6 == A5 \o B6
           A7 == A6 \o B7
           A8 == A7 \o B8
           A9 == A8 \o B7
           A == A9 \o B9
<1>1. StepBlock(model, analysis) = A
  BY DEF StepBlock
<1>2. Led(A0) /\ Quiet(A0) /\ Quiet(B4) /\ Quiet(B5) /\ Quiet(B6) /\ Quiet(B7) /\ Quiet(B8) /\ Quiet(B9)
  BY QuietLines DEF Loud
<1>3. Quiet(B1)
  <2>1. Quiet(Plain("*static")) /\ Quiet(Plain("*frequency")) /\ Quiet(Plain("*buckle"))
    BY QuietLines DEF Loud
  <2>2. Quiet(Plain("*frequency") \o Row(1, {})) /\ Quiet(Plain("*buckle") \o Row(1, {}))
    BY <1>2, <2>1, QuietConcat
  <2>3. \/ B1 = Plain("*static")
        \/ B1 = Plain("*frequency") \o Row(1, {})
        \/ B1 = Plain("*buckle") \o Row(1, {})
    <3>1. analysis = "static" => B1 = Plain("*static")
      BY DEF Analysis
    <3>2. analysis = "frequency" => B1 = Plain("*frequency") \o Row(1, {})
      BY DEF Analysis
    <3>3. analysis = "buckling" => B1 = Plain("*buckle") \o Row(1, {})
      BY DEF Analysis
    <3>4. QED
      BY <3>1, <3>2, <3>3
  <2>4. QED
    BY <2>1, <2>2, <2>3
<1>4. Quiet(B2) /\ Quiet(B3)
  <2>1. model.loads \in Nat /\ model.pressures \in Nat
    BY DEF IsDeckModel
  <2>2. "*cload" \notin Loud /\ "*dload" \notin Loud
    BY DEF Loud
  <2>3. QED
    BY <2>1, <2>2, BlockBare DEF Bare
<1> HIDE DEF A0, B1, B2, B3, B4, B5, B6, B7, B8, B9
<1>5. Led(A1) /\ Quiet(A1)
  BY <1>2, <1>3, LedQuiet
<1> HIDE DEF A1
<1>6. Led(A2) /\ Quiet(A2)
  BY <1>4, <1>5, LedQuiet
<1> HIDE DEF A2
<1>7. Led(A3) /\ Quiet(A3)
  BY <1>4, <1>6, LedQuiet
<1> HIDE DEF A3
<1>8. Led(A4) /\ Quiet(A4)
  BY <1>2, <1>7, LedQuiet
<1> HIDE DEF A4
<1>9. Led(A5) /\ Quiet(A5)
  BY <1>2, <1>8, LedQuiet
<1> HIDE DEF A5
<1>10. Led(A6) /\ Quiet(A6)
  BY <1>2, <1>9, LedQuiet
<1> HIDE DEF A6
<1>11. Led(A7) /\ Quiet(A7)
  BY <1>2, <1>10, LedQuiet
<1> HIDE DEF A7
<1>12. Led(A8) /\ Quiet(A8)
  BY <1>2, <1>11, LedQuiet
<1> HIDE DEF A8
<1>13. Led(A9) /\ Quiet(A9)
  BY <1>2, <1>12, LedQuiet
<1> HIDE DEF A9
<1>14. Led(A) /\ Quiet(A)
  BY <1>2, <1>13, LedQuiet
<1> HIDE DEF A
<1>15. QED
  BY <1>1, <1>14, LedPiece DEF Bare

----------------------------------------------------------------------------
(* The deck. *)

(* The blocks of DeckLines().                                               *)
DeckBlocks(model, analysis) ==
    <<Plain("**") \o Plain("**"), NodeBlock(model),
      SetBlock("*nset", <<"NALL">>, 1..model.nodes),
      SetBlock("*nset", <<"SUPPORT">>, 1..model.supports),
      ElementBlocks(model), SetBlock("*elset", <<"ALL">>, DeckIds(model)),
      MaterialBlock(model), SectionBlocks(model),
      Block("*boundary", model.supports, 4), StepBlock(model, analysis)>>

Writable(model, analysis) ==
    Sound(model) /\ analysis \in {"static", "frequency", "buckling"} /\ PerLine \in Nat \ {0}

LEMMA DeckBlocksAre ==
    ASSUME NEW model, NEW analysis
    PROVE  LET G == DeckBlocks(model, analysis)
           IN  /\ IsSeq(G) /\ Len(G) = 10
               /\ G[2] = NodeBlock(model) /\ G[5] = ElementBlocks(model) /\ G[8] = SectionBlocks(model)
               /\ G[6] = SetBlock("*elset", <<"ALL">>, DeckIds(model))
               /\ G[1] = Plain("**") \o Plain("**") /\ G[3] = SetBlock("*nset", <<"NALL">>, 1..model.nodes)
               /\ G[4] = SetBlock("*nset", <<"SUPPORT">>, 1..model.supports)
               /\ G[7] = MaterialBlock(model) /\ G[9] = Block("*boundary", model.supports, 4)
               /\ G[10] = StepBlock(model, analysis)
<1>1. ASSUME NEW a, NEW b, NEW c, NEW d, NEW f, NEW g, NEW h, NEW i, NEW j, NEW k
      PROVE  LET G == <<a, b, c, d, f, g, h, i, j, k>>
             IN  /\ IsSeq(G) /\ Len(G) = 10
                 /\ G[1] = a /\ G[2] = b /\ G[3] = c /\ G[4] = d /\ G[5] = f
                 /\ G[6] = g /\ G[7] = h /\ G[8] = i /\ G[9] = j /\ G[10] = k
  BY DEF IsSeq
<1>2. QED
  BY <1>1 DEF DeckBlocks

LEMMA QuietBlocks ==
    ASSUME NEW model, NEW analysis, Writable(model, analysis)
    PROVE  LET G == DeckBlocks(model, analysis)
           IN  \A j \in {1, 3, 4, 7, 9, 10} : Bare(G[j])
<1> DEFINE G == DeckBlocks(model, analysis)
<1>1. IsDeckModel(model) /\ model.nodes \in Nat /\ model.supports \in Nat
  BY DEF Writable, Sound, IsDeckModel
<1>2. /\ "*nset" \notin Loud /\ "*boundary" \notin Loud
      /\ "*nset" \notin {"row", "**"} /\ "*boundary" \notin {"row", "**"}
  BY DEF Loud
<1>3. /\ G[1] = Plain("**") \o Plain("**") /\ G[3] = SetBlock("*nset", <<"NALL">>, 1..model.nodes)
      /\ G[4] = SetBlock("*nset", <<"SUPPORT">>, 1..model.supports)
      /\ G[7] = MaterialBlock(model) /\ G[9] = Block("*boundary", model.supports, 4)
      /\ G[10] = StepBlock(model, analysis)
  BY DeckBlocksAre
<1> HIDE DEF G
<1>4. Bare(G[1])
  BY <1>3, CommentsBare
<1>5. Bare(G[3]) /\ Bare(G[4])
  BY <1>1, <1>2, <1>3, SetBlockBare DEF Writable
<1>6. Bare(G[7])
  BY <1>1, <1>3, MaterialBlockBare
<1>7. Bare(G[9])
  BY <1>1, <1>2, <1>3, BlockBare
<1>8. Bare(G[10])
  BY <1>1, <1>3, StepBlockBare DEF Writable
<1>9. QED
  BY <1>4, <1>5, <1>6, <1>7, <1>8 DEF G

(* What is in the four blocks that say where nodes, elements and sections are. *)
LEMMA LoudBlocks ==
    ASSUME NEW model, NEW analysis, Writable(model, analysis)
    PROVE  LET G == DeckBlocks(model, analysis)
           IN  /\ HeadOf(G[2], "*node", DeckNone, 1..model.nodes)
               /\ Lists(G[2], "*node", 4, 1..model.nodes)
               /\ Piece(G[5]) /\ \A k \in DOMAIN G[5] : G[5][k].key \in {"*element", "row"}
               /\ Lists(G[5], "*element", 2, DeckIds(model))
               /\ \A name : InSet(G[5], name) = {id \in DeckIds(model) : SetOf(model, id) = name}
               /\ G[6] = <<>> \/ HeadOf(G[6], "*elset", <<"ALL">>, DeckIds(model))
               /\ Uncounted(G[8]) /\ (NamesDiffer(model) => SectionsSay(G[8], model, DeckIds(model)))
<1>1. Sound(model) /\ IsDeckModel(model) /\ PerLine \in Nat \ {0}
  BY DEF Writable, Sound
<1> DEFINE G == DeckBlocks(model, analysis)
<1>2. /\ G[2] = NodeBlock(model) /\ G[5] = ElementBlocks(model) /\ G[8] = SectionBlocks(model)
      /\ G[6] = SetBlock("*elset", <<"ALL">>, DeckIds(model))
  BY DeckBlocksAre
<1> HIDE DEF G
<1>3. HeadOf(G[2], "*node", DeckNone, 1..model.nodes) /\ Lists(G[2], "*node", 4, 1..model.nodes)
  BY <1>1, <1>2, NodeBlockIs
<1>4. /\ Piece(G[5]) /\ \A k \in DOMAIN G[5] : G[5][k].key \in {"*element", "row"}
      /\ Lists(G[5], "*element", 2, DeckIds(model))
      /\ \A name : InSet(G[5], name) = {id \in DeckIds(model) : SetOf(model, id) = name}
  BY <1>1, <1>2, ElementBlocksAre
<1>5. G[6] = <<>> \/ HeadOf(G[6], "*elset", <<"ALL">>, DeckIds(model))
  <2>1. DeckIds(model) \subseteq Nat /\ IsFiniteSet(DeckIds(model))
    BY <1>1 DEF IsDeckModel, DeckIds
  <2>2. "*elset" \notin {"row", "**"}
    OBVIOUS
  <2>3. QED
    BY <1>1, <1>2, <2>1, <2>2, SetBlockIs
<1>6. Uncounted(G[8]) /\ (NamesDiffer(model) => SectionsSay(G[8], model, DeckIds(model)))
  BY <1>1, <1>2, SectionBlocksAre
<1>7. QED
  BY <1>3, <1>4, <1>5, <1>6 DEF G

(* A deck is its blocks, and every row is under a keyword of its own block. *)
LEMMA DeckIsParts ==
    ASSUME NEW model, NEW analysis, Writable(model, analysis)
    PROVE  /\ \E e : Parts(DeckLines(model, analysis), DeckBlocks(model, analysis), e)
           /\ \A j \in 1..10 : Piece(DeckBlocks(model, analysis)[j])
<1> DEFINE G == DeckBlocks(model, analysis)
           w == DeckLines(model, analysis)
<1>1. w = FlattenSeq(G)
  BY DEF DeckLines, DeckBlocks
<1>2. IsSeq(G) /\ Len(G) = 10
  BY DeckBlocksAre
<1>3. \A j \in {1, 3, 4, 7, 9, 10} : Bare(G[j])
  BY QuietBlocks
<1>4. /\ HeadOf(G[2], "*node", DeckNone, 1..model.nodes) /\ Piece(G[5])
      /\ G[6] = <<>> \/ HeadOf(G[6], "*elset", <<"ALL">>, DeckIds(model))
      /\ Uncounted(G[8])
  BY LoudBlocks
<1> HIDE DEF G, w
<1>5. Piece(G[2]) /\ Piece(G[5]) /\ Piece(G[6]) /\ Piece(G[8])
  BY <1>4, EmptyBare DEF HeadOf, Uncounted, Bare
<1>6. \A j \in 1..10 : Piece(G[j])
  <2>1. 1..10 = {1, 2, 3, 4, 5, 6, 7, 8, 9, 10}
    OBVIOUS
  <2>2. \A j \in {1, 3, 4, 7, 9, 10} : Piece(G[j])
    BY <1>3 DEF Bare
  <2>3. QED
    BY <1>5, <2>1, <2>2
<1>7. \E e : Parts(w, G, e)
  BY <1>1, <1>2, <1>6, FlattenedParts
<1>8. QED
  BY <1>6, <1>7 DEF G, w

(* Each kind of keyword is in its block. *)
LEMMA KeysOfBlocks ==
    ASSUME NEW model, NEW analysis, Writable(model, analysis), NEW j \in 1..10,
           NEW k \in DOMAIN DeckBlocks(model, analysis)[j]
    PROVE  LET key == DeckBlocks(model, analysis)[j][k].key
           IN  /\ key = "*node" => j = 2
               /\ key = "*element" => j = 5
               /\ key = "*elset" => j \in {6, 8}
               /\ key \in SectionKeys => j = 8
<1> DEFINE G == DeckBlocks(model, analysis)
<1>1. \A i \in {1, 3, 4, 7, 9, 10} : Bare(G[i])
  BY QuietBlocks
<1>2. /\ HeadOf(G[2], "*node", DeckNone, 1..model.nodes)
      /\ \A m \in DOMAIN G[5] : G[5][m].key \in {"*element", "row"}
      /\ G[6] = <<>> \/ HeadOf(G[6], "*elset", <<"ALL">>, DeckIds(model))
      /\ Uncounted(G[8])
  BY LoudBlocks
<1> HIDE DEF G
<1>3. CASE j \in {1, 3, 4, 7, 9, 10}
  <2>1. G[j][k].key \notin Loud
    BY <1>1, <1>3 DEF Bare, Quiet, G
  <2>2. QED
    BY <2>1 DEF Loud, SectionKeys, G
<1>4. CASE j = 2
  <2>1. G[2][k].key \in {"*node", "row"}
    BY <1>2, <1>4 DEF HeadOf, G
  <2>2. QED
    BY <1>4, <2>1 DEF SectionKeys, G
<1>5. CASE j = 5
  <2>1. G[5][k].key \in {"*element", "row"}
    BY <1>2, <1>5 DEF G
  <2>2. QED
    BY <1>5, <2>1 DEF SectionKeys, G
<1>6. CASE j = 6
  <2>1. DOMAIN <<>> = {}
    OBVIOUS
  <2>2. G[6] # <<>>
    BY <1>6, <2>1 DEF G
  <2>3. G[6][k].key \in {"*elset", "row"}
    BY <1>2, <1>6, <2>2 DEF HeadOf, G
  <2>4. QED
    BY <1>6, <2>3 DEF SectionKeys, G
<1>7. CASE j = 8
  <2>1. G[8][k].key \notin {"*node", "*element"}
    BY <1>2, <1>7 DEF Uncounted, G
  <2>2. QED
    BY <1>7, <2>1 DEF SectionKeys, G
<1>8. j \in {1, 3, 4, 7, 9, 10} \cup {2, 5, 6, 8}
  OBVIOUS
<1>9. QED
  BY <1>3, <1>4, <1>5, <1>6, <1>7, <1>8

(* The nodes and elements of the deck are the model's. *)
LEMMA DeckCounts ==
    ASSUME NEW model, NEW analysis, Writable(model, analysis)
    PROVE  /\ Cardinality(Counted(DeckLines(model, analysis), "*node", 4)) = model.nodes
           /\ Cardinality(Counted(DeckLines(model, analysis), "*element", 2)) = Cardinality(DeckIds(model))
<1> DEFINE G == DeckBlocks(model, analysis)
           w == DeckLines(model, analysis)
           N == [j \in 1..10 |-> IF j = 2 THEN 1..model.nodes ELSE {}]
           E == [j \in 1..10 |-> IF j = 5 THEN DeckIds(model) ELSE {}]
<1>1. IsSeq(G) /\ Len(G) = 10
  BY DeckBlocksAre
<1>2. PICK e : Parts(w, G, e)
  BY DeckIsParts
<1>3. \A j \in 1..10 : Piece(G[j])
  BY DeckIsParts
<1>4. Lists(G[2], "*node", 4, 1..model.nodes) /\ Lists(G[5], "*element", 2, DeckIds(model))
  BY LoudBlocks
<1>5. \A j \in 1..10 : \A k \in DOMAIN G[j] : (G[j][k].key = "*node" => j = 2) /\ (G[j][k].key = "*element" => j = 5)
  BY KeysOfBlocks
<1> HIDE DEF G, w
<1>6. \A j \in 1..10 : Lists(G[j], "*node", 4, N[j])
  <2>1. SUFFICES ASSUME NEW j \in 1..10 PROVE Lists(G[j], "*node", 4, N[j])
    OBVIOUS
  <2>2. CASE j = 2
    BY <1>4, <2>2
  <2>3. CASE j # 2
    <3>1. \A k \in DOMAIN G[j] : G[j][k].key # "*node"
      BY <1>5, <2>3
    <3>2. Lists(G[j], "*node", 4, {})
      BY <1>3, <3>1, NoneListed
    <3>3. QED
      BY <2>3, <3>2
  <2>4. QED
    BY <2>2, <2>3
<1>7. \A j \in 1..10 : Lists(G[j], "*element", 2, E[j])
  <2>1. SUFFICES ASSUME NEW j \in 1..10 PROVE Lists(G[j], "*element", 2, E[j])
    OBVIOUS
  <2>2. CASE j = 5
    BY <1>4, <2>2
  <2>3. CASE j # 5
    <3>1. \A k \in DOMAIN G[j] : G[j][k].key # "*element"
      BY <1>5, <2>3
    <3>2. Lists(G[j], "*element", 2, {})
      BY <1>3, <3>1, NoneListed
    <3>3. QED
      BY <2>3, <3>2
  <2>4. QED
    BY <2>2, <2>3
<1>8. \A i, j \in 1..10 : i # j => N[i] \cap N[j] = {} /\ E[i] \cap E[j] = {}
  OBVIOUS
<1>9. UNION {N[j] : j \in 1..10} = 1..model.nodes /\ UNION {E[j] : j \in 1..10} = DeckIds(model)
  <2>1. N[2] = 1..model.nodes /\ \A j \in 1..10 : N[j] \subseteq 1..model.nodes
    OBVIOUS
  <2>2. E[5] = DeckIds(model) /\ \A j \in 1..10 : E[j] \subseteq DeckIds(model)
    OBVIOUS
  <2>3. 2 \in 1..10 /\ 5 \in 1..10
    OBVIOUS
  <2> HIDE DEF N, E
  <2>4. QED
    BY <2>1, <2>2, <2>3
<1> HIDE DEF N, E
<1>10. Lists(w, "*node", 4, 1..model.nodes)
  <2>1. Lists(w, "*node", 4, UNION {N[j] : j \in 1..Len(G)})
    <3>1. /\ \A j \in 1..Len(G) : Lists(G[j], "*node", 4, N[j])
          /\ \A i, j \in 1..Len(G) : i # j => N[i] \cap N[j] = {}
      BY <1>1, <1>6, <1>8
    <3>2. QED
      BY <1>2, <3>1, ListsOfParts
  <2>2. QED
    BY <1>1, <1>9, <2>1
<1>11. Lists(w, "*element", 2, DeckIds(model))
  <2>1. Lists(w, "*element", 2, UNION {E[j] : j \in 1..Len(G)})
    <3>1. /\ \A j \in 1..Len(G) : Lists(G[j], "*element", 2, E[j])
          /\ \A i, j \in 1..Len(G) : i # j => E[i] \cap E[j] = {}
      BY <1>1, <1>7, <1>8
    <3>2. QED
      BY <1>2, <3>1, ListsOfParts
  <2>2. QED
    BY <1>1, <1>9, <2>1
<1>12. model.nodes \in Nat /\ IsFiniteSet(DeckIds(model))
  BY DEF Writable, Sound, IsDeckModel, DeckIds
<1>13. IsFiniteSet(1..model.nodes) /\ Cardinality(1..model.nodes) = model.nodes
  BY <1>12, FS_Interval
<1>14. /\ Cardinality(Counted(w, "*node", 4)) = Cardinality(1..model.nodes)
       /\ Cardinality(Counted(w, "*element", 2)) = Cardinality(DeckIds(model))
  BY <1>10, <1>11, <1>12, <1>13, ListsCount
<1>15. QED
  BY <1>13, <1>14 DEF w

(* A set named for a section has the elements of the section, be it filled  *)
(* by *element, *elset or both.                                             *)
LEMMA DeckSets ==
    ASSUME NEW model, NEW analysis, Writable(model, analysis), NamesDiffer(model), NEW id \in DeckIds(model)
    PROVE  InSet(DeckLines(model, analysis), SectionName(model, id))
             = {x \in DeckIds(model) : SectionName(model, x) = SectionName(model, id)}
<1> DEFINE G == DeckBlocks(model, analysis)
           w == DeckLines(model, analysis)
           nm == SectionName(model, id)
<1>1. IsSeq(G) /\ Len(G) = 10
  BY DeckBlocksAre
<1>2. PICK e : Parts(w, G, e)
  BY DeckIsParts
<1>3. \A name : InSet(G[5], name) = {x \in DeckIds(model) : SetOf(model, x) = name}
  BY LoudBlocks
<1>4. \A name : InSet(G[8], name) = {x \in DeckIds(model) : SectionName(model, x) = name}
  BY LoudBlocks DEF SectionsSay
<1>5. G[6] = <<>> \/ HeadOf(G[6], "*elset", <<"ALL">>, DeckIds(model))
  BY LoudBlocks
<1>6. \A j \in 1..10 : \A k \in DOMAIN G[j] :
         (G[j][k].key = "*element" => j = 5) /\ (G[j][k].key = "*elset" => j \in {6, 8})
  BY KeysOfBlocks
<1>7. Sound(model)
  BY DEF Writable
<1>8. nm # <<"ALL">>
  BY <1>7, SectionNames
<1> HIDE DEF G, w, nm
<1>9. \A j \in 1..10 : j \notin {5, 6, 8} => InSet(G[j], nm) = {}
  <2>1. SUFFICES ASSUME NEW j \in 1..10, j \notin {5, 6, 8} PROVE InSet(G[j], nm) = {}
    OBVIOUS
  <2>2. \A k \in DOMAIN G[j] : G[j][k].key \notin {"*element", "*elset"} \/ G[j][k].set # nm
    BY <1>6, <2>1
  <2>3. QED
    BY <2>2, NoneInSet
<1>10. InSet(G[6], nm) = {}
  <2>1. CASE G[6] = <<>>
    <3>1. DOMAIN <<>> = {}
      OBVIOUS
    <3>2. \A k \in DOMAIN G[6] : G[6][k].key \notin {"*element", "*elset"} \/ G[6][k].set # nm
      BY <2>1, <3>1
    <3>3. QED
      BY <3>2, NoneInSet
  <2>2. CASE HeadOf(G[6], "*elset", <<"ALL">>, DeckIds(model))
    <3> DEFINE all == <<"ALL">>
               P == G[6]
    <3>1. HeadOf(P, "*elset", all, DeckIds(model)) /\ all # nm
      BY <1>8, <2>2
    <3> HIDE DEF all, P
    <3>2. InSet(P, nm) = IF "*elset" \in {"*element", "*elset"} /\ all = nm THEN DeckIds(model) ELSE {}
      BY <3>1, HeadInSet
    <3>3. QED
      BY <3>1, <3>2 DEF P
  <2>3. QED
    BY <1>5, <2>1, <2>2
<1>11. InSet(w, nm) = InSet(G[5], nm) \cup InSet(G[8], nm)
  <2>1. InSet(w, nm) = UNION {InSet(G[j], nm) : j \in 1..Len(G)}
    BY <1>2, InSetOfParts
  <2>2. \A x : x \in InSet(w, nm) <=> \E j \in 1..10 : x \in InSet(G[j], nm)
    BY <1>1, <2>1
  <2>3. \A x : \A j \in 1..10 : x \in InSet(G[j], nm) => j \in {5, 8}
    BY <1>9, <1>10
  <2>4. 5 \in 1..10 /\ 8 \in 1..10
    OBVIOUS
  <2>5. \A x : x \in InSet(w, nm) <=> x \in InSet(G[5], nm) \/ x \in InSet(G[8], nm)
    BY <2>2, <2>3, <2>4
  <2>6. QED
    BY <2>5
<1>12. ASSUME NEW x \in DeckIds(model), SetOf(model, x) = nm PROVE SectionName(model, x) = nm
  <2>1. CASE Symmetry(model, id) = "orthotropic"
    <3>1. nm = OwnSet(model, id)
      BY <2>1 DEF SectionName, nm
    <3>2. OwnSet(model, id) # SetOf(model, x)
      BY <1>7, NamesAre
    <3>3. QED
      BY <1>12, <3>1, <3>2
  <2>2. CASE Symmetry(model, id) # "orthotropic"
    <3>1. nm = SetOf(model, id)
      BY <2>2 DEF SectionName, nm
    <3>2. GroupOf(model, id) = GroupOf(model, x)
      BY <1>7, <1>12, <3>1, NamesAre
    <3>3. SectionName(model, id) = SectionName(model, x)
      BY <1>7, <2>2, <3>2, SectionNames
    <3>4. QED
      BY <3>3 DEF nm
  <2>3. QED
    BY <2>1, <2>2
<1>13. InSet(w, nm) = {x \in DeckIds(model) : SectionName(model, x) = nm}
  BY <1>3, <1>4, <1>11, <1>12
<1>14. QED
  BY <1>13 DEF w, nm

(* Every element has one section, which says what the model says, if the    *)
(* names of materials differ.                                               *)
LEMMA DeckSections ==
    ASSUME NEW model, NEW analysis, Writable(model, analysis), NamesDiffer(model), NEW id \in DeckIds(model)
    PROVE  LET w == DeckLines(model, analysis)
           IN  \E s : SectionsAt(w, id) = {s} /\ Says(w, s, model, id)
<1> DEFINE G == DeckBlocks(model, analysis)
           w == DeckLines(model, analysis)
           S == G[8]
<1>1. IsSeq(G) /\ Len(G) = 10
  BY DeckBlocksAre
<1>2. PICK e : Parts(w, G, e)
  BY DeckIsParts
<1>3. /\ \A k \in SectionLines(S) : \E x \in DeckIds(model) : SectionName(model, x) = S[k].set
      /\ \A k \in SectionLines(S) : \A x \in DeckIds(model) : SectionName(model, x) = S[k].set => Says(S, k, model, x)
      /\ \A x \in DeckIds(model) : \E k \in SectionLines(S) : S[k].set = SectionName(model, x)
      /\ \A k, l \in SectionLines(S) : S[k].set = S[l].set => k = l
  BY LoudBlocks DEF SectionsSay
<1>4. \A j \in 1..10 : \A k \in DOMAIN G[j] : G[j][k].key \in SectionKeys => j = 8
  BY KeysOfBlocks
<1>5. \A x \in DeckIds(model) :
         InSet(w, SectionName(model, x)) = {y \in DeckIds(model) : SectionName(model, y) = SectionName(model, x)}
  BY DeckSets
<1> HIDE DEF G, w, S
<1>6. S = G[8] /\ 8 \in 1..Len(G)
  BY <1>1 DEF S
<1> DEFINE o == e[8-1]
<1>7. \A m \in DOMAIN S : o + m \in DOMAIN w /\ w[o + m] = S[m]
  <2>1. \A j \in 1..Len(G) : \A m \in DOMAIN G[j] : e[j-1] + m \in DOMAIN w /\ w[e[j-1] + m] = G[j][m]
    BY <1>2, LinesOfParts
  <2>2. QED
    BY <1>6, <2>1
<1>8. ASSUME NEW k \in SectionLines(w) PROVE \E m \in SectionLines(S) : k = o + m /\ w[k] = S[m]
  <2>1. k \in DOMAIN w /\ w[k].key \in SectionKeys
    BY DEF SectionLines
  <2>2. PICK j \in 1..Len(G) : \E m \in DOMAIN G[j] : k = e[j-1] + m /\ w[k] = G[j][m]
    BY <1>2, <2>1, LinesOfParts
  <2>3. PICK m \in DOMAIN G[j] : k = e[j-1] + m /\ w[k] = G[j][m]
    BY <2>2
  <2>4. j = 8
    BY <1>1, <1>4, <2>1, <2>3
  <2>5. m \in SectionLines(S) /\ k = o + m /\ w[k] = S[m]
    BY <1>6, <2>1, <2>3, <2>4 DEF SectionLines
  <2>6. QED
    BY <2>5
<1>9. PICK m \in SectionLines(S) : S[m].set = SectionName(model, id)
  BY <1>3
<1> DEFINE s == o + m
<1>10. m \in DOMAIN S /\ S[m].key \in SectionKeys
  BY DEF SectionLines
<1>11. s \in SectionLines(w) /\ w[s].set = SectionName(model, id)
  BY <1>7, <1>9, <1>10 DEF SectionLines
<1>12. Says(w, s, model, id)
  <2>1. Says(G[8], m, model, id)
    BY <1>3, <1>6, <1>9
  <2>2. m \in DOMAIN G[8]
    BY <1>6, <1>10
  <2>3. QED
    BY <1>2, <1>6, <2>1, <2>2, SaysAt
<1> HIDE DEF o, s
<1>13. ASSUME NEW k \in SectionLines(w), w[k].set = SectionName(model, id) PROVE k = s
  <2>1. PICK n \in SectionLines(S) : k = o + n /\ w[k] = S[n]
    BY <1>8
  <2>2. n = m
    BY <1>3, <1>9, <1>13, <2>1
  <2>3. QED
    BY <2>1, <2>2 DEF s
<1>14. \A k \in SectionLines(w) : id \in InSet(w, w[k].set) <=> w[k].set = SectionName(model, id)
  <2>1. SUFFICES ASSUME NEW k \in SectionLines(w)
                 PROVE  id \in InSet(w, w[k].set) <=> w[k].set = SectionName(model, id)
    OBVIOUS
  <2>2. PICK n \in SectionLines(S) : k = o + n /\ w[k] = S[n]
    BY <1>8
  <2>3. PICK x \in DeckIds(model) : SectionName(model, x) = S[n].set
    BY <1>3
  <2>4. InSet(w, w[k].set) = {y \in DeckIds(model) : SectionName(model, y) = SectionName(model, x)}
    BY <1>5, <2>2, <2>3
  <2>5. QED
    BY <2>2, <2>3, <2>4
<1>15. SectionsAt(w, id) = {k \in SectionLines(w) : id \in InSet(w, w[k].set)}
  BY DEF SectionsAt, SectionLines, SectionKeys
<1>16. SectionsAt(w, id) = {s}
  BY <1>11, <1>13, <1>14, <1>15
<1>17. QED
  BY <1>12, <1>16 DEF w

----------------------------------------------------------------------------
(* write_deck() *)

(* What DeckCall lets through.                                              *)
Written == {"static", "frequency", "buckling"}

(* A call that goes on has an analysis, a deck that is written or being     *)
(* written is that of a model that was not refused, and a written one has   *)
(* all lines.                                                               *)
DeckInv ==
    /\ deck \in [pc : {"idle", "build", "write", "text", "written", "failed"},
                 model : DeckModels \union {DeckNone}, analysis : Analyses \union {DeckNone}]
    /\ deck.pc \in {"build", "write", "text", "written"} => deck.analysis \in Written
    /\ deck.pc \in {"write", "text", "written"} => deck.model \in DeckModels /\ ~ModelRefused(deck.model)
    /\ deck.pc = "written" => inp = DeckLines(deck.model, deck.analysis)

(* The records of calls.                                                    *)
LEMMA IdleIs ==
    /\ Idle \in [pc : {"idle"}, model : {DeckNone}, analysis : {DeckNone}]
    /\ [Idle EXCEPT !.pc = "failed"] \in [pc : {"failed"}, model : {DeckNone}, analysis : {DeckNone}]
    /\ \A analysis : [Idle EXCEPT !.pc = "build", !.analysis = analysis]
                       \in [pc : {"build"}, model : {DeckNone}, analysis : {analysis}]
BY DEF Idle

(* Each step of write_deck().                                               *)
LEMMA DeckInitially == DeckInit => DeckInv
BY IdleIs DEF DeckInit, DeckInv

LEMMA DeckFailed ==
    ASSUME deck' = [Idle EXCEPT !.pc = "failed"]
    PROVE  DeckInv'
BY IdleIs DEF DeckInv

LEMMA DeckCallStep ==
    ASSUME DeckInv, NEW analysis \in Analyses, NEW modes, NEW overwrite, DeckCall(analysis, modes, overwrite)
    PROVE  DeckInv'
<1>1. CASE capabilities' = "none" \/ CallRefused(analysis, modes, overwrite)
  BY <1>1, DeckFailed DEF DeckCall
<1>2. CASE ~(capabilities' = "none" \/ CallRefused(analysis, modes, overwrite))
  <2>1. deck' = [Idle EXCEPT !.pc = "build", !.analysis = analysis]
    BY <1>2 DEF DeckCall
  <2>2. analysis \in Written
    BY <1>2 DEF CallRefused, Analyses, Written
  <2>3. deck' \in [pc : {"build"}, model : {DeckNone}, analysis : {analysis}]
    BY <2>1, IdleIs
  <2>4. QED
    BY <2>2, <2>3 DEF DeckInv
<1>3. QED
  BY <1>1, <1>2

LEMMA DeckBuildStep ==
    ASSUME DeckInv, NEW model \in DeckModels, DeckBuild(model)
    PROVE  DeckInv'
<1>1. CASE ModelRefused(model)
  BY <1>1, DeckFailed DEF DeckBuild
<1>2. CASE ~ModelRefused(model)
  BY <1>2 DEF DeckBuild, DeckInv
<1>3. QED
  BY <1>1, <1>2

LEMMA DeckNextStep == DeckInv /\ DeckNext => DeckInv'
<1> SUFFICES ASSUME DeckInv, DeckNext PROVE DeckInv'
  OBVIOUS
<1>1. ASSUME NEW analysis \in Analyses, NEW modes \in {0, 1}, NEW overwrite \in BOOLEAN,
             DeckCall(analysis, modes, overwrite)
      PROVE  DeckInv'
  BY <1>1, DeckCallStep
<1>2. ASSUME NEW model \in DeckModels, DeckBuild(model) PROVE DeckInv'
  BY <1>2, DeckBuildStep
<1>3. CASE DeckTruncate
  BY <1>3 DEF DeckTruncate, DeckInv
<1>4. CASE DeckWriteFails
  BY <1>4, DeckFailed DEF DeckWriteFails
<1>5. CASE DeckWrite
  BY <1>5 DEF DeckWrite, DeckInv
<1>6. QED
  BY <1>1, <1>2, <1>3, <1>4, <1>5 DEF DeckNext

(* DeckInv holds whatever is called.                                        *)
LEMMA DeckInductive == DeckSpec => []DeckInv
<1>1. DeckInv /\ [DeckNext \/ SemanticsAsked]_deckVars => DeckInv'
  <2>1. DeckInv /\ SemanticsAsked => DeckInv'
    BY DEF SemanticsAsked, DeckInv
  <2>2. DeckInv /\ UNCHANGED deckVars => DeckInv'
    BY DEF deckVars, DeckInv
  <2>3. QED
    BY <2>1, <2>2, DeckNextStep
<1>2. QED
  BY <1>1, DeckInitially, PTL DEF DeckSpec

(* The summary reads all lines of a deck that is not too long for it.       *)
LEMMA SummaryCounts ==
    ASSUME NEW w, IsSeq(w), w # DeckNone, Len(w) <= MaxInpLines
    PROVE  InpCounts(w) = [nodes    |-> Cardinality(Counted(w, "*node", 4)),
                           elements |-> Cardinality(Counted(w, "*element", 2))]
<1>1. \A k \in DOMAIN w : k <= MaxInpLines
  BY IsSeqHas, DeckAssumption
<1>2. \A key, parts : RowsUnder(w, key, parts) = Counted(w, key, parts)
  BY <1>1 DEF RowsUnder, Counted
<1>3. QED
  BY <1>2 DEF InpCounts

(* A deck that was written is that of its model, which the lemmas are about. *)
LEMMA WrittenSays == DeckInv => DeckSaysItsModel
<1> SUFFICES ASSUME DeckInv, deck.pc = "written" PROVE DeckSaysItsModel
  BY DEF DeckSaysItsModel
<1> DEFINE model == deck.model
           w == DeckLines(model, deck.analysis)
<1>1. model \in DeckModels /\ ~ModelRefused(model) /\ deck.analysis \in Written /\ inp = w
  BY DEF DeckInv
<1>2. Writable(model, deck.analysis)
  BY <1>1, DeckAssumption DEF Writable, Sound, Written
<1>3. w # DeckNone
  BY <1>1, NoneIsNoDeck DEF Written
<1>4. IsSeq(w)
  <2>1. PICK e : Parts(DeckLines(model, deck.analysis), DeckBlocks(model, deck.analysis), e)
    BY <1>2, DeckIsParts
  <2>2. QED
    BY <2>1 DEF Parts
<1>5. /\ Cardinality(Counted(w, "*node", 4)) = model.nodes
      /\ Cardinality(Counted(w, "*element", 2)) = Cardinality(DeckIds(model))
  BY <1>2, DeckCounts
<1>6. NamesDiffer(model) =>
         \A id \in DeckIds(model) : \E s : SectionsAt(w, id) = {s} /\ Says(w, s, model, id)
  BY <1>2, DeckSections
<1> HIDE DEF w, model
<1>7. Len(inp) <= MaxInpLines =>
         InpCounts(inp) = [nodes |-> model.nodes, elements |-> Cardinality(DeckIds(model))]
  BY <1>1, <1>3, <1>4, <1>5, SummaryCounts
<1>8. ASSUME NamesDiffer(model), NEW id \in DeckIds(model)
      PROVE  /\ Cardinality(SectionsAt(inp, id)) = 1
             /\ \A k \in SectionsAt(inp, id) :
                   /\ inp[k].material = NameOf(model, id)
                   /\ \E d \in Given(model, id) : inp[k + 1].data = {d}
                   /\ model.elements[id].family # "beam" /\ model.elements[id].thickness # DeckNone =>
                         inp[k + 1].data = {model.elements[id].thickness}
                   /\ Symmetry(model, id) = "orthotropic" => inp[k].axes = model.elements[id].orientation
  <2>1. PICK s : SectionsAt(w, id) = {s} /\ Says(w, s, model, id)
    BY <1>6, <1>8
  <2>2. Cardinality({s}) = 1
    BY FS_Singleton
  <2>3. QED
    BY <1>1, <2>1, <2>2 DEF Says
<1>9. QED
  BY <1>7, <1>8 DEF DeckSaysItsModel, model

(* When write_deck() has returned, the deck says what the model says, for   *)
(* every model, however many nodes and elements it has, and however many    *)
(* values are in a line: its nodes and elements are counted, and, if the    *)
(* names of the materials differ in the deck, every element has exactly one *)
(* section, with its material, what its group gives, and a shell's own      *)
(* thickness and axes.                                                      *)
THEOREM DecksSayTheirModels == DeckSpec => []DeckSaysItsModel
BY DeckInductive, WrittenSays, PTL
=============================================================================
