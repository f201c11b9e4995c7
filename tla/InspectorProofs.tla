-------------------------- MODULE InspectorProofs --------------------------
(***************************************************************************)
(* Proofs about Inspector: between the loads and dialogs the files of      *)
(* results are read as CalculixFrd says and the decks written as           *)
(* CalculixDeck says; the panels show one file; and the stresses that are  *)
(* counted are of one load case.                                           *)
(***************************************************************************)
EXTENDS Inspector, CalculixProofs, FiniteSetTheorems, WellFoundedInduction

----------------------------------------------------------------------------
(* The stresses of a document. *)

(* An id has one record in a table. *)
LEMMA OneOfAnId ==
    ASSUME NEW R, IsFile(R), NEW S, S \subseteq DOMAIN R, NEW i \in First(R, S), NEW j \in First(R, S),
           Id(R, i) = Id(R, j)
    PROVE  i = j
<1>1. i \in S /\ j \in S /\ i \in Nat /\ j \in Nat
  BY DEF First, IsFile
<1>2. ~(i < j) /\ ~(j < i)
  BY <1>1 DEF First
<1>3. QED
  BY <1>1, <1>2

LEMMA ElementsArePlaces ==
    ASSUME NEW R
    PROVE  Elements(R) \subseteq DOMAIN R
BY DEF Elements, First, ElementRecords, Numbered, Named

LEMMA OneElementOfAnId ==
    ASSUME NEW R, IsFile(R), NEW i \in Elements(R), NEW j \in Elements(R),
           Element(R, i).id = Element(R, j).id
    PROVE  i = j
<1> DEFINE S == {k \in ElementRecords(R) : WellFormed(R[k].numbers)}
<1>1. S \subseteq DOMAIN R /\ Elements(R) = First(R, S)
  BY DEF Elements, ElementRecords, Numbered, Named
<1>2. Id(R, i) = Id(R, j)
  BY DEF Element
<1> HIDE DEF S
<1>3. QED
  BY <1>1, <1>2, OneOfAnId

(* The load case that is chosen is that of a result, if there is one.       *)
LEMMA CaseChosen ==
    ASSUME NEW R, IsFile(R), None \notin Nat \union {Fraction}, Results(R) # {}
    PROVE  LoadCase(R, None) # None
<1> DEFINE Earliest(i) == \A j \in Results(R) : i <= j
           first == CHOOSE i \in Results(R) : Earliest(i)
<1>1. Results(R) \subseteq Nat
  BY DEF Results, Named, IsFile
<1>2. \E i \in Results(R) : Earliest(i)
  BY <1>1, LeastNumber
<1>3. first \in Results(R)
  BY <1>2
<1>4. CaseOf(R, first) \in Nat \union {Fraction}
  <2> HIDE DEF first
  <2>1. R[first].numbers \in Seq(Nat \union {Fraction}) /\ Len(R[first].numbers) >= 8
    BY <1>3 DEF Results, Named, IsFile
  <2>2. QED
    BY <2>1 DEF CaseOf
<1>5. LoadCase(R, None) = CaseOf(R, first)
  BY DEF LoadCase
<1>6. QED
  BY <1>4, <1>5

(* What an accumulated stress is made of. *)
Used(subject) == {i \in DOMAIN subject : subject[i] # None}
LatestOf(subject, id) ==
    CHOOSE i \in Used(subject) : /\ subject[i].id = id
                                 /\ \A j \in Used(subject) : subject[j].id = id => j <= i
AddedAt(subject, n) == UNION {{i} \X PlacesAt(subject[i], n) : i \in Used(subject)}

LEMMA AccumulatedIs ==
    ASSUME NEW subject
    PROVE  LET stress == Accumulated(subject)
           IN  /\ DOMAIN stress.element = {subject[i].id : i \in Used(subject)}
               /\ \A id \in DOMAIN stress.element : stress.element[id] = LatestOf(subject, id)
               /\ \A n \in DOMAIN stress.nodal : stress.nodal[n] = AddedAt(subject, n)
BY DEF Accumulated, Used, LatestOf, AddedAt

LEMMA LatestIs ==
    ASSUME NEW n \in Nat, NEW subject, DOMAIN subject \subseteq 1..n, NEW i \in Used(subject)
    PROVE  /\ LatestOf(subject, subject[i].id) \in Used(subject)
           /\ subject[LatestOf(subject, subject[i].id)].id = subject[i].id
<1> DEFINE T == {j \in Used(subject) : subject[j].id = subject[i].id}
<1>1. T \subseteq 1..n /\ T # {}
  BY DEF Used
<1>2. PICK x \in T : \A y \in T : y <= x
  <2> HIDE DEF T
  <2>1. QED
    BY <1>1, LastPlace
<1>3. \E j \in Used(subject) : /\ subject[j].id = subject[i].id
                               /\ \A k \in Used(subject) : subject[k].id = subject[i].id => k <= j
  BY <1>2
<1>4. QED
  BY <1>3 DEF LatestOf

(* A result that is not passed over is of the element that its number means. *)
LEMMA SubjectIs ==
    ASSUME NEW R, NEW i, Subject(R, i) # None
    PROVE  \E j \in Elements(R) : /\ Subject(R, i) = Element(R, j)
                                  /\ Subject(R, i).id = ExternalId(R, R[i].numbers[3])
<1> DEFINE found == {j \in Elements(R) : Id(R, j) = ExternalId(R, R[i].numbers[3])}
           k == CHOOSE j \in found : TRUE
<1>1. found # {} /\ Subject(R, i) = Element(R, k)
  BY DEF Subject
<1>2. k \in found
  BY <1>1
<1>3. Element(R, k).id = Id(R, k)
  BY DEF Element
<1>4. QED
  BY <1>1, <1>2, <1>3

(* The results that a stress is made of, each with its element.             *)
Subjects(R, case) ==
    [i \in {j \in Results(R) : case = None \/ CaseOf(R, j) = case} |-> Subject(R, i)]

LEMMA OneCaseHolds ==
    ASSUME NEW R, IsFile(R), None \notin Nat \union {Fraction}
    PROVE  OneCase(R)
<1> DEFINE case == LoadCase(R, None)
           subject == Subjects(R, case)
           stress == Accumulated(subject)
           elements == {Element(R, i) : i \in Elements(R)}
           atNodes == UNION {stress.nodal[n] : n \in DOMAIN stress.nodal}
           ofElements == {stress.element[id] : id \in DOMAIN stress.element}
           places == {p[1] : p \in atNodes} \union ofElements
<1>1. Stress(R, None) = stress
  BY DEF Stress, Subjects
<1>2. DOMAIN subject \subseteq Results(R) /\ DOMAIN subject \subseteq 1..Len(R) /\ Len(R) \in Nat
  BY DEF Subjects, Results, Named, IsFile
<1>3. \A i \in Used(subject) : CaseOf(R, i) = case /\ i \in Results(R) /\ subject[i] = Subject(R, i)
  <2>1. ASSUME NEW i \in Used(subject) PROVE CaseOf(R, i) = case
    <3>1. i \in Results(R) /\ (case = None \/ CaseOf(R, i) = case)
      BY DEF Used, Subjects
    <3>2. case # None
      BY <3>1, CaseChosen
    <3>3. QED
      BY <3>1, <3>2
  <2>2. QED
    BY <2>1, <1>2 DEF Used, Subjects
<1>4. \A i \in Used(subject) :
         \E j \in Elements(R) : /\ subject[i] = Element(R, j)
                                /\ subject[i].id = ExternalId(R, R[i].numbers[3])
  <2>1. \A i \in Used(subject) : subject[i] # None
    BY DEF Used
  <2>2. QED
    BY <1>3, <2>1, SubjectIs
<1> HIDE DEF subject, case
<1>5. \A i \in Used(subject) : /\ LatestOf(subject, subject[i].id) \in Used(subject)
                               /\ subject[LatestOf(subject, subject[i].id)].id = subject[i].id
  BY <1>2, LatestIs
<1>6. /\ DOMAIN stress.element = {subject[i].id : i \in Used(subject)}
      /\ \A id \in DOMAIN stress.element : stress.element[id] = LatestOf(subject, id)
      /\ \A n \in DOMAIN stress.nodal : stress.nodal[n] = AddedAt(subject, n)
  BY AccumulatedIs
<1> HIDE DEF stress
<1>7. places \subseteq Used(subject)
  <2>1. ofElements \subseteq Used(subject)
    BY <1>5, <1>6
  <2>2. \A p \in atNodes : p[1] \in Used(subject)
    BY <1>6 DEF AddedAt
  <2>3. QED
    BY <2>1, <2>2
<1>8. Cardinality({CaseOf(R, i) : i \in places}) <= 1
  <2> HIDE DEF places
  <2> DEFINE cases == {CaseOf(R, i) : i \in places}
  <2>1. cases = {} \/ cases = {case}
    BY <1>3, <1>7
  <2>2. Cardinality({}) = 0 /\ Cardinality({case}) = 1
    BY FS_EmptySet, FS_Singleton
  <2> HIDE DEF cases
  <2>3. Cardinality(cases) <= 1
    BY <2>1, <2>2
  <2>4. QED
    BY <2>3 DEF cases
<1>9. ASSUME OneResultEach(R), NEW n \in DOMAIN stress.nodal
      PROVE  stress.nodal[n] =
                UNION {{stress.element[e.id]} \X PlacesAt(e, n) :
                          e \in {f \in elements : f.id \in DOMAIN stress.element}}
  <2> DEFINE around == {f \in elements : f.id \in DOMAIN stress.element}
  <2>1. \A i, j \in Used(subject) : subject[i].id = subject[j].id => i = j
    BY <1>3, <1>4, <1>9 DEF OneResultEach
  <2>2. \A i \in Used(subject) : stress.element[subject[i].id] = i
    BY <1>5, <1>6, <2>1
  <2>3. \A i \in Used(subject) : subject[i] \in around
    BY <1>4, <1>6
  <2>4. \A e \in around : \E i \in Used(subject) : e = subject[i]
    <3>1. SUFFICES ASSUME NEW j \in Elements(R), Element(R, j).id \in DOMAIN stress.element
                   PROVE  \E i \in Used(subject) : Element(R, j) = subject[i]
      OBVIOUS
    <3>2. PICK i \in Used(subject) : subject[i].id = Element(R, j).id
      BY <1>6, <3>1
    <3>3. PICK k \in Elements(R) : subject[i] = Element(R, k)
      BY <1>4
    <3>4. k = j
      BY <3>2, <3>3, OneElementOfAnId
    <3>5. QED
      BY <3>3, <3>4
  <2> HIDE DEF around
  <2>5. AddedAt(subject, n) = UNION {{stress.element[e.id]} \X PlacesAt(e, n) : e \in around}
    BY <2>2, <2>3, <2>4 DEF AddedAt
  <2>6. QED
    BY <1>6, <2>5 DEF around
<1>10. QED
  BY <1>1, <1>8, <1>9 DEF OneCase, StressOfOneCase

----------------------------------------------------------------------------
(* The mesh of a document. *)

LEMMA ElementTypes ==
    ASSUME NEW R, NEW i \in Elements(R)
    PROVE  Element(R, i).type \in {15, 23, 24, 25, 26, 28}
<1>1. WellFormed(R[i].numbers)
  BY DEF Elements, First
<1>2. R[i].numbers[TypeAt(R[i].numbers)] \in Types
  BY <1>1 DEF WellFormed, Complete, Layout, TypeAt
<1>3. QED
  BY <1>2 DEF Element, Types, NodeCount

(* As many elements of some types as there are records of them. *)
LEMMA ElementsCounted ==
    ASSUME NEW R, IsFile(R), NEW types
    PROVE  LET places == {i \in Elements(R) : Element(R, i).type \in types}
               elements == Of({Element(R, i) : i \in Elements(R)}, types)
           IN  /\ IsFiniteSet(places) /\ IsFiniteSet(elements)
               /\ Cardinality(elements) = Cardinality(places)
<1> DEFINE places == {i \in Elements(R) : Element(R, i).type \in types}
           elements == Of({Element(R, i) : i \in Elements(R)}, types)
           f == [i \in places |-> Element(R, i)]
<1>1. IsFiniteSet(places)
  <2>1. places \subseteq 1..Len(R)
    BY ElementsArePlaces DEF IsFile
  <2>2. IsFiniteSet(1..Len(R))
    BY FS_Interval DEF IsFile
  <2> HIDE DEF places
  <2>3. QED
    BY <2>1, <2>2, FS_Subset
<1>2. f \in Bijection(places, elements)
  <2>1. \A i, j \in places : f[i] = f[j] => i = j
    BY OneElementOfAnId
  <2>2. f \in [places -> elements] /\ \A e \in elements : \E i \in places : f[i] = e
    BY DEF Of
  <2> HIDE DEF f, places, elements
  <2>3. QED
    BY <2>1, <2>2 DEF Bijection, Injection, Surjection, IsInjective
<1> HIDE DEF f, places, elements
<1>3. ExistsBijection(places, elements)
  BY <1>2 DEF ExistsBijection
<1>4. IsFiniteSet(elements) /\ Cardinality(elements) = Cardinality(places)
  BY <1>1, <1>3, FS_Bijection
<1>5. QED
  BY <1>1, <1>4 DEF places, elements

(* When no node is missed, the mesh has the elements of the summary and a   *)
(* support for each boundary record that fixes anything.                    *)
LEMMA MeshHolds ==
    ASSUME NEW R, IsFile(R), Error("FEM105", 0) \notin SemanticDiagnostics(R)
    PROVE  LET mesh == Semantics(R)
           IN  /\ Cardinality(mesh.quads) + Cardinality(mesh.tris) = SifSummary(R).shells
               /\ Cardinality(mesh.beams) = SifSummary(R).beams
               /\ mesh.supports = {b \in Boundaries(R) : b.dofs # {}}
<1> DEFINE elements == {Element(R, i) : i \in Elements(R)}
<1>1. Missing(R) = {} /\ {b.node : b \in Boundaries(R)} \ Ids(R, Nodes(R)) = {}
  BY DEF SemanticDiagnostics
<1>2. Installed(R) = elements
  BY <1>1 DEF Missing, Installed
<1>3. Cardinality(Of(elements, Quads)) + Cardinality(Of(elements, Shells \ Quads)) = SifSummary(R).shells
  <2> DEFINE Q == Of(elements, Quads)
             T == Of(elements, Shells \ Quads)
             S == Of(elements, Shells)
  <2>1. S = Q \union T /\ Q \intersect T = {}
    BY DEF Of, Shells, Quads
  <2>2. IsFiniteSet(Q) /\ IsFiniteSet(T)
    BY ElementsCounted
  <2>3. Cardinality(S) = SifSummary(R).shells
    BY ElementsCounted DEF SifSummary
  <2> HIDE DEF Q, T, S
  <2>4. Cardinality(S) = Cardinality(Q) + Cardinality(T) - Cardinality({})
    BY <2>1, <2>2, FS_Union
  <2>5. Cardinality({}) = 0 /\ Cardinality(Q) \in Nat /\ Cardinality(T) \in Nat
    BY <2>2, FS_EmptySet, FS_CardinalityType
  <2>6. Cardinality(Q) + Cardinality(T) = SifSummary(R).shells
    BY <2>3, <2>4, <2>5
  <2>7. QED
    BY <2>6 DEF Q, T
<1>4. Cardinality(Of(elements, Beams)) = SifSummary(R).beams
  <2>1. {i \in Elements(R) : Element(R, i).type \notin Shells}
           = {i \in Elements(R) : Element(R, i).type \in Beams}
    BY ElementTypes DEF Shells, Beams
  <2>2. QED
    BY <2>1, ElementsCounted DEF SifSummary
<1>5. Supports(R) = {b \in Boundaries(R) : b.dofs # {}}
  BY <1>1 DEF Supports
<1>6. QED
  BY <1>2, <1>3, <1>4, <1>5 DEF Semantics

----------------------------------------------------------------------------
(* The files of results. *)

LEMMA LoadReadsFrd ==
    ASSUME NEW name \in Files, Load(name)
    PROVE  [FrdNext \/ FrdCall]_frdVars
BY DEF Load, LoadRefused, LoadInp, BeginFrd, ReadEscapes, LoadDat, LoadDocument

LEMMA StepReadsFrd == [Next]_inspectorVars => [FrdNext \/ FrdCall]_frdVars
<1> SUFFICES ASSUME [Next]_inspectorVars PROVE [FrdNext \/ FrdCall]_frdVars
  OBVIOUS
<1>1. CASE \E name \in Files : Load(name)
  BY <1>1, LoadReadsFrd
<1>2. CASE ReadFrd \/ EndFrd
  BY <1>2 DEF ReadFrd, EndFrd
<1>3. CASE AskReport \/ AskCopy \/ SaveNothing \/ SaveReport \/ SaveCopy \/ WriteDeck
  BY <1>3 DEF AskReport, AskCopy, SaveNothing, SaveReport, SaveCopy, WriteDeck
<1>4. CASE UNCHANGED inspectorVars
  BY <1>4 DEF inspectorVars
<1>5. QED
  BY <1>1, <1>2, <1>3, <1>4 DEF Next

(* The window reads files of results as parse_frd() does, whatever it loads *)
(* and saves in between.                                                    *)
THEOREM ReadsFrdFiles == Spec => FrdSpec
<1>1. Init => FrdInit
  BY DEF Init
<1>2. QED
  BY <1>1, StepReadsFrd, PTL DEF Spec, FrdSpec

(* So its tables are those of the whole records of the file. *)
THEOREM WindowTables == Spec => []FrdTablesAreRecords
BY ReadsFrdFiles, TablesAreRecords, PTL

----------------------------------------------------------------------------
(* The decks. *)

LEMMA LoadLeavesDecks ==
    ASSUME NEW name \in Files, Load(name)
    PROVE  [DeckNext \/ SemanticsAsked]_deckVars
<1>1. deck' = deck /\ inp' = inp
  BY DEF Load
<1>2. CASE \/ LoadRefused(name) \/ LoadInp(name) \/ BeginFrd(name) \/ ReadEscapes(name)
           \/ \E any \in BOOLEAN : LoadDat(name, any)
  BY <1>1, <1>2 DEF LoadRefused, LoadInp, BeginFrd, ReadEscapes, LoadDat, deckVars
<1>3. CASE \E found \in BOOLEAN : LoadDocument(name, found)
  BY <1>1, <1>3 DEF LoadDocument, SemanticsAsked
<1>4. QED
  BY <1>2, <1>3 DEF Load

LEMMA StepWritesDecks == [Next]_inspectorVars => [DeckNext \/ SemanticsAsked]_deckVars
<1> SUFFICES ASSUME [Next]_inspectorVars PROVE [DeckNext \/ SemanticsAsked]_deckVars
  OBVIOUS
<1>1. CASE \E name \in Files : Load(name)
  BY <1>1, LoadLeavesDecks
<1>2. CASE WriteDeck
  BY <1>2 DEF WriteDeck
<1>3. CASE ReadFrd \/ EndFrd \/ AskReport \/ AskCopy \/ SaveNothing \/ SaveReport \/ SaveCopy
  BY <1>3 DEF ReadFrd, EndFrd, AskReport, AskCopy, SaveNothing, SaveReport, SaveCopy
<1>4. CASE UNCHANGED inspectorVars
  BY <1>4 DEF inspectorVars
<1>5. QED
  BY <1>1, <1>2, <1>3, <1>4 DEF Next

(* Around the window decks are written as write_deck() does: a load asks    *)
(* for the optional packages at most, and changes no deck.                  *)
THEOREM WritesDecks == Spec => DeckSpec
<1>1. Init => DeckInit
  BY DEF Init
<1>2. QED
  BY <1>1, StepWritesDecks, PTL DEF Spec, DeckSpec

(* So a deck that was written says what its model says, whatever is loaded  *)
(* before and after, and summarize_deck() counts its nodes and elements.    *)
THEOREM WindowDecks == Spec => []DeckSaysItsModel
BY WritesDecks, DecksSayTheirModels, PTL

----------------------------------------------------------------------------
(* The window. *)

Fields == {"path", "document", "listed", "summary", "diagnostics", "issues", "buttons", "contents", "status"}
IsWindow(w) ==
    DOMAIN w = Fields /\ DOMAIN w.summary = {"elements", "mesh", "stress", "tables", "deck"}

(* What is shown of the file on the label. *)
Shown(w) ==
    /\ IsWindow(w)
    /\ w.path \in Files
    /\ w.document \in {None, files[w.path].records}
    /\ w.document # None => Kind(w.path) \in {"fem", "sif"}
    /\ w.listed = IF w.document = None THEN <<>> ELSE Listed(w.document)
    /\ w.summary.elements # None <=> w.document # None
    /\ w.summary.mesh # None => /\ w.document # None
                                /\ w.summary.mesh = MeshCounts(Semantics(w.document))
    /\ w.summary.stress # None => w.document # None /\ Kind(w.path) = "sif"
    /\ w.summary.tables # None => Kind(w.path) = "frd"
    /\ w.summary.deck # None => Kind(w.path) = "inp"
    /\ w.buttons # {} \/ w.summary # Blank => w.contents = w.path
    /\ w.buttons # {} => w.issues = w.diagnostics /\ w.status = w.path
    /\ "canonicalize" \in w.buttons => w.document # None

(* While an FRD file is read, it is on the label, and no button is enabled  *)
(* (its diagnostics are not on view yet); while a dialog is open, there is  *)
(* a file on the label, and what was saved is of it.                        *)
WindowInv ==
    /\ files \in Folders
    /\ window.path = None => window.document = None /\ window.summary.stress = None
    /\ window.path # None => Shown(window)
    /\ window.path # None => \/ window.contents \in {None, window.path} \/ busy
                             \/ files[window.path].fault = "infinite"
    /\ busy => window.path # None /\ Kind(window.path) = "frd" /\ window.buttons = {}
    /\ dialog # "none" => window.path # None
    /\ saved # None => /\ window.path # None /\ saved.of = window.path
                       /\ saved.document \in {None, files[window.path].records}

LEMMA WindowInit == Init => WindowInv
BY DEF Init, WindowInv, Blank

LEMMA FilesAre ==
    ASSUME files \in Folders, NEW name \in Files
    PROVE  IsFile(files[name].records) /\ files[name].records # None /\ name # None
BY InspectorAssumption

(* The beginning of every load, and its end. *)
LEMMA ClearedIs ==
    ASSUME NEW name \in Files
    PROVE  /\ Shown(Cleared(name)) /\ Cleared(name).path = name
           /\ Cleared(name).document = None /\ Cleared(name).summary = Blank
           /\ Cleared(name).buttons = {}
BY InspectorAssumption DEF Cleared, Shown, IsWindow, Fields, Blank

LEMMA StatusIs ==
    ASSUME NEW name \in Files
    PROVE  LET w == [Cleared(name) EXCEPT !.contents = None, !.status = name]
           IN  Shown(w) /\ w.path = name /\ w.contents = None
<1> DEFINE w == [Cleared(name) EXCEPT !.contents = None, !.status = name]
<1>1. /\ Shown(Cleared(name)) /\ Cleared(name).path = name
      /\ Cleared(name).buttons = {} /\ Cleared(name).summary = Blank
  BY ClearedIs
<1>2. /\ DOMAIN w = DOMAIN Cleared(name)
      /\ \A x \in DOMAIN w \ {"contents", "status"} : w[x] = Cleared(name)[x]
  OBVIOUS
<1>3. w.contents = None
  BY DEF Cleared
<1> HIDE DEF w
<1>4. Shown(w) /\ w.path = name
  BY <1>1, <1>2 DEF Shown, IsWindow, Fields
<1>5. QED
  BY <1>3, <1>4 DEF w

LEMMA FinishedIs ==
    ASSUME NEW w, Shown(w), w.contents = w.path
    PROVE  /\ Shown(Finished(w)) /\ Finished(w).path = w.path
           /\ Finished(w).contents = w.path
<1> DEFINE f == Finished(w)
<1>1. /\ DOMAIN f = DOMAIN w
      /\ \A x \in DOMAIN w \ {"issues", "status", "buttons"} : f[x] = w[x]
  BY DEF Finished
<1>2. /\ f.issues = w.diagnostics /\ f.status = w.path
      /\ f.buttons = {"save"} \union IF w.document = None THEN {} ELSE {"canonicalize"}
  BY DEF Finished, Shown, IsWindow, Fields
<1> HIDE DEF f
<1>3. Shown(f) /\ f.path = w.path /\ f.contents = w.path
  BY <1>1, <1>2 DEF Shown, IsWindow, Fields
<1>4. QED
  BY <1>3 DEF f

LEMMA OpenedIs ==
    ASSUME files \in Folders, NEW name \in Files, Kind(name) \in {"fem", "sif"}
    PROVE  LET w == Opened(name)
           IN  /\ Shown(w) /\ w.path = name /\ w.document # None /\ w.buttons = {}
               /\ w.contents = name
<1> DEFINE R == files[name].records
           w == Opened(name)
<1>1. IsFile(R) /\ R # None
  BY FilesAre
<1>2. Cardinality(Elements(R)) \in Nat
  <2> HIDE DEF R, w
  <2>1. IsFiniteSet(1..Len(R))
    BY <1>1, FS_Interval DEF IsFile
  <2>2. Elements(R) \subseteq 1..Len(R)
    BY <1>1, ElementsArePlaces DEF IsFile
  <2>3. QED
    BY <2>1, <2>2, FS_Subset, FS_CardinalityType
<1>3. Cardinality(Elements(R)) # None
  BY <1>2, InspectorAssumption
<1>4. /\ w.path = name /\ w.document = R /\ w.listed = Listed(R) /\ w.buttons = {}
      /\ w.contents = name /\ DOMAIN w = Fields
      /\ w.summary = [Blank EXCEPT !.elements = Cardinality(Elements(R))]
  BY ClearedIs DEF Opened, Cleared, Fields
<1>5. /\ w.summary.elements = Cardinality(Elements(R)) /\ w.summary.mesh = None
      /\ w.summary.stress = None /\ w.summary.tables = None /\ w.summary.deck = None
      /\ DOMAIN w.summary = {"elements", "mesh", "stress", "tables", "deck"}
  BY <1>4 DEF Blank
<1> HIDE DEF w, R
<1>6. Shown(w)
  BY <1>1, <1>3, <1>4, <1>5 DEF Shown, IsWindow, R
<1>7. QED
  BY <1>1, <1>4, <1>6 DEF w

LEMMA WithMeshIs ==
    ASSUME NEW w, Shown(w), w.document # None, w.buttons = {}, w.contents = w.path
    PROVE  LET f == WithMesh(w)
           IN  /\ Shown(f) /\ f.path = w.path /\ f.document # None /\ f.buttons = {}
               /\ f.contents = w.path
<1> DEFINE mesh == MeshCounts(Semantics(w.document))
           summary == [w.summary EXCEPT !.mesh = mesh]
           f == [w EXCEPT !.summary = summary]
<1>1. IsWindow(w)
  BY DEF Shown
<1>2. WithMesh(w) = w \/ WithMesh(w) = f
  BY DEF WithMesh
<1>3. /\ DOMAIN f = DOMAIN w /\ f.summary = summary
      /\ \A x \in DOMAIN w \ {"summary"} : f[x] = w[x]
  BY <1>1 DEF IsWindow, Fields
<1>4. /\ DOMAIN summary = DOMAIN w.summary /\ summary.mesh = mesh
      /\ \A x \in DOMAIN w.summary \ {"mesh"} : summary[x] = w.summary[x]
  BY <1>1 DEF IsWindow
<1> HIDE DEF f, summary, mesh
<1>5. /\ Shown(f) /\ f.path = w.path /\ f.document = w.document /\ f.buttons = w.buttons
      /\ f.contents = w.path
  BY <1>3, <1>4 DEF Shown, IsWindow, Fields, mesh
<1>6. QED
  BY <1>2, <1>5

LEMMA WithStressIs ==
    ASSUME NEW w, Shown(w), w.document # None, w.buttons = {}, w.contents = w.path,
           NEW found \in BOOLEAN
    PROVE  LET f == WithStress(w, found)
           IN  Shown(f) /\ f.path = w.path /\ f.contents = w.path
<1>1. IsWindow(w)
  BY DEF Shown
<1>2. CASE Kind(w.path) = "sif" /\ found
  <2> DEFINE stress == StressCounts(Stress(w.document, None))
             summary == [w.summary EXCEPT !.stress = stress]
             f == [w EXCEPT !.summary = summary]
  <2>1. WithStress(w, found) = f
    BY <1>2 DEF WithStress
  <2>2. /\ DOMAIN f = DOMAIN w /\ f.summary = summary
        /\ \A x \in DOMAIN w \ {"summary"} : f[x] = w[x]
    BY <1>1 DEF IsWindow, Fields
  <2>3. /\ DOMAIN summary = DOMAIN w.summary
        /\ \A x \in DOMAIN w.summary \ {"stress"} : summary[x] = w.summary[x]
    BY <1>1 DEF IsWindow
  <2> HIDE DEF f, summary
  <2>4. Shown(f) /\ f.path = w.path /\ f.contents = w.path
    BY <1>2, <2>2, <2>3 DEF Shown, IsWindow, Fields
  <2>5. QED
    BY <2>1, <2>4
<1>3. CASE Kind(w.path) = "sif" /\ ~found
  <2> DEFINE f == [w EXCEPT !.diagnostics = @ \union {Warning("SIF900", 0)}]
  <2>1. WithStress(w, found) = f
    BY <1>3 DEF WithStress
  <2>2. DOMAIN f = DOMAIN w /\ \A x \in DOMAIN w \ {"diagnostics"} : f[x] = w[x]
    OBVIOUS
  <2> HIDE DEF f
  <2>3. Shown(f) /\ f.path = w.path /\ f.contents = w.path
    BY <2>2 DEF Shown, IsWindow, Fields
  <2>4. QED
    BY <2>1, <2>3
<1>4. CASE Kind(w.path) = "fem"
  BY <1>4 DEF WithStress
<1>5. QED
  BY <1>2, <1>3, <1>4 DEF Shown

(* Every load shows one file, whatever went wrong on the way.               *)
LEMMA LoadShows ==
    ASSUME files \in Folders, NEW name \in Files, Load(name)
    PROVE  /\ window'.path = name /\ (Shown(window))'
           /\ window'.contents \in {None, name} \/ busy' \/ files[name].fault = "infinite"
           /\ busy' => Kind(name) = "frd" /\ window'.buttons = {}
           /\ saved' = None /\ files' = files /\ dialog' = dialog
<1>1. saved' = None /\ files' = files /\ dialog' = dialog
  BY DEF Load
<1> DEFINE Goal == /\ window'.path = name /\ Shown(window')
                   /\ window'.contents \in {None, name} \/ busy' \/ files[name].fault = "infinite"
                   /\ busy' => Kind(name) = "frd" /\ window'.buttons = {}
<1>3. ASSUME LoadRefused(name) PROVE Goal
  BY <1>3, StatusIs DEF LoadRefused
<1>4. ASSUME LoadInp(name) PROVE Goal
  <2> DEFINE summary == [Blank EXCEPT !.deck = InpCounts(inp)]
             w == [Cleared(name) EXCEPT !.summary = summary, !.contents = name]
  <2>1. /\ Shown(Cleared(name)) /\ Cleared(name).path = name
        /\ Cleared(name).document = None /\ Cleared(name).summary = Blank
    BY ClearedIs
  <2>2. window' = Finished(w) /\ ~busy' /\ Kind(name) = "inp"
    BY <1>4, <2>1 DEF LoadInp
  <2>3. /\ DOMAIN w = DOMAIN Cleared(name) /\ w.summary = summary
        /\ w.contents = name
        /\ \A x \in DOMAIN w \ {"summary", "contents"} : w[x] = Cleared(name)[x]
    BY DEF Cleared
  <2>4. /\ DOMAIN summary = DOMAIN Blank /\ \A x \in DOMAIN Blank \ {"deck"} : summary[x] = None
    BY DEF Blank
  <2> HIDE DEF summary, w
  <2>5. Shown(w) /\ w.path = name /\ w.contents = name
    BY <2>1, <2>2, <2>3, <2>4 DEF Shown, IsWindow, Fields
  <2>6. QED
    BY <2>2, <2>5, FinishedIs
<1>5. ASSUME BeginFrd(name) \/ ReadEscapes(name) PROVE Goal
  BY <1>5, ClearedIs DEF BeginFrd, ReadEscapes
<1>6. ASSUME NEW any \in BOOLEAN, LoadDat(name, any) PROVE Goal
  <2> DEFINE told == IF any THEN {} ELSE {Warning("CCX900", 0)}
             w == [Cleared(name) EXCEPT !.contents = name, !.diagnostics = told]
  <2>1. Shown(Cleared(name)) /\ Cleared(name).path = name /\ Cleared(name).buttons = {}
    BY ClearedIs
  <2>2. window' = Finished(w) /\ ~busy'
    BY <1>6 DEF LoadDat
  <2>3. /\ DOMAIN w = DOMAIN Cleared(name) /\ w.contents = name
        /\ \A x \in DOMAIN w \ {"diagnostics", "contents"} : w[x] = Cleared(name)[x]
    BY DEF Cleared
  <2> HIDE DEF told, w
  <2>4. Shown(w) /\ w.path = name /\ w.contents = name
    BY <2>1, <2>3 DEF Shown, IsWindow, Fields
  <2>5. QED
    BY <2>2, <2>4, FinishedIs
<1>7. ASSUME NEW found \in BOOLEAN, LoadDocument(name, found) PROVE Goal
  <2> DEFINE opened == Opened(name)
             meshed == WithMesh(opened)
             stressed == WithStress(meshed, found)
  <2>1. Kind(name) \in {"fem", "sif"} /\ ~busy' /\ window' = AfterOpening(name, opened, found)
    BY <1>7 DEF LoadDocument
  <2>2. /\ Shown(opened) /\ opened.path = name /\ opened.document # None /\ opened.buttons = {}
        /\ opened.contents = opened.path
    BY <2>1, OpenedIs
  <2> HIDE DEF opened
  <2>3. /\ Shown(meshed) /\ meshed.path = name /\ meshed.document # None /\ meshed.buttons = {}
        /\ meshed.contents = meshed.path
    BY <2>2, WithMeshIs
  <2>4. window' \in {opened, meshed, Finished(stressed)}
    BY <2>1 DEF AfterOpening, AfterMesh
  <2> HIDE DEF meshed
  <2>5. Shown(stressed) /\ stressed.path = name /\ stressed.contents = stressed.path
    BY <2>3, WithStressIs
  <2> HIDE DEF stressed
  <2>6. Shown(Finished(stressed)) /\ Finished(stressed).path = name /\ Finished(stressed).contents = name
    BY <2>5, FinishedIs
  <2>7. QED
    BY <2>1, <2>2, <2>3, <2>4, <2>6
<1>8. \/ LoadRefused(name) \/ LoadInp(name) \/ BeginFrd(name) \/ ReadEscapes(name)
      \/ \E any \in BOOLEAN : LoadDat(name, any)
      \/ \E found \in BOOLEAN : LoadDocument(name, found)
  BY DEF Load
<1>9. Goal
  <2> HIDE DEF Goal
  <2>1. QED
    BY <1>3, <1>4, <1>5, <1>6, <1>7, <1>8
<1>10. Shown(window') => (Shown(window))'
  BY <1>1 DEF Shown, Kind, IsWindow
<1>11. QED
  BY <1>1, <1>9, <1>10

LEMMA EndFrdShows ==
    ASSUME WindowInv, EndFrd
    PROVE  window'.path = window.path /\ Shown(window') /\ window'.contents = window.path
<1> DEFINE tables == [table \in Tables |-> Cardinality({n \in FrdNodes : parsed[table][n] # <<>>})]
           told == IF HasResults THEN {} ELSE {Warning("CCX900", 0)}
           summary == [window.summary EXCEPT !.tables = tables]
           w == [window EXCEPT !.summary = summary, !.diagnostics = told, !.contents = window.path]
<1>1. /\ Shown(window) /\ IsWindow(window) /\ Kind(window.path) = "frd"
      /\ window.buttons = {}
  BY DEF WindowInv, EndFrd, Shown
<1>2. window' = Finished(w)
  BY DEF EndFrd
<1>3. /\ DOMAIN w = DOMAIN window /\ w.summary = summary /\ w.diagnostics = told
      /\ w.contents = window.path
      /\ \A x \in DOMAIN window \ {"summary", "diagnostics", "contents"} : w[x] = window[x]
  BY <1>1 DEF IsWindow, Fields
<1>4. /\ DOMAIN summary = DOMAIN window.summary
      /\ \A x \in DOMAIN window.summary \ {"tables"} : summary[x] = window.summary[x]
  BY <1>1 DEF IsWindow
<1> HIDE DEF tables, told, summary, w
<1>5. Shown(w) /\ w.path = window.path /\ w.contents = window.path
  BY <1>1, <1>3, <1>4 DEF Shown, IsWindow, Fields
<1>6. QED
  BY <1>2, <1>5, FinishedIs DEF w

LEMMA WindowInductive == WindowInv /\ [Next]_inspectorVars => WindowInv'
<1> SUFFICES ASSUME WindowInv, [Next]_inspectorVars PROVE WindowInv'
  OBVIOUS
<1>1. ASSUME NEW name \in Files, Load(name) PROVE WindowInv'
  <2>1. files \in Folders /\ name # None
    BY FilesAre DEF WindowInv
  <2>2. /\ window'.path = name /\ (Shown(window))'
        /\ (window'.contents \in {None, name} \/ busy' \/ files[name].fault = "infinite")
        /\ (busy' => Kind(name) = "frd" /\ window'.buttons = {})
        /\ saved' = None /\ files' = files /\ dialog' = dialog
    BY <1>1, <2>1, LoadShows
  <2>3. QED
    BY <2>1, <2>2 DEF WindowInv, Kind
<1>2. CASE EndFrd
  <2>1. window'.path = window.path /\ Shown(window') /\ window'.contents = window.path
    BY <1>2, EndFrdShows
  <2>2. ~busy' /\ files' = files /\ dialog' = dialog /\ saved' = saved
    BY <1>2 DEF EndFrd
  <2>3. (Shown(window))'
    BY <2>1, <2>2 DEF Shown, Kind, IsWindow
  <2>4. window.path # None
    BY <1>2 DEF EndFrd, WindowInv
  <2>5. QED
    BY <2>1, <2>2, <2>3, <2>4 DEF WindowInv
<1>3. CASE ReadFrd \/ AskReport \/ AskCopy \/ SaveNothing \/ SaveReport \/ SaveCopy
              \/ WriteDeck \/ UNCHANGED inspectorVars
  <2>1. files' = files /\ window' = window /\ busy' = busy
    BY <1>3 DEF ReadFrd, AskReport, AskCopy, SaveNothing, SaveReport, SaveCopy, WriteDeck,
                inspectorVars
  <2>2. window.path # None => Shown(window)
    BY DEF WindowInv
  <2>3. (window.path # None => Shown(window))'
    BY <2>1, <2>2 DEF Shown, Kind, IsWindow
  <2>4. dialog' = dialog \/ dialog' = "none" \/ window.path # None
    BY <1>3 DEF ReadFrd, AskReport, AskCopy, SaveNothing, SaveReport, SaveCopy, WriteDeck,
                inspectorVars, WindowInv
  <2>5. \/ saved' = saved
        \/ saved' = [of |-> window.path, document |-> window.document] /\ window.path # None
    BY <1>3 DEF ReadFrd, AskReport, AskCopy, SaveNothing, SaveReport, SaveCopy, WriteDeck,
                inspectorVars, WindowInv
  <2>6. window.path # None => window.document \in {None, files[window.path].records}
    BY <2>2 DEF Shown
  <2>7. (dialog # "none" => window.path # None)'
    BY <2>1, <2>4 DEF WindowInv
  <2>8. (saved # None => /\ window.path # None /\ saved.of = window.path
                         /\ saved.document \in {None, files[window.path].records})'
    BY <2>1, <2>5, <2>6 DEF WindowInv
  <2>9. QED
    BY <2>1, <2>3, <2>7, <2>8 DEF WindowInv, Kind
<1>4. QED
  BY <1>1, <1>2, <1>3 DEF Next

LEMMA WindowHolds == Spec => []WindowInv
BY WindowInit, WindowInductive, PTL DEF Spec

LEMMA WindowPanelsAgree == WindowInv => PanelsAgree
<1> SUFFICES ASSUME WindowInv, window.path # None PROVE PanelsAgree
  BY DEF PanelsAgree
<1>1. Shown(window)
  BY DEF WindowInv
<1>2. window.document # None => IsFile(window.document)
  BY <1>1, InspectorAssumption DEF WindowInv, Shown
<1>3. window.summary.mesh # None /\ Error("FEM105", 0) \notin SemanticDiagnostics(window.document) =>
          MeshIsDocument(window.summary.mesh, window.document)
  <2>1. SUFFICES ASSUME window.summary.mesh # None,
                        Error("FEM105", 0) \notin SemanticDiagnostics(window.document)
                 PROVE  MeshIsDocument(window.summary.mesh, window.document)
    OBVIOUS
  <2>2. window.document # None /\ window.summary.mesh = MeshCounts(Semantics(window.document))
    BY <1>1, <2>1 DEF Shown
  <2> DEFINE R == window.document
             S == Semantics(R)
  <2>3. /\ Cardinality(S.quads) + Cardinality(S.tris) = SifSummary(R).shells
        /\ Cardinality(S.beams) = SifSummary(R).beams
        /\ S.supports = {b \in Boundaries(R) : b.dofs # {}}
    BY <1>2, <2>1, <2>2, MeshHolds
  <2> HIDE DEF S, R
  <2>4. MeshIsDocument(MeshCounts(S), R)
    BY <2>3 DEF MeshIsDocument, MeshCounts
  <2>5. QED
    BY <2>2, <2>4 DEF S, R
<1>4. QED
  BY <1>1, <1>3 DEF PanelsAgree, WindowInv, Shown, Labelled

(* All panels are about the file on the label, whatever load() was left by: *)
(* for every RecordLimit and whatever the records of the two files are.     *)
THEOREM PanelsAlwaysAgree == Spec => []PanelsAgree
BY WindowHolds, WindowPanelsAgree, PTL

LEMMA WindowStresses == WindowInv => StressesAreOfOneCase
<1> SUFFICES ASSUME WindowInv, window.summary.stress # None PROVE OneCase(window.document)
  BY DEF StressesAreOfOneCase
<1>1. window.path # None /\ Shown(window)
  BY DEF WindowInv
<1>2. window.document # None /\ window.document = files[window.path].records
  BY <1>1 DEF Shown
<1>3. IsFile(window.document)
  BY <1>1, <1>2, InspectorAssumption DEF WindowInv, Shown
<1>4. QED
  BY <1>3, OneCaseHolds, InspectorAssumption

(* The stresses that _append_sif_stress() counts are of one load case, and  *)
(* those of a node come of elements of that case around it, for every file. *)
THEOREM StressesOfOneCase == Spec => []StressesAreOfOneCase
BY WindowHolds, WindowStresses, PTL
=============================================================================
