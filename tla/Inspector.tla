------------------------------ MODULE Inspector ------------------------------
(***************************************************************************)
(* The inspector window (gui.py) around the readers: the panels of one     *)
(* file after the other, whatever goes wrong in between, and what the user *)
(* saves of them.                                                          *)
(*                                                                         *)
(* A load is one callback of the window, so that nothing of it interleaves *)
(* but the lines of an FRD file, which CalculixFrd reads one by one, and a *)
(* deck that another part of the program writes.  A dialog runs the events *)
(* of the program, which may load another file meanwhile.                  *)
(***************************************************************************)
EXTENDS SesamSif, SesamSemantics, CalculixFrd, CalculixDeck

CONSTANTS
    Folders,     \* the files there may be: a kind, records, and what is wrong
    RecordLimit  \* _RECORD_LIMIT

Files == {"first", "second"}

(* What the reader of records makes of a file. *)
IsFile(R) ==
    /\ Len(R) \in Nat /\ DOMAIN R = 1..Len(R)
    /\ \A i \in DOMAIN R : R[i].numbers \in Seq(Nat \union {Fraction})

ASSUME InspectorAssumption ==
    /\ RecordLimit \in Nat
    /\ None \notin Nat \union {Fraction} \union Files
    /\ \A folder \in Folders : \A name \in Files :
          IsFile(folder[name].records) /\ folder[name].records # None

VARIABLES
    files,
    window,      \* the panels and the attributes behind them; contents and
                 \* status are the files that those two panels tell of
    dialog,      \* the dialog that is open, if any
    busy,        \* is an FRD file being read?
    saved        \* history: what was saved last of the file on the label

inspectorVars == <<files, window, dialog, busy, saved, frdVars, deckVars>>

Kind(name) == files[name].kind

(* What a summary may hold. *)
Blank == [elements |-> None, mesh |-> None, stress |-> None, tables |-> None, deck |-> None]

Init ==
    /\ files \in Folders
    /\ window = [path |-> None, document |-> None, listed |-> <<>>, summary |-> Blank,
                 diagnostics |-> {}, issues |-> {}, buttons |-> {}, contents |-> None, status |-> None]
    /\ dialog = "none" /\ busy = FALSE /\ saved = None
    /\ FrdInit /\ DeckInit
    /\ (\A name \in Files : Kind(name) # "inp") => inp = DeckNone

----------------------------------------------------------------------------
(* load() *)

(* Mutant: the document of the last file stays. *)
ClearedPanels(name) ==
    [window EXCEPT !.path = name, !.listed = <<>>, !.summary = Blank,
                   !.diagnostics = {}, !.issues = {}, !.buttons = {}]

(* What the first lines of load() leave: the text of the contents and the   *)
(* status are still the old ones.                                           *)
Cleared(name) ==
    [path |-> name, document |-> None, listed |-> <<>>, summary |-> Blank,
     diagnostics |-> {}, issues |-> {}, buttons |-> {},
     contents |-> window.contents, status |-> window.status]

(* The last lines. *)
Finished(panels) ==
    [panels EXCEPT !.issues = panels.diagnostics, !.status = panels.path,
                   !.buttons = {"save"} \union IF panels.document = None THEN {} ELSE {"canonicalize"}]

(* describe() raises, or the reader does; neither brings diagnostics along, *)
(* and the text is emptied.                                                 *)
Refused(name) ==
    \/ Kind(name) \in {"other", "cad"}
    \/ Kind(name) # "inp" /\ files[name].fault = "unreadable"

LoadRefused(name) ==
    /\ Refused(name)
    /\ window' = [Cleared(name) EXCEPT !.contents = None, !.status = name]
    /\ busy' = FALSE
    /\ UNCHANGED <<capabilities, frdVars>>

Listed(R) == SubSeq(R, 1, IF Len(R) < RecordLimit THEN Len(R) ELSE RecordLimit)

MeshCounts(semantics) ==
    [quads |-> Cardinality(semantics.quads), tris |-> Cardinality(semantics.tris),
     beams |-> Cardinality(semantics.beams), supports |-> Cardinality(semantics.supports)]

(* _load_document() up to the mesh; there is none if the packages for it   *)
(* are not there.                                                           *)
Opened(name) ==
    LET R == files[name].records
    IN  [Cleared(name) EXCEPT !.document = R, !.listed = Listed(R),
                              !.diagnostics = ParseDiagnostics(R) \union Validate(R),
                              !.summary.elements = Cardinality(Elements(R)), !.contents = name]
WithMesh(panels) ==
    IF capabilities' = "none" THEN panels
    ELSE [panels EXCEPT !.summary.mesh = MeshCounts(Semantics(panels.document))]

StressCounts(stress) ==
    [nodal |-> Cardinality(DOMAIN stress.nodal), element |-> Cardinality(DOMAIN stress.element)]

(* _append_sif_stress(); the file is read again, and may be gone.           *)
WithStress(panels, found) ==
    IF Kind(panels.path) = "fem" THEN panels
    ELSE IF found THEN [panels EXCEPT !.summary.stress = StressCounts(Stress(panels.document, None))]
    ELSE [panels EXCEPT !.diagnostics = @ \union {Warning("SIF900", 0)}]

(* An infinite number that is made an integer is no ValueError: it leaves   *)
(* load() there and then.  In the name of a section, a node of an FRD file  *)
(* or a reaction of a DAT file it does so before anything is shown.         *)
ReadEscapes(name) ==
    /\ ~Refused(name) /\ Kind(name) # "inp" /\ files[name].fault = "infinite"
    /\ window' = Cleared(name)
    /\ busy' = FALSE
    /\ UNCHANGED <<capabilities, frdVars>>

Readable(name) == ~Refused(name) /\ files[name].fault # "infinite"

(* In a load record or a result it does so once the document is shown.      *)
Escapes(name) ==
    \/ files[name].fault = "load" /\ capabilities' = "loaded"
    \/ files[name].fault = "result" /\ Kind(name) = "sif"

AfterMesh(name, panels, found) ==
    IF Escapes(name) THEN panels ELSE Finished(WithStress(panels, found))

AfterOpening(name, panels, found) ==
    IF Escapes(name) /\ files[name].fault = "load" THEN panels
    ELSE AfterMesh(name, WithMesh(panels), found)

LoadDocument(name, found) ==
    /\ Readable(name) /\ Kind(name) \in {"fem", "sif"}
    /\ RequireSemantics
    /\ window' = AfterOpening(name, Opened(name), found)
    /\ busy' = FALSE
    /\ UNCHANGED frdVars

(* parse_dat(): what tables there are in the file is its matter.            *)
LoadDat(name, any) ==
    /\ Readable(name) /\ Kind(name) = "dat"
    /\ window' = Finished([Cleared(name) EXCEPT !.contents = name,
                               !.diagnostics = IF any THEN {} ELSE {Warning("CCX900", 0)}])
    /\ busy' = FALSE
    /\ UNCHANGED <<capabilities, frdVars>>

LoadInp(name) ==
    /\ Kind(name) = "inp"
    /\ window' = Finished([Cleared(name) EXCEPT !.summary.deck = InpCounts(inp), !.contents = name])
    /\ busy' = FALSE
    /\ UNCHANGED <<capabilities, frdVars>>

BeginFrd(name) ==
    /\ Readable(name) /\ Kind(name) = "frd"
    /\ window' = Cleared(name)
    /\ busy' = TRUE
    /\ FrdCall
    /\ UNCHANGED capabilities

Load(name) ==
    /\ ~busy
    /\ saved' = None
    /\ \/ LoadRefused(name) \/ LoadInp(name) \/ BeginFrd(name) \/ ReadEscapes(name)
       \/ \E any \in BOOLEAN : LoadDat(name, any)
       \/ \E found \in BOOLEAN :
             (Kind(name) = "sif" \/ found) /\ LoadDocument(name, found)
    /\ UNCHANGED <<files, dialog, deck, inp>>

ReadFrd ==
    /\ busy
    /\ FrdNext
    /\ UNCHANGED <<files, window, dialog, busy, saved, deckVars>>

(* _load_results() *)
EndFrd ==
    /\ busy /\ writer.block = "end"
    /\ window' = Finished([window EXCEPT
           !.summary.tables = [table \in Tables |-> Cardinality({n \in FrdNodes : parsed[table][n] # <<>>})],
           !.diagnostics = IF HasResults THEN {} ELSE {Warning("CCX900", 0)},
           !.contents = window.path])
    /\ busy' = FALSE
    /\ FrdCall
    /\ UNCHANGED <<files, dialog, saved, deckVars>>

----------------------------------------------------------------------------
(* save_report() and canonicalize() *)

(* What is to be saved is looked at before the dialog is shown. *)
AskReport ==
    /\ ~busy /\ dialog = "none" /\ window.path # None
    /\ dialog' = "report"
    /\ UNCHANGED <<files, window, busy, saved, frdVars, deckVars>>

AskCopy ==
    /\ ~busy /\ dialog = "none" /\ window.document # None
    /\ dialog' = "canonical"
    /\ UNCHANGED <<files, window, busy, saved, frdVars, deckVars>>

(* No name is given, the file cannot be written, or, when a file without a  *)
(* document was loaded meanwhile, the writer fails.                         *)
SaveNothing ==
    /\ ~busy /\ dialog # "none"
    /\ dialog' = "none"
    /\ UNCHANGED <<files, window, busy, saved, frdVars, deckVars>>

SaveReport ==
    /\ ~busy /\ dialog = "report"
    /\ dialog' = "none"
    /\ saved' = [of |-> window.path, document |-> window.document]
    /\ UNCHANGED <<files, window, busy, frdVars, deckVars>>

SaveCopy ==
    /\ ~busy /\ dialog = "canonical" /\ window.document # None
    /\ dialog' = "none"
    /\ saved' = [of |-> window.path, document |-> window.document]
    /\ UNCHANGED <<files, window, busy, frdVars, deckVars>>

(* A deck is written where an .inp file is. *)
WriteDeck ==
    /\ \E name \in Files : Kind(name) = "inp"
    /\ DeckNext
    /\ UNCHANGED <<files, window, dialog, busy, saved, frdVars>>

Next ==
    \/ \E name \in Files : Load(name)
    \/ ReadFrd \/ EndFrd \/ AskReport \/ AskCopy \/ SaveNothing \/ SaveReport \/ SaveCopy \/ WriteDeck

Spec == Init /\ [][Next]_inspectorVars

----------------------------------------------------------------------------
(* Properties. *)

(* The records of the file on the label, if it has any. *)
Labelled == files[window.path].records

(* The mesh that is counted has the shells and beams of the other reader's  *)
(* summary, and a support for each boundary record that fixes anything.     *)
MeshIsDocument(mesh, R) ==
    /\ mesh.quads + mesh.tris = SifSummary(R).shells
    /\ mesh.beams = SifSummary(R).beams
    /\ mesh.supports = Cardinality({b \in Boundaries(R) : b.dofs # {}})

(* What the window holds is of the file on the label, after failures and    *)
(* escaped exceptions too: the document is that of the label or none, the   *)
(* list shows its records, the summary holds only what a file of that kind  *)
(* has, and what was saved is of the file on the label.  Unless the         *)
(* semantics tell of a missing node, the mesh is the document.  Once there  *)
(* is a summary or a button is enabled, the text of the contents is of the  *)
(* file too; it is of another one only while an FRD file is read or when    *)
(* an infinite number left load().  With a button all diagnostics are on    *)
(* view and the status tells of the file, and a file without a document     *)
(* cannot be canonicalized.                                                 *)
PanelsAgree ==
    window.path # None =>
        /\ window.document \in {None, Labelled}
        /\ window.document # None => Kind(window.path) \in {"fem", "sif"}
        /\ window.listed = IF window.document = None THEN <<>> ELSE Listed(window.document)
        /\ window.summary.tables # None => Kind(window.path) = "frd"
        /\ window.summary.deck # None => Kind(window.path) = "inp"
        /\ window.summary.stress # None => Kind(window.path) = "sif"
        /\ window.summary.elements # None <=> window.document # None
        /\ window.summary.mesh # None /\ Error("FEM105", 0) \notin SemanticDiagnostics(window.document) =>
              MeshIsDocument(window.summary.mesh, window.document)
        /\ window.buttons # {} \/ window.summary # Blank => window.contents = window.path
        /\ window.contents \in {None, window.path} \/ busy \/ files[window.path].fault = "infinite"
        /\ window.buttons # {} => window.issues = window.diagnostics /\ window.status = window.path
        /\ "canonicalize" \in window.buttons => window.document # None
        /\ saved # None => saved.of = window.path /\ saved.document \in {None, Labelled}

(* The stresses that the window counts are of one load case. *)
StressesAreOfOneCase == window.summary.stress # None => OneCase(window.document)
=============================================================================
