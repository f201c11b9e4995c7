# ANYfileIO: a TLA+ model of its core

ANYfileIO reads and writes engineering files: CAD (STEP, IGES) through an
optional provider package, SESAM FEM/SIF records, and CalculiX decks and
results. Most of it is sequential parsing. What is hard to get right, and hard
to test, is the CAD core in `src/src/anyfileio`: one document object shared by
threads, a provider that is imported once per process, and operations that
borrow a file, call foreign code and publish another file atomically. The
project models that core first, then the readers and writers of SESAM and
CalculiX files, and the inspector window that brings them together.

Paths below are relative to the repository; `cad.py:1065` is
`src/anyfileio/cad.py`, and "the contract" is `docs/CAD_BACKEND_CONTRACT.md`.

## Inventory

| Component | State it keeps | Operations | What makes it correct |
|---|---|---|---|
| `cad.CadDocument` | retained snapshot, release request, borrow count, one-shot loader with its cached error, tessellation, live session with owner thread | two factories, borrow, `release_source`, `close`, `tessellation`/`prototype_meshes`, `_backend_state_for` | a borrowed snapshot stays; a released one is deleted or reported; one load, one outcome; the session stays with its thread |
| `cad_backend` | five module globals under `_LOCK` | `backend_status`, `_load_backend`, test reset | the globals agree; one provider; one execution; final outcome |
| `cad_operations.write_cad`, `tessellate_cad` | the temporary beside the destination, the borrow, the transient session | preserve, translate, tessellate | the destination is old or complete and verified; nothing is left behind; the borrow always ends |
| `cad_operations.read_cad`, `_copy_source_snapshot` | the snapshot, until a document owns it | read in three modes | drift is noticed; exactly one owner deletes the snapshot |
| `cad_artifact` | the temporary of a writer; the opened artifact of a lazy reader | `write_preview_artifact`, `open_preview_artifact` | atomic publication after self-validation; the array data belongs to the manifest that was checked |
| `cad` records | none (frozen) | validation | numerical |
| `sesam.records`, `document`, `validation`, `schema` | identity tables while parsing | `read_raw_records`, `parse_sesam_fem_records`, validation | every line belongs to a record or a diagnostic; duplicate and reference rules |
| `sesam.exporter` | `<name>.tmp` | canonical and raw writing | atomic publication; raw text is preserved |
| `sesam.sif`, `sesam.semantics` | accumulators | stress reading, summary, semantic view | one load case; sums at nodes are of the results that elements show; nothing of the document is lost untold |
| `calculix.frd`, `dat`, `results` | the open dataset and pending row | parsing, merging | no value leaves its record, dataset or node |
| `calculix.deck`, `inp` | none | deck writing, summary | every element has one section, its own; what cannot be written is refused before the file is touched |
| `_semantic_dependencies` | the cached capabilities | `require_semantics` | all or nothing |
| `gui`, `__main__`, `formats`, `diagnostics` | the open file of the window | load, save, convert | all panels show the open file, after failures too |

How they interact: `read_cad` asks `cad_backend` for the provider, gives it a
private snapshot and hands the snapshot to the `CadDocument` the provider
builds. `write_cad` and `tessellate_cad` use the document's live session on its
own thread or borrow its snapshot and let the provider reopen it.
`open_preview_artifact` builds a document whose meshes come from a lazy loader;
`write_preview_artifact` validates its output through the same loader. The
document is the only object that several threads share, `cad_backend` the only
process-wide state of the CAD core. `sesam` and `calculix` share nothing but
the semantic gate; `gui`, `__main__` and `formats` call them in sequence. A
dialog of `gui` runs the events of the program, which may load another file
before the dialog returns.

Hard behaviours: threads at the document and at the provider cache; callbacks
under a lock (loader, factory); exceptions and KeyboardInterrupt between any
two steps; files that other programs change; a provider that does not keep the
contract. There are no messages, no timeouts and no recovery of persisted state.

`PROJECT.json` lists the hazards with their lines, and the properties on each.

## Modules

| Module | Models |
|---|---|
| `SourceLease` | what a document promises about its retained source: readers come and go while it is open, none is let in after a release is asked for, it is detached without readers and deleted when detached |
| `CadDocument` | class `CadDocument`, with all its threads; implements `SourceLease` |
| `CadDocumentProofs` | the theorems about `CadDocument` |
| `CadBackend` | `cad_backend.py`: discovery, loading, caching |
| `CadBackendProofs` | the theorems about `CadBackend` |
| `AtomicOutput` | what an operation promises about its destination: its complete output in one step and success, or no change and an end |
| `CadOperations` | `write_cad` and `tessellate_cad` by several callers on one `SourceLease`; implements `AtomicOutput` |
| `CadOperationsProofs` | the theorems about `CadOperations` |
| `CadRead` | `read_cad` with `_copy_source_snapshot`; what it returns is an initial state of `SourceLease` |
| `CadReadProofs` | the theorems about `CadRead` |
| `PreviewArtifact` | `cad_artifact.py`: several `write_preview_artifact` with one destination, and a document opened from it; implements `AtomicOutput` |
| `PreviewArtifactProofs` | the theorems about `PreviewArtifact` |
| `SesamRecords` | `sesam/records.py`: records from lines, and lines from records |
| `SesamDocument` | `sesam/document.py`, `validation.py`, `schema.py`: the tables of a document, how elements find their references, the diagnostics |
| `SesamReader` | a SESAM file read, rewritten (`sesam/exporter.py`) and read again |
| `SesamReaderProofs` | the theorems about `SesamReader` |
| `SesamSemantics` | `sesam/semantics.py`: what a document means as a mesh with supports and loads |
| `SesamSif` | `sesam/sif.py`: the stresses in a result file, and its summary |
| `SemanticGate` | `_semantic_dependencies.py`: the checks of optional packages and the cache |
| `CalculixFrd` | `calculix/frd.py` and the tables of `results.py`: a result file read line by line beside the program that writes it |
| `CalculixDeck` | `calculix/deck.py` and `inp.py`: `write_deck()`, and counting what is in a deck |
| `CalculixProofs` | the theorems about `CalculixFrd` and `CalculixDeck` |
| `Inspector` | `gui.py`: the window over all of these readers, with the deck writer beside it |
| `InspectorProofs` | the theorems about `Inspector`: FRD files are read and decks are written as `CalculixFrd` and `CalculixDeck` say, its panels agree, the stresses it counts are of one load case |
| `MCCadDocument`, `MCCadBackend`, `MCCadOperations`, `MCCadRead`, `MCPreviewArtifact`, `MCSesamReader`, `MCInspector` | constants of the runs |

Operators named as mutants in a comment (`AwaitNobody`, `CleanupByPath`, ...)
are the plausible bugs each property was tried against; the specifications do
not use them.

### CadDocument

The variables carry the names of the fields. `lock` is the owner of the
condition's `RLock` for as long as a thread holds it across a call out. A
critical section that does not call out is one action, enabled when `lock` is
free: `Borrow`, `ExitBorrow`, `Reacquire`, the first part of `release_source()`
(`ReleaseSource`). Three things are split, because other threads see them half
done: `wait()` gives the lock up (`ReleaseSource` -> "waiting" -> "woken" ->
`Reacquire`), the unlink happens after it (`Unlink`, which has the three
outcomes of `None.unlink`, success and `OSError`), and the loader runs inside it
(`EnterLoad`, `LoaderReturns`/`LoaderFails`/`LoaderInterrupted`, `DropLoader`).
`AccessPreview` is the unlocked test before that. The fields of the live session
are written without the lock, by its owner alone: `Close` is the test of the
owner and the start of the callback. A KeyboardInterrupt reaches the main thread
in its wait and in its loader. `origin`, `loads`, `observed` and `faults` are
history.

What is abstracted: manifest, options and meshes are values nobody changes; a
mesh tuple is "meshes". A second or nested borrow by one thread is left out, so
that `borrows` is a set.

### CadBackend

`enumerated`, `entry_point`, `state`, `backend` and `failure` are the module's
globals (`state` is `_STATUS.state`). `backend_status()` is one action;
`_load_backend()` keeps `_LOCK` while the provider's entry point, factory and
attributes run, and is split there ("loading", "checking"). What the metadata
query finds, whether the factory raises, and what the checks say of the object
are nondeterministic. `runs` numbers the executions of the factory, and a
provider is the number of the run that made it. The lock is reentrant in the
code; the model assumes that the provider does not call back into the loader.

### CadOperations

One record per caller holds the locals of its operation: where it stands, the
mode, whether an exception is on its way and whether it is an interrupt, the
transient session, and what was read, reported, published and refused. The
labels follow the text of `write_cad`; `Raise` may leave any of them for the
handler that encloses it, which stands for every cancellation check, file error
and provider error there. The finally clause of the reopened source
(`CloseTransient`, `CompareSource`, `RehashSource`: close, second stat, second
digest), the exit of the borrow (`LeaveBorrow`) and the except clause that cleans
up (`Cleanup`) are passed in that order by every exception.
Contents of files are reduced to what the checks tell apart: nothing, half an
output, the manifest's source, a changed source, the provider's output. Bytes
stand for their digest. The provider may leave no file, a replaced file or half
an output at the temporary path. Another program may change the retained source
at any time and put it back at any time (`Tamper`); a stat signature is "same"
until the file is written, with whatever bytes, since a write moves the ctime.
`unseen` is history: writes in the two gaps that the code leaves, between the
first digest and the first stat (`cad_operations.py:523-525`) and between the
second stat and the second digest (`:571-572`). A file that is changed in the
first and restored in the second passes all checks although the provider read
other bytes; `ReadsVerified` excepts this one history and no other. Nobody but
the provider's call touches a temporary. The session is closed by its owner
between operations. `os.replace` and the return are one step, here and in
`PreviewArtifact`, so that an interrupt between the two is left out.

### CadRead

One call of `read_cad`. The source path names one of `Files`; other programs
write to the files and rename them at any moment, and a writer may put the mtime
back. A stat result is file, mtime and ctime; the ctime counts the writes and
stands for the content, which assumes that every write moves it. Each stat, the
open and each block is a step. `snapshot` is the file at the private path,
`owner` says who has to remove it (the local variable `snapshot`, or the
document), `document` is what the provider returned: any value at all, and the
snapshot may be written, replaced or removed during its call. The copy's own
except clause and that of `read_cad` are one pair of actions, `CloseDocument` and
`Cleanup`: the second finds nothing left to do.

Left out: the `expected_sha256` of the copy, which `read_cad` does not pass.

### PreviewArtifact

`disk` gives each inode whose artifact its bytes are, whether they are all of it,
and a stamp for its stat signature. Writing, reopening and hashing take their
signature checks at two moments, so that other programs can overwrite, rename or
remove a file between any two of them (`Tamper`); only the last lstat and
`os.replace` are one step, since no check by path can close that window. The
payload is made before the temporary and changes nothing. `Raise` leaves any
step; `ErrorOf` is the conversion in the loader of the reopened temporary. The
document of a reader reads the metadata twice, when it is opened and when it is
first accessed, and then one mesh after the other; the lock around that is in
`CadDocument`. A file that is not whole may have intact metadata and damaged
meshes. Digests, the ZIP structure and the comparison of records are one verdict:
is this the artifact of that writer, and whole?

### SesamReader

The reader is sequential; what is hard is the sequence of records. A file is any
sequence of `Templates`: `ReadLine` takes the next line, `EndOfFile` flushes the
last record, `Parse` and `ValidateDocument` add diagnostics and refuse. Then the
document is written in one of the two modes, and the text is read with the same
`strict`. The operators of `SesamDocument` give the tables after all records are
read, as the parsers do with one pass each: a table is the set of records that
define it, and the diagnostics are sets.

A line is its name, its numbers and its pieces of text; a number is a natural or
`Fraction`, which no id may be. Numbers inside of text are found too, and quotes
are lost in writing, as in the code. What columns a number is cut from, values
that are not ids, names, loads and transforms are left out, apart from the
diagnostics about them. A failing write ends; the temporary it leaves
(`<name>.tmp`) and a second writer of it are not in this model.

### SesamSemantics and SesamSif

Both are operators on the records of a document, over the tables of
`SesamDocument`. An element is in the mesh if all of its nodes are, and keeps
the id that its thickness, its transforms and its section were found under;
supports, pressures and gravity follow the loops of `_install_supports` and
`_install_loads`, and the diagnostics their order of cases. A vector is the id
of its record, a pressure the values that are averaged. Left out: the properties
of materials and beam sections and the transforms of nodes.

A stress is the place of its RVSTRESS record. `Subject` is the chain of
conditions under which a result is passed over (element, shell, payload, local
frame), and `Stress` has the two accumulators: the last result of an element,
and all additions at a node. The projection to global axes is left out; an
element with three corners has a frame.

### CalculixFrd

The module composes two actors over one line at a time. The writer says what the
file is: blocks of nodes, elements and datasets, with or without declared
components (one of which may be `ALL`), records over one or more lines, rows that
begin with a material, lines that are cut short, records and blocks that are not
ended. `writer.tables` is the reference: the values of whole records. The other
variables are the locals of `parse_frd`, and each action is a line with what the
loop does at it. A value is `<<record, place>>`, so that a value in the wrong
row, dataset or place shows. Not in the writer: a `3C` or `9999` line inside a
dataset that was not ended, and lines lost at the start of a record, since then
the text does not say whose the values are; two datasets whose labels begin
alike, such as `DISP` and `DISPI`, are one table in the code, and one in the
reference.

### SemanticGate and CalculixDeck

`RequireSemantics` is one call of `require_semantics()`: packages may change
between calls, until one succeeds. Threads that fill the cache together are left
out.

`write_deck()` is four steps: `DeckCall` (gate, arguments, the test of the
destination), `DeckBuild` (all refusals of the model; every line is made before
the file is touched), `DeckTruncate`, and `DeckWrite` or `DeckWriteFails`, which
leaves a part. A line is a keyword or a row, with how many parts it has and what
they stand for. Elements are grouped by type and material in the order of their
first members, as the dict of the code does (`GroupOf`), but their sets carry the
identifier of the material (`NameOf`, `SetOf`), and the set and orientation of an
orthotropic shell the identifier and the element's id (`OwnSet`). The constant
`Identifier` is `_identifier()`, any function from materials to names, where a
name is a stem and the numbers at its end: names may agree, with one another and
with an own set. `DeckSaysItsModel` counts nodes and elements whatever the names;
of sections it speaks when `NamesDiffer`, as it is not true otherwise (see the
disagreements). Of a beam's section and of a shell without thickness it says what
is true: they get one that their group gives (`Given`). Every material is taken to
have a density. `InpCounts` reads the lines again, as
`read_nodes_and_element_count` does.

### Inspector

`window` holds the panels and the attributes behind them (`_path`, `_document`,
`_summary`, `_diagnostics`, the two lists, the buttons, the status line). A load
is one action for each kind of file, except that an FRD file is read line by line
(`BeginFrd`, `ReadFrd`, `EndFrd`); nothing else happens in the window meanwhile,
as there is one thread. `LoadRefused` is the two except clauses.
`contents` is the file that the text of the summary panel is of. The first lines
of `load()` clear everything but this text and the status (`Cleared`). An infinite
number that is made an integer raises OverflowError, which is not among the
exceptions that are caught, and the load ends where it is: before anything of the
file is shown, if a section's name, an FRD node or a DAT reaction has it
(`ReadEscapes`: `sesam/document.py:347`, `calculix/frd.py:105` and `:112`,
`calculix/dat.py:78`), or with the document set, if a load or a result has it
(`Escapes`). In the first case the text of the file before stays under the new
label; `PanelsAgree` says that this, and the time an FRD file is read, are the
only ones. A SIF file
is read again for its stresses, and may be gone (`found`). A dialog is two
actions, and loads may come between. `saved` is history: what was saved last of
the file on the label, forgotten by the next load. `WriteDeck` stands for any
user of the package that writes a deck where the window reads one.

The modules of the CAD core meet in `SourceLease`: a document returned by `CadRead` starts as
one (`DocumentStartsAsLease`), `CadDocument` implements it (`LeaseSpec`), and
`CadOperations` uses it as its document.

## Runs

| Run | Shows | Bounds |
|---|---|---|
| `cad_document` | type and safety of the retained source, the preview and the session; releases and accesses return; `SourceLease` is implemented | 3 threads: the main thread, a worker, and a worker whose callbacks may release inside their own borrow. Two releases can wait on one borrower, and a loader can run meanwhile |
| `release_idempotent` | violation: two waiting releases, the second fails with AttributeError | the same |
| `preview_interrupted` | violation: an interrupted load loses the preview silently | the same |
| `cad_backend` | the cached variables agree, one provider, one execution, a final outcome, blocked callers return | 3 threads; `MaxRuns` = 3 executions, the last of which ends in an outcome; `MaxResets` = 1 use of the test hook |
| `backend_once` | violation: a raising property of the provider is not cached | the same |
| `cad_operations` | atomic publication of verified bytes, no residue, no foreign file removed, sessions inside borrows, verified reads, no starved release, no stuck operation | 2 callers, one operation each; one owns the live session, if it is not closed, may be interrupted and asks for any of three modes, the other preserves or tessellates; the source is changed and restored any number of times |
| `cad_read` | an accepted copy is the source as it is, the snapshot has one owner in the end, the returned document starts a lease on verified bytes, no session is lost | 2 files at the source path, `MaxWrites` = 2 writes to each, any number of renames |
| `preview_artifact` | published artifacts are whole and validated, temporaries are removed or told of, lazily loaded meshes belong to the opened manifest | 2 writers, one of which may be interrupted, 1 reader; `MaxTampering` = 2 acts of other programs |
| `preview_cancelled` | violation: a cancellation inside self-validation is raised as an artifact error | the same |
| `sesam_reader` | a strictly read file holds together, the model is independent of the order of records, rewriting keeps the model and what strict reading accepts | 11 lines: a node in two forms, a beam with a number in quoted text, a shell that needs a second line, references by id and by internal number, a material, an unknown record, the end; files of up to `MaxLines` = 5 lines |
| `sesam_quoted` | violation: a number in the quoted text of a beam becomes one of its nodes in a canonical copy | `MaxLines` = 2 |
| `inspector` | the panels are of one file after any sequence of loads, failures and dialogs; the stresses are of one load case, and those of nodes made of those of elements; FRD tables are those of the whole records; a written deck says what its model says | 2 files: a SESAM model of 2 of 7 records beside 5, a result file with up to 3 of 4 results, files that are refused or escape, FRD, INP, DAT, CAD and unknown ones. `MaxBlocks` = 3 blocks and `MaxRecords` = 2 records in an FRD file, 2 nodes, 3 labels; decks of up to 2 of 12 elements (beams of different sections and shells without thickness among them), or of 2 whose materials have one name or the one the other's with an id, `PerLine` = 1, `MaxInpLines` = 45, `Cuts` = 0 or 10 lines left; `RecordLimit` = 6 |

Two acts of other programs are enough for `PreviewArtifact`: the writer's checks
form a chain in which each signature is compared with the one before, so that one
act in each of two gaps is the worst; the reader sees besides them what two
writers publish. Two files and two writes are enough for `CadRead`: every check compares two stat
results, so that a change and its disguise, or a file and the one that replaces
it for a while, is the worst it can meet. The call is sequential and may be left
in any step, hence no liveness there. Two callers are enough for the races of `CadOperations`: they share the source,
the destination and nothing else, and the release is a third actor. Two that
translate at once differ from one that translates and one that preserves in
nothing that either can see of the other; the theorems hold for any callers and
wishes.

Five lines hold an element with its node, its reference, the material of it and
the end record, in every order; the rules for duplicates and references relate two
records each. `OrderDoesNotMatter` exempts records of one kind with one id: strict
reading refuses them, except for GNODE (the first is kept) and GELREF1 (the last),
of which nothing is told.

In `inspector`, a row of an FRD file can leak into the next record, the next
dataset or another table: three blocks and two records hold a first dataset with
a row that is cut, one without declared components, and a block of nodes. Two
elements make a group, two groups, or a mixed group; with one value in a line,
a set of two has two lines, and decks both below and above 45 lines occur. Two
files are enough for the panels, whose load starts from what the last one left.
`StressesAreOfOneCase` speaks of nodes only where no element has two results in
one load case: the code adds both at the nodes and shows the last for the
element. It speaks of all elements and not of shells, because the code takes
from the result that an element is a shell, and never compares this with the
element; one file of the run has such a result. There is no liveness: nothing runs but what the user asks for.

Fairness. A thread inside a call keeps running, a thread that is ready for a free
lock gets it, and the provider's code ends; all weak. Leaving a borrow block is
strongly fair in `CadDocument`, since inside the block a thread may be in
another call of the document again and again, finitely often. Nothing makes a
thread start a call, and no failure is fair. In `CadBackend`, liveness needs
that interrupts end: that is `MaxRuns`. In `CadOperations` a release that was
asked for goes on when no borrower is left, which `cad_document` shows.

## Theorems

`CadDocumentProofs` proves for any set of threads: `TypeCorrect`,
`BorrowSafety`, `NoLeak`, `SharedLoad`, `SessionStaysWithOwner` and
`ImplementsLease` (the refinement of `SourceLease`). Assumptions:
`ThreadsAssumption` alone. The inductive invariant `IndInv` has five parts:

* `TypeOK`;
* `SourceInv`: the borrow count is the number of threads inside a block, and a
  block means path and file are there. The count alone decides whether a release
  detaches, so without its equality with the set nothing about the threads
  inside follows; a path a release holds is the only reference left to the
  file;
* `RequestInv`: while a thread waits a release has been requested, so that a
  waiting release is the lease's draining phase;
* `LoadInv`: exactly the thread inside the loader has the lock, the loader is
  armed for as long as it is there, and whatever was observed is the outcome;
* `SessionAffinity`.

Each action preserves each part it can disturb. The action of a releasing
thread is the interesting one: `borrowers = 0` and the count give
`borrows = {}`.

`CadBackendProofs` proves for any set of threads, from `BackendAssumption`:
`TypeCorrect`, `Coherence`, `SingleProvider`, `SingleRun` and `FinalOutcome`. The
inductive invariant adds three parts to `TypeOK` and `CacheCoherent`. `LockInv`:
exactly the thread in the provider's code holds the lock, and as long as there
is one nothing is decided; without it a second thread could decide meanwhile and
the first overwrite its outcome. `HandedInv`: whatever was handed out is the
cached provider. `RunsInv`: while nothing is decided and nobody executes the
provider, it has not been executed, which makes `FactoryRunsOnce` inductive.

`CadReadProofs` proves, for any files and any number of writes and renames:
`TypeCorrect`, `CopyIsSource`, `SingleOwner`, `LeaseStarts` and `SessionsClosed`.
The inductive invariant has three parts besides `TypeOK`.
`CopyInv`: the versions of the blocks lie between the ctime seen after the open
and the present one, and are of the open file; when both ends are equal, every
block is of that version. `CustodyInv` says at each label who holds the snapshot
and the session, and `EndInv` how a call ends; the properties speak of the end
alone and are not inductive.

`PreviewArtifactProofs` proves, for any number of writers and of acts of other
programs, from `ArtifactAssumption`: `TypeCorrect`, `TemporariesHandled`,
`MeshesMatch` and `ImplementsOutput` (the refinement of `AtomicOutput`). The
heart is `ChainInv`: the signature a writer holds is never newer than its file,
so that one act of another program makes it stale for good, and while it is not
stale, the file validated is the file there. `FileInv` adds that only a success
brings a file of a writer to the destination; with it the refinement's author is
the destination itself (`AuthorIsDestination`), and publication is the only step
that is not a failure or a stutter.

`CalculixProofs` proves of `CalculixFrd`, for any labels, numbers of components, nodes, blocks
and records, and any cuts of lines, from `FrdAssumption`: `FrdTypeCorrect` and
`TablesAreRecords`, under `FrdSpec`: the lines of a file, and other files after
it. What is between blocks follows from what is inside one, where nothing has
reached the tables yet, so the inductive invariant speaks of every line.
`BlockInv` and `HeaderInv`: the reader is in the block of the writer, and once the
header is read its `Components` are the writer's. `ValuesInv`: a row of the open
dataset is empty or a whole record, never as long as its table by accident.
`PendingInv`: a pending row is a beginning of the writer's record, or, when a line
of it was cut, shorter than the record has places so far, so that no later line
can complete it. `TablesInv`: the tables as they would be if the dataset ended
now are those of the whole records. The lemmas about `Line` (two lines that
follow one another, the last values of a row, the first values of a row) are
where the arithmetic is.

Of `CalculixDeck` it proves `DecksSayTheirModels`, under `DeckSpec` (calls of
`write_deck()`, and other operations that ask for the optional packages), for any
number of nodes, elements, materials, groups, supports and loads, any values in a
line and any limit of the summary. Assumptions: `DeckAssumption` (the sizes are
naturals, element ids are naturals and finitely many, and so are materials) and
`NoneIsNoDeck` (no sequence of lines is `DeckNone`). The invariant `DeckInv` is
short: from `DeckBuild` on the model is one that was not refused, and in the end
the file has the lines of it. The work is in what these lines say, and follows
the deck down and up again:

* `FlattenSeq` is characterized, not computed: its result is the parts one after
  the other (`Flattened`, from the smallest number of parts for which it would
  not be), and `sorted()` has the members of a set, each once (`SortedIs`);
* the deck is ten blocks, themselves made of parts. Every row stands under a
  keyword of its own part (`Piece`), so that what is found in the whole is what is
  found in the parts: the counted rows (`ListsOfParts`), the members of a set
  (`InSetOfParts`) and the sections of an element (`SectionsOfParts`), the last
  only if no two parts use one set name;
* hence names matter (`NamesAre`): those of single orthotropic shells and `ALL`
  are never the same (`OwnSetsDiffer`, as the id can be read off the name), and,
  under `NamesDiffer`, neither are those of groups, nor one of these and one of
  those. A group's section covers the elements with its first element's type and
  material (`LeadersAre`), which is every element once;
* what the refusals are for shows in `OrthotropicSectionIs` and `GroupSectionIs`:
  without those of `SectionRefused` the section of a group would not have the
  thickness of its members;
* the other blocks have none of these keywords (`QuietBlocks`).

These are lemmas about operators: they hold for any model that `write_deck()`
accepts.

`CadOperationsProofs` proves for any set of callers, any owner of the session and
any interrupts, from `CallersAssumption`: `TypeCorrect`, `TemporariesHandled`,
`SessionInsideBorrow`, `VerifiedReads`, `ProviderHasSource`, `ForeignFilesKept`
and `ImplementsOutput` (the refinement of `AtomicOutput`). The inductive
invariant says of each caller at which labels it is inside a borrow
(`BorrowInv`), which modes get to which labels and whether an exception is on its
way there (`ModeInv`), where the transient session is (`SessionInv`), what the
provider has read (`ReadInv`), and what may be at the temporary path (`FileInv`);
besides,
`LeaseInv` (a borrowed source is there) and `DestinationInv` (whoever is the
author of the destination has published). `ReadInv` follows the four checks: as
long as the signature is the source's, the bytes there, and those that were read,
are the manifest's unless a change went before the first stat (`"before" \in
unseen`), so that a digest that is right in the end means that they were, or that
they were put back in the second gap. `FileInv` carries most else: only after
the provider's call can a foreign file be at the path, and at the publication the
file is the operation's own with the bytes that were verified. Nobody but the
provider touches a temporary in this model, so that the step between the last
look at it and `os.replace` is one of the hazards without a property.

`SesamReaderProofs` proves for any lines and files of any length, from
`ReaderAssumption` (lines are made of names, numbers and pieces of text) and
`NoneAssumption` (None is no record):

* `TypeCorrect`, with the invariant `ReaderInv`: lines, records and the one that
  is begun are well formed, so that every place a diagnostic tells of is there.
  What a recursive definition of a library gives is not computed but
  characterized: that `FlattenSeq` of sequences is one follows from the least
  place where it would not be;
* `StrictReads`, with `StrictInv`: strict reading goes on only without orphans,
  and returns only records of which parsing and validation told no error. That
  such records hold together (`AcceptedHoldsTogether`) is where the diagnostics
  are compared with the tables;
* `OrderIsOfNoMatter`: the exchange of two neighbouring records moves each table
  with it (`Moved`), except where both are of one kind and id; the first or last
  record of an id, which `GNODE` and `GELREF1` ask for, is found in another place
  but is the same record (`FirstMoved`, `ReferencesMoved`, `ModelMoved`);
* `RewritingKeeps`: `RewritingKeepsModel` of every file whose numbers can be found
  again in what is written of them (`Plain`): one that is rewritten raw, or whose
  nodes, elements, materials and other records of numbers have no text with
  numbers in quotes. Without this it is not true: `canonical_record_lines()`
  writes all numbers of a record and its text behind the first four, and
  `_parse_numeric_fields()` finds those in the text once more, before the fifth.
  The records that keep all their text (`TextRecords`) are not restricted, and
  neither are those that are not understood. `MadeInv`: every record is made of a
  line with a name and lines that go on. `CopyInv`: the second reading has met
  records of the first, each from the lines that were written of it, and is
  somewhere in the lines of the next (`ReadTo`); a line ends a record exactly
  where the writer ended it (`NextLine`), so that at the end of the file all are
  read (`LastLine`). What comes back of one record is in `Reread`: its numbers, or
  at least the first two of them, which is what the diagnostics of the text
  records ask for (`CopyHeads`). A document with the same numbers has the same
  tables, model and diagnostics (`CopyModel`, `CopyAccepted`).

`InspectorProofs` shows that `Inspector` reads FRD files as `CalculixFrd` says
(`ReadsFrdFiles`: its `Spec` implies `FrdSpec`, whatever else the window does),
hence `WindowTables`; that decks are written as `CalculixDeck` says (`WritesDecks`:
a load takes no step of `write_deck()` and leaves the file alone, but may fill the
cache of packages), hence `WindowDecks`; and from `InspectorAssumption` (files are records of
naturals and `Fraction`): `PanelsAlwaysAgree` and `StressesOfOneCase`. The
invariant `WindowInv` says that everything shown is of the file on the label
(`Shown`), that what was saved is, and that no button is enabled while an FRD file
is read. Without this last part, the diagnostics that lines add would part from
those on view, with buttons enabled. The rest are facts about operators:
`Semantics` keeps the elements whose nodes are there, and tells of the others
(`MeshHolds`), and `Stress` uses results of one load case, for elements and at
nodes (`OneCaseHolds`); both hold for any records.

Only model-checked:

* the liveness properties, as fairness and ENABLED are outside the prover;
* the violations.

## Findings

* `release_source()` is not idempotent under concurrency (`release_idempotent`).
* An interrupt in the lazy loader leaves a document without preview and without
  error (`preview_interrupted`).
* A provider whose attribute raises is executed again on every call
  (`backend_once`).
* A cancellation during the self-validation of an artifact is raised as
  `cad.preview.invalid_without_source` (`preview_cancelled`).
* A canonical copy of a SESAM file reads numbers out of the quoted text of a record
  of numbers, so that a beam gets other nodes (`sesam_quoted`).

### Disagreements that no run shows

Met while modelling, by reading; the models have what the code does.

* A canonical copy of a SESAM file loses the text in capitals of records that are
  not understood (`sesam/records.py:184`), which `README.md:58-61` says are
  "preserved and rewritten": `FOOBAR 1 SPARE` is written as `FOOBAR 1`.
* Beams of one type and material get the section of the first of them
  (`calculix/deck.py:309`), untold, and shells without a thickness that of their
  set (`:334`). `README.md:111-117` says the writer refuses where writing "would
  mean picking one and losing the other". In the `inspector` run such decks are
  written; `DeckSaysItsModel` says that what is picked is of the group.
* Different names can give one identifier in a deck (`calculix/deck.py:52`): the
  elements of "steel A" and of "steel-A" get one set and two sections, and so do
  those of "wood 1" and element 1 of an orthotropic "wood" (`:254`). `deck.py:14`
  says "Where the deck cannot represent something faithfully, this refuses". Such
  models are in the run too, and `NamesDiffer` is false of them.
* After a load that an OverflowError left while it read, the text of the contents
  is of the file before (`gui.py:196`, `sesam/document.py:347`), under the new label.
* The scan for frequencies in a DAT file (`calculix/dat.py:48`) takes rows of
  the tables of participation factors and effective modal mass for modes, and
  stops after 79 lines.
* A shell thickness that is not given is the default, of which
  `sesam/semantics.py:55` says it is reported; nothing is reported.
* References are looked up by the id of the element in
  `sesam/semantics.py:212`, by id or internal number in `sesam/document.py:671`.
* A boundary flag that is no integer is skipped, so that the flags behind it
  count for other degrees of freedom (`sesam/document.py:706`).
* `describe()` accepts CAD suffixes, so that the branch at `gui.py:243` ("describe()
  already refused") is reached.
* The diagnostics of a document include those of its validation, which
  `gui.py:249` and `__main__.py:113` add again.
* An exception that is not among those caught leaves `canonicalize()` (`gui.py:418`)
  with the writer's temporary file behind.
* `inspect` of a `.sif` file ignores `--lenient` (`__main__.py:77`).

## Plan

In order of importance:

1. done: `CadDocument`, `CadBackend`, `CadRead`, `PreviewArtifact`, each with
   proofs; `SourceLease`, `AtomicOutput`; `CadOperations`; `SesamRecords`,
   `SesamDocument`, `SesamReader`; `SesamSemantics`, `SesamSif`, `CalculixFrd`
   with its proofs, `SemanticGate`, `CalculixDeck`, `Inspector`.
   Proofs about `CadOperations`, `SesamReader`, `CalculixDeck` and `Inspector`:
   every safety property of a passing run is a theorem.
2. left: two writers of one `<name>.tmp` in `sesam/exporter.py`, and a deck
   written by several programs, if the code ever promises anything of them.

## Not modelled

* The numerical code (mesh validation, properties of materials and sections,
  transforms, stress projection, classification of a geometry) is floating point.
* The ZIP, NPY and JSON codecs are conversions without interleaving; their
  verdict is what the models take from them.
* `calculix/dat.py` goes by the wording of headings; a model of it would be its
  text again. `merge_results()` is one update of dictionaries.
* Two writers of one `<name>.tmp` in `sesam/exporter.py`, and two writers of one
  deck: the package has one caller of each, and promises nothing of others.
* Threads in `require_semantics()`: two callers may each build the same record of
  the same imported symbols.
* The commands of `__main__.py` other than `roundtrip`, and `formats.py` other
  than `describe()`: single calls, printing and constant tables.
* The frozen records of `cad.py`: validation of fields, once.
