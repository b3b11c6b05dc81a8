-------------------------------- MODULE Importer --------------------------------
(***************************************************************************)
(* How a library comes to be and is filled: the applications and importers *)
(* that boot against an empty database (cui/api/app.py), and the import of *)
(* the archived v4 corpus as ordinary add_material commands with           *)
(* deterministic ids (cui/tools/v4_importer.py, v4_importer_cli.py).       *)
(*                                                                         *)
(* Several processes run at once, and each may be lost at any step and be  *)
(* started again; the plan is built anew every time.  Of a text the model  *)
(* keeps what is plain in it, as a number, 0 for nothing, and whether      *)
(* control characters stand between.                                       *)
(***************************************************************************)
EXTENDS Naturals, Sequences, FiniteSets

CONSTANTS
  Apps, Importers,      \* the processes
  Keys,                 \* the anchors of papers, as numbers: their order
  Active,               \* those the partition puts into the active group
  Rows,                 \* parsed_docs: the anchor and the text of each row
  Extras,               \* Extras[k]: the text of the parsed JSON file of anchor k
  ByHand,               \* a text that a user brings
  MaxStarts, MaxByHand  \* bounds: the starts of processes, the papers users bring

Processes == Apps \cup Importers
Groups == {"active", "legacy"}

Text == [plain : Nat, controls : BOOLEAN]
Empty == [plain |-> 0, controls |-> FALSE]

\* sanitize_text takes the control characters out.
Sanitized(text) == [text EXCEPT !.controls = FALSE]

ASSUME ProcessesAssumption == Apps \cap Importers = {} /\ {MaxStarts, MaxByHand} \subseteq Nat
ASSUME SourcesAssumption ==
  /\ Keys \subseteq Nat /\ Active \subseteq Keys
  /\ Rows \in Seq([key : Keys, text : Text])
  /\ DOMAIN Extras \subseteq Keys /\ \A k \in DOMAIN Extras : Extras[k] \in Text
  /\ ByHand \in Text \ {Empty}

VARIABLES
  head,        \* the schema is at the head of the migrations
  libraries, universes,   \* the ids in libraries; the libraries of the active universes
  workspaces,  \* the corpus workspaces that were made
  materials,   \* the materials of the corpus workspaces
  archived,    \* the v4 database was renamed
  files,       \* files[k]: the text written for anchor k
  starts,      \* the starts so far
  pc, run      \* per process: its next step, what it keeps meanwhile

stored == <<libraries, universes, workspaces, materials>>
vars == <<head, stored, archived, files, starts, pc, run>>

Idle == [plan |-> {}, planned |-> {}, failed |-> {}, library |-> "none", settled |-> FALSE]

Init ==
  /\ head = FALSE /\ libraries = {} /\ universes = {} /\ workspaces = {} /\ materials = {}
  /\ archived = FALSE /\ files = <<>>
  /\ starts = 0
  /\ pc = [p \in Processes |-> "stopped"] /\ run = [p \in Processes |-> Idle]
-----------------------------------------------------------------------------
\* load_db_rows: the last row of an anchor counts; no rows once it is archived.
FromDb(gone) ==
  IF gone THEN <<>>
  ELSE LET keys == {Rows[i].key : i \in DOMAIN Rows}
       IN [k \in keys |-> Rows[CHOOSE i \in DOMAIN Rows :
                                 Rows[i].key = k /\ \A j \in i + 1..Len(Rows) : Rows[j].key # k].text]

\* load_json_extras leaves files without a text out.
FromJson == [k \in {k \in DOMAIN Extras : Extras[k] # Empty} |-> Extras[k]]

\* build_plan: the database before the files, empty texts skipped, the active group
\* first and each in the order of its anchors.
Merged(gone) == [k \in DOMAIN FromDb(gone) \cup DOMAIN FromJson |->
                   IF k \in DOMAIN FromDb(gone) THEN FromDb(gone)[k] ELSE FromJson[k]]

Group(k) == IF k \in Active THEN "active" ELSE "legacy"

Planned(texts) == {k \in DOMAIN texts : texts[k] # Empty}

BuildPlan(gone) ==
  LET texts == Merged(gone)
  IN {[key |-> k, text |-> texts[k]] : k \in Planned(texts)}

Before(e, f) ==
  \/ Group(e.key) = "active" /\ Group(f.key) = "legacy"
  \/ Group(e.key) = Group(f.key) /\ e.key < f.key
-----------------------------------------------------------------------------
Goto(p, step) == pc' = [pc EXCEPT ![p] = step]
Quit(p) == Goto(p, "stopped") /\ run' = [run EXCEPT ![p] = Idle]

\* alembic upgrade head, by the operator.
Upgrade == ~head /\ head' = TRUE /\ UNCHANGED <<stored, archived, files, starts, pc, run>>

\* A library and its universe are there when the process starts.
IsSettled == head /\ libraries # {} /\ universes # {}

Start(p) ==
  /\ pc[p] \in {"stopped", "refused", "done"} /\ starts < MaxStarts
  /\ starts' = starts + 1
  /\ Goto(p, IF p \in Importers THEN "plan" ELSE "head")
  /\ run' = [run EXCEPT ![p] = [Idle EXCEPT !.settled = IsSettled]]
  /\ UNCHANGED <<head, stored, archived, files>>

\* The importer plans first, and with --mode dry-run it ends there.
Plan(p) ==
  /\ pc[p] = "plan"
  /\ \/ /\ run' = [run EXCEPT ![p].plan = BuildPlan(archived), ![p].planned = BuildPlan(archived)]
        /\ Goto(p, "head")
     \/ Quit(p)
  /\ UNCHANGED <<head, stored, archived, files, starts>>

\* A refusal at boot ends the process.
Refuse(p) == Goto(p, "refused") /\ UNCHANGED <<head, stored, archived, files, starts, run>>

\* _assert_database_at_head
CheckHead(p) ==
  /\ pc[p] = "head"
  /\ \/ ~head /\ Refuse(p)
     \/ head /\ Goto(p, "library") /\ UNCHANGED <<head, stored, archived, files, starts, run>>

\* Mistake: every process names its own library.
OwnLibrary(p) == IF p \in Importers THEN "importer-library" ELSE "local-library"

LibraryOf(p) == "local-library"

\* _resolve_library_context: the rows are selected; an empty database is provided with
\* a library in the same transaction, under the primary key.
SelectLibraries(p) ==
  /\ pc[p] = "library"
  /\ \/ libraries = {} /\ Goto(p, "insert") /\ UNCHANGED <<head, stored, archived, files, starts, run>>
     \/ Cardinality(libraries) > 1 /\ Refuse(p)
     \/ /\ Cardinality(libraries) = 1
        /\ \E l \in libraries : run' = [run EXCEPT ![p].library = l]
        /\ Goto(p, "universe") /\ UNCHANGED <<head, stored, archived, files, starts>>

InsertLibrary(p) ==
  /\ pc[p] = "insert"
  /\ \/ LibraryOf(p) \in libraries /\ Refuse(p)
     \/ /\ LibraryOf(p) \notin libraries
        /\ libraries' = libraries \cup {LibraryOf(p)}
        /\ run' = [run EXCEPT ![p].library = LibraryOf(p)]
        /\ Goto(p, "universe")
        /\ UNCHANGED <<head, universes, workspaces, materials, archived, files, starts>>

Booted(p) == IF p \in Importers THEN "workspaces" ELSE "ready"

\* Mistake: a universe is made without a look at what there is.
FindNoUniverse(p) ==
  /\ pc[p] = "universe"
  /\ Goto(p, "create") /\ UNCHANGED <<head, stored, archived, files, starts, run>>

FindUniverse(p) ==
  /\ pc[p] = "universe"
  /\ Goto(p, IF run[p].library \in universes THEN Booted(p) ELSE "create")
  /\ UNCHANGED <<head, stored, archived, files, starts, run>>

\* One active universe per library.  An application that comes second goes on with the
\* universe of the first; the importer does not.
CreateUniverse(p) ==
  /\ pc[p] = "create"
  /\ \/ /\ run[p].library \notin universes
        /\ universes' = universes \cup {run[p].library}
        /\ Goto(p, Booted(p))
        /\ UNCHANGED <<head, libraries, workspaces, materials, archived, files, starts, run>>
     \/ /\ run[p].library \in universes
        /\ IF p \in Apps
           THEN Goto(p, "ready") /\ UNCHANGED <<head, stored, archived, files, starts, run>>
           ELSE Refuse(p)

\* An application that runs provisions a universe on request (POST /universes).
Provision(p) ==
  /\ pc[p] = "ready"
  /\ universes' = universes \cup {run[p].library}
  /\ UNCHANGED <<head, libraries, workspaces, materials, archived, files, starts, pc, run>>
-----------------------------------------------------------------------------
\* ensure_corpus_workspaces: made, or replayed.
EnsureWorkspace(p, g) ==
  /\ pc[p] = "workspaces" /\ g \in Groups
  /\ workspaces' = workspaces \cup {g}
  /\ IF workspaces' = Groups THEN Goto(p, "entry") ELSE UNCHANGED pc
  /\ UNCHANGED <<head, libraries, universes, materials, archived, files, starts, run>>

\* Mistake: the command id is made anew in every run.
CommandPerRun(p, k) == <<"v4-import", k, p>>

CommandFor(p, k) == <<"v4-import", k>>

\* The entry whose turn it is.
Entry(p, e) == e \in run[p].plan /\ \A f \in run[p].plan \ {e} : Before(e, f)
NextEntry(p, e) == run' = [run EXCEPT ![p].plan = @ \ {e}]
Note(p, e) == run' = [run EXCEPT ![p].plan = @ \ {e}, ![p].failed = @ \cup {e}]
Committed(p, e) == {m \in materials : m.command = CommandFor(p, e.key)}
Duplicates(e) == {m \in materials : m.key = e.key}

Excerpt(e) == Sanitized(e.text)

\* Mistake: an id that is known is replayed whatever its text.
TrustedOutcome(p, e) ==
  IF Excerpt(e) = Empty THEN "failed"
  ELSE IF Committed(p, e) # {} \/ Duplicates(e) # {} THEN "file"
  ELSE "write"

\* add_material: an empty excerpt is not a material; an id that is known is replayed,
\* or conflicts if its excerpt differs; a locator that is known is answered.
Outcome(p, e) ==
  IF Excerpt(e) = Empty \/ \E m \in Committed(p, e) : m.text # Excerpt(e) THEN "failed"
  ELSE IF Committed(p, e) # {} \/ Duplicates(e) # {} THEN "file"
  ELSE "write"

\* Mistake: nothing more is done for an entry that is known.
ReadEntrySkipsKnown(p, e) ==
  /\ pc[p] = "entry" /\ Entry(p, e)
  /\ IF Outcome(p, e) = "write" THEN Goto(p, "write") /\ UNCHANGED run
     ELSE NextEntry(p, e) /\ UNCHANGED pc
  /\ UNCHANGED <<head, stored, archived, files, starts>>

\* The loop over the plan.  An entry whose command fails, for whatever reason, is
\* noted and left behind.
ReadEntry(p, e) ==
  /\ pc[p] = "entry" /\ Entry(p, e)
  /\ \/ Outcome(p, e) # "failed" /\ Goto(p, Outcome(p, e)) /\ UNCHANGED run
     \/ Note(p, e) /\ UNCHANGED pc
  /\ UNCHANGED <<head, stored, archived, files, starts>>

\* The append commits, finds the command committed by another run, or fails.
WriteEntry(p, e) ==
  /\ pc[p] = "write" /\ Entry(p, e)
  /\ \/ /\ Committed(p, e) = {}
        /\ materials' = materials \cup {[key |-> e.key, text |-> Excerpt(e), command |-> CommandFor(p, e.key)]}
        /\ Goto(p, "file") /\ UNCHANGED run
     \/ /\ Committed(p, e) # {} /\ Outcome(p, e) = "file"
        /\ Goto(p, "file") /\ UNCHANGED <<materials, run>>
     \/ Note(p, e) /\ Goto(p, "entry") /\ UNCHANGED materials
  /\ UNCHANGED <<head, libraries, universes, workspaces, archived, files, starts>>

\* The text goes to a file once its command is answered, as it was planned, with its
\* control characters.
WriteFile(p, e) ==
  /\ pc[p] = "file" /\ Entry(p, e)
  /\ files' = [k \in DOMAIN files \cup {e.key} |-> IF k = e.key THEN e.text ELSE files[k]]
  /\ NextEntry(p, e) /\ Goto(p, "entry")
  /\ UNCHANGED <<head, stored, archived, starts>>

Finish(p) ==
  /\ pc[p] = "entry" /\ run[p].plan = {}
  /\ Goto(p, "done")
  /\ UNCHANGED <<head, stored, archived, files, starts, run>>

\* A user brings a paper into a corpus workspace by hand.
AddByHand(k, text) ==
  /\ Group(k) \in workspaces /\ \A m \in materials : m.key # k
  /\ Cardinality({m \in materials : m.command[1] = "user"}) < MaxByHand
  /\ materials' = materials \cup {[key |-> k, text |-> text, command |-> <<"user", k>>]}
  /\ UNCHANGED <<head, libraries, universes, workspaces, archived, files, starts, pc, run>>

\* The v4 database is renamed while nobody imports.
Archive ==
  /\ ~archived /\ archived' = TRUE
  /\ \A p \in Importers : pc[p] \in {"stopped", "done", "refused"}
  /\ UNCHANGED <<head, stored, files, starts, pc, run>>

Lose(p) ==
  /\ pc[p] # "stopped" /\ Quit(p)
  /\ UNCHANGED <<head, stored, archived, files, starts>>

Boot(p) == CheckHead(p) \/ SelectLibraries(p) \/ InsertLibrary(p) \/ FindUniverse(p) \/ CreateUniverse(p)

Import(p) ==
  \/ Plan(p) \/ Finish(p)
  \/ \E e \in run[p].plan : ReadEntry(p, e) \/ WriteEntry(p, e) \/ WriteFile(p, e)
  \/ \E g \in Groups : EnsureWorkspace(p, g)

Next ==
  \/ \E p \in Processes : Start(p) \/ Boot(p) \/ Lose(p)
  \/ \E p \in Importers : Import(p)
  \/ \E p \in Apps : Provision(p)
  \/ \E k \in Keys : AddByHand(k, ByHand)
  \/ Upgrade \/ Archive

Spec == Init /\ [][Next]_vars
-----------------------------------------------------------------------------
Imported == {m \in materials : m.command[1] = "v4-import"}

Planable == BuildPlan(TRUE) \cup BuildPlan(FALSE)
Kept ==
  [plan : SUBSET Planable, planned : SUBSET Planable, failed : SUBSET Planable,
   library : {"none"} \cup libraries, settled : BOOLEAN]
Steps ==
  {"stopped", "refused", "plan", "head", "library", "insert", "universe", "create",
   "ready", "workspaces", "entry", "write", "file", "done"}

\* Everything keeps to its type; a process keeps what some plan had, and a library
\* that exists.
TypeOK ==
  /\ head \in BOOLEAN /\ archived \in BOOLEAN /\ starts \in Nat
  /\ workspaces \subseteq Groups
  /\ pc \in [Processes -> Steps]
  /\ run \in [Processes -> Kept]

\* app.py: however many processes boot against an empty database at once, there is
\* one library, and the active universe is its.
SoleLibrary == Cardinality(libraries) <= 1 /\ universes \subseteq libraries

\* A process that starts when the schema, the library and the universe are there is
\* never refused, whatever else boots meanwhile.
SettledBoots == \A p \in Processes : pc[p] = "refused" => ~run[p].settled

\* v4_importer.py: an entry is imported once, by however many runs, at once or after
\* a crash.
ImportedOnce == \A m, n \in Imported : m.key = n.key => m = n

\* A file is written for a paper the corpus has, and if the import brought it the
\* corpus and the file say the same, whatever later plans say: the excerpt is the
\* text of the file without its control characters.
FilesFollowCorpus ==
  \A k \in DOMAIN files :
    /\ \E m \in materials : m.key = k
    /\ \A m \in Imported : m.key = k => Sanitized(files[k]) = m.text

\* A run that ends and reports no failure leaves every entry of its plan in the
\* corpus and in a file, also those an earlier run committed before it was lost.
CleanRunIsComplete ==
  \A p \in Importers : pc[p] = "done" /\ run[p].failed = {} =>
    \A e \in run[p].planned : e.key \in DOMAIN files /\ \E m \in materials : m.key = e.key
=============================================================================
