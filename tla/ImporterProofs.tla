----------------------------- MODULE ImporterProofs -----------------------------
(***************************************************************************)
(* What holds of boot and import for any number of processes, any plan and *)
(* any number of crashes.  The inductive invariant adds to the properties  *)
(* what a process at a step knows: that it has a library, that its plan is *)
(* the current one, that the entry it is about to write agrees with the    *)
(* files and the materials that are there.                                 *)
(***************************************************************************)
EXTENDS Importer, FiniteSetTheorems, TLAPS

OneLibrary == libraries \subseteq {"local-library"} /\ universes \subseteq libraries

\* Past the boot a process has the library.
Contexts ==
  \A p \in Processes :
    pc[p] \in {"universe", "create", "ready", "workspaces", "entry", "write", "file", "done"}
      => run[p].library \in libraries

\* What was settled stays so, and leads past every step that refuses.
SettledStays ==
  \A p \in Processes : run[p].settled =>
    IsSettled /\ pc[p] \notin {"insert", "create", "refused"}

LInv == TypeOK /\ OneLibrary /\ Contexts /\ SettledStays

\* The command of an imported material tells its anchor.
Named == \A m \in Imported : m.command = <<"v4-import", m.key>>

\* Importers that run at the same time have plans of the same sources.
PlansAgree ==
  \A p \in Importers : pc[p] \notin {"stopped", "refused", "done"} => run[p].plan \subseteq BuildPlan(archived)

\* The corpus has the entry, and agrees with it if it was imported.
Holds(e) ==
  /\ \E m \in materials : m.key = e.key
  /\ \A m \in Imported : m.key = e.key => m.text = Excerpt(e)

ReadyToWrite ==
  \A p \in Importers : \A e \in run[p].plan :
    /\ pc[p] = "write" /\ Entry(p, e) /\ e.key \in DOMAIN files => files[e.key] = e.text
    /\ pc[p] = "file" /\ Entry(p, e) => Holds(e)

\* What is planned is still to come, done, or failed.
Progress ==
  \A p \in Importers :
    /\ pc[p] = "done" => run[p].plan = {}
    /\ run[p].failed = {} =>
         \A e \in run[p].planned \ run[p].plan :
           e.key \in DOMAIN files /\ \E m \in materials : m.key = e.key

CInv == TypeOK /\ Named /\ ImportedOnce /\ PlansAgree /\ FilesFollowCorpus /\ ReadyToWrite /\ Progress
-----------------------------------------------------------------------------
LEMMA IdleKept == Idle \in Kept
  BY DEF Idle, Kept

LEMMA InitType == Init => TypeOK
<1> SUFFICES ASSUME Init PROVE TypeOK
  OBVIOUS
<1>1. pc \in [Processes -> Steps]
  BY DEF Init, Steps
<1>2. run \in [Processes -> Kept]
  BY IdleKept DEF Init
<1> QED BY <1>1, <1>2 DEF Init, TypeOK

\* Every step keeps every variable in its type.
LEMMA TypeStep == ASSUME TypeOK, [Next]_vars PROVE TypeOK'
<1> USE DEF TypeOK, Steps, Goto, stored
<1>0. CASE UNCHANGED vars
  BY <1>0 DEF vars, Kept
<1>1. ASSUME NEW p \in Processes, Start(p) PROVE TypeOK'
  <2>1. [Idle EXCEPT !.settled = IsSettled] \in Kept
    BY DEF Idle, Kept, IsSettled
  <2>2. Kept' = Kept
    BY <1>1 DEF Start, Kept
  <2>3. run' \in [Processes -> Kept]
    BY <1>1, <2>1 DEF Start
  <2>4. pc' \in [Processes -> Steps]
    BY <1>1 DEF Start
  <2> QED BY <1>1, <2>2, <2>3, <2>4 DEF Start
<1>2. ASSUME NEW p \in Processes, Boot(p) PROVE TypeOK'
  <2>1. CASE CheckHead(p)
    BY <2>1 DEF CheckHead, Refuse, Kept
  <2>2. CASE SelectLibraries(p)
    BY <2>2 DEF SelectLibraries, Refuse, Kept
  <2>3. CASE InsertLibrary(p)
    BY <2>3 DEF InsertLibrary, Refuse, Kept
  <2>4. CASE FindUniverse(p)
    BY <2>4 DEF FindUniverse, Booted, Kept
  <2>5. CASE CreateUniverse(p)
    BY <2>5 DEF CreateUniverse, Refuse, Booted, Kept
  <2> QED BY <1>2, <2>1, <2>2, <2>3, <2>4, <2>5 DEF Boot
<1>3. ASSUME NEW p \in Processes, Lose(p) PROVE TypeOK'
  BY <1>3 DEF Lose, Quit, Idle, Kept
<1>4. ASSUME NEW p \in Importers, Import(p) PROVE TypeOK'
  <2>0. p \in Processes
    BY DEF Processes
  <2>1. CASE Plan(p)
    <3>1. Kept' = Kept
      BY <2>1 DEF Plan, Kept
    <3>2. BuildPlan(archived) \subseteq Planable
      BY DEF Planable
    <3>3. run' \in [Processes -> Kept]
      <4>1. run[p] \in Kept
        BY <2>0
      <4>2. [run[p] EXCEPT !.plan = BuildPlan(archived), !.planned = BuildPlan(archived)] \in Kept
        BY <3>2, <4>1 DEF Kept
      <4> QED BY <2>0, <2>1, <4>2, IdleKept DEF Plan, Quit
    <3>4. pc' \in [Processes -> Steps]
      BY <2>0, <2>1 DEF Plan, Quit
    <3> QED BY <2>1, <3>1, <3>3, <3>4 DEF Plan
  <2>2. CASE Finish(p)
    BY <2>0, <2>2 DEF Finish, Kept
  <2>3. ASSUME NEW e \in run[p].plan, ReadEntry(p, e) PROVE TypeOK'
    BY <2>0, <2>3 DEF ReadEntry, Outcome, Note, Kept
  <2>4. ASSUME NEW e \in run[p].plan, WriteEntry(p, e) PROVE TypeOK'
    BY <2>0, <2>4 DEF WriteEntry, Note, Kept
  <2>5. ASSUME NEW e \in run[p].plan, WriteFile(p, e) PROVE TypeOK'
    BY <2>0, <2>5 DEF WriteFile, NextEntry, Kept
  <2>6. ASSUME NEW g \in Groups, EnsureWorkspace(p, g) PROVE TypeOK'
    BY <2>0, <2>6 DEF EnsureWorkspace, Kept
  <2> QED BY <1>4, <2>1, <2>2, <2>3, <2>4, <2>5, <2>6 DEF Import
<1>5. ASSUME NEW p \in Apps, Provision(p) PROVE TypeOK'
  BY <1>5 DEF Provision, Kept
<1>6. ASSUME NEW k \in Keys, AddByHand(k, ByHand) PROVE TypeOK'
  BY <1>6 DEF AddByHand, Kept
<1>7. CASE Upgrade
  BY <1>7 DEF Upgrade, Kept
<1>8. CASE Archive
  BY <1>8 DEF Archive, Kept
<1> QED BY <1>0, <1>1, <1>2, <1>3, <1>4, <1>5, <1>6, <1>7, <1>8 DEF Next

\* Every variable keeps its type.
THEOREM TypeCorrect == Spec => []TypeOK
<1>1. Init => TypeOK
  BY InitType
<1>2. TypeOK /\ [Next]_vars => TypeOK'
  BY TypeStep
<1> QED BY <1>1, <1>2, PTL DEF Spec
-----------------------------------------------------------------------------
LEMMA InitLibrary == Init => LInv
  BY InitType DEF Init, LInv, OneLibrary, Contexts, SettledStays, Idle

\* Only the boot touches libraries, universes and the head; every other step moves
\* one process between steps the parts do not tell apart.
LEMMA LibraryStep == ASSUME LInv, [Next]_vars PROVE LInv'
<1>t. TypeOK /\ TypeOK'
  BY TypeStep DEF LInv
<1> USE DEF LInv, OneLibrary, Contexts, SettledStays, IsSettled, Goto, stored
<1>0. CASE UNCHANGED vars
  BY <1>t, <1>0 DEF vars
<1>1. ASSUME NEW p \in Processes, Start(p) PROVE LInv'
  BY <1>t, <1>1 DEF Start, Idle, TypeOK, Kept
<1>2. ASSUME NEW p \in Processes, Boot(p) PROVE LInv'
  <2>1. CASE CheckHead(p)
    BY <1>t, <2>1 DEF CheckHead, Refuse, TypeOK
  <2>2. CASE SelectLibraries(p)
    <3>1. libraries # {} => Cardinality(libraries) = 1
      <4>1. libraries = {} \/ libraries = {"local-library"}
        OBVIOUS
      <4>2. Cardinality({"local-library"}) = 1
        BY FS_Singleton
      <4> QED BY <4>1, <4>2
    <3> QED BY <1>t, <2>2, <3>1 DEF SelectLibraries, Refuse, TypeOK, Kept
  <2>3. CASE InsertLibrary(p)
    BY <1>t, <2>3 DEF InsertLibrary, Refuse, LibraryOf, TypeOK, Kept
  <2>4. CASE FindUniverse(p)
    BY <1>t, <2>4 DEF FindUniverse, Booted, TypeOK
  <2>5. CASE CreateUniverse(p)
    BY <1>t, <2>5 DEF CreateUniverse, Refuse, Booted, TypeOK
  <2> QED BY <1>2, <2>1, <2>2, <2>3, <2>4, <2>5 DEF Boot
<1>3. ASSUME NEW p \in Processes, Lose(p) PROVE LInv'
  BY <1>t, <1>3 DEF Lose, Quit, Idle, TypeOK
<1>4. ASSUME NEW p \in Importers, Import(p) PROVE LInv'
  <2>0. p \in Processes
    BY DEF Processes
  <2>1. CASE Plan(p)
    BY <1>t, <2>0, <2>1 DEF Plan, Quit, Idle, TypeOK, Kept
  <2>2. CASE Finish(p)
    BY <1>t, <2>0, <2>2 DEF Finish, TypeOK
  <2>3. ASSUME NEW e \in run[p].plan, ReadEntry(p, e) PROVE LInv'
    BY <1>t, <2>0, <2>3 DEF ReadEntry, Outcome, Note, TypeOK, Kept
  <2>4. ASSUME NEW e \in run[p].plan, WriteEntry(p, e) PROVE LInv'
    BY <1>t, <2>0, <2>4 DEF WriteEntry, Note, TypeOK, Kept
  <2>5. ASSUME NEW e \in run[p].plan, WriteFile(p, e) PROVE LInv'
    BY <1>t, <2>0, <2>5 DEF WriteFile, NextEntry, TypeOK, Kept
  <2>6. ASSUME NEW g \in Groups, EnsureWorkspace(p, g) PROVE LInv'
    BY <1>t, <2>0, <2>6 DEF EnsureWorkspace, TypeOK
  <2> QED BY <1>4, <2>1, <2>2, <2>3, <2>4, <2>5, <2>6 DEF Import
<1>5. ASSUME NEW p \in Apps, Provision(p) PROVE LInv'
  BY <1>t, <1>5 DEF Provision, Processes
<1>6. ASSUME NEW k \in Keys, AddByHand(k, ByHand) PROVE LInv'
  BY <1>t, <1>6 DEF AddByHand
<1>7. CASE Upgrade
  BY <1>t, <1>7 DEF Upgrade
<1>8. CASE Archive
  BY <1>t, <1>8 DEF Archive
<1> QED BY <1>0, <1>1, <1>2, <1>3, <1>4, <1>5, <1>6, <1>7, <1>8 DEF Next

LEMMA LibraryInvariant == Spec => []LInv
<1>1. LInv /\ [Next]_vars => LInv'
  BY LibraryStep
<1> QED BY <1>1, InitLibrary, PTL DEF Spec

LEMMA OneOrNone == ASSUME OneLibrary PROVE Cardinality(libraries) <= 1
<1>1. Cardinality({}) = 0 /\ Cardinality({"local-library"}) = 1
  BY FS_EmptySet, FS_Singleton
<1>2. libraries = {} \/ libraries = {"local-library"}
  BY DEF OneLibrary
<1> QED BY <1>1, <1>2

\* However many processes boot against an empty database at once, and crash, there is
\* one library, and the active universe is its.
THEOREM SoleLibraryHolds == Spec => []SoleLibrary
<1>1. LInv => SoleLibrary
  BY OneOrNone DEF LInv, OneLibrary, SoleLibrary
<1> QED BY <1>1, LibraryInvariant, PTL

\* No process that finds everything in place when it starts is ever refused.
THEOREM SettledBootsHolds == Spec => []SettledBoots
<1>1. LInv => SettledBoots
  BY DEF LInv, SettledStays, SettledBoots
<1> QED BY <1>1, LibraryInvariant, PTL
-----------------------------------------------------------------------------
Resting == {"stopped", "refused", "done"}

LEMMA PlanKeys ==
  ASSUME NEW gone \in BOOLEAN, NEW e \in BuildPlan(gone) PROVE e.key \in Nat
<1>0. \A i \in DOMAIN Rows : Rows[i].key \in Keys
  <2> DEFINE R == [key : Keys, text : Text]
  <2>1. Rows \in Seq(R)
    BY SourcesAssumption
  <2>2. ASSUME NEW i \in DOMAIN Rows PROVE Rows[i] \in R
    <3> HIDE DEF R
    <3> QED BY <2>1
  <2> QED BY <2>2
<1>1. DOMAIN FromDb(gone) \subseteq Keys
  <2>1. CASE gone
    <3>1. DOMAIN FromDb(gone) = {}
      BY <2>1 DEF FromDb
    <3> QED BY <3>1
  <2>2. CASE ~gone
    BY <1>0, <2>2 DEF FromDb
  <2> QED BY <2>1, <2>2
<1>2. DOMAIN FromJson \subseteq Keys
  BY SourcesAssumption DEF FromJson
<1>3. DOMAIN Merged(gone) \subseteq Keys
  BY <1>1, <1>2 DEF Merged
<1>4. e.key \in DOMAIN Merged(gone)
  BY DEF BuildPlan, Planned
<1> QED BY <1>3, <1>4, SourcesAssumption

\* A plan has one entry per anchor.
LEMMA EntryOfKey ==
  ASSUME NEW gone \in BOOLEAN, NEW e \in BuildPlan(gone), NEW f \in BuildPlan(gone), e.key = f.key
  PROVE  e = f
<1> DEFINE texts == Merged(gone)
<1>1. PICK k \in Planned(texts) : e = [key |-> k, text |-> texts[k]]
  BY DEF BuildPlan
<1>2. PICK l \in Planned(texts) : f = [key |-> l, text |-> texts[l]]
  BY DEF BuildPlan
<1> HIDE DEF texts
<1> QED BY <1>1, <1>2

\* The turn is one entry's.
LEMMA OneTurn ==
  ASSUME NEW gone \in BOOLEAN, NEW p \in Processes, run[p].plan \subseteq BuildPlan(gone),
         NEW e, NEW f, Entry(p, e), Entry(p, f)
  PROVE  e = f
<1> SUFFICES ASSUME e # f PROVE FALSE
  OBVIOUS
<1>1. e.key \in Nat /\ f.key \in Nat
  BY PlanKeys DEF Entry
<1>2. Before(e, f) /\ Before(f, e)
  BY DEF Entry
<1> QED BY <1>1, <1>2 DEF Before

\* A step that leaves the corpus, the files and the plans alone, and does not lead to
\* an entry's write, keeps what is said of them.
LEMMA QuietStep ==
  ASSUME CInv, TypeOK', UNCHANGED <<materials, files, archived>>,
         NEW p \in Processes, NEW s, NEW r,
         pc' = [pc EXCEPT ![p] = s], run' = [run EXCEPT ![p] = r],
         s \notin {"write", "file", "done"},
         \/ r.plan = run[p].plan /\ r.planned = run[p].planned /\ r.failed = run[p].failed
         \/ r.plan = {} /\ r.planned = {},
         pc[p] \in Resting => s \in Resting \/ r.plan = {}
  PROVE  CInv'
<1> USE DEF CInv, TypeOK
<1>0. Named' /\ ImportedOnce' /\ FilesFollowCorpus'
  BY DEF Named, ImportedOnce, FilesFollowCorpus, Imported
<1>1. PlansAgree'
  BY DEF PlansAgree, Resting
<1>2. ReadyToWrite'
  BY DEF ReadyToWrite, Holds, Imported, Entry
<1>3. Progress'
  BY DEF Progress
<1> QED BY <1>0, <1>1, <1>2, <1>3

LEMMA InitCorpus == Init => CInv
<1> SUFFICES ASSUME Init PROVE CInv
  OBVIOUS
<1>1. Named /\ ImportedOnce /\ FilesFollowCorpus
  BY DEF Init, Named, ImportedOnce, FilesFollowCorpus, Imported
<1>2. \A p \in Processes : pc[p] = "stopped" /\ run[p] = Idle
  BY DEF Init
<1>3. Importers \subseteq Processes
  BY DEF Processes
<1>4. PlansAgree /\ ReadyToWrite /\ Progress
  BY <1>2, <1>3 DEF PlansAgree, ReadyToWrite, Progress, Idle
<1> QED BY <1>1, <1>4, InitType DEF CInv

\* An entry that is answered without a conflict is in the corpus as planned.
LEMMA AnsweredHolds ==
  ASSUME CInv, NEW p, NEW e,
         Committed(p, e) # {} \/ Duplicates(e) # {}, \A m \in Committed(p, e) : m.text = Excerpt(e)
  PROVE  Holds(e)
<1>1. \A m \in Imported : m.key = e.key => m \in Committed(p, e)
  BY DEF CInv, Named, Imported, Committed, CommandFor
<1>2. \A m \in Committed(p, e) : m \in Imported
  BY DEF Imported, Committed, CommandFor
<1>3. \A m \in Committed(p, e) : m.key = e.key
  <2> TAKE m \in Committed(p, e)
  <2>1. m.command = <<"v4-import", e.key>> /\ m.command = <<"v4-import", m.key>>
    BY <1>2 DEF CInv, Named, Committed, CommandFor
  <2> QED BY <2>1
<1>4. Committed(p, e) \subseteq materials /\ Duplicates(e) \subseteq materials
  BY DEF Committed, Duplicates
<1> QED BY <1>1, <1>3, <1>4 DEF Holds, Duplicates

\* Noting an entry as failed touches nothing that is stored.
LEMMA NotedEntry ==
  ASSUME CInv, TypeOK', NEW p \in Importers, NEW e \in run[p].plan, Note(p, e),
         pc[p] \in {"entry", "write"}, pc' = [pc EXCEPT ![p] = "entry"],
         UNCHANGED <<materials, files, archived>>
  PROVE  CInv'
<1> USE DEF CInv, TypeOK
<1>p. p \in Processes /\ Importers \subseteq Processes
  BY DEF Processes
<1>0. /\ run'[p].plan = run[p].plan \ {e} /\ run'[p].planned = run[p].planned
      /\ run'[p].failed # {} /\ pc'[p] = "entry"
      /\ \A q \in Importers \ {p} : run'[q] = run[q] /\ pc'[q] = pc[q]
  <2>1. run[p] \in Kept
    BY <1>p
  <2> QED BY <1>p, <2>1 DEF Note, Kept
<1>1. Named' /\ ImportedOnce' /\ FilesFollowCorpus'
  BY DEF Named, ImportedOnce, FilesFollowCorpus, Imported
<1>2. PlansAgree'
  BY <1>0 DEF PlansAgree
<1>3. ReadyToWrite'
  BY <1>0 DEF ReadyToWrite, Holds, Imported, Entry
<1>4. Progress'
  BY <1>0 DEF Progress
<1> QED BY <1>1, <1>2, <1>3, <1>4

\* The importer's own steps: what an answered command leaves behind is what the file
\* then needs, and what a new one adds agrees with the file that may be there.
LEMMA ImportStep ==
  ASSUME CInv, TypeOK', NEW p \in Importers, Import(p) PROVE CInv'
<1> USE DEF CInv, TypeOK, Goto, stored
<1>p. p \in Processes /\ Importers \subseteq Processes
  BY DEF Processes
<1>r. \A q \in Importers : run[q] \in Kept
  BY <1>p
<1>1. CASE Plan(p)
  <2>1. ASSUME run' = [run EXCEPT ![p].plan = BuildPlan(archived), ![p].planned = BuildPlan(archived)],
               Goto(p, "head"), UNCHANGED <<materials, files, archived>>, pc[p] = "plan"
        PROVE  CInv'
    <3>0. /\ run'[p].plan = BuildPlan(archived) /\ run'[p].planned = BuildPlan(archived)
          /\ run'[p].failed = run[p].failed /\ pc'[p] = "head"
          /\ \A q \in Importers \ {p} : run'[q] = run[q] /\ pc'[q] = pc[q]
      BY <1>p, <1>r, <2>1 DEF Kept
    <3>1. Named' /\ ImportedOnce' /\ FilesFollowCorpus'
      BY <2>1 DEF Named, ImportedOnce, FilesFollowCorpus, Imported
    <3>2. PlansAgree'
      BY <2>1, <3>0 DEF PlansAgree
    <3>u. UNCHANGED <<materials, files, archived>>
      BY <2>1
    <3>3. ReadyToWrite'
      BY <3>u, <3>0 DEF ReadyToWrite, Holds, Imported, Entry
    <3>4. Progress'
      <4>1. run'[p].planned \ run'[p].plan = {}
        BY <3>0
      <4> QED BY <3>u, <3>0, <4>1 DEF Progress
    <3> QED BY <3>1, <3>2, <3>3, <3>4
  <2>2. CASE Quit(p)
    BY <1>1, <1>p, <2>2, QuietStep DEF Plan, Quit, Idle, Resting
  <2> QED BY <1>1, <2>1, <2>2 DEF Plan
<1>2. CASE Finish(p)
  <2>0. run' = run /\ pc'[p] = "done" /\ \A q \in Importers \ {p} : pc'[q] = pc[q]
    BY <1>p, <1>2 DEF Finish
  <2>1. Named' /\ ImportedOnce' /\ FilesFollowCorpus'
    BY <1>2 DEF Finish, Named, ImportedOnce, FilesFollowCorpus, Imported
  <2>2. PlansAgree'
    BY <2>0, <1>2 DEF Finish, PlansAgree
  <2>3. ReadyToWrite'
    BY <2>0, <1>2 DEF Finish, ReadyToWrite, Holds, Imported, Entry
  <2>4. Progress'
    BY <2>0, <1>2 DEF Finish, Progress
  <2> QED BY <2>1, <2>2, <2>3, <2>4
<1>3. ASSUME NEW e \in run[p].plan, ReadEntry(p, e) PROVE CInv'
  <2>1. Named' /\ ImportedOnce' /\ FilesFollowCorpus'
    BY <1>3 DEF ReadEntry, Named, ImportedOnce, FilesFollowCorpus, Imported
  <2>2. CASE Note(p, e) /\ UNCHANGED pc
    <3>1. pc[p] = "entry" /\ pc' = [pc EXCEPT ![p] = "entry"]
      BY <1>p, <1>3, <2>2 DEF ReadEntry
    <3> QED BY <1>3, <2>2, <3>1, NotedEntry DEF ReadEntry
  <2>3. CASE Outcome(p, e) # "failed" /\ Goto(p, Outcome(p, e)) /\ UNCHANGED run
    <3>1. \A f \in run[p].plan : Entry(p, f) => f = e
      BY <1>p, <1>3, OneTurn DEF ReadEntry, PlansAgree
    <3>2. Outcome(p, e) = "write" => e.key \notin DOMAIN files
      BY DEF Outcome, Duplicates, FilesFollowCorpus
    <3>3. Outcome(p, e) = "file" => Holds(e)
      BY AnsweredHolds DEF Outcome
    <3>4. \A q \in Importers \ {p} : pc'[q] = pc[q]
      BY <1>p, <2>3
    <3>5. pc'[p] = Outcome(p, e) /\ Outcome(p, e) \in {"write", "file"}
      BY <1>p, <2>3 DEF Outcome
    <3>6. PlansAgree'
      BY <1>3, <2>3, <3>4, <3>5 DEF ReadEntry, PlansAgree
    <3>7. ReadyToWrite'
      BY <1>3, <2>3, <3>1, <3>2, <3>3, <3>4, <3>5 DEF ReadEntry, ReadyToWrite, Holds, Imported, Entry
    <3>8. Progress'
      BY <1>3, <2>3, <3>4, <3>5 DEF ReadEntry, Progress
    <3> QED BY <2>1, <3>6, <3>7, <3>8
  <2> QED BY <1>3, <2>2, <2>3 DEF ReadEntry
<1>4. ASSUME NEW e \in run[p].plan, WriteEntry(p, e) PROVE CInv'
  <2>1. pc[p] = "write" /\ Entry(p, e) /\ UNCHANGED <<files, archived>>
    BY <1>4 DEF WriteEntry
  <2>2. \A f \in run[p].plan : Entry(p, f) => f = e
    BY <1>p, <2>1, OneTurn DEF PlansAgree
  <2>3. ASSUME Goto(p, "file"), UNCHANGED <<materials, run>>, Holds(e) PROVE CInv'
    <3>1. pc'[p] = "file" /\ \A q \in Importers \ {p} : pc'[q] = pc[q]
      BY <1>p, <2>3
    <3>2. Named' /\ ImportedOnce' /\ FilesFollowCorpus'
      BY <2>1, <2>3 DEF Named, ImportedOnce, FilesFollowCorpus, Imported
    <3>3. PlansAgree'
      BY <2>1, <2>3, <3>1 DEF PlansAgree
    <3>4. ReadyToWrite'
      BY <2>1, <2>2, <2>3, <3>1 DEF ReadyToWrite, Holds, Imported, Entry
    <3>5. Progress'
      BY <2>1, <2>3, <3>1 DEF Progress
    <3> QED BY <3>2, <3>3, <3>4, <3>5
  <2>4. CASE Committed(p, e) # {} /\ Outcome(p, e) = "file" /\ Goto(p, "file") /\ UNCHANGED <<materials, run>>
    <3>1. \A m \in Committed(p, e) : m.text = Excerpt(e)
      BY <2>4 DEF Outcome
    <3>2. Holds(e)
      BY <2>4, <3>1, AnsweredHolds
    <3> QED BY <2>3, <2>4, <3>2
  <2>5. CASE Note(p, e) /\ Goto(p, "entry") /\ UNCHANGED materials
    BY <2>1, <2>5, NotedEntry
  <2>6. CASE /\ Committed(p, e) = {}
             /\ materials' = materials \cup {[key |-> e.key, text |-> Excerpt(e), command |-> CommandFor(p, e.key)]}
             /\ Goto(p, "file") /\ UNCHANGED run
    <3> DEFINE new == [key |-> e.key, text |-> Excerpt(e), command |-> <<"v4-import", e.key>>]
    <3>1. pc'[p] = "file" /\ \A q \in Importers \ {p} : pc'[q] = pc[q]
      BY <1>p, <2>6
    <3>2. Imported' = Imported \cup {new}
      BY <2>6 DEF Imported, CommandFor
    <3>3. materials' = materials \cup {new}
      BY <2>6 DEF CommandFor
    <3>n. new.key = e.key /\ new.text = Excerpt(e) /\ new.command = <<"v4-import", e.key>>
      OBVIOUS
    <3>4. \A m \in Imported : m.key # e.key
      BY <2>6 DEF Named, Imported, Committed, CommandFor
    <3> HIDE DEF new
    <3>5. Named' /\ ImportedOnce'
      BY <3>2, <3>n, <3>4 DEF Named, ImportedOnce
    <3>6. FilesFollowCorpus'
      <4>1. e.key \in DOMAIN files => files[e.key] = e.text
        BY <2>1 DEF ReadyToWrite
      <4> QED BY <2>1, <3>2, <3>3, <3>n, <4>1 DEF FilesFollowCorpus, Excerpt
    <3>7. PlansAgree'
      BY <2>1, <2>6, <3>1 DEF PlansAgree
    <3>8. ReadyToWrite'
      <4>1. Holds(e)'
        BY <3>2, <3>3, <3>n, <3>4 DEF Holds
      <4>2. ASSUME NEW q \in Importers, pc[q] = "file", NEW f \in run[q].plan, Holds(f)
            PROVE  Holds(f)'
        <5>1. e.key = f.key => e = f
          BY <2>1, <4>2, EntryOfKey DEF PlansAgree
        <5> QED BY <3>2, <3>3, <3>n, <4>2, <5>1 DEF Holds
      <4> QED BY <2>1, <2>2, <2>6, <3>1, <4>1, <4>2 DEF ReadyToWrite, Entry
    <3>9. Progress'
      BY <2>1, <2>6, <3>1, <3>3 DEF Progress
    <3> QED BY <3>5, <3>6, <3>7, <3>8, <3>9
  <2> QED BY <1>4, <2>4, <2>5, <2>6 DEF WriteEntry
<1>5. ASSUME NEW e \in run[p].plan, WriteFile(p, e) PROVE CInv'
  <2>1. /\ run'[p].plan = run[p].plan \ {e} /\ run'[p].planned = run[p].planned
        /\ run'[p].failed = run[p].failed /\ pc'[p] = "entry"
        /\ \A q \in Importers \ {p} : run'[q] = run[q] /\ pc'[q] = pc[q]
    BY <1>p, <1>r, <1>5 DEF WriteFile, NextEntry, Kept
  <2>2. pc[p] = "file" /\ Entry(p, e) /\ UNCHANGED <<materials, archived>>
    BY <1>5 DEF WriteFile
  <2>3. /\ DOMAIN files' = DOMAIN files \cup {e.key} /\ files'[e.key] = e.text
        /\ \A k \in DOMAIN files \ {e.key} : files'[k] = files[k]
    BY <1>5 DEF WriteFile
  <2>4. Holds(e)
    BY <2>2 DEF ReadyToWrite
  <2>5. Named' /\ ImportedOnce'
    BY <2>2 DEF Named, ImportedOnce, Imported
  <2>6. FilesFollowCorpus'
    BY <2>2, <2>3, <2>4 DEF FilesFollowCorpus, Holds, Imported, Excerpt
  <2>7. PlansAgree'
    BY <2>1, <2>2 DEF PlansAgree
  <2>8. ReadyToWrite'
    <3>1. ASSUME NEW q \in Importers, pc[q] = "write", NEW f \in run[q].plan, f.key = e.key
          PROVE  f.text = e.text
      <4>1. e = f
        BY <2>2, <3>1, EntryOfKey DEF PlansAgree
      <4> QED BY <4>1
    <3> QED BY <2>1, <2>2, <2>3, <3>1 DEF ReadyToWrite, Holds, Imported, Entry
  <2>9. Progress'
    BY <2>1, <2>2, <2>3, <2>4 DEF Progress, Holds
  <2> QED BY <2>5, <2>6, <2>7, <2>8, <2>9
<1>6. ASSUME NEW g \in Groups, EnsureWorkspace(p, g) PROVE CInv'
  <2>1. pc[p] = "workspaces" /\ UNCHANGED <<materials, files, archived, run>>
    BY <1>6 DEF EnsureWorkspace
  <2>2. PICK s \in {"entry", "workspaces"} : pc' = [pc EXCEPT ![p] = s]
    BY <1>p, <1>6, <2>1 DEF EnsureWorkspace
  <2>3. run' = [run EXCEPT ![p] = run[p]]
    BY <1>p, <2>1
  <2> QED BY <1>p, <2>1, <2>2, <2>3, QuietStep DEF Resting
<1> QED BY <1>1, <1>2, <1>3, <1>4, <1>5, <1>6 DEF Import

\* Every step keeps what the corpus, the files and the plans say of each other.
LEMMA CorpusStep == ASSUME CInv, [Next]_vars PROVE CInv'
<1>t. TypeOK'
  BY TypeStep DEF CInv
<1> USE DEF CInv, Goto, stored
<1>0. ASSUME UNCHANGED <<materials, files, archived, pc, run>> PROVE CInv'
  BY <1>t, <1>0 DEF Named, ImportedOnce, PlansAgree, FilesFollowCorpus, ReadyToWrite, Progress,
                    Imported, Holds, Entry
<1>1. ASSUME NEW p \in Processes, Start(p) PROVE CInv'
  <2>0. [Idle EXCEPT !.settled = IsSettled].plan = {} /\ [Idle EXCEPT !.settled = IsSettled].planned = {}
    BY DEF Idle
  <2>1. run' = [run EXCEPT ![p] = [Idle EXCEPT !.settled = IsSettled]]
    BY <1>1 DEF Start
  <2>2. PICK s \in {"plan", "head"} : pc' = [pc EXCEPT ![p] = s]
    BY <1>1 DEF Start
  <2>3. UNCHANGED <<materials, files, archived>>
    BY <1>1 DEF Start
  <2> QED BY <1>t, <2>0, <2>1, <2>2, <2>3, QuietStep
<1>2. ASSUME NEW p \in Processes, Boot(p) PROVE CInv'
  <2>1. CASE UNCHANGED run
    <3>1. run' = [run EXCEPT ![p] = run[p]]
      BY <1>t, <2>1 DEF TypeOK
    <3>2. UNCHANGED <<materials, files, archived>> /\ pc[p] \notin Resting
      BY <1>2 DEF Boot, CheckHead, SelectLibraries, InsertLibrary, FindUniverse, CreateUniverse, Refuse, Resting
    <3>3. PICK s \in {"refused", "library", "insert", "universe", "create", "workspaces", "ready"} :
            pc' = [pc EXCEPT ![p] = s]
      BY <1>2 DEF Boot, CheckHead, SelectLibraries, InsertLibrary, FindUniverse, CreateUniverse, Refuse, Booted
    <3> QED BY <1>t, <3>1, <3>2, <3>3, QuietStep
  <2>2. CASE \E l : run' = [run EXCEPT ![p].library = l] /\ Goto(p, "universe") /\ pc[p] \notin Resting
                    /\ UNCHANGED <<materials, files, archived>>
    <3>1. PICK l : run' = [run EXCEPT ![p].library = l]
      BY <2>2
    <3>2. run' = [run EXCEPT ![p] = [run[p] EXCEPT !.library = l]]
      BY <3>1
    <3>3. /\ [run[p] EXCEPT !.library = l].plan = run[p].plan
          /\ [run[p] EXCEPT !.library = l].planned = run[p].planned
          /\ [run[p] EXCEPT !.library = l].failed = run[p].failed
      BY DEF TypeOK, Kept
    <3> QED BY <1>t, <2>2, <3>2, <3>3, QuietStep
  <2>3. \/ UNCHANGED run
        \/ \E l : /\ run' = [run EXCEPT ![p].library = l] /\ Goto(p, "universe") /\ pc[p] \notin Resting
                  /\ UNCHANGED <<materials, files, archived>>
    BY <1>2 DEF Boot, CheckHead, SelectLibraries, InsertLibrary, FindUniverse, CreateUniverse, Refuse, Resting
  <2> QED BY <2>1, <2>2, <2>3
<1>3. ASSUME NEW p \in Processes, Lose(p) PROVE CInv'
  BY <1>t, <1>3, QuietStep DEF Lose, Quit, Idle, Resting
<1>4. ASSUME NEW p \in Importers, Import(p) PROVE CInv'
  BY <1>t, <1>4, ImportStep
<1>5. ASSUME NEW p \in Apps, Provision(p) PROVE CInv'
  BY <1>0, <1>5 DEF Provision
<1>6. ASSUME NEW k \in Keys, AddByHand(k, ByHand) PROVE CInv'
  <2>1. Imported' = Imported
    BY <1>6 DEF AddByHand, Imported
  <2>2. materials \subseteq materials' /\ UNCHANGED <<files, archived, pc, run>>
    BY <1>6 DEF AddByHand
  <2>3. Named' /\ ImportedOnce'
    BY <2>1 DEF Named, ImportedOnce
  <2>4. FilesFollowCorpus'
    BY <2>1, <2>2 DEF FilesFollowCorpus
  <2>5. PlansAgree'
    BY <2>2 DEF PlansAgree
  <2>6. ReadyToWrite'
    BY <2>1, <2>2 DEF ReadyToWrite, Holds, Entry
  <2>7. Progress'
    BY <2>2 DEF Progress
  <2> QED BY <1>t, <2>3, <2>4, <2>5, <2>6, <2>7
<1>7. CASE Upgrade
  BY <1>0, <1>7 DEF Upgrade
<1>8. CASE Archive
  <2>1. UNCHANGED <<materials, files, pc, run>> /\ \A p \in Importers : pc[p] \in {"stopped", "done", "refused"}
    BY <1>8 DEF Archive
  <2>2. PlansAgree'
    BY <2>1 DEF PlansAgree
  <2> QED BY <1>t, <2>1, <2>2 DEF Named, ImportedOnce, FilesFollowCorpus, ReadyToWrite, Progress,
                                  Imported, Holds, Entry
<1>9. CASE UNCHANGED vars
  BY <1>0, <1>9 DEF vars
<1> QED BY <1>1, <1>2, <1>3, <1>4, <1>5, <1>6, <1>7, <1>8, <1>9 DEF Next

LEMMA CorpusInvariant == Spec => []CInv
<1>1. CInv /\ [Next]_vars => CInv'
  BY CorpusStep
<1> QED BY <1>1, InitCorpus, PTL DEF Spec

\* An entry is imported once, by however many runs, at once or after a crash.
THEOREM ImportedOnceHolds == Spec => []ImportedOnce
<1>1. CInv => ImportedOnce
  BY DEF CInv
<1> QED BY <1>1, CorpusInvariant, PTL

\* A file is of a paper the corpus has, and an imported excerpt is the text of its file.
THEOREM FilesFollowCorpusHolds == Spec => []FilesFollowCorpus
<1>1. CInv => FilesFollowCorpus
  BY DEF CInv
<1> QED BY <1>1, CorpusInvariant, PTL

\* A run without a failure leaves every entry of its plan in the corpus and in a file.
THEOREM CleanRunIsCompleteHolds == Spec => []CleanRunIsComplete
<1>1. CInv => CleanRunIsComplete
  BY DEF CInv, Progress, CleanRunIsComplete
<1> QED BY <1>1, CorpusInvariant, PTL
=============================================================================
