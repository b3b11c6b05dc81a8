------------------------------ MODULE Trajectory ------------------------------
(***************************************************************************)
(* The archived trajectory kernel: the event store (cui/store) and the     *)
(* services that park an idea, grill it, ground it in collected papers,    *)
(* confirm or retract what was proposed, and promote what survived.        *)
(*                                                                         *)
(* A service reads the stream of an artifact, checks what it read, makes   *)
(* an event (its id and its time) and appends it in a transaction of its   *)
(* own, which reads the next number of the stream and inserts the row.     *)
(* Nothing is locked in between, so other threads come between any two of  *)
(* these, and a thread may be lost at any of them.                         *)
(*                                                                         *)
(* Claims and materials are numbers: the order of their ids.               *)
(***************************************************************************)
EXTENDS Projections

CONSTANTS Claims, Materials, Threads, OldLog, Ops, Judged, Decided, Named, Limit, MaxEvents, MaxTime

ASSUME IdsAssumption ==
  /\ Claims \subseteq Nat /\ Claims # {} /\ Materials \subseteq Nat
  /\ Claims \cap Materials = {}
\* The bounds: what a thread is asked to do, the events made, the time, the events
\* of each type, the events that a person decides on, those with an id in Decided,
\* and the challenges that a client names, whether they exist or not.
ASSUME BoundsAssumption ==
  /\ MaxEvents \in Nat /\ MaxTime \in Nat /\ Limit \in [EventTypes -> Nat]
  /\ Decided \subseteq Nat /\ Named \subseteq Nat

Challenges == {"question", "evidence_contradiction", "taste",
               "contradicts_survived", "contradicts_killed"}
EdgeTypes == {"builds_on", "depends_on", "shares_method", "shares_gap"}
Judgements == Outcomes \cup GroundVerdicts \cup LegacyGrounds \cup Challenges \cup EdgeTypes \cup {"none"}

Event ==
  [id : Nat, ts : Nat, seq : Nat, at : Claims, type : EventTypes, what : Judgements, about : Nat,
   cites : SUBSET (Claims \cup Materials), confirmed : BOOLEAN, debt : BOOLEAN]

Ids(E) == {e.id : e \in E}

\* What a person does, or has just read or fetched, is confirmed at birth.
BornConfirmed == {"park", "answer", "confirm", "retract", "promote", "collect_material", "link"}

\* What must be among the events S of a stream that precede e.
HasCause(S, e) ==
  LET signed == {f \in S : \E k \in OfType(S, "confirm") : k.about = f.id}
  IN /\ e.type \in MetaTypes => e.about \in Ids(S)
     /\ e.type = "ground" \/ e.what = "question" => OfType(S, "park") # {}
     /\ e.type \in {"answer", "verdict"} => OfType(S, "challenge") # {}
     /\ e.what = "evidence_contradiction" => e.about \in Ids(OfType(signed, "ground"))
     /\ e.type = "promote" => \E v \in OfType(signed, "verdict") : v.what = "survive"

Caused(E, e) == HasCause({f \in E : f.at = e.at /\ Precedes(f, e)}, e)

\* A verdict has an outcome, and a ground cites papers.
WellFormed(e) ==
  /\ e.confirmed => e.type \in BornConfirmed
  /\ e.type = "verdict" => e.what \in Outcomes
  /\ e.type = "ground" => e.cites \subseteq Materials

\* What the archive holds when the services start.
ASSUME OldLogAssumption ==
  /\ OldLog \subseteq Event /\ IsFiniteSet(OldLog)
  /\ Ids(OldLog) = 1..Cardinality(OldLog)
  /\ \A e \in OldLog : Caused(OldLog, e) /\ WellFormed(e) /\ e.ts <= Cardinality(OldLog)

VARIABLES
  log,        \* the rows of the events table
  made,       \* how many events were made: the ids that are taken
  clock,      \* the time of the last event made
  artifacts, claims, materials,  \* the rows of the repository
  pc, call,   \* the step a thread executes next, and what it keeps meanwhile
  confirmed   \* the events whose confirmation some caller was told about

tables == <<log, artifacts, claims, materials>>
stamps == <<made, clock>>
vars == <<log, made, clock, artifacts, claims, materials, pc, call, confirmed>>

Stream(c) == {e \in log : e.at = c}

NewEvent(type, c, what, about, cites) ==
  [id |-> 0, ts |-> 0, seq |-> 0, at |-> c, type |-> type, what |-> what, about |-> about, cites |-> cites,
   confirmed |-> type \in BornConfirmed, debt |-> FALSE]

Nothing == [op |-> "none", draft |-> NewEvent("park", CHOOSE c \in Claims : TRUE, "none", 0, {}),
            due |-> {}, todo |-> {}]

Init ==
  /\ log = OldLog
  /\ made = Cardinality(OldLog) /\ clock = Cardinality(OldLog)
  /\ artifacts = {e.at : e \in OldLog}
  /\ claims = {e.at : e \in OldLog}
  /\ materials = UNION {e.cites \cap Materials : e \in OldLog}
  /\ pc = [t \in Threads |-> "idle"]
  /\ call = [t \in Threads |-> Nothing]
  /\ confirmed = {}
-----------------------------------------------------------------------------
\* The bounds of the instance.
InFlight(type) == {t \in Threads : pc[t] # "idle" /\ call[t].draft.type = type}
Within(t, op, type) ==
  op \in Ops[t] /\ Cardinality(OfType(log, type)) + Cardinality(InFlight(type)) < Limit[type]

\* A service has read and checked, and goes on to make the event.
Proceed(t, op, draft, due, todo) ==
  /\ pc' = [pc EXCEPT ![t] = "stamp"]
  /\ call' = [call EXCEPT ![t] = [op |-> op, draft |-> draft, due |-> due, todo |-> todo]]

Begin(t, op, draft) ==
  /\ pc[t] = "idle" /\ Within(t, op, draft.type)
  /\ Proceed(t, op, draft, {}, {})
  /\ UNCHANGED <<tables, stamps, confirmed>>

WasParked(E) == OfType(E, "park") # {}
HasChallenge(E) == OfType(E, "challenge") # {}
-----------------------------------------------------------------------------
\* ParkService.park: an artifact, its claim, and the event, one after the other.
ParkArtifact(t, c) ==
  /\ pc[t] = "idle" /\ Within(t, "park", "park")
  /\ c \notin artifacts
  /\ artifacts' = artifacts \cup {c}
  /\ pc' = [pc EXCEPT ![t] = "claim"]
  /\ call' = [call EXCEPT ![t] = [op |-> "park", draft |-> NewEvent("park", c, "none", 0, {}),
                                  due |-> {}, todo |-> {}]]
  /\ UNCHANGED <<log, stamps, claims, materials, confirmed>>

ParkClaim(t) ==
  /\ pc[t] = "claim"
  /\ claims' = claims \cup {call[t].draft.at}
  /\ pc' = [pc EXCEPT ![t] = "stamp"]
  /\ UNCHANGED <<log, stamps, artifacts, materials, call, confirmed>>

\* CollectService.collect: the papers of a search, each saved and then told.
Collect(t, c, papers) ==
  /\ pc[t] = "idle" /\ Within(t, "collect", "collect_material")
  /\ c \in artifacts
  /\ papers # {} /\ papers \cap materials = {}
  /\ pc' = [pc EXCEPT ![t] = "next"]
  /\ call' = [call EXCEPT ![t] = [op |-> "collect", draft |-> NewEvent("collect_material", c, "none", 0, {}),
                                  due |-> {}, todo |-> papers]]
  /\ UNCHANGED <<tables, stamps, confirmed>>

CollectNext(t, m) ==
  /\ pc[t] = "next" /\ call[t].op = "collect" /\ m \in call[t].todo \ materials
  /\ materials' = materials \cup {m}
  /\ Proceed(t, "collect", NewEvent("collect_material", call[t].draft.at, "none", 0, {m}), {},
             call[t].todo \ {m})
  /\ UNCHANGED <<log, stamps, artifacts, claims, confirmed>>
-----------------------------------------------------------------------------
\* GrillService.  start_grill only validates: the first challenge starts the grill.
Challenge(t, c) ==
  /\ WasParked(Stream(c))
  /\ Begin(t, "challenge", NewEvent("challenge", c, "question", 0, {}))

\* The challenge that an answer or a verdict is paired with is whatever the client
\* names: nobody looks it up.
Answer(t, c, challenge) ==
  /\ HasChallenge(Stream(c))
  /\ Begin(t, "answer", NewEvent("answer", c, "none", challenge, {}))

\* A kill names its cause; a revival condition goes with "circumstantial" and with
\* nothing else, so it is left out here; a successor goes with "boundary".
ValidDeathTriage(outcome, successors) == successors # {} => outcome = "boundary"

Verdict(t, c, outcome, successors, challenge) ==
  /\ HasChallenge(Stream(c))
  /\ ValidDeathTriage(outcome, successors)
  /\ Begin(t, "verdict", NewEvent("verdict", c, outcome, challenge, successors))

Bypass(t, c) ==
  /\ HasChallenge(Stream(c))
  /\ Begin(t, "bypass", [NewEvent("verdict", c, "survive", 0, {}) EXCEPT !.debt = TRUE])

\* The evidence the model is shown: signed grounds that bear on the claim.
BearingEvidence(E) ==
  {e \in ConfirmedGroundEvidence(E) : GroundStance(e) \in {"supports", "contradicts", "not_supported"}}
GroundedMaterials(E) == UNION {e.cites : e \in BearingEvidence(E)}

\* The model judges what it is shown and never sees how other claims died.
AutoVerdict(t, c, outcome, challenge) ==
  /\ HasChallenge(Stream(c))
  /\ Begin(t, "auto_verdict", NewEvent("verdict", c, outcome, challenge, GroundedMaterials(Stream(c))))

\* GroundingService: a person or the model says how a collected paper bears on the claim.
Ground(t, c, m, verdict) ==
  /\ m \in materials /\ WasParked(Stream(c))
  /\ Begin(t, "ground", NewEvent("ground", c, verdict, 0, {m}))
-----------------------------------------------------------------------------
\* EventService.
ContradictionChallenge(g) ==
  NewEvent("challenge", g.at, "evidence_contradiction", g.id, g.cites)

Surfaced(E, g) == \E e \in OfType(E, "challenge") : e.what = "evidence_contradiction" /\ e.about = g.id

\* Mistake: any challenge on the stream stands for that of the ground.
SurfacesUnlessChallenged(E, g) ==
  /\ g.type = "ground" /\ GroundStance(g) = "contradicts"
  /\ ~HasChallenge(E)

\* A confirmed contradiction becomes a challenge, unless there is one already.
Surfaces(E, g) ==
  /\ g.type = "ground" /\ GroundStance(g) = "contradicts"
  /\ ~Surfaced(E, g)

SurfacedBy(E, g) == IF Surfaces(E, g) THEN {ContradictionChallenge(g)} ELSE {}

Confirm(t, g) ==
  /\ pc[t] = "idle" /\ Within(t, "confirm", "confirm")
  /\ g \in log /\ g.id \in Decided
  /\ Proceed(t, "confirm", NewEvent("confirm", g.at, "none", g.id, {}), SurfacedBy(Stream(g.at), g), {})
  /\ UNCHANGED <<tables, stamps, confirmed>>

\* Several events in turn; one whose id is unknown ends the batch with an error.
BatchConfirm(t, c, ids) ==
  /\ pc[t] = "idle" /\ Within(t, "batch_confirm", "confirm")
  /\ ids \subseteq Ids(Stream(c)) \cap Decided /\ ids # {}
  /\ pc' = [pc EXCEPT ![t] = "next"]
  /\ call' = [call EXCEPT ![t] = [op |-> "batch_confirm", draft |-> NewEvent("confirm", c, "none", 0, {}),
                                  due |-> {}, todo |-> ids]]
  /\ UNCHANGED <<tables, stamps, confirmed>>

BatchConfirmNext(t, g) ==
  /\ pc[t] = "next" /\ call[t].op = "batch_confirm"
  /\ g \in Stream(call[t].draft.at) /\ g.id \in call[t].todo
  /\ Proceed(t, "batch_confirm", NewEvent("confirm", g.at, "none", g.id, {}),
             SurfacedBy(Stream(g.at), g), call[t].todo \ {g.id})
  /\ UNCHANGED <<tables, stamps, confirmed>>

Retract(t, g) ==
  /\ g \in log /\ g.id \in Decided
  /\ Begin(t, "retract", NewEvent("retract", g.at, "none", g.id, {}))

\* PromoteService.
Promote(t, c) ==
  /\ CanPromote(Stream(c))
  /\ Begin(t, "promote", NewEvent("promote", c, "none", 0, {}))
-----------------------------------------------------------------------------
\* make_event: the event gets an id and the time, which has not moved on for sure.
Stamp(t) ==
  /\ pc[t] = "stamp" /\ made < MaxEvents
  /\ made' = made + 1
  /\ \E now \in {clock, clock + 1} :
       /\ now <= MaxTime
       /\ clock' = now
       /\ call' = [call EXCEPT ![t].draft.id = made + 1, ![t].draft.ts = now]
  /\ pc' = [pc EXCEPT ![t] = "number"]
  /\ UNCHANGED <<tables, confirmed>>

\* EventStore.append is a transaction of its own.  It reads the next number of the
\* stream without a lock: appends that overlap read the same.
ReadSeq(t) ==
  /\ pc[t] = "number"
  /\ \E next \in {0} \cup {e.seq + 1 : e \in Stream(call[t].draft.at)} :
       /\ \A e \in Stream(call[t].draft.at) : e.seq < next
       /\ call' = [call EXCEPT ![t].draft.seq = next]
  /\ pc' = [pc EXCEPT ![t] = "append"]
  /\ UNCHANGED <<tables, stamps, confirmed>>

AfterAppend(c) == IF c.due # {} THEN "stamp" ELSE IF c.todo # {} THEN "next" ELSE "idle"

\* The confirmation is reported when nothing is left to surface.
Reports(c) == c.op \in {"confirm", "batch_confirm"} /\ c.due = {}

\* It inserts the row.  What a confirmation surfaces follows.
AppendEvent(t) ==
  LET c == call[t] IN
  /\ pc[t] = "append"
  /\ log' = log \cup {c.draft}
  /\ pc' = [pc EXCEPT ![t] = AfterAppend(c)]
  /\ \/ /\ c.due # {}
        /\ \E d \in c.due : call' = [call EXCEPT ![t].draft = d, ![t].due = c.due \ {d}]
     \/ /\ c.due = {}
        /\ call' = IF c.todo # {} THEN call ELSE [call EXCEPT ![t] = Nothing]
  /\ confirmed' = IF Reports(c) THEN confirmed \cup {c.draft.about} ELSE confirmed
  /\ UNCHANGED <<stamps, artifacts, claims, materials>>

\* The process of a thread ends, or its database or model fails: what it
\* appended stays, the rest is never done.  An event that was stamped and then not
\* appended leaves the rows it would leave had it failed before the stamp.
Lose(t) ==
  /\ pc[t] \notin {"idle", "number", "append"}
  /\ pc' = [pc EXCEPT ![t] = "idle"]
  /\ call' = [call EXCEPT ![t] = Nothing]
  /\ UNCHANGED <<tables, stamps, confirmed>>

Grill(t, c) ==
  \/ Challenge(t, c)
  \/ \E k \in Named :
       \/ Answer(t, c, k)
       \/ \E outcome \in Outcomes \cap Judged :
            \/ AutoVerdict(t, c, outcome, k)
            \/ \E d \in SUBSET (Claims \ {c}) :
                 Cardinality(d) <= 1 /\ Verdict(t, c, outcome, d, k)
  \/ Bypass(t, c)

Gate(t, c) ==
  \/ \E g \in Stream(c) : Confirm(t, g) \/ Retract(t, g)
  \/ \E ids \in SUBSET (Ids(Stream(c)) \cap Decided) : BatchConfirm(t, c, ids)
  \/ Promote(t, c)

Evidence(t, c) ==
  \/ \E papers \in SUBSET Materials : Collect(t, c, papers)
  \/ \E m \in Materials, verdict \in GroundVerdicts \cap Judged : Ground(t, c, m, verdict)

Service(t) == \E c \in Claims : ParkArtifact(t, c) \/ Grill(t, c) \/ Gate(t, c) \/ Evidence(t, c)

Step(t) ==
  \/ pc[t] = "idle" /\ Service(t)
  \/ ParkClaim(t)
  \/ \E m \in Materials : CollectNext(t, m)
  \/ \E g \in log : BatchConfirmNext(t, g)
  \/ Stamp(t) \/ ReadSeq(t) \/ AppendEvent(t) \/ Lose(t)

Next == \E t \in Threads : Step(t)
Spec == Init /\ [][Next]_vars
-----------------------------------------------------------------------------
\* What a thread is asked to do; the last four are operations of the Lens.
OpNames ==
  {"none", "park", "collect", "challenge", "answer", "verdict", "bypass", "auto_verdict",
   "ground", "confirm", "batch_confirm", "retract", "promote",
   "auto_challenge", "scan", "taste", "link"}

\* Everything keeps to its type.
TypeOK ==
  /\ log \subseteq Event /\ made \in Nat /\ clock \in Nat
  /\ artifacts \subseteq Claims /\ claims \subseteq Claims /\ materials \subseteq Materials
  /\ pc \in [Threads -> {"idle", "claim", "next", "stamp", "number", "append"}]
  /\ call \in [Threads -> [op : OpNames, draft : Event, due : SUBSET Event, todo : SUBSET Nat]]
  /\ confirmed \subseteq Nat

\* Whoever reads a trajectory in its order finds the cause of every event before
\* the event: a park before questions and grounds, a challenge before answers and
\* verdicts, the signature of a contradiction before its challenge, a signed
\* survival before a promotion.  The events are stamped and appended by threads
\* that read the stream earlier; times may be equal, and numbers too.
CausesComeFirst == \A e \in log : Caused(log, e)

\* event_service.py: confirmed counter-evidence always challenges the claim.  When
\* the confirmation of a contradicting ground was reported, its challenge is on the
\* stream, whoever put it there.
ReportedContradictionIsChallenged ==
  \A g \in log :
    g.id \in confirmed /\ g.type = "ground" /\ GroundStance(g) = "contradicts"
      => Surfaced(Stream(g.at), g)

\* The versions of a document, replayed, give the document: what came in some
\* version and did not leave in a later one is what is shown now.
Replayed(versions) ==
  {e \in UNION {v.added : v \in versions} : \E v \in versions :
     e \in v.added /\ \A w \in versions : w.at > v.at => e \notin w.removed}

VersionsReplayDoc ==
  [][log' # log =>
       \A c \in claims : \A stream \in {Stream(c)'} \ {Stream(c)} :
         \A versions \in {SnapshotProjection(stream)} :
           DocProjection(stream) = Replayed(versions)]_vars
=============================================================================
