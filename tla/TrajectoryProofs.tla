---------------------------- MODULE TrajectoryProofs ----------------------------
(***************************************************************************)
(* What holds of trajectories and of the Lens for any claims, threads and  *)
(* bounds.  Services read a stream and append an event that was stamped    *)
(* later to one that others have written to since.  What a service read    *)
(* stays, the time of what it makes is not before any time it read, and    *)
(* the number it gets on the stream is after every number it read: so no   *)
(* event is left without its cause, though times and numbers may be equal, *)
(* and none names what was not signed before it.                           *)
(*                                                                         *)
(* The invariant is proved of LensSpec, whose steps include those of Spec. *)
(***************************************************************************)
EXTENDS Lens, WellFoundedInduction, FiniteSetTheorems, TLAPS

\* The log is of the past, and what its events say is what was checked.
Past == IsFiniteSet(log) /\ \A e \in log : e.id <= made /\ e.ts <= clock /\ WellFormed(e)

At(e, id) == [e EXCEPT !.id = id]

\* What must precede e is among the events E.
MayFollow(E, e) == HasCause({f \in E : f.at = e.at}, e)

\* What a thread is about to make, or has made, has its cause in the log: in time
\* when it is stamped, and before it when it has its number.
Founded(t) ==
  /\ pc[t] \in {"claim", "stamp"} => MayFollow(log, call[t].draft)
  /\ pc[t] = "number" => MayFollow({f \in log : f.ts <= call[t].draft.ts}, call[t].draft)
  /\ pc[t] = "append" => Caused(log, call[t].draft)
  /\ pc[t] \in {"number", "append"} => call[t].draft.id <= made /\ call[t].draft.ts <= clock
  /\ WellFormed(call[t].draft)

\* What is due follows from the confirmation of a ground that is being told,
OwesChallenge(t) ==
  \E g \in log :
    /\ g.type = "ground" /\ call[t].due = {ContradictionChallenge(g)}
    /\ call[t].draft.type = "confirm" /\ call[t].draft.about = g.id /\ call[t].draft.at = g.at

\* or is the rest of the links that the Lens proposed at once.
IsLink(e) == e.type = "link" /\ e.about = 0 /\ e.what \in EdgeTypes
OwesLinks(t) == call[t].op = "link" /\ \A d \in call[t].due : IsLink(d)

Owed(t) ==
  call[t].due # {} => pc[t] \in {"stamp", "number", "append"} /\ (OwesChallenge(t) \/ OwesLinks(t))

Causes == CausesComeFirst /\ Past /\ \A t \in Threads : Founded(t) /\ Owed(t)
Inv == TypeOK /\ Causes
-----------------------------------------------------------------------------
\* A cause stays one when more is there, whatever the time and the number of the event.
LEMMA CauseGrows ==
  ASSUME NEW S, NEW T, S \subseteq T, NEW e, NEW d,
         d.type = e.type, d.what = e.what, d.about = e.about, HasCause(S, e)
  PROVE  HasCause(T, d)
<1> DEFINE signed(X) == {f \in X : \E k \in OfType(X, "confirm") : k.about = f.id}
<1>1. \A type : OfType(S, type) \subseteq OfType(T, type)
  BY DEF OfType
<1>2. signed(S) \subseteq signed(T)
  BY <1>1
<1>3. \A type : OfType(signed(S), type) \subseteq OfType(signed(T), type)
  BY <1>2 DEF OfType
<1>4. Ids(S) \subseteq Ids(T) /\ Ids(OfType(signed(S), "ground")) \subseteq Ids(OfType(signed(T), "ground"))
  BY <1>3 DEF Ids
<1> HIDE DEF signed
<1>5. /\ e.type \in MetaTypes => e.about \in Ids(S)
      /\ e.type = "ground" \/ e.what = "question" => OfType(S, "park") # {}
      /\ e.type \in {"answer", "verdict"} => OfType(S, "challenge") # {}
      /\ e.what = "evidence_contradiction" => e.about \in Ids(OfType(signed(S), "ground"))
      /\ e.type = "promote" => \E v \in OfType(signed(S), "verdict") : v.what = "survive"
  BY DEF HasCause, signed
<1>6. /\ d.type \in MetaTypes => d.about \in Ids(T)
      /\ d.type = "ground" \/ d.what = "question" => OfType(T, "park") # {}
      /\ d.type \in {"answer", "verdict"} => OfType(T, "challenge") # {}
      /\ d.what = "evidence_contradiction" => d.about \in Ids(OfType(signed(T), "ground"))
      /\ d.type = "promote" => \E v \in OfType(signed(T), "verdict") : v.what = "survive"
  BY <1>1, <1>3, <1>4, <1>5
<1> QED BY <1>6 DEF HasCause, signed

LEMMA MayFollowGrows ==
  ASSUME NEW E, NEW F, E \subseteq F, NEW e, NEW d, d.at = e.at,
         d.type = e.type, d.what = e.what, d.about = e.about, MayFollow(E, e)
  PROVE  MayFollow(F, d)
<1>1. {f \in E : f.at = e.at} \subseteq {f \in F : f.at = d.at}
  OBVIOUS
<1> QED BY <1>1, CauseGrows DEF MayFollow

LEMMA CausedStays ==
  ASSUME NEW E, NEW F, E \subseteq F, NEW e, Caused(E, e)
  PROVE  Caused(F, e)
<1>1. {f \in E : f.at = e.at /\ Precedes(f, e)} \subseteq {f \in F : f.at = e.at /\ Precedes(f, e)}
  OBVIOUS
<1> QED BY <1>1, CauseGrows DEF Caused

\* A number after those of the whole stream puts what happened in time before the event.
LEMMA Numbered ==
  ASSUME NEW E \in SUBSET Event, NEW e \in Event, NEW d \in Event,
         d.at = e.at, d.ts = e.ts, d.type = e.type, d.what = e.what, d.about = e.about,
         \A f \in E : f.at = e.at => f.seq < d.seq,
         MayFollow({f \in E : f.ts <= e.ts}, e)
  PROVE  Caused(E, d)
<1>1. \A f \in E : f.ts \in Nat /\ f.seq \in Nat
  BY DEF Event
<1>2. d.ts \in Nat /\ d.seq \in Nat
  BY DEF Event
<1>3. \A f \in E : f.at = e.at /\ f.ts <= e.ts => Precedes(f, d)
  BY <1>1, <1>2 DEF Precedes
<1>4. {f \in {g \in E : g.ts <= e.ts} : f.at = e.at} \subseteq {f \in E : f.at = d.at /\ Precedes(f, d)}
  BY <1>3
<1> QED BY <1>4, CauseGrows DEF MayFollow, Caused

LEMMA NewEventFacts ==
  ASSUME NEW type \in EventTypes, NEW c \in Claims, NEW what \in Judgements, NEW about \in Nat,
         NEW cites \in SUBSET (Claims \cup Materials)
  PROVE  /\ NewEvent(type, c, what, about, cites) \in Event
         /\ (type = "verdict" => what \in Outcomes) /\ (type = "ground" => cites \subseteq Materials)
              => WellFormed(NewEvent(type, c, what, about, cites))
         /\ NewEvent(type, c, what, about, cites).type = type
         /\ NewEvent(type, c, what, about, cites).at = c
         /\ NewEvent(type, c, what, about, cites).what = what
         /\ NewEvent(type, c, what, about, cites).about = about
         /\ NewEvent(type, c, what, about, cites).cites = cites
<1> DEFINE e == [id |-> 0, ts |-> 0, seq |-> 0, at |-> c, type |-> type, what |-> what, about |-> about, cites |-> cites,
                 confirmed |-> type \in BornConfirmed, debt |-> FALSE]
<1>1. (type \in BornConfirmed) \in BOOLEAN
  OBVIOUS
<1>2. NewEvent(type, c, what, about, cites) = e
  BY DEF NewEvent
<1> DEFINE b == type \in BornConfirmed
<1> HIDE DEF b
<1>3. \A b1 \in BOOLEAN : [id |-> 0, ts |-> 0, seq |-> 0, at |-> c, type |-> type, what |-> what, about |-> about, cites |-> cites,
                 confirmed |-> b1, debt |-> FALSE] \in Event
  BY DEF Event
<1>4. e \in Event
  BY <1>1, <1>3
<1>5. e.confirmed => type \in BornConfirmed
  BY Zenon
<1>6. e.type = type /\ e.at = c /\ e.what = what /\ e.about = about /\ e.cites = cites
  OBVIOUS
<1> HIDE DEF e
<1> QED BY <1>2, <1>4, <1>5, <1>6 DEF WellFormed

LEMMA Names ==
  /\ {"park", "challenge", "answer", "verdict", "confirm", "retract", "promote", "collect_material",
      "ground"} \subseteq EventTypes
  /\ Outcomes \cup GroundVerdicts \cup {"none", "question", "evidence_contradiction"} \subseteq Judgements
BY DEF EventTypes, GrillTypes, MetaTypes, Judgements, Challenges

\* A park, a collected paper, a link and a challenge that comes of what others
\* claim need no cause on the stream.
LEMMA Uncaused ==
  ASSUME NEW E, NEW e, e.type \in {"park", "collect_material", "link", "challenge"},
         e.what \notin {"question", "evidence_contradiction"}
  PROVE  MayFollow(E, e)
<1>1. e.type \notin MetaTypes \cup {"ground", "answer", "verdict", "promote"}
  BY DEF MetaTypes
<1> QED BY <1>1 DEF MayFollow, HasCause
-----------------------------------------------------------------------------
\* What other threads append or stamp takes nothing from a thread.
LEMMA OthersStay ==
  ASSUME Inv, log \subseteq log', log' \subseteq Event,
         made' \in Nat, made <= made', clock' \in Nat, clock <= clock',
         NEW u \in Threads, pc'[u] = pc[u], call'[u] = call[u]
  PROVE  Founded(u)' /\ Owed(u)'
<1> DEFINE draft == call[u].draft
<1>1. /\ made \in Nat /\ clock \in Nat /\ draft \in Event /\ call'[u].draft = draft
      /\ draft.id \in Nat /\ draft.ts \in Nat
  BY DEF Inv, TypeOK, Event
<1>2. Founded(u) /\ Owed(u)
  BY DEF Inv, Causes
<1> HIDE DEF draft, Inv
<1>3. pc[u] \in {"claim", "stamp"} => MayFollow(log', draft)
  BY <1>2, MayFollowGrows DEF Founded, draft
<1>4. pc[u] = "number" => MayFollow({f \in log' : f.ts <= draft.ts}, draft)
  <2>1. {f \in log : f.ts <= draft.ts} \subseteq {f \in log' : f.ts <= draft.ts}
    OBVIOUS
  <2> QED BY <1>2, <2>1, MayFollowGrows DEF Founded, draft
<1>5. pc[u] = "append" => Caused(log', draft)
  BY <1>2, CausedStays DEF Founded, draft
<1>6. pc[u] \in {"number", "append"} => draft.id <= made' /\ draft.ts <= clock'
  BY <1>1, <1>2 DEF Founded, draft
<1>7. Founded(u)'
  BY <1>1, <1>2, <1>3, <1>4, <1>5, <1>6 DEF Founded, draft
<1>8. \A g : ContradictionChallenge(g)' = ContradictionChallenge(g)
  BY DEF ContradictionChallenge, NewEvent
<1>9. Owed(u)'
  BY <1>2, <1>8 DEF Owed, OwesChallenge, OwesLinks
<1> QED BY <1>7, <1>9

\* The log as a whole, when it and the stamps are left alone.
LEMMA Undisturbed ==
  ASSUME Inv, UNCHANGED <<log, made, clock>>, TypeOK', NEW t \in Threads,
         \A u \in Threads \ {t} : pc'[u] = pc[u] /\ call'[u] = call[u],
         Founded(t)' /\ Owed(t)'
  PROVE  Inv'
<1> USE DEF Inv
<1>1. CausesComeFirst' /\ Past'
  BY DEF Causes, CausesComeFirst, Past
<1>2. made' \in Nat /\ made <= made' /\ clock' \in Nat /\ clock <= clock' /\ log' \subseteq Event
  BY DEF TypeOK
<1>3. \A u \in Threads \ {t} : Founded(u)' /\ Owed(u)'
  BY <1>2, OthersStay
<1> QED BY <1>1, <1>3 DEF Causes

\* What is left when a thread takes a step that leaves the log and the stamps alone.
Alone(t) ==
  /\ TypeOK' /\ UNCHANGED <<log, made, clock>>
  /\ \A u \in Threads \ {t} : pc'[u] = pc[u] /\ call'[u] = call[u]

\* A service goes on to make an event whose cause it found.
LEMMA Proceeded ==
  ASSUME Inv, NEW t \in Threads, Alone(t), pc'[t] = "stamp",
         NEW draft, call'[t].draft = draft, WellFormed(draft),
         MayFollow(log, draft),
         call'[t].due # {} =>
           \/ \E g \in log : /\ g.type = "ground" /\ call'[t].due = {ContradictionChallenge(g)}
                             /\ draft.type = "confirm" /\ draft.about = g.id /\ draft.at = g.at
           \/ call'[t].op = "link" /\ \A d \in call'[t].due : IsLink(d)
  PROVE  Inv'
<1> USE DEF Alone
<1>1. Founded(t)'
  BY DEF Founded
<1>2. \A g : ContradictionChallenge(g)' = ContradictionChallenge(g)
  BY DEF ContradictionChallenge, NewEvent
<1>3. Owed(t)'
  BY <1>2 DEF Owed, OwesChallenge, OwesLinks
<1> QED BY <1>1, <1>3, Undisturbed

\* It found the cause in the stream it read.
LEMMA Begun ==
  ASSUME Inv, NEW t \in Threads, Alone(t), pc'[t] = "stamp",
         NEW draft \in Event, call'[t].draft = draft, call'[t].due = {},
         WellFormed(draft), MayFollow(log, draft)
  PROVE  Inv'
BY Proceeded

LEMMA NothingFacts ==
  /\ Nothing \in [op : OpNames, draft : Event, due : SUBSET Event, todo : SUBSET Nat]
  /\ Nothing.due = {} /\ Nothing.draft.type = "park" /\ WellFormed(Nothing.draft)
<1> DEFINE c == CHOOSE c \in Claims : TRUE
           park == NewEvent("park", c, "none", 0, {})
<1>1. c \in Claims
  BY IdsAssumption
<1> HIDE DEF c
<1>2. park \in Event /\ park.type = "park" /\ WellFormed(park)
  BY <1>1, NewEventFacts, Names
<1>3. Nothing = [op |-> "none", draft |-> park, due |-> {}, todo |-> {}]
  BY DEF Nothing, c
<1> HIDE DEF park
<1> QED BY <1>2, <1>3 DEF OpNames

LEMMA InitInv == Init => Inv
<1> SUFFICES ASSUME Init PROVE Inv
  OBVIOUS
<1> USE DEF Init
<1>1. /\ OldLog \subseteq Event /\ IsFiniteSet(OldLog) /\ Ids(OldLog) = 1..Cardinality(OldLog)
      /\ \A e \in OldLog : Caused(OldLog, e) /\ WellFormed(e) /\ e.ts <= Cardinality(OldLog)
  BY OldLogAssumption
<1>2. made \in Nat /\ clock \in Nat
  BY <1>1, FS_CardinalityType
<1>3. artifacts \subseteq Claims /\ claims \subseteq Claims /\ materials \subseteq Materials
  BY <1>1 DEF Event
<1>7. TypeOK
  <2>1. Nothing \in [op : OpNames, draft : Event, due : SUBSET Event, todo : SUBSET Nat]
    BY NothingFacts
  <2>2. log \subseteq Event /\ confirmed \subseteq Nat /\ pc \in [Threads -> {"idle", "claim", "next", "stamp", "number", "append"}]
    BY <1>1
  <2>3. call \in [Threads -> [op : OpNames, draft : Event, due : SUBSET Event, todo : SUBSET Nat]]
    BY <2>1
  <2> HIDE DEF Init
  <2> QED BY <1>2, <1>3, <2>2, <2>3 DEF TypeOK
<1>8. Past
  <2>1. \A e \in OldLog : e.id \in 1..Cardinality(OldLog)
    BY <1>1 DEF Ids
  <2> QED BY <1>1, <1>2, <2>1 DEF Past
<1>9. ASSUME NEW t \in Threads PROVE Founded(t) /\ Owed(t)
  <2>1. pc[t] = "idle" /\ call[t] = Nothing
    OBVIOUS
  <2> HIDE DEF Init
  <2> QED BY <2>1, NothingFacts DEF Founded, Owed
<1> QED BY <1>1, <1>7, <1>8, <1>9 DEF Inv, Causes, CausesComeFirst
-----------------------------------------------------------------------------
LEMMA ParkArtifactInv ==
  ASSUME Inv, NEW t \in Threads, NEW c \in Claims, ParkArtifact(t, c)
  PROVE  Inv'
<1> USE DEF Inv
<1> DEFINE park == NewEvent("park", c, "none", 0, {})
<1>1. park \in Event /\ park.type = "park" /\ park.about = 0 /\ park.what = "none"
  BY NewEventFacts, Names
<1> HIDE DEF park
<1>4. /\ Alone(t) /\ pc'[t] = "claim" /\ call'[t].draft = park /\ call'[t].due = {}
  <2>1. /\ pc' = [pc EXCEPT ![t] = "claim"] /\ artifacts' = artifacts \cup {c}
        /\ call' = [call EXCEPT ![t] = [op |-> "park", draft |-> park, due |-> {}, todo |-> {}]]
        /\ UNCHANGED <<log, stamps, claims, materials, confirmed>>
    BY DEF ParkArtifact, park
  <2> QED BY <1>1, <2>1 DEF Alone, TypeOK, OpNames, stamps
<1>5. MayFollow(log, park)
  BY <1>1, Uncaused
<1>6. Founded(t)'
  BY <1>1, <1>4, <1>5 DEF Founded, BornConfirmed, WellFormed, Alone
<1>7. Owed(t)'
  BY <1>4 DEF Owed
<1> QED BY <1>4, <1>6, <1>7, Undisturbed DEF Alone

LEMMA ParkClaimInv ==
  ASSUME Inv, NEW t \in Threads, ParkClaim(t)
  PROVE  Inv'
<1> USE DEF Inv, ParkClaim, stamps
<1>1. call[t].draft \in Event /\ call[t].draft.at \in Claims
  BY DEF TypeOK, Event
<1>2. TypeOK'
  BY <1>1 DEF TypeOK
<1>3. pc'[t] = "stamp" /\ \A u \in Threads \ {t} : pc'[u] = pc[u] /\ call'[u] = call[u]
  BY DEF TypeOK
<1>4. Founded(t)'
  BY <1>3 DEF Founded, Causes
<1>5. Owed(t)'
  BY <1>3 DEF Owed, Causes
<1> QED BY <1>2, <1>3, <1>4, <1>5, Undisturbed

\* A batch begins or ends without anything to make.
LEMMA Unmade ==
  ASSUME Inv, NEW t \in Threads, Alone(t), pc'[t] \in {"idle", "next"}, call'[t].due = {},
         WellFormed(call'[t].draft)
  PROVE  Inv'
<1>1. Founded(t)' /\ Owed(t)'
  BY DEF Founded, Owed
<1> QED BY <1>1, Undisturbed DEF Alone

LEMMA CollectInv ==
  ASSUME Inv, NEW t \in Threads, NEW c \in Claims, NEW papers \in SUBSET Materials, Collect(t, c, papers)
  PROVE  Inv'
<1> DEFINE draft == NewEvent("collect_material", c, "none", 0, {})
<1>1. draft \in Event /\ draft.type = "collect_material"
  BY NewEventFacts, Names
<1>2. /\ UNCHANGED <<log, stamps, confirmed, artifacts, claims, materials>>
      /\ pc' = [pc EXCEPT ![t] = "next"]
      /\ call' = [call EXCEPT ![t] = [op |-> "collect", draft |-> draft, due |-> {}, todo |-> papers]]
  BY DEF Collect, tables, stamps
<1>3. papers \in SUBSET Nat
  BY IdsAssumption
<1> HIDE DEF draft
<1>4. Alone(t) /\ pc'[t] = "next" /\ call'[t].draft = draft /\ call'[t].due = {}
  BY <1>1, <1>2, <1>3 DEF Inv, TypeOK, OpNames, Alone, stamps
<1> QED BY <1>1, <1>4, Unmade DEF BornConfirmed, WellFormed

LEMMA CollectNextInv ==
  ASSUME Inv, NEW t \in Threads, NEW m \in Materials, CollectNext(t, m)
  PROVE  Inv'
<1> USE DEF Inv
<1> DEFINE draft == NewEvent("collect_material", call[t].draft.at, "none", 0, {m})
<1>1. call[t].draft.at \in Claims /\ call[t].todo \ {m} \in SUBSET Nat
  BY DEF TypeOK, Event
<1>2. draft \in Event /\ draft.type = "collect_material" /\ draft.about = 0 /\ draft.what = "none"
  BY <1>1, NewEventFacts, Names
<1>3. /\ pc' = [pc EXCEPT ![t] = "stamp"] /\ materials' = materials \cup {m}
      /\ call' = [call EXCEPT ![t] = [op |-> "collect", draft |-> draft, due |-> {}, todo |-> call[t].todo \ {m}]]
      /\ UNCHANGED <<log, stamps, confirmed, artifacts, claims>>
  BY DEF CollectNext, Proceed
<1> HIDE DEF draft
<1>4. Alone(t) /\ pc'[t] = "stamp" /\ call'[t].draft = draft /\ call'[t].due = {}
  BY <1>1, <1>2, <1>3 DEF TypeOK, OpNames, Alone, stamps
<1>5. MayFollow(log, draft)
  BY <1>2, Uncaused
<1> QED BY <1>2, <1>4, <1>5, Proceeded DEF BornConfirmed, WellFormed
-----------------------------------------------------------------------------
LEMMA ChallengeInv ==
  ASSUME Inv, NEW t \in Threads, NEW c \in Claims, Challenge(t, c)
  PROVE  Inv'
<1> DEFINE S == {e \in log : e.at = c}
           draft == NewEvent("challenge", c, "question", 0, {})
<1>1. /\ draft \in Event /\ WellFormed(draft)
      /\ draft.type = "challenge" /\ draft.about = 0 /\ draft.what = "question" /\ draft.at = c
  BY NewEventFacts, Names DEF Outcomes, BornConfirmed, WellFormed
<1>2. /\ UNCHANGED <<tables, stamps, confirmed>> /\ pc' = [pc EXCEPT ![t] = "stamp"]
      /\ call' = [call EXCEPT ![t] = [op |-> "challenge", draft |-> draft, due |-> {}, todo |-> {}]]
  BY DEF Challenge, Begin, Proceed
<1> HIDE DEF draft
<1>3. Alone(t) /\ pc'[t] = "stamp" /\ call'[t].draft = draft /\ call'[t].due = {}
  BY <1>1, <1>2 DEF Alone, Inv, TypeOK, OpNames, tables, stamps
<1>4. OfType(S, "park") # {}
  BY DEF Challenge, WasParked, Stream
<1>6. MayFollow(log, draft)
  BY <1>1, <1>4 DEF MayFollow, HasCause, MetaTypes
<1> QED BY <1>1, <1>3, <1>6, Begun

LEMMA AnswerInv ==
  ASSUME Inv, NEW t \in Threads, NEW c \in Claims, NEW k \in Named, Answer(t, c, k)
  PROVE  Inv'
<1> DEFINE S == {e \in log : e.at = c}
           draft == NewEvent("answer", c, "none", k, {})
<1>0. k \in Nat
  BY BoundsAssumption
<1>1. /\ draft \in Event /\ WellFormed(draft)
      /\ draft.type = "answer" /\ draft.about = k /\ draft.what = "none" /\ draft.at = c
  BY <1>0, NewEventFacts, Names DEF Outcomes, BornConfirmed, WellFormed
<1>2. /\ UNCHANGED <<tables, stamps, confirmed>> /\ pc' = [pc EXCEPT ![t] = "stamp"]
      /\ call' = [call EXCEPT ![t] = [op |-> "answer", draft |-> draft, due |-> {}, todo |-> {}]]
  BY DEF Answer, Begin, Proceed
<1> HIDE DEF draft
<1>3. Alone(t) /\ pc'[t] = "stamp" /\ call'[t].draft = draft /\ call'[t].due = {}
  BY <1>1, <1>2 DEF Alone, Inv, TypeOK, OpNames, tables, stamps
<1>4. OfType(S, "challenge") # {}
  BY DEF Answer, HasChallenge, Stream
<1>5. "none" # "question" /\ "none" # "evidence_contradiction"
  BY DEF Outcomes, DeathCauses, GroundVerdicts
<1>6. MayFollow(log, draft)
  BY <1>0, <1>1, <1>4, <1>5 DEF MayFollow, HasCause, MetaTypes
<1> QED BY <1>1, <1>3, <1>6, Begun

LEMMA VerdictInv ==
  ASSUME Inv, NEW t \in Threads, NEW c \in Claims, NEW outcome \in Outcomes, NEW d \in SUBSET (Claims \ {c}),
         NEW k \in Named, Verdict(t, c, outcome, d, k)
  PROVE  Inv'
<1> DEFINE S == {e \in log : e.at = c}
           draft == NewEvent("verdict", c, outcome, k, d)
<1>0. k \in Nat
  BY BoundsAssumption
<1>1. /\ draft \in Event /\ WellFormed(draft)
      /\ draft.type = "verdict" /\ draft.about = k /\ draft.what = outcome /\ draft.at = c
  BY <1>0, NewEventFacts, Names DEF Outcomes, BornConfirmed, WellFormed
<1>2. /\ UNCHANGED <<tables, stamps, confirmed>> /\ pc' = [pc EXCEPT ![t] = "stamp"]
      /\ call' = [call EXCEPT ![t] = [op |-> "verdict", draft |-> draft, due |-> {}, todo |-> {}]]
  BY DEF Verdict, Begin, Proceed
<1> HIDE DEF draft
<1>3. Alone(t) /\ pc'[t] = "stamp" /\ call'[t].draft = draft /\ call'[t].due = {}
  BY <1>1, <1>2 DEF Alone, Inv, TypeOK, OpNames, tables, stamps
<1>4. OfType(S, "challenge") # {}
  BY DEF Verdict, HasChallenge, Stream
<1>5. outcome # "question" /\ outcome # "evidence_contradiction"
  BY DEF Outcomes, DeathCauses, GroundVerdicts
<1>6. MayFollow(log, draft)
  BY <1>0, <1>1, <1>4, <1>5 DEF MayFollow, HasCause, MetaTypes
<1> QED BY <1>1, <1>3, <1>6, Begun

LEMMA AutoVerdictInv ==
  ASSUME Inv, NEW t \in Threads, NEW c \in Claims, NEW outcome \in Outcomes,
         NEW k \in Named, AutoVerdict(t, c, outcome, k)
  PROVE  Inv'
<1> DEFINE S == {e \in log : e.at = c}
           cites == GroundedMaterials(Stream(c))
           draft == NewEvent("verdict", c, outcome, k, cites)
<1>0. k \in Nat
  BY BoundsAssumption
<1>7. cites \in SUBSET (Claims \cup Materials)
  <2>1. \A e \in log : e.cites \subseteq Claims \cup Materials
    BY DEF Inv, TypeOK, Event
  <2>2. BearingEvidence(Stream(c)) \subseteq log
    BY DEF BearingEvidence, ConfirmedGroundEvidence, OfType, Signed, Stream
  <2> QED BY <2>1, <2>2 DEF GroundedMaterials
<1> HIDE DEF cites
<1>1. /\ draft \in Event /\ WellFormed(draft)
      /\ draft.type = "verdict" /\ draft.about = k /\ draft.what = outcome /\ draft.at = c
  BY <1>0, <1>7, NewEventFacts, Names DEF Outcomes, BornConfirmed, WellFormed
<1>2. /\ UNCHANGED <<tables, stamps, confirmed>> /\ pc' = [pc EXCEPT ![t] = "stamp"]
      /\ call' = [call EXCEPT ![t] = [op |-> "auto_verdict", draft |-> draft, due |-> {}, todo |-> {}]]
  BY DEF AutoVerdict, Begin, Proceed, cites
<1> HIDE DEF draft
<1>3. Alone(t) /\ pc'[t] = "stamp" /\ call'[t].draft = draft /\ call'[t].due = {}
  BY <1>1, <1>2 DEF Alone, Inv, TypeOK, OpNames, tables, stamps
<1>4. OfType(S, "challenge") # {}
  BY DEF AutoVerdict, HasChallenge, Stream
<1>5. outcome # "question" /\ outcome # "evidence_contradiction"
  BY DEF Outcomes, DeathCauses, GroundVerdicts
<1>6. MayFollow(log, draft)
  BY <1>0, <1>7, <1>1, <1>4, <1>5 DEF MayFollow, HasCause, MetaTypes
<1> QED BY <1>1, <1>3, <1>6, Begun

\* A verdict that is signed in the old way.
LEMMA SurvivalFacts ==
  ASSUME NEW c \in Claims, NEW plain, plain = NewEvent("verdict", c, "survive", 0, {})
  PROVE  /\ plain \in Event /\ WellFormed(plain) /\ plain.cites = {}
         /\ plain.type = "verdict" /\ plain.about = 0 /\ plain.what = "survive" /\ plain.at = c
<1>1. /\ "verdict" \in EventTypes /\ "survive" \in Judgements /\ "survive" \in Outcomes
      /\ {} \in SUBSET (Claims \cup Materials) /\ 0 \in Nat
  BY Names DEF Outcomes
<1> QED BY <1>1, NewEventFacts

LEMMA BypassInv ==
  ASSUME Inv, NEW t \in Threads, NEW c \in Claims, Bypass(t, c)
  PROVE  Inv'
<1> DEFINE S == {e \in log : e.at = c}
           plain == NewEvent("verdict", c, "survive", 0, {})
           draft == [plain EXCEPT !.debt = TRUE]
<1>0. /\ plain \in Event /\ WellFormed(plain)
      /\ plain.type = "verdict" /\ plain.about = 0 /\ plain.what = "survive" /\ plain.at = c
  BY SurvivalFacts
<1>1. /\ draft \in Event /\ WellFormed(draft)
      /\ draft.type = "verdict" /\ draft.about = 0 /\ draft.what = "survive" /\ draft.at = c
  <2> HIDE DEF plain
  <2> QED BY <1>0 DEF Event, WellFormed, BornConfirmed
<1>2. /\ UNCHANGED <<tables, stamps, confirmed>> /\ pc' = [pc EXCEPT ![t] = "stamp"]
      /\ call' = [call EXCEPT ![t] = [op |-> "bypass", draft |-> draft, due |-> {}, todo |-> {}]]
  BY DEF Bypass, Begin, Proceed
<1> HIDE DEF draft
<1>3. Alone(t) /\ pc'[t] = "stamp" /\ call'[t].draft = draft /\ call'[t].due = {}
  BY <1>1, <1>2 DEF Alone, Inv, TypeOK, OpNames, tables, stamps
<1>4. OfType(S, "challenge") # {}
  BY DEF Bypass, HasChallenge, Stream
<1>5. "survive" # "question" /\ "survive" # "evidence_contradiction"
  BY DEF Outcomes, DeathCauses, GroundVerdicts
<1>6. MayFollow(log, draft)
  BY <1>1, <1>4, <1>5 DEF MayFollow, HasCause, MetaTypes
<1> QED BY <1>1, <1>3, <1>6, Begun

LEMMA GroundInv ==
  ASSUME Inv, NEW t \in Threads, NEW c \in Claims, NEW m \in Materials, NEW verdict \in GroundVerdicts,
         Ground(t, c, m, verdict)
  PROVE  Inv'
<1> DEFINE S == {e \in log : e.at = c}
           draft == NewEvent("ground", c, verdict, 0, {m})
<1>1. /\ draft \in Event /\ WellFormed(draft)
      /\ draft.type = "ground" /\ draft.about = 0 /\ draft.what = verdict /\ draft.at = c
  BY NewEventFacts, Names DEF Outcomes, BornConfirmed, WellFormed
<1>2. /\ UNCHANGED <<tables, stamps, confirmed>> /\ pc' = [pc EXCEPT ![t] = "stamp"]
      /\ call' = [call EXCEPT ![t] = [op |-> "ground", draft |-> draft, due |-> {}, todo |-> {}]]
  BY DEF Ground, Begin, Proceed
<1> HIDE DEF draft
<1>3. Alone(t) /\ pc'[t] = "stamp" /\ call'[t].draft = draft /\ call'[t].due = {}
  BY <1>1, <1>2 DEF Alone, Inv, TypeOK, OpNames, tables, stamps
<1>4. OfType(S, "park") # {}
  BY DEF Ground, WasParked, Stream
<1>5. verdict # "question" /\ verdict # "evidence_contradiction"
  BY DEF Outcomes, DeathCauses, GroundVerdicts
<1>6. MayFollow(log, draft)
  BY <1>1, <1>4, <1>5 DEF MayFollow, HasCause, MetaTypes
<1> QED BY <1>1, <1>3, <1>6, Begun

LEMMA GrillInv ==
  ASSUME Inv, NEW t \in Threads, NEW c \in Claims, Grill(t, c)
  PROVE  Inv'
BY ChallengeInv, AnswerInv, VerdictInv, AutoVerdictInv, BypassInv DEF Grill

LEMMA EvidenceInv ==
  ASSUME Inv, NEW t \in Threads, NEW c \in Claims, Evidence(t, c)
  PROVE  Inv'
BY CollectInv, GroundInv DEF Evidence
-----------------------------------------------------------------------------
\* What a confirmation says, and what follows from it.
LEMMA ConfirmFacts ==
  ASSUME Inv, NEW g \in log, NEW E
  PROVE  LET draft == NewEvent("confirm", g.at, "none", g.id, {}) due == SurfacedBy(E, g)
         IN /\ draft \in Event /\ draft.type = "confirm" /\ draft.about = g.id /\ draft.at = g.at
            /\ MayFollow(log, draft)
            /\ due \subseteq Event
            /\ due # {} => g.type = "ground" /\ due = {ContradictionChallenge(g)}
<1> DEFINE draft == NewEvent("confirm", g.at, "none", g.id, {})
<1>1. /\ log \in SUBSET Event
      /\ g \in Event /\ g.at \in Claims /\ g.id \in Nat /\ g.cites \in SUBSET (Claims \cup Materials)
  BY DEF Inv, TypeOK, Event
<1>2. draft \in Event /\ draft.type = "confirm" /\ draft.about = g.id /\ draft.at = g.at /\ draft.what = "none"
  BY <1>1, NewEventFacts, Names
<1> HIDE DEF draft
<1>4. MayFollow(log, draft)
  BY <1>2 DEF MayFollow, HasCause, MetaTypes, Ids
<1>6. ContradictionChallenge(g) \in Event
  BY <1>1, NewEventFacts, Names DEF ContradictionChallenge
<1>7. SurfacedBy(E, g) \subseteq Event
  BY <1>6 DEF SurfacedBy
<1>8. SurfacedBy(E, g) # {} => g.type = "ground" /\ SurfacedBy(E, g) = {ContradictionChallenge(g)}
  BY DEF SurfacedBy, Surfaces
<1> QED BY <1>2, <1>4, <1>7, <1>8 DEF draft

LEMMA ConfirmInv ==
  ASSUME Inv, NEW t \in Threads, NEW g \in log, Confirm(t, g)
  PROVE  Inv'
<1> DEFINE draft == NewEvent("confirm", g.at, "none", g.id, {})
           due == SurfacedBy(Stream(g.at), g)
<1>1. /\ draft \in Event /\ draft.type = "confirm" /\ draft.about = g.id /\ draft.at = g.at
      /\ MayFollow(log, draft)
      /\ due \subseteq Event
      /\ due # {} => g.type = "ground" /\ due = {ContradictionChallenge(g)}
  BY ConfirmFacts
<1>2. /\ UNCHANGED <<tables, stamps, confirmed>> /\ pc' = [pc EXCEPT ![t] = "stamp"]
      /\ call' = [call EXCEPT ![t] = [op |-> "confirm", draft |-> draft, due |-> due, todo |-> {}]]
  BY DEF Confirm, Proceed
<1> HIDE DEF draft, due
<1>3. Alone(t) /\ pc'[t] = "stamp" /\ call'[t].draft = draft /\ call'[t].due = due
  BY <1>1, <1>2 DEF Alone, Inv, TypeOK, OpNames, tables, stamps
<1> QED BY <1>1, <1>3, Proceeded DEF BornConfirmed, WellFormed

LEMMA BatchConfirmInv ==
  ASSUME Inv, NEW t \in Threads, NEW c \in Claims, NEW ids, BatchConfirm(t, c, ids)
  PROVE  Inv'
<1> DEFINE draft == NewEvent("confirm", c, "none", 0, {})
<1>1. draft \in Event /\ draft.type = "confirm"
  BY NewEventFacts, Names
<1>2. /\ UNCHANGED <<tables, stamps, confirmed>> /\ pc' = [pc EXCEPT ![t] = "next"]
      /\ call' = [call EXCEPT ![t] = [op |-> "batch_confirm", draft |-> draft, due |-> {}, todo |-> ids]]
  BY DEF BatchConfirm
<1>3. ids \in SUBSET Nat
  BY BoundsAssumption DEF BatchConfirm
<1> HIDE DEF draft
<1>4. Alone(t) /\ pc'[t] = "next" /\ call'[t].draft = draft /\ call'[t].due = {}
  BY <1>1, <1>2, <1>3 DEF Alone, Inv, TypeOK, OpNames, tables, stamps
<1> QED BY <1>1, <1>4, Unmade DEF BornConfirmed, WellFormed

LEMMA BatchConfirmNextInv ==
  ASSUME Inv, NEW t \in Threads, NEW g \in log, BatchConfirmNext(t, g)
  PROVE  Inv'
<1> DEFINE draft == NewEvent("confirm", g.at, "none", g.id, {})
           due == SurfacedBy(Stream(g.at), g)
           todo == call[t].todo \ {g.id}
<1>1. /\ draft \in Event /\ draft.type = "confirm" /\ draft.about = g.id /\ draft.at = g.at
      /\ MayFollow(log, draft)
      /\ due \subseteq Event
      /\ due # {} => g.type = "ground" /\ due = {ContradictionChallenge(g)}
  BY ConfirmFacts
<1>2. /\ UNCHANGED <<tables, stamps, confirmed>> /\ pc' = [pc EXCEPT ![t] = "stamp"]
      /\ call' = [call EXCEPT ![t] = [op |-> "batch_confirm", draft |-> draft, due |-> due, todo |-> todo]]
  BY DEF BatchConfirmNext, Proceed
<1>3. todo \in SUBSET Nat
  BY DEF Inv, TypeOK
<1> HIDE DEF draft, due, todo
<1>4. Alone(t) /\ pc'[t] = "stamp" /\ call'[t].draft = draft /\ call'[t].due = due
  BY <1>1, <1>2, <1>3 DEF Alone, Inv, TypeOK, OpNames, tables, stamps
<1> QED BY <1>1, <1>4, Proceeded DEF BornConfirmed, WellFormed

LEMMA RetractInv ==
  ASSUME Inv, NEW t \in Threads, NEW g \in log, Retract(t, g)
  PROVE  Inv'
<1> DEFINE draft == NewEvent("retract", g.at, "none", g.id, {})
<1>0. g.at \in Claims /\ g.id \in Nat
  BY DEF Inv, TypeOK, Event
<1>1. draft \in Event /\ draft.type = "retract" /\ draft.about = g.id /\ draft.at = g.at /\ draft.what = "none"
  BY <1>0, NewEventFacts, Names
<1>2. /\ UNCHANGED <<tables, stamps, confirmed>> /\ pc' = [pc EXCEPT ![t] = "stamp"]
      /\ call' = [call EXCEPT ![t] = [op |-> "retract", draft |-> draft, due |-> {}, todo |-> {}]]
  BY DEF Retract, Begin, Proceed
<1> HIDE DEF draft
<1>3. Alone(t) /\ pc'[t] = "stamp" /\ call'[t].draft = draft /\ call'[t].due = {}
  BY <1>1, <1>2 DEF Alone, Inv, TypeOK, OpNames, tables, stamps
<1>4. MayFollow(log, draft)
  BY <1>1 DEF MayFollow, HasCause, MetaTypes, Ids
<1> QED BY <1>1, <1>3, <1>4, Begun DEF BornConfirmed, WellFormed

\* A verdict is never born confirmed: one that rules was confirmed by an event.
LEMMA PromoteInv ==
  ASSUME Inv, NEW t \in Threads, NEW c \in Claims, Promote(t, c)
  PROVE  Inv'
<1> DEFINE S == {e \in log : e.at = c}
           draft == NewEvent("promote", c, "none", 0, {})
<1>1. /\ draft \in Event /\ draft.type = "promote" /\ draft.about = 0 /\ draft.at = c /\ draft.what = "none"
  BY NewEventFacts, Names
<1>2. /\ UNCHANGED <<tables, stamps, confirmed>> /\ pc' = [pc EXCEPT ![t] = "stamp"]
      /\ call' = [call EXCEPT ![t] = [op |-> "promote", draft |-> draft, due |-> {}, todo |-> {}]]
  BY DEF Promote, Begin, Proceed
<1> HIDE DEF draft
<1>3. Alone(t) /\ pc'[t] = "stamp" /\ call'[t].draft = draft /\ call'[t].due = {}
  BY <1>1, <1>2 DEF Alone, Inv, TypeOK, OpNames, tables, stamps
<1>4. PICK v \in OfType(Signed(S), "verdict") : v.what = "survive"
  BY DEF Promote, CanPromote, Survived, Ruling, Newest, Stream
<1>5. v \in S /\ v.type = "verdict" /\ v.id \in Confirmed(S)
  BY <1>4 DEF OfType, Signed, Inv, Causes, Past, BornConfirmed, WellFormed
<1>6. \E k \in OfType(S, "confirm") : k.about = v.id
  BY <1>5 DEF Confirmed, OfType
<1>7. MayFollow(log, draft)
  BY <1>1, <1>4, <1>5, <1>6 DEF MayFollow, HasCause, MetaTypes, OfType
<1> QED BY <1>1, <1>3, <1>7, Begun DEF BornConfirmed, WellFormed

LEMMA GateInv ==
  ASSUME Inv, NEW t \in Threads, NEW c \in Claims, Gate(t, c)
  PROVE  Inv'
BY ConfirmInv, RetractInv, BatchConfirmInv, PromoteInv DEF Gate, Stream
-----------------------------------------------------------------------------
\* An event keeps what it says when it is stamped and when it gets its number.
Alike(d, e) ==
  /\ d.at = e.at /\ d.type = e.type /\ d.what = e.what /\ d.about = e.about
  /\ d.cites = e.cites /\ d.confirmed = e.confirmed

Redrafts(t, d) ==
  /\ d \in Event /\ call[t].draft \in Event /\ Alike(d, call[t].draft)
  /\ log' = log /\ confirmed' = confirmed /\ TypeOK'
  /\ pc[t] \in {"stamp", "number"} /\ pc'[t] \in {"number", "append"}
  /\ call'[t].draft = d /\ call'[t].due = call[t].due /\ call'[t].op = call[t].op
  /\ \A u \in Threads \ {t} : pc'[u] = pc[u] /\ call'[u] = call[u]

\* A stamp takes an id that is free, and a time that is not before any.
Stamps(t, d) ==
  /\ Redrafts(t, d) /\ pc[t] = "stamp" /\ pc'[t] = "number"
  /\ made \in Nat /\ made' = made + 1 /\ d.id = made + 1
  /\ clock \in Nat /\ clock' \in Nat /\ clock <= clock' /\ d.ts = clock'

LEMMA StampFacts ==
  ASSUME Inv, NEW t \in Threads, Stamp(t)
  PROVE  \E d : Stamps(t, d)
<1> DEFINE draft == call[t].draft
<1>1. /\ made \in Nat /\ clock \in Nat /\ log \subseteq Event /\ draft \in Event
      /\ call[t] \in [op : OpNames, draft : Event, due : SUBSET Event, todo : SUBSET Nat]
      /\ made' = made + 1 /\ pc[t] = "stamp" /\ pc' = [pc EXCEPT ![t] = "number"]
      /\ UNCHANGED <<log, artifacts, claims, materials, confirmed>>
  BY DEF Stamp, tables, Inv, TypeOK
<1>2. PICK now \in {clock, clock + 1} :
        clock' = now /\ call' = [call EXCEPT ![t].draft.id = made + 1, ![t].draft.ts = now]
  BY DEF Stamp
<1>3. now \in Nat /\ clock <= now
  BY <1>1
<1> DEFINE d == [draft EXCEPT !.id = made + 1, !.ts = now]
<1>4. d \in Event /\ Alike(d, draft) /\ d.id = made + 1 /\ d.ts = now
  <2> DEFINE dated == [draft EXCEPT !.id = made + 1]
  <2>1. dated \in Event /\ Alike(dated, draft) /\ dated.id = made + 1
    BY <1>1 DEF Event, Alike
  <2>2. d = [dated EXCEPT !.ts = now]
    BY <1>1 DEF Event
  <2> HIDE DEF dated, d
  <2> QED BY <1>3, <2>1, <2>2 DEF Event, Alike
<1>5. call' = [call EXCEPT ![t] = [call[t] EXCEPT !.draft = d]]
  BY <1>2
<1> HIDE DEF d
<1>6. /\ call'[t].draft = d /\ call'[t].due = call[t].due /\ call'[t].op = call[t].op
      /\ call'[t] \in [op : OpNames, draft : Event, due : SUBSET Event, todo : SUBSET Nat]
      /\ pc'[t] = "number" /\ \A u \in Threads \ {t} : pc'[u] = pc[u] /\ call'[u] = call[u]
  BY <1>1, <1>4, <1>5 DEF Inv, TypeOK
<1>7. TypeOK'
  BY <1>1, <1>2, <1>3, <1>5, <1>6 DEF Inv, TypeOK
<1> QED BY <1>1, <1>2, <1>3, <1>4, <1>6, <1>7 DEF Stamps, Redrafts

\* A number comes after those that are on the stream.
Numbers(t, d) ==
  /\ Redrafts(t, d) /\ pc[t] = "number" /\ pc'[t] = "append" /\ made' = made /\ clock' = clock
  /\ d.id = call[t].draft.id /\ d.ts = call[t].draft.ts
  /\ \A f \in log : f.at = d.at => f.seq < d.seq

LEMMA ReadSeqFacts ==
  ASSUME Inv, NEW t \in Threads, ReadSeq(t)
  PROVE  \E d : Numbers(t, d)
<1> DEFINE draft == call[t].draft
<1>1. /\ log \subseteq Event /\ draft \in Event
      /\ call[t] \in [op : OpNames, draft : Event, due : SUBSET Event, todo : SUBSET Nat]
      /\ pc[t] = "number" /\ pc' = [pc EXCEPT ![t] = "append"]
      /\ UNCHANGED <<log, made, clock, artifacts, claims, materials, confirmed>>
  BY DEF ReadSeq, tables, stamps, Inv, TypeOK
<1>2. PICK next \in {0} \cup {e.seq + 1 : e \in Stream(draft.at)} :
        /\ \A e \in Stream(draft.at) : e.seq < next
        /\ call' = [call EXCEPT ![t].draft.seq = next]
  BY DEF ReadSeq
<1>3. next \in Nat
  BY <1>1 DEF Stream, Event
<1> DEFINE d == [draft EXCEPT !.seq = next]
<1>4. d \in Event /\ Alike(d, draft) /\ d.id = draft.id /\ d.ts = draft.ts /\ d.seq = next
  BY <1>1, <1>3 DEF Event, Alike
<1>5. call' = [call EXCEPT ![t] = [call[t] EXCEPT !.draft = d]]
  BY <1>2
<1>6. \A f \in log : f.at = d.at => f.seq < d.seq
  BY <1>2, <1>4 DEF Stream, Alike
<1> HIDE DEF d
<1>7. /\ call'[t].draft = d /\ call'[t].due = call[t].due /\ call'[t].op = call[t].op
      /\ call'[t] \in [op : OpNames, draft : Event, due : SUBSET Event, todo : SUBSET Nat]
      /\ pc'[t] = "append" /\ \A u \in Threads \ {t} : pc'[u] = pc[u] /\ call'[u] = call[u]
  BY <1>1, <1>4, <1>5 DEF Inv, TypeOK
<1>8. TypeOK'
  BY <1>1, <1>5, <1>7 DEF Inv, TypeOK
<1> QED BY <1>1, <1>4, <1>6, <1>7, <1>8 DEF Numbers, Redrafts

LEMMA RedraftInv ==
  ASSUME Inv, NEW t \in Threads, NEW d, Redrafts(t, d),
         made' \in Nat, made <= made', clock' \in Nat, clock <= clock', Founded(t)'
  PROVE  Inv'
<1> USE DEF Redrafts, Alike
<1>1. \A g : ContradictionChallenge(g)' = ContradictionChallenge(g)
  BY DEF ContradictionChallenge, NewEvent
<1>2. Owed(t)'
  <2>1. Owed(t)
    BY DEF Inv, Causes
  <2> QED BY <1>1, <2>1 DEF Owed, OwesChallenge, OwesLinks
<1>3. log \subseteq Event /\ log \subseteq log' /\ log' \subseteq Event
  BY DEF Inv, TypeOK
<1>4. \A u \in Threads \ {t} : Founded(u)' /\ Owed(u)'
  BY <1>3, OthersStay
<1>5. CausesComeFirst' /\ Past'
  <2>1. made \in Nat /\ clock \in Nat /\ \A e \in log : e.id \in Nat /\ e.ts \in Nat
    BY <1>3 DEF Inv, TypeOK, Event
  <2>2. CausesComeFirst /\ Past
    BY DEF Inv, Causes
  <2>3. \A e \in log : e.id <= made' /\ e.ts <= clock'
    BY <2>1, <2>2 DEF Past
  <2> QED BY <2>2, <2>3 DEF CausesComeFirst, Past
<1> QED BY <1>2, <1>4, <1>5 DEF Inv, Causes

LEMMA StampInv ==
  ASSUME Inv, NEW t \in Threads, Stamp(t)
  PROVE  Inv'
<1>1. PICK d : Stamps(t, d)
  BY StampFacts
<1> DEFINE draft == call[t].draft
<1>2. MayFollow(log, draft) /\ WellFormed(draft)
  BY <1>1 DEF Inv, Causes, Founded, Stamps
<1>3. Alike(d, draft) /\ Redrafts(t, d)
  BY <1>1 DEF Stamps, Redrafts
<1>4. /\ made' \in Nat /\ made <= made' /\ clock' \in Nat /\ clock <= clock'
      /\ d.id <= made' /\ d.ts <= clock'
  BY <1>1 DEF Stamps
<1>5. \A f \in log : f.ts <= d.ts
  <2>1. \A f \in log : f.ts \in Nat /\ f.ts <= clock
    BY DEF Inv, TypeOK, Event, Causes, Past
  <2> QED BY <1>1, <2>1 DEF Stamps
<1>6. MayFollow({f \in log : f.ts <= d.ts}, d)
  <2>1. log \subseteq {f \in log : f.ts <= d.ts}
    BY <1>5
  <2> HIDE DEF draft
  <2> QED BY <1>2, <1>3, <2>1, MayFollowGrows DEF Alike
<1>7. WellFormed(d)
  BY <1>2, <1>3 DEF WellFormed, Alike
<1>8. pc'[t] = "number" /\ call'[t].draft = d /\ log' = log
  BY <1>1 DEF Stamps, Redrafts
<1>9. Founded(t)'
  BY <1>4, <1>6, <1>7, <1>8 DEF Founded
<1> QED BY <1>3, <1>4, <1>9, RedraftInv

LEMMA ReadSeqInv ==
  ASSUME Inv, NEW t \in Threads, ReadSeq(t)
  PROVE  Inv'
<1>1. PICK d : Numbers(t, d)
  BY ReadSeqFacts
<1> DEFINE draft == call[t].draft
<1>2. /\ MayFollow({f \in log : f.ts <= draft.ts}, draft) /\ WellFormed(draft)
      /\ draft.id <= made /\ draft.ts <= clock
  BY <1>1 DEF Inv, Causes, Founded, Numbers
<1>3. /\ Alike(d, draft) /\ Redrafts(t, d) /\ d \in Event /\ draft \in Event
      /\ d.id = draft.id /\ d.ts = draft.ts /\ \A f \in log : f.at = d.at => f.seq < d.seq
      /\ pc'[t] = "append" /\ call'[t].draft = d /\ log' = log /\ made' = made /\ clock' = clock
  BY <1>1 DEF Numbers, Redrafts
<1>4. made' \in Nat /\ made <= made' /\ clock' \in Nat /\ clock <= clock' /\ log \in SUBSET Event
  BY <1>3 DEF Inv, TypeOK
<1> HIDE DEF draft
<1>5. Caused(log, d)
  BY <1>2, <1>3, <1>4, Numbered DEF Alike
<1>6. WellFormed(d)
  BY <1>2, <1>3 DEF WellFormed, Alike
<1>7. Founded(t)'
  BY <1>2, <1>3, <1>5, <1>6 DEF Founded
<1> QED BY <1>3, <1>4, <1>7, RedraftInv

LEMMA AppendEventInv ==
  ASSUME Inv, NEW t \in Threads, AppendEvent(t)
  PROVE  Inv'
<1> DEFINE c == call[t]
           draft == c.draft
<1>1. /\ made \in Nat /\ made' = made /\ clock \in Nat /\ clock' = clock /\ log' = log \cup {draft} /\ log \subseteq Event
      /\ c \in [op : OpNames, draft : Event, due : SUBSET Event, todo : SUBSET Nat]
      /\ draft \in Event /\ pc[t] = "append" /\ pc' = [pc EXCEPT ![t] = AfterAppend(c)]
      /\ UNCHANGED <<artifacts, claims, materials>>
  BY DEF AppendEvent, stamps, Inv, TypeOK
<1>2. log' \subseteq Event /\ log \subseteq log'
  BY <1>1
<1>3. Caused(log, draft) /\ draft.id <= made /\ draft.ts <= clock /\ WellFormed(draft)
  BY <1>1 DEF Inv, Causes, Founded
<1>4. CausesComeFirst'
  BY <1>1, <1>2, <1>3, CausedStays DEF Inv, Causes, CausesComeFirst
<1>5. Past'
  <2>1. IsFiniteSet(log')
    BY <1>1, FS_AddElement DEF Inv, Causes, Past
  <2> QED BY <1>1, <1>3, <2>1 DEF Inv, Causes, Past
<1>6. confirmed' \subseteq Nat
  BY <1>1 DEF AppendEvent, Inv, TypeOK, Event
<1>7. AfterAppend(c) \in {"idle", "next", "stamp"}
  BY DEF AfterAppend
<1>8. /\ \E r \in [op : OpNames, draft : Event, due : SUBSET Event, todo : SUBSET Nat] :
            call' = [call EXCEPT ![t] = r]
      /\ Founded(t)' /\ Owed(t)'
  <2>1. CASE c.due # {} /\ OwesChallenge(t)
    <3>1. PICK g \in log : /\ g.type = "ground" /\ c.due = {ContradictionChallenge(g)}
                           /\ draft.type = "confirm" /\ draft.about = g.id /\ draft.at = g.at
      BY <2>1 DEF OwesChallenge
    <3> DEFINE d == ContradictionChallenge(g)
    <3>2. /\ d \in Event /\ d.type = "challenge" /\ d.about = g.id /\ d.at = g.at
          /\ d.what = "evidence_contradiction" /\ WellFormed(d)
      <4>1. g.at \in Claims /\ g.id \in Nat /\ g.cites \in SUBSET (Claims \cup Materials)
        BY <1>1 DEF Event
      <4> QED BY <4>1, NewEventFacts, Names DEF ContradictionChallenge
    <3> HIDE DEF d
    <3>3. call' = [call EXCEPT ![t] = [c EXCEPT !.draft = d, !.due = {}]]
      BY <2>1, <3>1 DEF AppendEvent, d
    <3>4. pc'[t] = "stamp"
      BY <1>1, <2>1 DEF AfterAppend, Inv, TypeOK
    <3> DEFINE r == [c EXCEPT !.draft = d, !.due = {}]
    <3>5. /\ r \in [op : OpNames, draft : Event, due : SUBSET Event, todo : SUBSET Nat]
          /\ r.draft = d /\ r.due = {}
      BY <1>1, <3>2
    <3> HIDE DEF r
    <3>6. call'[t] = r
      BY <3>3 DEF Inv, TypeOK, r
    <3>7. MayFollow(log', d)
      <4>1. g \in log' /\ draft \in log' /\ draft.at = g.at /\ d.type \notin MetaTypes
        BY <1>1, <3>1, <3>2 DEF MetaTypes
      <4> QED BY <3>1, <3>2, <4>1 DEF MayFollow, HasCause, Ids, OfType
    <3>10. Founded(t)' /\ Owed(t)'
      BY <1>1, <3>2, <3>4, <3>5, <3>6, <3>7 DEF Founded, Owed
    <3> QED BY <3>3, <3>5, <3>10 DEF r
  <2>4. CASE c.due # {} /\ OwesLinks(t)
    <3>1. PICK d \in c.due : call' = [call EXCEPT ![t] = [c EXCEPT !.draft = d, !.due = c.due \ {d}]]
      BY <2>4 DEF AppendEvent
    <3>2. d \in Event /\ IsLink(d) /\ WellFormed(d)
      BY <1>1, <2>4 DEF OwesLinks, IsLink, WellFormed, BornConfirmed
    <3> DEFINE r == [c EXCEPT !.draft = d, !.due = c.due \ {d}]
    <3>3. /\ r \in [op : OpNames, draft : Event, due : SUBSET Event, todo : SUBSET Nat]
          /\ r.draft = d /\ r.due = c.due \ {d} /\ r.op = c.op
      BY <1>1, <3>2
    <3>4. pc'[t] = "stamp"
      BY <1>1, <2>4 DEF AfterAppend, Inv, TypeOK
    <3> HIDE DEF r
    <3>5. call'[t] = r
      BY <3>1 DEF Inv, TypeOK, r
    <3>6. MayFollow(log', d)
      BY <3>2, Uncaused DEF IsLink, EdgeTypes
    <3>7. Founded(t)'
      BY <1>1, <3>2, <3>3, <3>4, <3>5, <3>6 DEF Founded
    <3>8. Owed(t)'
      BY <2>4, <3>3, <3>4, <3>5 DEF Owed, OwesLinks
    <3> QED BY <3>1, <3>3, <3>7, <3>8 DEF r
  <2>2. CASE c.due = {} /\ c.todo # {}
    <3>1. call' = call /\ pc'[t] = "next"
      BY <1>1, <2>2 DEF AppendEvent, AfterAppend, Inv, TypeOK
    <3>2. call' = [call EXCEPT ![t] = c]
      BY <3>1 DEF Inv, TypeOK
    <3>3. Founded(t)' /\ Owed(t)'
      BY <1>3, <2>2, <3>1 DEF Founded, Owed
    <3> QED BY <1>1, <3>2, <3>3
  <2>3. CASE c.due = {} /\ c.todo = {}
    <3>1. call' = [call EXCEPT ![t] = Nothing] /\ pc'[t] = "idle"
      BY <1>1, <2>3 DEF AppendEvent, AfterAppend, Inv, TypeOK
    <3>2. call'[t] = Nothing
      BY <3>1 DEF Inv, TypeOK
    <3>3. Founded(t)' /\ Owed(t)'
      BY <3>1, <3>2, NothingFacts DEF Founded, Owed, BornConfirmed
    <3> QED BY <3>1, <3>3, NothingFacts
  <2>5. c.due # {} => OwesChallenge(t) \/ OwesLinks(t)
    BY DEF Inv, Causes, Owed
  <2> QED BY <2>1, <2>2, <2>3, <2>4, <2>5
<1>9. TypeOK'
  BY <1>1, <1>2, <1>6, <1>7, <1>8 DEF Inv, TypeOK
<1>10. \A u \in Threads \ {t} : pc'[u] = pc[u] /\ call'[u] = call[u]
  BY <1>1, <1>8 DEF Inv, TypeOK
<1>11. \A u \in Threads \ {t} : Founded(u)' /\ Owed(u)'
  BY <1>1, <1>2, <1>10, OthersStay
<1> QED BY <1>4, <1>5, <1>8, <1>9, <1>11 DEF Inv, Causes

LEMMA LoseInv ==
  ASSUME Inv, NEW t \in Threads, Lose(t)
  PROVE  Inv'
<1>1. Alone(t) /\ pc'[t] = "idle" /\ call'[t] = Nothing
  BY NothingFacts DEF Lose, Alone, Inv, TypeOK, tables, stamps
<1> QED BY <1>1, Unmade, NothingFacts DEF BornConfirmed, WellFormed
-----------------------------------------------------------------------------
\* What the Lens shows the model was read from the library.
LEMMA Readings ==
  ASSUME Inv, NEW c \in Claims
  PROVE  /\ KillPrecedents(c) \subseteq Claims /\ Shortlist(c) \subseteq Claims
         /\ GroundedMaterials(Stream(c)) \subseteq Materials
         /\ LinkCandidates \subseteq Claims \X Claims
<1>1. claims \subseteq Claims
  BY DEF Inv, TypeOK
<1>2. KillPrecedents(c) \subseteq Claims /\ Shortlist(c) \subseteq Claims
  BY <1>1 DEF KillPrecedents, Shortlist, Prefilter, GrilledClaims
<1>3. LinkCandidates \subseteq Claims \X Claims
  BY <1>1 DEF LinkCandidates, GrilledClaims
<1>4. \A e \in BearingEvidence(Stream(c)) : e \in log /\ e.type = "ground"
  BY DEF BearingEvidence, ConfirmedGroundEvidence, OfType, Signed, Stream
<1>5. \A e \in BearingEvidence(Stream(c)) : e.cites \subseteq Materials
  BY <1>4 DEF Inv, Causes, Past, WellFormed
<1>6. GroundedMaterials(Stream(c)) \subseteq Materials
  BY <1>5 DEF GroundedMaterials
<1> QED BY <1>2, <1>3, <1>6

LEMMA LensNames ==
  /\ "link" \in EventTypes /\ "taste" \in Judgements /\ EdgeTypes \subseteq Judgements
  /\ "contradicts_survived" \in Judgements /\ "contradicts_killed" \in Judgements
  /\ EdgeTypes \cap {"question", "evidence_contradiction"} = {}
BY DEF EventTypes, GrillTypes, MetaTypes, Judgements, Challenges, EdgeTypes

LEMMA AutoChallengeInv ==
  ASSUME Inv, NEW t \in Threads, NEW c \in Claims, NEW refs \in SUBSET KillPrecedents(c),
         AutoChallenge(t, c, refs)
  PROVE  Inv'
<1> DEFINE S == {e \in log : e.at = c}
           cites == refs \cup GroundedMaterials(Stream(c))
           draft == NewEvent("challenge", c, "question", 0, cites)
<1>1. cites \in SUBSET (Claims \cup Materials)
  BY Readings
<1> HIDE DEF cites
<1>2. /\ draft \in Event /\ WellFormed(draft) /\ draft.type = "challenge" /\ draft.about = 0
      /\ draft.what = "question" /\ draft.at = c
  BY <1>1, NewEventFacts, Names
<1>3. /\ UNCHANGED <<tables, stamps, confirmed>> /\ pc' = [pc EXCEPT ![t] = "stamp"]
      /\ call' = [call EXCEPT ![t] = [op |-> "auto_challenge", draft |-> draft, due |-> {}, todo |-> {}]]
  BY DEF AutoChallenge, Begin, Proceed, cites
<1> HIDE DEF draft
<1>4. Alone(t) /\ pc'[t] = "stamp" /\ call'[t].draft = draft /\ call'[t].due = {}
  BY <1>2, <1>3 DEF Alone, Inv, TypeOK, OpNames, tables, stamps
<1>5. OfType(S, "park") # {}
  BY DEF AutoChallenge, WasParked, Stream
<1>6. MayFollow(log, draft)
  BY <1>2, <1>5 DEF MayFollow, HasCause, MetaTypes
<1> QED BY <1>2, <1>4, <1>6, Begun

LEMMA AssessTasteInv ==
  ASSUME Inv, NEW t \in Threads, NEW c \in Claims, NEW anchors \in SUBSET Shortlist(c),
         AssessTaste(t, c, anchors)
  PROVE  Inv'
<1> DEFINE draft == NewEvent("challenge", c, "taste", 0, anchors)
<1>1. anchors \in SUBSET (Claims \cup Materials)
  BY Readings
<1>2. /\ draft \in Event /\ WellFormed(draft) /\ draft.type = "challenge" /\ draft.about = 0
      /\ draft.what = "taste"
  BY <1>1, NewEventFacts, Names, LensNames
<1>3. /\ UNCHANGED <<tables, stamps, confirmed>> /\ pc' = [pc EXCEPT ![t] = "stamp"]
      /\ call' = [call EXCEPT ![t] = [op |-> "taste", draft |-> draft, due |-> {}, todo |-> {}]]
  BY DEF AssessTaste, Begin, Proceed
<1> HIDE DEF draft
<1>4. Alone(t) /\ pc'[t] = "stamp" /\ call'[t].draft = draft /\ call'[t].due = {}
  BY <1>2, <1>3 DEF Alone, Inv, TypeOK, OpNames, tables, stamps
<1>5. MayFollow(log, draft)
  BY <1>2, Uncaused
<1> QED BY <1>2, <1>4, <1>5, Proceeded

LEMMA ScanContradictionsInv ==
  ASSUME Inv, NEW t \in Threads, NEW c \in Claims, ScanContradictions(t, c)
  PROVE  Inv'
<1> DEFINE draft == NewEvent("challenge", c, "contradicts_survived", 0, {})
<1>1. draft \in Event /\ WellFormed(draft)
  BY NewEventFacts, Names, LensNames
<1>2. /\ UNCHANGED <<tables, stamps, confirmed>> /\ pc' = [pc EXCEPT ![t] = "next"]
      /\ call' = [call EXCEPT ![t] = [op |-> "scan", draft |-> draft, due |-> {}, todo |-> Shortlist(c)]]
  BY DEF ScanContradictions
<1>3. Shortlist(c) \in SUBSET Nat
  BY Readings, IdsAssumption
<1> HIDE DEF draft
<1>4. Alone(t) /\ pc'[t] = "next" /\ call'[t].draft = draft /\ call'[t].due = {}
  BY <1>1, <1>2, <1>3 DEF Alone, Inv, TypeOK, OpNames, tables, stamps
<1> QED BY <1>1, <1>4, Unmade

LEMMA ScanNextInv ==
  ASSUME Inv, NEW t \in Threads, NEW past \in Claims, ScanNext(t, past)
  PROVE  Inv'
<1> DEFINE c == call[t].draft.at
           left == call[t].todo \ {past}
           draft == NewEvent("challenge", c, OutcomeOf(past), 0, {past})
<1>1. c \in Claims /\ left \in SUBSET Nat
  BY DEF Inv, TypeOK, Event
<1>2. OutcomeOf(past) \in {"contradicts_survived", "contradicts_killed"}
  BY DEF OutcomeOf
<1>3. CASE Proceed(t, "scan", draft, {}, left)
  <2>1. /\ draft \in Event /\ WellFormed(draft) /\ draft.type = "challenge" /\ draft.about = 0
        /\ draft.what = OutcomeOf(past)
    BY <1>1, <1>2, NewEventFacts, Names, LensNames
  <2>2. /\ UNCHANGED <<tables, stamps, confirmed>> /\ pc' = [pc EXCEPT ![t] = "stamp"]
        /\ call' = [call EXCEPT ![t] = [op |-> "scan", draft |-> draft, due |-> {}, todo |-> left]]
    BY <1>3 DEF ScanNext, Proceed
  <2> HIDE DEF draft, left
  <2>3. Alone(t) /\ pc'[t] = "stamp" /\ call'[t].draft = draft /\ call'[t].due = {}
    BY <1>1, <2>1, <2>2 DEF Alone, Inv, TypeOK, OpNames, tables, stamps
  <2>4. MayFollow(log, draft)
    BY <1>2, <2>1, Uncaused
  <2> QED BY <2>1, <2>3, <2>4, Proceeded
<1>4. CASE ~Proceed(t, "scan", draft, {}, left)
  <2>1. /\ UNCHANGED <<tables, stamps, confirmed>>
        /\ pc' = [pc EXCEPT ![t] = IF left = {} THEN "idle" ELSE "next"]
        /\ call' = [call EXCEPT ![t] = IF left = {} THEN Nothing ELSE [call[t] EXCEPT !.todo = left]]
        /\ pc[t] = "next"
    BY <1>4 DEF ScanNext
  <2> HIDE DEF draft, left
  <2> DEFINE kept == IF left = {} THEN Nothing ELSE [call[t] EXCEPT !.todo = left]
  <2>2. call[t].due = {} /\ WellFormed(call[t].draft)
    BY <2>1 DEF Inv, Causes, Owed, Founded
  <2>3. /\ kept \in [op : OpNames, draft : Event, due : SUBSET Event, todo : SUBSET Nat]
        /\ kept.due = {} /\ WellFormed(kept.draft)
    BY <1>1, <2>2, NothingFacts DEF Inv, TypeOK
  <2> HIDE DEF kept
  <2>4. call' = [call EXCEPT ![t] = kept]
    BY <2>1 DEF kept
  <2>5. Alone(t) /\ pc'[t] \in {"idle", "next"} /\ call'[t] = kept
    BY <2>1, <2>3, <2>4 DEF Alone, Inv, TypeOK, tables, stamps
  <2> QED BY <2>3, <2>5, Unmade
<1> QED BY <1>3, <1>4

\* The links that are proposed at once, and the one that is made first.
Links(t, pairs, links, l) ==
  /\ \A e \in links : /\ e \in Event /\ WellFormed(e) /\ IsLink(e)
                       /\ \E p \in pairs : e.cites = {p[2]}
  /\ UNCHANGED <<tables, stamps, confirmed>> /\ pc' = [pc EXCEPT ![t] = "stamp"]
  /\ call' = [call EXCEPT ![t] = [op |-> "link", draft |-> l, due |-> links \ {l}, todo |-> {}]]

LEMMA LinkFacts ==
  ASSUME Inv, NEW t \in Threads, NEW pairs \in SUBSET LinkCandidates,
         NEW edge \in [pairs -> EdgeTypes \cap Judged], LinkClaims(t, pairs, edge)
  PROVE  \E links : \E l \in links : Links(t, pairs, links, l)
<1> DEFINE links == {NewEvent("link", p[1], edge[p], 0, {p[2]}) : p \in pairs}
<1>1. \A p \in pairs : p[1] \in Claims /\ p[2] \in Claims /\ edge[p] \in EdgeTypes
  BY Readings, IdsAssumption
<1>2. ASSUME NEW p \in pairs
      PROVE  LET e == NewEvent("link", p[1], edge[p], 0, {p[2]})
             IN e \in Event /\ WellFormed(e) /\ IsLink(e) /\ e.cites = {p[2]}
  BY <1>1, NewEventFacts, LensNames DEF IsLink
<1>3. \A e \in links : /\ e \in Event /\ WellFormed(e) /\ IsLink(e)
                       /\ \E p \in pairs : e.cites = {p[2]}
  BY <1>2
<1>4. PICK l \in links : Proceed(t, "link", l, links \ {l}, {})
  BY DEF LinkClaims
<1>5. UNCHANGED <<tables, stamps, confirmed>>
  BY DEF LinkClaims
<1> HIDE DEF links
<1> QED BY <1>3, <1>4, <1>5 DEF Proceed, Links

LEMMA LinkClaimsInv ==
  ASSUME Inv, NEW t \in Threads, NEW pairs \in SUBSET LinkCandidates,
         NEW edge \in [pairs -> EdgeTypes \cap Judged], LinkClaims(t, pairs, edge)
  PROVE  Inv'
<1>1. PICK links : \E l \in links : Links(t, pairs, links, l)
  BY LinkFacts
<1>2. PICK l \in links : Links(t, pairs, links, l)
  BY <1>1
<1> USE DEF Links
<1>3. /\ Alone(t) /\ pc'[t] = "stamp" /\ call'[t].draft = l /\ call'[t].due = links \ {l}
      /\ call'[t].op = "link"
  BY <1>2 DEF Alone, Inv, TypeOK, OpNames, tables, stamps
<1>4. MayFollow(log, l)
  BY <1>2, Uncaused, LensNames DEF IsLink
<1> QED BY <1>2, <1>3, <1>4, Proceeded

LEMMA LensStepInv ==
  ASSUME Inv, NEW t \in Threads, LensStep(t)
  PROVE  Inv'
BY AutoChallengeInv, AssessTasteInv, ScanContradictionsInv, ScanNextInv, LinkClaimsInv
   DEF LensStep, LensCall
-----------------------------------------------------------------------------
\* What the services do without the Lens they may do with it.
LEMMA LensIncludesServices == Spec => LensSpec
<1>1. [Next]_vars => [LensNext]_vars
  BY DEF Next, LensNext
<1> QED BY <1>1, PTL DEF Spec, LensSpec

LEMMA StepInv == Inv /\ [LensNext]_vars => Inv'
<1> SUFFICES ASSUME Inv, [LensNext]_vars PROVE Inv'
  OBVIOUS
<1>1. ASSUME NEW t \in Threads, Step(t) PROVE Inv'
  <2>1. ASSUME NEW c \in Claims, ParkArtifact(t, c) \/ Grill(t, c) \/ Gate(t, c) \/ Evidence(t, c)
        PROVE Inv'
    BY <2>1, ParkArtifactInv, GrillInv, GateInv, EvidenceInv
  <2>2. CASE ParkClaim(t)
    BY <2>2, ParkClaimInv
  <2>3. ASSUME NEW m \in Materials, CollectNext(t, m) PROVE Inv'
    BY <2>3, CollectNextInv
  <2>4. ASSUME NEW g \in log, BatchConfirmNext(t, g) PROVE Inv'
    BY <2>4, BatchConfirmNextInv
  <2>5. CASE Stamp(t) \/ ReadSeq(t)
    BY <2>5, StampInv, ReadSeqInv
  <2>6. CASE AppendEvent(t)
    BY <2>6, AppendEventInv
  <2>7. CASE Lose(t)
    BY <2>7, LoseInv
  <2> QED BY <1>1, <2>1, <2>2, <2>3, <2>4, <2>5, <2>6, <2>7 DEF Step, Service
<1>2. CASE UNCHANGED vars
  BY <1>2 DEF vars, Inv, TypeOK, Causes, CausesComeFirst, Past, Founded, Owed,
              OwesChallenge, OwesLinks, ContradictionChallenge, NewEvent
<1> QED BY <1>1, <1>2, LensStepInv DEF LensNext

\* Whoever reads a trajectory in its order finds the cause of every event before
\* it, for any number of services at work on it and lost at any step, the Lens among
\* them
THEOREM LensCausesComeFirst == LensSpec => []CausesComeFirst
<1>1. Inv => CausesComeFirst
  BY DEF Inv, Causes
<1> QED BY <1>1, InitInv, StepInv, PTL DEF LensSpec

\* or not.
THEOREM CausesComeFirstHolds == Spec => []CausesComeFirst
BY LensIncludesServices, LensCausesComeFirst, PTL

\* Every row, and all that a thread keeps in between, is of its type.
THEOREM TypesHold == LensSpec => []TypeOK
<1>1. Inv => TypeOK
  BY DEF Inv
<1> QED BY <1>1, InitInv, StepInv, PTL DEF LensSpec
-----------------------------------------------------------------------------
\* No two events, appended or about to be, have one id.
Unique ==
  /\ \A e, f \in log : e.id = f.id => e = f
  /\ \A t \in Threads : pc[t] \in {"number", "append"} =>
       /\ \A e \in log : e.id # call[t].draft.id
       /\ \A u \in Threads \ {t} : pc[u] \in {"number", "append"} => call[u].draft.id # call[t].draft.id

Contradicts(g) == g.type = "ground" /\ GroundStance(g) = "contradicts"

Telling(t) == call[t].op \in {"confirm", "batch_confirm"} /\ pc[t] \in {"claim", "stamp", "number", "append"}

\* A thread that tells of a confirmation has surfaced the contradiction, or is about to.
Told(t) ==
  Telling(t) =>
    \E g \in log :
      /\ g.id = call[t].draft.about /\ g.at = call[t].draft.at
      /\ Contradicts(g) /\ call[t].due = {} =>
           \/ Surfaced(Stream(g.at), g)
           \/ call[t].draft.type = "challenge" /\ call[t].draft.what = "evidence_contradiction"

Reported ==
  /\ Unique /\ confirmed \subseteq Ids(log) /\ ReportedContradictionIsChallenged
  /\ \A t \in Threads : Told(t)

\* A challenge on the stream stays on it.
LEMMA SurfacedGrows ==
  ASSUME NEW E, NEW F, E \subseteq F, NEW g, Surfaced(E, g)
  PROVE  Surfaced(F, g)
BY DEF Surfaced, OfType

LEMMA InitReported == Init => Reported
<1> SUFFICES ASSUME Init PROVE Reported
  OBVIOUS
<1>1. OldLog \subseteq Event /\ IsFiniteSet(OldLog) /\ Ids(OldLog) = 1..Cardinality(OldLog)
  BY OldLogAssumption
<1> DEFINE n == Cardinality(OldLog)
           id == [e \in OldLog |-> e.id]
<1>2. n \in Nat /\ Cardinality(1..n) = n
  BY <1>1, FS_CardinalityType, FS_Interval
<1>3. id \in Surjection(OldLog, 1..n)
  BY <1>1 DEF Surjection, Ids
<1>4. id \in Injection(OldLog, 1..n)
  <2> HIDE DEF id, n
  <2>1. n = Cardinality(OldLog)
    BY DEF n
  <2> QED BY <1>1, <1>2, <1>3, <2>1, FS_SurjSameCardinalityImpliesInj
<1>5. \A e, f \in OldLog : e.id = f.id => e = f
  <2>1. \A e, f \in OldLog : id[e] = id[f] => e = f
    <3> HIDE DEF id
    <3> QED BY <1>4 DEF Injection, IsInjective
  <2>2. \A e \in OldLog : id[e] = e.id
    OBVIOUS
  <2> HIDE DEF id
  <2> QED BY <2>1, <2>2
<1>6. Unique
  BY <1>5 DEF Init, Unique
<1>7. confirmed = {} /\ \A t \in Threads : ~Telling(t)
  BY DEF Init, Telling
<1> QED BY <1>6, <1>7 DEF Reported, ReportedContradictionIsChallenged, Told

\* What a thread does while it appends nothing and stamps nothing.
Silent(t) ==
  /\ UNCHANGED <<log, made, clock, confirmed>> /\ pc'[t] \notin {"number", "append"}
  /\ \A u \in Threads \ {t} : pc'[u] = pc[u] /\ call'[u] = call[u]

LEMMA Hushed ==
  ASSUME Reported, NEW t \in Threads, Silent(t), Told(t)'
  PROVE  Reported'
<1>1. Unique' /\ (confirmed \subseteq Ids(log))'
  BY DEF Reported, Silent, Unique, Ids
<1>2. ReportedContradictionIsChallenged'
  BY DEF Reported, Silent, ReportedContradictionIsChallenged, Stream
<1>3. \A u \in Threads \ {t} : Told(u)'
  BY DEF Reported, Silent, Told, Telling, Stream
<1> QED BY <1>1, <1>2, <1>3 DEF Reported

LEMMA Mute ==
  ASSUME Reported, NEW t \in Threads, Silent(t), ~(Telling(t)')
  PROVE  Reported'
BY Hushed DEF Told

\* All that a thread does that is not to confirm, to stamp or to append.
LEMMA NotTelling ==
  ASSUME Inv, NEW t \in Threads, NEW c \in Claims,
         \/ ParkArtifact(t, c) \/ Grill(t, c) \/ Evidence(t, c) \/ Promote(t, c) \/ Lose(t)
         \/ \E g : Retract(t, g)
         \/ \E ids : BatchConfirm(t, c, ids)
         \/ \E m : CollectNext(t, m)
  PROVE  Silent(t) /\ ~(Telling(t)')
<1> USE DEF Inv, TypeOK, tables, stamps, Silent, Telling
<1>1. CASE ParkArtifact(t, c)
  BY <1>1 DEF ParkArtifact
<1>2. CASE Grill(t, c)
  <2>1. CASE Challenge(t, c)
    BY <2>1 DEF Challenge, Begin, Proceed
  <2>2. ASSUME NEW k, Answer(t, c, k) PROVE Silent(t) /\ ~(Telling(t)')
    BY <2>2 DEF Answer, Begin, Proceed
  <2>3. ASSUME NEW k, NEW outcome, AutoVerdict(t, c, outcome, k) PROVE Silent(t) /\ ~(Telling(t)')
    BY <2>3 DEF AutoVerdict, Begin, Proceed
  <2>4. ASSUME NEW k, NEW outcome, NEW d, Verdict(t, c, outcome, d, k) PROVE Silent(t) /\ ~(Telling(t)')
    BY <2>4 DEF Verdict, Begin, Proceed
  <2>5. CASE Bypass(t, c)
    BY <2>5 DEF Bypass, Begin, Proceed
  <2> HIDE DEF Inv, TypeOK, tables, stamps, Silent, Telling
  <2> QED BY <1>2, <2>1, <2>2, <2>3, <2>4, <2>5 DEF Grill
<1>3. CASE Evidence(t, c)
  <2>1. ASSUME NEW papers, Collect(t, c, papers) PROVE Silent(t) /\ ~(Telling(t)')
    BY <2>1 DEF Collect
  <2>2. ASSUME NEW m, NEW verdict, Ground(t, c, m, verdict) PROVE Silent(t) /\ ~(Telling(t)')
    BY <2>2 DEF Ground, Begin, Proceed
  <2> HIDE DEF Inv, TypeOK, tables, stamps, Silent, Telling
  <2> QED BY <1>3, <2>1, <2>2 DEF Evidence
<1>4. CASE Promote(t, c)
  BY <1>4 DEF Promote, Begin, Proceed
<1>5. CASE Lose(t)
  BY <1>5 DEF Lose
<1>6. ASSUME NEW g, Retract(t, g) PROVE Silent(t) /\ ~(Telling(t)')
  BY <1>6 DEF Retract, Begin, Proceed
<1>7. ASSUME NEW ids, BatchConfirm(t, c, ids) PROVE Silent(t) /\ ~(Telling(t)')
  BY <1>7 DEF BatchConfirm
<1>8. ASSUME NEW m, CollectNext(t, m) PROVE Silent(t) /\ ~(Telling(t)')
  BY <1>8 DEF CollectNext, Proceed
<1> HIDE DEF Inv, TypeOK, tables, stamps, Silent, Telling
<1> QED BY <1>1, <1>2, <1>3, <1>4, <1>5, <1>6, <1>7, <1>8

LEMMA LensNotTelling ==
  ASSUME Inv, NEW t \in Threads, LensStep(t)
  PROVE  Silent(t) /\ ~(Telling(t)')
<1>1. ASSUME NEW c, NEW refs, AutoChallenge(t, c, refs) PROVE Silent(t) /\ ~(Telling(t)')
  BY <1>1 DEF AutoChallenge, Begin, Proceed, Inv, TypeOK, tables, stamps, Silent, Telling
<1>2. ASSUME NEW c, NEW anchors, AssessTaste(t, c, anchors) PROVE Silent(t) /\ ~(Telling(t)')
  BY <1>2 DEF AssessTaste, Begin, Proceed, Inv, TypeOK, tables, stamps, Silent, Telling
<1>3. ASSUME NEW c, ScanContradictions(t, c) PROVE Silent(t) /\ ~(Telling(t)')
  BY <1>3 DEF ScanContradictions, Inv, TypeOK, tables, stamps, Silent, Telling
<1>4. ASSUME NEW pairs, NEW edge, LinkClaims(t, pairs, edge) PROVE Silent(t) /\ ~(Telling(t)')
  BY <1>4 DEF LinkClaims, Proceed, Inv, TypeOK, tables, stamps, Silent, Telling
<1>5. ASSUME NEW past, ScanNext(t, past) PROVE Silent(t) /\ ~(Telling(t)')
  BY <1>5 DEF ScanNext, Proceed, Inv, TypeOK, tables, stamps, Silent, Telling
<1> QED BY <1>1, <1>2, <1>3, <1>4, <1>5 DEF LensStep, LensCall

LEMMA ParkClaimReported ==
  ASSUME Inv, Reported, NEW t \in Threads, ParkClaim(t)
  PROVE  Reported'
<1>1. Silent(t) /\ call' = call /\ log' = log /\ (Telling(t)' => Telling(t))
  BY DEF ParkClaim, stamps, Inv, TypeOK, Silent, Telling
<1>2. Told(t)'
  BY <1>1 DEF Reported, Told, Stream
<1> QED BY <1>1, <1>2, Hushed

LEMMA ConfirmingSilent ==
  ASSUME Inv, NEW t \in Threads, NEW g \in log, Confirm(t, g) \/ BatchConfirmNext(t, g)
  PROVE  Silent(t)
BY DEF Confirm, BatchConfirmNext, Proceed, tables, stamps, Inv, TypeOK, Silent

\* Nothing is due of a contradiction only if its challenge is there.
LEMMA ConfirmingReported ==
  ASSUME Inv, Reported, NEW t \in Threads, NEW g \in log, Confirm(t, g) \/ BatchConfirmNext(t, g)
  PROVE  Reported'
<1> DEFINE draft == NewEvent("confirm", g.at, "none", g.id, {})
           due == SurfacedBy(Stream(g.at), g)
<1>1. draft.about = g.id /\ draft.at = g.at
  BY ConfirmFacts
<1>2. PICK op, todo :
        /\ call' = [call EXCEPT ![t] = [op |-> op, draft |-> draft, due |-> due, todo |-> todo]]
        /\ pc' = [pc EXCEPT ![t] = "stamp"] /\ UNCHANGED <<log, stamps, confirmed>>
  BY DEF Confirm, BatchConfirmNext, Proceed, tables, stamps
<1>3. Contradicts(g) /\ due = {} => Surfaced(Stream(g.at), g)
  BY DEF Contradicts, SurfacedBy, Surfaces
<1> HIDE DEF draft, due
<1>4. Silent(t) /\ call'[t].draft = draft /\ call'[t].due = due /\ log' = log
  BY <1>2 DEF Inv, TypeOK, Silent, stamps
<1>5. Told(t)'
  BY <1>1, <1>3, <1>4 DEF Told, Stream
<1> QED BY <1>4, <1>5, Hushed

\* A stamp takes an id that no event has, and a number changes no id.
LEMMA RedraftReported ==
  ASSUME Inv, Reported, NEW t \in Threads, Stamp(t) \/ ReadSeq(t)
  PROVE  Reported'
<1>1. PICK d : Stamps(t, d) \/ Numbers(t, d)
  BY StampFacts, ReadSeqFacts
<1>2. Redrafts(t, d)
  BY <1>1 DEF Stamps, Numbers
<1> USE DEF Redrafts
<1>3. /\ \A e \in log : e.id # d.id
      /\ \A u \in Threads \ {t} : pc[u] \in {"number", "append"} => call[u].draft.id # d.id
  <2>1. CASE Stamps(t, d)
    <3>1. \A e \in log : e.id \in Nat /\ e.id <= made
      BY DEF Inv, TypeOK, Causes, Past, Event
    <3>2. \A u \in Threads : pc[u] \in {"number", "append"} => call[u].draft.id \in Nat /\ call[u].draft.id <= made
      BY DEF Inv, Causes, Founded, TypeOK, Event
    <3>3. \A i \in Nat : i <= made => i # d.id
      BY <2>1 DEF Stamps
    <3> QED BY <3>1, <3>2, <3>3
  <2>2. CASE Numbers(t, d)
    BY <2>2 DEF Reported, Unique, Numbers
  <2> QED BY <1>1, <2>1, <2>2
<1>4. Unique'
  BY <1>2, <1>3 DEF Reported, Unique
<1>5. Told(t)'
  BY <1>2 DEF Reported, Told, Telling, Stream, Alike
<1>6. \A u \in Threads \ {t} : Told(u)'
  BY <1>2 DEF Reported, Told, Telling, Stream
<1> QED BY <1>2, <1>4, <1>5, <1>6 DEF Reported, ReportedContradictionIsChallenged, Stream, Ids

LEMMA AppendEventReported ==
  ASSUME Inv, Reported, NEW t \in Threads, AppendEvent(t)
  PROVE  Reported'
<1> DEFINE c == call[t]
           draft == c.draft
<1>1. /\ log' = log \cup {draft} /\ log \subseteq log' /\ pc[t] = "append"
      /\ pc' = [pc EXCEPT ![t] = AfterAppend(c)]
      /\ confirmed' = IF Reports(c) THEN confirmed \cup {draft.about} ELSE confirmed
      /\ \A u \in Threads \ {t} : pc'[u] = pc[u] /\ call'[u] = call[u]
  BY DEF AppendEvent, Inv, TypeOK
<1>2. /\ \A e \in log : e.id # draft.id
      /\ \A u \in Threads \ {t} : pc[u] \in {"number", "append"} => call[u].draft.id # draft.id
  BY <1>1 DEF Reported, Unique
<1>3. pc'[t] = AfterAppend(c) /\ pc'[t] \notin {"number", "append"} /\ pc'[t] # "claim"
  BY <1>1 DEF Inv, TypeOK, AfterAppend
<1>4. Unique'
  BY <1>1, <1>2, <1>3 DEF Reported, Unique
<1>5. \A k : Stream(k) \subseteq Stream(k)'
  BY <1>1 DEF Stream
<1>6. \A g : Surfaced(Stream(g.at), g) => Surfaced(Stream(g.at)', g)
  BY <1>5, SurfacedGrows
<1>7. \A u \in Threads \ {t} : Told(u)'
  BY <1>1, <1>6 DEF Reported, Told, Telling
<1>8. ASSUME c.op \in {"confirm", "batch_confirm"}
      PROVE  \E g \in log :
               /\ g.id = draft.about /\ g.at = draft.at
               /\ Contradicts(g) /\ c.due = {} => Surfaced(Stream(g.at)', g)
  <2>1. PICK g \in log :
          /\ g.id = draft.about /\ g.at = draft.at
          /\ Contradicts(g) /\ c.due = {} =>
               \/ Surfaced(Stream(g.at), g)
               \/ draft.type = "challenge" /\ draft.what = "evidence_contradiction"
    BY <1>1, <1>8 DEF Reported, Told, Telling
  <2>2. ASSUME draft.type = "challenge" /\ draft.what = "evidence_contradiction"
        PROVE  Surfaced(Stream(g.at)', g)
    BY <1>1, <2>1, <2>2 DEF Surfaced, Stream, OfType
  <2> QED BY <1>6, <2>1, <2>2
<1>9. (confirmed \subseteq Ids(log))'
  BY <1>1, <1>8 DEF Reported, Reports, Ids
<1>10. ReportedContradictionIsChallenged'
  <2> SUFFICES ASSUME NEW g \in log', g.id \in confirmed', Contradicts(g)
               PROVE  Surfaced(Stream(g.at)', g)
    BY DEF ReportedContradictionIsChallenged, Contradicts
  <2>1. CASE g.id \in confirmed
    <3>1. g \in log
      BY <1>1, <1>2, <2>1 DEF Reported, Ids
    <3>2. Surfaced(Stream(g.at), g)
      BY <2>1, <3>1 DEF Reported, ReportedContradictionIsChallenged, Contradicts
    <3> QED BY <1>6, <3>2
  <2>2. CASE g.id \notin confirmed
    <3>1. Reports(c) /\ g.id = draft.about
      BY <1>1, <2>2
    <3>2. PICK h \in log :
            /\ h.id = draft.about /\ h.at = draft.at
            /\ Contradicts(h) /\ c.due = {} => Surfaced(Stream(h.at)', h)
      BY <1>8, <3>1 DEF Reports
    <3>3. g = h
      BY <1>1, <1>4, <3>1, <3>2 DEF Unique
    <3> QED BY <3>1, <3>2, <3>3 DEF Reports
  <2> QED BY <2>1, <2>2
<1>11. Told(t)'
  <2> SUFFICES ASSUME Telling(t)' PROVE Told(t)'
    BY DEF Told
  <2>1. c.due # {} /\ c.op # "link"
    <3>1. c.due # {}
      BY <1>3 DEF Telling, AfterAppend
    <3>2. call'[t].op = c.op
      <4>1. PICK d \in c.due : call' = [call EXCEPT ![t] = [c EXCEPT !.draft = d, !.due = c.due \ {d}]]
        BY <3>1 DEF AppendEvent
      <4>2. call'[t] = [c EXCEPT !.draft = d, !.due = c.due \ {d}]
        BY <4>1 DEF Inv, TypeOK
      <4> QED BY <4>2 DEF Inv, TypeOK
    <3> QED BY <3>1, <3>2 DEF Telling
  <2>2. PICK g \in log : /\ g.type = "ground" /\ c.due = {ContradictionChallenge(g)}
                         /\ draft.type = "confirm" /\ draft.about = g.id /\ draft.at = g.at
    BY <2>1 DEF Inv, Causes, Owed, OwesChallenge, OwesLinks
  <2> DEFINE d == ContradictionChallenge(g)
  <2>3. d.type = "challenge" /\ d.what = "evidence_contradiction" /\ d.about = g.id /\ d.at = g.at
    <3>1. g.at \in Claims /\ g.id \in Nat /\ g.cites \in SUBSET (Claims \cup Materials)
      BY DEF Inv, TypeOK, Event
    <3> QED BY <3>1, NewEventFacts, Names DEF ContradictionChallenge
  <2> HIDE DEF d
  <2>4. call' = [call EXCEPT ![t] = [c EXCEPT !.draft = d, !.due = {}]]
    BY <2>1, <2>2 DEF AppendEvent, d
  <2>5. call'[t].draft = d
    BY <2>4 DEF Inv, TypeOK
  <2> QED BY <1>1, <2>2, <2>3, <2>5 DEF Told
<1> QED BY <1>4, <1>7, <1>9, <1>10, <1>11 DEF Reported

LEMMA ReportedStep == Inv /\ Reported /\ [LensNext]_vars => Reported'
<1> SUFFICES ASSUME Inv, Reported, [LensNext]_vars PROVE Reported'
  OBVIOUS
<1>1. ASSUME NEW t \in Threads, Step(t) PROVE Reported'
  <2>1. ASSUME NEW c \in Claims, ParkArtifact(t, c) \/ Grill(t, c) \/ Evidence(t, c) \/ Promote(t, c)
        PROVE Reported'
    BY <2>1, NotTelling, Mute
  <2>2. ASSUME NEW c \in Claims, Gate(t, c) PROVE Reported'
    <3>1. ASSUME NEW g, Retract(t, g) PROVE Reported'
      BY <3>1, NotTelling, Mute
    <3>2. ASSUME NEW ids, BatchConfirm(t, c, ids) PROVE Reported'
      BY <3>2, NotTelling, Mute
    <3>3. ASSUME NEW g \in log, Confirm(t, g) PROVE Reported'
      BY <3>3, ConfirmingReported
    <3> QED BY <2>1, <2>2, <3>1, <3>2, <3>3 DEF Gate, Stream
  <2>3. CASE ParkClaim(t)
    BY <2>3, ParkClaimReported
  <2>4. ASSUME NEW m, CollectNext(t, m) PROVE Reported'
    BY <2>4, NotTelling, Mute, IdsAssumption
  <2>5. ASSUME NEW g \in log, BatchConfirmNext(t, g) PROVE Reported'
    BY <2>5, ConfirmingReported
  <2>6. CASE Stamp(t) \/ ReadSeq(t)
    BY <2>6, RedraftReported
  <2>7. CASE AppendEvent(t)
    BY <2>7, AppendEventReported
  <2>8. CASE Lose(t)
    BY <2>8, NotTelling, Mute, IdsAssumption
  <2> QED BY <1>1, <2>1, <2>2, <2>3, <2>4, <2>5, <2>6, <2>7, <2>8 DEF Step, Service
<1>2. CASE UNCHANGED vars
  BY <1>2 DEF vars, Reported, Unique, Ids, ReportedContradictionIsChallenged, Told, Telling, Stream
<1> QED BY <1>1, <1>2, LensNotTelling, Mute DEF LensNext

\* Whatever threads do in between, and wherever they are lost: when a confirmation
\* of counter-evidence was reported, the challenge it calls for is on the stream.
THEOREM LensReportedContradiction == LensSpec => []ReportedContradictionIsChallenged
<1>1. Inv /\ Reported => ReportedContradictionIsChallenged
  BY DEF Reported
<1> QED BY <1>1, InitInv, InitReported, StepInv, ReportedStep, PTL DEF LensSpec

\* The Lens changes nothing of it.
THEOREM ReportedContradictionIsChallengedHolds == Spec => []ReportedContradictionIsChallenged
BY LensIncludesServices, LensReportedContradiction, PTL
-----------------------------------------------------------------------------
\* What a thread is about to make names what was signed, the more so when it is made.
Shown(t) ==
  /\ \A d \in {call[t].draft} \cup call[t].due : NamesSigned(log, At(d, made + 1))
  /\ pc[t] \in {"number", "append"} => NamesSigned(log, call[t].draft)

Naming == OnlySignedIsNamed /\ \A t \in Threads : Shown(t)

LEMMA AtFacts ==
  ASSUME NEW e \in Event, NEW n \in Nat
  PROVE  /\ At(e, n) \in Event /\ At(e, n).id = n /\ At(e, n).at = e.at /\ At(e, n).type = e.type
         /\ At(e, n).what = e.what /\ At(e, n).cites = e.cites
         /\ \A m \in Nat : At(At(e, n), m) = At(e, m)
BY DEF At, Event

\* A signature stays one when the log grows and when the reader comes later.
LEMMA SignedBeforeGrows ==
  ASSUME NEW E \in SUBSET Event, NEW F \in SUBSET Event, E \subseteq F, NEW c,
         NEW i \in Nat, NEW j \in Nat, i <= j
  PROVE  SignedBefore(E, c, i) \subseteq SignedBefore(F, c, j)
<1>1. \A f \in F : f.id \in Nat
  BY DEF Event
<1>2. {e \in E : e.at = c /\ e.id < i} \subseteq {e \in F : e.at = c /\ e.id < j}
  BY <1>1
<1> QED BY <1>2 DEF SignedBefore, OfType

LEMMA NamesSignedAlike ==
  ASSUME NEW E \in SUBSET Event, NEW F \in SUBSET Event, E \subseteq F,
         NEW e \in Event, NEW d \in Event, Alike(d, e), e.id <= d.id, NamesSigned(E, e)
  PROVE  NamesSigned(F, d)
<1>1. d.at = e.at /\ d.type = e.type /\ d.what = e.what /\ d.cites = e.cites
  BY DEF Alike
<1>2. e.id \in Nat /\ d.id \in Nat
  BY DEF Event
<1>3. \A c : SignedBefore(E, c, e.id) \subseteq SignedBefore(F, c, d.id)
  BY <1>2, SignedBeforeGrows
<1> QED BY <1>1, <1>3 DEF NamesSigned, Generated, OfType

LEMMA NamesSignedGrows ==
  ASSUME NEW E \in SUBSET Event, NEW F \in SUBSET Event, E \subseteq F,
         NEW e \in Event, NEW n \in Nat, e.id <= n, NamesSigned(E, e)
  PROVE  NamesSigned(F, At(e, n))
<1>1. At(e, n) \in Event /\ At(e, n).id = n /\ Alike(At(e, n), e)
  BY DEF At, Event, Alike
<1> QED BY <1>1, NamesSignedAlike

\* In particular it stays when only the log grows.
LEMMA NamesSignedStays ==
  ASSUME NEW E \in SUBSET Event, NEW F \in SUBSET Event, E \subseteq F, NEW e \in Event,
         NamesSigned(E, e)
  PROVE  NamesSigned(F, e)
<1>1. e.id \in Nat /\ At(e, e.id) = e
  BY DEF Event, At
<1> QED BY <1>1, NamesSignedGrows

\* What the model did not write, and what names nothing, needs no signature.
LEMMA NamesNothing ==
  ASSUME NEW E, NEW e \in Event, NEW n \in Nat, ~Generated(e) \/ e.cites = {}
  PROVE  NamesSigned(E, At(e, n))
BY AtFacts DEF NamesSigned, Generated

\* A verdict or a ground that counts was confirmed by an event of the log.
LEMMA SignedIsBefore ==
  ASSUME Inv, NEW c \in Claims, NEW v \in Signed(Stream(c)), v.type \in {"verdict", "ground"}
  PROVE  v \in SignedBefore(log, c, made + 1)
<1> DEFINE S == {e \in log : e.at = c}
           before == {e \in log : e.at = c /\ e.id < made + 1}
<1>1. made \in Nat /\ \A e \in log : e.id \in Nat /\ e.id <= made /\ WellFormed(e)
  BY DEF Inv, TypeOK, Causes, Past, Event
<1>2. before = S
  BY <1>1
<1>3. v \in S /\ v.id \in Confirmed(S)
  BY <1>1 DEF Signed, Stream, WellFormed, BornConfirmed
<1>4. \E k \in OfType(S, "confirm") : k.about = v.id
  BY <1>3 DEF Confirmed, OfType
<1> HIDE DEF S
<1> QED BY <1>2, <1>3, <1>4 DEF SignedBefore

\* A grilled claim has a signed verdict that says how it fared.
LEMMA GrilledIsSigned ==
  ASSUME Inv, NEW d \in Claims, ClaimStatus(Stream(d)) \in GrilledStatuses
  PROVE  \E v \in OfType(SignedBefore(log, d, made + 1), "verdict") :
           /\ Survived(Stream(d)) => v.what = "survive"
           /\ ~Survived(Stream(d)) => v.what \in DeathCauses /\ Killed(Stream(d))
<1>1. Survived(Stream(d)) \/ Killed(Stream(d))
  BY DEF ClaimStatus, GrilledStatuses
<1>2. PICK v \in Ruling(Stream(d)) : /\ Survived(Stream(d)) => v.what = "survive"
                                     /\ ~Survived(Stream(d)) => v.what \in DeathCauses
  BY <1>1 DEF Survived, Killed
<1>3. v \in Signed(Stream(d)) /\ v.type = "verdict"
  BY DEF Ruling, Newest, OfType
<1>4. v \in SignedBefore(log, d, made + 1)
  BY <1>3, SignedIsBefore
<1> QED BY <1>1, <1>2, <1>3, <1>4 DEF OfType

LEMMA KilledIsSigned ==
  ASSUME Inv, NEW d \in Claims, Killed(Stream(d))
  PROVE  \E v \in OfType(SignedBefore(log, d, made + 1), "verdict") : v.what \in DeathCauses
<1>1. PICK v \in Ruling(Stream(d)) : v.what \in DeathCauses
  BY DEF Killed
<1>2. v \in Signed(Stream(d)) /\ v.type = "verdict"
  BY DEF Ruling, Newest, OfType
<1> QED BY <1>1, <1>2, SignedIsBefore DEF OfType

LEMMA GroundedIsSigned ==
  ASSUME Inv, NEW c \in Claims, NEW m \in GroundedMaterials(Stream(c))
  PROVE  \E g \in OfType(SignedBefore(log, c, made + 1), "ground") : m \in g.cites
<1>1. PICK g \in BearingEvidence(Stream(c)) : m \in g.cites
  BY DEF GroundedMaterials
<1>2. g \in Signed(Stream(c)) /\ g.type = "ground"
  BY DEF BearingEvidence, ConfirmedGroundEvidence, OfType
<1> QED BY <1>1, <1>2, SignedIsBefore DEF OfType
-----------------------------------------------------------------------------
LEMMA InitNaming == Init => Naming
<1> SUFFICES ASSUME Init PROVE Naming
  OBVIOUS
<1>1. OnlySignedIsNamed
  BY ArchiveAssumption DEF Init, OnlySignedIsNamed
<1>2. Nothing.draft \in Event /\ ~Generated(Nothing.draft) /\ Nothing.due = {}
  BY NothingFacts DEF Generated
<1>3. made + 1 \in Nat
  BY InitInv DEF Inv, TypeOK
<1>4. NamesSigned(log, At(Nothing.draft, made + 1))
  BY <1>2, <1>3, NamesNothing
<1>5. \A t \in Threads : Shown(t)
  BY <1>2, <1>4 DEF Init, Shown
<1> QED BY <1>1, <1>5 DEF Naming

\* A step that appends and stamps nothing leaves everything named as it was, but
\* for what its thread is about to make.
LEMMA SilentNaming ==
  ASSUME Naming, NEW t \in Threads, Silent(t),
         \A d \in {call'[t].draft} \cup call'[t].due : NamesSigned(log, At(d, made + 1))
  PROVE  Naming'
<1>1. OnlySignedIsNamed'
  BY DEF Naming, OnlySignedIsNamed, Silent
<1>2. Shown(t)'
  BY DEF Silent, Shown
<1>3. \A u \in Threads \ {t} : Shown(u)'
  BY DEF Naming, Silent, Shown
<1> QED BY <1>1, <1>2, <1>3 DEF Naming

\* A thread begins to make an event and owes nothing else.
LEMMA BegunNaming ==
  ASSUME Inv, Naming, NEW t \in Threads, Silent(t), NEW draft, NEW op, NEW due, NEW todo,
         call' = [call EXCEPT ![t] = [op |-> op, draft |-> draft, due |-> due, todo |-> todo]],
         \A d \in {draft} \cup due : NamesSigned(log, At(d, made + 1))
  PROVE  Naming'
<1>1. call'[t].draft = draft /\ call'[t].due = due
  BY DEF Inv, TypeOK
<1> QED BY <1>1, SilentNaming

LEMMA MadeNat == Inv => made + 1 \in Nat /\ log \in SUBSET Event
BY DEF Inv, TypeOK

\* What the services without the Lens write names no claim, or what they read as signed.
LEMMA ServicesNaming ==
  ASSUME Inv, Naming, NEW t \in Threads, NEW c \in Claims, Silent(t),
         \/ ParkArtifact(t, c)
         \/ \E papers : Collect(t, c, papers)
         \/ \E m \in Materials : CollectNext(t, m)
         \/ Challenge(t, c) \/ Bypass(t, c) \/ Promote(t, c)
         \/ \E k \in Named : Answer(t, c, k)
         \/ \E m \in Materials, verdict \in GroundVerdicts : Ground(t, c, m, verdict)
         \/ \E g \in log : Retract(t, g)
         \/ \E ids : BatchConfirm(t, c, ids)
  PROVE  Naming'
<1>0. made + 1 \in Nat
  BY MadeNat
<1>1. ASSUME NEW draft, NEW op, NEW todo, draft \in Event, ~Generated(draft) \/ draft.cites = {},
             call' = [call EXCEPT ![t] = [op |-> op, draft |-> draft, due |-> {}, todo |-> todo]]
      PROVE  Naming'
  <2>1. NamesSigned(log, At(draft, made + 1))
    BY <1>0, <1>1, NamesNothing
  <2> QED BY <1>1, <2>1, BegunNaming
<1>2. ASSUME NEW type \in {"park", "collect_material", "answer", "promote", "retract", "confirm", "ground"},
             NEW d \in Claims, NEW what \in GroundVerdicts \cup {"none"},
             NEW about \in Nat, NEW cites \in SUBSET (Claims \cup Materials),
             NEW op, NEW todo,
             call' = [call EXCEPT ![t] = [op |-> op, draft |-> NewEvent(type, d, what, about, cites),
                                          due |-> {}, todo |-> todo]]
      PROVE  Naming'
  <2>1. NewEvent(type, d, what, about, cites) \in Event /\ ~Generated(NewEvent(type, d, what, about, cites))
    BY NewEventFacts, Names DEF Generated
  <2> QED BY <1>1, <1>2, <2>1
<1>3. CASE ParkArtifact(t, c)
  BY <1>2, <1>3 DEF ParkArtifact
<1>4. ASSUME NEW papers, Collect(t, c, papers) PROVE Naming'
  BY <1>2, <1>4 DEF Collect
<1>5. ASSUME NEW m \in Materials, CollectNext(t, m) PROVE Naming'
  <2>1. call[t].draft.at \in Claims
    BY DEF Inv, TypeOK, Event
  <2> QED BY <1>2, <1>5, <2>1 DEF CollectNext, Proceed
<1>6. CASE Challenge(t, c)
  <2> DEFINE draft == NewEvent("challenge", c, "question", 0, {})
  <2>1. draft \in Event /\ draft.cites = {}
    BY NewEventFacts, Names
  <2> QED BY <1>1, <1>6, <2>1 DEF Challenge, Begin, Proceed
<1>7. CASE Bypass(t, c)
  <2> DEFINE plain == NewEvent("verdict", c, "survive", 0, {})
             draft == [plain EXCEPT !.debt = TRUE]
  <2>1. plain \in Event /\ plain.cites = {}
    BY ONLY SurvivalFacts, c \in Claims
  <2>2. call' = [call EXCEPT ![t] = [op |-> "bypass", draft |-> draft, due |-> {}, todo |-> {}]]
    BY <1>7 DEF Bypass, Begin, Proceed
  <2> HIDE DEF plain
  <2>3. draft \in Event /\ draft.cites = {}
    BY <2>1 DEF Event
  <2> HIDE DEF draft
  <2> QED BY <1>1, <2>2, <2>3
<1>8. CASE Promote(t, c)
  BY <1>2, <1>8 DEF Promote, Begin, Proceed
<1>9. ASSUME NEW k \in Named, Answer(t, c, k) PROVE Naming'
  <2>1. k \in Nat
    BY BoundsAssumption
  <2> QED BY <1>2, <1>9, <2>1 DEF Answer, Begin, Proceed
<1>10. ASSUME NEW m \in Materials, NEW verdict \in GroundVerdicts, Ground(t, c, m, verdict) PROVE Naming'
  BY <1>2, <1>10 DEF Ground, Begin, Proceed
<1>11. ASSUME NEW g \in log, Retract(t, g) PROVE Naming'
  <2>1. g.at \in Claims /\ g.id \in Nat
    BY MadeNat DEF Event
  <2> QED BY <1>2, <1>11, <2>1 DEF Retract, Begin, Proceed
<1>12. ASSUME NEW ids, BatchConfirm(t, c, ids) PROVE Naming'
  BY <1>2, <1>12 DEF BatchConfirm
<1> QED BY <1>3, <1>4, <1>5, <1>6, <1>7, <1>8, <1>9, <1>10, <1>11, <1>12

\* A verdict by hand names successors only of a claim that was narrowed; one by the
\* model names the papers it was shown.
LEMMA VerdictNaming ==
  ASSUME Inv, Naming, NEW t \in Threads, NEW c \in Claims, Silent(t),
         NEW outcome \in Outcomes, NEW k \in Named,
         \/ \E d \in SUBSET (Claims \ {c}) : Verdict(t, c, outcome, d, k)
         \/ AutoVerdict(t, c, outcome, k)
  PROVE  Naming'
<1>0. made + 1 \in Nat
  BY MadeNat
<1>1. k \in Nat
  BY BoundsAssumption
<1>2. ASSUME NEW d \in SUBSET (Claims \ {c}), Verdict(t, c, outcome, d, k) PROVE Naming'
  <2> DEFINE draft == NewEvent("verdict", c, outcome, k, d)
  <2>1. draft \in Event /\ draft.cites = d /\ draft.what = outcome /\ draft.type = "verdict"
    BY <1>1, NewEventFacts, Names
  <2>2. d # {} => outcome = "boundary"
    BY <1>2 DEF Verdict, ValidDeathTriage
  <2>3. call' = [call EXCEPT ![t] = [op |-> "verdict", draft |-> draft, due |-> {}, todo |-> {}]]
    BY <1>2 DEF Verdict, Begin, Proceed
  <2> HIDE DEF draft
  <2>4. NamesSigned(log, At(draft, made + 1))
    BY <1>0, <2>1, <2>2, NamesNothing DEF Generated
  <2>5. call'[t].draft = draft /\ call'[t].due = {}
    BY <2>3 DEF Inv, TypeOK
  <2> QED BY <2>4, <2>5, SilentNaming
<1>3. ASSUME AutoVerdict(t, c, outcome, k) PROVE Naming'
  <2> DEFINE cites == GroundedMaterials(Stream(c))
             draft == NewEvent("verdict", c, outcome, k, cites)
  <2>1. cites \subseteq Materials
    BY Readings
  <2>2. \A m \in cites : \E g \in OfType(SignedBefore(log, c, made + 1), "ground") : m \in g.cites
    BY GroundedIsSigned
  <2>3. call' = [call EXCEPT ![t] = [op |-> "auto_verdict", draft |-> draft, due |-> {}, todo |-> {}]]
    BY <1>3 DEF AutoVerdict, Begin, Proceed
  <2> HIDE DEF cites
  <2>4. draft \in Event /\ draft.cites = cites /\ draft.at = c
    BY <1>1, <2>1, NewEventFacts, Names
  <2> HIDE DEF draft
  <2>5. NamesSigned(log, At(draft, made + 1))
    BY <1>0, <2>1, <2>2, <2>4, AtFacts, IdsAssumption DEF NamesSigned
  <2>6. call'[t].draft = draft /\ call'[t].due = {}
    BY <2>3 DEF Inv, TypeOK
  <2> QED BY <2>5, <2>6, SilentNaming
<1> QED BY <1>2, <1>3

\* A confirmation and the challenge of a contradiction say what a person signed.
LEMMA ConfirmingNaming ==
  ASSUME Inv, Naming, NEW t \in Threads, NEW g \in log, Silent(t),
         Confirm(t, g) \/ BatchConfirmNext(t, g)
  PROVE  Naming'
<1>0. made + 1 \in Nat
  BY MadeNat
<1> DEFINE draft == NewEvent("confirm", g.at, "none", g.id, {})
           due == SurfacedBy(Stream(g.at), g)
<1>1. draft \in Event /\ draft.type = "confirm" /\ due \subseteq {ContradictionChallenge(g)}
  BY ConfirmFacts DEF SurfacedBy
<1>2. PICK op, todo :
        call' = [call EXCEPT ![t] = [op |-> op, draft |-> draft, due |-> due, todo |-> todo]]
  BY DEF Confirm, BatchConfirmNext, Proceed
<1> DEFINE d == ContradictionChallenge(g)
<1>3. d \in Event /\ d.what = "evidence_contradiction" /\ d.type = "challenge"
  <2>1. g.at \in Claims /\ g.id \in Nat /\ g.cites \in SUBSET (Claims \cup Materials)
    BY MadeNat DEF Event
  <2> QED BY <2>1, NewEventFacts, Names DEF ContradictionChallenge
<1> HIDE DEF draft, due, d
<1>4. NamesSigned(log, At(draft, made + 1)) /\ NamesSigned(log, At(d, made + 1))
  BY <1>0, <1>1, <1>3, NamesNothing DEF Generated
<1>5. due \subseteq {d}
  BY <1>1 DEF d
<1> QED BY <1>2, <1>4, <1>5, BegunNaming
-----------------------------------------------------------------------------
LEMMA AutoChallengeNaming ==
  ASSUME Inv, Naming, NEW t \in Threads, NEW c \in Claims, Silent(t),
         NEW refs \in SUBSET KillPrecedents(c), AutoChallenge(t, c, refs)
  PROVE  Naming'
<1>0. made + 1 \in Nat
  BY MadeNat
<1> DEFINE papers == GroundedMaterials(Stream(c))
           cites == refs \cup papers
           draft == NewEvent("challenge", c, "question", 0, cites)
<1>1. papers \subseteq Materials /\ refs \subseteq Claims /\ cites \subseteq Claims \cup Materials
  BY Readings
<1>2. \A m \in papers : \E g \in OfType(SignedBefore(log, c, made + 1), "ground") : m \in g.cites
  BY GroundedIsSigned
<1>3. \A d \in refs : \E v \in OfType(SignedBefore(log, d, made + 1), "verdict") : v.what \in DeathCauses
  <2>1. \A d \in refs : Killed(Stream(d))
    BY DEF KillPrecedents
  <2> QED BY <1>1, <2>1, KilledIsSigned
<1>4. call' = [call EXCEPT ![t] = [op |-> "auto_challenge", draft |-> draft, due |-> {}, todo |-> {}]]
  BY DEF AutoChallenge, Begin, Proceed
<1> HIDE DEF papers
<1>5. draft \in Event /\ draft.cites = cites /\ draft.at = c /\ draft.what = "question"
  BY <1>1, NewEventFacts, Names
<1> HIDE DEF draft
<1>6. NamesSigned(log, At(draft, made + 1))
  <2>1. cites \cap Claims = refs /\ cites \cap Materials = papers
    BY <1>1, IdsAssumption
  <2> DEFINE e == At(draft, made + 1)
  <2>2. e.id = made + 1 /\ e.at = c /\ e.what = "question" /\ e.cites = cites
    BY <1>0, <1>5, AtFacts
  <2> HIDE DEF e
  <2>3. NamesSigned(log, e)
    BY <1>2, <1>3, <2>1, <2>2 DEF NamesSigned
  <2> QED BY <2>3 DEF e
<1>7. call'[t].draft = draft /\ call'[t].due = {}
  BY <1>4 DEF Inv, TypeOK
<1> QED BY <1>6, <1>7, SilentNaming

\* What is on the shortlist was grilled.
LEMMA ShortlistIsSigned ==
  ASSUME Inv, NEW c \in Claims, NEW d \in Shortlist(c)
  PROVE  d \in Claims /\ \E v : v \in OfType(SignedBefore(log, d, made + 1), "verdict")
<1>1. d \in Claims /\ ClaimStatus(Stream(d)) \in GrilledStatuses
  BY Readings DEF Shortlist, Prefilter, GrilledClaims
<1> QED BY <1>1, GrilledIsSigned

LEMMA AssessTasteNaming ==
  ASSUME Inv, Naming, NEW t \in Threads, NEW c \in Claims, Silent(t),
         NEW anchors \in SUBSET Shortlist(c), AssessTaste(t, c, anchors)
  PROVE  Naming'
<1>0. made + 1 \in Nat
  BY MadeNat
<1> DEFINE draft == NewEvent("challenge", c, "taste", 0, anchors)
<1>1. \A d \in anchors : d \in Claims /\ \E v : v \in OfType(SignedBefore(log, d, made + 1), "verdict")
  BY ShortlistIsSigned
<1>2. draft \in Event /\ draft.cites = anchors /\ draft.what = "taste"
  BY <1>1, NewEventFacts, Names, LensNames
<1>3. call' = [call EXCEPT ![t] = [op |-> "taste", draft |-> draft, due |-> {}, todo |-> {}]]
  BY DEF AssessTaste, Begin, Proceed
<1> HIDE DEF draft
<1>4. NamesSigned(log, At(draft, made + 1))
  BY <1>0, <1>1, <1>2, AtFacts, IdsAssumption DEF NamesSigned
<1>5. call'[t].draft = draft /\ call'[t].due = {}
  BY <1>3 DEF Inv, TypeOK
<1> QED BY <1>4, <1>5, SilentNaming

LEMMA ScanContradictionsNaming ==
  ASSUME Inv, Naming, NEW t \in Threads, NEW c \in Claims, Silent(t), ScanContradictions(t, c)
  PROVE  Naming'
<1>0. made + 1 \in Nat
  BY MadeNat
<1> DEFINE draft == NewEvent("challenge", c, "contradicts_survived", 0, {})
<1>1. draft \in Event /\ draft.cites = {}
  BY NewEventFacts, Names, LensNames
<1>2. call' = [call EXCEPT ![t] = [op |-> "scan", draft |-> draft, due |-> {}, todo |-> Shortlist(c)]]
  BY DEF ScanContradictions
<1> HIDE DEF draft
<1>3. NamesSigned(log, At(draft, made + 1))
  BY <1>0, <1>1, NamesNothing
<1>4. call'[t].draft = draft /\ call'[t].due = {}
  BY <1>2 DEF Inv, TypeOK
<1> QED BY <1>3, <1>4, SilentNaming

\* The claim is read again before it is named, whatever happened since the scan began.
LEMMA ScanNextNaming ==
  ASSUME Inv, Naming, NEW t \in Threads, Silent(t), NEW past \in Claims, ScanNext(t, past)
  PROVE  Naming'
<1>0. made + 1 \in Nat
  BY MadeNat
<1> DEFINE c == call[t].draft.at
           left == call[t].todo \ {past}
           draft == NewEvent("challenge", c, OutcomeOf(past), 0, {past})
<1>1. c \in Claims
  BY DEF Inv, TypeOK, Event
<1>2. CASE ClaimStatus(Stream(past)) \in GrilledStatuses /\ Proceed(t, "scan", draft, {}, left)
  <2>1. PICK v \in OfType(SignedBefore(log, past, made + 1), "verdict") :
          /\ Survived(Stream(past)) => v.what = "survive"
          /\ ~Survived(Stream(past)) => v.what \in DeathCauses
    BY <1>2, GrilledIsSigned
  <2>2. /\ OutcomeOf(past) = "contradicts_survived" => v.what = "survive"
        /\ OutcomeOf(past) = "contradicts_killed" => v.what \in DeathCauses
        /\ OutcomeOf(past) \in {"contradicts_survived", "contradicts_killed"}
    BY <2>1 DEF OutcomeOf
  <2>3. draft \in Event /\ draft.cites = {past} /\ draft.what = OutcomeOf(past)
    BY <1>1, <2>2, NewEventFacts, Names, LensNames
  <2>4. call' = [call EXCEPT ![t] = [op |-> "scan", draft |-> draft, due |-> {}, todo |-> left]]
    BY <1>2 DEF Proceed
  <2> HIDE DEF draft, left
  <2>5. NamesSigned(log, At(draft, made + 1))
    BY <1>0, <2>1, <2>2, <2>3, AtFacts, IdsAssumption DEF NamesSigned
  <2>6. call'[t].draft = draft /\ call'[t].due = {}
    BY <2>4 DEF Inv, TypeOK
  <2> QED BY <2>5, <2>6, SilentNaming
<1>3. CASE call' = [call EXCEPT ![t] = IF left = {} THEN Nothing ELSE [call[t] EXCEPT !.todo = left]]
  <2> HIDE DEF left
  <2>1. call'[t] = IF left = {} THEN Nothing ELSE [call[t] EXCEPT !.todo = left]
    BY <1>3 DEF Inv, TypeOK
  <2>2. ~Generated(Nothing.draft) /\ Nothing.draft \in Event
    BY NothingFacts DEF Generated
  <2>3. NamesSigned(log, At(Nothing.draft, made + 1))
    BY <1>0, <2>2, NamesNothing
  <2>4. \A d \in {call[t].draft} \cup call[t].due : NamesSigned(log, At(d, made + 1))
    BY DEF Naming, Shown
  <2>5. \/ call'[t].draft = Nothing.draft /\ call'[t].due = {}
        \/ call'[t].draft = call[t].draft /\ call'[t].due = call[t].due
    BY <2>1, NothingFacts DEF Inv, TypeOK
  <2> QED BY <2>3, <2>4, <2>5, SilentNaming
<1> QED BY <1>2, <1>3 DEF ScanNext

LEMMA LinkClaimsNaming ==
  ASSUME Inv, Naming, NEW t \in Threads, Silent(t), NEW pairs \in SUBSET LinkCandidates,
         NEW edge \in [pairs -> EdgeTypes \cap Judged], LinkClaims(t, pairs, edge)
  PROVE  Naming'
<1>0. made + 1 \in Nat
  BY MadeNat
<1>1. PICK links : \E l \in links : Links(t, pairs, links, l)
  BY LinkFacts
<1>2. PICK l \in links : Links(t, pairs, links, l)
  BY <1>1
<1>3. ASSUME NEW p \in pairs
      PROVE  p[2] \in Claims /\ \E v : v \in OfType(SignedBefore(log, p[2], made + 1), "verdict")
  <2>1. p[2] \in claims /\ ClaimStatus(Stream(p[2])) \in GrilledStatuses
    BY DEF LinkCandidates, Prefilter, GrilledClaims
  <2>2. p[2] \in Claims
    BY <2>1 DEF Inv, TypeOK
  <2> QED BY <2>1, <2>2, GrilledIsSigned
<1>4. ASSUME NEW e \in links PROVE NamesSigned(log, At(e, made + 1))
  <2>1. PICK p \in pairs : e.cites = {p[2]}
    BY <1>2 DEF Links
  <2>2. e \in Event /\ e.what \in EdgeTypes
    BY <1>2 DEF Links, IsLink
  <2>3. PICK v : v \in OfType(SignedBefore(log, p[2], made + 1), "verdict")
    BY <1>3
  <2>4. p[2] \in Claims
    BY <1>3
  <2> DEFINE f == At(e, made + 1)
  <2>5. f.id = made + 1 /\ f.what \in EdgeTypes /\ f.cites = {p[2]}
    BY <1>0, <2>1, <2>2, AtFacts
  <2>6. f.what \notin {"contradicts_survived", "contradicts_killed", "question"}
    BY <2>5 DEF EdgeTypes
  <2>7. f.cites \cap Materials = {}
    BY <2>4, <2>5, IdsAssumption
  <2> HIDE DEF f
  <2>8. NamesSigned(log, f)
    BY <2>3, <2>5, <2>6, <2>7 DEF NamesSigned
  <2> QED BY <2>8 DEF f
<1>5. call'[t].draft = l /\ call'[t].due = links \ {l}
  BY <1>2 DEF Links, Inv, TypeOK
<1> QED BY <1>4, <1>5, SilentNaming
-----------------------------------------------------------------------------
\* What is named stays the same when the event is stamped or gets its number.
LEMMA RedraftNaming ==
  ASSUME Inv, Naming, NEW t \in Threads, Stamp(t) \/ ReadSeq(t)
  PROVE  Naming'
<1>1. PICK d : Stamps(t, d) \/ Numbers(t, d)
  BY StampFacts, ReadSeqFacts
<1> DEFINE draft == call[t].draft
<1>2. /\ Redrafts(t, d) /\ d \in Event /\ draft \in Event /\ Alike(d, draft) /\ log' = log
      /\ call'[t].draft = d /\ call'[t].due = call[t].due
      /\ \A u \in Threads \ {t} : pc'[u] = pc[u] /\ call'[u] = call[u]
  BY <1>1 DEF Stamps, Numbers, Redrafts
<1>3. /\ made \in Nat /\ made + 1 \in Nat /\ made' \in Nat /\ made' + 1 \in Nat /\ made + 1 <= made' + 1
      /\ log \in SUBSET Event
      /\ \A u \in Threads : call[u].draft \in Event /\ call[u].due \in SUBSET Event
  <2>1. /\ made \in Nat /\ log \in SUBSET Event
        /\ \A u \in Threads : call[u].draft \in Event /\ call[u].due \in SUBSET Event
    BY DEF Inv, TypeOK
  <2>2. made' = made \/ made' = made + 1
    BY <1>1 DEF Stamps, Numbers
  <2> QED BY <2>1, <2>2
<1>4. ASSUME NEW e \in Event, NEW f \in Event, Alike(f, e), NamesSigned(log, At(e, made + 1))
      PROVE  NamesSigned(log, At(f, made' + 1))
  <2>1. /\ At(e, made + 1) \in Event /\ At(e, made + 1).id = made + 1
        /\ At(f, made' + 1) \in Event /\ At(f, made' + 1).id = made' + 1
        /\ Alike(At(f, made' + 1), At(e, made + 1))
    BY <1>3, <1>4 DEF At, Event, Alike
  <2> QED BY <1>3, <1>4, <2>1, NamesSignedAlike
<1>5. \A e \in Event : Alike(e, e)
  BY DEF Alike
<1>6. NamesSigned(log, At(draft, made + 1)) /\ \A e \in call[t].due : NamesSigned(log, At(e, made + 1))
  BY DEF Naming, Shown
<1> HIDE DEF draft
<1>7. NamesSigned(log, d)
  <2>1. CASE Stamps(t, d)
    <3>1. /\ At(draft, made + 1) \in Event /\ At(draft, made + 1).id = made + 1
          /\ Alike(d, At(draft, made + 1)) /\ d.id = made + 1
      BY <1>2, <1>3, <2>1 DEF At, Event, Alike, Stamps
    <3> QED BY <1>2, <1>3, <1>6, <3>1, NamesSignedAlike
  <2>2. CASE Numbers(t, d)
    <3>1. NamesSigned(log, draft) /\ d.id = draft.id /\ d.id \in Nat
      BY <1>2, <2>2 DEF Naming, Shown, Numbers, draft, Event
    <3> QED BY <1>2, <1>3, <3>1, NamesSignedAlike
  <2> QED BY <1>1, <2>1, <2>2
<1>8. Shown(t)'
  BY <1>2, <1>3, <1>4, <1>5, <1>6, <1>7 DEF Shown
<1>9. ASSUME NEW u \in Threads \ {t} PROVE Shown(u)'
  <2>1. Shown(u)
    BY DEF Naming
  <2> QED BY <1>2, <1>3, <1>4, <1>5, <2>1 DEF Shown
<1> QED BY <1>2, <1>8, <1>9 DEF Naming, OnlySignedIsNamed

LEMMA AppendEventNaming ==
  ASSUME Inv, Naming, NEW t \in Threads, AppendEvent(t)
  PROVE  Naming'
<1> DEFINE c == call[t]
           draft == c.draft
<1>1. /\ made + 1 \in Nat /\ made' = made /\ log' = log \cup {draft} /\ log \in SUBSET Event
      /\ draft \in Event /\ pc[t] = "append" /\ pc' = [pc EXCEPT ![t] = AfterAppend(c)]
      /\ \A u \in Threads : call[u].draft \in Event /\ call[u].due \in SUBSET Event
  BY MadeNat DEF AppendEvent, stamps, Inv, TypeOK
<1>2. log' \in SUBSET Event /\ log \subseteq log'
  BY <1>1
<1>3. \A e \in Event : NamesSigned(log, e) => NamesSigned(log', e)
  BY <1>1, <1>2, NamesSignedStays
<1>4. OnlySignedIsNamed'
  BY <1>1, <1>3 DEF Naming, OnlySignedIsNamed, Shown
<1>5. ASSUME NEW d \in Event, NamesSigned(log, At(d, made + 1)) PROVE NamesSigned(log', At(d, made' + 1))
  BY <1>1, <1>3, <1>5, AtFacts
<1>6. \A u \in Threads \ {t} : pc'[u] = pc[u] /\ call'[u] = call[u]
  BY <1>1 DEF AppendEvent, Inv, TypeOK
<1>7. ASSUME NEW u \in Threads \ {t} PROVE Shown(u)'
  <2>1. Shown(u)
    BY DEF Naming
  <2> QED BY <1>1, <1>3, <1>5, <1>6, <2>1 DEF Shown
<1>8. pc'[t] \notin {"number", "append"}
  BY <1>1 DEF AfterAppend, Inv, TypeOK
<1>9. \/ call'[t].draft = Nothing.draft /\ call'[t].due = {}
      \/ call'[t] = call[t]
      \/ \E d \in c.due : call'[t].draft = d /\ call'[t].due = c.due \ {d}
  <2>1. CASE c.due # {}
    <3>1. PICK d \in c.due : call' = [call EXCEPT ![t] = [c EXCEPT !.draft = d, !.due = c.due \ {d}]]
      BY <2>1 DEF AppendEvent
    <3> QED BY <3>1 DEF Inv, TypeOK
  <2>2. CASE c.due = {}
    BY <2>2, NothingFacts DEF AppendEvent, Inv, TypeOK
  <2> QED BY <2>1, <2>2
<1>10. ~Generated(Nothing.draft) /\ Nothing.draft \in Event
  BY NothingFacts DEF Generated
<1>11. NamesSigned(log, At(Nothing.draft, made + 1))
  BY <1>1, <1>10, NamesNothing
<1>12. \A d \in {draft} \cup c.due : NamesSigned(log, At(d, made + 1))
  BY DEF Naming, Shown
<1>13. \A d \in {call'[t].draft} \cup call'[t].due : d \in Event /\ NamesSigned(log, At(d, made + 1))
  BY <1>1, <1>9, <1>10, <1>11, <1>12
<1>14. Shown(t)'
  BY <1>5, <1>8, <1>13 DEF Shown
<1> QED BY <1>4, <1>7, <1>14 DEF Naming

\* A thread that goes on with what it was at, or is lost, names nothing new.
LEMMA OtherNaming ==
  ASSUME Inv, Naming, NEW t \in Threads, ParkClaim(t) \/ Lose(t)
  PROVE  Naming'
<1>1. Silent(t)
  BY DEF ParkClaim, Lose, tables, stamps, Silent, Inv, TypeOK
<1>2. call'[t] = call[t] \/ call'[t] = Nothing
  BY DEF ParkClaim, Lose, Inv, TypeOK
<1>3. ~Generated(Nothing.draft) /\ Nothing.draft \in Event /\ Nothing.due = {}
  BY NothingFacts DEF Generated
<1>4. NamesSigned(log, At(Nothing.draft, made + 1))
  BY <1>3, MadeNat, NamesNothing
<1>5. \A d \in {call'[t].draft} \cup call'[t].due : NamesSigned(log, At(d, made + 1))
  BY <1>2, <1>3, <1>4 DEF Naming, Shown
<1> QED BY <1>1, <1>5, SilentNaming

LEMMA NamingStep == Inv /\ Naming /\ [LensNext]_vars => Naming'
<1> SUFFICES ASSUME Inv, Naming, [LensNext]_vars PROVE Naming'
  OBVIOUS
<1>1. ASSUME NEW t \in Threads, Step(t) PROVE Naming'
  <2>1. ASSUME NEW c \in Claims, ParkArtifact(t, c) PROVE Naming'
    BY <2>1, NotTelling, ServicesNaming
  <2>2. ASSUME NEW c \in Claims, Grill(t, c) PROVE Naming'
    BY <2>2, NotTelling, ServicesNaming, VerdictNaming DEF Grill
  <2>3. ASSUME NEW c \in Claims, Evidence(t, c) PROVE Naming'
    BY <2>3, NotTelling, ServicesNaming DEF Evidence
  <2>4. ASSUME NEW c \in Claims, Gate(t, c) PROVE Naming'
    <3>1. ASSUME NEW g \in log, Confirm(t, g) PROVE Naming'
      BY <3>1, ConfirmingSilent, ConfirmingNaming
    <3>2. ASSUME NEW g \in log, Retract(t, g) PROVE Naming'
      BY <3>2, NotTelling, ServicesNaming
    <3>3. ASSUME NEW ids, BatchConfirm(t, c, ids) PROVE Naming'
      BY <3>3, NotTelling, ServicesNaming
    <3>4. CASE Promote(t, c)
      BY <3>4, NotTelling, ServicesNaming
    <3> QED BY <2>4, <3>1, <3>2, <3>3, <3>4 DEF Gate, Stream
  <2>5. CASE ParkClaim(t) \/ Lose(t)
    BY <2>5, OtherNaming
  <2>6. ASSUME NEW m \in Materials, CollectNext(t, m) PROVE Naming'
    BY <2>6, NotTelling, ServicesNaming, IdsAssumption
  <2>7. ASSUME NEW g \in log, BatchConfirmNext(t, g) PROVE Naming'
    BY <2>7, ConfirmingSilent, ConfirmingNaming
  <2>8. CASE Stamp(t) \/ ReadSeq(t)
    BY <2>8, RedraftNaming
  <2>9. CASE AppendEvent(t)
    BY <2>9, AppendEventNaming
  <2> QED BY <1>1, <2>1, <2>2, <2>3, <2>4, <2>5, <2>6, <2>7, <2>8, <2>9 DEF Step, Service
<1>2. ASSUME NEW t \in Threads, LensStep(t) PROVE Naming'
  <2>1. Silent(t)
    BY <1>2, LensNotTelling
  <2> QED BY <1>2, <2>1, AutoChallengeNaming, AssessTasteNaming, ScanContradictionsNaming,
             ScanNextNaming, LinkClaimsNaming DEF LensStep, LensCall
<1>3. CASE UNCHANGED vars
  BY <1>3 DEF vars, Naming, OnlySignedIsNamed, Shown
<1> QED BY <1>1, <1>2, <1>3 DEF LensNext

\* Whatever others sign and take back while the model is asked: an event that the
\* Lens or the grill generates names only what had a signature before the event.
THEOREM OnlySignedIsNamedHolds == LensSpec => []OnlySignedIsNamed
<1>1. Naming => OnlySignedIsNamed
  BY DEF Naming
<1> QED BY <1>1, InitInv, InitNaming, StepInv, NamingStep, PTL DEF LensSpec
-----------------------------------------------------------------------------
\* Only an append writes an event.
LEMMA StepsAre ==
  ASSUME Inv, NEW t \in Threads, Step(t) \/ LensStep(t)
  PROVE  Silent(t) \/ Stamp(t) \/ ReadSeq(t) \/ AppendEvent(t)
<1>1. LensStep(t) => Silent(t)
  BY LensNotTelling
<1>2. ASSUME NEW c \in Claims, ParkArtifact(t, c) \/ Grill(t, c) \/ Evidence(t, c) PROVE Silent(t)
  BY <1>2, NotTelling
<1>3. ASSUME NEW c \in Claims, Gate(t, c) PROVE Silent(t)
  BY <1>3, NotTelling, ConfirmingSilent DEF Gate, Stream
<1>4. ASSUME NEW m, CollectNext(t, m) PROVE Silent(t)
  BY <1>4, NotTelling, IdsAssumption
<1>5. ASSUME NEW g \in log, BatchConfirmNext(t, g) PROVE Silent(t)
  BY <1>5, ConfirmingSilent
<1>6. ParkClaim(t) \/ Lose(t) => Silent(t)
  BY DEF ParkClaim, Lose, tables, stamps, Silent, Inv, TypeOK
<1> QED BY <1>1, <1>2, <1>3, <1>4, <1>5, <1>6 DEF Step, Service

LEMMA OnlyAppendWrites ==
  ASSUME Inv, [LensNext]_vars, log' # log
  PROVE  \E t \in Threads : AppendEvent(t)
BY StepsAre DEF LensNext, vars, Silent, Stamp, ReadSeq, tables, stamps

\* No event but a retraction takes back what was signed.
LEMMA SignedGrows ==
  ASSUME NEW S, NEW e, e.type # "retract"
  PROVE  Signed(S) \subseteq Signed(S \cup {e})
<1> DEFINE T == S \cup {e}
<1>1. Retracted(T) = Retracted(S)
  BY DEF Retracted, OfType
<1>2. Confirmed(S) \subseteq Confirmed(T)
  BY <1>1 DEF Confirmed, OfType
<1> HIDE DEF T
<1>3. S \subseteq T
  BY DEF T
<1>4. Signed(S) \subseteq Signed(T)
  BY <1>1, <1>2, <1>3 DEF Signed
<1> QED BY <1>4 DEF T

\* It signs one event at most, itself or the one that it confirms.
LEMMA SignedOneMore ==
  ASSUME NEW S, NEW e, e.type # "retract", \A f, g \in S : f.id = g.id => f = g
  PROVE  \E x : OfType(Signed(S \cup {e}), "verdict") \subseteq OfType(Signed(S), "verdict") \cup {x}
<1> DEFINE T == S \cup {e}
<1>1. Retracted(T) = Retracted(S)
  BY DEF Retracted, OfType
<1>2. CASE e.type # "confirm"
  <2>1. Confirmed(T) = Confirmed(S)
    BY <1>1, <1>2 DEF Confirmed, OfType
  <2>2. OfType(Signed(T), "verdict") \subseteq OfType(Signed(S), "verdict") \cup {e}
    BY <1>1, <2>1 DEF Signed, OfType
  <2> QED BY <2>2
<1>3. CASE e.type = "confirm"
  <2>1. Confirmed(T) \subseteq Confirmed(S) \cup {e.about}
    BY <1>1 DEF Confirmed, OfType
  <2>2. PICK x : \A f \in S : f.id = e.about => f = x
    OBVIOUS
  <2>3. OfType(Signed(T), "verdict") \subseteq OfType(Signed(S), "verdict") \cup {x}
    BY <1>1, <1>3, <2>1, <2>2 DEF Signed, OfType
  <2> QED BY <2>3
<1> QED BY <1>2, <1>3

\* The order in which a stream is read is one.
LEMMA OrderFacts ==
  /\ \A e \in Event : ~Precedes(e, e)
  /\ \A e, f, g \in Event : Precedes(e, f) /\ Precedes(f, g) => Precedes(e, g)
BY DEF Precedes, Event

\* The newest of some events and one more is one of these or that one.
LEMMA NewestStays ==
  ASSUME NEW V \in SUBSET Event, NEW W \in SUBSET Event, NEW x, V \subseteq W, W \subseteq V \cup {x},
         Newest(V) # {}
  PROVE  Newest(W) # {}
<1>1. PICK v \in V : \A f \in V : ~Precedes(v, f)
  BY DEF Newest
<1>2. CASE x \in W /\ Precedes(v, x)
  <2>1. \A f \in V : ~Precedes(x, f)
    BY <1>1, <1>2, OrderFacts
  <2>2. ~Precedes(x, x)
    BY <1>2, OrderFacts
  <2> QED BY <1>2, <2>1, <2>2 DEF Newest
<1>3. CASE x \notin W \/ ~Precedes(v, x)
  <2>1. v \in W /\ \A f \in W : ~Precedes(v, f)
    BY <1>1, <1>3
  <2> QED BY <2>1 DEF Newest
<1> QED BY <1>2, <1>3

\* A claim is grilled when some verdict rules.
LEMMA GrilledIffRuled ==
  ASSUME NEW S, \A e \in S : WellFormed(e)
  PROVE  ClaimStatus(S) \in GrilledStatuses <=> Ruling(S) # {}
<1>1. \A v \in Ruling(S) : v.what = "survive" \/ v.what \in DeathCauses
  BY DEF Ruling, Newest, OfType, Signed, WellFormed, Outcomes
<1>2. ClaimStatus(S) \in GrilledStatuses <=> Survived(S) \/ Killed(S)
  BY DEF ClaimStatus, GrilledStatuses
<1> QED BY <1>1, <1>2 DEF Survived, Killed

LEMMA TakesBackStep ==
  ASSUME Inv, Inv', Reported, [LensNext]_vars, log' # log, NEW c \in claims,
         \/ ClaimStatus(Stream(c)) \in GrilledStatuses /\ ClaimStatus(Stream(c)') \notin GrilledStatuses
         \/ \E edge \in GraphEdges(c) : edge \notin GraphEdges(c)'
  PROVE  \E e \in log' \ log : e.type = "retract" /\ e.at = c
<1>1. PICK t \in Threads : AppendEvent(t)
  BY OnlyAppendWrites
<1> DEFINE e == call[t].draft
<1>2. log' = log \cup {e} /\ UNCHANGED <<claims, materials>>
  BY <1>1 DEF AppendEvent
<1>3. e \in log' \ log
  BY <1>2
<1> HIDE DEF e
<1> SUFFICES ASSUME ~(e.type = "retract" /\ e.at = c) PROVE FALSE
  BY <1>3
<1> DEFINE S == {f \in log : f.at = c}
           T == {f \in log' : f.at = c}
<1>4. Stream(c) = S /\ Stream(c)' = T
  BY DEF Stream
<1>5. T = S \/ (e.at = c /\ T = S \cup {e})
  BY <1>2
<1>6. /\ S \subseteq Event /\ T \subseteq Event /\ (\A f, g \in S : f.id = g.id => f = g)
      /\ (\A f \in S : WellFormed(f)) /\ (\A f \in T : WellFormed(f))
  BY DEF Inv, TypeOK, Causes, Past, Reported, Unique
<1> HIDE DEF S, T
<1>7. Signed(S) \subseteq Signed(T)
  BY <1>5, SignedGrows
<1>8. ASSUME Ruling(S) # {} PROVE Ruling(T) # {}
  <2>1. PICK x : OfType(Signed(T), "verdict") \subseteq OfType(Signed(S), "verdict") \cup {x}
    BY <1>5, <1>6, SignedOneMore
  <2> DEFINE V == OfType(Signed(S), "verdict")
             W == OfType(Signed(T), "verdict")
  <2>2. V \in SUBSET Event /\ W \in SUBSET Event /\ V \subseteq W /\ W \subseteq V \cup {x}
    BY <1>6, <1>7, <2>1 DEF OfType, Signed
  <2>3. Newest(V) # {}
    BY <1>8 DEF Ruling
  <2> HIDE DEF V, W
  <2>4. Newest(W) # {}
    BY <2>2, <2>3, NewestStays
  <2> QED BY <2>4 DEF Ruling, W
<1>9. ~(ClaimStatus(S) \in GrilledStatuses /\ ClaimStatus(T) \notin GrilledStatuses)
  BY <1>6, <1>8, GrilledIffRuled
<1>10. \A f : EdgesOf(f)' = EdgesOf(f)
  BY <1>2 DEF EdgesOf
<1>11. GraphEdges(c)' = UNION {EdgesOf(f) : f \in Signed(T)}
  BY <1>4, <1>10 DEF GraphEdges
<1>12. GraphEdges(c) \subseteq GraphEdges(c)'
  BY <1>4, <1>7, <1>11 DEF GraphEdges
<1> QED BY <1>4, <1>9, <1>12

\* The Lens and the graph lose a claim or an edge to a retraction on its stream alone,
\* for any library and any number of services at work on it.
THEOREM OnlyRetractionTakesBackHolds == LensSpec => OnlyRetractionTakesBack
<1> DEFINE A ==
      log' # log =>
        \A c \in claims :
          \/ ClaimStatus(Stream(c)) \in GrilledStatuses /\ ClaimStatus(Stream(c)') \notin GrilledStatuses
          \/ \E edge \in GraphEdges(c) : edge \notin GraphEdges(c)'
          => \E e \in log' \ log : e.type = "retract" /\ e.at = c
<1>1. Inv /\ Inv' /\ Reported /\ [LensNext]_vars => A
  BY TakesBackStep
<1>2. Inv /\ Inv' /\ Reported /\ [LensNext]_vars => [A]_vars
  BY <1>1
<1> HIDE DEF A
<1>3. LensSpec => [][A]_vars
  BY <1>2, InitInv, InitReported, StepInv, ReportedStep, PTL DEF LensSpec
<1> QED BY <1>3 DEF OnlyRetractionTakesBack, A
-----------------------------------------------------------------------------
\* A set of naturals that is not empty has a least one.
LEMMA LeastNatural ==
  ASSUME NEW T \in SUBSET Nat, T # {}
  PROVE  \E m \in T : \A k \in T : m <= k
<1>1. PICK R : R = OpToRel(<, Nat)
  OBVIOUS
<1>2. IsWellFoundedOn(R, Nat)
  BY <1>1, NatLessThanWellFounded
<1>3. PICK m \in T : \A k \in T : ~(<<k, m>> \in R)
  BY <1>2, WFMin
<1>4. \A x, y \in Nat : <<y, x>> \in R <=> y < x
  BY <1>1 DEF OpToRel
<1>5. \A k \in T : k \in Nat /\ m \in Nat /\ ~(k < m)
  BY <1>3, <1>4
<1>6. \A k \in T : m <= k
  BY <1>5
<1> QED BY <1>6

\* What the document showed once i events were read.
Shows(E, i) == IF i = 0 THEN {} ELSE DocProjection(Until(E, i))

\* g is the recursive function of SnapshotProjection.
Stepping(g, E, n) ==
  g = [i \in 0..n |->
        IF i = 0 THEN [doc |-> {}, versions |-> {}]
        ELSE LET now == DocProjection(Until(E, i))
                 before == g[i - 1]
             IN IF now = before.doc THEN before
                ELSE [doc |-> now,
                      versions |-> before.versions \cup {DocVersion(i, before.doc, now)}]]

\* There is such a function: its versions are those of the events that changed something.
LEMMA SteppingExists ==
  ASSUME NEW E, NEW n \in Nat
  PROVE  \E g : Stepping(g, E, n)
<1> DEFINE V(j) == DocVersion(j, Shows(E, j - 1), Shows(E, j))
           past(i) == {V(j) : j \in {k \in 1..i : Shows(E, k) # Shows(E, k - 1)}}
           g == [i \in 0..n |-> [doc |-> Shows(E, i), versions |-> past(i)]]
<1>1. ASSUME NEW i \in 0..n
      PROVE  g[i] = IF i = 0 THEN [doc |-> {}, versions |-> {}]
                    ELSE LET now == DocProjection(Until(E, i))
                             before == g[i - 1]
                         IN IF now = before.doc THEN before
                            ELSE [doc |-> now,
                                  versions |-> before.versions \cup {DocVersion(i, before.doc, now)}]
  <2>1. CASE i = 0
    <3>1. past(0) = {} /\ Shows(E, 0) = {}
      BY DEF Shows
    <3>2. g[i] = [doc |-> Shows(E, 0), versions |-> past(0)]
      BY <2>1
    <3> HIDE DEF g, past
    <3> QED BY <2>1, <3>1, <3>2
  <2>2. CASE i # 0
    <3>1. /\ g[i].doc = Shows(E, i) /\ g[i].versions = past(i)
          /\ g[i] = [doc |-> Shows(E, i), versions |-> past(i)]
      OBVIOUS
    <3>2. i - 1 \in 0..n
      BY <2>2
    <3>3. g[i - 1] = [doc |-> Shows(E, i - 1), versions |-> past(i - 1)]
      BY <3>2
    <3>4. Shows(E, i) = DocProjection(Until(E, i))
      BY <2>2 DEF Shows
    <3>5. 1..i = (1..(i - 1)) \cup {i}
      BY <2>2
    <3>6. past(i) = IF Shows(E, i) = Shows(E, i - 1) THEN past(i - 1)
                    ELSE past(i - 1) \cup {DocVersion(i, Shows(E, i - 1), Shows(E, i))}
      <4> HIDE DEF g
      <4> QED BY <3>5
    <3> HIDE DEF g, past
    <3>7. g[i - 1].doc = Shows(E, i - 1) /\ g[i - 1].versions = past(i - 1)
      BY <3>3
    <3> QED BY <2>2, <3>1, <3>3, <3>4, <3>6, <3>7
  <2> QED BY <2>1, <2>2
<1>2. Stepping(g, E, n)
  <2> HIDE DEF g
  <2>1. g = [i \in 0..n |-> g[i]]
    BY DEF g
  <2> QED BY <1>1, <2>1 DEF Stepping
<1> QED BY <1>2

\* A version that says what came and what went takes the replay from what the
\* document showed before to what it shows now.
LEMMA ReplayStep ==
  ASSUME NEW versions, NEW i \in Nat, \A v \in versions : v.at \in Nat /\ v.at < i,
         NEW before, NEW now, Replayed(versions) = before
  PROVE  Replayed(versions \cup {DocVersion(i, before, now)}) = now
<1> DEFINE u == DocVersion(i, before, now)
           more == versions \cup {u}
<1>1. u.at = i /\ u.added = now \ before /\ u.removed = before \ now
  BY DEF DocVersion
<1> HIDE DEF u
<1>2. \A v \in more : v.at \in Nat /\ ~(v.at > u.at)
  BY <1>1
<1>3. \A e : e \in before <=> \E v \in versions :
                e \in v.added /\ \A w \in versions : w.at > v.at => e \notin w.removed
  BY DEF Replayed
<1>4. \A e : e \in Replayed(more) <=> \E v \in more :
                e \in v.added /\ \A w \in more : w.at > v.at => e \notin w.removed
  <2> HIDE DEF more
  <2> QED BY DEF Replayed
<1>5. \A v \in versions : u.at > v.at
  BY <1>1
<1>6. ASSUME NEW e \in now PROVE e \in Replayed(more)
  <2>1. CASE e \in before
    <3>1. PICK v \in versions : e \in v.added /\ \A w \in versions : w.at > v.at => e \notin w.removed
      BY <1>3, <2>1
    <3>2. \A w \in more : w.at > v.at => e \notin w.removed
      BY <1>1, <1>6, <3>1
    <3> QED BY <1>4, <3>1, <3>2
  <2>2. CASE e \notin before
    <3>1. u \in more /\ e \in u.added
      BY <1>1, <1>6, <2>2
    <3> QED BY <1>2, <1>4, <3>1
  <2> QED BY <2>1, <2>2
<1>7. ASSUME NEW e \in Replayed(more) PROVE e \in now
  <2>1. PICK v \in more : e \in v.added /\ \A w \in more : w.at > v.at => e \notin w.removed
    BY <1>4, <1>7
  <2>2. CASE v = u
    BY <1>1, <2>1, <2>2
  <2>3. CASE v \in versions
    <3>1. e \in before
      BY <1>3, <2>1, <2>3
    <3>2. e \notin u.removed
      BY <1>5, <2>1, <2>3
    <3> QED BY <1>1, <3>1, <3>2
  <2> QED BY <2>1, <2>2, <2>3
<1> QED BY <1>6, <1>7 DEF u

\* After every event the versions so far replay what the document shows.
Replays(g, E, i) ==
  /\ g[i].doc = Shows(E, i) /\ Replayed(g[i].versions) = Shows(E, i)
  /\ \A v \in g[i].versions : v.at \in Nat /\ v.at <= i

LEMMA SteppingReplays ==
  ASSUME NEW E, NEW n \in Nat, NEW g, Stepping(g, E, n)
  PROVE  \A i \in 0..n : Replays(g, E, i)
<1> SUFFICES ASSUME ~ \A i \in 0..n : Replays(g, E, i) PROVE FALSE
  OBVIOUS
<1> DEFINE Bad == {i \in 0..n : ~Replays(g, E, i)}
<1>1. PICK i \in Bad : \A k \in Bad : i <= k
  <2>1. Bad \in SUBSET Nat /\ Bad # {}
    OBVIOUS
  <2> HIDE DEF Bad
  <2> QED BY <2>1, LeastNatural
<1>2. i \in 0..n /\ ~Replays(g, E, i)
  OBVIOUS
<1>3. CASE i = 0
  <2>1. g[0] = [doc |-> {}, versions |-> {}]
    BY <1>2, <1>3 DEF Stepping
  <2>2. Replayed({}) = {}
    BY DEF Replayed
  <2> QED BY <1>2, <1>3, <2>1, <2>2 DEF Replays, Shows
<1>4. CASE i # 0
  <2> DEFINE before == g[i - 1]
             now == DocProjection(Until(E, i))
  <2>1. i - 1 \in 0..n /\ i - 1 < i /\ i \in Nat
    BY <1>2, <1>4
  <2>2. Replays(g, E, i - 1)
    <3>1. i - 1 \notin Bad
      BY <1>1, <2>1
    <3> QED BY <2>1, <3>1
  <2>3. now = Shows(E, i)
    BY <1>4 DEF Shows
  <2>4. g[i] = IF now = before.doc THEN before
               ELSE [doc |-> now, versions |-> before.versions \cup {DocVersion(i, before.doc, now)}]
    BY <1>2, <1>4 DEF Stepping
  <2>5. /\ before.doc = Shows(E, i - 1) /\ Replayed(before.versions) = before.doc
        /\ \A v \in before.versions : v.at \in Nat /\ v.at <= i - 1
    BY <2>2 DEF Replays
  <2>6. \A v \in before.versions : v.at \in Nat /\ v.at < i /\ v.at <= i
    BY <2>1, <2>5
  <2> HIDE DEF before, now
  <2>7. CASE now = before.doc
    BY <1>2, <2>3, <2>4, <2>5, <2>6, <2>7 DEF Replays
  <2>8. CASE now # before.doc
    <3> DEFINE v == DocVersion(i, before.doc, now)
    <3>1. Replayed(before.versions \cup {v}) = now
      BY <2>1, <2>5, <2>6, ReplayStep
    <3>2. g[i].doc = now /\ g[i].versions = before.versions \cup {v}
      BY <2>4, <2>8
    <3>3. v.at = i
      BY DEF DocVersion
    <3> HIDE DEF v
    <3> QED BY <1>2, <2>1, <2>3, <2>6, <3>1, <3>2, <3>3 DEF Replays
  <2> QED BY <2>7, <2>8
<1> QED BY <1>3, <1>4

\* Once all events are read the stream is.
LEMMA UntilAll ==
  ASSUME NEW E \in SUBSET Event, IsFiniteSet(E)
  PROVE  Cardinality(E) \in Nat /\ Until(E, Cardinality(E)) = E
<1>1. ASSUME NEW e \in E PROVE Cardinality({f \in E : Precedes(f, e)}) < Cardinality(E)
  <2> DEFINE before == {f \in E : Precedes(f, e)}
  <2>1. before \subseteq E /\ before # E
    BY OrderFacts
  <2> HIDE DEF before
  <2>2. Cardinality(before) <= Cardinality(E) /\ Cardinality(before) # Cardinality(E)
    BY <2>1, FS_Subset
  <2>3. Cardinality(before) \in Nat /\ Cardinality(E) \in Nat
    BY <2>1, FS_Subset, FS_CardinalityType
  <2> QED BY <2>2, <2>3 DEF before
<1>2. Cardinality(E) \in Nat
  BY FS_CardinalityType
<1> QED BY <1>1, <1>2 DEF Until

\* Whatever the events of a stream, the versions of its document replay it.
LEMMA VersionsReplay ==
  ASSUME NEW E \in SUBSET Event, IsFiniteSet(E)
  PROVE  Replayed(SnapshotProjection(E)) = DocProjection(E)
<1> DEFINE n == Cardinality(E)
           g == CHOOSE g : Stepping(g, E, n)
<1>0. n \in Nat /\ Until(E, n) = E
  BY UntilAll
<1>1. Stepping(g, E, n)
  <2> HIDE DEF n
  <2> QED BY <1>0, SteppingExists
<1>2. SnapshotProjection(E) = g[n].versions
  BY DEF SnapshotProjection, Stepping
<1> HIDE DEF g
<1>3. n \in 0..n
  BY <1>0
<1>4. Replays(g, E, n)
  <2> HIDE DEF n
  <2> QED BY <1>0, <1>1, <1>3, SteppingReplays
<1>5. CASE n # 0
  BY <1>0, <1>2, <1>4, <1>5 DEF Replays, Shows
<1>6. CASE n = 0
  <2>1. E = {}
    BY <1>6, FS_EmptySet
  <2>2. DocProjection({}) = {}
    BY DEF DocProjection, Signed
  <2> QED BY <1>2, <1>4, <1>6, <2>1, <2>2 DEF Replays, Shows
<1> QED BY <1>5, <1>6

LEMMA ReplayedStep ==
  ASSUME Inv, Inv', [LensNext]_vars, log' # log, NEW c \in claims
  PROVE  \A stream \in {Stream(c)'} \ {Stream(c)} : \A versions \in {SnapshotProjection(stream)} :
           DocProjection(stream) = Replayed(versions)
<1> SUFFICES ASSUME NEW stream, stream = {e \in log' : e.at = c}
             PROVE  DocProjection(stream) = Replayed(SnapshotProjection(stream))
  BY DEF Stream
<1>1. log' \subseteq Event /\ IsFiniteSet(log')
  BY DEF Inv, TypeOK, Causes, Past
<1>2. stream \in SUBSET Event /\ IsFiniteSet(stream)
  BY <1>1, FS_Subset
<1> QED BY <1>2, VersionsReplay

\* The history of a document, replayed version by version, gives the document,
\* whatever was signed, retracted or appended late, with the Lens at work
THEOREM LensVersionsReplayDoc == LensSpec => VersionsReplayDoc
<1> DEFINE A ==
      log' # log =>
        \A c \in claims : \A stream \in {Stream(c)'} \ {Stream(c)} :
          \A versions \in {SnapshotProjection(stream)} :
            DocProjection(stream) = Replayed(versions)
<1>1. Inv /\ Inv' /\ [LensNext]_vars => [A]_vars
  BY ReplayedStep
<1> HIDE DEF A
<1>2. LensSpec => [][A]_vars
  BY <1>1, InitInv, StepInv, PTL DEF LensSpec
<1> QED BY <1>2 DEF VersionsReplayDoc, A

\* and without it.
THEOREM VersionsReplayDocHolds == Spec => VersionsReplayDoc
BY LensIncludesServices, LensVersionsReplayDoc, PTL
=============================================================================
