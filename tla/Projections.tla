----------------------------- MODULE Projections -----------------------------
(***************************************************************************)
(* The derived views of a trajectory (cui/domain): pure functions of the   *)
(* events of one artifact.  A park creates one artifact with one claim, so *)
(* a stream is the trajectory of one claim.                                *)
(*                                                                         *)
(* An event e carries                                                      *)
(*   e.id         its id; the ids are numbered as the events are made      *)
(*   e.ts, e.seq  its time, and its number on the stream                   *)
(*   e.at         the claim whose stream it is on                          *)
(*   e.type       park, challenge, answer, verdict, ground, ...            *)
(*   e.what       the judgement in its payload                             *)
(*   e.about      the event it is about (target_ref of a confirmation or a *)
(*                retraction, ground_event_id, challenge_id), 0 for none   *)
(*   e.cites      the claims and materials its payload names               *)
(*   e.confirmed, e.debt  the flags it is born with                        *)
(***************************************************************************)
EXTENDS Naturals, FiniteSets

GrillTypes == {"challenge", "answer", "verdict"}
MetaTypes == {"confirm", "retract"}
EventTypes ==
  GrillTypes \cup MetaTypes \cup {"park", "collect_material", "ground", "promote", "link"}

DeathCauses == {"refuted", "not_worth", "boundary", "circumstantial"}
Outcomes == {"survive"} \cup DeathCauses     \* a kill names how the claim died
GroundVerdicts == {"supports", "contradicts", "silent"}
LegacyGrounds == {"supported", "unsupported", "neither"}

OfType(E, type) == {e \in E : e.type = type}

\* The stores return the events of a stream by (ts, seq), and sorting them by ts
\* keeps that order.  Rows that agree in both come in an order the database
\* chooses: here that of their ids, in which either of two may come first.
Precedes(f, e) ==
  \/ f.ts < e.ts
  \/ f.ts = e.ts /\ f.seq < e.seq
  \/ f.ts = e.ts /\ f.seq = e.seq /\ f.id < e.id

Newest(E) == {e \in E : ~\E f \in E : Precedes(e, f)}

Retracted(E) == {e.about : e \in OfType(E, "retract")}

\* A confirmation that was itself retracted does not count.
Confirmed(E) ==
  LET undone == Retracted(E)
  IN {e.about : e \in {f \in OfType(E, "confirm") : f.id \notin undone}}

HasGrillEvents(E) == \E e \in E : e.type \in GrillTypes

\* The events of E a human stands behind and has not taken back.
Signed(E) ==
  LET done == Confirmed(E) undone == Retracted(E)
  IN {e \in E : (e.confirmed \/ e.id \in done) /\ e.id \notin undone}

\* Mistake: a verdict rules as soon as it is proposed.
RulingUnsigned(E) == Newest({e \in OfType(E, "verdict") : e.id \notin Retracted(E)})

\* The last signed verdict, {} if there is none.
Ruling(E) == Newest(OfType(Signed(E), "verdict"))

Survived(E) == \E v \in Ruling(E) : v.what = "survive"
Killed(E) == \E v \in Ruling(E) : v.what \in DeathCauses

\* Events of before the three-state verdict carry a flag; its FALSE is never guessed at.
GroundStance(e) ==
  CASE e.what \in GroundVerdicts -> e.what
    [] e.what = "supported" -> "supports"
    [] e.what = "unsupported" -> "not_supported"
    [] OTHER -> "none"

ConfirmedGroundEvidence(E) == OfType(Signed(E), "ground")

\* Mistake: a challenge after the verdict opens the claim again.
ClaimStatusReopened(E) ==
  IF \E e \in OfType(E, "challenge") : \A v \in Ruling(E) : Precedes(v, e) THEN "open"
  ELSE IF Survived(E) THEN "survived" ELSE "killed"

ClaimStatus(E) ==
  IF Survived(E) THEN "survived"
  ELSE IF Killed(E) THEN "killed"
  ELSE IF \E e \in OfType(E, "challenge") : e.id \notin Retracted(E) THEN "open"
  ELSE IF \E e \in OfType(E, "park") : e.id \notin Retracted(E) THEN "parked"
  ELSE "open"

HasUnresolvedDebt(E) == \E e \in E : e.debt /\ e.id \notin Confirmed(E)

Resolved(E) == Confirmed(E) \cup Retracted(E)

PendingEvents(E) ==
  {e \in E : ~e.confirmed /\ e.id \notin Resolved(E) /\ e.type \notin MetaTypes}

IsParked(E) == OfType(E, "park") # {} /\ ~HasGrillEvents(E)

\* What the document shows: signed content of a claim that was not killed, and
\* no verdict but those of a claim that survived.  A verdict that carries debt
\* stays out even when the debt is paid.
DocProjection(E) ==
  LET survived == Survived(E) killed == Killed(E)
  IN {e \in Signed(E) :
        /\ e.type \notin MetaTypes \cup {"park"}
        /\ ~e.debt
        /\ e.type = "verdict" => e.what = "survive" /\ survived
        /\ ~killed \/ e.type = "collect_material"}

CanPromote(E) == ~Killed(E) /\ Survived(E) /\ ~HasUnresolvedDebt(E)

\* The first i events of E.
Until(E, i) == {e \in E : Cardinality({f \in E : Precedes(f, e)}) < i}

\* Mistake: a version does not tell what left the document.
AdditionsOnly(i, old, now) == [at |-> i, added |-> now \ old, removed |-> {}]

DocVersion(i, old, now) == [at |-> i, added |-> now \ old, removed |-> old \ now]

\* The history of the document: a version for every event that changes what it
\* shows, with what came and what went.
SnapshotProjection(E) ==
  LET step[i \in 0..Cardinality(E)] ==
        IF i = 0 THEN [doc |-> {}, versions |-> {}]
        ELSE LET now == DocProjection(Until(E, i))
                 before == step[i - 1]
             IN IF now = before.doc THEN before
                ELSE [doc |-> now,
                      versions |-> before.versions \cup {DocVersion(i, before.doc, now)}]
  IN step[Cardinality(E)].versions
=============================================================================
