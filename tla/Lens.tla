--------------------------------- MODULE Lens ---------------------------------
(***************************************************************************)
(* The Lens over the archived trajectories: services that read the streams *)
(* of every claim of the library and let the model propose challenges and  *)
(* links that name other claims.  They eat only claims that were grilled:  *)
(* those with a verdict somebody signed.                                   *)
(*                                                                         *)
(* The library is read stream by stream before the model is asked, so by   *)
(* the time a proposal is appended other threads may have signed or        *)
(* retracted what it was drawn from.                                       *)
(***************************************************************************)
EXTENDS Trajectory

CONSTANTS
  Terms,            \* Terms[c]: the topic words of the body of claim c
  TopK,             \* how many candidates the lexical filter lets through
  PrecedentBudget   \* how many kills are shown to the model

ASSUME TermsAssumption == DOMAIN Terms = Claims /\ TopK \in Nat /\ PrecedentBudget \in Nat

\* The events of claim c that somebody had signed before event i was made.
SignedBefore(E, c, i) ==
  LET before == {e \in E : e.at = c /\ e.id < i}
      signed == {k.about : k \in OfType(before, "confirm")}
  IN {e \in before : e.id \in signed}

\* What the model writes, naming claims and papers that it was shown.
Generated(e) ==
  \/ e.type = "link"
  \/ e.type \in {"challenge", "verdict"} /\ e.what \notin {"boundary", "evidence_contradiction"}

\* What a generated event names in the library E was signed before it.
NamesSigned(E, e) ==
  Generated(e) =>
    /\ \A d \in e.cites \cap Claims : \E v \in OfType(SignedBefore(E, d, e.id), "verdict") :
         /\ e.what = "contradicts_survived" => v.what = "survive"
         /\ e.what \in {"contradicts_killed", "question"} => v.what \in DeathCauses
    /\ \A m \in e.cites \cap Materials :
         \E g \in OfType(SignedBefore(E, e.at, e.id), "ground") : m \in g.cites

\* The archive was written by these services.
ASSUME ArchiveAssumption == \A e \in OldLog : NamesSigned(OldLog, e)
-----------------------------------------------------------------------------
\* Whom the model is shown.
GrilledStatuses == {"survived", "killed"}

\* Mistake: a proposed verdict is enough.
GrilledUnsigned == {c \in claims : RulingUnsigned(Stream(c)) # {}}

GrilledClaims == {c \in claims : ClaimStatus(Stream(c)) \in GrilledStatuses}

Overlap(c, d) == Cardinality(Terms[c] \cap Terms[d])

\* The order of the shortlist: more topic words in common, then the smaller id.
Better(c, d, e) ==
  \/ Overlap(c, d) > Overlap(c, e)
  \/ Overlap(c, d) = Overlap(c, e) /\ d < e

\* prefilter_candidates
Prefilter(c, candidates) ==
  {d \in candidates :
     /\ Overlap(c, d) > 0
     /\ Cardinality({e \in candidates : Better(c, e, d)}) < TopK}

Shortlist(c) == Prefilter(c, GrilledClaims \ {c})

\* The kills of the library, the latest first, whatever they are about; of two at
\* the same time that of the greater claim.
KillPrecedents(c) ==
  LET killed == {d \in claims \ {c} : Killed(Stream(d))}
      newer(d) ==
        {e \in killed : \E v \in Ruling(Stream(e)), w \in Ruling(Stream(d)) :
           v.ts > w.ts \/ (v.ts = w.ts /\ e > d)}
  IN {d \in killed : Cardinality(newer(d)) < PrecedentBudget}

-----------------------------------------------------------------------------
\* GrillService.auto_challenge: aimed with the signed evidence and past kills; what
\* the model says it used is kept only if it was shown.
AutoChallenge(t, c, refs) ==
  /\ WasParked(Stream(c))
  /\ Begin(t, "auto_challenge",
           NewEvent("challenge", c, "question", 0, refs \cup GroundedMaterials(Stream(c))))

\* LensService.scan_contradictions: the shortlist is fixed, then judged one by one.
ScanContradictions(t, c) ==
  /\ pc[t] = "idle" /\ Within(t, "scan", "challenge")
  /\ c \in artifacts /\ Shortlist(c) # {}
  /\ pc' = [pc EXCEPT ![t] = "next"]
  /\ call' = [call EXCEPT ![t] = [op |-> "scan", draft |-> NewEvent("challenge", c, "contradicts_survived", 0, {}),
                                  due |-> {}, todo |-> Shortlist(c)]]
  /\ UNCHANGED <<tables, stamps, confirmed>>

OutcomeOf(past) ==
  IF Survived(Stream(past)) THEN "contradicts_survived" ELSE "contradicts_killed"

\* The best of those left is read again, and skipped if its verdict is gone or the
\* model finds no tension with it.
ScanNext(t, past) ==
  LET c == call[t].draft.at  left == call[t].todo \ {past} IN
  /\ pc[t] = "next" /\ call[t].op = "scan" /\ past \in call[t].todo
  /\ \A other \in left : Better(c, past, other)
  /\ \/ /\ ClaimStatus(Stream(past)) \in GrilledStatuses
        /\ Proceed(t, "scan", NewEvent("challenge", c, OutcomeOf(past), 0, {past}), {}, left)
     \/ /\ pc' = [pc EXCEPT ![t] = IF left = {} THEN "idle" ELSE "next"]
        /\ call' = [call EXCEPT ![t] = IF left = {} THEN Nothing ELSE [@ EXCEPT !.todo = left]]
  /\ UNCHANGED <<tables, stamps, confirmed>>

\* LensService.assess_taste: silent without history; anchors that were not shown are
\* dropped, and a paper of the search is anchor enough.
AssessTaste(t, c, anchors) ==
  /\ c \in artifacts /\ Shortlist(c) # {}
  /\ Begin(t, "taste", NewEvent("challenge", c, "taste", 0, anchors))

Linked == UNION {{<<e.at, d>> : d \in e.cites} : e \in OfType(log, "link")}

\* The pairs the model is asked about: a grilled claim and one of its shortlist.
LinkCandidates ==
  LET grilled == GrilledClaims  linked == Linked
  IN {p \in grilled \X grilled :
        p[2] \in Prefilter(p[1], grilled \ {p[1]}) /\ p \notin linked}

\* LensService.compute_semantic_edges: of each pair at most one edge is kept.
LinkClaims(t, pairs, edge) ==
  LET links == {NewEvent("link", p[1], edge[p], 0, {p[2]}) : p \in pairs} IN
  /\ pc[t] = "idle" /\ Within(t, "link", "link")
  /\ pairs # {}
  /\ \E l \in links : Proceed(t, "link", l, links \ {l}, {})
  /\ UNCHANGED <<tables, stamps, confirmed>>
-----------------------------------------------------------------------------
\* LensService.corpus_graph: what is signed, and nothing else, relates two nodes.
EdgesOf(e) ==
  LET to(d, label) == [source |-> e.at, target |-> d, type |-> label]
      from(d, label) == [source |-> d, target |-> e.at, type |-> label]
      named == e.cites \cap claims  papers == e.cites \cap materials
  IN CASE e.what \in {"contradicts_survived", "contradicts_killed"} -> {to(d, "contradicts") : d \in named}
       [] e.type = "ground" /\ GroundStance(e) = "supports" -> {to(m, "grounds") : m \in papers}
       [] e.type = "ground" /\ GroundStance(e) = "contradicts" -> {from(m, "undermines") : m \in papers}
       [] e.type = "verdict" /\ e.what = "boundary" -> {from(d, "narrowed_from") : d \in named}
       [] e.type = "link" -> {to(d, e.what) : d \in named}
       [] OTHER -> {}

\* What the stream of claim c gives the graph.
GraphEdges(c) == UNION {EdgesOf(e) : e \in Signed(Stream(c))}
-----------------------------------------------------------------------------
LensCall(t) ==
  \/ \E c \in Claims :
       \/ \E refs \in SUBSET KillPrecedents(c) : AutoChallenge(t, c, refs)
       \/ \E anchors \in SUBSET Shortlist(c) : AssessTaste(t, c, anchors)
       \/ ScanContradictions(t, c)
  \/ \E pairs \in SUBSET LinkCandidates : \E edge \in [pairs -> EdgeTypes \cap Judged] :
       LinkClaims(t, pairs, edge)

LensStep(t) ==
  \/ pc[t] = "idle" /\ LensCall(t)
  \/ \E past \in Claims : ScanNext(t, past)

LensNext == \E t \in Threads : Step(t) \/ LensStep(t)
LensSpec == Init /\ [][LensNext]_vars
-----------------------------------------------------------------------------
\* lens_service.py: only grilled claims are eaten, grill_service.py: only signed kills
\* and signed evidence are shown.  Whatever a generated event names had a signature
\* that came before the event: a verdict that says how the named claim fared, or a
\* ground on the named paper.
OnlySignedIsNamed == \A e \in log : NamesSigned(log, e)

\* A claim leaves the set the Lens eats, and an edge the graph, by a retraction on
\* the stream it comes from and by nothing else: no later challenge, verdict or
\* bypass, signed or not, reopens the claim or takes the edge back.
OnlyRetractionTakesBack ==
  [][log' # log =>
       \A c \in claims :
         \/ ClaimStatus(Stream(c)) \in GrilledStatuses /\ ClaimStatus(Stream(c)') \notin GrilledStatuses
         \/ \E edge \in GraphEdges(c) : edge \notin GraphEdges(c)'
         => \E e \in log' \ log : e.type = "retract" /\ e.at = c]_vars
=============================================================================
