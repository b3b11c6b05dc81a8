----------------------------- MODULE MCTrajectory -----------------------------
(***************************************************************************)
(* Small instances of Trajectory: two threads, one claim with a ground of  *)
(* before the three-state verdict, and a bound for every type of event.    *)
(***************************************************************************)
EXTENDS Trajectory, TLC

CONSTANTS t1, t2

Old(id, c, type, what, about, cites) ==
  [NewEvent(type, c, what, about, cites) EXCEPT !.id = id, !.ts = id, !.seq = id]

\* A claim under a question, with a paper that contradicts it, one that an old
\* event found not to support it, and a verdict nobody has signed.
Grilled ==
  {Old(1, 1, "park", "none", 0, {}), Old(2, 1, "challenge", "question", 0, {}),
   Old(3, 1, "ground", "contradicts", 0, {11}), Old(4, 1, "ground", "unsupported", 0, {11}),
   Old(5, 1, "verdict", "survive", 2, {})}

\* Every type of event may be added once, confirmations twice.
Limits ==
  [type \in EventTypes |->
     Cardinality(OfType(Grilled, type)) + (IF type = "confirm" THEN 2 ELSE 1)]

\* One thread serves the author of ideas, the other the one who signs; both confirm.
Sides ==
  t1 :> {"park", "verdict", "collect", "batch_confirm"}
  @@ t2 :> {"confirm", "retract", "promote"}
=============================================================================
