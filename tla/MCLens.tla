-------------------------------- MODULE MCLens --------------------------------
(***************************************************************************)
(* Small instances of Lens: a claim that survived, one that was killed,    *)
(* and one with a signed ground and a boundary kill nobody has signed.      *)
(***************************************************************************)
EXTENDS Lens, TLC

CONSTANTS t1, t2

Old(id, c, type, what, about, cites) ==
  [NewEvent(type, c, what, about, cites) EXCEPT !.id = id, !.ts = id, !.seq = id]

Library ==
  {Old(1, 1, "park", "none", 0, {}), Old(2, 1, "challenge", "question", 0, {}),
   Old(3, 1, "verdict", "survive", 2, {}), Old(4, 1, "confirm", "none", 3, {}),
   Old(5, 2, "park", "none", 0, {}), Old(6, 2, "challenge", "question", 0, {}),
   Old(7, 2, "verdict", "refuted", 6, {}), Old(8, 2, "confirm", "none", 7, {}),
   Old(9, 3, "park", "none", 0, {}), Old(10, 3, "challenge", "question", 0, {}),
   Old(11, 3, "ground", "supports", 0, {11}), Old(12, 3, "confirm", "none", 11, {}),
   Old(13, 3, "verdict", "boundary", 10, {1})}

Words == 1 :> {"robots", "grip"} @@ 2 :> {"grip"} @@ 3 :> {"robots"}

\* Every type of event may be added once, links twice.
Limits ==
  [type \in EventTypes |->
     Cardinality(OfType(Library, type)) + (IF type = "link" THEN 2 ELSE 1)]

\* One thread proposes, the other signs and takes back; both link.
Sides ==
  t1 :> {"challenge", "auto_challenge", "scan", "taste", "link", "answer", "bypass", "auto_verdict", "ground"}
  @@ t2 :> {"confirm", "retract", "link"}
=============================================================================
