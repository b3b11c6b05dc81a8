------------------------------- MODULE MCReview -------------------------------
(***************************************************************************)
(* A small instance of Review: two threads, a round, and command ids whose *)
(* uses are limited by a menu.                                             *)
(***************************************************************************)
EXTENDS Review, TLC

\* A round, a candidate or a move on the challenge, and what is done to challenge,
\* candidate and round after that, in rivalry.
Mixed ==
  ("k1" :> {"start"}) @@ ("k2" :> ProposalOps \cup {"answer", "withdraw"}) @@
  ("k3" :> {"confirm", "reject", "verdict"}) @@
  ("k4" :> {"correct", "withdraw_candidate", "verdict", "more", "defer"})

Symmetry == Permutations(Threads)
=============================================================================
