------------------------------ MODULE MCWorkspace ------------------------------
(***************************************************************************)
(* A small instance of Workspace: two threads, and command ids whose uses  *)
(* are limited by a menu.                                                  *)
(***************************************************************************)
EXTENDS Workspace, TLC

\* A workspace; another one or a conclusion; then moves, links, rephrasings and
\* crystallisations that get in each other's way.
RivalMenu ==
  ("k1" :> {"workspace"}) @@
  ("k2" :> {"workspace", "conclude"}) @@
  ("k3" :> {"note", "pause", "branch", "direction", "crystallize"}) @@
  ("k4" :> {"anchor", "reopen", "absorb", "rephrase", "attach", "detach", "crystal"}) @@
  ("k5" :> {"absorb", "conclude", "declare", "rephrase", "detach", "crystallize"})

Symmetry == Permutations(Threads)
=============================================================================
