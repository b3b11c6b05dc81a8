------------------------------ MODULE MCCapture ------------------------------
(***************************************************************************)
(* A small instance of Capture: two threads, two papers, and command ids   *)
(* whose uses are limited by a menu.                                       *)
(***************************************************************************)
EXTENDS Capture, TLC

Use(op, at, about, locators) == [op |-> op, at |-> at, about |-> about, locators |-> locators]

\* What can be captured, added or sealed; what cites it again or releases it; a first
\* decision or a claim; a rival decision, a claim from the gap, a provenance.
Uses ==
  "k1" :> {Use("propose", "w1", <<>>, {"a"}), Use("add", "w1", <<>>, {"a"}),
           Use("capture", "w1", <<>>, {})} @@
  "k2" :> {Use("propose", "w1", <<>>, {"a", "b"}), Use("literature", "w1", <<"k1">>, {"b"}),
           Use("literature", "w1", <<>>, {"b"}), Use("add", "w1", <<>>, {"a"}),
           Use("release", "w1", <<"k1">>, {}), Use("release", "w2", <<"k1">>, {})} @@
  "k3" :> {Use("confirm", "w1", <<"k1">>, {}), Use("reject", "w1", <<"k1">>, {}),
           Use("claim", "w1", <<>>, {}), Use("release", "new", <<"k1">>, {}),
           Use("propose", "w2", <<>>, {"b"}), Use("add", "w1", <<>>, {})} @@
  "k4" :> {Use("correct", "w1", <<"k1">>, {}), Use("withdraw", "w1", <<"k1">>, {}),
           Use("claim", "w1", <<"k1">>, {}), Use("forge", "w1", <<"k3", "k2", "k1">>, {})}

Symmetry == Permutations(Threads)
=============================================================================
