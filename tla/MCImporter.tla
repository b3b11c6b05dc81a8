------------------------------ MODULE MCImporter ------------------------------
(***************************************************************************)
(* A small instance of Importer: an application and two importers, a paper *)
(* whose rows and file disagree, one of control characters only, one whose *)
(* file is its row without them, and one with text in its file only.       *)
(***************************************************************************)
EXTENDS Importer

Clean(n) == [plain |-> n, controls |-> FALSE]
Dirty(n) == [plain |-> n, controls |-> TRUE]
Row(key, text) == [key |-> key, text |-> text]

Docs == <<Row(1, Clean(5)), Row(2, Dirty(0)), Row(3, Dirty(9)), Row(1, Dirty(6)), Row(4, Empty)>>
Parsed == [k \in {1, 3, 4} |-> Clean(6 + k)]
Typed == Clean(99)
=============================================================================
