----------------------------- MODULE MCSemanticIndex -----------------------------
(* Two source files and one that has nothing to index, found in this       *)
(* order: the first two make a batch.                                      *)
EXTENDS SemanticIndex

BlankBetween == <<"f1", "e1", "f2">>
=============================================================================
