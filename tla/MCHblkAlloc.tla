----------------------------- MODULE MCHblkAlloc -----------------------------
(***************************************************************************)
(* Heap sections for the model checker: two that adjoin.                   *)
(***************************************************************************)
EXTENDS HblkAlloc

ASSUME HblkAssumption

MCSections == {<<0, 3>>, <<3, 4>>}
MCSixSections == {<<0, 3>>, <<3, 3>>}
=============================================================================
