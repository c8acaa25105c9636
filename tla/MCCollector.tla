---------------------------- MODULE MCCollector ----------------------------
(***************************************************************************)
(* Small heaps for the model checker.  The objects of the model are not    *)
(* interchangeable (a scan visits them in address order), so no symmetry   *)
(* is used.                                                                *)
(***************************************************************************)
EXTENDS Collector, TLC

CONSTANTS a, b, c, static

MCOneBlock == a :> 1 @@ b :> 1
=============================================================================
