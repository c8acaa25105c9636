---------------------------- MODULE MCVdbIsolate ----------------------------
(***************************************************************************)
(* Two isolates, a thread without a collector, and two heap sections.      *)
(***************************************************************************)
EXTENDS VdbIsolate

CONSTANTS i1, i2, t1, t2

MCSections == {<<0, 1>>, <<1, 2>>}
=============================================================================
