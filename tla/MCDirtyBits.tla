---------------------------- MODULE MCDirtyBits ----------------------------
(***************************************************************************)
(* Dirty bits from userfaultfd, for pages of two heap blocks.              *)
(***************************************************************************)
EXTENDS DirtyBits

MCUffd == {[vdb |-> "uffd", pageBlks |-> 2, spare |-> FALSE]}
=============================================================================
