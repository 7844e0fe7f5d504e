---------------------------- MODULE MCPagerMemory ----------------------------
(***************************************************************************)
(* One pager for TLC.  Order ids are only compared, so they are symmetric. *)
(***************************************************************************)
EXTENDS PagerMemory

IdSymmetry == Permutations(Ids)
=============================================================================
