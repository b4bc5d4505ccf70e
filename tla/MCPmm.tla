------------------------------- MODULE MCPmm -------------------------------
(***************************************************************************)
(* TLC instance of PmmLimine: two entries, one of them not page-aligned,   *)
(* every alignment up to four pages and one that is none, sizes that are   *)
(* empty, below, at and above a page, and one that wraps.                  *)
(***************************************************************************)
EXTENDS PmmLimine

MCRegionArgs == {[base |-> 5, size |-> 21], [base |-> 28, size |-> 8]}
MCSizes == {0, 3, 8, WORD - 1}
MCAlignments == {2, 4, 8, 12, 16}
MCPolicies == {"FIRST_FIT", "NEXT_FIT"}
=============================================================================
