---------------------------- MODULE MCPmmKernel ----------------------------
(***************************************************************************)
(* TLC instance of PmmKernel: three entries for two region slots, requests *)
(* of one to three pages, so that a request may fit only a later region.    *)
(***************************************************************************)
EXTENDS PmmKernel

MCRegionArgs == {[base |-> 4, size |-> 8], [base |-> 17, size |-> 15],
                 [base |-> 36, size |-> 12]}
MCSizes == {1, 8, 12}
MCAlignments == {4}
MCPolicies == {"FIRST_FIT"}
=============================================================================
