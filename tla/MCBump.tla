------------------------------- MODULE MCBump -------------------------------
(***************************************************************************)
(* TLC instance of BumpKernel: pages of 8 bytes with a header of 2 in a    *)
(* managed extent of four pages, requests that leave room, that fill two   *)
(* pages and that are empty.  An alignment need not be a power of two: 12  *)
(* bytes is that of three cells.                                           *)
(***************************************************************************)
EXTENDS BumpKernel

ManagedPages == {[base |-> 8, size |-> 32]}

SmallRequests == {[size |-> 3, alignment |-> 3], [size |-> 7, alignment |-> 8],
                  [size |-> 14, alignment |-> 1], [size |-> 0, alignment |-> 0]}
=============================================================================
