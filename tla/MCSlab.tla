------------------------------- MODULE MCSlab -------------------------------
(***************************************************************************)
(* TLC instance of Slab: two usable buffers of different sizes, one too  *)
(* small for a block and one misaligned.                                   *)
(***************************************************************************)
EXTENDS Slab

CONSTANTS small, medium, tiny, odd

MCBuffers == {small, medium, tiny, odd}
MCMisaligned == {odd}
MCBufferSize == [b \in MCBuffers |->
    CASE b = small -> 4 + 3 [] b = medium -> 4 + 3 * 3 + 2
      [] b = tiny -> 4 + 2 [] b = odd -> 4 + 6]
=============================================================================
