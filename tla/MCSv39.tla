------------------------------- MODULE MCSv39 -------------------------------
(***************************************************************************)
(* TLC instance of Sv39: pages that share tables of every level or none,   *)
(* addresses inside a page and one that is refused, and fewer pages for   *)
(* tables than the mappings ask for.                                       *)
(***************************************************************************)
EXTENDS Sv39

MCPages == {65536 + k * PAGE_SIZE : k \in 0 .. 3}
MCVAs == {0, 8, PAGE_SIZE, PAGE_SIZE + 8, MEGAPAGE_SIZE,
          GIGAPAGE_SIZE + MEGAPAGE_SIZE + PAGE_SIZE, 4}
MCPAs == {5 * PAGE_SIZE, 6 * PAGE_SIZE, 6 * PAGE_SIZE + 8}
MCFlags == {TEF_READ, TEF_EXECUTE}
=============================================================================
