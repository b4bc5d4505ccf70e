----------------------------- MODULE BumpKernel -----------------------------
(***************************************************************************)
(* The bump allocator as the kernel uses it: the device tree asks for      *)
(* little at a time, in memory far below the top of the address space.     *)
(* Under these two facts what Bump states of the allocator holds.          *)
(***************************************************************************)
EXTENDS Bump

(***************************************************************************)
(* With its header and its padding a request fits in the two pages of the  *)
(* smallest new region, and the arithmetic on addresses does not wrap: a   *)
(* RISC-V physical address has 56 bits, a word 64.                         *)
(***************************************************************************)
ASSUME BumpKernelAssumption ==
    /\ \A r \in Requests :
          /\ HEADER_SZ + r.size <= 2 * PAGE_SIZE
          /\ r.alignment > 0 => HEADER_SZ + r.alignment - 1 + r.size <= 2 * PAGE_SIZE
    /\ 8 * PAGE_SIZE <= WORD
    /\ \A m \in Managed : m.base + m.size + 2 * PAGE_SIZE <= WORD
=============================================================================
