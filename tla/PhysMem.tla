------------------------------ MODULE PhysMem ------------------------------
(***************************************************************************)
(* What a physical memory manager promises, with no free list, no block    *)
(* descriptors and no policy: memory is put under management in pieces     *)
(* that do not overlap, and what is granted lies inside one managed piece  *)
(* and touches nothing granted before.  A grant is never taken back: the   *)
(* containers of the kernel keep pointers into buffers they have freed, so *)
(* this stronger promise is the one they live on.                          *)
(***************************************************************************)
EXTENDS Naturals, Sequences

VARIABLES
    managed,        \* the extents [base, size] under management
    grants          \* every extent ever granted, oldest first

vars == <<managed, grants>>

Within(e, m) == m.base <= e.base /\ e.base + e.size <= m.base + m.size

Overlap(e, f) ==
    /\ e.size > 0 /\ f.size > 0
    /\ e.base < f.base + f.size
    /\ f.base < e.base + e.size

Init == managed = {} /\ grants = <<>>

Manage(e) ==
    /\ \A m \in managed : ~Overlap(e, m)
    /\ managed' = managed \cup {e}
    /\ UNCHANGED grants

Grantable(e) ==
    /\ \E m \in managed : Within(e, m)
    /\ \A k \in 1 .. Len(grants) : ~Overlap(e, grants[k])

Grant(e) ==
    /\ Grantable(e)
    /\ grants' = Append(grants, e)
    /\ UNCHANGED managed

\* Some extent is managed or granted.  The extent is found in the new state,
\* which holds it, so that TLC need not try every extent there is.
Next ==
    \/ \E e \in managed' : Manage(e)
    \/ \E k \in DOMAIN grants' : Grant(grants'[k])

Spec == Init /\ [][Next]_vars
=============================================================================
