----------------------------- MODULE ObjectPool -----------------------------
(***************************************************************************)
(* What a typed allocator promises: objects become available in batches,   *)
(* and an object is handed out at most once, and only while available.     *)
(***************************************************************************)
VARIABLES
    available,   \* the objects that may be handed out
    out          \* the objects handed out

vars == <<available, out>>

Init == available = {} /\ out = {}

Supply ==
    /\ available \subseteq available'
    /\ (available' \ available) \cap out = {}
    /\ UNCHANGED out

HandOut(o) ==
    /\ available' = available \ {o}
    /\ out' = out \cup {o}

Next == Supply \/ \E o \in available : HandOut(o)

Spec == Init /\ [][Next]_vars
=============================================================================
