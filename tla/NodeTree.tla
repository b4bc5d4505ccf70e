------------------------------ MODULE NodeTree ------------------------------
(***************************************************************************)
(* What a parser of a nested structure owes its reader: a node opened      *)
(* inside another is its child, a property belongs to the innermost open   *)
(* node, and neither is ever lost or moved.                                *)
(***************************************************************************)
EXTENDS Sequences

VARIABLES
    children,    \* for each node, the set of its children
    owned,       \* for each node, the set of its properties
    path         \* the open nodes, the innermost first

vars == <<children, owned, path>>

Nodes == DOMAIN children

Extended(f, x) == [y \in DOMAIN f \cup {x} |-> IF y = x THEN {} ELSE f[y]]

Adopted(f, x) == [f EXCEPT ![path[1]] = @ \cup {x}]

Init == children = <<>> /\ owned = <<>> /\ path = <<>>

Open(n) ==
    /\ n \notin Nodes
    /\ children' = IF path = <<>> THEN Extended(children, n)
                                  ELSE Adopted(Extended(children, n), n)
    /\ owned' = Extended(owned, n)
    /\ path' = <<n>> \o path

Close ==
    /\ path # <<>>
    /\ path' = Tail(path)
    /\ UNCHANGED <<children, owned>>

Attach(p) ==
    /\ path # <<>>
    /\ \A n \in Nodes : p \notin owned[n]
    /\ owned' = Adopted(owned, p)
    /\ UNCHANGED <<children, path>>

\* The new node and the new property are found in the new state.
Next ==
    \/ \E n \in DOMAIN children' : Open(n)
    \/ Close
    \/ path # <<>> /\ \E p \in owned'[path[1]] : Attach(p)

Spec == Init /\ [][Next]_vars
=============================================================================
