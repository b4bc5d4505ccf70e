------------------------------- MODULE Stack -------------------------------
(***************************************************************************)
(* stack<T> of include/types/stack.h.  A stack that grows copies its       *)
(* elements into a new buffer and gives the old one to pmm::free, which    *)
(* keeps nothing and clears nothing: the old buffer stays as it was, and   *)
(* so do the pointers into it.  A stack is therefore described with every  *)
(* buffer it ever had, and a pointer names the buffer it points into.      *)
(* That no other memory is granted over an old buffer is what the          *)
(* physical memory manager promises (PhysMem, KernelProofs!GrantsDisjoint).*)
(* The move operations and the destructor have no caller.                  *)
(***************************************************************************)
EXTENDS Words, Sequences

CONSTANT PAGE_SIZE

\* m_buffer is the last of buffers.
EmptyStack == [m_size |-> 0, m_capacity |-> 0, buffers |-> <<>>]

NULL == [buffer |-> 0, index |-> 0]

\* The type of a stack whose elements are all in T.
StackOf(T, s) ==
    /\ s.m_size <= s.m_capacity
    /\ \A b \in 1 .. Len(s.buffers) : \A k \in DOMAIN s.buffers[b] : s.buffers[b][k] \in T
    /\ s.buffers # <<>> => Len(s.buffers[Len(s.buffers)]) = s.m_size

\* A pointer that may be followed.
PointsInto(s, p) ==
    /\ p.buffer \in 1 .. Len(s.buffers)
    /\ p.index \in 1 .. Len(s.buffers[p.buffer])

Full(s) == s.m_size = s.m_capacity

\* new_size: half as much again, and one byte so that an empty stack grows.
GrownSize(s, size_of) ==
    AlignUp(1 + (AlignUp(s.m_capacity * size_of, PAGE_SIZE) * 3) \div 2, PAGE_SIZE)

\* The bytes emplace_back asks the manager for.
Wanted(s, size_of) == IF Full(s) THEN GrownSize(s, size_of) ELSE 0

Grown(s, size_of) ==
    [s EXCEPT !.m_capacity = GrownSize(s, size_of) \div size_of,
              !.buffers = Append(@, IF @ = <<>> THEN <<>> ELSE @[Len(@)])]

\* grow, then the element is constructed behind the last one.
EmplaceBack(s, size_of, value) ==
    LET g == IF Full(s) THEN Grown(s, size_of) ELSE s
    IN  [g EXCEPT !.m_size = @ + 1,
                  !.buffers[Len(g.buffers)] = Append(@, value)]

\* The address emplace_back returns, in the stack after the call.
Last(s) == [buffer |-> Len(s.buffers), index |-> s.m_size]

\* &s[k - 1]
ElementAt(s, k) == [buffer |-> Len(s.buffers), index |-> k]

\* *p, and the stack after an assignment through p.
Deref(s, p) == s.buffers[p.buffer][p.index]
Assign(s, p, value) == [s EXCEPT !.buffers[p.buffer][p.index] = value]

\* The number of elements the first buffer of a stack has room for.
FirstCapacity(size_of) == GrownSize(EmptyStack, size_of) \div size_of
=============================================================================
