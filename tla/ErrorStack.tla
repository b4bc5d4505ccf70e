----------------------------- MODULE ErrorStack -----------------------------
(***************************************************************************)
(* class error of include/types/error.h: a word that is to hold a stack of *)
(* one-byte error codes.  A code is its number in the enumeration.  push   *)
(* shifts by sizeof(ErrorCode), which is 1, a number of bytes used as a    *)
(* number of bits, so codes are or-ed over each other.  The values the     *)
(* kernel builds are explored: made from any code, pushed with any error   *)
(* (device_tree.cpp:554, sv39.cpp:29 and 39).                              *)
(***************************************************************************)
EXTENDS Words, Sequences

CONSTANTS
    Codes,                     \* the codes that are made and pushed
    ERROR_CODE_GUARD_VALUE,    \* the number of codes, and of their strings
    MaxPushes                  \* bound on the codes of a stack

SUCCESS == 0

ASSUME CodesAssumption ==
    /\ WORD % 256 = 0    \* the word is a u64, of whole bytes
    /\ ERROR_CODE_GUARD_VALUE \in 1 .. 255
    /\ Codes \subseteq 0 .. ERROR_CODE_GUARD_VALUE - 1

VARIABLES
    m_stack,    \* the word
    pushed      \* history: the codes pushed, the last one first

errorVars == <<m_stack, pushed>>

ShiftFactor == 2    \* by sizeof(ErrorCode), which is 1, to the left

top == m_stack % 256
is_ok == top = SUCCESS

ErrorInit == m_stack = 0 /\ pushed = <<>>

\* An error made from a code is a stack of it alone.
make(code) == m_stack' = code /\ pushed' = <<code>>

\* Mutant: the code is not or-ed into the word.
push_ShiftOnly(code) ==
    /\ Len(pushed) < MaxPushes
    /\ m_stack' = (m_stack * ShiftFactor) % WORD
    /\ pushed' = <<code>> \o pushed

push(code) ==
    /\ Len(pushed) < MaxPushes
    /\ m_stack' = Or((m_stack * ShiftFactor) % WORD, code)
    /\ pushed' = <<code>> \o pushed

\* Returns another error and leaves the stack as it was.
pop == UNCHANGED errorVars

ErrorNext ==
    \/ \E code \in Codes : make(code)
    \/ \E code \in Codes \ {SUCCESS} : push(code)
    \/ pop

ErrorSpec == ErrorInit /\ [][ErrorNext]_errorVars

----------------------------------------------------------------------------
\* An error reads as success only when no error was ever pushed on it: what
\* the or-ing of codes mixes up it never cancels, however many bits the
\* shifts push out of the byte that is tested (error.h:138-155).
OkMeansNoError == is_ok => \A k \in 1 .. Len(pushed) : pushed[k] = SUCCESS
=============================================================================
