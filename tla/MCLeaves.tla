------------------------------ MODULE MCLeaves ------------------------------
(***************************************************************************)
(* TLC instance of the parts that are only called and call nothing that is *)
(* modelled: paging, the error word and the helpers.  They share no state, *)
(* so a behaviour uses one of them, from the state it starts in; nothing   *)
(* is lost by leaving out their interleavings.                             *)
(***************************************************************************)
EXTENDS MCSv39, ErrorStack, Conversions

LeavesInit == Init /\ ErrorInit /\ HelperInit

NoPaging == result = "none" /\ UNCHANGED vars
NoError == pushed = <<>> /\ UNCHANGED errorVars
NoHelper == ret.op = "none" /\ (\A a \in Addresses : bytes[a] = 0) /\ UNCHANGED helperVars

LeavesNext ==
    \/ NoError /\ NoHelper /\ Next
    \/ NoPaging /\ NoHelper /\ ErrorNext
    \/ NoPaging /\ NoError /\ HelperNext

LeavesSpec == LeavesInit /\ [][LeavesNext]_<<vars, errorVars, helperVars>>
=============================================================================
