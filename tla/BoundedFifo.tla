----------------------------- MODULE BoundedFifo -----------------------------
(***************************************************************************)
(* What BoundedThreadSafeQueue promises to its callers: the elements leave   *)
(* in the order they entered, each once, and never more than Capacity are    *)
(* inside. An element that can be put, because there is room, is put in the  *)
(* end; one that can be taken is taken.                                      *)
(***************************************************************************)
EXTENDS Integers, Sequences

CONSTANTS Capacity, Elements

VARIABLES in, out   \* the elements put, and the elements taken, so far

fifoVars == <<in, out>>

Init == in = <<>> /\ out = <<>>

Put(e) ==
    /\ Len(in) - Len(out) < Capacity
    /\ e \notin {in[i] : i \in 1..Len(in)}
    /\ in' = Append(in, e)
    /\ UNCHANGED out

Take ==
    /\ Len(out) < Len(in)
    /\ out' = Append(out, in[Len(out) + 1])
    /\ UNCHANGED in

Next == Take \/ \E e \in Elements : Put(e)

Spec == Init /\ [][Next]_fifoVars

FairSpec == /\ Spec
            /\ WF_fifoVars(\E e \in Elements : Put(e))
            /\ WF_fifoVars(Take)
=============================================================================
