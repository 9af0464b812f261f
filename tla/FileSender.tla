------------------------------ MODULE FileSender ------------------------------
(***************************************************************************)
(* What the sending side promises: the chunks of the agreed plan leave one   *)
(* by one, in order, and the user is told "complete", which clears the list  *)
(* of staged files, only when all of them have left. It may fail any time.   *)
(***************************************************************************)
EXTENDS Integers, Sequences

VARIABLES plan,    \* what is to be sent; empty until it is agreed upon
          wire,    \* what has been written to the connection
          outcome  \* what the user has been told

senderVars == <<plan, wire, outcome>>

Init == wire = <<>> /\ outcome = "running"

Agree == /\ plan = <<>> /\ plan' # <<>>
         /\ UNCHANGED <<wire, outcome>>

Send == /\ outcome = "running" /\ Len(wire) < Len(plan)
        /\ wire' = Append(wire, plan[Len(wire) + 1])
        /\ UNCHANGED <<plan, outcome>>

Finish == /\ outcome = "running" /\ plan # <<>> /\ wire = plan
          /\ outcome' = "complete"
          /\ UNCHANGED <<plan, wire>>

Fail == /\ outcome = "running" /\ outcome' = "failed"
        /\ UNCHANGED <<plan, wire>>

Next == Agree \/ Send \/ Finish \/ Fail

Spec == Init /\ [][Next]_senderVars
=============================================================================
