----------------------------- MODULE FileReceiver -----------------------------
(***************************************************************************)
(* What the receiving side promises: the agreed files appear on disk one     *)
(* after the other, each growing from its beginning, and only by bytes that  *)
(* have arrived; the user is told "complete" only when all of them are there.*)
(* A byte is its position in the transfer.                                   *)
(***************************************************************************)
EXTENDS Integers, Sequences

VARIABLES files,    \* the contents agreed upon, file by file; empty until then
          arrived,  \* how many bytes of the transfer have arrived
          disk,     \* the contents of the files created so far
          broken,   \* the transfer will not be completed any more
          outcome   \* what the user has been told

receiverVars == <<files, arrived, disk, broken, outcome>>

Init == arrived = 0 /\ disk = <<>> /\ broken = FALSE /\ outcome = "running"

Agree == /\ files = <<>> /\ files' # <<>>
         /\ UNCHANGED <<arrived, disk, broken, outcome>>

Arrive == /\ arrived' > arrived
          /\ UNCHANGED <<files, disk, broken, outcome>>

IsPrefixOf(s, t) == Len(s) <= Len(t) /\ s = SubSeq(t, 1, Len(s))

\* New bytes are among those that have arrived, and no file is begun before the
\* one before it is whole, except when the transfer is given up.
Store ==
    /\ outcome = "running" /\ Len(disk) <= Len(disk') /\ Len(disk') <= Len(files)
    /\ \A f \in 1..Len(disk') : /\ IsPrefixOf(disk'[f], files[f])
                                /\ \A i \in 1..Len(disk'[f]) : disk'[f][i] <= arrived
                                /\ f < Len(disk') /\ ~broken => disk'[f] = files[f]
    /\ \A f \in 1..Len(disk) : IsPrefixOf(disk[f], disk'[f])
    /\ UNCHANGED <<files, arrived, broken, outcome>>

Break == broken' = TRUE /\ UNCHANGED <<files, arrived, disk, outcome>>

Finish == /\ outcome = "running" /\ ~broken /\ files # <<>> /\ disk = files
          /\ outcome' = "complete"
          /\ UNCHANGED <<files, arrived, disk, broken>>

Fail == /\ outcome = "running"
        /\ broken' = TRUE /\ outcome' = "failed"
        /\ UNCHANGED <<files, arrived, disk>>

Next == Agree \/ Arrive \/ Store \/ Break \/ Finish \/ Fail

Spec == Init /\ [][Next]_receiverVars
=============================================================================
