------------------------------ MODULE MCReceive ------------------------------
(* Small transfers for TLC: file layouts given by the sizes of the files. *)
EXTENDS ReceiveInvariant, Folds

MCWorkers == {"receiver", "decryption", "writer", "progress"}

LayoutOf(sizes) ==
    [files |-> Len(sizes),
     ends  |-> [f \in 0..Len(sizes) |->
                    MapThenFoldSet(+, 0, LAMBDA g : sizes[g],
                                   LAMBDA S : CHOOSE g \in S : TRUE, 1..f)]]

\* With MaxChunk = 2: chunks that span files, an empty file first, in the middle
\* and last, a transfer of one chunk, one that divides evenly, one that does not.
MCLayouts == {LayoutOf(s) : s \in {<<3, 0, 4>>, <<0, 1, 0>>, <<4, 2>>, <<1, 1, 1, 1, 1>>}}

MCNoFaults == {{}}

MCFaultSets == {{}, {"peer"}, {"damage"}, {"writer"}, {"peer", "writer"}}
=============================================================================
