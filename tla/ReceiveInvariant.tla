-------------------------- MODULE ReceiveInvariant --------------------------
(***************************************************************************)
(* The inductive invariant of ReceivePipeline: which packet of the           *)
(* connection is where, how far the files have got in the stream of bytes,   *)
(* and what the "done" and the abort flags imply. Once the abort flag is up  *)
(* nothing is written any more, so what the files lack then is left open.    *)
(***************************************************************************)
EXTENDS ReceivePipeline

\* q holds what follows the first k elements of s.
Run(s, q, k) == \A i \in 1..Len(q) : q[i] = s[k + i]

\* The chunks of the transfer, decrypted, in their order.
AllChunks == [i \in 1..req.num |-> [seq |-> i, data |-> ChunkData(req, i)]]

\* The chunks that have been decrypted and not yet given to the queue: 0 or 1.
DecryptedInHand == IF pc["decryption"] = "push" THEN Len(decHand) ELSE 0

\* The number of chunks that have left each queue.
LeftRecvQueue == decPos + Len(decHand) - DecryptedInHand
LeftDecQueue  == decPos - DecryptedInHand - Len(decQueue)

\* What has come through the connection, and is intact unless packets are damaged.
StreamInv ==
    /\ Len(stream) <= req.num
    /\ \A i \in 1..Len(stream) : stream[i] = Packet(i)
                                 \/ ("damage" \in faults /\ stream[i] = Damaged(Packet(i)))
    /\ closed => Len(stream) = req.num \/ "peer" \in faults

\* Packet after packet in the order of the stream, from the writer's chunk to the
\* socket; what is behind the decryption is intact.
PlacesInv ==
    /\ LeftDecQueue >= 0
    /\ Run(AllChunks, decQueue, LeftDecQueue)
    /\ IF pc["decryption"] = "push" THEN Run(AllChunks, decHand, decPos - 1)
                                    ELSE Run(stream, decHand, decPos)
    /\ Run(stream, recvQueue, LeftRecvQueue)
    /\ Run(stream, recvHand, LeftRecvQueue + Len(recvQueue))
    /\ taken = LeftRecvQueue + Len(recvQueue) + Len(recvHand)

\* A thread has a packet in its hand between its read or pop and its push; the
\* decryption keeps one only if it throws.
HandsInv ==
    /\ recvHand # <<>> <=> pc["receiver"] = "push"
    /\ pc["receiver"] = "read" => taken < req.num
    /\ pc["decryption"] \in {"decrypt", "push"} => decHand # <<>>
    /\ decHand # <<>> =>
          pc["decryption"] \in {"decrypt", "push", "catch", "record", "exit"}

\* How many bytes of the stream the chunks taken by the writer have had, less what
\* is left of the last one: the position it has written up to.
Position == Base(req, LeftDecQueue + 1) - Len(rest)

\* Each file on disk is a prefix of the file sent, of bytes that have arrived.
Arrived == Least(taken * req.chunk, req.total)

FilesInv ==
    /\ chunksWritten <= req.num
    /\ \A f \in 1..file :
          /\ Len(disk[f]) <= FileSize(req, f)
          /\ disk[f] = [j \in 1..Len(disk[f]) |-> req.ends[f - 1] + j]
          /\ disk[f] # <<>> => req.ends[f - 1] + Len(disk[f]) <= Arrived

\* As long as nothing has failed: all files before the open one are whole, and what
\* the open one still needs begins where the writer is in the stream.
WriterInv ==
    \/ abort
    \/ /\ Position >= 0
       /\ rest = [j \in 1..Len(rest) |-> Position + j]
       /\ req.ends[file] - missing = Position
       /\ \A f \in 1..file : f < file => Len(disk[f]) = FileSize(req, f)
       /\ file > 0 => Len(disk[file]) + missing = FileSize(req, file)
       /\ chunksWritten = LeftDecQueue - (IF rest = <<>> THEN 0 ELSE 1)
       /\ pc["writer"] = "first" => file = 0
       /\ pc["writer"] \in {"first", "load", "pop", "empty"} => rest = <<>>
       /\ pc["writer"] = "write" => file > 0 /\ missing > 0 /\ rest # <<>>
       /\ pc["writer"] \in {"open", "exit"} =>
             missing = 0 /\ (rest = <<>> => Position = req.total)
       /\ pc["writer"] = "exit" => file = req.files

\* As long as nothing has failed, a done flag means what its name says, and a
\* thread that has left its loop has left nothing behind.
DoneInv ==
    \/ abort
    \/ /\ receptionDone => pc["receiver"] = "exit"
       /\ pc["receiver"] = "exit" => receptionDone /\ taken = req.num
       /\ pc["decryption"] = "empty" => receptionDone
       /\ decryptionDone => pc["decryption"] = "exit"
       /\ pc["decryption"] = "exit" =>
             receptionDone /\ recvQueue = <<>> /\ decHand = <<>> /\ decryptionDone
       /\ pc["writer"] = "empty" => decryptionDone

\* The abort flag is up only if an exception is recorded or about to be; the
\* joining thread has reported nothing while a worker runs.
AbortInv ==
    /\ abort => exception # "none" \/ \E w \in Workers : pc[w] = "record"
    /\ \A w \in Workers : pc[w] = "record" => abort
    /\ exception # "none" => abort
    /\ outcome # "running" => \A w \in Workers : pc[w] = "exit"
    /\ outcome = "complete" => exception = "none"
    /\ faults = {} => ~abort /\ \A w \in Workers : pc[w] # "catch"

PcInv ==
    /\ pc \in [Workers -> Labels]
    /\ pc["receiver"] \in {"top", "read", "push", "catch", "record", "exit"}
    /\ pc["decryption"] \in
         {"top", "pop", "load", "empty", "decrypt", "push", "catch", "record", "exit"}
    /\ pc["writer"] \in
         {"first", "pop", "open", "write", "load", "empty", "catch", "record", "exit"}
    /\ pc["progress"] \in {"top", "catch", "record", "exit"}

\* The inductive invariant.
ReceiveInv ==
    /\ TypeOK /\ PcInv /\ StreamInv /\ PlacesInv /\ HandsInv /\ FilesInv /\ WriterInv
    /\ DoneInv /\ AbortInv
=============================================================================
