--------------------------- MODULE ReceivePipeline ---------------------------
(***************************************************************************)
(* Receiver::receive_files: a receiver, a decryption, a writer and a         *)
(* progress thread, connected by two bounded queues, two "done" flags, a     *)
(* counter and a WorkerContext; and the sending peer, as far as its packets  *)
(* and the end of its connection are seen through the socket.                *)
(*                                                                         *)
(* The grain is that of SendPipeline: one access to shared state per action. *)
(***************************************************************************)
EXTENDS TransferPlan, WorkerContext

CONSTANTS Layouts,    \* the file layouts a run may start from
          FaultSets,  \* the sets of what may fail in a run
          Capacity    \* QUEUE_CAPACITY

\* The peer may stop early, a packet may arrive damaged, the disk may refuse a file.
Hazards == {"peer", "damage", "writer"}

ASSUME ReceiveAssumption ==
    /\ Workers = {"receiver", "decryption", "writer", "progress"}
    /\ \A l \in Layouts : IsLayout(l) /\ Fits(l.ends[l.files])
    /\ \A F \in FaultSets : F \subseteq Hazards
    /\ Capacity \in Nat \ {0}

VARIABLES
    req,              \* the TransferRequest, never changed
    faults,           \* what may fail in this run, never changed
    stream,           \* the packets the peer has written to the connection
    closed,           \* the peer has closed the connection
    taken,            \* packets read from the connection: the loop counter i
    recvHand,         \* receiver: the chunk between its read and its push
    recvQueue,        \* received_chunk_queue
    receptionDone,    \* chunk_reception_done
    decHand,          \* decryption: the chunk between its pop and its push
    decPos,           \* messages pulled so far through the secretstream state
    decQueue,         \* decrypted_chunk_queue
    decryptionDone,   \* decryption_done
    file, missing,    \* writer: index of the open file, remaining_file_data
    rest,             \* writer: what is left of chunk_ptr's data
    disk,             \* the contents of the files opened so far, in order
    chunksWritten     \* chunks_written

given      == <<req, faults>>
peerVars   == <<stream, closed>>
recvVars   == <<taken, recvHand>>
decVars    == <<decHand, decPos>>
writerVars == <<file, missing, rest, disk, chunksWritten>>
pipeVars   == <<given, peerVars, recvVars, recvQueue, receptionDone, decVars,
                decQueue, decryptionDone, writerVars>>
vars       == <<contextVars, pipeVars>>

\* What the steps of a thread leave alone.
beyondPeer       == <<contextVars, given, recvVars, recvQueue, receptionDone, decVars,
                      decQueue, decryptionDone, writerVars>>
beyondReception  == <<given, peerVars, decVars, decQueue, decryptionDone, writerVars>>
beyondDecryption == <<given, peerVars, recvVars, receptionDone, writerVars>>
beyondWriter     == <<given, peerVars, recvVars, recvQueue, receptionDone, decVars,
                      decryptionDone>>

\* A step that changes nothing but the place of a thread in its loop.
Turn(w, from, to) == Step(w, from, to) /\ UNCHANGED pipeVars

\* Faulty variant: the capacity is tested with the wrong relation.
HasRoomWhenFull(q) == Len(q) <= Capacity

HasRoom(q) == Len(q) < Capacity

Init ==
    /\ ContextInit([w \in Workers |-> IF w = "writer" THEN "first" ELSE "top"])
    /\ \E l \in Layouts : req = Request(l)
    /\ faults \in FaultSets
    /\ stream = <<>> /\ closed = FALSE
    /\ taken = 0 /\ recvHand = <<>> /\ recvQueue = <<>> /\ receptionDone = FALSE
    /\ decHand = <<>> /\ decPos = 0 /\ decQueue = <<>> /\ decryptionDone = FALSE
    /\ file = 0 /\ missing = 0 /\ rest = <<>> /\ disk = <<>> /\ chunksWritten = 0
-----------------------------------------------------------------------------
(***************************************************************************)
(* The peer: SendPipeline writes packet i as message i of its encrypted      *)
(* stream. A damaged packet holds other bytes (0) and is one libsodium does  *)
(* not authenticate: it is no message of the stream (pos = 0).               *)
(***************************************************************************)
Packet(i) == [seq |-> i, data |-> ChunkData(req, i), pos |-> i, final |-> (i = req.num)]

Damaged(p) == [seq |-> p.seq, data |-> [j \in DOMAIN p.data |-> 0], pos |-> 0, final |-> p.final]

PeerSends ==
    /\ ~closed /\ Len(stream) < req.num
    /\ LET p == Packet(Len(stream) + 1) IN
       \/ stream' = Append(stream, p)
       \/ "damage" \in faults /\ stream' = Append(stream, Damaged(p))
    /\ UNCHANGED <<closed, beyondPeer>>

PeerCloses ==
    /\ ~closed /\ closed' = TRUE
    /\ Len(stream) = req.num \/ "peer" \in faults
    /\ UNCHANGED <<stream, beyondPeer>>
-----------------------------------------------------------------------------
(***************************************************************************)
(* Receiver: receive_chunks. "top" is the head of its counted loop, "read"   *)
(* the blocking reads of one packet, "push" the blocking push.               *)
(***************************************************************************)
\* All chunks are received: only this way is the flag stored.
ReceiveDone ==
    /\ Step("receiver", "top", "exit") /\ taken = req.num
    /\ receptionDone' = TRUE
    /\ UNCHANGED <<recvVars, recvQueue, beyondReception>>

ReceiveTop == taken < req.num /\ Turn("receiver", "top", IF abort THEN "exit" ELSE "read")

ReceivePacket ==
    /\ Step("receiver", "read", "push") /\ taken < Len(stream)
    /\ taken' = taken + 1 /\ recvHand' = <<stream[taken + 1]>>
    /\ UNCHANGED <<recvQueue, receptionDone, beyondReception>>

\* The connection ends before, or within, the next packet.
ReceiveFails ==
    taken = Len(stream) /\ closed /\ Throw("receiver", "read") /\ UNCHANGED pipeVars

ReceivePush ==
    /\ Step("receiver", "push", "top") /\ HasRoom(recvQueue)
    /\ recvQueue' = recvQueue \o recvHand /\ recvHand' = <<>>
    /\ UNCHANGED <<taken, receptionDone, beyondReception>>

Reception == \/ ReceiveDone \/ ReceiveTop \/ ReceivePacket \/ ReceiveFails
             \/ ReceivePush
-----------------------------------------------------------------------------
\* Decryption: process_chunks with decrypt_chunk.
DecryptTop ==
    /\ Step("decryption", "top", IF abort THEN "exit" ELSE "pop")
    /\ decryptionDone' = (decryptionDone \/ abort)
    /\ UNCHANGED <<recvQueue, decVars, decQueue, beyondDecryption>>

DecryptPop ==
    /\ Step("decryption", "pop", "decrypt") /\ recvQueue # <<>>
    /\ decHand' = <<Head(recvQueue)>> /\ recvQueue' = Tail(recvQueue)
    /\ UNCHANGED <<decPos, decQueue, decryptionDone, beyondDecryption>>

DecryptPopEmpty == recvQueue = <<>> /\ Turn("decryption", "pop", "load")

\* Faulty variant: the flag alone ends the loop, the queue is not looked at again.
AfterLoadTrusting(done) == IF done THEN "exit" ELSE "top"

AfterLoad(done) == IF done THEN "empty" ELSE "top"

DecryptLoadDone == Turn("decryption", "load", AfterLoad(receptionDone))

DecryptCheckEmpty ==
    /\ Step("decryption", "empty", IF recvQueue = <<>> THEN "exit" ELSE "top")
    /\ decryptionDone' = (decryptionDone \/ recvQueue = <<>>)
    /\ UNCHANGED <<recvQueue, decVars, decQueue, beyondDecryption>>

\* Faulty variants: the result of the authentication is ignored; chunks are
\* counted from zero.
DecryptableUnchecked(p) ==
    p.seq # 0 /\ p.seq <= req.num /\ p.final = (p.seq = req.num)

DecryptableFromZero(p) ==
    p.seq < req.num /\ p.pos = decPos + 1 /\ p.final = (p.seq = req.num)

\* The checks of decrypt_chunk: the number is one of the transfer's, the data
\* is the next message of the stream, and its tag says final for the last chunk only.
Decryptable(p) ==
    /\ p.seq # 0 /\ p.seq <= req.num
    /\ p.pos = decPos + 1
    /\ p.final = (p.seq = req.num)

DecryptChunk ==
    /\ Step("decryption", "decrypt", "push") /\ Decryptable(decHand[1])
    /\ decHand' = <<[seq |-> decHand[1].seq, data |-> decHand[1].data]>>
    /\ decPos' = decPos + 1
    /\ UNCHANGED <<recvQueue, decQueue, decryptionDone, beyondDecryption>>

DecryptFails ==
    /\ Throw("decryption", "decrypt") /\ ~Decryptable(decHand[1])
    /\ UNCHANGED pipeVars

DecryptPush ==
    /\ Step("decryption", "push", "top") /\ HasRoom(decQueue)
    /\ decQueue' = decQueue \o decHand /\ decHand' = <<>>
    /\ UNCHANGED <<recvQueue, decPos, decryptionDone, beyondDecryption>>

Decryption == \/ DecryptTop \/ DecryptPop \/ DecryptPopEmpty \/ DecryptLoadDone
              \/ DecryptCheckEmpty \/ DecryptChunk \/ DecryptFails \/ DecryptPush
-----------------------------------------------------------------------------
(***************************************************************************)
(* Writer: write_files_from_chunks. "first" and "pop" are its blocking pops, *)
(* "open" the head of the loop over the files, "write" the head of the loop  *)
(* over the bytes of the open file, "load" and "empty" the test after the    *)
(* last byte of a chunk.                                                     *)
(***************************************************************************)
\* pop() under the queue's mutex; the data of the chunk replaces the old one.
TakeChunk(from, to) ==
    /\ Step("writer", from, to) /\ decQueue # <<>>
    /\ rest' = Head(decQueue).data /\ decQueue' = Tail(decQueue)
    /\ UNCHANGED <<file, missing, disk, chunksWritten, beyondWriter>>

FirstChunk == TakeChunk("first", "open")

NextChunk == TakeChunk("pop", IF missing > 0 THEN "write" ELSE "open")

\* The next file is created, or truncated, whatever the abort flag says.
OpenFile ==
    /\ file < req.files
    /\ file' = file + 1 /\ missing' = FileSize(req, file + 1) /\ disk' = Append(disk, <<>>)
    /\ Step("writer", "open", IF missing' > 0 THEN "write" ELSE "open")
    /\ UNCHANGED <<decQueue, rest, chunksWritten, beyondWriter>>

\* The directory or the file cannot be created, or a write fails.
WriterFails ==
    /\ "writer" \in faults
    /\ (file < req.files /\ Throw("writer", "open")) \/ (~abort /\ Throw("writer", "write"))
    /\ UNCHANGED pipeVars

\* The loop over the files ends, or is left because of the abort flag.
WriterEnd == \/ file = req.files /\ Turn("writer", "open", "exit")
             \/ abort /\ Turn("writer", "write", "exit")

\* Faulty variant: every write counts as a chunk.
CountedEarly(left) == chunksWritten + 1

\* Chunks written once the current one has left bytes to write.
Counted(left) == IF left = <<>> THEN chunksWritten + 1 ELSE chunksWritten

\* What the chunk still has, or what the file still needs.
WriteBytes ==
    /\ At("writer", "write") /\ ~abort
    /\ LET n == Least(missing, Len(rest)) IN
       /\ disk' = [disk EXCEPT ![file] = @ \o SubSeq(rest, 1, n)]
       /\ rest' = SubSeq(rest, n + 1, Len(rest)) /\ missing' = missing - n
    /\ chunksWritten' = Counted(rest')
    /\ Step("writer", "write", IF rest' = <<>> THEN "load"
                               ELSE IF missing' > 0 THEN "write" ELSE "open")
    /\ UNCHANGED <<file, decQueue, beyondWriter>>

WriterLoadDone == Turn("writer", "load", IF decryptionDone THEN "empty" ELSE "pop")

\* Faulty variant: on a drained queue the function returns.
FunctionLeft == "exit"

\* On a drained queue the loop over the open file is left, not the function.
LoopLeft == "open"

WriterCheckEmpty == Turn("writer", "empty", IF decQueue = <<>> THEN LoopLeft ELSE "pop")

Writer == \/ FirstChunk \/ NextChunk \/ OpenFile \/ WriterFails \/ WriterEnd
          \/ WriteBytes \/ WriterLoadDone \/ WriterCheckEmpty
-----------------------------------------------------------------------------
\* Faulty variant: the abort flag is not read.
ProgressWithoutAbort == chunksWritten >= req.num

ProgressOver == abort \/ chunksWritten >= req.num

\* Progress: the loop has no effect on the others, so only its end is a step.
Progress == ProgressOver /\ Turn("progress", "top", "exit")

HandleException(w) == (RaiseAbort(w) \/ RecordException(w)) /\ UNCHANGED pipeVars

Main == Join /\ UNCHANGED pipeVars

Next == \/ PeerSends \/ PeerCloses
        \/ Reception \/ Decryption \/ Writer \/ Progress \/ Main
        \/ \E w \in Workers : HandleException(w)

Spec == Init /\ [][Next]_vars

(***************************************************************************)
(* Each thread is scheduled by the operating system; one blocked in a push,  *)
(* a pop or a socket read is not enabled. The peer goes on sending until it  *)
(* closes the connection.                                                    *)
(***************************************************************************)
Fairness ==
    /\ WF_vars(PeerSends \/ PeerCloses)
    /\ WF_vars(Reception \/ HandleException("receiver"))
    /\ WF_vars(Decryption \/ HandleException("decryption"))
    /\ WF_vars(Writer \/ HandleException("writer"))
    /\ WF_vars(Progress \/ HandleException("progress"))
    /\ WF_vars(Main)

FairSpec == Spec /\ Fairness
-----------------------------------------------------------------------------
Labels == {"top", "read", "push", "pop", "load", "empty", "decrypt", "first",
           "open", "write", "catch", "record", "exit"}

Chunks  == [seq : Nat, data : Seq(Nat)]
Packets == [seq : Nat, data : Seq(Nat), pos : Nat, final : BOOLEAN]

ContextOK ==
    /\ pc \in [Workers -> Labels]
    /\ abort \in BOOLEAN /\ exception \in Workers \cup {"none"}
    /\ outcome \in {"running", "complete", "failed"}

GivenOK == (\E l \in Layouts : req = Request(l)) /\ faults \in FaultSets

PeerOK == stream \in Seq(Packets) /\ closed \in BOOLEAN

ReceptionOK ==
    /\ taken \in 0..Len(stream)
    /\ recvHand \in Seq(Packets) /\ Len(recvHand) <= 1 /\ receptionDone \in BOOLEAN

DecryptionOK ==
    /\ decHand \in Seq(Chunks \cup Packets) /\ Len(decHand) <= 1
    /\ decPos \in Nat /\ decryptionDone \in BOOLEAN

QueuesOK ==
    /\ recvQueue \in Seq(Packets) /\ Len(recvQueue) <= Capacity
    /\ decQueue \in Seq(Chunks) /\ Len(decQueue) <= Capacity

WriterOK ==
    /\ file \in 0..req.files /\ missing \in Nat /\ rest \in Seq(Nat)
    /\ disk \in Seq(Seq(Nat)) /\ Len(disk) = file
    /\ chunksWritten \in Nat

\* Every variable holds a value of its type; a queue never exceeds its capacity
\* and a worker holds at most one chunk.
TypeOK == ContextOK /\ GivenOK /\ PeerOK /\ ReceptionOK /\ DecryptionOK /\ QueuesOK /\ WriterOK

(***************************************************************************)
(* What may go wrong.                                                        *)
(***************************************************************************)
\* A file on disk is at every moment a prefix of the file that was sent, and
\* all files before the open one are whole, unless the writer has left a file
\* early because the transfer was aborted: no byte is skipped, repeated or put
\* in the wrong file, whatever the sizes of chunks and files, and a damaged
\* packet never reaches a file.
FilesArePrefixes ==
    \A f \in 1..file :
        /\ Len(disk[f]) <= FileSize(req, f)
        /\ disk[f] = SubSeq(FileData(req, f), 1, Len(disk[f]))
        /\ f < file /\ ~abort => disk[f] = FileData(req, f)

\* "Files received, transfer complete!" is printed only when every file of the
\* request is on disk with all its bytes, and no worker has failed.
CompleteMeansAllFiles ==
    outcome = "complete" => /\ file = req.files /\ ~abort
                            /\ \A f \in 1..file : disk[f] = FileData(req, f)

\* The four threads together are the receiver of FileReceiver: file after file grows
\* by what has arrived, and the end is reported as it is.
Promise == INSTANCE FileReceiver WITH
    files   <- [f \in 1..req.files |-> FileData(req, f)],
    arrived <- Least(taken * req.chunk, req.total),
    broken  <- abort

KeepsPromise == Promise!Spec

\* The counter never passes the number of chunks: the progress bar, which is
\* built from limit - value characters, is never asked for a negative number.
ProgressBounded == chunksWritten <= req.num

\* Without a fault no worker throws: the checks of decrypt_chunk accept what
\* encrypt_chunk made.
NoSpuriousFailure == faults = {} => ~abort

AllBytesWritten ==
    /\ chunksWritten = req.num
    /\ \A f \in 1..req.files :
          FileSize(req, f) > 0 => f <= file /\ disk[f] = FileData(req, f)

\* The writer waits for a chunk after the last one.
Starved == /\ At("writer", "first") \/ At("writer", "pop")
           /\ decQueue = <<>> /\ At("decryption", "exit")

\* Without a fault every byte reaches its file, and receive_files returns unless
\* the writer asked for one chunk more before it could see that there is none.
FaultFreeDelivers ==
    (faults = {}) => <>(AllBytesWritten /\ (outcome = "complete" \/ Starved))

\* A thread that has not seen the abort flag because it waits in push for a
\* consumer that is gone.
Wedged ==
    \/ At("receiver", "push") /\ Len(recvQueue) = Capacity /\ At("decryption", "exit")
    \/ At("decryption", "push") /\ Len(decQueue) = Capacity /\ At("writer", "exit")

\* After an exception the function returns with "Transfer failed", unless a
\* thread waits for ever in a push or a pop whose other side has left.
AbortEndsUnlessStuck == abort ~> (outcome = "failed" \/ Wedged \/ Starved)

\* What README.md shows of a transfer: once everything is received, "Files
\* received, transfer complete!".
FaultFreeCompletes == (faults = {}) => <>(outcome = "complete")
=============================================================================
