---------------------------- MODULE SendPipeline ----------------------------
(***************************************************************************)
(* Sender::send_files: a chunker, an encryption, a transmission and a        *)
(* progress thread, connected by two bounded queues, two "done" flags, a     *)
(* counter and a WorkerContext.                                              *)
(*                                                                         *)
(* One action is one access to shared state (a queue operation under its     *)
(* mutex, an atomic load or store, a socket write) with the local work       *)
(* around it. The queue operations are atomic here; BoundedThreadSafeQueue   *)
(* itself is module BoundedQueue.                                            *)
(***************************************************************************)
EXTENDS TransferPlan, WorkerContext

CONSTANTS Layouts,    \* the file layouts a run may start from
          FaultSets,  \* the sets of workers that may throw in a run
          Capacity    \* QUEUE_CAPACITY

ASSUME SendAssumption ==
    /\ Workers = {"chunker", "encryption", "transmission", "progress"}
    /\ \A l \in Layouts : IsLayout(l) /\ Fits(l.ends[l.files])
    /\ \A F \in FaultSets : F \subseteq {"chunker", "encryption", "transmission"}
    /\ Capacity \in Nat \ {0}

VARIABLES
    req,             \* the TransferRequest, never changed
    faults,          \* the workers whose calls may fail in this run, never changed
    file, unread,    \* chunker: index of the open file, remaining_file_data
    buf, bufSize,    \* chunker: bytes read into the buffer, and its size
    seq,             \* chunker: sequence_counter
    fileQueue,       \* file_chunk_queue
    chunkingDone,    \* file_chunking_done
    encHand,         \* encryption: the chunk between its pop and its push
    encPos,          \* messages pushed so far through the secretstream state
    encQueue,        \* encrypted_chunk_queue
    encryptionDone,  \* encryption_done
    sendHand,        \* transmission: the chunk between its pop and its write
    sent,            \* the packets written to the socket, oldest first
    chunksSent       \* chunks_sent

given       == <<req, faults>>
chunkerVars == <<file, unread, buf, bufSize, seq>>
encVars     == <<encHand, encPos>>
wireVars    == <<sendHand, sent, chunksSent>>
pipeVars    == <<given, chunkerVars, fileQueue, chunkingDone, encVars, encQueue,
                 encryptionDone, wireVars>>
vars        == <<contextVars, pipeVars>>

\* What the steps of a thread leave alone.
beyondChunker      == <<given, encVars, encQueue, encryptionDone, wireVars>>
beyondEncryption   == <<given, chunkerVars, chunkingDone, wireVars>>
beyondTransmission == <<given, chunkerVars, fileQueue, chunkingDone, encVars, encryptionDone>>

\* A step that changes nothing but the place of a thread in its loop.
Turn(w, from, to) == Step(w, from, to) /\ UNCHANGED pipeVars

MayFail(w) == w \in faults

\* Faulty variant: the capacity is tested with the wrong relation.
HasRoomWhenFull(q) == Len(q) <= Capacity

HasRoom(q) == Len(q) < Capacity

Init ==
    /\ ContextInit([w \in Workers |-> IF w = "chunker" THEN "file" ELSE "top"])
    /\ \E l \in Layouts : req = Request(l)
    /\ faults \in FaultSets
    /\ file = 0 /\ unread = 0
    /\ buf = <<>> /\ bufSize = req.chunk /\ seq = 1
    /\ fileQueue = <<>> /\ chunkingDone = FALSE
    /\ encHand = <<>> /\ encPos = 0 /\ encQueue = <<>> /\ encryptionDone = FALSE
    /\ sendHand = <<>> /\ sent = <<>> /\ chunksSent = 0
-----------------------------------------------------------------------------
(***************************************************************************)
(* Chunker. "file" is the head of the loop over the files, "read" the head   *)
(* of the loop over the bytes of the open file, "push" the blocking push of  *)
(* a full buffer.                                                            *)
(***************************************************************************)
AfterRead(left) == IF left > 0 THEN "read" ELSE "file"

\* The loop over the files ends, or is left because of the abort flag.
ChunkerEnd ==
    /\ \/ Step("chunker", "file", "exit") /\ (file = req.files \/ abort)
       \/ Step("chunker", "read", "exit") /\ abort
    /\ chunkingDone' = TRUE
    /\ UNCHANGED <<chunkerVars, fileQueue, beyondChunker>>

\* The next file exists with the size the request gives it, and is opened.
OpenFile ==
    /\ file < req.files /\ ~abort
    /\ file' = file + 1 /\ unread' = FileSize(req, file + 1)
    /\ Step("chunker", "file", AfterRead(unread'))
    /\ UNCHANGED <<buf, bufSize, seq, fileQueue, chunkingDone, beyondChunker>>

\* As many bytes of the file as the buffer still has room for.
ReadBytes ==
    /\ At("chunker", "read") /\ ~abort
    /\ LET n    == Least(unread, bufSize - Len(buf))
           from == req.ends[file] - unread
       IN buf' = buf \o [j \in 1..n |-> from + j] /\ unread' = unread - n
    /\ Step("chunker", "read", IF Len(buf') = bufSize THEN "push" ELSE AfterRead(unread'))
    /\ UNCHANGED <<file, bufSize, seq, fileQueue, chunkingDone, beyondChunker>>

\* The file is missing, has another size or cannot be opened; or a read is short.
ChunkerFails ==
    /\ MayFail("chunker") /\ ~abort
    /\ (file < req.files /\ Throw("chunker", "file")) \/ Throw("chunker", "read")
    /\ UNCHANGED pipeVars

PushFileChunk ==
    /\ Step("chunker", "push", AfterRead(unread)) /\ HasRoom(fileQueue)
    /\ fileQueue' = Append(fileQueue, [seq |-> seq, data |-> buf])
    /\ seq' = seq + 1 /\ buf' = <<>> /\ bufSize' = BufferSize(req, seq')
    /\ UNCHANGED <<file, unread, chunkingDone, beyondChunker>>

Chunker == ChunkerEnd \/ OpenFile \/ ReadBytes \/ ChunkerFails \/ PushFileChunk
-----------------------------------------------------------------------------
(***************************************************************************)
(* Encryption: process_chunks with encrypt_chunk. "top" is the abort check,  *)
(* "pop" the try_pop, "load" the load of the done flag and "empty" the       *)
(* second look at the queue that lets the loop end.                          *)
(***************************************************************************)
EncryptTop ==
    /\ Step("encryption", "top", IF abort THEN "exit" ELSE "pop")
    /\ encryptionDone' = (encryptionDone \/ abort)
    /\ UNCHANGED <<fileQueue, encVars, encQueue, beyondEncryption>>

EncryptPop ==
    /\ Step("encryption", "pop", "encrypt") /\ fileQueue # <<>>
    /\ encHand' = <<Head(fileQueue)>> /\ fileQueue' = Tail(fileQueue)
    /\ UNCHANGED <<encPos, encQueue, encryptionDone, beyondEncryption>>

EncryptPopEmpty == fileQueue = <<>> /\ Turn("encryption", "pop", "load")

\* Faulty variant: the flag alone ends the loop, the queue is not looked at again.
AfterLoadTrusting(done) == IF done THEN "exit" ELSE "top"

AfterLoad(done) == IF done THEN "empty" ELSE "top"

EncryptLoadDone == Turn("encryption", "load", AfterLoad(chunkingDone))

EncryptCheckEmpty ==
    /\ Step("encryption", "empty", IF fileQueue = <<>> THEN "exit" ELSE "top")
    /\ encryptionDone' = (encryptionDone \/ fileQueue = <<>>)
    /\ UNCHANGED <<fileQueue, encVars, encQueue, beyondEncryption>>

\* Faulty variant: chunks counted from zero.
EncryptableFromZero(c) == c.seq < req.num /\ Len(c.data) <= req.chunk

\* The checks of encrypt_chunk on the chunk it is given.
Encryptable(c) == c.seq # 0 /\ c.seq <= req.num /\ Len(c.data) <= req.chunk

\* Faulty variant: the chunk that does not fill its buffer is taken for the last.
EncryptedByLength(c, pos) ==
    [seq |-> c.seq, data |-> c.data, pos |-> pos, final |-> (Len(c.data) < req.chunk)]

\* encrypt_chunk returns: the chunk has become the next message of the stream,
\* tagged final when it is the last one.
Encrypted(c, pos) ==
    [seq |-> c.seq, data |-> c.data, pos |-> pos, final |-> (c.seq = req.num)]

EncryptChunk ==
    /\ Step("encryption", "encrypt", "push") /\ Encryptable(encHand[1])
    /\ encHand' = <<Encrypted(encHand[1], encPos + 1)>> /\ encPos' = encPos + 1
    /\ UNCHANGED <<fileQueue, encQueue, encryptionDone, beyondEncryption>>

EncryptFails ==
    /\ Throw("encryption", "encrypt") /\ UNCHANGED pipeVars
    /\ MayFail("encryption") \/ ~Encryptable(encHand[1])

EncryptPush ==
    /\ Step("encryption", "push", "top") /\ HasRoom(encQueue)
    /\ encQueue' = encQueue \o encHand /\ encHand' = <<>>
    /\ UNCHANGED <<fileQueue, encPos, encryptionDone, beyondEncryption>>

Encryption == \/ EncryptTop \/ EncryptPop \/ EncryptPopEmpty \/ EncryptLoadDone
              \/ EncryptCheckEmpty \/ EncryptChunk \/ EncryptFails \/ EncryptPush
-----------------------------------------------------------------------------
(***************************************************************************)
(* Transmission: send_chunks, the same loop with a socket write instead of   *)
(* the second queue. It stores no flag when it ends. The five writes of one  *)
(* packet are one step: a receiver that gets only some of them gets no       *)
(* packet, and the count follows in the same step because only the progress  *)
(* thread reads it.                                                          *)
(***************************************************************************)
SendTop == Turn("transmission", "top", IF abort THEN "exit" ELSE "pop")

SendPop ==
    /\ Step("transmission", "pop", "write") /\ encQueue # <<>>
    /\ sendHand' = <<Head(encQueue)>> /\ encQueue' = Tail(encQueue)
    /\ UNCHANGED <<sent, chunksSent, beyondTransmission>>

SendPopEmpty == encQueue = <<>> /\ Turn("transmission", "pop", "load")

SendLoadDone == Turn("transmission", "load", AfterLoad(encryptionDone))

SendCheckEmpty == Turn("transmission", "empty", IF encQueue = <<>> THEN "exit" ELSE "top")

SendWrite ==
    /\ Step("transmission", "write", "top")
    /\ sent' = sent \o sendHand /\ sendHand' = <<>> /\ chunksSent' = chunksSent + 1
    /\ UNCHANGED <<encQueue, beyondTransmission>>

\* The connection is reset or broken.
SendFails ==
    MayFail("transmission") /\ Throw("transmission", "write") /\ UNCHANGED pipeVars

Transmission == \/ SendTop \/ SendPop \/ SendPopEmpty \/ SendLoadDone
                \/ SendCheckEmpty \/ SendWrite \/ SendFails
-----------------------------------------------------------------------------
\* Faulty variants: the last chunk is never enough; the abort flag is not read.
ProgressPastEnd      == abort \/ chunksSent > req.num
ProgressWithoutAbort == chunksSent >= req.num

ProgressOver == abort \/ chunksSent >= req.num

\* Progress: the loop has no effect on the others, so only its end is a step.
Progress == ProgressOver /\ Turn("progress", "top", "exit")

HandleException(w) == (RaiseAbort(w) \/ RecordException(w)) /\ UNCHANGED pipeVars

\* The main thread; "complete" includes the staging::clear() that follows.
Main == Join /\ UNCHANGED pipeVars

Next == \/ Chunker \/ Encryption \/ Transmission \/ Progress \/ Main
        \/ \E w \in Workers : HandleException(w)

Spec == Init /\ [][Next]_vars

(***************************************************************************)
(* Each thread is scheduled by the operating system. A thread blocked in     *)
(* push is not enabled; a socket write returns because the peer reads.       *)
(***************************************************************************)
Fairness ==
    /\ WF_vars(Chunker \/ HandleException("chunker"))
    /\ WF_vars(Encryption \/ HandleException("encryption"))
    /\ WF_vars(Transmission \/ HandleException("transmission"))
    /\ WF_vars(Progress \/ HandleException("progress"))
    /\ WF_vars(Main)

FairSpec == Spec /\ Fairness
-----------------------------------------------------------------------------
Labels == {"file", "read", "top", "pop", "load", "empty", "encrypt", "push",
           "write", "catch", "record", "exit"}

Chunks  == [seq : Nat, data : Seq(Nat)]
Packets == [seq : Nat, data : Seq(Nat), pos : Nat, final : BOOLEAN]

ContextOK ==
    /\ pc \in [Workers -> Labels]
    /\ abort \in BOOLEAN /\ exception \in Workers \cup {"none"}
    /\ outcome \in {"running", "complete", "failed"}

GivenOK == (\E l \in Layouts : req = Request(l)) /\ faults \in FaultSets

ChunkerOK ==
    /\ file \in 0..req.files /\ unread \in Nat
    /\ buf \in Seq(Nat) /\ bufSize \in Nat /\ Len(buf) <= bufSize
    /\ seq \in Nat \ {0} /\ chunkingDone \in BOOLEAN

EncryptionOK ==
    /\ encHand \in Seq(Chunks \cup Packets) /\ Len(encHand) <= 1
    /\ encPos \in Nat /\ encryptionDone \in BOOLEAN

QueuesOK ==
    /\ fileQueue \in Seq(Chunks) /\ Len(fileQueue) <= Capacity
    /\ encQueue \in Seq(Packets) /\ Len(encQueue) <= Capacity

WireOK ==
    /\ sendHand \in Seq(Packets) /\ Len(sendHand) <= 1
    /\ sent \in Seq(Packets) /\ chunksSent \in Nat

\* Every variable holds a value of its type; a queue never exceeds its capacity
\* and a worker holds at most one chunk.
TypeOK == ContextOK /\ GivenOK /\ ChunkerOK /\ EncryptionOK /\ QueuesOK /\ WireOK

(***************************************************************************)
(* What may go wrong.                                                        *)
(***************************************************************************)
Packet(r, i) == [seq |-> i, data |-> ChunkData(r, i), pos |-> i, final |-> (i = r.num)]

\* The chunks in the pipeline, nearest to the socket first.
InFlight == sent \o sendHand \o encQueue \o encHand \o fileQueue

\* Whatever the interleaving, and even after a failure, the chunks cut so far
\* are the first chunks of the transfer, each in exactly one place and in order:
\* no queue operation, hand-over or error path of the loops loses, repeats or
\* overtakes one, and the buffer sizes of the chunker cut the stream of bytes
\* where the request says.
StreamInOrder ==
    /\ Len(InFlight) = seq - 1
    /\ \A i \in 1..Len(InFlight) :
           InFlight[i].seq = i /\ InFlight[i].data = ChunkData(req, i)

\* What the receiver relies on: packet i on the wire is message i of the
\* encrypted stream and carries chunk i, and the last chunk, and no other, is
\* tagged final.
WireMatchesRequest == \A i \in 1..Len(sent) : sent[i] = Packet(req, i)

\* "Files sent, transfer complete!" is printed, and the staging area cleared,
\* only when every chunk has been written to the socket: the loops do not end on
\* a queue that is about to be filled, and no exception goes unnoticed.
CompleteMeansAllSent ==
    outcome = "complete" => /\ Len(sent) = req.num /\ chunksSent = req.num
                            /\ ~abort /\ exception = "none"

\* The four threads together are the sender of FileSender: packet after packet of
\* the agreed transfer leaves, and the end is reported as it is.
Promise == INSTANCE FileSender WITH
    plan <- [i \in 1..req.num |-> Packet(req, i)], wire <- sent

KeepsPromise == Promise!Spec

\* Without an error of the file system or of the network no worker throws: the
\* chunks the chunker cuts pass the checks of encrypt_chunk.
NoSpuriousFailure == faults = {} => ~abort

\* Without such an error the transfer comes to its end.
FaultFreeCompletes == (faults = {}) => <>(outcome = "complete")

\* A thread that has not seen the abort flag because it waits in push for a
\* consumer that is gone.
Wedged ==
    \/ At("chunker", "push") /\ Len(fileQueue) = Capacity /\ At("encryption", "exit")
    \/ At("encryption", "push") /\ Len(encQueue) = Capacity /\ At("transmission", "exit")

\* After an exception the function returns with "Transfer failed", unless a push
\* on a full queue whose consumer has left holds a thread for ever; nothing else
\* can keep it.
AbortEndsUnlessWedged == abort ~> (outcome = "failed" \/ Wedged)

\* What Sender.cpp says of the code after the joins: it handles a transfer that
\* stopped because of an exception in any of the workers. So after an exception
\* the transfer stops and the failure is reported.
AbortEnds == abort ~> (outcome = "failed")
=============================================================================
