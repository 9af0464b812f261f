---------------------------- MODULE SendInvariant ----------------------------
(***************************************************************************)
(* The inductive invariant of SendPipeline: where each chunk is, how far the *)
(* chunker has come, what a "done" flag implies and what the abort flag      *)
(* implies. Each part speaks of the state alone, so that a step of one       *)
(* thread disturbs few of them.                                              *)
(***************************************************************************)
EXTENDS SendPipeline

Chunk(r, i) == [seq |-> i, data |-> ChunkData(r, i)]

\* q holds the chunks, or the packets, of request r that follow the first k.
ChunkRun(r, q, k)  == \A i \in 1..Len(q) : q[i] = Chunk(r, k + i)
PacketRun(r, q, k) == \A i \in 1..Len(q) : q[i] = Packet(r, k + i)

\* The number of chunks that have got beyond each place.
BeforeEncQueue  == Len(sent) + Len(sendHand)
BeforeEncHand   == BeforeEncQueue + Len(encQueue)
BeforeFileQueue == BeforeEncHand + Len(encHand)

\* Chunk after chunk in the order of the stream, from the socket to the chunker;
\* the one in the hand of the encryption thread is a packet once it is encrypted.
PlacesInv ==
    /\ PacketRun(req, sent, 0)
    /\ PacketRun(req, sendHand, Len(sent))
    /\ PacketRun(req, encQueue, BeforeEncQueue)
    /\ IF pc["encryption"] = "push"
       THEN PacketRun(req, encHand, BeforeEncHand) /\ encPos = BeforeEncHand + 1
       ELSE ChunkRun(req, encHand, BeforeEncHand) /\ encPos = BeforeEncHand
    /\ ChunkRun(req, fileQueue, BeforeFileQueue)
    /\ seq = BeforeFileQueue + Len(fileQueue) + 1
    /\ chunksSent = Len(sent)

\* The chunker has read the stream up to where its buffer ends.
ChunkerInv ==
    /\ seq \in 1..(req.num + 1)
    /\ bufSize = BufferSize(req, seq)
    /\ buf = [j \in 1..Len(buf) |-> Base(req, seq) + j]
    /\ seq = req.num + 1 => Len(buf) = 0
    /\ file \in 0..req.files /\ unread \in 0..req.ends[file]
    /\ file > 0 => req.ends[file - 1] <= req.ends[file] - unread
    /\ req.ends[file] - unread = Base(req, seq) + Len(buf)
    /\ pc["chunker"] = "read" => unread > 0 /\ file > 0 /\ Len(buf) < bufSize
    /\ pc["chunker"] = "file" => unread = 0 /\ Len(buf) < bufSize
    /\ pc["chunker"] = "push" => Len(buf) = bufSize

\* A worker has a chunk in its hand between its pop and its push or write, and
\* keeps it only if it throws.
HandsInv ==
    /\ Len(encHand) = 1 \/ encHand = <<>>
    /\ pc["encryption"] \in {"encrypt", "push"} => Len(encHand) = 1
    /\ encHand # <<>> =>
          pc["encryption"] \in {"encrypt", "push", "catch", "record", "exit"}
    /\ Len(sendHand) = 1 \/ sendHand = <<>>
    /\ pc["transmission"] = "write" => Len(sendHand) = 1
    /\ sendHand # <<>> => pc["transmission"] \in {"write", "catch", "record", "exit"}

\* As long as nothing has failed, a done flag means what its name says, and a
\* thread that has left its loop has left nothing behind.
DoneInv ==
    \/ abort
    \/ /\ chunkingDone => pc["chunker"] = "exit"
       /\ pc["chunker"] = "exit" => seq = req.num + 1 /\ chunkingDone
       /\ pc["encryption"] = "empty" => chunkingDone
       /\ encryptionDone => pc["encryption"] = "exit"
       /\ pc["encryption"] = "exit" =>
             chunkingDone /\ fileQueue = <<>> /\ encHand = <<>> /\ encryptionDone
       /\ pc["transmission"] = "empty" => encryptionDone
       /\ pc["transmission"] = "exit" =>
             encryptionDone /\ encQueue = <<>> /\ sendHand = <<>>

\* The abort flag is up only if an exception is recorded or about to be; the
\* joining thread has reported nothing while a worker runs.
AbortInv ==
    /\ abort => exception # "none" \/ \E w \in Workers : pc[w] = "record"
    /\ \A w \in Workers : pc[w] = "record" => abort
    /\ exception # "none" => abort
    /\ outcome # "running" => \A w \in Workers : pc[w] = "exit"
    /\ outcome = "complete" => exception = "none"
    /\ faults = {} => ~abort /\ \A w \in Workers : pc[w] # "catch"

PcInv ==
    /\ pc \in [Workers -> Labels]
    /\ pc["chunker"] \in {"file", "read", "push", "catch", "record", "exit"}
    /\ pc["encryption"] \in
         {"top", "pop", "load", "empty", "encrypt", "push", "catch", "record", "exit"}
    /\ pc["transmission"] \in
         {"top", "pop", "load", "empty", "write", "catch", "record", "exit"}
    /\ pc["progress"] \in {"top", "catch", "record", "exit"}

\* The inductive invariant.
SendInv == TypeOK /\ PcInv /\ PlacesInv /\ ChunkerInv /\ HandsInv /\ DoneInv /\ AbortInv
=============================================================================
