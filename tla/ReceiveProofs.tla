---------------------------- MODULE ReceiveProofs ----------------------------
(***************************************************************************)
(* Proof that ReceiveInv (ReceiveInvariant) is an invariant of             *)
(* receive_files, of the safety properties that follow from it, and that   *)
(* receive_files implements FileReceiver.                                  *)
(*                                                                         *)
(* First the lemmas about runs of a sequence and about the request, then   *)
(* that a step which only moves a thread in its loop keeps most of         *)
(* ReceiveInv (Turned), then one lemma per action, with one step per       *)
(* conjunct of ReceiveInv that the action can disturb.                     *)
(***************************************************************************)
EXTENDS ReceiveInvariant, TransferPlanProofs, SequenceLemmas

\* The four threads of receive_files.
LEMMA TheWorkers == Workers = {"receiver", "decryption", "writer", "progress"}
  BY ReceiveAssumption

\* A worker that goes on moves its own program counter only.
LEMMA Moved ==
    ASSUME PcInv, NEW w \in Workers, NEW l \in Labels, Goto(w, l)
    PROVE  /\ pc' \in [Workers -> Labels] /\ pc'[w] = l
           /\ \A v \in Workers : v # w => pc'[v] = pc[v]
  BY DEF PcInv, Goto

\* A pop takes the next element of the run and leaves the run after it.
LEMMA RunPop ==
    ASSUME NEW S, NEW s, NEW q \in Seq(S), q # <<>>, NEW k \in Nat, Run(s, q, k)
    PROVE  Head(q) = s[k + 1] /\ Run(s, Tail(q), k + 1)
<1>1. Head(q) = s[k + 1]
  BY Popped DEF Run
<1>2. ASSUME NEW i \in 1..Len(Tail(q)) PROVE Tail(q)[i] = s[k + 1 + i]
  <2>1. i + 1 \in 1..Len(q) /\ Tail(q)[i] = q[i + 1] /\ k + (i + 1) = k + 1 + i
    BY Popped
  <2>2. q[i + 1] = s[k + (i + 1)]
    BY <2>1 DEF Run
  <2>3. QED
    BY <2>1, <2>2
<1>3. QED
  BY <1>1, <1>2 DEF Run

\* A push of what follows a run in its sequence extends the run.
LEMMA RunConcat ==
    ASSUME NEW S, NEW s, NEW q \in Seq(S), NEW h \in Seq(S), NEW k \in Nat,
           Run(s, q, k), Run(s, h, k + Len(q))
    PROVE  /\ Run(s, q \o h, k) /\ q \o h \in Seq(S)
           /\ Len(q \o h) = Len(q) + Len(h)
<1>1. /\ q \o h \in Seq(S) /\ Len(q \o h) = Len(q) + Len(h)
      /\ \A i \in 1..(Len(q) + Len(h)) :
            (q \o h)[i] = IF i <= Len(q) THEN q[i] ELSE h[i - Len(q)]
  BY ConcatProperties
<1>2. ASSUME NEW i \in 1..(Len(q) + Len(h)) PROVE (q \o h)[i] = s[k + i]
  <2>1. CASE i <= Len(q)
    <3>1. i \in 1..Len(q) /\ (q \o h)[i] = q[i]
      BY <1>1, <2>1
    <3>2. QED
      BY <3>1 DEF Run
  <2>2. CASE ~(i <= Len(q))
    <3>1. /\ i - Len(q) \in 1..Len(h) /\ (q \o h)[i] = h[i - Len(q)]
          /\ k + Len(q) + (i - Len(q)) = k + i
      BY <1>1, <2>2
    <3>2. h[i - Len(q)] = s[k + Len(q) + (i - Len(q))]
      BY <3>1 DEF Run
    <3>3. QED
      BY <3>1, <3>2
  <2>3. QED
    BY <2>1, <2>2
<1>3. QED
  BY <1>1, <1>2 DEF Run

\* One element is a run.
LEMMA RunSingle == ASSUME NEW s, NEW e, NEW k \in Nat, e = s[k + 1] PROVE Run(s, <<e>>, k)
  BY DEF Run

\* A run of a sequence is a run of the sequence when it has grown.
LEMMA RunGrows ==
    ASSUME NEW S, NEW s \in Seq(S), NEW e, NEW T, NEW q \in Seq(T), NEW k \in Nat,
           k + Len(q) <= Len(s), Run(s, q, k)
    PROVE  Run(Append(s, e), q, k)
<1>1. \A j \in 1..Len(s) : Append(s, e)[j] = s[j]
  OBVIOUS
<1>2. ASSUME NEW i \in 1..Len(q) PROVE k + i \in 1..Len(s)
  OBVIOUS
<1>3. QED
  BY <1>1, <1>2 DEF Run

\* The request of a run is one that from_file_paths makes.
LEMMA ProperRequest == ASSUME GivenOK PROVE Proper(req)
  BY ReceiveAssumption DEF GivenOK, Proper

\* What the arithmetic of the request (TransferPlanProofs) gives the writer.
LEMMA TheRequest ==
    ASSUME GivenOK
    PROVE  /\ req.files \in Nat \ {0} /\ req.ends \in [0..req.files -> Nat]
           /\ req.ends[0] = 0 /\ req.total = req.ends[req.files]
           /\ req.num \in Nat \ {0} /\ req.chunk \in Nat \ {0} /\ req.total \in Nat
           /\ Base(req, 1) = 0 /\ Base(req, req.num + 1) = req.total
  BY ProperRequest, RequestFacts, PlanAssumption

\* Where the chunks begin and end, and what they hold.
LEMMA TheChunks ==
    ASSUME GivenOK, NEW s \in 1..req.num
    PROVE  /\ Base(req, s) \in Nat /\ Base(req, s + 1) \in Nat
           /\ Base(req, s + 1) > Base(req, s)
           /\ ChunkData(req, s) =
                 [j \in 1..(Base(req, s + 1) - Base(req, s)) |-> Base(req, s) + j]
           /\ ChunkData(req, s) \in Seq(Nat)
           /\ Len(ChunkData(req, s)) = Base(req, s + 1) - Base(req, s)
<1>1. /\ Base(req, s) \in Nat /\ Base(req, s + 1) \in Nat
      /\ BufferSize(req, s) \in 1..req.chunk /\ req.chunk \in Nat
      /\ Base(req, s + 1) = Base(req, s) + BufferSize(req, s)
      /\ ChunkData(req, s) = [j \in 1..BufferSize(req, s) |-> Base(req, s) + j]
  BY ProperRequest, RequestFacts, PlanAssumption
<1>2. BufferSize(req, s) \in Nat /\ BufferSize(req, s) = Base(req, s + 1) - Base(req, s)
  BY <1>1
<1>3. /\ [j \in 1..BufferSize(req, s) |-> Base(req, s) + j] \in Seq(Nat)
      /\ Len([j \in 1..BufferSize(req, s) |-> Base(req, s) + j]) = BufferSize(req, s)
  BY <1>1, <1>2, Positions DEF Span
<1>4. QED
  BY <1>1, <1>2, <1>3

\* The ends of the files do not decrease and do not pass the end of the stream.
LEMMA FilesInOrder ==
    ASSUME GivenOK, NEW f \in 0..req.files
    PROVE  /\ req.ends[f] \in Nat /\ req.ends[f] <= req.total
           /\ f < req.files => /\ f + 1 \in 1..req.files /\ req.ends[f + 1] \in Nat
                               /\ req.ends[f] <= req.ends[f + 1]
           /\ f > 0 => f - 1 \in 0..req.files /\ req.ends[f - 1] \in Nat
  BY ProperRequest, EndsInOrder, PlanAssumption

\* What the packets of the transfer are, and what damage does to one.
LEMMA PacketType ==
    ASSUME GivenOK, NEW i \in 1..req.num
    PROVE  /\ Packet(i) \in Packets /\ Damaged(Packet(i)) \in Packets
           /\ Packet(i).seq = i /\ Packet(i).pos = i /\ Packet(i).final = (i = req.num)
           /\ Packet(i).data = ChunkData(req, i) /\ Damaged(Packet(i)).pos = 0
<1> DEFINE d == ChunkData(req, i)
<1>1. d \in Seq(Nat) /\ i \in Nat /\ (i = req.num) \in BOOLEAN
  BY TheChunks, TheRequest
<1>2. Packet(i) = [seq |-> i, data |-> d, pos |-> i, final |-> (i = req.num)]
  BY DEF Packet
<1>3. [j \in DOMAIN d |-> 0] \in Seq(Nat)
  BY <1>1
<1> HIDE DEF d
<1>4. Damaged(Packet(i)) = [seq |-> i, data |-> [j \in DOMAIN d |-> 0], pos |-> 0,
                            final |-> (i = req.num)]
  BY <1>2 DEF Damaged
<1>5. Packet(i) \in Packets /\ Damaged(Packet(i)) \in Packets
  <2>1. PICK last \in BOOLEAN : last = (i = req.num)
    BY <1>1
  <2>2. [seq |-> i, data |-> d, pos |-> i, final |-> last] \in Packets
    BY <1>1 DEF Packets
  <2>3. [seq |-> i, data |-> [j \in DOMAIN d |-> 0], pos |-> 0, final |-> last] \in Packets
    BY <1>1, <1>3 DEF Packets
  <2>4. QED
    BY <1>2, <1>4, <2>1, <2>2, <2>3
<1>6. QED
  BY <1>2, <1>4, <1>5 DEF d
-----------------------------------------------------------------------------
\* How many chunks are where: no thread is ahead of the one before it.
LEMMA Counts ==
    ASSUME ReceiveInv
    PROVE  /\ LeftDecQueue \in Nat /\ LeftRecvQueue \in Nat /\ decPos \in Nat
           /\ Len(decQueue) \in Nat /\ Len(recvQueue) \in Nat /\ DecryptedInHand \in 0..1
           /\ Len(decHand) \in 0..1 /\ Len(recvHand) \in 0..1
           /\ LeftRecvQueue = decPos + Len(decHand) - DecryptedInHand
           /\ decPos = LeftDecQueue + Len(decQueue) + DecryptedInHand
           /\ decPos <= LeftRecvQueue
           /\ taken = LeftRecvQueue + Len(recvQueue) + Len(recvHand)
           /\ taken \in Nat /\ taken <= Len(stream) /\ Len(stream) \in Nat
           /\ Len(stream) <= req.num /\ req.num \in Nat \ {0}
<1>1. /\ Len(decQueue) \in Nat /\ Len(recvQueue) \in Nat /\ Len(decHand) \in 0..1
      /\ Len(recvHand) \in 0..1 /\ decPos \in Nat
      /\ taken \in 0..Len(stream) /\ Len(stream) \in Nat
  <2>1. PeerOK /\ ReceptionOK /\ DecryptionOK /\ QueuesOK
    BY DEF ReceiveInv, TypeOK
  <2>2. Len(decQueue) \in Nat /\ Len(recvQueue) \in Nat
    BY <2>1 DEF QueuesOK
  <2>3. Len(decHand) \in 0..1 /\ Len(recvHand) \in 0..1
    BY <2>1, AtMostOne DEF DecryptionOK, ReceptionOK
  <2>4. stream \in Seq(Packets) /\ decPos \in Nat /\ taken \in 0..Len(stream)
    BY <2>1 DEF PeerOK, ReceptionOK, DecryptionOK
  <2>5. QED
    BY <2>2, <2>3, <2>4
<1>2. DecryptedInHand \in 0..1 /\ DecryptedInHand <= Len(decHand)
  BY <1>1 DEF DecryptedInHand
<1>3. /\ LeftDecQueue >= 0 /\ taken = LeftRecvQueue + Len(recvQueue) + Len(recvHand)
      /\ LeftDecQueue = decPos - DecryptedInHand - Len(decQueue)
      /\ LeftRecvQueue = decPos + Len(decHand) - DecryptedInHand
  BY DEF ReceiveInv, PlacesInv, LeftDecQueue, LeftRecvQueue
<1>4. Len(stream) <= req.num /\ req.num \in Nat \ {0}
  BY TheRequest DEF ReceiveInv, TypeOK, StreamInv
<1>5. QED
  BY <1>1, <1>2, <1>3, <1>4

\* The chunks in the hands are counted by natural numbers.
LEMMA HandsAreNat == ASSUME ReceiveInv PROVE DecryptedInHand \in Nat /\ Len(recvHand) \in Nat
<1>1. DecryptedInHand \in 0..1 /\ Len(recvHand) \in 0..1
  BY Counts
<1>2. QED
  BY <1>1

\* What the writer has taken, and what waits for it, is among the packets taken.
LEMMA Ahead ==
    ASSUME ReceiveInv
    PROVE  /\ LeftDecQueue \in 0..taken /\ taken \in 0..req.num
           /\ LeftDecQueue + Len(decQueue) <= req.num /\ req.num \in Nat
<1>1. /\ LeftDecQueue \in Nat /\ Len(decQueue) \in Nat /\ DecryptedInHand \in Nat
      /\ LeftRecvQueue \in Nat /\ Len(recvQueue) \in Nat /\ Len(recvHand) \in Nat
      /\ taken \in Nat /\ Len(stream) \in Nat /\ req.num \in Nat /\ decPos \in Nat
  <2>1. req.num \in Nat \ {0}
    BY Counts
  <2>2. QED
    BY <2>1, Counts, HandsAreNat
<1>2. LeftDecQueue + Len(decQueue) <= decPos
  <2>1. decPos = LeftDecQueue + Len(decQueue) + DecryptedInHand
    BY Counts
  <2>2. QED
    BY <1>1, <2>1
<1>3. decPos <= taken
  <2>1. decPos <= LeftRecvQueue /\ taken = LeftRecvQueue + Len(recvQueue) + Len(recvHand)
    BY Counts
  <2>2. QED
    BY <1>1, <2>1
<1>4. taken <= req.num
  <2>1. taken <= Len(stream) /\ Len(stream) <= req.num
    BY Counts
  <2>2. QED
    BY <1>1, <2>1
<1>5. QED
  BY <1>1, <1>2, <1>3, <1>4

\* A step that only moves a thread in its loop changes nothing of what has come,
\* where it is and what is written.
LEMMA Turned ==
    ASSUME ReceiveInv, UNCHANGED pipeVars, pc'["decryption"] = "push" <=> pc["decryption"] = "push"
    PROVE  /\ GivenOK' /\ PeerOK' /\ ReceptionOK' /\ DecryptionOK' /\ QueuesOK' /\ WriterOK'
           /\ StreamInv' /\ PlacesInv' /\ FilesInv'
           /\ LeftDecQueue' = LeftDecQueue /\ Position' = Position
<1>1. UNCHANGED <<req, faults, stream, closed, taken, recvHand, recvQueue, receptionDone,
                  decHand, decPos, decQueue, decryptionDone, file, missing, rest, disk,
                  chunksWritten>>
  BY DEF pipeVars, given, peerVars, recvVars, decVars, writerVars
<1>2. /\ GivenOK' /\ PeerOK' /\ ReceptionOK' /\ DecryptionOK' /\ QueuesOK' /\ WriterOK'
      /\ StreamInv' /\ FilesInv'
  <2>1. GivenOK' /\ PeerOK' /\ ReceptionOK' /\ DecryptionOK' /\ QueuesOK' /\ WriterOK'
    BY <1>1 DEF ReceiveInv, TypeOK, GivenOK, PeerOK, ReceptionOK, DecryptionOK, QueuesOK, WriterOK
  <2>2. StreamInv'
    BY <1>1 DEF ReceiveInv, StreamInv, Packet, Damaged
  <2>3. FilesInv'
    BY <1>1 DEF ReceiveInv, FilesInv, Arrived
  <2>4. QED
    BY <2>1, <2>2, <2>3
<1>3. DecryptedInHand' = DecryptedInHand
  BY <1>1 DEF DecryptedInHand
<1>4. LeftDecQueue' = LeftDecQueue /\ LeftRecvQueue' = LeftRecvQueue /\ AllChunks' = AllChunks
  BY <1>1, <1>3 DEF LeftDecQueue, LeftRecvQueue, AllChunks
<1>5. PlacesInv'
  BY <1>1, <1>4 DEF ReceiveInv, PlacesInv, Run
<1>6. Position' = Position
  BY <1>1, <1>4 DEF Position
<1>7. QED
  BY <1>2, <1>4, <1>5, <1>6

\* What the decryption looks at: the next packet of the stream, intact or damaged.
LEMMA InHand ==
    ASSUME ReceiveInv, pc["decryption"] = "decrypt"
    PROVE  /\ decPos + 1 \in 1..req.num /\ decHand[1] = stream[decPos + 1]
           /\ \/ /\ Decryptable(decHand[1]) /\ decHand[1] = Packet(decPos + 1)
              \/ "damage" \in faults /\ ~Decryptable(decHand[1])
<1>1. DecryptedInHand = 0 /\ Len(decHand) = 1 /\ GivenOK
  <2>1. decHand # <<>> /\ decHand \in Seq(Chunks \cup Packets) /\ GivenOK
    BY DEF ReceiveInv, HandsInv, TypeOK, DecryptionOK
  <2>2. Len(decHand) # 0
    BY <2>1
  <2>3. QED
    BY <2>1, <2>2, Counts DEF DecryptedInHand
<1>2. decPos + 1 \in 1..Len(stream) /\ decPos + 1 \in 1..req.num /\ decPos \in Nat
  <2>1. /\ decPos \in Nat /\ LeftRecvQueue = decPos + Len(decHand) - DecryptedInHand
        /\ Len(recvQueue) \in Nat /\ Len(recvHand) \in 0..1 /\ LeftRecvQueue \in Nat
        /\ taken = LeftRecvQueue + Len(recvQueue) + Len(recvHand)
        /\ taken <= Len(stream) /\ Len(stream) <= req.num
        /\ Len(stream) \in Nat /\ req.num \in Nat
    BY Counts
  <2>2. \A a, b, c, d, e \in Nat : (a + 1) - 0 + b + c <= d /\ d <= e =>
           a + 1 \in 1..d /\ a + 1 \in 1..e
    OBVIOUS
  <2>3. LeftRecvQueue = (decPos + 1) - 0 /\ Len(recvHand) \in Nat
    BY <1>1, <2>1
  <2>4. (decPos + 1) - 0 + Len(recvQueue) + Len(recvHand) <= Len(stream)
    BY <2>1, <2>3, Zenon
  <2>5. QED
    BY <2>1, <2>2, <2>3, <2>4, Zenon
<1>3. decHand[1] = stream[decPos + 1]
  BY <1>1 DEF ReceiveInv, PlacesInv, Run
<1>4. \/ stream[decPos + 1] = Packet(decPos + 1)
      \/ "damage" \in faults /\ stream[decPos + 1] = Damaged(Packet(decPos + 1))
  BY <1>2 DEF ReceiveInv, StreamInv
<1>5. CASE stream[decPos + 1] = Packet(decPos + 1)
  <2>1. Decryptable(decHand[1])
    BY <1>1, <1>2, <1>3, <1>5, PacketType DEF Decryptable
  <2>2. QED
    BY <1>2, <1>3, <1>5, <2>1
<1>6. CASE "damage" \in faults /\ stream[decPos + 1] = Damaged(Packet(decPos + 1))
  <2>1. ~Decryptable(decHand[1])
    BY <1>1, <1>2, <1>3, <1>6, PacketType DEF Decryptable
  <2>2. QED
    BY <1>2, <1>3, <1>6, <2>1
<1>7. QED
  BY <1>4, <1>5, <1>6

\* A writer that finds the decryption done and its queue drained has had everything.
LEMMA AllTaken ==
    ASSUME ReceiveInv, ~abort, pc["writer"] = "empty", decQueue = <<>>, rest = <<>>
    PROVE  Position = req.total
<1>1. /\ pc["decryption"] = "exit" /\ recvQueue = <<>> /\ decHand = <<>>
      /\ pc["receiver"] = "exit" /\ taken = req.num
  BY DEF ReceiveInv, DoneInv
<1>2. recvHand = <<>>
  BY <1>1 DEF ReceiveInv, HandsInv
<1>3. Len(recvHand) = 0 /\ Len(recvQueue) = 0 /\ Len(decQueue) = 0 /\ Len(decHand) = 0
  BY <1>1, <1>2
<1>4. DecryptedInHand = 0
  BY <1>1 DEF DecryptedInHand
<1>5. LeftDecQueue = req.num
  BY <1>1, <1>3, <1>4, Counts
<1>6. Base(req, req.num + 1) = req.total /\ req.total \in Nat
  BY TheRequest DEF ReceiveInv, TypeOK
<1>7. Position = req.total - 0
  BY <1>5, <1>6 DEF Position
<1>8. QED
  BY <1>6, <1>7

\* The head of the reading loop, while chunks are missing.
LEMMA ReceiveTopStep == ASSUME ReceiveInv, ReceiveTop PROVE ReceiveInv'
<1>1. TypeOK /\ PcInv /\ HandsInv /\ WriterInv /\ DoneInv /\ AbortInv
  BY DEF ReceiveInv
<1>2. /\ pc["receiver"] = "top" /\ taken < req.num
      /\ UNCHANGED <<abort, exception, outcome>> /\ UNCHANGED pipeVars
      /\ UNCHANGED <<req, faults, stream, closed, taken, recvHand, recvQueue,
                     receptionDone, decHand, decPos, decQueue, decryptionDone, file,
                     missing, rest, disk, chunksWritten>>
  BY DEF ReceiveTop, Turn, Step, At, pipeVars, given, peerVars, recvVars, decVars,
         writerVars
<1>3. /\ pc' \in [Workers -> Labels] /\ pc'["receiver"] = (IF abort THEN "exit" ELSE "read")
      /\ \A v \in Workers : v # "receiver" => pc'[v] = pc[v]
  BY <1>1, TheWorkers, Moved DEF ReceiveTop, Turn, Step, Labels
<1>4. /\ GivenOK' /\ PeerOK' /\ ReceptionOK' /\ DecryptionOK' /\ QueuesOK' /\ WriterOK'
      /\ StreamInv' /\ PlacesInv' /\ FilesInv' /\ LeftDecQueue' = LeftDecQueue
      /\ Position' = Position
  BY <1>2, <1>3, TheWorkers, Turned
<1>5. ContextOK'
  BY <1>1, <1>2, <1>3 DEF TypeOK, ContextOK
<1>6. PcInv'
  BY <1>1, <1>2, <1>3, TheWorkers DEF PcInv
<1>7. HandsInv'
  BY <1>1, <1>2, <1>3, TheWorkers DEF PcInv, HandsInv
<1>8. WriterInv'
  BY <1>1, <1>2, <1>3, <1>4, TheWorkers DEF PcInv, WriterInv
<1>9. DoneInv'
  BY <1>1, <1>2, <1>3, TheWorkers DEF PcInv, DoneInv
<1>10. AbortInv'
  BY <1>1, <1>2, <1>3, TheWorkers DEF PcInv, AbortInv
<1>11. QED
  BY <1>4, <1>5, <1>6, <1>7, <1>8, <1>9, <1>10
  DEF ReceiveInv, TypeOK

\* The connection ends while chunks are missing: the peer has stopped early.
LEMMA ReceiveFailsStep == ASSUME ReceiveInv, ReceiveFails PROVE ReceiveInv'
<1>1. TypeOK /\ PcInv /\ HandsInv /\ WriterInv /\ DoneInv /\ AbortInv
  BY DEF ReceiveInv
<1>2. /\ pc["receiver"] = "read" /\ taken = Len(stream) /\ closed
      /\ UNCHANGED <<abort, exception, outcome>> /\ UNCHANGED pipeVars
      /\ UNCHANGED <<req, faults, stream, closed, taken, recvHand, recvQueue,
                     receptionDone, decHand, decPos, decQueue, decryptionDone, file,
                     missing, rest, disk, chunksWritten>>
  BY DEF ReceiveFails, Throw, Step, At, pipeVars, given, peerVars, recvVars, decVars,
         writerVars
<1>3. /\ pc' \in [Workers -> Labels] /\ pc'["receiver"] = "catch"
      /\ \A v \in Workers : v # "receiver" => pc'[v] = pc[v]
  BY <1>1, TheWorkers, Moved DEF ReceiveFails, Throw, Step, Labels
<1>4. /\ GivenOK' /\ PeerOK' /\ ReceptionOK' /\ DecryptionOK' /\ QueuesOK' /\ WriterOK'
      /\ StreamInv' /\ PlacesInv' /\ FilesInv' /\ LeftDecQueue' = LeftDecQueue
      /\ Position' = Position
  BY <1>2, <1>3, TheWorkers, Turned
<1>5. ContextOK'
  BY <1>1, <1>2, <1>3 DEF TypeOK, ContextOK
<1>6. PcInv'
  BY <1>1, <1>2, <1>3, TheWorkers DEF PcInv
<1>7. HandsInv'
  BY <1>1, <1>2, <1>3, TheWorkers DEF PcInv, HandsInv
<1>8. WriterInv'
  BY <1>1, <1>2, <1>3, <1>4, TheWorkers DEF PcInv, WriterInv
<1>9. DoneInv'
  BY <1>1, <1>2, <1>3, TheWorkers DEF PcInv, DoneInv
<1>10. AbortInv'
  <2>1. taken < req.num
    BY <1>1, <1>2 DEF HandsInv
  <2>2. "peer" \in faults
    BY <1>2, <2>1, Counts DEF ReceiveInv, StreamInv
  <2>3. QED
    BY <1>1, <1>2, <1>3, <2>2, TheWorkers DEF PcInv, AbortInv
<1>11. QED
  BY <1>4, <1>5, <1>6, <1>7, <1>8, <1>9, <1>10
  DEF ReceiveInv, TypeOK

\* Nothing to pop: the done flag is looked at next.
LEMMA DecryptPopEmptyStep == ASSUME ReceiveInv, DecryptPopEmpty PROVE ReceiveInv'
<1>1. TypeOK /\ PcInv /\ HandsInv /\ WriterInv /\ DoneInv /\ AbortInv
  BY DEF ReceiveInv
<1>2. /\ pc["decryption"] = "pop"
      /\ UNCHANGED <<abort, exception, outcome>> /\ UNCHANGED pipeVars
      /\ UNCHANGED <<req, faults, stream, closed, taken, recvHand, recvQueue,
                     receptionDone, decHand, decPos, decQueue, decryptionDone, file,
                     missing, rest, disk, chunksWritten>>
  BY DEF DecryptPopEmpty, Turn, Step, At, pipeVars, given, peerVars, recvVars, decVars,
         writerVars
<1>3. /\ pc' \in [Workers -> Labels] /\ pc'["decryption"] = "load"
      /\ \A v \in Workers : v # "decryption" => pc'[v] = pc[v]
  BY <1>1, TheWorkers, Moved DEF DecryptPopEmpty, Turn, Step, Labels
<1>4. /\ GivenOK' /\ PeerOK' /\ ReceptionOK' /\ DecryptionOK' /\ QueuesOK' /\ WriterOK'
      /\ StreamInv' /\ PlacesInv' /\ FilesInv' /\ LeftDecQueue' = LeftDecQueue
      /\ Position' = Position
  BY <1>2, <1>3, TheWorkers, Turned
<1>5. ContextOK'
  BY <1>1, <1>2, <1>3 DEF TypeOK, ContextOK
<1>6. PcInv'
  BY <1>1, <1>2, <1>3, TheWorkers DEF PcInv
<1>7. HandsInv'
  BY <1>1, <1>2, <1>3, TheWorkers DEF PcInv, HandsInv
<1>8. WriterInv'
  BY <1>1, <1>2, <1>3, <1>4, TheWorkers DEF PcInv, WriterInv
<1>9. DoneInv'
  BY <1>1, <1>2, <1>3, TheWorkers DEF PcInv, DoneInv
<1>10. AbortInv'
  BY <1>1, <1>2, <1>3, TheWorkers DEF PcInv, AbortInv
<1>11. QED
  BY <1>4, <1>5, <1>6, <1>7, <1>8, <1>9, <1>10
  DEF ReceiveInv, TypeOK

\* The done flag of the reception is read.
LEMMA DecryptLoadDoneStep == ASSUME ReceiveInv, DecryptLoadDone PROVE ReceiveInv'
<1>1. TypeOK /\ PcInv /\ HandsInv /\ WriterInv /\ DoneInv /\ AbortInv
  BY DEF ReceiveInv
<1>2. /\ pc["decryption"] = "load"
      /\ UNCHANGED <<abort, exception, outcome>> /\ UNCHANGED pipeVars
      /\ UNCHANGED <<req, faults, stream, closed, taken, recvHand, recvQueue,
                     receptionDone, decHand, decPos, decQueue, decryptionDone, file,
                     missing, rest, disk, chunksWritten>>
  BY DEF DecryptLoadDone, Turn, Step, At, pipeVars, given, peerVars, recvVars, decVars,
         writerVars
<1>3. /\ pc' \in [Workers -> Labels] /\ pc'["decryption"] = (IF receptionDone THEN "empty" ELSE "top")
      /\ \A v \in Workers : v # "decryption" => pc'[v] = pc[v]
  BY <1>1, TheWorkers, Moved DEF DecryptLoadDone, Turn, Step, AfterLoad, Labels
<1>4. /\ GivenOK' /\ PeerOK' /\ ReceptionOK' /\ DecryptionOK' /\ QueuesOK' /\ WriterOK'
      /\ StreamInv' /\ PlacesInv' /\ FilesInv' /\ LeftDecQueue' = LeftDecQueue
      /\ Position' = Position
  BY <1>2, <1>3, TheWorkers, Turned
<1>5. ContextOK'
  BY <1>1, <1>2, <1>3 DEF TypeOK, ContextOK
<1>6. PcInv'
  BY <1>1, <1>2, <1>3, TheWorkers DEF PcInv
<1>7. HandsInv'
  BY <1>1, <1>2, <1>3, TheWorkers DEF PcInv, HandsInv
<1>8. WriterInv'
  BY <1>1, <1>2, <1>3, <1>4, TheWorkers DEF PcInv, WriterInv
<1>9. DoneInv'
  BY <1>1, <1>2, <1>3, TheWorkers DEF PcInv, DoneInv
<1>10. AbortInv'
  BY <1>1, <1>2, <1>3, TheWorkers DEF PcInv, AbortInv
<1>11. QED
  BY <1>4, <1>5, <1>6, <1>7, <1>8, <1>9, <1>10
  DEF ReceiveInv, TypeOK

\* Only a damaged packet fails the checks of decrypt_chunk.
LEMMA DecryptFailsStep == ASSUME ReceiveInv, DecryptFails PROVE ReceiveInv'
<1>1. TypeOK /\ PcInv /\ HandsInv /\ WriterInv /\ DoneInv /\ AbortInv
  BY DEF ReceiveInv
<1>2. /\ pc["decryption"] = "decrypt" /\ ~Decryptable(decHand[1])
      /\ UNCHANGED <<abort, exception, outcome>> /\ UNCHANGED pipeVars
      /\ UNCHANGED <<req, faults, stream, closed, taken, recvHand, recvQueue,
                     receptionDone, decHand, decPos, decQueue, decryptionDone, file,
                     missing, rest, disk, chunksWritten>>
  BY DEF DecryptFails, Throw, Step, At, pipeVars, given, peerVars, recvVars, decVars,
         writerVars
<1>3. /\ pc' \in [Workers -> Labels] /\ pc'["decryption"] = "catch"
      /\ \A v \in Workers : v # "decryption" => pc'[v] = pc[v]
  BY <1>1, TheWorkers, Moved DEF DecryptFails, Throw, Step, Labels
<1>4. /\ GivenOK' /\ PeerOK' /\ ReceptionOK' /\ DecryptionOK' /\ QueuesOK' /\ WriterOK'
      /\ StreamInv' /\ PlacesInv' /\ FilesInv' /\ LeftDecQueue' = LeftDecQueue
      /\ Position' = Position
  BY <1>2, <1>3, TheWorkers, Turned
<1>5. ContextOK'
  BY <1>1, <1>2, <1>3 DEF TypeOK, ContextOK
<1>6. PcInv'
  BY <1>1, <1>2, <1>3, TheWorkers DEF PcInv
<1>7. HandsInv'
  BY <1>1, <1>2, <1>3, TheWorkers DEF PcInv, HandsInv
<1>8. WriterInv'
  BY <1>1, <1>2, <1>3, <1>4, TheWorkers DEF PcInv, WriterInv
<1>9. DoneInv'
  BY <1>1, <1>2, <1>3, TheWorkers DEF PcInv, DoneInv
<1>10. AbortInv'
  <2>1. "damage" \in faults
    BY <1>1, <1>2, InHand DEF ReceiveInv, Decryptable
  <2>2. QED
    BY <1>1, <1>2, <1>3, <2>1, TheWorkers DEF PcInv, AbortInv
<1>11. QED
  BY <1>4, <1>5, <1>6, <1>7, <1>8, <1>9, <1>10
  DEF ReceiveInv, TypeOK

\* A file cannot be created, or a write to it fails.
LEMMA WriterFailsStep == ASSUME ReceiveInv, WriterFails PROVE ReceiveInv'
<1>1. TypeOK /\ PcInv /\ HandsInv /\ WriterInv /\ DoneInv /\ AbortInv
  BY DEF ReceiveInv
<1>2. /\ pc["writer"] \in {"open", "write"} /\ "writer" \in faults
      /\ UNCHANGED <<abort, exception, outcome>> /\ UNCHANGED pipeVars
      /\ UNCHANGED <<req, faults, stream, closed, taken, recvHand, recvQueue,
                     receptionDone, decHand, decPos, decQueue, decryptionDone, file,
                     missing, rest, disk, chunksWritten>>
  BY DEF WriterFails, Throw, Step, At, pipeVars, given, peerVars, recvVars, decVars,
         writerVars
<1>3. /\ pc' \in [Workers -> Labels] /\ pc'["writer"] = "catch"
      /\ \A v \in Workers : v # "writer" => pc'[v] = pc[v]
  BY <1>1, TheWorkers, Moved DEF WriterFails, Throw, Step, Labels
<1>4. /\ GivenOK' /\ PeerOK' /\ ReceptionOK' /\ DecryptionOK' /\ QueuesOK' /\ WriterOK'
      /\ StreamInv' /\ PlacesInv' /\ FilesInv' /\ LeftDecQueue' = LeftDecQueue
      /\ Position' = Position
  BY <1>2, <1>3, TheWorkers, Turned
<1>5. ContextOK'
  BY <1>1, <1>2, <1>3 DEF TypeOK, ContextOK
<1>6. PcInv'
  BY <1>1, <1>2, <1>3, TheWorkers DEF PcInv
<1>7. HandsInv'
  BY <1>1, <1>2, <1>3, TheWorkers DEF PcInv, HandsInv
<1>8. WriterInv'
  BY <1>1, <1>2, <1>3, <1>4, TheWorkers DEF PcInv, WriterInv
<1>9. DoneInv'
  BY <1>1, <1>2, <1>3, TheWorkers DEF PcInv, DoneInv
<1>10. AbortInv'
  BY <1>1, <1>2, <1>3, TheWorkers DEF PcInv, AbortInv
<1>11. QED
  BY <1>4, <1>5, <1>6, <1>7, <1>8, <1>9, <1>10
  DEF ReceiveInv, TypeOK

\* The loop over the files is left.
LEMMA WriterEndStep == ASSUME ReceiveInv, WriterEnd PROVE ReceiveInv'
<1>1. TypeOK /\ PcInv /\ HandsInv /\ WriterInv /\ DoneInv /\ AbortInv
  BY DEF ReceiveInv
<1>2. /\ pc["writer"] \in {"open", "write"}
      /\ (pc["writer"] = "open" /\ file = req.files) \/ abort
      /\ UNCHANGED <<abort, exception, outcome>> /\ UNCHANGED pipeVars
      /\ UNCHANGED <<req, faults, stream, closed, taken, recvHand, recvQueue,
                     receptionDone, decHand, decPos, decQueue, decryptionDone, file,
                     missing, rest, disk, chunksWritten>>
  BY DEF WriterEnd, Turn, Step, At, pipeVars, given, peerVars, recvVars, decVars,
         writerVars
<1>3. /\ pc' \in [Workers -> Labels] /\ pc'["writer"] = "exit"
      /\ \A v \in Workers : v # "writer" => pc'[v] = pc[v]
  BY <1>1, TheWorkers, Moved DEF WriterEnd, Turn, Step, Labels
<1>4. /\ GivenOK' /\ PeerOK' /\ ReceptionOK' /\ DecryptionOK' /\ QueuesOK' /\ WriterOK'
      /\ StreamInv' /\ PlacesInv' /\ FilesInv' /\ LeftDecQueue' = LeftDecQueue
      /\ Position' = Position
  BY <1>2, <1>3, TheWorkers, Turned
<1>5. ContextOK'
  BY <1>1, <1>2, <1>3 DEF TypeOK, ContextOK
<1>6. PcInv'
  BY <1>1, <1>2, <1>3, TheWorkers DEF PcInv
<1>7. HandsInv'
  BY <1>1, <1>2, <1>3, TheWorkers DEF PcInv, HandsInv
<1>8. WriterInv'
  BY <1>1, <1>2, <1>3, <1>4, TheWorkers DEF PcInv, WriterInv
<1>9. DoneInv'
  BY <1>1, <1>2, <1>3, TheWorkers DEF PcInv, DoneInv
<1>10. AbortInv'
  BY <1>1, <1>2, <1>3, TheWorkers DEF PcInv, AbortInv
<1>11. QED
  BY <1>4, <1>5, <1>6, <1>7, <1>8, <1>9, <1>10
  DEF ReceiveInv, TypeOK

\* The done flag of the decryption is read.
LEMMA WriterLoadDoneStep == ASSUME ReceiveInv, WriterLoadDone PROVE ReceiveInv'
<1>1. TypeOK /\ PcInv /\ HandsInv /\ WriterInv /\ DoneInv /\ AbortInv
  BY DEF ReceiveInv
<1>2. /\ pc["writer"] = "load"
      /\ UNCHANGED <<abort, exception, outcome>> /\ UNCHANGED pipeVars
      /\ UNCHANGED <<req, faults, stream, closed, taken, recvHand, recvQueue,
                     receptionDone, decHand, decPos, decQueue, decryptionDone, file,
                     missing, rest, disk, chunksWritten>>
  BY DEF WriterLoadDone, Turn, Step, At, pipeVars, given, peerVars, recvVars, decVars,
         writerVars
<1>3. /\ pc' \in [Workers -> Labels] /\ pc'["writer"] = (IF decryptionDone THEN "empty" ELSE "pop")
      /\ \A v \in Workers : v # "writer" => pc'[v] = pc[v]
  BY <1>1, TheWorkers, Moved DEF WriterLoadDone, Turn, Step, Labels
<1>4. /\ GivenOK' /\ PeerOK' /\ ReceptionOK' /\ DecryptionOK' /\ QueuesOK' /\ WriterOK'
      /\ StreamInv' /\ PlacesInv' /\ FilesInv' /\ LeftDecQueue' = LeftDecQueue
      /\ Position' = Position
  BY <1>2, <1>3, TheWorkers, Turned
<1>5. ContextOK'
  BY <1>1, <1>2, <1>3 DEF TypeOK, ContextOK
<1>6. PcInv'
  BY <1>1, <1>2, <1>3, TheWorkers DEF PcInv
<1>7. HandsInv'
  BY <1>1, <1>2, <1>3, TheWorkers DEF PcInv, HandsInv
<1>8. WriterInv'
  BY <1>1, <1>2, <1>3, <1>4, TheWorkers DEF PcInv, WriterInv
<1>9. DoneInv'
  BY <1>1, <1>2, <1>3, TheWorkers DEF PcInv, DoneInv
<1>10. AbortInv'
  BY <1>1, <1>2, <1>3, TheWorkers DEF PcInv, AbortInv
<1>11. QED
  BY <1>4, <1>5, <1>6, <1>7, <1>8, <1>9, <1>10
  DEF ReceiveInv, TypeOK

\* On a drained queue the writer goes on to the next file: every byte of the stream
\* is written then, so the open file needs none.
LEMMA WriterCheckEmptyStep == ASSUME ReceiveInv, WriterCheckEmpty PROVE ReceiveInv'
<1>1. TypeOK /\ PcInv /\ HandsInv /\ WriterInv /\ DoneInv /\ AbortInv
  BY DEF ReceiveInv
<1>2. /\ pc["writer"] = "empty"
      /\ UNCHANGED <<abort, exception, outcome>> /\ UNCHANGED pipeVars
      /\ UNCHANGED <<req, faults, stream, closed, taken, recvHand, recvQueue,
                     receptionDone, decHand, decPos, decQueue, decryptionDone, file,
                     missing, rest, disk, chunksWritten>>
  BY DEF WriterCheckEmpty, Turn, Step, At, pipeVars, given, peerVars, recvVars, decVars,
         writerVars
<1>3. /\ pc' \in [Workers -> Labels] /\ pc'["writer"] = (IF decQueue = <<>> THEN "open" ELSE "pop")
      /\ \A v \in Workers : v # "writer" => pc'[v] = pc[v]
  BY <1>1, TheWorkers, Moved DEF WriterCheckEmpty, Turn, Step, LoopLeft, Labels
<1>4. /\ GivenOK' /\ PeerOK' /\ ReceptionOK' /\ DecryptionOK' /\ QueuesOK' /\ WriterOK'
      /\ StreamInv' /\ PlacesInv' /\ FilesInv' /\ LeftDecQueue' = LeftDecQueue
      /\ Position' = Position
  BY <1>2, <1>3, TheWorkers, Turned
<1>5. ContextOK'
  BY <1>1, <1>2, <1>3 DEF TypeOK, ContextOK
<1>6. PcInv'
  BY <1>1, <1>2, <1>3, TheWorkers DEF PcInv
<1>7. HandsInv'
  BY <1>1, <1>2, <1>3, TheWorkers DEF PcInv, HandsInv
<1>8. WriterInv'
  <2>1. CASE abort
    BY <1>2, <2>1 DEF WriterInv
  <2>2. CASE ~abort /\ decQueue # <<>>
    BY <1>1, <1>2, <1>3, <1>4, <2>2, TheWorkers DEF PcInv, WriterInv
  <2>3. CASE ~abort /\ decQueue = <<>>
    <3>1. rest = <<>> /\ req.ends[file] - missing = Position
      BY <1>1, <1>2, <2>3 DEF WriterInv
    <3>2. Position = req.total
      BY <1>2, <2>3, <3>1, AllTaken
    <3>3. missing = 0
      <4>1. file \in 0..req.files /\ missing \in Nat /\ GivenOK
        BY <1>1 DEF TypeOK, WriterOK
      <4>2. req.ends[file] \in Nat /\ req.ends[file] <= req.total /\ req.total \in Nat
        BY <4>1, FilesInOrder, TheRequest
      <4>3. QED
        BY <3>1, <3>2, <4>1, <4>2
    <3>4. QED
      BY <1>1, <1>2, <1>3, <1>4, <2>3, <3>2, <3>3, TheWorkers DEF PcInv, WriterInv
  <2>4. QED
    BY <2>1, <2>2, <2>3
<1>9. DoneInv'
  BY <1>1, <1>2, <1>3, TheWorkers DEF PcInv, DoneInv
<1>10. AbortInv'
  BY <1>1, <1>2, <1>3, TheWorkers DEF PcInv, AbortInv
<1>11. QED
  BY <1>4, <1>5, <1>6, <1>7, <1>8, <1>9, <1>10
  DEF ReceiveInv, TypeOK

\* The progress bar is full, or the transfer is given up.
LEMMA ProgressStep == ASSUME ReceiveInv, Progress PROVE ReceiveInv'
<1>1. TypeOK /\ PcInv /\ HandsInv /\ WriterInv /\ DoneInv /\ AbortInv
  BY DEF ReceiveInv
<1>2. /\ pc["progress"] = "top"
      /\ UNCHANGED <<abort, exception, outcome>> /\ UNCHANGED pipeVars
      /\ UNCHANGED <<req, faults, stream, closed, taken, recvHand, recvQueue,
                     receptionDone, decHand, decPos, decQueue, decryptionDone, file,
                     missing, rest, disk, chunksWritten>>
  BY DEF Progress, Turn, Step, At, pipeVars, given, peerVars, recvVars, decVars,
         writerVars
<1>3. /\ pc' \in [Workers -> Labels] /\ pc'["progress"] = "exit"
      /\ \A v \in Workers : v # "progress" => pc'[v] = pc[v]
  BY <1>1, TheWorkers, Moved DEF Progress, Turn, Step, Labels
<1>4. /\ GivenOK' /\ PeerOK' /\ ReceptionOK' /\ DecryptionOK' /\ QueuesOK' /\ WriterOK'
      /\ StreamInv' /\ PlacesInv' /\ FilesInv' /\ LeftDecQueue' = LeftDecQueue
      /\ Position' = Position
  BY <1>2, <1>3, TheWorkers, Turned
<1>5. ContextOK'
  BY <1>1, <1>2, <1>3 DEF TypeOK, ContextOK
<1>6. PcInv'
  BY <1>1, <1>2, <1>3, TheWorkers DEF PcInv
<1>7. HandsInv'
  BY <1>1, <1>2, <1>3, TheWorkers DEF PcInv, HandsInv
<1>8. WriterInv'
  BY <1>1, <1>2, <1>3, <1>4, TheWorkers DEF PcInv, WriterInv
<1>9. DoneInv'
  BY <1>1, <1>2, <1>3, TheWorkers DEF PcInv, DoneInv
<1>10. AbortInv'
  BY <1>1, <1>2, <1>3, TheWorkers DEF PcInv, AbortInv
<1>11. QED
  BY <1>4, <1>5, <1>6, <1>7, <1>8, <1>9, <1>10
  DEF ReceiveInv, TypeOK

-----------------------------------------------------------------------------
\* The next packet arrives, intact or damaged, behind the ones before it.
LEMMA PeerSendsStep == ASSUME ReceiveInv, PeerSends PROVE ReceiveInv'
<1>1. /\ TypeOK /\ PcInv /\ StreamInv /\ PlacesInv /\ HandsInv /\ FilesInv /\ WriterInv
      /\ DoneInv /\ AbortInv
  BY DEF ReceiveInv
<1>2. /\ ~closed /\ Len(stream) < req.num
      /\ UNCHANGED <<pc, abort, exception, outcome>>
      /\ UNCHANGED <<req, faults, closed, taken, recvHand, recvQueue, receptionDone,
                     decHand, decPos, decQueue, decryptionDone, file, missing, rest,
                     disk, chunksWritten>>
  BY DEF PeerSends, beyondPeer, contextVars, given, recvVars, decVars, writerVars
<1>3. PICK p : /\ stream' = Append(stream, p)
               /\ \/ p = Packet(Len(stream) + 1)
                  \/ "damage" \in faults /\ p = Damaged(Packet(Len(stream) + 1))
  BY DEF PeerSends
<1>4. /\ stream \in Seq(Packets) /\ stream' \in Seq(Packets) /\ Len(stream') = Len(stream) + 1
      /\ Len(stream) \in Nat /\ \A i \in 1..Len(stream) : stream'[i] = stream[i]
      /\ stream'[Len(stream) + 1] = p
  <2>1. stream \in Seq(Packets) /\ GivenOK
    BY <1>1 DEF TypeOK, PeerOK
  <2>2. Len(stream) + 1 \in 1..req.num
    BY <1>2, <2>1, TheRequest
  <2>3. p \in Packets
    BY <1>3, <2>1, <2>2, PacketType
  <2>4. QED
    BY <1>3, <2>1, <2>3
<1>5. TypeOK'
  <2>1. ContextOK' /\ GivenOK'
    BY <1>1, <1>2 DEF TypeOK, ContextOK, GivenOK
  <2>2. PeerOK' /\ ReceptionOK'
    BY <1>1, <1>2, <1>4 DEF TypeOK, PeerOK, ReceptionOK
  <2>3. DecryptionOK' /\ QueuesOK' /\ WriterOK'
    BY <1>1, <1>2 DEF TypeOK, DecryptionOK, QueuesOK, WriterOK
  <2>4. QED
    BY <2>1, <2>2, <2>3 DEF TypeOK
<1>6. StreamInv'
  <2>1. Len(stream') <= req.num
    <3>1. Len(stream) \in Nat /\ req.num \in Nat
      BY Counts
    <3>2. QED
      BY <1>2, <1>4, <3>1
  <2>2. ASSUME NEW i \in 1..Len(stream')
        PROVE  stream'[i] = Packet(i) \/ ("damage" \in faults /\ stream'[i] = Damaged(Packet(i)))
    BY <1>1, <1>3, <1>4 DEF StreamInv
  <2>3. QED
    BY <1>2, <2>1, <2>2 DEF StreamInv, Packet, Damaged
<1>7. /\ LeftDecQueue' = LeftDecQueue /\ LeftRecvQueue' = LeftRecvQueue
      /\ AllChunks' = AllChunks /\ Position' = Position
  BY <1>2 DEF LeftDecQueue, LeftRecvQueue, DecryptedInHand, AllChunks, Position
<1>8. PlacesInv'
  <2>1. /\ decHand \in Seq(Chunks \cup Packets) /\ recvQueue \in Seq(Packets)
        /\ recvHand \in Seq(Packets)
    BY <1>1 DEF TypeOK, DecryptionOK, QueuesOK, ReceptionOK
  <2>2. pc["decryption"] # "push" => decPos + Len(decHand) <= Len(stream)
    BY Counts DEF DecryptedInHand
  <2>3. pc["decryption"] # "push" => Run(stream', decHand, decPos)
    BY <1>1, <1>3, <1>4, <2>1, <2>2, RunGrows, Counts DEF PlacesInv
  <2>4. Run(stream', recvQueue, LeftRecvQueue)
    <3>1. LeftRecvQueue + Len(recvQueue) <= Len(stream) /\ LeftRecvQueue \in Nat
      BY Counts
    <3>2. Run(stream, recvQueue, LeftRecvQueue)
      BY <1>1 DEF PlacesInv
    <3>3. QED
      BY <1>3, <1>4, <2>1, <3>1, <3>2, RunGrows
  <2>5. Run(stream', recvHand, LeftRecvQueue + Len(recvQueue))
    <3>1. /\ LeftRecvQueue + Len(recvQueue) + Len(recvHand) <= Len(stream)
          /\ LeftRecvQueue + Len(recvQueue) \in Nat
      BY Counts
    <3>2. Run(stream, recvHand, LeftRecvQueue + Len(recvQueue))
      BY <1>1 DEF PlacesInv
    <3>3. QED
      BY <1>3, <1>4, <2>1, <3>1, <3>2, RunGrows
  <2>6. QED
    BY <1>1, <1>2, <1>7, <2>3, <2>4, <2>5 DEF PlacesInv, Run
<1>9. PcInv' /\ HandsInv' /\ DoneInv' /\ AbortInv'
  BY <1>1, <1>2 DEF PcInv, HandsInv, DoneInv, AbortInv
<1>10. FilesInv' /\ WriterInv'
  BY <1>1, <1>2, <1>7 DEF FilesInv, Arrived, WriterInv
<1>11. QED
  BY <1>5, <1>6, <1>8, <1>9, <1>10 DEF ReceiveInv

\* The connection ends, too early only if the peer may stop.
LEMMA PeerClosesStep == ASSUME ReceiveInv, PeerCloses PROVE ReceiveInv'
<1>1. /\ TypeOK /\ PcInv /\ StreamInv /\ PlacesInv /\ HandsInv /\ FilesInv /\ WriterInv
      /\ DoneInv /\ AbortInv
  BY DEF ReceiveInv
<1>2. /\ closed' = TRUE /\ (Len(stream) = req.num \/ "peer" \in faults)
      /\ UNCHANGED <<pc, abort, exception, outcome>>
      /\ UNCHANGED <<req, faults, stream, taken, recvHand, recvQueue, receptionDone,
                     decHand, decPos, decQueue, decryptionDone, file, missing, rest,
                     disk, chunksWritten>>
  BY DEF PeerCloses, beyondPeer, contextVars, given, recvVars, decVars, writerVars
<1>3. TypeOK'
  <2>1. ContextOK' /\ GivenOK' /\ PeerOK'
    BY <1>1, <1>2 DEF TypeOK, ContextOK, GivenOK, PeerOK
  <2>2. ReceptionOK' /\ DecryptionOK' /\ QueuesOK' /\ WriterOK'
    BY <1>1, <1>2 DEF TypeOK, ReceptionOK, DecryptionOK, QueuesOK, WriterOK
  <2>3. QED
    BY <2>1, <2>2 DEF TypeOK
<1>4. StreamInv'
  BY <1>1, <1>2 DEF StreamInv, Packet, Damaged
<1>5. /\ LeftDecQueue' = LeftDecQueue /\ LeftRecvQueue' = LeftRecvQueue
      /\ AllChunks' = AllChunks /\ Position' = Position
  BY <1>2 DEF LeftDecQueue, LeftRecvQueue, DecryptedInHand, AllChunks, Position
<1>6. PlacesInv'
  BY <1>1, <1>2, <1>5 DEF PlacesInv, Run
<1>7. PcInv' /\ HandsInv' /\ DoneInv' /\ AbortInv'
  BY <1>1, <1>2 DEF PcInv, HandsInv, DoneInv, AbortInv
<1>8. FilesInv' /\ WriterInv'
  BY <1>1, <1>2, <1>5 DEF FilesInv, Arrived, WriterInv
<1>9. QED
  BY <1>3, <1>4, <1>6, <1>7, <1>8 DEF ReceiveInv

\* The reception stores its done flag only when it has read every packet.
LEMMA ReceiveDoneStep == ASSUME ReceiveInv, ReceiveDone PROVE ReceiveInv'
<1>1. /\ TypeOK /\ PcInv /\ StreamInv /\ PlacesInv /\ HandsInv /\ FilesInv /\ WriterInv
      /\ DoneInv /\ AbortInv
  BY DEF ReceiveInv
<1>2. /\ pc["receiver"] = "top" /\ taken = req.num /\ receptionDone' = TRUE
      /\ UNCHANGED <<abort, exception, outcome>>
      /\ UNCHANGED <<req, faults, stream, closed, taken, recvHand, recvQueue, decHand,
                     decPos, decQueue, decryptionDone, file, missing, rest, disk,
                     chunksWritten>>
  BY DEF ReceiveDone, Step, At, recvVars, beyondReception, given, peerVars, decVars,
         writerVars
<1>3. /\ pc' \in [Workers -> Labels] /\ pc'["receiver"] = "exit"
      /\ \A v \in Workers : v # "receiver" => pc'[v] = pc[v]
  BY <1>1, TheWorkers, Moved DEF ReceiveDone, Step, Labels
<1>4. TypeOK'
  <2>1. ContextOK' /\ GivenOK' /\ PeerOK' /\ ReceptionOK'
    BY <1>1, <1>2, <1>3 DEF TypeOK, ContextOK, GivenOK, PeerOK, ReceptionOK
  <2>2. DecryptionOK' /\ QueuesOK' /\ WriterOK'
    BY <1>1, <1>2 DEF TypeOK, DecryptionOK, QueuesOK, WriterOK
  <2>3. QED
    BY <2>1, <2>2 DEF TypeOK
<1>5. StreamInv'
  BY <1>1, <1>2 DEF StreamInv, Packet, Damaged
<1>6. /\ LeftDecQueue' = LeftDecQueue /\ LeftRecvQueue' = LeftRecvQueue
      /\ AllChunks' = AllChunks /\ Position' = Position
  BY <1>2, <1>3, TheWorkers DEF LeftDecQueue, LeftRecvQueue, DecryptedInHand, AllChunks, Position
<1>7. PlacesInv'
  BY <1>1, <1>2, <1>3, <1>6, TheWorkers DEF PlacesInv, Run
<1>8. PcInv' /\ HandsInv' /\ AbortInv'
  BY <1>1, <1>2, <1>3, TheWorkers DEF PcInv, HandsInv, AbortInv
<1>9. DoneInv'
  BY <1>1, <1>2, <1>3, TheWorkers DEF PcInv, DoneInv
<1>10. FilesInv' /\ WriterInv'
  BY <1>1, <1>2, <1>3, <1>6, TheWorkers DEF FilesInv, Arrived, WriterInv
<1>11. QED
  BY <1>4, <1>5, <1>7, <1>8, <1>9, <1>10 DEF ReceiveInv

\* The packet read is the next one of the connection.
LEMMA ReceivePacketStep == ASSUME ReceiveInv, ReceivePacket PROVE ReceiveInv'
<1>1. /\ TypeOK /\ PcInv /\ StreamInv /\ PlacesInv /\ HandsInv /\ FilesInv /\ WriterInv
      /\ DoneInv /\ AbortInv
  BY DEF ReceiveInv
<1>2. /\ pc["receiver"] = "read" /\ taken < Len(stream)
      /\ taken' = taken + 1 /\ recvHand' = <<stream[taken + 1]>>
      /\ UNCHANGED <<abort, exception, outcome>>
      /\ UNCHANGED <<req, faults, stream, closed, recvQueue, receptionDone, decHand,
                     decPos, decQueue, decryptionDone, file, missing, rest, disk,
                     chunksWritten>>
  BY DEF ReceivePacket, Step, At, beyondReception, given, peerVars, decVars, writerVars
<1>3. /\ pc' \in [Workers -> Labels] /\ pc'["receiver"] = "push"
      /\ \A v \in Workers : v # "receiver" => pc'[v] = pc[v]
  BY <1>1, TheWorkers, Moved DEF ReceivePacket, Step, Labels
<1>4. /\ stream \in Seq(Packets) /\ taken \in Nat /\ taken + 1 \in 1..Len(stream)
      /\ stream[taken + 1] \in Packets /\ recvHand = <<>>
  <2>1. stream \in Seq(Packets)
    BY <1>1 DEF TypeOK, PeerOK
  <2>2. taken \in Nat /\ taken + 1 \in 1..Len(stream)
    <3>1. taken \in 0..Len(stream) /\ Len(stream) \in Nat
      BY <1>1, <2>1 DEF TypeOK, ReceptionOK
    <3>2. QED
      BY <1>2, <3>1
  <2>3. stream[taken + 1] \in Packets
    BY <2>1, <2>2
  <2>4. recvHand = <<>>
    BY <1>1, <1>2 DEF HandsInv
  <2>5. QED
    BY <2>1, <2>2, <2>3, <2>4
<1>5. /\ recvHand' \in Seq(Packets) /\ Len(recvHand') = 1 /\ recvHand' # <<>>
      /\ Len(recvHand) = 0
  BY <1>2, <1>4, Single
<1>6. TypeOK'
  <2>1. ContextOK' /\ GivenOK' /\ PeerOK' /\ ReceptionOK'
    BY <1>1, <1>2, <1>3, <1>4, <1>5 DEF TypeOK, ContextOK, GivenOK, PeerOK, ReceptionOK
  <2>2. DecryptionOK' /\ QueuesOK' /\ WriterOK'
    BY <1>1, <1>2 DEF TypeOK, DecryptionOK, QueuesOK, WriterOK
  <2>3. QED
    BY <2>1, <2>2 DEF TypeOK
<1>7. StreamInv'
  BY <1>1, <1>2 DEF StreamInv, Packet, Damaged
<1>8. /\ LeftDecQueue' = LeftDecQueue /\ LeftRecvQueue' = LeftRecvQueue
      /\ AllChunks' = AllChunks /\ Position' = Position
  BY <1>2, <1>3, TheWorkers DEF LeftDecQueue, LeftRecvQueue, DecryptedInHand, AllChunks, Position
<1>9. PlacesInv'
  <2>1. taken = LeftRecvQueue + Len(recvQueue)
    BY <1>5, Counts
  <2>2. Run(stream, recvHand', LeftRecvQueue + Len(recvQueue))
    BY <1>2, <1>4, <2>1, RunSingle
  <2>3. taken' = LeftRecvQueue + Len(recvQueue) + Len(recvHand')
    BY <1>2, <1>5, <2>1
  <2>4. QED
    BY <1>1, <1>2, <1>3, <1>8, <2>2, <2>3, TheWorkers DEF PlacesInv, Run
<1>10. PcInv' /\ HandsInv' /\ AbortInv'
  BY <1>1, <1>2, <1>3, <1>5, TheWorkers DEF PcInv, HandsInv, AbortInv
<1>11. DoneInv'
  BY <1>1, <1>2, <1>3, TheWorkers DEF PcInv, DoneInv
<1>12. FilesInv'
  <2>1. Arrived <= Arrived' /\ Arrived \in Nat /\ Arrived' \in Nat
    <3>1. taken < req.num /\ taken \in Nat /\ Proper(req)
      <4>1. pc["receiver"] = "read" => taken < req.num
        BY <1>1 DEF HandsInv
      <4>2. taken < req.num
        BY <1>2, <4>1
      <4>3. taken \in Nat
        BY Counts
      <4>4. Proper(req)
        BY <1>1, ProperRequest DEF TypeOK
      <4>5. QED
        BY <4>2, <4>3, <4>4
    <3>2. QED
      BY <1>2, <3>1, OneChunkMore, PlanAssumption DEF Arrived
  <2>2. ASSUME NEW f \in 1..file, disk[f] # <<>>
        PROVE  req.ends[f - 1] + Len(disk[f]) <= Arrived'
    <3>1. f - 1 \in 0..req.files /\ f \in 1..Len(disk) /\ disk \in Seq(Seq(Nat)) /\ GivenOK
      BY <1>1, TheRequest DEF TypeOK, WriterOK
    <3>2. req.ends[f - 1] \in Nat /\ Len(disk[f]) \in Nat
      BY <3>1, FilesInOrder
    <3>3. req.ends[f - 1] + Len(disk[f]) <= Arrived
      BY <1>1, <2>2 DEF FilesInv
    <3>4. QED
      BY <2>1, <3>2, <3>3
  <2>3. QED
    BY <1>1, <1>2, <2>2 DEF FilesInv
<1>13. WriterInv'
  BY <1>1, <1>2, <1>3, <1>8, TheWorkers DEF WriterInv
<1>14. QED
  BY <1>6, <1>7, <1>9, <1>10, <1>11, <1>12, <1>13 DEF ReceiveInv

\* The packet read goes behind the ones pushed before it.
LEMMA ReceivePushStep == ASSUME ReceiveInv, ReceivePush PROVE ReceiveInv'
<1>1. /\ TypeOK /\ PcInv /\ StreamInv /\ PlacesInv /\ HandsInv /\ FilesInv /\ WriterInv
      /\ DoneInv /\ AbortInv
  BY DEF ReceiveInv
<1>2. /\ pc["receiver"] = "push" /\ Len(recvQueue) < Capacity
      /\ recvQueue' = recvQueue \o recvHand /\ recvHand' = <<>>
      /\ UNCHANGED <<abort, exception, outcome>>
      /\ UNCHANGED <<req, faults, stream, closed, taken, receptionDone, decHand,
                     decPos, decQueue, decryptionDone, file, missing, rest, disk,
                     chunksWritten>>
  BY DEF ReceivePush, HasRoom, Step, At, beyondReception, given, peerVars, decVars, writerVars
<1>3. /\ pc' \in [Workers -> Labels] /\ pc'["receiver"] = "top"
      /\ \A v \in Workers : v # "receiver" => pc'[v] = pc[v]
  BY <1>1, TheWorkers, Moved DEF ReceivePush, Step, Labels
<1>4. /\ LeftDecQueue' = LeftDecQueue /\ LeftRecvQueue' = LeftRecvQueue
      /\ AllChunks' = AllChunks /\ Position' = Position
  BY <1>2, <1>3, TheWorkers DEF LeftDecQueue, LeftRecvQueue, DecryptedInHand, AllChunks, Position
<1>5. /\ recvQueue \in Seq(Packets) /\ recvHand \in Seq(Packets) /\ recvHand # <<>>
      /\ LeftRecvQueue \in Nat /\ Run(stream, recvQueue, LeftRecvQueue)
      /\ Run(stream, recvHand, LeftRecvQueue + Len(recvQueue))
  BY <1>1, <1>2, Counts DEF TypeOK, QueuesOK, ReceptionOK, HandsInv, PlacesInv
<1>6. /\ recvQueue' \in Seq(Packets) /\ Len(recvQueue') = Len(recvQueue) + 1
      /\ Run(stream, recvQueue', LeftRecvQueue) /\ Len(recvHand) = 1
  <2>1. Len(recvHand) = 1
    BY <1>5, Counts
  <2>2. /\ recvQueue \o recvHand \in Seq(Packets)
        /\ Len(recvQueue \o recvHand) = Len(recvQueue) + Len(recvHand)
        /\ Run(stream, recvQueue \o recvHand, LeftRecvQueue)
    BY <1>5, RunConcat
  <2>3. QED
    BY <1>2, <2>1, <2>2
<1>7. recvHand' \in Seq(Packets) /\ Len(recvHand') = 0
  BY <1>2
<1>8. TypeOK'
  <2>1. ContextOK' /\ GivenOK' /\ PeerOK' /\ ReceptionOK'
    BY <1>1, <1>2, <1>3, <1>7 DEF TypeOK, ContextOK, GivenOK, PeerOK, ReceptionOK
  <2>2. QueuesOK'
    BY <1>1, <1>2, <1>6, Counts, ReceiveAssumption DEF TypeOK, QueuesOK
  <2>3. DecryptionOK' /\ WriterOK'
    BY <1>1, <1>2 DEF TypeOK, DecryptionOK, WriterOK
  <2>4. QED
    BY <2>1, <2>2, <2>3 DEF TypeOK
<1>9. StreamInv'
  BY <1>1, <1>2 DEF StreamInv, Packet, Damaged
<1>10. PlacesInv'
  <2>1. taken = LeftRecvQueue + Len(recvQueue') + Len(recvHand')
    BY <1>6, <1>7, Counts
  <2>2. Run(stream, recvHand', LeftRecvQueue + Len(recvQueue'))
    BY <1>7 DEF Run
  <2>3. QED
    BY <1>1, <1>2, <1>3, <1>4, <1>6, <2>1, <2>2, TheWorkers DEF PlacesInv, Run
<1>11. PcInv' /\ HandsInv' /\ AbortInv'
  BY <1>1, <1>2, <1>3, TheWorkers DEF PcInv, HandsInv, AbortInv
<1>12. DoneInv'
  BY <1>1, <1>2, <1>3, TheWorkers DEF PcInv, DoneInv
<1>13. FilesInv' /\ WriterInv'
  BY <1>1, <1>2, <1>3, <1>4, TheWorkers DEF FilesInv, Arrived, WriterInv
<1>14. QED
  BY <1>8, <1>9, <1>10, <1>11, <1>12, <1>13 DEF ReceiveInv
-----------------------------------------------------------------------------
\* The head of the decryption loop: it ends only when the transfer is given up.
LEMMA DecryptTopStep == ASSUME ReceiveInv, DecryptTop PROVE ReceiveInv'
<1>1. /\ TypeOK /\ PcInv /\ StreamInv /\ PlacesInv /\ HandsInv /\ FilesInv /\ WriterInv
      /\ DoneInv /\ AbortInv
  BY DEF ReceiveInv
<1>2. /\ pc["decryption"] = "top"
      /\ decryptionDone' = (decryptionDone \/ abort)
      /\ UNCHANGED <<abort, exception, outcome>>
      /\ UNCHANGED <<req, faults, stream, closed, taken, recvHand, recvQueue,
                     receptionDone, decHand, decPos, decQueue, file, missing, rest,
                     disk, chunksWritten>>
  BY DEF DecryptTop, Step, At, beyondDecryption, given, peerVars, recvVars, decVars,
         writerVars
<1>3. /\ pc' \in [Workers -> Labels]
      /\ pc'["decryption"] = (IF abort THEN "exit" ELSE "pop")
      /\ \A v \in Workers : v # "decryption" => pc'[v] = pc[v]
  BY <1>1, TheWorkers, Moved DEF DecryptTop, Step, Labels
<1>4. decHand = <<>>
  BY <1>1, <1>2 DEF HandsInv
<1>5. TypeOK'
  <2>1. ContextOK' /\ GivenOK' /\ PeerOK' /\ ReceptionOK'
    BY <1>1, <1>2, <1>3 DEF TypeOK, ContextOK, GivenOK, PeerOK, ReceptionOK
  <2>2. DecryptionOK'
    <3>1. decryptionDone' \in BOOLEAN
      BY <1>2
    <3>2. QED
      BY <1>1, <1>2, <3>1 DEF TypeOK, DecryptionOK
  <2>3. QueuesOK' /\ WriterOK'
    BY <1>1, <1>2 DEF TypeOK, QueuesOK, WriterOK
  <2>4. QED
    BY <2>1, <2>2, <2>3 DEF TypeOK
<1>6. StreamInv'
  BY <1>1, <1>2 DEF StreamInv, Packet, Damaged
<1>7. /\ LeftDecQueue' = LeftDecQueue /\ LeftRecvQueue' = LeftRecvQueue
      /\ AllChunks' = AllChunks /\ Position' = Position
  BY <1>2, <1>3 DEF LeftDecQueue, LeftRecvQueue, DecryptedInHand, AllChunks, Position
<1>8. PlacesInv'
  BY <1>1, <1>2, <1>3, <1>7 DEF PlacesInv, Run
<1>9. PcInv' /\ HandsInv' /\ AbortInv'
  BY <1>1, <1>2, <1>3, <1>4, TheWorkers DEF PcInv, HandsInv, AbortInv
<1>10. DoneInv'
  BY <1>1, <1>2, <1>3, <1>4, TheWorkers DEF PcInv, DoneInv
<1>11. FilesInv' /\ WriterInv'
  BY <1>1, <1>2, <1>3, <1>7, TheWorkers DEF FilesInv, Arrived, WriterInv
<1>12. QED
  BY <1>5, <1>6, <1>8, <1>9, <1>10, <1>11 DEF ReceiveInv

\* The decryption ends when the queue is empty after the reception was done: no
\* packet is left, and none can come.
LEMMA DecryptCheckEmptyStep == ASSUME ReceiveInv, DecryptCheckEmpty PROVE ReceiveInv'
<1>1. /\ TypeOK /\ PcInv /\ StreamInv /\ PlacesInv /\ HandsInv /\ FilesInv /\ WriterInv
      /\ DoneInv /\ AbortInv
  BY DEF ReceiveInv
<1>2. /\ pc["decryption"] = "empty"
      /\ decryptionDone' = (decryptionDone \/ recvQueue = <<>>)
      /\ UNCHANGED <<abort, exception, outcome>>
      /\ UNCHANGED <<req, faults, stream, closed, taken, recvHand, recvQueue,
                     receptionDone, decHand, decPos, decQueue, file, missing, rest,
                     disk, chunksWritten>>
  BY DEF DecryptCheckEmpty, Step, At, beyondDecryption, given, peerVars, recvVars, decVars,
         writerVars
<1>3. /\ pc' \in [Workers -> Labels]
      /\ pc'["decryption"] = (IF recvQueue = <<>> THEN "exit" ELSE "top")
      /\ \A v \in Workers : v # "decryption" => pc'[v] = pc[v]
  BY <1>1, TheWorkers, Moved DEF DecryptCheckEmpty, Step, Labels
<1>4. decHand = <<>>
  BY <1>1, <1>2 DEF HandsInv
<1>5. TypeOK'
  <2>1. ContextOK' /\ GivenOK' /\ PeerOK' /\ ReceptionOK'
    BY <1>1, <1>2, <1>3 DEF TypeOK, ContextOK, GivenOK, PeerOK, ReceptionOK
  <2>2. DecryptionOK'
    <3>1. decryptionDone' \in BOOLEAN
      BY <1>2
    <3>2. QED
      BY <1>1, <1>2, <3>1 DEF TypeOK, DecryptionOK
  <2>3. QueuesOK' /\ WriterOK'
    BY <1>1, <1>2 DEF TypeOK, QueuesOK, WriterOK
  <2>4. QED
    BY <2>1, <2>2, <2>3 DEF TypeOK
<1>6. StreamInv'
  BY <1>1, <1>2 DEF StreamInv, Packet, Damaged
<1>7. /\ LeftDecQueue' = LeftDecQueue /\ LeftRecvQueue' = LeftRecvQueue
      /\ AllChunks' = AllChunks /\ Position' = Position
  BY <1>2, <1>3 DEF LeftDecQueue, LeftRecvQueue, DecryptedInHand, AllChunks, Position
<1>8. PlacesInv'
  BY <1>1, <1>2, <1>3, <1>7 DEF PlacesInv, Run
<1>9. PcInv' /\ HandsInv' /\ AbortInv'
  BY <1>1, <1>2, <1>3, <1>4, TheWorkers DEF PcInv, HandsInv, AbortInv
<1>10. DoneInv'
  BY <1>1, <1>2, <1>3, <1>4, TheWorkers DEF PcInv, DoneInv
<1>11. FilesInv' /\ WriterInv'
  BY <1>1, <1>2, <1>3, <1>7, TheWorkers DEF FilesInv, Arrived, WriterInv
<1>12. QED
  BY <1>5, <1>6, <1>8, <1>9, <1>10, <1>11 DEF ReceiveInv

\* The packet popped is the next one of the stream.
LEMMA DecryptPopStep == ASSUME ReceiveInv, DecryptPop PROVE ReceiveInv'
<1>1. /\ TypeOK /\ PcInv /\ StreamInv /\ PlacesInv /\ HandsInv /\ FilesInv /\ WriterInv
      /\ DoneInv /\ AbortInv
  BY DEF ReceiveInv
<1>2. /\ pc["decryption"] = "pop" /\ recvQueue # <<>>
      /\ decHand' = <<Head(recvQueue)>> /\ recvQueue' = Tail(recvQueue)
      /\ UNCHANGED <<abort, exception, outcome>>
      /\ UNCHANGED <<req, faults, stream, closed, taken, recvHand, receptionDone,
                     decPos, decQueue, decryptionDone, file, missing, rest, disk,
                     chunksWritten>>
  BY DEF DecryptPop, Step, At, beyondDecryption, given, peerVars, recvVars, writerVars
<1>3. /\ pc' \in [Workers -> Labels] /\ pc'["decryption"] = "decrypt"
      /\ \A v \in Workers : v # "decryption" => pc'[v] = pc[v]
  BY <1>1, TheWorkers, Moved DEF DecryptPop, Step, Labels
<1>4. /\ recvQueue \in Seq(Packets) /\ Head(recvQueue) \in Packets
      /\ recvQueue' \in Seq(Packets) /\ Len(recvQueue') = Len(recvQueue) - 1
      /\ Len(recvQueue) <= Capacity
  <2>1. recvQueue \in Seq(Packets) /\ Len(recvQueue) <= Capacity
    BY <1>1 DEF TypeOK, QueuesOK
  <2>2. QED
    BY <1>2, <2>1, Popped
<1>5. decHand = <<>> /\ Len(decHand) = 0 /\ DecryptedInHand = 0 /\ LeftRecvQueue = decPos
  <2>1. decHand = <<>>
    BY <1>1, <1>2 DEF HandsInv
  <2>2. Len(decHand) = 0 /\ DecryptedInHand = 0
    BY <1>2, <2>1 DEF DecryptedInHand
  <2>3. QED
    BY <2>1, <2>2, Counts
<1>6. /\ decHand' \in Seq(Chunks \cup Packets) /\ Len(decHand') = 1 /\ decHand' # <<>>
  <2>1. Head(recvQueue) \in Chunks \cup Packets
    BY <1>4
  <2>2. QED
    BY <1>2, <2>1, Single
<1>7. TypeOK'
  <2>1. ContextOK' /\ GivenOK' /\ PeerOK' /\ ReceptionOK'
    BY <1>1, <1>2, <1>3 DEF TypeOK, ContextOK, GivenOK, PeerOK, ReceptionOK
  <2>2. DecryptionOK'
    BY <1>1, <1>2, <1>6 DEF TypeOK, DecryptionOK
  <2>3. QueuesOK'
    BY <1>1, <1>2, <1>4, Counts, ReceiveAssumption DEF TypeOK, QueuesOK
  <2>4. WriterOK'
    BY <1>1, <1>2 DEF TypeOK, WriterOK
  <2>5. QED
    BY <2>1, <2>2, <2>3, <2>4 DEF TypeOK
<1>8. StreamInv'
  BY <1>1, <1>2 DEF StreamInv, Packet, Damaged
<1>9. DecryptedInHand' = 0
  BY <1>3 DEF DecryptedInHand
<1>10. /\ LeftDecQueue' = LeftDecQueue /\ LeftRecvQueue' = LeftRecvQueue + 1
       /\ AllChunks' = AllChunks /\ Position' = Position
  <2>1. LeftDecQueue' = LeftDecQueue
    BY <1>2, <1>5, <1>9 DEF LeftDecQueue
  <2>2. LeftRecvQueue' = decPos + 1 - 0
    BY <1>2, <1>6, <1>9 DEF LeftRecvQueue
  <2>3. QED
    BY <1>2, <1>5, <2>1, <2>2, Counts DEF AllChunks, Position
<1>11. PlacesInv'
  <2>1. /\ Head(recvQueue) = stream[LeftRecvQueue + 1]
        /\ Run(stream, recvQueue', LeftRecvQueue + 1)
    <3>1. Run(stream, recvQueue, LeftRecvQueue) /\ LeftRecvQueue \in Nat
      BY <1>1, Counts DEF PlacesInv
    <3>2. /\ Head(recvQueue) = stream[LeftRecvQueue + 1]
          /\ Run(stream, Tail(recvQueue), LeftRecvQueue + 1)
      <4>1. recvQueue \in Seq(Packets) /\ recvQueue # <<>>
        BY <1>2, <1>4
      <4>2. QED
        BY <3>1, <4>1, RunPop
    <3>3. QED
      BY <1>2, <3>2
  <2>2. Run(stream, decHand', decPos)
    BY <1>2, <1>5, <2>1, RunSingle, Counts
  <2>3. LeftRecvQueue' + Len(recvQueue') = LeftRecvQueue + Len(recvQueue)
    <3>1. LeftRecvQueue \in Nat /\ Len(recvQueue) \in Nat
      BY Counts
    <3>2. Len(recvQueue') = Len(recvQueue) - 1 /\ LeftRecvQueue' = LeftRecvQueue + 1
      BY <1>4, <1>10
    <3>3. \A a, b \in Nat : (a + 1) + (b - 1) = a + b
      OBVIOUS
    <3>4. QED
      BY <3>1, <3>2, <3>3, Zenon
  <2>4. QED
    BY <1>1, <1>2, <1>3, <1>10, <2>1, <2>2, <2>3 DEF PlacesInv, Run
<1>12. PcInv' /\ HandsInv' /\ AbortInv'
  BY <1>1, <1>2, <1>3, <1>6, TheWorkers DEF PcInv, HandsInv, AbortInv
<1>13. DoneInv'
  BY <1>1, <1>2, <1>3, TheWorkers DEF PcInv, DoneInv
<1>14. FilesInv'
  BY <1>1, <1>2 DEF FilesInv, Arrived
<1>15. WriterInv'
  BY <1>1, <1>2, <1>3, <1>10, TheWorkers DEF WriterInv
<1>16. QED
  BY <1>7, <1>8, <1>11, <1>12, <1>13, <1>14, <1>15 DEF ReceiveInv

\* What passes the checks of decrypt_chunk is the next chunk of the transfer.
LEMMA DecryptChunkStep == ASSUME ReceiveInv, DecryptChunk PROVE ReceiveInv'
<1>1. /\ TypeOK /\ PcInv /\ StreamInv /\ PlacesInv /\ HandsInv /\ FilesInv /\ WriterInv
      /\ DoneInv /\ AbortInv
  BY DEF ReceiveInv
<1>2. /\ pc["decryption"] = "decrypt" /\ Decryptable(decHand[1])
      /\ decHand' = <<[seq |-> decHand[1].seq, data |-> decHand[1].data]>>
      /\ decPos' = decPos + 1
      /\ UNCHANGED <<abort, exception, outcome>>
      /\ UNCHANGED <<req, faults, stream, closed, taken, recvHand, recvQueue,
                     receptionDone, decQueue, decryptionDone, file, missing, rest,
                     disk, chunksWritten>>
  BY DEF DecryptChunk, Step, At, beyondDecryption, given, peerVars, recvVars, writerVars
<1>3. /\ pc' \in [Workers -> Labels] /\ pc'["decryption"] = "push"
      /\ \A v \in Workers : v # "decryption" => pc'[v] = pc[v]
  BY <1>1, TheWorkers, Moved DEF DecryptChunk, Step, Labels
<1>4. /\ decPos + 1 \in 1..req.num /\ decHand[1] = Packet(decPos + 1) /\ decPos \in Nat
      /\ GivenOK
  BY <1>1, <1>2, InHand, Counts DEF TypeOK
<1>5. decHand' = <<AllChunks[decPos + 1]>> /\ AllChunks[decPos + 1] \in Chunks
  <2>1. /\ Packet(decPos + 1).seq = decPos + 1
        /\ Packet(decPos + 1).data = ChunkData(req, decPos + 1)
        /\ ChunkData(req, decPos + 1) \in Seq(Nat)
    BY <1>4, PacketType, TheChunks
  <2>2. AllChunks[decPos + 1] = [seq |-> decPos + 1, data |-> ChunkData(req, decPos + 1)]
    BY <1>4 DEF AllChunks
  <2>3. AllChunks[decPos + 1] \in Chunks
    BY <1>4, <2>1, <2>2 DEF Chunks
  <2>4. QED
    BY <1>2, <1>4, <2>1, <2>2, <2>3
<1>6. decHand' \in Seq(Chunks \cup Packets) /\ Len(decHand') = 1 /\ decHand' # <<>>
  <2>1. AllChunks[decPos + 1] \in Chunks \cup Packets
    BY <1>5
  <2>2. QED
    BY <1>5, <2>1, Single
<1>7. Len(decHand) = 1 /\ DecryptedInHand = 0
  <2>1. decHand # <<>> /\ decHand \in Seq(Chunks \cup Packets)
    BY <1>1, <1>2 DEF HandsInv, TypeOK, DecryptionOK
  <2>2. Len(decHand) # 0
    BY <2>1
  <2>3. QED
    BY <1>2, <2>2, Counts DEF DecryptedInHand
<1>8. TypeOK'
  <2>1. ContextOK' /\ GivenOK' /\ PeerOK' /\ ReceptionOK'
    BY <1>1, <1>2, <1>3 DEF TypeOK, ContextOK, GivenOK, PeerOK, ReceptionOK
  <2>2. DecryptionOK'
    BY <1>1, <1>2, <1>4, <1>6 DEF TypeOK, DecryptionOK
  <2>3. QueuesOK' /\ WriterOK'
    BY <1>1, <1>2 DEF TypeOK, QueuesOK, WriterOK
  <2>4. QED
    BY <2>1, <2>2, <2>3 DEF TypeOK
<1>9. StreamInv'
  BY <1>1, <1>2 DEF StreamInv, Packet, Damaged
<1>10. DecryptedInHand' = 1
  BY <1>3, <1>6 DEF DecryptedInHand
<1>11. /\ LeftDecQueue' = LeftDecQueue /\ LeftRecvQueue' = LeftRecvQueue
       /\ AllChunks' = AllChunks /\ Position' = Position
  <2>1. LeftDecQueue' = LeftDecQueue
    <3>1. decPos' = decPos + 1 /\ decQueue' = decQueue /\ Len(decQueue) \in Nat
      BY <1>2, Counts
    <3>2. LeftDecQueue' = (decPos + 1) - 1 - Len(decQueue)
      BY <1>10, <3>1 DEF LeftDecQueue
    <3>3. LeftDecQueue = decPos - 0 - Len(decQueue)
      BY <1>7 DEF LeftDecQueue
    <3>4. QED
      BY <1>4, <3>1, <3>2, <3>3
  <2>2. LeftRecvQueue' = decPos + 1 + 1 - 1 /\ LeftRecvQueue = decPos + 1 - 0
    BY <1>2, <1>6, <1>7, <1>10 DEF LeftRecvQueue
  <2>3. QED
    BY <1>2, <1>4, <2>1, <2>2, Counts DEF AllChunks, Position
<1>12. PlacesInv'
  <2>1. Run(AllChunks, decHand', decPos)
    BY <1>4, <1>5, RunSingle
  <2>2. decPos' - 1 = decPos
    BY <1>2, <1>4
  <2>3. QED
    BY <1>1, <1>2, <1>3, <1>11, <2>1, <2>2 DEF PlacesInv, Run
<1>13. PcInv' /\ HandsInv' /\ AbortInv'
  BY <1>1, <1>2, <1>3, <1>6, TheWorkers DEF PcInv, HandsInv, AbortInv
<1>14. DoneInv'
  BY <1>1, <1>2, <1>3, TheWorkers DEF PcInv, DoneInv
<1>15. FilesInv' /\ WriterInv'
  BY <1>1, <1>2, <1>3, <1>11, TheWorkers DEF FilesInv, Arrived, WriterInv
<1>16. QED
  BY <1>8, <1>9, <1>12, <1>13, <1>14, <1>15 DEF ReceiveInv

\* The chunk decrypted goes behind the ones pushed before it.
LEMMA DecryptPushStep == ASSUME ReceiveInv, DecryptPush PROVE ReceiveInv'
<1>1. /\ TypeOK /\ PcInv /\ StreamInv /\ PlacesInv /\ HandsInv /\ FilesInv /\ WriterInv
      /\ DoneInv /\ AbortInv
  BY DEF ReceiveInv
<1>2. /\ pc["decryption"] = "push" /\ Len(decQueue) < Capacity
      /\ decQueue' = decQueue \o decHand /\ decHand' = <<>>
      /\ UNCHANGED <<abort, exception, outcome>>
      /\ UNCHANGED <<req, faults, stream, closed, taken, recvHand, recvQueue,
                     receptionDone, decPos, decryptionDone, file, missing, rest, disk,
                     chunksWritten>>
  BY DEF DecryptPush, HasRoom, Step, At, beyondDecryption, given, peerVars, recvVars,
         writerVars
<1>3. /\ pc' \in [Workers -> Labels] /\ pc'["decryption"] = "top"
      /\ \A v \in Workers : v # "decryption" => pc'[v] = pc[v]
  BY <1>1, TheWorkers, Moved DEF DecryptPush, Step, Labels
<1>4. /\ Len(decHand) = 1 /\ DecryptedInHand = 1 /\ decPos = LeftDecQueue + Len(decQueue) + 1
      /\ LeftDecQueue \in Nat /\ Len(decQueue) \in Nat /\ decPos \in 1..req.num
      /\ req.num \in Nat
  <2>1. decHand # <<>> /\ decHand \in Seq(Chunks \cup Packets)
    BY <1>1, <1>2 DEF HandsInv, TypeOK, DecryptionOK
  <2>2. Len(decHand) # 0
    BY <2>1
  <2>3. Len(decHand) = 1 /\ DecryptedInHand = 1
    BY <1>2, <2>2, Counts DEF DecryptedInHand
  <2>4. /\ decPos = LeftDecQueue + Len(decQueue) + 1
        /\ LeftDecQueue \in Nat /\ Len(decQueue) \in Nat /\ decPos \in Nat /\ req.num \in Nat
        /\ decPos <= LeftRecvQueue /\ LeftRecvQueue \in Nat
    BY <2>3, Counts
  <2>5. LeftRecvQueue <= req.num
    <3>1. /\ taken = LeftRecvQueue + Len(recvQueue) + Len(recvHand) /\ taken <= Len(stream)
          /\ Len(stream) <= req.num /\ Len(recvQueue) \in Nat /\ Len(recvHand) \in 0..1
          /\ Len(stream) \in Nat
      BY Counts
    <3>2. QED
      BY <2>4, <3>1
  <2>6. decPos \in 1..req.num
    BY <2>4, <2>5
  <2>7. QED
    BY <2>3, <2>4, <2>6
<1>5. decHand[1] = AllChunks[decPos] /\ decHand[1] \in Chunks /\ decHand = <<decHand[1]>>
  <2>1. decHand[1] = AllChunks[decPos - 1 + 1]
    BY <1>1, <1>2, <1>4 DEF PlacesInv, Run
  <2>2. AllChunks[decPos] = [seq |-> decPos, data |-> ChunkData(req, decPos)]
    BY <1>4 DEF AllChunks
  <2>3. ChunkData(req, decPos) \in Seq(Nat) /\ decPos \in Nat
    BY <1>1, <1>4, TheChunks DEF TypeOK
  <2>4. AllChunks[decPos] \in Chunks
    BY <2>2, <2>3 DEF Chunks
  <2>5. decPos - 1 + 1 = decPos
    BY <1>4
  <2>6. decHand \in Seq(Chunks \cup Packets)
    BY <1>1 DEF TypeOK, DecryptionOK
  <2>7. decHand = <<decHand[1]>>
    BY <1>4, <2>6, InOne
  <2>8. QED
    BY <2>1, <2>4, <2>5, <2>7
<1>6. /\ decQueue \in Seq(Chunks) /\ decHand \in Seq(Chunks)
      /\ Run(AllChunks, decQueue, LeftDecQueue)
      /\ Run(AllChunks, decHand, LeftDecQueue + Len(decQueue))
  <2>1. decQueue \in Seq(Chunks) /\ Run(AllChunks, decQueue, LeftDecQueue)
    BY <1>1 DEF TypeOK, QueuesOK, PlacesInv
  <2>2. decHand \in Seq(Chunks)
    BY <1>5, Single
  <2>3. Run(AllChunks, decHand, decPos - 1) /\ decPos - 1 = LeftDecQueue + Len(decQueue)
    BY <1>1, <1>2, <1>4 DEF PlacesInv
  <2>4. QED
    BY <2>1, <2>2, <2>3
<1>7. /\ decQueue' \in Seq(Chunks) /\ Len(decQueue') = Len(decQueue) + 1
      /\ Run(AllChunks, decQueue', LeftDecQueue)
  <2>1. /\ decQueue \o decHand \in Seq(Chunks) /\ Run(AllChunks, decQueue \o decHand, LeftDecQueue)
        /\ Len(decQueue \o decHand) = Len(decQueue) + Len(decHand)
    <3>1. LeftDecQueue \in Nat
      BY <1>4
    <3>2. QED
      BY <1>6, <3>1, RunConcat
  <2>2. QED
    BY <1>2, <1>4, <2>1
<1>8. decHand' \in Seq(Chunks \cup Packets) /\ Len(decHand') = 0 /\ DecryptedInHand' = 0
  BY <1>2, <1>3 DEF DecryptedInHand
<1>9. TypeOK'
  <2>1. ContextOK' /\ GivenOK' /\ PeerOK' /\ ReceptionOK'
    BY <1>1, <1>2, <1>3 DEF TypeOK, ContextOK, GivenOK, PeerOK, ReceptionOK
  <2>2. DecryptionOK'
    BY <1>1, <1>2, <1>8 DEF TypeOK, DecryptionOK
  <2>3. QueuesOK'
    BY <1>1, <1>2, <1>4, <1>7, ReceiveAssumption DEF TypeOK, QueuesOK
  <2>4. WriterOK'
    BY <1>1, <1>2 DEF TypeOK, WriterOK
  <2>5. QED
    BY <2>1, <2>2, <2>3, <2>4 DEF TypeOK
<1>10. StreamInv'
  BY <1>1, <1>2 DEF StreamInv, Packet, Damaged
<1>11. /\ LeftDecQueue' = LeftDecQueue /\ LeftRecvQueue' = LeftRecvQueue
       /\ AllChunks' = AllChunks /\ Position' = Position
  <2>1. /\ LeftDecQueue' = decPos - 0 - (Len(decQueue) + 1)
        /\ LeftDecQueue = decPos - 1 - Len(decQueue)
    BY <1>2, <1>4, <1>7, <1>8 DEF LeftDecQueue
  <2>2. LeftRecvQueue' = decPos + 0 - 0 /\ LeftRecvQueue = decPos + 1 - 1
    BY <1>2, <1>4, <1>8 DEF LeftRecvQueue
  <2>3. QED
    BY <1>2, <1>4, <2>1, <2>2 DEF AllChunks, Position
<1>12. PlacesInv'
  <2>1. Run(stream, decHand', decPos)
    BY <1>8 DEF Run
  <2>2. QED
    BY <1>1, <1>2, <1>3, <1>7, <1>11, <2>1 DEF PlacesInv, Run
<1>13. PcInv' /\ HandsInv' /\ AbortInv'
  BY <1>1, <1>2, <1>3, TheWorkers DEF PcInv, HandsInv, AbortInv
<1>14. DoneInv'
  BY <1>1, <1>2, <1>3, TheWorkers DEF PcInv, DoneInv
<1>15. FilesInv' /\ WriterInv'
  BY <1>1, <1>2, <1>3, <1>11, TheWorkers DEF FilesInv, Arrived, WriterInv
<1>16. QED
  BY <1>9, <1>10, <1>12, <1>13, <1>14, <1>15 DEF ReceiveInv
-----------------------------------------------------------------------------
\* What the writer knows of its place, as long as nothing has failed.
LEMMA WriterPlace ==
    ASSUME ReceiveInv, ~abort
    PROVE  /\ Position \in Nat /\ Len(rest) \in Nat /\ missing \in Nat /\ req.ends[file] \in Nat
           /\ file \in 0..req.files /\ req.files \in Nat
           /\ Base(req, LeftDecQueue + 1) = Position + Len(rest)
           /\ req.ends[file] = Position + missing /\ (file = 0 => missing = 0)
<1>1. /\ GivenOK /\ file \in 0..req.files /\ missing \in Nat /\ rest \in Seq(Nat)
  BY DEF ReceiveInv, TypeOK, WriterOK
<1>2. /\ req.files \in Nat /\ req.ends[file] \in Nat /\ req.ends[0] = 0
  BY <1>1, TheRequest, FilesInOrder
<1>3. Position >= 0 /\ req.ends[file] - missing = Position
  BY DEF ReceiveInv, WriterInv
<1>4. Base(req, LeftDecQueue + 1) \in Nat
  <2>1. LeftDecQueue + 1 \in 1..(req.num + 1)
    BY Ahead
  <2>2. QED
    BY <1>1, <2>1, ProperRequest, EveryBase, PlanAssumption
<1>5. Position = Base(req, LeftDecQueue + 1) - Len(rest) /\ Len(rest) \in Nat
  BY <1>1 DEF Position
<1>6. Position \in Nat /\ Base(req, LeftDecQueue + 1) = Position + Len(rest)
  BY <1>3, <1>4, <1>5
<1>7. req.ends[file] = Position + missing
  BY <1>1, <1>2, <1>3
<1>8. QED
  BY <1>1, <1>2, <1>3, <1>5, <1>6, <1>7

\* The writer takes the next chunk when it has written the one before it.
LEMMA TakeChunkStep ==
    ASSUME ReceiveInv, NEW from \in {"first", "pop"}, NEW to, TakeChunk(from, to),
           to = IF from = "pop" /\ missing > 0 THEN "write" ELSE "open"
    PROVE  ReceiveInv'
<1>1. /\ TypeOK /\ PcInv /\ StreamInv /\ PlacesInv /\ HandsInv /\ FilesInv /\ WriterInv
      /\ DoneInv /\ AbortInv
  BY DEF ReceiveInv
<1>2. /\ pc["writer"] = from /\ decQueue # <<>>
      /\ rest' = Head(decQueue).data /\ decQueue' = Tail(decQueue)
      /\ UNCHANGED <<abort, exception, outcome>>
      /\ UNCHANGED <<req, faults, stream, closed, taken, recvHand, recvQueue,
                     receptionDone, decHand, decPos, decryptionDone, file, missing, disk,
                     chunksWritten>>
  BY DEF TakeChunk, Step, At, beyondWriter, given, peerVars, recvVars, decVars
<1>3. /\ pc' \in [Workers -> Labels] /\ pc'["writer"] = to
      /\ \A v \in Workers : v # "writer" => pc'[v] = pc[v]
  BY <1>1, TheWorkers, Moved DEF TakeChunk, Step, Labels
<1>4. decQueue \in Seq(Chunks) /\ Len(decQueue) <= Capacity /\ GivenOK
  BY <1>1 DEF TypeOK, QueuesOK
<1>5. decQueue' \in Seq(Chunks) /\ Len(decQueue') = Len(decQueue) - 1 /\ Len(decQueue) \in Nat
  BY <1>2, <1>4, Popped, Counts
<1>6. LeftDecQueue' = LeftDecQueue + 1 /\ LeftRecvQueue' = LeftRecvQueue /\ AllChunks' = AllChunks
  <2>1. DecryptedInHand' = DecryptedInHand
    BY <1>2, <1>3, TheWorkers DEF DecryptedInHand
  <2>2. LeftDecQueue' = decPos - DecryptedInHand - (Len(decQueue) - 1)
    BY <1>2, <1>5, <2>1 DEF LeftDecQueue
  <2>3. LeftDecQueue = decPos - DecryptedInHand - Len(decQueue)
    BY DEF LeftDecQueue
  <2>4. LeftDecQueue' = LeftDecQueue + 1
    <3>1. decPos \in Nat /\ DecryptedInHand \in Nat
      BY Counts, HandsAreNat
    <3>2. QED
      BY <1>5, <2>2, <2>3, <3>1
  <2>5. QED
    BY <1>2, <2>1, <2>4 DEF LeftRecvQueue, AllChunks
<1> DEFINE k == LeftDecQueue + 1
<1>7. k \in 1..req.num /\ LeftDecQueue \in Nat
  <2>1. Len(decQueue) # 0
    BY <1>2, <1>4
  <2>2. QED
    BY <1>5, <2>1, Ahead
<1>8. Head(decQueue) = AllChunks[k] /\ Run(AllChunks, decQueue', k)
  <2>1. Run(AllChunks, decQueue, LeftDecQueue)
    BY <1>1 DEF PlacesInv
  <2>2. Head(decQueue) = AllChunks[k] /\ Run(AllChunks, Tail(decQueue), k)
    <3>1. LeftDecQueue \in Nat /\ decQueue # <<>>
      BY <1>2, <1>7
    <3>2. QED
      BY <1>4, <2>1, <3>1, RunPop
  <2>3. QED
    BY <1>2, <2>2
<1>9. rest' = ChunkData(req, k)
  BY <1>2, <1>7, <1>8 DEF AllChunks
<1>10. /\ Base(req, k) \in Nat /\ Base(req, k + 1) \in Nat /\ Base(req, k + 1) > Base(req, k)
       /\ rest' = [j \in 1..Len(rest') |-> Base(req, k) + j]
       /\ Len(rest') = Base(req, k + 1) - Base(req, k) /\ rest' \in Seq(Nat)
       /\ Len(rest') \in Nat \ {0}
  <2> HIDE DEF k
  <2>1. QED
    BY <1>4, <1>7, <1>9, TheChunks
<1>11. rest' # <<>>
  BY <1>10
<1>12. Position' = Base(req, k)
  <2>1. Position' = Base(req, k + 1) - Len(rest')
    BY <1>2, <1>6 DEF Position
  <2> HIDE DEF k
  <2>2. QED
    BY <1>10, <2>1
<1>13. TypeOK'
  <2>1. ContextOK' /\ GivenOK' /\ PeerOK' /\ ReceptionOK' /\ DecryptionOK'
    BY <1>1, <1>2, <1>3 DEF TypeOK, ContextOK, GivenOK, PeerOK, ReceptionOK, DecryptionOK
  <2>2. QueuesOK'
    BY <1>1, <1>2, <1>4, <1>5, ReceiveAssumption DEF TypeOK, QueuesOK
  <2>3. WriterOK'
    BY <1>1, <1>2, <1>10 DEF TypeOK, WriterOK
  <2>4. QED
    BY <2>1, <2>2, <2>3 DEF TypeOK
<1>14. StreamInv'
  BY <1>1, <1>2 DEF StreamInv, Packet, Damaged
<1>15. PlacesInv'
  <2>1. LeftDecQueue' >= 0 /\ Run(AllChunks', decQueue', LeftDecQueue')
    BY <1>6, <1>7, <1>8
  <2>2. QED
    BY <1>1, <1>2, <1>3, <1>6, <2>1, TheWorkers DEF PlacesInv, Run
<1>16. PcInv' /\ HandsInv' /\ AbortInv'
  BY <1>1, <1>2, <1>3, TheWorkers DEF PcInv, HandsInv, AbortInv
<1>17. DoneInv'
  BY <1>1, <1>2, <1>3, TheWorkers DEF PcInv, DoneInv
<1>18. FilesInv'
  BY <1>1, <1>2 DEF FilesInv, Arrived
<1>19. WriterInv'
  <2>1. SUFFICES ASSUME ~abort PROVE WriterInv'
    BY <1>2 DEF WriterInv
  <2>2. /\ rest = <<>> /\ req.ends[file] - missing = Position
        /\ \A f \in 1..file : f < file => Len(disk[f]) = FileSize(req, f)
        /\ file > 0 => Len(disk[file]) + missing = FileSize(req, file)
        /\ chunksWritten = LeftDecQueue - 0
        /\ pc["writer"] = "first" => file = 0
    BY <1>1, <1>2, <2>1 DEF WriterInv
  <2>3. Position = Base(req, k) /\ missing \in Nat /\ file \in Nat /\ (file = 0 => missing = 0)
    <3>1. Len(rest) = 0
      BY <2>2
    <3>2. QED
      BY <2>1, <3>1, WriterPlace
  <2>4. rest' = [j \in 1..Len(rest') |-> Position' + j] /\ Position' >= 0
    BY <1>10, <1>12
  <2>5. chunksWritten' = LeftDecQueue' - 1
    BY <1>2, <1>6, <1>7, <2>2
  <2>6. /\ to = "write" => file > 0 /\ missing > 0
        /\ to = "open" => missing = 0
    BY <1>2, <2>2, <2>3
  <2>7. to \in {"open", "write"}
    OBVIOUS
  <2>8. QED
    BY <1>2, <1>3, <1>11, <1>12, <2>2, <2>3, <2>4, <2>5, <2>6, <2>7 DEF WriterInv
<1>20. QED
  BY <1>13, <1>14, <1>15, <1>16, <1>17, <1>18, <1>19 DEF ReceiveInv

\* The file opened next begins where the one before it ended.
LEMMA OpenFileStep == ASSUME ReceiveInv, OpenFile PROVE ReceiveInv'
<1>1. /\ TypeOK /\ PcInv /\ StreamInv /\ PlacesInv /\ HandsInv /\ FilesInv /\ WriterInv
      /\ DoneInv /\ AbortInv
  BY DEF ReceiveInv
<1>2. /\ pc["writer"] = "open" /\ file < req.files
      /\ file' = file + 1 /\ missing' = FileSize(req, file + 1)
      /\ disk' = Append(disk, <<>>)
      /\ UNCHANGED <<abort, exception, outcome>>
      /\ UNCHANGED <<req, faults, stream, closed, taken, recvHand, recvQueue,
                     receptionDone, decHand, decPos, decQueue, decryptionDone, rest,
                     chunksWritten>>
  BY DEF OpenFile, Step, At, beyondWriter, given, peerVars, recvVars, decVars
<1>3. /\ pc' \in [Workers -> Labels]
      /\ pc'["writer"] = (IF missing' > 0 THEN "write" ELSE "open")
      /\ \A v \in Workers : v # "writer" => pc'[v] = pc[v]
  BY <1>1, TheWorkers, Moved DEF OpenFile, Step, Labels
<1>4. /\ file \in Nat /\ file + 1 \in 1..req.files /\ disk \in Seq(Seq(Nat))
      /\ Len(disk) = file /\ GivenOK
  BY <1>1, <1>2, TheRequest DEF TypeOK, WriterOK
<1>5. /\ missing' = req.ends[file + 1] - req.ends[file] /\ missing' \in Nat
      /\ req.ends[file] \in Nat /\ req.ends[file + 1] \in Nat /\ req.total \in Nat
      /\ req.ends[file + 1] <= req.total
  <2>1. file \in 0..req.files /\ file + 1 \in 0..req.files /\ (file + 1) - 1 = file
    <3>1. file \in Nat /\ req.files \in Nat
      BY <1>4, TheRequest
    <3>2. QED
      BY <1>2, <3>1
  <2>2. /\ req.ends[file] \in Nat /\ req.ends[file + 1] \in Nat
        /\ req.ends[file] <= req.ends[file + 1] /\ req.ends[file + 1] <= req.total
    BY <1>2, <1>4, <2>1, FilesInOrder
  <2>3. missing' = req.ends[file + 1] - req.ends[file] /\ req.total \in Nat
    BY <1>2, <1>4, <2>1, TheRequest DEF FileSize
  <2>4. QED
    BY <2>2, <2>3
<1>6. /\ disk' \in Seq(Seq(Nat)) /\ Len(disk') = file + 1
      /\ \A f \in 1..file : disk'[f] = disk[f]
      /\ disk'[file + 1] = <<>>
  <2>1. <<>> \in Seq(Nat)
    OBVIOUS
  <2>2. QED
    BY <1>2, <1>4, <2>1
<1>7. TypeOK'
  <2>1. ContextOK' /\ GivenOK' /\ PeerOK' /\ ReceptionOK' /\ DecryptionOK' /\ QueuesOK'
    BY <1>1, <1>2, <1>3
    DEF TypeOK, ContextOK, GivenOK, PeerOK, ReceptionOK, DecryptionOK, QueuesOK
  <2>2. WriterOK'
    BY <1>1, <1>2, <1>4, <1>5, <1>6 DEF TypeOK, WriterOK
  <2>3. QED
    BY <2>1, <2>2 DEF TypeOK
<1>8. StreamInv'
  BY <1>1, <1>2 DEF StreamInv, Packet, Damaged
<1>9. /\ LeftDecQueue' = LeftDecQueue /\ LeftRecvQueue' = LeftRecvQueue
      /\ AllChunks' = AllChunks /\ Position' = Position
  BY <1>2, <1>3, TheWorkers DEF LeftDecQueue, LeftRecvQueue, DecryptedInHand, AllChunks, Position
<1>10. PlacesInv'
  BY <1>1, <1>2, <1>3, <1>9, TheWorkers DEF PlacesInv, Run
<1>11. PcInv' /\ HandsInv' /\ AbortInv'
  BY <1>1, <1>2, <1>3, TheWorkers DEF PcInv, HandsInv, AbortInv
<1>12. DoneInv'
  BY <1>1, <1>2, <1>3, TheWorkers DEF PcInv, DoneInv
<1>13. FilesInv'
  <2>1. ASSUME NEW f \in 1..file'
        PROVE  /\ Len(disk'[f]) <= FileSize(req, f)
               /\ disk'[f] = [j \in 1..Len(disk'[f]) |-> req.ends[f - 1] + j]
               /\ disk'[f] # <<>> => req.ends[f - 1] + Len(disk'[f]) <= Arrived
    <3>1. CASE f = file + 1
      <4>1. Len(disk'[f]) = 0 /\ FileSize(req, f) = missing'
        BY <1>2, <1>6, <3>1
      <4>2. disk'[f] = [j \in 1..0 |-> req.ends[f - 1] + j]
        BY <1>6, <3>1
      <4>3. QED
        BY <1>5, <1>6, <3>1, <4>1, <4>2
    <3>2. CASE f # file + 1
      <4>1. f \in 1..file /\ disk'[f] = disk[f]
        BY <1>2, <1>4, <1>6, <3>2
      <4>2. QED
        BY <1>1, <4>1 DEF FilesInv
    <3>3. QED
      BY <3>1, <3>2
  <2>2. Arrived' = Arrived /\ chunksWritten' <= req.num
    BY <1>1, <1>2 DEF Arrived, FilesInv
  <2>3. QED
    BY <1>2, <2>1, <2>2 DEF FilesInv
<1>14. WriterInv'
  <2>1. SUFFICES ASSUME ~abort PROVE WriterInv'
    BY <1>2 DEF WriterInv
  <2>2. /\ Position >= 0 /\ rest = [j \in 1..Len(rest) |-> Position + j]
        /\ req.ends[file] - missing = Position /\ missing = 0
        /\ rest = <<>> => Position = req.total
        /\ \A f \in 1..file : f < file => Len(disk[f]) = FileSize(req, f)
        /\ file > 0 => Len(disk[file]) + missing = FileSize(req, file)
        /\ chunksWritten = LeftDecQueue - (IF rest = <<>> THEN 0 ELSE 1)
    BY <1>1, <1>2, <2>1 DEF WriterInv
  <2>3. Position = req.ends[file]
    BY <1>5, <2>2
  <2>4. req.ends[file'] - missing' = Position /\ file' > 0
    BY <1>2, <1>4, <1>5, <2>3
  <2>5. \A f \in 1..file' : f < file' => Len(disk'[f]) = FileSize(req, f)
    <3>1. ASSUME NEW f \in 1..file PROVE Len(disk[f]) = FileSize(req, f)
      <4>1. CASE f < file
        BY <2>2, <4>1
      <4>2. CASE f = file
        <5>1. disk[f] \in Seq(Nat)
          BY <1>4
        <5>2. Len(disk[f]) \in Nat /\ Len(disk[f]) + 0 = FileSize(req, f)
          BY <2>2, <4>2, <5>1
        <5>3. QED
          BY <5>2
      <4>3. QED
        BY <1>4, <4>1, <4>2
    <3>2. QED
      BY <1>2, <1>4, <1>6, <3>1
  <2>6. Len(disk'[file']) + missing' = FileSize(req, file')
    <3>1. Len(disk'[file']) = 0
      BY <1>2, <1>6
    <3>2. missing' = FileSize(req, file') /\ missing' \in Nat
      BY <1>2, <1>5
    <3>3. QED
      BY <3>1, <3>2
  <2>7. missing' > 0 => rest # <<>>
    <3>1. SUFFICES ASSUME rest = <<>> PROVE ~(missing' > 0)
      OBVIOUS
    <3>2. req.ends[file] = req.total
      BY <2>2, <2>3, <3>1
    <3>3. QED
      BY <1>5, <3>2
  <2>8. /\ pc'["writer"] = "write" => missing' > 0
        /\ pc'["writer"] = "open" => missing' = 0
        /\ pc'["writer"] \in {"write", "open"}
    BY <1>3, <1>5
  <2>9. QED
    BY <1>2, <1>9, <2>2, <2>4, <2>5, <2>6, <2>7, <2>8 DEF WriterInv
<1>15. QED
  BY <1>7, <1>8, <1>10, <1>11, <1>12, <1>13, <1>14 DEF ReceiveInv

\* A file that has L bytes after position e, and a chunk of which R bytes are left:
\* the n bytes written are the file's next ones and the stream's next ones.
LEMMA Grown ==
    ASSUME NEW e \in Nat, NEW L \in Nat, NEW R \in Nat, NEW n \in 0..R
    PROVE  /\ Span(e, L) \o SubSeq(Span(e + L, R), 1, n) = Span(e, L + n)
           /\ SubSeq(Span(e + L, R), n + 1, R) = Span(e + L + n, R - n)
<1>1. /\ SubSeq(Span(e + L, R), 1, n) = Span(e + L, n)
      /\ SubSeq(Span(e + L, R), n + 1, R) = Span(e + L + n, R - n)
  <2>1. e + L \in Nat
    OBVIOUS
  <2>2. QED
    BY <2>1, CutPositions
<1>2. Span(e, L) \o Span(e + L, n) = Span(e, L + n)
  <2>1. n \in Nat
    OBVIOUS
  <2>2. QED
    BY <2>1, JoinPositions
<1>3. QED
  BY <1>1, <1>2

\* The bytes written are the next ones of the stream and of the open file.
LEMMA WriteBytesStep == ASSUME ReceiveInv, WriteBytes PROVE ReceiveInv'
<1>1. /\ TypeOK /\ PcInv /\ StreamInv /\ PlacesInv /\ HandsInv /\ FilesInv /\ WriterInv
      /\ DoneInv /\ AbortInv
  BY DEF ReceiveInv
<1> DEFINE n == Least(missing, Len(rest))
           to == IF rest' = <<>> THEN "load" ELSE IF missing' > 0 THEN "write" ELSE "open"
<1>2. /\ pc["writer"] = "write" /\ ~abort
      /\ disk' = [disk EXCEPT ![file] = disk[file] \o SubSeq(rest, 1, n)]
      /\ rest' = SubSeq(rest, n + 1, Len(rest)) /\ missing' = missing - n
      /\ chunksWritten' = IF rest' = <<>> THEN chunksWritten + 1 ELSE chunksWritten
      /\ UNCHANGED <<abort, exception, outcome>>
      /\ UNCHANGED <<req, faults, stream, closed, taken, recvHand, recvQueue,
                     receptionDone, decHand, decPos, decQueue, decryptionDone, file>>
  BY DEF WriteBytes, Step, At, Counted, beyondWriter, given, peerVars, recvVars, decVars
<1>3. /\ pc' \in [Workers -> Labels] /\ pc'["writer"] = to
      /\ \A v \in Workers : v # "writer" => pc'[v] = pc[v]
  BY <1>1, TheWorkers, Moved DEF WriteBytes, Step, Labels
<1>4. /\ Position \in Nat /\ file \in 1..req.files /\ file - 1 \in 0..req.files
      /\ Len(rest) \in Nat \ {0} /\ missing \in Nat \ {0}
      /\ Base(req, LeftDecQueue + 1) = Position + Len(rest)
      /\ req.ends[file] = Position + missing /\ req.ends[file] \in Nat
      /\ req.ends[file - 1] \in Nat
  <2>1. file > 0 /\ missing > 0 /\ rest # <<>>
    BY <1>1, <1>2 DEF WriterInv
  <2>2. rest \in Seq(Nat) /\ GivenOK
    BY <1>1 DEF TypeOK, WriterOK
  <2>3. Len(rest) # 0
    BY <2>1, <2>2
  <2>4. /\ Position \in Nat /\ Len(rest) \in Nat /\ missing \in Nat /\ req.ends[file] \in Nat
        /\ file \in 0..req.files /\ req.files \in Nat
        /\ Base(req, LeftDecQueue + 1) = Position + Len(rest)
        /\ req.ends[file] = Position + missing
    BY <1>2, WriterPlace
  <2>5. file - 1 \in 0..req.files /\ req.ends[file - 1] \in Nat
    BY <2>1, <2>2, <2>4, FilesInOrder
  <2>6. QED
    BY <2>1, <2>3, <2>4, <2>5
<1>5. /\ disk \in Seq(Seq(Nat)) /\ file \in 1..Len(disk) /\ Len(disk[file]) \in Nat
      /\ disk[file] = [j \in 1..Len(disk[file]) |-> req.ends[file - 1] + j]
      /\ req.ends[file - 1] + Len(disk[file]) = Position
      /\ Len(disk[file]) + missing = FileSize(req, file)
  <2>1. disk \in Seq(Seq(Nat)) /\ Len(disk) = file
    BY <1>1 DEF TypeOK, WriterOK
  <2>2. file \in 1..Len(disk) /\ Len(disk[file]) \in Nat
    BY <1>4, <2>1
  <2>3. Len(disk[file]) + missing = FileSize(req, file)
    BY <1>1, <1>2, <1>4 DEF WriterInv
  <2>4. disk[file] = [j \in 1..Len(disk[file]) |-> req.ends[file - 1] + j]
    BY <1>1, <2>1, <2>2 DEF FilesInv
  <2>5. Len(disk[file]) + missing = req.ends[file] - req.ends[file - 1]
    BY <2>3 DEF FileSize
  <2>6. req.ends[file - 1] + Len(disk[file]) = Position
    <3>1. /\ req.ends[file - 1] \in Nat /\ Len(disk[file]) \in Nat /\ Position \in Nat
          /\ missing \in Nat /\ Len(disk[file]) + missing = (Position + missing) - req.ends[file - 1]
      BY <1>4, <2>2, <2>5
    <3>2. \A e, k, q, r \in Nat : k + r = (q + r) - e => e + k = q
      OBVIOUS
    <3>3. QED
      BY <3>1, <3>2
  <2>7. QED
    BY <2>1, <2>2, <2>3, <2>4, <2>6
<1> DEFINE new == disk[file] \o SubSeq(rest, 1, n)
<1>6. /\ n \in 1..Len(rest) /\ n <= missing /\ n \in Nat
      /\ new = [j \in 1..(Len(disk[file]) + n) |-> req.ends[file - 1] + j]
      /\ new \in Seq(Nat) /\ Len(new) = Len(disk[file]) + n
      /\ rest' = [j \in 1..(Len(rest) - n) |-> (Position + n) + j]
      /\ rest' \in Seq(Nat) /\ Len(rest') = Len(rest) - n
  <2>1. rest = [j \in 1..Len(rest) |-> Position + j]
    BY <1>1, <1>2 DEF WriterInv
  <2>2. /\ n \in 1..Len(rest) /\ n <= missing
        /\ new = [j \in 1..(Len(disk[file]) + n) |-> req.ends[file - 1] + j]
        /\ new \in Seq(Nat) /\ Len(new) = Len(disk[file]) + n
        /\ SubSeq(rest, n + 1, Len(rest)) = [j \in 1..(Len(rest) - n) |-> (Position + n) + j]
        /\ SubSeq(rest, n + 1, Len(rest)) \in Seq(Nat)
        /\ Len(SubSeq(rest, n + 1, Len(rest))) = Len(rest) - n
    <3> DEFINE L == Len(disk[file])
               R == Len(rest)
               e == req.ends[file - 1]
    <3>1. /\ L \in Nat /\ R \in Nat /\ e \in Nat /\ Position \in Nat /\ e + L = Position
      BY <1>4, <1>5
    <3>2. n \in 1..R /\ n <= missing /\ n \in 0..R
      <4>1. R \in Nat \ {0} /\ missing \in Nat \ {0}
        BY <1>4
      <4>2. QED
        BY <4>1 DEF Least
    <3>3. disk[file] = Span(e, L) /\ rest = Span(Position, R)
      BY <1>5, <2>1 DEF Span
    <3> HIDE DEF L, R, e, n
    <3>4. /\ Span(e, L) \o SubSeq(Span(Position, R), 1, n) = Span(e, L + n)
          /\ SubSeq(Span(Position, R), n + 1, R) = Span(Position + n, R - n)
      <4>1. /\ Span(e, L) \o SubSeq(Span(e + L, R), 1, n) = Span(e, L + n)
            /\ SubSeq(Span(e + L, R), n + 1, R) = Span(e + L + n, R - n)
        <5>1. e \in Nat /\ L \in Nat /\ R \in Nat /\ n \in 0..R
          BY <3>1, <3>2
        <5>2. QED
          BY <5>1, Grown, Zenon
      <4>2. QED
        BY <3>1, <4>1
    <3>5. new = Span(e, L + n) /\ SubSeq(rest, n + 1, R) = Span(Position + n, R - n)
      BY <3>3, <3>4
    <3>6. L + n \in Nat /\ R - n \in Nat /\ Position + n \in Nat
      BY <3>1, <3>2
    <3>7. /\ Span(e, L + n) \in Seq(Nat) /\ Len(Span(e, L + n)) = L + n
          /\ Span(Position + n, R - n) \in Seq(Nat) /\ Len(Span(Position + n, R - n)) = R - n
      BY <3>1, <3>6, Positions
    <3> HIDE DEF new
    <3>8. /\ n \in 1..R /\ n <= missing
          /\ new = [j \in 1..(L + n) |-> e + j]
          /\ new \in Seq(Nat) /\ Len(new) = L + n
          /\ SubSeq(rest, n + 1, R) = [j \in 1..(R - n) |-> (Position + n) + j]
          /\ SubSeq(rest, n + 1, R) \in Seq(Nat) /\ Len(SubSeq(rest, n + 1, R)) = R - n
      BY <3>2, <3>5, <3>7 DEF Span
    <3>9. QED
      BY <3>8 DEF L, R, e
  <2> HIDE DEF n, new
  <2>3. rest' = SubSeq(rest, n + 1, Len(rest)) /\ n \in Nat
    BY <1>2, <1>4, <2>2 DEF n
  <2>4. QED
    BY <2>2, <2>3
<1>7. disk' = [disk EXCEPT ![file] = new] /\ missing' = missing - n
  BY <1>2
<1> HIDE DEF n, new
<1>8. Len(new) = Len(disk[file]) + n /\ new = [j \in 1..Len(new) |-> req.ends[file - 1] + j]
  BY <1>6
<1>9. /\ disk' \in Seq(Seq(Nat)) /\ Len(disk') = Len(disk) /\ disk'[file] = new
      /\ \A f \in 1..Len(disk) : f # file => disk'[f] = disk[f]
  <2>1. disk \in Seq(Seq(Nat)) /\ file \in 1..Len(disk) /\ new \in Seq(Nat)
    BY <1>5, <1>6
  <2>2. QED
    BY <1>7, <2>1, Replaced
<1>10. missing' \in Nat /\ missing' = missing - n
  BY <1>4, <1>6, <1>7
<1>11. /\ LeftDecQueue' = LeftDecQueue /\ LeftRecvQueue' = LeftRecvQueue
       /\ AllChunks' = AllChunks /\ Position' = Position + n
  <2>1. LeftDecQueue' = LeftDecQueue /\ LeftRecvQueue' = LeftRecvQueue /\ AllChunks' = AllChunks
    BY <1>2, <1>3, TheWorkers DEF LeftDecQueue, LeftRecvQueue, DecryptedInHand, AllChunks
  <2>2. Position' = Base(req, LeftDecQueue + 1) - Len(rest')
    BY <1>2, <2>1 DEF Position
  <2>3. Position' = Position + n
    BY <1>4, <1>6, <2>2
  <2>4. QED
    BY <2>1, <2>3
<1>12. chunksWritten = LeftDecQueue - 1 /\ LeftDecQueue \in Nat /\ LeftDecQueue <= req.num
       /\ req.num \in Nat /\ chunksWritten \in Nat
  <2>1. rest # <<>>
    BY <1>1, <1>2 DEF WriterInv
  <2>2. chunksWritten = LeftDecQueue - 1 /\ chunksWritten \in Nat
    BY <1>1, <1>2, <2>1 DEF WriterInv, TypeOK, WriterOK
  <2>3. QED
    BY <2>2, Ahead
<1>13. TypeOK'
  <2>1. ContextOK' /\ GivenOK' /\ PeerOK' /\ ReceptionOK' /\ DecryptionOK' /\ QueuesOK'
    BY <1>1, <1>2, <1>3
    DEF TypeOK, ContextOK, GivenOK, PeerOK, ReceptionOK, DecryptionOK, QueuesOK
  <2>2. WriterOK'
    <3>1. chunksWritten' \in Nat
      BY <1>2, <1>12
    <3>2. QED
      BY <1>1, <1>2, <1>6, <1>9, <1>10, <3>1 DEF TypeOK, WriterOK
  <2>3. QED
    BY <2>1, <2>2 DEF TypeOK
<1>14. StreamInv'
  BY <1>1, <1>2 DEF StreamInv, Packet, Damaged
<1>15. PlacesInv'
  BY <1>1, <1>2, <1>3, <1>11, TheWorkers DEF PlacesInv, Run
<1>16. PcInv' /\ HandsInv' /\ AbortInv'
  BY <1>1, <1>2, <1>3, TheWorkers DEF PcInv, HandsInv, AbortInv
<1>17. DoneInv'
  BY <1>1, <1>2, <1>3, TheWorkers DEF PcInv, DoneInv
<1>18. Len(new) + missing' = FileSize(req, file) /\ req.ends[file] - missing' = Position + n
  <2>1. Len(disk[file]) + n + (missing - n) = Len(disk[file]) + missing
    <3>1. Len(disk[file]) \in Nat /\ missing \in Nat /\ n \in Nat
      BY <1>4, <1>5, <1>6
    <3>2. \A a, b, c \in Nat : a + b + (c - b) = a + c
      OBVIOUS
    <3>3. QED
      BY <3>1, <3>2, Zenon
  <2>2. Len(new) + missing' = FileSize(req, file)
    BY <1>5, <1>8, <1>10, <2>1
  <2>3. req.ends[file] - missing' = Position + n
    BY <1>4, <1>6, <1>10
  <2>4. QED
    BY <2>2, <2>3
<1>19. FilesInv'
  <2>1. Position + n <= Arrived
    <3>1. LeftDecQueue \in 0..taken /\ taken \in 0..req.num /\ Proper(req)
      BY <1>1, Ahead, ProperRequest DEF TypeOK
    <3>2. Base(req, LeftDecQueue + 1) <= Arrived
      BY <3>1, BaseBounded, PlanAssumption DEF Arrived
    <3>3. Arrived \in Int
      <4>1. taken \in Nat /\ req.chunk \in Nat /\ req.total \in Nat
        BY <1>1, Counts, TheRequest DEF TypeOK
      <4>2. taken * req.chunk \in Nat
        BY <4>1
      <4>3. QED
        BY <4>1, <4>2 DEF Arrived, Least
    <3>4. QED
      BY <1>4, <1>6, <3>2, <3>3
  <2>2. /\ Len(new) <= FileSize(req, file)
        /\ new = [j \in 1..Len(new) |-> req.ends[file - 1] + j]
        /\ req.ends[file - 1] + Len(new) <= Arrived
    <3>1. Len(new) \in Nat
      BY <1>6
    <3>2. Len(new) <= FileSize(req, file)
      BY <1>10, <1>18, <3>1
    <3>3. req.ends[file - 1] + Len(new) = Position + n
      <4>1. req.ends[file - 1] + (Len(disk[file]) + n) = (req.ends[file - 1] + Len(disk[file])) + n
        <5>1. req.ends[file - 1] \in Nat /\ Len(disk[file]) \in Nat /\ n \in Nat
          BY <1>4, <1>5, <1>6
        <5>2. QED
          BY <5>1
      <4>2. QED
        BY <1>5, <1>8, <4>1
    <3>4. QED
      BY <1>8, <2>1, <3>2, <3>3
  <2>3. ASSUME NEW f \in 1..file
        PROVE  /\ Len(disk'[f]) <= FileSize(req, f)
               /\ disk'[f] = [j \in 1..Len(disk'[f]) |-> req.ends[f - 1] + j]
               /\ disk'[f] # <<>> => req.ends[f - 1] + Len(disk'[f]) <= Arrived
    <3>1. CASE f = file
      BY <1>9, <2>2, <3>1
    <3>2. CASE f # file
      <4>1. f \in 1..Len(disk)
        BY <1>1 DEF TypeOK, WriterOK
      <4>2. disk'[f] = disk[f]
        BY <1>9, <3>2, <4>1
      <4>3. QED
        BY <1>1, <4>2 DEF FilesInv
    <3>3. QED
      BY <3>1, <3>2
  <2>4. Arrived' = Arrived
    BY <1>2 DEF Arrived
  <2>5. chunksWritten' <= req.num
    BY <1>2, <1>12
  <2>6. FileSize(req', file) = FileSize(req, file) /\ req' = req /\ file' = file
    BY <1>2
  <2>7. QED
    BY <2>3, <2>4, <2>5, <2>6 DEF FilesInv
<1>20. WriterInv'
  <2>1. rest' = [j \in 1..Len(rest') |-> Position' + j] /\ Position' >= 0
    BY <1>4, <1>6, <1>11
  <2>2. req.ends[file'] - missing' = Position'
    BY <1>2, <1>11, <1>18
  <2>3. \A f \in 1..file' : f < file' => Len(disk'[f]) = FileSize(req, f)
    <3>1. ASSUME NEW f \in 1..file, f < file PROVE Len(disk'[f]) = FileSize(req, f)
      <4>1. f \in 1..Len(disk) /\ f # file
        BY <1>1, <1>4, <3>1 DEF TypeOK, WriterOK
      <4>2. Len(disk[f]) = FileSize(req, f)
        BY <1>1, <1>2, <3>1 DEF WriterInv
      <4>3. QED
        BY <1>9, <4>1, <4>2
    <3>2. QED
      BY <1>2, <3>1
  <2>4. file' > 0 /\ Len(disk'[file']) + missing' = FileSize(req, file')
    <3>1. file' = file
      BY <1>2
    <3>2. QED
      BY <1>4, <1>9, <1>18, <3>1
  <2>5. chunksWritten' = LeftDecQueue' - (IF rest' = <<>> THEN 0 ELSE 1)
    <3>1. LeftDecQueue - 1 + 1 = LeftDecQueue - 0
      BY <1>12
    <3>2. QED
      BY <1>2, <1>11, <1>12, <3>1
  <2>6. /\ pc'["writer"] \in {"load", "write", "open"}
        /\ pc'["writer"] = "load" => rest' = <<>>
        /\ pc'["writer"] = "write" => missing' > 0 /\ rest' # <<>>
        /\ pc'["writer"] = "open" => missing' = 0 /\ rest' # <<>>
    BY <1>3, <1>10
  <2> HIDE DEF to
  <2>7. req' = req
    BY <1>2
  <2>8. QED
    BY <2>1, <2>2, <2>3, <2>4, <2>5, <2>6, <2>7 DEF WriterInv
<1>21. QED
  BY <1>13, <1>14, <1>15, <1>16, <1>17, <1>19, <1>20 DEF ReceiveInv
-----------------------------------------------------------------------------
\* A thread whose worker has thrown raises the abort flag, then records.
LEMMA HandleExceptionStep ==
    ASSUME ReceiveInv, NEW w \in Workers, HandleException(w) PROVE ReceiveInv'
<1>1. TypeOK /\ PcInv /\ HandsInv /\ WriterInv /\ DoneInv /\ AbortInv
  BY DEF ReceiveInv
<1>2. UNCHANGED pipeVars
      /\ UNCHANGED <<req, faults, stream, closed, taken, recvHand, recvQueue,
                     receptionDone, decHand, decPos, decQueue, decryptionDone, file,
                     missing, rest, disk, chunksWritten>>
  BY DEF HandleException, pipeVars, given, peerVars, recvVars, decVars, writerVars
<1>3. CASE RaiseAbort(w)
  <2>1. pc[w] = "catch" /\ abort' = TRUE /\ UNCHANGED <<exception, outcome>>
    BY <1>3 DEF RaiseAbort, At
  <2>2. /\ pc' \in [Workers -> Labels] /\ pc'[w] = "record"
        /\ \A v \in Workers : v # w => pc'[v] = pc[v]
    BY <1>1, <1>3, Moved DEF RaiseAbort, Labels
  <2>3. pc'["decryption"] = "push" <=> pc["decryption"] = "push"
    BY <2>1, <2>2, TheWorkers
  <2>4. /\ GivenOK' /\ PeerOK' /\ ReceptionOK' /\ DecryptionOK' /\ QueuesOK' /\ WriterOK'
        /\ StreamInv' /\ PlacesInv' /\ FilesInv'
    BY <1>2, <2>3, Turned
  <2>5. ContextOK' /\ PcInv' /\ HandsInv'
    <3>1. ContextOK'
      BY <1>1, <2>1, <2>2 DEF TypeOK, ContextOK
    <3>2. PcInv'
      BY <1>1, <2>2, TheWorkers DEF PcInv
    <3>3. HandsInv'
      BY <1>1, <1>2, <2>1, <2>2, TheWorkers DEF HandsInv
    <3>4. QED
      BY <3>1, <3>2, <3>3
  <2>6. WriterInv' /\ DoneInv'
    BY <2>1 DEF WriterInv, DoneInv
  <2>7. AbortInv'
    BY <1>1, <1>2, <2>1, <2>2, TheWorkers DEF AbortInv
  <2>8. QED
    BY <2>4, <2>5, <2>6, <2>7 DEF ReceiveInv, TypeOK
<1>4. CASE RecordException(w)
  <2>1. /\ pc[w] = "record" /\ abort /\ UNCHANGED <<abort, outcome>>
        /\ exception' = IF exception = "none" THEN w ELSE exception
    BY <1>1, <1>4 DEF RecordException, At, AbortInv
  <2>2. /\ pc' \in [Workers -> Labels] /\ pc'[w] = "exit"
        /\ \A v \in Workers : v # w => pc'[v] = pc[v]
    BY <1>1, <1>4, Moved DEF RecordException, Labels
  <2>3. pc'["decryption"] = "push" <=> pc["decryption"] = "push"
    BY <2>1, <2>2, TheWorkers
  <2>4. /\ GivenOK' /\ PeerOK' /\ ReceptionOK' /\ DecryptionOK' /\ QueuesOK' /\ WriterOK'
        /\ StreamInv' /\ PlacesInv' /\ FilesInv'
    BY <1>2, <2>3, Turned
  <2>5. exception' \in Workers /\ exception' # "none"
    BY <1>1, <2>1, TheWorkers DEF TypeOK, ContextOK
  <2>6. ContextOK' /\ PcInv' /\ HandsInv'
    <3>1. ContextOK'
      BY <1>1, <2>1, <2>2, <2>5 DEF TypeOK, ContextOK
    <3>2. PcInv'
      BY <1>1, <2>2, TheWorkers DEF PcInv
    <3>3. HandsInv'
      BY <1>1, <1>2, <2>1, <2>2, TheWorkers DEF HandsInv
    <3>4. QED
      BY <3>1, <3>2, <3>3
  <2>7. WriterInv' /\ DoneInv'
    BY <2>1 DEF WriterInv, DoneInv
  <2>8. AbortInv'
    <3>1. outcome' = "running"
      BY <1>1, <2>1 DEF AbortInv, TypeOK, ContextOK
    <3>2. QED
      BY <1>1, <1>2, <2>1, <2>2, <2>5, <3>1, TheWorkers DEF AbortInv
  <2>9. QED
    BY <2>4, <2>6, <2>7, <2>8 DEF ReceiveInv, TypeOK
<1>5. QED
  BY <1>3, <1>4 DEF HandleException

\* receive_files joins its threads and reports.
LEMMA MainStep == ASSUME ReceiveInv, Main PROVE ReceiveInv'
<1>1. TypeOK /\ PcInv /\ HandsInv /\ WriterInv /\ DoneInv /\ AbortInv
  BY DEF ReceiveInv
<1>2. /\ \A w \in Workers : pc[w] = "exit"
      /\ outcome' = IF exception = "none" THEN "complete" ELSE "failed"
      /\ UNCHANGED <<pc, abort, exception>> /\ UNCHANGED pipeVars
      /\ UNCHANGED <<req, faults, stream, closed, taken, recvHand, recvQueue,
                     receptionDone, decHand, decPos, decQueue, decryptionDone, file,
                     missing, rest, disk, chunksWritten>>
  BY DEF Main, Join, Report, At, pipeVars, given, peerVars, recvVars, decVars, writerVars
<1>3. /\ GivenOK' /\ PeerOK' /\ ReceptionOK' /\ DecryptionOK' /\ QueuesOK' /\ WriterOK'
      /\ StreamInv' /\ PlacesInv' /\ FilesInv' /\ LeftDecQueue' = LeftDecQueue
      /\ Position' = Position
  BY <1>2, Turned
<1>4. ContextOK'
  BY <1>1, <1>2 DEF TypeOK, ContextOK
<1>5. PcInv' /\ HandsInv' /\ DoneInv'
  BY <1>1, <1>2 DEF PcInv, HandsInv, DoneInv
<1>6. WriterInv'
  BY <1>1, <1>2, <1>3 DEF WriterInv
<1>7. AbortInv'
  BY <1>1, <1>2 DEF AbortInv
<1>8. QED
  BY <1>3, <1>4, <1>5, <1>6, <1>7 DEF ReceiveInv, TypeOK

\* Before the threads start nothing has arrived, and no file is open.
LEMMA InitStep == ASSUME Init PROVE ReceiveInv
<1>1. /\ pc = [w \in Workers |-> IF w = "writer" THEN "first" ELSE "top"]
      /\ abort = FALSE /\ exception = "none" /\ outcome = "running"
      /\ stream = <<>> /\ closed = FALSE
      /\ taken = 0 /\ recvHand = <<>> /\ recvQueue = <<>> /\ receptionDone = FALSE
      /\ decHand = <<>> /\ decPos = 0 /\ decQueue = <<>> /\ decryptionDone = FALSE
      /\ file = 0 /\ missing = 0 /\ rest = <<>> /\ disk = <<>> /\ chunksWritten = 0
  BY DEF Init, ContextInit
<1>2. GivenOK
  BY DEF Init, GivenOK
<1>3. /\ pc \in [Workers -> Labels] /\ pc["writer"] = "first"
      /\ \A w \in Workers : w # "writer" => pc[w] = "top"
  BY <1>1, TheWorkers DEF Labels
<1>4. /\ req.files \in Nat \ {0} /\ req.ends[0] = 0 /\ req.num \in Nat \ {0}
      /\ Base(req, 1) = 0
  BY <1>2, TheRequest
<1>5. /\ closed \in BOOLEAN /\ receptionDone \in BOOLEAN /\ decryptionDone \in BOOLEAN
      /\ abort \in BOOLEAN
  BY <1>1, Zenon
<1>6. TypeOK
  <2>1. ContextOK
    BY <1>1, <1>3, <1>5 DEF ContextOK
  <2>2. PeerOK /\ ReceptionOK
    <3>1. stream \in Seq(Packets) /\ recvHand \in Seq(Packets) /\ Len(recvHand) <= 1
      BY <1>1
    <3>2. taken \in 0..Len(stream)
      BY <1>1
    <3>3. QED
      BY <1>5, <3>1, <3>2 DEF PeerOK, ReceptionOK
  <2>3. DecryptionOK
    <3>1. decHand \in Seq(Chunks \cup Packets) /\ Len(decHand) <= 1 /\ decPos \in Nat
      BY <1>1
    <3>2. QED
      BY <1>5, <3>1 DEF DecryptionOK
  <2>4. QueuesOK
    <3>1. 0 <= Capacity
      BY ReceiveAssumption
    <3>2. /\ recvQueue \in Seq(Packets) /\ Len(recvQueue) = 0
          /\ decQueue \in Seq(Chunks) /\ Len(decQueue) = 0
      BY <1>1
    <3>3. QED
      BY <3>1, <3>2 DEF QueuesOK
  <2>5. WriterOK
    BY <1>1, <1>4 DEF WriterOK
  <2>6. QED
    BY <1>2, <2>1, <2>2, <2>3, <2>4, <2>5 DEF TypeOK
<1>7. PcInv
  BY <1>3, TheWorkers DEF PcInv
<1>8. LeftDecQueue = 0 /\ LeftRecvQueue = 0 /\ Position = 0 /\ Len(rest) = 0
  <2>1. DecryptedInHand = 0
    BY <1>1, <1>3, TheWorkers DEF DecryptedInHand
  <2>2. LeftDecQueue = 0 /\ LeftRecvQueue = 0
    <3>1. decPos = 0 /\ Len(decHand) = 0 /\ Len(decQueue) = 0
      BY <1>1
    <3>2. QED
      BY <2>1, <3>1 DEF LeftDecQueue, LeftRecvQueue
  <2>3. Position = Base(req, 0 + 1) - 0
    BY <1>1, <2>2 DEF Position
  <2>4. QED
    BY <1>1, <1>4, <2>2, <2>3
<1>9. StreamInv
  BY <1>1, <1>4 DEF StreamInv
<1>10. PlacesInv
  BY <1>1, <1>3, <1>8, TheWorkers DEF PlacesInv, Run
<1>11. HandsInv /\ DoneInv /\ AbortInv
  BY <1>1, <1>3, TheWorkers DEF HandsInv, DoneInv, AbortInv
<1>12. FilesInv
  BY <1>1, <1>4 DEF FilesInv
<1>13. WriterInv
  <2>1. rest = [j \in 1..Len(rest) |-> Position + j]
    BY <1>1, <1>8
  <2>2. QED
    BY <1>1, <1>3, <1>4, <1>8, <2>1 DEF WriterInv
<1>14. QED
  BY <1>6, <1>7, <1>9, <1>10, <1>11, <1>12, <1>13 DEF ReceiveInv

\* A step of somebody else.
LEMMA StutterStep == ASSUME ReceiveInv, UNCHANGED vars PROVE ReceiveInv'
<1>1. TypeOK /\ PcInv /\ HandsInv /\ WriterInv /\ DoneInv /\ AbortInv
  BY DEF ReceiveInv
<1>2. /\ UNCHANGED <<pc, abort, exception, outcome>> /\ UNCHANGED pipeVars
      /\ UNCHANGED <<req, faults, stream, closed, taken, recvHand, recvQueue,
                     receptionDone, decHand, decPos, decQueue, decryptionDone, file,
                     missing, rest, disk, chunksWritten>>
  BY DEF vars, contextVars, pipeVars, given, peerVars, recvVars, decVars, writerVars
<1>3. /\ GivenOK' /\ PeerOK' /\ ReceptionOK' /\ DecryptionOK' /\ QueuesOK' /\ WriterOK'
      /\ StreamInv' /\ PlacesInv' /\ FilesInv' /\ LeftDecQueue' = LeftDecQueue
      /\ Position' = Position
  BY <1>2, Turned
<1>4. ContextOK' /\ PcInv' /\ HandsInv' /\ DoneInv'
  BY <1>1, <1>2 DEF TypeOK, ContextOK, PcInv, HandsInv, DoneInv
<1>5. WriterInv' /\ AbortInv'
  BY <1>1, <1>2, <1>3 DEF WriterInv, AbortInv
<1>6. QED
  BY <1>3, <1>4, <1>5 DEF ReceiveInv, TypeOK
-----------------------------------------------------------------------------
\* The invariant of ReceiveInvariant holds in every reachable state of receive_files,
\* for every request, every set of failures and every queue capacity.
THEOREM Invariance == Spec => []ReceiveInv
<1>1. Init => ReceiveInv
  BY InitStep
<1>2. ReceiveInv /\ [Next]_vars => ReceiveInv'
  <2> SUFFICES ASSUME ReceiveInv, [Next]_vars PROVE ReceiveInv'
    OBVIOUS
  <2>1. CASE PeerSends \/ PeerCloses
    BY <2>1, PeerSendsStep, PeerClosesStep
  <2>2. CASE Reception
    BY <2>2, ReceiveDoneStep, ReceiveTopStep, ReceivePacketStep, ReceiveFailsStep,
       ReceivePushStep DEF Reception
  <2>3. CASE Decryption
    BY <2>3, DecryptTopStep, DecryptPopStep, DecryptPopEmptyStep, DecryptLoadDoneStep,
       DecryptCheckEmptyStep, DecryptChunkStep, DecryptFailsStep, DecryptPushStep
    DEF Decryption
  <2>4. CASE Writer
    <3>1. CASE FirstChunk
      BY <3>1, TakeChunkStep DEF FirstChunk
    <3>2. CASE NextChunk
      BY <3>2, TakeChunkStep DEF NextChunk
    <3>3. QED
      BY <2>4, <3>1, <3>2, OpenFileStep, WriterFailsStep, WriterEndStep, WriteBytesStep,
         WriterLoadDoneStep, WriterCheckEmptyStep DEF Writer
  <2>5. CASE Progress
    BY <2>5, ProgressStep
  <2>6. CASE Main
    BY <2>6, MainStep
  <2>7. CASE \E w \in Workers : HandleException(w)
    BY <2>7, HandleExceptionStep
  <2>8. CASE UNCHANGED vars
    BY <2>8, StutterStep
  <2>9. QED
    BY <2>1, <2>2, <2>3, <2>4, <2>5, <2>6, <2>7, <2>8 DEF Next
<1>3. QED
  BY <1>1, <1>2, PTL DEF Spec

\* Every variable keeps its type, no queue holds more than QUEUE_CAPACITY chunks and
\* no thread more than one.
THEOREM TypeCorrect == Spec => []TypeOK
<1>1. ReceiveInv => TypeOK
  BY DEF ReceiveInv
<1>2. QED
  BY <1>1, Invariance, PTL

\* The bytes of a file up to some point are the beginning of the file sent.
LEMMA FileCut ==
    ASSUME NEW r, Proper(r), NEW f \in 1..r.files,
           NEW d \in Seq(Nat), d = Span(r.ends[f - 1], Len(d)), Len(d) <= FileSize(r, f)
    PROVE  /\ FileSize(r, f) \in Nat /\ Len(FileData(r, f)) = FileSize(r, f)
           /\ d = SubSeq(FileData(r, f), 1, Len(d))
           /\ Len(d) = FileSize(r, f) => d = FileData(r, f)
<1> DEFINE e == r.ends[f - 1]
           z == FileSize(r, f)
<1>1. r.files \in Nat /\ f \in 0..r.files /\ f - 1 \in 0..r.files /\ f - 1 < r.files
  <2>1. r.files \in Nat \ {0}
    BY RequestFacts, PlanAssumption
  <2>2. QED
    BY <2>1
<1>2. e \in Nat /\ r.ends[f] \in Nat /\ e <= r.ends[f]
  <2>1. r.ends[f] \in Nat /\ e \in Nat
    BY <1>1, EndsInOrder, PlanAssumption
  <2>2. r.ends[f - 1] <= r.ends[(f - 1) + 1] /\ (f - 1) + 1 = f
    BY <1>1, EndsInOrder, PlanAssumption
  <2>3. QED
    BY <2>1, <2>2
<1>3. z \in Nat /\ Len(d) \in Nat /\ Len(d) \in 0..z
  BY <1>2 DEF FileSize
<1>4. FileData(r, f) = Span(e, z)
  BY DEF FileData, Span
<1> HIDE DEF e, z
<1>5. SubSeq(Span(e, z), 1, Len(d)) = Span(e, Len(d)) /\ Len(Span(e, z)) = z
  BY <1>2, <1>3, CutPositions, Positions
<1>6. d = Span(e, Len(d))
  BY DEF e
<1>7. QED
  BY <1>3, <1>4, <1>5, <1>6 DEF z

\* In a state of ReceiveInv each file on disk is a beginning of the file sent.
LEMMA OnDisk ==
    ASSUME ReceiveInv, NEW f \in 1..file
    PROVE  /\ Proper(req) /\ f \in 1..req.files /\ f \in 1..Len(disk) /\ disk[f] \in Seq(Nat)
           /\ disk[f] = Span(req.ends[f - 1], Len(disk[f]))
           /\ Len(disk[f]) <= FileSize(req, f)
<1>1. /\ GivenOK /\ file \in 0..req.files /\ disk \in Seq(Seq(Nat)) /\ Len(disk) = file
      /\ FilesInv
  BY DEF ReceiveInv, TypeOK, WriterOK
<1>2. req.files \in Nat /\ Proper(req)
  BY <1>1, TheRequest, ProperRequest
<1>3. f \in 1..req.files /\ f \in 1..Len(disk) /\ disk[f] \in Seq(Nat)
  BY <1>1, <1>2
<1>4. disk[f] = Span(req.ends[f - 1], Len(disk[f])) /\ Len(disk[f]) <= FileSize(req, f)
  BY <1>1 DEF FilesInv, Span
<1>5. QED
  BY <1>2, <1>3, <1>4

\* Each file is at every moment a prefix of the file sent, and all files before the
\* open one are whole unless the transfer was aborted.
LEMMA FilesStayPrefixes == ASSUME ReceiveInv PROVE FilesArePrefixes
<1> SUFFICES ASSUME NEW f \in 1..file
             PROVE  /\ Len(disk[f]) <= FileSize(req, f)
                    /\ disk[f] = SubSeq(FileData(req, f), 1, Len(disk[f]))
                    /\ f < file /\ ~abort => disk[f] = FileData(req, f)
  BY DEF FilesArePrefixes
<1>1. /\ Len(disk[f]) <= FileSize(req, f)
      /\ disk[f] = SubSeq(FileData(req, f), 1, Len(disk[f]))
      /\ Len(disk[f]) = FileSize(req, f) => disk[f] = FileData(req, f)
  BY OnDisk, FileCut
<1>2. f < file /\ ~abort => Len(disk[f]) = FileSize(req, f)
  BY DEF ReceiveInv, WriterInv
<1>3. QED
  BY <1>1, <1>2

\* The writer never skips, repeats or misplaces a byte, whatever the sizes of the
\* chunks and the files, and no damaged packet reaches a file.
THEOREM FilesCorrect == Spec => []FilesArePrefixes
<1>1. ReceiveInv => FilesArePrefixes
  BY FilesStayPrefixes
<1>2. QED
  BY <1>1, Invariance, PTL

\* When all threads have ended without an exception, every file is on disk.
LEMMA AllWritten ==
    ASSUME ReceiveInv, exception = "none", \A w \in Workers : pc[w] = "exit"
    PROVE  /\ ~abort /\ file = req.files /\ req.files \in Nat \ {0}
           /\ \A f \in 1..file : disk[f] = FileData(req, f)
<1>1. ~abort
  BY TheWorkers DEF ReceiveInv, AbortInv
<1>2. /\ file = req.files /\ missing = 0
      /\ \A f \in 1..file : f < file => Len(disk[f]) = FileSize(req, f)
      /\ file > 0 => Len(disk[file]) + missing = FileSize(req, file)
  BY <1>1, TheWorkers DEF ReceiveInv, WriterInv
<1>3. req.files \in Nat \ {0}
  BY TheRequest DEF ReceiveInv, TypeOK
<1>4. ASSUME NEW f \in 1..file PROVE disk[f] = FileData(req, f)
  <2>1. /\ disk[f] \in Seq(Nat)
        /\ Len(disk[f]) = FileSize(req, f) => disk[f] = FileData(req, f)
    BY OnDisk, FileCut
  <2>2. Len(disk[f]) = FileSize(req, f)
    <3>1. Len(disk[f]) \in Nat
      BY <2>1
    <3>2. CASE f = file
      BY <1>2, <1>3, <3>1, <3>2
    <3>3. CASE f # file
      <4>1. f < file
        BY <1>2, <1>3, <3>3
      <4>2. QED
        BY <1>2, <4>1
    <3>4. QED
      BY <3>2, <3>3
  <2>3. QED
    BY <2>1, <2>2
<1>5. QED
  BY <1>1, <1>2, <1>3, <1>4

\* "Files received, transfer complete!" is printed only when every file of the request
\* is on disk with all its bytes.
THEOREM CompleteSafe == Spec => []CompleteMeansAllFiles
<1>1. ReceiveInv => CompleteMeansAllFiles
  <2> SUFFICES ASSUME ReceiveInv, outcome = "complete"
               PROVE  /\ file = req.files /\ ~abort
                      /\ \A f \in 1..file : disk[f] = FileData(req, f)
    BY DEF CompleteMeansAllFiles
  <2>1. exception = "none" /\ \A w \in Workers : pc[w] = "exit"
    BY DEF ReceiveInv, AbortInv
  <2>2. QED
    BY <2>1, AllWritten
<1>2. QED
  BY <1>1, Invariance, PTL

\* The progress bar is never asked for a negative number of characters.
THEOREM ProgressSafe == Spec => []ProgressBounded
<1>1. ReceiveInv => ProgressBounded
  BY DEF ReceiveInv, FilesInv, ProgressBounded
<1>2. QED
  BY <1>1, Invariance, PTL

\* Without an error of the network or the file system no worker throws: every packet
\* the sender makes passes the checks of decrypt_chunk.
THEOREM NoSpurious == Spec => []NoSpuriousFailure
<1>1. ReceiveInv => NoSpuriousFailure
  BY DEF ReceiveInv, AbortInv, NoSpuriousFailure
<1>2. QED
  BY <1>1, Invariance, PTL
-----------------------------------------------------------------------------
\* Only reads, the opening of files, writes, a caught exception and the end change
\* what FileReceiver speaks of.
LEMMA QuietSteps ==
    ASSUME Next, ~ReceivePacket, ~OpenFile, ~WriteBytes, ~Main,
           ~ \E w \in Workers : HandleException(w)
    PROVE  UNCHANGED <<req, taken, disk, abort, outcome>>
<1> USE DEF Step, Turn, Throw, given, peerVars, recvVars, decVars, writerVars, pipeVars,
            contextVars
<1>1. CASE PeerSends \/ PeerCloses
  BY <1>1 DEF PeerSends, PeerCloses, beyondPeer
<1>2. CASE Reception
  BY <1>2 DEF Reception, ReceiveDone, ReceiveTop, ReceiveFails, ReceivePush,
              beyondReception
<1>3. CASE Decryption
  BY <1>3 DEF Decryption, DecryptTop, DecryptPop, DecryptPopEmpty, DecryptLoadDone,
              DecryptCheckEmpty, DecryptChunk, DecryptFails, DecryptPush, beyondDecryption
<1>4. CASE Writer
  BY <1>4 DEF Writer, FirstChunk, NextChunk, TakeChunk, WriterFails, WriterEnd,
              WriterLoadDone, WriterCheckEmpty, beyondWriter
<1>5. CASE Progress
  BY <1>5 DEF Progress
<1>6. QED
  BY <1>1, <1>2, <1>3, <1>4, <1>5 DEF Next

\* A packet that is read holds bytes that had not arrived.
LEMMA PacketIsArrive == ASSUME ReceiveInv, ReceivePacket PROVE Promise!Arrive
<1>1. /\ taken' = taken + 1 /\ taken < Len(stream)
      /\ UNCHANGED <<req, disk, abort, outcome>>
  BY DEF ReceivePacket, Step, beyondReception, given, writerVars
<1>2. taken \in Nat /\ Len(stream) \in Nat /\ Len(stream) <= req.num /\ req.num \in Nat
  <2>1. req.num \in Nat \ {0}
    BY Counts
  <2>2. QED
    BY <2>1, Counts
<1>3. Proper(req) /\ taken < req.num
  BY <1>1, <1>2, ProperRequest DEF ReceiveInv, TypeOK
<1>4. /\ Least(taken * req.chunk, req.total) \in Nat
      /\ Least((taken + 1) * req.chunk, req.total) \in Nat
      /\ Least(taken * req.chunk, req.total) < Least((taken + 1) * req.chunk, req.total)
  BY <1>2, <1>3, OneChunkMore, PlanAssumption
<1>5. Least((taken + 1) * req.chunk, req.total) > Least(taken * req.chunk, req.total)
  BY <1>4
<1>6. QED
  BY <1>1, <1>5 DEF Promise!Arrive

\* A step that only lets the files on disk grow, and keeps the invariant, stores bytes
\* that have arrived, in the places they belong to.
LEMMA StoreStep ==
    ASSUME ReceiveInv, ReceiveInv', outcome = "running", UNCHANGED <<req, taken, abort, outcome>>,
           file <= file', \A f \in 1..file : Len(disk[f]) <= Len(disk'[f])
    PROVE  Promise!Store
<1> DEFINE files == [f \in 1..req.files |-> FileData(req, f)]
           arrived == Least(taken * req.chunk, req.total)
<1>1. /\ disk \in Seq(Seq(Nat)) /\ Len(disk) = file /\ file \in Nat
      /\ disk' \in Seq(Seq(Nat)) /\ Len(disk') = file' /\ file' \in 0..req.files
      /\ file' \in Nat /\ req.files \in Nat
  <2>1. req.files \in Nat
    BY TheRequest DEF ReceiveInv, TypeOK
  <2>2. /\ disk \in Seq(Seq(Nat)) /\ Len(disk) = file /\ file \in 0..req.files
        /\ disk' \in Seq(Seq(Nat)) /\ Len(disk') = file' /\ file' \in 0..req.files
    BY DEF ReceiveInv, TypeOK, WriterOK
  <2>3. QED
    BY <2>1, <2>2
<1>2. Proper(req)
  BY ProperRequest DEF ReceiveInv, TypeOK
<1>3. ASSUME NEW f \in 1..file'
      PROVE  /\ f \in 1..req.files /\ disk'[f] \in Seq(Nat) /\ Len(disk'[f]) \in Nat
             /\ disk'[f] = Span(req.ends[f - 1], Len(disk'[f]))
             /\ Len(disk'[f]) <= FileSize(req, f)
             /\ disk'[f] # <<>> => req.ends[f - 1] + Len(disk'[f]) <= arrived
             /\ f < file' /\ ~abort => Len(disk'[f]) = FileSize(req, f)
  <2>1. f \in 1..req.files /\ disk'[f] \in Seq(Nat) /\ Len(disk'[f]) \in Nat
    BY <1>1
  <2>2. FilesInv' /\ WriterInv' /\ UNCHANGED <<req, taken, abort>>
    BY DEF ReceiveInv
  <2>3. /\ disk'[f] = Span(req.ends[f - 1], Len(disk'[f]))
        /\ Len(disk'[f]) <= FileSize(req, f)
        /\ disk'[f] # <<>> => req.ends[f - 1] + Len(disk'[f]) <= arrived
    BY <2>2 DEF FilesInv, Arrived, Span
  <2>4. f < file' /\ ~abort => Len(disk'[f]) = FileSize(req, f)
    BY <2>2 DEF WriterInv
  <2>5. QED
    BY <2>1, <2>3, <2>4
<1>4. ASSUME NEW f \in 1..file'
      PROVE  /\ Promise!IsPrefixOf(disk'[f], files[f])
             /\ \A i \in 1..Len(disk'[f]) : disk'[f][i] <= arrived
             /\ f < file' /\ ~abort => disk'[f] = files[f]
  <2>1. files[f] = FileData(req, f)
    BY <1>3
  <2>2. /\ Len(FileData(req, f)) = FileSize(req, f)
        /\ disk'[f] = SubSeq(FileData(req, f), 1, Len(disk'[f]))
        /\ Len(disk'[f]) = FileSize(req, f) => disk'[f] = FileData(req, f)
    BY <1>2, <1>3, FileCut
  <2>3. Promise!IsPrefixOf(disk'[f], FileData(req, f))
    BY <1>3, <2>2 DEF Promise!IsPrefixOf
  <2>4. ASSUME NEW i \in 1..Len(disk'[f]) PROVE disk'[f][i] <= arrived
    <3>1. disk'[f][i] = req.ends[f - 1] + i
      BY <1>3 DEF Span
    <3>2. disk'[f] # <<>>
      BY <1>3
    <3>3. req.ends[f - 1] \in Nat /\ arrived \in Nat
      <4>1. f \in 0..req.files
        BY <1>3
      <4>2. req.ends[f - 1] \in Nat
        <5>1. f > 0
          BY <1>1
        <5>2. QED
          BY <1>2, <4>1, <5>1, EndsInOrder, PlanAssumption
      <4>3. arrived \in Nat
        <5>1. taken \in Nat /\ req.chunk \in Nat \ {0} /\ req.total \in Nat
          BY <1>2, Counts, RequestFacts, PlanAssumption
        <5>2. taken * req.chunk \in Nat
          BY <5>1
        <5>3. QED
          BY <5>1, <5>2 DEF Least
      <4>4. QED
        BY <4>2, <4>3
    <3>4. req.ends[f - 1] + Len(disk'[f]) <= arrived /\ Len(disk'[f]) \in Nat
      BY <1>3, <3>2
    <3> HIDE DEF arrived
    <3>5. QED
      BY <3>1, <3>3, <3>4
  <2>5. f < file' /\ ~abort => disk'[f] = FileData(req, f)
    BY <1>3, <2>2
  <2>6. QED
    BY <2>1, <2>3, <2>4, <2>5
<1>5. ASSUME NEW f \in 1..file PROVE Promise!IsPrefixOf(disk[f], disk'[f])
  <2>1. f \in 1..file'
    BY <1>1
  <2>2. /\ disk[f] = Span(req.ends[f - 1], Len(disk[f])) /\ disk[f] \in Seq(Nat)
        /\ disk'[f] = Span(req.ends[f - 1], Len(disk'[f])) /\ Len(disk'[f]) \in Nat
        /\ Len(disk[f]) <= Len(disk'[f]) /\ f \in 1..req.files
    BY <1>3, <2>1, OnDisk
  <2>3. Len(disk[f]) \in 0..Len(disk'[f])
    <3>1. Len(disk[f]) \in Nat
      BY <2>2
    <3>2. QED
      BY <2>2, <3>1
  <2>4. req.ends[f - 1] \in Nat
    <3>1. f \in 0..req.files /\ f > 0
      BY <1>1, <2>2
    <3>2. QED
      BY <1>2, <3>1, EndsInOrder, PlanAssumption
  <2>5. SubSeq(Span(req.ends[f - 1], Len(disk'[f])), 1, Len(disk[f]))
           = Span(req.ends[f - 1], Len(disk[f]))
    BY <2>2, <2>3, <2>4, CutPositions
  <2>6. QED
    BY <2>2, <2>5 DEF Promise!IsPrefixOf
<1>6. Len(files) = req.files /\ files' = files /\ arrived' = arrived
  BY <1>1
<1>7. Len(disk) <= Len(disk') /\ Len(disk') <= Len(files)
  BY <1>1, <1>6
<1> HIDE DEF files, arrived
<1>8. \A f \in 1..Len(disk') :
         /\ Promise!IsPrefixOf(disk'[f], files[f])
         /\ \A i \in 1..Len(disk'[f]) : disk'[f][i] <= arrived
         /\ f < Len(disk') /\ ~abort => disk'[f] = files[f]
  BY <1>1, <1>4, Zenon
<1>9. \A f \in 1..Len(disk) : Promise!IsPrefixOf(disk[f], disk'[f])
  BY <1>1, <1>5, Zenon
<1>10. QED
  BY <1>6, <1>7, <1>8, <1>9, Zenon DEF Promise!Store, files, arrived

\* The writer opens a file: the disk has one more, empty.
LEMMA OpenIsStore == ASSUME ReceiveInv, ReceiveInv', OpenFile PROVE Promise!Store
<1>1. /\ pc["writer"] = "open" /\ file' = file + 1 /\ disk' = Append(disk, <<>>)
      /\ UNCHANGED <<req, taken, abort, outcome>>
  BY DEF OpenFile, Step, At, beyondWriter, given, recvVars
<1>2. outcome = "running"
  BY <1>1, TheWorkers DEF ReceiveInv, AbortInv
<1>3. disk \in Seq(Seq(Nat)) /\ Len(disk) = file /\ file \in Nat
  <2>1. disk \in Seq(Seq(Nat)) /\ Len(disk) = file
    BY DEF ReceiveInv, TypeOK, WriterOK
  <2>2. QED
    BY <2>1
<1>4. ASSUME NEW f \in 1..file PROVE Len(disk[f]) <= Len(disk'[f])
  <2>1. disk'[f] = disk[f] /\ Len(disk[f]) \in Nat
    BY <1>1, <1>3
  <2>2. QED
    BY <2>1
<1>5. file <= file'
  BY <1>1, <1>3
<1>6. QED
  BY <1>1, <1>2, <1>4, <1>5, StoreStep

\* The writer writes bytes: the open file grows.
LEMMA WriteIsStore == ASSUME ReceiveInv, ReceiveInv', WriteBytes PROVE Promise!Store
<1> DEFINE more == SubSeq(rest, 1, Least(missing, Len(rest)))
<1>1. /\ pc["writer"] = "write" /\ file' = file
      /\ disk' = [disk EXCEPT ![file] = disk[file] \o more]
      /\ UNCHANGED <<req, taken, abort, outcome>>
  BY DEF WriteBytes, Step, At, beyondWriter, given, recvVars
<1>2. outcome = "running"
  BY <1>1, TheWorkers DEF ReceiveInv, AbortInv
<1>3. disk \in Seq(Seq(Nat)) /\ Len(disk) = file /\ file \in Nat /\ rest \in Seq(Nat)
  <2>1. disk \in Seq(Seq(Nat)) /\ Len(disk) = file /\ rest \in Seq(Nat)
    BY DEF ReceiveInv, TypeOK, WriterOK
  <2>2. QED
    BY <2>1
<1>4. more \in Seq(Nat)
  <2>1. Least(missing, Len(rest)) \in Nat /\ Least(missing, Len(rest)) <= Len(rest)
    <3>1. missing \in Nat /\ Len(rest) \in Nat
      BY <1>3 DEF ReceiveInv, TypeOK, WriterOK
    <3>2. QED
      BY <3>1 DEF Least
  <2>2. QED
    BY <1>3, <2>1, SubSeqProperties
<1> HIDE DEF more
<1>5. ASSUME NEW f \in 1..file PROVE Len(disk[f]) <= Len(disk'[f])
  <2>1. disk[f] \in Seq(Nat) /\ Len(disk[f]) \in Nat /\ disk[file] \in Seq(Nat)
    BY <1>3
  <2>2. CASE f = file
    <3>1. disk'[f] = disk[f] \o more
      BY <1>1, <1>3, <2>2
    <3>2. Len(disk'[f]) = Len(disk[f]) + Len(more) /\ Len(more) \in Nat
      BY <1>4, <2>1, <3>1, ConcatProperties
    <3>3. QED
      BY <2>1, <3>2
  <2>3. CASE f # file
    <3>1. disk'[f] = disk[f]
      BY <1>1, <1>3, <2>3
    <3>2. QED
      BY <2>1, <3>1
  <2>4. QED
    BY <2>2, <2>3
<1>6. file <= file'
  BY <1>1, <1>3
<1>7. QED
  BY <1>1, <1>2, <1>5, <1>6, StoreStep

\* handle_exception gives the transfer up, or only records the exception.
LEMMA HandleIsBreak ==
    ASSUME NEW w \in Workers, HandleException(w)
    PROVE  Promise!Break \/ UNCHANGED <<req, taken, disk, abort, outcome>>
<1>1. UNCHANGED <<req, taken, disk>>
  BY DEF HandleException, pipeVars, given, recvVars, writerVars
<1>2. CASE RaiseAbort(w)
  BY <1>1, <1>2 DEF RaiseAbort, Promise!Break
<1>3. CASE RecordException(w)
  BY <1>1, <1>3 DEF RecordException
<1>4. QED
  BY <1>2, <1>3 DEF HandleException

\* The end of receive_files reports what FileReceiver allows to report.
LEMMA MainIsEnd == ASSUME ReceiveInv, Main PROVE Promise!Finish \/ Promise!Fail
<1> DEFINE files == [f \in 1..req.files |-> FileData(req, f)]
<1>1. /\ outcome = "running" /\ outcome' = Report /\ \A w \in Workers : pc[w] = "exit"
      /\ UNCHANGED <<req, taken, disk, abort>>
  BY DEF Main, Join, At, given, recvVars, writerVars, pipeVars
<1>2. /\ files' = files
      /\ Least(taken' * req'.chunk, req'.total) = Least(taken * req.chunk, req.total)
  BY <1>1
<1>3. CASE exception = "none"
  <2>1. /\ ~abort /\ file = req.files /\ req.files \in Nat \ {0}
        /\ \A f \in 1..file : disk[f] = FileData(req, f)
    BY <1>1, <1>3, AllWritten
  <2>2. disk \in Seq(Seq(Nat)) /\ Len(disk) = req.files
    BY <2>1 DEF ReceiveInv, TypeOK, WriterOK
  <2>3. \A f \in 1..req.files : disk[f] = files[f]
    BY <2>1
  <2>4. disk = files
    <3>1. /\ disk = [f \in DOMAIN disk |-> disk[f]] /\ DOMAIN disk = 1..req.files
          /\ files = [f \in 1..req.files |-> files[f]]
      BY <2>1, <2>2
    <3> HIDE DEF files
    <3>2. QED
      BY <2>3, <3>1, Zenon
  <2>5. files # <<>>
    <3>1. Len(disk) # 0
      BY <2>1, <2>2
    <3>2. disk # <<>>
      BY <3>1
    <3>3. QED
      BY <2>4, <3>2
  <2>6. QED
    BY <1>1, <1>2, <1>3, <2>1, <2>4, <2>5 DEF Promise!Finish, Report
<1>4. CASE exception # "none"
  <2>1. abort
    BY <1>4 DEF ReceiveInv, AbortInv
  <2>2. abort' = TRUE
    <3>1. abort \in BOOLEAN
      BY DEF ReceiveInv, TypeOK, ContextOK
    <3>2. QED
      BY <1>1, <2>1, <3>1
  <2>3. QED
    BY <1>1, <1>2, <1>4, <2>2 DEF Promise!Fail, Report
<1>5. QED
  BY <1>3, <1>4

\* Whatever the request, the capacity and the failures, the four threads together do
\* what FileReceiver, which knows neither threads nor queues nor packets, promises.
THEOREM Refinement == Spec => KeepsPromise
<1>1. Init => Promise!Init
  <2> SUFFICES ASSUME Init PROVE Promise!Init
    OBVIOUS
  <2>1. /\ taken = 0 /\ disk = <<>> /\ abort = FALSE /\ outcome = "running"
    BY DEF Init, ContextInit
  <2>2. req.chunk \in Nat \ {0} /\ req.total \in Nat
    BY InitStep, TheRequest DEF ReceiveInv, TypeOK
  <2>3. Least(taken * req.chunk, req.total) = 0
    BY <2>1, <2>2 DEF Least
  <2>4. QED
    BY <2>1, <2>3 DEF Promise!Init
<1>2. ReceiveInv /\ ReceiveInv' /\ [Next]_vars => [Promise!Next]_(Promise!receiverVars)
  <2> SUFFICES ASSUME ReceiveInv, ReceiveInv', [Next]_vars
               PROVE  [Promise!Next]_(Promise!receiverVars)
    OBVIOUS
  <2>1. CASE ReceivePacket
    BY <2>1, PacketIsArrive DEF Promise!Next
  <2>2. CASE OpenFile
    BY <2>2, OpenIsStore DEF Promise!Next
  <2>3. CASE WriteBytes
    BY <2>3, WriteIsStore DEF Promise!Next
  <2>4. CASE Main
    BY <2>4, MainIsEnd DEF Promise!Next
  <2>5. CASE UNCHANGED <<req, taken, disk, abort, outcome>>
    BY <2>5 DEF Promise!receiverVars
  <2>6. CASE \E w \in Workers : HandleException(w)
    BY <2>5, <2>6, HandleIsBreak DEF Promise!Next
  <2>7. CASE UNCHANGED vars
    BY <2>5, <2>7 DEF vars, contextVars, pipeVars, given, recvVars, writerVars
  <2>8. QED
    BY <2>1, <2>2, <2>3, <2>4, <2>5, <2>6, <2>7, QuietSteps
<1>3. QED
  BY <1>1, <1>2, Invariance, PTL DEF Spec, KeepsPromise, Promise!Spec
=============================================================================
