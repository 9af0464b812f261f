----------------------------- MODULE SendProofs -----------------------------
(***************************************************************************)
(* Proof that SendInv (SendInvariant) is an invariant of send_files, and   *)
(* of the safety properties that follow from it.                           *)
(*                                                                         *)
(* First the lemmas about sequences and about the request, then one lemma  *)
(* per action: the action preserves SendInv. Each of these has the same    *)
(* plan. <1>1 splits SendInv; <1>2 says what the action does to each       *)
(* variable; <1>3 what it does to the control point of its thread; then    *)
(* one step per conjunct of SendInv.                                       *)
(***************************************************************************)
EXTENDS SendInvariant, TransferPlanProofs, SequenceLemmas

\* The four threads of send_files.
LEMMA TheWorkers == Workers = {"chunker", "encryption", "transmission", "progress"}
  BY SendAssumption

\* A worker that goes on moves its own program counter only.
LEMMA Moved ==
    ASSUME PcInv, NEW w \in Workers, NEW l \in Labels, Goto(w, l)
    PROVE  /\ pc' \in [Workers -> Labels] /\ pc'[w] = l
           /\ \A v \in Workers : v # w => pc'[v] = pc[v]
  BY DEF PcInv, Goto

\* The order of the chunks in a queue survives the queue's operations.
LEMMA ChunkRunPop ==
    ASSUME NEW S, NEW r, NEW q \in Seq(S), q # <<>>, NEW k \in Nat, ChunkRun(r, q, k)
    PROVE  Head(q) = Chunk(r, k + 1) /\ ChunkRun(r, Tail(q), k + 1)
<1>1. Head(q) = Chunk(r, k + 1)
  BY Popped DEF ChunkRun
<1>2. ASSUME NEW i \in 1..Len(Tail(q)) PROVE Tail(q)[i] = Chunk(r, k + 1 + i)
  <2>1. i + 1 \in 1..Len(q) /\ Tail(q)[i] = q[i + 1] /\ k + (i + 1) = k + 1 + i
    BY Popped
  <2>2. q[i + 1] = Chunk(r, k + (i + 1))
    BY <2>1 DEF ChunkRun
  <2>3. QED
    BY <2>1, <2>2
<1>3. QED
  BY <1>1, <1>2 DEF ChunkRun

\* A pop takes the next packet and leaves the run of the ones after it.
LEMMA PacketRunPop ==
    ASSUME NEW S, NEW r, NEW q \in Seq(S), q # <<>>, NEW k \in Nat, PacketRun(r, q, k)
    PROVE  Head(q) = Packet(r, k + 1) /\ PacketRun(r, Tail(q), k + 1)
<1>1. Head(q) = Packet(r, k + 1)
  BY Popped DEF PacketRun
<1>2. ASSUME NEW i \in 1..Len(Tail(q)) PROVE Tail(q)[i] = Packet(r, k + 1 + i)
  <2>1. i + 1 \in 1..Len(q) /\ Tail(q)[i] = q[i + 1] /\ k + (i + 1) = k + 1 + i
    BY Popped
  <2>2. q[i + 1] = Packet(r, k + (i + 1))
    BY <2>1 DEF PacketRun
  <2>3. QED
    BY <2>1, <2>2
<1>3. QED
  BY <1>1, <1>2 DEF PacketRun

\* A push of the next chunk extends the run of chunks.
LEMMA ChunkRunAppend ==
    ASSUME NEW S, NEW r, NEW q \in Seq(S), NEW k \in Nat, ChunkRun(r, q, k),
           NEW e \in S, e = Chunk(r, k + Len(q) + 1)
    PROVE  ChunkRun(r, Append(q, e), k)
<1>1. Append(q, e) \in Seq(S) /\ Len(Append(q, e)) = Len(q) + 1
  OBVIOUS
<1>2. ASSUME NEW i \in 1..(Len(q) + 1) PROVE Append(q, e)[i] = Chunk(r, k + i)
  <2>1. CASE i = Len(q) + 1
    <3>1. Append(q, e)[i] = e /\ k + i = k + Len(q) + 1
      BY <2>1
    <3>2. QED
      BY <3>1
  <2>2. CASE i # Len(q) + 1
    <3>1. i \in 1..Len(q) /\ Append(q, e)[i] = q[i]
      BY <2>2
    <3>2. QED
      BY <3>1 DEF ChunkRun
  <2>3. QED
    BY <2>1, <2>2
<1>3. QED
  BY <1>1, <1>2 DEF ChunkRun

\* A push, or a write, of the packet in a hand extends the run of packets.
LEMMA PacketRunConcat ==
    ASSUME NEW S, NEW r, NEW q \in Seq(S), NEW h \in Seq(S), Len(h) = 1, NEW k \in Nat,
           PacketRun(r, q, k), PacketRun(r, h, k + Len(q))
    PROVE  PacketRun(r, q \o h, k)
<1>1. /\ Len(q \o h) = Len(q) + 1
      /\ \A i \in 1..(Len(q) + 1) :
            (q \o h)[i] = IF i <= Len(q) THEN q[i] ELSE h[i - Len(q)]
  <2>1. /\ Len(q \o h) = Len(q) + Len(h)
        /\ \A i \in 1..(Len(q) + Len(h)) :
              (q \o h)[i] = IF i <= Len(q) THEN q[i] ELSE h[i - Len(q)]
    BY ConcatProperties
  <2>2. QED
    BY <2>1
<1>2. ASSUME NEW i \in 1..(Len(q) + 1) PROVE (q \o h)[i] = Packet(r, k + i)
  <2>1. CASE i = Len(q) + 1
    <3>1. (q \o h)[i] = h[1]
      BY <1>1, <2>1
    <3>2. h[1] = Packet(r, k + Len(q) + 1)
      BY DEF PacketRun
    <3>3. k + Len(q) + 1 = k + i
      BY <2>1
    <3>4. QED
      BY <3>1, <3>2, <3>3
  <2>2. CASE i # Len(q) + 1
    <3>1. i \in 1..Len(q) /\ (q \o h)[i] = q[i]
      BY <1>1, <2>2
    <3>2. QED
      BY <3>1 DEF PacketRun
  <2>3. QED
    BY <2>1, <2>2
<1>3. QED
  BY <1>1, <1>2 DEF PacketRun

\* The request of a run is one that from_file_paths makes.
LEMMA ProperRequest == ASSUME GivenOK PROVE Proper(req)
  BY SendAssumption DEF GivenOK, Proper

\* What the arithmetic of the request (TransferPlanProofs) gives the chunker.
LEMMA TheRequest ==
    ASSUME GivenOK
    PROVE  /\ req.files \in Nat \ {0} /\ req.ends \in [0..req.files -> Nat]
           /\ req.ends[0] = 0 /\ req.total = req.ends[req.files]
           /\ \A f, g \in 0..req.files : f <= g => req.ends[f] <= req.ends[g]
           /\ req.num \in Nat \ {0} /\ req.chunk \in Nat \ {0} /\ req.total \in Nat
           /\ Base(req, 1) = 0 /\ Base(req, req.num + 1) = req.total
           /\ BufferSize(req, 1) = req.chunk /\ BufferSize(req, req.num + 1) = req.chunk
           /\ \A s \in 1..req.num :
                 /\ Base(req, s) \in Nat /\ Base(req, s + 1) \in Nat
                 /\ BufferSize(req, s) \in 1..req.chunk
                 /\ Base(req, s + 1) = Base(req, s) + BufferSize(req, s)
                 /\ Base(req, s + 1) <= req.total
                 /\ ChunkData(req, s) = [j \in 1..BufferSize(req, s) |-> Base(req, s) + j]
  BY ProperRequest, RequestFacts, PlanAssumption

\* The ends of the files do not decrease and do not pass the end of the stream.
LEMMA FilesInOrder ==
    ASSUME GivenOK, NEW f \in 0..req.files
    PROVE  /\ req.ends[f] \in Nat /\ req.ends[f] <= req.total
           /\ f < req.files => /\ f + 1 \in 1..req.files /\ req.ends[f + 1] \in Nat
                               /\ req.ends[f] <= req.ends[f + 1]
           /\ f > 0 => f - 1 \in 0..req.files /\ req.ends[f - 1] \in Nat
  BY ProperRequest, EndsInOrder, PlanAssumption

\* Every chunk begins at a position of the stream.
LEMMA BaseNat == ASSUME GivenOK, NEW s \in 1..(req.num + 1) PROVE Base(req, s) \in Nat
  BY ProperRequest, EveryBase, PlanAssumption

\* The chunker stores its done flag: it has cut all chunks, or the abort flag is up.
LEMMA ChunkerEndStep == ASSUME SendInv, ChunkerEnd PROVE SendInv'
<1>1. TypeOK /\ PcInv /\ PlacesInv /\ ChunkerInv /\ HandsInv /\ DoneInv /\ AbortInv
  BY DEF SendInv
<1>2. /\ pc["chunker"] \in {"file", "read"}
      /\ (pc["chunker"] = "file" /\ file = req.files) \/ abort
      /\ chunkingDone' = TRUE
      /\ UNCHANGED <<abort, exception, outcome, req, faults, file, unread, buf,
                     bufSize, seq, fileQueue, encHand, encPos, encQueue,
                     encryptionDone, sendHand, sent, chunksSent>>
  BY DEF ChunkerEnd, Step, At, Goto, given, chunkerVars, encVars, wireVars, beyondChunker
<1>3. /\ pc' \in [Workers -> Labels] /\ pc'["chunker"] = ("exit")
      /\ \A v \in Workers : v # "chunker" => pc'[v] = pc[v]
  BY <1>1, TheWorkers, Moved DEF ChunkerEnd, Step, Labels
<1>4. ChunkerOK'
  BY <1>1, <1>2, <1>3 DEF TypeOK, ChunkerOK
<1>5. ContextOK' /\ GivenOK' /\ EncryptionOK' /\ QueuesOK' /\ WireOK'
  BY <1>1, <1>2, <1>3 DEF TypeOK, ContextOK, GivenOK, EncryptionOK, QueuesOK, WireOK
<1>6. PlacesInv'
  BY <1>1, <1>2, <1>3, TheWorkers DEF PlacesInv, BeforeEncQueue, BeforeEncHand, BeforeFileQueue
<1>7. ChunkerInv'
  BY <1>1, <1>2, <1>3, TheWorkers DEF PcInv, ChunkerInv
<1>8. HandsInv'
  BY <1>1, <1>2, <1>3, TheWorkers DEF PcInv, HandsInv
<1>9. DoneInv'
  <2>1. CASE abort
    BY <1>2, <2>1 DEF DoneInv
  <2>2. CASE ~abort
    <3>1. /\ pc["chunker"] = "file" /\ file = req.files /\ unread = 0
          /\ seq \in 1..(req.num + 1) /\ Len(buf) < bufSize /\ bufSize = BufferSize(req, seq)
          /\ req.ends[file] - unread = Base(req, seq) + Len(buf)
      BY <1>1, <1>2, <2>2 DEF ChunkerInv
    <3>2. req.total = Base(req, seq) + Len(buf) /\ Len(buf) \in Nat
      BY <1>1, <3>1, TheRequest DEF TypeOK, ChunkerOK
    <3>3. seq = req.num + 1
      <4>1. SUFFICES ASSUME seq \in 1..req.num PROVE FALSE
        BY <3>1, <1>1, TheRequest DEF TypeOK
      <4>2. /\ Base(req, seq) \in Nat /\ BufferSize(req, seq) \in Nat
            /\ Base(req, seq) + BufferSize(req, seq) <= req.total
        BY <4>1, <1>1, TheRequest DEF TypeOK
      <4>3. QED
        BY <3>1, <3>2, <4>2
    <3>4. QED
      BY <1>1, <1>2, <1>3, <3>1, <3>3, TheWorkers DEF DoneInv
  <2>3. QED
    BY <2>1, <2>2
<1>10. AbortInv'
  BY <1>1, <1>2, <1>3, TheWorkers DEF PcInv, AbortInv
<1>11. PcInv'
  BY <1>1, <1>2, <1>3, TheWorkers DEF PcInv
<1>12. QED
  BY <1>4, <1>5, <1>6, <1>7, <1>8, <1>9, <1>10, <1>11 DEF SendInv, TypeOK

\* The file opened next begins where the one before it ended.
LEMMA OpenFileStep == ASSUME SendInv, OpenFile PROVE SendInv'
<1>1. TypeOK /\ PcInv /\ PlacesInv /\ ChunkerInv /\ HandsInv /\ DoneInv /\ AbortInv
  BY DEF SendInv
<1>2. /\ pc["chunker"] = "file" /\ file < req.files /\ ~abort
      /\ file' = file + 1
      /\ unread' = FileSize(req, file + 1)
      /\ UNCHANGED <<abort, exception, outcome, req, faults, buf, bufSize, seq,
                     fileQueue, chunkingDone, encHand, encPos, encQueue,
                     encryptionDone, sendHand, sent, chunksSent>>
  BY DEF OpenFile, Step, At, Goto, given, chunkerVars, encVars, wireVars, beyondChunker
<1>3. /\ pc' \in [Workers -> Labels] /\ pc'["chunker"] = (AfterRead(unread'))
      /\ \A v \in Workers : v # "chunker" => pc'[v] = pc[v]
  BY <1>1, TheWorkers, Moved DEF OpenFile, Step, Labels, AfterRead
<1>4. /\ file + 1 \in 1..req.files /\ unread' \in Nat
      /\ unread' = req.ends[file + 1] - req.ends[file]
      /\ req.ends[file] \in Nat /\ req.ends[file + 1] \in Nat
  <2>1. file \in 0..req.files /\ file + 1 \in 1..req.files /\ req.files \in Nat
    BY <1>1, <1>2, TheRequest DEF TypeOK, ChunkerOK
  <2>2. req.ends[file] \in Nat /\ req.ends[file + 1] \in Nat /\ req.ends[file] <= req.ends[file + 1]
    BY <1>1, <1>2, <2>1, FilesInOrder DEF TypeOK
  <2>3. unread' = req.ends[file + 1] - req.ends[file]
    BY <1>2, <2>1 DEF FileSize
  <2>4. QED
    BY <2>1, <2>2, <2>3
<1>5. ChunkerOK'
  BY <1>1, <1>2, <1>4 DEF TypeOK, ChunkerOK
<1>6. ContextOK' /\ GivenOK' /\ EncryptionOK' /\ QueuesOK' /\ WireOK'
  BY <1>1, <1>2, <1>3 DEF TypeOK, ContextOK, GivenOK, EncryptionOK, QueuesOK, WireOK
<1>7. PlacesInv'
  BY <1>1, <1>2, <1>3, TheWorkers DEF PlacesInv, BeforeEncQueue, BeforeEncHand, BeforeFileQueue
<1>8. ChunkerInv'
  <2>1. /\ unread = 0 /\ Len(buf) < bufSize /\ file' \in 0..req.files /\ file' > 0
        /\ req.ends[file] = Base(req, seq) + Len(buf)
    BY <1>1, <1>2, <1>4 DEF ChunkerInv
  <2>2. /\ unread' \in 0..req.ends[file'] /\ req.ends[file' - 1] <= req.ends[file'] - unread'
        /\ req.ends[file'] - unread' = Base(req, seq) + Len(buf)
    <3>1. file' = file + 1 /\ file \in Nat /\ file' - 1 = file
      BY <1>1, <1>2 DEF TypeOK, ChunkerOK
    <3>2. unread' = req.ends[file'] - req.ends[file]
      BY <1>4, <3>1
    <3>3. req.ends[file'] \in Nat /\ req.ends[file] \in Nat /\ unread' \in Nat
      BY <1>4, <3>1
    <3>4. unread' \in 0..req.ends[file'] /\ req.ends[file'] - unread' = req.ends[file]
      BY <3>2, <3>3
    <3>5. QED
      BY <2>1, <3>1, <3>3, <3>4
  <2>3. /\ pc'["chunker"] = "read" => unread' > 0 /\ Len(buf) < bufSize
        /\ pc'["chunker"] = "file" => unread' = 0 /\ Len(buf) < bufSize
        /\ pc'["chunker"] # "push"
    BY <1>3, <1>4, <2>1 DEF AfterRead
  <2>4. QED
    BY <1>1, <1>2, <2>1, <2>2, <2>3 DEF ChunkerInv
<1>9. HandsInv'
  BY <1>1, <1>2, <1>3, TheWorkers DEF PcInv, HandsInv, AfterRead
<1>10. DoneInv'
  BY <1>1, <1>2, <1>3, TheWorkers DEF PcInv, DoneInv, AfterRead
<1>11. AbortInv'
  BY <1>1, <1>2, <1>3, TheWorkers DEF PcInv, AbortInv, AfterRead
<1>12. PcInv'
  BY <1>1, <1>2, <1>3, TheWorkers DEF PcInv, AfterRead
<1>13. QED
  BY <1>5, <1>6, <1>7, <1>8, <1>9, <1>10, <1>11, <1>12 DEF SendInv, TypeOK

\* The bytes read are the next ones of the stream, and fit the buffer.
LEMMA ReadBytesStep == ASSUME SendInv, ReadBytes PROVE SendInv'
<1>1. TypeOK /\ PcInv /\ PlacesInv /\ ChunkerInv /\ HandsInv /\ DoneInv /\ AbortInv
  BY DEF SendInv
<1>2. /\ pc["chunker"] = "read" /\ ~abort
      /\ buf' = buf \o [j \in 1..Least(unread, bufSize - Len(buf)) |-> (req.ends[file] - unread) + j]
      /\ unread' = unread - Least(unread, bufSize - Len(buf))
      /\ UNCHANGED <<abort, exception, outcome, req, faults, file, bufSize, seq,
                     fileQueue, chunkingDone, encHand, encPos, encQueue,
                     encryptionDone, sendHand, sent, chunksSent>>
  BY DEF ReadBytes, Step, At, Goto, given, chunkerVars, encVars, wireVars, beyondChunker
<1>3. /\ pc' \in [Workers -> Labels] /\ pc'["chunker"] = (IF Len(buf') = bufSize THEN "push" ELSE AfterRead(unread'))
      /\ \A v \in Workers : v # "chunker" => pc'[v] = pc[v]
  BY <1>1, TheWorkers, Moved DEF ReadBytes, Step, Labels, AfterRead
<1>4. /\ unread > 0 /\ file > 0 /\ Len(buf) < bufSize /\ Len(buf) \in Nat
      /\ req.ends[file] \in Nat /\ unread \in 0..req.ends[file] /\ bufSize \in Nat
  <2>1. /\ unread > 0 /\ file > 0 /\ Len(buf) < bufSize /\ unread \in 0..req.ends[file]
        /\ file \in 0..req.files
    BY <1>1, <1>2 DEF ChunkerInv
  <2>2. Len(buf) \in Nat /\ bufSize \in Nat
    BY <1>1 DEF TypeOK, ChunkerOK
  <2>3. req.ends[file] \in Nat
    BY <1>1, <2>1, FilesInOrder DEF TypeOK
  <2>4. QED
    BY <2>1, <2>2, <2>3
<1>5. PICK n \in 1..(bufSize - Len(buf)) :
        n = Least(unread, bufSize - Len(buf)) /\ n <= unread
  BY <1>4 DEF Least
<1>6. /\ buf' \in Seq(Nat) /\ Len(buf') = Len(buf) + n /\ unread' = unread - n
      /\ \A i \in 1..Len(buf') :
            buf'[i] = IF i <= Len(buf) THEN buf[i]
                      ELSE (req.ends[file] - unread) + (i - Len(buf))
  <2> DEFINE more == [j \in 1..n |-> (req.ends[file] - unread) + j]
  <2>1. more \in Seq(Nat) /\ Len(more) = n /\ buf \in Seq(Nat)
    <3>1. n \in Nat /\ req.ends[file] - unread \in Nat
      BY <1>4
    <3>2. more \in Seq(Nat) /\ Len(more) = n
      BY <3>1, Positions DEF Span
    <3>3. buf \in Seq(Nat)
      BY <1>1 DEF TypeOK, ChunkerOK
    <3>4. QED
      BY <3>2, <3>3
  <2>2. buf' = buf \o more /\ unread' = unread - n
    BY <1>2, <1>5
  <2>3. /\ buf \o more \in Seq(Nat) /\ Len(buf \o more) = Len(buf) + n
        /\ \A i \in 1..(Len(buf) + n) :
              (buf \o more)[i] = IF i <= Len(buf) THEN buf[i] ELSE more[i - Len(buf)]
    <3> HIDE DEF more
    <3>1. /\ buf \o more \in Seq(Nat) /\ Len(buf \o more) = Len(buf) + Len(more)
          /\ \A i \in 1..(Len(buf) + Len(more)) :
                (buf \o more)[i] = IF i <= Len(buf) THEN buf[i] ELSE more[i - Len(buf)]
      BY <2>1, ConcatProperties
    <3>2. QED
      BY <2>1, <3>1
  <2>4. \A i \in 1..(Len(buf) + n) :
           i > Len(buf) => more[i - Len(buf)] = (req.ends[file] - unread) + (i - Len(buf))
    BY <1>4
  <2> HIDE DEF more
  <2>5. Len(buf') = Len(buf) + n /\ buf' \in Seq(Nat)
    BY <2>2, <2>3
  <2>6. ASSUME NEW i \in 1..(Len(buf) + n)
        PROVE  buf'[i] = IF i <= Len(buf) THEN buf[i]
                         ELSE (req.ends[file] - unread) + (i - Len(buf))
    <3>1. buf'[i] = IF i <= Len(buf) THEN buf[i] ELSE more[i - Len(buf)]
      BY <2>2, <2>3
    <3>2. CASE i <= Len(buf)
      BY <3>1, <3>2
    <3>3. CASE ~(i <= Len(buf))
      <4>1. i > Len(buf)
        BY <3>3, <1>4
      <4>2. QED
        BY <3>1, <3>3, <4>1, <2>4
    <3>4. QED
      BY <3>2, <3>3
  <2>7. QED
    BY <2>2, <2>5, <2>6
<1>7. ChunkerOK'
  <2>1. Len(buf') <= bufSize /\ unread' \in Nat
    <3>1. /\ Len(buf') = Len(buf) + n /\ unread' = unread - n /\ n <= unread
          /\ n \in 1..(bufSize - Len(buf)) /\ Len(buf) \in Nat /\ bufSize \in Nat
          /\ unread \in Nat
      BY <1>4, <1>5, <1>6
    <3>2. \A a, b \in Nat : \A k \in 1..(b - a) : a + k <= b /\ k \in Nat
      OBVIOUS
    <3>3. \A u, k \in Nat : k <= u => u - k \in Nat
      OBVIOUS
    <3>4. QED
      BY <3>1, <3>2, <3>3
  <2>2. UNCHANGED <<req, file, bufSize, seq, chunkingDone>>
    BY <1>2
  <2>3. QED
    BY <1>1, <1>6, <2>1, <2>2 DEF TypeOK, ChunkerOK
<1>8. ContextOK' /\ GivenOK' /\ EncryptionOK' /\ QueuesOK' /\ WireOK'
  BY <1>1, <1>2, <1>3 DEF TypeOK, ContextOK, GivenOK, EncryptionOK, QueuesOK, WireOK
<1>9. PlacesInv'
  BY <1>1, <1>2, <1>3, TheWorkers DEF PlacesInv, BeforeEncQueue, BeforeEncHand, BeforeFileQueue
<1>10. ChunkerInv'
  <2>1. /\ seq \in 1..(req.num + 1) /\ bufSize = BufferSize(req, seq)
        /\ buf = [j \in 1..Len(buf) |-> Base(req, seq) + j]
        /\ req.ends[file] - unread = Base(req, seq) + Len(buf)
        /\ req.ends[file - 1] <= req.ends[file] - unread /\ file \in 0..req.files
        /\ seq = req.num + 1 => Len(buf) = 0
    BY <1>1, <1>4 DEF ChunkerInv
  <2>2. Base(req, seq) \in Nat
    BY <2>1, <1>1, BaseNat DEF TypeOK
  <2>3. seq # req.num + 1
    <3>1. req.ends[file] <= req.total
      BY <1>1, <2>1, FilesInOrder DEF TypeOK
    <3>2. Base(req, req.num + 1) = req.total /\ req.total \in Nat
      BY <1>1, TheRequest DEF TypeOK
    <3>3. ASSUME seq = req.num + 1 PROVE FALSE
      <4>1. Len(buf) = 0 /\ req.ends[file] - unread = req.total + Len(buf)
        BY <3>2, <3>3, <2>1
      <4>2. QED
        BY <3>1, <3>2, <4>1, <1>4
    <3>4. QED
      BY <3>3
  <2>4. req.ends[file] - unread' = Base(req, seq) + Len(buf')
    <3>1. req.ends[file] \in Nat /\ unread \in Nat /\ unread' = unread - n
          /\ Len(buf') = Len(buf) + n /\ Len(buf) \in Nat /\ n \in Nat
      BY <1>4, <1>5, <1>6
    <3>2. req.ends[file] - unread = Base(req, seq) + Len(buf)
      BY <2>1
    <3>3. req.ends[file] - (unread - n) = (req.ends[file] - unread) + n
      BY <3>1
    <3>4. (Base(req, seq) + Len(buf)) + n = Base(req, seq) + (Len(buf) + n)
      BY <3>1, <2>2
    <3>5. QED
      BY <3>1, <3>2, <3>3, <3>4, Zenon
  <2>5. buf' = [j \in 1..Len(buf') |-> Base(req, seq) + j]
    <3>1. ASSUME NEW i \in 1..Len(buf') PROVE buf'[i] = Base(req, seq) + i
      <4>1. CASE i <= Len(buf)
        <5>1. i \in 1..Len(buf) /\ buf'[i] = buf[i]
          <6>1. i \in Nat \ {0} /\ Len(buf) \in Nat
            BY <1>4, <1>6
          <6>2. i \in 1..Len(buf)
            BY <4>1, <6>1
          <6>3. buf'[i] = buf[i]
            BY <4>1, <1>6, Zenon
          <6>4. QED
            BY <6>2, <6>3
        <5>2. buf[i] = Base(req, seq) + i
          BY <5>1, <2>1
        <5>3. QED
          BY <5>1, <5>2
      <4>2. CASE i > Len(buf)
        <5>1. buf'[i] = (Base(req, seq) + Len(buf)) + (i - Len(buf))
          BY <4>2, <1>4, <1>6, <2>1
        <5>2. QED
          BY <5>1, <2>2, <1>4
      <4>3. QED
        BY <4>1, <4>2, <1>4, <1>6
    <3>2. buf' \in Seq(Nat)
      BY <1>6
    <3>3. QED
      BY <3>1, <3>2
  <2>6. /\ unread' \in 0..req.ends[file]
        /\ req.ends[file - 1] <= req.ends[file] - unread'
    <3>1. req.ends[file - 1] \in Nat
      BY <2>1, <1>1, <1>4, FilesInOrder DEF TypeOK
    <3>2. req.ends[file] \in Nat /\ unread \in 0..req.ends[file] /\ unread' = unread - n
          /\ n \in Nat /\ n <= unread
      BY <1>4, <1>5, <1>6
    <3>3. req.ends[file - 1] <= req.ends[file] - unread
      BY <2>1
    <3>4. \A e, f, k \in Nat : \A u \in 0..e : k <= u /\ f <= e - u =>
             u - k \in 0..e /\ f <= e - (u - k)
      OBVIOUS
    <3>5. QED
      BY <3>1, <3>2, <3>3, <3>4, Zenon
  <2>7. /\ pc'["chunker"] = "read" => unread' > 0 /\ Len(buf') < bufSize
        /\ pc'["chunker"] = "file" => unread' = 0 /\ Len(buf') < bufSize
        /\ pc'["chunker"] = "push" => Len(buf') = bufSize
    BY <1>3, <1>4, <1>5, <1>6 DEF AfterRead
  <2>8. QED
    BY <1>2, <1>4, <2>1, <2>3, <2>4, <2>5, <2>6, <2>7 DEF ChunkerInv
<1>11. HandsInv'
  BY <1>1, <1>2, <1>3, TheWorkers DEF PcInv, HandsInv, AfterRead
<1>12. DoneInv'
  BY <1>1, <1>2, <1>3, TheWorkers DEF PcInv, DoneInv, AfterRead
<1>13. AbortInv'
  BY <1>1, <1>2, <1>3, TheWorkers DEF PcInv, AbortInv, AfterRead
<1>14. PcInv'
  BY <1>1, <1>2, <1>3, TheWorkers DEF PcInv, AfterRead
<1>15. QED
  BY <1>7, <1>8, <1>9, <1>10, <1>11, <1>12, <1>13, <1>14 DEF SendInv, TypeOK

\* An exception moves the chunker to its catch clause and nothing else.
LEMMA ChunkerFailsStep == ASSUME SendInv, ChunkerFails PROVE SendInv'
<1>1. TypeOK /\ PcInv /\ PlacesInv /\ ChunkerInv /\ HandsInv /\ DoneInv /\ AbortInv
  BY DEF SendInv
<1>2. /\ pc["chunker"] \in {"file", "read"} /\ faults # {}
      /\ UNCHANGED <<abort, exception, outcome, req, faults, file, unread, buf,
                     bufSize, seq, fileQueue, chunkingDone, encHand, encPos,
                     encQueue, encryptionDone, sendHand, sent, chunksSent>>
  BY DEF ChunkerFails, Throw, Step, At, Goto, MayFail, given, chunkerVars, encVars, wireVars,
         pipeVars
<1>3. /\ pc' \in [Workers -> Labels] /\ pc'["chunker"] = ("catch")
      /\ \A v \in Workers : v # "chunker" => pc'[v] = pc[v]
  BY <1>1, TheWorkers, Moved DEF ChunkerFails, Throw, Step, Labels
<1>4. ContextOK' /\ GivenOK' /\ ChunkerOK' /\ EncryptionOK' /\ QueuesOK' /\ WireOK'
  BY <1>1, <1>2, <1>3 DEF TypeOK, ContextOK, GivenOK, ChunkerOK, EncryptionOK, QueuesOK, WireOK
<1>5. PlacesInv'
  BY <1>1, <1>2, <1>3, TheWorkers DEF PlacesInv, BeforeEncQueue, BeforeEncHand, BeforeFileQueue
<1>6. ChunkerInv'
  BY <1>1, <1>2, <1>3, TheWorkers DEF PcInv, ChunkerInv
<1>7. HandsInv'
  BY <1>1, <1>2, <1>3, TheWorkers DEF PcInv, HandsInv
<1>8. DoneInv'
  BY <1>1, <1>2, <1>3, TheWorkers DEF PcInv, DoneInv
<1>9. AbortInv'
  BY <1>1, <1>2, <1>3, TheWorkers DEF PcInv, AbortInv
<1>10. PcInv'
  BY <1>1, <1>2, <1>3, TheWorkers DEF PcInv
<1>11. QED
  BY <1>4, <1>5, <1>6, <1>7, <1>8, <1>9, <1>10 DEF SendInv, TypeOK

\* A full buffer is chunk seq of the reference, and the next one is sized for chunk seq + 1.
LEMMA PushFileChunkStep == ASSUME SendInv, PushFileChunk PROVE SendInv'
<1>1. TypeOK /\ PcInv /\ PlacesInv /\ ChunkerInv /\ HandsInv /\ DoneInv /\ AbortInv
  BY DEF SendInv
<1>2. /\ pc["chunker"] = "push" /\ Len(fileQueue) < Capacity
      /\ fileQueue' = Append(fileQueue, [seq |-> seq, data |-> buf])
      /\ seq' = seq + 1
      /\ buf' = <<>>
      /\ bufSize' = BufferSize(req, seq + 1)
      /\ UNCHANGED <<abort, exception, outcome, req, faults, file, unread,
                     chunkingDone, encHand, encPos, encQueue, encryptionDone,
                     sendHand, sent, chunksSent>>
  BY DEF PushFileChunk, Step, At, Goto, HasRoom, given, chunkerVars, encVars, wireVars,
         beyondChunker
<1>3. /\ pc' \in [Workers -> Labels] /\ pc'["chunker"] = (AfterRead(unread))
      /\ \A v \in Workers : v # "chunker" => pc'[v] = pc[v]
  BY <1>1, TheWorkers, Moved DEF PushFileChunk, Step, Labels, AfterRead
<1>4. /\ seq \in 1..req.num /\ Len(buf) = bufSize /\ bufSize = BufferSize(req, seq)
      /\ buf = [j \in 1..Len(buf) |-> Base(req, seq) + j] /\ buf \in Seq(Nat)
  <2>1. /\ seq \in 1..(req.num + 1) /\ Len(buf) = bufSize /\ bufSize = BufferSize(req, seq)
        /\ buf = [j \in 1..Len(buf) |-> Base(req, seq) + j] /\ buf \in Seq(Nat)
        /\ seq = req.num + 1 => Len(buf) = 0
    BY <1>1, <1>2 DEF ChunkerInv, TypeOK, ChunkerOK
  <2>2. BufferSize(req, req.num + 1) # 0 /\ req.num \in Nat
    BY <1>1, TheRequest DEF TypeOK
  <2>3. QED
    BY <2>1, <2>2
<1>5. /\ Base(req, seq) \in Nat /\ Base(req, seq + 1) = Base(req, seq) + bufSize
      /\ Base(req, seq + 1) <= req.total /\ ChunkData(req, seq) = buf
      /\ req.num \in Nat \ {0} /\ req.chunk \in Nat \ {0} /\ req.total \in Nat
      /\ BufferSize(req, seq + 1) \in 1..req.chunk /\ bufSize \in 1..req.chunk
  <2>1. /\ Base(req, seq) \in Nat /\ Base(req, seq + 1) = Base(req, seq) + bufSize
        /\ Base(req, seq + 1) <= req.total /\ req.num \in Nat \ {0}
        /\ req.chunk \in Nat \ {0} /\ req.total \in Nat /\ bufSize \in 1..req.chunk
    BY <1>1, <1>4, TheRequest DEF TypeOK
  <2>2. ChunkData(req, seq) = [j \in 1..BufferSize(req, seq) |-> Base(req, seq) + j]
    BY <1>1, <1>4, TheRequest DEF TypeOK
  <2>3. ChunkData(req, seq) = buf
    BY <1>4, <2>2
  <2>4. BufferSize(req, seq + 1) \in 1..req.chunk
    <3>1. CASE seq = req.num
      BY <3>1, <1>1, <2>1, TheRequest DEF TypeOK
    <3>2. CASE seq # req.num
      <4>1. seq + 1 \in 1..req.num
        BY <3>2, <1>4, <2>1
      <4>2. QED
        BY <4>1, <1>1, TheRequest DEF TypeOK
    <3>3. QED
      BY <3>1, <3>2
  <2>5. QED
    BY <2>1, <2>3, <2>4
<1>6. [seq |-> seq, data |-> buf] = Chunk(req, seq) /\ [seq |-> seq, data |-> buf] \in Chunks
  BY <1>4, <1>5 DEF Chunk, Chunks
<1>7. /\ fileQueue \in Seq(Chunks) /\ fileQueue' \in Seq(Chunks)
      /\ Len(fileQueue') = Len(fileQueue) + 1
  <2>1. fileQueue \in Seq(Chunks)
    BY <1>1 DEF TypeOK, QueuesOK
  <2> DEFINE e == [seq |-> seq, data |-> buf]
  <2>2. e \in Chunks /\ fileQueue' = Append(fileQueue, e)
    BY <1>2, <1>6
  <2> HIDE DEF e
  <2>3. QED
    BY <2>1, <2>2, AppendProperties
<1>8. ChunkerOK'
  <2>1. /\ file \in 0..req.files /\ unread \in Nat /\ seq \in Nat /\ chunkingDone \in BOOLEAN
    BY <1>1 DEF TypeOK, ChunkerOK
  <2>2. bufSize' \in Nat
    BY <1>2, <1>5
  <2>3. buf' \in Seq(Nat) /\ Len(buf') = 0
    BY <1>2
  <2>4. seq' \in Nat \ {0}
    BY <1>2, <2>1
  <2>5. QED
    BY <1>2, <2>1, <2>2, <2>3, <2>4 DEF ChunkerOK
<1>9. QueuesOK'
  BY <1>1, <1>2, <1>7, SendAssumption DEF TypeOK, QueuesOK
<1>10. ContextOK' /\ GivenOK' /\ EncryptionOK' /\ WireOK'
  <2>1. ContextOK' /\ GivenOK'
    BY <1>1, <1>2, <1>3 DEF TypeOK, ContextOK, GivenOK
  <2>2. EncryptionOK' /\ WireOK'
    BY <1>1, <1>2 DEF TypeOK, EncryptionOK, WireOK
  <2>3. QED
    BY <2>1, <2>2
<1>11. PlacesInv'
  <2>1. /\ BeforeEncQueue' = BeforeEncQueue /\ BeforeEncHand' = BeforeEncHand
        /\ BeforeFileQueue' = BeforeFileQueue /\ BeforeFileQueue \in Nat
    BY <1>1, <1>2 DEF BeforeEncQueue, BeforeEncHand, BeforeFileQueue, TypeOK, WireOK,
                      QueuesOK, EncryptionOK
  <2>2. seq = BeforeFileQueue + Len(fileQueue) + 1 /\ ChunkRun(req, fileQueue, BeforeFileQueue)
    BY <1>1 DEF PlacesInv
  <2>3. ChunkRun(req, fileQueue', BeforeFileQueue)
    BY <1>2, <1>6, <1>7, <2>1, <2>2, ChunkRunAppend
  <2>4. seq' = BeforeFileQueue + Len(fileQueue') + 1
    BY <1>2, <1>7, <2>1, <2>2
  <2>5. QED
    BY <1>1, <1>2, <1>3, <2>1, <2>3, <2>4, TheWorkers DEF PlacesInv
<1>12. ChunkerInv'
  <2>1. /\ req.ends[file] - unread = Base(req, seq) + Len(buf)
        /\ file \in 0..req.files /\ unread \in 0..req.ends[file]
        /\ file > 0 => req.ends[file - 1] <= req.ends[file] - unread
    BY <1>1 DEF ChunkerInv
  <2>2. seq' \in 1..(req.num + 1) /\ bufSize' = BufferSize(req, seq')
    <3>1. seq' = seq + 1 /\ bufSize' = BufferSize(req, seq + 1)
      BY <1>2
    <3>2. seq \in 1..req.num /\ req.num \in Nat
      BY <1>4, <1>5
    <3>3. \A n \in Nat : \A i \in 1..n : i + 1 \in 1..(n + 1)
      OBVIOUS
    <3>4. QED
      BY <3>1, <3>2, <3>3, Zenon
  <2>3. Len(buf') = 0 /\ buf' = [j \in 1..Len(buf') |-> Base(req, seq') + j]
    BY <1>2
  <2>4. req.ends[file] - unread = Base(req, seq') + Len(buf')
    BY <1>2, <1>4, <1>5, <2>1, <2>3
  <2>5. /\ pc'["chunker"] = "read" => unread > 0 /\ file > 0 /\ Len(buf') < bufSize'
        /\ pc'["chunker"] = "file" => unread = 0 /\ Len(buf') < bufSize'
        /\ pc'["chunker"] # "push"
    <3>1. unread > 0 => file > 0
      BY <2>1, <1>1, TheRequest DEF TypeOK
    <3>2. unread \in Nat /\ Len(buf') < bufSize'
      BY <1>1, <1>2, <1>5, <2>3 DEF TypeOK, ChunkerOK
    <3>3. QED
      BY <1>3, <3>1, <3>2 DEF AfterRead
  <2>6. QED
    BY <1>2, <2>1, <2>2, <2>3, <2>4, <2>5 DEF ChunkerInv
<1>13. HandsInv'
  BY <1>1, <1>2, <1>3, TheWorkers DEF PcInv, HandsInv, AfterRead
<1>14. DoneInv'
  BY <1>1, <1>2, <1>3, TheWorkers DEF PcInv, DoneInv, AfterRead
<1>15. AbortInv'
  BY <1>1, <1>2, <1>3, TheWorkers DEF PcInv, AbortInv, AfterRead
<1>16. PcInv'
  BY <1>1, <1>2, <1>3, TheWorkers DEF PcInv, AfterRead
<1>17. QED
  BY <1>8, <1>9, <1>10, <1>11, <1>12, <1>13, <1>14, <1>15, <1>16 DEF SendInv, TypeOK

\* The encryption thread leaves at the top of its loop only if the abort flag is up.
LEMMA EncryptTopStep == ASSUME SendInv, EncryptTop PROVE SendInv'
<1>1. TypeOK /\ PcInv /\ PlacesInv /\ ChunkerInv /\ HandsInv /\ DoneInv /\ AbortInv
  BY DEF SendInv
<1>2. /\ pc["encryption"] = "top"
      /\ encryptionDone' = (encryptionDone \/ abort)
      /\ UNCHANGED <<abort, exception, outcome, req, faults, file, unread, buf,
                     bufSize, seq, fileQueue, chunkingDone, encHand, encPos,
                     encQueue, sendHand, sent, chunksSent>>
  BY DEF EncryptTop, Step, At, Goto, given, chunkerVars, encVars, wireVars, beyondEncryption
<1>3. /\ pc' \in [Workers -> Labels] /\ pc'["encryption"] = (IF abort THEN "exit" ELSE "pop")
      /\ \A v \in Workers : v # "encryption" => pc'[v] = pc[v]
  BY <1>1, TheWorkers, Moved DEF EncryptTop, Step, Labels
<1>4. EncryptionOK'
  BY <1>1, <1>2, <1>3 DEF TypeOK, EncryptionOK
<1>5. ContextOK' /\ GivenOK' /\ ChunkerOK' /\ QueuesOK' /\ WireOK'
  BY <1>1, <1>2, <1>3 DEF TypeOK, ContextOK, GivenOK, ChunkerOK, QueuesOK, WireOK
<1>6. PlacesInv'
  BY <1>1, <1>2, <1>3, TheWorkers DEF PlacesInv, BeforeEncQueue, BeforeEncHand, BeforeFileQueue
<1>7. ChunkerInv'
  BY <1>1, <1>2, <1>3, TheWorkers DEF PcInv, ChunkerInv
<1>8. HandsInv'
  BY <1>1, <1>2, <1>3, TheWorkers DEF PcInv, HandsInv
<1>9. DoneInv'
  BY <1>1, <1>2, <1>3, TheWorkers DEF PcInv, DoneInv
<1>10. AbortInv'
  BY <1>1, <1>2, <1>3, TheWorkers DEF PcInv, AbortInv
<1>11. PcInv'
  BY <1>1, <1>2, <1>3, TheWorkers DEF PcInv
<1>12. QED
  BY <1>4, <1>5, <1>6, <1>7, <1>8, <1>9, <1>10, <1>11 DEF SendInv, TypeOK

\* The chunk popped is the next one of the run, now in the hand.
LEMMA EncryptPopStep == ASSUME SendInv, EncryptPop PROVE SendInv'
<1>1. TypeOK /\ PcInv /\ PlacesInv /\ ChunkerInv /\ HandsInv /\ DoneInv /\ AbortInv
  BY DEF SendInv
<1>2. /\ pc["encryption"] = "pop" /\ fileQueue # <<>>
      /\ encHand' = <<Head(fileQueue)>>
      /\ fileQueue' = Tail(fileQueue)
      /\ UNCHANGED <<abort, exception, outcome, req, faults, file, unread, buf,
                     bufSize, seq, chunkingDone, encPos, encQueue,
                     encryptionDone, sendHand, sent, chunksSent>>
  BY DEF EncryptPop, Step, At, Goto, given, chunkerVars, encVars, wireVars, beyondEncryption
<1>3. /\ pc' \in [Workers -> Labels] /\ pc'["encryption"] = ("encrypt")
      /\ \A v \in Workers : v # "encryption" => pc'[v] = pc[v]
  BY <1>1, TheWorkers, Moved DEF EncryptPop, Step, Labels
<1>4. /\ fileQueue \in Seq(Chunks) /\ fileQueue' \in Seq(Chunks)
      /\ Head(fileQueue) \in Chunks /\ Len(fileQueue') = Len(fileQueue) - 1
  <2>1. fileQueue \in Seq(Chunks)
    BY <1>1 DEF TypeOK, QueuesOK
  <2>2. QED
    BY <1>2, <2>1, Popped
<1>5. /\ encHand' \in Seq(Chunks \cup Packets) /\ Len(encHand') = 1
      /\ encHand'[1] = Head(fileQueue) /\ encHand' # <<>>
  BY <1>2, <1>4
<1>6. encHand = <<>> /\ Len(encHand) = 0
  BY <1>1, <1>2 DEF HandsInv
<1>7. EncryptionOK'
  BY <1>1, <1>2, <1>5 DEF TypeOK, EncryptionOK
<1>8. QueuesOK'
  BY <1>1, <1>2, <1>4, SendAssumption DEF TypeOK, QueuesOK
<1>9. ContextOK' /\ GivenOK' /\ ChunkerOK' /\ WireOK'
  BY <1>1, <1>2, <1>3 DEF TypeOK, ContextOK, GivenOK, ChunkerOK, WireOK
<1>10. PlacesInv'
  <2>1. /\ BeforeEncQueue' = BeforeEncQueue /\ BeforeEncHand' = BeforeEncHand
        /\ BeforeFileQueue = BeforeEncHand /\ BeforeFileQueue' = BeforeEncHand + 1
        /\ BeforeEncHand \in Nat
    BY <1>1, <1>2, <1>5, <1>6 DEF BeforeEncQueue, BeforeEncHand, BeforeFileQueue, TypeOK,
                                  WireOK, QueuesOK
  <2>2. /\ Head(fileQueue) = Chunk(req, BeforeEncHand + 1)
        /\ ChunkRun(req, fileQueue', BeforeEncHand + 1)
    <3>1. ChunkRun(req, fileQueue, BeforeEncHand)
      BY <1>1, <2>1 DEF PlacesInv
    <3>2. QED
      BY <1>2, <1>4, <2>1, <3>1, ChunkRunPop
  <2>3. ChunkRun(req, encHand', BeforeEncHand)
    BY <1>5, <2>2 DEF ChunkRun
  <2>4. /\ seq = BeforeEncHand + Len(fileQueue) + 1 /\ encPos = BeforeEncHand
        /\ PacketRun(req, sent, 0) /\ PacketRun(req, sendHand, Len(sent))
        /\ PacketRun(req, encQueue, BeforeEncQueue) /\ chunksSent = Len(sent)
    BY <1>1, <1>2, <2>1 DEF PlacesInv
  <2>5. seq = BeforeFileQueue' + Len(fileQueue') + 1
    BY <1>1, <1>4, <2>1, <2>4 DEF TypeOK, ChunkerOK
  <2>6. QED
    BY <1>2, <1>3, <2>1, <2>2, <2>3, <2>4, <2>5 DEF PlacesInv
<1>11. ChunkerInv'
  BY <1>1, <1>2, <1>3, TheWorkers DEF PcInv, ChunkerInv
<1>12. HandsInv'
  BY <1>1, <1>2, <1>3, <1>5, TheWorkers DEF PcInv, HandsInv
<1>13. DoneInv'
  BY <1>1, <1>2, <1>3, TheWorkers DEF PcInv, DoneInv
<1>14. AbortInv'
  BY <1>1, <1>2, <1>3, TheWorkers DEF PcInv, AbortInv
<1>15. PcInv'
  BY <1>1, <1>2, <1>3, TheWorkers DEF PcInv
<1>16. QED
  BY <1>7, <1>8, <1>9, <1>10, <1>11, <1>12, <1>13, <1>14, <1>15 DEF SendInv, TypeOK

\* An empty queue alone decides nothing.
LEMMA EncryptPopEmptyStep == ASSUME SendInv, EncryptPopEmpty PROVE SendInv'
<1>1. TypeOK /\ PcInv /\ PlacesInv /\ ChunkerInv /\ HandsInv /\ DoneInv /\ AbortInv
  BY DEF SendInv
<1>2. /\ pc["encryption"] = "pop"
      /\ UNCHANGED <<abort, exception, outcome, req, faults, file, unread, buf,
                     bufSize, seq, fileQueue, chunkingDone, encHand, encPos,
                     encQueue, encryptionDone, sendHand, sent, chunksSent>>
  BY DEF EncryptPopEmpty, Turn, Step, At, Goto, given, chunkerVars, encVars, wireVars, pipeVars
<1>3. /\ pc' \in [Workers -> Labels] /\ pc'["encryption"] = ("load")
      /\ \A v \in Workers : v # "encryption" => pc'[v] = pc[v]
  BY <1>1, TheWorkers, Moved DEF EncryptPopEmpty, Turn, Step, Labels
<1>4. ContextOK' /\ GivenOK' /\ ChunkerOK' /\ EncryptionOK' /\ QueuesOK' /\ WireOK'
  BY <1>1, <1>2, <1>3 DEF TypeOK, ContextOK, GivenOK, ChunkerOK, EncryptionOK, QueuesOK, WireOK
<1>5. PlacesInv'
  BY <1>1, <1>2, <1>3, TheWorkers DEF PlacesInv, BeforeEncQueue, BeforeEncHand, BeforeFileQueue
<1>6. ChunkerInv'
  BY <1>1, <1>2, <1>3, TheWorkers DEF PcInv, ChunkerInv
<1>7. HandsInv'
  BY <1>1, <1>2, <1>3, TheWorkers DEF PcInv, HandsInv
<1>8. DoneInv'
  BY <1>1, <1>2, <1>3, TheWorkers DEF PcInv, DoneInv
<1>9. AbortInv'
  BY <1>1, <1>2, <1>3, TheWorkers DEF PcInv, AbortInv
<1>10. PcInv'
  BY <1>1, <1>2, <1>3, TheWorkers DEF PcInv
<1>11. QED
  BY <1>4, <1>5, <1>6, <1>7, <1>8, <1>9, <1>10 DEF SendInv, TypeOK

\* Once the flag is seen, the chunker has ended and the queue can only shrink.
LEMMA EncryptLoadDoneStep == ASSUME SendInv, EncryptLoadDone PROVE SendInv'
<1>1. TypeOK /\ PcInv /\ PlacesInv /\ ChunkerInv /\ HandsInv /\ DoneInv /\ AbortInv
  BY DEF SendInv
<1>2. /\ pc["encryption"] = "load"
      /\ UNCHANGED <<abort, exception, outcome, req, faults, file, unread, buf,
                     bufSize, seq, fileQueue, chunkingDone, encHand, encPos,
                     encQueue, encryptionDone, sendHand, sent, chunksSent>>
  BY DEF EncryptLoadDone, Turn, Step, At, Goto, given, chunkerVars, encVars, wireVars, pipeVars
<1>3. /\ pc' \in [Workers -> Labels] /\ pc'["encryption"] = (IF chunkingDone THEN "empty" ELSE "top")
      /\ \A v \in Workers : v # "encryption" => pc'[v] = pc[v]
  BY <1>1, TheWorkers, Moved DEF EncryptLoadDone, Turn, Step, AfterLoad, Labels
<1>4. ContextOK' /\ GivenOK' /\ ChunkerOK' /\ EncryptionOK' /\ QueuesOK' /\ WireOK'
  BY <1>1, <1>2, <1>3 DEF TypeOK, ContextOK, GivenOK, ChunkerOK, EncryptionOK, QueuesOK, WireOK
<1>5. PlacesInv'
  BY <1>1, <1>2, <1>3, TheWorkers DEF PlacesInv, BeforeEncQueue, BeforeEncHand, BeforeFileQueue
<1>6. ChunkerInv'
  BY <1>1, <1>2, <1>3, TheWorkers DEF PcInv, ChunkerInv
<1>7. HandsInv'
  BY <1>1, <1>2, <1>3, TheWorkers DEF PcInv, HandsInv
<1>8. DoneInv'
  BY <1>1, <1>2, <1>3, TheWorkers DEF PcInv, DoneInv
<1>9. AbortInv'
  BY <1>1, <1>2, <1>3, TheWorkers DEF PcInv, AbortInv
<1>10. PcInv'
  BY <1>1, <1>2, <1>3, TheWorkers DEF PcInv
<1>11. QED
  BY <1>4, <1>5, <1>6, <1>7, <1>8, <1>9, <1>10 DEF SendInv, TypeOK

\* A queue found empty after the flag was seen stays empty: nothing is left behind.
LEMMA EncryptCheckEmptyStep == ASSUME SendInv, EncryptCheckEmpty PROVE SendInv'
<1>1. TypeOK /\ PcInv /\ PlacesInv /\ ChunkerInv /\ HandsInv /\ DoneInv /\ AbortInv
  BY DEF SendInv
<1>2. /\ pc["encryption"] = "empty"
      /\ encryptionDone' = (encryptionDone \/ fileQueue = <<>>)
      /\ UNCHANGED <<abort, exception, outcome, req, faults, file, unread, buf,
                     bufSize, seq, fileQueue, chunkingDone, encHand, encPos,
                     encQueue, sendHand, sent, chunksSent>>
  BY DEF EncryptCheckEmpty, Step, At, Goto, given, chunkerVars, encVars, wireVars,
         beyondEncryption
<1>3. /\ pc' \in [Workers -> Labels] /\ pc'["encryption"] = (IF fileQueue = <<>> THEN "exit" ELSE "top")
      /\ \A v \in Workers : v # "encryption" => pc'[v] = pc[v]
  BY <1>1, TheWorkers, Moved DEF EncryptCheckEmpty, Step, Labels
<1>4. EncryptionOK'
  BY <1>1, <1>2, <1>3 DEF TypeOK, EncryptionOK
<1>5. ContextOK' /\ GivenOK' /\ ChunkerOK' /\ QueuesOK' /\ WireOK'
  BY <1>1, <1>2, <1>3 DEF TypeOK, ContextOK, GivenOK, ChunkerOK, QueuesOK, WireOK
<1>6. PlacesInv'
  BY <1>1, <1>2, <1>3, TheWorkers DEF PlacesInv, BeforeEncQueue, BeforeEncHand, BeforeFileQueue
<1>7. ChunkerInv'
  BY <1>1, <1>2, <1>3, TheWorkers DEF PcInv, ChunkerInv
<1>8. HandsInv'
  BY <1>1, <1>2, <1>3, TheWorkers DEF PcInv, HandsInv
<1>9. DoneInv'
  <2>1. encHand = <<>>
    BY <1>1, <1>2 DEF HandsInv
  <2>2. QED
    BY <1>1, <1>2, <1>3, <2>1, TheWorkers DEF PcInv, DoneInv
<1>10. AbortInv'
  BY <1>1, <1>2, <1>3, TheWorkers DEF PcInv, AbortInv
<1>11. PcInv'
  BY <1>1, <1>2, <1>3, TheWorkers DEF PcInv
<1>12. QED
  BY <1>4, <1>5, <1>6, <1>7, <1>8, <1>9, <1>10, <1>11 DEF SendInv, TypeOK

\* The chunk in the hand becomes the message of its own position.
LEMMA EncryptChunkStep == ASSUME SendInv, EncryptChunk PROVE SendInv'
<1>1. TypeOK /\ PcInv /\ PlacesInv /\ ChunkerInv /\ HandsInv /\ DoneInv /\ AbortInv
  BY DEF SendInv
<1>2. /\ pc["encryption"] = "encrypt"
      /\ encHand' = <<Encrypted(encHand[1], encPos + 1)>>
      /\ encPos' = encPos + 1
      /\ UNCHANGED <<abort, exception, outcome, req, faults, file, unread, buf,
                     bufSize, seq, fileQueue, chunkingDone, encQueue,
                     encryptionDone, sendHand, sent, chunksSent>>
  BY DEF EncryptChunk, Step, At, Goto, given, chunkerVars, encVars, wireVars, beyondEncryption
<1>3. /\ pc' \in [Workers -> Labels] /\ pc'["encryption"] = ("push")
      /\ \A v \in Workers : v # "encryption" => pc'[v] = pc[v]
  BY <1>1, TheWorkers, Moved DEF EncryptChunk, Step, Labels
<1>4. /\ Len(encHand) = 1 /\ encHand[1] = Chunk(req, BeforeEncHand + 1)
      /\ encPos = BeforeEncHand /\ BeforeEncHand \in Nat
  <2>1. Len(encHand) = 1 /\ ChunkRun(req, encHand, BeforeEncHand) /\ encPos = BeforeEncHand
    BY <1>1, <1>2 DEF HandsInv, PlacesInv
  <2>2. BeforeEncHand \in Nat
    BY <1>1 DEF BeforeEncQueue, BeforeEncHand, TypeOK, WireOK, QueuesOK
  <2>3. QED
    BY <2>1, <2>2 DEF ChunkRun
<1>5. BeforeEncHand + 1 \in 1..req.num /\ ChunkData(req, BeforeEncHand + 1) \in Seq(Nat)
      /\ Len(ChunkData(req, BeforeEncHand + 1)) <= req.chunk
  <2>1. /\ seq \in 1..(req.num + 1) /\ seq = BeforeFileQueue + Len(fileQueue) + 1
        /\ BeforeFileQueue = BeforeEncHand + 1 /\ Len(fileQueue) \in Nat
    BY <1>1, <1>4 DEF ChunkerInv, PlacesInv, BeforeFileQueue, TypeOK, QueuesOK
  <2>2. BeforeEncHand + 1 \in 1..req.num
    BY <2>1, <1>1, <1>4, TheRequest DEF TypeOK
  <2>3. PICK b \in 1..req.chunk, k \in Nat :
           ChunkData(req, BeforeEncHand + 1) = [j \in 1..b |-> k + j]
    BY <2>2, <1>1, TheRequest DEF TypeOK
  <2>4. req.chunk \in Nat
    BY <1>1, TheRequest DEF TypeOK
  <2>5. QED
    BY <2>2, <2>3, <2>4
<1>6. /\ encHand' = <<Packet(req, BeforeEncHand + 1)>> /\ Len(encHand') = 1
      /\ Packet(req, BeforeEncHand + 1) \in Packets /\ encHand' # <<>>
  <2>1. Encrypted(encHand[1], encPos + 1) = Packet(req, BeforeEncHand + 1)
    BY <1>4 DEF Encrypted, Packet, Chunk
  <2>2. Packet(req, BeforeEncHand + 1) \in Packets
    BY <1>4, <1>5 DEF Packet, Packets
  <2>3. QED
    BY <1>2, <2>1, <2>2
<1>7. EncryptionOK'
  BY <1>1, <1>2, <1>4, <1>6 DEF TypeOK, EncryptionOK
<1>8. ContextOK' /\ GivenOK' /\ ChunkerOK' /\ QueuesOK' /\ WireOK'
  BY <1>1, <1>2, <1>3 DEF TypeOK, ContextOK, GivenOK, ChunkerOK, QueuesOK, WireOK
<1>9. PlacesInv'
  <2>1. /\ BeforeEncQueue' = BeforeEncQueue /\ BeforeEncHand' = BeforeEncHand
        /\ BeforeFileQueue' = BeforeFileQueue
    BY <1>2, <1>4, <1>6 DEF BeforeEncQueue, BeforeEncHand, BeforeFileQueue
  <2>2. PacketRun(req, encHand', BeforeEncHand)
    BY <1>6 DEF PacketRun
  <2>3. QED
    BY <1>1, <1>2, <1>3, <1>4, <2>1, <2>2, TheWorkers DEF PlacesInv
<1>10. ChunkerInv'
  BY <1>1, <1>2, <1>3, TheWorkers DEF PcInv, ChunkerInv
<1>11. HandsInv'
  BY <1>1, <1>2, <1>3, <1>6, TheWorkers DEF PcInv, HandsInv
<1>12. DoneInv'
  BY <1>1, <1>2, <1>3, TheWorkers DEF PcInv, DoneInv
<1>13. AbortInv'
  BY <1>1, <1>2, <1>3, TheWorkers DEF PcInv, AbortInv
<1>14. PcInv'
  BY <1>1, <1>2, <1>3, TheWorkers DEF PcInv
<1>15. QED
  BY <1>7, <1>8, <1>9, <1>10, <1>11, <1>12, <1>13, <1>14 DEF SendInv, TypeOK

\* Only a fault makes encrypt_chunk throw: the chunk it holds passes the checks.
LEMMA EncryptFailsStep == ASSUME SendInv, EncryptFails PROVE SendInv'
<1>1. TypeOK /\ PcInv /\ PlacesInv /\ ChunkerInv /\ HandsInv /\ DoneInv /\ AbortInv
  BY DEF SendInv
<1>2. /\ pc["encryption"] = "encrypt"
      /\ "encryption" \in faults \/ ~Encryptable(encHand[1])
      /\ UNCHANGED <<abort, exception, outcome, req, faults, file, unread, buf,
                     bufSize, seq, fileQueue, chunkingDone, encHand, encPos,
                     encQueue, encryptionDone, sendHand, sent, chunksSent>>
  BY DEF EncryptFails, Throw, Step, At, Goto, MayFail, given, chunkerVars, encVars, wireVars,
         pipeVars
<1>3. /\ pc' \in [Workers -> Labels] /\ pc'["encryption"] = ("catch")
      /\ \A v \in Workers : v # "encryption" => pc'[v] = pc[v]
  BY <1>1, TheWorkers, Moved DEF EncryptFails, Throw, Step, Labels
<1>4. /\ Len(encHand) = 1 /\ encHand[1] = Chunk(req, BeforeEncHand + 1)
      /\ encPos = BeforeEncHand /\ BeforeEncHand \in Nat
  <2>1. Len(encHand) = 1 /\ ChunkRun(req, encHand, BeforeEncHand) /\ encPos = BeforeEncHand
    BY <1>1, <1>2 DEF HandsInv, PlacesInv
  <2>2. BeforeEncHand \in Nat
    BY <1>1 DEF BeforeEncQueue, BeforeEncHand, TypeOK, WireOK, QueuesOK
  <2>3. QED
    BY <2>1, <2>2 DEF ChunkRun
<1>5. BeforeEncHand + 1 \in 1..req.num /\ ChunkData(req, BeforeEncHand + 1) \in Seq(Nat)
      /\ Len(ChunkData(req, BeforeEncHand + 1)) <= req.chunk
  <2>1. /\ seq \in 1..(req.num + 1) /\ seq = BeforeFileQueue + Len(fileQueue) + 1
        /\ BeforeFileQueue = BeforeEncHand + 1 /\ Len(fileQueue) \in Nat
    BY <1>1, <1>4 DEF ChunkerInv, PlacesInv, BeforeFileQueue, TypeOK, QueuesOK
  <2>2. BeforeEncHand + 1 \in 1..req.num
    BY <2>1, <1>1, <1>4, TheRequest DEF TypeOK
  <2>3. PICK b \in 1..req.chunk, k \in Nat :
           ChunkData(req, BeforeEncHand + 1) = [j \in 1..b |-> k + j]
    BY <2>2, <1>1, TheRequest DEF TypeOK
  <2>4. req.chunk \in Nat
    BY <1>1, TheRequest DEF TypeOK
  <2>5. QED
    BY <2>2, <2>3, <2>4
<1>6. faults # {}
  <2>1. Encryptable(encHand[1])
    BY <1>4, <1>5 DEF Encryptable, Chunk
  <2>2. QED
    BY <1>2, <2>1
<1>7. ContextOK' /\ GivenOK' /\ ChunkerOK' /\ EncryptionOK' /\ QueuesOK' /\ WireOK'
  BY <1>1, <1>2, <1>3 DEF TypeOK, ContextOK, GivenOK, ChunkerOK, EncryptionOK, QueuesOK, WireOK
<1>8. PlacesInv'
  BY <1>1, <1>2, <1>3, TheWorkers DEF PlacesInv, BeforeEncQueue, BeforeEncHand, BeforeFileQueue
<1>9. ChunkerInv'
  BY <1>1, <1>2, <1>3, TheWorkers DEF PcInv, ChunkerInv
<1>10. HandsInv'
  BY <1>1, <1>2, <1>3, TheWorkers DEF PcInv, HandsInv
<1>11. DoneInv'
  BY <1>1, <1>2, <1>3, TheWorkers DEF PcInv, DoneInv
<1>12. AbortInv'
  BY <1>1, <1>2, <1>3, <1>6, TheWorkers DEF PcInv, AbortInv
<1>13. PcInv'
  BY <1>1, <1>2, <1>3, TheWorkers DEF PcInv
<1>14. QED
  BY <1>7, <1>8, <1>9, <1>10, <1>11, <1>12, <1>13 DEF SendInv, TypeOK

\* The packet goes from the hand to the end of the run in the queue.
LEMMA EncryptPushStep == ASSUME SendInv, EncryptPush PROVE SendInv'
<1>1. TypeOK /\ PcInv /\ PlacesInv /\ ChunkerInv /\ HandsInv /\ DoneInv /\ AbortInv
  BY DEF SendInv
<1>2. /\ pc["encryption"] = "push" /\ Len(encQueue) < Capacity
      /\ encQueue' = encQueue \o encHand
      /\ encHand' = <<>>
      /\ UNCHANGED <<abort, exception, outcome, req, faults, file, unread, buf,
                     bufSize, seq, fileQueue, chunkingDone, encPos,
                     encryptionDone, sendHand, sent, chunksSent>>
  BY DEF EncryptPush, Step, At, Goto, HasRoom, given, chunkerVars, encVars, wireVars,
         beyondEncryption
<1>3. /\ pc' \in [Workers -> Labels] /\ pc'["encryption"] = ("top")
      /\ \A v \in Workers : v # "encryption" => pc'[v] = pc[v]
  BY <1>1, TheWorkers, Moved DEF EncryptPush, Step, Labels
<1>4. Len(encHand) = 1 /\ PacketRun(req, encHand, BeforeEncHand) /\ encPos = BeforeEncHand + 1
  BY <1>1, <1>2 DEF HandsInv, PlacesInv
<1>5. BeforeEncHand \in Nat /\ BeforeEncQueue \in Nat /\ encQueue \in Seq(Packets)
      /\ BeforeEncHand = BeforeEncQueue + Len(encQueue)
  BY <1>1 DEF BeforeEncQueue, BeforeEncHand, TypeOK, WireOK, QueuesOK
<1>6. encHand \in Seq(Packets)
  <2>1. seq \in 1..(req.num + 1) /\ seq = BeforeFileQueue + Len(fileQueue) + 1
        /\ BeforeFileQueue = BeforeEncHand + 1 /\ Len(fileQueue) \in Nat
    BY <1>1, <1>4 DEF ChunkerInv, PlacesInv, BeforeFileQueue, TypeOK, QueuesOK
  <2>2. BeforeEncHand + 1 \in 1..req.num
    <3>1. req.num \in Nat
      BY <1>1, TheRequest DEF TypeOK
    <3>2. QED
      BY <2>1, <3>1, <1>5
  <2>3. ChunkData(req, BeforeEncHand + 1) \in Seq(Nat)
    <3>1. PICK b \in 1..req.chunk, k \in Nat :
             ChunkData(req, BeforeEncHand + 1) = [j \in 1..b |-> k + j]
      BY <2>2, <1>1, TheRequest DEF TypeOK
    <3>2. QED
      BY <3>1, <1>1, TheRequest DEF TypeOK
  <2>4. encHand[1] = Packet(req, BeforeEncHand + 1) /\ encHand[1] \in Packets
    <3>1. encHand[1] = Packet(req, BeforeEncHand + 1)
      BY <1>4 DEF PacketRun
    <3>2. Packet(req, BeforeEncHand + 1) \in Packets
      BY <1>5, <2>3 DEF Packet, Packets
    <3>3. QED
      BY <3>1, <3>2
  <2>5. encHand = <<encHand[1]>>
    BY <1>1, <1>4 DEF TypeOK, EncryptionOK
  <2>6. <<encHand[1]>> \in Seq(Packets)
    BY <2>4, Single
  <2>7. QED
    BY <2>5, <2>6
<1>7. /\ encQueue' \in Seq(Packets) /\ Len(encQueue') = Len(encQueue) + 1
      /\ PacketRun(req, encQueue', BeforeEncQueue)
  <2>1. PacketRun(req, encQueue, BeforeEncQueue)
    BY <1>1 DEF PlacesInv
  <2>2. encQueue \o encHand \in Seq(Packets) /\ Len(encQueue \o encHand) = Len(encQueue) + 1
    <3>1. /\ encQueue \o encHand \in Seq(Packets)
          /\ Len(encQueue \o encHand) = Len(encQueue) + Len(encHand)
      BY <1>5, <1>6, ConcatProperties
    <3>2. QED
      BY <3>1, <1>4, <1>5
  <2>3. PacketRun(req, encQueue \o encHand, BeforeEncQueue)
    BY <1>4, <1>5, <1>6, <2>1, PacketRunConcat
  <2>4. QED
    BY <1>2, <2>2, <2>3
<1>8. EncryptionOK'
  BY <1>1, <1>2 DEF TypeOK, EncryptionOK
<1>9. QueuesOK'
  BY <1>1, <1>2, <1>7, SendAssumption DEF TypeOK, QueuesOK
<1>10. ContextOK' /\ GivenOK' /\ ChunkerOK' /\ WireOK'
  BY <1>1, <1>2, <1>3 DEF TypeOK, ContextOK, GivenOK, ChunkerOK, WireOK
<1>11. PlacesInv'
  <2>1. /\ BeforeEncQueue' = BeforeEncQueue /\ BeforeEncHand' = BeforeEncHand + 1
        /\ BeforeFileQueue' = BeforeFileQueue /\ Len(encHand') = 0
    BY <1>2, <1>4, <1>5, <1>7 DEF BeforeEncQueue, BeforeEncHand, BeforeFileQueue
  <2>2. ChunkRun(req, encHand', BeforeEncHand + 1)
    BY <2>1 DEF ChunkRun
  <2>3. QED
    BY <1>1, <1>2, <1>3, <1>4, <1>7, <2>1, <2>2 DEF PlacesInv
<1>12. ChunkerInv'
  BY <1>1, <1>2, <1>3, TheWorkers DEF PcInv, ChunkerInv
<1>13. HandsInv'
  BY <1>1, <1>2, <1>3, TheWorkers DEF PcInv, HandsInv
<1>14. DoneInv'
  BY <1>1, <1>2, <1>3, TheWorkers DEF PcInv, DoneInv
<1>15. AbortInv'
  BY <1>1, <1>2, <1>3, TheWorkers DEF PcInv, AbortInv
<1>16. PcInv'
  BY <1>1, <1>2, <1>3, TheWorkers DEF PcInv
<1>17. QED
  BY <1>8, <1>9, <1>10, <1>11, <1>12, <1>13, <1>14, <1>15, <1>16 DEF SendInv, TypeOK

\* The transmission thread leaves at the top of its loop only if the abort flag is up.
LEMMA SendTopStep == ASSUME SendInv, SendTop PROVE SendInv'
<1>1. TypeOK /\ PcInv /\ PlacesInv /\ ChunkerInv /\ HandsInv /\ DoneInv /\ AbortInv
  BY DEF SendInv
<1>2. /\ pc["transmission"] = "top"
      /\ UNCHANGED <<abort, exception, outcome, req, faults, file, unread, buf,
                     bufSize, seq, fileQueue, chunkingDone, encHand, encPos,
                     encQueue, encryptionDone, sendHand, sent, chunksSent>>
  BY DEF SendTop, Turn, Step, At, Goto, given, chunkerVars, encVars, wireVars, pipeVars
<1>3. /\ pc' \in [Workers -> Labels] /\ pc'["transmission"] = (IF abort THEN "exit" ELSE "pop")
      /\ \A v \in Workers : v # "transmission" => pc'[v] = pc[v]
  BY <1>1, TheWorkers, Moved DEF SendTop, Turn, Step, Labels
<1>4. ContextOK' /\ GivenOK' /\ ChunkerOK' /\ EncryptionOK' /\ QueuesOK' /\ WireOK'
  BY <1>1, <1>2, <1>3 DEF TypeOK, ContextOK, GivenOK, ChunkerOK, EncryptionOK, QueuesOK, WireOK
<1>5. PlacesInv'
  BY <1>1, <1>2, <1>3, TheWorkers DEF PlacesInv, BeforeEncQueue, BeforeEncHand, BeforeFileQueue
<1>6. ChunkerInv'
  BY <1>1, <1>2, <1>3, TheWorkers DEF PcInv, ChunkerInv
<1>7. HandsInv'
  BY <1>1, <1>2, <1>3, TheWorkers DEF PcInv, HandsInv
<1>8. DoneInv'
  BY <1>1, <1>2, <1>3, TheWorkers DEF PcInv, DoneInv
<1>9. AbortInv'
  BY <1>1, <1>2, <1>3, TheWorkers DEF PcInv, AbortInv
<1>10. PcInv'
  BY <1>1, <1>2, <1>3, TheWorkers DEF PcInv
<1>11. QED
  BY <1>4, <1>5, <1>6, <1>7, <1>8, <1>9, <1>10 DEF SendInv, TypeOK

\* The packet popped is the next one to be written, now in the hand.
LEMMA SendPopStep == ASSUME SendInv, SendPop PROVE SendInv'
<1>1. TypeOK /\ PcInv /\ PlacesInv /\ ChunkerInv /\ HandsInv /\ DoneInv /\ AbortInv
  BY DEF SendInv
<1>2. /\ pc["transmission"] = "pop" /\ encQueue # <<>>
      /\ sendHand' = <<Head(encQueue)>>
      /\ encQueue' = Tail(encQueue)
      /\ UNCHANGED <<abort, exception, outcome, req, faults, file, unread, buf,
                     bufSize, seq, fileQueue, chunkingDone, encHand, encPos,
                     encryptionDone, sent, chunksSent>>
  BY DEF SendPop, Step, At, Goto, given, chunkerVars, encVars, wireVars, beyondTransmission
<1>3. /\ pc' \in [Workers -> Labels] /\ pc'["transmission"] = ("write")
      /\ \A v \in Workers : v # "transmission" => pc'[v] = pc[v]
  BY <1>1, TheWorkers, Moved DEF SendPop, Step, Labels
<1>4. /\ encQueue \in Seq(Packets) /\ encQueue' \in Seq(Packets)
      /\ Head(encQueue) \in Packets /\ Len(encQueue') = Len(encQueue) - 1
  <2>1. encQueue \in Seq(Packets)
    BY <1>1 DEF TypeOK, QueuesOK
  <2>2. QED
    BY <1>2, <2>1, Popped
<1>5. /\ sendHand' \in Seq(Packets) /\ Len(sendHand') = 1
      /\ sendHand'[1] = Head(encQueue) /\ sendHand' # <<>>
  BY <1>2, <1>4
<1>6. sendHand = <<>> /\ Len(sendHand) = 0
  BY <1>1, <1>2 DEF HandsInv
<1>7. QueuesOK'
  BY <1>1, <1>2, <1>4, SendAssumption DEF TypeOK, QueuesOK
<1>8. WireOK'
  BY <1>1, <1>2, <1>5 DEF TypeOK, WireOK
<1>9. ContextOK' /\ GivenOK' /\ ChunkerOK' /\ EncryptionOK'
  BY <1>1, <1>2, <1>3 DEF TypeOK, ContextOK, GivenOK, ChunkerOK, EncryptionOK
<1>10. PlacesInv'
  <2>1. /\ BeforeEncQueue = Len(sent) /\ BeforeEncQueue' = Len(sent) + 1
        /\ BeforeEncHand' = BeforeEncHand /\ BeforeFileQueue' = BeforeFileQueue
        /\ Len(sent) \in Nat
    BY <1>1, <1>2, <1>4, <1>5, <1>6 DEF BeforeEncQueue, BeforeEncHand, BeforeFileQueue, TypeOK,
                                        WireOK, QueuesOK
  <2>2. /\ Head(encQueue) = Packet(req, Len(sent) + 1)
        /\ PacketRun(req, encQueue', Len(sent) + 1)
    <3>1. PacketRun(req, encQueue, Len(sent))
      BY <1>1, <2>1 DEF PlacesInv
    <3>2. QED
      BY <1>2, <1>4, <2>1, <3>1, PacketRunPop
  <2>3. PacketRun(req, sendHand', Len(sent))
    BY <1>5, <2>2 DEF PacketRun
  <2>4. QED
    BY <1>1, <1>2, <1>3, <2>1, <2>2, <2>3, TheWorkers DEF PlacesInv
<1>11. ChunkerInv'
  BY <1>1, <1>2, <1>3, TheWorkers DEF PcInv, ChunkerInv
<1>12. HandsInv'
  BY <1>1, <1>2, <1>3, <1>5, TheWorkers DEF PcInv, HandsInv
<1>13. DoneInv'
  BY <1>1, <1>2, <1>3, TheWorkers DEF PcInv, DoneInv
<1>14. AbortInv'
  BY <1>1, <1>2, <1>3, TheWorkers DEF PcInv, AbortInv
<1>15. PcInv'
  BY <1>1, <1>2, <1>3, TheWorkers DEF PcInv
<1>16. QED
  BY <1>7, <1>8, <1>9, <1>10, <1>11, <1>12, <1>13, <1>14, <1>15 DEF SendInv, TypeOK

\* An empty queue alone decides nothing.
LEMMA SendPopEmptyStep == ASSUME SendInv, SendPopEmpty PROVE SendInv'
<1>1. TypeOK /\ PcInv /\ PlacesInv /\ ChunkerInv /\ HandsInv /\ DoneInv /\ AbortInv
  BY DEF SendInv
<1>2. /\ pc["transmission"] = "pop"
      /\ UNCHANGED <<abort, exception, outcome, req, faults, file, unread, buf,
                     bufSize, seq, fileQueue, chunkingDone, encHand, encPos,
                     encQueue, encryptionDone, sendHand, sent, chunksSent>>
  BY DEF SendPopEmpty, Turn, Step, At, Goto, given, chunkerVars, encVars, wireVars, pipeVars
<1>3. /\ pc' \in [Workers -> Labels] /\ pc'["transmission"] = ("load")
      /\ \A v \in Workers : v # "transmission" => pc'[v] = pc[v]
  BY <1>1, TheWorkers, Moved DEF SendPopEmpty, Turn, Step, Labels
<1>4. ContextOK' /\ GivenOK' /\ ChunkerOK' /\ EncryptionOK' /\ QueuesOK' /\ WireOK'
  BY <1>1, <1>2, <1>3 DEF TypeOK, ContextOK, GivenOK, ChunkerOK, EncryptionOK, QueuesOK, WireOK
<1>5. PlacesInv'
  BY <1>1, <1>2, <1>3, TheWorkers DEF PlacesInv, BeforeEncQueue, BeforeEncHand, BeforeFileQueue
<1>6. ChunkerInv'
  BY <1>1, <1>2, <1>3, TheWorkers DEF PcInv, ChunkerInv
<1>7. HandsInv'
  BY <1>1, <1>2, <1>3, TheWorkers DEF PcInv, HandsInv
<1>8. DoneInv'
  BY <1>1, <1>2, <1>3, TheWorkers DEF PcInv, DoneInv
<1>9. AbortInv'
  BY <1>1, <1>2, <1>3, TheWorkers DEF PcInv, AbortInv
<1>10. PcInv'
  BY <1>1, <1>2, <1>3, TheWorkers DEF PcInv
<1>11. QED
  BY <1>4, <1>5, <1>6, <1>7, <1>8, <1>9, <1>10 DEF SendInv, TypeOK

\* Once the flag is seen, the encryption thread has ended and the queue can only shrink.
LEMMA SendLoadDoneStep == ASSUME SendInv, SendLoadDone PROVE SendInv'
<1>1. TypeOK /\ PcInv /\ PlacesInv /\ ChunkerInv /\ HandsInv /\ DoneInv /\ AbortInv
  BY DEF SendInv
<1>2. /\ pc["transmission"] = "load"
      /\ UNCHANGED <<abort, exception, outcome, req, faults, file, unread, buf,
                     bufSize, seq, fileQueue, chunkingDone, encHand, encPos,
                     encQueue, encryptionDone, sendHand, sent, chunksSent>>
  BY DEF SendLoadDone, Turn, Step, At, Goto, given, chunkerVars, encVars, wireVars, pipeVars
<1>3. /\ pc' \in [Workers -> Labels] /\ pc'["transmission"] = (IF encryptionDone THEN "empty" ELSE "top")
      /\ \A v \in Workers : v # "transmission" => pc'[v] = pc[v]
  BY <1>1, TheWorkers, Moved DEF SendLoadDone, Turn, Step, AfterLoad, Labels
<1>4. ContextOK' /\ GivenOK' /\ ChunkerOK' /\ EncryptionOK' /\ QueuesOK' /\ WireOK'
  BY <1>1, <1>2, <1>3 DEF TypeOK, ContextOK, GivenOK, ChunkerOK, EncryptionOK, QueuesOK, WireOK
<1>5. PlacesInv'
  BY <1>1, <1>2, <1>3, TheWorkers DEF PlacesInv, BeforeEncQueue, BeforeEncHand, BeforeFileQueue
<1>6. ChunkerInv'
  BY <1>1, <1>2, <1>3, TheWorkers DEF PcInv, ChunkerInv
<1>7. HandsInv'
  BY <1>1, <1>2, <1>3, TheWorkers DEF PcInv, HandsInv
<1>8. DoneInv'
  BY <1>1, <1>2, <1>3, TheWorkers DEF PcInv, DoneInv
<1>9. AbortInv'
  BY <1>1, <1>2, <1>3, TheWorkers DEF PcInv, AbortInv
<1>10. PcInv'
  BY <1>1, <1>2, <1>3, TheWorkers DEF PcInv
<1>11. QED
  BY <1>4, <1>5, <1>6, <1>7, <1>8, <1>9, <1>10 DEF SendInv, TypeOK

\* A queue found empty after the flag was seen stays empty: all packets are written.
LEMMA SendCheckEmptyStep == ASSUME SendInv, SendCheckEmpty PROVE SendInv'
<1>1. TypeOK /\ PcInv /\ PlacesInv /\ ChunkerInv /\ HandsInv /\ DoneInv /\ AbortInv
  BY DEF SendInv
<1>2. /\ pc["transmission"] = "empty"
      /\ UNCHANGED <<abort, exception, outcome, req, faults, file, unread, buf,
                     bufSize, seq, fileQueue, chunkingDone, encHand, encPos,
                     encQueue, encryptionDone, sendHand, sent, chunksSent>>
  BY DEF SendCheckEmpty, Turn, Step, At, Goto, given, chunkerVars, encVars, wireVars, pipeVars
<1>3. /\ pc' \in [Workers -> Labels] /\ pc'["transmission"] = (IF encQueue = <<>> THEN "exit" ELSE "top")
      /\ \A v \in Workers : v # "transmission" => pc'[v] = pc[v]
  BY <1>1, TheWorkers, Moved DEF SendCheckEmpty, Turn, Step, Labels
<1>4. ContextOK' /\ GivenOK' /\ ChunkerOK' /\ EncryptionOK' /\ QueuesOK' /\ WireOK'
  BY <1>1, <1>2, <1>3 DEF TypeOK, ContextOK, GivenOK, ChunkerOK, EncryptionOK, QueuesOK, WireOK
<1>5. PlacesInv'
  BY <1>1, <1>2, <1>3, TheWorkers DEF PlacesInv, BeforeEncQueue, BeforeEncHand, BeforeFileQueue
<1>6. ChunkerInv'
  BY <1>1, <1>2, <1>3, TheWorkers DEF PcInv, ChunkerInv
<1>7. HandsInv'
  BY <1>1, <1>2, <1>3, TheWorkers DEF PcInv, HandsInv
<1>8. DoneInv'
  <2>1. sendHand = <<>>
    BY <1>1, <1>2 DEF HandsInv
  <2>2. QED
    BY <1>1, <1>2, <1>3, <2>1, TheWorkers DEF PcInv, DoneInv
<1>9. AbortInv'
  BY <1>1, <1>2, <1>3, TheWorkers DEF PcInv, AbortInv
<1>10. PcInv'
  BY <1>1, <1>2, <1>3, TheWorkers DEF PcInv
<1>11. QED
  BY <1>4, <1>5, <1>6, <1>7, <1>8, <1>9, <1>10 DEF SendInv, TypeOK

\* The packet goes from the hand to the end of what is on the wire, and is counted.
LEMMA SendWriteStep == ASSUME SendInv, SendWrite PROVE SendInv'
<1>1. TypeOK /\ PcInv /\ PlacesInv /\ ChunkerInv /\ HandsInv /\ DoneInv /\ AbortInv
  BY DEF SendInv
<1>2. /\ pc["transmission"] = "write"
      /\ sent' = sent \o sendHand
      /\ sendHand' = <<>>
      /\ chunksSent' = chunksSent + 1
      /\ UNCHANGED <<abort, exception, outcome, req, faults, file, unread, buf,
                     bufSize, seq, fileQueue, chunkingDone, encHand, encPos,
                     encQueue, encryptionDone>>
  BY DEF SendWrite, Step, At, Goto, given, chunkerVars, encVars, wireVars, beyondTransmission
<1>3. /\ pc' \in [Workers -> Labels] /\ pc'["transmission"] = ("top")
      /\ \A v \in Workers : v # "transmission" => pc'[v] = pc[v]
  BY <1>1, TheWorkers, Moved DEF SendWrite, Step, Labels
<1>4. /\ Len(sendHand) = 1 /\ PacketRun(req, sendHand, Len(sent)) /\ PacketRun(req, sent, 0)
      /\ sendHand \in Seq(Packets) /\ sent \in Seq(Packets)
  BY <1>1, <1>2 DEF HandsInv, PlacesInv, TypeOK, WireOK
<1>5. /\ sent' \in Seq(Packets) /\ Len(sent') = Len(sent) + 1 /\ PacketRun(req, sent', 0)
  <2>1. sent \o sendHand \in Seq(Packets) /\ Len(sent \o sendHand) = Len(sent) + 1
    <3>1. /\ sent \o sendHand \in Seq(Packets)
          /\ Len(sent \o sendHand) = Len(sent) + Len(sendHand)
      BY <1>4, ConcatProperties
    <3>2. QED
      BY <3>1, <1>4
  <2>2. 0 + Len(sent) = Len(sent)
    BY <1>4
  <2>3. PacketRun(req, sent \o sendHand, 0)
    BY <1>4, <2>2, PacketRunConcat
  <2>4. QED
    BY <1>2, <2>1, <2>3
<1>6. WireOK'
  BY <1>1, <1>2, <1>5 DEF TypeOK, WireOK
<1>7. ContextOK' /\ GivenOK' /\ ChunkerOK' /\ EncryptionOK' /\ QueuesOK'
  BY <1>1, <1>2, <1>3 DEF TypeOK, ContextOK, GivenOK, ChunkerOK, EncryptionOK, QueuesOK
<1>8. PlacesInv'
  <2>1. /\ BeforeEncQueue' = BeforeEncQueue /\ BeforeEncHand' = BeforeEncHand
        /\ BeforeFileQueue' = BeforeFileQueue /\ Len(sendHand') = 0
    BY <1>2, <1>4, <1>5 DEF BeforeEncQueue, BeforeEncHand, BeforeFileQueue
  <2>2. PacketRun(req, sendHand', Len(sent'))
    BY <2>1 DEF PacketRun
  <2>3. QED
    BY <1>1, <1>2, <1>3, <1>5, <2>1, <2>2, TheWorkers DEF PlacesInv
<1>9. ChunkerInv'
  BY <1>1, <1>2, <1>3, TheWorkers DEF PcInv, ChunkerInv
<1>10. HandsInv'
  BY <1>1, <1>2, <1>3, TheWorkers DEF PcInv, HandsInv
<1>11. DoneInv'
  BY <1>1, <1>2, <1>3, TheWorkers DEF PcInv, DoneInv
<1>12. AbortInv'
  BY <1>1, <1>2, <1>3, TheWorkers DEF PcInv, AbortInv
<1>13. PcInv'
  BY <1>1, <1>2, <1>3, TheWorkers DEF PcInv
<1>14. QED
  BY <1>6, <1>7, <1>8, <1>9, <1>10, <1>11, <1>12, <1>13 DEF SendInv, TypeOK

\* An exception moves the transmission thread to its catch clause and nothing else.
LEMMA SendFailsStep == ASSUME SendInv, SendFails PROVE SendInv'
<1>1. TypeOK /\ PcInv /\ PlacesInv /\ ChunkerInv /\ HandsInv /\ DoneInv /\ AbortInv
  BY DEF SendInv
<1>2. /\ pc["transmission"] = "write" /\ faults # {}
      /\ UNCHANGED <<abort, exception, outcome, req, faults, file, unread, buf,
                     bufSize, seq, fileQueue, chunkingDone, encHand, encPos,
                     encQueue, encryptionDone, sendHand, sent, chunksSent>>
  BY DEF SendFails, Throw, Step, At, Goto, MayFail, given, chunkerVars, encVars, wireVars,
         pipeVars
<1>3. /\ pc' \in [Workers -> Labels] /\ pc'["transmission"] = ("catch")
      /\ \A v \in Workers : v # "transmission" => pc'[v] = pc[v]
  BY <1>1, TheWorkers, Moved DEF SendFails, Throw, Step, Labels
<1>4. ContextOK' /\ GivenOK' /\ ChunkerOK' /\ EncryptionOK' /\ QueuesOK' /\ WireOK'
  BY <1>1, <1>2, <1>3 DEF TypeOK, ContextOK, GivenOK, ChunkerOK, EncryptionOK, QueuesOK, WireOK
<1>5. PlacesInv'
  BY <1>1, <1>2, <1>3, TheWorkers DEF PlacesInv, BeforeEncQueue, BeforeEncHand, BeforeFileQueue
<1>6. ChunkerInv'
  BY <1>1, <1>2, <1>3, TheWorkers DEF PcInv, ChunkerInv
<1>7. HandsInv'
  BY <1>1, <1>2, <1>3, TheWorkers DEF PcInv, HandsInv
<1>8. DoneInv'
  BY <1>1, <1>2, <1>3, TheWorkers DEF PcInv, DoneInv
<1>9. AbortInv'
  BY <1>1, <1>2, <1>3, TheWorkers DEF PcInv, AbortInv
<1>10. PcInv'
  BY <1>1, <1>2, <1>3, TheWorkers DEF PcInv
<1>11. QED
  BY <1>4, <1>5, <1>6, <1>7, <1>8, <1>9, <1>10 DEF SendInv, TypeOK

\* The progress thread touches nothing the others use.
LEMMA ProgressStep == ASSUME SendInv, Progress PROVE SendInv'
<1>1. TypeOK /\ PcInv /\ PlacesInv /\ ChunkerInv /\ HandsInv /\ DoneInv /\ AbortInv
  BY DEF SendInv
<1>2. /\ pc["progress"] = "top"
      /\ UNCHANGED <<abort, exception, outcome, req, faults, file, unread, buf,
                     bufSize, seq, fileQueue, chunkingDone, encHand, encPos,
                     encQueue, encryptionDone, sendHand, sent, chunksSent>>
  BY DEF Progress, Turn, Step, At, Goto, ProgressOver, given, chunkerVars, encVars, wireVars,
         pipeVars
<1>3. /\ pc' \in [Workers -> Labels] /\ pc'["progress"] = ("exit")
      /\ \A v \in Workers : v # "progress" => pc'[v] = pc[v]
  BY <1>1, TheWorkers, Moved DEF Progress, Turn, Step, Labels
<1>4. ContextOK' /\ GivenOK' /\ ChunkerOK' /\ EncryptionOK' /\ QueuesOK' /\ WireOK'
  BY <1>1, <1>2, <1>3 DEF TypeOK, ContextOK, GivenOK, ChunkerOK, EncryptionOK, QueuesOK, WireOK
<1>5. PlacesInv'
  BY <1>1, <1>2, <1>3, TheWorkers DEF PlacesInv, BeforeEncQueue, BeforeEncHand, BeforeFileQueue
<1>6. ChunkerInv'
  BY <1>1, <1>2, <1>3, TheWorkers DEF PcInv, ChunkerInv
<1>7. HandsInv'
  BY <1>1, <1>2, <1>3, TheWorkers DEF PcInv, HandsInv
<1>8. DoneInv'
  BY <1>1, <1>2, <1>3, TheWorkers DEF PcInv, DoneInv
<1>9. AbortInv'
  BY <1>1, <1>2, <1>3, TheWorkers DEF PcInv, AbortInv
<1>10. PcInv'
  BY <1>1, <1>2, <1>3, TheWorkers DEF PcInv
<1>11. QED
  BY <1>4, <1>5, <1>6, <1>7, <1>8, <1>9, <1>10 DEF SendInv, TypeOK

\* handle_exception: the flag first, then the exception under the mutex.
LEMMA HandleExceptionStep ==
    ASSUME SendInv, NEW w \in Workers, HandleException(w) PROVE SendInv'
<1>1. TypeOK /\ PcInv /\ PlacesInv /\ ChunkerInv /\ HandsInv /\ DoneInv /\ AbortInv
  BY DEF SendInv
<1>2. /\ UNCHANGED outcome
      /\ UNCHANGED <<req, faults, file, unread, buf, bufSize, seq, fileQueue,
                     chunkingDone, encHand, encPos, encQueue, encryptionDone,
                     sendHand, sent, chunksSent>>
  BY DEF HandleException, RaiseAbort, RecordException, given, chunkerVars, encVars, wireVars,
         pipeVars
<1>3. CASE RaiseAbort(w)
  <2>1. pc[w] = "catch" /\ abort' = TRUE /\ exception' = exception
    BY <1>3 DEF RaiseAbort, At
  <2>2. /\ pc' \in [Workers -> Labels] /\ pc'[w] = "record"
        /\ \A v \in Workers : v # w => pc'[v] = pc[v]
    BY <1>1, <1>3, Moved DEF RaiseAbort, Labels
  <2>3. ContextOK' /\ GivenOK' /\ ChunkerOK' /\ EncryptionOK' /\ QueuesOK' /\ WireOK'
    BY <1>1, <1>2, <2>1, <2>2
    DEF TypeOK, ContextOK, GivenOK, ChunkerOK, EncryptionOK, QueuesOK, WireOK
  <2>4. pc'["encryption"] = "push" <=> pc["encryption"] = "push"
    BY <2>1, <2>2, TheWorkers
  <2>5. PlacesInv'
    BY <1>1, <1>2, <2>4 DEF PlacesInv, BeforeEncQueue, BeforeEncHand, BeforeFileQueue
  <2>6. ChunkerInv'
    BY <1>1, <1>2, <2>1, <2>2, TheWorkers DEF ChunkerInv
  <2>7. HandsInv'
    BY <1>1, <1>2, <2>1, <2>2, TheWorkers DEF HandsInv
  <2>8. DoneInv'
    BY <2>1 DEF DoneInv
  <2>9. AbortInv'
    BY <1>1, <1>2, <2>1, <2>2 DEF AbortInv
  <2>10. PcInv'
    BY <1>1, <2>1, <2>2, TheWorkers DEF PcInv
  <2>11. QED
    BY <2>3, <2>5, <2>6, <2>7, <2>8, <2>9, <2>10 DEF SendInv, TypeOK
<1>4. CASE RecordException(w)
  <2>1. /\ pc[w] = "record" /\ abort' = abort
        /\ exception' = IF exception = "none" THEN w ELSE exception
    BY <1>4 DEF RecordException, At
  <2>2. /\ pc' \in [Workers -> Labels] /\ pc'[w] = "exit"
        /\ \A v \in Workers : v # w => pc'[v] = pc[v]
    BY <1>1, <1>4, Moved DEF RecordException, Labels
  <2>3. abort /\ exception' \in Workers /\ exception' # "none" /\ outcome = "running"
    <3>1. abort /\ (outcome # "running" => pc[w] = "exit")
      BY <1>1, <2>1 DEF AbortInv
    <3>2. exception \in Workers \cup {"none"} /\ "none" \notin Workers
      BY <1>1, TheWorkers DEF TypeOK, ContextOK
    <3>3. QED
      BY <2>1, <3>1, <3>2
  <2>4. ContextOK' /\ GivenOK' /\ ChunkerOK' /\ EncryptionOK' /\ QueuesOK' /\ WireOK'
    BY <1>1, <1>2, <2>1, <2>2, <2>3
    DEF TypeOK, ContextOK, GivenOK, ChunkerOK, EncryptionOK, QueuesOK, WireOK
  <2>5. pc'["encryption"] = "push" <=> pc["encryption"] = "push"
    BY <2>1, <2>2, TheWorkers
  <2>6. PlacesInv'
    BY <1>1, <1>2, <2>5 DEF PlacesInv, BeforeEncQueue, BeforeEncHand, BeforeFileQueue
  <2>7. ChunkerInv'
    BY <1>1, <1>2, <2>1, <2>2, TheWorkers DEF ChunkerInv
  <2>8. HandsInv'
    BY <1>1, <1>2, <2>1, <2>2, TheWorkers DEF HandsInv
  <2>9. DoneInv'
    BY <2>1, <2>3 DEF DoneInv
  <2>10. AbortInv'
    BY <1>1, <1>2, <2>1, <2>2, <2>3 DEF AbortInv
  <2>11. PcInv'
    BY <1>1, <2>1, <2>2, TheWorkers DEF PcInv
  <2>12. QED
    BY <2>4, <2>6, <2>7, <2>8, <2>9, <2>10, <2>11 DEF SendInv, TypeOK
<1>5. QED
  BY <1>3, <1>4 DEF HandleException

\* The joins and the verdict of the main thread.
LEMMA MainStep == ASSUME SendInv, Main PROVE SendInv'
<1>1. TypeOK /\ PcInv /\ PlacesInv /\ ChunkerInv /\ HandsInv /\ DoneInv /\ AbortInv
  BY DEF SendInv
<1>2. /\ \A w \in Workers : pc[w] = "exit"
      /\ outcome' = IF exception = "none" THEN "complete" ELSE "failed"
      /\ UNCHANGED <<pc, abort, exception>>
      /\ UNCHANGED <<req, faults, file, unread, buf, bufSize, seq, fileQueue,
                     chunkingDone, encHand, encPos, encQueue, encryptionDone,
                     sendHand, sent, chunksSent>>
  BY DEF Main, Join, Report, At, given, chunkerVars, encVars, wireVars, pipeVars
<1>3. ContextOK' /\ GivenOK' /\ ChunkerOK' /\ EncryptionOK' /\ QueuesOK' /\ WireOK'
  BY <1>1, <1>2 DEF TypeOK, ContextOK, GivenOK, ChunkerOK, EncryptionOK, QueuesOK, WireOK
<1>4. PlacesInv' /\ ChunkerInv' /\ HandsInv' /\ DoneInv' /\ PcInv'
  <2>1. PlacesInv'
    BY <1>1, <1>2 DEF PlacesInv, BeforeEncQueue, BeforeEncHand, BeforeFileQueue
  <2>2. ChunkerInv'
    BY <1>1, <1>2 DEF ChunkerInv
  <2>3. HandsInv' /\ DoneInv' /\ PcInv'
    BY <1>1, <1>2 DEF HandsInv, DoneInv, PcInv
  <2>4. QED
    BY <2>1, <2>2, <2>3
<1>5. AbortInv'
  BY <1>1, <1>2 DEF AbortInv
<1>6. QED
  BY <1>3, <1>4, <1>5 DEF SendInv, TypeOK

\* Before the threads start nothing has been read, queued or sent.
LEMMA InitStep == ASSUME Init PROVE SendInv
<1>1. /\ pc = [w \in Workers |-> IF w = "chunker" THEN "file" ELSE "top"]
      /\ abort = FALSE /\ exception = "none" /\ outcome = "running"
      /\ file = 0 /\ unread = 0 /\ buf = <<>> /\ bufSize = req.chunk /\ seq = 1
      /\ fileQueue = <<>> /\ chunkingDone = FALSE
      /\ encHand = <<>> /\ encPos = 0 /\ encQueue = <<>> /\ encryptionDone = FALSE
      /\ sendHand = <<>> /\ sent = <<>> /\ chunksSent = 0
  BY DEF Init, ContextInit
<1>2. GivenOK
  BY DEF Init, GivenOK
<1>3. /\ pc \in [Workers -> Labels] /\ pc["chunker"] = "file"
      /\ \A w \in Workers : w # "chunker" => pc[w] = "top"
  BY <1>1, TheWorkers DEF Labels
<1>4. /\ req.files \in Nat \ {0} /\ req.ends[0] = 0 /\ req.num \in Nat \ {0}
      /\ req.chunk \in Nat \ {0} /\ Base(req, 1) = 0 /\ BufferSize(req, 1) = req.chunk
  BY <1>2, TheRequest
<1>5. TypeOK
  <2>1. ContextOK /\ QueuesOK /\ WireOK /\ EncryptionOK
    <3>1. ContextOK
      BY <1>1, <1>3 DEF ContextOK
    <3>2. /\ <<>> \in Seq(Chunks) /\ <<>> \in Seq(Packets) /\ <<>> \in Seq(Chunks \cup Packets)
          /\ Len(<<>>) = 0
      OBVIOUS
    <3>3. 0 <= Capacity
      BY SendAssumption
    <3>4. fileQueue \in Seq(Chunks) /\ Len(fileQueue) = 0
      BY <1>1, <3>2
    <3>5. encQueue \in Seq(Packets) /\ Len(encQueue) = 0
      BY <1>1, <3>2
    <3>6. encHand \in Seq(Chunks \cup Packets) /\ Len(encHand) = 0
      BY <1>1, <3>2
    <3>7. sendHand \in Seq(Packets) /\ Len(sendHand) = 0 /\ sent \in Seq(Packets)
      BY <1>1, <3>2
    <3>8. encPos \in Nat /\ chunksSent \in Nat /\ 0 <= 1 /\ encryptionDone \in BOOLEAN
      <4>1. encPos \in Nat /\ chunksSent \in Nat /\ 0 <= 1
        BY <1>1
      <4>2. encryptionDone \in BOOLEAN
        BY <1>1, Zenon
      <4>3. QED
        BY <4>1, <4>2
    <3>9. QED
      BY <3>1, <3>3, <3>4, <3>5, <3>6, <3>7, <3>8 DEF QueuesOK, WireOK, EncryptionOK
  <2>2. ChunkerOK
    <3>1. buf \in Seq(Nat) /\ Len(buf) = 0
      BY <1>1
    <3>2. /\ file \in 0..req.files /\ unread \in Nat /\ bufSize \in Nat
          /\ seq \in Nat \ {0} /\ 0 <= bufSize
      BY <1>1, <1>4
    <3>3. chunkingDone \in BOOLEAN
      BY <1>1, Zenon
    <3>4. QED
      BY <3>1, <3>2, <3>3 DEF ChunkerOK
  <2>3. QED
    BY <1>2, <2>1, <2>2 DEF TypeOK
<1>6. PcInv
  BY <1>3, TheWorkers DEF PcInv
<1>7. PlacesInv
  BY <1>1, <1>3, TheWorkers
  DEF PlacesInv, BeforeEncQueue, BeforeEncHand, BeforeFileQueue, PacketRun, ChunkRun
<1>8. ChunkerInv
  <2>1. buf = [j \in 1..Len(buf) |-> Base(req, seq) + j]
    BY <1>1
  <2>2. QED
    BY <1>1, <1>3, <1>4, <2>1 DEF ChunkerInv
<1>9. HandsInv /\ DoneInv /\ AbortInv
  BY <1>1, <1>3, TheWorkers DEF HandsInv, DoneInv, AbortInv
<1>10. QED
  BY <1>5, <1>6, <1>7, <1>8, <1>9 DEF SendInv

\* A step of somebody else.
LEMMA StutterStep == ASSUME SendInv, UNCHANGED vars PROVE SendInv'
<1>1. TypeOK /\ PcInv /\ PlacesInv /\ ChunkerInv /\ HandsInv /\ DoneInv /\ AbortInv
  BY DEF SendInv
<1>2. UNCHANGED <<pc, abort, exception, outcome>>
  BY DEF vars, contextVars
<1>3. UNCHANGED <<req, faults, file, unread, buf, bufSize, seq, fileQueue,
                  chunkingDone, encHand, encPos, encQueue, encryptionDone,
                  sendHand, sent, chunksSent>>
  BY DEF vars, contextVars, given, chunkerVars, encVars, wireVars, pipeVars
<1>4. ContextOK' /\ GivenOK' /\ ChunkerOK' /\ EncryptionOK' /\ QueuesOK' /\ WireOK'
  BY <1>1, <1>2, <1>3 DEF TypeOK, ContextOK, GivenOK, ChunkerOK, EncryptionOK, QueuesOK, WireOK
<1>5. PlacesInv' /\ ChunkerInv'
  BY <1>1, <1>2, <1>3
  DEF PlacesInv, BeforeEncQueue, BeforeEncHand, BeforeFileQueue, ChunkerInv
<1>6. HandsInv' /\ DoneInv' /\ PcInv' /\ AbortInv'
  BY <1>1, <1>2, <1>3 DEF HandsInv, DoneInv, PcInv, AbortInv
<1>7. QED
  BY <1>4, <1>5, <1>6 DEF SendInv, TypeOK
-----------------------------------------------------------------------------
\* The invariant of SendInvariant holds in every reachable state of send_files,
\* for every request, every set of failing workers and every queue capacity.
THEOREM Invariance == Spec => []SendInv
<1>1. Init => SendInv
  BY InitStep
<1>2. SendInv /\ [Next]_vars => SendInv'
  <2> SUFFICES ASSUME SendInv, [Next]_vars PROVE SendInv'
    OBVIOUS
  <2>1. CASE Chunker
    BY <2>1, ChunkerEndStep, OpenFileStep, ReadBytesStep, ChunkerFailsStep,
       PushFileChunkStep DEF Chunker
  <2>2. CASE Encryption
    BY <2>2, EncryptTopStep, EncryptPopStep, EncryptPopEmptyStep, EncryptLoadDoneStep,
       EncryptCheckEmptyStep, EncryptChunkStep, EncryptFailsStep, EncryptPushStep
    DEF Encryption
  <2>3. CASE Transmission
    BY <2>3, SendTopStep, SendPopStep, SendPopEmptyStep, SendLoadDoneStep,
       SendCheckEmptyStep, SendWriteStep, SendFailsStep DEF Transmission
  <2>4. CASE Progress
    BY <2>4, ProgressStep
  <2>5. CASE Main
    BY <2>5, MainStep
  <2>6. CASE \E w \in Workers : HandleException(w)
    BY <2>6, HandleExceptionStep
  <2>7. CASE UNCHANGED vars
    BY <2>7, StutterStep
  <2>8. QED
    BY <2>1, <2>2, <2>3, <2>4, <2>5, <2>6, <2>7 DEF Next
<1>3. QED
  BY <1>1, <1>2, PTL DEF Spec

\* The queues never hold more than QUEUE_CAPACITY chunks, a thread never more
\* than one, and every variable keeps its type.
THEOREM TypeCorrect == Spec => []TypeOK
<1>1. SendInv => TypeOK
  BY DEF SendInv
<1>2. QED
  BY <1>1, Invariance, PTL

\* send_chunks puts on the wire the packets the receiver expects: the messages
\* of the stream in order, each with its chunk, only the last tagged final.
THEOREM WireCorrect == Spec => []WireMatchesRequest
<1>1. SendInv => WireMatchesRequest
  <2> SUFFICES ASSUME SendInv, NEW i \in 1..Len(sent) PROVE sent[i] = Packet(req, i)
    BY DEF WireMatchesRequest
  <2>1. sent[i] = Packet(req, 0 + i)
    BY DEF SendInv, PlacesInv, PacketRun
  <2>2. 0 + i = i
    OBVIOUS
  <2>3. QED
    BY <2>1, <2>2
<1>2. QED
  BY <1>1, Invariance, PTL

\* When all threads have ended without an exception, everything is on the wire.
LEMMA AllThrough ==
    ASSUME SendInv, exception = "none", \A w \in Workers : pc[w] = "exit"
    PROVE  Len(sent) = req.num /\ chunksSent = req.num /\ ~abort
<1>1. ~abort
  BY TheWorkers DEF SendInv, AbortInv
<1>2. /\ seq = req.num + 1 /\ fileQueue = <<>> /\ encHand = <<>> /\ encQueue = <<>>
      /\ sendHand = <<>>
  BY <1>1, TheWorkers DEF SendInv, DoneInv
<1>3. /\ req.num \in Nat /\ Len(sent) \in Nat
      /\ seq = BeforeFileQueue + Len(fileQueue) + 1 /\ chunksSent = Len(sent)
  BY TheRequest DEF SendInv, TypeOK, WireOK, PlacesInv
<1>4. seq = Len(sent) + 1
  BY <1>2, <1>3 DEF BeforeFileQueue, BeforeEncHand, BeforeEncQueue
<1>5. QED
  BY <1>1, <1>2, <1>3, <1>4

\* "Files sent, transfer complete!" is printed, and the staging area cleared,
\* only after every chunk has been written.
THEOREM CompleteSafe == Spec => []CompleteMeansAllSent
<1>1. SendInv => CompleteMeansAllSent
  <2> SUFFICES ASSUME SendInv, outcome = "complete"
               PROVE  /\ Len(sent) = req.num /\ chunksSent = req.num
                      /\ ~abort /\ exception = "none"
    BY DEF CompleteMeansAllSent
  <2>1. exception = "none" /\ \A w \in Workers : pc[w] = "exit"
    BY DEF SendInv, AbortInv
  <2>2. QED
    BY <2>1, AllThrough
<1>2. QED
  BY <1>1, Invariance, PTL

\* Without an error of the file system or of the network no worker throws:
\* every chunk that is cut passes the checks of encrypt_chunk.
THEOREM NoSpurious == Spec => []NoSpuriousFailure
<1>1. SendInv => NoSpuriousFailure
  BY DEF SendInv, AbortInv, NoSpuriousFailure
<1>2. QED
  BY <1>1, Invariance, PTL

\* q holds chunks k + 1, k + 2, ... of the transfer, encrypted or not.
InOrder(r, q, k) ==
    \A i \in 1..Len(q) : q[i].seq = k + i /\ q[i].data = ChunkData(r, k + i)

\* Two runs, the second starting where the first ends, are one run.
LEMMA InOrderConcat ==
    ASSUME NEW S, NEW r, NEW q \in Seq(S), NEW h \in Seq(S), NEW k \in Nat,
           InOrder(r, q, k), InOrder(r, h, k + Len(q))
    PROVE  /\ q \o h \in Seq(S) /\ Len(q \o h) = Len(q) + Len(h)
           /\ InOrder(r, q \o h, k)
<1>1. /\ q \o h \in Seq(S) /\ Len(q \o h) = Len(q) + Len(h)
      /\ \A i \in 1..(Len(q) + Len(h)) :
            (q \o h)[i] = IF i <= Len(q) THEN q[i] ELSE h[i - Len(q)]
  BY ConcatProperties
<1>2. ASSUME NEW i \in 1..(Len(q) + Len(h))
      PROVE  (q \o h)[i].seq = k + i /\ (q \o h)[i].data = ChunkData(r, k + i)
  <2>1. CASE i <= Len(q)
    <3>1. i \in 1..Len(q) /\ (q \o h)[i] = q[i]
      BY <1>1, <2>1
    <3>2. QED
      BY <3>1 DEF InOrder
  <2>2. CASE ~(i <= Len(q))
    <3>1. /\ i - Len(q) \in 1..Len(h) /\ (q \o h)[i] = h[i - Len(q)]
          /\ k + Len(q) + (i - Len(q)) = k + i
      BY <1>1, <2>2
    <3>2. /\ h[i - Len(q)].seq = k + Len(q) + (i - Len(q))
          /\ h[i - Len(q)].data = ChunkData(r, k + Len(q) + (i - Len(q)))
      BY <3>1 DEF InOrder
    <3>3. QED
      BY <3>1, <3>2
  <2>3. QED
    BY <2>1, <2>2
<1>3. QED
  BY <1>1, <1>2 DEF InOrder

\* Chunks and packets carry the same number and data.
LEMMA RunsInOrder ==
    ASSUME NEW r, NEW q, NEW k, ChunkRun(r, q, k) \/ PacketRun(r, q, k)
    PROVE  InOrder(r, q, k)
<1>1. ASSUME NEW i \in 1..Len(q), q[i] = Chunk(r, k + i) \/ q[i] = Packet(r, k + i)
      PROVE  q[i].seq = k + i /\ q[i].data = ChunkData(r, k + i)
  <2>1. Chunk(r, k + i).seq = k + i /\ Chunk(r, k + i).data = ChunkData(r, k + i)
    BY DEF Chunk
  <2>2. Packet(r, k + i).seq = k + i /\ Packet(r, k + i).data = ChunkData(r, k + i)
    BY DEF Packet
  <2>3. QED
    BY <1>1, <2>1, <2>2
<1>2. QED
  BY <1>1 DEF ChunkRun, PacketRun, InOrder

\* The hand-overs between the threads lose, repeat and reorder nothing: what
\* has been cut is on the wire or in the pipeline, in the order of the stream.
THEOREM StreamCorrect == Spec => []StreamInOrder
<1>1. SendInv => StreamInOrder
  <2> SUFFICES ASSUME SendInv PROVE StreamInOrder
    OBVIOUS
  <2> DEFINE S  == Chunks \cup Packets
             q1 == sent \o sendHand
             q2 == q1 \o encQueue
             q3 == q2 \o encHand
             q4 == q3 \o fileQueue
  <2>1. /\ sent \in Seq(S) /\ sendHand \in Seq(S) /\ encQueue \in Seq(S)
        /\ encHand \in Seq(S) /\ fileQueue \in Seq(S)
    BY DEF SendInv, TypeOK, WireOK, QueuesOK, EncryptionOK
  <2>2. /\ InOrder(req, sent, 0) /\ InOrder(req, sendHand, Len(sent))
        /\ InOrder(req, encQueue, BeforeEncQueue) /\ InOrder(req, encHand, BeforeEncHand)
        /\ InOrder(req, fileQueue, BeforeFileQueue)
        /\ seq = BeforeFileQueue + Len(fileQueue) + 1
    BY RunsInOrder DEF SendInv, PlacesInv
  <2> HIDE DEF S, q2, q3, q4
  <2>3. /\ Len(sent) \in Nat /\ Len(sendHand) \in Nat /\ Len(encQueue) \in Nat
        /\ Len(encHand) \in Nat /\ Len(fileQueue) \in Nat
    BY <2>1
  <2>4. q1 \in Seq(S) /\ Len(q1) = BeforeEncQueue /\ InOrder(req, q1, 0)
    <3>1. 0 + Len(sent) = Len(sent)
      BY <2>3
    <3>2. InOrder(req, sendHand, 0 + Len(sent))
      BY <2>2, <3>1
    <3>3. QED
      BY <2>1, <2>2, <3>2, InOrderConcat DEF BeforeEncQueue
  <2> HIDE DEF q1
  <2> USE DEF q2
  <2>5. q2 \in Seq(S) /\ Len(q2) = BeforeEncHand /\ InOrder(req, q2, 0)
    <3>1. 0 + Len(q1) = BeforeEncQueue
      BY <2>3, <2>4 DEF BeforeEncQueue
    <3>2. InOrder(req, encQueue, 0 + Len(q1))
      BY <2>2, <3>1
    <3>3. /\ q1 \o encQueue \in Seq(S) /\ Len(q1 \o encQueue) = Len(q1) + Len(encQueue)
          /\ InOrder(req, q1 \o encQueue, 0)
      BY <2>1, <2>4, <3>2, InOrderConcat
    <3>4. QED
      BY <2>4, <3>3 DEF BeforeEncHand
  <2> HIDE DEF q2
  <2> USE DEF q3
  <2>6. q3 \in Seq(S) /\ Len(q3) = BeforeFileQueue /\ InOrder(req, q3, 0)
    <3>1. 0 + Len(q2) = BeforeEncHand
      BY <2>3, <2>5 DEF BeforeEncQueue, BeforeEncHand
    <3>2. InOrder(req, encHand, 0 + Len(q2))
      BY <2>2, <3>1
    <3>3. /\ q2 \o encHand \in Seq(S) /\ Len(q2 \o encHand) = Len(q2) + Len(encHand)
          /\ InOrder(req, q2 \o encHand, 0)
      BY <2>1, <2>5, <3>2, InOrderConcat
    <3>4. QED
      BY <2>5, <3>3 DEF BeforeFileQueue
  <2> HIDE DEF q3
  <2> USE DEF q4
  <2>7. Len(q4) = BeforeFileQueue + Len(fileQueue) /\ InOrder(req, q4, 0)
    <3>1. 0 + Len(q3) = BeforeFileQueue
      BY <2>3, <2>6 DEF BeforeEncQueue, BeforeEncHand, BeforeFileQueue
    <3>2. InOrder(req, fileQueue, 0 + Len(q3))
      BY <2>2, <3>1
    <3>3. /\ q3 \o fileQueue \in Seq(S) /\ Len(q3 \o fileQueue) = Len(q3) + Len(fileQueue)
          /\ InOrder(req, q3 \o fileQueue, 0)
      BY <2>1, <2>6, <3>2, InOrderConcat
    <3>4. QED
      BY <2>6, <3>3
  <2>8. q4 = InFlight
    BY DEF InFlight, q1, q2, q3
  <2> HIDE DEF q4
  <2>9. Len(InFlight) = seq - 1
    BY <2>2, <2>3, <2>7, <2>8 DEF BeforeEncQueue, BeforeEncHand, BeforeFileQueue
  <2>10. ASSUME NEW i \in 1..Len(InFlight)
         PROVE  InFlight[i].seq = i /\ InFlight[i].data = ChunkData(req, i)
    <3>1. 0 + i = i
      OBVIOUS
    <3>2. QED
      BY <2>7, <2>8, <3>1 DEF InOrder
  <2>11. QED
    BY <2>9, <2>10 DEF StreamInOrder
<1>2. QED
  BY <1>1, Invariance, PTL

-----------------------------------------------------------------------------
\* Only a write to the socket and the end change what FileSender speaks of.
LEMMA QuietSteps ==
    ASSUME Next, ~SendWrite, ~Main PROVE UNCHANGED <<req, sent, outcome>>
<1> USE DEF Step, Turn, Throw, given, chunkerVars, encVars, wireVars, pipeVars
<1>1. CASE Chunker
  BY <1>1 DEF Chunker, ChunkerEnd, OpenFile, ReadBytes, ChunkerFails, PushFileChunk,
              beyondChunker
<1>2. CASE Encryption
  BY <1>2 DEF Encryption, EncryptTop, EncryptPop, EncryptPopEmpty, EncryptLoadDone,
              EncryptCheckEmpty, EncryptChunk, EncryptFails, EncryptPush, beyondEncryption
<1>3. CASE Transmission
  BY <1>3 DEF Transmission, SendTop, SendPop, SendPopEmpty, SendLoadDone, SendCheckEmpty,
              SendFails, beyondTransmission
<1>4. CASE Progress
  BY <1>4 DEF Progress
<1>5. CASE \E w \in Workers : HandleException(w)
  BY <1>5 DEF HandleException, RaiseAbort, RecordException
<1>6. QED
  BY <1>1, <1>2, <1>3, <1>4, <1>5 DEF Next

\* A write puts the next packet of the plan on the wire.
LEMMA WriteIsSend == ASSUME SendInv, SendWrite PROVE Promise!Send
<1> DEFINE plan == [i \in 1..req.num |-> Packet(req, i)]
<1>1. /\ pc["transmission"] = "write" /\ UNCHANGED <<req, outcome>>
      /\ sent' = sent \o sendHand
  BY DEF SendWrite, Step, At, beyondTransmission, given
<1>2. outcome = "running"
  BY <1>1, TheWorkers DEF SendInv, AbortInv
<1>3. /\ Len(sendHand) = 1 /\ sendHand \in Seq(Packets) /\ sent \in Seq(Packets)
      /\ PacketRun(req, sendHand, Len(sent)) /\ req.num \in Nat
  BY <1>1, TheRequest DEF SendInv, TypeOK, HandsInv, PlacesInv, WireOK
<1>4. sendHand[1] = Packet(req, Len(sent) + 1) /\ sendHand = <<sendHand[1]>>
      /\ sendHand[1] \in Packets
  <2>1. 1 \in 1..Len(sendHand)
    BY <1>3
  <2>2. sendHand[1] = Packet(req, Len(sent) + 1)
    BY <1>3, <2>1 DEF PacketRun
  <2>3. sendHand[1] \in Packets
    BY <1>3, <2>1, LenProperties
  <2>4. sendHand = <<sendHand[1]>>
    BY <1>3, <2>3, SeqEqual
  <2>5. QED
    BY <2>2, <2>3, <2>4
<1>5. Len(sent) < req.num
  <2>1. /\ Len(encQueue) \in Nat /\ Len(encHand) \in Nat /\ Len(fileQueue) \in Nat
        /\ seq = BeforeFileQueue + Len(fileQueue) + 1 /\ seq <= req.num + 1
        /\ Len(sent) \in Nat
    BY <1>3 DEF SendInv, TypeOK, QueuesOK, EncryptionOK, PlacesInv, ChunkerInv
  <2>2. QED
    BY <1>3, <2>1 DEF BeforeFileQueue, BeforeEncHand, BeforeEncQueue
<1>6. Len(plan) = req.num /\ plan[Len(sent) + 1] = Packet(req, Len(sent) + 1)
  BY <1>3, <1>5
<1>7. sent' = Append(sent, plan[Len(sent) + 1])
  BY <1>1, <1>3, <1>4, <1>6, AppendIsConcat
<1>8. plan' = plan
  BY <1>1 DEF Packet
<1>9. QED
  BY <1>1, <1>2, <1>5, <1>6, <1>7, <1>8 DEF Promise!Send

\* The end of send_files reports what FileSender allows to report.
LEMMA MainIsEnd == ASSUME SendInv, Main PROVE Promise!Finish \/ Promise!Fail
<1> DEFINE plan == [i \in 1..req.num |-> Packet(req, i)]
<1>1. /\ outcome = "running" /\ outcome' = Report /\ \A w \in Workers : pc[w] = "exit"
      /\ UNCHANGED <<req, sent>>
  BY DEF Main, Join, At, given, wireVars, pipeVars
<1>2. plan' = plan
  BY <1>1 DEF Packet
<1>3. CASE exception = "none"
  <2>1. Len(sent) = req.num /\ req.num \in Nat \ {0} /\ sent \in Seq(Packets)
    BY <1>1, <1>3, AllThrough, TheRequest DEF SendInv, TypeOK, WireOK
  <2>2. \A i \in 1..req.num : sent[i] = plan[i]
    <3>1. ASSUME NEW i \in 1..req.num PROVE sent[i] = Packet(req, 0 + i) /\ 0 + i = i
      BY <2>1 DEF SendInv, PlacesInv, PacketRun
    <3>2. QED
      BY <3>1
  <2>3. plan = sent
    <3>1. /\ sent = [i \in DOMAIN sent |-> sent[i]] /\ DOMAIN sent = 1..req.num
          /\ plan = [i \in 1..req.num |-> plan[i]]
      BY <2>1
    <3>2. QED
      BY <2>2, <3>1, Zenon
  <2>4. plan # <<>>
    BY <2>1, <2>3
  <2>5. QED
    BY <1>1, <1>2, <1>3, <2>3, <2>4 DEF Promise!Finish, Report
<1>4. CASE exception # "none"
  BY <1>1, <1>2, <1>4 DEF Promise!Fail, Report
<1>5. QED
  BY <1>3, <1>4

\* Whatever the request, the capacity and the failures, the four threads together
\* do what FileSender, which knows neither threads nor queues, promises.
THEOREM Refinement == Spec => KeepsPromise
<1>1. Init => Promise!Init
  BY DEF Init, ContextInit, Promise!Init
<1>2. SendInv /\ [Next]_vars => [Promise!Next]_(Promise!senderVars)
  <2> SUFFICES ASSUME SendInv, [Next]_vars PROVE [Promise!Next]_(Promise!senderVars)
    OBVIOUS
  <2>1. CASE SendWrite
    BY <2>1, WriteIsSend DEF Promise!Next
  <2>2. CASE Main
    BY <2>2, MainIsEnd DEF Promise!Next
  <2>3. CASE UNCHANGED <<req, sent, outcome>>
    BY <2>3 DEF Promise!senderVars, Packet
  <2>4. CASE UNCHANGED vars
    BY <2>3, <2>4 DEF vars, contextVars, pipeVars, given, wireVars
  <2>5. QED
    BY <2>1, <2>2, <2>3, <2>4, QuietSteps
<1>3. QED
  BY <1>1, <1>2, Invariance, PTL DEF Spec, KeepsPromise, Promise!Spec
=============================================================================
