---------------------------- MODULE TransferPlan ----------------------------
(***************************************************************************)
(* The arithmetic of TransferRequest::from_file_paths: how a transfer of    *)
(* some number of bytes is cut into chunks, and the buffer sizes that the   *)
(* chunker (FileManager::read_files_into_chunks) derives from it.           *)
(*                                                                         *)
(* A byte of the transfer is named by its position, from 1, in the          *)
(* concatenation of the files in the order of the request; a chunk's data   *)
(* is a sequence of such positions.                                         *)
(***************************************************************************)
EXTENDS Integers, Sequences

CONSTANTS MaxChunk,     \* utils::MAX_UNCOMPRESSED_CHUNK_SIZE
          CounterRange  \* 2^32, the range of the uint32_t num_chunks

ASSUME PlanAssumption == MaxChunk \in Nat \ {0} /\ CounterRange \in Nat \ {0}

ChunkSize(total) == IF total < MaxChunk THEN total ELSE MaxChunk

FinalChunkSize(total) == total % ChunkSize(total)

\* Faulty: the division is not rounded up.
NumChunksWhole(total) == (total \div ChunkSize(total)) % CounterRange

NumChunks(total) ==
    ((total + (ChunkSize(total) - 1)) \div ChunkSize(total)) % CounterRange

(***************************************************************************)
(* A layout is what the loop over the staged paths computes: the number of  *)
(* files and, for each f, the sum ends[f] of the sizes of the first f       *)
(* files. from_file_paths refuses a layout without files or without bytes.  *)
(***************************************************************************)
IsLayout(l) ==
    /\ l = [files |-> l.files, ends |-> l.ends]
    /\ l.files \in Nat \ {0}
    /\ l.ends \in [0..l.files -> Nat]
    /\ l.ends[0] = 0
    /\ \A f, g \in 0..l.files : f <= g => l.ends[f] <= l.ends[g]
    /\ l.ends[l.files] > 0

Request(l) ==
    LET total == l.ends[l.files] IN
    [files |-> l.files, ends  |-> l.ends, total |-> total,
     chunk |-> ChunkSize(total), final |-> FinalChunkSize(total),
     num   |-> NumChunks(total)]

FileSize(req, f) == req.ends[f] - req.ends[f - 1]

\* Faulty variant: the buffer is sized before the counter has been advanced.
BufferSizeEarly(req, seq) ==
    IF seq + 1 = req.num /\ req.final # 0 THEN req.final ELSE req.chunk

\* The buffer the chunker allocates for chunk number seq, once it has pushed
\* the one before it.
BufferSize(req, seq) ==
    IF seq = req.num /\ req.final # 0 THEN req.final ELSE req.chunk

-----------------------------------------------------------------------------
(***************************************************************************)
(* Reference: chunk i of n is the i-th run of MaxChunk bytes of the stream,  *)
(* the last one cut where the stream ends.                                  *)
(***************************************************************************)
Least(a, b) == IF a < b THEN a ELSE b

ChunkData(req, i) ==
    [j \in 1..(Least(i * MaxChunk, req.total) - (i - 1) * MaxChunk)
        |-> (i - 1) * MaxChunk + j]

FileData(req, f) == [j \in 1..FileSize(req, f) |-> req.ends[f - 1] + j]

\* Where chunk number s begins in the stream of bytes: after s - 1 chunks of the
\* regular size, or at the end of the stream once all of them are cut.
Base(req, s) == IF s = req.num + 1 THEN req.total ELSE (s - 1) * req.chunk

\* The transfers whose number of chunks fits the counter.
Fits(total) == total <= MaxChunk * (CounterRange - 1)
=============================================================================
