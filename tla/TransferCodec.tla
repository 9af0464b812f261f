---------------------------- MODULE TransferCodec ----------------------------
(***************************************************************************)
(* TransferRequest: how it is made from the staged paths, written into a     *)
(* buffer and read from one. A buffer is a sequence of bytes; a byte has     *)
(* Radix values, and the integer types have Short, Wide and Long bytes (2, 4 *)
(* and 8 in the code, with a radix of 256).                                  *)
(***************************************************************************)
EXTENDS TransferPlan, SequencesExt

CONSTANTS Radix, Short, Wide, Long,   \* uint16_t, uint32_t, uint64_t
          Thrown                      \* what a call that throws returns

\* How many values an integer of n bytes has.
Values[n \in 0..Long] == IF n = 0 THEN 1 ELSE Radix * Values[n - 1]

ASSUME CodecAssumption ==
    /\ Radix \in Nat \ {0, 1} /\ Long \in Nat /\ {Short, Wide} \subseteq 0..Long
    /\ CounterRange = Values[Wide] /\ MaxChunk < Values[Wide]
    /\ MaxChunk * CounterRange <= Values[Long]
    /\ Thrown \notin [rest : Seq(Nat), read : Seq(Seq(Nat))]

\* from_file_paths, for the paths and sizes in the order the set has them.
FromFilePaths(infos) ==
    LET total == FoldLeft(LAMBDA sum, info : (sum + info.size) % Values[Long], 0, infos)
    IN  IF total = 0 THEN Thrown
        ELSE [num_files |-> Len(infos) % CounterRange, transfer_size |-> total,
              chunk_size |-> ChunkSize(total), final_chunk_size |-> FinalChunkSize(total),
              num_chunks |-> NumChunks(total), file_infos |-> infos]

\* utils::serialize of an integer: its bytes, the low one first.
Uint(width, n) == [i \in 1..width |-> (n \div Values[i - 1]) % Radix]
Number(bytes) == FoldRight(LAMBDA byte, n : byte + Radix * n, bytes, 0)

PathFitsWide(path) == Len(path) <= Values[Wide] - 1   \* faulty: the limit of another type
PathFits(path) == Len(path) <= Values[Short] - 1

Serialize(req) ==
    IF \E i \in DOMAIN req.file_infos : ~PathFits(req.file_infos[i].path) THEN Thrown
    ELSE Uint(Wide, req.num_files) \o Uint(Long, req.transfer_size)
         \o Uint(Wide, req.chunk_size) \o Uint(Wide, req.final_chunk_size)
         \o Uint(Wide, req.num_chunks)
         \o FlattenSeq([i \in DOMAIN req.file_infos |->
                LET info == req.file_infos[i] IN
                Uint(Short, Len(info.path)) \o info.path \o Uint(Long, info.size)])

(***************************************************************************)
(* utils::deserialize takes the next bytes from the rest of the buffer, and  *)
(* throws when there are too few. A reader is that rest and what was read.   *)
(***************************************************************************)
Take(reader, size) ==
    IF reader = Thrown \/ Len(reader.rest) < size THEN Thrown
    ELSE [rest |-> SubSeq(reader.rest, size + 1, Len(reader.rest)),
          read |-> Append(reader.read, SubSeq(reader.rest, 1, size))]

TakeInfo(reader, i) ==
    LET length == Take(reader, Short)
        path   == IF length = Thrown THEN Thrown ELSE Take(length, Number(Last(length.read)))
    IN  Take(path, Long)

\* The turns of the loop over the files.
TurnsButLast(num_files) == [i \in 1..num_files - 1 |-> i]   \* faulty
Turns(num_files) == [i \in 1..num_files |-> i]

Deserialize(buffer) ==
    LET start  == [rest |-> buffer, read |-> <<>>]
        header == Take(Take(Take(Take(Take(start, Wide), Long), Wide), Wide), Wide)
        field(i) == Number(header.read[i])
        all    == FoldLeft(TakeInfo, header, Turns(field(1)))
        info(i) == [path |-> all.read[3 * i + 4], size |-> Number(all.read[3 * i + 5])]
    IN  IF header = Thrown THEN Thrown
        ELSE IF all = Thrown THEN Thrown
        ELSE [num_files |-> field(1), transfer_size |-> field(2), chunk_size |-> field(3),
              final_chunk_size |-> field(4), num_chunks |-> field(5),
              file_infos |-> [i \in DOMAIN Turns(field(1)) |-> info(i)]]
=============================================================================
