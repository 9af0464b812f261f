------------------------- MODULE TransferPlanProofs -------------------------
(* What the arithmetic of a transfer request guarantees, for every size.     *)
EXTENDS TransferPlan, TLAPS

\* A quotient rounded up: the division of from_file_paths for num_chunks.
LEMMA RoundedUp ==
    ASSUME NEW t \in Nat \ {0}, NEW c \in Nat \ {0},
           NEW n, n = (t + (c - 1)) \div c
    PROVE  /\ n \in Nat \ {0}
           /\ (n - 1) * c < t /\ t <= n * c
<1> DEFINE u == t + (c - 1)
<1>1. u \in Nat /\ u >= c
  OBVIOUS
<1>2. /\ n \in Int /\ u % c \in 0..(c - 1)
      /\ u = c * n + (u % c)
  BY <1>1
<1>3. n >= 1
  <2>1. CASE n <= 0
    <3>1. c * n <= 0
      BY <2>1, <1>2
    <3>2. QED
      BY <3>1, <1>1, <1>2
  <2>2. QED
    BY <2>1, <1>2
<1>4. (n - 1) * c = c * n - c /\ n * c = c * n
  BY <1>2
<1>5. c * n \in Int
  BY <1>2
<1>6. QED
  BY <1>2, <1>3, <1>4, <1>5

\* The remainder tells how far the last of n chunks reaches.
LEMMA LastChunk ==
    ASSUME NEW t \in Nat \ {0}, NEW c \in Nat \ {0}, NEW n \in Nat \ {0},
           (n - 1) * c < t, t <= n * c
    PROVE  IF t % c = 0 THEN t = n * c ELSE t = (n - 1) * c + (t % c)
<1> DEFINE q == t \div c
           r == t % c
<1>1. q \in Int /\ r \in 0..(c - 1) /\ t = c * q + r
  OBVIOUS
<1>2. CASE r = 0
  <2>1. c * q = q * c /\ q * c = t
    BY <1>1, <1>2
  <2>2. (n - 1) * c < q * c /\ q * c <= n * c
    BY <2>1
  <2>3. n - 1 < q /\ q <= n
    BY <2>2, <1>1
  <2>4. q = n
    BY <2>3, <1>1
  <2>5. QED
    BY <2>4, <2>1, <1>2
<1>3. CASE r # 0
  <2>1. c * q = q * c /\ (q + 1) * c = c * q + c
    BY <1>1
  <2>2. q * c < t /\ t < (q + 1) * c
    <3>1. c * q \in Int
      BY <1>1
    <3>2. QED
      BY <1>1, <1>3, <2>1, <3>1
  <2>3. q * c < n * c /\ (n - 1) * c < (q + 1) * c
    <3>1. q * c \in Int /\ n * c \in Int /\ (n - 1) * c \in Int /\ (q + 1) * c \in Int
      BY <1>1
    <3>2. QED
      BY <2>2, <3>1
  <2>4. q < n /\ n - 1 < q + 1
    BY <2>3, <1>1
  <2>5. q = n - 1
    BY <2>4, <1>1
  <2>6. QED
    BY <2>5, <2>1, <1>1, <1>3
<1>4. QED
  BY <1>2, <1>3

\* The fields of a request built from a layout that fits the counter.
LEMMA RequestShape ==
    ASSUME PlanAssumption, NEW l, IsLayout(l), Fits(l.ends[l.files]),
           NEW req, req = Request(l)
    PROVE  /\ req.files \in Nat \ {0} /\ req.ends \in [0..req.files -> Nat]
           /\ req.total \in Nat \ {0} /\ req.total = req.ends[req.files]
           /\ req.ends[0] = 0
           /\ \A f, g \in 0..req.files : f <= g => req.ends[f] <= req.ends[g]
           /\ req.chunk \in Nat \ {0} /\ req.chunk <= MaxChunk
           /\ req.final \in 0..(req.chunk - 1)
           /\ req.num \in Nat \ {0}
           /\ req.num = 1 \/ req.chunk = MaxChunk
           /\ (req.num - 1) * req.chunk < req.total /\ req.total <= req.num * req.chunk
           /\ req.final = req.total % req.chunk
<1> DEFINE t == l.ends[l.files]
           c == ChunkSize(t)
           q == (t + (c - 1)) \div c
<1>1. /\ req.files = l.files /\ req.ends = l.ends /\ req.total = t
      /\ req.chunk = c /\ req.final = FinalChunkSize(t) /\ req.num = NumChunks(t)
  BY DEF Request
<1>2. /\ l.files \in Nat \ {0} /\ l.ends \in [0..l.files -> Nat]
      /\ l.ends[0] = 0 /\ t \in Nat \ {0}
      /\ \A f, g \in 0..l.files : f <= g => l.ends[f] <= l.ends[g]
  BY DEF IsLayout
<1>3. c \in Nat \ {0} /\ c <= MaxChunk /\ c <= t /\ (c = t \/ c = MaxChunk)
  BY <1>2 DEF ChunkSize, PlanAssumption
<1>4. q \in Nat \ {0} /\ (q - 1) * c < t /\ t <= q * c
  BY <1>2, <1>3, RoundedUp
<1>5. q = 1 \/ c = MaxChunk
  <2>1. CASE c = t
    <3>1. (q - 1) * c < 1 * c
      BY <2>1, <1>4, <1>3
    <3>2. q - 1 < 1
      BY <3>1, <1>3, <1>4
    <3>3. QED
      BY <3>2, <1>4
  <2>2. QED
    BY <2>1, <1>3
<1>6. q < CounterRange
  <2>1. t <= MaxChunk * (CounterRange - 1) /\ CounterRange \in Nat \ {0}
    BY DEF Fits, PlanAssumption
  <2>2. CASE q = 1
    <3>1. CounterRange # 1
      BY <2>1, <1>2 DEF PlanAssumption
    <3>2. QED
      BY <3>1, <2>1, <2>2
  <2>3. CASE c = MaxChunk
    <3>1. (q - 1) * c < (CounterRange - 1) * c
      <4>1. MaxChunk * (CounterRange - 1) = (CounterRange - 1) * c
        BY <2>3, <2>1, <1>3
      <4>2. (q - 1) * c \in Int /\ (CounterRange - 1) * c \in Int
        BY <1>3, <1>4, <2>1
      <4>3. QED
        BY <4>1, <4>2, <1>2, <1>4, <2>1
    <3>2. q - 1 < CounterRange - 1
      BY <3>1, <1>3, <1>4, <2>1
    <3>3. QED
      BY <3>2, <2>1, <1>4
  <2>4. QED
    BY <2>2, <2>3, <1>5
<1>7. NumChunks(t) = q
  BY <1>4, <1>6 DEF NumChunks, PlanAssumption
<1>8. FinalChunkSize(t) = t % c /\ t % c \in 0..(c - 1)
  BY <1>2, <1>3 DEF FinalChunkSize
<1>9. QED
  BY <1>1, <1>2, <1>3, <1>4, <1>5, <1>7, <1>8

\* Chunk after chunk, the buffers of the chunker cut the stream as the
\* reference does: each begins where the one before it ends, none is empty, none
\* is larger than the regular size, and the last ends with the stream. This is
\* the use_final_chunk_size rule of read_files_into_chunks, for every transfer
\* size, the exact multiples of the chunk size included.
THEOREM ChunkCuts ==
    ASSUME PlanAssumption, NEW l, IsLayout(l), Fits(l.ends[l.files]),
           NEW req, req = Request(l), NEW s \in 1..req.num
    PROVE  /\ Base(req, s) \in Nat /\ Base(req, s + 1) \in Nat
           /\ BufferSize(req, s) \in 1..req.chunk
           /\ Base(req, s + 1) = Base(req, s) + BufferSize(req, s)
           /\ Base(req, s + 1) <= req.total
           /\ ChunkData(req, s) = [j \in 1..BufferSize(req, s) |-> Base(req, s) + j]
<1> DEFINE t == req.total
           c == req.chunk
           n == req.num
<1>1. /\ t \in Nat \ {0} /\ c \in Nat \ {0} /\ n \in Nat \ {0} /\ MaxChunk \in Nat \ {0}
      /\ c <= MaxChunk /\ req.final = t % c /\ req.final \in 0..(c - 1)
      /\ (n - 1) * c < t /\ t <= n * c /\ (n = 1 \/ c = MaxChunk)
  BY RequestShape DEF PlanAssumption
<1> HIDE DEF t, c, n
<1>2. IF req.final = 0 THEN t = n * c ELSE t = (n - 1) * c + req.final
  <2>1. IF t % c = 0 THEN t = n * c ELSE t = (n - 1) * c + (t % c)
    BY <1>1, LastChunk
  <2>2. QED
    BY <1>1, <2>1
<1>3. /\ s \in 1..n /\ n = req.num
      /\ Base(req, s) = (s - 1) * c /\ Base(req, s) \in Nat
  <2>1. s \in 1..n /\ (s - 1) * c \in Nat
    BY <1>1 DEF n
  <2>2. QED
    BY <2>1, <1>1 DEF Base, n, c, t
<1>4. s * c = (s - 1) * c + c /\ n * c = (n - 1) * c + c
  BY <1>1, <1>3
<1>5. CASE s < n
  <2>1. BufferSize(req, s) = c
    BY <1>5 DEF BufferSize, n, c
  <2>2. Base(req, s + 1) = s * c
    BY <1>5, <1>1, <1>3 DEF Base, n, c
  <2>3. s * c <= (n - 1) * c
    BY <1>5, <1>1, <1>3
  <2>4. s * c < t /\ s * c \in Nat
    BY <2>3, <1>1, <1>3
  <2>5. (s - 1) * MaxChunk = (s - 1) * c /\ s * MaxChunk = s * c
    BY <1>1, <1>3, <1>5
  <2>6. Least(s * MaxChunk, t) - (s - 1) * MaxChunk = c
    BY <2>4, <2>5, <1>4, <1>1, <1>3 DEF Least
  <2>7. ChunkData(req, s) = [j \in 1..c |-> (s - 1) * c + j]
    BY <2>5, <2>6 DEF ChunkData, t
  <2>8. ChunkData(req, s) = [j \in 1..BufferSize(req, s) |-> Base(req, s) + j]
    BY <2>1, <2>7, <1>3
  <2>9. Base(req, s + 1) = Base(req, s) + BufferSize(req, s)
    BY <1>3, <1>4, <2>1, <2>2
  <2>10. Base(req, s + 1) \in Nat /\ Base(req, s + 1) <= t
    BY <1>1, <2>2, <2>4
  <2>11. BufferSize(req, s) \in 1..c
    BY <1>1, <2>1
  <2>12. QED
    BY <1>3, <2>8, <2>9, <2>10, <2>11 DEF t, c
<1>6. CASE s = n
  <2>1. BufferSize(req, s) = t - (s - 1) * c /\ BufferSize(req, s) \in 1..c
    <3>1. BufferSize(req, s) = IF req.final = 0 THEN c ELSE req.final
      BY <1>6 DEF BufferSize, n, c
    <3>2. (s - 1) * c = (n - 1) * c /\ (n - 1) * c \in Nat
      BY <1>6, <1>1
    <3>3. IF req.final = 0 THEN t = (n - 1) * c + c ELSE t = (n - 1) * c + req.final
      BY <1>2, <1>4
    <3>4. QED
      BY <3>1, <3>2, <3>3, <1>1
  <2>2. Base(req, s + 1) = t
    BY <1>6 DEF Base, n, t
  <2>3. (s - 1) * MaxChunk = (s - 1) * c
    BY <1>1, <1>6
  <2>4. s * MaxChunk >= t /\ s * MaxChunk \in Nat
    <3>1. s * MaxChunk >= s * c
      BY <1>1, <1>3
    <3>2. QED
      BY <3>1, <1>1, <1>3, <1>6
  <2>5. Least(s * MaxChunk, t) - (s - 1) * MaxChunk = t - (s - 1) * c
    BY <2>3, <2>4, <1>1 DEF Least
  <2>6. ChunkData(req, s) = [j \in 1..(t - (s - 1) * c) |-> (s - 1) * c + j]
    BY <2>3, <2>5 DEF ChunkData, t
  <2>7. ChunkData(req, s) = [j \in 1..BufferSize(req, s) |-> Base(req, s) + j]
    BY <2>1, <2>6, <1>3
  <2>8. Base(req, s + 1) = Base(req, s) + BufferSize(req, s)
    BY <1>1, <1>3, <2>1, <2>2
  <2>9. QED
    BY <1>1, <1>3, <2>1, <2>2, <2>7, <2>8 DEF t, c
<1>7. QED
  BY <1>1, <1>3, <1>5, <1>6

\* The first buffer, allocated before any chunk is cut, begins the stream and
\* has the size of chunk 1, also when the transfer is a single short chunk.
LEMMA FirstBuffer ==
    ASSUME PlanAssumption, NEW l, IsLayout(l), Fits(l.ends[l.files]),
           NEW req, req = Request(l)
    PROVE  /\ Base(req, 1) = 0 /\ BufferSize(req, 1) = req.chunk
           /\ Base(req, req.num + 1) = req.total
<1>1. /\ req.total \in Nat \ {0} /\ req.chunk \in Nat \ {0} /\ req.num \in Nat \ {0}
      /\ req.final \in 0..(req.chunk - 1) /\ req.final = req.total % req.chunk
      /\ req.total <= req.num * req.chunk /\ (req.num - 1) * req.chunk < req.total
  BY RequestShape
<1>2. req.total = req.ends[req.files] /\ req.chunk = ChunkSize(req.total)
  BY DEF Request
<1>3. req.num = 1 => req.final = 0
  <2>1. SUFFICES ASSUME req.num = 1 PROVE req.final = 0
    OBVIOUS
  <2>2. req.total <= req.chunk
    BY <2>1, <1>1
  <2>3. req.total = req.chunk
    BY <2>2, <1>1, <1>2 DEF ChunkSize, PlanAssumption
  <2>4. QED
    BY <2>3, <1>1
<1>4. QED
  BY <1>1, <1>3 DEF Base, BufferSize

\* A request that from_file_paths makes, and whose number of chunks fits its counter.
Proper(req) == \E l : IsLayout(l) /\ Fits(l.ends[l.files]) /\ req = Request(l)

\* All there is to know of such a request: its files and its chunks.
LEMMA RequestFacts ==
    ASSUME PlanAssumption, NEW req, Proper(req)
    PROVE  /\ req.files \in Nat \ {0} /\ req.ends \in [0..req.files -> Nat]
           /\ req.ends[0] = 0 /\ req.total = req.ends[req.files]
           /\ \A f, g \in 0..req.files : f <= g => req.ends[f] <= req.ends[g]
           /\ req.num \in Nat \ {0} /\ req.chunk \in Nat \ {0} /\ req.total \in Nat
           /\ Base(req, 1) = 0 /\ Base(req, req.num + 1) = req.total
           /\ BufferSize(req, 1) = req.chunk /\ BufferSize(req, req.num + 1) = req.chunk
           /\ \A s \in 1..req.num :
                 /\ Base(req, s) \in Nat /\ Base(req, s + 1) \in Nat
                 /\ BufferSize(req, s) \in 1..req.chunk
                 /\ Base(req, s + 1) = Base(req, s) + BufferSize(req, s)
                 /\ Base(req, s + 1) <= req.total
                 /\ ChunkData(req, s) = [j \in 1..BufferSize(req, s) |-> Base(req, s) + j]
<1>1. PICK l : IsLayout(l) /\ Fits(l.ends[l.files]) /\ req = Request(l)
  BY DEF Proper
<1>2. /\ req.files \in Nat \ {0} /\ req.ends \in [0..req.files -> Nat]
      /\ req.ends[0] = 0 /\ req.total = req.ends[req.files]
      /\ \A f, g \in 0..req.files : f <= g => req.ends[f] <= req.ends[g]
      /\ req.num \in Nat \ {0} /\ req.chunk \in Nat \ {0} /\ req.total \in Nat
  BY <1>1, RequestShape
<1>3. /\ Base(req, 1) = 0 /\ Base(req, req.num + 1) = req.total
      /\ BufferSize(req, 1) = req.chunk
  BY <1>1, FirstBuffer
<1>4. BufferSize(req, req.num + 1) = req.chunk
  BY <1>2 DEF BufferSize
<1>5. ASSUME NEW s \in 1..req.num
      PROVE  /\ Base(req, s) \in Nat /\ Base(req, s + 1) \in Nat
             /\ BufferSize(req, s) \in 1..req.chunk
             /\ Base(req, s + 1) = Base(req, s) + BufferSize(req, s)
             /\ Base(req, s + 1) <= req.total
             /\ ChunkData(req, s) = [j \in 1..BufferSize(req, s) |-> Base(req, s) + j]
  BY <1>1, ChunkCuts
<1>6. QED
  BY <1>2, <1>3, <1>4, <1>5

\* The ends of the files do not decrease and do not pass the end of the stream.
LEMMA EndsInOrder ==
    ASSUME PlanAssumption, NEW req, Proper(req), NEW f \in 0..req.files
    PROVE  /\ req.ends[f] \in Nat /\ req.ends[f] <= req.total
           /\ f < req.files => /\ f + 1 \in 1..req.files /\ req.ends[f + 1] \in Nat
                               /\ req.ends[f] <= req.ends[f + 1]
           /\ f > 0 => f - 1 \in 0..req.files /\ req.ends[f - 1] \in Nat
<1>1. /\ req.files \in Nat /\ req.ends \in [0..req.files -> Nat]
      /\ req.total = req.ends[req.files]
      /\ \A g, h \in 0..req.files : g <= h => req.ends[g] <= req.ends[h]
  BY RequestFacts
<1>2. req.files \in 0..req.files /\ f <= req.files
  BY <1>1
<1>3. f < req.files => f + 1 \in 0..req.files /\ f + 1 \in 1..req.files /\ f <= f + 1
  BY <1>1
<1>4. f > 0 => f - 1 \in 0..req.files
  BY <1>1
<1>5. QED
  BY <1>1, <1>2, <1>3, <1>4

\* Every chunk begins at a position of the stream.
LEMMA EveryBase ==
    ASSUME PlanAssumption, NEW req, Proper(req), NEW s \in 1..(req.num + 1)
    PROVE  Base(req, s) \in Nat
<1>1. CASE s = req.num + 1
  BY <1>1, RequestFacts
<1>2. CASE s # req.num + 1
  <2>1. s \in 1..req.num
    BY <1>2, RequestFacts
  <2>2. QED
    BY <2>1, RequestFacts
<1>3. QED
  BY <1>1, <1>2

\* The bytes of the first s chunks are among those that k chunks can hold, if s <= k.
LEMMA BaseBounded ==
    ASSUME PlanAssumption, NEW req, Proper(req),
           NEW k \in 0..req.num, NEW s \in 0..k
    PROVE  Base(req, s + 1) <= Least(k * req.chunk, req.total)
<1>1. PICK l : IsLayout(l) /\ Fits(l.ends[l.files]) /\ req = Request(l)
  BY DEF Proper
<1>2. /\ req.num \in Nat \ {0} /\ req.chunk \in Nat \ {0} /\ req.total \in Nat
      /\ (req.num - 1) * req.chunk < req.total /\ req.total <= req.num * req.chunk
  BY <1>1, RequestShape
<1>3. CASE s = req.num
  <2>1. k = req.num /\ Base(req, s + 1) = req.total
    BY <1>2, <1>3 DEF Base
  <2>2. req.num * req.chunk \in Nat
    BY <1>2
  <2>3. QED
    BY <1>2, <2>1, <2>2 DEF Least
<1>4. CASE s # req.num
  <2>1. Base(req, s + 1) = s * req.chunk /\ s <= req.num - 1 /\ s \in Nat /\ k \in Nat /\ s <= k
    <3>1. s \in Nat /\ k \in Nat /\ s <= k /\ s < req.num /\ s + 1 # req.num + 1
      BY <1>2, <1>4
    <3>2. (s + 1) - 1 = s
      BY <3>1
    <3>3. QED
      BY <1>2, <3>1, <3>2 DEF Base
  <2>2. s * req.chunk <= k * req.chunk /\ s * req.chunk <= (req.num - 1) * req.chunk
    BY <1>2, <2>1
  <2>3. /\ s * req.chunk \in Int /\ k * req.chunk \in Int
        /\ (req.num - 1) * req.chunk \in Int
    BY <1>2, <2>1
  <2>4. QED
    BY <1>2, <2>1, <2>2, <2>3 DEF Least
<1>5. QED
  BY <1>3, <1>4

\* One chunk more holds some bytes more, as long as there is one more.
LEMMA OneChunkMore ==
    ASSUME PlanAssumption, NEW req, Proper(req), NEW k \in Nat, k < req.num
    PROVE  /\ Least(k * req.chunk, req.total) \in Nat
           /\ Least((k + 1) * req.chunk, req.total) \in Nat
           /\ Least(k * req.chunk, req.total) < Least((k + 1) * req.chunk, req.total)
<1>1. PICK l : IsLayout(l) /\ Fits(l.ends[l.files]) /\ req = Request(l)
  BY DEF Proper
<1>2. /\ req.num \in Nat \ {0} /\ req.chunk \in Nat \ {0} /\ req.total \in Nat
      /\ (req.num - 1) * req.chunk < req.total
  BY <1>1, RequestShape
<1>3. /\ k * req.chunk \in Nat /\ (k + 1) * req.chunk = k * req.chunk + req.chunk
      /\ (req.num - 1) * req.chunk \in Int
  BY <1>2
<1>4. k * req.chunk <= (req.num - 1) * req.chunk
  BY <1>2
<1>5. QED
  BY <1>2, <1>3, <1>4 DEF Least

\* The bytes that the chunks announced in a request can hold, as the receiver has to
\* understand it: all but the last are of the regular size, and a final size of 0
\* means that the last one is too.
Announced(total) ==
    (NumChunks(total) - 1) * ChunkSize(total)
        + (IF FinalChunkSize(total) = 0 THEN ChunkSize(total) ELSE FinalChunkSize(total))

\* Cutting by the remainder and rounding the division up agree: n chunks before the
\* counter cuts their number off.
LEMMA Uncut ==
    ASSUME PlanAssumption, NEW total \in Nat \ {0}
    PROVE  \E n \in Nat \ {0} :
              /\ NumChunks(total) = n % CounterRange
              /\ total = (n - 1) * ChunkSize(total)
                          + (IF FinalChunkSize(total) = 0 THEN ChunkSize(total)
                                                          ELSE FinalChunkSize(total))
              /\ n < CounterRange <=> Fits(total)
<1> DEFINE c == ChunkSize(total)
           n == (total + (c - 1)) \div c
           last == IF FinalChunkSize(total) = 0 THEN c ELSE FinalChunkSize(total)
<1>1. /\ MaxChunk \in Nat \ {0} /\ CounterRange \in Nat \ {0} /\ c \in Nat \ {0}
      /\ c <= total /\ c <= MaxChunk /\ (c = total \/ c = MaxChunk)
  BY DEF PlanAssumption, ChunkSize
<1>2. NumChunks(total) = n % CounterRange
  BY DEF NumChunks
<1>3. FinalChunkSize(total) = total % c
  BY DEF FinalChunkSize
<1> HIDE DEF c
<1>4. n \in Nat \ {0} /\ (n - 1) * c < total /\ total <= n * c
  BY <1>1, RoundedUp
<1> HIDE DEF n
<1>5. n * c = (n - 1) * c + c /\ (n - 1) * c \in Int
  BY <1>1, <1>4
<1>6. total = (n - 1) * c + last
  <2>1. IF total % c = 0 THEN total = n * c ELSE total = (n - 1) * c + (total % c)
    BY <1>1, <1>4, LastChunk
  <2>2. QED
    BY <2>1, <1>3, <1>5
<1>7. n < CounterRange <=> Fits(total)
  <2>1. Fits(total) <=> total <= (CounterRange - 1) * MaxChunk
    BY <1>1 DEF Fits
  <2>2. CASE c = MaxChunk
    <3>1. ASSUME n < CounterRange PROVE total <= (CounterRange - 1) * c
      <4>1. n * c <= (CounterRange - 1) * c /\ n * c \in Int /\ (CounterRange - 1) * c \in Int
        BY <3>1, <1>1, <1>4
      <4>2. QED
        BY <4>1, <1>1, <1>4
    <3>2. ASSUME n >= CounterRange PROVE total > (CounterRange - 1) * c
      <4>1. (CounterRange - 1) * c <= (n - 1) * c /\ (CounterRange - 1) * c \in Int
        BY <3>2, <1>1, <1>4
      <4>2. QED
        BY <4>1, <1>1, <1>4, <1>5
    <3>3. (CounterRange - 1) * c \in Int
      BY <1>1
    <3>4. QED
      BY <2>1, <2>2, <3>1, <3>2, <3>3, <1>1, <1>4
  <2>3. CASE c # MaxChunk
    <3>1. c = total /\ total < MaxChunk
      BY <2>3, <1>1
    <3>2. n = 1
      <4>1. (n - 1) * c < 1 * c
        BY <3>1, <1>4, <1>1
      <4>2. QED
        BY <4>1, <1>1, <1>4
    <3>3. CASE CounterRange = 1
      BY <2>1, <3>2, <3>3
    <3>4. CASE CounterRange > 1
      <4>1. 1 * MaxChunk <= (CounterRange - 1) * MaxChunk /\ (CounterRange - 1) * MaxChunk \in Int
        BY <3>4, <1>1
      <4>2. QED
        BY <2>1, <3>1, <3>2, <3>4, <4>1, <1>1
    <3>5. QED
      BY <3>3, <3>4, <1>1
  <2>4. QED
    BY <2>2, <2>3
<1>8. QED
  BY <1>2, <1>4, <1>6, <1>7 DEF c

\* The chunks announced hold exactly the bytes of the files, if and only if their number
\* fits the uint32_t: beyond that num_chunks wraps without an error, and they hold fewer.
THEOREM AnnouncedIsTransfer ==
    ASSUME PlanAssumption, NEW total \in Nat \ {0}
    PROVE  /\ Fits(total) => Announced(total) = total
           /\ ~Fits(total) => Announced(total) < total
<1> DEFINE c == ChunkSize(total)
           last == IF FinalChunkSize(total) = 0 THEN c ELSE FinalChunkSize(total)
<1>1. PICK n \in Nat \ {0} :
              /\ NumChunks(total) = n % CounterRange
              /\ total = (n - 1) * c + last
              /\ n < CounterRange <=> Fits(total)
  BY Uncut
<1>2. c \in Nat \ {0} /\ CounterRange \in Nat \ {0}
  BY DEF PlanAssumption, ChunkSize
<1>3. FinalChunkSize(total) \in Nat
  BY <1>2 DEF FinalChunkSize
<1>4. Announced(total) = (NumChunks(total) - 1) * c + last
  BY DEF Announced
<1> HIDE DEF c
<1>5. last \in Nat
  BY <1>2, <1>3
<1> HIDE DEF last
<1>6. CASE Fits(total)
  <2>1. NumChunks(total) = n
    BY <1>1, <1>2, <1>6
  <2>2. QED
    BY <2>1, <1>1, <1>4, <1>6
<1>7. CASE ~Fits(total)
  <2>1. NumChunks(total) \in Nat /\ NumChunks(total) < CounterRange /\ CounterRange <= n
    BY <1>1, <1>2, <1>7
  <2>2. /\ NumChunks(total) - 1 < n - 1
        /\ (NumChunks(total) - 1) * c \in Int /\ (n - 1) * c \in Int
    BY <2>1, <1>1, <1>2
  <2>3. (NumChunks(total) - 1) * c < (n - 1) * c
    BY <2>1, <2>2, <1>2
  <2>4. QED
    BY <2>2, <2>3, <1>1, <1>4, <1>5, <1>7
<1>8. QED
  BY <1>6, <1>7
=============================================================================
