----------------------------- MODULE OfferProofs -----------------------------
(* What the offer of a transfer guarantees, for every set of files.          *)
EXTENDS Offer, TransferPlanProofs, SequenceLemmas

\* The number of values of an integer type is the radix multiplied by itself.
LEMMA ValuesDef ==
    ASSUME CodecAssumption
    PROVE  /\ \A n \in 0..Long : Values[n] = IF n = 0 THEN 1 ELSE Radix * Values[n - 1]
           /\ \A n \in 0..Long : Values[n] \in Nat \ {0}
<1> DEFINE D    == 0..Long
           rank == [n \in D |-> n]
           prev == [n \in D |-> n - 1]
           base == [n \in D |-> 1]
           step == [p \in D \X Nat |-> Radix * p[2]]
<1>1. Long \in Nat /\ Radix \in Nat \ {0}
  BY DEF CodecAssumption
<1>2. /\ rank \in [D -> 0..Long] /\ Descends(D, rank, prev)
      /\ base \in [D -> Nat] /\ step \in [D \X Nat -> Nat]
  BY <1>1 DEF Descends
<1>3. \E g \in [D -> Nat] : Recurs(g, D, rank, prev, base, step)
  <2> HIDE DEF D, rank, prev, base, step
  <2>1. QED
    BY <1>1, <1>2, Recursion
<1>4. \E g : g = [n \in D |-> IF n = 0 THEN 1 ELSE Radix * g[n - 1]]
  <2>1. PICK g \in [D -> Nat] : Recurs(g, D, rank, prev, base, step)
    BY <1>3
  <2>2. ASSUME NEW n \in D PROVE g[n] = IF n = 0 THEN 1 ELSE Radix * g[n - 1]
    <3>1. g[n] = IF rank[n] = 0 THEN base[n] ELSE step[<<n, g[prev[n]]>>]
      BY <2>1 DEF Recurs
    <3>2. n # 0 => n - 1 \in D /\ g[n - 1] \in Nat
      BY <1>1
    <3>3. QED
      BY <3>1, <3>2
  <2>3. QED
    BY <2>2, ZenonT(30)
<1>5. Values = [n \in D |-> IF n = 0 THEN 1 ELSE Radix * Values[n - 1]]
  BY <1>4 DEF Values
<1>6. \A n \in D : Values[n] = IF n = 0 THEN 1 ELSE Radix * Values[n - 1]
  BY <1>5
<1> DEFINE T == {k \in D : Values[k] \in Nat \ {0}}
<1>7. \A n \in 0..Long : n \in T
  <2>1. 0 \in T
    BY <1>1, <1>6
  <2>2. ASSUME NEW n \in 0..Long - 1, n \in T PROVE n + 1 \in T
    <3>1. n + 1 \in D /\ n + 1 # 0 /\ (n + 1) - 1 = n /\ Values[n] \in Nat \ {0}
      BY <1>1, <2>2
    <3>2. Values[n + 1] = Radix * Values[n]
      BY <1>6, <3>1
    <3>3. \A a, b \in Nat \ {0} : a * b \in Nat \ {0}
      OBVIOUS
    <3>4. QED
      BY <1>1, <3>1, <3>2, <3>3
  <2> HIDE DEF T
  <2>3. QED
    BY <1>1, <2>1, <2>2, UpTo
<1>8. QED
  BY <1>6, <1>7

-----------------------------------------------------------------------------
(* The sum of the sizes.                                                     *)

\* from_file_paths adds up the sizes in the order of the paths, in a uint64_t.
LEMMA SumsInOrder ==
    ASSUME CodecAssumption, NEW n \in Nat, NEW infos, DOMAIN infos = 1..n,
           \A i \in 1..n : infos[i].size \in Nat
    PROVE  \E sum : /\ sum[0] = 0
                    /\ \A i \in 1..n : sum[i] = (sum[i - 1] + infos[i].size) % Values[Long]
                    /\ FromFilePaths(infos) =
                          IF sum[n] = 0 THEN Thrown
                          ELSE [num_files |-> Len(infos) % CounterRange, transfer_size |-> sum[n],
                                chunk_size |-> ChunkSize(sum[n]),
                                final_chunk_size |-> FinalChunkSize(sum[n]),
                                num_chunks |-> NumChunks(sum[n]), file_infos |-> infos]
<1> DEFINE D == DOMAIN infos
           M == Values[Long]
           iter[t \in SUBSET D] ==
               IF t = {} THEN 0
               ELSE LET x == Max(t) IN (iter[t \ {x}] + infos[x].size) % M
           total == FoldLeft(LAMBDA sum, info : (sum + info.size) % Values[Long], 0, infos)
<1>1. total = iter[D]
  BY DEF FoldLeft, MapThenFoldSet
<1>2. M \in Nat \ {0}
  BY ValuesDef DEF CodecAssumption
<1>3. \E g : g = [t \in SUBSET D |->
                     IF t = {} THEN 0
                     ELSE LET x == Max(t) IN (g[t \ {x}] + infos[x].size) % M]
  <2> DEFINE step == [p \in D \X Nat |-> (p[2] + infos[p[1]].size) % M]
  <2>1. \A a, b \in Nat, c \in Nat \ {0} : (a + b) % c \in Nat
    OBVIOUS
  <2>2. step \in [D \X Nat -> Nat]
    BY <1>2, <2>1
  <2>3. \A k \in D, v \in Nat : step[<<k, v>>] = (v + infos[k].size) % M
    OBVIOUS
  <2> HIDE DEF step
  <2>4. PICK g \in [SUBSET D -> Nat] : LeftUnfolds(g, n, 0, step)
    BY <2>2, LeftRecursion
  <2>5. \A t \in SUBSET D : t # {} => Max(t) \in D
    BY GreatestOf
  <2>6. \A t \in SUBSET D :
           g[t] = IF t = {} THEN 0 ELSE (g[t \ {Max(t)}] + infos[Max(t)].size) % M
    BY <2>3, <2>4, <2>5 DEF LeftUnfolds
  <2>7. QED
    BY <2>6
<1>4. iter = [t \in SUBSET D |->
                 IF t = {} THEN 0
                 ELSE LET x == Max(t) IN (iter[t \ {x}] + infos[x].size) % M]
  BY <1>3
<1> HIDE DEF iter
<1> DEFINE sum == [i \in 0..n |-> iter[1..i]]
<1>5. sum[0] = 0 /\ sum[n] = iter[D]
  BY <1>4
<1>6. ASSUME NEW i \in 1..n PROVE sum[i] = (sum[i - 1] + infos[i].size) % M
  <2>1. /\ 1..i \in SUBSET D /\ 1..i # {}
        /\ Max(1..i) = i /\ (1..i) \ {i} = 1..i - 1
    BY LeftPart
  <2>2. iter[1..i] = (iter[(1..i) \ {Max(1..i)}] + infos[Max(1..i)].size) % M
    BY <1>4, <2>1
  <2>3. iter[1..i] = (iter[1..i - 1] + infos[i].size) % M
    BY <2>1, <2>2
  <2>4. QED
    BY <2>3
<1> HIDE DEF sum
<1>7. FromFilePaths(infos) = IF total = 0 THEN Thrown
                             ELSE [num_files |-> Len(infos) % CounterRange, transfer_size |-> total,
                                   chunk_size |-> ChunkSize(total),
                                   final_chunk_size |-> FinalChunkSize(total),
                                   num_chunks |-> NumChunks(total), file_infos |-> infos]
  BY DEF FromFilePaths
<1> HIDE DEF total
<1>8. QED
  BY <1>1, <1>5, <1>6, <1>7

\* The sum of the sizes of some files does not depend on the order.
LEMMA BytesDef ==
    ASSUME NEW S, IsFiniteSet(S), \A f \in S : size[f] \in Nat
    PROVE  \E bytes \in [SUBSET S -> Nat] :
              /\ Bytes(S) = bytes[S] /\ bytes[{}] = 0
              /\ \A t \in SUBSET S : \A f \in t : bytes[t] = bytes[t \ {f}] + size[f]
<1> DEFINE iter[t \in SUBSET S] ==
               IF t = {} THEN 0
               ELSE LET x == CHOOSE x \in t : TRUE IN iter[t \ {x}] + size[x]
           pick == [t \in SUBSET S |-> CHOOSE x \in t : TRUE]
<1>1. Bytes(S) = iter[S]
  BY DEF Bytes, FoldSet, MapThenFoldSet
<1>2. \A t \in SUBSET S : t # {} => pick[t] \in t /\ pick[t] = CHOOSE x \in t : TRUE
  OBVIOUS
<1> HIDE DEF pick
<1>3. \E g : g = [t \in SUBSET S |->
                     IF t = {} THEN 0
                     ELSE LET x == CHOOSE x \in t : TRUE IN g[t \ {x}] + size[x]]
  <2> DEFINE step == [p \in S \X Nat |-> p[2] + size[p[1]]]
  <2>1. step \in [S \X Nat -> Nat] /\ \A x \in S, v \in Nat : step[<<x, v>>] = v + size[x]
    OBVIOUS
  <2> HIDE DEF step
  <2>2. PICK g \in [SUBSET S -> Nat] : Unfolds(g, S, pick, 0, step)
    BY <1>2, <2>1, FoldRecursion DEF Picks
  <2>3. ASSUME NEW t \in SUBSET S, t # {}
        PROVE  g[t] = LET x == CHOOSE x \in t : TRUE IN g[t \ {x}] + size[x]
    <3>1. pick[t] \in S /\ g[t \ {pick[t]}] \in Nat
      BY <1>2, <2>3
    <3>2. g[t] = step[<<pick[t], g[t \ {pick[t]}]>>]
      BY <2>2, <2>3 DEF Unfolds
    <3>3. g[t] = g[t \ {pick[t]}] + size[pick[t]]
      BY <2>1, <3>1, <3>2
    <3>4. QED
      BY <1>2, <2>3, <3>3
  <2> DEFINE Value(t) == IF t = {} THEN 0
                         ELSE LET x == CHOOSE x \in t : TRUE IN g[t \ {x}] + size[x]
  <2>4. \A t \in SUBSET S : g[t] = Value(t)
    BY <2>2, <2>3 DEF Unfolds
  <2>5. g = [t \in SUBSET S |-> Value(t)]
    <3> HIDE DEF Value
    <3>1. QED
      BY <2>4
  <2>6. QED
    BY <2>5
<1>4. iter = [t \in SUBSET S |->
                 IF t = {} THEN 0
                 ELSE LET x == CHOOSE x \in t : TRUE IN iter[t \ {x}] + size[x]]
  BY <1>3
<1> HIDE DEF iter
<1>5. /\ iter[{}] = 0
      /\ \A t \in SUBSET S : t # {} => iter[t] = iter[t \ {pick[t]}] + size[pick[t]]
  BY <1>2, <1>4
<1> DEFINE Sums(t) == iter[t] \in Nat /\ \A f \in t : iter[t] = iter[t \ {f}] + size[f]
           T == {k \in 0..Cardinality(S) : \A t \in SUBSET S : Cardinality(t) <= k => Sums(t)}
<1>6. \A t \in SUBSET S : /\ Cardinality(t) \in 0..Cardinality(S)
                          /\ Cardinality(t) = 0 => t = {}
                          /\ \A f \in t : Cardinality(t \ {f}) = Cardinality(t) - 1
  <2>1. ASSUME NEW t \in SUBSET S
        PROVE  /\ Cardinality(t) \in 0..Cardinality(S) /\ (Cardinality(t) = 0 => t = {})
               /\ \A f \in t : Cardinality(t \ {f}) = Cardinality(t) - 1
    <3>1. IsFiniteSet(t) /\ Cardinality(t) <= Cardinality(S)
      BY FS_Subset
    <3>2. Cardinality(t) \in Nat /\ Cardinality(S) \in Nat
      BY <3>1, FS_CardinalityType
    <3>3. QED
      BY <3>1, <3>2, FS_EmptySet, FS_RemoveElement
  <2>2. QED
    BY <2>1
<1>7. 0 \in T
  <2>1. Cardinality(S) \in Nat
    BY FS_CardinalityType
  <2>2. ASSUME NEW t \in SUBSET S, Cardinality(t) <= 0 PROVE Sums(t)
    <3>1. t = {}
      BY <1>6, <2>2
    <3>2. QED
      BY <1>5, <3>1
  <2>3. QED
    BY <2>1, <2>2
<1>8. ASSUME NEW k \in 0..Cardinality(S) - 1, k \in T PROVE k + 1 \in T
  <2>1. ASSUME NEW t \in SUBSET S, Cardinality(t) <= k + 1 PROVE Sums(t)
    <3>1. CASE t = {}
      BY <1>5, <3>1
    <3>2. CASE t # {}
      <4> DEFINE y == pick[t]
      <4>1. y \in t /\ iter[t] = iter[t \ {y}] + size[y]
        BY <1>2, <1>5, <3>2
      <4>2. \A f \in t : t \ {f} \in SUBSET S /\ Sums(t \ {f})
        <5>1. \A f \in t : Cardinality(t \ {f}) <= k /\ t \ {f} \in SUBSET S
          BY <1>6, <2>1
        <5>2. QED
          BY <1>8, <5>1
      <4>3. iter[t] \in Nat
        <5>1. iter[t \ {y}] \in Nat /\ size[y] \in Nat
          BY <4>1, <4>2
        <5>2. QED
          BY <4>1, <5>1
      <4>4. ASSUME NEW f \in t, f # y PROVE iter[t] = iter[t \ {f}] + size[f]
        <5>1. (t \ {f}) \ {y} = (t \ {y}) \ {f} /\ y \in t \ {f} /\ f \in t \ {y}
          BY <4>1, <4>4
        <5>2. /\ iter[t \ {y}] = iter[(t \ {y}) \ {f}] + size[f]
              /\ iter[t \ {f}] = iter[(t \ {f}) \ {y}] + size[y]
          BY <4>1, <4>2, <5>1
        <5>3. iter[(t \ {y}) \ {f}] \in Nat /\ size[f] \in Nat /\ size[y] \in Nat
          <6>1. (t \ {y}) \ {f} \in SUBSET S /\ Cardinality((t \ {y}) \ {f}) <= k
            <7>1. Cardinality(t \ {y}) = Cardinality(t) - 1
              BY <1>6, <4>1
            <7>2. Cardinality((t \ {y}) \ {f}) = Cardinality(t \ {y}) - 1
              BY <1>6, <4>1, <4>2, <5>1
            <7>3. Cardinality(t) \in Nat
              BY <1>6
            <7>4. QED
              BY <2>1, <7>1, <7>2, <7>3
          <6>2. QED
            BY <1>8, <4>1, <6>1
        <5>4. \A a, b, c \in Nat : (a + b) + c = (a + c) + b
          OBVIOUS
        <5>5. iter[t] = (iter[(t \ {y}) \ {f}] + size[f]) + size[y]
          BY <4>1, <5>2, Zenon
        <5>6. iter[t \ {f}] = iter[(t \ {y}) \ {f}] + size[y]
          BY <5>1, <5>2, Zenon
        <5>7. (iter[(t \ {y}) \ {f}] + size[f]) + size[y]
                  = (iter[(t \ {y}) \ {f}] + size[y]) + size[f]
          BY <5>3, <5>4, Zenon
        <5>8. QED
          BY <5>5, <5>6, <5>7, Zenon
      <4>5. QED
        BY <4>1, <4>3, <4>4
    <3>3. QED
      BY <3>1, <3>2
  <2>2. k + 1 \in 0..Cardinality(S)
    BY FS_CardinalityType
  <2> HIDE DEF Sums
  <2>3. QED
    BY <2>1, <2>2
<1>9. \A t \in SUBSET S : Sums(t)
  <2>1. Cardinality(S) \in Nat /\ Cardinality(S) \in 0..Cardinality(S)
    BY FS_CardinalityType
  <2>2. Cardinality(S) \in T
    <3> HIDE DEF T
    <3>1. QED
      BY <1>7, <1>8, <2>1, UpTo
  <2> HIDE DEF Sums
  <2>3. QED
    BY <1>6, <2>2
<1>10. iter \in [SUBSET S -> Nat]
  BY <1>4, <1>9
<1>11. QED
  BY <1>1, <1>5, <1>9, <1>10

\* The descriptions of the files in the order in which the set has them.
Infos(order) == [i \in DOMAIN order |-> Info(order[i])]

\* An order of a finite set lists each of its elements once.
LEMMA OrderLists ==
    ASSUME NEW S, IsFiniteSet(S), NEW order \in SetToSeqs(S)
    PROVE  /\ Cardinality(S) \in Nat /\ order \in [1..Cardinality(S) -> S]
           /\ \A i, j \in 1..Cardinality(S) : i # j => order[i] # order[j]
           /\ {order[i] : i \in 1..Cardinality(S)} = S
<1> DEFINE n == Cardinality(S)
           image == {order[i] : i \in 1..n}
<1>1. n \in Nat
  BY FS_CardinalityType
<1>2. order \in [1..n -> S] /\ \A i, j \in 1..n : i # j => order[i] # order[j]
  BY DEF SetToSeqs
<1>3. image \subseteq S
  BY <1>2
<1>4. Cardinality(image) = n
  <2>1. order \in Bijection(1..n, image)
    <3>1. order \in [1..n -> image] /\ \A y \in image : \E i \in 1..n : order[i] = y
      BY <1>2
    <3>2. \A i, j \in 1..n : order[i] = order[j] => i = j
      BY <1>2
    <3>3. QED
      BY <3>1, <3>2 DEF Bijection, Injection, Surjection, IsInjective
  <2>2. IsFiniteSet(1..n) /\ Cardinality(1..n) = n
    BY <1>1, FS_Interval
  <2>3. ExistsBijection(1..n, image)
    BY <2>1 DEF ExistsBijection
  <2> HIDE DEF image
  <2>4. QED
    BY <2>2, <2>3, FS_Bijection
<1>5. image = S
  <2> HIDE DEF image
  <2>1. QED
    BY <1>3, <1>4, FS_Subset
<1>6. QED
  BY <1>1, <1>2, <1>5

\* The total of the request is what the files hold, unless that is beyond a uint64_t;
\* then it is less.
LEMMA TotalIsBytes ==
    ASSUME CodecAssumption, IsFiniteSet(staged), \A f \in staged : size[f] \in Nat,
           NEW order \in SetToSeqs(staged)
    PROVE  \E total \in Nat :
              /\ total < Values[Long] /\ Bytes(staged) \in Nat
              /\ Bytes(staged) < Values[Long] => total = Bytes(staged)
              /\ FromFilePaths(Infos(order)) =
                    IF total = 0 THEN Thrown
                    ELSE [num_files |-> Len(Infos(order)) % CounterRange,
                          transfer_size |-> total, chunk_size |-> ChunkSize(total),
                          final_chunk_size |-> FinalChunkSize(total),
                          num_chunks |-> NumChunks(total), file_infos |-> Infos(order)]
<1> DEFINE n == Cardinality(staged)
           M == Values[Long]
           infos == Infos(order)
<1>1. /\ n \in Nat /\ order \in [1..n -> staged]
      /\ \A i, j \in 1..n : i # j => order[i] # order[j]
      /\ {order[i] : i \in 1..n} = staged
  BY OrderLists
<1> HIDE DEF n
<1>2. DOMAIN infos = 1..n /\ \A i \in 1..n : infos[i].size = size[order[i]]
  BY <1>1 DEF Infos, Info
<1>3. \A i \in 1..n : size[order[i]] \in Nat
  BY <1>1
<1>4. M \in Nat \ {0}
  BY ValuesDef DEF CodecAssumption
<1> HIDE DEF infos, M
<1>5. PICK sum : /\ sum[0] = 0
                 /\ \A i \in 1..n : sum[i] = (sum[i - 1] + infos[i].size) % M
                 /\ FromFilePaths(infos) =
                       IF sum[n] = 0 THEN Thrown
                       ELSE [num_files |-> Len(infos) % CounterRange, transfer_size |-> sum[n],
                             chunk_size |-> ChunkSize(sum[n]),
                             final_chunk_size |-> FinalChunkSize(sum[n]),
                             num_chunks |-> NumChunks(sum[n]), file_infos |-> infos]
  <2>1. \A i \in 1..n : infos[i].size \in Nat
    BY <1>2, <1>3
  <2>2. QED
    BY <1>1, <1>2, <2>1, SumsInOrder DEF M
<1>6. PICK bytes \in [SUBSET staged -> Nat] :
            /\ Bytes(staged) = bytes[staged] /\ bytes[{}] = 0
            /\ \A t \in SUBSET staged : \A f \in t : bytes[t] = bytes[t \ {f}] + size[f]
  BY BytesDef
<1> DEFINE image(k) == {order[i] : i \in 1..k}
           held == [k \in 0..n |-> bytes[image(k)]]
<1>7. \A k \in 0..n : image(k) \in SUBSET staged
  BY <1>1
<1>8. held \in [0..n -> Nat] /\ held[0] = 0 /\ held[n] = Bytes(staged)
  <2>1. image(0) = {} /\ image(n) = staged /\ 0 \in 0..n /\ n \in 0..n
    BY <1>1
  <2> HIDE DEF image
  <2>2. QED
    BY <1>6, <1>7, <2>1
<1>9. ASSUME NEW k \in 0..n - 1
      PROVE  /\ held[k + 1] = held[k] + size[order[k + 1]]
             /\ sum[k + 1] = (sum[k] + size[order[k + 1]]) % M
             /\ k \in 0..n /\ k + 1 \in 0..n /\ k + 1 \in 1..n
  <2>1. k + 1 \in 1..n /\ k \in 0..n /\ k + 1 \in 0..n /\ (k + 1) - 1 = k
    BY <1>1
  <2>2. image(k + 1) \ {order[k + 1]} = image(k) /\ order[k + 1] \in image(k + 1)
    <3>1. ASSUME NEW i \in 1..k PROVE order[i] # order[k + 1] /\ i \in 1..k + 1
      <4>1. i \in 1..n /\ i # k + 1 /\ i \in 1..k + 1
        BY <1>1
      <4>2. QED
        BY <1>1, <2>1, <4>1
    <3>2. \A i \in 1..k + 1 : i = k + 1 \/ i \in 1..k
      BY <1>1
    <3>3. k + 1 \in 1..k + 1
      BY <2>1
    <3>4. QED
      BY <3>1, <3>2, <3>3
  <2>3. bytes[image(k + 1)] = bytes[image(k)] + size[order[k + 1]]
    <3> HIDE DEF image
    <3>1. QED
      BY <1>6, <1>7, <2>1, <2>2
  <2>4. sum[k + 1] = (sum[k] + size[order[k + 1]]) % M
    BY <1>2, <1>5, <2>1
  <2> HIDE DEF image
  <2>5. QED
    BY <2>1, <2>3, <2>4
<1> HIDE DEF held
<1> DEFINE T == {k \in 0..n : sum[k] \in 0..M - 1 /\ (held[k] < M => sum[k] = held[k])}
<1>10. 0 \in T
  <2>1. 0 \in 0..n /\ 0 \in 0..M - 1
    BY <1>1, <1>4
  <2>2. QED
    BY <1>5, <1>8, <2>1
<1>11. ASSUME NEW k \in 0..n - 1, k \in T PROVE k + 1 \in T
  <2>1. \A a \in 0..M - 1, b, c \in Nat :
           (a + c) % M \in 0..M - 1 /\ ((b < M => a = b) /\ b + c < M => (a + c) % M = b + c)
    BY <1>4
  <2>2. /\ sum[k] \in 0..M - 1 /\ (held[k] < M => sum[k] = held[k])
        /\ held[k] \in Nat /\ size[order[k + 1]] \in Nat
    BY <1>3, <1>8, <1>9, <1>11
  <2>3. /\ held[k + 1] = held[k] + size[order[k + 1]]
        /\ sum[k + 1] = (sum[k] + size[order[k + 1]]) % M /\ k + 1 \in 0..n
    BY <1>9
  <2>4. /\ sum[k + 1] \in 0..M - 1
        /\ held[k + 1] < M => sum[k + 1] = held[k + 1]
    <3>1. (sum[k] + size[order[k + 1]]) % M \in 0..M - 1
      BY <2>1, <2>2, Zenon
    <3>2. held[k] + size[order[k + 1]] < M =>
             (sum[k] + size[order[k + 1]]) % M = held[k] + size[order[k + 1]]
      BY <2>1, <2>2, ZenonT(30)
    <3>3. QED
      BY <2>3, <3>1, <3>2, Zenon
  <2>5. QED
    BY <2>3, <2>4
<1>12. n \in T
  <2> HIDE DEF T
  <2>1. n \in 0..n
    BY <1>1
  <2>2. QED
    BY <1>1, <1>10, <1>11, <2>1, UpTo
<1>13. sum[n] \in Nat /\ sum[n] < M /\ (Bytes(staged) < M => sum[n] = Bytes(staged))
  <2>1. sum[n] \in 0..M - 1 /\ (held[n] < M => sum[n] = held[n])
    BY <1>12
  <2>2. QED
    BY <1>4, <1>8, <2>1
<1>14. Bytes(staged) \in Nat
  BY <1>1, <1>8
<1>15. QED
  BY <1>5, <1>13, <1>14 DEF infos, M

-----------------------------------------------------------------------------
(* The inductive invariant: what each value was made from, while its origin is still there. *)

EditInv ==
    /\ edit.args \in Arguments \cup {{}} /\ edit.among \subseteq Files
    /\ edit.matched = Matched(edit.args, edit.among, Files)
RequestInv ==
    /\ size \in Sizings /\ staged \subseteq Files
    /\ request \notin {None, Thrown} =>
          /\ Cardinality(staged) <= MaxListed
          /\ \E order \in SetToSeqs(staged) : request = FromFilePaths(Infos(order))
BufferInv ==
    buffer \notin {None, Thrown} => request \notin {None, Thrown} /\ buffer = Serialize(request)
ReadInv ==
    got # None =>
        /\ buffer \notin {None, Thrown}
        /\ \E length \in 0..Len(buffer) : /\ arrived = SubSeq(buffer, 1, length)
                                          /\ got = Deserialize(arrived)
OfferInv == EditInv /\ RequestInv /\ BufferInv /\ ReadInv

\* It holds in the initial states.
LEMMA InitInv == ASSUME OfferAssumption PROVE Init => OfferInv
<1> SUFFICES ASSUME Init PROVE OfferInv
  OBVIOUS
<1>1. EditInv
  BY DEF Init, EditInv, Matched
<1>2. RequestInv /\ BufferInv /\ ReadInv
  BY DEF Init, RequestInv, BufferInv, ReadInv
<1>3. QED
  BY <1>1, <1>2 DEF OfferInv

\* What a command selects is among what it selects from.
LEMMA MatchedAmong == ASSUME NEW args, NEW paths PROVE Matched(args, paths, Files) \subseteq paths
  BY DEF Matched

\* A command changes the staged set and nothing that was made from it.
LEMMA EditKeeps ==
    ASSUME OfferAssumption, OfferInv, NEW args \in Arguments, NEW paths, paths \subseteq Files,
           Edit(args, paths), staged' \in {staged \cup edit'.matched, staged \ edit'.matched}
    PROVE  OfferInv'
<1>1. edit' = [args |-> args, among |-> paths, matched |-> Matched(args, paths, Files)]
  BY DEF Edit
<1>2. EditInv'
  BY <1>1 DEF EditInv
<1>3. staged' \subseteq Files
  <2>1. edit'.matched \subseteq Files /\ staged \subseteq Files
    BY <1>1, MatchedAmong DEF OfferInv, RequestInv
  <2>2. QED
    BY <2>1
<1>4. RequestInv'
  BY <1>3 DEF OfferInv, RequestInv, Edit
<1>5. BufferInv' /\ ReadInv'
  BY DEF OfferInv, BufferInv, ReadInv, Edit
<1>6. QED
  BY <1>2, <1>4, <1>5 DEF OfferInv

\* The list of descriptions is that of the moment in which the request is made.
LEMMA DescribeKeeps == ASSUME OfferInv, Describe PROVE OfferInv'
<1>1. EditInv' /\ BufferInv' /\ ReadInv'
  BY DEF OfferInv, EditInv, BufferInv, ReadInv, Describe
<1>2. PICK order \in SetToSeqs(staged) :
            request' = FromFilePaths([i \in DOMAIN order |-> Info(order[i])])
  BY DEF Describe
<1>3. size' = size /\ staged' = staged /\ Cardinality(staged) <= MaxListed
  BY DEF Describe
<1>4. request' = FromFilePaths([i \in DOMAIN order |-> Info(order[i])'])
  BY <1>2, <1>3 DEF Info
<1>5. RequestInv'
  BY <1>3, <1>4 DEF OfferInv, RequestInv, Infos
<1>6. QED
  BY <1>1, <1>5 DEF OfferInv

\* A buffer is written once, from the request.
LEMMA WriteKeeps == ASSUME OfferInv, Write PROVE OfferInv'
<1>1. EditInv' /\ RequestInv'
  BY DEF OfferInv, EditInv, RequestInv, Write, Infos, Info
<1>2. BufferInv' /\ ReadInv'
  BY DEF OfferInv, BufferInv, ReadInv, Write
<1>3. QED
  BY <1>1, <1>2 DEF OfferInv

\* It is read whole, or cut.
LEMMA ReadKeeps ==
    ASSUME OfferInv, buffer \notin {None, Thrown}, NEW length \in 0..Len(buffer), Read(length)
    PROVE  OfferInv'
<1>1. EditInv' /\ RequestInv' /\ BufferInv'
  BY DEF OfferInv, EditInv, RequestInv, BufferInv, Read, Infos, Info
<1>2. ReadInv'
  BY DEF OfferInv, ReadInv, Read
<1>3. QED
  BY <1>1, <1>2 DEF OfferInv

\* What is offered was made, step by step, from what is staged.
THEOREM Invariance == ASSUME OfferAssumption PROVE Spec => []OfferInv
<1>1. Init => OfferInv
  BY InitInv
<1>2. OfferInv /\ [Next]_vars => OfferInv'
  <2> SUFFICES ASSUME OfferInv, [Next]_vars PROVE OfferInv'
    OBVIOUS
  <2>1. ASSUME NEW args \in Arguments, Add(args) \/ Drop(args) PROVE OfferInv'
    <3>1. staged \subseteq Files
      BY DEF OfferInv, RequestInv
    <3>2. QED
      BY <2>1, <3>1, EditKeeps DEF Add, Drop
  <2>2. CASE Describe
    BY <2>2, DescribeKeeps
  <2>3. CASE Write
    BY <2>3, WriteKeeps
  <2>4. ASSUME buffer \notin {None, Thrown}, NEW length \in 0..Len(buffer), Read(length)
        PROVE  OfferInv'
    BY <2>4, ReadKeeps
  <2>5. CASE UNCHANGED vars
    <3>1. EditInv' /\ RequestInv' /\ BufferInv' /\ ReadInv'
      BY <2>5 DEF vars, OfferInv, EditInv, RequestInv, BufferInv, ReadInv, Infos, Info
    <3>2. QED
      BY <3>1 DEF OfferInv
  <2>6. QED
    BY <2>1, <2>2, <2>3, <2>4, <2>5 DEF Next
<1>3. QED
  BY <1>1, <1>2, PTL DEF Spec

\* The files that are staged are finitely many, and their sizes are numbers.
LEMMA StagedFiles ==
    ASSUME OfferAssumption, OfferInv
    PROVE  /\ IsFiniteSet(staged) /\ staged \subseteq Files
           /\ size \in [Files -> 0..Values[Long] - 1]
  BY FS_Subset DEF OfferInv, RequestInv, OfferAssumption

\* The sizes add up, chunks of the size announced and of the number announced hold the
\* sum, and none of the integers in between is cut off, if and only if the number of
\* chunks fits.
LEMMA PlanOfInvariant ==
    ASSUME PlanAssumption, CodecAssumption, OfferAssumption, OfferInv
    PROVE  PlanCoversTransfer
<1> SUFFICES ASSUME request \notin {None, Thrown}
             PROVE  LET last == IF request.final_chunk_size = 0 THEN request.chunk_size
                                                                ELSE request.final_chunk_size
                    IN  (request.num_chunks - 1) * request.chunk_size + last = Bytes(staged)
                            <=> Fits(Bytes(staged))
  BY DEF PlanCoversTransfer
<1>1. PICK order \in SetToSeqs(staged) : request = FromFilePaths(Infos(order))
  BY DEF OfferInv, RequestInv
<1>2. IsFiniteSet(staged) /\ \A f \in staged : size[f] \in Nat
  <2>1. \A n \in 0..Values[Long] - 1 : n \in Nat
    BY ValuesDef DEF CodecAssumption
  <2>2. QED
    BY <2>1, StagedFiles
<1> DEFINE M == Values[Long]
           bytes == Bytes(staged)
<1>3. PICK total \in Nat :
          /\ total < M /\ bytes \in Nat /\ (bytes < M => total = bytes)
          /\ request = IF total = 0 THEN Thrown
                       ELSE [num_files |-> Len(Infos(order)) % CounterRange,
                             transfer_size |-> total, chunk_size |-> ChunkSize(total),
                             final_chunk_size |-> FinalChunkSize(total),
                             num_chunks |-> NumChunks(total), file_infos |-> Infos(order)]
  BY <1>1, <1>2, TotalIsBytes
<1>4. /\ total # 0 /\ request.chunk_size = ChunkSize(total)
      /\ request.final_chunk_size = FinalChunkSize(total)
      /\ request.num_chunks = NumChunks(total)
  BY <1>3
<1>5. /\ Fits(total) => Announced(total) = total
      /\ ~Fits(total) => Announced(total) < total
  BY <1>3, <1>4, AnnouncedIsTransfer
<1>6. M \in Nat /\ MaxChunk * (CounterRange - 1) < M
  <2>1. M \in Nat /\ MaxChunk * CounterRange <= M
    BY ValuesDef DEF CodecAssumption
  <2>2. MaxChunk \in Nat \ {0} /\ CounterRange \in Nat \ {0}
    BY DEF PlanAssumption
  <2>3. MaxChunk * (CounterRange - 1) = MaxChunk * CounterRange - MaxChunk
    BY <2>2
  <2>4. MaxChunk * CounterRange \in Int
    BY <2>2
  <2>5. QED
    BY <2>1, <2>2, <2>3, <2>4, SMTT(20)
<1> HIDE DEF M, bytes
<1>7. Announced(total) = bytes <=> Fits(bytes)
  <2>1. CASE bytes < M
    <3>1. total = bytes
      BY <1>3, <2>1
    <3>2. QED
      BY <1>3, <1>5, <3>1
  <2>2. CASE ~(bytes < M)
    <3>1. total < bytes /\ ~Fits(bytes)
      <4>1. MaxChunk * (CounterRange - 1) \in Int
        BY DEF PlanAssumption
      <4>2. \A m, b, x \in Int : x < m /\ ~(b < m) => ~(b <= x)
        OBVIOUS
      <4>3. M \in Int /\ bytes \in Int /\ total < M
        BY <1>3, <1>6
      <4>4. ~(bytes <= MaxChunk * (CounterRange - 1))
        BY <1>6, <2>2, <4>1, <4>2, <4>3, Zenon
      <4>5. \A m, b, x \in Int : x < m /\ ~(b < m) => x < b
        OBVIOUS
      <4>6. total < bytes
        BY <1>3, <2>2, <4>3, <4>5
      <4>7. QED
        BY <4>4, <4>6 DEF Fits
    <3>2. Announced(total) # bytes
      BY <1>3, <1>5, <3>1
    <3>3. QED
      BY <3>1, <3>2
  <2>3. QED
    BY <2>1, <2>2
<1>8. QED
  BY <1>4, <1>7 DEF Announced, bytes

\* The chunks a request announces hold exactly the bytes of the files, if and only if
\* their number fits the uint32_t: for every set of staged files of every size, in every
\* order in which from_file_paths may add them up.
THEOREM PlanCorrect ==
    ASSUME PlanAssumption, CodecAssumption, OfferAssumption
    PROVE  Spec => []PlanCoversTransfer
<1>1. OfferInv => PlanCoversTransfer
  BY PlanOfInvariant
<1>2. QED
  BY <1>1, Invariance, PTL

-----------------------------------------------------------------------------
(* The bytes of an integer.                                                  *)

\* Dividing twice is dividing by the product.
LEMMA DividedTwice ==
    ASSUME NEW n \in Nat, NEW a \in Nat \ {0}, NEW b \in Nat \ {0}
    PROVE  (n \div a) \div b = n \div (b * a)
<1> DEFINE q == n \div a
           s == q \div b
<1>1. \A x \in Nat, y \in Nat \ {0} : /\ x \div y \in Nat
                                      /\ y * (x \div y) <= x /\ x < y * (x \div y) + y
  OBVIOUS
<1>2. /\ q \in Nat /\ s \in Nat /\ a * q <= n /\ n < a * q + a
      /\ b * s <= q /\ q < b * s + b
  BY <1>1
<1> HIDE DEF q, s
<1>3. (b * a) * s <= n
  <2>1. a * (b * s) <= a * q
    <3>1. \A x, y \in Nat, z \in Nat : x <= y => z * x <= z * y
      OBVIOUS
    <3>2. b * s \in Nat /\ a \in Nat
      BY <1>2
    <3>3. QED
      BY <1>2, <3>1, <3>2
  <2>2. a * (b * s) = (b * a) * s
    BY <1>2
  <2>3. a * q \in Nat /\ a * (b * s) \in Nat
    BY <1>2
  <2>4. QED
    BY <1>2, <2>1, <2>2, <2>3
<1>4. n < (b * a) * s + b * a
  <2>1. q + 1 <= b * s + b
    BY <1>2
  <2>2. a * (q + 1) <= a * (b * s + b)
    <3>1. \A x, y \in Nat, z \in Nat : x <= y => z * x <= z * y
      OBVIOUS
    <3>2. q + 1 \in Nat /\ b * s + b \in Nat /\ a \in Nat
      BY <1>2
    <3>3. QED
      BY <2>1, <3>1, <3>2
  <2>3. a * (q + 1) = a * q + a /\ a * (b * s + b) = (b * a) * s + b * a
    BY <1>2
  <2>4. a * q + a \in Nat /\ a * (q + 1) \in Nat /\ a * (b * s + b) \in Nat
    BY <1>2
  <2>5. QED
    BY <1>2, <2>2, <2>3, <2>4
<1>5. \A x, k \in Nat, y \in Nat \ {0} : y * k <= x /\ x < y * k + y => x \div y = k
  OBVIOUS
<1>6. b * a \in Nat \ {0}
  BY <1>1
<1>7. QED
  BY <1>2, <1>3, <1>4, <1>5, <1>6 DEF q, s

\* A number is put together again from its bytes, the last one first.
LEMMA NumberDef ==
    ASSUME CodecAssumption, NEW bytes \in Seq(Nat)
    PROVE  \E num \in [1..Len(bytes) + 1 -> Nat] :
              /\ Number(bytes) = num[1] /\ num[Len(bytes) + 1] = 0
              /\ \A i \in 1..Len(bytes) : num[i] = bytes[i] + Radix * num[i + 1]
<1> DEFINE n == Len(bytes)
           D == DOMAIN bytes
           iter[t \in SUBSET D] ==
               IF t = {} THEN 0
               ELSE LET x == Min(t) IN bytes[x] + Radix * iter[t \ {x}]
<1>1. Number(bytes) = iter[D]
  BY DEF Number, FoldRight, MapThenFoldSet
<1>2. n \in Nat /\ D = 1..n /\ Radix \in Nat /\ \A i \in D : bytes[i] \in Nat
  BY DEF CodecAssumption
<1> HIDE DEF n
<1>3. \E g : g = [t \in SUBSET D |-> IF t = {} THEN 0
                                      ELSE LET x == Min(t) IN bytes[x] + Radix * g[t \ {x}]]
  <2> DEFINE step == [p \in D \X Nat |-> bytes[p[1]] + Radix * p[2]]
  <2>1. \A a, b, c \in Nat : a + b * c \in Nat
    OBVIOUS
  <2>2. step \in [D \X Nat -> Nat] /\ \A k \in D, v \in Nat : step[<<k, v>>] = bytes[k] + Radix * v
    BY <1>2, <2>1
  <2> HIDE DEF step
  <2>3. PICK g \in [SUBSET D -> Nat] : RightUnfolds(g, n, 0, step)
    BY <1>2, <2>2, RightRecursion
  <2>4. \A t \in SUBSET D : t # {} => Min(t) \in D
    BY <1>2, LeastOf
  <2>5. \A t \in SUBSET D :
           g[t] = IF t = {} THEN 0 ELSE bytes[Min(t)] + Radix * g[t \ {Min(t)}]
    BY <1>2, <2>2, <2>3, <2>4 DEF RightUnfolds
  <2>6. QED
    BY <2>5
<1>4. iter = [t \in SUBSET D |-> IF t = {} THEN 0
                                 ELSE LET x == Min(t) IN bytes[x] + Radix * iter[t \ {x}]]
  BY <1>3
<1> HIDE DEF iter
<1> DEFINE num == [i \in 1..n + 1 |-> iter[i..n]]
<1>5. num[1] = iter[D] /\ num[n + 1] = 0
  <2>1. n + 1..n = {} /\ 1 \in 1..n + 1 /\ n + 1 \in 1..n + 1
    BY <1>2
  <2>2. QED
    BY <1>2, <1>4, <2>1
<1>6. ASSUME NEW i \in 1..n PROVE num[i] = bytes[i] + Radix * num[i + 1]
  <2>1. i \in 1..n + 1 /\ i + 1 \in 1..n + 1
    BY <1>2
  <2>2. /\ i..n \in SUBSET D /\ i..n # {} /\ Min(i..n) = i
        /\ (i..n) \ {i} = i + 1..n
    BY <1>2, RightPart
  <2>3. iter[i..n] = bytes[i] + Radix * iter[i + 1..n]
    BY <1>4, <2>2
  <2>4. QED
    BY <2>1, <2>3
<1>7. num = [i \in 1..n + 1 |-> num[i]]
  OBVIOUS
<1> HIDE DEF num
<1> DEFINE T == {k \in 0..n : num[k + 1] \in Nat}
<1>8. \A k \in 0..n : k \in T
  <2>1. n \in T
    BY <1>2, <1>5
  <2>2. ASSUME NEW k \in 1..n, k \in T PROVE k - 1 \in T
    <3>1. \A a, b, c \in Nat : a + b * c \in Nat
      OBVIOUS
    <3>2. (k - 1) + 1 = k /\ k - 1 \in 0..n /\ num[k] = bytes[k] + Radix * num[k + 1]
      BY <1>2, <1>6
    <3>3. num[k] \in Nat
      <4>1. bytes[k] \in Nat /\ Radix \in Nat /\ num[k + 1] \in Nat
        BY <1>2, <2>2
      <4>2. bytes[k] + Radix * num[k + 1] \in Nat
        BY <3>1, <4>1
      <4>3. QED
        BY <3>2, <4>2
    <3>4. QED
      BY <3>2, <3>3
  <2> HIDE DEF T
  <2>3. QED
    BY <1>2, <2>1, <2>2, DownFrom
<1>9. \A i \in 1..n + 1 : num[i] \in Nat
  <2>1. \A i \in 1..n + 1 : i - 1 \in 0..n /\ (i - 1) + 1 = i
    BY <1>2
  <2>2. QED
    BY <1>8, <2>1
<1>10. num \in [1..n + 1 -> Nat]
  BY <1>7, <1>9
<1>11. QED
  BY <1>1, <1>5, <1>6, <1>10 DEF n

\* deserialize of an integer undoes serialize, for the numbers of its type.
LEMMA NumberOfUint ==
    ASSUME CodecAssumption, NEW width \in 0..Long, NEW n \in 0..Values[width] - 1
    PROVE  /\ Uint(width, n) \in Seq(Nat) /\ Len(Uint(width, n)) = width
           /\ Number(Uint(width, n)) = n
<1> DEFINE bytes == Uint(width, n)
<1>1. /\ Long \in Nat /\ width \in Nat /\ Radix \in Nat \ {0} /\ n \in Nat
      /\ \A k \in 0..width : k \in 0..Long /\ Values[k] \in Nat \ {0}
  BY ValuesDef DEF CodecAssumption
<1>2. \A i \in 1..width : /\ i - 1 \in 0..width /\ i \in 0..width
                          /\ (n \div Values[i - 1]) \in Nat
                          /\ (n \div Values[i - 1]) % Radix \in Nat
                          /\ bytes[i] = (n \div Values[i - 1]) % Radix
  <2>1. \A a \in Nat, b, c \in Nat \ {0} : a \div b \in Nat /\ (a \div b) % c \in Nat
    OBVIOUS
  <2>2. \A i \in 1..width : i - 1 \in 0..width /\ i \in 0..width
    BY <1>1
  <2>3. QED
    BY <1>1, <2>1, <2>2 DEF Uint
<1>3. bytes \in Seq(Nat) /\ Len(bytes) = width
  BY <1>1, <1>2 DEF Uint
<1> HIDE DEF bytes
<1>4. PICK num \in [1..width + 1 -> Nat] :
            /\ Number(bytes) = num[1] /\ num[width + 1] = 0
            /\ \A i \in 1..width : num[i] = bytes[i] + Radix * num[i + 1]
  BY <1>3, NumberDef
<1> DEFINE T == {k \in 0..width : num[k + 1] = n \div Values[k]}
<1>5. width \in T
  <2>1. \A a, b \in Nat : a < b => a \div b = 0
    BY SMTT(20)
  <2>2. n < Values[width] /\ Values[width] \in Nat /\ width \in 0..width
    BY <1>1
  <2>3. QED
    BY <1>1, <1>4, <2>1, <2>2
<1>6. ASSUME NEW k \in 1..width, k \in T PROVE k - 1 \in T
  <2>1. k - 1 \in 0..width /\ (k - 1) + 1 = k
    BY <1>1
  <2>2. Values[k] = Radix * Values[k - 1]
    BY <1>1, <1>2, ValuesDef
  <2>3. (n \div Values[k - 1]) \div Radix = n \div Values[k]
    <3>1. \A a, b \in Nat \ {0} : (n \div a) \div b = n \div (b * a)
      BY <1>1, DividedTwice
    <3>2. Values[k - 1] \in Nat \ {0} /\ Radix \in Nat \ {0}
      BY <1>1, <2>1
    <3>3. QED
      BY <2>2, <3>1, <3>2, ZenonT(30)
  <2>4. \A a \in Nat, b \in Nat \ {0} : (a % b) + b * (a \div b) = a
    OBVIOUS
  <2>5. num[k] = bytes[k] + Radix * num[k + 1] /\ num[k + 1] = n \div Values[k]
    BY <1>4, <1>6
  <2>6. num[k] = n \div Values[k - 1]
    <3>1. bytes[k] = (n \div Values[k - 1]) % Radix /\ (n \div Values[k - 1]) \in Nat
      BY <1>2
    <3>2. num[k] = ((n \div Values[k - 1]) % Radix) + Radix * ((n \div Values[k - 1]) \div Radix)
      BY <2>3, <2>5, <3>1, Zenon
    <3>3. QED
      BY <1>1, <2>4, <3>1, <3>2, Zenon
  <2>7. QED
    BY <2>1, <2>6
<1>7. 0 \in T
  <2> HIDE DEF T
  <2>1. 0 \in 0..width
    BY <1>1
  <2>2. QED
    BY <1>1, <1>5, <1>6, <2>1, DownFrom
<1>8. Number(bytes) = n
  <2>1. Values[0] = 1
    BY <1>1, ValuesDef
  <2>2. num[1] = n \div 1
    BY <1>7, <2>1
  <2>3. QED
    BY <1>1, <1>4, <2>2
<1>9. QED
  BY <1>3, <1>8 DEF bytes

-----------------------------------------------------------------------------
(* Reading what was written.                                                 *)

\* Bytes put one behind the other.
LEMMA JoinedBytes ==
    \A s, t \in Seq(Nat) : s \o t \in Seq(Nat) /\ Len(s \o t) = Len(s) + Len(t)
BY Joined, Zenon

\* The reader of the first bytes of a buffer, up to the limit, that has read p of them; or
\* of a buffer that ends before.
Reached(bytes, limit, p, read) ==
    IF limit < p THEN Thrown ELSE [rest |-> Section(bytes, p, limit), read |-> read]

Readers == {Thrown} \cup [rest : Seq(Nat), read : Seq(Seq(Nat))]

\* Too few bytes: the reader throws.
LEMMA TakeShort ==
    ASSUME NEW reader, NEW size1, reader = Thrown \/ Len(reader.rest) < size1
    PROVE  Take(reader, size1) = Thrown
<1> DEFINE short == reader = Thrown \/ Len(reader.rest) < size1
           longer == [rest |-> SubSeq(reader.rest, size1 + 1, Len(reader.rest)),
                      read |-> Append(reader.read, SubSeq(reader.rest, 1, size1))]
<1>1. Take(reader, size1) = IF short THEN Thrown ELSE longer
  BY ZenonT(60) DEF Take
<1>2. short
  OBVIOUS
<1> HIDE DEF short, longer
<1>3. QED
  BY <1>1, <1>2, Zenon

\* They come off the rest, to the end of what is read.
LEMMA TakeLong ==
    ASSUME NEW reader, NEW size1, ~(reader = Thrown \/ Len(reader.rest) < size1)
    PROVE  Take(reader, size1) = [rest |-> SubSeq(reader.rest, size1 + 1, Len(reader.rest)),
                                  read |-> Append(reader.read, SubSeq(reader.rest, 1, size1))]
<1> DEFINE short == reader = Thrown \/ Len(reader.rest) < size1
           longer == [rest |-> SubSeq(reader.rest, size1 + 1, Len(reader.rest)),
                      read |-> Append(reader.read, SubSeq(reader.rest, 1, size1))]
<1>1. Take(reader, size1) = IF short THEN Thrown ELSE longer
  BY ZenonT(60) DEF Take
<1>2. ~short
  OBVIOUS
<1>3. SUFFICES Take(reader, size1) = longer
  OBVIOUS
<1> HIDE DEF short, longer
<1>4. QED
  BY <1>1, <1>2, Zenon

\* Taking as many bytes as the next piece has reads that piece, if they are all there.
LEMMA TakePiece ==
    ASSUME Thrown \notin [rest : Seq(Nat), read : Seq(Seq(Nat))],
           NEW bytes \in Seq(Nat), NEW limit \in 0..Len(bytes), NEW p \in Nat,
           NEW read \in Seq(Seq(Nat)), NEW piece \in Seq(Nat), Holds(bytes, p, piece)
    PROVE  /\ Take(Reached(bytes, limit, p, read), Len(piece))
                  = Reached(bytes, limit, p + Len(piece), Append(read, piece))
           /\ Reached(bytes, limit, p, read) \in Readers
           /\ Reached(bytes, limit, p, read) = Thrown <=> limit < p
<1> DEFINE n == Len(piece)
           reader == Reached(bytes, limit, p, read)
           rest == Section(bytes, p, limit)
<1>1. n \in Nat /\ limit \in Nat /\ Len(bytes) \in Nat
  OBVIOUS
<1>2. CASE limit < p
  <2>1. reader = Thrown /\ limit < p + n
    BY <1>1, <1>2 DEF Reached
  <2>2. Reached(bytes, limit, p + n, Append(read, piece)) = Thrown
    BY <2>1, Zenon DEF Reached
  <2>3. Take(reader, n) = Thrown
    BY <2>1, TakeShort, Zenon
  <2>4. QED
    BY <1>2, <2>1, <2>2, <2>3, Zenon DEF Readers
<1>3. CASE ~(limit < p)
  <2>1. p \in 0..limit
    BY <1>1, <1>3
  <2>2. rest \in Seq(Nat) /\ Len(rest) = limit - p
    <3>1. IsSection(Section(bytes, p, limit), Nat, bytes, p, limit)
      BY <2>1, SectionOf, Zenon
    <3>2. QED
      BY <3>1 DEF IsSection
  <2>3. reader = [rest |-> rest, read |-> read]
    BY <1>3 DEF Reached
  <2>4. reader \in Readers /\ reader # Thrown
    BY <2>2, <2>3 DEF Readers
  <2>5. reader.rest = rest /\ reader.read = read
    BY <2>3
  <2> HIDE DEF reader
  <2>6. CASE limit < p + n
    <3>1. Len(reader.rest) < n
      BY <1>1, <2>2, <2>5, <2>6
    <3>2. Take(reader, n) = Thrown
      BY <3>1, TakeShort, Zenon
    <3>3. Reached(bytes, limit, p + n, Append(read, piece)) = Thrown
      BY <2>6 DEF Reached
    <3>4. QED
      BY <1>3, <2>4, <3>2, <3>3 DEF reader
  <2>7. CASE ~(limit < p + n)
    <3>1. ~(Len(rest) < n) /\ p + n <= limit
      BY <1>1, <2>2, <2>7
    <3>2. Take(reader, n) = [rest |-> Section(bytes, p + n, limit), read |-> Append(read, piece)]
      <4> HIDE DEF rest
      <4>1. Take(reader, n) = [rest |-> SubSeq(rest, n + 1, Len(rest)),
                               read |-> Append(read, SubSeq(rest, 1, n))]
        BY <2>4, <2>5, <3>1, TakeLong, Zenon
      <4>2. /\ SubSeq(rest, n + 1, Len(rest)) = Section(rest, n, Len(rest))
            /\ SubSeq(rest, 1, n) = Section(rest, 0, n)
        <5>1. 0 + 1 = 1
          OBVIOUS
        <5>2. QED
          BY <5>1, Zenon DEF Section
      <4>3. Section(rest, 0, n) = piece /\ Section(rest, n, Len(rest)) = Section(bytes, p + n, limit)
        BY <2>1, <3>1, NextPiece DEF rest
      <4>4. QED
        BY <4>1, <4>2, <4>3, Zenon
    <3>3. Reached(bytes, limit, p + n, Append(read, piece))
              = [rest |-> Section(bytes, p + n, limit), read |-> Append(read, piece)]
      BY <2>7, Zenon DEF Reached
    <3>4. QED
      BY <1>3, <2>4, <3>2, <3>3 DEF reader
  <2>8. QED
    BY <2>6, <2>7
<1>4. QED
  BY <1>2, <1>3

\* The bytes of the description of a file, and the pieces in which they are read.
InfoSet == [path : Seq(Nat), size : 0..Values[Long] - 1]
InfoBytes(info) == Uint(Short, Len(info.path)) \o info.path \o Uint(Long, info.size)
WithInfo(read, info) ==
    Append(Append(Append(read, Uint(Short, Len(info.path))), info.path), Uint(Long, info.size))

\* One turn of the loop over the files reads a path and a size.
LEMMA InfoReads ==
    ASSUME CodecAssumption, NEW bytes \in Seq(Nat), NEW limit \in 0..Len(bytes), NEW p \in Nat,
           NEW read \in Seq(Seq(Nat)), NEW info \in InfoSet, PathFits(info.path), NEW i,
           Holds(bytes, p, InfoBytes(info))
    PROVE  TakeInfo(Reached(bytes, limit, p, read), i)
               = Reached(bytes, limit, p + Len(InfoBytes(info)), WithInfo(read, info))
<1> DEFINE path == info.path
           n == info.size
<1>0. /\ path \in Seq(Nat) /\ n \in 0..Values[Long] - 1 /\ PathFits(path)
      /\ Holds(bytes, p, Uint(Short, Len(path)) \o path \o Uint(Long, n))
  BY DEF InfoSet, InfoBytes
<1> HIDE DEF path, n
<1> DEFINE u == Uint(Short, Len(path))
           v == Uint(Long, n)
<1>1. u \in Seq(Nat) /\ Len(u) = Short /\ Number(u) = Len(path)
  <2>1. Short \in 0..Long /\ Values[Short] \in Nat
    BY ValuesDef DEF CodecAssumption
  <2>2. Len(path) \in 0..Values[Short] - 1
    <3>1. Len(path) \in Nat
      BY <1>0
    <3>2. QED
      BY <1>0, <2>1, <3>1 DEF PathFits
  <2>3. QED
    BY <2>1, <2>2, NumberOfUint
<1>2. v \in Seq(Nat) /\ Len(v) = Long
  <2>1. Long \in 0..Long
    BY DEF CodecAssumption
  <2>2. QED
    BY <1>0, <2>1, NumberOfUint
<1>3. Thrown \notin [rest : Seq(Nat), read : Seq(Seq(Nat))] /\ Short \in Nat /\ Long \in Nat
  BY DEF CodecAssumption
<1> DEFINE r1 == Append(read, u)
           r2 == Append(r1, path)
           r3 == Append(r2, v)
           p1 == p + Len(u)
           p2 == p1 + Len(path)
           p3 == p2 + Len(v)
<1> HIDE DEF u, v
<1>4. r1 \in Seq(Seq(Nat)) /\ r2 \in Seq(Seq(Nat)) /\ r3 \in Seq(Seq(Nat)) /\ Last(r1) = u
  <2>1. \A s \in Seq(Seq(Nat)), x \in Seq(Nat) : Append(s, x) \in Seq(Seq(Nat))
    OBVIOUS
  <2>2. r1 \in Seq(Seq(Nat)) /\ r2 \in Seq(Seq(Nat)) /\ r3 \in Seq(Seq(Nat))
    BY <1>0, <1>1, <1>2, <2>1, Zenon
  <2>3. Len(r1) = Len(read) + 1 /\ r1[Len(read) + 1] = u
    BY <1>1, AppendProperties
  <2>4. QED
    BY <2>2, <2>3 DEF Last
<1>5. p1 \in Nat /\ p2 \in Nat
  BY <1>0, <1>1, <1>3
<1>6. /\ Holds(bytes, p, u) /\ Holds(bytes, p1, path) /\ Holds(bytes, p2, v)
      /\ p + Len(u \o path \o v) = p3
  <2>1. u \o path \in Seq(Nat) /\ Len(u \o path) = Len(u) + Len(path)
    BY <1>0, <1>1, Joined, ZenonT(30)
  <2>2. Len(u \o path \o v) = Len(u \o path) + Len(v)
    <3>1. \A s \in Seq(Nat) : Len(s \o v) = Len(s) + Len(v)
      BY <1>2, Joined, Zenon
    <3>2. QED
      BY <2>1, <3>1, Zenon
  <2>3. Holds(bytes, p, (u \o path) \o v)
    BY <1>0 DEF u, v
  <2>4. Holds(bytes, p, u \o path) /\ Holds(bytes, p + Len(u \o path), v)
    BY <1>2, <2>1, <2>3, HoldsParts, Zenon
  <2>5. Holds(bytes, p, u) /\ Holds(bytes, p1, path)
    BY <1>0, <1>1, <2>4, HoldsParts, Zenon
  <2>6. p + Len(u \o path) = p2
    <3>1. Len(u) \in Nat /\ Len(path) \in Nat
      BY <1>0, <1>1
    <3>2. QED
      BY <2>1, <3>1
  <2>7. p + (Len(u \o path) + Len(v)) = p3
    <3>1. Len(u \o path) \in Nat /\ Len(v) \in Nat
      BY <1>2, <2>1
    <3>2. QED
      BY <2>6, <3>1
  <2>8. QED
    BY <2>2, <2>4, <2>5, <2>6, <2>7, Zenon
<1> DEFINE at(q, r) == Reached(bytes, limit, q, r)
<1> HIDE DEF r1, r2, r3, p1, p2, p3
<1>7. ASSUME NEW q \in Nat, NEW r \in Seq(Seq(Nat)), NEW piece \in Seq(Nat), Holds(bytes, q, piece)
      PROVE  /\ Take(at(q, r), Len(piece)) = at(q + Len(piece), Append(r, piece))
             /\ at(q, r) \in Readers /\ (at(q, r) = Thrown <=> limit < q)
  BY <1>3, <1>7, TakePiece
<1>8. Take(at(p, read), Len(u)) = at(p1, r1)
  BY <1>1, <1>6, <1>7, Zenon DEF p1, r1
<1>9. /\ Take(at(p1, r1), Len(path)) = at(p2, r2) /\ at(p1, r1) \in Readers
      /\ at(p1, r1) = Thrown <=> limit < p1
  <2>1. /\ Take(at(p1, r1), Len(path)) = at(p1 + Len(path), Append(r1, path))
        /\ at(p1, r1) \in Readers /\ (at(p1, r1) = Thrown <=> limit < p1)
    BY <1>0, <1>4, <1>5, <1>6, <1>7, Zenon
  <2>2. QED
    BY <2>1, Zenon DEF p2, r2
<1>10. Take(at(p2, r2), Len(v)) = at(p3, r3)
  <2>1. v \in Seq(Nat) /\ p2 \in Nat /\ r2 \in Seq(Seq(Nat)) /\ Holds(bytes, p2, v)
    BY <1>2, <1>4, <1>5, <1>6
  <2>2. /\ Take(at(p2, r2), Len(v)) = at(p2 + Len(v), Append(r2, v))
        /\ at(p2, r2) \in Readers /\ (at(p2, r2) = Thrown <=> limit < p2)
    BY <1>7, <2>1, Zenon
  <2>3. QED
    BY <2>2, Zenon DEF p3, r3
<1>11. TakeInfo(at(p, read), i) = at(p3, r3)
  <2>1. CASE at(p1, r1) = Thrown
    <3>1. limit < p2
      <4>1. limit \in Nat /\ limit < p1 /\ p2 = p1 + Len(path) /\ Len(path) \in Nat
        BY <1>0, <1>9, <2>1 DEF p2
      <4>2. QED
        BY <1>5, <4>1
    <3>2. at(p2, r2) = Thrown
      BY <3>1 DEF Reached
    <3>3. QED
      BY <1>1, <1>2, <1>8, <1>10, <2>1, <3>2, Zenon DEF TakeInfo
  <2>2. CASE at(p1, r1) # Thrown
    <3>1. Last(at(p1, r1).read) = u
      <4>1. ~(limit < p1)
        BY <1>9, <2>2
      <4>2. at(p1, r1) = [rest |-> Section(bytes, p1, limit), read |-> r1]
        BY <4>1 DEF Reached
      <4>3. at(p1, r1).read = r1
        BY <4>2
      <4>4. QED
        BY <1>4, <4>3
    <3>2. QED
      BY <1>1, <1>2, <1>8, <1>9, <1>10, <2>2, <3>1, Zenon DEF TakeInfo
  <2>3. QED
    BY <2>1, <2>2
<1>12. QED
  <2>1. r3 = WithInfo(read, info) /\ p3 = p + Len(InfoBytes(info))
    BY <1>6, Zenon DEF u, v, r1, r2, r3, path, n, WithInfo, InfoBytes
  <2>2. QED
    BY <1>11, <2>1, Zenon

\* The numbers before the files are read from this many bytes.
Fixed == Wide + Long + Wide + Wide + Wide
HeaderOf(bytes) ==
    Take(Take(Take(Take(Take([rest |-> bytes, read |-> <<>>], Wide), Long), Wide), Wide), Wide)

\* What reading them gives, when they are u1 to u5 and the rest of the buffer follows.
HeaderRead(bytes, limit, u1, u2, u3, u4, u5, rest) ==
    /\ HeaderOf(SubSeq(bytes, 1, limit)) = Reached(bytes, limit, Fixed, <<u1, u2, u3, u4, u5>>)
    /\ Holds(bytes, Fixed, rest) /\ Fixed \in Nat
    /\ <<u1, u2, u3, u4, u5>> \in Seq(Seq(Nat))

\* The five numbers before the files.
LEMMA HeaderReads ==
    ASSUME CodecAssumption, NEW bytes \in Seq(Nat), NEW limit \in 0..Len(bytes),
           NEW u1 \in Seq(Nat), NEW u2 \in Seq(Nat), NEW u3 \in Seq(Nat), NEW u4 \in Seq(Nat),
           NEW u5 \in Seq(Nat), NEW rest \in Seq(Nat),
           Len(u1) = Wide, Len(u2) = Long, Len(u3) = Wide, Len(u4) = Wide, Len(u5) = Wide,
           Holds(bytes, 0, u1 \o u2 \o u3 \o u4 \o u5 \o rest)
    PROVE  HeaderRead(bytes, limit, u1, u2, u3, u4, u5, rest)
<1> DEFINE at(q, r) == Reached(bytes, limit, q, r)
           start == [rest |-> SubSeq(bytes, 1, limit), read |-> <<>>]
           p1 == Wide
           p2 == p1 + Long
           p3 == p2 + Wide
           p4 == p3 + Wide
           p5 == p4 + Wide
           r1 == Append(<<>>, u1)
           r2 == Append(r1, u2)
           r3 == Append(r2, u3)
           r4 == Append(r3, u4)
           r5 == Append(r4, u5)
<1>1. /\ Thrown \notin [rest : Seq(Nat), read : Seq(Seq(Nat))] /\ Wide \in Nat /\ Long \in Nat
      /\ p1 \in Nat /\ p2 \in Nat /\ p3 \in Nat /\ p4 \in Nat /\ p5 \in Nat
  <2>1. Wide \in Nat /\ Long \in Nat
    BY DEF CodecAssumption
  <2>2. Thrown \notin [rest : Seq(Nat), read : Seq(Seq(Nat))]
    BY Zenon DEF CodecAssumption
  <2>3. p1 \in Nat /\ p2 \in Nat /\ p3 \in Nat /\ p4 \in Nat /\ p5 \in Nat
    BY <2>1
  <2>4. QED
    BY <2>1, <2>2, <2>3, Zenon
<1>2. \A s \in Seq(Seq(Nat)), x \in Seq(Nat) : Append(s, x) \in Seq(Seq(Nat))
  OBVIOUS
<1>3. \A s, t \in Seq(Nat) : s \o t \in Seq(Nat) /\ Len(s \o t) = Len(s) + Len(t)
  BY JoinedBytes, Zenon
<1>4. ASSUME NEW q \in Nat, NEW s \in Seq(Nat), NEW t \in Seq(Nat), Holds(bytes, q, s \o t)
      PROVE  Holds(bytes, q, s) /\ Holds(bytes, q + Len(s), t)
  BY <1>4, HoldsParts
<1>5. /\ Holds(bytes, 0, u1) /\ Holds(bytes, p1, u2) /\ Holds(bytes, p2, u3)
      /\ Holds(bytes, p3, u4) /\ Holds(bytes, p4, u5) /\ Holds(bytes, p5, rest)
  <2> DEFINE v2 == u1 \o u2
             v3 == v2 \o u3
             v4 == v3 \o u4
             v5 == v4 \o u5
  <2>1. v2 \in Seq(Nat) /\ v3 \in Seq(Nat) /\ v4 \in Seq(Nat) /\ v5 \in Seq(Nat)
    BY <1>3, Zenon
  <2>2. Len(v2) = p2 /\ Len(v3) = p3 /\ Len(v4) = p4 /\ Len(v5) = p5
    <3> HIDE DEF v2, v3, v4, v5
    <3>1. Len(v2) = Len(u1) + Len(u2) /\ Len(v3) = Len(v2) + Len(u3)
      BY <1>3, <2>1, Zenon DEF v2, v3
    <3>2. Len(v4) = Len(v3) + Len(u4) /\ Len(v5) = Len(v4) + Len(u5)
      BY <1>3, <2>1, Zenon DEF v4, v5
    <3>3. QED
      BY <3>1, <3>2
  <2>3. Holds(bytes, 0, v5 \o rest)
    OBVIOUS
  <2> HIDE DEF v2, v3, v4, v5, p2, p3, p4, p5
  <2>4. 0 \in Nat /\ \A k \in {p1, p2, p3, p4, p5} : 0 + k = k
    BY <1>1
  <2>5. Holds(bytes, 0, v5) /\ Holds(bytes, p5, rest)
    <3>1. Holds(bytes, 0, v5) /\ Holds(bytes, 0 + Len(v5), rest)
      BY <1>4, <2>1, <2>3, <2>4, Zenon
    <3>2. QED
      BY <2>2, <2>4, <3>1
  <2>6. Holds(bytes, 0, v4) /\ Holds(bytes, p4, u5)
    <3>1. Holds(bytes, 0, v4 \o u5)
      BY <2>5 DEF v5
    <3>2. Holds(bytes, 0, v4) /\ Holds(bytes, 0 + Len(v4), u5)
      BY <1>4, <2>1, <2>4, <3>1, Zenon
    <3>3. QED
      BY <2>2, <2>4, <3>2
  <2>7. Holds(bytes, 0, v3) /\ Holds(bytes, p3, u4)
    <3>1. Holds(bytes, 0, v3 \o u4)
      BY <2>6 DEF v4
    <3>2. Holds(bytes, 0, v3) /\ Holds(bytes, 0 + Len(v3), u4)
      BY <1>4, <2>1, <2>4, <3>1, Zenon
    <3>3. QED
      BY <2>2, <2>4, <3>2
  <2>8. Holds(bytes, 0, v2) /\ Holds(bytes, p2, u3)
    <3>1. Holds(bytes, 0, v2 \o u3)
      BY <2>7 DEF v3
    <3>2. Holds(bytes, 0, v2) /\ Holds(bytes, 0 + Len(v2), u3)
      BY <1>4, <2>1, <2>4, <3>1, Zenon
    <3>3. QED
      BY <2>2, <2>4, <3>2
  <2>9. Holds(bytes, 0, u1) /\ Holds(bytes, p1, u2)
    <3>1. Holds(bytes, 0, u1 \o u2)
      BY <2>8 DEF v2
    <3>2. Holds(bytes, 0, u1) /\ Holds(bytes, 0 + Len(u1), u2)
      BY <1>4, <2>4, <3>1, Zenon
    <3>3. QED
      BY <2>4, <3>2
  <2>10. QED
    BY <2>5, <2>6, <2>7, <2>8, <2>9, Zenon
<1>6. start = at(0, <<>>) /\ <<>> \in Seq(Seq(Nat))
  <2>1. 0 + 1 = 1 /\ ~(limit < 0)
    OBVIOUS
  <2>2. QED
    BY <2>1 DEF Reached, Section
<1>7. ASSUME NEW q \in Nat, NEW r \in Seq(Seq(Nat)), NEW piece \in Seq(Nat), Holds(bytes, q, piece)
      PROVE  Take(at(q, r), Len(piece)) = at(q + Len(piece), Append(r, piece))
  BY <1>1, <1>7, TakePiece
<1> HIDE DEF start, at
<1>8. /\ r1 \in Seq(Seq(Nat)) /\ r2 \in Seq(Seq(Nat)) /\ r3 \in Seq(Seq(Nat))
      /\ r4 \in Seq(Seq(Nat)) /\ r5 \in Seq(Seq(Nat))
  BY <1>2, <1>6, Zenon
<1> HIDE DEF r1, r2, r3, r4, r5, p1, p2, p3, p4, p5
<1>9. Take(start, Wide) = at(p1, r1)
  <2>1. 0 \in Nat /\ 0 + Wide = p1
    BY <1>1 DEF p1
  <2>2. Take(at(0, <<>>), Len(u1)) = at(0 + Len(u1), Append(<<>>, u1))
    BY <1>5, <1>6, <1>7, <2>1, Zenon
  <2>3. QED
    BY <1>6, <2>1, <2>2 DEF r1
<1>10. Take(at(p1, r1), Long) = at(p2, r2)
  <2>1. Take(at(p1, r1), Len(u2)) = at(p1 + Len(u2), Append(r1, u2))
    BY <1>1, <1>5, <1>7, <1>8, Zenon
  <2>2. QED
    BY <2>1 DEF p2, r2
<1>11. Take(at(p2, r2), Wide) = at(p3, r3)
  <2>1. Take(at(p2, r2), Len(u3)) = at(p2 + Len(u3), Append(r2, u3))
    BY <1>1, <1>5, <1>7, <1>8, Zenon
  <2>2. QED
    BY <2>1 DEF p3, r3
<1>12. Take(at(p3, r3), Wide) = at(p4, r4)
  <2>1. Take(at(p3, r3), Len(u4)) = at(p3 + Len(u4), Append(r3, u4))
    BY <1>1, <1>5, <1>7, <1>8, Zenon
  <2>2. QED
    BY <2>1 DEF p4, r4
<1>13. Take(at(p4, r4), Wide) = at(p5, r5)
  <2>1. Take(at(p4, r4), Len(u5)) = at(p4 + Len(u5), Append(r4, u5))
    BY <1>1, <1>5, <1>7, <1>8, Zenon
  <2>2. QED
    BY <2>1 DEF p5, r5
<1>14. r5 = <<u1, u2, u3, u4, u5>>
  <2> DEFINE S == Seq(Nat)
             r0 == <<>>
             all == <<u1, u2, u3, u4, u5>>
  <2>1. ASSUME NEW s \in Seq(S), NEW x \in S
        PROVE  /\ Append(s, x) \in Seq(S) /\ Len(Append(s, x)) = Len(s) + 1
               /\ \A i \in 1..Len(s) : Append(s, x)[i] = s[i]
               /\ Append(s, x)[Len(s) + 1] = x
    BY AppendProperties
  <2>2. all \in Seq(S) /\ Len(all) = 5
        /\ all[1] = u1 /\ all[2] = u2 /\ all[3] = u3 /\ all[4] = u4 /\ all[5] = u5
    OBVIOUS
  <2>3. r0 \in Seq(S) /\ Len(r0) = 0 /\ u1 \in S /\ u2 \in S /\ u3 \in S /\ u4 \in S /\ u5 \in S
    OBVIOUS
  <2>4. r1 = Append(r0, u1) /\ r2 = Append(r1, u2) /\ r3 = Append(r2, u3) /\ r4 = Append(r3, u4)
        /\ r5 = Append(r4, u5)
    BY DEF r1, r2, r3, r4, r5
  <2> HIDE DEF S, r0, all
  <2>5. Len(r1) = 1 /\ r1[1] = u1 /\ r1 \in Seq(S)
    BY <2>1, <2>3, <2>4
  <2>6. Len(r2) = 2 /\ r2[1] = u1 /\ r2[2] = u2 /\ r2 \in Seq(S)
    BY <2>1, <2>3, <2>4, <2>5
  <2>7. Len(r3) = 3 /\ r3[1] = u1 /\ r3[2] = u2 /\ r3[3] = u3 /\ r3 \in Seq(S)
    BY <2>1, <2>3, <2>4, <2>6
  <2>8. Len(r4) = 4 /\ r4[1] = u1 /\ r4[2] = u2 /\ r4[3] = u3 /\ r4[4] = u4 /\ r4 \in Seq(S)
    BY <2>1, <2>3, <2>4, <2>7
  <2>9. /\ Len(r5) = 5 /\ r5[1] = u1 /\ r5[2] = u2 /\ r5[3] = u3 /\ r5[4] = u4 /\ r5[5] = u5
        /\ r5 \in Seq(S)
    BY <2>1, <2>3, <2>4, <2>8
  <2>10. Len(r5) = Len(all) /\ \A i \in 1..Len(r5) : r5[i] = all[i]
    BY <2>2, <2>9
  <2>11. r5 = all
    BY <2>2, <2>9, <2>10, SeqEqual, Zenon
  <2>12. QED
    BY <2>11 DEF all
<1>15. Take(Take(Take(Take(Take(start, Wide), Long), Wide), Wide), Wide) = at(p5, r5)
  BY <1>9, <1>10, <1>11, <1>12, <1>13, Zenon
<1>16. p5 = Fixed
  BY DEF p1, p2, p3, p4, p5, Fixed
<1>17. QED
  BY <1>1, <1>5, <1>8, <1>14, <1>15, <1>16 DEF start, at, HeaderOf, HeaderRead

\* What is taken is a sequence of bytes, and so is what is left.
LEMMA TakeTyped ==
    ASSUME NEW reader \in Readers, NEW size1 \in Nat
    PROVE  /\ Take(reader, size1) \in Readers
           /\ Take(reader, size1) # Thrown => Last(Take(reader, size1).read) \in Seq(Nat)
<1>1. CASE reader = Thrown \/ Len(reader.rest) < size1
  <2>1. Take(reader, size1) = Thrown
    BY <1>1, TakeShort, Zenon
  <2>2. QED
    BY <2>1, Zenon DEF Readers
<1>2. CASE ~(reader = Thrown \/ Len(reader.rest) < size1)
  <2> DEFINE rest == reader.rest
             read == reader.read
             left == SubSeq(rest, size1 + 1, Len(rest))
             part == SubSeq(rest, 1, size1)
  <2>1. rest \in Seq(Nat) /\ read \in Seq(Seq(Nat))
    BY <1>2 DEF Readers
  <2>2. Take(reader, size1) = [rest |-> left, read |-> Append(read, part)]
    BY <1>2, TakeLong, Zenon
  <2>3. Len(rest) \in Nat /\ ~(Len(rest) < size1)
    BY <1>2, <2>1
  <2> HIDE DEF rest, read
  <2>4. left \in Seq(Nat)
    <3>1. Len(rest) \in 0..Len(rest) /\ size1 \in 0..Len(rest)
      BY <2>3
    <3>2. IsSection(Section(rest, size1, Len(rest)), Nat, rest, size1, Len(rest))
      BY <2>1, <3>1, SectionOf, Zenon
    <3>3. QED
      BY <3>2, Zenon DEF IsSection, Section
  <2>5. part \in Seq(Nat)
    <3>1. size1 \in 0..Len(rest) /\ 0 \in 0..size1 /\ 0 + 1 = 1
      BY <2>3
    <3>2. IsSection(Section(rest, 0, size1), Nat, rest, 0, size1)
      BY <2>1, <3>1, SectionOf, Zenon
    <3>3. Section(rest, 0, size1) = part
      BY <3>1, Zenon DEF Section
    <3>4. QED
      BY <3>2, <3>3, Zenon DEF IsSection
  <2> HIDE DEF left, part
  <2>6. /\ Append(read, part) \in Seq(Seq(Nat)) /\ Len(Append(read, part)) = Len(read) + 1
        /\ Append(read, part)[Len(read) + 1] = part
    BY <2>1, <2>5, AppendProperties
  <2>7. Last(Append(read, part)) = part
    BY <2>6 DEF Last
  <2>8. QED
    BY <2>2, <2>4, <2>5, <2>6, <2>7 DEF Readers
<1>3. QED
  BY <1>1, <1>2

\* Nor does a turn of the loop make anything else.
LEMMA TakeInfoTyped ==
    ASSUME CodecAssumption, NEW reader \in Readers, NEW i
    PROVE  TakeInfo(reader, i) \in Readers
<1> DEFINE length == Take(reader, Short)
           path   == IF length = Thrown THEN Thrown ELSE Take(length, Number(Last(length.read)))
<1>1. Short \in Nat /\ Long \in Nat
  BY DEF CodecAssumption
<1>2. length \in Readers /\ (length # Thrown => Last(length.read) \in Seq(Nat))
  BY <1>1, TakeTyped
<1>3. length # Thrown => Number(Last(length.read)) \in Nat
  <2>1. \A bytes \in Seq(Nat) : Number(bytes) \in Nat
    <3>1. ASSUME NEW bytes \in Seq(Nat) PROVE Number(bytes) \in Nat
      <4>1. PICK num \in [1..Len(bytes) + 1 -> Nat] : Number(bytes) = num[1]
        BY NumberDef
      <4>2. 1 \in 1..Len(bytes) + 1
        <5>1. Len(bytes) \in Nat
          OBVIOUS
        <5>2. QED
          BY <5>1
      <4>3. QED
        BY <4>1, <4>2
    <3>2. QED
      BY <3>1
  <2>2. QED
    BY <1>2, <2>1, Zenon
<1> HIDE DEF length
<1>4. path \in Readers
  <2>1. Thrown \in Readers
    BY DEF Readers
  <2>2. length # Thrown => Take(length, Number(Last(length.read))) \in Readers
    BY <1>2, <1>3, TakeTyped, Zenon
  <2>3. QED
    BY <2>1, <2>2
<1> HIDE DEF path
<1>5. Take(path, Long) \in Readers
  BY <1>1, <1>4, TakeTyped, Zenon
<1>6. QED
  BY <1>5, Zenon DEF TakeInfo, path, length

\* The parts of a description are sequences of bytes.
LEMMA InfoTyped ==
    ASSUME CodecAssumption, NEW info \in InfoSet, PathFits(info.path)
    PROVE  /\ info.path \in Seq(Nat) /\ info.size \in 0..Values[Long] - 1
           /\ Uint(Short, Len(info.path)) \in Seq(Nat) /\ Uint(Long, info.size) \in Seq(Nat)
           /\ InfoBytes(info) \in Seq(Nat)
<1>1. info.path \in Seq(Nat) /\ info.size \in 0..Values[Long] - 1
  BY DEF InfoSet
<1>2. Uint(Long, info.size) \in Seq(Nat)
  <2>1. Long \in 0..Long
    BY DEF CodecAssumption
  <2>2. QED
    BY <1>1, <2>1, NumberOfUint
<1>3. Uint(Short, Len(info.path)) \in Seq(Nat)
  <2>1. Short \in 0..Long /\ Values[Short] \in Nat
    BY ValuesDef DEF CodecAssumption
  <2>2. Len(info.path) \in Nat
    BY <1>1
  <2>3. Len(info.path) \in 0..Values[Short] - 1
    BY <2>1, <2>2 DEF PathFits
  <2>4. QED
    BY <2>1, <2>3, NumberOfUint
<1>4. InfoBytes(info) \in Seq(Nat)
  BY <1>1, <1>2, <1>3, JoinedBytes, Zenon DEF InfoBytes
<1>5. QED
  BY <1>1, <1>2, <1>3, <1>4

\* Descriptions whose paths fit their length field, and the bytes of the first of them.
Fitting(infos, n) == infos \in [1..n -> InfoSet] /\ \A i \in 1..n : PathFits(infos[i].path)
Parts(flat, infos, n) ==
    /\ flat \in [0..n -> Seq(Nat)] /\ flat[0] = <<>>
    /\ \A i \in 1..n : flat[i] = flat[i - 1] \o InfoBytes(infos[i])

\* What the loop over the files has read, if the buffer did not end.
IsRead(read, header, infos, n) ==
    /\ read \in Seq(Seq(Nat)) /\ Len(read) = Len(header) + 3 * n
    /\ \A k \in 1..Len(header) : read[k] = header[k]
    /\ \A i \in 1..n : /\ read[Len(header) + 3 * i - 1] = infos[i].path
                       /\ read[Len(header) + 3 * i] = Uint(Long, infos[i].size)

\* What the loop makes of a reader that has come to the descriptions.
InfosRead(bytes, limit, p, header, infos, n, length) ==
    \E read : /\ FoldLeft(TakeInfo, Reached(bytes, limit, p, header), Turns(n))
                     = Reached(bytes, limit, p + length, read)
              /\ IsRead(read, header, infos, n)

\* One more file is three more pieces.
LEMMA OneMoreRead ==
    ASSUME NEW header \in Seq(Seq(Nat)), NEW infos, NEW n \in Nat, NEW read,
           IsRead(read, header, infos, n),
           Uint(Short, Len(infos[n + 1].path)) \in Seq(Nat), infos[n + 1].path \in Seq(Nat),
           Uint(Long, infos[n + 1].size) \in Seq(Nat)
    PROVE  IsRead(WithInfo(read, infos[n + 1]), header, infos, n + 1)
<1> DEFINE a == Uint(Short, Len(infos[n + 1].path))
           b == infos[n + 1].path
           c == Uint(Long, infos[n + 1].size)
           S == Seq(Nat)
           r1 == Append(read, a)
           r2 == Append(r1, b)
           r3 == Append(r2, c)
           m == Len(header)
<1>1. ASSUME NEW s \in Seq(S), NEW x \in S
      PROVE  /\ Append(s, x) \in Seq(S) /\ Len(Append(s, x)) = Len(s) + 1
             /\ \A i \in 1..Len(s) : Append(s, x)[i] = s[i]
             /\ Append(s, x)[Len(s) + 1] = x
  BY AppendProperties
<1>2. /\ read \in Seq(S) /\ Len(read) = m + 3 * n /\ m \in Nat
      /\ \A k \in 1..m : read[k] = header[k]
      /\ \A i \in 1..n : /\ read[m + 3 * i - 1] = infos[i].path
                         /\ read[m + 3 * i] = Uint(Long, infos[i].size)
  <2>1. m \in Nat
    OBVIOUS
  <2>2. QED
    BY <2>1 DEF IsRead
<1>3. a \in S /\ b \in S /\ c \in S
  OBVIOUS
<1> HIDE DEF a, b, c, S, m
<1> DEFINE l == m + 3 * n
<1>4. l \in Nat
  BY <1>2
<1> HIDE DEF l
<1>5. /\ r1 \in Seq(S) /\ Len(r1) = l + 1 /\ \A i \in 1..l : r1[i] = read[i]
  <2>1. read \in Seq(S) /\ Len(read) = l
    BY <1>2 DEF l
  <2>2. QED
    BY <1>1, <1>3, <2>1
<1> HIDE DEF r1
<1>6. /\ r2 \in Seq(S) /\ Len(r2) = (l + 1) + 1 /\ r2[(l + 1) + 1] = b
      /\ \A i \in 1..l + 1 : r2[i] = r1[i]
  BY <1>1, <1>3, <1>5
<1> HIDE DEF r2
<1>7. /\ r3 \in Seq(S) /\ Len(r3) = ((l + 1) + 1) + 1 /\ r3[((l + 1) + 1) + 1] = c
      /\ \A i \in 1..(l + 1) + 1 : r3[i] = r2[i]
  BY <1>1, <1>3, <1>6
<1> HIDE DEF r3
<1>8. \A i \in 1..l : r3[i] = read[i]
  <2>1. \A i \in 1..l : i \in 1..l + 1 /\ i \in 1..(l + 1) + 1
    BY <1>4
  <2>2. QED
    BY <1>5, <1>6, <1>7, <2>1
<1>9. r3[l + 2] = b /\ r3[l + 3] = c /\ Len(r3) = l + 3
  <2>1. (l + 1) + 1 = l + 2 /\ ((l + 1) + 1) + 1 = l + 3 /\ l + 2 \in 1..(l + 1) + 1
    BY <1>4
  <2>2. QED
    BY <1>6, <1>7, <2>1
<1>10. \A k \in 1..m : r3[k] = header[k]
  <2>1. m \in Nat /\ m <= l
    <3>1. m \in Nat
      BY <1>2
    <3>2. QED
      BY <3>1 DEF l
  <2>2. \A k \in 1..m : k \in 1..l
    BY <1>4, <2>1
  <2>3. QED
    BY <1>2, <1>8, <2>2
<1>11. ASSUME NEW i \in 1..n + 1
       PROVE  r3[m + 3 * i - 1] = infos[i].path /\ r3[m + 3 * i] = Uint(Long, infos[i].size)
  <2>1. CASE i \in 1..n
    <3>1. m + 3 * i - 1 \in 1..l /\ m + 3 * i \in 1..l
      BY <1>2, <2>1 DEF l
    <3>2. QED
      BY <1>2, <1>8, <2>1, <3>1
  <2>2. CASE i = n + 1
    <3>1. m + 3 * i - 1 = l + 2 /\ m + 3 * i = l + 3
      BY <1>2, <2>2 DEF l
    <3>2. QED
      BY <1>9, <2>2, <3>1 DEF b, c
  <2>3. QED
    BY <2>1, <2>2
<1>12. l + 3 = m + 3 * (n + 1)
  BY <1>2 DEF l
<1>13. IsRead(r3, header, infos, n + 1)
  BY <1>7, <1>9, <1>10, <1>11, <1>12 DEF IsRead, m, S
<1>14. QED
  BY <1>13 DEF r3, r2, r1, a, b, c, WithInfo

\* The loop over the files reads them all, or the buffer ends before.
LEMMA TurnsRead ==
    ASSUME CodecAssumption, NEW n \in Nat, NEW infos, Fitting(infos, n),
           NEW flat, Parts(flat, infos, n),
           NEW bytes \in Seq(Nat), NEW limit \in 0..Len(bytes), NEW p \in Nat,
           Holds(bytes, p, flat[n]), NEW header \in Seq(Seq(Nat))
    PROVE  InfosRead(bytes, limit, p, header, infos, n, Len(flat[n]))
<1>0. /\ infos \in [1..n -> InfoSet] /\ \A i \in 1..n : PathFits(infos[i].path)
      /\ flat \in [0..n -> Seq(Nat)] /\ flat[0] = <<>>
      /\ \A i \in 1..n : flat[i] = flat[i - 1] \o InfoBytes(infos[i])
  BY DEF Fitting, Parts
<1> USE <1>0
<1> DEFINE D == DOMAIN Turns(n)
           start == Reached(bytes, limit, p, header)
           iter[t \in SUBSET D] ==
               IF t = {} THEN start
               ELSE LET x == Max(t) IN TakeInfo(iter[t \ {x}], Turns(n)[x])
<1>1. FoldLeft(TakeInfo, start, Turns(n)) = iter[D]
  BY DEF FoldLeft, MapThenFoldSet
<1>2. D = 1..n /\ \A i \in 1..n : Turns(n)[i] = i
  BY DEF Turns
<1>3. start \in Readers
  <2>1. Holds(bytes, p, <<>>)
    <3>1. p + Len(flat[n]) <= Len(bytes) /\ flat[n] \in Seq(Nat)
      BY DEF Holds
    <3>2. Len(<<>>) = 0 /\ Len(flat[n]) \in Nat /\ Len(bytes) \in Nat
      BY <3>1
    <3>3. QED
      BY <3>1, <3>2 DEF Holds
  <2>2. <<>> \in Seq(Nat)
    OBVIOUS
  <2>3. Thrown \notin [rest : Seq(Nat), read : Seq(Seq(Nat))]
    BY DEF CodecAssumption
  <2>4. QED
    BY <2>1, <2>2, <2>3, TakePiece
<1> HIDE DEF start
<1>4. \E g : g = [t \in SUBSET D |->
                     IF t = {} THEN start
                     ELSE LET x == Max(t) IN TakeInfo(g[t \ {x}], Turns(n)[x])]
  <2> DEFINE step == [q \in (1..n) \X Readers |-> TakeInfo(q[2], q[1])]
  <2>1. \A q \in (1..n) \X Readers : TakeInfo(q[2], q[1]) \in Readers
    <3>1. \A r \in Readers, i \in 1..n : TakeInfo(r, i) \in Readers
      BY TakeInfoTyped
    <3>2. QED
      BY <3>1
  <2>2. /\ step \in [(1..n) \X Readers -> Readers]
        /\ \A k \in 1..n, v \in Readers : step[<<k, v>>] = TakeInfo(v, k)
    BY <2>1
  <2> HIDE DEF step
  <2>3. PICK g \in [SUBSET (1..n) -> Readers] : LeftUnfolds(g, n, start, step)
    BY <1>3, <2>2, LeftRecursion
  <2>4. \A t \in SUBSET (1..n) : t # {} => Max(t) \in 1..n
    BY GreatestOf
  <2>5. \A t \in SUBSET (1..n) :
           g[t] = IF t = {} THEN start ELSE TakeInfo(g[t \ {Max(t)}], Turns(n)[Max(t)])
    <3>1. ASSUME NEW t \in SUBSET (1..n), t # {}
          PROVE  g[t] = TakeInfo(g[t \ {Max(t)}], Turns(n)[Max(t)])
      <4>1. Max(t) \in 1..n /\ Turns(n)[Max(t)] = Max(t) /\ g[t \ {Max(t)}] \in Readers
        BY <1>2, <2>4, <3>1
      <4>2. g[t] = step[<<Max(t), g[t \ {Max(t)}]>>]
        BY <2>3, <3>1 DEF LeftUnfolds
      <4>3. QED
        BY <2>2, <4>1, <4>2
    <3>2. QED
      BY <2>3, <3>1 DEF LeftUnfolds
  <2> HIDE DEF D
  <2>6. g = [t \in SUBSET D |->
               IF t = {} THEN start
               ELSE LET x == Max(t) IN TakeInfo(g[t \ {x}], Turns(n)[x])]
    BY <1>2, <2>5
  <2>7. QED
    BY <2>6 DEF D
<1>5. iter = [t \in SUBSET D |->
                 IF t = {} THEN start
                 ELSE LET x == Max(t) IN TakeInfo(iter[t \ {x}], Turns(n)[x])]
  BY <1>4
<1> HIDE DEF iter, D
<1>6. iter[{}] = start
  BY <1>5
<1>7. ASSUME NEW k \in 1..n PROVE iter[1..k] = TakeInfo(iter[1..k - 1], k)
  <2>1. 1..k \in SUBSET D /\ 1..k # {} /\ Max(1..k) = k /\ (1..k) \ {k} = 1..k - 1
    BY <1>2, LeftPart
  <2>2. iter[1..k] = TakeInfo(iter[(1..k) \ {Max(1..k)}], Turns(n)[Max(1..k)])
    BY <1>5, <2>1
  <2>3. QED
    BY <1>2, <2>1, <2>2
<1>8. \A s \in Seq(Nat) : Len(s) \in Nat
  OBVIOUS
<1>9. ASSUME NEW q \in Nat, NEW r \in Seq(Seq(Nat)), NEW x \in InfoSet, PathFits(x.path), NEW i,
             Holds(bytes, q, InfoBytes(x))
      PROVE  TakeInfo(Reached(bytes, limit, q, r), i)
                 = Reached(bytes, limit, q + Len(InfoBytes(x)), WithInfo(r, x))
  BY <1>9, InfoReads
<1> DEFINE pos(k) == p + Len(flat[k])
           T == {k \in 0..n : \E read : /\ iter[1..k] = Reached(bytes, limit, pos(k), read)
                                        /\ IsRead(read, header, infos, k)}
<1>10. ASSUME NEW k \in 1..n
      PROVE  /\ infos[k] \in InfoSet /\ flat[k - 1] \in Seq(Nat) /\ InfoBytes(infos[k]) \in Seq(Nat)
             /\ Uint(Short, Len(infos[k].path)) \in Seq(Nat)
             /\ Uint(Long, infos[k].size) \in Seq(Nat)
             /\ infos[k].path \in Seq(Nat) /\ infos[k].size \in 0..Values[Long] - 1
             /\ flat[k] = flat[k - 1] \o InfoBytes(infos[k])
  <2>1. infos[k] \in InfoSet /\ flat[k - 1] \in Seq(Nat) /\ PathFits(infos[k].path)
    <3>1. k - 1 \in 0..n
      OBVIOUS
    <3>2. QED
      BY <3>1
  <2>2. QED
    BY <2>1, InfoTyped
<1>11. \A k \in 0..n : Holds(bytes, p, flat[k])
  <2> DEFINE H == {k \in 0..n : Holds(bytes, p, flat[k])}
  <2>1. n \in H
    OBVIOUS
  <2>2. ASSUME NEW k \in 1..n, k \in H PROVE k - 1 \in H
    <3>1. Holds(bytes, p, flat[k - 1] \o InfoBytes(infos[k]))
      BY <1>10, <2>2
    <3>2. flat[k - 1] \in Seq(Nat) /\ InfoBytes(infos[k]) \in Seq(Nat)
      BY <1>10
    <3>3. Holds(bytes, p, flat[k - 1])
      BY <3>1, <3>2, HoldsParts, Zenon
    <3>4. QED
      BY <3>3
  <2> HIDE DEF H
  <2>3. \A k \in 0..n : k \in H
    BY <2>1, <2>2, DownFrom
  <2>4. QED
    BY <2>3 DEF H
<1>12. 0 \in T
  <2>1. Len(flat[0]) = 0 /\ 1..0 = {} /\ 0 \in 0..n
    OBVIOUS
  <2>2. IsRead(header, header, infos, 0)
    <3>1. Len(header) + 3 * 0 = Len(header) /\ 1..0 = {}
      OBVIOUS
    <3>2. QED
      BY <3>1 DEF IsRead
  <2>3. p + Len(flat[0]) = p
    BY <2>1
  <2>4. iter[1..0] = Reached(bytes, limit, pos(0), header)
    BY <1>6, <2>1, <2>3 DEF start
  <2>5. QED
    BY <2>1, <2>2, <2>4
<1>13. ASSUME NEW j \in 0..n - 1, j \in T PROVE j + 1 \in T
  <2> DEFINE k == j + 1
             info == infos[k]
             piece == InfoBytes(info)
  <2>1. k \in 1..n /\ k - 1 = j /\ k \in 0..n /\ j \in Nat /\ j \in 0..n
    OBVIOUS
  <2>2. PICK read : /\ iter[1..j] = Reached(bytes, limit, pos(j), read)
                    /\ IsRead(read, header, infos, j)
    BY <1>13
  <2> DEFINE more == WithInfo(read, info)
  <2>3. IsRead(more, header, infos, k)
    BY <1>10, <2>1, <2>2, OneMoreRead
  <2>4. /\ flat[k] = flat[j] \o piece /\ flat[j] \in Seq(Nat) /\ piece \in Seq(Nat)
        /\ info \in InfoSet /\ PathFits(info.path)
    BY <1>10, <2>1
  <2>5. iter[1..k] = TakeInfo(iter[1..j], k)
    BY <1>7, <2>1
  <2>6. read \in Seq(Seq(Nat))
    BY <2>2 DEF IsRead
  <2>7. Holds(bytes, p, flat[k])
    BY <1>11, <2>1
  <2> HIDE DEF k, info, piece, more
  <2>8. Len(flat[j]) \in Nat /\ Len(piece) \in Nat
    BY <1>8, <2>4, Zenon
  <2>9. Holds(bytes, pos(j), piece)
    <3>1. Holds(bytes, p, flat[j] \o piece)
      BY <2>4, <2>7
    <3>2. QED
      BY <2>4, <3>1, HoldsParts, Zenon
  <2>10. pos(j) \in Nat
    BY <2>8
  <2>11. pos(j) + Len(piece) = pos(k)
    <3>1. Len(flat[j] \o piece) = Len(flat[j]) + Len(piece)
      BY <2>4, JoinedBytes, Zenon
    <3>2. \A x, y, z \in Nat : (x + y) + z = x + (y + z)
      OBVIOUS
    <3>3. (p + Len(flat[j])) + Len(piece) = p + (Len(flat[j]) + Len(piece))
      BY <2>8, <3>2, ZenonT(30)
    <3>4. QED
      BY <2>4, <3>1, <3>3, Zenon
  <2> HIDE DEF pos
  <2>12. TakeInfo(Reached(bytes, limit, pos(j), read), k)
            = Reached(bytes, limit, pos(j) + Len(piece), more)
    <3>1. Holds(bytes, pos(j), InfoBytes(info))
      BY <2>9 DEF piece
    <3>2. TakeInfo(Reached(bytes, limit, pos(j), read), k)
             = Reached(bytes, limit, pos(j) + Len(InfoBytes(info)), WithInfo(read, info))
      BY <1>9, <2>4, <2>6, <2>10, <3>1, Zenon
    <3>3. QED
      BY <3>2, Zenon DEF piece, more
  <2>13. iter[1..k] = Reached(bytes, limit, pos(k), more)
    BY <2>2, <2>5, <2>11, <2>12, Zenon
  <2>14. k \in T
    BY <2>1, <2>3, <2>13
  <2>15. QED
    BY <2>14 DEF k
<1>14. n \in T
  <2> HIDE DEF T
  <2>1. n \in 0..n
    OBVIOUS
  <2>2. QED
    BY <1>12, <1>13, <2>1, UpTo
<1>15. QED
  BY <1>1, <1>2, <1>14 DEF start, InfosRead

\* A request from its fields.
Message(n, total, chunk, last, num, infos) ==
    [num_files |-> n, transfer_size |-> total, chunk_size |-> chunk,
     final_chunk_size |-> last, num_chunks |-> num, file_infos |-> infos]

\* What a request with these fields is written to.
Written(bytes, n, total, chunk, last, num, infos) ==
    \E flat : /\ Parts(flat, infos, n)
              /\ bytes = Uint(Wide, n) \o Uint(Long, total) \o Uint(Wide, chunk)
                         \o Uint(Wide, last) \o Uint(Wide, num) \o flat[n]

\* The buffer has the numbers of the request, then the descriptions of its files.
LEMMA SerializeDef ==
    ASSUME CodecAssumption, NEW n \in Nat, n # 0, NEW infos, Fitting(infos, n),
           NEW total, NEW chunk, NEW last, NEW num
    PROVE  Written(Serialize(Message(n, total, chunk, last, num, infos)),
                   n, total, chunk, last, num, infos)
<1> DEFINE seqs == [i \in 1..n |-> InfoBytes(infos[i])]
           req == Message(n, total, chunk, last, num, infos)
<1>0. infos \in [1..n -> InfoSet] /\ \A i \in 1..n : PathFits(infos[i].path)
  BY DEF Fitting
<1> USE <1>0
<1>1. seqs \in [1..n -> Seq(Nat)]
  <2>1. \A i \in 1..n : InfoBytes(infos[i]) \in Seq(Nat)
    BY InfoTyped
  <2>2. QED
    BY <2>1
<1>2. PICK flat : Flattens(flat, seqs, Nat, n) /\ FlattenSeq(seqs) = flat[n]
  <2> HIDE DEF seqs
  <2>1. n \in Nat /\ n # 0
    OBVIOUS
  <2>2. QED
    BY <1>1, <2>1, FlattenDef, Zenon
<1>3. /\ flat \in [0..n -> Seq(Nat)] /\ flat[0] = <<>>
      /\ \A i \in 1..n : flat[i] = flat[i - 1] \o InfoBytes(infos[i])
  BY <1>2 DEF Flattens
<1>4. req.num_files = n /\ req.transfer_size = total /\ req.chunk_size = chunk
      /\ req.final_chunk_size = last /\ req.num_chunks = num /\ req.file_infos = infos
  BY DEF Message
<1>5. DOMAIN infos = 1..n /\ ~\E i \in DOMAIN infos : ~PathFits(infos[i].path)
  OBVIOUS
<1>6. FlattenSeq([i \in DOMAIN infos |->
                    LET info == infos[i] IN
                    Uint(Short, Len(info.path)) \o info.path \o Uint(Long, info.size)]) = flat[n]
  BY <1>2, <1>5, Zenon DEF seqs, InfoBytes
<1> HIDE DEF req
<1>7. Serialize(req) = Uint(Wide, n) \o Uint(Long, total) \o Uint(Wide, chunk)
                       \o Uint(Wide, last) \o Uint(Wide, num) \o flat[n]
  BY <1>4, <1>5, <1>6, Zenon DEF Serialize
<1>8. QED
  BY <1>3, <1>7 DEF req, Parts, Written

\* The record that is put together from what has been read.
Result(header) ==
    LET n   == Number(header.read[1])
        all == FoldLeft(TakeInfo, header, Turns(n))
    IN  IF header = Thrown THEN Thrown
        ELSE IF all = Thrown THEN Thrown
        ELSE Message(n, Number(header.read[2]), Number(header.read[3]),
                     Number(header.read[4]), Number(header.read[5]),
                     [i \in 1..n |-> [path |-> all.read[3 * i + 4],
                                      size |-> Number(all.read[3 * i + 5])]])

\* It is what deserialize returns.
LEMMA DeserializeDef ==
    ASSUME NEW bytes PROVE Deserialize(bytes) = Result(HeaderOf(bytes))
<1>1. DOMAIN Turns(Number(HeaderOf(bytes).read[1])) = 1..Number(HeaderOf(bytes).read[1])
  BY DEF Turns
<1>2. QED
  BY <1>1, Zenon DEF Deserialize, Result, Message, HeaderOf

\* A request is read from its buffer, and from no shorter one.
ReadsBack(req) ==
    /\ Serialize(req) \in Seq(Nat)
    /\ \A limit \in 0..Len(Serialize(req)) :
          Deserialize(SubSeq(Serialize(req), 1, limit)) =
              IF limit < Len(Serialize(req)) THEN Thrown ELSE req

\* What is deserialized is what was serialized, or an exception when bytes are missing:
\* for every request whose fields fit their types.
LEMMA RoundTrip ==
    ASSUME CodecAssumption, NEW n \in 1..Values[Wide] - 1, NEW infos, Fitting(infos, n),
           NEW total \in 0..Values[Long] - 1,
           NEW chunk \in 0..Values[Wide] - 1, NEW last \in 0..Values[Wide] - 1,
           NEW num \in 0..Values[Wide] - 1
    PROVE  ReadsBack(Message(n, total, chunk, last, num, infos))
<1> DEFINE req == Message(n, total, chunk, last, num, infos)
           bytes == Serialize(req)
           u1 == Uint(Wide, n)
           u2 == Uint(Long, total)
           u3 == Uint(Wide, chunk)
           u4 == Uint(Wide, last)
           u5 == Uint(Wide, num)
           header == <<u1, u2, u3, u4, u5>>
<1>1. /\ u1 \in Seq(Nat) /\ Len(u1) = Wide /\ Number(u1) = n
      /\ u2 \in Seq(Nat) /\ Len(u2) = Long /\ Number(u2) = total
      /\ u3 \in Seq(Nat) /\ Len(u3) = Wide /\ Number(u3) = chunk
      /\ u4 \in Seq(Nat) /\ Len(u4) = Wide /\ Number(u4) = last
      /\ u5 \in Seq(Nat) /\ Len(u5) = Wide /\ Number(u5) = num
  <2>1. Wide \in 0..Long /\ Long \in 0..Long /\ n \in 0..Values[Wide] - 1
    BY ValuesDef DEF CodecAssumption
  <2>2. \A w \in 0..Long : \A x \in 0..Values[w] - 1 :
            Uint(w, x) \in Seq(Nat) /\ Len(Uint(w, x)) = w /\ Number(Uint(w, x)) = x
    BY NumberOfUint
  <2>3. QED
    BY <2>1, <2>2
<1>2. Wide \in Nat /\ Long \in Nat /\ n \in Nat /\ n # 0 /\ n \in Nat \ {0}
  BY ValuesDef DEF CodecAssumption
<1>3. PICK flat : Parts(flat, infos, n) /\ bytes = u1 \o u2 \o u3 \o u4 \o u5 \o flat[n]
  <2>1. Written(Serialize(Message(n, total, chunk, last, num, infos)),
                n, total, chunk, last, num, infos)
    BY <1>2, SerializeDef, Zenon
  <2>2. QED
    BY <2>1, Zenon DEF Written
<1>4. flat[n] \in Seq(Nat)
  BY <1>2, <1>3 DEF Parts
<1> HIDE DEF u1, u2, u3, u4, u5, bytes, req
<1> DEFINE rest == flat[n]
           v2 == u1 \o u2
           v3 == v2 \o u3
           v4 == v3 \o u4
           v5 == v4 \o u5
<1>5. bytes \in Seq(Nat) /\ Len(bytes) = Fixed + Len(rest) /\ Len(rest) \in Nat
  <2>1. /\ v2 \in Seq(Nat) /\ v3 \in Seq(Nat) /\ v4 \in Seq(Nat) /\ v5 \in Seq(Nat)
        /\ v5 \o rest \in Seq(Nat)
    BY <1>1, <1>4, JoinedBytes, Zenon
  <2>2. /\ Len(v2) = Len(u1) + Len(u2) /\ Len(v3) = Len(v2) + Len(u3)
        /\ Len(v4) = Len(v3) + Len(u4) /\ Len(v5) = Len(v4) + Len(u5)
        /\ Len(v5 \o rest) = Len(v5) + Len(rest)
    <3> HIDE DEF rest
    <3>1. rest \in Seq(Nat)
      BY <1>4 DEF rest
    <3>2. Len(v2) = Len(u1) + Len(u2)
      BY <1>1, JoinedBytes, Zenon
    <3> HIDE DEF v2
    <3>3. Len(v3) = Len(v2) + Len(u3)
      BY <1>1, <2>1, JoinedBytes, Zenon
    <3> HIDE DEF v3
    <3>4. Len(v4) = Len(v3) + Len(u4)
      BY <1>1, <2>1, JoinedBytes, Zenon
    <3> HIDE DEF v4
    <3>5. Len(v5) = Len(v4) + Len(u5)
      BY <1>1, <2>1, JoinedBytes, Zenon
    <3> HIDE DEF v5
    <3>6. Len(v5 \o rest) = Len(v5) + Len(rest)
      BY <2>1, <3>1, JoinedBytes, Zenon
    <3>7. QED
      BY <3>2, <3>3, <3>4, <3>5, <3>6
  <2>3. bytes = v5 \o rest
    BY <1>3
  <2> HIDE DEF v2, v3, v4, v5, rest
  <2>4. Len(rest) \in Nat
    BY <1>4 DEF rest
  <2>5. Len(v5) = Fixed
    BY <1>1, <2>2 DEF Fixed
  <2>6. QED
    BY <2>1, <2>2, <2>3, <2>4, <2>5
<1>6. Holds(bytes, 0, u1 \o u2 \o u3 \o u4 \o u5 \o rest)
  <2>1. Len(bytes) \in Nat
    BY <1>5
  <2>2. 0 + Len(bytes) <= Len(bytes) /\ \A j \in 1..Len(bytes) : 0 + j = j
    BY <2>1
  <2>3. Holds(bytes, 0, bytes)
    BY <2>2 DEF Holds
  <2>4. QED
    BY <1>3, <2>3, Zenon
<1> HIDE DEF v2, v3, v4, v5
<1>7. ASSUME NEW limit \in 0..Len(bytes)
      PROVE  Deserialize(SubSeq(bytes, 1, limit)) = IF limit < Len(bytes) THEN Thrown ELSE req
  <2> DEFINE first == Reached(bytes, limit, Fixed, header)
  <2>1. /\ HeaderOf(SubSeq(bytes, 1, limit)) = first
        /\ Holds(bytes, Fixed, rest) /\ Fixed \in Nat /\ header \in Seq(Seq(Nat))
    <3> HIDE DEF rest
    <3>1. rest \in Seq(Nat)
      BY <1>4 DEF rest
    <3>2. HeaderRead(bytes, limit, u1, u2, u3, u4, u5, rest)
      BY <1>1, <1>5, <1>6, <3>1, HeaderReads, Zenon
    <3>3. QED
      BY <3>2, Zenon DEF HeaderRead
  <2> HIDE DEF header
  <2>2. PICK read : /\ FoldLeft(TakeInfo, first, Turns(n)) = Reached(bytes, limit, Fixed + Len(rest), read)
                    /\ IsRead(read, header, infos, n)
    <3>1. InfosRead(bytes, limit, Fixed, header, infos, n, Len(flat[n]))
      BY <1>2, <1>3, <1>5, <2>1, TurnsRead, Zenon
    <3>2. QED
      BY <3>1, Zenon DEF InfosRead
  <2> DEFINE all == Reached(bytes, limit, Len(bytes), read)
  <2>3. first # Thrown => first.read = header
    BY DEF Reached
  <2>4. Len(header) = 5 /\ header[1] = u1 /\ header[2] = u2 /\ header[3] = u3
        /\ header[4] = u4 /\ header[5] = u5
    BY DEF header
  <2>5. first # Thrown => n = Number(first.read[1]) /\ all = FoldLeft(TakeInfo, first, Turns(n))
    BY <1>1, <1>5, <2>2, <2>3, <2>4
  <2>6. Deserialize(SubSeq(bytes, 1, limit)) =
              IF first = Thrown THEN Thrown
              ELSE IF all = Thrown THEN Thrown
              ELSE Message(n, Number(first.read[2]), Number(first.read[3]),
                           Number(first.read[4]), Number(first.read[5]),
                           [i \in 1..n |-> [path |-> all.read[3 * i + 4],
                                            size |-> Number(all.read[3 * i + 5])]])
    <3> HIDE DEF first, all
    <3>1. Deserialize(SubSeq(bytes, 1, limit)) = Result(first)
      BY <2>1, DeserializeDef, Zenon
    <3>2. CASE first = Thrown
      BY <3>1, <3>2, Zenon DEF Result
    <3>3. CASE first # Thrown
      BY <2>5, <3>1, <3>3, Zenon DEF Result
    <3>4. QED
      BY <3>2, <3>3, Zenon
  <2>7. CASE limit < Len(bytes)
    <3>1. all = Thrown
      BY <2>7 DEF Reached
    <3>2. QED
      BY <2>6, <2>7, <3>1, Zenon
  <2>8. CASE ~(limit < Len(bytes))
    <3>1. ~(limit < Fixed)
      <4>1. limit \in Nat /\ Len(bytes) \in Nat /\ Fixed <= Len(bytes)
        BY <1>5, <2>1
      <4>2. QED
        BY <2>1, <2>8, <4>1
    <3>2. /\ first = [rest |-> Section(bytes, Fixed, limit), read |-> header]
          /\ all = [rest |-> Section(bytes, Len(bytes), limit), read |-> read]
      BY <2>8, <3>1, Zenon DEF Reached
    <3>3. first # Thrown /\ all # Thrown
      <4>1. Thrown \notin [rest : Seq(Nat), read : Seq(Seq(Nat))] /\ read \in Seq(Seq(Nat))
        BY <2>2 DEF CodecAssumption, IsRead
      <4>2. Section(bytes, Fixed, limit) \in Seq(Nat) /\ Section(bytes, Len(bytes), limit) \in Seq(Nat)
        <5>1. /\ limit \in 0..Len(bytes) /\ Fixed \in 0..limit /\ Len(bytes) \in 0..limit
          <6>1. Len(bytes) \in Nat /\ Fixed \in Nat /\ limit \in 0..Len(bytes)
            BY <1>5, <2>1
          <6>2. QED
            BY <2>8, <3>1, <6>1
        <5>2. /\ IsSection(Section(bytes, Fixed, limit), Nat, bytes, Fixed, limit)
              /\ IsSection(Section(bytes, Len(bytes), limit), Nat, bytes, Len(bytes), limit)
          BY <1>5, <5>1, SectionOf, Zenon
        <5>3. QED
          BY <5>2, Zenon DEF IsSection
      <4>3. /\ [rest |-> Section(bytes, Fixed, limit), read |-> header]
                 \in [rest : Seq(Nat), read : Seq(Seq(Nat))]
            /\ [rest |-> Section(bytes, Len(bytes), limit), read |-> read]
                 \in [rest : Seq(Nat), read : Seq(Seq(Nat))]
        BY <2>1, <4>1, <4>2
      <4> HIDE DEF first, all
      <4>4. QED
        BY <3>2, <4>1, <4>3
    <3>4. all.read = read /\ first.read = header
      BY <3>2
    <3>5. ASSUME NEW i \in 1..n
          PROVE  read[3 * i + 4] = infos[i].path /\ Number(read[3 * i + 5]) = infos[i].size
      <4>1. Len(header) + 3 * i - 1 = 3 * i + 4 /\ Len(header) + 3 * i = 3 * i + 5
        BY <2>4
      <4>2. /\ read[Len(header) + 3 * i - 1] = infos[i].path
            /\ read[Len(header) + 3 * i] = Uint(Long, infos[i].size)
        BY <2>2 DEF IsRead
      <4>3. Number(Uint(Long, infos[i].size)) = infos[i].size
        <5>1. Long \in 0..Long
          BY <1>2
        <5>2. infos[i] \in InfoSet
          BY DEF Fitting
        <5>3. infos[i].size \in 0..Values[Long] - 1
          BY <5>2 DEF InfoSet
        <5>4. QED
          BY <5>1, <5>3, NumberOfUint
      <4>4. QED
        BY <4>1, <4>2, <4>3, Zenon
    <3>6. [i \in 1..n |-> [path |-> read[3 * i + 4], size |-> Number(read[3 * i + 5])]] = infos
      <4>1. ASSUME NEW i \in 1..n
            PROVE  [path |-> read[3 * i + 4], size |-> Number(read[3 * i + 5])] = infos[i]
        <5>1. infos[i] = [path |-> infos[i].path, size |-> infos[i].size]
          <6>1. infos[i] \in InfoSet
            BY DEF Fitting
          <6>2. QED
            BY <6>1 DEF InfoSet
        <5>2. QED
          BY <3>5, <5>1, Zenon
      <4>2. infos = [i \in 1..n |-> infos[i]]
        BY DEF Fitting
      <4>3. QED
        BY <4>1, <4>2
    <3> HIDE DEF first, all
    <3>7. Deserialize(SubSeq(bytes, 1, limit)) =
              Message(n, Number(header[2]), Number(header[3]), Number(header[4]), Number(header[5]),
                      [i \in 1..n |-> [path |-> read[3 * i + 4],
                                       size |-> Number(read[3 * i + 5])]])
      BY <2>6, <3>3, <3>4, Zenon
    <3>8. Deserialize(SubSeq(bytes, 1, limit)) = Message(n, total, chunk, last, num, infos)
      BY <1>1, <2>4, <3>6, <3>7, Zenon
    <3>9. QED
      BY <2>8, <3>8, Zenon DEF req
  <2>9. QED
    BY <2>7, <2>8
<1>8. QED
  BY <1>5, <1>7, Zenon DEF bytes, ReadsBack, req

-----------------------------------------------------------------------------
(* What the receiver makes of the buffer.                                    *)

\* Every number of a request fits its type, and its descriptions are those of the staged
\* files.
IsOffer(n, total, chunk, last, num, infos) ==
    /\ request = Message(n, total, chunk, last, num, infos)
    /\ n \in 1..Values[Wide] - 1 /\ infos \in [1..n -> InfoSet]
    /\ total \in 0..Values[Long] - 1 /\ chunk \in 0..Values[Wide] - 1
    /\ last \in 0..Values[Wide] - 1 /\ num \in 0..Values[Wide] - 1
    /\ {infos[i] : i \in 1..n} = {Info(f) : f \in staged}

\* from_file_paths makes nothing else.
LEMMA RequestFields ==
    ASSUME PlanAssumption, CodecAssumption, OfferAssumption, OfferInv, request \notin {None, Thrown}
    PROVE  \E n, total, chunk, last, num, infos : IsOffer(n, total, chunk, last, num, infos)
<1>1. PICK order \in SetToSeqs(staged) : request = FromFilePaths(Infos(order))
  BY DEF OfferInv, RequestInv
<1>2. /\ IsFiniteSet(staged) /\ staged \subseteq Files
      /\ size \in [Files -> 0..Values[Long] - 1] /\ \A f \in staged : size[f] \in Nat
  <2>1. \A n \in 0..Values[Long] - 1 : n \in Nat
    BY ValuesDef DEF CodecAssumption
  <2>2. QED
    BY <2>1, StagedFiles
<1> DEFINE infos == Infos(order)
           n == Cardinality(staged)
<1>3. PICK total \in Nat :
          /\ total < Values[Long] /\ (Bytes(staged) < Values[Long] => total = Bytes(staged))
          /\ request = IF total = 0 THEN Thrown
                       ELSE [num_files |-> Len(infos) % CounterRange,
                             transfer_size |-> total, chunk_size |-> ChunkSize(total),
                             final_chunk_size |-> FinalChunkSize(total),
                             num_chunks |-> NumChunks(total), file_infos |-> infos]
  BY <1>1, <1>2, TotalIsBytes
<1>4. total # 0 /\ request = Message(Len(infos) % CounterRange, total, ChunkSize(total),
                                     FinalChunkSize(total), NumChunks(total), infos)
  BY <1>3 DEF Message
<1>5. /\ n \in Nat /\ order \in [1..n -> staged]
      /\ {order[i] : i \in 1..n} = staged
  BY <1>2, OrderLists
<1>6. n # 0
  <2>1. SUFFICES ASSUME n = 0 PROVE FALSE
    OBVIOUS
  <2>2. staged = {}
    BY <1>2, <2>1, FS_EmptySet
  <2>3. PICK bytes \in [SUBSET staged -> Nat] : Bytes(staged) = bytes[staged] /\ bytes[{}] = 0
    BY <1>2, BytesDef
  <2>4. Bytes(staged) = 0
    BY <2>2, <2>3
  <2>5. Values[Long] \in Nat \ {0}
    BY ValuesDef DEF CodecAssumption
  <2>6. QED
    BY <1>3, <1>4, <2>4, <2>5
<1>7. n <= MaxListed /\ MaxListed \in 0..Values[Wide] - 1
  BY <1>4 DEF OfferInv, RequestInv, OfferAssumption
<1> HIDE DEF n
<1>8. Values[Wide] \in Nat /\ CounterRange = Values[Wide] /\ n \in 1..Values[Wide] - 1
  <2>1. Values[Wide] \in Nat /\ CounterRange = Values[Wide]
    BY ValuesDef DEF CodecAssumption
  <2>2. n \in Nat /\ n # 0 /\ n <= MaxListed
    BY <1>5, <1>6, <1>7
  <2>3. \A a, b, c \in Nat : a # 0 /\ a <= b /\ b \in 0..c - 1 => a \in 1..c - 1 /\ b \in Nat
    OBVIOUS
  <2>4. MaxListed \in Nat
    BY <1>7
  <2>5. QED
    BY <1>7, <2>1, <2>2, <2>3, <2>4, Zenon
<1>9. infos \in [1..n -> InfoSet] /\ Len(infos) = n
  <2>1. DOMAIN infos = 1..n
    BY <1>5 DEF Infos
  <2>2. ASSUME NEW i \in 1..n PROVE infos[i] = Info(order[i]) /\ Info(order[i]) \in InfoSet
    <3>1. order[i] \in Files
      BY <1>2, <1>5
    <3>2. order[i] \in Seq(Nat)
      <4>1. order[i] \in Seq(0..Radix - 1)
        BY <3>1 DEF OfferAssumption
      <4>2. 0..Radix - 1 \subseteq Nat
        BY DEF CodecAssumption
      <4>3. QED
        BY <4>1, <4>2
    <3>3. size[order[i]] \in 0..Values[Long] - 1
      BY <1>2, <3>1
    <3>4. Info(order[i]) \in InfoSet
      BY <3>2, <3>3 DEF Info, InfoSet
    <3>5. QED
      BY <1>5, <3>4 DEF Infos
  <2>3. infos = [i \in 1..n |-> infos[i]]
    BY <2>1 DEF Infos
  <2> HIDE DEF infos
  <2>4. infos \in [1..n -> InfoSet]
    BY <2>2, <2>3
  <2>5. Len(infos) = n
    BY <1>5, <2>4
  <2>6. QED
    BY <2>4, <2>5
<1>10. {infos[i] : i \in 1..n} = {Info(f) : f \in staged}
  <2>1. \A i \in 1..n : infos[i] = Info(order[i])
    BY <1>5 DEF Infos
  <2> HIDE DEF infos
  <2>2. QED
    BY <1>5, <2>1
<1> HIDE DEF infos
<1>11. Len(infos) % CounterRange = n
  <2>1. \A a, b \in Nat : a < b => a % b = a
    BY SMTT(20)
  <2>2. n \in Nat /\ CounterRange \in Nat /\ n < CounterRange
    BY <1>8
  <2>3. n % CounterRange = n
    BY <2>1, <2>2, Zenon
  <2>4. QED
    BY <1>9, <2>3, Zenon
<1>12. /\ ChunkSize(total) \in 1..Values[Wide] - 1
       /\ FinalChunkSize(total) \in 0..Values[Wide] - 1
       /\ NumChunks(total) \in 0..Values[Wide] - 1 /\ total \in 0..Values[Long] - 1
  <2>1. ChunkSize(total) \in 1..Values[Wide] - 1
    <3>1. MaxChunk \in Nat \ {0} /\ MaxChunk < Values[Wide]
      BY DEF PlanAssumption, CodecAssumption
    <3>2. \A t, c, v \in Nat : t # 0 /\ c # 0 /\ c < v => (IF t < c THEN t ELSE c) \in 1..v - 1
      OBVIOUS
    <3>3. total \in Nat /\ total # 0 /\ MaxChunk \in Nat /\ MaxChunk # 0 /\ Values[Wide] \in Nat
      BY <1>4, <1>8, <3>1
    <3>4. QED
      BY <3>1, <3>2, <3>3, Zenon DEF ChunkSize
  <2>2. FinalChunkSize(total) \in 0..Values[Wide] - 1
    <3>1. \A a, c \in Nat : \A b \in 1..c - 1 : a % b \in 0..c - 1
      OBVIOUS
    <3>2. total % ChunkSize(total) \in 0..Values[Wide] - 1
      BY <1>8, <2>1, <3>1, Zenon
    <3>3. QED
      BY <3>2, Zenon DEF FinalChunkSize
  <2>3. NumChunks(total) \in 0..Values[Wide] - 1
    <3>1. \A a \in Nat, b, c \in Nat \ {0} : (a + (b - 1)) \div b \in Nat
      OBVIOUS
    <3>2. \A a \in Nat, b \in Nat \ {0} : a % b \in 0..b - 1
      OBVIOUS
    <3>3. ChunkSize(total) \in Nat \ {0} /\ Values[Wide] \in Nat \ {0}
      BY <1>8, <2>1
    <3>4. (total + (ChunkSize(total) - 1)) \div ChunkSize(total) \in Nat
      BY <3>1, <3>3
    <3>5. QED
      BY <1>8, <3>2, <3>3, <3>4 DEF NumChunks
  <2>4. total \in 0..Values[Long] - 1
    <3>1. Values[Long] \in Nat
      BY ValuesDef DEF CodecAssumption
    <3>2. QED
      BY <1>3, <3>1
  <2>5. QED
    BY <2>1, <2>2, <2>3, <2>4, Zenon
<1>13. ChunkSize(total) \in 0..Values[Wide] - 1
  BY <1>12
<1>14. IsOffer(n, total, ChunkSize(total), FinalChunkSize(total), NumChunks(total), infos)
  BY <1>4, <1>8, <1>9, <1>10, <1>11, <1>12, <1>13, Zenon DEF IsOffer
<1>15. QED
  BY <1>14

\* The request comes out of the whole buffer again, and nothing out of a part of it.
LEMMA ReadResult ==
    ASSUME PlanAssumption, CodecAssumption, OfferAssumption, OfferInv, got # None
    PROVE  /\ got = IF arrived = buffer THEN request ELSE Thrown
           /\ request \notin {None, Thrown}
<1>1. PICK length \in 0..Len(buffer) : /\ arrived = SubSeq(buffer, 1, length)
                                       /\ got = Deserialize(arrived)
  BY DEF OfferInv, ReadInv
<1>2. buffer = Serialize(request) /\ buffer # Thrown /\ request \notin {None, Thrown}
  BY DEF OfferInv, ReadInv, BufferInv
<1>3. PICK n, total, chunk, last, num, infos : IsOffer(n, total, chunk, last, num, infos)
  BY <1>2, RequestFields
<1>4. /\ request = Message(n, total, chunk, last, num, infos)
      /\ n \in 1..Values[Wide] - 1 /\ infos \in [1..n -> InfoSet]
      /\ total \in 0..Values[Long] - 1 /\ chunk \in 0..Values[Wide] - 1
      /\ last \in 0..Values[Wide] - 1 /\ num \in 0..Values[Wide] - 1
  BY <1>3, Zenon DEF IsOffer
<1>5. request.file_infos = infos
  BY <1>4 DEF Message
<1>6. \A i \in 1..n : PathFits(infos[i].path)
  <2>1. ~\E i \in DOMAIN infos : ~PathFits(infos[i].path)
    BY <1>2, <1>5, Zenon DEF Serialize
  <2>2. DOMAIN infos = 1..n
    BY <1>4
  <2>3. QED
    BY <2>1, <2>2
<1>7. Fitting(infos, n)
  BY <1>4, <1>6 DEF Fitting
<1>8. /\ buffer \in Seq(Nat)
      /\ \A limit \in 0..Len(buffer) :
            Deserialize(SubSeq(buffer, 1, limit)) = IF limit < Len(buffer) THEN Thrown ELSE request
  <2>1. ReadsBack(Message(n, total, chunk, last, num, infos))
    BY <1>4, <1>7, RoundTrip, Zenon
  <2>2. ReadsBack(request)
    BY <1>4, <2>1, Zenon
  <2>3. QED
    BY <1>2, <2>2, Zenon DEF ReadsBack
<1>9. got = IF length < Len(buffer) THEN Thrown ELSE request
  BY <1>1, <1>8, Zenon
<1>10. length < Len(buffer) <=> arrived # buffer
  <2>1. IsSection(Section(buffer, 0, length), Nat, buffer, 0, length)
    <3>1. length \in 0..Len(buffer) /\ 0 \in 0..length
      BY <1>8
    <3>2. QED
      BY <1>8, <3>1, SectionOf, Zenon
  <2>2. arrived = Section(buffer, 0, length)
    <3>1. 0 + 1 = 1
      OBVIOUS
    <3>2. QED
      BY <1>1, <3>1, Zenon DEF Section
  <2>3. arrived \in Seq(Nat) /\ Len(arrived) = length /\ \A j \in 1..length : arrived[j] = buffer[j]
    <3>1. length - 0 = length /\ \A j \in 1..length : 0 + j = j
      BY <1>8
    <3>2. QED
      BY <2>1, <2>2, <3>1 DEF IsSection
  <2>4. length = Len(buffer) => arrived = buffer
    BY <1>8, <2>3, SeqEqual
  <2>5. length \in Nat /\ Len(buffer) \in Nat /\ length <= Len(buffer)
    BY <1>8
  <2>6. QED
    BY <2>3, <2>4, <2>5
<1>11. QED
  BY <1>2, <1>9, <1>10

\* The receiver is asked about the files that are staged, with their sizes, and about the
\* chunks the sender will send: whatever the files, their sizes and the order in which the
\* set has them, as far as the paths fit their length field (else the sender throws).
THEOREM RequestArrives ==
    ASSUME PlanAssumption, CodecAssumption, OfferAssumption
    PROVE  Spec => []ArrivesAsStaged
<1>1. OfferInv => ArrivesAsStaged
  <2> SUFFICES ASSUME OfferInv, got # None, arrived = buffer
               PROVE  got = request /\ ToSet(request.file_infos) = {Info(f) : f \in staged}
    BY DEF ArrivesAsStaged
  <2>1. got = request /\ request \notin {None, Thrown}
    BY ReadResult
  <2>2. PICK n, total, chunk, last, num, infos : IsOffer(n, total, chunk, last, num, infos)
    BY <2>1, RequestFields
  <2>3. /\ request = Message(n, total, chunk, last, num, infos) /\ infos \in [1..n -> InfoSet]
        /\ {infos[i] : i \in 1..n} = {Info(f) : f \in staged}
    BY <2>2, Zenon DEF IsOffer
  <2>4. request.file_infos = infos /\ DOMAIN infos = 1..n
    BY <2>3 DEF Message
  <2>5. QED
    BY <2>1, <2>3, <2>4, Zenon DEF ToSet
<1>2. QED
  BY <1>1, Invariance, PTL

\* A buffer that was cut is never taken for a request.
THEOREM CutThrows ==
    ASSUME PlanAssumption, CodecAssumption, OfferAssumption
    PROVE  Spec => []CutIsNoticed
<1>1. OfferInv => CutIsNoticed
  <2> SUFFICES ASSUME OfferInv, got # None, arrived # buffer PROVE got = Thrown
    BY DEF CutIsNoticed
  <2>1. QED
    BY ReadResult
<1>2. QED
  BY <1>1, Invariance, PTL

-----------------------------------------------------------------------------
(* The expression that is made from a pattern.                               *)

AtomSet == {Anything, InSegment, AnyOne} \cup {Literal(c) : c \in Nat}

\* The atom that stands for the i-th character of a pattern, or for it and the next.
AtomAt(p, i) == IF p[i] # Star THEN Atom(p[i])
                ELSE IF i < Len(p) /\ p[i + 1] = Star THEN Anything ELSE InSegment

\* The atoms for the pattern from its i-th character on.
IsTranslation(rest, p) ==
    /\ rest \in [1..Len(p) + 1 -> Seq(AtomSet)] /\ rest[Len(p) + 1] = <<>>
    /\ \A i \in 1..Len(p) :
          rest[i] = <<AtomAt(p, i)>> \o (IF p[i] = Star /\ i < Len(p) /\ p[i + 1] = Star
                                         THEN rest[i + 2] ELSE rest[i + 1])

\* Every character has an atom.
LEMMA AtomTyped == ASSUME NEW p \in Seq(Nat), NEW i \in 1..Len(p) PROVE AtomAt(p, i) \in AtomSet
<1>1. p[i] \in Nat
  OBVIOUS
<1>2. Atom(p[i]) \in AtomSet
  BY <1>1 DEF Atom, AtomSet
<1>3. Anything \in AtomSet /\ InSegment \in AtomSet
  BY DEF AtomSet
<1>4. QED
  BY <1>2, <1>3, Zenon DEF AtomAt

\* The loop of file_pattern_to_regex puts them one behind the other.
LEMMA RegexDef ==
    ASSUME NEW p \in Seq(Nat)
    PROVE  \E rest : IsTranslation(rest, p) /\ Regex(p) = rest[1]
<1> DEFINE n == Len(p)
           D == 1..n + 1
           V == Seq(AtomSet)
           rest[i \in 1..Len(p) + 1] ==
              IF i > Len(p) THEN <<>>
              ELSE IF p[i] # Star THEN <<Atom(p[i])>> \o rest[i + 1]
              ELSE IF i < Len(p) /\ p[i + 1] = Star THEN <<Anything>> \o rest[i + 2]
              ELSE <<InSegment>> \o rest[i + 1]
           two(i)  == p[i] = Star /\ i < n /\ p[i + 1] = Star
           Rule(g, i) == g[i] = IF i = n + 1 THEN <<>>
                                ELSE <<AtomAt(p, i)>> \o (IF two(i) THEN g[i + 2] ELSE g[i + 1])
<1>1. Regex(p) = rest[1]
  BY DEF Regex
<1>2. n \in Nat /\ 1 \in D /\ n + 1 \in D
  OBVIOUS
<1>3. \A i \in 1..n : AtomAt(p, i) \in AtomSet
  BY AtomTyped
<1>4. PICK g \in [D -> V] : \A i \in D : Rule(g, i)
  <2> DEFINE rank == [i \in D |-> n + 1 - i]
             prev == [i \in D |-> IF two(i) THEN i + 2 ELSE i + 1]
             base == [i \in D |-> <<>>]
             step == [x \in D \X V |-> IF x[1] = n + 1 THEN <<>> ELSE <<AtomAt(p, x[1])>> \o x[2]]
  <2>1. rank \in [D -> 0..n] /\ Descends(D, rank, prev)
    <3> HIDE DEF n
    <3>1. ASSUME NEW i \in D, i # n + 1
          PROVE  /\ i + 1 \in D /\ n + 1 - (i + 1) < n + 1 - i
                 /\ i < n => i + 2 \in D /\ n + 1 - (i + 2) < n + 1 - i
      BY <1>2, <3>1
    <3>2. \A i \in D : n + 1 - i \in 0..n /\ (n + 1 - i # 0 <=> i # n + 1)
      BY <1>2
    <3> HIDE DEF D
    <3>3. QED
      BY <3>1, <3>2 DEF Descends
  <2>2. base \in [D -> V]
    OBVIOUS
  <2>3. step \in [D \X V -> V]
    <3>1. \A i \in 1..n : \A v \in V : <<AtomAt(p, i)>> \o v \in V
      <4>1. ASSUME NEW i \in 1..n, NEW v \in V PROVE <<AtomAt(p, i)>> \o v \in V
        <5>1. <<AtomAt(p, i)>> \in V
          BY <1>3
        <5>2. QED
          BY <5>1
      <4>2. QED
        BY <4>1
    <3>2. \A i \in D : i # n + 1 => i \in 1..n
      BY <1>2
    <3>3. <<>> \in V
      OBVIOUS
    <3> HIDE DEF V, D, n
    <3>4. QED
      BY <3>1, <3>2, <3>3
  <2>4. \A i \in D, v \in V : step[<<i, v>>] = IF i = n + 1 THEN <<>> ELSE <<AtomAt(p, i)>> \o v
    OBVIOUS
  <2>5. \A i \in D : /\ rank[i] = 0 <=> i = n + 1
                     /\ base[i] = <<>>
                     /\ prev[i] = IF two(i) THEN i + 2 ELSE i + 1
    BY <1>2
  <2> HIDE DEF D, V, rank, prev, base, step
  <2>6. PICK g \in [D -> V] : Recurs(g, D, rank, prev, base, step)
    BY <1>2, <2>1, <2>2, <2>3, Recursion
  <2>7. ASSUME NEW i \in D PROVE Rule(g, i)
    <3>1. g[i] = IF rank[i] = 0 THEN base[i] ELSE step[<<i, g[prev[i]]>>]
      BY <2>6 DEF Recurs
    <3>2. CASE i = n + 1
      BY <2>5, <3>1, <3>2
    <3>3. CASE i # n + 1
      <4>1. prev[i] \in D /\ g[prev[i]] \in V
        BY <2>1, <2>5, <2>6, <3>3 DEF Descends
      <4>2. g[i] = <<AtomAt(p, i)>> \o g[prev[i]]
        BY <2>4, <2>5, <3>1, <3>3, <4>1
      <4>3. QED
        BY <2>5, <3>3, <4>2
    <3>4. QED
      BY <3>2, <3>3
  <2>8. QED
    BY <2>6, <2>7
<1>5. \A i \in 1..Len(p) + 1 :
         g[i] = IF i > Len(p) THEN <<>>
                ELSE IF p[i] # Star THEN <<Atom(p[i])>> \o g[i + 1]
                ELSE IF i < Len(p) /\ p[i + 1] = Star THEN <<Anything>> \o g[i + 2]
                ELSE <<InSegment>> \o g[i + 1]
  <2>1. ASSUME NEW i \in 1..Len(p) + 1
        PROVE  g[i] = IF i > Len(p) THEN <<>>
                      ELSE IF p[i] # Star THEN <<Atom(p[i])>> \o g[i + 1]
                      ELSE IF i < Len(p) /\ p[i + 1] = Star THEN <<Anything>> \o g[i + 2]
                      ELSE <<InSegment>> \o g[i + 1]
    <3>1. i > Len(p) <=> i = Len(p) + 1
      BY <1>2
    <3>2. Rule(g, i)
      BY <1>4
    <3>3. QED
      BY <3>1, <3>2, Zenon DEF AtomAt
  <2>2. QED
    BY <2>1
<1>6. rest = [i \in 1..Len(p) + 1 |->
                 IF i > Len(p) THEN <<>>
                 ELSE IF p[i] # Star THEN <<Atom(p[i])>> \o rest[i + 1]
                 ELSE IF i < Len(p) /\ p[i + 1] = Star THEN <<Anything>> \o rest[i + 2]
                 ELSE <<InSegment>> \o rest[i + 1]]
  <2>1. g = [i \in 1..Len(p) + 1 |->
                 IF i > Len(p) THEN <<>>
                 ELSE IF p[i] # Star THEN <<Atom(p[i])>> \o g[i + 1]
                 ELSE IF i < Len(p) /\ p[i + 1] = Star THEN <<Anything>> \o g[i + 2]
                 ELSE <<InSegment>> \o g[i + 1]]
    <3>1. g = [i \in 1..Len(p) + 1 |-> g[i]]
      BY <1>4
    <3>2. QED
      BY <1>5, <3>1, Zenon
  <2>2. QED
    BY <2>1, Zenon
<1> HIDE DEF rest
<1> DEFINE Body(r, i) == IF i > Len(p) THEN <<>>
                         ELSE IF p[i] # Star THEN <<Atom(p[i])>> \o r[i + 1]
                         ELSE IF i < Len(p) /\ p[i + 1] = Star THEN <<Anything>> \o r[i + 2]
                         ELSE <<InSegment>> \o r[i + 1]
<1>7. rest[n + 1] = <<>>
  <2>1. n + 1 \in 1..Len(p) + 1 /\ n + 1 > Len(p)
    BY <1>2
  <2>2. QED
    BY <1>6, <2>1
<1>8. ASSUME NEW i \in 1..n
      PROVE  rest[i] = <<AtomAt(p, i)>> \o (IF two(i) THEN rest[i + 2] ELSE rest[i + 1])
  <2>1. i \in 1..Len(p) + 1 /\ ~(i > Len(p))
    BY <1>2
  <2>2. rest = [j \in 1..Len(p) + 1 |-> Body(rest, j)]
    BY <1>6, Zenon
  <2>3. rest[i] = Body(rest, i)
    <3> HIDE DEF Body
    <3>1. QED
      BY <2>1, <2>2
  <2>4. QED
    BY <2>1, <2>3, Zenon DEF AtomAt
<1>9. rest = [i \in D |-> rest[i]]
  <2>1. rest = [j \in 1..Len(p) + 1 |-> Body(rest, j)]
    BY <1>6, Zenon
  <2> HIDE DEF Body
  <2>2. QED
    BY <2>1
<1> HIDE DEF V, D
<1> DEFINE T == {k \in 0..n : \A j \in k + 1..n + 1 : rest[j] \in V}
<1>10. n \in T
  <2>1. \A j \in n + 1..n + 1 : j = n + 1
    BY <1>2
  <2>2. <<>> \in V
    BY DEF V
  <2>3. QED
    BY <1>2, <1>7, <2>1, <2>2
<1>11. ASSUME NEW k \in 1..n, k \in T PROVE k - 1 \in T
  <2> HIDE DEF n
  <2>1. /\ k - 1 \in 0..n /\ (k - 1) + 1 = k /\ k + 1 \in k + 1..n + 1
        /\ k < n => k + 2 \in k + 1..n + 1
    BY <1>2
  <2>2. rest[k + 1] \in V /\ (k < n => rest[k + 2] \in V)
    BY <1>11, <2>1
  <2>3. <<AtomAt(p, k)>> \in V
    BY <1>3 DEF V
  <2>4. \A v, w \in V : v \o w \in V
    BY DEF V
  <2>5. rest[k] \in V
    BY <1>8, <2>2, <2>3, <2>4
  <2>6. \A j \in k..n + 1 : j = k \/ j \in k + 1..n + 1
    BY <1>2
  <2>7. \A j \in k..n + 1 : rest[j] \in V
    BY <1>11, <2>5, <2>6
  <2>8. QED
    BY <2>1, <2>7
<1>12. 0 \in T
  <2> HIDE DEF T
  <2>1. 0 \in 0..n
    BY <1>2
  <2>2. QED
    BY <1>2, <1>10, <1>11, <2>1, DownFrom
<1>13. rest \in [D -> V]
  <2>1. \A j \in D : rest[j] \in V
    <3>1. 0 + 1 = 1
      OBVIOUS
    <3>2. QED
      BY <1>12, <3>1 DEF D
  <2>2. QED
    BY <1>9, <2>1
<1>14. IsTranslation(rest, p)
  BY <1>7, <1>8, <1>13, Zenon DEF IsTranslation, D, V
<1>15. QED
  BY <1>1, <1>14

\* How many atoms a pattern has with no two stars in a row, or with two at its end.
IsShape(p, m) ==
    /\ m \in 0..Len(p) /\ \A i \in 1..m - 1 : ~(p[i] = Star /\ p[i + 1] = Star)
    /\ m # Len(p) => m > 0 /\ m + 1 = Len(p) /\ p[m] = Star /\ p[m + 1] = Star

\* One for each character, the last two stars taken together.
IsRegex(regex, p, m) ==
    /\ regex \in Seq(AtomSet) /\ Len(regex) = m
    /\ \A i \in 1..m : regex[i] = AtomAt(p, i)

\* They are what file_pattern_to_regex makes.
LEMMA RegexShape ==
    ASSUME NEW p \in Seq(Nat), NEW m, IsShape(p, m)
    PROVE  IsRegex(Regex(p), p, m)
<1> DEFINE n == Len(p)
<1>1. PICK rest : IsTranslation(rest, p) /\ Regex(p) = rest[1]
  BY RegexDef
<1>2. /\ n \in Nat /\ m \in 0..n /\ \A i \in 1..m - 1 : ~(p[i] = Star /\ p[i + 1] = Star)
      /\ m # n => m > 0 /\ m + 1 = n /\ p[m] = Star /\ p[m + 1] = Star
  BY DEF IsShape
<1>3. /\ rest \in [1..n + 1 -> Seq(AtomSet)] /\ rest[n + 1] = <<>>
      /\ \A i \in 1..n :
            rest[i] = <<AtomAt(p, i)>> \o (IF p[i] = Star /\ i < n /\ p[i + 1] = Star
                                           THEN rest[i + 2] ELSE rest[i + 1])
  BY <1>1, Zenon DEF IsTranslation
<1>4. \A i \in 1..n : AtomAt(p, i) \in AtomSet
  BY AtomTyped
<1> HIDE DEF n
<1> DEFINE tail(k) == IF k = m THEN <<>> ELSE rest[k + 1]
           Good(k) == /\ tail(k) \in Seq(AtomSet) /\ Len(tail(k)) = m - k
                      /\ \A q \in 1..m - k : tail(k)[q] = AtomAt(p, k + q)
           T == {k \in 0..m : Good(k)}
<1>5. m \in T
  BY <1>2
<1>6. ASSUME NEW k \in 1..m PROVE tail(k - 1) = <<AtomAt(p, k)>> \o tail(k)
  <2>1. k - 1 # m /\ (k - 1) + 1 = k /\ k \in 1..n
    BY <1>2
  <2>2. tail(k - 1) = rest[k]
    BY <2>1
  <2>3. CASE k < m
    <3>1. k \in 1..m - 1 /\ k # m
      BY <1>2, <2>3
    <3>2. ~(p[k] = Star /\ p[k + 1] = Star)
      BY <1>2, <3>1
    <3>3. rest[k] = <<AtomAt(p, k)>> \o rest[k + 1]
      BY <1>3, <2>1, <3>2
    <3>4. QED
      BY <2>2, <3>1, <3>3
  <2>4. CASE k = m /\ m = n
    <3>1. ~(k < n) /\ k + 1 = n + 1
      BY <1>2, <2>4
    <3>2. rest[k] = <<AtomAt(p, k)>> \o rest[k + 1]
      BY <1>3, <2>1, <3>1
    <3>3. QED
      BY <1>3, <2>2, <2>4, <3>1, <3>2
  <2>5. CASE k = m /\ m # n
    <3>1. k < n /\ k + 2 = n + 1 /\ p[k] = Star /\ p[k + 1] = Star
      BY <1>2, <2>5
    <3>2. rest[k] = <<AtomAt(p, k)>> \o rest[k + 2]
      BY <1>3, <2>1, <3>1
    <3>3. QED
      BY <1>3, <2>2, <2>5, <3>1, <3>2
  <2>6. k < m \/ k = m
    BY <1>2
  <2>7. QED
    BY <2>3, <2>4, <2>5, <2>6
<1>7. ASSUME NEW k \in 1..m, k \in T PROVE k - 1 \in T
  <2> DEFINE a == AtomAt(p, k)
             t == tail(k)
             u == <<a>> \o t
  <2>1. k \in 1..n /\ k \in Nat /\ m \in Nat /\ k - 1 \in 0..m
    BY <1>2
  <2>2. a \in AtomSet /\ t \in Seq(AtomSet) /\ Len(t) = m - k
        /\ \A q \in 1..m - k : t[q] = AtomAt(p, k + q)
    BY <1>4, <1>7, <2>1
  <2>3. tail(k - 1) = u
    BY <1>6
  <2> HIDE DEF tail, t, a
  <2>4. <<a>> \in Seq(AtomSet) /\ Len(<<a>>) = 1 /\ <<a>>[1] = a
    BY <2>2
  <2>5. /\ u \in Seq(AtomSet) /\ Len(u) = 1 + Len(t)
        /\ \A j \in 1..1 : u[j] = <<a>>[j]
        /\ \A j \in 1..Len(t) : u[1 + j] = t[j]
    BY <2>2, <2>4, Joined
  <2> HIDE DEF u
  <2>6. u[1] = a
    BY <2>4, <2>5
  <2>7. Len(u) = m - (k - 1)
    BY <2>1, <2>2, <2>5
  <2>8. ASSUME NEW q \in 1..m - (k - 1) PROVE u[q] = AtomAt(p, (k - 1) + q)
    <3>1. CASE q = 1
      <4>1. (k - 1) + q = k
        BY <2>1, <3>1
      <4>2. QED
        BY <2>6, <3>1, <4>1 DEF a
    <3>2. CASE q # 1
      <4>1. q - 1 \in 1..m - k /\ 1 + (q - 1) = q /\ k + (q - 1) = (k - 1) + q
        BY <2>1, <3>2
      <4>2. u[q] = t[q - 1] /\ t[q - 1] = AtomAt(p, k + (q - 1))
        BY <2>2, <2>5, <4>1
      <4>3. QED
        BY <4>1, <4>2
    <3>3. QED
      BY <3>1, <3>2
  <2>9. Good(k - 1)
    BY <2>3, <2>5, <2>7, <2>8
  <2>10. QED
    BY <2>1, <2>9
<1>8. 0 \in T
  <2> HIDE DEF T
  <2>1. 0 \in 0..m /\ m \in Nat
    BY <1>2
  <2>2. QED
    BY <1>5, <1>7, <2>1, DownFrom
<1>9. tail(0) = Regex(p)
  <2>1. 0 = m => 0 + 1 = n + 1
    BY <1>2
  <2>2. 0 + 1 = 1
    OBVIOUS
  <2>3. QED
    BY <1>1, <1>3, <2>1, <2>2
<1>10. m - 0 = m /\ \A q \in 1..m : 0 + q = q
  BY <1>2
<1> HIDE DEF tail
<1>11. QED
  BY <1>8, <1>9, <1>10 DEF IsRegex

-----------------------------------------------------------------------------
(* Where the part of a path may begin that the last atoms match.             *)

\* From the end of the path back, one atom at a time.
IsEnds(ends, regex, path) ==
    /\ ends \in [1..Len(regex) + 1 -> SUBSET (1..Len(path) + 1)]
    /\ ends[Len(regex) + 1] = {Len(path) + 1}
    /\ \A k \in 1..Len(regex) :
          ends[k] = {i \in 1..Len(path) + 1 :
                        \E j \in ends[k + 1] : i <= j /\ Covers(regex[k], path, i, j)}

\* The fold of RegexMatch goes there.
LEMMA MatchDef ==
    ASSUME NEW regex \in Seq(AtomSet), NEW path \in Seq(Nat)
    PROVE  \E ends : IsEnds(ends, regex, path) /\ (RegexMatch(regex, path) <=> 1 \in ends[1])
<1> DEFINE n == Len(regex)
           D == DOMAIN regex
           P == 1..Len(path) + 1
           Begins(atom, s) == {i \in P : \E j \in s : i <= j /\ Covers(atom, path, i, j)}
           iter[t \in SUBSET D] ==
               IF t = {} THEN {Len(path) + 1}
               ELSE LET x == Min(t) IN Begins(regex[x], iter[t \ {x}])
<1>1. RegexMatch(regex, path) <=> 1 \in iter[D]
  BY DEF RegexMatch, FoldRight, MapThenFoldSet
<1>2. n \in Nat /\ D = 1..n /\ Len(path) \in Nat
  OBVIOUS
<1> HIDE DEF n, D
<1>3. {Len(path) + 1} \in SUBSET P /\ \A a, s : Begins(a, s) \in SUBSET P
  BY <1>2
<1> HIDE DEF Begins
<1>4. \E g : g = [t \in SUBSET D |-> IF t = {} THEN {Len(path) + 1}
                                      ELSE LET x == Min(t) IN Begins(regex[x], g[t \ {x}])]
  <2> DEFINE V == SUBSET P
             b == {Len(path) + 1}
             step == [x \in D \X V |-> Begins(regex[x[1]], x[2])]
  <2>1. step \in [D \X V -> V] /\ \A k \in D, v \in V : step[<<k, v>>] = Begins(regex[k], v)
    BY <1>3
  <2>2. b \in V
    BY <1>3
  <2> HIDE DEF step, V, b, P
  <2>3. PICK g \in [SUBSET D -> V] : RightUnfolds(g, n, b, step)
    BY <1>2, <2>1, <2>2, RightRecursion
  <2>4. \A t \in SUBSET D : t # {} => Min(t) \in D
    BY <1>2, LeastOf
  <2>5. \A t \in SUBSET D :
           g[t] = IF t = {} THEN b ELSE Begins(regex[Min(t)], g[t \ {Min(t)}])
    BY <1>2, <2>1, <2>3, <2>4 DEF RightUnfolds
  <2>6. QED
    BY <2>5 DEF b
<1>5. iter = [t \in SUBSET D |-> IF t = {} THEN {Len(path) + 1}
                                 ELSE LET x == Min(t) IN Begins(regex[x], iter[t \ {x}])]
  BY <1>4
<1> HIDE DEF iter
<1> DEFINE ends == [i \in 1..n + 1 |-> iter[i..n]]
<1>6. ends[1] = iter[D] /\ ends[n + 1] = {Len(path) + 1}
  <2>1. n + 1..n = {} /\ 1 \in 1..n + 1 /\ n + 1 \in 1..n + 1
    BY <1>2
  <2>2. QED
    BY <1>2, <1>5, <2>1
<1>7. ASSUME NEW k \in 1..n PROVE ends[k] = Begins(regex[k], ends[k + 1])
  <2>1. k \in 1..n + 1 /\ k + 1 \in 1..n + 1
    BY <1>2
  <2>2. /\ k..n \in SUBSET D /\ k..n # {} /\ Min(k..n) = k
        /\ (k..n) \ {k} = k + 1..n
    BY <1>2, RightPart
  <2>3. iter[k..n] = Begins(regex[k], iter[k + 1..n])
    BY <1>5, <2>2
  <2>4. QED
    BY <2>1, <2>3
<1>8. ends \in [1..n + 1 -> SUBSET P]
  <2>1. \A t \in SUBSET D : iter[t] \in SUBSET P
    BY <1>3, <1>5
  <2>2. \A i \in 1..n + 1 : i..n \in SUBSET D
    BY <1>2
  <2> HIDE DEF P
  <2>3. QED
    BY <2>1, <2>2
<1> HIDE DEF ends
<1>9. IsEnds(ends, regex, path)
  BY <1>6, <1>7, <1>8, Zenon DEF IsEnds, n, Begins
<1>10. QED
  BY <1>1, <1>6, <1>9

\* A character of a pattern that stands for one character.
StandsFor(c, x) == c = Mark \/ c = x

\* Its atom matches that one.
LEMMA CoversOne ==
    ASSUME NEW c \in Nat, NEW path, NEW i, NEW j
    PROVE  Covers(Atom(c), path, i, j) <=> j = i + 1 /\ StandsFor(c, path[i])
<1>1. AnyOne # Anything /\ AnyOne # InSegment
  BY DEF AnyOne, Anything, InSegment
<1>2. \A x : Literal(x) # Anything /\ Literal(x) # InSegment /\ Literal(x) # AnyOne
  BY DEF AnyOne, Anything, InSegment, Literal
<1>3. \A x, y : Literal(x) = Literal(y) <=> x = y
  BY DEF Literal
<1>4. CASE c = Mark
  <2>1. Atom(c) = AnyOne
    BY <1>4 DEF Atom
  <2>2. QED
    BY <1>1, <1>4, <2>1, Zenon DEF Covers, StandsFor
<1>5. CASE c # Mark
  <2>1. Atom(c) = Literal(c)
    BY <1>5 DEF Atom
  <2>2. Covers(Literal(c), path, i, j) <=> j = i + 1 /\ Literal(c) = Literal(path[i])
    BY <1>2, Zenon DEF Covers
  <2>3. QED
    BY <1>3, <1>5, <2>1, <2>2, Zenon DEF StandsFor
<1>6. QED
  BY <1>4, <1>5

\* The last characters of a pattern, from the k-th on, stand for as many of a path.
EndsAlike(p, path, m, k) ==
    m - k < Len(path) /\ \A q \in k..m : StandsFor(p[q], path[Len(path) - m + q])

\* A part of the pattern after the last star, at the place s, matches at one place.
IsTail(ends, p, path, m, s) ==
    \A k \in s + 1..m + 1 :
        ends[k] = {i \in 1..Len(path) + 1 : i = Len(path) - m + k /\ EndsAlike(p, path, m, k)}

\* What the fold finds for it.
LEMMA SuffixEnds ==
    ASSUME NEW p \in Seq(Nat), NEW m \in 0..Len(p), NEW regex, NEW path \in Seq(Nat), NEW ends,
           IsRegex(regex, p, m), IsEnds(ends, regex, path), NEW s \in 0..m,
           \A i \in s + 1..m : p[i] # Star
    PROVE  IsTail(ends, p, path, m, s)
<1> DEFINE l == Len(path)
           Place(k) == {i \in 1..l + 1 : i = l - m + k /\ EndsAlike(p, path, m, k)}
           T == {k \in s..m : ends[k + 1] = Place(k + 1)}
<1>1. /\ m \in Nat /\ l \in Nat /\ s \in Nat /\ s <= m
      /\ ends[m + 1] = {l + 1}
      /\ \A k \in 1..m : ends[k] = {i \in 1..l + 1 : \E j \in ends[k + 1] :
                                       i <= j /\ Covers(regex[k], path, i, j)}
  <2>1. m \in Nat /\ l \in Nat /\ s \in Nat /\ s <= m
    OBVIOUS
  <2>2. Len(regex) = m
    BY DEF IsRegex
  <2>3. QED
    BY <2>1, <2>2, Zenon DEF IsEnds
<1>2. ASSUME NEW k \in 1..m, p[k] # Star PROVE p[k] \in Nat /\ regex[k] = Atom(p[k])
  BY <1>2 DEF IsRegex, AtomAt
<1> HIDE DEF l
<1>3. m \in T
  <2>1. l - m + (m + 1) = l + 1 /\ m - (m + 1) < l /\ m + 1..m = {} /\ m \in s..m /\ l + 1 \in 1..l + 1
    BY <1>1
  <2>2. EndsAlike(p, path, m, m + 1)
    BY <2>1 DEF EndsAlike, l
  <2>3. Place(m + 1) = {l + 1}
    BY <2>1, <2>2
  <2>4. QED
    BY <1>1, <2>1, <2>3
<1>4. ASSUME NEW k \in s + 1..m, k \in T PROVE k - 1 \in T
  <2>1. k \in 1..m /\ k - 1 \in s..m /\ (k - 1) + 1 = k /\ k \in Nat
    BY <1>1
  <2>2. p[k] \in Nat /\ regex[k] = Atom(p[k])
    BY <1>2, <2>1
  <2>3. \A i, j : Covers(regex[k], path, i, j) <=> j = i + 1 /\ StandsFor(p[k], path[i])
    BY <2>2, CoversOne
  <2>4. ends[k + 1] = Place(k + 1)
    BY <1>4
  <2>5. ends[k] = {i \in 1..l + 1 : \E j \in ends[k + 1] :
                                       i <= j /\ Covers(regex[k], path, i, j)}
    BY <1>1, <2>1
  <2>6. ASSUME NEW i \in 1..l + 1
        PROVE  (\E j \in ends[k + 1] : i <= j /\ Covers(regex[k], path, i, j))
                 <=> i = l - m + k /\ EndsAlike(p, path, m, k)
    <3>1. (\E j \in ends[k + 1] : i <= j /\ Covers(regex[k], path, i, j))
             <=> i + 1 \in Place(k + 1) /\ StandsFor(p[k], path[i])
      <4>1. i <= i + 1
        BY <1>1
      <4> HIDE DEF Place
      <4>2. QED
        BY <2>3, <2>4, <4>1, Zenon
    <3>2. i + 1 \in Place(k + 1) <=> /\ i + 1 \in 1..l + 1 /\ i = l - m + k
                                     /\ EndsAlike(p, path, m, k + 1)
      BY <1>1, <2>1
    <3>3. ASSUME i = l - m + k
          PROVE  i + 1 \in 1..l + 1 /\ EndsAlike(p, path, m, k + 1) /\ StandsFor(p[k], path[i])
                    <=> EndsAlike(p, path, m, k)
      <4>1. i + 1 \in 1..l + 1 <=> m - k < l
        BY <1>1, <2>1, <3>3, SMTT(20)
      <4>2. m - k < l => m - (k + 1) < l
        BY <1>1, <2>1
      <4>3. \A q \in k..m : q = k \/ q \in k + 1..m
        BY <1>1, <2>1
      <4>4. k \in k..m /\ \A q \in k + 1..m : q \in k..m
        BY <1>1, <2>1
      <4>5. path[i] = path[l - m + k]
        BY <3>3
      <4> HIDE <1>1, <3>3
      <4>6. QED
        BY <4>1, <4>2, <4>3, <4>4, <4>5 DEF EndsAlike, l
    <3>4. QED
      BY <3>1, <3>2, <3>3
  <2>7. ends[k] = Place(k)
    BY <2>5, <2>6
  <2>8. QED
    BY <2>1, <2>7
<1>5. \A k \in s..m : k \in T
  <2> DEFINE N == m - s
             U == {x \in 0..N : x + s \in T}
  <2>1. N \in Nat /\ N \in U
    BY <1>1, <1>3
  <2>2. ASSUME NEW x \in 1..N, x \in U PROVE x - 1 \in U
    <3>1. x + s \in s + 1..m /\ (x + s) - 1 = (x - 1) + s /\ x - 1 \in 0..N
      BY <1>1
    <3>2. QED
      BY <1>4, <2>2, <3>1
  <2>3. \A x \in 0..N : x \in U
    <3> HIDE DEF U, N
    <3>1. QED
      BY <2>1, <2>2, DownFrom
  <2>4. \A k \in s..m : k - s \in 0..N /\ (k - s) + s = k
    BY <1>1
  <2>5. QED
    BY <2>3, <2>4
<1>6. ASSUME NEW k \in s + 1..m + 1 PROVE ends[k] = Place(k)
  <2>1. k - 1 \in s..m /\ (k - 1) + 1 = k
    BY <1>1
  <2> HIDE DEF Place
  <2>2. ends[(k - 1) + 1] = Place((k - 1) + 1)
    BY <1>5, <2>1
  <2>3. QED
    BY <2>1, <2>2
<1>7. QED
  BY <1>6, Zenon DEF l, IsTail

\* A part before the first star matches from the beginning.
LEMMA PrefixEnds ==
    ASSUME NEW p \in Seq(Nat), NEW m \in 0..Len(p), NEW regex, NEW path \in Seq(Nat), NEW ends,
           IsRegex(regex, p, m), IsEnds(ends, regex, path), NEW s \in 1..m + 1,
           \A i \in 1..s - 1 : p[i] # Star
    PROVE  1 \in ends[1] <=> s \in ends[s] /\ \A q \in 1..s - 1 : StandsFor(p[q], path[q])
<1> DEFINE l == Len(path)
           Upto1(k) == \A q \in 1..k : StandsFor(p[q], path[q])
           T == {k \in 0..s - 1 : 1 \in ends[1] <=> k + 1 \in ends[k + 1] /\ Upto1(k)}
<1>1. /\ m \in Nat /\ l \in Nat /\ s \in Nat
      /\ ends \in [1..m + 1 -> SUBSET (1..l + 1)]
      /\ \A k \in 1..m : ends[k] = {i \in 1..l + 1 : \E j \in ends[k + 1] :
                                       i <= j /\ Covers(regex[k], path, i, j)}
  <2>1. m \in Nat /\ l \in Nat /\ s \in Nat
    OBVIOUS
  <2>2. Len(regex) = m
    BY DEF IsRegex
  <2>3. QED
    BY <2>1, <2>2, Zenon DEF IsEnds
<1>2. ASSUME NEW k \in 1..m, p[k] # Star PROVE p[k] \in Nat /\ regex[k] = Atom(p[k])
  BY <1>2 DEF IsRegex, AtomAt
<1> HIDE DEF l
<1>3. 0 \in T
  <2>1. 1..0 = {} /\ 0 + 1 = 1 /\ 0 \in 0..s - 1
    BY <1>1
  <2>2. QED
    BY <2>1
<1>4. ASSUME NEW n \in 0..(s - 1) - 1, n \in T PROVE n + 1 \in T
  <2> DEFINE k == n + 1
  <2>1. k \in 1..m /\ k \in 1..s - 1 /\ k \in 0..s - 1 /\ k \in Nat /\ k + 1 \in 1..m + 1 /\ k <= k + 1
    BY <1>1
  <2>2. p[k] \in Nat /\ regex[k] = Atom(p[k])
    BY <1>2, <2>1
  <2>3. \A i, j : Covers(regex[k], path, i, j) <=> j = i + 1 /\ StandsFor(p[k], path[i])
    BY <2>2, CoversOne
  <2>4. \A q \in 1..k : q = k \/ q \in 1..n
    OBVIOUS
  <2>5. k \in 1..k /\ \A q \in 1..n : q \in 1..k
    OBVIOUS
  <2>6. ends[k] = {i \in 1..l + 1 : \E j \in ends[k + 1] :
                                       i <= j /\ Covers(regex[k], path, i, j)}
    BY <1>1, <2>1
  <2>7. k + 1 \in ends[k + 1] => k \in 1..l + 1
    <3>1. k + 1 \in ends[k + 1] => k + 1 \in 1..l + 1
      BY <1>1, <2>1
    <3>2. QED
      BY <1>1, <2>1, <3>1
  <2> HIDE DEF k
  <2>8. k \in ends[k] <=> k + 1 \in ends[k + 1] /\ StandsFor(p[k], path[k])
    BY <2>1, <2>3, <2>6, <2>7
  <2>9. Upto1(k) <=> Upto1(n) /\ StandsFor(p[k], path[k])
    BY <2>4, <2>5
  <2>10. 1 \in ends[1] <=> k \in ends[k] /\ Upto1(n)
    BY <1>4 DEF k
  <2>11. QED
    BY <2>1, <2>8, <2>9, <2>10 DEF k
<1>5. s - 1 \in T
  <2> HIDE DEF T
  <2>1. s - 1 \in Nat /\ s - 1 \in 0..s - 1
    BY <1>1
  <2>2. QED
    BY <1>3, <1>4, <2>1, UpTo
<1>6. (s - 1) + 1 = s
  BY <1>1
<1>7. QED
  BY <1>5, <1>6

\* A pattern without a star stands for the paths of its length that are alike.
LikeLine(p, path) == Len(path) = Len(p) /\ \A q \in 1..Len(p) : StandsFor(p[q], path[q])

\* The expression of one matches them.
LEMMA MatchLine ==
    ASSUME NEW p \in Seq(Nat), NEW path \in Seq(Nat), \A q \in 1..Len(p) : p[q] # Star
    PROVE  RegexMatch(Regex(p), path) <=> LikeLine(p, path)
<1> DEFINE m == Len(p)
           l == Len(path)
<1>1. m \in Nat /\ l \in Nat /\ m \in 0..m /\ m + 1 \in 1..m + 1 /\ (m + 1) - 1 = m
  OBVIOUS
<1>2. IsShape(p, m)
  BY <1>1 DEF IsShape
<1>3. IsRegex(Regex(p), p, m)
  BY <1>2, RegexShape, Zenon
<1>4. PICK ends : IsEnds(ends, Regex(p), path) /\ (RegexMatch(Regex(p), path) <=> 1 \in ends[1])
  <2>1. Regex(p) \in Seq(AtomSet)
    BY <1>3 DEF IsRegex
  <2>2. QED
    BY <2>1, MatchDef, Zenon
<1>5. 1 \in ends[1] <=> /\ m + 1 \in ends[m + 1]
                        /\ \A q \in 1..(m + 1) - 1 : StandsFor(p[q], path[q])
  <2>1. \A q \in 1..(m + 1) - 1 : p[q] # Star
    BY <1>1
  <2>2. m \in 0..Len(p)
    BY <1>1
  <2> HIDE DEF m
  <2>3. QED
    BY <1>1, <1>3, <1>4, <2>1, <2>2, PrefixEnds, Zenon
<1>6. ends[m + 1] = {l + 1}
  <2>1. Len(Regex(p)) = m
    BY <1>3 DEF IsRegex
  <2>2. QED
    BY <1>4, <2>1, Zenon DEF IsEnds
<1>7. m + 1 \in ends[m + 1] <=> l = m
  BY <1>1, <1>6
<1>8. QED
  BY <1>1, <1>4, <1>5, <1>7 DEF LikeLine

\* One with a star at the place s, of m atoms: what stands before the star begins the path,
\* what stands behind it ends the path, and what is left holds no slash if it must not.
LikeStar(p, path, m, s) ==
    /\ m <= Len(path) + 1
    /\ \A q \in 1..s - 1 : StandsFor(p[q], path[q])
    /\ \A q \in s + 1..m : StandsFor(p[q], path[Len(path) - m + q])
    /\ AtomAt(p, s) = InSegment => \A k \in s..Len(path) - m + s : path[k] # Slash

\* The expression of one matches these.
LEMMA MatchStar ==
    ASSUME NEW p \in Seq(Nat), NEW path \in Seq(Nat), NEW m, IsShape(p, m), NEW s \in 1..m,
           p[s] = Star, \A q \in 1..m : q # s => p[q] # Star
    PROVE  RegexMatch(Regex(p), path) <=> LikeStar(p, path, m, s)
<1> DEFINE l == Len(path)
           j == l - m + (s + 1)
<1>1. /\ m \in Nat /\ l \in Nat /\ s \in Nat /\ m \in 0..Len(p)
      /\ s \in 1..m + 1 /\ s \in 0..m /\ s + 1 \in s + 1..m + 1 /\ j - 1 = l - m + s
  BY DEF IsShape
<1>2. IsRegex(Regex(p), p, m)
  BY RegexShape, Zenon
<1>3. PICK ends : IsEnds(ends, Regex(p), path) /\ (RegexMatch(Regex(p), path) <=> 1 \in ends[1])
  <2>1. Regex(p) \in Seq(AtomSet)
    BY <1>2 DEF IsRegex
  <2>2. QED
    BY <2>1, MatchDef, Zenon
<1>4. 1 \in ends[1] <=> /\ s \in ends[s]
                        /\ \A q \in 1..s - 1 : StandsFor(p[q], path[q])
  <2>1. \A q \in 1..s - 1 : p[q] # Star
    BY <1>1
  <2>2. QED
    BY <1>1, <1>2, <1>3, <2>1, PrefixEnds, Zenon
<1>5. ends[s + 1] = {i \in 1..l + 1 : i = j /\ EndsAlike(p, path, m, s + 1)}
  <2>1. \A q \in s + 1..m : p[q] # Star
    BY <1>1
  <2>2. IsTail(ends, p, path, m, s)
    BY <1>1, <1>2, <1>3, <2>1, SuffixEnds, Zenon
  <2>3. QED
    BY <1>1, <2>2, Zenon DEF IsTail
<1>6. s \in ends[s] <=> /\ s \in 1..l + 1
                        /\ \E e \in ends[s + 1] : s <= e /\ Covers(AtomAt(p, s), path, s, e)
  <2> DEFINE regex == Regex(p)
  <2>1. Len(regex) = m /\ regex[s] = AtomAt(p, s)
    BY <1>2 DEF IsRegex
  <2> HIDE DEF regex
  <2>2. ends[s] = {i \in 1..l + 1 :
                      \E e \in ends[s + 1] : i <= e /\ Covers(regex[s], path, i, e)}
    BY <1>3, <2>1, Zenon DEF IsEnds, regex
  <2>3. QED
    BY <2>1, <2>2, Zenon
<1>7. Covers(AtomAt(p, s), path, s, j)
         <=> (AtomAt(p, s) = InSegment => \A k \in s..j - 1 : path[k] # Slash)
  <2>1. AtomAt(p, s) \in {Anything, InSegment}
    BY DEF AtomAt
  <2>2. /\ Anything # InSegment /\ AnyOne # Anything /\ AnyOne # InSegment
        /\ \A x : Literal(x) # Anything /\ Literal(x) # InSegment
    BY DEF AnyOne, Anything, InSegment, Literal
  <2> HIDE DEF j
  <2>3. QED
    BY <2>1, <2>2, Zenon DEF Covers
<1>8. s \in ends[s] <=> /\ s \in 1..l + 1 /\ j \in 1..l + 1 /\ EndsAlike(p, path, m, s + 1)
                        /\ s <= j /\ Covers(AtomAt(p, s), path, s, j)
  <2> HIDE DEF l, j
  <2>1. QED
    BY <1>5, <1>6, Zenon
<1>9. s \in 1..l + 1 /\ j \in 1..l + 1 /\ m - (s + 1) < l /\ s <= j <=> m <= l + 1
  <2>1. \A x, y, z \in Nat : 1 <= x /\ x <= y =>
           (x \in 1..z + 1 /\ z - y + (x + 1) \in 1..z + 1 /\ y - (x + 1) < z
               /\ x <= z - y + (x + 1) <=> y <= z + 1)
    OBVIOUS
  <2>2. 1 <= s /\ s <= m
    BY <1>1
  <2> HIDE DEF l
  <2>3. QED
    BY <1>1, <2>1, <2>2, Zenon
<1> HIDE DEF j
<1>10. EndsAlike(p, path, m, s + 1)
         <=> m - (s + 1) < l /\ \A q \in s + 1..m : StandsFor(p[q], path[l - m + q])
  BY Zenon DEF EndsAlike
<1>11. LikeStar(p, path, m, s)
         <=> /\ m <= l + 1
             /\ \A q \in 1..s - 1 : StandsFor(p[q], path[q])
             /\ \A q \in s + 1..m : StandsFor(p[q], path[l - m + q])
             /\ AtomAt(p, s) = InSegment => \A k \in s..j - 1 : path[k] # Slash
  BY <1>1, Zenon DEF LikeStar
<1> HIDE DEF l
<1>12. QED
  BY <1>3, <1>4, <1>7, <1>8, <1>9, <1>10, <1>11, Zenon

-----------------------------------------------------------------------------
(* The rows of the table.                                                    *)

\* A path begins with a sequence.
Starts(s, f) == Len(s) <= Len(f) /\ \A q \in 1..Len(s) : f[q] = s[q]

\* The rows without a suffix select such paths.
LEMMA BetweenStarts ==
    ASSUME NEW s \in Seq(Nat), NEW files, NEW f \in files, f \in Seq(Nat)
    PROVE  f \in Between(s, <<>>, files) <=> Starts(s, f)
<1> DEFINE l == Len(f)
           d == Len(s)
<1>1. l \in Nat /\ d \in Nat /\ 0 + d = d /\ 0 \in Nat /\ \A q \in 1..d : 0 + q = q
  OBVIOUS
<1>2. ASSUME d <= l PROVE SubSeq(f, 1, d) = s <=> \A q \in 1..d : f[q] = s[q]
  <2>1. Section(f, 0, 0 + d) = s <=> \A q \in 1..d : f[0 + q] = s[q]
    <3>1. SectionTest(f, 0, s)
      BY <1>1, <1>2, SectionIs, Zenon
    <3>2. QED
      BY <3>1, Zenon DEF SectionTest
  <2>2. Section(f, 0, 0 + d) = SubSeq(f, 1, d)
    BY <1>1 DEF Section
  <2>3. QED
    BY <1>1, <2>1, <2>2, Zenon
<1>3. From(f, l - Len(<<>>) + 1) = <<>>
  BY DEF From
<1>4. l >= d + Len(<<>>) <=> d <= l
  BY <1>1
<1>5. f \in Between(s, <<>>, files) <=> d <= l /\ SubSeq(f, 1, d) = s
  BY <1>3, <1>4, Zenon DEF Between
<1>6. QED
  BY <1>2, <1>5, Zenon DEF Starts

\* What stands before and behind the i-th character of a sequence.
IsAround(before, after, p, i) ==
    /\ before \in Seq(Nat) /\ Len(before) = i - 1 /\ \A q \in 1..i - 1 : before[q] = p[q]
    /\ after \in Seq(Nat) /\ Len(after) = Len(p) - i
    /\ \A q \in 1..Len(p) - i : after[q] = p[i + q]

\* It is cut off from the sequence.
LEMMA Around ==
    ASSUME NEW p \in Seq(Nat), NEW i \in 1..Len(p)
    PROVE  IsAround(SubSeq(p, 1, i - 1), From(p, i + 1), p, i)
<1> DEFINE n == Len(p)
           before == SubSeq(p, 1, i - 1)
           after == From(p, i + 1)
<1>1. /\ n \in Nat /\ i \in Nat /\ i - 1 \in 0..n /\ 0 \in 0..i - 1 /\ n \in 0..n /\ i \in 0..n
      /\ (i - 1) - 0 = i - 1 /\ \A q \in 1..i - 1 : 0 + q = q
  OBVIOUS
<1>2. before = Section(p, 0, i - 1) /\ after = Section(p, i, n)
  BY DEF Section, From
<1>3. before \in Seq(Nat) /\ Len(before) = i - 1 /\ \A q \in 1..i - 1 : before[q] = p[q]
  <2>1. IsSection(Section(p, 0, i - 1), Nat, p, 0, i - 1)
    BY <1>1, SectionOf, Zenon
  <2> HIDE DEF before
  <2>2. QED
    BY <1>1, <1>2, <2>1, Zenon DEF IsSection
<1>4. after \in Seq(Nat) /\ Len(after) = n - i /\ \A q \in 1..n - i : after[q] = p[i + q]
  <2>1. IsSection(Section(p, i, n), Nat, p, i, n)
    BY <1>1, SectionOf, Zenon
  <2> HIDE DEF after
  <2>2. QED
    BY <1>1, <1>2, <2>1, Zenon DEF IsSection
<1>5. QED
  BY <1>3, <1>4, Zenon DEF IsAround

\* What stands before and behind the i-th character of an argument stands at the ends of a path.
IsBetween(p, f, i) ==
    /\ Len(p) <= Len(f) + 1
    /\ \A q \in 1..i - 1 : p[q] = f[q]
    /\ \A q \in i + 1..Len(p) : p[q] = f[Len(f) - Len(p) + q]

\* The rows with a wildcard select such paths.
LEMMA BetweenRow ==
    ASSUME NEW p \in Seq(Nat), NEW files, NEW f \in files, f \in Seq(Nat), NEW i \in 1..Len(p)
    PROVE  f \in Between(SubSeq(p, 1, i - 1), From(p, i + 1), files) <=> IsBetween(p, f, i)
<1> DEFINE l == Len(f)
           n == Len(p)
           before == SubSeq(p, 1, i - 1)
           after == From(p, i + 1)
           a == l - (n - i)
<1>1. l \in Nat /\ n \in Nat /\ i \in Nat /\ 1 <= i /\ i <= n /\ i - 1 \in Nat /\ n - i \in Nat
  OBVIOUS
<1>2. \A q \in 1..i - 1 : 0 + q = q
  OBVIOUS
<1>3. IsAround(before, after, p, i)
  BY Around, Zenon
<1> HIDE DEF before, after, l, n
<1>4. /\ before \in Seq(Nat) /\ Len(before) = i - 1 /\ \A q \in 1..i - 1 : before[q] = p[q]
      /\ after \in Seq(Nat) /\ Len(after) = n - i /\ \A q \in 1..n - i : after[q] = p[i + q]
  BY <1>3, Zenon DEF IsAround, n
<1>5. l >= (i - 1) + (n - i) <=> n <= l + 1
  BY <1>1
<1>6. ASSUME n <= l + 1
      PROVE  /\ i - 1 <= l /\ a \in Nat /\ a + (n - i) <= l /\ a + (n - i) = l
             /\ \A q \in 1..n - i : a + q = l - n + (i + q)
  BY <1>1, <1>6
<1>7. ASSUME n <= l + 1 PROVE SubSeq(f, 1, i - 1) = before <=> \A q \in 1..i - 1 : p[q] = f[q]
  <2>1. Section(f, 0, 0 + Len(before)) = before
           <=> \A q \in 1..Len(before) : f[0 + q] = before[q]
    <3>0. 0 \in Nat
      OBVIOUS
    <3>1. 0 + Len(before) <= Len(f)
      BY <1>1, <1>4, <1>6, <1>7 DEF l
    <3>2. SectionTest(f, 0, before)
      BY <1>4, <3>1, <3>0, SectionIs, Zenon
    <3>3. QED
      BY <3>2, Zenon DEF SectionTest
  <2>2. Section(f, 0, i - 1) = SubSeq(f, 1, i - 1)
    BY DEF Section
  <2>3. 0 + (i - 1) = i - 1
    BY <1>1
  <2>4. QED
    BY <1>2, <1>4, <2>1, <2>2, <2>3, Zenon
<1>8. ASSUME n <= l + 1
      PROVE  From(f, l - (n - i) + 1) = after <=> \A q \in 1..n - i : p[i + q] = f[l - n + (i + q)]
  <2> DEFINE b == l - (n - i)
  <2>1. Section(f, b, b + Len(after)) = after
           <=> \A q \in 1..Len(after) : f[b + q] = after[q]
    <3>1. b \in Nat /\ b + Len(after) <= Len(f)
      BY <1>1, <1>4, <1>6, <1>8 DEF l
    <3>2. SectionTest(f, b, after)
      BY <1>4, <3>1, SectionIs, Zenon
    <3>3. QED
      BY <3>2, Zenon DEF SectionTest
  <2>2. Section(f, b, l) = From(f, b + 1)
    BY DEF Section, From, l
  <2>3. b + Len(after) = l /\ \A q \in 1..n - i : b + q = l - n + (i + q)
    BY <1>4, <1>6, <1>8
  <2> HIDE DEF b
  <2>4. (\A q \in 1..Len(after) : f[b + q] = after[q])
            <=> \A q \in 1..n - i : p[i + q] = f[l - n + (i + q)]
    BY <1>4, <2>3
  <2>5. QED
    BY <2>1, <2>2, <2>3, <2>4 DEF b
<1>9. (\A q \in 1..n - i : p[i + q] = f[l - n + (i + q)])
         <=> \A q \in i + 1..n : p[q] = f[l - n + q]
  <2>1. \A q \in 1..n - i : i + q \in i + 1..n
    BY <1>1
  <2>2. \A q \in i + 1..n : q - i \in 1..n - i /\ i + (q - i) = q
    BY <1>1
  <2>3. QED
    BY <2>1, <2>2
<1>10. f \in Between(before, after, files)
          <=> /\ n <= l + 1 /\ SubSeq(f, 1, i - 1) = before
              /\ From(f, l - (n - i) + 1) = after
  BY <1>4, <1>5, Zenon DEF Between, l
<1>11. QED
  BY <1>7, <1>8, <1>9, <1>10, Zenon DEF IsBetween, before, after, l, n

\* What a wildcard of an argument selects.
Wild(p, f, i) ==
    \/ p[i] = Star /\ IsBetween(p, f, i) /\ \A k \in i..Len(f) - (Len(p) - i) : f[k] # Slash
    \/ p[i] = Star /\ From(p, i + 1) = <<Star>> /\ Starts(SubSeq(p, 1, i - 1), f)
    \/ p[i] = Mark /\ Len(f) = Len(p) /\ \A q \in 1..Len(p) : q # i => p[q] = f[q]

\* The table speaks of the file, the directory, or a wildcard.
LEMMA SelectsWild ==
    ASSUME NEW p \in Seq(Nat), NEW f \in Files, f \in Seq(Nat)
    PROVE  Selects(p, f) <=> \/ p = f
                             \/ IsDirectory(p, Files) /\ Below(p, f)
                             \/ \E i \in 1..Len(p) : Wild(p, f, i)
<1> DEFINE before(i) == SubSeq(p, 1, i - 1)
           after(i)  == From(p, i + 1)
<1>1. ASSUME NEW i \in 1..Len(p)
      PROVE  f \in Flat(before(i), after(i), Files)
                <=> IsBetween(p, f, i) /\ \A k \in i..Len(f) - (Len(p) - i) : f[k] # Slash
  <2>1. f \in Between(before(i), after(i), Files) <=> IsBetween(p, f, i)
    BY BetweenRow, Zenon
  <2>2. IsAround(before(i), after(i), p, i)
    BY Around, Zenon
  <2> HIDE DEF before, after
  <2>3. Len(before(i)) + 1 = i /\ Len(after(i)) = Len(p) - i
    <3>1. Len(before(i)) = i - 1 /\ Len(after(i)) = Len(p) - i
      BY <2>2, Zenon DEF IsAround
    <3>2. (i - 1) + 1 = i
      OBVIOUS
    <3>3. QED
      BY <3>1, <3>2, Zenon
  <2>4. f \in Flat(before(i), after(i), Files)
           <=> /\ f \in Between(before(i), after(i), Files)
               /\ \A k \in i..Len(f) - (Len(p) - i) : f[k] # Slash
    BY <2>3, Zenon DEF Flat
  <2>5. QED
    BY <2>1, <2>4, Zenon
<1>2. ASSUME NEW i \in 1..Len(p)
      PROVE  f \in Between(before(i), <<>>, Files) <=> Starts(before(i), f)
  <2>1. IsAround(before(i), after(i), p, i)
    BY Around, Zenon
  <2>2. before(i) \in Seq(Nat)
    BY <2>1, Zenon DEF IsAround
  <2>3. QED
    BY <2>2, BetweenStarts, Zenon
<1>3. ASSUME NEW i \in 1..Len(p), Len(f) = Len(p), p[i] = Mark
      PROVE  p = [f EXCEPT ![i] = Mark] <=> \A q \in 1..Len(p) : q # i => p[q] = f[q]
  <2>1. p = [q \in 1..Len(p) |-> p[q]] /\ f = [q \in 1..Len(p) |-> f[q]]
    BY <1>3
  <2>2. QED
    BY <1>3, <2>1
<1>4. DOMAIN p = 1..Len(p)
  OBVIOUS
<1> HIDE DEF before, after
<1>5. (\E i \in DOMAIN p :
          \/ p[i] = Star /\ f \in Flat(before(i), after(i), Files)
          \/ p[i] = Star /\ after(i) = <<Star>> /\ f \in Between(before(i), <<>>, Files)
          \/ p[i] = Mark /\ Len(f) = Len(p) /\ p = [f EXCEPT ![i] = Mark])
        <=> \E i \in 1..Len(p) : Wild(p, f, i)
  <2>1. ASSUME NEW i \in 1..Len(p)
        PROVE  (\/ p[i] = Star /\ f \in Flat(before(i), after(i), Files)
                \/ p[i] = Star /\ after(i) = <<Star>> /\ f \in Between(before(i), <<>>, Files)
                \/ p[i] = Mark /\ Len(f) = Len(p) /\ p = [f EXCEPT ![i] = Mark])
                 <=> Wild(p, f, i)
    BY <1>1, <1>2, <1>3, Zenon DEF Wild, before, after
  <2>2. QED
    BY <1>4, <2>1, Zenon
<1>6. QED
  BY <1>5, Zenon DEF Selects, before, after

\* The characters that stand for themselves.
LEMMA Characters == Slash \in Nat /\ Star # Mark /\ Slash # Star /\ Slash # Mark /\ Dot \in Nat
<1>1. QED
  BY DEF Slash, Star, Mark, Dot

\* An argument without a star and with one question mark at most.
LEMMA SelectsLine ==
    ASSUME NEW p \in Seq(Nat), NEW f \in Files, f \in Seq(Nat), NEW i \in 1..Len(p),
           ~IsDirectory(p, Files), p[i] # Star,
           \A q \in 1..Len(p) : q # i => p[q] \notin {Star, Mark}
    PROVE  RegexMatch(Regex(p), f) <=> Selects(p, f)
<1>1. \A q \in 1..Len(p) : p[q] # Star /\ (p[q] = Mark => q = i)
  OBVIOUS
<1>2. RegexMatch(Regex(p), f) <=> LikeLine(p, f)
  BY <1>1, MatchLine, Zenon
<1>3. p = f <=> Len(p) = Len(f) /\ \A q \in 1..Len(p) : p[q] = f[q]
  BY SeqEqual
<1>4. (\E j \in 1..Len(p) : Wild(p, f, j))
         <=> p[i] = Mark /\ Len(f) = Len(p) /\ \A q \in 1..Len(p) : q # i => p[q] = f[q]
  BY <1>1, Zenon DEF Wild
<1>5. Selects(p, f)
         <=> \/ p = f
             \/ p[i] = Mark /\ Len(f) = Len(p) /\ \A q \in 1..Len(p) : q # i => p[q] = f[q]
  BY <1>4, SelectsWild, Zenon
<1>6. LikeLine(p, f)
         <=> \/ p = f
             \/ p[i] = Mark /\ Len(f) = Len(p) /\ \A q \in 1..Len(p) : q # i => p[q] = f[q]
  BY <1>1, <1>3, Zenon DEF LikeLine, StandsFor
<1>7. QED
  BY <1>2, <1>5, <1>6

\* One with a single star.
LEMMA SelectsStar ==
    ASSUME NEW p \in Seq(Nat), NEW f \in Files, f \in Seq(Nat), NEW i \in 1..Len(p),
           ~IsDirectory(p, Files), p[i] = Star,
           \A q \in 1..Len(p) : q # i => p[q] \notin {Star, Mark}
    PROVE  RegexMatch(Regex(p), f) <=> Selects(p, f)
<1> DEFINE n == Len(p)
           l == Len(f)
           Free == \A k \in i..l - n + i : f[k] # Slash
<1>1. n \in Nat /\ l \in Nat /\ i \in Nat /\ 1 <= i /\ i <= n /\ n \in 0..n /\ l - (n - i) = l - n + i
  OBVIOUS
<1>2. \A q \in 1..n : p[q] # Mark /\ (p[q] = Star => q = i)
  BY Characters
<1>3. IsShape(p, n)
  <2>1. \A q \in 1..n - 1 : q \in 1..n /\ q + 1 \in 1..n /\ q # q + 1
    BY <1>1
  <2>2. QED
    BY <1>1, <1>2, <2>1, Zenon DEF IsShape
<1>4. RegexMatch(Regex(p), f) <=> LikeStar(p, f, n, i)
  BY <1>2, <1>3, MatchStar, Zenon
<1>5. AtomAt(p, i) = InSegment
  <2>1. i < n => i + 1 \in 1..n /\ i + 1 # i
    BY <1>1
  <2>2. QED
    BY <1>2, <2>1, Zenon DEF AtomAt
<1>6. /\ \A q \in 1..i - 1 : p[q] # Mark
      /\ \A q \in i + 1..n : p[q] # Mark
  <2>1. /\ \A q \in 1..i - 1 : q \in 1..n
        /\ \A q \in i + 1..n : q \in 1..n
    BY <1>1
  <2>2. QED
    BY <1>2, <2>1
<1>7. LikeStar(p, f, n, i) <=> IsBetween(p, f, i) /\ Free
  BY <1>5, <1>6, Zenon DEF LikeStar, IsBetween, StandsFor
<1>8. p = f => IsBetween(p, f, i) /\ Free
  <2> SUFFICES ASSUME p = f PROVE IsBetween(p, f, i) /\ Free
    OBVIOUS
  <2>1. n <= n + 1 /\ \A q \in i + 1..n : n - n + q = q
    BY <1>1
  <2>2. IsBetween(p, p, i)
    BY <2>1 DEF IsBetween
  <2>3. \A k \in i..n - n + i : k = i
    BY <1>1
  <2>4. QED
    BY <2>2, <2>3, Characters
<1>9. (\E j \in 1..n : Wild(p, f, j)) <=> IsBetween(p, f, i) /\ Free
  <2>1. From(p, i + 1) # <<Star>>
    <3>1. IsAround(SubSeq(p, 1, i - 1), From(p, i + 1), p, i)
      BY Around, Zenon
    <3>2. Len(From(p, i + 1)) = n - i /\ \A q \in 1..n - i : From(p, i + 1)[q] = p[i + q]
      BY <3>1, Zenon DEF IsAround
    <3>3. ASSUME From(p, i + 1) = <<Star>> PROVE FALSE
      <4>1. n - i = 1 /\ From(p, i + 1)[1] = Star
        BY <3>2, <3>3, SMTT(20)
      <4>2. 1 \in 1..n - i /\ i + 1 \in 1..n /\ i + 1 # i
        BY <1>1, <4>1
      <4>3. QED
        BY <1>2, <3>2, <4>1, <4>2
    <3>4. QED
      BY <3>3
  <2> HIDE DEF n, l
  <2>2. Wild(p, f, i) <=> IsBetween(p, f, i) /\ Free
    BY <1>1, <1>2, <2>1, Zenon DEF Wild, n, l
  <2>3. \A j \in 1..n : Wild(p, f, j) => j = i
    BY <1>2, Zenon DEF Wild
  <2>4. i \in 1..n
    BY DEF n
  <2>5. QED
    BY <2>2, <2>3, <2>4, Zenon
<1>10. Selects(p, f) <=> IsBetween(p, f, i) /\ Free
  BY <1>8, <1>9, SelectsWild, Zenon
<1>11. QED
  BY <1>4, <1>7, <1>10

\* One with two stars at its end.
LEMMA SelectsStars ==
    ASSUME NEW p \in Seq(Nat), NEW f \in Files, f \in Seq(Nat), NEW i \in 1..Len(p),
           ~IsDirectory(p, Files), p[i] = Star, i + 1 = Len(p), p[i + 1] = Star,
           \A q \in 1..i - 1 : p[q] \notin {Star, Mark}
    PROVE  RegexMatch(Regex(p), f) <=> Selects(p, f)
<1> DEFINE n == Len(p)
           l == Len(f)
           Begun == i - 1 <= l /\ \A q \in 1..i - 1 : p[q] = f[q]
<1>1. /\ n \in Nat /\ l \in Nat /\ i \in Nat /\ 1 <= i /\ i + 1 = n /\ i \in 0..n /\ i # n /\ i > 0
      /\ i \in 1..i /\ i < n
      /\ \A q \in 1..i - 1 : q \in 1..n /\ q # i
      /\ \A q \in 1..n : q \in 1..i - 1 \/ q = i \/ q = i + 1
      /\ \A q \in 1..i : q # i => q \in 1..i - 1
  OBVIOUS
<1>2. /\ \A q \in 1..i - 1 : p[q] # Mark /\ p[q] # Star
      /\ \A q \in 1..i : q # i => p[q] # Star
  BY <1>1
<1>3. IsShape(p, i)
  <2> HIDE DEF n
  <2>1. QED
    BY <1>1, <1>2, Zenon DEF IsShape, n
<1>4. RegexMatch(Regex(p), f) <=> LikeStar(p, f, i, i)
  BY <1>1, <1>2, <1>3, MatchStar, Zenon
<1>5. AtomAt(p, i) # InSegment
  <2>1. Anything # InSegment
    BY DEF Anything, InSegment
  <2>2. QED
    BY <1>1, <2>1, Zenon DEF AtomAt
<1>6. i <= l + 1 <=> i - 1 <= l
  BY <1>1
<1>7. i + 1..i = {}
  BY <1>1
<1>8. LikeStar(p, f, i, i) <=> Begun
  BY <1>2, <1>5, <1>6, <1>7, Zenon DEF LikeStar, StandsFor
<1>9. IsAround(SubSeq(p, 1, i - 1), From(p, i + 1), p, i)
  BY Around, Zenon
<1>10. From(p, i + 1) = <<Star>>
  <2> DEFINE after == From(p, i + 1)
  <2>1. after \in Seq(Nat) /\ Len(after) = n - i /\ \A q \in 1..n - i : after[q] = p[i + q]
    BY <1>9, Zenon DEF IsAround
  <2>2. n - i = 1
    BY <1>1
  <2> HIDE DEF after
  <2>3. Len(after) = 1 /\ after[1] = Star
    BY <2>1, <2>2
  <2>4. QED
    BY <2>1, <2>3, InOne DEF after
<1>11. Starts(SubSeq(p, 1, i - 1), f) <=> Begun
  <2>1. Len(SubSeq(p, 1, i - 1)) = i - 1 /\ \A q \in 1..i - 1 : SubSeq(p, 1, i - 1)[q] = p[q]
    BY <1>9, Zenon DEF IsAround
  <2>2. QED
    BY <2>1, Zenon DEF Starts
<1>12. p = f => Begun
  BY <1>1
<1>13. ASSUME NEW j \in 1..n, Wild(p, f, j) PROVE Begun
  <2>1. j \in {i, i + 1} /\ p[j] = Star
    BY <1>1, <1>2, <1>13, Characters DEF Wild
  <2>2. CASE IsBetween(p, f, j)
    <3>1. n <= l + 1 /\ \A q \in 1..j - 1 : p[q] = f[q]
      BY <2>2, Zenon DEF IsBetween
    <3>2. i - 1 <= l /\ \A q \in 1..i - 1 : q \in 1..j - 1
      BY <1>1, <2>1, <3>1
    <3>3. QED
      BY <3>1, <3>2
  <2>3. CASE From(p, j + 1) = <<Star>>
    <3>1. j = i
      <4>1. ASSUME j = i + 1 PROVE FALSE
        <5>1. IsAround(SubSeq(p, 1, j - 1), From(p, j + 1), p, j)
          BY Around, Zenon
        <5>2. Len(From(p, j + 1)) = n - j
          BY <5>1, Zenon DEF IsAround
        <5>3. n - j = 0 /\ Len(<<Star>>) = 1 /\ 1 # 0
          BY <1>1, <4>1
        <5>4. Len(From(p, j + 1)) = 1
          BY <2>3, <5>3, Zenon
        <5>5. QED
          BY <5>2, <5>3, <5>4, Zenon
      <4>2. QED
        BY <2>1, <4>1
    <3>2. Starts(SubSeq(p, 1, i - 1), f) \/ IsBetween(p, f, j)
      BY <1>13, <2>1, <3>1, Characters, Zenon DEF Wild
    <3>3. QED
      BY <1>11, <2>2, <3>2
  <2>4. QED
    BY <1>13, <2>1, <2>2, <2>3, Characters, Zenon DEF Wild
<1>14. Begun => Wild(p, f, i)
  BY <1>10, <1>11, Zenon DEF Wild
<1>15. Selects(p, f) <=> Begun
  BY <1>12, <1>13, <1>14, SelectsWild, Zenon
<1>16. QED
  BY <1>4, <1>8, <1>15

\* What is left of a sequence after its first k elements.
LEMMA Rest ==
    ASSUME NEW p \in Seq(Nat), NEW i \in 1..Len(p)
    PROVE  <<p[i]>> \o SubSeq(p, i + 1, Len(p)) = SubSeq(p, i, Len(p))
<1> DEFINE n == Len(p)
           s == <<p[i]>>
           t == SubSeq(p, i + 1, n)
           u == s \o t
           v == SubSeq(p, i, n)
<1>1. /\ n \in Nat /\ i \in 0..n /\ i - 1 \in 0..n /\ n \in 0..n /\ (i - 1) + 1 = i
      /\ 1 + (n - i) = n - (i - 1) /\ i \in Nat
      /\ \A q \in 1..n - (i - 1) : q = 1 \/ (q - 1 \in 1..n - i /\ 1 + (q - 1) = q
                                               /\ i + (q - 1) = (i - 1) + q)
  OBVIOUS
<1>2. t \in Seq(Nat) /\ Len(t) = n - i /\ \A q \in 1..n - i : t[q] = p[i + q]
  <2>1. IsAround(SubSeq(p, 1, i - 1), From(p, i + 1), p, i)
    BY Around, Zenon
  <2>2. QED
    BY <2>1, Zenon DEF IsAround, From
<1>3. v \in Seq(Nat) /\ Len(v) = n - (i - 1) /\ \A q \in 1..n - (i - 1) : v[q] = p[(i - 1) + q]
  <2>1. IsSection(Section(p, i - 1, n), Nat, p, i - 1, n)
    BY <1>1, SectionOf, Zenon
  <2>2. Section(p, i - 1, n) = v
    BY <1>1, Zenon DEF Section
  <2>3. QED
    BY <2>1, <2>2, Zenon DEF IsSection
<1>4. s \in Seq(Nat) /\ Len(s) = 1 /\ s[1] = p[i]
  OBVIOUS
<1> HIDE DEF n, s, t, v
<1>5. /\ u \in Seq(Nat) /\ Len(u) = 1 + (n - i) /\ u[1] = p[i]
      /\ \A q \in 1..n - i : u[1 + q] = t[q]
  <2>1. /\ s \o t \in Seq(Nat) /\ Len(s \o t) = Len(s) + Len(t)
        /\ \A j \in 1..Len(s) : (s \o t)[j] = s[j]
        /\ \A j \in 1..Len(t) : (s \o t)[Len(s) + j] = t[j]
    <3>1. s \in Seq(Nat) /\ t \in Seq(Nat)
      BY <1>2, <1>4
    <3>2. QED
      BY <3>1, Joined
  <2>2. 1 \in 1..1
    OBVIOUS
  <2>3. QED
    BY <1>2, <1>4, <2>1, <2>2, Zenon
<1> HIDE DEF u
<1>6. \A q \in 1..n - (i - 1) : u[q] = v[q]
  <2>1. ASSUME NEW q \in 1..n - (i - 1) PROVE u[q] = v[q]
    <3>1. v[q] = p[(i - 1) + q]
      BY <1>3
    <3>2. CASE q = 1
      BY <1>1, <1>5, <3>1, <3>2, Zenon
    <3>3. CASE q - 1 \in 1..n - i /\ 1 + (q - 1) = q /\ i + (q - 1) = (i - 1) + q
      BY <1>2, <1>5, <3>1, <3>3, Zenon
    <3>4. QED
      BY <1>1, <3>2, <3>3
  <2>2. QED
    BY <2>1
<1>7. u = v
  BY <1>1, <1>3, <1>5, <1>6, SeqEqual, Zenon
<1>8. QED
  BY <1>7 DEF u, v, s, t, n

\* The shortest spelling of a path is itself.
LEMMA DirectOf == ASSUME NEW p \in Seq(Nat), Canonical(p) PROVE Direct(p) = p
<1> DEFINE n == Len(p)
           D == 1..n + 1
           rest[i \in 1..Len(p) + 1] ==
              IF i > Len(p) THEN <<>>
              ELSE (IF NamesNothing(p, i) THEN <<>> ELSE <<p[i]>>) \o rest[i + 1]
           g == [i \in D |-> SubSeq(p, i, n)]
           Body(r, i) == IF i > Len(p) THEN <<>>
                         ELSE (IF NamesNothing(p, i) THEN <<>> ELSE <<p[i]>>) \o r[i + 1]
<1>1. Direct(p) = rest[1]
  BY DEF Direct
<1>2. n \in Nat /\ 1 \in D /\ n + 1 \in D
  OBVIOUS
<1>3. \A i \in 1..n : ~NamesNothing(p, i)
  BY DEF Canonical
<1>4. ASSUME NEW i \in 1..n PROVE <<p[i]>> \o SubSeq(p, i + 1, n) = SubSeq(p, i, n)
  BY <1>4, Rest, Zenon
<1>5. ASSUME NEW i \in D PROVE g[i] = Body(g, i)
  <2>1. CASE i = n + 1
    BY <1>2, <2>1
  <2>2. CASE i # n + 1
    <3>1. i \in 1..n /\ i + 1 \in D /\ ~(i > Len(p))
      BY <1>2, <1>5, <2>2
    <3>2. g[i] = SubSeq(p, i, n) /\ g[i + 1] = SubSeq(p, i + 1, n)
      BY <1>5, <3>1
    <3>3. <<p[i]>> \o g[i + 1] = g[i]
      BY <1>4, <3>1, <3>2, Zenon
    <3> HIDE DEF g
    <3>4. QED
      BY <1>3, <3>1, <3>3, Zenon
  <2>3. QED
    BY <2>1, <2>2
<1>6. rest = [i \in D |-> Body(rest, i)]
  <2>1. g = [i \in D |-> g[i]]
    OBVIOUS
  <2> HIDE DEF g
  <2>2. g = [i \in 1..Len(p) + 1 |->
                IF i > Len(p) THEN <<>>
                ELSE (IF NamesNothing(p, i) THEN <<>> ELSE <<p[i]>>) \o g[i + 1]]
    BY <1>5, <2>1, Zenon
  <2>3. QED
    BY <2>2, Zenon
<1> HIDE DEF rest
<1>7. \A i \in D : rest[i] = Body(rest, i)
  <2> HIDE DEF Body, D
  <2>1. QED
    BY <1>6
<1> DEFINE T == {k \in 0..n : rest[k + 1] = SubSeq(p, k + 1, n)}
<1>8. n \in T
  <2>1. rest[n + 1] = <<>> /\ SubSeq(p, n + 1, n) = <<>>
    <3>1. n + 1 > Len(p)
      BY <1>2
    <3>2. rest[n + 1] = <<>>
      BY <1>2, <1>7, <3>1, Zenon
    <3>3. SubSeq(p, n + 1, n) = <<>>
      BY <1>2
    <3>4. QED
      BY <3>2, <3>3
  <2>2. n \in 0..n
    BY <1>2
  <2>3. QED
    BY <2>1, <2>2, Zenon
<1>9. ASSUME NEW k \in 1..n, k \in T PROVE k - 1 \in T
  <2>1. k \in D /\ ~(k > Len(p)) /\ (k - 1) + 1 = k /\ k - 1 \in 0..n
    BY <1>2
  <2>2. rest[k] = <<p[k]>> \o rest[k + 1]
    BY <1>3, <1>7, <2>1, Zenon
  <2>3. rest[k] = SubSeq(p, k, n)
    BY <1>4, <1>9, <2>2, Zenon
  <2>4. QED
    BY <2>1, <2>3
<1>10. 0 \in T
  <2> HIDE DEF T, n
  <2>1. 0 \in 0..n
    BY <1>2
  <2>2. QED
    BY <1>2, <1>8, <1>9, <2>1, DownFrom
<1>11. rest[1] = SubSeq(p, 1, n)
  <2>1. 0 + 1 = 1
    OBVIOUS
  <2>2. QED
    BY <1>10, <2>1
<1>12. SubSeq(p, 1, n) = p
  OBVIOUS
<1>13. QED
  BY <1>1, <1>11, <1>12, Zenon

\* The name of a directory selects what is below it.
LEMMA SelectsDirectory ==
    ASSUME FilesAssumption, NEW p \in Seq(Nat), p # <<>>, NEW f \in Files, f \in Seq(Nat),
           Canonical(p), IsDirectory(p, Files), \A q \in 1..Len(p) : p[q] \notin {Star, Mark}
    PROVE  RegexMatch(Regex(Normalized(p, Files)), f) <=> Selects(p, f)
<1> DEFINE n == Len(p)
           l == Len(f)
           ends == p[n] = Slash
           path == p \o (IF ends THEN <<>> ELSE <<Slash>>)
           d == Len(path)
           all == path \o <<Star, Star>>
<1>1. n \in Nat /\ 1 <= n /\ l \in Nat /\ n \in 1..n
  OBVIOUS
<1>2. path \in Seq(Nat) /\ d \in Nat /\ 1 <= d /\ all \in Seq(Nat)
  BY Characters DEF Star
<1>3. \A q \in 1..d : path[q] \notin {Star, Mark}
  <2>1. CASE ends
    <3>1. path = p
      BY <2>1
    <3>2. QED
      BY <3>1
  <2>2. CASE ~ends
    <3>1. path = p \o <<Slash>>
      BY <2>2
    <3>2. d = n + 1 /\ path[n + 1] = Slash /\ \A q \in 1..n : path[q] = p[q]
      BY <3>1
    <3>3. \A q \in 1..d : q \in 1..n \/ q = n + 1
      BY <1>1, <3>2
    <3>4. QED
      BY <3>2, <3>3, Characters
  <2>3. QED
    BY <2>1, <2>2
<1>4. Tree(p) = path
  <2>1. Direct(p) = p
    BY DirectOf
  <2>2. path = IF p = <<>> \/ p[Len(p)] = Slash THEN p ELSE p \o <<Slash>>
    <3>1. p \o <<>> = p
      OBVIOUS
    <3>2. QED
      BY <3>1, Zenon
  <2>3. QED
    BY <2>1, <2>2, Zenon DEF Tree
<1>5. Normalized(p, Files) = all
  BY DEF Normalized
<1>6. /\ Len(all) = d + 2 /\ \A q \in 1..d : all[q] = path[q]
      /\ all[d + 1] = Star /\ all[d + 2] = Star
  <2>1. /\ path \in Seq(Nat) /\ <<Star, Star>> \in Seq(Nat) /\ Len(<<Star, Star>>) = 2
        /\ <<Star, Star>>[1] = Star /\ <<Star, Star>>[2] = Star
    BY <1>2 DEF Star
  <2> HIDE DEF path
  <2>2. QED
    BY <2>1
<1> HIDE DEF all
<1>7. RegexMatch(Regex(all), f) <=> Starts(path, f)
  <2> DEFINE m == d + 1
  <2>1. /\ m \in Nat /\ m \in 0..d + 2 /\ m > 0 /\ m + 1 = d + 2 /\ m \in 1..m /\ m < d + 2
        /\ m - 1 = d /\ m + 1..m = {} /\ \A q \in 1..m : q # m => q \in 1..d
    <3>1. \A x \in Nat : /\ x + 1 \in Nat /\ x + 1 \in 0..x + 2 /\ x + 1 > 0 /\ (x + 1) + 1 = x + 2
                         /\ x + 1 \in 1..x + 1 /\ x + 1 < x + 2 /\ (x + 1) - 1 = x
                         /\ (x + 1) + 1..x + 1 = {} /\ \A q \in 1..x + 1 : q # x + 1 => q \in 1..x
      OBVIOUS
    <3> HIDE DEF path, d
    <3>2. QED
      BY <1>2, <3>1, Zenon
  <2>2. all[m] = Star /\ all[m + 1] = Star /\ \A q \in 1..m : q # m => all[q] # Star
    BY <1>3, <1>6, <2>1
  <2> HIDE DEF d, path, m
  <2>3. IsShape(all, m)
    BY <1>3, <1>6, <2>1, <2>2, Zenon DEF IsShape
  <2>4. RegexMatch(Regex(all), f) <=> LikeStar(all, f, m, m)
    BY <1>2, <2>1, <2>2, <2>3, MatchStar, Zenon
  <2>5. AtomAt(all, m) # InSegment
    <3>1. Anything # InSegment
      BY DEF Anything, InSegment
    <3>2. QED
      BY <1>6, <2>1, <2>2, <3>1, Zenon DEF AtomAt
  <2>6. m <= l + 1 <=> d <= l
    BY <1>1, <1>2 DEF m
  <2>7. \A q \in 1..d : StandsFor(all[q], f[q]) <=> f[q] = path[q]
    BY <1>3, <1>6, Zenon DEF StandsFor
  <2>8. LikeStar(all, f, m, m) <=> d <= l /\ \A q \in 1..d : StandsFor(all[q], f[q])
    BY <2>1, <2>5, <2>6, Zenon DEF LikeStar
  <2>9. Starts(path, f) <=> d <= l /\ \A q \in 1..d : f[q] = path[q]
    BY Zenon DEF Starts, d
  <2>10. QED
    BY <2>4, <2>7, <2>8, <2>9, Zenon
<1>8. p # f
  BY DEF FilesAssumption
<1>9. \A i \in 1..n : ~Wild(p, f, i)
  BY Zenon DEF Wild
<1> HIDE DEF path
<1>10. Below(p, f) <=> Starts(path, f)
  BY <1>2, <1>4, BetweenStarts, Zenon DEF Below
<1>11. Selects(p, f) <=> Starts(path, f)
  BY <1>8, <1>9, <1>10, SelectsWild, Zenon
<1>12. QED
  BY <1>5, <1>7, <1>11, Zenon

\* Every row of the table.
LEMMA SelectsRow ==
    ASSUME FilesAssumption, NEW p \in Seq(Nat), IsRow(p), NEW f \in Files, f \in Seq(Nat)
    PROVE  RegexMatch(Regex(Normalized(p, Files)), f) <=> Selects(p, f)
<1>1. Len(p) \in Nat /\ DOMAIN p = 1..Len(p) /\ p # <<>> /\ Canonical(p)
  BY DEF IsRow
<1>2. Star # Mark
  BY Characters
<1>3. ~IsDirectory(p, Files) => Normalized(p, Files) = p
  BY Zenon DEF Normalized
<1>4. CASE Plain(p)
  <2>1. \A q \in 1..Len(p) : p[q] \notin {Star, Mark}
    BY <1>1, <1>4, Zenon DEF Plain
  <2>2. CASE IsDirectory(p, Files)
    BY <1>1, <2>1, <2>2, SelectsDirectory, Zenon
  <2>3. CASE ~IsDirectory(p, Files)
    <3>1. 1 \in 1..Len(p) /\ p[1] # Star
      BY <1>1, <2>1
    <3>2. \A q \in 1..Len(p) : q # 1 => p[q] \notin {Star, Mark}
      BY <2>1
    <3>3. QED
      BY <1>3, <2>3, <3>1, <3>2, SelectsLine, Zenon
  <2>4. QED
    BY <2>2, <2>3
<1>5. CASE ~Plain(p)
  <2>1. ~IsDirectory(p, Files)
    BY <1>5, Zenon DEF IsRow
  <2>2. PICK i \in 1..Len(p) :
           /\ Plain(SubSeq(p, 1, i - 1))
           /\ \/ p[i] \in {Star, Mark} /\ Plain(From(p, i + 1))
              \/ p[i] = Star /\ From(p, i + 1) = <<Star>>
    BY <1>1, <1>5, Zenon DEF IsRow
  <2> DEFINE before == SubSeq(p, 1, i - 1)
             after  == From(p, i + 1)
  <2>3. IsAround(before, after, p, i)
    BY Around, Zenon
  <2> HIDE DEF before, after
  <2>4. /\ before \in Seq(Nat) /\ Len(before) = i - 1 /\ \A q \in 1..i - 1 : before[q] = p[q]
        /\ after \in Seq(Nat) /\ Len(after) = Len(p) - i
        /\ \A q \in 1..Len(p) - i : after[q] = p[i + q]
    BY <2>3, Zenon DEF IsAround
  <2>5. DOMAIN before = 1..i - 1 /\ DOMAIN after = 1..Len(p) - i
    <3>1. \A s \in Seq(Nat) : DOMAIN s = 1..Len(s)
      OBVIOUS
    <3>2. QED
      BY <2>4, <3>1, Zenon
  <2>6. \A q \in 1..i - 1 : p[q] \notin {Star, Mark}
    <3>1. Plain(before)
      BY <2>2 DEF before
    <3>2. QED
      BY <2>4, <2>5, <3>1, Zenon DEF Plain
  <2>7. CASE Plain(after) /\ p[i] \in {Star, Mark}
    <3>1. \A q \in 1..Len(p) - i : p[i + q] \notin {Star, Mark}
      BY <2>4, <2>5, <2>7, Zenon DEF Plain
    <3>2. \A q \in 1..Len(p) : q # i => q \in 1..i - 1 \/ (q - i \in 1..Len(p) - i /\ i + (q - i) = q)
      BY <1>1
    <3>3. \A q \in 1..Len(p) : q # i => p[q] \notin {Star, Mark}
      <4>1. ASSUME NEW q \in 1..Len(p), q # i PROVE p[q] \notin {Star, Mark}
        <5>1. CASE q \in 1..i - 1
          BY <2>6, <5>1
        <5>2. CASE q - i \in 1..Len(p) - i /\ i + (q - i) = q
          <6>1. p[i + (q - i)] \notin {Star, Mark}
            BY <3>1, <5>2, Zenon
          <6>2. QED
            BY <5>2, <6>1, Zenon
        <5>3. QED
          BY <3>2, <4>1, <5>1, <5>2
      <4>2. QED
        BY <4>1
    <3>4. CASE p[i] = Star
      BY <1>3, <2>1, <3>3, <3>4, SelectsStar, Zenon
    <3>5. CASE p[i] # Star
      BY <1>3, <2>1, <3>3, <3>5, SelectsLine, Zenon
    <3>6. QED
      BY <3>4, <3>5
  <2>8. CASE p[i] = Star /\ after = <<Star>>
    <3>1. Len(after) = 1 /\ after[1] = Star
      BY <2>8
    <3>2. Len(p) - i = 1
      BY <2>4, <3>1, Zenon
    <3>3. i + 1 = Len(p) /\ 1 \in 1..Len(p) - i
      <4>1. \A n, k \in Nat : n - k = 1 => k + 1 = n /\ 1 \in 1..n - k
        OBVIOUS
      <4>2. i \in Nat
        OBVIOUS
      <4>3. QED
        BY <1>1, <3>2, <4>1, <4>2, Zenon
    <3>4. p[i + 1] = Star
      BY <2>4, <3>1, <3>3, Zenon
    <3>5. QED
      BY <1>3, <2>1, <2>6, <2>8, <3>3, <3>4, SelectsStars, Zenon
  <2>9. QED
    BY <2>2, <2>7, <2>8, Zenon DEF before, after
<1>6. QED
  BY <1>4, <1>5

\* What the expressions made from the arguments select is what README.md says of them: a
\* file, the files below a directory, one wildcard, or two stars at the end. Claimed of
\* arguments in their shortest spelling, and not of two stars before a slash: what the code
\* makes of **/*.ext, of . and of ./name is not what is documented.
THEOREM SelectsAsDocumented ==
    ASSUME CodecAssumption, OfferAssumption, FilesAssumption,
           \A args \in Arguments : \A arg \in args : IsRow(arg)
    PROVE  Spec => []AsDocumented
<1>1. OfferInv => AsDocumented
  <2> SUFFICES ASSUME OfferInv
               PROVE  edit.matched = {f \in edit.among : \E arg \in edit.args : Selects(arg, f)}
    BY DEF AsDocumented
  <2>1. /\ edit.args \in Arguments \cup {{}} /\ edit.among \subseteq Files
        /\ edit.matched = Matched(edit.args, edit.among, Files)
    BY DEF OfferInv, EditInv
  <2>2. Seq(0..Radix - 1) \subseteq Seq(Nat)
    <3>1. 0..Radix - 1 \subseteq Nat
      BY DEF CodecAssumption
    <3>2. QED
      BY <3>1
  <2>3. \A f \in edit.among : f \in Files /\ f \in Seq(Nat)
    BY <2>1, <2>2 DEF OfferAssumption
  <2>4. \A arg \in edit.args : arg \in Seq(Nat) /\ IsRow(arg)
    <3>1. CASE edit.args \in Arguments
      <4>1. edit.args \subseteq Seq(0..Radix - 1)
        BY <3>1 DEF OfferAssumption
      <4>2. QED
        BY <2>2, <3>1, <4>1
    <3>2. CASE edit.args = {}
      BY <3>2
    <3>3. QED
      BY <2>1, <3>1, <3>2
  <2>5. ASSUME NEW f \in edit.among, NEW arg \in edit.args
        PROVE  RegexMatch(Regex(Normalized(arg, Files)), f) <=> Selects(arg, f)
    BY <2>3, <2>4, SelectsRow, Zenon
  <2>6. Matched(edit.args, edit.among, Files)
           = {f \in edit.among : \E arg \in edit.args : Selects(arg, f)}
    BY <2>5, Zenon DEF Matched
  <2>7. QED
    BY <2>1, <2>6
<1>2. QED
  BY <1>1, Invariance, PTL
==============================================================================
