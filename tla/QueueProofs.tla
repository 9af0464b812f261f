----------------------------- MODULE QueueProofs -----------------------------
(***************************************************************************)
(* Proofs about BoundedThreadSafeQueue, for any number of producers and      *)
(* consumers and any capacity: the types and the bound, that no wakeup is    *)
(* lost, and that the queue implements the steps of BoundedFifo.             *)
(*                                                                           *)
(* The inductive invariant adds to TypeOK and NoLostWakeup what relates the  *)
(* queue to its history (FifoInv) and why every element is put once          *)
(* (CountInv). The proof has one lemma per part and, in each, one step per   *)
(* action that can disturb it.                                               *)
(***************************************************************************)
EXTENDS BoundedQueue, SequenceLemmas, FiniteSetTheorems

\* What has been put is what has been taken and then what is inside.
FifoInv == in = out \o queue

\* Each element of a producer has the number of its push: it is in the history once.
CountInv ==
    /\ \A p \in Producers : call[p] = "push" => pushes[p] >= 1
    /\ \A i \in 1..Len(in) :
          /\ in[i][2] <= pushes[in[i][1]]
          /\ call[in[i][1]] = "push" => in[i][2] < pushes[in[i][1]]

\* The inductive invariant.
QueueInv == TypeOK /\ NoLostWakeup /\ FifoInv /\ CountInv

\* The threads that are inside pop, or inside push, and do not wait.
PopsAwake   == {c \in Consumers \ notEmpty : call[c] = "pop"}
PushesAwake == {p \in Producers \ notFull : call[p] = "push"}

\* The threads awake are finitely many.
LEMMA AwakeFinite ==
    /\ IsFiniteSet(PopsAwake) /\ Cardinality(PopsAwake) \in Nat
    /\ IsFiniteSet(PushesAwake) /\ Cardinality(PushesAwake) \in Nat
<1>1. PopsAwake \subseteq Consumers /\ PushesAwake \subseteq Producers
  BY DEF PopsAwake, PushesAwake
<1>2. IsFiniteSet(PopsAwake) /\ IsFiniteSet(PushesAwake)
  BY <1>1, QueueAssumption, FS_Subset
<1>3. QED
  BY <1>2, FS_CardinalityType

\* One more is awake.
LEMMA OneMore ==
    ASSUME NEW A, IsFiniteSet(A), NEW x, x \notin A
    PROVE  Cardinality(A \cup {x}) = Cardinality(A) + 1
  BY FS_AddElement

\* One of those awake is gone, or none.
LEMMA OneLess ==
    ASSUME NEW A, IsFiniteSet(A), NEW x
    PROVE  /\ x \in A => Cardinality(A \ {x}) = Cardinality(A) - 1
           /\ x \notin A => Cardinality(A \ {x}) = Cardinality(A)
  BY FS_RemoveElement

\* The element a producer in push puts is new.
LEMMA NewElement ==
    ASSUME QueueInv, NEW p \in Producers, call[p] = "push"
    PROVE  /\ <<p, pushes[p]>> \in Elements
           /\ <<p, pushes[p]>> \notin {in[i] : i \in 1..Len(in)}
<1>1. pushes[p] \in 0..MaxPushes /\ pushes[p] >= 1 /\ MaxPushes \in Nat
  BY QueueAssumption DEF QueueInv, TypeOK, CountInv
<1>2. pushes[p] \in 1..MaxPushes
  BY <1>1
<1>3. <<p, pushes[p]>> \in Elements
  BY <1>2 DEF Elements
<1>4. ASSUME NEW i \in 1..Len(in), in[i] = <<p, pushes[p]>> PROVE FALSE
  <2>1. in[i][1] = p /\ in[i][2] = pushes[p]
    BY <1>4
  <2>2. pushes[p] < pushes[p]
    BY <2>1 DEF QueueInv, CountInv
  <2>3. QED
    BY <1>1, <2>2
<1>5. QED
  BY <1>3, <1>4
-----------------------------------------------------------------------------
\* A thread calls push, or pop or try_pop: one more may be awake.
LEMMA CallStep ==
    ASSUME QueueInv,
           (\E p \in Producers : CallPush(p))
           \/ (\E c \in Consumers, f \in {"pop", "try_pop"} : CallPop(c, f))
    PROVE  QueueInv'
<1>1. TypeOK /\ NoLostWakeup /\ FifoInv /\ CountInv
  BY DEF QueueInv
<1>2. CASE \E p \in Producers : CallPush(p)
  <2>1. PICK p \in Producers : CallPush(p)
    BY <1>2
  <2>2. /\ call[p] = "none" /\ pushes[p] < MaxPushes /\ call' = [call EXCEPT ![p] = "push"]
        /\ pushes' = [pushes EXCEPT ![p] = pushes[p] + 1]
        /\ UNCHANGED <<queue, notFull, notEmpty, in, out>>
    BY <2>1 DEF CallPush
  <2>3. p \in Threads /\ p \notin Consumers /\ pushes[p] \in Nat /\ MaxPushes \in Nat
        /\ call \in [Threads -> {"none", "push", "pop", "try_pop"}]
        /\ pushes \in [Producers -> 0..MaxPushes]
    BY <1>1, QueueAssumption DEF Threads, TypeOK
  <2>4. /\ call'[p] = "push" /\ pushes'[p] = pushes[p] + 1
        /\ \A t \in Threads : t # p => call'[t] = call[t]
        /\ \A q \in Producers : q # p => pushes'[q] = pushes[q]
        /\ call' \in [Threads -> {"none", "push", "pop", "try_pop"}]
        /\ pushes' \in [Producers -> 0..MaxPushes]
    BY <2>2, <2>3
  <2>5. TypeOK'
    <3>1. notFull' \subseteq {q \in Producers : call'[q] = "push"}
      BY <1>1, <2>2, <2>4 DEF TypeOK, Threads
    <3>2. notEmpty' \subseteq {c \in Consumers : call'[c] = "pop"}
      BY <1>1, <2>2, <2>3, <2>4 DEF TypeOK, Threads
    <3>3. QED
      BY <1>1, <2>2, <2>4, <3>1, <3>2 DEF TypeOK
  <2>6. PopsAwake' = PopsAwake
    BY <2>2, <2>3, <2>4 DEF PopsAwake, Threads
  <2>7. Cardinality(PushesAwake') = Cardinality(PushesAwake) + 1
    <3>1. PushesAwake' = PushesAwake \cup {p} /\ p \notin PushesAwake
      BY <1>1, <2>2, <2>4 DEF PushesAwake, Threads, TypeOK
    <3>2. QED
      BY <3>1, AwakeFinite, OneMore
  <2>8. NoLostWakeup'
    <3>1. notEmpty' # {} => Len(queue') <= Cardinality(PopsAwake')
      BY <1>1, <2>2, <2>6 DEF NoLostWakeup, PopsAwake
    <3>2. notFull' # {} => Capacity - Len(queue') <= Cardinality(PushesAwake')
      <4>1. notFull # {} => Capacity - Len(queue) <= Cardinality(PushesAwake)
        BY <1>1 DEF NoLostWakeup, PushesAwake
      <4>2. Capacity - Len(queue) \in Int /\ Cardinality(PushesAwake) \in Nat
        BY <1>1, QueueAssumption, AwakeFinite DEF TypeOK
      <4>3. QED
        BY <2>2, <2>7, <4>1, <4>2
    <3>3. QED
      BY <3>1, <3>2 DEF NoLostWakeup, PopsAwake, PushesAwake
  <2>9. CountInv'
    <3>1. \A q \in Producers : call'[q] = "push" => pushes'[q] >= 1
      BY <1>1, <2>3, <2>4 DEF CountInv, Threads
    <3>2. ASSUME NEW i \in 1..Len(in)
          PROVE  /\ in[i][2] <= pushes'[in[i][1]]
                 /\ call'[in[i][1]] = "push" => in[i][2] < pushes'[in[i][1]]
      <4>1. in[i] \in Elements
        BY <1>1 DEF TypeOK
      <4>2. in[i][1] \in Producers /\ in[i][2] \in Nat
        BY <4>1, QueueAssumption DEF Elements
      <4>3. /\ in[i][2] <= pushes[in[i][1]]
            /\ call[in[i][1]] = "push" => in[i][2] < pushes[in[i][1]]
        BY <1>1 DEF CountInv
      <4>4. CASE in[i][1] = p
        BY <2>3, <2>4, <4>2, <4>3, <4>4
      <4>5. CASE in[i][1] # p
        BY <2>4, <4>2, <4>3, <4>5 DEF Threads
      <4>6. QED
        BY <4>4, <4>5
    <3>3. QED
      BY <2>2, <3>1, <3>2 DEF CountInv
  <2>10. QED
    BY <1>1, <2>2, <2>5, <2>8, <2>9 DEF QueueInv, FifoInv
<1>3. CASE \E c \in Consumers, f \in {"pop", "try_pop"} : CallPop(c, f)
  <2>1. PICK c \in Consumers, f \in {"pop", "try_pop"} : CallPop(c, f)
    BY <1>3
  <2>2. /\ call[c] = "none" /\ call' = [call EXCEPT ![c] = f]
        /\ UNCHANGED <<queue, notFull, notEmpty, pushes, in, out>>
    BY <2>1 DEF CallPop
  <2>3. c \in Threads /\ c \notin Producers
        /\ call \in [Threads -> {"none", "push", "pop", "try_pop"}]
    BY <1>1, QueueAssumption DEF Threads, TypeOK
  <2>4. /\ call'[c] = f /\ \A t \in Threads : t # c => call'[t] = call[t]
        /\ call' \in [Threads -> {"none", "push", "pop", "try_pop"}]
    BY <2>2, <2>3
  <2>5. TypeOK'
    <3>1. notFull' \subseteq {q \in Producers : call'[q] = "push"}
      BY <1>1, <2>2, <2>3, <2>4 DEF TypeOK, Threads
    <3>2. notEmpty' \subseteq {d \in Consumers : call'[d] = "pop"}
      BY <1>1, <2>2, <2>3, <2>4 DEF TypeOK, Threads
    <3>3. QED
      BY <1>1, <2>2, <2>4, <3>1, <3>2 DEF TypeOK
  <2>6. PushesAwake' = PushesAwake
    BY <2>2, <2>3, <2>4 DEF PushesAwake, Threads
  <2>7. Cardinality(PopsAwake') >= Cardinality(PopsAwake)
    <3>1. c \notin PopsAwake /\ PopsAwake' \in {PopsAwake, PopsAwake \cup {c}}
      BY <1>1, <2>2, <2>4 DEF PopsAwake, Threads, TypeOK
    <3>2. QED
      BY <3>1, AwakeFinite, OneMore
  <2>8. NoLostWakeup'
    <3>1. notFull' # {} => Capacity - Len(queue') <= Cardinality(PushesAwake')
      BY <1>1, <2>2, <2>6 DEF NoLostWakeup, PushesAwake
    <3>2. notEmpty' # {} => Len(queue') <= Cardinality(PopsAwake')
      <4>1. notEmpty # {} => Len(queue) <= Cardinality(PopsAwake)
        BY <1>1 DEF NoLostWakeup, PopsAwake
      <4>2. Len(queue) \in Nat /\ Cardinality(PopsAwake) \in Nat
            /\ Cardinality(PopsAwake') \in Nat
        <5>1. PopsAwake' \subseteq Consumers
          BY DEF PopsAwake
        <5>2. Cardinality(PopsAwake') \in Nat
          BY <5>1, QueueAssumption, FS_Subset, FS_CardinalityType
        <5>3. QED
          BY <1>1, <5>2, AwakeFinite DEF TypeOK
      <4>3. QED
        BY <2>2, <2>7, <4>1, <4>2
    <3>3. QED
      BY <3>1, <3>2 DEF NoLostWakeup, PopsAwake, PushesAwake
  <2>9. CountInv'
    <3>1. ASSUME NEW i \in 1..Len(in) PROVE in[i][1] \in Producers
      <4>1. in[i] \in Elements
        BY <1>1 DEF TypeOK
      <4>2. QED
        BY <4>1 DEF Elements
    <3>2. \A p \in Producers : call'[p] = call[p]
      BY <2>3, <2>4 DEF Threads
    <3>3. QED
      BY <1>1, <2>2, <3>1, <3>2 DEF CountInv
  <2>10. QED
    BY <1>1, <2>2, <2>5, <2>8, <2>9 DEF QueueInv, FifoInv
<1>4. QED
  BY <1>2, <1>3

\* A thread that cannot go on waits: only when there is nothing for it.
LEMMA WaitStep ==
    ASSUME QueueInv,
           (\E p \in Producers : PushWaits(p)) \/ (\E c \in Consumers : PopWaits(c))
    PROVE  QueueInv'
<1>1. TypeOK /\ NoLostWakeup /\ FifoInv /\ CountInv /\ Capacity \in Nat /\ Len(queue) \in Nat
  BY QueueAssumption DEF QueueInv, TypeOK
<1>2. CASE \E p \in Producers : PushWaits(p)
  <2>1. PICK p \in Producers : PushWaits(p)
    BY <1>2
  <2>2. /\ call[p] = "push" /\ Len(queue) = Capacity /\ notFull' = notFull \cup {p}
        /\ UNCHANGED <<queue, notEmpty, call, pushes, in, out>>
    BY <1>1, <2>1 DEF PushWaits, Running, HasRoom, TypeOK
  <2>3. Cardinality(PushesAwake') \in Nat /\ PopsAwake' = PopsAwake
    <3>1. PushesAwake' \subseteq Producers
      BY DEF PushesAwake
    <3>2. QED
      BY <2>2, <3>1, QueueAssumption, FS_Subset, FS_CardinalityType DEF PopsAwake
  <2>4. Capacity - Len(queue') <= Cardinality(PushesAwake')
    BY <1>1, <2>2, <2>3
  <2>5. NoLostWakeup'
    BY <1>1, <2>2, <2>3, <2>4 DEF NoLostWakeup, PopsAwake, PushesAwake
  <2>6. TypeOK' /\ FifoInv' /\ CountInv'
    BY <1>1, <2>2 DEF TypeOK, FifoInv, CountInv
  <2>7. QED
    BY <2>5, <2>6 DEF QueueInv
<1>3. CASE \E c \in Consumers : PopWaits(c)
  <2>1. PICK c \in Consumers : PopWaits(c)
    BY <1>3
  <2>2. /\ call[c] = "pop" /\ queue = <<>> /\ notEmpty' = notEmpty \cup {c}
        /\ UNCHANGED <<queue, notFull, call, pushes, in, out>>
    BY <2>1 DEF PopWaits, Running
  <2>3. Cardinality(PopsAwake') \in Nat /\ PushesAwake' = PushesAwake
    <3>1. PopsAwake' \subseteq Consumers
      BY DEF PopsAwake
    <3>2. QED
      BY <2>2, <3>1, QueueAssumption, FS_Subset, FS_CardinalityType DEF PushesAwake
  <2>4. Len(queue') <= Cardinality(PopsAwake')
    <3>1. Len(queue') = 0
      BY <2>2
    <3>2. QED
      BY <2>3, <3>1
  <2>5. NoLostWakeup'
    BY <1>1, <2>2, <2>3, <2>4 DEF NoLostWakeup, PopsAwake, PushesAwake
  <2>6. TypeOK' /\ FifoInv' /\ CountInv'
    BY <1>1, <2>2 DEF TypeOK, FifoInv, CountInv
  <2>7. QED
    BY <2>5, <2>6 DEF QueueInv
<1>4. QED
  BY <1>2, <1>3

\* A wait that ends for no reason: one more may be awake.
LEMMA SpuriousStep == ASSUME QueueInv, NEW t \in Threads, SpuriousWakeup(t) PROVE QueueInv'
<1>1. TypeOK /\ NoLostWakeup /\ FifoInv /\ CountInv /\ Capacity \in Nat /\ Len(queue) \in Nat
  BY QueueAssumption DEF QueueInv, TypeOK
<1>2. /\ notFull' = notFull \ {t} /\ notEmpty' = notEmpty \ {t}
      /\ UNCHANGED <<queue, call, pushes, in, out>>
  BY DEF SpuriousWakeup
<1>3. PopsAwake \subseteq PopsAwake' /\ PushesAwake \subseteq PushesAwake'
  BY <1>2 DEF PopsAwake, PushesAwake
<1>4. /\ PopsAwake' \subseteq Consumers /\ PushesAwake' \subseteq Producers
      /\ IsFiniteSet(PopsAwake') /\ IsFiniteSet(PushesAwake')
  <2>1. PopsAwake' \subseteq Consumers /\ PushesAwake' \subseteq Producers
    BY DEF PopsAwake, PushesAwake
  <2>2. QED
    BY <2>1, QueueAssumption, FS_Subset
<1>5. /\ Cardinality(PopsAwake) <= Cardinality(PopsAwake')
      /\ Cardinality(PushesAwake) <= Cardinality(PushesAwake')
  BY <1>3, <1>4, FS_Subset
<1>6. /\ Cardinality(PopsAwake) \in Nat /\ Cardinality(PopsAwake') \in Nat
      /\ Cardinality(PushesAwake) \in Nat /\ Cardinality(PushesAwake') \in Nat
  BY <1>4, AwakeFinite, FS_CardinalityType
<1>7. NoLostWakeup'
  <2>1. /\ notEmpty # {} => Len(queue) <= Cardinality(PopsAwake)
        /\ notFull # {} => Capacity - Len(queue) <= Cardinality(PushesAwake)
    BY <1>1 DEF NoLostWakeup, PopsAwake, PushesAwake
  <2>2. notEmpty' # {} => Len(queue') <= Cardinality(PopsAwake')
    BY <1>1, <1>2, <1>5, <1>6, <2>1
  <2>3. notFull' # {} => Capacity - Len(queue') <= Cardinality(PushesAwake')
    BY <1>1, <1>2, <1>5, <1>6, <2>1
  <2>4. QED
    BY <2>2, <2>3 DEF NoLostWakeup, PopsAwake, PushesAwake
<1>8. TypeOK' /\ FifoInv' /\ CountInv'
  BY <1>1, <1>2 DEF TypeOK, FifoInv, CountInv
<1>9. QED
  BY <1>7, <1>8 DEF QueueInv

\* What is taken from the front of the queue is the next element of the history.
LEMMA TakenFromFront ==
    ASSUME NEW S, NEW s \in Seq(S), NEW q \in Seq(S), q # <<>>
    PROVE  /\ s \o q = Append(s, Head(q)) \o Tail(q)
           /\ Len(s) < Len(s \o q) /\ (s \o q)[Len(s) + 1] = Head(q)
<1>1. /\ Head(q) \in S /\ Head(q) = q[1] /\ Tail(q) \in Seq(S) /\ Len(q) >= 1
      /\ Len(q) \in Nat /\ Len(s) \in Nat
  BY Popped
<1>2. q = <<Head(q)>> \o Tail(q)
  <2>1. <<Head(q)>> \o Tail(q) \in Seq(S)
    BY <1>1, Single, ConcatProperties
  <2>2. Len(<<Head(q)>> \o Tail(q)) = Len(q)
    BY <1>1
  <2>3. \A i \in 1..Len(q) : (<<Head(q)>> \o Tail(q))[i] = q[i]
    BY <1>1
  <2>4. QED
    BY <2>1, <2>2, <2>3, SeqEqual
<1>3. /\ Append(s, Head(q)) = s \o <<Head(q)>> /\ <<Head(q)>> \in Seq(S)
      /\ s \o (<<Head(q)>> \o Tail(q)) = (s \o <<Head(q)>>) \o Tail(q)
  BY <1>1, AppendIsConcat, Single, ConcatAssociative
<1>4. /\ Len(s \o q) = Len(s) + Len(q)
      /\ \A i \in 1..(Len(s) + Len(q)) : (s \o q)[i] = IF i <= Len(s) THEN s[i] ELSE q[i - Len(s)]
  BY ConcatProperties
<1>5. Len(s) < Len(s \o q) /\ (s \o q)[Len(s) + 1] = Head(q)
  <2>1. /\ Len(s) + 1 \in 1..(Len(s) + Len(q)) /\ ~(Len(s) + 1 <= Len(s))
        /\ (Len(s) + 1) - Len(s) = 1
    BY <1>1
  <2>2. QED
    BY <1>1, <1>4, <2>1
<1>6. QED
  BY <1>2, <1>3, <1>5

\* An element is put: a waiting consumer, if there is one, is awake for it.
LEMMA PushStep == ASSUME QueueInv, NEW p \in Producers, Push(p) PROVE QueueInv'
<1> DEFINE e == <<p, pushes[p]>>
<1>1. /\ TypeOK /\ NoLostWakeup /\ FifoInv /\ CountInv /\ Capacity \in Nat
      /\ Len(queue) \in Nat
  BY QueueAssumption DEF QueueInv, TypeOK
<1>2. /\ call[p] = "push" /\ p \notin notFull /\ Len(queue) < Capacity
      /\ queue' = Append(queue, e) /\ in' = Append(in, e)
      /\ Notified(notEmpty, notEmpty') /\ call' = [call EXCEPT ![p] = "none"]
      /\ UNCHANGED <<notFull, pushes, out>>
  BY DEF Push, Running, HasRoom, ConsumerTold, Returns
<1>3. /\ p \in Threads /\ p \notin Consumers
      /\ call \in [Threads -> {"none", "push", "pop", "try_pop"}]
  BY <1>1, QueueAssumption DEF Threads, TypeOK
<1>4. /\ call'[p] = "none" /\ \A t \in Threads : t # p => call'[t] = call[t]
      /\ call' \in [Threads -> {"none", "push", "pop", "try_pop"}]
  BY <1>2, <1>3
<1>5. e \in Elements
  BY <1>2, NewElement
<1>6. /\ queue \in Seq(Elements) /\ in \in Seq(Elements) /\ out \in Seq(Elements)
      /\ queue' \in Seq(Elements) /\ Len(queue') = Len(queue) + 1 /\ in' \in Seq(Elements)
  <2>1. queue \in Seq(Elements) /\ in \in Seq(Elements) /\ out \in Seq(Elements)
    BY <1>1 DEF TypeOK
  <2> HIDE DEF e
  <2>2. QED
    BY <1>2, <1>5, <2>1
<1>7. FifoInv'
  <2> HIDE DEF e
  <2>1. Append(out \o queue, e) = out \o Append(queue, e)
    <3>1. out \in Seq(Elements) /\ queue \in Seq(Elements) /\ e \in Elements
      BY <1>5, <1>6
    <3> HIDE DEF e
    <3>2. /\ in \in Seq(Elements) /\ in = out \o queue /\ <<e>> \in Seq(Elements)
          /\ Append(in, e) = in \o <<e>> /\ Append(queue, e) = queue \o <<e>>
      BY <1>1, <1>6, <3>1, AppendIsConcat, Single DEF FifoInv
    <3>3. (out \o queue) \o <<e>> = out \o (queue \o <<e>>)
      BY <3>1, <3>2, ConcatAssociative
    <3>4. QED
      BY <3>2, <3>3
  <2>2. QED
    BY <1>1, <1>2, <2>1 DEF FifoInv
<1>8. notEmpty' \subseteq notEmpty
  BY <1>2 DEF Notified
<1>9. TypeOK'
  <2>1. notFull' \subseteq {q \in Producers : call'[q] = "push"}
    BY <1>1, <1>2, <1>4 DEF TypeOK, Threads
  <2>2. notEmpty' \subseteq {c \in Consumers : call'[c] = "pop"}
    BY <1>1, <1>3, <1>4, <1>8 DEF TypeOK, Threads
  <2>3. Len(queue') <= Capacity
    BY <1>1, <1>2, <1>6
  <2>4. QED
    BY <1>1, <1>2, <1>4, <1>6, <2>1, <2>2, <2>3 DEF TypeOK
<1>10. Cardinality(PushesAwake') = Cardinality(PushesAwake) - 1
  <2>1. p \in PushesAwake /\ PushesAwake' = PushesAwake \ {p}
    BY <1>2, <1>4 DEF PushesAwake, Threads
  <2>2. QED
    BY <2>1, AwakeFinite, OneLess
<1>11. notEmpty' # {} => notEmpty # {} /\ Cardinality(PopsAwake') = Cardinality(PopsAwake) + 1
  <2> SUFFICES ASSUME notEmpty' # {}
               PROVE  notEmpty # {} /\ Cardinality(PopsAwake') = Cardinality(PopsAwake) + 1
    OBVIOUS
  <2>1. PICK t \in notEmpty : notEmpty' = notEmpty \ {t}
    BY <1>2 DEF Notified
  <2>2. t \in Consumers /\ call[t] = "pop"
    BY <1>1 DEF TypeOK
  <2>3. PopsAwake' = PopsAwake \cup {t} /\ t \notin PopsAwake
    BY <1>3, <1>4, <2>1, <2>2 DEF PopsAwake, Threads
  <2>4. QED
    BY <2>1, <2>3, AwakeFinite, OneMore
<1>12. NoLostWakeup'
  <2>1. /\ notEmpty # {} => Len(queue) <= Cardinality(PopsAwake)
        /\ notFull # {} => Capacity - Len(queue) <= Cardinality(PushesAwake)
    BY <1>1 DEF NoLostWakeup, PopsAwake, PushesAwake
  <2>2. Cardinality(PopsAwake) \in Nat /\ Cardinality(PushesAwake) \in Nat
    BY AwakeFinite
  <2>3. notEmpty' # {} => Len(queue') <= Cardinality(PopsAwake')
    BY <1>1, <1>6, <1>11, <2>1, <2>2
  <2>4. notFull' # {} => Capacity - Len(queue') <= Cardinality(PushesAwake')
    BY <1>1, <1>2, <1>6, <1>10, <2>1, <2>2
  <2>5. QED
    BY <2>3, <2>4 DEF NoLostWakeup, PopsAwake, PushesAwake
<1>13. CountInv'
  <2>1. \A q \in Producers : call'[q] = "push" => pushes'[q] >= 1
    BY <1>1, <1>2, <1>4 DEF CountInv, Threads
  <2>2. ASSUME NEW i \in 1..Len(in')
        PROVE  /\ in'[i][2] <= pushes[in'[i][1]]
               /\ call'[in'[i][1]] = "push" => in'[i][2] < pushes[in'[i][1]]
    <3> HIDE DEF e
    <3>1. CASE i = Len(in) + 1
      <4>1. in'[i] = e
        BY <1>2, <1>6, <3>1
      <4>2. pushes[p] \in Nat
        BY <1>1 DEF TypeOK
      <4>3. in'[i][1] = p /\ in'[i][2] = pushes[p]
        BY <4>1 DEF e
      <4>4. QED
        BY <1>4, <4>2, <4>3
    <3>2. CASE i # Len(in) + 1
      <4>1. i \in 1..Len(in) /\ in'[i] = in[i]
        BY <1>2, <1>6, <3>2
      <4>2. in[i][1] \in Producers
        <5>1. in[i] \in Elements
          BY <1>6, <4>1
        <5>2. QED
          BY <5>1 DEF Elements
      <4>3. call'[in[i][1]] = "push" => call[in[i][1]] = "push"
        BY <1>4, <4>2 DEF Threads
      <4>4. QED
        BY <1>1, <4>1, <4>3 DEF CountInv
    <3>3. QED
      BY <3>1, <3>2
  <2>3. QED
    BY <1>2, <2>1, <2>2 DEF CountInv
<1>14. QED
  BY <1>7, <1>9, <1>12, <1>13 DEF QueueInv

\* An element is taken: a waiting producer, if there is one, is awake for its place.
LEMMA TakeStep == ASSUME QueueInv, NEW c \in Consumers, Pop(c) \/ TryPop(c) PROVE QueueInv'
<1>1. /\ TypeOK /\ NoLostWakeup /\ FifoInv /\ CountInv /\ Capacity \in Nat
      /\ Len(queue) \in Nat
  BY QueueAssumption DEF QueueInv, TypeOK
<1>2. /\ call[c] \in {"pop", "try_pop"} /\ c \notin notEmpty /\ queue # <<>>
      /\ out' = Append(out, Head(queue)) /\ queue' = Tail(queue)
      /\ Notified(notFull, notFull') /\ call' = [call EXCEPT ![c] = "none"]
      /\ UNCHANGED <<notEmpty, pushes, in>>
  BY DEF Pop, TryPop, TakeFront, Running, ProducerTold, Returns
<1>3. /\ c \in Threads /\ c \notin Producers
      /\ call \in [Threads -> {"none", "push", "pop", "try_pop"}]
  BY <1>1, QueueAssumption DEF Threads, TypeOK
<1>4. /\ call'[c] = "none" /\ \A t \in Threads : t # c => call'[t] = call[t]
      /\ call' \in [Threads -> {"none", "push", "pop", "try_pop"}]
  BY <1>2, <1>3
<1>5. /\ queue \in Seq(Elements) /\ in \in Seq(Elements) /\ out \in Seq(Elements)
      /\ queue' \in Seq(Elements) /\ Len(queue') = Len(queue) - 1 /\ out' \in Seq(Elements)
  <2>1. queue \in Seq(Elements) /\ in \in Seq(Elements) /\ out \in Seq(Elements)
    BY <1>1 DEF TypeOK
  <2>2. Head(queue) \in Elements /\ queue' \in Seq(Elements) /\ Len(queue') = Len(queue) - 1
    BY <1>2, <2>1, Popped
  <2>3. QED
    BY <1>2, <2>1, <2>2
<1>6. FifoInv'
  <2>1. out \o queue = Append(out, Head(queue)) \o Tail(queue)
    BY <1>2, <1>5, TakenFromFront
  <2>2. QED
    BY <1>1, <1>2, <2>1 DEF FifoInv
<1>7. notFull' \subseteq notFull
  BY <1>2 DEF Notified
<1>8. TypeOK'
  <2>1. notFull' \subseteq {q \in Producers : call'[q] = "push"}
    BY <1>1, <1>3, <1>4, <1>7 DEF TypeOK, Threads
  <2>2. notEmpty' \subseteq {d \in Consumers : call'[d] = "pop"}
    BY <1>1, <1>2, <1>4 DEF TypeOK, Threads
  <2>3. Len(queue') <= Capacity
    <3>1. Len(queue) <= Capacity
      BY <1>1 DEF TypeOK
    <3>2. QED
      BY <1>1, <1>5, <3>1
  <2>4. QED
    BY <1>1, <1>2, <1>4, <1>5, <2>1, <2>2, <2>3 DEF TypeOK
<1>9. Cardinality(PopsAwake') >= Cardinality(PopsAwake) - 1
  <2>1. PopsAwake' = PopsAwake \ {c}
    BY <1>2, <1>4 DEF PopsAwake, Threads
  <2>2. Cardinality(PopsAwake') \in {Cardinality(PopsAwake), Cardinality(PopsAwake) - 1}
    BY <2>1, AwakeFinite, OneLess
  <2>3. QED
    BY <2>2, AwakeFinite
<1>10. notFull' # {} =>
          notFull # {} /\ Cardinality(PushesAwake') = Cardinality(PushesAwake) + 1
  <2> SUFFICES ASSUME notFull' # {}
               PROVE  /\ notFull # {}
                      /\ Cardinality(PushesAwake') = Cardinality(PushesAwake) + 1
    OBVIOUS
  <2>1. PICK t \in notFull : notFull' = notFull \ {t}
    BY <1>2 DEF Notified
  <2>2. t \in Producers /\ call[t] = "push"
    BY <1>1 DEF TypeOK
  <2>3. PushesAwake' = PushesAwake \cup {t} /\ t \notin PushesAwake
    BY <1>3, <1>4, <2>1, <2>2 DEF PushesAwake, Threads
  <2>4. QED
    BY <2>1, <2>3, AwakeFinite, OneMore
<1>11. NoLostWakeup'
  <2>1. /\ notEmpty # {} => Len(queue) <= Cardinality(PopsAwake)
        /\ notFull # {} => Capacity - Len(queue) <= Cardinality(PushesAwake)
    BY <1>1 DEF NoLostWakeup, PopsAwake, PushesAwake
  <2>2. /\ Cardinality(PopsAwake) \in Nat /\ Cardinality(PushesAwake) \in Nat
        /\ Cardinality(PopsAwake') \in Nat
    <3>1. PopsAwake' \subseteq Consumers
      BY DEF PopsAwake
    <3>2. QED
      BY <3>1, AwakeFinite, QueueAssumption, FS_Subset, FS_CardinalityType
  <2>3. notEmpty' # {} => Len(queue') <= Cardinality(PopsAwake')
    BY <1>1, <1>2, <1>5, <1>9, <2>1, <2>2
  <2>4. notFull' # {} => Capacity - Len(queue') <= Cardinality(PushesAwake')
    BY <1>1, <1>5, <1>10, <2>1, <2>2
  <2>5. QED
    BY <2>3, <2>4 DEF NoLostWakeup, PopsAwake, PushesAwake
<1>12. CountInv'
  <2>1. ASSUME NEW i \in 1..Len(in) PROVE in[i][1] \in Producers
    <3>1. in[i] \in Elements
      BY <1>5
    <3>2. QED
      BY <3>1 DEF Elements
  <2>2. \A q \in Producers : call'[q] = call[q]
    BY <1>3, <1>4 DEF Threads
  <2>3. QED
    BY <1>1, <1>2, <2>1, <2>2 DEF CountInv
<1>13. QED
  BY <1>6, <1>8, <1>11, <1>12 DEF QueueInv

\* try_pop returns without an element.
LEMMA TryPopEmptyStep == ASSUME QueueInv, NEW c \in Consumers, TryPopEmpty(c) PROVE QueueInv'
<1>1. TypeOK /\ NoLostWakeup /\ FifoInv /\ CountInv
  BY DEF QueueInv
<1>2. /\ call[c] = "try_pop" /\ call' = [call EXCEPT ![c] = "none"]
      /\ UNCHANGED <<queue, notFull, notEmpty, pushes, in, out>>
  BY DEF TryPopEmpty, Running, Returns
<1>3. /\ c \in Threads /\ c \notin Producers
      /\ call \in [Threads -> {"none", "push", "pop", "try_pop"}]
  BY <1>1, QueueAssumption DEF Threads, TypeOK
<1>4. /\ call'[c] = "none" /\ \A t \in Threads : t # c => call'[t] = call[t]
      /\ call' \in [Threads -> {"none", "push", "pop", "try_pop"}]
  BY <1>2, <1>3
<1>5. PopsAwake' = PopsAwake /\ PushesAwake' = PushesAwake
  BY <1>2, <1>3, <1>4 DEF PopsAwake, PushesAwake, Threads
<1>6. NoLostWakeup'
  BY <1>1, <1>2, <1>5 DEF NoLostWakeup, PopsAwake, PushesAwake
<1>7. TypeOK'
  <2>1. notFull' \subseteq {q \in Producers : call'[q] = "push"}
    BY <1>1, <1>2, <1>3, <1>4 DEF TypeOK, Threads
  <2>2. notEmpty' \subseteq {d \in Consumers : call'[d] = "pop"}
    BY <1>1, <1>2, <1>4 DEF TypeOK, Threads
  <2>3. QED
    BY <1>1, <1>2, <1>4, <2>1, <2>2 DEF TypeOK
<1>8. CountInv'
  <2>1. ASSUME NEW i \in 1..Len(in) PROVE in[i][1] \in Producers
    <3>1. in[i] \in Elements
      BY <1>1 DEF TypeOK
    <3>2. QED
      BY <3>1 DEF Elements
  <2>2. \A q \in Producers : call'[q] = call[q]
    BY <1>3, <1>4 DEF Threads
  <2>3. QED
    BY <1>1, <1>2, <2>1, <2>2 DEF CountInv
<1>9. QED
  BY <1>1, <1>2, <1>6, <1>7, <1>8 DEF QueueInv, FifoInv

\* An empty queue nobody has called.
LEMMA InitStep == ASSUME Init PROVE QueueInv
<1>1. /\ queue = <<>> /\ notFull = {} /\ notEmpty = {} /\ in = <<>> /\ out = <<>>
      /\ call = [t \in Threads |-> "none"] /\ pushes = [p \in Producers |-> 0]
  BY DEF Init
<1>2. Capacity \in Nat /\ MaxPushes \in Nat
  BY QueueAssumption
<1>3. TypeOK
  <2>1. /\ queue \in Seq(Elements) /\ Len(queue) = 0 /\ in \in Seq(Elements)
        /\ out \in Seq(Elements)
    BY <1>1
  <2>2. QED
    BY <1>1, <1>2, <2>1 DEF TypeOK
<1>4. NoLostWakeup
  BY <1>1 DEF NoLostWakeup
<1>5. CountInv
  <2>1. Len(in) = 0 /\ \A p \in Producers : call[p] = "none"
    BY <1>1 DEF Threads
  <2>2. QED
    BY <2>1 DEF CountInv
<1>6. FifoInv
  BY <1>1 DEF FifoInv
<1>7. QED
  BY <1>3, <1>4, <1>5, <1>6 DEF QueueInv
-----------------------------------------------------------------------------
\* QueueInv holds in every reachable state, for any number of threads and any capacity.
THEOREM Invariance == Spec => []QueueInv
<1>1. Init => QueueInv
  BY InitStep
<1>2. QueueInv /\ [Next]_vars => QueueInv'
  <2> SUFFICES ASSUME QueueInv, [Next]_vars PROVE QueueInv'
    OBVIOUS
  <2>1. CASE \E p \in Producers : Produce(p)
    <3>1. PICK p \in Producers : Produce(p)
      BY <2>1
    <3>2. CASE CallPush(p)
      BY <3>2, CallStep
    <3>3. CASE Push(p)
      BY <3>3, PushStep
    <3>4. CASE PushWaits(p)
      BY <3>4, WaitStep
    <3>5. QED
      BY <3>1, <3>2, <3>3, <3>4 DEF Produce
  <2>2. CASE \E c \in Consumers : Consume(c)
    <3>1. PICK c \in Consumers : Consume(c)
      BY <2>2
    <3>2. CASE \E f \in {"pop", "try_pop"} : CallPop(c, f)
      BY <3>2, CallStep
    <3>3. CASE Pop(c) \/ TryPop(c)
      BY <3>3, TakeStep
    <3>4. CASE PopWaits(c)
      BY <3>4, WaitStep
    <3>5. CASE TryPopEmpty(c)
      BY <3>5, TryPopEmptyStep
    <3>6. QED
      BY <3>1, <3>2, <3>3, <3>4, <3>5 DEF Consume
  <2>3. CASE \E t \in Threads : SpuriousWakeup(t)
    BY <2>3, SpuriousStep
  <2>4. CASE UNCHANGED vars
    BY <2>4 DEF vars, QueueInv, TypeOK, NoLostWakeup, FifoInv, CountInv
  <2>5. QED
    BY <2>1, <2>2, <2>3, <2>4 DEF Next
<1>3. QED
  BY <1>1, <1>2, PTL DEF Spec

\* The queue never holds more than capacity_ elements, and only a thread inside push
\* waits on not_full_, only one inside pop on not_empty_.
THEOREM TypeCorrect == Spec => []TypeOK
<1>1. QueueInv => TypeOK
  BY DEF QueueInv
<1>2. QED
  BY <1>1, Invariance, PTL

\* notify_one is enough, whatever the number of threads: no thread sleeps beside an
\* element, or a place, that nobody is coming for.
THEOREM WakeupsKept == Spec => []NoLostWakeup
<1>1. QueueInv => NoLostWakeup
  BY DEF QueueInv
<1>2. QED
  BY <1>1, Invariance, PTL

\* Only the two operations that complete are seen by the callers' history.
LEMMA QuietSteps ==
    ASSUME Next, \A p \in Producers : ~Push(p),
           \A c \in Consumers : ~Pop(c) /\ ~TryPop(c)
    PROVE  UNCHANGED <<in, out>>
  BY DEF Next, Produce, Consume, CallPush, PushWaits, CallPop, PopWaits, TryPopEmpty,
         SpuriousWakeup

\* push puts a new element, when there is room.
LEMMA PushIsPut ==
    ASSUME QueueInv, NEW p \in Producers, Push(p) PROVE \E e \in Elements : Fifo!Put(e)
<1> DEFINE e == <<p, pushes[p]>>
<1>1. /\ call[p] = "push" /\ Len(queue) < Capacity /\ in' = Append(in, e)
      /\ UNCHANGED out
  BY DEF Push, Running, HasRoom
<1>2. e \in Elements /\ e \notin {in[i] : i \in 1..Len(in)}
  BY <1>1, NewElement
<1> HIDE DEF e
<1>3. Len(in) - Len(out) < Capacity
  <2>1. /\ in = out \o queue /\ queue \in Seq(Elements) /\ out \in Seq(Elements)
    BY DEF QueueInv, FifoInv, TypeOK
  <2>2. Len(in) = Len(out) + Len(queue) /\ Len(out) \in Nat /\ Len(queue) \in Nat
    BY <2>1, ConcatProperties
  <2>3. QED
    BY <1>1, <2>2, QueueAssumption
<1>4. Fifo!Put(e)
  BY <1>1, <1>2, <1>3 DEF Fifo!Put
<1>5. QED
  BY <1>2, <1>4

\* pop and try_pop take the oldest element.
LEMMA TakeIsTake ==
    ASSUME QueueInv, NEW c \in Consumers, Pop(c) \/ TryPop(c) PROVE Fifo!Take
<1>1. queue # <<>> /\ out' = Append(out, Head(queue)) /\ UNCHANGED in
  BY DEF Pop, TryPop, TakeFront
<1>2. in = out \o queue /\ queue \in Seq(Elements) /\ out \in Seq(Elements)
  BY DEF QueueInv, FifoInv, TypeOK
<1>3. Len(out) < Len(in) /\ in[Len(out) + 1] = Head(queue)
  BY <1>1, <1>2, TakenFromFront
<1>4. QED
  BY <1>1, <1>3 DEF Fifo!Take

\* The queue with its mutex and its condition variables is a bounded FIFO: elements
\* leave in the order they entered, each once, and at most capacity_ are inside. (That
\* waiting ends, the rest of ImplementsFifo, is liveness.)
THEOREM Refinement == Spec => Fifo!Spec
<1>1. Init => Fifo!Init
  BY DEF Init, Fifo!Init
<1>2. QueueInv /\ [Next]_vars => [Fifo!Next]_(Fifo!fifoVars)
  <2> SUFFICES ASSUME QueueInv, [Next]_vars PROVE [Fifo!Next]_(Fifo!fifoVars)
    OBVIOUS
  <2>1. CASE \E p \in Producers : Push(p)
    BY <2>1, PushIsPut DEF Fifo!Next
  <2>2. CASE \E c \in Consumers : Pop(c) \/ TryPop(c)
    BY <2>2, TakeIsTake DEF Fifo!Next
  <2>3. CASE UNCHANGED <<in, out>>
    BY <2>3 DEF Fifo!fifoVars
  <2>4. CASE UNCHANGED vars
    BY <2>3, <2>4 DEF vars
  <2>5. QED
    BY <2>1, <2>2, <2>3, <2>4, QuietSteps
<1>3. QED
  BY <1>1, <1>2, Invariance, PTL DEF Spec, Fifo!Spec
=============================================================================
