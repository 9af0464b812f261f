---------------------------- MODULE BoundedQueue ----------------------------
(***************************************************************************)
(* BoundedThreadSafeQueue: a std::queue under one mutex with two condition   *)
(* variables. A member function holds the mutex from its first statement to  *)
(* its return, except while it waits on a condition variable; so a step is   *)
(* one turn under the mutex: the predicate is evaluated and either the       *)
(* operation completes, notifying one waiter, or the thread goes to wait.    *)
(* A waiting thread leaves the wait set when it is notified, or for no       *)
(* reason at all; it then has to take the mutex and test again.              *)
(***************************************************************************)
EXTENDS Integers, Sequences, FiniteSets

CONSTANTS Producers,   \* threads that call push (or emplace, the same code)
          Consumers,   \* threads that call pop and try_pop
          Capacity,    \* capacity_
          MaxPushes    \* bound: pushes of one producer

ASSUME QueueAssumption ==
    /\ Capacity \in Nat \ {0}      \* the constructor throws otherwise
    /\ MaxPushes \in Nat
    /\ Producers \cap Consumers = {}
    /\ IsFiniteSet(Producers) /\ IsFiniteSet(Consumers)

Threads == Producers \cup Consumers

VARIABLES
    queue,      \* queue_
    notFull,    \* the threads waiting on not_full_
    notEmpty,   \* the threads waiting on not_empty_
    call,       \* call[t]: the function t is in, or "none"
    pushes,     \* pushes[p]: calls of push p has started
    in, out     \* history: the elements put and taken, in order

vars == <<queue, notFull, notEmpty, call, pushes, in, out>>

Elements == Producers \X (1..MaxPushes)

Init ==
    /\ queue = <<>> /\ notFull = {} /\ notEmpty = {}
    /\ call = [t \in Threads |-> "none"]
    /\ pushes = [p \in Producers |-> 0]
    /\ in = <<>> /\ out = <<>>

Running(t, f) == call[t] = f /\ t \notin notFull \cup notEmpty

Returns(t) == call' = [call EXCEPT ![t] = "none"]

\* A condition variable wakes one of its waiters, if there is any.
Notified(waiting, after) ==
    \/ waiting = {} /\ after = {}
    \/ \E t \in waiting : after = waiting \ {t}
-----------------------------------------------------------------------------
CallPush(p) ==
    /\ call[p] = "none" /\ pushes[p] < MaxPushes
    /\ call' = [call EXCEPT ![p] = "push"]
    /\ pushes' = [pushes EXCEPT ![p] = @ + 1]
    /\ UNCHANGED <<queue, notFull, notEmpty, in, out>>

\* The predicate of push, under which it puts its element and notifies a consumer.
HasRoomWhenFull == Len(queue) <= Capacity   \* faulty: one element too many
HasRoom == Len(queue) < Capacity

\* Faulty: a consumer is notified only when the queue was empty.
ConsumerToldOfFirst ==
    IF queue = <<>> THEN Notified(notEmpty, notEmpty') ELSE UNCHANGED notEmpty
ConsumerTold == Notified(notEmpty, notEmpty')

Push(p) ==
    /\ Running(p, "push") /\ HasRoom
    /\ queue' = Append(queue, <<p, pushes[p]>>)
    /\ in' = Append(in, <<p, pushes[p]>>)
    /\ ConsumerTold
    /\ Returns(p)
    /\ UNCHANGED <<notFull, pushes, out>>

PushWaits(p) ==
    /\ Running(p, "push") /\ ~HasRoom
    /\ notFull' = notFull \cup {p}
    /\ UNCHANGED <<queue, notEmpty, call, pushes, in, out>>

CallPop(c, f) ==
    /\ call[c] = "none"
    /\ call' = [call EXCEPT ![c] = f]
    /\ UNCHANGED <<queue, notFull, notEmpty, pushes, in, out>>

NobodyTold == UNCHANGED notFull   \* faulty: the place is free, and no producer knows
ProducerTold == Notified(notFull, notFull')

\* The front is moved out and a producer notified; the same in pop and try_pop.
TakeFront(c) ==
    /\ queue # <<>>
    /\ out' = Append(out, Head(queue))
    /\ queue' = Tail(queue)
    /\ ProducerTold
    /\ Returns(c)
    /\ UNCHANGED <<notEmpty, pushes, in>>

Pop(c) == Running(c, "pop") /\ TakeFront(c)

PopWaits(c) ==
    /\ Running(c, "pop") /\ queue = <<>>
    /\ notEmpty' = notEmpty \cup {c}
    /\ UNCHANGED <<queue, notFull, call, pushes, in, out>>

TryPop(c) == Running(c, "try_pop") /\ TakeFront(c)

TryPopEmpty(c) ==
    /\ Running(c, "try_pop") /\ queue = <<>>
    /\ Returns(c)
    /\ UNCHANGED <<queue, notFull, notEmpty, pushes, in, out>>

\* A wait on a condition variable may end without a notification.
SpuriousWakeup(t) ==
    /\ t \in notFull \cup notEmpty
    /\ notFull' = notFull \ {t}
    /\ notEmpty' = notEmpty \ {t}
    /\ UNCHANGED <<queue, call, pushes, in, out>>
-----------------------------------------------------------------------------
Produce(p) == CallPush(p) \/ Push(p) \/ PushWaits(p)

Consume(c) == \/ \E f \in {"pop", "try_pop"} : CallPop(c, f)
              \/ Pop(c) \/ PopWaits(c) \/ TryPop(c) \/ TryPopEmpty(c)

Next == \/ \E p \in Producers : Produce(p)
        \/ \E c \in Consumers : Consume(c)
        \/ \E t \in Threads : SpuriousWakeup(t)

Spec == Init /\ [][Next]_vars

\* The callers keep calling and the operating system schedules every thread
\* that is not waiting; nobody owes anybody a spurious wakeup.
FairSpec == /\ Spec
            /\ \A p \in Producers : WF_vars(Produce(p))
            /\ \A c \in Consumers : WF_vars(Consume(c))
-----------------------------------------------------------------------------
\* Every variable holds a value of its type, the queue within its capacity, and
\* only a thread inside push waits on not_full_, only one inside pop on not_empty_.
TypeOK ==
    /\ queue \in Seq(Elements) /\ Len(queue) <= Capacity
    /\ call \in [Threads -> {"none", "push", "pop", "try_pop"}]
    /\ pushes \in [Producers -> 0..MaxPushes]
    /\ in \in Seq(Elements) /\ out \in Seq(Elements)
    /\ notFull \subseteq {p \in Producers : call[p] = "push"}
    /\ notEmpty \subseteq {c \in Consumers : call[c] = "pop"}

\* notify_one is enough: while a consumer waits, there are at least as many
\* woken consumers on their way to the mutex as there are elements for them,
\* and while a producer waits as many woken producers as free places. So no
\* thread sleeps beside an element, or a place, that nobody is coming for.
NoLostWakeup ==
    /\ notEmpty # {} =>
          Len(queue) <= Cardinality({c \in Consumers \ notEmpty : call[c] = "pop"})
    /\ notFull # {} =>
          Capacity - Len(queue) <= Cardinality({p \in Producers \ notFull : call[p] = "push"})

\* The queue with its mutex, its two condition variables and its two ways to
\* take an element is a bounded FIFO, in its safety and in its liveness.
Fifo == INSTANCE BoundedFifo
ImplementsFifo == Fifo!FairSpec
=============================================================================
