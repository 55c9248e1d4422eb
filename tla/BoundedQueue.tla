---------------------------- MODULE BoundedQueue ----------------------------
(***************************************************************************)
(* What ThreadSafeQueue<T> promises its callers: each call takes effect in  *)
(* one step between call and return, and that step is the operation of      *)
(* QueueOps.  push waits for room, pop for an item, both for shutdown; only *)
(* popWithTimeout may give up, and only on an empty queue.                  *)
(***************************************************************************)
EXTENDS Naturals, Sequences, QueueOps

CONSTANTS
  Producers, Consumers,  \* threads
  Items,                 \* what is queued
  Capacity,              \* max_size_
  Nothing                \* std::nullopt, and the value of a void or pending call

VARIABLES
  q,    \* the queue and its shutdown flag
  op,   \* the call each thread is in, "none" outside
  arg,  \* the item of a push
  res   \* what the last call of each thread returned

vars == <<q, op, arg, res>>

Threads == Producers \cup Consumers
Pops    == {"pop", "popWithTimeout"}

Init ==
  /\ q = NewQueue
  /\ op = [t \in Threads |-> "none"]
  /\ arg = [t \in Threads |-> Nothing]
  /\ res = [t \in Threads |-> Nothing]

Call(t, o, x) ==
  /\ op[t] = "none"
  /\ op' = [op EXCEPT ![t] = o]
  /\ arg' = [arg EXCEPT ![t] = x]
  /\ res' = [res EXCEPT ![t] = Nothing]
  /\ UNCHANGED q

Return(t, r) ==
  /\ op' = [op EXCEPT ![t] = "none"]
  /\ arg' = [arg EXCEPT ![t] = Nothing]
  /\ res' = [res EXCEPT ![t] = r]

PushEffect(t) ==
  /\ op[t] = "push"
  /\ PushReady(q, Capacity)
  /\ q' = Push(q, arg[t])
  /\ Return(t, Nothing)

TryPushEffect(t) ==
  /\ op[t] = "tryPush"
  /\ IF Len(q.items) < Capacity /\ ~q.shut
     THEN q' = Push(q, arg[t]) /\ Return(t, TRUE)
     ELSE q' = q /\ Return(t, FALSE)

PopEffect(t) ==
  /\ op[t] \in Pops
  /\ ~IsEmpty(q)
  /\ q' = Pop(q)
  /\ Return(t, Head(q.items))

PopNothing(t) ==
  /\ op[t] \in Pops
  /\ IsEmpty(q)
  /\ q.shut \/ op[t] = "popWithTimeout"
  /\ UNCHANGED q
  /\ Return(t, Nothing)

ShutdownEffect ==
  /\ q' = Shutdown(q)
  /\ UNCHANGED <<op, arg, res>>

Next ==
  \/ \E t \in Producers, o \in {"push", "tryPush"}, x \in Items : Call(t, o, x)
  \/ \E t \in Consumers, o \in Pops : Call(t, o, Nothing)
  \/ \E t \in Threads : PushEffect(t) \/ TryPushEffect(t) \/ PopEffect(t) \/ PopNothing(t)
  \/ ShutdownEffect

Spec == Init /\ [][Next]_vars
=============================================================================
