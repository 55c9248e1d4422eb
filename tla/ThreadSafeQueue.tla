--------------------------- MODULE ThreadSafeQueue ---------------------------
(***************************************************************************)
(* ThreadSafeQueue<T> (src/include/thread_safe_queue.h) with its mutex and  *)
(* its two condition variables.  A call holds the mutex from its first line *)
(* to its return except while it waits, so the code between two such points *)
(* is one step.  A thread waiting on a condition variable leaves it when it *)
(* is notified, when it wakes spuriously, or, in popWithTimeout, when its   *)
(* time is up; it then takes the mutex again and re-tests its predicate.    *)
(***************************************************************************)
EXTENDS Naturals, Sequences, FiniteSets, QueueOps

CONSTANTS Producers, Consumers, Items, Capacity, Nothing

VARIABLES
  q, op, arg, res,  \* as in BoundedQueue
  st,               \* "idle", "locking", "waiting" or "timedOut", per thread
  fresh             \* items not pushed yet: each is pushed once, which bounds the runs

vars == <<q, op, arg, res, st, fresh>>

\* The abstract queue, with the same q, op, arg and res.
Abstract == INSTANCE BoundedQueue
AbstractSpec == Abstract!Spec

ASSUME CapacityAssumption == Capacity \in Nat \ {0}
ASSUME FiniteThreadsAssumption == IsFiniteSet(Producers) /\ IsFiniteSet(Consumers)
ASSUME RolesAssumption == Producers \cap Consumers = {} /\ Nothing \notin Items \cup BOOLEAN

Threads == Producers \cup Consumers
Pops    == {"pop", "popWithTimeout"}

TypeOK ==
  /\ q \in QueueType(Items) /\ Len(q.items) <= Capacity
  /\ op \in [Threads -> {"none", "push", "tryPush"} \cup Pops]
  /\ arg \in [Threads -> Items \cup {Nothing}]
  /\ res \in [Threads -> Items \cup {Nothing} \cup BOOLEAN]
  /\ st \in [Threads -> {"idle", "locking", "waiting", "timedOut"}]
  /\ fresh \subseteq Items

Init ==
  /\ q = NewQueue
  /\ op = [t \in Threads |-> "none"]
  /\ arg = [t \in Threads |-> Nothing]
  /\ res = [t \in Threads |-> Nothing]
  /\ st = [t \in Threads |-> "idle"]
  /\ fresh = Items

\* Who waits on not_full_ and on not_empty_.
NotFullWaiters  == {t \in Producers : st[t] = "waiting"}
NotEmptyWaiters == {t \in Consumers : st[t] = "waiting"}

CallPush(t) ==
  /\ op[t] = "none"
  /\ \E o \in {"push", "tryPush"}, x \in fresh :
       /\ op' = [op EXCEPT ![t] = o]
       /\ arg' = [arg EXCEPT ![t] = x]
       /\ fresh' = fresh \ {x}
  /\ res' = [res EXCEPT ![t] = Nothing]
  /\ st' = [st EXCEPT ![t] = "locking"]
  /\ UNCHANGED q

CallPop(t) ==
  /\ op[t] = "none"
  /\ \E o \in Pops : op' = [op EXCEPT ![t] = o]
  /\ res' = [res EXCEPT ![t] = Nothing]
  /\ st' = [st EXCEPT ![t] = "locking"]
  /\ UNCHANGED <<q, arg, fresh>>

Return(t, r) ==
  /\ op' = [op EXCEPT ![t] = "none"]
  /\ arg' = [arg EXCEPT ![t] = Nothing]
  /\ res' = [res EXCEPT ![t] = r]
  /\ UNCHANGED fresh

Idle(t) == st' = [st EXCEPT ![t] = "idle"]

Wait(t) == st' = [st EXCEPT ![t] = "waiting"] /\ UNCHANGED <<q, op, arg, res, fresh>>

\* Wrong: nobody is notified.
MutIdleNotifying(t, Waiters) == Idle(t)

\* notify_one(), then return.
IdleNotifying(t, Waiters) ==
  IF Waiters = {} THEN Idle(t)
  ELSE \E u \in Waiters : st' = [st EXCEPT ![t] = "idle", ![u] = "locking"]

\* Wrong: the item is moved from before the wait.
MutPushStepMoved(t) ==
  /\ op[t] = "push" /\ st[t] = "locking"
  /\ IF ~PushReady(q, Capacity)
     THEN /\ arg' = [arg EXCEPT ![t] = Nothing]
          /\ st' = [st EXCEPT ![t] = "waiting"]
          /\ UNCHANGED <<q, op, res, fresh>>
     ELSE q' = Push(q, arg[t]) /\ Return(t, Nothing) /\ IdleNotifying(t, NotEmptyWaiters)

PushStep(t) ==
  /\ op[t] = "push" /\ st[t] = "locking"
  /\ IF ~PushReady(q, Capacity) THEN Wait(t)
     ELSE /\ q' = Push(q, arg[t])
          /\ Return(t, Nothing)
          /\ IF q.shut THEN Idle(t) ELSE IdleNotifying(t, NotEmptyWaiters)

TryPushStep(t) ==
  /\ op[t] = "tryPush" /\ st[t] = "locking"
  /\ IF Len(q.items) >= Capacity \/ q.shut
     THEN q' = q /\ Return(t, FALSE) /\ Idle(t)
     ELSE q' = Push(q, arg[t]) /\ Return(t, TRUE) /\ IdleNotifying(t, NotEmptyWaiters)

\* Wrong: a timed-out wait returns without testing the predicate again.
MutPopStep(t) ==
  /\ op[t] \in Pops /\ st[t] \in {"locking", "timedOut"}
  /\ IF ~IsEmpty(q) /\ st[t] # "timedOut"
     THEN q' = Pop(q) /\ Return(t, Head(q.items)) /\ IdleNotifying(t, NotFullWaiters)
     ELSE IF q.shut \/ st[t] = "timedOut"
          THEN q' = q /\ Return(t, Nothing) /\ Idle(t)
          ELSE Wait(t)

\* pop and popWithTimeout; wait_for tests its predicate once more when the time is up.
PopStep(t) ==
  /\ op[t] \in Pops /\ st[t] \in {"locking", "timedOut"}
  /\ IF ~IsEmpty(q)
     THEN q' = Pop(q) /\ Return(t, Head(q.items)) /\ IdleNotifying(t, NotFullWaiters)
     ELSE IF q.shut \/ st[t] = "timedOut"
          THEN q' = q /\ Return(t, Nothing) /\ Idle(t)
          ELSE Wait(t)

Timeout(t) ==
  /\ st[t] = "waiting" /\ op[t] = "popWithTimeout"
  /\ st' = [st EXCEPT ![t] = "timedOut"]
  /\ UNCHANGED <<q, op, arg, res, fresh>>

SpuriousWakeup(t) ==
  /\ st[t] = "waiting"
  /\ st' = [st EXCEPT ![t] = "locking"]
  /\ UNCHANGED <<q, op, arg, res, fresh>>

\* Wrong: only one waiter learns of the shutdown.
MutShutdownStep ==
  /\ ~q.shut
  /\ q' = Shutdown(q)
  /\ \/ \E u \in NotEmptyWaiters \cup NotFullWaiters : st' = [st EXCEPT ![u] = "locking"]
     \/ NotEmptyWaiters \cup NotFullWaiters = {} /\ UNCHANGED st
  /\ UNCHANGED <<op, arg, res, fresh>>

\* shutdown(), called once by the thread that stops the owner; notify_all on both.
ShutdownStep ==
  /\ ~q.shut
  /\ q' = Shutdown(q)
  /\ st' = [t \in Threads |-> IF st[t] = "waiting" THEN "locking" ELSE st[t]]
  /\ UNCHANGED <<op, arg, res, fresh>>

\* A call that holds or is about to get the mutex.
Step(t) == PushStep(t) \/ TryPushStep(t) \/ PopStep(t)

Next ==
  \/ \E t \in Producers : CallPush(t)
  \/ \E t \in Consumers : CallPop(t)
  \/ \E t \in Threads : Step(t) \/ Timeout(t) \/ SpuriousWakeup(t)
  \/ ShutdownStep

\* The mutex is not withheld from any caller for ever and consumers loop; nothing
\* relies on a spurious wakeup, on a timeout or on a shutdown.
Fairness == /\ \A t \in Threads : WF_vars(Step(t))
            /\ \A t \in Consumers : WF_vars(CallPop(t))

Spec     == Init /\ [][Next]_vars
FairSpec == Spec /\ Fairness
-----------------------------------------------------------------------------
(***************************************************************************)
(* Properties                                                               *)
(***************************************************************************)

Awake(T) == {t \in T : st[t] \in {"locking", "timedOut"}}

\* No lost wakeup (thread_safe_queue.h:29, 39, 52, 68): while a consumer sleeps
\* there is an awake consumer for every item, and while a producer sleeps an
\* awake producer for every free slot; after shutdown (lines 85-90) nobody sleeps.
NoLostWakeup ==
  /\ NotEmptyWaiters # {} => Len(q.items) <= Cardinality(Awake(Consumers))
  /\ NotFullWaiters # {} =>
       Capacity - Len(q.items) <= Cardinality({t \in Awake(Producers) : op[t] = "push"})
  /\ q.shut => NotEmptyWaiters \cup NotFullWaiters = {}

\* A push blocked on a full queue returns, whoever else pushes.
PushReturns == \A t \in Producers : op[t] = "push" ~> op[t] = "none"

\* What was accepted is taken out again, also after a shutdown.
Drains == <>[](q.items = <<>>)
=============================================================================
