----------------------- MODULE ThreadSafeQueueProofs -----------------------
(***************************************************************************)
(* Proofs about ThreadSafeQueue for any finite number of producers and      *)
(* consumers, any capacity and any items: its types, that no wakeup is      *)
(* lost, and that it implements BoundedQueue step by step.                  *)
(***************************************************************************)
EXTENDS ThreadSafeQueue, QueueOpsProofs, FiniteSetTheorems, TLAPS

(***************************************************************************)
(* The inductive invariant.  A thread is in a call exactly when it is not   *)
(* idle, producers only push and consumers only pop, nobody but a pushing   *)
(* producer waits for room and only popWithTimeout times out.               *)
(***************************************************************************)

Calls ==
  /\ \A t \in Threads : op[t] = "none" <=> st[t] = "idle"
  /\ \A t \in Threads : st[t] = "timedOut" => op[t] = "popWithTimeout"
  /\ \A t \in Producers :
       /\ op[t] \in {"none", "push", "tryPush"}
       /\ IF op[t] = "none" THEN arg[t] = Nothing ELSE arg[t] \in Items
       /\ st[t] = "waiting" => op[t] = "push"
  /\ \A t \in Consumers : op[t] \in {"none"} \cup Pops /\ arg[t] = Nothing

IInv == TypeOK /\ Calls

\* What a step of a call finds: who takes it, and with what.
LEMMA InCall ==
  ASSUME IInv, NEW t \in Threads
  PROVE  /\ op[t] \in {"push", "tryPush"} => t \in Producers /\ t \notin Consumers /\ arg[t] \in Items
         /\ op[t] \in Pops => t \in Consumers /\ t \notin Producers
         /\ op[t] = "none" => arg[t] = Nothing
  BY RolesAssumption DEF IInv, TypeOK, Calls, Threads, Pops

\* The operations keep the queue within its capacity.
LEMMA QueueStays ==
  ASSUME TypeOK
  PROVE  /\ \A x \in Items : PushReady(q, Capacity) =>
              Push(q, x) \in QueueType(Items) /\ Len(Push(q, x).items) <= Capacity
         /\ ~IsEmpty(q) => /\ Pop(q) \in QueueType(Items) /\ Len(Pop(q).items) <= Capacity
                           /\ Head(q.items) \in Items
         /\ Shutdown(q) \in QueueType(Items) /\ Len(Shutdown(q).items) <= Capacity
<1> DEFINE n == Len(q.items)
<1>0. q \in QueueType(Items) /\ n \in Nat /\ n <= Capacity /\ Capacity \in Nat
  BY CapacityAssumption, QueueOpsPositions DEF TypeOK
<1>1. ASSUME NEW x \in Items, PushReady(q, Capacity)
      PROVE  Push(q, x) \in QueueType(Items) /\ Len(Push(q, x).items) <= Capacity
  <2>1. Push(q, x) \in QueueType(Items)
    BY <1>0, QueueOpsType
  <2>2. CASE q.shut
    BY <1>0, <2>1, <2>2, QueueOpsPositions
  <2>3. CASE ~q.shut
    <3>1. Len(Push(q, x).items) = n + 1 /\ n < Capacity
      BY <1>0, <1>1, <2>3, QueueOpsPositions DEF PushReady
    <3> QED BY <1>0, <2>1, <3>1
  <2> QED BY <2>2, <2>3
<1>2. ASSUME ~IsEmpty(q)
      PROVE  /\ Pop(q) \in QueueType(Items) /\ Len(Pop(q).items) <= Capacity
             /\ Head(q.items) \in Items
  <2>1. Pop(q) \in QueueType(Items) /\ Head(q.items) \in Items
    BY <1>0, <1>2, QueueOpsType
  <2>2. Len(Pop(q).items) = n - 1
    BY <1>0, <1>2, QueueOpsPositions
  <2> QED BY <1>0, <2>1, <2>2
<1>3. Shutdown(q) \in QueueType(Items) /\ Len(Shutdown(q).items) <= Capacity
  BY <1>0, QueueOpsType, QueueOpsPositions
<1> QED BY <1>1, <1>2, <1>3

\* No call is under way at first.
LEMMA InitIInv == Init => IInv
<1> SUFFICES ASSUME Init PROVE IInv
  OBVIOUS
<1>1. q \in QueueType(Items) /\ Len(q.items) <= Capacity
  BY CapacityAssumption, QueueOpsType DEF Init, NewQueue, QueueType
<1> QED BY <1>1 DEF Init, IInv, TypeOK, Calls, Threads, Pops

\* Whatever a thread does in its call, the types and the calls stay right.
LEMMA IInvStep == IInv /\ [Next]_vars => IInv'
<1> SUFFICES ASSUME IInv, [Next]_vars PROVE IInv'
  OBVIOUS
<1> USE DEF IInv
<1>0. Nothing \notin Items /\ Producers \cap Consumers = {} /\ Threads = Producers \cup Consumers
  BY RolesAssumption DEF Threads
<1>1. ASSUME NEW t \in Producers, CallPush(t)
      PROVE  IInv'
  BY <1>0, <1>1 DEF CallPush, TypeOK, Calls, Pops
<1>2. ASSUME NEW t \in Consumers, CallPop(t)
      PROVE  IInv'
  BY <1>0, <1>2 DEF CallPop, TypeOK, Calls, Pops
<1>3. ASSUME NEW t \in Threads, PushStep(t)
      PROVE  IInv'
  <2>0. t \in Producers /\ arg[t] \in Items /\ NotEmptyWaiters \subseteq Consumers
    BY <1>3, InCall DEF PushStep, NotEmptyWaiters
  <2>1. CASE ~PushReady(q, Capacity)
    BY <1>0, <1>3, <2>0, <2>1 DEF PushStep, Wait, TypeOK, Calls, Pops
  <2>2. CASE PushReady(q, Capacity)
    <3>1. q' \in QueueType(Items) /\ Len(q'.items) <= Capacity
      BY <1>3, <2>0, <2>2, QueueStays DEF PushStep
    <3>2. Idle(t) \/ IdleNotifying(t, NotEmptyWaiters)
      BY <1>3, <2>2 DEF PushStep
    <3>3. Return(t, Nothing)
      BY <1>3, <2>2 DEF PushStep
    <3>4. CASE st' = [st EXCEPT ![t] = "idle"]
      BY <1>0, <2>0, <3>1, <3>3, <3>4 DEF Return, TypeOK, Calls, Pops
    <3>5. ASSUME NEW u \in NotEmptyWaiters, st' = [st EXCEPT ![t] = "idle", ![u] = "locking"]
          PROVE  IInv'
      BY <1>0, <2>0, <3>1, <3>3, <3>5 DEF Return, TypeOK, Calls, Pops, NotEmptyWaiters
    <3> QED BY <3>2, <3>4, <3>5 DEF Idle, IdleNotifying
  <2> QED BY <2>1, <2>2
<1>4. ASSUME NEW t \in Threads, TryPushStep(t)
      PROVE  IInv'
  <2>0. t \in Producers /\ arg[t] \in Items /\ NotEmptyWaiters \subseteq Consumers
    BY <1>4, InCall DEF TryPushStep, NotEmptyWaiters
  <2>1. PICK r \in BOOLEAN : Return(t, r)
    BY <1>4 DEF TryPushStep
  <2>2. q' \in QueueType(Items) /\ Len(q'.items) <= Capacity
    <3>1. Len(q.items) \in Nat /\ Capacity \in Nat
      BY CapacityAssumption, QueueOpsPositions DEF TypeOK
    <3>2. Len(q.items) >= Capacity \/ q.shut \/ PushReady(q, Capacity)
      BY <3>1 DEF PushReady
    <3> QED BY <1>4, <2>0, <3>2, QueueStays DEF TryPushStep, TypeOK
  <2>3. Idle(t) \/ IdleNotifying(t, NotEmptyWaiters)
    BY <1>4 DEF TryPushStep
  <2>4. CASE st' = [st EXCEPT ![t] = "idle"]
    BY <1>0, <2>0, <2>1, <2>2, <2>4 DEF Return, TypeOK, Calls, Pops
  <2>5. ASSUME NEW u \in NotEmptyWaiters, st' = [st EXCEPT ![t] = "idle", ![u] = "locking"]
        PROVE  IInv'
    BY <1>0, <2>0, <2>1, <2>2, <2>5 DEF Return, TypeOK, Calls, Pops, NotEmptyWaiters
  <2> QED BY <2>3, <2>4, <2>5 DEF Idle, IdleNotifying
<1>5. ASSUME NEW t \in Threads, PopStep(t)
      PROVE  IInv'
  <2>0. t \in Consumers /\ NotFullWaiters \subseteq Producers
    BY <1>5, InCall DEF PopStep, NotFullWaiters
  <2>1. CASE IsEmpty(q) /\ ~(q.shut \/ st[t] = "timedOut")
    BY <1>0, <1>5, <2>0, <2>1 DEF PopStep, Wait, TypeOK, Calls, Pops
  <2>2. CASE ~IsEmpty(q) \/ q.shut \/ st[t] = "timedOut"
    <3>1. PICK r \in Items \cup {Nothing} : Return(t, r)
      BY <1>5, <2>2, QueueStays DEF PopStep
    <3>2. q' \in QueueType(Items) /\ Len(q'.items) <= Capacity
      BY <1>5, <2>2, QueueStays DEF PopStep, TypeOK
    <3>3. Idle(t) \/ IdleNotifying(t, NotFullWaiters)
      BY <1>5, <2>2 DEF PopStep
    <3>4. CASE st' = [st EXCEPT ![t] = "idle"]
      BY <1>0, <2>0, <3>1, <3>2, <3>4 DEF Return, TypeOK, Calls, Pops
    <3>5. ASSUME NEW u \in NotFullWaiters, st' = [st EXCEPT ![t] = "idle", ![u] = "locking"]
          PROVE  IInv'
      BY <1>0, <2>0, <3>1, <3>2, <3>5 DEF Return, TypeOK, Calls, Pops, NotFullWaiters
    <3> QED BY <3>3, <3>4, <3>5 DEF Idle, IdleNotifying
  <2> QED BY <2>1, <2>2
<1>6. ASSUME NEW t \in Threads, Timeout(t) \/ SpuriousWakeup(t)
      PROVE  IInv'
  BY <1>0, <1>6 DEF Timeout, SpuriousWakeup, TypeOK, Calls, Pops
<1>7. CASE ShutdownStep
  <2>1. q' \in QueueType(Items) /\ Len(q'.items) <= Capacity
    BY <1>7, QueueStays DEF ShutdownStep
  <2> QED BY <1>0, <1>7, <2>1 DEF ShutdownStep, TypeOK, Calls, Pops
<1>8. CASE UNCHANGED vars
  BY <1>8 DEF vars, TypeOK, Calls
<1> QED BY <1>1, <1>2, <1>3, <1>4, <1>5, <1>6, <1>7, <1>8 DEF Next, Step

\* Types and capacity: the queue never holds more than max_size_ items, whoever pushes.
THEOREM TypeCorrect == Spec => []TypeOK
<1>1. IInv => TypeOK
  BY DEF IInv
<1> QED BY InitIInv, IInvStep, <1>1, PTL DEF Spec

-----------------------------------------------------------------------------
(***************************************************************************)
(* No lost wakeup.  Each item was announced to a consumer that is awake     *)
(* still, each free slot to a producer; a notified thread that finds nothing*)
(* goes back to sleep only when nothing is there.                           *)
(***************************************************************************)

Pushing == {t \in Awake(Producers) : op[t] = "push"}

WInv == IInv /\ NoLostWakeup

\* There are finitely many threads, awake or not.
LEMMA AwakeFinite ==
  /\ IsFiniteSet(Awake(Consumers)) /\ Cardinality(Awake(Consumers)) \in Nat
  /\ IsFiniteSet(Pushing) /\ Cardinality(Pushing) \in Nat
  /\ IsFiniteSet(Awake(Consumers)') /\ Cardinality(Awake(Consumers)') \in Nat
  /\ IsFiniteSet(Pushing') /\ Cardinality(Pushing') \in Nat
<1>1. /\ Awake(Consumers) \in SUBSET Consumers /\ Awake(Consumers)' \in SUBSET Consumers
      /\ Pushing \in SUBSET Producers /\ Pushing' \in SUBSET Producers
  BY DEF Awake, Pushing
<1> QED BY <1>1, FiniteThreadsAssumption, FS_Subset, FS_CardinalityType

\* More threads awake, and no more asleep, wake nobody too few.
LEMMA MoreAwake ==
  ASSUME NoLostWakeup, q' = q, Awake(Consumers) \subseteq Awake(Consumers)',
         Pushing \subseteq Pushing',
         NotEmptyWaiters' \subseteq NotEmptyWaiters, NotFullWaiters' \subseteq NotFullWaiters,
         q \in QueueType(Items)
  PROVE  NoLostWakeup'
<1>1. /\ Cardinality(Awake(Consumers)) <= Cardinality(Awake(Consumers)')
      /\ Cardinality(Pushing) <= Cardinality(Pushing')
  BY AwakeFinite, FS_Subset
<1>2. Len(q.items) \in Nat /\ Capacity \in Nat
  BY CapacityAssumption, QueueOpsPositions
<1>3. NotEmptyWaiters' # {} => Len(q'.items) <= Cardinality(Awake(Consumers)')
  BY <1>1, <1>2, AwakeFinite DEF NoLostWakeup
<1>4. NotFullWaiters' # {} => Capacity - Len(q'.items) <= Cardinality(Pushing')
  BY <1>1, <1>2, AwakeFinite DEF NoLostWakeup, Pushing
<1> QED BY <1>3, <1>4 DEF NoLostWakeup, Pushing

\* A set that loses at most one member.
LEMMA OneFewer ==
  ASSUME NEW S, NEW T, IsFiniteSet(S), IsFiniteSet(T), NEW t, S \ {t} \subseteq T
  PROVE  Cardinality(T) >= Cardinality(S) - 1
<1>1. /\ IsFiniteSet(S \ {t}) /\ Cardinality(S \ {t}) \in {Cardinality(S), Cardinality(S) - 1}
  BY FS_RemoveElement
<1>2. Cardinality(S \ {t}) <= Cardinality(T)
  BY FS_Subset
<1>3. Cardinality(S) \in Nat /\ Cardinality(T) \in Nat
  BY FS_CardinalityType
<1> QED BY <1>1, <1>2, <1>3

\* notify_one() leaves the caller idle and wakes one waiter, if there is one.
LEMMA Notified ==
  ASSUME TypeOK, NEW t \in Threads, NEW W, W \subseteq Threads \ {t}, IdleNotifying(t, W)
  PROVE  /\ st' \in [Threads -> {"idle", "locking", "waiting", "timedOut"}] /\ st'[t] = "idle"
         /\ \A v \in Threads : v # t => st'[v] = st[v] \/ (v \in W /\ st'[v] = "locking")
         /\ W # {} => \E u \in W : /\ st'[u] = "locking"
                                   /\ \A v \in Threads : v # t /\ v # u => st'[v] = st[v]
<1>1. CASE W = {}
  BY <1>1 DEF IdleNotifying, Idle, TypeOK
<1>2. CASE W # {}
  <2>1. PICK u \in W : st' = [st EXCEPT ![t] = "idle", ![u] = "locking"]
    BY <1>2 DEF IdleNotifying
  <2>2. u \in Threads /\ u # t
    OBVIOUS
  <2> QED BY <2>1, <2>2 DEF TypeOK
<1> QED BY <1>1, <1>2

\* A thread that goes to sleep on what it is right to sleep on.
LEMMA Sleeps ==
  ASSUME WInv, NEW t \in Threads, Wait(t),
         \/ op[t] = "push" /\ ~PushReady(q, Capacity)
         \/ op[t] \in Pops /\ IsEmpty(q) /\ ~q.shut
  PROVE  NoLostWakeup'
<1> USE DEF WInv, IInv
<1>0. /\ Len(q.items) \in Nat /\ Capacity \in Nat /\ q' = q /\ q \in QueueType(Items)
      /\ IsEmpty(q) <=> Len(q.items) = 0
  BY CapacityAssumption, QueueOpsPositions DEF TypeOK, Wait
<1>1. CASE op[t] = "push" /\ ~PushReady(q, Capacity)
  <2>1. t \in Producers /\ t \notin Consumers
    BY <1>1, InCall
  <2>2. Awake(Consumers)' = Awake(Consumers) /\ NotEmptyWaiters' = NotEmptyWaiters
    BY <2>1 DEF Wait, Awake, NotEmptyWaiters, TypeOK, Threads
  <2>3. Capacity - Len(q.items) <= Cardinality(Pushing') /\ ~q.shut
    BY <1>0, <1>1, AwakeFinite DEF PushReady
  <2> QED BY <1>0, <2>2, <2>3 DEF NoLostWakeup, Pushing
<1>2. CASE op[t] \in Pops /\ IsEmpty(q) /\ ~q.shut
  <2>1. t \in Consumers /\ t \notin Producers
    BY <1>2, InCall
  <2>2. Pushing' = Pushing /\ NotFullWaiters' = NotFullWaiters
    BY <2>1 DEF Wait, Awake, Pushing, NotFullWaiters, TypeOK, Threads
  <2>3. Len(q.items) <= Cardinality(Awake(Consumers)')
    BY <1>0, <1>2, AwakeFinite
  <2> QED BY <1>0, <1>2, <2>2, <2>3 DEF NoLostWakeup, Pushing
<1> QED BY <1>1, <1>2

\* A push that adds an item has a sleeping consumer woken, if there is one.
LEMMA Announced ==
  ASSUME WInv, NEW t \in Producers, op[t] \in {"push", "tryPush"}, st[t] = "locking",
         ~q.shut, Len(q.items) < Capacity, q' = Push(q, arg[t]),
         op' = [op EXCEPT ![t] = "none"], IdleNotifying(t, NotEmptyWaiters)
  PROVE  NoLostWakeup'
<1> USE DEF WInv, IInv
<1> DEFINE n == Len(q.items)
<1>0. t \in Threads /\ t \notin Consumers /\ arg[t] \in Items
  BY InCall DEF Threads
<1>1. n \in Nat /\ Capacity \in Nat /\ Len(q'.items) = n + 1 /\ q'.shut = FALSE
  BY <1>0, CapacityAssumption, QueueOpsPositions DEF TypeOK
<1>2. /\ NotEmptyWaiters \subseteq Consumers /\ NotEmptyWaiters \subseteq Threads \ {t}
      /\ Producers \cap Consumers = {} /\ Producers \subseteq Threads /\ Consumers \subseteq Threads
  BY <1>0, RolesAssumption DEF NotEmptyWaiters, Threads
<1>3. /\ st'[t] = "idle"
      /\ \A v \in Threads : v # t => st'[v] = st[v] \/ (v \in NotEmptyWaiters /\ st'[v] = "locking")
      /\ NotEmptyWaiters # {} =>
           \E u \in NotEmptyWaiters : /\ st'[u] = "locking"
                                      /\ \A v \in Threads : v # t /\ v # u => st'[v] = st[v]
  BY <1>0, <1>2, Notified
<1> HIDE DEF n
<1>4. Capacity - (n + 1) <= Cardinality(Pushing') \/ NotFullWaiters' = {}
  <2>1. NotFullWaiters' \subseteq NotFullWaiters
    BY <1>2, <1>3 DEF NotFullWaiters
  <2>2. Pushing \ {t} \subseteq Pushing'
    BY <1>2, <1>3 DEF Pushing, Awake, TypeOK
  <2>3. Cardinality(Pushing') >= Cardinality(Pushing) - 1
    BY <2>2, AwakeFinite, OneFewer
  <2>4. NotFullWaiters # {} => Capacity - n <= Cardinality(Pushing)
    BY DEF NoLostWakeup, Pushing, n
  <2> QED BY <1>1, <2>1, <2>3, <2>4, AwakeFinite
<1>5. n + 1 <= Cardinality(Awake(Consumers)') \/ NotEmptyWaiters' = {}
  <2>1. CASE NotEmptyWaiters = {}
    BY <1>0, <1>2, <1>3, <2>1 DEF NotEmptyWaiters
  <2>2. CASE NotEmptyWaiters # {}
    <3>1. PICK u \in NotEmptyWaiters : /\ st'[u] = "locking"
                                       /\ \A v \in Threads : v # t /\ v # u => st'[v] = st[v]
      BY <1>3, <2>2
    <3>2. Awake(Consumers)' = Awake(Consumers) \cup {u} /\ u \notin Awake(Consumers)
      BY <1>0, <1>2, <3>1 DEF Awake, NotEmptyWaiters
    <3>3. Cardinality(Awake(Consumers)') = Cardinality(Awake(Consumers)) + 1
      BY <3>2, AwakeFinite, FS_AddElement
    <3>4. n <= Cardinality(Awake(Consumers))
      BY <2>2 DEF NoLostWakeup, n
    <3> QED BY <1>1, <3>3, <3>4, AwakeFinite
  <2> QED BY <2>1, <2>2
<1> QED BY <1>1, <1>4, <1>5 DEF NoLostWakeup, Pushing

\* A pop that makes room has a sleeping producer woken, if there is one.
LEMMA RoomMade ==
  ASSUME WInv, NEW t \in Consumers, op[t] \in Pops, st[t] \in {"locking", "timedOut"},
         ~IsEmpty(q), q' = Pop(q),
         op' = [op EXCEPT ![t] = "none"], IdleNotifying(t, NotFullWaiters)
  PROVE  NoLostWakeup'
<1> USE DEF WInv, IInv
<1> DEFINE n == Len(q.items)
<1>0. t \in Threads /\ t \notin Producers
  BY InCall DEF Threads
<1>1. n \in Nat /\ Capacity \in Nat /\ Len(q'.items) = n - 1 /\ q'.shut = q.shut
  BY CapacityAssumption, QueueOpsPositions DEF TypeOK
<1>2. /\ NotFullWaiters \subseteq Producers /\ NotFullWaiters \subseteq Threads \ {t}
      /\ Producers \cap Consumers = {} /\ Producers \subseteq Threads /\ Consumers \subseteq Threads
  BY <1>0, RolesAssumption DEF NotFullWaiters, Threads
<1>3. /\ st'[t] = "idle"
      /\ \A v \in Threads : v # t => st'[v] = st[v] \/ (v \in NotFullWaiters /\ st'[v] = "locking")
      /\ NotFullWaiters # {} =>
           \E u \in NotFullWaiters : /\ st'[u] = "locking"
                                     /\ \A v \in Threads : v # t /\ v # u => st'[v] = st[v]
  BY <1>0, <1>2, Notified
<1> HIDE DEF n
<1>4. NotEmptyWaiters' \subseteq NotEmptyWaiters /\ NotFullWaiters' \subseteq NotFullWaiters
  BY <1>2, <1>3 DEF NotEmptyWaiters, NotFullWaiters
<1>5. n - 1 <= Cardinality(Awake(Consumers)') \/ NotEmptyWaiters' = {}
  <2>1. Awake(Consumers) \ {t} \subseteq Awake(Consumers)'
    BY <1>2, <1>3 DEF Awake
  <2>2. Cardinality(Awake(Consumers)') >= Cardinality(Awake(Consumers)) - 1
    BY <2>1, AwakeFinite, OneFewer
  <2>3. NotEmptyWaiters # {} => n <= Cardinality(Awake(Consumers))
    BY DEF NoLostWakeup, n
  <2> QED BY <1>1, <1>4, <2>2, <2>3, AwakeFinite
<1>6. Capacity - (n - 1) <= Cardinality(Pushing') \/ NotFullWaiters' = {}
  <2>1. CASE NotFullWaiters = {}
    BY <1>4, <2>1
  <2>2. CASE NotFullWaiters # {}
    <3>1. PICK u \in NotFullWaiters : /\ st'[u] = "locking"
                                      /\ \A v \in Threads : v # t /\ v # u => st'[v] = st[v]
      BY <1>3, <2>2
    <3>2. op[u] = "push" /\ u # t /\ u \in Threads /\ u \in Producers
      BY <1>2, <3>1 DEF Calls, NotFullWaiters
    <3>3. Pushing' = Pushing \cup {u} /\ u \notin Pushing
      BY <1>0, <1>2, <3>1, <3>2 DEF Pushing, Awake, NotFullWaiters, TypeOK
    <3>4. Cardinality(Pushing') = Cardinality(Pushing) + 1
      BY <3>3, AwakeFinite, FS_AddElement
    <3>5. Capacity - n <= Cardinality(Pushing)
      BY <2>2 DEF NoLostWakeup, Pushing, n
    <3> QED BY <1>1, <3>4, <3>5, AwakeFinite
  <2> QED BY <2>1, <2>2
<1>7. q'.shut => NotEmptyWaiters' \cup NotFullWaiters' = {}
  BY <1>1, <1>4 DEF NoLostWakeup
<1> QED BY <1>1, <1>5, <1>6, <1>7 DEF NoLostWakeup, Pushing

\* No wakeup is lost in any step.
LEMMA WInvStep == WInv /\ [Next]_vars => WInv'
<1> SUFFICES ASSUME WInv, [Next]_vars PROVE NoLostWakeup'
  BY IInvStep DEF WInv
<1> USE DEF WInv, IInv
<1>0. /\ Len(q.items) \in Nat /\ Capacity \in Nat /\ q \in QueueType(Items)
      /\ IsEmpty(q) <=> Len(q.items) = 0
      /\ Producers \cap Consumers = {} /\ Threads = Producers \cup Consumers
  BY CapacityAssumption, RolesAssumption, QueueOpsPositions DEF TypeOK, Threads
<1>1. ASSUME NEW t \in Producers, CallPush(t)
      PROVE  NoLostWakeup'
  <2>1. st[t] = "idle" /\ op[t] = "none" /\ t \in Threads /\ t \notin Consumers
    BY <1>0, <1>1 DEF CallPush, Calls
  <2> QED BY <1>0, <1>1, <2>1, MoreAwake
          DEF CallPush, Awake, Pushing, NotEmptyWaiters, NotFullWaiters, TypeOK
<1>2. ASSUME NEW t \in Consumers, CallPop(t)
      PROVE  NoLostWakeup'
  <2>1. st[t] = "idle" /\ op[t] = "none" /\ t \in Threads /\ t \notin Producers
    BY <1>0, <1>2 DEF CallPop, Calls
  <2> QED BY <1>0, <1>2, <2>1, MoreAwake
          DEF CallPop, Awake, Pushing, NotEmptyWaiters, NotFullWaiters, TypeOK
<1>3. ASSUME NEW t \in Threads, PushStep(t)
      PROVE  NoLostWakeup'
  <2>1. CASE ~PushReady(q, Capacity)
    BY <1>3, <2>1, Sleeps DEF PushStep
  <2>2. CASE PushReady(q, Capacity) /\ ~q.shut
    BY <1>3, <2>2, InCall, Announced DEF PushStep, PushReady, Return
  <2>3. CASE q.shut
    <3>1. q' = q /\ st' = [st EXCEPT ![t] = "idle"]
      BY <1>3, <2>3 DEF PushStep, PushReady, Push, Idle
    <3>2. NotEmptyWaiters \cup NotFullWaiters = {}
      BY <2>3 DEF NoLostWakeup
    <3>3. NotEmptyWaiters' \cup NotFullWaiters' = {}
      BY <1>0, <3>1, <3>2 DEF NotEmptyWaiters, NotFullWaiters, TypeOK
    <3> QED BY <3>3 DEF NoLostWakeup
  <2> QED BY <2>1, <2>2, <2>3
<1>4. ASSUME NEW t \in Threads, TryPushStep(t)
      PROVE  NoLostWakeup'
  <2>0. t \in Producers /\ t \notin Consumers /\ t \notin Pushing
    BY <1>4, InCall DEF TryPushStep, Pushing
  <2>1. CASE Len(q.items) >= Capacity \/ q.shut
    BY <1>0, <1>4, <2>0, <2>1, MoreAwake
    DEF TryPushStep, Return, Idle, Awake, Pushing, NotEmptyWaiters, NotFullWaiters, TypeOK
  <2>2. CASE ~(Len(q.items) >= Capacity \/ q.shut)
    BY <1>0, <1>4, <2>0, <2>2, Announced DEF TryPushStep, Return
  <2> QED BY <2>1, <2>2
<1>5. ASSUME NEW t \in Threads, PopStep(t)
      PROVE  NoLostWakeup'
  <2>0. t \in Consumers /\ t \notin Producers
    BY <1>5, InCall DEF PopStep
  <2>1. CASE ~IsEmpty(q)
    BY <1>5, <2>0, <2>1, RoomMade DEF PopStep, Return
  <2>2. CASE IsEmpty(q) /\ ~(q.shut \/ st[t] = "timedOut")
    BY <1>5, <2>2, Sleeps DEF PopStep
  <2>3. CASE IsEmpty(q) /\ (q.shut \/ st[t] = "timedOut")
    <3>1. q' = q /\ st' = [st EXCEPT ![t] = "idle"] /\ op' = [op EXCEPT ![t] = "none"]
      BY <1>5, <2>3 DEF PopStep, Idle, Return
    <3>2. Len(q'.items) <= Cardinality(Awake(Consumers)')
      BY <1>0, <2>3, <3>1, AwakeFinite
    <3>3. /\ Pushing' = Pushing /\ NotFullWaiters' = NotFullWaiters
          /\ NotEmptyWaiters' \subseteq NotEmptyWaiters
      BY <1>0, <2>0, <3>1 DEF Pushing, Awake, NotFullWaiters, NotEmptyWaiters, TypeOK
    <3> QED BY <3>1, <3>2, <3>3 DEF NoLostWakeup, Pushing
  <2> QED BY <2>1, <2>2, <2>3
<1>6. ASSUME NEW t \in Threads, Timeout(t) \/ SpuriousWakeup(t)
      PROVE  NoLostWakeup'
  BY <1>0, <1>6, MoreAwake
  DEF Timeout, SpuriousWakeup, Awake, Pushing, NotEmptyWaiters, NotFullWaiters, TypeOK
<1>7. CASE ShutdownStep
  <2>1. NotEmptyWaiters' = {} /\ NotFullWaiters' = {}
    BY <1>0, <1>7 DEF ShutdownStep, NotEmptyWaiters, NotFullWaiters
  <2> QED BY <2>1 DEF NoLostWakeup
<1>8. CASE UNCHANGED vars
  BY <1>8 DEF vars, NoLostWakeup, Awake, NotEmptyWaiters, NotFullWaiters
<1> QED BY <1>1, <1>2, <1>3, <1>4, <1>5, <1>6, <1>7, <1>8 DEF Next, Step

\* While a consumer sleeps every item has an awake consumer coming for it, while a
\* producer sleeps every free slot an awake producer, and a shutdown wakes all.
THEOREM NoWakeupIsLost == Spec => []NoLostWakeup
<1>1. Init => WInv
  <2> SUFFICES ASSUME Init PROVE NoLostWakeup
    BY InitIInv DEF WInv
  <2>1. NotEmptyWaiters = {} /\ NotFullWaiters = {}
    BY DEF Init, NotEmptyWaiters, NotFullWaiters, Threads
  <2> QED BY <2>1 DEF NoLostWakeup
<1>2. WInv => NoLostWakeup
  BY DEF WInv
<1> QED BY <1>1, <1>2, WInvStep, PTL DEF Spec
-----------------------------------------------------------------------------
(***************************************************************************)
(* The refinement.  A call takes effect in the step that returns from it;   *)
(* going to sleep, waking up and timing out change nothing the caller sees. *)
(***************************************************************************)

\* The state the abstract queue has too.
LEMMA Unseen == UNCHANGED <<q, op, arg, res>> => UNCHANGED Abstract!vars
  BY DEF Abstract!vars

\* Both are built from the operations of QueueOps.
LEMMA SameOperations ==
  /\ Abstract!NewQueue = NewQueue
  /\ \A z : /\ Abstract!IsEmpty(z) = IsEmpty(z) /\ Abstract!Pop(z) = Pop(z)
            /\ Abstract!Shutdown(z) = Shutdown(z)
  /\ \A z, x : Abstract!Push(z, x) = Push(z, x)
  /\ \A z, n : Abstract!PushReady(z, n) = PushReady(z, n)
<1>1. /\ Abstract!NewQueue = NewQueue
      /\ \A z : Abstract!Pop(z) = Pop(z) /\ Abstract!Shutdown(z) = Shutdown(z)
  BY DEF Abstract!NewQueue, NewQueue, Abstract!Pop, Pop, Abstract!Shutdown, Shutdown
<1>2. \A z : Abstract!IsEmpty(z) = IsEmpty(z)
  BY DEF Abstract!IsEmpty, IsEmpty
<1>3. \A z, x : Abstract!Push(z, x) = Push(z, x)
  BY DEF Abstract!Push, Push
<1>4. \A z, n : Abstract!PushReady(z, n) = PushReady(z, n)
  BY DEF Abstract!PushReady, PushReady
<1> QED BY <1>1, <1>2, <1>3, <1>4

\* Each step of the code is a step of the promise, or none.
LEMMA AbstractStep == IInv /\ [Next]_vars => [Abstract!Next]_(Abstract!vars)
<1> SUFFICES ASSUME IInv, [Next]_vars PROVE [Abstract!Next]_(Abstract!vars)
  OBVIOUS
<1>0. /\ Abstract!Threads = Threads /\ Abstract!Pops = Pops
      /\ \A t \in Producers \cup Consumers : t \in Threads
      /\ Len(q.items) \in Nat /\ Capacity \in Nat
  BY CapacityAssumption, QueueOpsPositions
  DEF IInv, TypeOK, Abstract!Threads, Threads, Abstract!Pops, Pops
<1>r. \A t, r : Return(t, r) => Abstract!Return(t, r)
  BY DEF Return, Abstract!Return
<1>1. ASSUME NEW t \in Producers, CallPush(t)
      PROVE  Abstract!Next
  <2>1. PICK o \in {"push", "tryPush"}, x \in fresh :
             op' = [op EXCEPT ![t] = o] /\ arg' = [arg EXCEPT ![t] = x]
    BY <1>1 DEF CallPush
  <2>2. x \in Items /\ Abstract!Call(t, o, x)
    BY <1>1, <2>1 DEF CallPush, Abstract!Call, IInv, TypeOK
  <2> QED BY <2>2 DEF Abstract!Next
<1>2. ASSUME NEW t \in Consumers, CallPop(t)
      PROVE  Abstract!Next
  <2>1. PICK o \in Pops : op' = [op EXCEPT ![t] = o]
    BY <1>2 DEF CallPop
  <2>2. arg' = [arg EXCEPT ![t] = Nothing]
    BY <1>0, <1>2 DEF CallPop, IInv, TypeOK, Calls
  <2>3. Abstract!Call(t, o, Nothing)
    BY <1>2, <2>1, <2>2 DEF CallPop, Abstract!Call
  <2> QED BY <1>0, <2>3 DEF Abstract!Next
<1>3. ASSUME NEW t \in Threads, PushStep(t)
      PROVE  Abstract!Next \/ UNCHANGED Abstract!vars
  <2>1. CASE ~PushReady(q, Capacity)
    BY <1>3, <2>1, Unseen DEF PushStep, Wait
  <2>2. CASE PushReady(q, Capacity)
    <3>1. Abstract!PushEffect(t)
      BY <1>r, <1>3, <2>2, SameOperations DEF PushStep, Abstract!PushEffect
    <3> QED BY <1>0, <3>1 DEF Abstract!Next
  <2> QED BY <2>1, <2>2
<1>4. ASSUME NEW t \in Threads, TryPushStep(t)
      PROVE  Abstract!Next
  <2>1. Abstract!TryPushEffect(t)
    <3>1. CASE Len(q.items) >= Capacity \/ q.shut
      <4>1. ~(Len(q.items) < Capacity /\ ~q.shut)
        BY <1>0, <3>1
      <4> QED BY <1>r, <1>4, <3>1, <4>1 DEF TryPushStep, Abstract!TryPushEffect
    <3>2. CASE ~(Len(q.items) >= Capacity \/ q.shut)
      <4>1. Len(q.items) < Capacity /\ ~q.shut
        BY <1>0, <3>2
      <4> QED BY <1>r, <1>4, <3>2, <4>1, SameOperations DEF TryPushStep, Abstract!TryPushEffect
    <3> QED BY <3>1, <3>2
  <2> QED BY <1>0, <2>1 DEF Abstract!Next
<1>5. ASSUME NEW t \in Threads, PopStep(t)
      PROVE  Abstract!Next \/ UNCHANGED Abstract!vars
  <2>1. CASE ~IsEmpty(q)
    <3>1. Abstract!PopEffect(t)
      BY <1>0, <1>r, <1>5, <2>1, SameOperations DEF PopStep, Abstract!PopEffect
    <3> QED BY <1>0, <3>1 DEF Abstract!Next
  <2>2. CASE IsEmpty(q) /\ ~(q.shut \/ st[t] = "timedOut")
    BY <1>5, <2>2, Unseen DEF PopStep, Wait
  <2>3. CASE IsEmpty(q) /\ (q.shut \/ st[t] = "timedOut")
    <3>1. q.shut \/ op[t] = "popWithTimeout"
      BY <2>3 DEF IInv, Calls
    <3>2. Abstract!PopNothing(t)
      BY <1>0, <1>r, <1>5, <2>3, <3>1, SameOperations DEF PopStep, Abstract!PopNothing
    <3> QED BY <1>0, <3>2 DEF Abstract!Next
  <2> QED BY <2>1, <2>2, <2>3
<1>6. ASSUME NEW t \in Threads, Timeout(t) \/ SpuriousWakeup(t)
      PROVE  UNCHANGED Abstract!vars
  BY <1>6, Unseen DEF Timeout, SpuriousWakeup
<1>7. CASE ShutdownStep
  BY <1>7, SameOperations DEF ShutdownStep, Abstract!ShutdownEffect, Abstract!Next
<1>8. CASE UNCHANGED vars
  BY <1>8, Unseen DEF vars
<1> QED BY <1>1, <1>2, <1>3, <1>4, <1>5, <1>6, <1>7, <1>8 DEF Next, Step

\* Mutex, condition variables, timeouts and spurious wakeups together give what
\* BoundedQueue promises: every call takes effect at once, between call and return.
THEOREM ImplementsBoundedQueue == Spec => AbstractSpec
<1>1. Init => Abstract!Init
  BY SameOperations DEF Init, Abstract!Init, Threads, Abstract!Threads
<1> QED BY InitIInv, IInvStep, <1>1, AbstractStep, PTL DEF Spec, AbstractSpec, Abstract!Spec
=============================================================================
