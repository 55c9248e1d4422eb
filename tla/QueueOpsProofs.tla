--------------------------- MODULE QueueOpsProofs ---------------------------
(***************************************************************************)
(* What the operations of QueueOps do to a queue of any length and of any   *)
(* items: to its type, to the set of what is queued and to the positions.   *)
(* The proofs about the queue, and about both engines built from it, rest   *)
(* on these lemmas.                                                         *)
(***************************************************************************)
EXTENDS Naturals, Sequences, QueueOps, TLAPS

\* The queue operations keep a queue of members of S one.
LEMMA QueueOpsType ==
  ASSUME NEW S, NEW q \in QueueType(S)
  PROVE  /\ NewQueue \in QueueType(S)
         /\ Shutdown(q) \in QueueType(S)
         /\ \A x \in S : Push(q, x) \in QueueType(S)
         /\ ~IsEmpty(q) => Pop(q) \in QueueType(S) /\ Head(q.items) \in S
<1>1. NewQueue \in QueueType(S)
  BY DEF QueueType, NewQueue
<1>2. q.items \in Seq(S) /\ q.shut \in BOOLEAN /\ q = [items |-> q.items, shut |-> q.shut]
  BY DEF QueueType
<1>3. Shutdown(q) \in QueueType(S)
  BY <1>2 DEF QueueType, Shutdown
<1>4. \A x \in S : Append(q.items, x) \in Seq(S)
  BY <1>2
<1>5. \A x \in S : Push(q, x) \in QueueType(S)
  BY <1>2, <1>4 DEF QueueType, Push
<1>6. q.items # <<>> => Tail(q.items) \in Seq(S) /\ Head(q.items) \in S
  BY <1>2
<1>7. ~IsEmpty(q) => Pop(q) \in QueueType(S) /\ Head(q.items) \in S
  BY <1>2, <1>6 DEF QueueType, Pop, IsEmpty
<1> QED BY <1>1, <1>3, <1>5, <1>7

ItemsOf(q) == {q.items[i] : i \in DOMAIN q.items}

\* What the queue operations do to the set of queued items.
LEMMA QueueOpsItems ==
  ASSUME NEW S, NEW q \in QueueType(S)
  PROVE  /\ ItemsOf(q) \subseteq S
         /\ ItemsOf(NewQueue) = {}
         /\ ItemsOf(Shutdown(q)) = ItemsOf(q)
         /\ \A x \in S : ItemsOf(Push(q, x)) = IF q.shut THEN ItemsOf(q) ELSE ItemsOf(q) \cup {x}
         /\ IsEmpty(q) <=> ItemsOf(q) = {}
         /\ ~IsEmpty(q) => ItemsOf(q) = ItemsOf(Pop(q)) \cup {Head(q.items)}
<1>1. q.items \in Seq(S) /\ q.shut \in BOOLEAN /\ q = [items |-> q.items, shut |-> q.shut]
  BY DEF QueueType
<1>2. DOMAIN q.items = 1..Len(q.items) /\ Len(q.items) \in Nat
  BY <1>1
<1>3. ItemsOf(q) \subseteq S
  BY <1>1, <1>2 DEF ItemsOf
<1>4. ItemsOf(NewQueue) = {} /\ ItemsOf(Shutdown(q)) = ItemsOf(q)
  BY <1>1 DEF ItemsOf, NewQueue, Shutdown
<1>5. ASSUME NEW x \in S
      PROVE  ItemsOf(Push(q, x)) = IF q.shut THEN ItemsOf(q) ELSE ItemsOf(q) \cup {x}
  <2>1. CASE q.shut
    BY <2>1 DEF Push
  <2>2. CASE ~q.shut
    <3> DEFINE r == Append(q.items, x)
    <3>1. Push(q, x).items = r
      BY <1>1, <2>2 DEF Push
    <3>2. /\ DOMAIN r = 1..(Len(q.items) + 1)
          /\ \A i \in 1..Len(q.items) : r[i] = q.items[i]
          /\ r[Len(q.items) + 1] = x
      BY <1>1
    <3> HIDE DEF r
    <3>3. ItemsOf(Push(q, x)) = {r[i] : i \in 1..(Len(q.items) + 1)}
      BY <3>1, <3>2 DEF ItemsOf
    <3>4. 1..(Len(q.items) + 1) = (1..Len(q.items)) \cup {Len(q.items) + 1}
      BY <1>2
    <3>5. ItemsOf(Push(q, x)) = {q.items[i] : i \in 1..Len(q.items)} \cup {x}
      BY <3>2, <3>3, <3>4
    <3> QED BY <1>2, <2>2, <3>5 DEF ItemsOf
  <2> QED BY <2>1, <2>2, <1>1
<1>6. IsEmpty(q) <=> ItemsOf(q) = {}
  <2>1. IsEmpty(q) => ItemsOf(q) = {}
    BY DEF IsEmpty, ItemsOf
  <2>2. ~IsEmpty(q) => 1 \in DOMAIN q.items
    BY <1>1, <1>2 DEF IsEmpty
  <2> QED BY <2>1, <2>2 DEF ItemsOf
<1>7. ASSUME ~IsEmpty(q)
      PROVE  ItemsOf(q) = ItemsOf(Pop(q)) \cup {Head(q.items)}
  <2> DEFINE r == Tail(q.items)
             n == Len(q.items)
  <2>1. Pop(q).items = r
    BY <1>1 DEF Pop
  <2>2. n >= 1 /\ n \in Nat
    BY <1>1, <1>7 DEF IsEmpty
  <2>3. /\ Head(q.items) = q.items[1]
        /\ DOMAIN r = 1..(n - 1)
        /\ \A i \in 1..(n - 1) : r[i] = q.items[i + 1]
    BY <1>1, <1>7 DEF IsEmpty
  <2> HIDE DEF r, n
  <2>4. ItemsOf(Pop(q)) = {r[i] : i \in 1..(n - 1)}
    BY <2>1, <2>3 DEF ItemsOf
  <2>5. ItemsOf(q) = {q.items[i] : i \in 1..n}
    BY <1>2 DEF ItemsOf, n
  <2>6. ASSUME NEW x \in ItemsOf(q) PROVE x \in ItemsOf(Pop(q)) \cup {Head(q.items)}
    <3>1. PICK i \in 1..n : x = q.items[i]
      BY <2>5
    <3>2. i = 1 \/ (i - 1 \in 1..(n - 1) /\ r[i - 1] = q.items[i])
      BY <2>2, <2>3
    <3> QED BY <2>3, <2>4, <3>1, <3>2
  <2>7. ASSUME NEW x \in ItemsOf(Pop(q)) \cup {Head(q.items)} PROVE x \in ItemsOf(q)
    <3>1. CASE x = Head(q.items)
      BY <2>2, <2>3, <2>5, <3>1
    <3>2. CASE x \in ItemsOf(Pop(q))
      <4>1. PICK i \in 1..(n - 1) : x = r[i]
        BY <2>4, <3>2
      <4>2. i + 1 \in 1..n /\ x = q.items[i + 1]
        BY <2>2, <2>3, <4>1
      <4> QED BY <2>5, <4>2
    <3> QED BY <3>1, <3>2
  <2> QED BY <2>6, <2>7
<1> QED BY <1>3, <1>4, <1>5, <1>6, <1>7

\* Where the operations leave what is queued: a push adds at the end, a pop moves
\* everything up by one, a shutdown moves nothing.
LEMMA QueueOpsPositions ==
  ASSUME NEW S, NEW q \in QueueType(S)
  PROVE  /\ Len(q.items) \in Nat /\ DOMAIN q.items = 1..Len(q.items)
         /\ \A i \in 1..Len(q.items) : q.items[i] \in S
         /\ NewQueue.items = <<>> /\ Shutdown(q).items = q.items /\ Shutdown(q).shut
         /\ IsEmpty(q) <=> Len(q.items) = 0
         /\ \A x \in S :
              /\ Push(q, x).shut = q.shut
              /\ IF q.shut THEN Push(q, x) = q
                 ELSE /\ Len(Push(q, x).items) = Len(q.items) + 1
                      /\ Push(q, x).items[Len(q.items) + 1] = x
                      /\ \A i \in 1..Len(q.items) : Push(q, x).items[i] = q.items[i]
         /\ ~IsEmpty(q) =>
              /\ Head(q.items) = q.items[1] /\ Pop(q).shut = q.shut
              /\ Len(Pop(q).items) = Len(q.items) - 1
              /\ \A i \in 1..(Len(q.items) - 1) : Pop(q).items[i] = q.items[i + 1]
<1>1. q.items \in Seq(S) /\ q.shut \in BOOLEAN /\ q = [items |-> q.items, shut |-> q.shut]
  BY DEF QueueType
<1>2. /\ Len(q.items) \in Nat /\ DOMAIN q.items = 1..Len(q.items)
      /\ \A i \in 1..Len(q.items) : q.items[i] \in S
  BY <1>1
<1>3. NewQueue.items = <<>> /\ Shutdown(q).items = q.items /\ Shutdown(q).shut
  BY <1>1 DEF NewQueue, Shutdown
<1>4. IsEmpty(q) <=> Len(q.items) = 0
  BY <1>1 DEF IsEmpty
<1>5. ASSUME NEW x \in S
      PROVE  /\ Push(q, x).shut = q.shut
             /\ IF q.shut THEN Push(q, x) = q
                ELSE /\ Len(Push(q, x).items) = Len(q.items) + 1
                     /\ Push(q, x).items[Len(q.items) + 1] = x
                     /\ \A i \in 1..Len(q.items) : Push(q, x).items[i] = q.items[i]
  <2>1. CASE q.shut
    BY <2>1 DEF Push
  <2>2. CASE ~q.shut
    <3>1. Push(q, x).items = Append(q.items, x) /\ Push(q, x).shut = q.shut
      BY <1>1, <2>2 DEF Push
    <3> QED BY <1>1, <2>2, <3>1
  <2> QED BY <2>1, <2>2
<1>6. ASSUME ~IsEmpty(q)
      PROVE  /\ Head(q.items) = q.items[1] /\ Pop(q).shut = q.shut
             /\ Len(Pop(q).items) = Len(q.items) - 1
             /\ \A i \in 1..(Len(q.items) - 1) : Pop(q).items[i] = q.items[i + 1]
  <2>1. Pop(q).items = Tail(q.items) /\ Pop(q).shut = q.shut /\ q.items # <<>>
    BY <1>1, <1>6 DEF Pop, IsEmpty
  <2> QED BY <1>1, <2>1
<1> QED BY <1>2, <1>3, <1>4, <1>5, <1>6
=============================================================================
