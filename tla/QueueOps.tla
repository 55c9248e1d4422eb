------------------------------ MODULE QueueOps ------------------------------
(***************************************************************************)
(* What each operation of ThreadSafeQueue<T> does once it holds the mutex   *)
(* and its wait predicate is true (src/include/thread_safe_queue.h).  The   *)
(* pipeline is built from these atomic operations; module ThreadSafeQueue   *)
(* shows that the mutex and the condition variables implement them.         *)
(***************************************************************************)
LOCAL INSTANCE Naturals
LOCAL INSTANCE Sequences

NewQueue == [items |-> <<>>, shut |-> FALSE]

QueueType(Item) == [items : Seq(Item), shut : BOOLEAN]

IsEmpty(q) == q.items = <<>>

\* The predicate push() waits for: room, or shutdown.
PushReady(q, cap) == Len(q.items) < cap \/ q.shut

\* Wrong: last in, first out.
MutPush(q, x) == IF q.shut THEN q ELSE [q EXCEPT !.items = <<x>> \o @]

\* push() returns without queueing the item when the queue is shut down.
Push(q, x) == IF q.shut THEN q ELSE [q EXCEPT !.items = Append(@, x)]

Pop(q) == [q EXCEPT !.items = Tail(@)]

\* shutdown() sets a flag that no operation ever resets.
Shutdown(q) == [q EXCEPT !.shut = TRUE]
=============================================================================
