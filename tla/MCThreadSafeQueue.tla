------------------------- MODULE MCThreadSafeQueue -------------------------
(* Two producers and two consumers on a queue of two. *)
EXTENDS ThreadSafeQueue, TLC

CONSTANTS p1, p2, c1, c2, x, y, z, w

MCProducers  == {p1, p2}
MCConsumers  == {c1, c2}
\* One more than the queue and the hand of one producer hold, so that both
\* producers can be blocked.
MCItems      == {x, y, z, w}
=============================================================================
