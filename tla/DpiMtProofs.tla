----------------------------- MODULE DpiMtProofs -----------------------------
(***************************************************************************)
(* Proofs about DpiMt for any number of LBs and FPs, any capacity of the    *)
(* queues, any hash, any captures and any command lines.                    *)
(***************************************************************************)
EXTENDS DpiMt, QueueOpsProofs, FiniteSetTheorems, SequenceTheorems, WellFoundedInduction, TLAPS

\* The numbers of the threads: the LBs, then the FPs, then the output thread.
LEMMA ThreadNumbers ==
  /\ Out \in Nat /\ NumLBs < Out
  /\ Workers = 0..(Out - 1) /\ LBs \cap FPs = {} /\ Workers \subseteq Threads
  /\ Out \in Threads /\ Out \notin Workers
  /\ 0 \in Workers /\ NumLBs \in Workers
  /\ \A l \in LBs, f \in FPs : l < f
<1> DEFINE M == NumLBs * FPsPerLB
<1>1. M \in Nat /\ M > 0
  BY ThreadsAssumption
<1> QED
  BY <1>1, ThreadsAssumption DEF Out, Workers, Threads, LBs, FPs

\* The group of FPs of LB l ends before the last FP.
LEMMA GroupFits ==
  ASSUME NEW l \in LBs
  PROVE  l * FPsPerLB + FPsPerLB <= NumLBs * FPsPerLB
<1>1. PICK m \in Nat : NumLBs = l + 1 + m
  <2>1. NumLBs - l - 1 \in Nat /\ NumLBs = l + 1 + (NumLBs - l - 1)
    BY ThreadsAssumption DEF LBs
  <2> QED BY <2>1
<1>2. NumLBs * FPsPerLB = l * FPsPerLB + FPsPerLB + m * FPsPerLB
  BY <1>1, ThreadsAssumption DEF LBs
<1>3. m * FPsPerLB \in Nat /\ l * FPsPerLB \in Nat
  BY <1>1, ThreadsAssumption DEF LBs
<1> QED BY <1>2, <1>3, ThreadsAssumption

\* The packets of a capture are packets, and every one with a flow has a hash.
LEMMA CapturedPackets ==
  ASSUME capture \in Captures
  PROVE  /\ Len(capture) \in Nat /\ DOMAIN capture = 1..Len(capture)
         /\ \A i \in DOMAIN capture : capture[i] \in PacketType /\ WellFormed(capture[i])
         /\ \A i \in Indices : Hash[capture[i].tuple] \in Nat
         /\ Indices \subseteq Nat /\ None \notin Indices
<1>1. capture \in Seq(PacketType)
  BY CapturesAssumption
<1>2. DOMAIN capture = 1..Len(capture) /\ Len(capture) \in Nat
  BY <1>1
<1>3. \A i \in DOMAIN capture : capture[i] \in PacketType
  BY <1>1
<1>4. \A i \in DOMAIN capture : WellFormed(capture[i])
  BY CapturesAssumption
<1>5. \A i \in Indices : Hash[capture[i].tuple] \in Nat
  BY HashAssumption DEF Indices
<1> QED BY <1>2, <1>3, <1>4, <1>5 DEF Indices, None

\* The main thread selects an LB, an LB one of the FPs, an FP the output thread.
LEMMA Routing ==
  ASSUME capture \in Captures, NEW i \in Indices
  PROVE  /\ LBOf(i) \in LBs
         /\ \A l \in LBs : Target(l, i) \in FPs
         /\ \A f \in FPs : Target(f, i) = Out
<1> DEFINE h == Hash[capture[i].tuple]
           r == h % FPsPerLB
<1>1. h \in Nat
  BY CapturedPackets
<1>2. LBOf(i) \in LBs
  BY <1>1, ThreadsAssumption DEF LBOf, LBs
<1>3. r \in 0..(FPsPerLB - 1)
  BY <1>1, ThreadsAssumption
<1>4. ASSUME NEW l \in LBs
      PROVE  Target(l, i) \in FPs
  <2> DEFINE k == l * FPsPerLB
  <2>1. k \in Nat /\ k + FPsPerLB <= NumLBs * FPsPerLB
    BY GroupFits, ThreadsAssumption DEF LBs
  <2> HIDE DEF k
  <2>2. Target(l, i) = NumLBs + k + r
    BY DEF Target, k
  <2>3. NumLBs * FPsPerLB \in Nat
    BY ThreadsAssumption
  <2> HIDE DEF r
  <2> QED BY <2>1, <2>2, <2>3, <1>3, ThreadsAssumption DEF FPs
<1>5. \A f \in FPs : Target(f, i) = Out
  BY ThreadNumbers DEF Target
<1> QED BY <1>2, <1>4, <1>5

-----------------------------------------------------------------------------
(***************************************************************************)
(* The flow of a packet keeps its type.                                     *)
(***************************************************************************)

\* Each of the ways to change a flow gives a flow.
LEMMA ClassifiedTypes ==
  ASSUME NEW flow \in FlowType
  PROVE  /\ \A name \in Names \cup {""} : WithName(flow, name) \in FlowType
         /\ \A app \in AppTypes : WithApp(flow, app) \in FlowType
         /\ Classified(flow) \in FlowType
<1>1. ASSUME NEW name \in Names \cup {""} PROVE WithName(flow, name) \in FlowType
  <2>1. AppOf[name] \in AppTypes
    BY DEF AppTypes
  <2> QED BY <2>1 DEF WithName, FlowType
<1>2. ASSUME NEW app \in AppTypes PROVE WithApp(flow, app) \in FlowType
  BY DEF WithApp, FlowType
<1>3. Classified(flow) \in FlowType
  BY DEF Classified, FlowType
<1> QED BY <1>1, <1>2, <1>3

\* What the extractors find is a name or empty.
LEMMA NamesFound ==
  ASSUME NEW p \in PacketType
  PROVE  /\ p.hello # NoName => p.hello \in Names \cup {""}
         /\ p.host # NoName => p.host \in Names \cup {""}
BY DEF PacketType

\* classifyFlow gives a flow, whatever the extractors found.
LEMMA ClassifyFlowType ==
  ASSUME NEW p \in PacketType, NEW flow \in FlowType
  PROVE  ClassifyFlow(p, flow) \in FlowType
<1>1. {"HTTPS", "HTTP", "DNS"} \subseteq AppTypes
  BY DEF AppTypes
<1>2. \A app \in {"HTTPS", "HTTP", "DNS"} : WithApp(flow, app) \in FlowType
  BY <1>1, ClassifiedTypes
<1>3. Classified(WithApp(flow, "DNS")) \in FlowType
  BY <1>2, ClassifiedTypes
<1>4. \A name \in Names \cup {""} : Classified(WithName(flow, name)) \in FlowType
  BY ClassifiedTypes
<1>5. /\ p.hello # NoName => Classified(WithName(flow, p.hello)) \in FlowType
      /\ p.host # NoName => Classified(WithName(flow, p.host)) \in FlowType
  BY <1>4, NamesFound
<1> QED BY <1>2, <1>3, <1>5 DEF ClassifyFlow, ByServerPort

\* The flow of a packet after the packet is a flow.
LEMMA FlowAfterType ==
  ASSUME NEW f, NEW p \in PacketType,
         \A t \in DOMAIN flows[f] : flows[f][t] \in FlowType
  PROVE  FlowAfter(f, p) \in FlowType
<1> DEFINE counted == [EntryOf(f, p.tuple) EXCEPT !.packets = @ + 1]
           seen    == IF counted.classified THEN counted ELSE ClassifyFlow(p, counted)
<1>1. NewFlowEntry \in FlowType
  BY AppAssumption DEF NewFlowEntry, FlowType, AppTypes
<1>2. EntryOf(f, p.tuple) \in FlowType
  BY <1>1 DEF EntryOf
<1>3. counted \in FlowType
  <2>1. ASSUME NEW e \in FlowType PROVE [e EXCEPT !.packets = @ + 1] \in FlowType
    <3>1. e.packets \in Nat
      BY DEF FlowType
    <3>2. \A n \in Nat : [e EXCEPT !.packets = n] \in FlowType
      BY DEF FlowType
    <3>3. e.packets + 1 \in Nat
      BY <3>1
    <3> QED BY <3>2, <3>3
  <2> QED BY <1>2, <2>1
<1>4. seen \in FlowType
  BY <1>3, ClassifyFlowType
<1>5. FlowAfter(f, p) =
        [seen EXCEPT !.blocked = @ \/ IsBlocked(rules, p.tuple.src_ip, seen.app_type, seen.sni)]
  BY DEF FlowAfter
<1> HIDE DEF seen
<1>6. (seen.blocked \/ IsBlocked(rules, p.tuple.src_ip, seen.app_type, seen.sni)) \in BOOLEAN
  BY DEF IsBlocked
<1> QED BY <1>4, <1>5, <1>6 DEF FlowType

-----------------------------------------------------------------------------
(***************************************************************************)
(* The inductive invariant of the types.  That a thread starts with nothing *)
(* in hand rests on the order in which the main thread starts them, and     *)
(* that only packets are pushed on what the threads do.                     *)
(***************************************************************************)

BeforeRead ==
  mainPc \in {"openInput", "openOutput", "startWorker", "startOutput", "returnFalse"}

Inputs ==
  /\ capture \in Captures
  /\ mainPc = "push" => readPos \in Indices

\* Which thread does what.
Roles ==
  /\ \A l \in LBs : pc[l] \notin {"process", "size", "write"}
  /\ \A f \in FPs : pc[f] \notin {"size", "write"}
  /\ pc[Out] \notin {"process", "push"}

\* No packet is anywhere before the main thread reads the first.
QuietStart ==
  BeforeRead => /\ readPos = 0 /\ stats.forwarded = 0 /\ stats.dropped = 0
                /\ \A t \in Threads : hand[t] = None /\ queue[t] = NewQueue

TInv ==
  /\ TypeOK /\ Inputs /\ Roles /\ QuietStart
  /\ flows = [f \in FPs |-> flows[f]]

\* Every thread starts idle, with empty hands and an empty queue.
LEMMA InitTInv == Init => TInv
<1> SUFFICES ASSUME Init PROVE TInv
  OBVIOUS
<1>1. 0 \in Workers /\ capture \in Captures
  BY ThreadNumbers DEF Init
<1>2. Len(capture) \in Nat
  BY <1>1, CapturedPackets
<1>3. NewQueue \in QueueType(Indices) /\ Len(NewQueue.items) = 0
  BY DEF QueueType, NewQueue
<1>4. TypeOK
  BY <1>1, <1>2, <1>3, CapacityAssumption DEF Init, TypeOK
<1>5. Roles
  BY ThreadNumbers DEF Init, Roles, Workers, Threads
<1> QED BY <1>1, <1>4, <1>5 DEF Init, TInv, Inputs, QuietStart

\* No step changes the capture, so none changes which packets have a flow.
LEMMA SameCapture ==
  ASSUME [Next]_vars
  PROVE  capture' = capture /\ rules' = rules /\ Indices' = Indices
<1>1. capture' = capture /\ rules' = rules
  BY DEF Next, Main, OpenInput, OpenOutput, StartWorker, StartOutput, Read, Dispatch, FlagWorker,
         ShutWorker, JoinWorker, FlagOutput, ShutOutput, JoinOutput, Worker, FP, Output, Check,
         OutputSize, PopOne, PopNothing, Process, HandOn, Write, Terminating, input, vars
<1> QED BY <1>1 DEF Indices

\* A push that does not wait for room leaves no more than Capacity items.
LEMMA PushFits ==
  ASSUME NEW S, NEW q \in QueueType(S), NEW x \in S, PushReady(q, Capacity),
         Len(q.items) <= Capacity
  PROVE  Push(q, x) \in QueueType(S) /\ Len(Push(q, x).items) <= Capacity
<1>1. Push(q, x) \in QueueType(S)
  BY QueueOpsType
<1>2. CASE q.shut
  BY <1>1, <1>2 DEF Push
<1>3. CASE ~q.shut
  <2>1. Len(Push(q, x).items) = Len(q.items) + 1 /\ Len(q.items) \in Nat
    BY <1>3, QueueOpsPositions
  <2>2. Len(q.items) < Capacity
    BY <1>3 DEF PushReady
  <2> HIDE DEF Push
  <2> QED BY <1>1, <2>1, <2>2, CapacityAssumption
<1> QED BY <1>2, <1>3

\* The main thread's steps keep the types.
LEMMA TypeMain ==
  ASSUME TInv, Main
  PROVE  TypeOK'
<1> USE DEF TInv
<1>0. Indices' = Indices /\ capture' = capture
  BY SameCapture DEF Next
<1>1. CASE OpenInput
  BY <1>0, <1>1 DEF OpenInput, TypeOK, workVars, fpVars
<1>2. CASE OpenOutput
  <2>1. <<Header>> \in Seq(Indices \cup {Header})
    OBVIOUS
  <2>2. file' \in Seq(Indices \cup {Header})
    BY <1>2, <2>1 DEF OpenOutput, TypeOK
  <2>3. mainPc' \in {"startWorker", "returnFalse"} /\ mainIdx' \in Workers
    BY <1>2, ThreadNumbers DEF OpenOutput, MainGoto
  <2> QED
    BY <1>0, <1>2, <2>2, <2>3 DEF OpenOutput, TypeOK, workVars, fpVars
<1>3. CASE StartWorker
  <2>1. (mainIdx + 1) % Out \in Workers /\ 0 \in Workers
    BY ThreadNumbers DEF TypeOK
  <2>2. mainPc' \in {"startOutput", "startWorker"} /\ mainIdx' \in Workers
    BY <1>3, <2>1 DEF StartWorker, MainGoto
  <2>3. \A t \in Threads : hand[t] = None
    BY <1>3 DEF StartWorker, QuietStart, BeforeRead
  <2>4. /\ pc' \in [Threads -> {"idle", "check", "size", "pop", "process", "push", "write", "done"}]
        /\ \A t \in Threads : pc'[t] \notin {"process", "push", "write"}
    BY <1>3, <2>3, ThreadNumbers DEF StartWorker, TypeOK
  <2> QED
    BY <1>0, <1>3, <2>2, <2>3, <2>4, ThreadNumbers DEF StartWorker, TypeOK, fpVars
<1>4. CASE StartOutput
  <2>3. \A t \in Threads : hand[t] = None
    BY <1>4 DEF StartOutput, QuietStart, BeforeRead
  <2>4. /\ pc' \in [Threads -> {"idle", "check", "size", "pop", "process", "push", "write", "done"}]
        /\ \A t \in Threads : pc'[t] \notin {"process", "push", "write"}
    BY <1>4, <2>3, ThreadNumbers DEF StartOutput, TypeOK
  <2> QED
    BY <1>0, <1>4, <2>3, <2>4, ThreadNumbers DEF StartOutput, TypeOK, MainGoto, fpVars
<1>5. CASE Read
  <2>1. Len(capture) \in Nat
    BY CapturedPackets DEF Inputs
  <2>2. readPos' \in 0..Len(capture)
    BY <1>5, <2>1 DEF Read, TypeOK
  <2>3. mainPc' \in {"push", "read", "flagWorker"} /\ mainIdx' \in Workers
    BY <1>5, ThreadNumbers DEF Read, MainGoto
  <2> QED
    BY <1>0, <1>5, <2>2, <2>3 DEF Read, TypeOK, workVars, fpVars
<1>6. CASE Dispatch
  <2> DEFINE lb == LBOf(readPos)
  <2>1. readPos \in Indices
    BY <1>6 DEF Dispatch, Inputs
  <2>2. lb \in LBs /\ lb \in Threads
    BY <2>1, Routing DEF Inputs, Threads, Workers
  <2> HIDE DEF lb
  <2>3. /\ PushReady(queue[lb], Capacity)
        /\ queue' = [queue EXCEPT ![lb] = Push(@, readPos)]
    BY <1>6 DEF Dispatch, lb
  <2>4. /\ Push(queue[lb], readPos) \in QueueType(Indices)
        /\ Len(Push(queue[lb], readPos).items) <= Capacity
    BY <2>1, <2>2, <2>3, PushFits DEF TypeOK
  <2>5. /\ queue' \in [Threads -> QueueType(Indices)]
        /\ \A t \in Threads : Len(queue'[t].items) <= Capacity
    BY <2>2, <2>3, <2>4 DEF TypeOK
  <2>6. mainPc' = "read" /\ mainIdx' \in Workers
    BY <1>6, ThreadNumbers DEF Dispatch, MainGoto
  <2> QED
    BY <1>0, <1>6, <2>5, <2>6 DEF Dispatch, TypeOK, fpVars
<1>7. CASE FlagWorker
  BY <1>0, <1>7 DEF FlagWorker, TypeOK, MainGoto, workVars, fpVars
<1>8. CASE ShutWorker
  <2>1. /\ queue' \in [Threads -> QueueType(Indices)]
        /\ \A t \in Threads : queue'[t].items = queue[t].items
    BY <1>8, ThreadNumbers, QueueOpsType DEF ShutWorker, TypeOK, Shutdown, QueueType
  <2> QED
    BY <1>0, <1>8, <2>1 DEF ShutWorker, TypeOK, MainGoto, fpVars
<1>9. CASE JoinWorker
  <2>1. mainPc' \in {"flagWorker", "flagOutput"} /\ mainIdx' \in Workers
    BY <1>9, ThreadNumbers DEF JoinWorker, MainGoto
  <2> QED
    BY <1>0, <1>9, <2>1 DEF JoinWorker, TypeOK, workVars, fpVars
<1>10. CASE FlagOutput
  BY <1>0, <1>10, ThreadNumbers DEF FlagOutput, TypeOK, MainGoto, workVars, fpVars
<1>11. CASE ShutOutput
  <2>1. /\ queue' \in [Threads -> QueueType(Indices)]
        /\ \A t \in Threads : queue'[t].items = queue[t].items
    BY <1>11, ThreadNumbers, QueueOpsType DEF ShutOutput, TypeOK, Shutdown, QueueType
  <2> QED
    BY <1>0, <1>11, <2>1, ThreadNumbers DEF ShutOutput, TypeOK, MainGoto, fpVars
<1>12. CASE JoinOutput
  BY <1>0, <1>12, ThreadNumbers DEF JoinOutput, TypeOK, MainGoto, workVars, fpVars
<1> QED BY <1>1, <1>2, <1>3, <1>4, <1>5, <1>6, <1>7, <1>8, <1>9, <1>10, <1>11, <1>12 DEF Main

\* The steps of the LB, FP and output threads keep the types.
LEMMA TypeWorkers ==
  ASSUME TInv, \/ \E w \in LBs : Worker(w)
               \/ \E f \in FPs : FP(f)
               \/ Output
  PROVE  TypeOK'
<1> USE DEF TInv
<1>0. Indices' = Indices /\ capture' = capture
  BY SameCapture DEF Next
<1>1. None \notin Indices
  BY CapturedPackets DEF Inputs
<1>2. ASSUME NEW t \in Threads, Check(t)
      PROVE  TypeOK'
  BY <1>0, <1>2 DEF Check, Goto, TypeOK, mainVars, fpVars
<1>3. ASSUME OutputSize
      PROVE  TypeOK'
  BY <1>0, <1>3, ThreadNumbers DEF OutputSize, Goto, TypeOK, mainVars, fpVars
<1>4. ASSUME NEW t \in Threads, PopOne(t)
      PROVE  TypeOK'
  <2> DEFINE q == queue[t]
             next == IF t \in LBs THEN "push" ELSE IF t \in FPs THEN "process" ELSE "write"
  <2>1. q \in QueueType(Indices) /\ ~IsEmpty(q) /\ Len(q.items) <= Capacity
    BY <1>4 DEF PopOne, TypeOK
  <2>2. Pop(q) \in QueueType(Indices) /\ Head(q.items) \in Indices
    BY <2>1, QueueOpsType
  <2>3. Len(Pop(q).items) = Len(q.items) - 1
    BY <2>1, QueueOpsPositions
  <2>4. Len(Pop(q).items) <= Capacity
    BY <2>1, <2>3, CapacityAssumption DEF QueueType
  <2> HIDE DEF q
  <2>5. /\ queue' = [queue EXCEPT ![t] = Pop(q)]
        /\ hand' = [hand EXCEPT ![t] = Head(q.items)]
        /\ pc' = [pc EXCEPT ![t] = next]
        /\ next \in {"push", "process", "write"}
    BY <1>4 DEF PopOne, Goto, q
  <2> HIDE DEF next
  <2>6. /\ queue' \in [Threads -> QueueType(Indices)]
        /\ \A u \in Threads : Len(queue'[u].items) <= Capacity
    BY <2>2, <2>4, <2>5 DEF TypeOK
  <2>7. /\ hand' \in [Threads -> Indices \cup {None}]
        /\ pc' \in [Threads -> {"idle", "check", "size", "pop", "process", "push", "write", "done"}]
        /\ \A u \in Threads : hand'[u] # None <=> pc'[u] \in {"process", "push", "write"}
    BY <1>1, <2>2, <2>5 DEF TypeOK
  <2> QED
    BY <1>0, <1>4, <2>6, <2>7 DEF PopOne, TypeOK, mainVars, fpVars
<1>5. ASSUME NEW t \in Threads, PopNothing(t)
      PROVE  TypeOK'
  BY <1>0, <1>5 DEF PopNothing, Goto, TypeOK, mainVars, fpVars
<1>6. ASSUME NEW w \in Workers, HandOn(w)
      PROVE  TypeOK'
  <2> DEFINE t == Target(w, hand[w])
             q == queue[t]
  <2>1. w \in Threads /\ hand[w] \in Indices
    BY <1>6, ThreadNumbers DEF HandOn, TypeOK
  <2>2. t \in Threads
    BY <2>1, Routing, ThreadNumbers DEF Inputs, Workers, Threads
  <2> HIDE DEF t
  <2>3. /\ PushReady(q, Capacity) /\ q \in QueueType(Indices) /\ Len(q.items) <= Capacity
        /\ queue' = [queue EXCEPT ![t] = Push(q, hand[w])]
        /\ hand' = [hand EXCEPT ![w] = None]
        /\ pc' = [pc EXCEPT ![w] = "check"]
    BY <1>6, <2>2 DEF HandOn, Goto, TypeOK, t
  <2>4. Push(q, hand[w]) \in QueueType(Indices) /\ Len(Push(q, hand[w]).items) <= Capacity
    BY <2>1, <2>3, PushFits
  <2> HIDE DEF q
  <2>5. /\ queue' \in [Threads -> QueueType(Indices)]
        /\ \A u \in Threads : Len(queue'[u].items) <= Capacity
    BY <2>2, <2>3, <2>4 DEF TypeOK
  <2>6. /\ hand' \in [Threads -> Indices \cup {None}]
        /\ pc' \in [Threads -> {"idle", "check", "size", "pop", "process", "push", "write", "done"}]
        /\ \A u \in Threads : hand'[u] # None <=> pc'[u] \in {"process", "push", "write"}
    BY <2>1, <2>3 DEF TypeOK
  <2> QED
    BY <1>0, <1>6, <2>5, <2>6 DEF HandOn, TypeOK, mainVars, fpVars
<1>7. ASSUME NEW f \in FPs, Process(f)
      PROVE  TypeOK'
  <2> DEFINE p    == capture[hand[f]]
             flow == FlowAfter(f, p)
  <2>1. f \in Threads /\ hand[f] \in Indices
    BY <1>7 DEF Process, TypeOK, Threads, Workers
  <2>2. p \in PacketType
    BY <2>1, CapturedPackets DEF Inputs, Indices
  <2>3. flow \in FlowType
    BY <2>2, FlowAfterType DEF TypeOK
  <2> HIDE DEF p, flow
  <2>4. /\ flows' = [flows EXCEPT ![f] = WithFlow(flows[f], p.tuple, flow)]
        /\ UNCHANGED <<input, mainVars, queue, running, file>>
        /\ \/ /\ stats' = [stats EXCEPT !.dropped = @ + 1]
              /\ hand' = [hand EXCEPT ![f] = None]
              /\ pc' = [pc EXCEPT ![f] = "check"]
           \/ /\ stats' = [stats EXCEPT !.forwarded = @ + 1]
              /\ pc' = [pc EXCEPT ![f] = "push"]
              /\ hand' = hand
    BY <1>7 DEF Process, Goto, p, flow
  <2>5. \A t \in DOMAIN WithFlow(flows[f], p.tuple, flow) :
          WithFlow(flows[f], p.tuple, flow)[t] \in FlowType
    BY <2>3 DEF WithFlow, TypeOK
  <2>6. \A g \in FPs : flows'[g] = IF g = f THEN WithFlow(flows[f], p.tuple, flow) ELSE flows[g]
    BY <2>4
  <2>7. \A g \in FPs : \A t \in DOMAIN flows'[g] : flows'[g][t] \in FlowType
    BY <2>5, <2>6 DEF TypeOK
  <2>8. stats' \in [forwarded : Nat, dropped : Nat]
    BY <2>4 DEF TypeOK
  <2>9. /\ hand' \in [Threads -> Indices \cup {None}]
        /\ pc' \in [Threads -> {"idle", "check", "size", "pop", "process", "push", "write", "done"}]
        /\ \A u \in Threads : hand'[u] # None <=> pc'[u] \in {"process", "push", "write"}
    BY <1>1, <2>1, <2>4 DEF TypeOK
  <2> QED
    BY <1>0, <2>4, <2>7, <2>8, <2>9 DEF TypeOK, mainVars
<1>8. ASSUME Write
      PROVE  TypeOK'
  <2>1. hand[Out] \in Indices
    BY <1>8, ThreadNumbers DEF Write, TypeOK
  <2>2. file' \in Seq(Indices \cup {Header})
    BY <1>8, <2>1 DEF Write, TypeOK
  <2>3. /\ hand' \in [Threads -> Indices \cup {None}]
        /\ pc' \in [Threads -> {"idle", "check", "size", "pop", "process", "push", "write", "done"}]
        /\ \A u \in Threads : hand'[u] # None <=> pc'[u] \in {"process", "push", "write"}
    BY <1>8, ThreadNumbers DEF Write, Goto, TypeOK
  <2> QED
    BY <1>0, <1>8, <2>2, <2>3 DEF Write, TypeOK, mainVars, fpVars
<1> QED
  BY <1>2, <1>3, <1>4, <1>5, <1>6, <1>7, <1>8, ThreadNumbers
  DEF Worker, FP, Output, Workers, Threads

\* What the main thread has read stays a packet until it is pushed.
LEMMA InputsStep ==
  ASSUME TInv, [Next]_vars
  PROVE  Inputs'
<1>1. capture' \in Captures
  BY SameCapture DEF TInv, Inputs
<1>2. ASSUME mainPc' = "push" PROVE readPos' \in Indices'
  <2>1. CASE Read
    <3>1. readPos' = readPos + 1 /\ HasFlow(capture[readPos + 1]) /\ readPos < Len(capture)
      BY <1>2, <2>1 DEF Read, MainGoto
    <3>2. readPos + 1 \in DOMAIN capture
      BY <3>1, CapturedPackets DEF TInv, TypeOK, Inputs
    <3> QED BY <3>1, <3>2, SameCapture DEF Indices
  <2>2. CASE ~Read
    <3>1. mainPc = "push" /\ readPos' = readPos
      BY <1>2, <2>2
      DEF Next, Main, OpenInput, OpenOutput, StartWorker, StartOutput, Dispatch, FlagWorker,
          ShutWorker, JoinWorker, FlagOutput, ShutOutput, JoinOutput, Worker, FP, Output, Check,
          OutputSize, PopOne, PopNothing, Process, HandOn, Write, Terminating, MainGoto, mainVars,
          vars
    <3> QED BY <3>1, SameCapture DEF TInv, Inputs
  <2> QED BY <2>1, <2>2
<1> QED BY <1>1, <1>2 DEF Inputs

\* No step lets a thread do the work of another kind.
LEMMA RolesStep ==
  ASSUME TInv, [Next]_vars
  PROVE  Roles'
<1> USE DEF TInv
<1>0. /\ Out \notin LBs /\ Out \notin FPs /\ LBs \cap FPs = {}
      /\ LBs \subseteq Threads /\ FPs \subseteq Threads /\ Out \in Threads
  BY ThreadNumbers DEF Workers
<1>1. CASE Main
  <2>1. pc' = pc \/ \E t : pc' = [pc EXCEPT ![t] = "check"]
    BY <1>1 DEF Main, OpenInput, OpenOutput, StartWorker, StartOutput, Read, Dispatch, FlagWorker,
                ShutWorker, JoinWorker, FlagOutput, ShutOutput, JoinOutput, workVars
  <2> QED BY <1>0, <2>1 DEF Roles, TypeOK
<1>2. ASSUME NEW t \in Threads, Check(t) \/ PopNothing(t)
      PROVE  Roles'
  BY <1>0, <1>2 DEF Check, PopNothing, Goto, Roles, TypeOK
<1>3. ASSUME NEW t \in Threads, PopOne(t)
      PROVE  Roles'
  <2>1. t \notin LBs /\ t \notin FPs => t = Out
    BY DEF Threads, Workers
  <2>2. pc' = [pc EXCEPT ![t] = IF t \in LBs THEN "push" ELSE IF t \in FPs THEN "process"
                                ELSE "write"]
    BY <1>3 DEF PopOne, Goto
  <2> QED BY <1>0, <2>1, <2>2 DEF Roles, TypeOK
<1>4. CASE OutputSize \/ Write
  BY <1>0, <1>4 DEF OutputSize, Write, Goto, Roles, TypeOK
<1>5. ASSUME NEW w \in Workers, HandOn(w)
      PROVE  Roles'
  BY <1>0, <1>5 DEF HandOn, Goto, Roles, TypeOK
<1>6. ASSUME NEW f \in FPs, Process(f)
      PROVE  Roles'
  <2>1. pc' = [pc EXCEPT ![f] = "check"] \/ pc' = [pc EXCEPT ![f] = "push"]
    BY <1>6 DEF Process, Goto
  <2> QED BY <1>0, <2>1 DEF Roles, TypeOK
<1>7. CASE Terminating \/ UNCHANGED vars
  BY <1>7 DEF Terminating, Roles, vars, workVars
<1> QED
  BY <1>0, <1>1, <1>2, <1>3, <1>4, <1>5, <1>6, <1>7
  DEF Next, Worker, FP, Output, Workers

\* Until the main thread reads, the threads it has started find nothing.
LEMMA QuietStep ==
  ASSUME TInv, [Next]_vars
  PROVE  QuietStart'
<1> USE DEF TInv
<1> SUFFICES ASSUME BeforeRead' PROVE QuietStart'
  BY DEF QuietStart
<1>0. Out \in Threads /\ \A w \in Workers : w \in Threads
  BY ThreadNumbers
<1>1. CASE Main
  <2>1. BeforeRead
    BY <1>1 DEF Main, OpenInput, OpenOutput, StartWorker, StartOutput, Read, Dispatch, FlagWorker,
                ShutWorker, JoinWorker, FlagOutput, ShutOutput, JoinOutput, MainGoto, BeforeRead
  <2>2. UNCHANGED <<readPos, hand, queue, stats>>
    BY <1>1, <2>1
    DEF Main, OpenInput, OpenOutput, StartWorker, StartOutput, Read, Dispatch, FlagWorker,
        ShutWorker, JoinWorker, FlagOutput, ShutOutput, JoinOutput, BeforeRead, workVars, fpVars
  <2> QED BY <2>1, <2>2 DEF QuietStart
<1>2. CASE \/ \E w \in LBs : Worker(w)
           \/ \E f \in FPs : FP(f)
           \/ Output
  <2>1. UNCHANGED mainVars
    BY <1>2 DEF Worker, FP, Output, Check, OutputSize, PopOne, PopNothing, Process, HandOn, Write
  <2>2. BeforeRead
    BY <2>1 DEF BeforeRead, mainVars
  <2>3. /\ readPos = 0 /\ stats.forwarded = 0 /\ stats.dropped = 0
        /\ \A t \in Threads : /\ hand[t] = None /\ queue[t] = NewQueue
                              /\ pc[t] \notin {"process", "push", "write"}
    BY <2>2 DEF QuietStart, TypeOK
  <2>4. \A t \in Threads : IsEmpty(queue[t])
    BY <2>3 DEF NewQueue, IsEmpty
  <2>5. UNCHANGED <<hand, queue, stats>>
    BY <1>0, <1>2, <2>3, <2>4
    DEF Worker, FP, Output, Check, OutputSize, PopOne, PopNothing, Process, HandOn, Write, fpVars,
        Workers
  <2> QED BY <2>1, <2>3, <2>5 DEF QuietStart, mainVars
<1>3. CASE Terminating \/ UNCHANGED vars
  BY <1>3 DEF Terminating, QuietStart, BeforeRead, vars, mainVars, workVars, fpVars
<1> QED BY <1>1, <1>2, <1>3 DEF Next

\* The invariant of the types is inductive.
LEMMA TInvStep == TInv /\ [Next]_vars => TInv'
<1> SUFFICES ASSUME TInv, [Next]_vars PROVE TInv'
  OBVIOUS
<1>1. TypeOK'
  <2>1. CASE Terminating \/ UNCHANGED vars
    BY <2>1, SameCapture
    DEF Terminating, TInv, TypeOK, vars, input, mainVars, workVars, fpVars
  <2> QED BY <2>1, TypeMain, TypeWorkers DEF Next
<1>2. flows' = [f \in FPs |-> flows'[f]]
  <2>1. flows = [f \in FPs |-> flows[f]]
    BY DEF TInv
  <2>2. flows' = flows \/ \E f \in FPs : Process(f)
    BY DEF Next, Main, OpenInput, OpenOutput, StartWorker, StartOutput, Read, Dispatch, FlagWorker,
           ShutWorker, JoinWorker, FlagOutput, ShutOutput, JoinOutput, Worker, FP, Output, Check,
           OutputSize, PopOne, PopNothing, HandOn, Write, Terminating, fpVars, vars
  <2>3. ASSUME NEW f \in FPs, Process(f)
        PROVE  flows' = [g \in FPs |-> flows'[g]]
    <3>1. PICK value : flows' = [flows EXCEPT ![f] = value]
      BY <2>3 DEF Process
    <3> QED BY <2>1, <3>1
  <2> QED BY <2>1, <2>2, <2>3
<1> QED BY <1>1, <1>2, InputsStep, RolesStep, QuietStep DEF TInv

\* In every state of every run the variables have their types, no queue holds more
\* than Capacity packets, and exactly the threads about to use a packet hold one
\* (TSQueue::push waits for room; run() and the output thread of dpi_mt.cpp).
THEOREM TypeCorrect == Spec => []TypeOK
<1>1. TInv => TypeOK
  BY DEF TInv
<1> QED BY InitTInv, TInvStep, <1>1, PTL DEF Spec

-----------------------------------------------------------------------------
(***************************************************************************)
(* The order of the stop.  Every worker is joined before those it pushes to *)
(* are shut down, and the output thread is told to stop when all have ended *)
(* and leaves only with its queue empty: so no push of a packet that was    *)
(* let through is lost, and none is left unwritten.                         *)
(***************************************************************************)

Stopping    == mainPc \in {"flagWorker", "shutWorker", "joinWorker"}
OutputTold  == mainPc \in {"shutOutput", "joinOutput", "returnTrue"}
Joined(w)   == mainPc = "flagOutput" \/ OutputTold \/ (Stopping /\ w < mainIdx)
ShutDown(w) == Joined(w) \/ (mainPc = "joinWorker" /\ w = mainIdx)

StopOrder ==
  /\ \A w \in Workers : /\ Joined(w) => pc[w] = "done"
                        /\ queue[w].shut => ShutDown(w)
  /\ queue[Out].shut => OutputTold
  /\ pc[Out] # "idle" /\ ~running[Out] => OutputTold
  /\ pc[Out] \in {"size", "done"} => OutputTold
  /\ pc[Out] = "done" => IsEmpty(queue[Out])
  /\ mainPc = "returnTrue" => pc[Out] = "done"

SInv == TInv /\ StopOrder

\* Nobody pushes to a queue that is shut down.
LEMMA PushOpen ==
  ASSUME SInv
  PROVE  /\ mainPc = "push" => /\ readPos \in Indices /\ LBOf(readPos) \in LBs
                               /\ ~queue[LBOf(readPos)].shut
         /\ \A l \in LBs : pc[l] = "push" =>
              /\ hand[l] \in Indices /\ Target(l, hand[l]) \in FPs
              /\ ~queue[Target(l, hand[l])].shut
         /\ \A f \in FPs : pc[f] = "push" =>
              /\ hand[f] \in Indices /\ Target(f, hand[f]) = Out
              /\ ~queue[Out].shut /\ ~OutputTold
<1> USE DEF SInv, TInv
<1>0. mainIdx \in Nat /\ \A w \in Workers : w \in Nat
  BY ThreadNumbers DEF TypeOK
<1>1. ASSUME mainPc = "push"
      PROVE  readPos \in Indices /\ LBOf(readPos) \in LBs /\ ~queue[LBOf(readPos)].shut
  <2>1. readPos \in Indices /\ LBOf(readPos) \in LBs
    BY <1>1, Routing DEF Inputs
  <2>2. ~ShutDown(LBOf(readPos))
    BY <1>1 DEF ShutDown, Joined, OutputTold, Stopping
  <2> QED BY <2>1, <2>2 DEF StopOrder, Workers
<1>2. ASSUME NEW w \in Workers, pc[w] = "push"
      PROVE  hand[w] \in Indices /\ ~Joined(w)
  <2>1. hand[w] \in Indices
    BY <1>2, ThreadNumbers DEF TypeOK
  <2> QED BY <1>2, <2>1 DEF StopOrder
<1>3. ASSUME NEW l \in LBs, pc[l] = "push"
      PROVE  /\ hand[l] \in Indices /\ Target(l, hand[l]) \in FPs
             /\ ~queue[Target(l, hand[l])].shut
  <2> DEFINE f == Target(l, hand[l])
  <2>1. l \in Workers /\ hand[l] \in Indices /\ ~Joined(l)
    BY <1>2, <1>3 DEF Workers
  <2>2. f \in FPs /\ f \in Workers
    BY <2>1, Routing DEF Inputs, Workers
  <2> HIDE DEF f
  <2>3. l < f
    BY <2>2, ThreadNumbers
  <2>4. ~ShutDown(f)
    BY <1>0, <2>1, <2>2, <2>3 DEF ShutDown, Joined, Stopping
  <2> QED BY <2>1, <2>2, <2>4 DEF StopOrder, f
<1>4. ASSUME NEW f \in FPs, pc[f] = "push"
      PROVE  /\ hand[f] \in Indices /\ Target(f, hand[f]) = Out
             /\ ~queue[Out].shut /\ ~OutputTold
  <2>1. f \in Workers /\ hand[f] \in Indices /\ ~Joined(f)
    BY <1>2, <1>4 DEF Workers
  <2> QED BY <2>1, Routing DEF Inputs, StopOrder, Joined
<1> QED BY <1>1, <1>3, <1>4

\* The main thread's steps keep the order.
LEMMA StopOrderMain ==
  ASSUME SInv, Main
  PROVE  StopOrder'
<1> USE DEF SInv, TInv
<1>0. /\ mainIdx \in Nat /\ mainIdx \in Workers /\ \A w \in Workers : w \in Nat /\ w \in Threads
      /\ Out \in Threads /\ Out \notin Workers
  BY ThreadNumbers DEF TypeOK
<1>1. CASE OpenInput \/ OpenOutput \/ Read
  <2>1. ~OutputTold' /\ \A w \in Workers : ~Joined(w)'
    BY <1>0, <1>1 DEF OpenInput, OpenOutput, Read, MainGoto, OutputTold, Joined, Stopping
  <2>2. \A w \in Workers : ~ShutDown(w)
    BY <1>1 DEF OpenInput, OpenOutput, Read, ShutDown, OutputTold, Joined, Stopping
  <2>3. UNCHANGED <<pc, queue, running>> /\ ~OutputTold /\ mainPc' # "returnTrue"
    BY <1>1
    DEF OpenInput, OpenOutput, Read, OutputTold, MainGoto, workVars
  <2> QED BY <2>1, <2>2, <2>3 DEF StopOrder
<1>2. CASE StartWorker
  <2>1. \A t \in Threads : queue[t] = NewQueue
    BY <1>2 DEF StartWorker, QuietStart, BeforeRead
  <2>2. ~OutputTold' /\ ~OutputTold /\ \A w \in Workers : ~Joined(w)'
    BY <1>2 DEF StartWorker, MainGoto, OutputTold, Joined, Stopping
  <2>3. pc'[Out] = pc[Out] /\ running'[Out] = running[Out] /\ queue' = queue
    BY <1>0, <1>2 DEF StartWorker, TypeOK
  <2>4. mainPc' # "returnTrue"
    BY <1>2 DEF StartWorker, MainGoto
  <2> QED BY <1>0, <2>1, <2>2, <2>3, <2>4 DEF StopOrder, NewQueue
<1>3. CASE StartOutput
  <2>1. \A t \in Threads : queue[t] = NewQueue
    BY <1>3 DEF StartOutput, QuietStart, BeforeRead
  <2>2. ~OutputTold' /\ \A w \in Workers : ~Joined(w)'
    BY <1>3 DEF StartOutput, MainGoto, OutputTold, Joined, Stopping
  <2>3. pc'[Out] = "check" /\ running'[Out] = TRUE /\ queue' = queue
    BY <1>0, <1>3 DEF StartOutput, TypeOK
  <2>4. mainPc' # "returnTrue"
    BY <1>3 DEF StartOutput, MainGoto
  <2> QED BY <1>0, <2>1, <2>2, <2>3, <2>4 DEF StopOrder, NewQueue
<1>4. CASE Dispatch
  <2>1. ~OutputTold /\ ~OutputTold' /\ \A w \in Workers : ~Joined(w)'
    BY <1>4 DEF Dispatch, MainGoto, OutputTold, Joined, Stopping
  <2>2. \A w \in Workers : ~ShutDown(w)
    BY <1>4 DEF Dispatch, ShutDown, OutputTold, Joined, Stopping
  <2>3. LBOf(readPos) \in LBs /\ ~queue[LBOf(readPos)].shut
    BY <1>4, PushOpen DEF Dispatch
  <2>4. \A t \in Threads : queue'[t].shut = queue[t].shut
    BY <1>4, <2>3 DEF Dispatch, Push, TypeOK, QueueType
  <2>5. UNCHANGED <<pc, running>> /\ mainPc' # "returnTrue" /\ queue'[Out] = queue[Out]
    BY <1>0, <1>4, <2>3, ThreadNumbers DEF Dispatch, MainGoto, TypeOK, Workers
  <2> QED BY <1>0, <2>1, <2>2, <2>4, <2>5 DEF StopOrder
<1>5. CASE FlagWorker
  <2>1. ~OutputTold /\ ~OutputTold' /\ mainPc' # "returnTrue"
    BY <1>5 DEF FlagWorker, MainGoto, OutputTold
  <2>2. \A w \in Workers : (Joined(w)' <=> Joined(w)) /\ (ShutDown(w) => ShutDown(w)')
    BY <1>5 DEF FlagWorker, MainGoto, OutputTold, Joined, Stopping, ShutDown
  <2>3. UNCHANGED <<pc, queue>> /\ running'[Out] = running[Out]
    BY <1>0, <1>5 DEF FlagWorker, TypeOK, workVars
  <2> QED BY <2>1, <2>2, <2>3 DEF StopOrder
<1>6. CASE ShutWorker
  <2>1. ~OutputTold /\ ~OutputTold' /\ mainPc' # "returnTrue"
    BY <1>6 DEF ShutWorker, MainGoto, OutputTold
  <2>2. \A w \in Workers : /\ Joined(w)' <=> Joined(w)
                           /\ ShutDown(w)' <=> ShutDown(w) \/ w = mainIdx
    BY <1>6 DEF ShutWorker, MainGoto, OutputTold, Joined, Stopping, ShutDown
  <2>3. /\ UNCHANGED <<pc, running>> /\ queue'[Out] = queue[Out]
        /\ \A w \in Workers : w # mainIdx => queue'[w] = queue[w]
    BY <1>0, <1>6 DEF ShutWorker, TypeOK
  <2> QED BY <2>1, <2>2, <2>3 DEF StopOrder
<1>7. CASE JoinWorker
  <2>1. ~OutputTold /\ ~OutputTold' /\ mainPc' # "returnTrue"
    BY <1>7 DEF JoinWorker, MainGoto, OutputTold
  <2>2. \A w \in Workers : Joined(w)' => Joined(w) \/ w = mainIdx
    <3>1. CASE mainIdx + 1 \in Workers
      BY <1>0, <1>7, <3>1 DEF JoinWorker, MainGoto, OutputTold, Joined, Stopping
    <3>2. CASE mainIdx + 1 \notin Workers
      <4>1. mainIdx = Out - 1
        BY <1>0, <3>2, ThreadNumbers
      <4> QED
        BY <1>0, <1>7, <4>1, ThreadNumbers DEF JoinWorker, Joined, Stopping
    <3> QED BY <3>1, <3>2
  <2>3. \A w \in Workers : ShutDown(w) => ShutDown(w)'
    BY <1>0, <1>7 DEF JoinWorker, MainGoto, OutputTold, Joined, Stopping, ShutDown
  <2>4. UNCHANGED <<pc, queue, running>> /\ pc[mainIdx] = "done"
    BY <1>7 DEF JoinWorker, workVars
  <2> QED BY <2>1, <2>2, <2>3, <2>4 DEF StopOrder
<1>8. CASE FlagOutput \/ ShutOutput \/ JoinOutput
  <2>1. OutputTold' /\ \A w \in Workers : Joined(w) /\ Joined(w)' /\ ShutDown(w)'
    BY <1>8 DEF FlagOutput, ShutOutput, JoinOutput, MainGoto, OutputTold, Joined, ShutDown
  <2>2. pc' = pc /\ \A t \in Threads : queue'[t].items = queue[t].items
    <3>1. pc' = pc /\ (queue' = queue \/ queue' = [queue EXCEPT ![Out] = Shutdown(@)])
      BY <1>8 DEF FlagOutput, ShutOutput, JoinOutput, workVars
    <3>2. Shutdown(queue[Out]).items = queue[Out].items
      BY <1>0 DEF TypeOK, QueueType, Shutdown
    <3> HIDE DEF Shutdown
    <3> QED BY <3>1, <3>2 DEF TypeOK
  <2>3. mainPc' = "returnTrue" => pc[Out] = "done"
    BY <1>8 DEF FlagOutput, ShutOutput, JoinOutput, MainGoto
  <2> QED BY <1>0, <2>1, <2>2, <2>3 DEF StopOrder, IsEmpty
<1> QED BY <1>1, <1>2, <1>3, <1>4, <1>5, <1>6, <1>7, <1>8 DEF Main

\* Nor do the steps of the other threads disturb it.
LEMMA StopOrderWorkers ==
  ASSUME SInv, \/ \E w \in LBs : Worker(w)
               \/ \E f \in FPs : FP(f)
               \/ Output
  PROVE  StopOrder'
<1> USE DEF SInv, TInv
<1>0. /\ \A w \in Workers : w \in Threads /\ w # Out
      /\ Out \in Threads /\ Out \notin LBs /\ Out \notin FPs
      /\ LBs \subseteq Workers /\ FPs \subseteq Workers
  BY ThreadNumbers DEF Workers
<1>1. UNCHANGED <<mainPc, mainIdx, running>>
  BY DEF Worker, FP, Output, Check, OutputSize, PopOne, PopNothing, Process, HandOn, Write, mainVars
<1>2. /\ OutputTold' = OutputTold
      /\ \A w \in Workers : Joined(w)' = Joined(w) /\ ShutDown(w)' = ShutDown(w)
  BY <1>1 DEF OutputTold, Joined, ShutDown, Stopping
<1> DEFINE Shuts == \A t \in Threads : queue'[t].shut = queue[t].shut
<1>3. ASSUME NEW w \in Workers, pc[w] # "done", \A t \in Threads \ {w} : pc'[t] = pc[t],
             Shuts, IsEmpty(queue[Out]) => IsEmpty(queue'[Out]) \/ ~OutputTold
      PROVE  StopOrder'
  BY <1>0, <1>1, <1>2, <1>3 DEF StopOrder
<1>4. ASSUME NEW w \in Workers, Check(w) \/ PopNothing(w)
      PROVE  StopOrder'
  <2>1. pc[w] # "done" /\ queue' = queue /\ \A t \in Threads \ {w} : pc'[t] = pc[t]
    BY <1>4 DEF Check, PopNothing, Goto, TypeOK
  <2> QED BY <1>3, <2>1
<1>5. ASSUME NEW w \in Workers, PopOne(w)
      PROVE  StopOrder'
  <2>1. pc[w] # "done" /\ queue'[Out] = queue[Out] /\ \A t \in Threads \ {w} : pc'[t] = pc[t]
    BY <1>0, <1>5 DEF PopOne, Goto, TypeOK
  <2>2. Shuts
    BY <1>5 DEF PopOne, Pop, TypeOK, QueueType
  <2> QED BY <1>3, <2>1, <2>2
<1>6. ASSUME NEW f \in FPs, Process(f)
      PROVE  StopOrder'
  <2>1. pc[f] # "done" /\ queue' = queue /\ \A t \in Threads \ {f} : pc'[t] = pc[t]
    BY <1>6 DEF Process, Goto, TypeOK
  <2> QED BY <1>0, <1>3, <2>1
<1>7. ASSUME NEW w \in Workers, HandOn(w)
      PROVE  StopOrder'
  <2> DEFINE t == Target(w, hand[w])
  <2>1. /\ t \in Threads /\ ~queue[t].shut
        /\ t = Out => ~OutputTold
    BY <1>0, <1>7, PushOpen DEF HandOn, Workers
  <2> HIDE DEF t
  <2>2. queue' = [queue EXCEPT ![t] = Push(@, hand[w])]
    BY <1>7 DEF HandOn, t
  <2>3. Shuts
    BY <2>1, <2>2 DEF Push, TypeOK, QueueType
  <2>4. t # Out => queue'[Out] = queue[Out]
    BY <1>0, <2>2 DEF TypeOK
  <2>5. pc[w] # "done" /\ \A u \in Threads \ {w} : pc'[u] = pc[u]
    BY <1>7 DEF HandOn, Goto, TypeOK
  <2> QED BY <1>3, <2>1, <2>3, <2>4, <2>5
<1>8. CASE Output
  <2>1. \A w \in Workers : pc'[w] = pc[w] /\ queue'[w] = queue[w]
    BY <1>0, <1>8 DEF Output, Check, OutputSize, PopOne, PopNothing, Write, Goto, TypeOK
  <2>2. queue'[Out].shut = queue[Out].shut
    BY <1>0, <1>8 DEF Output, Check, OutputSize, PopOne, PopNothing, Write, Pop, TypeOK, QueueType
  <2>3. pc[Out] # "done" /\ pc[Out] # "idle"
    BY <1>8 DEF Output, Check, OutputSize, PopOne, PopNothing, Write
  <2>4. /\ pc'[Out] \in {"size", "done"} => OutputTold
        /\ pc'[Out] = "done" => IsEmpty(queue'[Out])
    <3>1. CASE Check(Out)
      <4>1. pc'[Out] = IF running[Out] THEN "pop" ELSE "size"
        BY <1>0, <3>1 DEF Check, Goto, TypeOK
      <4>2. ~running[Out] => OutputTold
        BY <2>3 DEF StopOrder
      <4> QED BY <4>1, <4>2
    <3>2. CASE OutputSize
      BY <1>0, <3>2 DEF OutputSize, Goto, TypeOK, StopOrder
    <3>3. CASE PopOne(Out)
      <4>1. pc'[Out] = "write"
        BY <1>0, <3>3 DEF PopOne, Goto, TypeOK
      <4> QED BY <4>1
    <3>4. CASE PopNothing(Out) \/ Write
      <4>1. pc'[Out] = "check"
        BY <1>0, <3>4 DEF PopNothing, Write, Goto, TypeOK
      <4> QED BY <4>1
    <3> QED BY <1>8, <3>1, <3>2, <3>3, <3>4 DEF Output
  <2> QED BY <1>1, <1>2, <2>1, <2>2, <2>3, <2>4 DEF StopOrder
<1> QED
  BY <1>0, <1>4, <1>5, <1>6, <1>7, <1>8 DEF Worker, FP

\* The invariant of the stop is inductive.
LEMMA SInvStep == SInv /\ [Next]_vars => SInv'
<1> SUFFICES ASSUME SInv, [Next]_vars PROVE SInv'
  OBVIOUS
<1>1. CASE Terminating \/ UNCHANGED vars
  BY <1>1, TInvStep
  DEF Terminating, SInv, StopOrder, OutputTold, Joined, ShutDown, Stopping, vars, mainVars, workVars
<1>2. CASE ~(Terminating \/ UNCHANGED vars)
  BY <1>2, TInvStep, StopOrderMain, StopOrderWorkers DEF SInv, Next
<1> QED BY <1>1, <1>2

\* Nothing is shut down at the start.
LEMMA InitSInv == Init => SInv
<1> SUFFICES ASSUME Init PROVE SInv
  OBVIOUS
<1>1. /\ ~OutputTold /\ mainPc # "returnTrue"
      /\ \A w \in Workers : ~Joined(w) /\ w \in Threads
      /\ Out \in Threads
  BY ThreadNumbers DEF Init, OutputTold, Joined, Stopping
<1>2. \A t \in Threads : pc[t] = "idle" /\ ~queue[t].shut
  BY DEF Init, NewQueue
<1> QED BY <1>1, <1>2, InitTInv DEF SInv, StopOrder

-----------------------------------------------------------------------------
(***************************************************************************)
(* Where the packets counted as forwarded are: each is with the FP that     *)
(* pushes it, in the output queue, with the output thread or in the file.   *)
(***************************************************************************)

Unopened == mainPc \in {"openInput", "openOutput", "returnFalse"}
Pushing  == {f \in FPs : pc[f] = "push"}
InOutput == IF hand[Out] # None THEN 1 ELSE 0

Placed   == Cardinality(Pushing) + Len(queue[Out].items) + InOutput + Len(file)

CountInv ==
  IF Unopened THEN file = <<>> /\ \A t \in Threads : pc[t] = "idle"
  ELSE /\ file # <<>> /\ file[1] = Header
       /\ stats.forwarded + 1 = Placed

\* The summands are numbers.
LEMMA Summands ==
  ASSUME TypeOK
  PROVE  /\ stats.forwarded \in Nat /\ InOutput \in Nat /\ Len(file) \in Nat
         /\ Len(queue[Out].items) \in Nat
         /\ IsFiniteSet(Pushing) /\ Cardinality(Pushing) \in Nat
<1>1. queue[Out] \in QueueType(Indices)
  BY ThreadNumbers DEF TypeOK
<1>2. Len(queue[Out].items) \in Nat /\ Len(file) \in Nat /\ stats.forwarded \in Nat
  BY <1>1 DEF TypeOK, QueueType
<1>3. IsFiniteSet(FPs)
  <2>1. NumLBs \in Int /\ NumLBs * FPsPerLB \in Int
    BY ThreadsAssumption
  <2> QED BY <2>1, FS_Interval DEF FPs
<1>4. IsFiniteSet(Pushing)
  BY <1>3, FS_Subset DEF Pushing
<1> QED BY <1>2, <1>4, FS_CardinalityType DEF InOutput

\* An FP that begins or ends a push counts for one.
LEMMA PushingMoves ==
  ASSUME TypeOK, NEW f \in FPs, NEW to, pc' = [pc EXCEPT ![f] = to]
  PROVE  /\ pc[f] # "push" /\ to = "push" => Cardinality(Pushing') = Cardinality(Pushing) + 1
         /\ pc[f] = "push" /\ to # "push" => Cardinality(Pushing') = Cardinality(Pushing) - 1
         /\ pc[f] # "push" /\ to # "push" => Pushing' = Pushing
<1>1. FPs \subseteq Threads
  BY DEF Threads, Workers
<1>2. \A g \in FPs : pc'[g] = IF g = f THEN to ELSE pc[g]
  BY <1>1 DEF TypeOK
<1>3. IsFiniteSet(Pushing)
  BY Summands
<1>4. ASSUME pc[f] # "push", to = "push"
      PROVE  Cardinality(Pushing') = Cardinality(Pushing) + 1
  <2>1. Pushing' = Pushing \cup {f} /\ f \notin Pushing
    BY <1>2, <1>4 DEF Pushing
  <2> QED BY <1>3, <2>1, FS_AddElement
<1>5. ASSUME pc[f] = "push", to # "push"
      PROVE  Cardinality(Pushing') = Cardinality(Pushing) - 1
  <2>1. Pushing' = Pushing \ {f} /\ f \in Pushing
    BY <1>2, <1>5 DEF Pushing
  <2> QED BY <1>3, <2>1, FS_RemoveElement
<1>6. ASSUME pc[f] # "push", to # "push"
      PROVE  Pushing' = Pushing
  BY <1>2, <1>6 DEF Pushing
<1> QED BY <1>4, <1>5, <1>6

\* Steps of no FP leave the FPs that push as they are.
LEMMA SamePushing ==
  ASSUME \A f \in FPs : pc'[f] = "push" <=> pc[f] = "push"
  PROVE  Pushing' = Pushing
BY DEF Pushing

\* The main thread's steps keep the count.
LEMMA CountMain ==
  ASSUME SInv, CountInv, Main
  PROVE  CountInv'
<1> USE DEF SInv, TInv
<1>0. /\ Out \in Threads /\ FPs \subseteq Threads /\ \A l \in LBs : l \in Threads /\ l # Out
  BY ThreadNumbers DEF Threads, Workers
<1>1. CASE OpenInput
  BY <1>1 DEF OpenInput, CountInv, Unopened, workVars
<1>2. CASE OpenOutput
  <2>1. /\ stats.forwarded = 0 /\ hand[Out] = None /\ queue[Out] = NewQueue
        /\ \A t \in Threads : pc[t] # "push"
    BY <1>0, <1>2 DEF OpenOutput, QuietStart, BeforeRead, TypeOK
  <2>2. Pushing = {}
    BY <1>0, <2>1 DEF Pushing
  <2>3. UNCHANGED <<pc, hand, queue, stats>> /\ Pushing' = Pushing
    BY <1>2 DEF OpenOutput, workVars, fpVars, Pushing
  <2>4. CASE mainPc' = "returnFalse"
    BY <1>2, <2>4 DEF OpenOutput, MainGoto, CountInv, Unopened, workVars
  <2>5. CASE mainPc' = "startWorker"
    <3>1. file' = <<Header>> /\ ~Unopened'
      BY <1>2, <2>5 DEF OpenOutput, MainGoto, Unopened
    <3>2. Cardinality({}) = 0
      BY FS_EmptySet
    <3>3. Len(queue[Out].items) = 0 /\ InOutput' = 0
      BY <2>1, <2>3 DEF NewQueue, InOutput
    <3>4. stats'.forwarded + 1 = Placed'
      BY <2>1, <2>2, <2>3, <3>1, <3>2, <3>3 DEF Placed
    <3> QED BY <3>1, <3>4 DEF CountInv
  <2> QED BY <1>2, <2>4, <2>5 DEF OpenOutput, MainGoto
<1>3. CASE ~OpenInput /\ ~OpenOutput
  <2>1. ~Unopened /\ ~Unopened'
    BY <1>3 DEF Main, StartWorker, StartOutput, Read, Dispatch, FlagWorker, ShutWorker, JoinWorker,
                FlagOutput, ShutOutput, JoinOutput, MainGoto, Unopened
  <2>2. UNCHANGED <<hand, file, stats>>
    BY <1>3 DEF Main, StartWorker, StartOutput, Read, Dispatch, FlagWorker, ShutWorker, JoinWorker,
                FlagOutput, ShutOutput, JoinOutput, workVars, fpVars
  <2>3. \A f \in FPs : pc'[f] = "push" <=> pc[f] = "push"
    <3>1. CASE StartWorker \/ StartOutput
      <4>1. \A t \in Threads : pc[t] # "push"
        BY <3>1 DEF StartWorker, StartOutput, QuietStart, BeforeRead, TypeOK
      <4> QED BY <1>0, <3>1, <4>1 DEF StartWorker, StartOutput, TypeOK
    <3>2. CASE ~StartWorker /\ ~StartOutput
      BY <1>3, <3>2
      DEF Main, Read, Dispatch, FlagWorker, ShutWorker, JoinWorker, FlagOutput, ShutOutput,
          JoinOutput, workVars
    <3> QED BY <3>1, <3>2
  <2>4. queue'[Out].items = queue[Out].items
    <3>1. CASE Dispatch
      <4>1. LBOf(readPos) \in LBs
        BY <3>1, PushOpen DEF Dispatch
      <4> QED BY <1>0, <3>1, <4>1 DEF Dispatch, TypeOK
    <3>2. CASE ShutWorker
      BY <1>0, <3>2, ThreadNumbers DEF ShutWorker, TypeOK
    <3>3. CASE ShutOutput
      BY <1>0, <3>3 DEF ShutOutput, Shutdown, TypeOK, QueueType
    <3>4. CASE ~Dispatch /\ ~ShutWorker /\ ~ShutOutput
      BY <1>3, <3>4
      DEF Main, StartWorker, StartOutput, Read, FlagWorker, JoinWorker, FlagOutput, JoinOutput,
          workVars
    <3> QED BY <3>1, <3>2, <3>3, <3>4
  <2>5. Pushing' = Pushing /\ InOutput' = InOutput
    BY <2>2, <2>3, SamePushing DEF InOutput
  <2>6. Placed' = Placed
    BY <2>2, <2>4, <2>5 DEF Placed
  <2> QED BY <2>1, <2>2, <2>6 DEF CountInv
<1> QED BY <1>1, <1>2, <1>3

\* The steps of the other threads keep it, too.
LEMMA CountWorkers ==
  ASSUME SInv, CountInv, \/ \E w \in LBs : Worker(w)
                         \/ \E f \in FPs : FP(f)
                         \/ Output
  PROVE  CountInv'
<1> USE DEF SInv, TInv
<1>0. /\ Out \in Threads /\ FPs \subseteq Threads /\ LBs \subseteq Threads
      /\ Out \notin FPs /\ Out \notin LBs /\ LBs \cap FPs = {}
  BY ThreadNumbers DEF Threads, Workers
<1>1. ~Unopened /\ ~Unopened'
  <2>1. mainPc' = mainPc
    BY DEF Worker, FP, Output, Check, OutputSize, PopOne, PopNothing, Process, HandOn, Write, mainVars
  <2>2. \E t \in Threads : pc[t] # "idle"
    BY <1>0
    DEF Worker, FP, Output, Check, OutputSize, PopOne, PopNothing, Process, HandOn, Write
  <2> QED BY <2>1, <2>2 DEF CountInv, Unopened
<1>11. file # <<>> /\ file[1] = Header /\ stats.forwarded + 1 = Placed
  BY <1>1 DEF CountInv
<1>12. ASSUME file' # <<>>, file'[1] = Header, stats'.forwarded + 1 = Placed'
       PROVE  CountInv'
  BY <1>1, <1>12 DEF CountInv
<1>2. ASSUME Pushing' = Pushing, queue'[Out] = queue[Out], hand'[Out] = hand[Out],
             UNCHANGED <<stats.forwarded, file>>
      PROVE  CountInv'
  <2>1. InOutput' = InOutput
    BY <1>2 DEF InOutput
  <2>2. Placed' = Placed
    BY <1>2, <2>1 DEF Placed
  <2> QED BY <1>2, <1>11, <1>12, <2>2
<1>3. ASSUME NEW t \in Threads, Check(t) \/ PopNothing(t)
      PROVE  CountInv'
  <2>1. \A f \in FPs : pc'[f] = "push" <=> pc[f] = "push"
    BY <1>0, <1>3 DEF Check, PopNothing, Goto, TypeOK
  <2> QED BY <1>2, <1>3, <2>1, SamePushing DEF Check, PopNothing, fpVars
<1>4. ASSUME NEW w \in Workers, PopOne(w)
      PROVE  CountInv'
  <2>1. w \in Threads /\ w # Out
    BY ThreadNumbers
  <2>2. \A f \in FPs : pc'[f] = "push" <=> pc[f] = "push"
    BY <1>0, <1>4 DEF PopOne, Goto, TypeOK
  <2>3. queue'[Out] = queue[Out] /\ hand'[Out] = hand[Out]
    BY <1>0, <1>4, <2>1 DEF PopOne, TypeOK
  <2> QED BY <1>2, <1>4, <2>2, <2>3, SamePushing DEF PopOne, fpVars
<1>5. ASSUME NEW l \in LBs, HandOn(l)
      PROVE  CountInv'
  <2>1. l \in Threads /\ l # Out /\ Target(l, hand[l]) \in FPs
    BY <1>0, <1>5, PushOpen DEF HandOn
  <2>2. \A f \in FPs : pc'[f] = pc[f]
    BY <1>0, <1>5 DEF HandOn, Goto, TypeOK
  <2>3. queue'[Out] = queue[Out] /\ hand'[Out] = hand[Out]
    BY <1>0, <1>5, <2>1 DEF HandOn, TypeOK
  <2> QED BY <1>2, <1>5, <2>2, <2>3, SamePushing DEF HandOn, fpVars
<1>6. ASSUME NEW f \in FPs, HandOn(f)
      PROVE  CountInv'
  <2>1. /\ pc[f] = "push" /\ pc' = [pc EXCEPT ![f] = "check"] /\ hand'[Out] = hand[Out]
        /\ UNCHANGED <<stats, file>>
    BY <1>0, <1>6 DEF HandOn, Goto, TypeOK, fpVars
  <2>2. hand[f] \in Indices /\ Target(f, hand[f]) = Out /\ ~queue[Out].shut
    BY <2>1, PushOpen
  <2>3. queue'[Out] = Push(queue[Out], hand[f]) /\ queue[Out] \in QueueType(Indices)
    BY <1>0, <1>6, <2>2 DEF HandOn, TypeOK
  <2>4. Len(queue'[Out].items) = Len(queue[Out].items) + 1
    BY <2>2, <2>3, QueueOpsPositions
  <2>5. Cardinality(Pushing') = Cardinality(Pushing) - 1
    <3>1. "check" # "push"
      OBVIOUS
    <3> QED BY <2>1, <3>1, PushingMoves
  <2>6. InOutput' = InOutput
    BY <2>1 DEF InOutput
  <2>7. Placed' = Placed
    BY <2>1, <2>4, <2>5, <2>6, Summands DEF Placed
  <2> QED BY <1>11, <1>12, <2>1, <2>7
<1>7. ASSUME NEW f \in FPs, Process(f)
      PROVE  CountInv'
  <2>1. hand'[Out] = hand[Out] /\ UNCHANGED <<queue, file>> /\ pc[f] # "push"
    BY <1>0, <1>7 DEF Process, TypeOK
  <2>2. InOutput' = InOutput
    BY <2>1 DEF InOutput
  <2>3. CASE FlowAfter(f, capture[hand[f]]).blocked
    <3>1. pc' = [pc EXCEPT ![f] = "check"] /\ stats'.forwarded = stats.forwarded
      BY <1>7, <2>3 DEF Process, Goto, TypeOK
    <3>2. Pushing' = Pushing
      <4>1. "check" # "push"
        OBVIOUS
      <4> QED BY <2>1, <3>1, <4>1, PushingMoves
    <3> QED BY <1>2, <2>1, <3>1, <3>2
  <2>4. CASE ~FlowAfter(f, capture[hand[f]]).blocked
    <3>1. pc' = [pc EXCEPT ![f] = "push"] /\ stats'.forwarded = stats.forwarded + 1
      BY <1>7, <2>4 DEF Process, Goto, TypeOK
    <3>2. Cardinality(Pushing') = Cardinality(Pushing) + 1
      BY <2>1, <3>1, PushingMoves
    <3>3. Placed' = Placed + 1
      <4> DEFINE k == Cardinality(Pushing)
                 l == Len(queue[Out].items)
                 m == InOutput
                 n == Len(file)
      <4>1. Placed' = (k + 1) + l + m + n
        BY <2>1, <2>2, <3>2 DEF Placed
      <4>2. Placed = k + l + m + n
        BY DEF Placed
      <4>3. k \in Nat /\ l \in Nat /\ m \in Nat /\ n \in Nat
        BY Summands
      <4> HIDE DEF k, l, m, n
      <4> QED BY <4>1, <4>2, <4>3
    <3>4. stats'.forwarded + 1 = Placed'
      BY <1>11, <3>1, <3>3, Summands
    <3> QED BY <1>11, <1>12, <2>1, <3>4
  <2> QED BY <2>3, <2>4
<1>8. ASSUME OutputSize
      PROVE  CountInv'
  <2>1. \A f \in FPs : pc'[f] = pc[f]
    BY <1>0, <1>8 DEF OutputSize, Goto, TypeOK
  <2> QED BY <1>2, <1>8, <2>1, SamePushing DEF OutputSize, fpVars
<1>9. ASSUME PopOne(Out)
      PROVE  CountInv'
  <2>1. \A f \in FPs : pc'[f] = pc[f]
    BY <1>0, <1>9 DEF PopOne, Goto, TypeOK
  <2>2. /\ queue'[Out] = Pop(queue[Out]) /\ ~IsEmpty(queue[Out])
        /\ queue[Out] \in QueueType(Indices)
        /\ hand'[Out] = Head(queue[Out].items) /\ hand[Out] = None
        /\ UNCHANGED <<stats, file>>
    BY <1>0, <1>9 DEF PopOne, TypeOK, fpVars
  <2>3. Head(queue[Out].items) \in Indices
    BY <2>2, QueueOpsType
  <2>4. Len(queue'[Out].items) = Len(queue[Out].items) - 1
    BY <2>2, QueueOpsPositions
  <2>5. InOutput' = 1 /\ InOutput = 0
    BY <2>2, <2>3, CapturedPackets DEF InOutput, Inputs
  <2>6. Pushing' = Pushing
    BY <2>1, SamePushing
  <2>7. Placed' = Placed
    <3>1. Placed' = Cardinality(Pushing) + (Len(queue[Out].items) - 1) + 1 + Len(file)
      BY <2>2, <2>4, <2>5, <2>6 DEF Placed
    <3>2. Placed = Cardinality(Pushing) + Len(queue[Out].items) + 0 + Len(file)
      BY <2>5 DEF Placed
    <3>3. /\ Cardinality(Pushing) \in Nat /\ Len(queue[Out].items) \in Nat
          /\ Len(file) \in Nat
      BY Summands
    <3> QED BY <3>1, <3>2, <3>3
  <2> QED BY <1>11, <1>12, <2>2, <2>7
<1>10. ASSUME Write
       PROVE  CountInv'
  <2>1. \A f \in FPs : pc'[f] = pc[f]
    BY <1>0, <1>10 DEF Write, Goto, TypeOK
  <2>2. /\ hand[Out] \in Indices /\ hand'[Out] = None /\ hand[Out] # None
        /\ file' = Append(file, hand[Out]) /\ file \in Seq(Indices \cup {Header})
        /\ UNCHANGED <<queue, stats>>
    BY <1>0, <1>10 DEF Write, TypeOK, fpVars
  <2>4. Len(file') = Len(file) + 1 /\ file' # <<>> /\ file'[1] = Header
    BY <1>11, <2>2
  <2>5. InOutput' = 0 /\ InOutput = 1
    BY <2>2 DEF InOutput
  <2>6. Pushing' = Pushing
    BY <2>1, SamePushing
  <2>7. Placed' = Placed
    <3>1. Placed' = Cardinality(Pushing) + Len(queue[Out].items) + 0 + (Len(file) + 1)
      BY <2>2, <2>4, <2>5, <2>6 DEF Placed
    <3>2. Placed = Cardinality(Pushing) + Len(queue[Out].items) + 1 + Len(file)
      BY <2>5 DEF Placed
    <3>3. /\ Cardinality(Pushing) \in Nat /\ Len(queue[Out].items) \in Nat
          /\ Len(file) \in Nat
      BY Summands
    <3> QED BY <3>1, <3>2, <3>3
  <2> QED BY <1>11, <1>12, <2>2, <2>4, <2>7
<1> QED
  BY <1>0, <1>3, <1>4, <1>5, <1>6, <1>7, <1>8, <1>9, <1>10 DEF Worker, FP, Output, Workers

\* The count is kept by every step.
LEMMA CInvStep == SInv /\ CountInv /\ [Next]_vars => SInv' /\ CountInv'
<1> SUFFICES ASSUME SInv, CountInv, [Next]_vars PROVE SInv' /\ CountInv'
  OBVIOUS
<1>1. CASE Terminating \/ UNCHANGED vars
  BY <1>1, SInvStep
  DEF Terminating, CountInv, Placed, Unopened, Pushing, InOutput, vars, mainVars, workVars, fpVars
<1>2. CASE ~(Terminating \/ UNCHANGED vars)
  BY <1>2, SInvStep, CountMain, CountWorkers DEF Next
<1> QED BY <1>1, <1>2

\* Before anything is opened nothing is in the file.
LEMMA InitCInv == Init => SInv /\ CountInv
BY InitSInv DEF Init, CountInv, Unopened

\* When process() returns true every packet counted as forwarded is in the file, which
\* starts with its header, and every thread has ended: the output thread runs while
\* (output_running || size() > 0) and is told to stop when the FPs are joined.
THEOREM ForwardedGetsWritten == Spec => []ForwardedIsWritten
<1>1. SInv /\ CountInv => ForwardedIsWritten
  <2> SUFFICES ASSUME SInv, CountInv, mainPc = "returnTrue"
               PROVE  /\ Len(file) = stats.forwarded + 1 /\ file[1] = Header
                      /\ \A t \in Threads : pc[t] = "done"
    BY DEF ForwardedIsWritten
  <2> USE DEF SInv, TInv
  <2>1. \A t \in Threads : pc[t] = "done"
    BY DEF StopOrder, Joined, OutputTold, Threads
  <2>2. Out \in Threads /\ FPs \subseteq Threads
    BY ThreadNumbers DEF Threads, Workers
  <2>3. Pushing = {} /\ Cardinality({}) = 0
    BY <2>1, <2>2, FS_EmptySet DEF Pushing
  <2>4. hand[Out] = None /\ IsEmpty(queue[Out])
    BY <2>1, <2>2 DEF TypeOK, StopOrder
  <2>5. Len(queue[Out].items) = 0 /\ InOutput = 0
    BY <2>4 DEF IsEmpty, InOutput
  <2>6. ~Unopened
    BY DEF Unopened
  <2>7. file[1] = Header /\ stats.forwarded + 1 = Placed
    BY <2>6 DEF CountInv
  <2>8. Placed = Len(file)
    BY <2>3, <2>5, Summands DEF Placed
  <2> QED BY <2>1, <2>7, <2>8
<1> QED BY <1>1, InitCInv, CInvStep, PTL DEF Spec
-----------------------------------------------------------------------------
(***************************************************************************)
(* The slots of a thread: slot 0 is its hand, slot i the i-th packet of its *)
(* queue.  A pop moves every packet of the thread one slot down, every      *)
(* other step moves one packet at most.                                     *)
(***************************************************************************)

Slot(t, i, p) ==
  IF i = 0 THEN hand[t] = p ELSE i <= Len(queue[t].items) /\ queue[t].items[i] = p

InMain(p)   == mainPc = "push" /\ readPos = p
InFile(p)   == \E i \in DOMAIN file : file[i] = p
LastSlot(t) == Len(queue[t].items)

KeepsSlots == \A t \in Threads, i \in Nat, p \in Indices : Slot(t, i, p)' <=> Slot(t, i, p)
KeepsFile  == \A p \in Indices : InFile(p)' <=> InFile(p)
KeepsMain  == readPos' = readPos /\ (mainPc' = "push" <=> mainPc = "push")
KeepsPush  == \A f \in FPs : pc'[f] = "push" <=> pc[f] = "push"
Counts(n, m) ==
  stats'.forwarded = stats.forwarded + n /\ stats'.dropped = stats.dropped + m

\* Thread t lets go of what it has in hand.
Empties(t) ==
  \A u \in Threads, i \in Nat, p \in Indices :
    Slot(u, i, p)' <=> Slot(u, i, p) /\ ~(u = t /\ i = 0)

Rests == KeepsSlots /\ KeepsFile /\ KeepsMain /\ KeepsPush /\ Counts(0, 0)

Reads ==
  /\ KeepsSlots /\ KeepsFile /\ KeepsPush /\ Counts(0, 0)
  /\ mainPc = "read" /\ readPos' = readPos + 1
  /\ mainPc' = "push" <=> readPos + 1 \in Indices

Enters ==
  /\ KeepsFile /\ KeepsPush /\ Counts(0, 0)
  /\ mainPc = "push" /\ readPos \in Indices /\ mainPc' = "read" /\ readPos' = readPos
  /\ \A t \in Threads, i \in Nat, p \in Indices :
       Slot(t, i, p)' <=> \/ Slot(t, i, p)
                          \/ t = LBOf(p) /\ i = LastSlot(t) + 1 /\ p = readPos

Pops(t) ==
  /\ KeepsFile /\ KeepsMain /\ KeepsPush /\ Counts(0, 0)
  /\ pc[t] = "pop"
  /\ \A u \in Threads, i \in Nat, p \in Indices :
       Slot(u, i, p)' <=> Slot(u, IF u = t THEN i + 1 ELSE i, p)
  /\ \A p \in Indices : ~Slot(t, 0, p)

Drops(f) ==
  /\ KeepsFile /\ KeepsMain /\ KeepsPush /\ Empties(f) /\ Counts(0, 1)
  /\ pc[f] = "process" /\ hand[f] \in Indices

Forwards(f) ==
  /\ KeepsFile /\ KeepsMain /\ KeepsSlots /\ Counts(1, 0)
  /\ pc[f] = "process" /\ hand[f] \in Indices
  /\ \A g \in FPs : pc'[g] = "push" <=> pc[g] = "push" \/ g = f

Passes(w) ==
  /\ KeepsFile /\ KeepsMain /\ Counts(0, 0)
  /\ pc[w] = "push" /\ hand[w] \in Indices
  /\ \A g \in FPs : pc'[g] = "push" <=> pc[g] = "push" /\ g # w
  /\ \A t \in Threads, i \in Nat, p \in Indices :
       Slot(t, i, p)' <=> \/ Slot(t, i, p) /\ ~(t = w /\ i = 0)
                          \/ t = Target(w, p) /\ i = LastSlot(t) + 1 /\ p = hand[w]

Writes ==
  /\ KeepsMain /\ KeepsPush /\ Empties(Out) /\ Counts(0, 0)
  /\ pc[Out] = "write" /\ hand[Out] \in Indices
  /\ file # <<>> /\ file' = Append(file, hand[Out])
  /\ \A p \in Indices : InFile(p)' <=> InFile(p) \/ p = hand[Out]

\* A push to an open queue fills the slot after its last.
LEMMA PushSlot ==
  ASSUME TypeOK, NEW t \in Threads, NEW x \in Indices, ~queue[t].shut,
         queue' = [queue EXCEPT ![t] = Push(@, x)]
  PROVE  \A u \in Threads, i \in Nat \ {0}, p \in Indices :
           Slot(u, i, p)' <=> Slot(u, i, p) \/ (u = t /\ i = LastSlot(t) + 1 /\ p = x)
<1> SUFFICES ASSUME NEW u \in Threads, NEW i \in Nat \ {0}, NEW p \in Indices
             PROVE  Slot(u, i, p)' <=> Slot(u, i, p) \/ (u = t /\ i = LastSlot(t) + 1 /\ p = x)
  OBVIOUS
<1> i # 0
  OBVIOUS
<1>1. CASE u # t
  <2>1. queue'[u] = queue[u]
    BY <1>1 DEF TypeOK
  <2> QED BY <1>1, <2>1 DEF Slot
<1>2. CASE u = t
  <2> DEFINE q == queue[t]
             n == Len(q.items)
             r == queue'[t].items
  <2>1. q \in QueueType(Indices) /\ queue'[t] = Push(q, x)
    BY DEF TypeOK
  <2>2. n \in Nat /\ Len(r) = n + 1 /\ r[n + 1] = x /\ \A j \in 1..n : r[j] = q.items[j]
    BY <2>1, QueueOpsPositions
  <2>3. Slot(t, i, p) <=> i <= n /\ q.items[i] = p
    BY DEF Slot
  <2>4. Slot(t, i, p)' <=> i <= n + 1 /\ r[i] = p
    BY <2>2 DEF Slot
  <2>5. LastSlot(t) = n
    BY DEF LastSlot
  <2> HIDE DEF n, r, q
  <2>6. i \in 1..n \/ i = n + 1 \/ i > n + 1
    BY <2>2
  <2>7. CASE i \in 1..n
    BY <1>2, <2>2, <2>3, <2>4, <2>5, <2>7
  <2>8. CASE i = n + 1
    <3>1. ~(i <= n) /\ i <= n + 1
      BY <2>2, <2>8
    <3> QED BY <1>2, <2>2, <2>3, <2>4, <2>5, <2>8, <3>1
  <2>9. CASE i > n + 1
    <3>1. ~(i <= n) /\ ~(i <= n + 1) /\ i # n + 1
      BY <2>2, <2>9
    <3> QED BY <1>2, <2>3, <2>4, <2>5, <3>1
  <2> QED BY <2>6, <2>7, <2>8, <2>9
<1> QED BY <1>1, <1>2

\* A pop with an empty hand moves the thread's packets one slot down.
LEMMA PopSlot ==
  ASSUME TInv, NEW t \in Threads, PopOne(t)
  PROVE  /\ \A u \in Threads, i \in Nat, p \in Indices :
              Slot(u, i, p)' <=> Slot(u, IF u = t THEN i + 1 ELSE i, p)
         /\ \A p \in Indices : ~Slot(t, 0, p)
<1> USE DEF TInv
<1>0. /\ pc[t] = "pop" /\ ~IsEmpty(queue[t])
      /\ hand' = [hand EXCEPT ![t] = Head(queue[t].items)]
      /\ queue' = [queue EXCEPT ![t] = Pop(@)]
  BY DEF PopOne
<1>1. ASSUME NEW p \in Indices PROVE ~Slot(t, 0, p)
  <2>1. None \notin Indices
    BY CapturedPackets DEF Inputs
  <2>2. hand[t] = None
    BY <1>0 DEF TypeOK
  <2> QED BY <2>1, <2>2 DEF Slot
<1>2. ASSUME NEW u \in Threads, NEW i \in Nat, NEW p \in Indices, u # t
      PROVE  Slot(u, i, p)' <=> Slot(u, i, p)
  <2>1. queue'[u] = queue[u] /\ hand'[u] = hand[u]
    BY <1>0, <1>2 DEF TypeOK
  <2> QED BY <2>1 DEF Slot
<1>3. ASSUME NEW i \in Nat, NEW p \in Indices
      PROVE  Slot(t, i, p)' <=> Slot(t, i + 1, p)
  <2> DEFINE q == queue[t]
             n == Len(q.items)
             r == queue'[t].items
  <2>1. q \in QueueType(Indices) /\ queue'[t] = Pop(q) /\ hand'[t] = Head(q.items)
    BY <1>0 DEF TypeOK
  <2>2. /\ n \in Nat /\ n # 0 /\ Len(r) = n - 1 /\ hand'[t] = q.items[1]
        /\ \A j \in 1..(n - 1) : r[j] = q.items[j + 1]
    BY <1>0, <2>1, QueueOpsPositions
  <2>3. Slot(t, i + 1, p) <=> i + 1 <= n /\ q.items[i + 1] = p
    BY DEF Slot
  <2>4. Slot(t, i, p)' <=> IF i = 0 THEN hand'[t] = p ELSE i <= n - 1 /\ r[i] = p
    BY <2>2 DEF Slot
  <2> HIDE DEF n, r, q
  <2>5. i = 0 \/ i \in 1..(n - 1) \/ i > n - 1
    BY <2>2
  <2>6. CASE i = 0
    BY <2>2, <2>3, <2>4, <2>6
  <2>7. CASE i \in 1..(n - 1)
    <3>1. i # 0 /\ i + 1 <= n /\ i <= n - 1
      BY <2>2, <2>7
    <3> QED BY <2>2, <2>3, <2>4, <2>7, <3>1
  <2>8. CASE i # 0 /\ i > n - 1
    <3>1. ~(i + 1 <= n) /\ ~(i <= n - 1)
      BY <2>2, <2>8
    <3> QED BY <2>3, <2>4, <2>8, <3>1
  <2> QED BY <2>5, <2>6, <2>7, <2>8
<1> QED BY <1>1, <1>2, <1>3

\* Slots depend on the hands and on what is queued, not on the shut flags.
LEMMA SlotsAlike ==
  ASSUME hand' = hand, \A t \in Threads : queue'[t].items = queue[t].items
  PROVE  KeepsSlots
<1> SUFFICES ASSUME NEW t \in Threads, NEW i \in Nat, NEW p \in Indices
             PROVE  Slot(t, i, p)' <=> Slot(t, i, p)
  BY DEF KeepsSlots
<1>1. queue'[t].items = queue[t].items
  OBVIOUS
<1> QED BY <1>1 DEF Slot

\* Putting a hand down empties slot 0 and no other.
LEMMA HandEmptied ==
  ASSUME TInv, NEW t \in Threads, hand' = [hand EXCEPT ![t] = None], queue' = queue
  PROVE  Empties(t)
<1> SUFFICES ASSUME NEW u \in Threads, NEW i \in Nat, NEW p \in Indices
             PROVE  Slot(u, i, p)' <=> Slot(u, i, p) /\ ~(u = t /\ i = 0)
  BY DEF Empties
<1>1. None \notin Indices
  BY CapturedPackets DEF TInv, Inputs
<1>2. hand'[u] = IF u = t THEN None ELSE hand[u]
  BY DEF TInv, TypeOK
<1> QED BY <1>1, <1>2 DEF Slot

\* What a file says of the packets does not change unless the file does.
LEMMA FilesAlike == file' = file => KeepsFile
  BY DEF KeepsFile, InFile

\* Nothing is counted unless the counters change.
LEMMA StatsAlike == TypeOK /\ stats' = stats => Counts(0, 0)
  BY DEF Counts, TypeOK

-----------------------------------------------------------------------------
\* The main thread takes a packet from the capture or hands the one it has to its LB.
LEMMA MainMoves ==
  ASSUME SInv, CountInv, Main
  PROVE  /\ Rests \/ Reads \/ Enters
         /\ file' = file \/ (file = <<>> /\ file' = <<Header>>)
<1> USE DEF SInv, TInv
<1>0. UNCHANGED <<hand, stats>> /\ Counts(0, 0) /\ FPs \subseteq Threads /\ LBs \subseteq Threads
  BY StatsAlike
  DEF Main, OpenInput, OpenOutput, StartWorker, StartOutput, Read, Dispatch, FlagWorker, ShutWorker,
      JoinWorker, FlagOutput, ShutOutput, JoinOutput, workVars, fpVars, Threads, Workers
<1>1. KeepsPush
  <2>1. CASE StartWorker \/ StartOutput
    <3>1. \A f \in FPs : pc[f] # "push"
      BY <1>0, <2>1 DEF StartWorker, StartOutput, QuietStart, BeforeRead, TypeOK
    <3> QED BY <1>0, <2>1, <3>1 DEF StartWorker, StartOutput, KeepsPush, TypeOK
  <2>2. CASE ~StartWorker /\ ~StartOutput
    BY <2>2
    DEF Main, OpenInput, OpenOutput, Read, Dispatch, FlagWorker, ShutWorker, JoinWorker,
        FlagOutput, ShutOutput, JoinOutput, workVars, KeepsPush
  <2> QED BY <2>1, <2>2
<1>2. CASE Dispatch
  <2> DEFINE l == LBOf(readPos)
  <2>1. l \in Threads /\ ~queue[l].shut /\ readPos \in Indices
    BY <1>0, <1>2, PushOpen DEF Dispatch
  <2>2. queue' = [queue EXCEPT ![l] = Push(@, readPos)]
    BY <1>2 DEF Dispatch
  <2> HIDE DEF l
  <2>3. ASSUME NEW t \in Threads, NEW i \in Nat, NEW p \in Indices
        PROVE  Slot(t, i, p)' <=> \/ Slot(t, i, p)
                                  \/ t = LBOf(p) /\ i = LastSlot(t) + 1 /\ p = readPos
    <3>1. CASE i = 0
      <4>1. LastSlot(t) \in Nat
        BY QueueOpsPositions DEF LastSlot, TypeOK
      <4>2. i # LastSlot(t) + 1
        BY <3>1, <4>1
      <4> QED BY <1>0, <3>1, <4>2 DEF Slot
    <3>2. CASE i # 0
      <4>1. Slot(t, i, p)' <=> Slot(t, i, p) \/ (t = l /\ i = LastSlot(l) + 1 /\ p = readPos)
        BY <2>1, <2>2, <3>2, PushSlot
      <4> QED BY <4>1 DEF l
    <3> QED BY <3>1, <3>2
  <2>4. KeepsFile /\ file' = file
    BY <1>2, FilesAlike DEF Dispatch
  <2> QED BY <1>0, <1>1, <1>2, <2>1, <2>3, <2>4 DEF Dispatch, MainGoto, Enters
<1>3. CASE ~Dispatch
  <2>1. KeepsSlots
    <3>1. \A t \in Threads : queue'[t].items = queue[t].items
      <4>1. CASE ShutWorker \/ ShutOutput
        <5>1. PICK u \in Threads : queue' = [queue EXCEPT ![u] = Shutdown(@)]
          BY <4>1, ThreadNumbers DEF ShutWorker, ShutOutput, TypeOK, Threads
        <5> QED BY <5>1, QueueOpsPositions DEF TypeOK
      <4>2. CASE ~(ShutWorker \/ ShutOutput)
        BY <1>3, <4>2
        DEF Main, OpenInput, OpenOutput, StartWorker, StartOutput, Read, FlagWorker, JoinWorker,
            FlagOutput, JoinOutput, workVars
      <4> QED BY <4>1, <4>2
    <3> QED BY <1>0, <3>1, SlotsAlike
  <2>2. file' = file \/ (file = <<>> /\ file' = <<Header>>)
    BY <1>3
    DEF Main, OpenInput, OpenOutput, StartWorker, StartOutput, Read, FlagWorker, ShutWorker,
        JoinWorker, FlagOutput, ShutOutput, JoinOutput, CountInv, Unopened
  <2>3. KeepsFile
    <3>1. CASE file' = <<Header>> /\ file = <<>>
      <4>1. Header \notin Indices
        BY CapturedPackets DEF Inputs, Header, None
      <4> QED BY <3>1, <4>1 DEF KeepsFile, InFile
    <3> QED BY <2>2, <3>1, FilesAlike
  <2>4. CASE Read /\ readPos < Len(capture)
    <3>1. /\ mainPc = "read" /\ readPos' = readPos + 1
          /\ mainPc' = IF HasFlow(capture[readPos + 1]) THEN "push" ELSE "read"
      BY <2>4 DEF Read, MainGoto
    <3>2. readPos + 1 \in DOMAIN capture
      BY <2>4, CapturedPackets DEF Inputs, TypeOK
    <3>3. HasFlow(capture[readPos + 1]) <=> readPos + 1 \in Indices
      BY <3>2 DEF Indices
    <3> QED BY <1>0, <1>1, <2>1, <2>2, <2>3, <3>1, <3>3 DEF Reads
  <2>5. CASE ~(Read /\ readPos < Len(capture))
    <3>1. readPos' = readPos /\ mainPc # "push" /\ mainPc' # "push"
      BY <1>3, <2>5
      DEF Main, OpenInput, OpenOutput, StartWorker, StartOutput, Read, FlagWorker, ShutWorker,
          JoinWorker, FlagOutput, ShutOutput, JoinOutput, MainGoto
    <3> QED BY <1>0, <1>1, <2>1, <2>2, <2>3, <3>1 DEF Rests, KeepsMain
  <2> QED BY <2>4, <2>5
<1> QED BY <1>2, <1>3

\* An FP drops the packet or lets it through, as its flow is blocked or not.
LEMMA ProcessMoves ==
  ASSUME SInv, NEW w \in FPs, Process(w)
  PROVE  IF FlowAfter(w, capture[hand[w]]).blocked THEN Drops(w) ELSE Forwards(w)
<1> USE DEF SInv, TInv
<1>0. w \in Threads /\ w # Out /\ \A f \in FPs : f \in Threads /\ f # Out
  BY ThreadNumbers DEF Workers, Threads
<1>7. KeepsMain /\ KeepsFile
  <2>1. file' = file /\ readPos' = readPos /\ mainPc' = mainPc
    BY DEF Process, mainVars
  <2> QED BY <2>1, FilesAlike DEF KeepsMain
<1> DEFINE b == FlowAfter(w, capture[hand[w]]).blocked
<1>1. hand[w] \in Indices /\ pc[w] = "process" /\ queue' = queue
  BY <1>0 DEF Process, TypeOK
<1>2. IF b
      THEN /\ stats' = [stats EXCEPT !.dropped = @ + 1]
           /\ hand' = [hand EXCEPT ![w] = None]
           /\ Goto(w, "check")
      ELSE /\ stats' = [stats EXCEPT !.forwarded = @ + 1]
           /\ Goto(w, "push")
           /\ UNCHANGED hand
  BY DEF Process
<1> HIDE DEF b
<1>3. ASSUME b PROVE Drops(w)
  <2>1. Empties(w)
    BY <1>0, <1>1, <1>2, <1>3, HandEmptied
  <2>2. KeepsPush
    BY <1>0, <1>1, <1>2, <1>3 DEF Goto, KeepsPush, TypeOK
  <2>3. Counts(0, 1)
    BY <1>2, <1>3 DEF Counts, TypeOK
  <2> QED BY <1>7, <1>1, <2>1, <2>2, <2>3 DEF Drops
<1>4. ASSUME ~b PROVE Forwards(w)
  <2>1. KeepsSlots
    BY <1>1, <1>2, <1>4, SlotsAlike
  <2>2. \A g \in FPs : pc'[g] = "push" <=> pc[g] = "push" \/ g = w
    BY <1>0, <1>1, <1>2, <1>4 DEF Goto, TypeOK
  <2>3. Counts(1, 0)
    BY <1>2, <1>4 DEF Counts, TypeOK
  <2> QED BY <1>7, <1>1, <2>1, <2>2, <2>3 DEF Forwards
<1> QED BY <1>3, <1>4 DEF b

\* A worker pops, decides or hands on, each of which moves at most one packet.
LEMMA WorkerMoves ==
  ASSUME SInv, NEW w \in Workers, Worker(w) \/ (w \in FPs /\ Process(w))
  PROVE  /\ file' = file
         /\ \/ Rests
            \/ Pops(w)
            \/ w \in FPs /\ (Drops(w) \/ Forwards(w))
            \/ Passes(w)
<1> USE DEF SInv, TInv
<1>0. w \in Threads /\ w # Out /\ (w \in LBs \/ w \in FPs) /\ \A f \in FPs : f \in Threads /\ f # Out
  BY ThreadNumbers DEF Workers, Threads
<1>1. file' = file /\ KeepsMain /\ KeepsFile
  <2>1. file' = file /\ readPos' = readPos /\ mainPc' = mainPc
    BY DEF Worker, Check, PopOne, PopNothing, HandOn, Process, mainVars
  <2> QED BY <2>1, FilesAlike DEF KeepsMain
<1>2. CASE Check(w) \/ PopNothing(w)
  <2>1. UNCHANGED <<hand, queue, stats>> /\ KeepsPush
    BY <1>0, <1>2 DEF Check, PopNothing, Goto, KeepsPush, TypeOK, fpVars
  <2> QED BY <1>1, <2>1, SlotsAlike, StatsAlike DEF Rests
<1>3. CASE PopOne(w)
  <2>1. KeepsPush /\ stats' = stats /\ pc[w] = "pop"
    BY <1>0, <1>3, ThreadNumbers DEF PopOne, Goto, KeepsPush, TypeOK, fpVars
  <2> QED BY <1>0, <1>1, <1>3, <2>1, PopSlot, StatsAlike DEF Pops
<1>4. CASE w \in FPs /\ Process(w)
  BY <1>1, <1>4, ProcessMoves
<1>5. CASE HandOn(w)
  <2> DEFINE g == Target(w, hand[w])
  <2>1. /\ pc[w] = "push" /\ hand[w] \in Indices /\ g \in Threads /\ ~queue[g].shut
        /\ queue' = [queue EXCEPT ![g] = Push(@, hand[w])]
        /\ hand' = [hand EXCEPT ![w] = None]
        /\ stats' = stats
    BY <1>0, <1>5, PushOpen, ThreadNumbers DEF HandOn, fpVars, Threads, Workers
  <2>2. \A f \in FPs : pc'[f] = "push" <=> pc[f] = "push" /\ f # w
    BY <1>0, <1>5 DEF HandOn, Goto, TypeOK
  <2> HIDE DEF g
  <2>3. ASSUME NEW t \in Threads, NEW i \in Nat, NEW p \in Indices
        PROVE  Slot(t, i, p)' <=> \/ Slot(t, i, p) /\ ~(t = w /\ i = 0)
                                  \/ t = Target(w, p) /\ i = LastSlot(t) + 1 /\ p = hand[w]
    <3>1. CASE i = 0
      <4>1. LastSlot(t) \in Nat
        BY QueueOpsPositions DEF LastSlot, TypeOK
      <4>2. i # LastSlot(t) + 1
        BY <3>1, <4>1
      <4>3. None \notin Indices
        BY CapturedPackets DEF Inputs
      <4>4. hand'[t] = IF t = w THEN None ELSE hand[t]
        BY <1>0, <2>1 DEF TypeOK
      <4> QED BY <3>1, <4>2, <4>3, <4>4 DEF Slot
    <3>2. CASE i # 0
      <4>1. Slot(t, i, p)' <=> Slot(t, i, p) \/ (t = g /\ i = LastSlot(g) + 1 /\ p = hand[w])
        BY <2>1, <3>2, PushSlot
      <4> QED BY <3>2, <4>1 DEF g
    <3> QED BY <3>1, <3>2
  <2>4. Counts(0, 0)
    BY <2>1, StatsAlike
  <2> QED BY <1>1, <2>1, <2>2, <2>3, <2>4 DEF Passes
<1> QED BY <1>1, <1>2, <1>3, <1>4, <1>5 DEF Worker

\* The output thread pops or writes; the header is in the file by then.
LEMMA OutputMoves ==
  ASSUME SInv, CountInv, Output
  PROVE  \/ (Rests \/ Pops(Out)) /\ file' = file
         \/ Writes
<1> USE DEF SInv, TInv
<1>0. /\ Out \in Threads /\ Out \notin LBs /\ Out \notin FPs
      /\ \A f \in FPs : f \in Threads /\ f # Out
  BY ThreadNumbers DEF Threads, Workers
<1>1. KeepsMain /\ stats' = stats /\ Counts(0, 0)
  BY StatsAlike DEF Output, Check, OutputSize, PopOne, PopNothing, Write, KeepsMain, mainVars, fpVars
<1>2. KeepsPush
  BY <1>0 DEF Output, Check, OutputSize, PopOne, PopNothing, Write, Goto, KeepsPush, TypeOK
<1>3. CASE Check(Out) \/ OutputSize \/ PopNothing(Out)
  <2>1. UNCHANGED <<hand, queue, file>>
    BY <1>3 DEF Check, OutputSize, PopNothing
  <2> QED BY <1>1, <1>2, <2>1, SlotsAlike, FilesAlike DEF Rests
<1>4. CASE PopOne(Out)
  <2>1. file' = file /\ pc[Out] = "pop"
    BY <1>4 DEF PopOne
  <2> QED BY <1>0, <1>1, <1>2, <1>4, <2>1, PopSlot, FilesAlike DEF Pops
<1>5. CASE Write
  <2>1. /\ pc[Out] = "write" /\ hand[Out] \in Indices /\ queue' = queue
        /\ hand' = [hand EXCEPT ![Out] = None] /\ file' = Append(file, hand[Out])
    BY <1>0, <1>5 DEF Write, TypeOK
  <2>2. file # <<>>
    BY <1>0, <2>1 DEF CountInv
  <2>3. Empties(Out)
    BY <1>0, <2>1, HandEmptied
  <2>4. ASSUME NEW p \in Indices
        PROVE  InFile(p)' <=> InFile(p) \/ p = hand[Out]
    <3> DEFINE n == Len(file)
               x == hand[Out]
    <3>1. file \in Seq(Indices \cup {Header}) /\ x \in Indices \cup {Header}
      BY <2>1 DEF TypeOK
    <3>2. /\ n \in Nat /\ DOMAIN file = 1..n /\ DOMAIN file' = 1..(n + 1)
          /\ \A i \in 1..n : file'[i] = file[i]
          /\ file'[n + 1] = x
      BY <2>1, <3>1
    <3> HIDE DEF n, x
    <3>3. 1..(n + 1) = (1..n) \cup {n + 1}
      BY <3>2
    <3> QED BY <3>2, <3>3 DEF InFile, x
  <2> QED BY <1>1, <1>2, <2>1, <2>2, <2>3, <2>4 DEF Writes
<1> QED BY <1>3, <1>4, <1>5 DEF Output

\* All a step can do to the packets.
LEMMA Moves ==
  ASSUME SInv, CountInv, [Next]_vars
  PROVE  \/ /\ file' = file \/ (file = <<>> /\ file' = <<Header>>)
            /\ \/ Rests \/ Reads \/ Enters
               \/ \E t \in Threads : Pops(t)
               \/ \E f \in FPs : Drops(f) \/ Forwards(f)
               \/ \E w \in Workers : Passes(w)
         \/ Writes
<1>1. CASE Terminating \/ UNCHANGED vars
  <2>1. UNCHANGED vars
    BY <1>1 DEF Terminating
  <2>2. KeepsSlots /\ KeepsFile /\ file' = file
    BY <2>1, SlotsAlike, FilesAlike DEF vars, workVars
  <2>3. Counts(0, 0)
    BY <2>1, StatsAlike DEF vars, fpVars, SInv, TInv
  <2> QED BY <2>1, <2>2, <2>3 DEF Rests, KeepsMain, KeepsPush, vars, mainVars, workVars
<1>2. CASE Main
  BY <1>2, MainMoves
<1>3. ASSUME NEW w \in Workers, Worker(w) \/ (w \in FPs /\ Process(w))
      PROVE  /\ file' = file
             /\ \/ Rests \/ (\E t \in Threads : Pops(t))
                \/ (\E f \in FPs : Drops(f) \/ Forwards(f)) \/ Passes(w)
  BY <1>3, WorkerMoves, ThreadNumbers
<1>4. CASE Output
  BY <1>4, OutputMoves, ThreadNumbers
<1>5. (\E w \in LBs : Worker(w)) \/ (\E f \in FPs : FP(f))
        => \E w \in Workers : Worker(w) \/ (w \in FPs /\ Process(w))
  BY DEF FP, Workers
<1> QED BY <1>1, <1>2, <1>3, <1>4, <1>5 DEF Next

-----------------------------------------------------------------------------
(***************************************************************************)
(* The order of a flow.  Of two packets of one five-tuple the one that is   *)
(* ahead, with a later thread or with the same thread in a lower slot, was  *)
(* read earlier.  That holds because both take the same path and every      *)
(* hand-over is first in, first out.  As no packet was read earlier than    *)
(* itself, none is in two places.                                           *)
(***************************************************************************)

SameFlow(p, q) == capture[p].tuple = capture[q].tuple

Ahead(t, i, u, j) == u < t \/ (u = t /\ i < j)

\* The slots a packet can be in are its LB's, its FP's and the output thread's.
OnPath ==
  \A t \in Threads, i \in Nat, p \in Indices :
    Slot(t, i, p) => t \in {LBOf(p), Target(LBOf(p), p), Out}

ReadBefore ==
  \A p \in Indices :
    InFile(p) \/ (\E t \in Threads, i \in Nat : Slot(t, i, p)) => p <= readPos /\ ~InMain(p)

SlotOrder ==
  \A t \in Threads, u \in Threads, i \in Nat, j \in Nat, p \in Indices, q \in Indices :
    Slot(t, i, p) /\ Slot(u, j, q) /\ SameFlow(p, q) /\ Ahead(t, i, u, j) => p < q

\* What is written was read before what is still on its way.
WrittenFirst ==
  \A p \in Indices, q \in Indices, t \in Threads, i \in Nat :
    InFile(p) /\ Slot(t, i, q) /\ SameFlow(p, q) => p < q

OnlyPackets == \A i \in DOMAIN file : i # 1 => file[i] \in Indices

OrderInv == OnPath /\ ReadBefore /\ SlotOrder /\ WrittenFirst /\ OnlyPackets /\ FlowOrderKept

OInv == SInv /\ CountInv /\ OrderInv

\* Before the engine starts no packet is anywhere.
LEMMA InitOInv == Init => OInv
<1> SUFFICES ASSUME Init PROVE OInv
  OBVIOUS
<1>1. SInv /\ CountInv
  BY InitCInv
<1>2. None \notin Indices
  BY <1>1, CapturedPackets DEF SInv, TInv, Inputs
<1>3. \A p \in Indices, t \in Threads, i \in Nat : ~Slot(t, i, p)
  BY <1>2 DEF Init, Slot, NewQueue
<1>4. file = <<>> /\ \A p \in Indices : ~InFile(p)
  BY DEF Init, InFile
<1> QED
  BY <1>1, <1>3, <1>4
  DEF OInv, OrderInv, OnPath, ReadBefore, SlotOrder, WrittenFirst, OnlyPackets, FlowOrderKept

\* The path of a packet depends on its flow alone, and no step changes it.
LEMMA OnePath ==
  ASSUME SInv
  PROVE  /\ \A p \in Indices : /\ LBOf(p) \in LBs /\ Target(LBOf(p), p) \in FPs
                               /\ \A f \in FPs : Target(f, p) = Out
         /\ \A p \in Indices, q \in Indices :
              SameFlow(p, q) => LBOf(p) = LBOf(q) /\ \A w : Target(w, p) = Target(w, q)
         /\ [Next]_vars => /\ Indices' = Indices
                           /\ \A p : LBOf(p)' = LBOf(p) /\ \A w : Target(w, p)' = Target(w, p)
                           /\ \A p, q : SameFlow(p, q)' <=> SameFlow(p, q)
<1> USE DEF SInv, TInv
<1>1. \A p \in Indices : /\ LBOf(p) \in LBs /\ Target(LBOf(p), p) \in FPs
                         /\ \A f \in FPs : Target(f, p) = Out
  BY Routing DEF Inputs
<1>2. \A p \in Indices, q \in Indices :
        SameFlow(p, q) => LBOf(p) = LBOf(q) /\ \A w : Target(w, p) = Target(w, q)
  BY DEF SameFlow, LBOf, Target
<1>3. ASSUME [Next]_vars
      PROVE  /\ Indices' = Indices
             /\ \A p : LBOf(p)' = LBOf(p) /\ \A w : Target(w, p)' = Target(w, p)
             /\ \A p, q : SameFlow(p, q)' <=> SameFlow(p, q)
  BY <1>3, SameCapture DEF SameFlow, LBOf, Target
<1> QED BY <1>1, <1>2, <1>3

\* The numbers of the threads grow along a path.
LEMMA StageNumbers ==
  /\ \A l \in LBs, f \in FPs : l < f
  /\ \A t \in Threads : t = Out \/ t < Out
  /\ \A t \in Threads : t \in Nat /\ (t \in LBs \/ t \in FPs \/ t = Out)
  /\ \A f \in FPs : f \notin LBs /\ f # Out
  /\ \A l \in LBs : l \notin FPs /\ l # Out
BY ThreadNumbers, ThreadsAssumption DEF LBs, FPs, Workers, Threads, Out

\* Packets are numbers, and a packet is in no slot past the last.
LEMMA SlotTypes ==
  ASSUME SInv
  PROVE  /\ Indices \subseteq Nat /\ readPos \in Nat /\ 0 \notin Indices
         /\ \A t \in Threads : LastSlot(t) \in Nat
         /\ \A t \in Threads, i \in Nat : \A p : Slot(t, i, p) => i <= LastSlot(t)
         /\ \A t : Slot(t, 0, hand[t])
<1> USE DEF SInv, TInv
<1>1. Indices \subseteq Nat /\ readPos \in Nat /\ 0 \notin Indices
  BY CapturedPackets DEF TypeOK, Inputs, None
<1>2. \A t \in Threads : LastSlot(t) \in Nat
  BY QueueOpsPositions DEF TypeOK, LastSlot
<1> QED BY <1>1, <1>2 DEF Slot, LastSlot

\* A packet in a slot was in one before, or the main thread has handed it over.
LEMMA SlotSource ==
  ASSUME OInv, [Next]_vars, NEW p \in Indices, NEW t \in Threads, NEW i \in Nat, Slot(t, i, p)'
  PROVE  (Enters /\ InMain(p)) \/ \E u \in Threads, j \in Nat : Slot(u, j, p)
<1> USE DEF OInv
<1>1. CASE Rests \/ Reads \/ Writes \/ \E f \in FPs : Drops(f) \/ Forwards(f)
  <2>1. Slot(t, i, p)
    BY <1>1 DEF Rests, Reads, Writes, Drops, Forwards, KeepsSlots, Empties
  <2> QED BY <2>1
<1>2. CASE Enters
  <2>1. Slot(t, i, p) \/ p = readPos
    BY <1>2 DEF Enters
  <2> QED BY <1>2, <2>1 DEF Enters, InMain
<1>3. ASSUME NEW v \in Threads, Pops(v)
      PROVE  \E u \in Threads, j \in Nat : Slot(u, j, p)
  <2>1. Slot(t, IF t = v THEN i + 1 ELSE i, p) /\ (IF t = v THEN i + 1 ELSE i) \in Nat
    BY <1>3 DEF Pops
  <2> QED BY <2>1
<1>4. ASSUME NEW w \in Workers, Passes(w)
      PROVE  \E u \in Threads, j \in Nat : Slot(u, j, p)
  <2>1. Slot(t, i, p) \/ p = hand[w]
    BY <1>4 DEF Passes
  <2> QED BY <2>1, SlotTypes, ThreadNumbers
<1> QED BY <1>1, <1>2, <1>3, <1>4, Moves

\* A packet stays on its path.
LEMMA OnPathStep ==
  ASSUME OInv, [Next]_vars
  PROVE  OnPath'
<1> USE DEF OInv, OrderInv
<1> SUFFICES ASSUME NEW t \in Threads, NEW i \in Nat, NEW p \in Indices, Slot(t, i, p)'
             PROVE  t \in {LBOf(p), Target(LBOf(p), p), Out}
  <2>1. Indices' = Indices /\ \A p : LBOf(p)' = LBOf(p) /\ \A w : Target(w, p)' = Target(w, p)
    BY OnePath
  <2>2. \A p \in Indices : {LBOf(p), Target(LBOf(p), p), Out}' = {LBOf(p), Target(LBOf(p), p), Out}
    BY <2>1, SameCapture DEF LBOf, Target
  <2> QED BY <2>1, <2>2 DEF OnPath, Threads
<1>1. CASE \E j \in Nat : Slot(t, j, p)
  BY <1>1 DEF OnPath
<1>2. CASE Enters
  <2>1. Slot(t, i, p) \/ t = LBOf(p)
    BY <1>2 DEF Enters
  <2> QED BY <1>1, <2>1
<1>3. ASSUME NEW w \in Workers, Passes(w)
      PROVE  t \in {LBOf(p), Target(LBOf(p), p), Out}
  <2>1. Slot(t, i, p) \/ (p = hand[w] /\ t = Target(w, p))
    BY <1>3 DEF Passes
  <2>2. CASE p = hand[w] /\ t = Target(w, p)
    <3>1. w \in Threads /\ Slot(w, 0, p) /\ w # Out /\ (w \in LBs \/ w \in FPs)
      BY <2>2, SlotTypes, ThreadNumbers DEF Workers
    <3>2. w \in {LBOf(p), Target(LBOf(p), p)}
      BY <3>1 DEF OnPath
    <3> QED BY <2>2, <3>1, <3>2, OnePath, StageNumbers
  <2> QED BY <1>1, <2>1, <2>2
<1>4. ASSUME NEW v \in Threads, Pops(v)
      PROVE  \E j \in Nat : Slot(t, j, p)
  <2>1. Slot(t, IF t = v THEN i + 1 ELSE i, p) /\ (IF t = v THEN i + 1 ELSE i) \in Nat
    BY <1>4 DEF Pops
  <2> QED BY <2>1
<1>5. Rests \/ Reads \/ Writes \/ (\E f \in FPs : Drops(f) \/ Forwards(f)) => Slot(t, i, p)
  BY DEF Rests, Reads, Writes, Drops, Forwards, KeepsSlots, Empties
<1> QED BY <1>1, <1>2, <1>3, <1>4, <1>5, Moves

\* Only what the main thread has read gets past it.
LEMMA ReadBeforeStep ==
  ASSUME OInv, [Next]_vars
  PROVE  ReadBefore'
<1> USE DEF OInv, OrderInv
<1> SUFFICES ASSUME NEW p \in Indices,
                    InFile(p)' \/ (\E t \in Threads, i \in Nat : Slot(t, i, p)')
             PROVE  p <= readPos' /\ ~InMain(p)'
  <2>1. Indices' = Indices
    BY OnePath
  <2> QED BY <2>1 DEF ReadBefore, Threads
<1>0. p \in Nat /\ readPos \in Nat
  BY SlotTypes
<1>1. InFile(p)' => InFile(p) \/ \E t \in Threads, i \in Nat : Slot(t, i, p)
  <2>1. InFile(p)' => InFile(p) \/ p = hand[Out]
    BY Moves DEF Rests, Reads, Enters, Pops, Drops, Forwards, Passes, Writes, KeepsFile
  <2> QED BY <2>1, SlotTypes, ThreadNumbers
<1>2. (Enters /\ InMain(p)) \/ InFile(p) \/ \E t \in Threads, i \in Nat : Slot(t, i, p)
  BY <1>1, SlotSource
<1>3. (Enters /\ p = readPos) \/ (p <= readPos /\ ~InMain(p))
  BY <1>2 DEF ReadBefore, InMain
<1>4. CASE Enters
  BY <1>0, <1>3, <1>4 DEF Enters, InMain
<1>5. CASE Reads
  <2>1. p <= readPos /\ readPos' = readPos + 1
    BY <1>3, <1>5 DEF Reads, Enters
  <2> QED BY <1>0, <2>1 DEF InMain
<1>6. CASE ~Enters /\ ~Reads
  <2>1. KeepsMain
    BY <1>6, Moves DEF Rests, Pops, Drops, Forwards, Passes, Writes
  <2> QED BY <1>3, <1>6, <2>1 DEF KeepsMain, InMain
<1> QED BY <1>4, <1>5, <1>6

\* A hand-over keeps the packets of a flow in order.
LEMMA SlotOrderStep ==
  ASSUME OInv, [Next]_vars
  PROVE  SlotOrder'
<1> USE DEF OInv, OrderInv
<1> SUFFICES ASSUME NEW t \in Threads, NEW u \in Threads, NEW i \in Nat, NEW j \in Nat,
                    NEW p \in Indices, NEW q \in Indices,
                    Slot(t, i, p)', Slot(u, j, q)', SameFlow(p, q), Ahead(t, i, u, j)
             PROVE  p < q
  <2>1. Indices' = Indices /\ \A p, q : SameFlow(p, q)' <=> SameFlow(p, q)
    BY OnePath
  <2> QED BY <2>1 DEF SlotOrder, Threads, Ahead
<1>0. /\ p \in Nat /\ q \in Nat /\ readPos \in Nat /\ t \in Nat /\ u \in Nat
      /\ LBOf(p) = LBOf(q) /\ LBOf(q) \in LBs
      /\ Target(LBOf(p), p) = Target(LBOf(q), q) /\ Target(LBOf(q), q) \in FPs
  BY SlotTypes, StageNumbers, OnePath
<1>1. CASE Slot(t, i, p) /\ Slot(u, j, q)
  BY <1>1 DEF SlotOrder
<1>2. CASE Rests \/ Reads \/ Writes \/ \E f \in FPs : Drops(f) \/ Forwards(f)
  <2>1. Slot(t, i, p) /\ Slot(u, j, q)
    BY <1>2 DEF Rests, Reads, Writes, Drops, Forwards, KeepsSlots, Empties
  <2> QED BY <1>1, <2>1
<1>3. CASE Enters
  <2>1. ASSUME NEW v \in Threads, NEW k \in Nat, NEW x \in Indices, Slot(v, k, x)
        PROVE  x < readPos
    <3>1. x <= readPos /\ x # readPos /\ x \in Nat
      BY <1>3, <2>1, SlotTypes DEF ReadBefore, InMain, Enters
    <3> QED BY <1>0, <3>1
  <2>2. CASE t = LBOf(p) /\ i = LastSlot(t) + 1 /\ p = readPos
    <3>1. Slot(u, j, q) \/ (u = t /\ j = i)
      BY <1>0, <1>3, <2>2 DEF Enters
    <3>2. CASE u = t /\ j = i
      BY <1>0, <3>2 DEF Ahead
    <3>3. CASE Slot(u, j, q)
      <4>1. u = t \/ t < u
        BY <1>0, <2>2, <3>3, StageNumbers DEF OnPath
      <4>2. u = t => j < i
        BY <2>2, <3>3, SlotTypes
      <4> QED BY <1>0, <4>1, <4>2 DEF Ahead
    <3> QED BY <3>1, <3>2, <3>3
  <2>3. CASE Slot(t, i, p)
    <3>1. Slot(u, j, q) \/ q = readPos
      BY <1>3 DEF Enters
    <3> QED BY <1>1, <2>1, <2>3, <3>1
  <2> QED BY <1>3, <2>2, <2>3 DEF Enters
<1>4. ASSUME NEW v \in Threads, Pops(v)
      PROVE  p < q
  <2> DEFINE k == IF t = v THEN i + 1 ELSE i
             m == IF u = v THEN j + 1 ELSE j
  <2>1. Slot(t, k, p) /\ Slot(u, m, q) /\ k \in Nat /\ m \in Nat
    BY <1>4 DEF Pops
  <2>2. Ahead(t, k, u, m)
    BY DEF Ahead
  <2> HIDE DEF k, m
  <2> QED BY <2>1, <2>2 DEF SlotOrder
<1>5. ASSUME NEW w \in Workers, Passes(w)
      PROVE  p < q
  <2>0. w \in Threads /\ w \in Nat /\ w # Out /\ (w \in LBs \/ w \in FPs)
    BY ThreadNumbers, StageNumbers DEF Workers
  <2>1. ASSUME NEW x \in Indices, x = hand[w]
        PROVE  /\ Slot(w, 0, x) /\ w \in {LBOf(x), Target(LBOf(x), x)} /\ w < Target(w, x)
               /\ \/ w = LBOf(x) /\ Target(w, x) = Target(LBOf(x), x)
                  \/ w = Target(LBOf(x), x) /\ Target(w, x) = Out
    <3>1. Slot(w, 0, x)
      BY <2>1, SlotTypes
    <3>2. w \in {LBOf(x), Target(LBOf(x), x)}
      BY <2>0, <3>1 DEF OnPath
    <3>3. CASE w = LBOf(x)
      BY <3>1, <3>3, OnePath, StageNumbers
    <3>4. CASE w = Target(LBOf(x), x)
      <4>1. Target(w, x) = Out
        BY <3>4, OnePath
      <4> QED BY <2>0, <3>1, <3>4, <4>1, StageNumbers
    <3> QED BY <3>2, <3>3, <3>4
  <2>2. CASE q = hand[w] /\ u = Target(w, q) /\ j = LastSlot(u) + 1 /\ Slot(t, i, p)
    <3>1. Slot(w, 0, q) /\ w < u
      BY <2>1, <2>2
    <3>2. Ahead(t, i, w, 0)
      BY <1>0, <2>0, <3>1 DEF Ahead
    <3> QED BY <2>0, <2>2, <3>1, <3>2 DEF SlotOrder
  <2>3. CASE /\ p = hand[w] /\ t = Target(w, p) /\ i = LastSlot(t) + 1
             /\ Slot(u, j, q) /\ ~(u = w /\ j = 0)
    <3>1. /\ Slot(w, 0, p) /\ w < t
          /\ \/ w = LBOf(p) /\ t = Target(LBOf(p), p)
             \/ w = Target(LBOf(p), p) /\ t = Out
      BY <2>1, <2>3
    <3>2. u \in {LBOf(p), Target(LBOf(p), p), Out}
      BY <1>0, <2>3 DEF OnPath
    <3>3. j <= LastSlot(u) /\ LastSlot(u) \in Nat
      BY <2>3, SlotTypes
    <3>4. u < t
      BY <1>0, <2>3, <3>3 DEF Ahead
    <3>5. u < w \/ u = w
      BY <1>0, <3>1, <3>2, <3>4, StageNumbers
    <3>6. Ahead(w, 0, u, j)
      BY <2>3, <3>5 DEF Ahead
    <3> QED BY <2>0, <2>3, <3>1, <3>6 DEF SlotOrder
  <2>4. CASE t = u /\ i = j
    BY <1>0, <2>4 DEF Ahead
  <2> QED
    BY <1>0, <1>1, <1>5, <2>2, <2>3, <2>4 DEF Passes
<1> QED BY <1>2, <1>3, <1>4, <1>5, Moves

\* What the output thread writes was read before the rest of its flow that is on its way.
LEMMA WrittenFirstStep ==
  ASSUME OInv, [Next]_vars
  PROVE  WrittenFirst'
<1> USE DEF OInv, OrderInv
<1> SUFFICES ASSUME NEW p \in Indices, NEW q \in Indices, NEW t \in Threads, NEW i \in Nat,
                    InFile(p)', Slot(t, i, q)', SameFlow(p, q)
             PROVE  p < q
  <2>1. Indices' = Indices /\ \A p, q : SameFlow(p, q)' <=> SameFlow(p, q)
    BY OnePath
  <2> QED BY <2>1 DEF WrittenFirst, Threads
<1>0. p \in Nat /\ q \in Nat /\ readPos \in Nat
  BY SlotTypes
<1>1. InFile(p) \/ (Writes /\ p = hand[Out])
  BY Moves DEF Rests, Reads, Enters, Pops, Drops, Forwards, Passes, Writes, KeepsFile
<1>2. CASE InFile(p)
  <2>1. CASE \E u \in Threads, j \in Nat : Slot(u, j, q)
    BY <1>2, <2>1 DEF WrittenFirst
  <2>2. CASE Enters /\ InMain(q)
    BY <1>0, <1>2, <2>2 DEF ReadBefore, InMain
  <2> QED BY <2>1, <2>2, SlotSource
<1>3. CASE Writes /\ p = hand[Out]
  <2>1. Slot(t, i, q) /\ ~(t = Out /\ i = 0)
    BY <1>3 DEF Writes, Empties
  <2>2. Slot(Out, 0, p) /\ Out \in Threads
    BY <1>3, SlotTypes, ThreadNumbers
  <2>3. Ahead(Out, 0, t, i)
    BY <2>1, StageNumbers DEF Ahead
  <2> QED BY <2>1, <2>2, <2>3 DEF SlotOrder
<1> QED BY <1>1, <1>2, <1>3

\* A packet is written after the packets of its flow that were read before it.
LEMMA FlowOrderStep ==
  ASSUME OInv, [Next]_vars
  PROVE  OnlyPackets' /\ FlowOrderKept'
<1> USE DEF OInv, OrderInv
<1>0. Indices' = Indices /\ capture' = capture
  BY SameCapture
<1>1. CASE file' = file
  BY <1>0, <1>1 DEF OnlyPackets, FlowOrderKept
<1>2. CASE file' = <<Header>>
  BY <1>0, <1>2 DEF OnlyPackets, FlowOrderKept
<1>3. CASE Writes
  <2> DEFINE n == Len(file)
             x == hand[Out]
  <2>1. file \in Seq(Indices \cup {Header}) /\ x \in Indices /\ Out \in Threads /\ Slot(Out, 0, x)
    BY <1>3, ThreadNumbers, SlotTypes DEF Writes, SInv, TInv, TypeOK
  <2>2. /\ n \in Nat /\ n # 0 /\ DOMAIN file = 1..n /\ DOMAIN file' = 1..(n + 1)
        /\ \A i \in 1..n : file'[i] = file[i]
        /\ file'[n + 1] = x
    BY <1>3, <2>1 DEF Writes
  <2> HIDE DEF n, x
  <2>3. OnlyPackets'
    <3>1. ASSUME NEW i \in 1..(n + 1), i # 1 PROVE file'[i] \in Indices
      <4>1. i \in 1..n \/ i = n + 1
        BY <2>2
      <4> QED BY <2>1, <2>2, <3>1, <4>1 DEF OnlyPackets
    <3> QED BY <1>0, <2>2, <3>1 DEF OnlyPackets
  <2>4. ASSUME NEW i \in DOMAIN file', NEW j \in DOMAIN file', i < j, i # 1,
               capture[file'[i]].tuple = capture[file'[j]].tuple
        PROVE  file'[i] < file'[j]
    <3>1. i \in 1..n /\ file'[i] = file[i] /\ file[i] \in Indices
      BY <2>2, <2>4 DEF OnlyPackets
    <3>2. CASE j \in 1..n
      BY <2>2, <2>4, <3>1, <3>2 DEF FlowOrderKept
    <3>3. CASE j = n + 1
      <4>1. InFile(file[i])
        BY <2>2, <3>1 DEF InFile
      <4>2. SameFlow(file[i], x)
        BY <2>2, <2>4, <3>1, <3>3 DEF SameFlow
      <4> QED BY <2>1, <2>2, <3>1, <3>3, <4>1, <4>2 DEF WrittenFirst
    <3> QED BY <2>2, <3>2, <3>3
  <2>5. FlowOrderKept'
    BY <1>0, <2>4 DEF FlowOrderKept
  <2> QED BY <2>3, <2>5
<1> QED BY <1>1, <1>2, <1>3, Moves

\* The order is kept by every step.
LEMMA OInvStep == OInv /\ [Next]_vars => OInv'
<1> SUFFICES ASSUME OInv, [Next]_vars PROVE OInv'
  OBVIOUS
<1>1. SInv' /\ CountInv'
  BY CInvStep DEF OInv
<1> QED
  BY <1>1, OnPathStep, ReadBeforeStep, SlotOrderStep, WrittenFirstStep, FlowOrderStep
  DEF OInv, OrderInv

\* Packets of one flow are written in the order in which they were read, whichever
\* threads they went through: the same hash picks the LB and the FP for all of them
\* (process(), lines 492-494, and LoadBalancer::run, lines 341-345), and every queue is first in, first out.
THEOREM FlowsStayInOrder == Spec => []FlowOrderKept
<1>1. OInv => FlowOrderKept
  BY DEF OInv, OrderInv
<1> QED BY <1>1, InitOInv, OInvStep, PTL DEF Spec

-----------------------------------------------------------------------------
(***************************************************************************)
(* Nothing vanishes.  The packets that wait and those let through, read off *)
(* the slots: a slot is passed when an FP has let its packet through.       *)
(***************************************************************************)

Passed(t, i) == t = Out \/ (t \in FPs /\ i = 0 /\ pc[t] = "push")

Waits(p) ==
  InMain(p) \/ \E t \in Threads, i \in Nat : Slot(t, i, p) /\ ~Passed(t, i)

Through(p) ==
  InFile(p) \/ \E t \in Threads, i \in Nat : Slot(t, i, p) /\ Passed(t, i)

\* A packet is queued with a thread when it is in a slot after the thread's hand.
LEMMA QueuedSlots ==
  ASSUME TInv, NEW t \in Threads, NEW p
  PROVE  /\ p \in Elements(queue[t].items) <=> \E i \in Nat : i # 0 /\ Slot(t, i, p)
         /\ p \in Elements(queue[t].items) => p \in Indices
<1>1. /\ Len(queue[t].items) \in Nat /\ DOMAIN queue[t].items = 1..Len(queue[t].items)
      /\ \A i \in 1..Len(queue[t].items) : queue[t].items[i] \in Indices
  <2>1. queue[t] \in QueueType(Indices)
    BY DEF TInv, TypeOK
  <2> QED BY <2>1, QueueOpsPositions
<1> QED BY <1>1 DEF Elements, Slot

\* A hand holds a packet in one of three states of its thread.
LEMMA HandStates ==
  ASSUME TInv, NEW t \in Threads, NEW p \in Indices, hand[t] = p
  PROVE  /\ t \in LBs => pc[t] = "push"
         /\ t \in FPs => pc[t] \in {"process", "push"}
<1>1. hand[t] # None
  BY CapturedPackets DEF TInv, Inputs
<1> QED BY <1>1 DEF TInv, TypeOK, Roles

SlotSets ==
  Waiting = {p \in Indices : Waits(p)} /\ LetThrough = {p \in Indices : Through(p)}

\* The two sets of packets are those.
LEMMA SetsAsSlots == OInv => SlotSets
<1> SUFFICES ASSUME OInv
             PROVE  /\ Waiting = {p \in Indices : Waits(p)}
                    /\ LetThrough = {p \in Indices : Through(p)}
  BY DEF SlotSets
<1> USE DEF OInv, SInv, TInv
<1>0. /\ Indices \subseteq Nat /\ None \notin Indices /\ Header \notin Indices
      /\ Out \in Threads /\ Out \notin FPs /\ Out \notin LBs
      /\ FPs \subseteq Threads /\ LBs \subseteq Threads /\ Workers \subseteq Threads
      /\ \A f \in FPs : f \notin LBs /\ f # Out /\ f \in Workers
      /\ \A l \in LBs : l \notin FPs /\ l # Out /\ l \in Workers
  BY SlotTypes, StageNumbers, ThreadNumbers DEF Threads, Workers, None, Header
<1>1. ASSUME NEW p
      PROVE  p \in Waiting <=> p \in Indices /\ Waits(p)
  <2>1. \A t \in Threads : p \in Elements(queue[t].items) => p \in Indices
    BY QueuedSlots
  <2>2. \A t \in Threads : hand[t] # None => hand[t] \in Indices
    BY DEF TypeOK
  <2>3. ASSUME p \in Waiting
        PROVE  p \in Indices /\ Waits(p)
    <3>1. CASE \E w \in Workers : p \in Elements(queue[w].items)
      <4>1. PICK w \in Workers : p \in Elements(queue[w].items)
        BY <3>1
      <4>2. w \in Threads /\ w # Out
        BY <1>0, ThreadNumbers
      <4>3. PICK i \in Nat : i # 0 /\ Slot(w, i, p)
        BY <4>1, <4>2, QueuedSlots
      <4> QED BY <2>1, <4>1, <4>2, <4>3 DEF Waits, Passed
    <3>2. CASE \E l \in LBs : hand[l] = p /\ p # None
      BY <1>0, <2>2, <3>2 DEF Waits, Passed, Slot
    <3>3. CASE \E f \in FPs : pc[f] = "process" /\ hand[f] = p
      <4>1. PICK f \in FPs : pc[f] = "process" /\ hand[f] = p
        BY <3>3
      <4>2. p \in Indices /\ Slot(f, 0, p) /\ ~Passed(f, 0)
        BY <1>0, <2>2, <4>1 DEF Slot, Passed, TypeOK
      <4> QED BY <1>0, <4>2 DEF Waits
    <3>4. CASE mainPc = "push" /\ p = readPos
      BY <3>4 DEF Waits, InMain, Inputs
    <3> QED BY <2>3, <3>1, <3>2, <3>3, <3>4 DEF Waiting, Queued, Held
  <2>4. ASSUME p \in Indices, Waits(p)
        PROVE  p \in Waiting
    <3>1. CASE InMain(p)
      BY <3>1 DEF InMain, Waiting
    <3>2. CASE \E t \in Threads, i \in Nat : Slot(t, i, p) /\ ~Passed(t, i)
      <4>1. PICK t \in Threads, i \in Nat : Slot(t, i, p) /\ ~Passed(t, i)
        BY <3>2
      <4>2. t \in LBs \/ t \in FPs
        BY <4>1, StageNumbers DEF Passed
      <4>3. CASE i # 0
        <5>1. p \in Elements(queue[t].items) /\ t \in Workers
          BY <1>0, <4>1, <4>2, <4>3, QueuedSlots
        <5> QED BY <5>1 DEF Waiting, Queued
      <4>4. CASE i = 0
        <5>1. hand[t] = p /\ p # None
          BY <1>0, <2>4, <4>1, <4>4 DEF Slot
        <5>2. CASE t \in LBs
          BY <5>1, <5>2 DEF Waiting, Held
        <5>3. CASE t \in FPs
          <6>1. pc[t] = "process"
            BY <2>4, <4>1, <4>4, <5>1, <5>3, HandStates DEF Passed
          <6> QED BY <5>1, <5>3, <6>1 DEF Waiting
        <5> QED BY <4>2, <5>2, <5>3
      <4> QED BY <4>3, <4>4
    <3> QED BY <2>4, <3>1, <3>2 DEF Waits
  <2> QED BY <2>3, <2>4
<1>2. ASSUME NEW p
      PROVE  p \in LetThrough <=> p \in Indices /\ Through(p)
  <2>1. p \in Elements(queue[Out].items) => p \in Indices
    BY <1>0, QueuedSlots
  <2>2. \A t \in Threads : hand[t] # None => hand[t] \in Indices
    BY DEF TypeOK
  <2>3. p \in Elements(file) \ {Header} <=> p \in Indices /\ InFile(p)
    <3>1. DOMAIN file = 1..Len(file) /\ \A i \in DOMAIN file : file[i] \in Indices \cup {Header}
      BY DEF TypeOK
    <3> QED BY <1>0, <3>1 DEF Elements, InFile
  <2>4. p \in Queued({Out}) <=> \E i \in Nat : i # 0 /\ Slot(Out, i, p)
    BY <1>0, QueuedSlots DEF Queued
  <2>5. p \in Held({Out}) <=> p \in Indices /\ Slot(Out, 0, p)
    BY <1>0, <2>2 DEF Held, Slot
  <2>6. p \in {hand[f] : f \in {g \in FPs : pc[g] = "push"}}
          <=> p \in Indices /\ \E f \in FPs : pc[f] = "push" /\ Slot(f, 0, p)
    <3>1. \A f \in FPs : pc[f] = "push" => hand[f] \in Indices
      BY <1>0, <2>2 DEF TypeOK
    <3> QED BY <3>1 DEF Slot
  <2>7. (\E t \in Threads, i \in Nat : Slot(t, i, p) /\ Passed(t, i))
          <=> \/ \E i \in Nat : i # 0 /\ Slot(Out, i, p)
              \/ Slot(Out, 0, p)
              \/ \E f \in FPs : pc[f] = "push" /\ Slot(f, 0, p)
    BY <1>0 DEF Passed
  <2>8. (\E i \in Nat : i # 0 /\ Slot(Out, i, p)) => p \in Indices
    BY <1>0, <2>1, QueuedSlots
  <2> QED BY <2>3, <2>4, <2>5, <2>6, <2>7, <2>8 DEF LetThrough, Through
<1> QED BY <1>1, <1>2

\* A packet is in one slot, and in none once it is written.
LEMMA OneSlot ==
  ASSUME OInv, NEW p \in Indices, NEW t \in Threads, NEW i \in Nat, Slot(t, i, p)
  PROVE  /\ ~InFile(p) /\ ~InMain(p)
         /\ \A u \in Threads, j \in Nat : Slot(u, j, p) => u = t /\ j = i
<1> USE DEF OInv, OrderInv
<1>1. SameFlow(p, p) /\ p \in Nat /\ ~(p < p)
  BY SlotTypes DEF SameFlow
<1>2. ~InFile(p) /\ ~InMain(p)
  BY <1>1 DEF WrittenFirst, ReadBefore
<1>3. ASSUME NEW u \in Threads, NEW j \in Nat, Slot(u, j, p)
      PROVE  u = t /\ j = i
  <2>1. ~Ahead(t, i, u, j) /\ ~Ahead(u, j, t, i)
    BY <1>1, <1>3 DEF SlotOrder
  <2>2. t \in Nat /\ u \in Nat
    BY StageNumbers
  <2> QED BY <2>1, <2>2 DEF Ahead
<1> QED BY <1>2, <1>3

\* No packet waits that was let through.
LEMMA Apart ==
  ASSUME OInv, NEW p \in Indices
  PROVE  ~(Waits(p) /\ Through(p))
BY OneSlot DEF Waits, Through, OInv, OrderInv, ReadBefore

\* After a step the two sets are read off the slots in the same way.
LEMMA SetsAfterStep ==
  ASSUME OInv, [Next]_vars
  PROVE  /\ Waiting' = {p \in Indices : Waits(p)'}
         /\ LetThrough' = {p \in Indices : Through(p)'}
<1>1. OInv' => SlotSets'
  BY SetsAsSlots, PTL
<1>2. OInv' /\ Indices' = Indices
  BY OInvStep, OnePath DEF OInv
<1> QED BY <1>1, <1>2 DEF SlotSets

\* A packet keeps its side of the line unless it is read, dropped or let through.
LEMMA SidesKept ==
  ASSUME OInv, [Next]_vars, NEW p \in Indices,
         ~(Reads /\ p = readPos + 1), ~(\E f \in FPs : (Drops(f) \/ Forwards(f)) /\ p = hand[f])
  PROVE  (Waits(p)' <=> Waits(p)) /\ (Through(p)' <=> Through(p))
<1> USE DEF OInv
<1>0. /\ p \in Nat /\ readPos \in Nat /\ Out \in Threads /\ Out \notin FPs
      /\ \A f \in FPs : f \in Threads /\ f # Out /\ f \notin LBs
      /\ \A w \in Workers : w \in Threads /\ w # Out /\ (w \in LBs \/ w \in FPs)
  BY SlotTypes, ThreadNumbers DEF Threads, Workers
<1>1. ASSUME \A t \in Threads, i \in Nat : Slot(t, i, p)' <=> Slot(t, i, p),
             \A f \in FPs : Slot(f, 0, p) => (pc'[f] = "push" <=> pc[f] = "push"),
             InFile(p)' <=> InFile(p), InMain(p)' <=> InMain(p)
      PROVE  (Waits(p)' <=> Waits(p)) /\ (Through(p)' <=> Through(p))
  <2>1. \A t \in Threads, i \in Nat : Slot(t, i, p) => (Passed(t, i)' <=> Passed(t, i))
    BY <1>1 DEF Passed
  <2> QED BY <1>1, <2>1 DEF Waits, Through
<1>2. CASE Rests
  BY <1>1, <1>2 DEF Rests, KeepsSlots, KeepsPush, KeepsFile, KeepsMain, InMain
<1>3. CASE Reads
  <2>1. InMain(p)' <=> InMain(p)
    BY <1>3 DEF Reads, InMain
  <2> QED BY <1>1, <1>3, <2>1 DEF Reads, KeepsSlots, KeepsPush, KeepsFile
<1>4. CASE \E f \in FPs : Drops(f)
  <2>1. PICK f \in FPs : Drops(f)
    BY <1>4
  <2>2. ~Slot(f, 0, p)
    BY <2>1 DEF Slot
  <2> QED
    BY <1>1, <2>1, <2>2 DEF Drops, Empties, KeepsPush, KeepsFile, KeepsMain, InMain
<1>5. CASE \E f \in FPs : Forwards(f)
  <2>1. PICK f \in FPs : Forwards(f)
    BY <1>5
  <2>2. ~Slot(f, 0, p)
    BY <2>1 DEF Slot
  <2> QED
    BY <1>1, <2>1, <2>2 DEF Forwards, KeepsSlots, KeepsFile, KeepsMain, InMain
<1>6. CASE Enters
  <2>0. KeepsFile /\ KeepsPush
    BY <1>6 DEF Enters
  <2>1. CASE p = readPos
    <3>1. Waits(p) /\ ~Through(p)
      BY <1>6, <2>1, Apart DEF Waits, InMain, Enters
    <3>2. PICK l \in LBs, k \in Nat : l = LBOf(p) /\ k = LastSlot(l) + 1
      BY OnePath, SlotTypes DEF Threads, Workers
    <3>3. l \in Threads /\ ~Passed(l, k)'
      BY StageNumbers DEF Passed, Threads, Workers
    <3>4. Slot(l, k, p)'
      BY <1>6, <2>1, <3>2, <3>3 DEF Enters
    <3>5. Waits(p)'
      BY <3>3, <3>4 DEF Waits
    <3>6. \A t \in Threads, i \in Nat : Slot(t, i, p)' => ~Passed(t, i)'
      <4> SUFFICES ASSUME NEW t \in Threads, NEW i \in Nat, Slot(t, i, p)' PROVE ~Passed(t, i)'
        OBVIOUS
      <4>1. ~Slot(t, i, p)
        BY <1>6, <2>1, OneSlot DEF InMain, Enters
      <4>2. t = l /\ i = k
        BY <1>6, <3>2, <4>1 DEF Enters
      <4> QED BY <3>3, <4>2
    <3>7. ~InFile(p)'
      BY <2>0, <3>1 DEF KeepsFile, Through
    <3> QED BY <3>1, <3>5, <3>6, <3>7 DEF Through
  <2>2. CASE p # readPos
    BY <1>1, <1>6, <2>0, <2>2 DEF Enters, KeepsPush, KeepsFile, InMain
  <2> QED BY <2>1, <2>2
<1>7. ASSUME NEW v \in Threads, Pops(v)
      PROVE  (Waits(p)' <=> Waits(p)) /\ (Through(p)' <=> Through(p))
  <2>1. /\ \A t \in Threads, i \in Nat : Slot(t, i, p)' <=> Slot(t, IF t = v THEN i + 1 ELSE i, p)
        /\ ~Slot(v, 0, p) /\ pc[v] = "pop"
    BY <1>7 DEF Pops
  <2>2. \A f \in FPs : pc'[f] = "push" <=> pc[f] = "push"
    BY <1>7 DEF Pops, KeepsPush
  <2>3. \A t \in Threads, i \in Nat : Passed(t, i)' <=> Passed(t, IF t = v THEN i + 1 ELSE i)
    BY <2>1, <2>2 DEF Passed
  <2>4. \A t \in Threads, i \in Nat :
          Slot(t, i, p) => \E j \in Nat : i = IF t = v THEN j + 1 ELSE j
    <3> SUFFICES ASSUME NEW t \in Threads, NEW i \in Nat, Slot(t, i, p)
                 PROVE  \E j \in Nat : i = IF t = v THEN j + 1 ELSE j
      OBVIOUS
    <3>1. CASE t = v
      <4>1. i # 0
        BY <2>1, <3>1
      <4>2. i - 1 \in Nat /\ i = (i - 1) + 1
        BY <4>1
      <4> QED BY <3>1, <4>2
    <3> QED BY <3>1
  <2>5. (InFile(p)' <=> InFile(p)) /\ (InMain(p)' <=> InMain(p))
    BY <1>7 DEF Pops, KeepsFile, KeepsMain, InMain
  <2>6. \A t \in Threads, i \in Nat : (IF t = v THEN i + 1 ELSE i) \in Nat
    OBVIOUS
  <2>7. (\E t \in Threads, i \in Nat : Slot(t, i, p)' /\ ~Passed(t, i)')
          <=> \E t \in Threads, i \in Nat : Slot(t, i, p) /\ ~Passed(t, i)
    BY <2>1, <2>3, <2>4, <2>6
  <2>8. (\E t \in Threads, i \in Nat : Slot(t, i, p)' /\ Passed(t, i)')
          <=> \E t \in Threads, i \in Nat : Slot(t, i, p) /\ Passed(t, i)
    BY <2>1, <2>3, <2>4, <2>6
  <2> QED BY <2>5, <2>7, <2>8 DEF Waits, Through
<1>8. ASSUME NEW w \in Workers, Passes(w)
      PROVE  (Waits(p)' <=> Waits(p)) /\ (Through(p)' <=> Through(p))
  <2>0. (InFile(p)' <=> InFile(p)) /\ (InMain(p)' <=> InMain(p))
    BY <1>8 DEF Passes, KeepsFile, KeepsMain, InMain
  <2>1. CASE p # hand[w]
    <3>1. ~Slot(w, 0, p)
      BY <2>1 DEF Slot
    <3> QED BY <1>1, <1>8, <2>0, <2>1, <3>1 DEF Passes
  <2>2. CASE p = hand[w]
    <3>1. Slot(w, 0, p) /\ (w \in LBs \/ w \in FPs) /\ w \in Threads
      BY <1>0, <2>2, SlotTypes
    <3>2. (w \in LBs => Target(w, p) \in FPs) /\ (w \in FPs => Target(w, p) = Out)
      <4>1. w \in LBs => w = LBOf(p)
        BY <3>1, OnePath, StageNumbers DEF OnPath, OrderInv
      <4> QED BY <4>1, OnePath
    <3>3. PICK g \in Threads, k \in Nat : g = Target(w, p) /\ k = LastSlot(g) + 1
      BY <1>0, <3>1, <3>2, SlotTypes
    <3>4. k # 0
      BY <3>3, SlotTypes
    <3>5. Passed(w, 0) <=> w \in FPs
      BY <1>0, <1>8, <3>1 DEF Passed, Passes
    <3>6. Passed(g, k)' <=> w \in FPs
      BY <1>0, <3>1, <3>2, <3>3, <3>4 DEF Passed
    <3>7. ~InFile(p) /\ ~InMain(p) /\ \A t \in Threads, i \in Nat : Slot(t, i, p) <=> t = w /\ i = 0
      BY <3>1, OneSlot
    <3>8. \A t \in Threads, i \in Nat : Slot(t, i, p)' <=> t = g /\ i = k
      BY <1>8, <2>2, <3>3, <3>7 DEF Passes
    <3>9. (Waits(p) <=> w \notin FPs) /\ (Through(p) <=> w \in FPs)
      BY <3>1, <3>5, <3>7 DEF Waits, Through
    <3>10. (Waits(p)' <=> w \notin FPs) /\ (Through(p)' <=> w \in FPs)
      BY <2>0, <3>6, <3>7, <3>8 DEF Waits, Through
    <3> QED BY <3>9, <3>10
  <2> QED BY <2>1, <2>2
<1>9. CASE Writes
  <2>1. /\ \A u \in Threads, i \in Nat : Slot(u, i, p)' <=> Slot(u, i, p) /\ ~(u = Out /\ i = 0)
        /\ InFile(p)' <=> InFile(p) \/ p = hand[Out]
        /\ InMain(p)' <=> InMain(p)
        /\ \A f \in FPs : pc'[f] = "push" <=> pc[f] = "push"
    BY <1>9 DEF Writes, Empties, KeepsMain, KeepsPush, InMain
  <2>2. \A t \in Threads, i \in Nat : Passed(t, i)' <=> Passed(t, i)
    BY <2>1 DEF Passed
  <2>3. Slot(Out, 0, p) <=> p = hand[Out]
    BY DEF Slot
  <2>4. Passed(Out, 0)
    BY DEF Passed
  <2> QED BY <1>0, <2>1, <2>2, <2>3, <2>4 DEF Waits, Through
<1> QED BY <1>2, <1>3, <1>4, <1>5, <1>6, <1>7, <1>8, <1>9, Moves

\* The steps that read, drop or let through a packet move that packet alone.
LEMMA SidesMoved ==
  ASSUME OInv, [Next]_vars
  PROVE  /\ \A x \in Indices :
              Reads /\ x = readPos + 1 => ~Waits(x) /\ Waits(x)' /\ ~Through(x) /\ ~Through(x)'
         /\ \A f \in FPs : Drops(f) \/ Forwards(f) =>
              /\ hand[f] \in Indices /\ Waits(hand[f]) /\ ~Through(hand[f])
              /\ \E x \in Indices : x = hand[f] /\ ~Waits(x)' /\ (Through(x)' <=> Forwards(f))
<1> USE DEF OInv
<1>0. /\ Indices \subseteq Nat /\ readPos \in Nat
      /\ \A f \in FPs : f \in Threads /\ f # Out
  BY SlotTypes, StageNumbers DEF Threads, Workers
<1>1. ASSUME Reads, NEW x \in Indices, x = readPos + 1
      PROVE  ~Waits(x) /\ Waits(x)' /\ ~Through(x) /\ ~Through(x)'
  <2>1. ~(x <= readPos) /\ ~InMain(x)
    BY <1>0, <1>1 DEF InMain, Reads
  <2>2. ~InFile(x) /\ \A t \in Threads, i \in Nat : ~Slot(t, i, x)
    BY <2>1 DEF OrderInv, ReadBefore
  <2>3. InMain(x)' /\ ~InFile(x)' /\ \A t \in Threads, i \in Nat : ~Slot(t, i, x)'
    BY <1>1, <2>2 DEF Reads, InMain, KeepsFile, KeepsSlots
  <2> QED BY <2>1, <2>2, <2>3 DEF Waits, Through
<1>2. ASSUME NEW f \in FPs, Drops(f) \/ Forwards(f)
      PROVE  /\ hand[f] \in Indices /\ Waits(hand[f]) /\ ~Through(hand[f])
             /\ \E x \in Indices : x = hand[f] /\ ~Waits(x)' /\ (Through(x)' <=> Forwards(f))
  <2>1. PICK x \in Indices : x = hand[f]
    BY <1>2 DEF Drops, Forwards
  <2>2. Slot(f, 0, x) /\ pc[f] = "process" /\ f \in Threads /\ f # Out
    BY <1>0, <1>2, <2>1, SlotTypes DEF Drops, Forwards
  <2>3. /\ ~InFile(x) /\ ~InMain(x)
        /\ \A t \in Threads, i \in Nat : Slot(t, i, x) <=> t = f /\ i = 0
    BY <2>2, OneSlot
  <2>4. ~Passed(f, 0)
    BY <2>2 DEF Passed
  <2>5. Waits(x) /\ ~Through(x)
    BY <2>2, <2>3, <2>4 DEF Waits, Through
  <2>6. KeepsFile /\ KeepsMain
    BY <1>2 DEF Drops, Forwards
  <2>7. ~InFile(x)' /\ ~InMain(x)'
    BY <2>3, <2>6 DEF KeepsFile, KeepsMain, InMain
  <2>8. CASE Drops(f)
    <3>1. ~Forwards(f)
      <4>1. stats.forwarded \in Nat
        BY DEF SInv, TInv, TypeOK
      <4> QED BY <2>8, <4>1 DEF Drops, Forwards, Counts
    <3>2. \A t \in Threads, i \in Nat : ~Slot(t, i, x)'
      BY <2>3, <2>8 DEF Drops, Empties
    <3> QED BY <2>1, <2>5, <2>7, <3>1, <3>2 DEF Waits, Through
  <2>9. CASE Forwards(f)
    <3>1. \A t \in Threads, i \in Nat : Slot(t, i, x)' <=> t = f /\ i = 0
      BY <2>3, <2>9 DEF Forwards, KeepsSlots
    <3>2. Passed(f, 0)'
      BY <2>9 DEF Forwards, Passed
    <3> QED BY <2>1, <2>2, <2>5, <2>7, <2>9, <3>1, <3>2 DEF Waits, Through
  <2> QED BY <1>2, <2>8, <2>9
<1> QED BY <1>1, <1>2

OthersStay(x) ==
  \A p \in Indices : p # x => (Waits(p)' <=> Waits(p)) /\ (Through(p)' <=> Through(p))

\* An FP that drops or lets through a packet moves that packet alone.
LEMMA OneMoves ==
  ASSUME OInv, [Next]_vars, NEW f \in FPs, Drops(f) \/ Forwards(f)
  PROVE  \E x \in Indices : /\ x = hand[f] /\ Waits(x) /\ ~Through(x)
                           /\ ~Waits(x)' /\ (Through(x)' <=> Forwards(f))
                           /\ OthersStay(x)
<1> USE DEF OInv
<1>0. Indices \subseteq Nat /\ readPos \in Nat
  BY SlotTypes
<1>1. readPos' = readPos
  BY DEF Drops, Forwards, KeepsMain
<1>3. PICK x \in Indices : /\ x = hand[f] /\ Waits(x) /\ ~Through(x)
                           /\ ~Waits(x)' /\ (Through(x)' <=> Forwards(f))
  BY SidesMoved
<1>4. ASSUME NEW p \in Indices, p # x
      PROVE  (Waits(p)' <=> Waits(p)) /\ (Through(p)' <=> Through(p))
  <2>1. ~(Reads /\ p = readPos + 1)
    BY <1>0, <1>1 DEF Reads
  <2>2. ~(\E g \in FPs : (Drops(g) \/ Forwards(g)) /\ p = hand[g])
    <3> SUFFICES ASSUME NEW g \in FPs, Drops(g) \/ Forwards(g), p = hand[g] PROVE FALSE
      OBVIOUS
    <3>1. PICK y \in Indices : y = hand[g] /\ Waits(y) /\ ~Waits(y)'
      BY SidesMoved
    <3>2. g # f /\ g \in Threads /\ f \in Threads
      BY <1>3, <1>4 DEF Threads, Workers
    <3>3. Slot(g, 0, p) /\ Slot(f, 0, x)
      BY <1>3, SlotTypes, <3>2
    <3>4. Slot(g, 0, p)' 
      BY <1>3, <3>2, <3>3 DEF Drops, Forwards, KeepsSlots, Empties
    <3>5. pc[g] = "process" /\ g # Out
      BY StageNumbers DEF Drops, Forwards
    <3> QED BY <1>3, <3>2, <3>3, <3>4, <3>5 DEF Drops, Forwards, KeepsSlots, Empties
  <2> QED BY <2>1, <2>2, SidesKept
<1> QED BY <1>3, <1>4 DEF OthersStay

\* What is counted as forwarded was let through, and what was read waits or is counted.
CountKept ==
  /\ stats.forwarded = Cardinality(LetThrough)
  /\ Cardinality(ReadSoFar) = stats.forwarded + stats.dropped + Cardinality(Waiting)

\* What was read so far is finitely much, and the other two sets are part of it.
LEMMA FinitelyMany ==
  ASSUME OInv
  PROVE  /\ IsFiniteSet(ReadSoFar) /\ IsFiniteSet(Waiting) /\ IsFiniteSet(LetThrough)
         /\ Waiting \subseteq ReadSoFar /\ LetThrough \subseteq ReadSoFar
         /\ Cardinality(ReadSoFar) \in Nat /\ Cardinality(Waiting) \in Nat
         /\ Cardinality(LetThrough) \in Nat
         /\ stats.forwarded \in Nat /\ stats.dropped \in Nat
<1> USE DEF OInv, OrderInv
<1>1. IsFiniteSet(ReadSoFar)
  <2>1. IsFiniteSet(1..readPos)
    BY SlotTypes, FS_Interval
  <2>2. ReadSoFar \subseteq 1..readPos
    BY SlotTypes DEF ReadSoFar
  <2> QED BY <2>1, <2>2, FS_Subset
<1>2. Waiting \subseteq ReadSoFar /\ LetThrough \subseteq ReadSoFar
  <2>1. SlotSets
    BY SetsAsSlots
  <2>2. ASSUME NEW p \in Indices, Waits(p) \/ Through(p)
        PROVE  p <= readPos
    BY <2>2, SlotTypes DEF Waits, Through, InMain, ReadBefore
  <2> QED BY <2>1, <2>2 DEF SlotSets, ReadSoFar
<1>3. stats.forwarded \in Nat /\ stats.dropped \in Nat
  BY DEF SInv, TInv, TypeOK
<1> QED BY <1>1, <1>2, <1>3, FS_Subset, FS_CardinalityType

\* Reading, dropping and letting through change the counters as they change the sets.
LEMMA CountKeptStep ==
  ASSUME OInv, CountKept, [Next]_vars
  PROVE  CountKept'
<1> USE DEF OInv
<1>0. /\ Waiting = {p \in Indices : Waits(p)} /\ LetThrough = {p \in Indices : Through(p)}
      /\ Waiting' = {p \in Indices : Waits(p)'} /\ LetThrough' = {p \in Indices : Through(p)'}
      /\ ReadSoFar = {p \in Indices : p <= readPos}
      /\ ReadSoFar' = {p \in Indices : p <= readPos'}
      /\ Indices \subseteq Nat /\ readPos \in Nat
  BY SetsAsSlots, SetsAfterStep, OnePath, SlotTypes DEF SlotSets, ReadSoFar
<1>1. ASSUME UNCHANGED <<Waiting, LetThrough, ReadSoFar>>, Counts(0, 0)
      PROVE  CountKept'
  BY <1>1, FinitelyMany DEF CountKept, Counts
<1>2. CASE Reads
  <2>1. Counts(0, 0) /\ readPos' = readPos + 1
    BY <1>2 DEF Reads
  <2>2. CASE readPos + 1 \notin Indices
    <3>1. Waiting' = Waiting /\ LetThrough' = LetThrough
      <4>1. \A p \in Indices : (Waits(p)' <=> Waits(p)) /\ (Through(p)' <=> Through(p))
        <5> SUFFICES ASSUME NEW p \in Indices
                     PROVE  (Waits(p)' <=> Waits(p)) /\ (Through(p)' <=> Through(p))
          OBVIOUS
        <5>1. p # readPos + 1
          BY <2>2
        <5>2. ~(\E f \in FPs : (Drops(f) \/ Forwards(f)) /\ p = hand[f])
          BY <1>2, <1>0, <2>1 DEF Drops, Forwards, KeepsMain
        <5> QED BY <5>1, <5>2, SidesKept
      <4> QED BY <1>0, <4>1
    <3>2. ReadSoFar' = ReadSoFar
      <4>1. \A p \in Indices : p <= readPos + 1 <=> p <= readPos
        BY <1>0, <2>2
      <4> QED BY <1>0, <2>1, <4>1
    <3> QED BY <1>1, <2>1, <3>1, <3>2
  <2>3. CASE readPos + 1 \in Indices
    <3>1. PICK x \in Indices : x = readPos + 1
      BY <2>3
    <3>2. ~Waits(x) /\ Waits(x)' /\ ~Through(x) /\ ~Through(x)'
      BY <1>2, <3>1, SidesMoved
    <3>3. ASSUME NEW p \in Indices, p # x
          PROVE  (Waits(p)' <=> Waits(p)) /\ (Through(p)' <=> Through(p))
      <4>1. ~(\E f \in FPs : (Drops(f) \/ Forwards(f)) /\ p = hand[f])
        BY <1>2, <1>0, <2>1 DEF Drops, Forwards, KeepsMain
      <4> QED BY <3>1, <3>3, <4>1, SidesKept
    <3>4. Waiting' = Waiting \cup {x} /\ x \notin Waiting /\ LetThrough' = LetThrough
      BY <1>0, <3>2, <3>3
    <3>5. ReadSoFar' = ReadSoFar \cup {x} /\ x \notin ReadSoFar
      <4>1. \A p \in Indices : p <= readPos + 1 <=> p <= readPos \/ p = x
        BY <1>0, <3>1
      <4>2. ~(x <= readPos)
        BY <1>0, <3>1
      <4>3. ReadSoFar' = {p \in Indices : p <= readPos + 1}
        BY <1>0, <2>1
      <4>4. \A p : p \in ReadSoFar' <=> p \in Indices /\ (p <= readPos \/ p = x)
        BY <4>1, <4>3
      <4>5. \A p : p \in ReadSoFar <=> p \in Indices /\ p <= readPos
        BY <1>0
      <4> QED BY <4>2, <4>4, <4>5
    <3>6. /\ Cardinality(Waiting') = Cardinality(Waiting) + 1
          /\ Cardinality(ReadSoFar') = Cardinality(ReadSoFar) + 1
      BY <3>4, <3>5, FinitelyMany, FS_AddElement
    <3> QED BY <2>1, <3>4, <3>6, FinitelyMany DEF CountKept, Counts
  <2> QED BY <2>2, <2>3
<1>3. ASSUME NEW f \in FPs, Drops(f) \/ Forwards(f)
      PROVE  CountKept'
  <2>1. readPos' = readPos
    BY <1>3 DEF Drops, Forwards, KeepsMain
  <2>2. ReadSoFar' = ReadSoFar
    BY <1>0, <2>1
  <2>3. PICK x \in Indices : /\ x = hand[f] /\ Waits(x) /\ ~Through(x)
                             /\ ~Waits(x)' /\ (Through(x)' <=> Forwards(f))
                             /\ OthersStay(x)
    BY <1>3, OneMoves
  <2>4. \A p \in Indices : p # x => (Waits(p)' <=> Waits(p)) /\ (Through(p)' <=> Through(p))
    BY <2>3 DEF OthersStay
  <2>5. Waiting' = Waiting \ {x} /\ x \in Waiting
    BY <1>0, <2>3, <2>4
  <2>6. Cardinality(Waiting') = Cardinality(Waiting) - 1
    BY <2>5, FinitelyMany, FS_RemoveElement
  <2>7. CASE Forwards(f)
    <3>1. LetThrough' = LetThrough \cup {x} /\ x \notin LetThrough
      BY <1>0, <2>3, <2>4, <2>7
    <3>2. Cardinality(LetThrough') = Cardinality(LetThrough) + 1
      BY <3>1, FinitelyMany, FS_AddElement
    <3> QED BY <2>2, <2>6, <2>7, <3>2, FinitelyMany DEF CountKept, Counts, Forwards
  <2>8. CASE ~Forwards(f)
    <3>1. LetThrough' = LetThrough
      BY <1>0, <2>3, <2>4, <2>8
    <3>2. Counts(0, 1)
      BY <1>3, <2>8 DEF Drops
    <3> QED BY <2>2, <2>6, <3>1, <3>2, FinitelyMany DEF CountKept, Counts
  <2> QED BY <2>7, <2>8
<1>4. ASSUME ~Reads, ~(\E f \in FPs : Drops(f) \/ Forwards(f))
      PROVE  CountKept'
  <2>1. \A p \in Indices : (Waits(p)' <=> Waits(p)) /\ (Through(p)' <=> Through(p))
    BY <1>4, SidesKept
  <2>2. Counts(0, 0) /\ readPos' = readPos
    BY <1>4, Moves DEF Rests, Enters, Pops, Passes, Writes, KeepsMain
  <2>3. UNCHANGED <<Waiting, LetThrough, ReadSoFar>>
    BY <1>0, <2>1, <2>2
  <2> QED BY <1>1, <2>2, <2>3
<1> QED BY <1>2, <1>3, <1>4

\* Nothing vanishes between the threads: what was read waits, was dropped or was let
\* through, each packet in one place, and when process() returns true what waits is in
\* the queue of an LB or FP that was stopped before it got there.
THEOREM PacketsAccountedFor == Spec => []NothingVanishes
<1>1. OInv /\ CountKept => NothingVanishes
  <2> SUFFICES ASSUME OInv, CountKept PROVE NothingVanishes
    OBVIOUS
  <2> USE DEF OInv, SInv, TInv
  <2>1. Waiting \cap LetThrough = {}
    BY SetsAsSlots, Apart DEF SlotSets
  <2>2. ASSUME mainPc = "returnTrue"
        PROVE  Waiting = Queued(Workers)
    <3>1. \A t \in Threads : pc[t] = "done"
      BY <2>2 DEF StopOrder, Joined, OutputTold, Threads
    <3>2. \A t \in Threads : hand[t] = None
      BY <3>1 DEF TypeOK
    <3>3. LBs \subseteq Threads /\ FPs \subseteq Threads
      BY DEF Threads, Workers
    <3>4. Held(LBs) = {} /\ {f \in FPs : pc[f] = "process"} = {}
      BY <3>1, <3>2, <3>3 DEF Held
    <3> QED BY <2>2, <3>4 DEF Waiting
  <2> QED BY <2>1, <2>2 DEF NothingVanishes, CountKept
<1>2. Init => OInv /\ CountKept
  <2> SUFFICES ASSUME Init PROVE OInv /\ CountKept
    OBVIOUS
  <2>1. OInv
    BY InitOInv
  <2>2. \A p \in Indices : ~InMain(p) /\ ~InFile(p) /\ \A t \in Threads, i \in Nat : ~Slot(t, i, p)
    <3>1. None \notin Indices
      BY <2>1, SlotTypes DEF OInv, None
    <3> QED BY <3>1 DEF Init, InMain, InFile, Slot, NewQueue
  <2>3. Waiting = {} /\ LetThrough = {}
    BY <2>1, <2>2, SetsAsSlots DEF SlotSets, Waits, Through
  <2>4. ReadSoFar = {}
    <3>1. readPos = 0 /\ \A i \in Indices : i \in Nat /\ i # 0
      BY <2>1, SlotTypes DEF OInv, Init
    <3> QED BY <3>1 DEF ReadSoFar
  <2>5. Cardinality({}) = 0
    BY FS_EmptySet
  <2>6. stats.forwarded = 0 /\ stats.dropped = 0
    BY DEF Init
  <2> QED BY <2>1, <2>3, <2>4, <2>5, <2>6 DEF CountKept
<1>3. OInv /\ CountKept /\ [Next]_vars => OInv' /\ CountKept'
  BY OInvStep, CountKeptStep
<1> QED BY <1>1, <1>2, <1>3, PTL DEF Spec

-----------------------------------------------------------------------------
(***************************************************************************)
(* The run of main_working.cpp, packet by packet.                           *)
(***************************************************************************)

\* A set of numbers has a least member: what a property of all numbers is proved by.
LEMMA LeastMember ==
  ASSUME NEW S \in SUBSET Nat, S # {}
  PROVE  \E m \in S : \A n \in S : m <= n
<1> DEFINE R == OpToRel(<, Nat)
<1>1. \A m, n \in Nat : <<n, m>> \in R <=> n < m
  BY DEF OpToRel
<1>2. IsWellFoundedOn(R, Nat)
  BY NatLessThanWellFounded
<1> HIDE DEF R
<1>3. PICK m \in S : \A n \in S : <<n, m>> \notin R
  BY <1>2, WFMin
<1>4. \A n \in S : ~(n < m)
  BY <1>1, <1>3
<1> QED BY <1>4

\* f[n] is what main_working.cpp leaves after n packets, for n up to m.
RunsUpTo(r, c, f, m) ==
  f = [n \in 0..m |-> IF n = 0 THEN NoPackets ELSE OnPacket(r, f[n - 1], c[n], n)]

\* The recursion that defines the run has a solution.
LEMMA RunExists ==
  ASSUME NEW r, NEW c, NEW m \in Nat
  PROVE  \E f : RunsUpTo(r, c, f, m)
<1> DEFINE S == {k \in Nat : ~\E f : RunsUpTo(r, c, f, k)}
<1> SUFFICES ASSUME S # {} PROVE FALSE
  OBVIOUS
<1>1. PICK k \in S : \A n \in S : k <= n
  BY LeastMember
<1>2. k \in Nat /\ ~\E f : RunsUpTo(r, c, f, k)
  OBVIOUS
<1>3. k # 0
  <2> DEFINE f == [n \in 0..0 |-> NoPackets]
  <2>1. RunsUpTo(r, c, f, 0)
    <3>1. \A n \in 0..0 : n = 0
      OBVIOUS
    <3> QED BY <3>1 DEF RunsUpTo
  <2> QED BY <1>2, <2>1
<1>4. k - 1 \in Nat /\ ~(k <= k - 1)
  BY <1>2, <1>3
<1>5. PICK g : RunsUpTo(r, c, g, k - 1)
  BY <1>1, <1>4
<1> DEFINE f == [n \in 0..k |-> IF n = k THEN OnPacket(r, g[k - 1], c[k], k) ELSE g[n]]
<1> HIDE DEF S
<1>6. \A n \in 0..k : f[n] = IF n = k THEN OnPacket(r, g[k - 1], c[k], k) ELSE g[n]
  OBVIOUS
<1>7. \A n \in 0..(k - 1) : g[n] = IF n = 0 THEN NoPackets ELSE OnPacket(r, g[n - 1], c[n], n)
  BY <1>5 DEF RunsUpTo
<1>8. \A n \in 0..k : f[n] = IF n = 0 THEN NoPackets ELSE OnPacket(r, f[n - 1], c[n], n)
  <2> SUFFICES ASSUME NEW n \in 0..k
               PROVE  f[n] = IF n = 0 THEN NoPackets ELSE OnPacket(r, f[n - 1], c[n], n)
    OBVIOUS
  <2> HIDE DEF f
  <2>1. CASE n = k
    <3>1. k - 1 \in 0..k /\ k - 1 # k
      BY <1>2, <1>4
    <3>2. f[k - 1] = g[k - 1]
      BY <1>6, <3>1
    <3> QED BY <1>3, <1>6, <2>1, <3>2
  <2>2. CASE n = 0
    <3>1. 0 \in 0..(k - 1) /\ n # k
      BY <1>3, <1>4, <2>2
    <3> QED BY <1>6, <1>7, <2>2, <3>1
  <2>3. CASE n # 0 /\ n # k
    <3>1. n \in 0..(k - 1) /\ n - 1 \in 0..k /\ n - 1 # k
      BY <1>2, <2>3
    <3>2. f[n - 1] = g[n - 1] /\ f[n] = g[n]
      BY <1>6, <2>3, <3>1
    <3> QED BY <1>7, <2>3, <3>1, <3>2
  <2> QED BY <2>1, <2>2, <2>3
<1>9. f = [n \in 0..k |-> f[n]]
  OBVIOUS
<1> HIDE DEF f
<1>10. RunsUpTo(r, c, f, k)
  BY <1>8, <1>9 DEF RunsUpTo
<1> QED BY <1>2, <1>10

\* So the run is what its definition says.
LEMMA RunUnfolds ==
  ASSUME NEW r, NEW c, Len(c) \in Nat
  PROVE  /\ SequentialRun(r, c)[0] = NoPackets
         /\ \A n \in 1..Len(c) :
              SequentialRun(r, c)[n] = OnPacket(r, SequentialRun(r, c)[n - 1], c[n], n)
<1> DEFINE run == SequentialRun(r, c)
<1>1. run = CHOOSE f : RunsUpTo(r, c, f, Len(c))
  BY DEF SequentialRun, RunsUpTo
<1>2. RunsUpTo(r, c, run, Len(c))
  BY <1>1, RunExists
<1> HIDE DEF run
<1>3. \A n \in 0..Len(c) : run[n] = IF n = 0 THEN NoPackets ELSE OnPacket(r, run[n - 1], c[n], n)
  BY <1>2 DEF RunsUpTo
<1>4. 0 \in 0..Len(c) /\ \A n \in 1..Len(c) : n \in 0..Len(c) /\ n # 0
  OBVIOUS
<1> QED BY <1>3, <1>4 DEF run

-----------------------------------------------------------------------------
(***************************************************************************)
(* One packet.  Both engines give the flow of a packet the same name and    *)
(* the same application, though one stops looking for a name when the flow  *)
(* is classified and the other when the flow has one.                       *)
(***************************************************************************)

SequentialFlowType ==
  [app_type : AppTypes, sni : Names \cup {""}, packets : Nat, blocked : BOOLEAN]

\* main_working.cpp takes the name of the packet for the flow.
TakesHello(flow, p) ==
  /\ flow.app_type \in {"Unknown", "HTTPS"} /\ flow.sni = "" /\ p.tuple.protocol = "TCP"
  /\ p.tuple.dst_port = 443 /\ p.payload_length > 5 /\ p.hello # NoName
TakesHost(flow, p) ==
  /\ flow.app_type \in {"Unknown", "HTTP"} /\ flow.sni = "" /\ p.tuple.protocol = "TCP"
  /\ p.tuple.dst_port = 80 /\ p.host # NoName

\* dpi_mt.cpp does, when the flow is not classified.
ClassifiesHello(p) == p.tuple.dst_port = 443 /\ p.payload_length > 5 /\ p.hello # NoName
ClassifiesHost(p)  == p.tuple.dst_port = 80 /\ p.payload_length > 10 /\ p.host # NoName

\* The name and the application a flow gets, hello and host saying whether a name is
\* taken, from a flow with the name sni and the application app.
NameOf(hello, host, p, sni) == IF hello THEN p.hello ELSE IF host THEN p.host ELSE sni

ServerApp(p, app) ==
  IF p.tuple.dst_port = 443 THEN "HTTPS" ELSE IF p.tuple.dst_port = 80 THEN "HTTP" ELSE app

SequentialName(flow, p) == NameOf(TakesHello(flow, p), TakesHost(flow, p), p, flow.sni)

SequentialApp(flow, p) ==
  IF TakesHello(flow, p) THEN AppOf[p.hello]
  ELSE IF TakesHost(flow, p) THEN AppOf[p.host]
  ELSE IF flow.app_type # "Unknown" THEN flow.app_type
  ELSE IF IsDns(p) THEN "DNS" ELSE ServerApp(p, "Unknown")

\* The fields of a flow of main_working.cpp.
Fields(flow, app, name, packets, blocked) ==
  /\ flow \in SequentialFlowType
  /\ flow.app_type = app /\ flow.sni = name /\ flow.packets = packets /\ flow.blocked = blocked

WithPacket(flow)     == [flow EXCEPT !.packets = @ + 1]
WithVerdict(flow, b) == [flow EXCEPT !.blocked = b]

\* What the four updates of a flow do to its fields.
LEMMA SequentialUpdates ==
  ASSUME NEW flow \in SequentialFlowType
  PROVE  /\ Fields(WithPacket(flow), flow.app_type, flow.sni, flow.packets + 1, flow.blocked)
         /\ \A name \in Names \cup {""} :
              Fields(WithName(flow, name), AppOf[name], name, flow.packets, flow.blocked)
         /\ \A app \in AppTypes :
              Fields(WithApp(flow, app), app, flow.sni, flow.packets, flow.blocked)
         /\ \A b \in BOOLEAN :
              Fields(WithVerdict(flow, b), flow.app_type, flow.sni, flow.packets, b)
<1>1. Fields(WithPacket(flow), flow.app_type, flow.sni, flow.packets + 1, flow.blocked)
  <2>1. flow.packets + 1 \in Nat
    <3>1. flow.packets \in Nat
      BY DEF SequentialFlowType
    <3> QED BY <3>1
  <2>2. WithPacket(flow) = [flow EXCEPT !.packets = flow.packets + 1]
    BY DEF WithPacket
  <2>3. ASSUME NEW n \in Nat
        PROVE  /\ [flow EXCEPT !.packets = n] \in SequentialFlowType
               /\ [flow EXCEPT !.packets = n].packets = n
               /\ [flow EXCEPT !.packets = n].sni = flow.sni
               /\ [flow EXCEPT !.packets = n].app_type = flow.app_type
               /\ [flow EXCEPT !.packets = n].blocked = flow.blocked
    BY DEF SequentialFlowType
  <2> QED BY <2>1, <2>2, <2>3 DEF Fields
<1>2. ASSUME NEW name \in Names \cup {""}
      PROVE  Fields(WithName(flow, name), AppOf[name], name, flow.packets, flow.blocked)
  <2>1. AppOf[name] \in AppTypes
    BY DEF AppTypes
  <2> QED BY <2>1 DEF SequentialFlowType, Fields, WithName
<1>3. ASSUME NEW app \in AppTypes
      PROVE  Fields(WithApp(flow, app), app, flow.sni, flow.packets, flow.blocked)
  BY DEF SequentialFlowType, Fields, WithApp
<1>4. ASSUME NEW b \in BOOLEAN
      PROVE  Fields(WithVerdict(flow, b), flow.app_type, flow.sni, flow.packets, b)
  BY DEF SequentialFlowType, Fields, WithVerdict
<1> QED BY <1>1, <1>2, <1>3, <1>4

\* What main_working.cpp makes of the flow of a packet, field by field.
LEMMA SequentialFields ==
  ASSUME NEW r, NEW flow \in SequentialFlowType, NEW p \in PacketType,
         p.hello # "", p.host # ""
  PROVE  Fields(SequentialFlow(r, flow, p),
                SequentialApp(flow, p), SequentialName(flow, p), flow.packets + 1,
                flow.blocked \/ IsBlocked(r, p.tuple.src_ip, SequentialApp(flow, p),
                                          SequentialName(flow, p)))
<1> DEFINE counted == WithPacket(flow)
           named   == NamedBy(counted, p)
           seen    == ByPort(named, p)
           name    == SequentialName(flow, p)
           app     == SequentialApp(flow, p)
           b       == flow.blocked \/ IsBlocked(r, p.tuple.src_ip, app, name)
<1>1. Fields(counted, flow.app_type, flow.sni, flow.packets + 1, flow.blocked)
  BY SequentialUpdates
<1>2. SequentialFlow(r, flow, p) =
        [seen EXCEPT !.blocked = @ \/ IsBlocked(r, p.tuple.src_ip, seen.app_type, seen.sni)]
  BY DEF SequentialFlow, WithPacket
<1> HIDE DEF counted
<1>3. /\ TakesHello(counted, p) <=> TakesHello(flow, p)
      /\ TakesHost(counted, p) <=> TakesHost(flow, p)
  BY <1>1 DEF TakesHello, TakesHost, Fields
<1>4. named = IF TakesHello(counted, p) THEN WithName(counted, p.hello)
              ELSE IF TakesHost(counted, p) THEN WithName(counted, p.host)
              ELSE counted
  BY DEF NamedBy, TakesHello, TakesHost
<1> HIDE DEF named
<1>5. /\ TakesHello(flow, p) => p.hello \in Names
      /\ TakesHost(flow, p) => p.host \in Names
  BY NamesFound DEF TakesHello, TakesHost
<1>6. \A n \in Names : /\ AppOf[n] # "Unknown"
                       /\ Fields(WithName(counted, n), AppOf[n], n, flow.packets + 1, flow.blocked)
  <2> SUFFICES ASSUME NEW n \in Names
               PROVE  /\ AppOf[n] # "Unknown"
                      /\ Fields(WithName(counted, n), AppOf[n], n, flow.packets + 1, flow.blocked)
    OBVIOUS
  <2>1. AppOf[n] # "Unknown"
    BY AppAssumption, NamesAssumption
  <2>2. counted \in SequentialFlowType
    BY <1>1 DEF Fields
  <2>3. Fields(WithName(counted, n), AppOf[n], n, counted.packets, counted.blocked)
    BY <2>2, SequentialUpdates
  <2> QED BY <1>1, <2>1, <2>3 DEF Fields
<1>7. Fields(seen, app, name, flow.packets + 1, flow.blocked)
  <2>1. CASE TakesHello(flow, p)
    <3>1. named = WithName(counted, p.hello) /\ p.hello \in Names
      BY <1>3, <1>4, <1>5, <2>1
    <3>2. named.app_type # "Unknown" /\ Fields(named, AppOf[p.hello], p.hello, flow.packets + 1, flow.blocked)
      BY <1>6, <3>1 DEF Fields
    <3>3. seen = named /\ app = AppOf[p.hello] /\ name = p.hello
      BY <2>1, <3>2 DEF ByPort, SequentialApp, SequentialName, NameOf
    <3> QED BY <3>2, <3>3
  <2>2. CASE ~TakesHello(flow, p) /\ TakesHost(flow, p)
    <3>1. named = WithName(counted, p.host) /\ p.host \in Names
      BY <1>3, <1>4, <1>5, <2>2
    <3>2. named.app_type # "Unknown" /\ Fields(named, AppOf[p.host], p.host, flow.packets + 1, flow.blocked)
      BY <1>6, <3>1 DEF Fields
    <3>3. seen = named /\ app = AppOf[p.host] /\ name = p.host
      BY <2>2, <3>2 DEF ByPort, SequentialApp, SequentialName, NameOf
    <3> QED BY <3>2, <3>3
  <2>3. CASE ~TakesHello(flow, p) /\ ~TakesHost(flow, p)
    <3>1. named = counted /\ name = flow.sni
      BY <1>3, <1>4, <2>3 DEF SequentialName, NameOf
    <3>2. named.app_type = flow.app_type /\ named \in SequentialFlowType
      BY <1>1, <3>1 DEF Fields
    <3>3. \A a \in {"DNS", "HTTPS", "HTTP"} :
            Fields(WithApp(named, a), a, name, flow.packets + 1, flow.blocked)
      <4>1. {"DNS", "HTTPS", "HTTP"} \subseteq AppTypes
        BY DEF AppTypes
      <4>2. \A a \in AppTypes : Fields(WithApp(named, a), a, named.sni, named.packets, named.blocked)
        BY <3>2, SequentialUpdates
      <4> QED BY <1>1, <3>1, <4>1, <4>2 DEF Fields
    <3>4. /\ flow.app_type # "Unknown" => seen = named
          /\ flow.app_type = "Unknown" =>
               seen = IF IsDns(p) THEN WithApp(named, "DNS") ELSE ByServerPort(named, p)
      BY <3>2 DEF ByPort
    <3>5. /\ flow.app_type # "Unknown" => app = flow.app_type
          /\ flow.app_type = "Unknown" =>
               app = IF IsDns(p) THEN "DNS" ELSE ServerApp(p, flow.app_type)
      BY <2>3 DEF SequentialApp
    <3>6. Fields(named, flow.app_type, name, flow.packets + 1, flow.blocked)
      BY <1>1, <3>1
    <3> HIDE DEF seen, app, name
    <3>7. Fields(ByServerPort(named, p), ServerApp(p, flow.app_type), name, flow.packets + 1, flow.blocked)
      BY <3>3, <3>6 DEF ByServerPort, ServerApp
    <3> QED BY <3>3, <3>4, <3>5, <3>6, <3>7
  <2> QED BY <2>1, <2>2, <2>3
<1> HIDE DEF seen, app, name
<1>8. b \in BOOLEAN
  BY DEF IsBlocked
<1>9. SequentialFlow(r, flow, p) = WithVerdict(seen, b)
  <2>1. seen \in SequentialFlowType /\ seen.blocked = flow.blocked /\ seen.app_type = app /\ seen.sni = name
    BY <1>7 DEF Fields
  <2> QED BY <1>2, <2>1 DEF WithVerdict, SequentialFlowType
<1>10. Fields(SequentialFlow(r, flow, p), app, name, flow.packets + 1, b)
  <2> HIDE DEF b
  <2>1. seen \in SequentialFlowType
    BY <1>7 DEF Fields
  <2>2. Fields(WithVerdict(seen, b), seen.app_type, seen.sni, seen.packets, b)
    BY <1>8, <2>1, SequentialUpdates
  <2> QED BY <1>7, <1>9, <2>2 DEF Fields
<1> QED BY <1>10 DEF b, name, app

\* The fields of a flow of dpi_mt.cpp.
EntryFields(flow, app, name, packets, blocked, classified) ==
  /\ flow \in FlowType
  /\ flow.app_type = app /\ flow.sni = name /\ flow.packets = packets /\ flow.blocked = blocked
  /\ flow.classified = classified

ThreadsName(flow, p) ==
  IF flow.classified THEN flow.sni ELSE NameOf(ClassifiesHello(p), ClassifiesHost(p), p, flow.sni)

ThreadsApp(flow, p) ==
  IF flow.classified THEN flow.app_type
  ELSE IF ClassifiesHello(p) THEN AppOf[p.hello]
  ELSE IF ClassifiesHost(p) THEN AppOf[p.host]
  ELSE IF IsDns(p) THEN "DNS" ELSE ServerApp(p, flow.app_type)

ThreadsClassified(flow, p) ==
  flow.classified \/ ClassifiesHello(p) \/ ClassifiesHost(p) \/ IsDns(p)

\* What the updates of a flow do to its fields in dpi_mt.cpp.
LEMMA EntryUpdates ==
  ASSUME NEW flow \in FlowType
  PROVE  /\ EntryFields(WithPacket(flow), flow.app_type, flow.sni, flow.packets + 1, flow.blocked,
                        flow.classified)
         /\ \A name \in Names \cup {""} :
              EntryFields(WithName(flow, name), AppOf[name], name, flow.packets, flow.blocked,
                          flow.classified)
         /\ \A app \in AppTypes :
              EntryFields(WithApp(flow, app), app, flow.sni, flow.packets, flow.blocked,
                          flow.classified)
         /\ EntryFields(Classified(flow), flow.app_type, flow.sni, flow.packets, flow.blocked, TRUE)
         /\ \A b \in BOOLEAN :
              EntryFields(WithVerdict(flow, b), flow.app_type, flow.sni, flow.packets, b,
                          flow.classified)
<1>1. EntryFields(WithPacket(flow), flow.app_type, flow.sni, flow.packets + 1, flow.blocked,
                  flow.classified)
  <2>1. flow.packets + 1 \in Nat
    <3>1. flow.packets \in Nat
      BY DEF FlowType
    <3> QED BY <3>1
  <2>2. WithPacket(flow) = [flow EXCEPT !.packets = flow.packets + 1]
    BY DEF WithPacket
  <2>3. ASSUME NEW n \in Nat
        PROVE  /\ [flow EXCEPT !.packets = n] \in FlowType
               /\ [flow EXCEPT !.packets = n].packets = n
               /\ [flow EXCEPT !.packets = n].sni = flow.sni
               /\ [flow EXCEPT !.packets = n].app_type = flow.app_type
               /\ [flow EXCEPT !.packets = n].blocked = flow.blocked
               /\ [flow EXCEPT !.packets = n].classified = flow.classified
    BY DEF FlowType
  <2> QED BY <2>1, <2>2, <2>3 DEF EntryFields
<1>2. ASSUME NEW name \in Names \cup {""}
      PROVE  EntryFields(WithName(flow, name), AppOf[name], name, flow.packets, flow.blocked,
                         flow.classified)
  <2>1. AppOf[name] \in AppTypes
    BY DEF AppTypes
  <2> QED BY <2>1 DEF FlowType, EntryFields, WithName
<1>3. ASSUME NEW app \in AppTypes
      PROVE  EntryFields(WithApp(flow, app), app, flow.sni, flow.packets, flow.blocked,
                         flow.classified)
  BY DEF FlowType, EntryFields, WithApp
<1>4. EntryFields(Classified(flow), flow.app_type, flow.sni, flow.packets, flow.blocked, TRUE)
  BY DEF FlowType, EntryFields, Classified
<1>5. ASSUME NEW b \in BOOLEAN
      PROVE  EntryFields(WithVerdict(flow, b), flow.app_type, flow.sni, flow.packets, b,
                         flow.classified)
  BY DEF FlowType, EntryFields, WithVerdict
<1> QED BY <1>1, <1>2, <1>3, <1>4, <1>5

\* What an FP of dpi_mt.cpp makes of the flow of a packet, field by field.
LEMMA ThreadsFields ==
  ASSUME NEW f, NEW e \in FlowType, NEW p \in PacketType, e = EntryOf(f, p.tuple)
  PROVE  EntryFields(FlowAfter(f, p),
                     ThreadsApp(e, p), ThreadsName(e, p), e.packets + 1,
                     e.blocked \/ IsBlocked(rules, p.tuple.src_ip, ThreadsApp(e, p),
                                            ThreadsName(e, p)),
                     ThreadsClassified(e, p))
<1> DEFINE counted == WithPacket(e)
           seen    == IF counted.classified THEN counted ELSE ClassifyFlow(p, counted)
           name    == ThreadsName(e, p)
           app     == ThreadsApp(e, p)
           done    == ThreadsClassified(e, p)
           b       == e.blocked \/ IsBlocked(rules, p.tuple.src_ip, app, name)
<1>1. EntryFields(counted, e.app_type, e.sni, e.packets + 1, e.blocked, e.classified)
  BY EntryUpdates
<1>2. FlowAfter(f, p) =
        [seen EXCEPT !.blocked = @ \/ IsBlocked(rules, p.tuple.src_ip, seen.app_type, seen.sni)]
  BY DEF FlowAfter, WithPacket
<1> HIDE DEF counted
<1>3. e.classified \in BOOLEAN /\ counted \in FlowType
  BY <1>1 DEF FlowType, EntryFields
<1>4. EntryFields(seen, app, name, e.packets + 1, e.blocked, done)
  <2>1. CASE e.classified
    <3>1. seen = counted
      BY <1>1, <2>1 DEF EntryFields
    <3>2. app = e.app_type /\ name = e.sni /\ done = e.classified
      BY <1>3, <2>1 DEF ThreadsApp, ThreadsName, ThreadsClassified
    <3> QED BY <1>1, <3>1, <3>2
  <2>2. CASE ~e.classified
    <3>1. seen = ClassifyFlow(p, counted)
      BY <1>1, <2>2 DEF EntryFields
    <3>2. ASSUME NEW n \in Names \cup {""}
          PROVE  EntryFields(Classified(WithName(counted, n)), AppOf[n], n, e.packets + 1, e.blocked, TRUE)
      <4>1. EntryFields(WithName(counted, n), AppOf[n], n, counted.packets, counted.blocked,
                        counted.classified)
        BY <1>3, EntryUpdates
      <4>2. EntryFields(WithName(counted, n), AppOf[n], n, e.packets + 1, e.blocked, e.classified)
        BY <1>1, <4>1 DEF EntryFields
      <4> HIDE DEF app, name, done
      <4> QED BY <4>2, EntryUpdates DEF EntryFields
    <3>3. ASSUME NEW a \in {"DNS", "HTTPS", "HTTP"}
          PROVE  EntryFields(WithApp(counted, a), a, e.sni, e.packets + 1, e.blocked, e.classified)
      <4>1. a \in AppTypes
        BY DEF AppTypes
      <4>2. EntryFields(WithApp(counted, a), a, counted.sni, counted.packets, counted.blocked,
                        counted.classified)
        BY <1>3, <4>1, EntryUpdates
      <4> QED BY <1>1, <4>2 DEF EntryFields
    <3>4. CASE ClassifiesHello(p)
      <4>1. p.hello \in Names \cup {""} /\ seen = Classified(WithName(counted, p.hello))
        BY <3>1, <3>4, NamesFound DEF ClassifiesHello, ClassifyFlow
      <4>2. app = AppOf[p.hello] /\ name = p.hello /\ done = TRUE
        BY <2>2, <3>4 DEF ThreadsApp, ThreadsName, NameOf, ThreadsClassified
      <4> HIDE DEF seen, app, name, done
      <4> QED BY <3>2, <4>1, <4>2
    <3>5. CASE ~ClassifiesHello(p) /\ ClassifiesHost(p)
      <4>1. p.host \in Names \cup {""} /\ seen = Classified(WithName(counted, p.host))
        BY <3>1, <3>5, NamesFound DEF ClassifiesHello, ClassifiesHost, ClassifyFlow
      <4>2. app = AppOf[p.host] /\ name = p.host /\ done = TRUE
        BY <2>2, <3>5 DEF ThreadsApp, ThreadsName, NameOf, ThreadsClassified
      <4> HIDE DEF seen, app, name, done
      <4> QED BY <3>2, <4>1, <4>2
    <3>6. CASE ~ClassifiesHello(p) /\ ~ClassifiesHost(p) /\ IsDns(p)
      <4>1. seen = Classified(WithApp(counted, "DNS"))
        BY <3>1, <3>6 DEF ClassifiesHello, ClassifiesHost, ClassifyFlow
      <4>2. app = "DNS" /\ name = e.sni /\ done = TRUE
        BY <2>2, <3>6 DEF ThreadsApp, ThreadsName, NameOf, ThreadsClassified
      <4> HIDE DEF seen, app, name, done
      <4>3. EntryFields(WithApp(counted, "DNS"), "DNS", e.sni, e.packets + 1, e.blocked, e.classified)
        BY <3>3
      <4> QED BY <4>1, <4>2, <4>3, EntryUpdates DEF EntryFields
    <3>7. CASE ~ClassifiesHello(p) /\ ~ClassifiesHost(p) /\ ~IsDns(p)
      <4>1. seen = ByServerPort(counted, p)
        BY <3>1, <3>7 DEF ClassifiesHello, ClassifiesHost, ClassifyFlow
      <4>2. app = ServerApp(p, e.app_type) /\ name = e.sni /\ done = e.classified
        BY <1>3, <2>2, <3>7 DEF ThreadsApp, ThreadsName, NameOf, ThreadsClassified
      <4> HIDE DEF seen, app, name, done
      <4>3. EntryFields(ByServerPort(counted, p), ServerApp(p, e.app_type), e.sni, e.packets + 1,
                        e.blocked, e.classified)
        BY <1>1, <3>3 DEF ByServerPort, ServerApp
      <4> QED BY <4>1, <4>2, <4>3
    <3> QED BY <3>4, <3>5, <3>6, <3>7
  <2> QED BY <2>1, <2>2
<1> HIDE DEF seen, app, name, done
<1>5. b \in BOOLEAN
  BY DEF IsBlocked
<1>6. FlowAfter(f, p) = WithVerdict(seen, b)
  <2>1. seen \in FlowType /\ seen.blocked = e.blocked /\ seen.app_type = app /\ seen.sni = name
    BY <1>4 DEF EntryFields
  <2> QED BY <1>2, <2>1 DEF WithVerdict, FlowType
<1>7. EntryFields(FlowAfter(f, p), app, name, e.packets + 1, b, done)
  <2> HIDE DEF b
  <2>1. seen \in FlowType
    BY <1>4 DEF EntryFields
  <2>2. EntryFields(WithVerdict(seen, b), seen.app_type, seen.sni, seen.packets, b, seen.classified)
    BY <1>5, <2>1, EntryUpdates
  <2> QED BY <1>4, <1>6, <2>2 DEF EntryFields
<1> QED BY <1>7 DEF b, name, app, done

-----------------------------------------------------------------------------
\* What dpi_mt.cpp and main_working.cpp have of the flow of a five-tuple is the same.
\* A flow that dpi_mt.cpp has classified has a name or is DNS; one it has not has no
\* name, and no application but the one of the server's port.
Alike(t, e, flow) ==
  /\ e \in FlowType
  /\ Fields(flow, e.app_type, e.sni, e.packets, e.blocked)
  /\ e.classified <=> e.sni # "" \/ e.app_type = "DNS"
  /\ e.classified => e.app_type # "Unknown"
  /\ ~e.classified => \/ e.app_type = "Unknown"
                      \/ /\ 53 \notin {t.dst_port, t.src_port}
                         /\ \/ e.app_type = "HTTPS" /\ t.dst_port = 443
                            \/ e.app_type = "HTTP" /\ t.dst_port = 80

\* Both engines start a flow alike.
LEMMA NewAlike == \A t : Alike(t, NewFlowEntry, NewFlow)
<1>1. "Unknown" \in AppTypes
  BY AppAssumption DEF AppTypes
<1> QED BY <1>1 DEF Alike, Fields, NewFlowEntry, NewFlow, FlowType, SequentialFlowType

\* And a packet whose name both take in the same way leaves it alike.
LEMMA StaysAlike ==
  ASSUME NEW f, NEW p \in PacketType, NEW flow, WellFormed(p), SeenAlike(p),
         Alike(p.tuple, EntryOf(f, p.tuple), flow)
  PROVE  Alike(p.tuple, FlowAfter(f, p), SequentialFlow(rules, flow, p))
<1> DEFINE e == EntryOf(f, p.tuple)
           t == p.tuple
<1>1. e \in FlowType /\ Alike(t, e, flow)
  BY DEF Alike
<1> HIDE DEF e
<1>2. flow \in SequentialFlowType /\ flow.app_type = e.app_type /\ flow.sni = e.sni
        /\ flow.packets = e.packets /\ flow.blocked = e.blocked
  BY <1>1 DEF Alike, Fields
<1>3. p.hello # "" /\ p.host # ""
  BY NamesAssumption DEF SeenAlike
<1>4. EntryFields(FlowAfter(f, p), ThreadsApp(e, p), ThreadsName(e, p), e.packets + 1,
                  e.blocked \/ IsBlocked(rules, t.src_ip, ThreadsApp(e, p), ThreadsName(e, p)),
                  ThreadsClassified(e, p))
  BY <1>1, ThreadsFields DEF e
<1>5. Fields(SequentialFlow(rules, flow, p),
             SequentialApp(flow, p), SequentialName(flow, p), flow.packets + 1,
             flow.blocked \/ IsBlocked(rules, t.src_ip, SequentialApp(flow, p),
                                       SequentialName(flow, p)))
  BY <1>2, <1>3, SequentialFields
<1>6. /\ p.hello # NoName => p.hello \in Names /\ p.tuple.protocol = "TCP"
      /\ p.host # NoName => p.host \in Names /\ p.tuple.protocol = "TCP" /\ p.payload_length > 10
  BY <1>3, NamesFound DEF SeenAlike, WellFormed
<1>7. \A n \in Names : n # "" /\ AppOf[n] # "Unknown"
  BY NamesAssumption, AppAssumption
<1>9. CASE e.classified
  <2>1. ~TakesHello(flow, p) /\ ~TakesHost(flow, p) /\ flow.app_type # "Unknown"
    BY <1>1, <1>2, <1>9 DEF Alike, TakesHello, TakesHost
  <2>2. SequentialApp(flow, p) = e.app_type /\ SequentialName(flow, p) = e.sni
    BY <1>2, <2>1 DEF SequentialApp, SequentialName, NameOf
  <2>3. ThreadsApp(e, p) = e.app_type /\ ThreadsName(e, p) = e.sni /\ ThreadsClassified(e, p)
    BY <1>9 DEF ThreadsApp, ThreadsName, ThreadsClassified
  <2> QED BY <1>1, <1>2, <1>4, <1>5, <1>9, <2>2, <2>3 DEF Alike, Fields, EntryFields
<1>10. CASE ~e.classified
  <2>1. e.sni = "" /\ e.app_type # "DNS"
    BY <1>1, <1>10 DEF Alike
  <2>2. CASE ClassifiesHello(p)
    <3>0. p.tuple.dst_port = 443 /\ p.tuple.dst_port # 80
      BY <2>2 DEF ClassifiesHello
    <3>1. TakesHello(flow, p)
      <4>1. e.app_type \in {"Unknown", "HTTPS"}
        BY <1>1, <1>10, <3>0 DEF Alike
      <4> QED BY <1>2, <1>6, <2>1, <2>2, <4>1 DEF ClassifiesHello, TakesHello
    <3>2. SequentialApp(flow, p) = AppOf[p.hello] /\ SequentialName(flow, p) = p.hello
      BY <3>1 DEF SequentialApp, SequentialName, NameOf
    <3>3. /\ ThreadsApp(e, p) = AppOf[p.hello] /\ ThreadsName(e, p) = p.hello
          /\ ThreadsClassified(e, p)
      BY <1>10, <2>2 DEF ThreadsApp, ThreadsName, NameOf, ThreadsClassified
    <3>4. p.hello # "" /\ AppOf[p.hello] # "Unknown"
      BY <1>6, <1>7, <2>2 DEF ClassifiesHello
    <3> QED BY <1>2, <1>4, <1>5, <3>2, <3>3, <3>4 DEF Alike, Fields, EntryFields
  <2>3. CASE ~ClassifiesHello(p) /\ ClassifiesHost(p)
    <3>0. p.tuple.dst_port = 80 /\ p.tuple.dst_port # 443
      BY <2>3 DEF ClassifiesHost
    <3>1. TakesHost(flow, p) /\ ~TakesHello(flow, p)
      <4>1. e.app_type \in {"Unknown", "HTTP"}
        BY <1>1, <1>10, <3>0 DEF Alike
      <4>2. ~TakesHello(flow, p)
        BY <3>0 DEF TakesHello
      <4>3. p.host # NoName /\ p.tuple.protocol = "TCP"
        BY <1>6, <2>3 DEF ClassifiesHost
      <4>4. flow.app_type \in {"Unknown", "HTTP"} /\ flow.sni = ""
        BY <1>2, <2>1, <4>1
      <4>5. TakesHost(flow, p)
        BY <3>0, <4>3, <4>4 DEF TakesHost
      <4> QED BY <4>2, <4>5
    <3>2. SequentialApp(flow, p) = AppOf[p.host] /\ SequentialName(flow, p) = p.host
      BY <3>1 DEF SequentialApp, SequentialName, NameOf
    <3>3. /\ ThreadsApp(e, p) = AppOf[p.host] /\ ThreadsName(e, p) = p.host
          /\ ThreadsClassified(e, p)
      BY <1>10, <2>3 DEF ThreadsApp, ThreadsName, NameOf, ThreadsClassified
    <3>4. p.host # "" /\ AppOf[p.host] # "Unknown"
      BY <1>6, <1>7, <2>3 DEF ClassifiesHost
    <3> QED BY <1>2, <1>4, <1>5, <3>2, <3>3, <3>4 DEF Alike, Fields, EntryFields
  <2>4. CASE ~ClassifiesHello(p) /\ ~ClassifiesHost(p)
    <3>1. ~TakesHost(flow, p) /\ ~TakesHello(flow, p)
      BY <1>6, <2>4 DEF ClassifiesHello, ClassifiesHost, TakesHello, TakesHost
    <3>2. /\ ThreadsApp(e, p) = IF IsDns(p) THEN "DNS" ELSE ServerApp(p, e.app_type)
          /\ ThreadsName(e, p) = "" /\ (ThreadsClassified(e, p) <=> IsDns(p))
      BY <1>10, <2>1, <2>4 DEF ThreadsApp, ThreadsName, NameOf, ThreadsClassified
    <3>3. SequentialName(flow, p) = ""
      BY <1>2, <2>1, <3>1 DEF SequentialName, NameOf
    <3>4. SequentialApp(flow, p) =
            IF e.app_type # "Unknown" THEN e.app_type
            ELSE IF IsDns(p) THEN "DNS" ELSE ServerApp(p, "Unknown")
      BY <1>2, <3>1 DEF SequentialApp
    <3>5. /\ e.app_type # "Unknown" =>
               /\ ~IsDns(p)
               /\ \/ e.app_type = "HTTPS" /\ t.dst_port = 443
                  \/ e.app_type = "HTTP" /\ t.dst_port = 80
      BY <1>1, <1>10 DEF Alike, IsDns
    <3>6. SequentialApp(flow, p) = ThreadsApp(e, p)
      <4>1. CASE e.app_type = "Unknown"
        BY <3>2, <3>4, <4>1
      <4>2. CASE e.app_type # "Unknown"
        <5>1. ServerApp(p, e.app_type) = e.app_type
          BY <3>5, <4>2 DEF ServerApp
        <5> QED BY <3>2, <3>4, <3>5, <4>2, <5>1
      <4> QED BY <4>1, <4>2
    <3>7. CASE IsDns(p)
      BY <1>2, <1>4, <1>5, <3>2, <3>3, <3>6, <3>7 DEF Alike, Fields, EntryFields
    <3>8. CASE ~IsDns(p)
      <4>1. \/ ThreadsApp(e, p) = "Unknown"
            \/ ThreadsApp(e, p) = "HTTPS" /\ t.dst_port = 443
            \/ ThreadsApp(e, p) = "HTTP" /\ t.dst_port = 80
        BY <3>2, <3>5, <3>8 DEF ServerApp
      <4>2. 53 \notin {t.dst_port, t.src_port}
        BY <3>8 DEF IsDns
      <4>3. ~ThreadsClassified(e, p) /\ ThreadsApp(e, p) # "DNS"
        BY <3>2, <3>8, <4>1
      <4> DEFINE new == FlowAfter(f, p)
      <4>4. /\ new \in FlowType /\ new.sni = "" /\ ~new.classified
            /\ new.app_type = ThreadsApp(e, p)
        BY <1>4, <3>2, <4>3 DEF EntryFields
      <4>5. Fields(SequentialFlow(rules, flow, p), new.app_type, new.sni, new.packets, new.blocked)
        BY <1>2, <1>4, <1>5, <3>2, <3>3, <3>6 DEF Fields, EntryFields
      <4> HIDE DEF new
      <4>6. \/ new.app_type = "Unknown"
            \/ new.app_type = "HTTPS" /\ t.dst_port = 443
            \/ new.app_type = "HTTP" /\ t.dst_port = 80
        BY <4>1, <4>4
      <4>7. new.app_type # "DNS"
        BY <4>3, <4>4
      <4>8. Alike(t, new, SequentialFlow(rules, flow, p))
        BY <4>2, <4>4, <4>5, <4>6, <4>7 DEF Alike
      <4> QED BY <4>8 DEF new
    <3> QED BY <3>7, <3>8
  <2> QED BY <2>2, <2>3, <2>4
<1> QED BY <1>9, <1>10

-----------------------------------------------------------------------------
(***************************************************************************)
(* The run over the capture of this state: what main_working.cpp has after  *)
(* the first n packets.                                                     *)
(***************************************************************************)

RunTo(n) == SequentialRun(rules, capture)[n]

FlowTo(n, t) == FlowIn(RunTo(n).flows, t)

\* The table after the flow of one five-tuple is stored in it: that flow, any other,
\* and the five-tuples.
LEMMA FlowStored ==
  ASSUME NEW table, NEW t, NEW flow
  PROVE  FlowIn(WithFlow(table, t, flow), t) = flow
BY DEF FlowIn, WithFlow

\* Any other flow is left as it is.
LEMMA OthersKept ==
  ASSUME NEW table, NEW t, NEW flow, NEW u, u # t
  PROVE  FlowIn(WithFlow(table, t, flow), u) = FlowIn(table, u)
BY DEF FlowIn, WithFlow

\* The five-tuples are those there were and this one.
LEMMA TableGrows ==
  ASSUME NEW table, NEW t, NEW flow
  PROVE  DOMAIN WithFlow(table, t, flow) = DOMAIN table \cup {t}
BY DEF WithFlow

\* One packet more.
LEMMA OneMore ==
  ASSUME capture \in Captures, NEW n \in 1..Len(capture)
  PROVE  LET p == capture[n]
         IN /\ n \in Indices =>
                 /\ \A t : FlowTo(n, t) = IF t = p.tuple
                                          THEN SequentialFlow(rules, FlowTo(n - 1, t), p)
                                          ELSE FlowTo(n - 1, t)
                 /\ DOMAIN RunTo(n).flows = DOMAIN RunTo(n - 1).flows \cup {p.tuple}
                 /\ RunTo(n).output = IF FlowTo(n, p.tuple).blocked THEN RunTo(n - 1).output
                                      ELSE Append(RunTo(n - 1).output, n)
            /\ n \notin Indices =>
                 /\ \A t : FlowTo(n, t) = FlowTo(n - 1, t)
                 /\ DOMAIN RunTo(n).flows = DOMAIN RunTo(n - 1).flows
                 /\ RunTo(n).output = RunTo(n - 1).output
<1> DEFINE p     == capture[n]
           old   == RunTo(n - 1)
           flow  == SequentialFlow(rules, FlowIn(old.flows, p.tuple), p)
<1>1. RunTo(n) = OnPacket(rules, old, p, n)
  BY CapturedPackets, RunUnfolds DEF RunTo
<1>2. n \in Indices <=> HasFlow(p)
  BY CapturedPackets DEF Indices
<1>3. /\ RunTo(n).flows = IF HasFlow(p) THEN WithFlow(old.flows, p.tuple, flow) ELSE old.flows
      /\ RunTo(n).output = IF HasFlow(p) /\ ~flow.blocked THEN Append(old.output, n) ELSE old.output
  BY <1>1 DEF OnPacket
<1> HIDE DEF flow, old
<1>4. CASE n \in Indices
  <2>1. RunTo(n).flows = WithFlow(old.flows, p.tuple, flow)
    BY <1>2, <1>3, <1>4
  <2>2. /\ \A t : FlowTo(n, t) = IF t = p.tuple THEN flow ELSE FlowIn(old.flows, t)
        /\ DOMAIN RunTo(n).flows = DOMAIN old.flows \cup {p.tuple}
    <3> DEFINE table == old.flows
               u     == p.tuple
    <3>2. RunTo(n).flows = WithFlow(table, u, flow)
      BY <2>1
    <3> HIDE DEF table, u
    <3>1. /\ \A t : FlowIn(WithFlow(table, u, flow), t) = IF t = u THEN flow ELSE FlowIn(table, t)
          /\ DOMAIN WithFlow(table, u, flow) = DOMAIN table \cup {u}
      <4>1. ASSUME NEW t
            PROVE  FlowIn(WithFlow(table, u, flow), t) = IF t = u THEN flow ELSE FlowIn(table, t)
        <5>1. CASE t = u
          BY <5>1, FlowStored
        <5>2. CASE t # u
          BY <5>2, OthersKept
        <5> QED BY <5>1, <5>2
      <4>2. DOMAIN WithFlow(table, u, flow) = DOMAIN table \cup {u}
        BY TableGrows
      <4> QED BY <4>1, <4>2
    <3>3. /\ \A t : FlowTo(n, t) = IF t = u THEN flow ELSE FlowIn(table, t)
          /\ DOMAIN RunTo(n).flows = DOMAIN table \cup {u}
      BY <3>1, <3>2 DEF FlowTo
    <3> QED BY <3>3 DEF table, u
  <2>3. \A t : FlowTo(n, t) = IF t = p.tuple THEN SequentialFlow(rules, FlowTo(n - 1, t), p)
                              ELSE FlowTo(n - 1, t)
    BY <2>2 DEF FlowTo, flow, old
  <2>4. RunTo(n).output = IF FlowTo(n, p.tuple).blocked THEN old.output ELSE Append(old.output, n)
    BY <1>2, <1>3, <1>4, <2>2
  <2> QED BY <1>4, <2>2, <2>3, <2>4 DEF old
<1>5. CASE n \notin Indices
  <2>1. RunTo(n).flows = old.flows /\ RunTo(n).output = old.output
    BY <1>2, <1>3, <1>5
  <2> QED BY <1>5, <2>1 DEF FlowTo, old
<1> QED BY <1>4, <1>5

\* The flow of a five-tuple changes with its own packets only.
LEMMA FlowRests ==
  ASSUME capture \in Captures, NEW a \in 0..Len(capture), NEW m \in 0..Len(capture), a <= m,
         NEW t, \A j \in Indices : a < j /\ j <= m => capture[j].tuple # t
  PROVE  FlowTo(m, t) = FlowTo(a, t)
<1> DEFINE S == {n \in a..m : FlowTo(n, t) # FlowTo(a, t)}
<1>0. Len(capture) \in Nat
  BY CapturedPackets
<1> SUFFICES ASSUME S # {} PROVE FALSE
  BY <1>0
<1>1. S \in SUBSET Nat
  BY <1>0
<1>2. PICK k \in S : \A n \in S : k <= n
  BY <1>1, LeastMember
<1>3. k \in a..m /\ FlowTo(k, t) # FlowTo(a, t)
  OBVIOUS
<1>4. k # a
  BY <1>3
<1>5. k \in 1..Len(capture) /\ k - 1 \in a..m /\ ~(k <= k - 1) /\ a < k /\ k <= m
  BY <1>0, <1>3, <1>4
<1>6. FlowTo(k - 1, t) = FlowTo(a, t)
  BY <1>2, <1>5
<1> HIDE DEF S
<1>7. FlowTo(k, t) = FlowTo(k - 1, t)
  BY <1>5, OneMore
<1> QED BY <1>3, <1>6, <1>7

\* What is in the table and in the output of main_working.cpp after n packets.
RunShape(n) ==
  /\ \A i \in Indices : i <= n => capture[i].tuple \in DOMAIN RunTo(n).flows
  /\ RunTo(n).output \in Seq(Nat)
  /\ Elements(RunTo(n).output) = {i \in Indices : i <= n /\ ~FlowTo(i, capture[i].tuple).blocked}

\* The table has the flows of the packets read, the output those whose flow was not
\* blocked when they were read.
LEMMA RunShapes ==
  ASSUME capture \in Captures, NEW m \in 0..Len(capture)
  PROVE  RunShape(m)
<1> DEFINE S == {n \in 0..Len(capture) : ~RunShape(n)}
<1>0. /\ Len(capture) \in Nat /\ Indices \subseteq 1..Len(capture)
  BY CapturedPackets DEF Indices
<1> SUFFICES ASSUME S # {} PROVE FALSE
  OBVIOUS
<1>1. S \in SUBSET Nat
  BY <1>0
<1>2. PICK k \in S : \A n \in S : k <= n
  BY <1>1, LeastMember
<1>3. k \in 0..Len(capture) /\ ~RunShape(k)
  OBVIOUS
<1>4. k # 0
  <2>1. RunTo(0) = NoPackets
    BY <1>0, RunUnfolds DEF RunTo
  <2>2. RunTo(0).output = <<>>
    BY <2>1 DEF NoPackets
  <2>3. \A i \in Indices : ~(i <= 0)
    BY <1>0
  <2>4. <<>> \in Seq(Nat) /\ Elements(<<>>) = {}
    BY DEF Elements
  <2>5. {i \in Indices : i <= 0 /\ ~FlowTo(i, capture[i].tuple).blocked} = {}
    BY <2>3
  <2>6. RunShape(0)
    BY <2>2, <2>3, <2>4, <2>5 DEF RunShape
  <2> QED BY <1>3, <2>6
<1>5. k \in 1..Len(capture) /\ k - 1 \in 0..Len(capture) /\ ~(k <= k - 1)
  BY <1>0, <1>3, <1>4
<1>6. RunShape(k - 1)
  BY <1>2, <1>5
<1> HIDE DEF S
<1>7. \A i \in Indices : i <= k <=> i <= k - 1 \/ i = k
  BY <1>0, <1>5
<1> DEFINE old == RunTo(k - 1)
           new == RunTo(k)
           p   == capture[k]
<1>8. CASE k \notin Indices
  <2>1. DOMAIN new.flows = DOMAIN old.flows /\ new.output = old.output
    BY <1>5, <1>8, OneMore
  <2> HIDE DEF new, old
  <2>2. RunShape(k)
    BY <1>6, <1>7, <1>8, <2>1 DEF RunShape, new, old
  <2> QED BY <1>3, <2>2
<1>9. CASE k \in Indices
  <2>1. /\ DOMAIN new.flows = DOMAIN old.flows \cup {p.tuple}
        /\ new.output = IF FlowTo(k, p.tuple).blocked THEN old.output ELSE Append(old.output, k)
    BY <1>5, <1>9, OneMore
  <2>2. /\ old.output \in Seq(Nat)
        /\ Elements(old.output) = {i \in Indices : i <= k - 1 /\ ~FlowTo(i, capture[i].tuple).blocked}
        /\ \A i \in Indices : i <= k - 1 => capture[i].tuple \in DOMAIN old.flows
    BY <1>6 DEF RunShape
  <2> HIDE DEF new, old
  <2>3. k \in Nat
    BY <1>5
  <2>4. Append(old.output, k) \in Seq(Nat) /\ Elements(Append(old.output, k)) = Elements(old.output) \cup {k}
    <3> DEFINE q == old.output
               s == Append(q, k)
    <3>1. /\ Len(q) \in Nat /\ DOMAIN q = 1..Len(q) /\ s \in Seq(Nat)
          /\ DOMAIN s = 1..(Len(q) + 1) /\ s[Len(q) + 1] = k
          /\ \A i \in 1..Len(q) : s[i] = q[i]
      BY <2>2, <2>3
    <3>2. 1..(Len(q) + 1) = (1..Len(q)) \cup {Len(q) + 1}
      BY <3>1
    <3> HIDE DEF q, s
    <3>3. Elements(s) = Elements(q) \cup {k}
      BY <3>1, <3>2 DEF Elements
    <3> QED BY <3>1, <3>3 DEF q, s
  <2>5. new.output \in Seq(Nat)
    BY <2>1, <2>2, <2>4
  <2>6. Elements(new.output) = {i \in Indices : i <= k /\ ~FlowTo(i, capture[i].tuple).blocked}
    <3>1. CASE FlowTo(k, p.tuple).blocked
      BY <1>7, <2>1, <2>2, <3>1
    <3>2. CASE ~FlowTo(k, p.tuple).blocked
      BY <1>7, <1>9, <2>1, <2>2, <2>4, <3>2
    <3> QED BY <3>1, <3>2
  <2>7. \A i \in Indices : i <= k => capture[i].tuple \in DOMAIN new.flows
    BY <1>7, <2>1, <2>2
  <2>8. RunShape(k)
    BY <2>5, <2>6, <2>7 DEF RunShape, new
  <2> QED BY <1>3, <2>8
<1> QED BY <1>8, <1>9

-----------------------------------------------------------------------------
(***************************************************************************)
(* The two engines side by side.  The packets of a flow are decided in the  *)
(* order in which they were read, so what an FP has of a flow after its     *)
(* packets up to the n-th of the capture is what main_working.cpp has of it *)
(* after the n-th packet.                                                   *)
(***************************************************************************)

Done(i)    == i <= readPos /\ ~Waits(i)
FPOf(i)    == Target(LBOf(i), i)
TupleOf(i) == capture[i].tuple

SeenSoFar == \A i \in ReadSoFar : SeenAlike(capture[i])

\* Of a flow, what waits was read after what is decided.
InTurn ==
  \A i \in Indices, j \in Indices : SameFlow(i, j) /\ Waits(i) /\ Done(j) => j < i

\* A flow an FP has is that of a packet decided there.
EntriesKnown ==
  \A f \in FPs : \A t \in DOMAIN flows[f] :
    \E i \in Indices : Done(i) /\ TupleOf(i) = t /\ FPOf(i) = f

\* When the packets of a flow decided are those up to the n-th of the capture, the
\* flow is the one main_working.cpp has after n packets.
Agree ==
  \A i \in Indices, n \in 0..Len(capture) :
    (\A j \in Indices : SameFlow(i, j) => (Done(j) <=> j <= n))
      => Alike(TupleOf(i), EntryOf(FPOf(i), TupleOf(i)), FlowTo(n, TupleOf(i)))

\* What is let through is what main_working.cpp does not drop.
Decided == \A i \in Indices : Done(i) => (Through(i) <=> ~FlowTo(i, TupleOf(i)).blocked)

VInv == InTurn /\ EntriesKnown /\ (SeenSoFar => Agree /\ Decided)

\* A step that decides nothing: the flows are as before, and what is new and waits
\* was read last.
DecidesNothing ==
  /\ flows' = flows
  /\ \A i \in Indices : /\ Done(i)' <=> Done(i)
                        /\ Done(i) => (Through(i)' <=> Through(i))
                        /\ Waits(i)' /\ ~Waits(i) => \A j \in Indices : Done(j) => j < i

\* An FP decides packet x.
Decides(f, x) ==
  /\ Slot(f, 0, x) /\ pc[f] = "process"
  /\ flows' = [flows EXCEPT ![f] = WithFlow(@, TupleOf(x), FlowAfter(f, capture[x]))]
  /\ readPos' = readPos /\ Waits(x) /\ ~Waits(x)' /\ OthersStay(x)
  /\ Through(x)' <=> ~FlowAfter(f, capture[x]).blocked

\* Only Process changes the flows and the counters.
LEMMA FlowsKept ==
  ASSUME [Next]_vars, ~\E f \in FPs : Process(f)
  PROVE  flows' = flows /\ stats' = stats
BY DEF Next, Main, OpenInput, OpenOutput, StartWorker, StartOutput, Read, Dispatch, FlagWorker,
       ShutWorker, JoinWorker, FlagOutput, ShutOutput, JoinOutput, Worker, FP, Output, Check,
       OutputSize, PopOne, PopNothing, HandOn, Write, Terminating, fpVars, vars

\* The main thread's position changes by reading only.
LEMMA ReadPosKept ==
  ASSUME OInv, [Next]_vars
  PROVE  readPos' = readPos \/ (Reads /\ readPos' = readPos + 1)
BY Moves DEF OInv, Rests, Reads, Enters, Pops, Drops, Forwards, Passes, Writes, KeepsMain

\* A step decides nothing or one packet.
LEMMA Decisions ==
  ASSUME OInv, [Next]_vars
  PROVE  DecidesNothing \/ \E f \in FPs, x \in Indices : Decides(f, x)
<1> USE DEF OInv
<1>0. /\ Indices \subseteq Nat /\ readPos \in Nat
      /\ \A f \in FPs : f \in Threads /\ f # Out
  BY SlotTypes, StageNumbers DEF Threads, Workers
<1>1. CASE \E f \in FPs : Process(f)
  <2>1. PICK f \in FPs : Process(f)
    BY <1>1
  <2>2. IF FlowAfter(f, capture[hand[f]]).blocked THEN Drops(f) ELSE Forwards(f)
    BY <2>1, ProcessMoves
  <2>3. PICK x \in Indices : /\ x = hand[f] /\ Waits(x) /\ ~Through(x)
                             /\ ~Waits(x)' /\ (Through(x)' <=> Forwards(f)) /\ OthersStay(x)
    BY <2>2, OneMoves
  <2>4. ~(Drops(f) /\ Forwards(f))
    <3>1. stats.forwarded \in Nat
      BY DEF SInv, TInv, TypeOK
    <3> QED BY <3>1 DEF Drops, Forwards, Counts
  <2>5. /\ readPos' = readPos /\ pc[f] = "process"
        /\ flows' = [flows EXCEPT ![f] = WithFlow(@, TupleOf(x), FlowAfter(f, capture[x]))]
    BY <2>1, <2>3 DEF Process, TupleOf, mainVars
  <2>6. Slot(f, 0, x)
    BY <2>3 DEF Slot
  <2>7. Decides(f, x)
    BY <2>2, <2>3, <2>4, <2>5, <2>6 DEF Decides
  <2> QED BY <2>7
<1>2. CASE ~\E f \in FPs : Process(f)
  <2>1. flows' = flows /\ stats' = stats
    BY <1>2, FlowsKept
  <2>2. \A f \in FPs : ~Drops(f) /\ ~Forwards(f)
    <3>1. stats.forwarded \in Nat /\ stats.dropped \in Nat
      BY DEF SInv, TInv, TypeOK
    <3> QED BY <2>1, <3>1 DEF Drops, Forwards, Counts
  <2>3. ASSUME NEW i \in Indices
        PROVE  /\ Done(i)' <=> Done(i)
               /\ Done(i) => (Through(i)' <=> Through(i))
               /\ Waits(i)' /\ ~Waits(i) => \A j \in Indices : Done(j) => j < i
    <3>1. i \in Nat
      BY <1>0
    <3>2. CASE Reads /\ i = readPos + 1
      <4>1. Waits(i)'
        BY <3>2, SidesMoved
      <4>2. ~(i <= readPos) /\ \A j \in Indices : j <= readPos => j < i
        BY <1>0, <3>2
      <4> QED BY <4>1, <4>2 DEF Done
    <3>3. CASE ~(Reads /\ i = readPos + 1)
      <4>1. (Waits(i)' <=> Waits(i)) /\ (Through(i)' <=> Through(i))
        BY <2>2, <3>3, SidesKept
      <4>2. i <= readPos' <=> i <= readPos
        <5>1. CASE readPos' = readPos
          BY <5>1
        <5>2. CASE Reads /\ readPos' = readPos + 1
          BY <1>0, <3>1, <3>3, <5>2
        <5> QED BY <5>1, <5>2, ReadPosKept
      <4> QED BY <4>1, <4>2 DEF Done
    <3> QED BY <3>2, <3>3
  <2> QED BY <2>1, <2>3 DEF DecidesNothing
<1> QED BY <1>1, <1>2

\* The packet an FP is about to decide is the next of its flow: those before it are
\* decided and those after it are not.
LEMMA NextOfFlow ==
  ASSUME OInv, InTurn, NEW f \in FPs, NEW x \in Indices,
         Slot(f, 0, x), pc[f] = "process", Waits(x)
  PROVE  /\ x <= readPos /\ FPOf(x) = f
         /\ \A j \in Indices : SameFlow(x, j) =>
              /\ Done(j) <=> j <= x - 1
              /\ Waits(j) /\ j # x => x < j
<1> USE DEF OInv, OrderInv
<1>0. /\ Indices \subseteq Nat /\ readPos \in Nat
      /\ f \in Threads /\ f # Out /\ f \in Nat /\ f \notin LBs
  BY SlotTypes, StageNumbers, ThreadNumbers DEF Threads, Workers
<1>1. x <= readPos
  BY <1>0 DEF ReadBefore
<1>2. LBOf(x) \in LBs /\ FPOf(x) \in FPs /\ FPOf(x) = f
  BY <1>0, OnePath DEF OnPath, FPOf
<1>3. ASSUME NEW j \in Indices, SameFlow(x, j), Waits(j), j # x
      PROVE  x < j
  <2>1. CASE InMain(j)
    <3>1. j = readPos
      BY <2>1 DEF InMain
    <3> QED BY <1>0, <1>1, <1>3, <3>1
  <2>2. CASE ~InMain(j)
    <3>1. PICK t \in Threads, k \in Nat : Slot(t, k, j) /\ ~Passed(t, k)
      BY <1>3, <2>2 DEF Waits
    <3>2. t \in {LBOf(j), FPOf(j), Out} /\ t # Out
      BY <3>1 DEF OnPath, FPOf, Passed
    <3>3. LBOf(j) = LBOf(x) /\ FPOf(j) = f
      BY <1>2, <1>3, OnePath DEF FPOf
    <3>4. Ahead(f, 0, t, k)
      <4>1. CASE t = LBOf(x)
        <5>1. t < f
          BY <1>2, <4>1, ThreadNumbers
        <5> QED BY <5>1 DEF Ahead
      <4>2. CASE t = f
        <5>1. k # 0
          BY <1>0, <1>3, <3>1, <4>2 DEF Slot
        <5> QED BY <3>1, <4>2, <5>1 DEF Ahead
      <4> QED BY <3>2, <3>3, <4>1, <4>2
    <3> QED BY <1>0, <1>3, <3>1, <3>4 DEF SlotOrder
  <2> QED BY <2>1, <2>2
<1>4. ASSUME NEW j \in Indices, SameFlow(x, j)
      PROVE  Done(j) <=> j <= x - 1
  <2>1. j \in Nat /\ x \in Nat
    BY <1>0
  <2>2. Done(j) => j < x
    BY <1>4 DEF InTurn
  <2>3. ~Done(j) => x <= j
    <3>1. CASE j <= readPos
      BY <1>3, <1>4, <2>1, <3>1 DEF Done
    <3>2. CASE ~(j <= readPos)
      BY <1>0, <1>1, <2>1, <3>2
    <3> QED BY <3>1, <3>2
  <2> QED BY <2>1, <2>2, <2>3
<1> QED BY <1>1, <1>2, <1>3, <1>4

\* A step leaves what the statements speak of, and the packets read remain read.
LEMMA SameRun ==
  ASSUME OInv, [Next]_vars
  PROVE  /\ capture' = capture /\ Indices' = Indices
         /\ \A i : FPOf(i)' = FPOf(i) /\ TupleOf(i)' = TupleOf(i)
         /\ \A i, j : SameFlow(i, j)' <=> SameFlow(i, j)
         /\ \A n, t : FlowTo(n, t)' = FlowTo(n, t)
         /\ SeenSoFar' => SeenSoFar
<1>1. capture' = capture /\ rules' = rules /\ Indices' = Indices
  BY SameCapture
<1>2. \A n, t : FlowTo(n, t)' = FlowTo(n, t)
  BY <1>1 DEF FlowTo, RunTo
<1>3. \A i : FPOf(i)' = FPOf(i) /\ TupleOf(i)' = TupleOf(i)
  BY <1>1 DEF FPOf, TupleOf, Target, LBOf
<1>4. \A i, j : SameFlow(i, j)' <=> SameFlow(i, j)
  BY <1>1 DEF SameFlow
<1>5. ReadSoFar \subseteq ReadSoFar'
  <2>1. Indices \subseteq Nat /\ readPos \in Nat
    BY SlotTypes DEF OInv
  <2>2. readPos' = readPos \/ readPos' = readPos + 1
    BY ReadPosKept
  <2>3. \A i \in Indices : i <= readPos => i <= readPos'
    <3>1. readPos' \in Nat /\ readPos <= readPos'
      BY <2>1, <2>2
    <3> QED BY <2>1, <3>1
  <2> QED BY <1>1, <2>3 DEF ReadSoFar
<1> QED BY <1>1, <1>2, <1>3, <1>4, <1>5 DEF SeenSoFar

\* What waits is read after what is decided, whatever is decided next.
LEMMA InTurnStep ==
  ASSUME OInv, InTurn, [Next]_vars
  PROVE  InTurn'
<1>0. Indices' = Indices /\ \A i, j : SameFlow(i, j)' <=> SameFlow(i, j)
  BY SameRun
<1> SUFFICES ASSUME NEW i \in Indices, NEW j \in Indices, SameFlow(i, j), Waits(i)', Done(j)'
             PROVE  j < i
  BY <1>0 DEF InTurn
<1>1. CASE DecidesNothing
  BY <1>1 DEF DecidesNothing, InTurn
<1>2. CASE \E f \in FPs, x \in Indices : Decides(f, x)
  <2>1. PICK f \in FPs, x \in Indices : Decides(f, x)
    BY <1>2
  <2>2. i # x /\ Waits(i)
    BY <2>1 DEF Decides, OthersStay
  <2>3. CASE j = x
    <3>1. SameFlow(x, i)
      BY <2>3 DEF SameFlow
    <3> QED BY <2>1, <2>2, <2>3, <3>1, NextOfFlow DEF Decides
  <2>4. CASE j # x
    <3>1. Done(j)
      BY <2>1, <2>4 DEF Decides, OthersStay, Done
    <3> QED BY <2>2, <3>1 DEF InTurn
  <2> QED BY <2>3, <2>4
<1> QED BY <1>1, <1>2, Decisions

\* What a decision does to what is decided and to the flows.
LEMMA DecisionMade ==
  ASSUME OInv, InTurn, [Next]_vars, NEW f \in FPs, NEW x \in Indices, Decides(f, x)
  PROVE  /\ Done(x)' /\ ~Done(x)
         /\ \A i \in Indices : i # x => /\ Done(i)' <=> Done(i)
                                        /\ Through(i)' <=> Through(i)
         /\ \A g \in FPs : DOMAIN flows'[g] = IF g = f THEN DOMAIN flows[f] \cup {TupleOf(x)}
                                              ELSE DOMAIN flows[g]
         /\ \A g \in FPs : \A t : EntryOf(g, t)' = IF g = f /\ t = TupleOf(x)
                                               THEN FlowAfter(f, capture[x]) ELSE EntryOf(g, t)
<1>1. readPos' = readPos /\ Waits(x) /\ ~Waits(x)' /\ x <= readPos
  BY NextOfFlow DEF Decides
<1>2. \A i \in Indices : i # x => (Done(i)' <=> Done(i)) /\ (Through(i)' <=> Through(i))
  BY <1>1 DEF Decides, OthersStay, Done
<1> DEFINE new == WithFlow(flows[f], TupleOf(x), FlowAfter(f, capture[x]))
<1>3. flows = [g \in FPs |-> flows[g]]
  BY DEF OInv, SInv, TInv
<1>4. \A g \in FPs : flows'[g] = IF g = f THEN new ELSE flows[g]
  BY <1>3 DEF Decides
<1>5. /\ DOMAIN new = DOMAIN flows[f] \cup {TupleOf(x)}
      /\ new[TupleOf(x)] = FlowAfter(f, capture[x])
      /\ \A t \in DOMAIN flows[f] : t # TupleOf(x) => new[t] = flows[f][t]
  BY DEF WithFlow
<1> HIDE DEF new
<1>6. ASSUME NEW g \in FPs, NEW t
      PROVE  EntryOf(g, t)' = IF g = f /\ t = TupleOf(x)
                              THEN FlowAfter(f, capture[x]) ELSE EntryOf(g, t)
  <2>1. EntryOf(g, t)' = IF t \in DOMAIN flows'[g] THEN flows'[g][t] ELSE NewFlowEntry
    BY DEF EntryOf
  <2>2. EntryOf(g, t) = IF t \in DOMAIN flows[g] THEN flows[g][t] ELSE NewFlowEntry
    BY DEF EntryOf
  <2> QED BY <1>4, <1>5, <2>1, <2>2
<1>7. Done(x)' /\ ~Done(x)
  BY <1>1 DEF Done
<1> QED BY <1>2, <1>4, <1>5, <1>6, <1>7

\* The flow decided is the one main_working.cpp has after the same packet.
LEMMA DecidedAlike ==
  ASSUME OInv, InTurn, SeenSoFar, Agree, NEW f \in FPs, NEW x \in Indices,
         Slot(f, 0, x), pc[f] = "process", Waits(x)
  PROVE  Alike(TupleOf(x), FlowAfter(f, capture[x]), FlowTo(x, TupleOf(x)))
<1>1. /\ x <= readPos /\ FPOf(x) = f
      /\ \A j \in Indices : SameFlow(x, j) => (Done(j) <=> j <= x - 1)
  BY NextOfFlow
<1>2. capture \in Captures
  BY DEF OInv, SInv, TInv, Inputs
<1>3. /\ x \in 1..Len(capture) /\ x - 1 \in 0..Len(capture)
      /\ capture[x] \in PacketType /\ WellFormed(capture[x])
  BY <1>2, CapturedPackets, CapturesAssumption DEF Indices
<1>4. SeenAlike(capture[x])
  BY <1>1 DEF SeenSoFar, ReadSoFar
<1>5. Alike(TupleOf(x), EntryOf(f, TupleOf(x)), FlowTo(x - 1, TupleOf(x)))
  BY <1>1, <1>3 DEF Agree
<1>6. FlowTo(x, TupleOf(x)) = SequentialFlow(rules, FlowTo(x - 1, TupleOf(x)), capture[x])
  BY <1>2, <1>3, OneMore DEF TupleOf
<1> QED BY <1>3, <1>4, <1>5, <1>6, StaysAlike DEF TupleOf

\* So the flows remain alike.
LEMMA AgreeStep ==
  ASSUME OInv, InTurn, SeenSoFar, Agree, [Next]_vars
  PROVE  Agree'
<1>0. /\ Indices' = Indices /\ capture' = capture
      /\ \A i : FPOf(i)' = FPOf(i) /\ TupleOf(i)' = TupleOf(i)
      /\ \A i, j : SameFlow(i, j)' <=> SameFlow(i, j)
      /\ \A n, t : FlowTo(n, t)' = FlowTo(n, t)
  BY SameRun
<1>1. capture \in Captures /\ Indices \subseteq Nat /\ readPos \in 0..Len(capture)
  BY SlotTypes DEF OInv, SInv, TInv, Inputs, TypeOK
<1> SUFFICES ASSUME NEW i \in Indices, NEW n \in 0..Len(capture),
                    \A j \in Indices : SameFlow(i, j) => (Done(j)' <=> j <= n)
             PROVE  Alike(TupleOf(i), EntryOf(FPOf(i), TupleOf(i))', FlowTo(n, TupleOf(i)))
  BY <1>0 DEF Agree
<1>2. FPOf(i) \in FPs
  BY OnePath DEF OInv, FPOf
<1>3. CASE DecidesNothing
  <2>1. EntryOf(FPOf(i), TupleOf(i))' = EntryOf(FPOf(i), TupleOf(i))
    BY <1>0, <1>3 DEF DecidesNothing, EntryOf
  <2>2. \A j \in Indices : SameFlow(i, j) => (Done(j) <=> j <= n)
    BY <1>3 DEF DecidesNothing
  <2> QED BY <2>1, <2>2 DEF Agree
<1>4. CASE \E f \in FPs, x \in Indices : Decides(f, x)
  <2>1. PICK f \in FPs, x \in Indices : Decides(f, x)
    BY <1>4
  <2>2. /\ Done(x)' /\ ~Done(x)
        /\ \A j \in Indices : j # x => (Done(j)' <=> Done(j))
    BY <2>1, DecisionMade
  <2>3. EntryOf(FPOf(i), TupleOf(i))' =
          IF FPOf(i) = f /\ TupleOf(i) = TupleOf(x)
          THEN FlowAfter(f, capture[x]) ELSE EntryOf(FPOf(i), TupleOf(i))
    <3>1. \A g \in FPs : \A t : EntryOf(g, t)' = IF g = f /\ t = TupleOf(x)
                                             THEN FlowAfter(f, capture[x]) ELSE EntryOf(g, t)
      BY <2>1, DecisionMade
    <3>2. \A g, t : g = FPOf(i) /\ t = TupleOf(i)
                     => EntryOf(FPOf(i), TupleOf(i))' = EntryOf(g, t)'
      BY <1>0 DEF EntryOf
    <3> QED BY <1>2, <3>1, <3>2
  <2>4. CASE SameFlow(i, x)
    <3>1. /\ TupleOf(i) = TupleOf(x) /\ FPOf(i) = FPOf(x)
          /\ \A j : SameFlow(i, j) <=> SameFlow(x, j)
      BY <2>4, OnePath DEF OInv, SameFlow, TupleOf, FPOf
    <3>2. /\ FPOf(x) = f
          /\ \A j \in Indices : SameFlow(x, j) => (Done(j) <=> j <= x - 1)
      BY <2>1, NextOfFlow DEF Decides
    <3>3. Alike(TupleOf(x), FlowAfter(f, capture[x]), FlowTo(x, TupleOf(x)))
      BY <2>1, DecidedAlike DEF Decides
    <3>4. x <= n
      BY <2>2, <2>4
    <3>5. FlowTo(n, TupleOf(x)) = FlowTo(x, TupleOf(x))
      <4>1. ASSUME NEW j \in Indices, x < j, j <= n PROVE capture[j].tuple # TupleOf(x)
        <5> SUFFICES ASSUME capture[j].tuple = TupleOf(x) PROVE FALSE
          OBVIOUS
        <5>1. SameFlow(x, j)
          BY DEF SameFlow, TupleOf
        <5>2. j # x /\ ~(j <= x - 1)
          BY <1>1, <4>1
        <5>3. Done(j)' /\ ~Done(j)
          BY <3>1, <3>2, <4>1, <5>1, <5>2
        <5> QED BY <2>2, <5>2, <5>3
      <4>2. x \in 0..Len(capture)
        BY <1>1, CapturedPackets DEF Indices
      <4> QED BY <1>1, <3>4, <4>1, <4>2, FlowRests
    <3> QED BY <2>3, <3>1, <3>2, <3>3, <3>5
  <2>5. CASE ~SameFlow(i, x)
    <3>1. TupleOf(i) # TupleOf(x)
      BY <2>5 DEF SameFlow, TupleOf
    <3>2. \A j \in Indices : SameFlow(i, j) => (Done(j) <=> j <= n)
      BY <2>2, <2>5
    <3> QED BY <2>3, <3>1, <3>2 DEF Agree
  <2> QED BY <2>4, <2>5
<1> QED BY <1>3, <1>4, Decisions

\* And so do the verdicts.
LEMMA DecidedStep ==
  ASSUME OInv, InTurn, SeenSoFar, Agree, Decided, [Next]_vars
  PROVE  Decided'
<1>0. /\ Indices' = Indices /\ \A i : TupleOf(i)' = TupleOf(i)
      /\ \A n, t : FlowTo(n, t)' = FlowTo(n, t)
  BY SameRun
<1> SUFFICES ASSUME NEW i \in Indices, Done(i)'
             PROVE  Through(i)' <=> ~FlowTo(i, TupleOf(i)).blocked
  BY <1>0 DEF Decided
<1>1. CASE DecidesNothing
  BY <1>1 DEF DecidesNothing, Decided
<1>2. CASE \E f \in FPs, x \in Indices : Decides(f, x)
  <2>1. PICK f \in FPs, x \in Indices : Decides(f, x)
    BY <1>2
  <2>2. CASE i # x
    <3>1. Done(i) /\ (Through(i)' <=> Through(i))
      BY <2>1, <2>2, DecisionMade
    <3> QED BY <3>1 DEF Decided
  <2>3. CASE i = x
    <3>1. Alike(TupleOf(x), FlowAfter(f, capture[x]), FlowTo(x, TupleOf(x)))
      BY <2>1, DecidedAlike DEF Decides
    <3>2. Through(x)' <=> ~FlowAfter(f, capture[x]).blocked
      BY <2>1 DEF Decides
    <3> QED BY <2>3, <3>1, <3>2 DEF Alike, Fields
  <2> QED BY <2>2, <2>3
<1> QED BY <1>1, <1>2, Decisions

\* A flow of an FP remains that of a packet decided there.
LEMMA EntriesKnownStep ==
  ASSUME OInv, InTurn, EntriesKnown, [Next]_vars
  PROVE  EntriesKnown'
<1>0. Indices' = Indices /\ \A i : FPOf(i)' = FPOf(i) /\ TupleOf(i)' = TupleOf(i)
  BY SameRun
<1> SUFFICES ASSUME NEW g \in FPs, NEW t \in DOMAIN flows'[g]
             PROVE  \E i \in Indices : Done(i)' /\ TupleOf(i) = t /\ FPOf(i) = g
  BY <1>0 DEF EntriesKnown
<1>1. CASE DecidesNothing
  BY <1>1 DEF DecidesNothing, EntriesKnown
<1>2. CASE \E f \in FPs, x \in Indices : Decides(f, x)
  <2>1. PICK f \in FPs, x \in Indices : Decides(f, x)
    BY <1>2
  <2>2. CASE g = f /\ t = TupleOf(x)
    <3>1. Done(x)'
      BY <2>1, DecisionMade
    <3>2. FPOf(x) = f
      BY <2>1, NextOfFlow DEF Decides
    <3> QED BY <2>2, <3>1, <3>2
  <2>3. CASE ~(g = f /\ t = TupleOf(x))
    <3>1. t \in DOMAIN flows[g]
      BY <2>1, <2>3, DecisionMade
    <3>2. PICK i \in Indices : Done(i) /\ TupleOf(i) = t /\ FPOf(i) = g
      BY <3>1 DEF EntriesKnown
    <3>3. Done(i)'
      BY <2>1, <3>2, DecisionMade
    <3> QED BY <3>2, <3>3
  <2> QED BY <2>2, <2>3
<1> QED BY <1>1, <1>2, Decisions

\* Before the first packet nothing is decided.
LEMMA InitVInv == Init => VInv
<1> SUFFICES ASSUME Init PROVE VInv
  OBVIOUS
<1>1. capture \in Captures
  BY InitTInv DEF TInv, Inputs
<1>2. Indices \subseteq 1..Len(capture) /\ Len(capture) \in Nat
  BY <1>1, CapturedPackets DEF Indices
<1>3. \A i \in Indices : ~Done(i)
  BY <1>2 DEF Init, Done
<1>4. InTurn /\ EntriesKnown /\ Decided
  BY <1>3 DEF InTurn, EntriesKnown, Decided, Init
<1>5. Agree
  <2> SUFFICES ASSUME NEW i \in Indices, NEW n \in 0..Len(capture),
                      \A j \in Indices : SameFlow(i, j) => (Done(j) <=> j <= n)
               PROVE  Alike(TupleOf(i), EntryOf(FPOf(i), TupleOf(i)), FlowTo(n, TupleOf(i)))
    BY DEF Agree
  <2>1. \A j \in Indices : 0 < j /\ j <= n => capture[j].tuple # TupleOf(i)
    BY <1>3 DEF SameFlow, TupleOf
  <2>2. 0 \in 0..Len(capture) /\ 0 <= n
    BY <1>2
  <2>3. FlowTo(n, TupleOf(i)) = FlowTo(0, TupleOf(i))
    BY <1>1, <2>1, <2>2, FlowRests
  <2>4. FlowTo(0, TupleOf(i)) = NewFlow
    <3>1. RunTo(0) = NoPackets
      BY <1>2, RunUnfolds DEF RunTo
    <3> QED BY <3>1 DEF FlowTo, FlowIn, NoPackets
  <2>5. EntryOf(FPOf(i), TupleOf(i)) = NewFlowEntry
    <3>1. FPOf(i) \in FPs
      BY InitOInv, OnePath DEF OInv, FPOf
    <3> QED BY <3>1 DEF Init, EntryOf
  <2> QED BY <2>3, <2>4, <2>5, NewAlike
<1> QED BY <1>4, <1>5 DEF VInv

\* VInv is inductive with the invariant of the order.
LEMMA VInvStep == OInv /\ VInv /\ [Next]_vars => OInv' /\ VInv'
<1> SUFFICES ASSUME OInv, VInv, [Next]_vars PROVE OInv' /\ VInv'
  OBVIOUS
<1>1. SeenSoFar' => SeenSoFar
  BY SameRun
<1> QED
  BY <1>1, OInvStep, InTurnStep, EntriesKnownStep, AgreeStep, DecidedStep DEF VInv

\* The invariant says what the property asks.
LEMMA AlikeEverywhere == OInv /\ VInv => SameAsSequential
<1> SUFFICES ASSUME OInv, VInv, SeenSoFar
             PROVE  /\ LetThrough \subseteq Elements(Sequential.output)
                    /\ ReadSoFar \ (LetThrough \cup Waiting)
                         \subseteq ReadSoFar \ Elements(Sequential.output)
                    /\ \A f \in FPs : \A t \in DOMAIN flows[f] :
                         (\A i \in Waiting : capture[i].tuple # t) =>
                           \A field \in {"app_type", "sni", "packets", "blocked"} :
                             flows[f][t][field] = Sequential.flows[t][field]
  BY DEF SameAsSequential, SeenSoFar
<1>0. /\ capture \in Captures /\ readPos \in 0..Len(capture)
      /\ Indices \subseteq Nat
  BY SlotTypes DEF OInv, SInv, TInv, Inputs, TypeOK
<1>1. /\ Waiting = {p \in Indices : Waits(p)}
      /\ LetThrough = {p \in Indices : Through(p)}
  BY SetsAsSlots DEF SlotSets
<1>2. /\ \A i \in Indices : i <= readPos => TupleOf(i) \in DOMAIN Sequential.flows
      /\ Elements(Sequential.output) =
           {i \in Indices : i <= readPos /\ ~FlowTo(i, TupleOf(i)).blocked}
  BY <1>0, RunShapes DEF RunShape, Sequential, RunTo, TupleOf
<1>3. \A i \in Indices : Through(i) => Done(i)
  <2>1. \A i \in Indices : Through(i) => i <= readPos
    BY DEF OInv, OrderInv, ReadBefore, Through
  <2> QED BY <2>1, Apart DEF Done
<1>4. Agree /\ Decided /\ EntriesKnown
  BY DEF VInv
<1>5. LetThrough \subseteq Elements(Sequential.output)
  BY <1>1, <1>2, <1>3, <1>4 DEF Decided, Done
<1>6. ReadSoFar \ (LetThrough \cup Waiting) \subseteq ReadSoFar \ Elements(Sequential.output)
  BY <1>1, <1>2, <1>4 DEF Decided, Done, ReadSoFar
<1>7. ASSUME NEW f \in FPs, NEW t \in DOMAIN flows[f], \A i \in Waiting : capture[i].tuple # t,
             NEW field \in {"app_type", "sni", "packets", "blocked"}
      PROVE  flows[f][t][field] = Sequential.flows[t][field]
  <2>1. PICK i \in Indices : Done(i) /\ TupleOf(i) = t /\ FPOf(i) = f
    BY <1>4 DEF EntriesKnown
  <2>2. \A j \in Indices : SameFlow(i, j) => (Done(j) <=> j <= readPos)
    BY <1>1, <1>7, <2>1 DEF SameFlow, TupleOf, Done
  <2>3. Alike(t, EntryOf(f, t), FlowTo(readPos, t))
    BY <1>0, <1>4, <2>1, <2>2 DEF Agree
  <2>4. EntryOf(f, t) = flows[f][t]
    BY DEF EntryOf
  <2>5. FlowTo(readPos, t) = Sequential.flows[t]
    BY <1>2, <2>1 DEF FlowTo, RunTo, Sequential, FlowIn, Done
  <2> QED BY <2>3, <2>4, <2>5 DEF Alike, Fields
<1> QED BY <1>5, <1>6, <1>7

\* The engine in several threads decides as the engine in one: for packets whose names
\* both take alike, what it lets through and what it drops is what main_working.cpp
\* lets through and drops, and the flow of a five-tuple none of whose packets waits is
\* the one main_working.cpp has (FastPath::run and classifyFlow against the loop of
\* main()).
THEOREM DecidesAsSequential == Spec => []SameAsSequential
<1>1. Init => OInv /\ VInv
  BY InitOInv, InitVInv
<1>2. OInv /\ VInv /\ [Next]_vars => OInv' /\ VInv'
  BY VInvStep
<1>3. OInv /\ VInv => SameAsSequential
  BY AlikeEverywhere
<1> QED BY <1>1, <1>2, <1>3, PTL DEF Spec
=============================================================================
