-------------------------- MODULE DPIPipelineProofs --------------------------
(***************************************************************************)
(* Proofs about DPIPipeline for any number of load balancers and fast       *)
(* paths, any queue capacity, any hash and any input file.                  *)
(***************************************************************************)
EXTENDS DPIPipeline, QueueOpsProofs, FiniteSetTheorems, SequenceTheorems, TLAPS

\* There are as many FPs as the product says, and thread numbers are disjoint.
LEMMA ThreadNumbers ==
  /\ Out \in Nat /\ NumLBs < Out
  /\ Workers = LBs \cup FPs /\ LBs \cap FPs = {} /\ Workers \subseteq Threads
  /\ Out \in Threads /\ Out \notin Workers
  /\ 0 \in Workers /\ NumLBs \in Workers
  /\ \A l \in LBs, f \in FPs : l < f
<1> DEFINE M == NumLBs * FpsPerLB
<1>1. M \in Nat /\ M > 0
  BY ThreadsAssumption
<1> QED
  BY <1>1, ThreadsAssumption DEF Out, Workers, Threads, LBs, FPs

\* The group of FPs of LB l ends before the last FP.
LEMMA GroupFits ==
  ASSUME NEW l \in LBs
  PROVE  l * FpsPerLB + FpsPerLB <= NumLBs * FpsPerLB
<1>1. PICK m \in Nat : NumLBs = l + 1 + m
  <2>1. NumLBs - l - 1 \in Nat /\ NumLBs = l + 1 + (NumLBs - l - 1)
    BY ThreadsAssumption DEF LBs
  <2> QED BY <2>1
<1>2. NumLBs * FpsPerLB = l * FpsPerLB + FpsPerLB + m * FpsPerLB
  BY <1>1, ThreadsAssumption DEF LBs
<1>3. m * FpsPerLB \in Nat /\ l * FpsPerLB \in Nat
  BY <1>1, ThreadsAssumption DEF LBs
<1> QED BY <1>2, <1>3, ThreadsAssumption

\* The reader's choice is an LB, and an LB's choice is one of the FPs.
LEMMA Routing ==
  ASSUME NEW p \in Counted
  PROVE  /\ LBOf(p) \in LBs
         /\ \A l \in LBs : SelectFP(l, p) \in FPs
<1> DEFINE h == Hash[FlowOf[p]]
           r == h % FpsPerLB
<1>1. h \in Nat
  BY InputAssumption DEF Counted, Packets
<1>2. LBOf(p) \in LBs
  BY <1>1, ThreadsAssumption DEF LBOf, LBs
<1>3. r \in 0..(FpsPerLB - 1)
  BY <1>1, ThreadsAssumption
<1>4. ASSUME NEW l \in LBs
      PROVE  SelectFP(l, p) \in FPs
  <2> DEFINE k == l * FpsPerLB
  <2>1. k \in Nat /\ k + FpsPerLB <= NumLBs * FpsPerLB
    BY GroupFits, ThreadsAssumption DEF LBs
  <2> HIDE DEF k
  <2>2. SelectFP(l, p) = NumLBs + k + r
    BY DEF SelectFP, k
  <2>3. NumLBs * FpsPerLB \in Nat
    BY ThreadsAssumption
  <2> HIDE DEF r
  <2> QED BY <2>1, <2>2, <2>3, <1>3, ThreadsAssumption DEF FPs, Out
<1> QED BY <1>2, <1>4

-----------------------------------------------------------------------------
(***************************************************************************)
(* The inductive invariant.  Type correctness is not inductive alone: that  *)
(* a pushed packet is a packet rests on what a thread at "push" holds, and  *)
(* that a thread starts with nothing in hand rests on the order in which    *)
(* the main thread starts them.                                             *)
(***************************************************************************)

BeforeReader == mainPc \in {"openOutput", "startOutput", "startWorker", "startReader", "returnFalse"}
Stopping     == mainPc \in {"flagWorker", "shutWorker", "joinWorker"}
Final        == mainPc \in {"shutOutput", "joinOutput", "close", "returnTrue"}

\* Exactly the threads that are about to use a packet hold one.
HandInv ==
  /\ \A t \in Threads : pc[t] \in {"process", "push", "write"} <=> hand[t] # None
  /\ readerPc = "push" => readerPos \in Counted

\* No packet is anywhere before the reader is started.
QuietStart ==
  BeforeReader => /\ readerPc = "idle"
                  /\ \A t \in Threads : hand[t] = None /\ queue[t] = NewQueue

IInv0 == TypeOK /\ HandInv /\ QuietStart

\* The initial state has its types, empty hands and quiet queues.
LEMMA InitIInv0 == Init => IInv0
<1> SUFFICES ASSUME Init PROVE IInv0
  OBVIOUS
<1>1. 0 \in Workers /\ 0 \in 0..NumPackets
  BY ThreadNumbers, InputAssumption
<1>2. NewQueue \in QueueType(Counted)
  BY DEF QueueType, NewQueue
<1>3. TypeOK
  BY <1>1, <1>2 DEF Init, TypeOK
<1>4. HandInv /\ QuietStart
  BY DEF Init, HandInv, QuietStart
<1> QED BY <1>3, <1>4 DEF IInv0

\* Every action leaves each variable in its set.
LEMMA TypeStep ==
  ASSUME IInv0, Next
  PROVE  TypeOK'
<1> USE DEF IInv0
<1>0. 0 \notin Counted
  BY DEF Counted, Packets
<1>1. CASE OpenOutput
  BY <1>1, ThreadNumbers DEF OpenOutput, TypeOK, MainGoto, workVars, readerVars
<1>2. CASE StartOutput
  BY <1>2, ThreadNumbers, ThreadsAssumption
  DEF StartOutput, TypeOK, MainGoto, workVars, readerVars, fileVars
<1>3. CASE StartWorker
  <2>1. (mainIdx + 1) % Out \in Workers /\ 0 \in Workers
    BY ThreadNumbers, ThreadsAssumption DEF TypeOK, Workers
  <2>2. mainPc' \in {"startReader", "startWorker"} /\ mainIdx' \in Workers
    BY <1>3, <2>1 DEF StartWorker, MainGoto
  <2> QED
    BY <1>3, <2>2, ThreadNumbers DEF StartWorker, TypeOK, readerVars, fileVars
<1>4. CASE StartReader
  BY <1>4, ThreadNumbers DEF StartReader, TypeOK, MainGoto, workVars, fileVars
<1>5. CASE JoinReader
  BY <1>5, ThreadNumbers DEF JoinReader, TypeOK, MainGoto, workVars, readerVars, fileVars
<1>6. CASE FlagWorker
  BY <1>6, ThreadNumbers DEF FlagWorker, TypeOK, MainGoto, workVars, readerVars, fileVars
<1>7. CASE ShutWorker
  <2>1. queue' \in [Threads -> QueueType(Counted)]
    BY <1>7, ThreadNumbers, QueueOpsType DEF ShutWorker, TypeOK
  <2> QED
    BY <1>7, <2>1 DEF ShutWorker, TypeOK, MainGoto, readerVars, fileVars
<1>8. CASE JoinWorker
  BY <1>8, ThreadNumbers DEF JoinWorker, TypeOK, MainGoto, workVars, readerVars, fileVars
<1>9. CASE ShutOutput
  <2>1. queue' \in [Threads -> QueueType(Counted)]
    BY <1>9, ThreadNumbers, QueueOpsType DEF ShutOutput, TypeOK
  <2> QED
    BY <1>9, <2>1, ThreadNumbers DEF ShutOutput, TypeOK, MainGoto, readerVars, fileVars
<1>10. CASE JoinOutput
  BY <1>10, ThreadNumbers DEF JoinOutput, TypeOK, MainGoto, workVars, readerVars, fileVars
<1>11. CASE CloseFile
  BY <1>11, ThreadNumbers DEF CloseFile, TypeOK, MainGoto, workVars, readerVars
<1>12. CASE ReaderOpen
  BY <1>12 DEF ReaderOpen, WriteFile, TypeOK, mainVars, workVars
<1>13. CASE ReaderRead
  BY <1>13, InputAssumption DEF ReaderRead, TypeOK, mainVars, workVars, fileVars
<1>14. CASE ReaderPush
  BY <1>14, Routing, ThreadNumbers, QueueOpsType
  DEF ReaderPush, TypeOK, HandInv, mainVars, fileVars
<1>15. ASSUME NEW w \in Workers, Worker(w)
       PROVE  TypeOK'
  <2> w \in Threads
    BY ThreadNumbers
  <2>1. CASE WorkerCheck(w) \/ WorkerEmpty(w) \/ WorkerPopNothing(w)
    BY <2>1 DEF WorkerCheck, WorkerEmpty, WorkerPopNothing, Goto, TypeOK, mainVars, readerVars, fileVars
  <2>2. CASE WorkerPop(w)
    BY <2>2, QueueOpsType DEF WorkerPop, Goto, TypeOK, mainVars, readerVars, fileVars
  <2>3. CASE FPProcess(w)
    BY <2>3 DEF FPProcess, Goto, TypeOK, mainVars, readerVars, fileVars
  <2>4. CASE WorkerPush(w)
    <3>1. hand[w] \in Counted
      BY <2>4 DEF WorkerPush, HandInv, TypeOK
    <3>2. Target(w, hand[w]) \in Threads
      BY <3>1, Routing, ThreadNumbers DEF Target
    <3> QED
      BY <2>4, <3>1, <3>2, QueueOpsType DEF WorkerPush, Goto, TypeOK, mainVars, readerVars, fileVars
  <2> QED BY <1>15, <2>1, <2>2, <2>3, <2>4 DEF Worker
<1>16. CASE OutPop
  BY <1>16, ThreadNumbers, QueueOpsType DEF OutPop, Goto, TypeOK, mainVars, readerVars, fileVars
<1>17. CASE OutPopNothing \/ OutIsShutdown
  BY <1>17, ThreadNumbers DEF OutPopNothing, OutIsShutdown, Goto, TypeOK, mainVars, readerVars, fileVars
<1>18. CASE OutWrite
  BY <1>18, ThreadNumbers DEF OutWrite, WriteFile, Goto, TypeOK, HandInv, mainVars, readerVars
<1>19. CASE Terminating
  BY <1>19 DEF Terminating, TypeOK, vars, mainVars, readerVars, workVars, fileVars
<1> QED BY <1>1, <1>2, <1>3, <1>4, <1>5, <1>6, <1>7, <1>8, <1>9, <1>10, <1>11, <1>12,
           <1>13, <1>14, <1>15, <1>16, <1>17, <1>18, <1>19 DEF Next, Main, Reader, Output

\* A thread holds a packet exactly where run() and outputThreadFunc have one in a local.
LEMMA HandStep ==
  ASSUME IInv0, Next
  PROVE  HandInv'
<1> USE DEF IInv0
<1>0. None \notin Counted
  BY DEF Counted, Packets, None
<1>1. CASE StartOutput \/ StartWorker
  BY <1>1, ThreadNumbers
  DEF StartOutput, StartWorker, QuietStart, BeforeReader, TypeOK, HandInv, readerVars
<1>2. CASE \/ OpenOutput \/ StartReader \/ JoinReader \/ FlagWorker \/ ShutWorker
           \/ JoinWorker \/ ShutOutput \/ JoinOutput \/ CloseFile
  BY <1>2 DEF OpenOutput, StartReader, JoinReader, FlagWorker, ShutWorker, JoinWorker, ShutOutput,
              JoinOutput, CloseFile, HandInv, workVars, readerVars
<1>3. CASE Reader
  BY <1>3 DEF Reader, ReaderOpen, ReaderRead, ReaderPush, HandInv, workVars
<1>4. ASSUME NEW w \in Workers, Worker(w)
      PROVE  HandInv'
  <2> w \in Threads
    BY ThreadNumbers
  <2>1. CASE WorkerCheck(w) \/ WorkerEmpty(w) \/ WorkerPopNothing(w)
    BY <2>1 DEF WorkerCheck, WorkerEmpty, WorkerPopNothing, Goto, HandInv, TypeOK, readerVars
  <2>2. CASE WorkerPop(w)
    <3>1. Head(queue[w].items) # None
      BY <1>0, <2>2, QueueOpsType DEF WorkerPop, TypeOK
    <3> QED
      BY <2>2, <3>1 DEF WorkerPop, Goto, HandInv, TypeOK, readerVars
  <2>3. CASE FPProcess(w)
    BY <2>3 DEF FPProcess, Goto, HandInv, TypeOK, readerVars
  <2>4. CASE WorkerPush(w)
    BY <2>4 DEF WorkerPush, Goto, HandInv, TypeOK, readerVars
  <2> QED BY <1>4, <2>1, <2>2, <2>3, <2>4 DEF Worker
<1>5. CASE OutPop
  <2>1. Head(queue[Out].items) # None
    BY <1>0, <1>5, ThreadNumbers, QueueOpsType DEF OutPop, TypeOK
  <2> QED
    BY <1>5, <2>1, ThreadNumbers DEF OutPop, Goto, HandInv, TypeOK, readerVars
<1>6. CASE OutPopNothing \/ OutIsShutdown \/ OutWrite
  BY <1>6, ThreadNumbers DEF OutPopNothing, OutIsShutdown, OutWrite, Goto, HandInv, TypeOK, readerVars
<1>7. CASE Terminating
  BY <1>7 DEF Terminating, HandInv, vars, readerVars, workVars
<1> QED BY <1>1, <1>2, <1>3, <1>4, <1>5, <1>6, <1>7 DEF Next, Main, Output

\* Until the reader thread is started there is no packet anywhere and no queue is shut down.
LEMMA QuietStep ==
  ASSUME IInv0, Next
  PROVE  QuietStart'
<1> USE DEF IInv0
<1> SUFFICES ASSUME BeforeReader'
             PROVE  QuietStart'
  BY DEF QuietStart
<1>1. CASE OpenOutput \/ StartOutput \/ StartWorker
  BY <1>1 DEF OpenOutput, StartOutput, StartWorker, MainGoto, QuietStart, BeforeReader, workVars, readerVars
<1>2. CASE \/ StartReader \/ JoinReader \/ FlagWorker \/ ShutWorker
           \/ JoinWorker \/ ShutOutput \/ JoinOutput \/ CloseFile
  BY <1>2 DEF StartReader, JoinReader, FlagWorker, ShutWorker, JoinWorker, ShutOutput,
              JoinOutput, CloseFile, MainGoto, BeforeReader
<1>3. BeforeReader /\ Reader => FALSE
  BY DEF QuietStart, Reader, ReaderOpen, ReaderRead, ReaderPush
<1>4. ASSUME NEW w \in Workers, Worker(w), BeforeReader
      PROVE  QuietStart'
  <2> w \in Threads
    BY ThreadNumbers
  <2>1. IsEmpty(queue[w]) /\ hand[w] = None
    BY <1>4 DEF QuietStart, NewQueue, IsEmpty
  <2>2. WorkerCheck(w) \/ WorkerEmpty(w) \/ WorkerPopNothing(w)
    BY <1>4, <2>1 DEF Worker, WorkerPop, FPProcess, WorkerPush, HandInv
  <2> QED
    BY <1>4, <2>2 DEF WorkerCheck, WorkerEmpty, WorkerPopNothing, QuietStart, readerVars
<1>5. ASSUME Output, BeforeReader
      PROVE  QuietStart'
  <2>1. IsEmpty(queue[Out]) /\ hand[Out] = None
    BY <1>5, ThreadNumbers DEF QuietStart, NewQueue, IsEmpty
  <2>2. OutPopNothing \/ OutIsShutdown
    BY <1>5, <2>1, ThreadNumbers DEF Output, OutPop, OutWrite, HandInv
  <2> QED
    BY <1>5, <2>2 DEF OutPopNothing, OutIsShutdown, QuietStart, readerVars
<1>6. CASE Terminating
  BY <1>6 DEF Terminating, QuietStart, BeforeReader, vars, mainVars, readerVars, workVars
<1>7. Reader \/ (\E w \in Workers : Worker(w)) \/ Output => mainPc' = mainPc
  BY DEF Reader, ReaderOpen, ReaderRead, ReaderPush, Worker, WorkerCheck, WorkerEmpty, WorkerPop,
         WorkerPopNothing, FPProcess, WorkerPush, Output, OutPop, OutPopNothing, OutWrite,
         OutIsShutdown, mainVars
<1> QED BY <1>1, <1>2, <1>3, <1>4, <1>5, <1>6, <1>7 DEF Next, Main, BeforeReader

\* Types, hands and the quiet start are inductive together.
LEMMA IInv0Step == IInv0 /\ [Next]_vars => IInv0'
<1> SUFFICES ASSUME IInv0, [Next]_vars PROVE IInv0'
  OBVIOUS
<1>1. CASE Next
  BY <1>1, TypeStep, HandStep, QuietStep DEF IInv0
<1>2. CASE UNCHANGED vars
  BY <1>2 DEF IInv0, TypeOK, HandInv, QuietStart, BeforeReader, vars, mainVars, readerVars,
              workVars, fileVars
<1> QED BY <1>1, <1>2

\* The state of every variable stays within its type, for every engine and input.
THEOREM TypeCorrect == Spec => []TypeOK
<1>1. IInv0 => TypeOK
  BY DEF IInv0
<1> QED BY InitIInv0, IInv0Step, <1>1, PTL DEF Spec

-----------------------------------------------------------------------------
(***************************************************************************)
(* Shutdown order.  The main thread stops worker w only after everything    *)
(* that pushes to w has ended, and that is what keeps both halves true: no  *)
(* queue is shut down while it can still be pushed to, and a worker that    *)
(* found running_ clear and its queue empty will never get another packet.  *)
(***************************************************************************)

\* stop() has cleared running_ of w; the join of w has returned.
Flagged(w) == \/ Final
              \/ Stopping /\ w < mainIdx
              \/ mainPc \in {"shutWorker", "joinWorker"} /\ w = mainIdx
Joined(w) == Final \/ (Stopping /\ w < mainIdx)

StopOrder ==
  /\ Stopping \/ Final => readerPc = "done"
  /\ queue[Out].shut => mainPc \in {"joinOutput", "close", "returnTrue"}
  /\ \A w \in Workers :
       /\ Joined(w) => pc[w] = "done"
       /\ queue[w].shut => Flagged(w)
       /\ pc[w] \in {"empty", "done"} => Flagged(w)
       /\ pc[w] # "idle" /\ ~running[w] => Flagged(w)

Ends ==
  /\ mainPc \in {"openOutput", "returnFalse"} => \A t \in Threads : pc[t] = "idle"
  /\ mainPc \in {"close", "returnTrue"} => pc[Out] = "done"

SInv == IInv0 /\ StopOrder /\ Ends /\ WorkersDrain

\* What a worker pushes to is still open and its owner has not ended.
LEMMA PushOpen ==
  ASSUME SInv
  PROVE  /\ readerPc = "push" =>
              /\ LBOf(readerPos) \in LBs
              /\ ~queue[LBOf(readerPos)].shut
              /\ pc[LBOf(readerPos)] # "done"
         /\ \A w \in Workers : pc[w] = "push" =>
              LET t == Target(w, hand[w])
              IN /\ hand[w] \in Counted
                 /\ t \in FPs \cup {Out}
                 /\ ~queue[t].shut
                 /\ t \in Workers => pc[t] # "done"
<1> USE DEF SInv
<1>1. ASSUME readerPc = "push"
      PROVE  /\ LBOf(readerPos) \in LBs
             /\ ~queue[LBOf(readerPos)].shut
             /\ pc[LBOf(readerPos)] # "done"
  <2>1. LBOf(readerPos) \in LBs /\ LBOf(readerPos) \in Workers
    BY <1>1, Routing, ThreadNumbers DEF IInv0, HandInv
  <2>2. ~(Stopping \/ Final)
    BY <1>1 DEF StopOrder
  <2>3. ~Flagged(LBOf(readerPos))
    BY <2>2 DEF Flagged, Stopping
  <2> QED BY <2>1, <2>3 DEF StopOrder
<1>2. ASSUME NEW w \in Workers, pc[w] = "push"
      PROVE  LET t == Target(w, hand[w])
             IN /\ hand[w] \in Counted
                /\ t \in FPs \cup {Out}
                /\ ~queue[t].shut
                /\ t \in Workers => pc[t] # "done"
  <2> DEFINE t == Target(w, hand[w])
  <2>1. hand[w] \in Counted
    BY <1>2, ThreadNumbers DEF IInv0, HandInv, TypeOK
  <2>2. ~Joined(w)
    BY <1>2 DEF StopOrder
  <2>3. CASE w \in LBs
    <3>1. t \in FPs /\ t \in Workers /\ t # Out /\ w < t
      BY <2>1, <2>3, Routing, ThreadNumbers DEF Target
    <3>2. mainIdx \in Nat /\ w \in Nat /\ t \in Nat
      BY <3>1, ThreadNumbers DEF IInv0, TypeOK, Workers
    <3>3. Flagged(t) => Joined(w)
      BY <3>1, <3>2 DEF Flagged, Joined, Stopping
    <3> QED BY <2>1, <2>2, <3>1, <3>3 DEF StopOrder
  <2>4. CASE w \notin LBs
    <3>1. t = Out /\ Out \notin Workers
      BY <2>4, ThreadNumbers DEF Target
    <3>2. queue[Out].shut => Joined(w)
      BY DEF StopOrder, Joined, Final, IInv0, TypeOK
    <3> QED BY <2>1, <2>2, <3>1, <3>2
  <2> QED BY <2>3, <2>4
<1> QED BY <1>1, <1>2

\* SInv in a form the step proofs use: nothing but the main thread's own steps
\* moves what StopOrder says of the main thread.
LEMMA MainPcStays ==
  ASSUME Reader \/ (\E w \in Workers : Worker(w)) \/ Output
  PROVE  /\ UNCHANGED <<mainPc, mainIdx, running, fileOpen>>
         /\ Stopping' = Stopping /\ Final' = Final /\ BeforeReader' = BeforeReader
         /\ \A w : Flagged(w)' = Flagged(w) /\ Joined(w)' = Joined(w)
<1>1. UNCHANGED <<mainPc, mainIdx, running, fileOpen>>
  BY DEF Reader, ReaderOpen, ReaderRead, ReaderPush, Worker, WorkerCheck, WorkerEmpty, WorkerPop,
         WorkerPopNothing, FPProcess, WorkerPush, Output, OutPop, OutPopNothing, OutWrite,
         OutIsShutdown, mainVars, fileVars
<1> QED BY <1>1 DEF Stopping, Final, BeforeReader, Flagged, Joined

\* The steps of processFile and stop() keep the stop order.
LEMMA StopOrderMain ==
  ASSUME SInv, Main
  PROVE  StopOrder'
<1> USE DEF SInv
<1>0. mainIdx \in Nat /\ mainIdx \in Workers /\ \A w \in Workers : w \in Nat /\ w < Out
  BY ThreadNumbers DEF IInv0, TypeOK, Workers
<1>1. CASE OpenOutput \/ StartOutput \/ StartReader
  BY <1>1, ThreadNumbers
  DEF OpenOutput, StartOutput, StartReader, MainGoto, StopOrder, Stopping, Final, Flagged, Joined,
      IInv0, TypeOK, QuietStart, BeforeReader, NewQueue, workVars, readerVars
<1>2. CASE StartWorker
  <2>1. mainPc' \in {"startReader", "startWorker"}
    BY <1>2 DEF StartWorker, MainGoto
  <2>2. \A w \in Workers : ~Flagged(w)
    BY <1>2 DEF StartWorker, Flagged, Stopping, Final
  <2> QED
    BY <1>2, <2>1, <2>2, ThreadNumbers
    DEF StartWorker, StopOrder, Stopping, Final, Flagged, Joined, IInv0, TypeOK, readerVars
<1>3. CASE JoinReader
  <2>1. \A w \in Workers : ~Flagged(w)
    BY <1>3 DEF JoinReader, Flagged, Stopping, Final
  <2>2. \A w \in Workers : ~Joined(w)'
    BY <1>3, <1>0 DEF JoinReader, MainGoto, Joined, Stopping, Final
  <2> QED
    BY <1>3, <2>1, <2>2 DEF JoinReader, MainGoto, StopOrder, workVars, readerVars
<1>4. CASE FlagWorker
  <2>1. \A w \in Workers : Flagged(w)' <=> Flagged(w) \/ w = mainIdx
    BY <1>4, <1>0 DEF FlagWorker, MainGoto, Flagged, Stopping, Final
  <2>2. \A w \in Workers : Joined(w)' <=> Joined(w)
    BY <1>4 DEF FlagWorker, MainGoto, Joined, Stopping, Final
  <2> QED
    BY <1>4, <2>1, <2>2
    DEF FlagWorker, MainGoto, StopOrder, Stopping, Final, IInv0, TypeOK, workVars, readerVars
<1>5. CASE ShutWorker
  <2>1. \A w \in Workers : Flagged(w)' <=> Flagged(w)
    BY <1>5, <1>0 DEF ShutWorker, MainGoto, Flagged, Stopping, Final
  <2>2. \A w \in Workers : Joined(w)' <=> Joined(w)
    BY <1>5 DEF ShutWorker, MainGoto, Joined, Stopping, Final
  <2>3. Flagged(mainIdx)
    BY <1>5 DEF ShutWorker, Flagged
  <2> QED
    BY <1>5, <2>1, <2>2, <2>3, ThreadNumbers
    DEF ShutWorker, MainGoto, StopOrder, Stopping, Final, IInv0, TypeOK, readerVars
<1>6. CASE JoinWorker
  <2>1. \A w \in Workers : Joined(w)' => Joined(w) \/ w = mainIdx
    <3>1. CASE mainIdx + 1 \in Workers
      BY <1>6, <1>0, <3>1 DEF JoinWorker, MainGoto, Joined, Stopping, Final
    <3>2. CASE mainIdx + 1 \notin Workers
      <4>1. mainIdx = Out - 1
        BY <1>0, <3>2, ThreadNumbers DEF Workers
      <4>2. \A w \in Workers : w < mainIdx \/ w = mainIdx
        BY <1>0, <4>1, ThreadNumbers
      <4> QED BY <1>6, <4>2 DEF JoinWorker, Joined, Stopping
    <3> QED BY <3>1, <3>2
  <2>2. \A w \in Workers : Flagged(w) => Flagged(w)'
    BY <1>6, <1>0 DEF JoinWorker, MainGoto, Flagged, Stopping, Final
  <2> QED
    BY <1>6, <2>1, <2>2
    DEF JoinWorker, MainGoto, StopOrder, Stopping, Final, workVars, readerVars
<1>7. CASE ShutOutput \/ JoinOutput \/ CloseFile
  <2>1. Final /\ Final'
    BY <1>7 DEF ShutOutput, JoinOutput, CloseFile, MainGoto, Final
  <2>2. \A w \in Workers : Flagged(w) /\ Flagged(w)' /\ Joined(w) /\ Joined(w)'
    BY <2>1 DEF Flagged, Joined
  <2> QED
    BY <1>7, <2>1, <2>2, ThreadNumbers
    DEF ShutOutput, JoinOutput, CloseFile, MainGoto, StopOrder, IInv0, TypeOK, workVars, readerVars
<1> QED BY <1>1, <1>2, <1>3, <1>4, <1>5, <1>6, <1>7 DEF Main

\* So does every step: no other thread clears running_ or shuts a queue down.
LEMMA StopOrderStep ==
  ASSUME SInv, Next
  PROVE  StopOrder'
<1> USE DEF SInv
<1>1. CASE Main
  BY <1>1, StopOrderMain
<1>2. CASE Reader
  <2>1. readerPc = "push" => LBOf(readerPos) \in Workers /\ ~queue[LBOf(readerPos)].shut
    BY PushOpen, ThreadNumbers
  <2>2. readerPc # "done"
    BY <1>2 DEF Reader, ReaderOpen, ReaderRead, ReaderPush
  <2>3. \A t \in Threads : queue'[t].shut = queue[t].shut
    <3>1. CASE ReaderPush
      <4> DEFINE t == LBOf(readerPos)
      <4>1. t \in Threads /\ ~queue[t].shut
        BY <3>1, <2>1, ThreadNumbers DEF ReaderPush
      <4>2. queue' = [queue EXCEPT ![t] = Push(@, readerPos)]
        BY <3>1 DEF ReaderPush
      <4> HIDE DEF t
      <4> QED BY <4>1, <4>2 DEF Push, IInv0, TypeOK, QueueType
    <3>2. CASE ReaderOpen \/ ReaderRead
      BY <3>2 DEF ReaderOpen, ReaderRead, workVars
    <3> QED BY <1>2, <3>1, <3>2 DEF Reader
  <2>4. pc' = pc
    BY <1>2 DEF Reader, ReaderOpen, ReaderRead, ReaderPush, workVars
  <2> QED
    BY <1>2, <2>2, <2>3, <2>4, MainPcStays, ThreadNumbers DEF StopOrder
<1>3. ASSUME NEW w \in Workers, Worker(w)
      PROVE  StopOrder'
  <2>0. w \in Threads /\ w # Out /\ pc[w] \notin {"idle", "done"}
    BY <1>3, ThreadNumbers
    DEF Worker, WorkerCheck, WorkerEmpty, WorkerPop, WorkerPopNothing, FPProcess, WorkerPush
  <2>1. \A t \in Threads : queue'[t].shut = queue[t].shut
    <3>1. CASE WorkerPop(w)
      BY <3>1, <2>0 DEF WorkerPop, Pop, IInv0, TypeOK, QueueType
    <3>2. CASE WorkerPush(w)
      <4> DEFINE t == Target(w, hand[w])
      <4>1. t \in Threads /\ ~queue[t].shut
        BY <3>2, PushOpen, ThreadNumbers DEF WorkerPush
      <4>2. queue' = [queue EXCEPT ![t] = Push(@, hand[w])]
        BY <3>2 DEF WorkerPush
      <4> HIDE DEF t
      <4> QED BY <4>1, <4>2 DEF Push, IInv0, TypeOK, QueueType
    <3>3. CASE WorkerCheck(w) \/ WorkerEmpty(w) \/ WorkerPopNothing(w) \/ FPProcess(w)
      BY <3>3 DEF WorkerCheck, WorkerEmpty, WorkerPopNothing, FPProcess
    <3> QED BY <1>3, <3>1, <3>2, <3>3 DEF Worker
  <2>2. \A t \in Threads : t # w => pc'[t] = pc[t]
    BY <1>3, <2>0
    DEF Worker, WorkerCheck, WorkerEmpty, WorkerPop, WorkerPopNothing, FPProcess, WorkerPush,
        Goto, IInv0, TypeOK
  <2>3. ~Joined(w)
    BY <2>0 DEF StopOrder
  <2>4. pc'[w] \in {"empty", "done"} => Flagged(w)
    BY <1>3, <2>0
    DEF Worker, WorkerCheck, WorkerEmpty, WorkerPop, WorkerPopNothing, FPProcess, WorkerPush,
        Goto, IInv0, TypeOK, StopOrder
  <2>5. readerPc' = readerPc
    BY <1>3
    DEF Worker, WorkerCheck, WorkerEmpty, WorkerPop, WorkerPopNothing, FPProcess, WorkerPush, readerVars
  <2>6. /\ UNCHANGED <<mainPc, running>> /\ Stopping' = Stopping /\ Final' = Final
        /\ \A v \in Workers : Flagged(v)' = Flagged(v) /\ Joined(v)' = Joined(v)
    BY <1>3, MainPcStays
  <2>7. ASSUME NEW v \in Workers
        PROVE  /\ Joined(v)' => pc'[v] = "done"
               /\ queue'[v].shut => Flagged(v)'
               /\ pc'[v] \in {"empty", "done"} => Flagged(v)'
               /\ pc'[v] # "idle" /\ ~running'[v] => Flagged(v)'
    <3>1. CASE v = w
      BY <2>0, <2>1, <2>3, <2>4, <2>6, <3>1 DEF StopOrder
    <3>2. CASE v # w
      <4>1. v \in Threads /\ pc'[v] = pc[v] /\ queue'[v].shut = queue[v].shut
        BY <2>1, <2>2, <3>2, ThreadNumbers
      <4> QED BY <4>1, <2>6 DEF StopOrder
    <3> QED BY <3>1, <3>2
  <2> QED
    BY <2>1, <2>5, <2>6, <2>7, ThreadNumbers DEF StopOrder
<1>4. CASE Output
  <2>1. \A t \in Threads : queue'[t].shut = queue[t].shut
    <3>1. CASE OutPop
      BY <3>1, ThreadNumbers DEF OutPop, Pop, IInv0, TypeOK, QueueType
    <3>2. CASE OutPopNothing \/ OutWrite \/ OutIsShutdown
      BY <3>2 DEF OutPopNothing, OutWrite, OutIsShutdown
    <3> QED BY <1>4, <3>1, <3>2 DEF Output
  <2>2. \A w \in Workers : pc'[w] = pc[w]
    BY <1>4, ThreadNumbers
    DEF Output, OutPop, OutPopNothing, OutWrite, OutIsShutdown, Goto, IInv0, TypeOK
  <2>3. readerPc' = readerPc
    BY <1>4 DEF Output, OutPop, OutPopNothing, OutWrite, OutIsShutdown, readerVars
  <2> QED
    BY <1>4, <2>1, <2>2, <2>3, MainPcStays, ThreadNumbers DEF StopOrder
<1>5. CASE Terminating
  BY <1>5 DEF Terminating, StopOrder, Stopping, Final, Flagged, Joined,
              vars, mainVars, readerVars, workVars
<1> QED BY <1>1, <1>2, <1>3, <1>4, <1>5 DEF Next

\* A thread ends only when told to, so what ended stays ended.
LEMMA EndsStep ==
  ASSUME SInv, Next
  PROVE  Ends'
<1> USE DEF SInv
<1>1. CASE Main
  BY <1>1, ThreadNumbers
  DEF Main, OpenOutput, StartOutput, StartWorker, StartReader, JoinReader, FlagWorker, ShutWorker,
      JoinWorker, ShutOutput, JoinOutput, CloseFile, MainGoto, Ends, workVars
<1>2. CASE Reader
  BY <1>2, MainPcStays DEF Reader, ReaderOpen, ReaderRead, ReaderPush, Ends, workVars
<1>3. ASSUME NEW w \in Workers, Worker(w)
      PROVE  Ends'
  <2>1. pc[w] # "idle" /\ w \in Threads /\ w # Out
    BY <1>3, ThreadNumbers
    DEF Worker, WorkerCheck, WorkerEmpty, WorkerPop, WorkerPopNothing, FPProcess, WorkerPush
  <2>2. pc'[Out] = pc[Out]
    BY <1>3, <2>1, ThreadNumbers
    DEF Worker, WorkerCheck, WorkerEmpty, WorkerPop, WorkerPopNothing, FPProcess, WorkerPush,
        Goto, IInv0, TypeOK
  <2> QED BY <1>3, <2>1, <2>2, MainPcStays DEF Ends
<1>4. CASE Output
  <2>1. pc[Out] \notin {"idle", "done"}
    BY <1>4 DEF Output, OutPop, OutPopNothing, OutWrite, OutIsShutdown
  <2> QED BY <1>4, <2>1, MainPcStays, ThreadNumbers DEF Ends
<1>5. CASE Terminating
  BY <1>5 DEF Terminating, Ends, vars, mainVars, workVars
<1> QED BY <1>1, <1>2, <1>3, <1>4, <1>5 DEF Next

\* Starting, stopping and joining threads moves no packet.
LEMMA MainMovesNothing ==
  ASSUME IInv0, Main
  PROVE  hand' = hand /\ \A t \in Threads : queue'[t].items = queue[t].items
<1> USE DEF IInv0
<1>1. hand' = hand
  BY DEF Main, OpenOutput, StartOutput, StartWorker, StartReader, JoinReader, FlagWorker, ShutWorker,
         JoinWorker, ShutOutput, JoinOutput, CloseFile, workVars
<1>2. CASE ShutWorker \/ ShutOutput
  <2>1. \E t \in Threads : queue' = [queue EXCEPT ![t] = Shutdown(@)]
    BY <1>2, ThreadNumbers DEF ShutWorker, ShutOutput, TypeOK
  <2>2. \A t \in Threads : Shutdown(queue[t]).items = queue[t].items
    BY DEF Shutdown, TypeOK, QueueType
  <2> QED BY <1>1, <2>1, <2>2 DEF TypeOK
<1>3. CASE ~(ShutWorker \/ ShutOutput)
  BY <1>1, <1>3
  DEF Main, OpenOutput, StartOutput, StartWorker, StartReader, JoinReader, FlagWorker,
      JoinWorker, JoinOutput, CloseFile, workVars
<1> QED BY <1>2, <1>3

\* A worker leaves its loop with an empty queue, and nothing is pushed to it afterwards.
LEMMA DrainStep ==
  ASSUME SInv, Next
  PROVE  WorkersDrain'
<1> USE DEF SInv
<1>1. CASE Main
  <2>1. hand' = hand /\ \A w \in Workers : queue'[w].items = queue[w].items
    BY <1>1, MainMovesNothing, ThreadNumbers
  <2>2. \A w \in Workers : pc'[w] = "done" => pc[w] = "done"
    BY <1>1, ThreadNumbers
    DEF Main, OpenOutput, StartOutput, StartWorker, StartReader, JoinReader, FlagWorker, ShutWorker,
        JoinWorker, ShutOutput, JoinOutput, CloseFile, workVars, IInv0, TypeOK
  <2> QED BY <2>1, <2>2 DEF WorkersDrain, IsEmpty
<1>2. CASE Reader
  <2>1. UNCHANGED <<pc, hand>>
    BY <1>2 DEF Reader, ReaderOpen, ReaderRead, ReaderPush, workVars
  <2>2. \A w \in Workers : pc[w] = "done" => queue'[w] = queue[w]
    BY <1>2, PushOpen, ThreadNumbers
    DEF Reader, ReaderOpen, ReaderRead, ReaderPush, workVars, IInv0, TypeOK
  <2> QED BY <2>1, <2>2 DEF WorkersDrain
<1>3. ASSUME NEW w \in Workers, Worker(w), NEW v \in Workers, pc'[v] = "done"
      PROVE  IsEmpty(queue'[v]) /\ hand'[v] = None
  <2>0. v \in Threads /\ w \in Threads
    BY ThreadNumbers
  <2>1. CASE v = w
    <3>1. WorkerEmpty(w)
      BY <1>3, <2>0, <2>1
      DEF Worker, WorkerCheck, WorkerPop, WorkerPopNothing, FPProcess, WorkerPush, Goto, IInv0, TypeOK
    <3> QED
      BY <1>3, <2>0, <2>1, <3>1 DEF WorkerEmpty, Goto, IInv0, TypeOK, HandInv
  <2>2. CASE v # w
    <3>1. pc[v] = "done" /\ hand'[v] = hand[v]
      BY <1>3, <2>0, <2>2
      DEF Worker, WorkerCheck, WorkerEmpty, WorkerPop, WorkerPopNothing, FPProcess, WorkerPush,
          Goto, IInv0, TypeOK
    <3>2. pc[w] = "push" => v # Target(w, hand[w])
      <4>1. pc[w] = "push" /\ Target(w, hand[w]) \in Workers => pc[Target(w, hand[w])] # "done"
        BY PushOpen
      <4> QED BY <3>1, <4>1
    <3>3. queue'[v] = queue[v]
      <4>1. CASE WorkerPop(w)
        BY <2>0, <2>2, <4>1 DEF WorkerPop, IInv0, TypeOK
      <4>2. CASE WorkerPush(w)
        <5> DEFINE t == Target(w, hand[w])
        <5>1. t # v /\ queue' = [queue EXCEPT ![t] = Push(@, hand[w])]
          BY <3>2, <4>2 DEF WorkerPush
        <5> HIDE DEF t
        <5> QED BY <2>0, <5>1 DEF IInv0, TypeOK
      <4>3. CASE WorkerCheck(w) \/ WorkerEmpty(w) \/ WorkerPopNothing(w) \/ FPProcess(w)
        BY <4>3 DEF WorkerCheck, WorkerEmpty, WorkerPopNothing, FPProcess
      <4> QED BY <1>3, <4>1, <4>2, <4>3 DEF Worker
    <3> QED BY <3>1, <3>3 DEF WorkersDrain
  <2> QED BY <2>1, <2>2
<1>4. CASE Output
  <2>1. \A w \in Workers : w \in Threads /\ w # Out
    BY ThreadNumbers
  <2>2. \A w \in Workers : pc'[w] = pc[w] /\ hand'[w] = hand[w] /\ queue'[w] = queue[w]
    BY <1>4, <2>1 DEF Output, OutPop, OutPopNothing, OutWrite, OutIsShutdown, Goto, IInv0, TypeOK
  <2> QED BY <2>2 DEF WorkersDrain
<1>5. CASE Terminating
  BY <1>5 DEF Terminating, WorkersDrain, vars, workVars
<1> QED BY <1>1, <1>2, <1>3, <1>4, <1>5 DEF Next, WorkersDrain

\* The initial state satisfies the stop invariant.
LEMMA InitSInv == Init => SInv
<1> SUFFICES ASSUME Init PROVE SInv
  OBVIOUS
<1>1. \A w \in Workers : w \in Threads
  BY ThreadNumbers
<1>2. WorkersDrain /\ Ends
  BY <1>1 DEF Init, WorkersDrain, Ends
<1>3. StopOrder
  BY <1>1, ThreadNumbers DEF Init, StopOrder, Stopping, Final, Flagged, Joined, NewQueue
<1> QED BY <1>2, <1>3, InitIInv0 DEF SInv

\* The stop invariant is inductive.
LEMMA SInvStep == SInv /\ [Next]_vars => SInv'
<1> SUFFICES ASSUME SInv, [Next]_vars PROVE SInv'
  OBVIOUS
<1>1. CASE Next
  BY <1>1, TypeStep, HandStep, QuietStep, StopOrderStep, EndsStep, DrainStep DEF SInv, IInv0
<1>2. CASE UNCHANGED vars
  BY <1>2 DEF SInv, IInv0, TypeOK, HandInv, QuietStart, BeforeReader, StopOrder, Stopping, Final,
              Flagged, Joined, Ends, WorkersDrain, vars, mainVars, readerVars, workVars, fileVars
<1> QED BY <1>1, <1>2

\* No push ever meets a queue that was shut down, so push() discards nothing.
THEOREM ShutdownOrder == Spec => []PushesReachOpenQueues
<1>1. SInv => PushesReachOpenQueues
  BY PushOpen DEF PushesReachOpenQueues
<1> QED BY InitSInv, SInvStep, <1>1, PTL DEF Spec

\* A load balancer or fast path that has ended has left no packet behind, and
\* none will come: the first two stages do drain.
THEOREM WorkersAreDrained == Spec => []WorkersDrain
<1>1. SInv => WorkersDrain
  BY DEF SInv
<1> QED BY InitSInv, SInvStep, <1>1, PTL DEF Spec

\* processFile leaves no thread of its own running.
THEOREM NoThreadLeft == Spec => []AllJoinedAtReturn
<1>1. ASSUME SInv
      PROVE  AllJoinedAtReturn
  <2>1. CASE mainPc = "returnFalse"
    BY <1>1, <2>1 DEF SInv, IInv0, Ends, QuietStart, BeforeReader, AllJoinedAtReturn
  <2>2. CASE mainPc = "returnTrue"
    <3>1. \A w \in Workers : pc[w] = "done"
      BY <1>1, <2>2 DEF SInv, StopOrder, Joined, Final
    <3>2. pc[Out] = "done" /\ readerPc = "done"
      BY <1>1, <2>2 DEF SInv, StopOrder, Ends, Final
    <3>3. \A t \in Threads : t \in Workers \/ t = Out
      BY ThreadNumbers DEF Threads, Workers
    <3> QED BY <3>1, <3>2, <3>3 DEF AllJoinedAtReturn
  <2> QED BY <2>1, <2>2 DEF AllJoinedAtReturn, Returned
<1> QED BY InitSInv, SInvStep, <1>1, PTL DEF Spec

-----------------------------------------------------------------------------
(***************************************************************************)
(* Flow affinity.                                                           *)
(***************************************************************************)

\* A worker comes to hold a packet only by being its Target or the reader's choice.
LEMMA NewlyHeld ==
  ASSUME IInv0, Next, NEW w \in Workers, NEW p \in Held(w)'
  PROVE  \/ p \in Held(w)
         \/ readerPc = "push" /\ p = readerPos /\ w = LBOf(p)
         \/ \E v \in Workers : pc[v] = "push" /\ p = hand[v] /\ w = Target(v, p)
<1> USE DEF IInv0
<1>0. w \in Threads /\ w # Out /\ queue[w] \in QueueType(Counted)
  BY ThreadNumbers DEF TypeOK
<1>a. /\ Held(w) = ItemsOf(queue[w]) \cup ({hand[w]} \ {None})
      /\ Held(w)' = ItemsOf(queue'[w]) \cup ({hand'[w]} \ {None})
  BY DEF Held, ItemsOf
<1>1. CASE Main
  <2>1. hand' = hand /\ ItemsOf(queue'[w]) = ItemsOf(queue[w])
    BY <1>0, <1>1, MainMovesNothing DEF ItemsOf
  <2> QED BY <1>a, <2>1
<1>2. CASE Reader
  <2>1. hand' = hand
    BY <1>2 DEF Reader, ReaderOpen, ReaderRead, ReaderPush, workVars
  <2>2. CASE ReaderPush
    <3> DEFINE t == LBOf(readerPos)
    <3>1. readerPc = "push" /\ readerPos \in Counted /\ queue' = [queue EXCEPT ![t] = Push(@, readerPos)]
      BY <2>2 DEF ReaderPush, HandInv
    <3> HIDE DEF t
    <3>2. CASE w = t
      <4>1. queue'[w] = Push(queue[w], readerPos)
        BY <1>0, <3>1, <3>2 DEF TypeOK
      <4>2. ItemsOf(queue'[w]) \subseteq ItemsOf(queue[w]) \cup {readerPos}
        BY <1>0, <3>1, <4>1, QueueOpsItems
      <4> QED BY <1>a, <2>1, <3>1, <3>2, <4>2 DEF t
    <3>3. CASE w # t
      BY <1>0, <1>a, <2>1, <3>1, <3>3 DEF TypeOK
    <3> QED BY <3>2, <3>3
  <2>3. CASE ReaderOpen \/ ReaderRead
    BY <1>a, <2>1, <2>3 DEF ReaderOpen, ReaderRead, workVars
  <2> QED BY <1>2, <2>2, <2>3 DEF Reader
<1>3. ASSUME NEW v \in Workers, Worker(v)
      PROVE  \/ p \in Held(w)
             \/ pc[v] = "push" /\ p = hand[v] /\ w = Target(v, p)
  <2>0. v \in Threads
    BY ThreadNumbers
  <2>1. CASE WorkerCheck(v) \/ WorkerEmpty(v) \/ WorkerPopNothing(v)
    BY <1>a, <2>1 DEF WorkerCheck, WorkerEmpty, WorkerPopNothing
  <2>2. CASE WorkerPop(v)
    <3>1. CASE v = w
      <4>1. queue'[w] = Pop(queue[w]) /\ hand'[w] = Head(queue[w].items) /\ ~IsEmpty(queue[w])
        BY <1>0, <2>2, <3>1 DEF WorkerPop, TypeOK
      <4> QED BY <1>0, <1>a, <4>1, QueueOpsItems
    <3>2. CASE v # w
      BY <1>0, <1>a, <2>0, <2>2, <3>2 DEF WorkerPop, TypeOK
    <3> QED BY <3>1, <3>2
  <2>3. CASE FPProcess(v)
    <3>1. queue'[w] = queue[w] /\ hand'[w] \in {hand[w], None}
      BY <1>0, <2>0, <2>3 DEF FPProcess, TypeOK
    <3> QED BY <1>a, <3>1
  <2>4. CASE WorkerPush(v)
    <3> DEFINE t == Target(v, hand[v])
    <3>1. pc[v] = "push" /\ queue' = [queue EXCEPT ![t] = Push(@, hand[v])]
      BY <2>4 DEF WorkerPush
    <3>2. hand[v] \in Counted
      BY <2>0, <3>1 DEF HandInv, TypeOK
    <3>3. hand'[w] \in {hand[w], None}
      BY <1>0, <2>0, <2>4 DEF WorkerPush, TypeOK
    <3> HIDE DEF t
    <3>4. CASE w = t
      <4>1. queue'[w] = Push(queue[w], hand[v])
        BY <1>0, <3>1, <3>4 DEF TypeOK
      <4>2. ItemsOf(queue'[w]) \subseteq ItemsOf(queue[w]) \cup {hand[v]}
        BY <1>0, <3>2, <4>1, QueueOpsItems
      <4> QED BY <1>a, <3>1, <3>3, <3>4, <4>2 DEF t
    <3>5. CASE w # t
      BY <1>0, <1>a, <3>1, <3>3, <3>5 DEF TypeOK
    <3> QED BY <3>4, <3>5
  <2> QED BY <1>3, <2>1, <2>2, <2>3, <2>4 DEF Worker
<1>4. CASE Output
  <2>1. queue'[w] = queue[w] /\ hand'[w] = hand[w]
    BY <1>0, <1>4, ThreadNumbers DEF Output, OutPop, OutPopNothing, OutWrite, OutIsShutdown, TypeOK
  <2> QED BY <1>a, <2>1
<1>5. CASE Terminating
  BY <1>5, <1>a DEF Terminating, vars, workVars
<1> QED BY <1>1, <1>2, <1>3, <1>4, <1>5 DEF Next

\* The worker a packet is with, LB or FP, is a function of its five-tuple alone.
THEOREM FlowStaysOnItsPath == Spec => []FlowAffinity
<1> DEFINE Home(w, p) == IF w \in LBs THEN LBOf(p) = w ELSE SelectFP(LBOf(p), p) = w
           Inv == IInv0 /\ FlowAffinity
<1>1. Init => Inv
  <2> SUFFICES ASSUME Init PROVE FlowAffinity
    BY InitIInv0
  <2>1. ASSUME NEW w \in Workers PROVE Held(w) = {}
    BY ThreadNumbers DEF Init, Held, NewQueue, None
  <2> QED BY <2>1 DEF FlowAffinity
<1>2. Inv /\ [Next]_vars => Inv'
  <2> SUFFICES ASSUME Inv, [Next]_vars PROVE Inv'
    OBVIOUS
  <2>1. CASE Next
    <3>1. IInv0'
      BY <2>1, TypeStep, HandStep, QuietStep DEF IInv0
    <3>2. ASSUME NEW w \in Workers, NEW p \in Held(w)'
          PROVE  Home(w, p)
      <4>1. CASE p \in Held(w)
        BY <4>1 DEF FlowAffinity
      <4>2. CASE readerPc = "push" /\ p = readerPos /\ w = LBOf(p)
        <5>1. w \in LBs
          BY <4>2, Routing DEF IInv0, HandInv
        <5> QED BY <4>2, <5>1
      <4>3. ASSUME NEW v \in Workers, pc[v] = "push", p = hand[v], w = Target(v, p)
            PROVE  Home(w, p)
        <5>1. p \in Counted /\ p \in Held(v)
          BY <4>3, ThreadNumbers DEF IInv0, HandInv, TypeOK, Held
        <5>2. w \in FPs /\ v \in LBs
          BY <4>3, <5>1, ThreadNumbers, Routing DEF Target
        <5>3. LBOf(p) = v
          BY <5>1, <5>2 DEF FlowAffinity
        <5> QED BY <4>3, <5>2, <5>3, ThreadNumbers DEF Target
      <4> QED BY <2>1, <4>1, <4>2, <4>3, NewlyHeld
    <3>3. FlowAffinity'
      BY <3>2 DEF FlowAffinity, LBOf, SelectFP, LBs, Workers, Out
    <3> QED BY <3>1, <3>3
  <2>2. CASE UNCHANGED vars
    BY <2>2 DEF FlowAffinity, Held, IInv0, TypeOK, HandInv, QuietStart, BeforeReader,
                vars, mainVars, readerVars, workVars, fileVars
  <2> QED BY <2>1, <2>2
<1> QED BY <1>1, <1>2, PTL DEF Spec

\* Two ways to write the same FP number are the same pair.
LEMMA PairUnique ==
  \A k, l, m \in Nat : \A i, j \in 0..(k - 1) :
    l * k + i = m * k + j => l = m /\ i = j
<1> SUFFICES ASSUME NEW k \in Nat, NEW l \in Nat, NEW m \in Nat,
                    NEW i \in 0..(k - 1), NEW j \in 0..(k - 1),
                    l * k + i = m * k + j
             PROVE  l = m /\ i = j
  OBVIOUS
<1>1. ASSUME NEW a \in Nat, NEW b \in Nat, NEW x \in 0..(k - 1), NEW y \in 0..(k - 1), a < b
      PROVE  a * k + x < b * k + y
  <2>1. PICK d \in Nat : b = a + 1 + d
    <3>1. b - a - 1 \in Nat /\ b = a + 1 + (b - a - 1)
      BY <1>1
    <3> QED BY <3>1
  <2>2. b * k = a * k + k + d * k
    BY <2>1
  <2>3. d * k \in Nat /\ a * k \in Nat
    BY <2>1
  <2> QED BY <2>2, <2>3
<1>2. ~(l < m) /\ ~(m < l)
  <2>1. l * k \in Nat /\ m * k \in Nat
    OBVIOUS
  <2>2. ~(l * k + i < m * k + j) /\ ~(m * k + j < l * k + i)
    BY <2>1
  <2> QED BY <1>1, <2>2
<1>3. l = m
  BY <1>2
<1>4. l * k \in Nat
  OBVIOUS
<1> QED BY <1>3, <1>4

\* With as many FPs per LB as there are LBs, only NumLBs of the FPs ever work.
THEOREM DiagonalOnly == Spec => []OffDiagonalIdle
<1>1. ASSUME FlowAffinity, IInv0
      PROVE  OffDiagonalIdle
  <2> SUFFICES ASSUME NumLBs = FpsPerLB, NEW l \in LBs, NEW i \in 0..(FpsPerLB - 1),
                      NEW p \in Held(NumLBs + l * FpsPerLB + i)
               PROVE  i = l
    BY DEF OffDiagonalIdle
  <2> DEFINE f == NumLBs + l * FpsPerLB + i
             m == LBOf(p)
  <2>1. l \in Nat /\ FpsPerLB \in Nat /\ l * FpsPerLB \in Nat
    BY ThreadsAssumption DEF LBs
  <2>2. f \in FPs
    <3>1. l * FpsPerLB + FpsPerLB <= NumLBs * FpsPerLB
      BY GroupFits
    <3>2. NumLBs * FpsPerLB \in Nat
      BY ThreadsAssumption
    <3> QED BY <2>1, <3>1, <3>2, ThreadsAssumption DEF FPs, Out
  <2>3. f \in Workers /\ f \in Threads /\ f \notin LBs
    BY <2>2, ThreadNumbers
  <2>4. p \in Counted
    <3>1. Held(f) = ItemsOf(queue[f]) \cup ({hand[f]} \ {None}) /\ queue[f] \in QueueType(Counted)
      BY <1>1, <2>3 DEF Held, ItemsOf, IInv0, TypeOK
    <3> QED BY <1>1, <2>3, <3>1, QueueOpsItems DEF IInv0, TypeOK
  <2>5. SelectFP(m, p) = f
    BY <1>1, <2>3 DEF FlowAffinity
  <2>6. m \in LBs /\ m \in Nat /\ m = Hash[FlowOf[p]] % FpsPerLB
    BY <2>4, Routing DEF LBOf, LBs
  <2>7. m * FpsPerLB \in Nat /\ m \in 0..(FpsPerLB - 1)
    BY <2>1, <2>6, ThreadsAssumption DEF LBs
  <2>8. NumLBs + m * FpsPerLB + m = NumLBs + l * FpsPerLB + i
    BY <2>5, <2>6 DEF SelectFP
  <2> HIDE DEF m, f
  <2>9. l * FpsPerLB + i = m * FpsPerLB + m
    BY <2>1, <2>7, <2>8, ThreadsAssumption
  <2>10. l = m /\ i = m
    BY <2>1, <2>6, <2>7, <2>9, PairUnique
  <2> QED BY <2>10
<1> QED BY InitIInv0, IInv0Step, <1>1, FlowStaysOnItsPath, PTL DEF Spec

-----------------------------------------------------------------------------
(***************************************************************************)
(* The report adds up.  A counted packet without a verdict is with the      *)
(* reader or with a worker; when processFile returns neither has any.       *)
(***************************************************************************)

Tracked ==
  /\ \A p \in Counted :
       p <= readerPos /\ verdict[p] = "none" =>
         (readerPc = "push" /\ p = readerPos) \/ \E w \in Workers : p \in Held(w)
  /\ \A f \in FPs : pc[f] = "push" => verdict[hand[f]] # "none"

TInv == SInv /\ Tracked

\* A worker lets go of a packet only after its verdict, or to another worker.
LEMMA StillHeld ==
  ASSUME SInv, Next, NEW w \in Workers, NEW p \in Held(w)
  PROVE  \/ \E v \in Workers : p \in Held(v)'
         \/ p \in Packets /\ verdict'[p] # "none"
         \/ w \in FPs /\ pc[w] = "push" /\ p = hand[w]
<1> USE DEF SInv, IInv0
<1>0. w \in Threads /\ w # Out /\ queue[w] \in QueueType(Counted)
  BY ThreadNumbers DEF TypeOK
<1>a. /\ Held(w) = ItemsOf(queue[w]) \cup ({hand[w]} \ {None})
      /\ \A v \in Workers : Held(v)' = ItemsOf(queue'[v]) \cup ({hand'[v]} \ {None})
  BY DEF Held, ItemsOf
<1>b. p \in Counted
  BY <1>0, <1>a, QueueOpsItems DEF TypeOK
<1>1. CASE Main
  <2>1. hand' = hand /\ ItemsOf(queue'[w]) = ItemsOf(queue[w])
    BY <1>0, <1>1, MainMovesNothing DEF ItemsOf
  <2> QED BY <1>a, <2>1
<1>2. CASE Reader
  <2>1. hand' = hand
    BY <1>2 DEF Reader, ReaderOpen, ReaderRead, ReaderPush, workVars
  <2>2. CASE ReaderPush
    <3>1. readerPos \in Counted /\ queue'[w] \in {queue[w], Push(queue[w], readerPos)}
      BY <1>0, <2>2 DEF ReaderPush, HandInv, TypeOK
    <3>2. ItemsOf(queue[w]) \subseteq ItemsOf(queue'[w])
      BY <1>0, <3>1, QueueOpsItems
    <3> QED BY <1>a, <2>1, <3>2
  <2>3. CASE ReaderOpen \/ ReaderRead
    BY <1>a, <2>1, <2>3 DEF ReaderOpen, ReaderRead, workVars
  <2> QED BY <1>2, <2>2, <2>3 DEF Reader
<1>3. ASSUME NEW v \in Workers, Worker(v)
      PROVE  \/ \E u \in Workers : p \in Held(u)'
             \/ p \in Packets /\ verdict'[p] # "none"
             \/ w \in FPs /\ pc[w] = "push" /\ p = hand[w]
  <2>0. v \in Threads
    BY ThreadNumbers
  <2>1. CASE WorkerCheck(v) \/ WorkerEmpty(v) \/ WorkerPopNothing(v)
    BY <1>a, <2>1 DEF WorkerCheck, WorkerEmpty, WorkerPopNothing
  <2>2. CASE WorkerPop(v)
    <3>1. CASE v = w
      <4>1. /\ queue'[w] = Pop(queue[w]) /\ hand'[w] = Head(queue[w].items) /\ ~IsEmpty(queue[w])
            /\ hand[w] = None /\ hand'[w] \in Counted
        BY <1>0, <2>2, <3>1, QueueOpsType DEF WorkerPop, TypeOK, HandInv
      <4>2. None \notin Counted
        BY DEF Counted, Packets, None
      <4> QED BY <1>0, <1>a, <4>1, <4>2, QueueOpsItems
    <3>2. CASE v # w
      BY <1>0, <1>a, <2>0, <2>2, <3>2 DEF WorkerPop, TypeOK
    <3> QED BY <3>1, <3>2
  <2>3. CASE FPProcess(v)
    <3>1. queue'[w] = queue[w] /\ (v # w => hand'[w] = hand[w])
      BY <1>0, <2>0, <2>3 DEF FPProcess, TypeOK
    <3>2. CASE v = w /\ p = hand[w]
      BY <1>b, <2>3, <3>2 DEF FPProcess, TypeOK, Counted
    <3> QED BY <1>a, <3>1, <3>2
  <2>4. CASE WorkerPush(v)
    <3> DEFINE t == Target(v, hand[v])
    <3>1. /\ pc[v] = "push" /\ hand[v] \in Counted
          /\ queue' = [queue EXCEPT ![t] = Push(@, hand[v])]
          /\ t \in FPs \cup {Out} /\ t \in Threads /\ ~queue[t].shut
      BY <2>4, PushOpen, ThreadNumbers DEF WorkerPush
    <3>2. v # w => hand'[w] = hand[w]
      BY <1>0, <2>0, <2>4 DEF WorkerPush, TypeOK
    <3>3. v \in LBs => t \in FPs
      BY <3>1, Routing DEF Target
    <3> HIDE DEF t
    <3>4. queue'[w] \in {queue[w], Push(queue[w], hand[v])}
      BY <1>0, <3>1 DEF TypeOK
    <3>5. ItemsOf(queue[w]) \subseteq ItemsOf(queue'[w])
      BY <1>0, <3>1, <3>4, QueueOpsItems
    <3>6. CASE v = w /\ p = hand[w] /\ w \in LBs
      <4>1. t \in Workers /\ queue[t] \in QueueType(Counted) /\ queue'[t] = Push(queue[t], p)
        BY <3>1, <3>3, <3>6, ThreadNumbers DEF TypeOK
      <4>2. p \in ItemsOf(queue'[t])
        BY <1>b, <3>1, <4>1, QueueOpsItems
      <4> QED BY <1>a, <4>1, <4>2
    <3>7. CASE v = w /\ p = hand[w] /\ w \notin LBs
      BY <3>1, <3>7, ThreadNumbers
    <3> QED BY <1>a, <3>2, <3>5, <3>6, <3>7
  <2> QED BY <1>3, <2>1, <2>2, <2>3, <2>4 DEF Worker
<1>4. CASE Output
  <2>1. queue'[w] = queue[w] /\ hand'[w] = hand[w]
    BY <1>0, <1>4, ThreadNumbers DEF Output, OutPop, OutPopNothing, OutWrite, OutIsShutdown, TypeOK
  <2> QED BY <1>a, <2>1
<1>5. CASE Terminating
  BY <1>5, <1>a DEF Terminating, vars, workVars
<1> QED BY <1>1, <1>2, <1>3, <1>4, <1>5 DEF Next

\* A counted packet without a verdict is never lost sight of on its way to an FP.
LEMMA TrackedStep ==
  ASSUME TInv, Next
  PROVE  Tracked'
<1> USE DEF TInv, SInv, IInv0
<1>1. (readerPc' = readerPc /\ readerPos' = readerPos) \/ Reader \/ StartReader
  BY DEF Next, Main, OpenOutput, StartOutput, StartWorker, JoinReader, FlagWorker, ShutWorker,
         JoinWorker, ShutOutput, JoinOutput, CloseFile, Worker, WorkerCheck, WorkerEmpty, WorkerPop,
         WorkerPopNothing, FPProcess, WorkerPush, Output, OutPop, OutPopNothing, OutWrite,
         OutIsShutdown, Terminating, vars, readerVars
<1>2. ASSUME NEW f \in FPs, pc'[f] = "push"
      PROVE  verdict'[hand'[f]] # "none"
  <2>0. f \in Workers /\ f \in Threads /\ f # Out /\ f \notin LBs
    BY ThreadNumbers
  <2>1. CASE FPProcess(f)
    <3>1. hand[f] \in Packets /\ hand'[f] = hand[f]
      BY <1>2, <2>0, <2>1 DEF FPProcess, Goto, HandInv, TypeOK, Counted
    <3> QED BY <2>1, <3>1 DEF FPProcess, TypeOK
  <2>2. CASE ~FPProcess(f)
    <3>1. pc[f] = "push" /\ hand'[f] = hand[f]
      <4>1. CASE Main \/ Reader \/ Output \/ Terminating
        BY <1>2, <2>0, <4>1, ThreadNumbers
        DEF Main, OpenOutput, StartOutput, StartWorker, StartReader, JoinReader, FlagWorker,
            ShutWorker, JoinWorker, ShutOutput, JoinOutput, CloseFile, Reader, ReaderOpen,
            ReaderRead, ReaderPush, Output, OutPop, OutPopNothing, OutWrite, OutIsShutdown,
            Terminating, Goto, TypeOK, vars, workVars
      <4>2. ASSUME NEW w \in Workers, Worker(w)
            PROVE  pc[f] = "push" /\ hand'[f] = hand[f]
        BY <1>2, <2>0, <2>2, <4>2, ThreadNumbers
        DEF Worker, WorkerCheck, WorkerEmpty, WorkerPop, WorkerPopNothing, FPProcess, WorkerPush,
            Goto, TypeOK
      <4> QED BY <4>1, <4>2 DEF Next
    <3>2. \A p \in Packets : verdict[p] # "none" => verdict'[p] # "none"
      BY DEF Next, Main, OpenOutput, StartOutput, StartWorker, StartReader, JoinReader, FlagWorker,
             ShutWorker, JoinWorker, ShutOutput, JoinOutput, CloseFile, Reader, ReaderOpen,
             ReaderRead, ReaderPush, Worker, WorkerCheck, WorkerEmpty, WorkerPop, WorkerPopNothing,
             FPProcess, WorkerPush, Output, OutPop, OutPopNothing, OutWrite, OutIsShutdown,
             Terminating, vars, TypeOK
    <3>3. hand[f] \in Packets
      BY <2>0, <3>1 DEF HandInv, TypeOK, Counted
    <3> QED BY <3>1, <3>2, <3>3 DEF Tracked
  <2> QED BY <2>1, <2>2
<1>3. ASSUME NEW p \in Counted, p <= readerPos', verdict'[p] = "none"
      PROVE  (readerPc' = "push" /\ p = readerPos') \/ \E w \in Workers : p \in Held(w)'
  <2>0. p \in Packets /\ verdict[p] = "none"
    BY <1>3
    DEF Next, Main, OpenOutput, StartOutput, StartWorker, StartReader, JoinReader, FlagWorker,
        ShutWorker, JoinWorker, ShutOutput, JoinOutput, CloseFile, Reader, ReaderOpen,
        ReaderRead, ReaderPush, Worker, WorkerCheck, WorkerEmpty, WorkerPop, WorkerPopNothing,
        FPProcess, WorkerPush, Output, OutPop, OutPopNothing, OutWrite, OutIsShutdown,
        Terminating, vars, TypeOK, Counted
  <2>1. ASSUME NEW w \in Workers, p \in Held(w)
        PROVE  \E v \in Workers : p \in Held(v)'
    BY <1>3, <2>0, <2>1, StillHeld DEF Tracked
  <2>2. CASE Reader
    <3>1. CASE ReaderPush /\ p = readerPos
      <4>1. PICK t \in Workers : /\ ~queue[t].shut /\ queue[t] \in QueueType(Counted)
                                 /\ queue'[t] = Push(queue[t], p)
        BY <3>1, PushOpen, ThreadNumbers DEF ReaderPush, TypeOK
      <4>2. p \in ItemsOf(queue'[t])
        BY <4>1, QueueOpsItems
      <4>3. p \in Held(t)'
        BY <4>2 DEF Held, ItemsOf
      <4> QED BY <4>1, <4>3
    <3>2. CASE ReaderPush /\ p # readerPos
      BY <1>3, <2>0, <2>1, <3>2 DEF ReaderPush, Tracked
    <3>3. CASE ReaderOpen
      BY <1>3, <2>0, <2>1, <3>3 DEF ReaderOpen, Tracked
    <3>4. CASE ReaderRead
      <4>1. readerPos \in Nat /\ p \in Nat
        BY InputAssumption DEF TypeOK, Counted, Packets
      <4>2. p <= readerPos \/ (p = readerPos + 1 /\ readerPc' = "push" /\ readerPos' = readerPos + 1)
        BY <1>3, <3>4, <4>1 DEF ReaderRead
      <4> QED BY <1>3, <2>0, <2>1, <3>4, <4>2 DEF ReaderRead, Tracked
    <3> QED BY <2>2, <3>1, <3>2, <3>3, <3>4 DEF Reader
  <2>3. CASE StartReader
    BY <1>3, <2>0, <2>1, <2>3 DEF StartReader, Tracked, QuietStart, BeforeReader
  <2>4. CASE UNCHANGED <<readerPc, readerPos>>
    BY <1>3, <2>0, <2>1, <2>4 DEF Tracked
  <2> QED BY <1>1, <2>2, <2>3, <2>4
<1> QED BY <1>2, <1>3 DEF Tracked

\* When processFile returns, every packet counted in total_packets is counted as
\* forwarded or as dropped.
THEOREM TotalsAgree == Spec => []ReportAddsUp
<1>1. Init => TInv
  BY InitSInv, ThreadNumbers DEF Init, TInv, Tracked, Counted, Packets
<1>2. TInv /\ [Next]_vars => TInv'
  <2> SUFFICES ASSUME TInv, [Next]_vars PROVE TInv'
    OBVIOUS
  <2>1. CASE Next
    BY <2>1, SInvStep, TrackedStep DEF TInv
  <2>2. CASE UNCHANGED vars
    BY <2>2, SInvStep DEF TInv, Tracked, Held, vars, readerVars, workVars
  <2> QED BY <2>1, <2>2
<1>3. ASSUME TInv
      PROVE  ReportAddsUp
  <2> SUFFICES ASSUME mainPc = "returnTrue", NEW p \in Counted, p <= readerPos
               PROVE  verdict[p] # "none"
    BY DEF ReportAddsUp
  <2>1. readerPc = "done" /\ \A w \in Workers : pc[w] = "done"
    BY <1>3 DEF TInv, SInv, StopOrder, Joined, Final
  <2>2. ASSUME NEW w \in Workers PROVE Held(w) = {}
    <3>1. queue[w].items = <<>> /\ hand[w] = None
      BY <1>3, <2>1 DEF TInv, SInv, WorkersDrain, IsEmpty
    <3> QED BY <3>1 DEF Held
  <2> QED BY <1>3, <2>1, <2>2 DEF TInv, Tracked
<1> QED BY <1>1, <1>2, <1>3, PTL DEF Spec

-----------------------------------------------------------------------------
(***************************************************************************)
(* The header comes first.  Nothing is in the pipeline until the reader has *)
(* written it, and the file is open whenever a thread may write.            *)
(***************************************************************************)

FileInv ==
  /\ fileOpen <=> mainPc \notin {"openOutput", "returnFalse", "returnTrue"}
  /\ readerPc \in {"idle", "open"} => file = <<>>
  /\ file = <<>> => /\ readerPc \notin {"read", "push"}
                    /\ \A t \in Threads : hand[t] = None /\ queue[t].items = <<>>
  /\ HeaderFirst

\* Only the reader writes the header, before any packet can have been written.
LEMMA FileStep ==
  ASSUME SInv, FileInv, Next
  PROVE  FileInv'
<1> USE DEF SInv, IInv0
<1>0. None \notin Counted /\ Header \notin Counted
  BY DEF Counted, Packets, None, Header
<1>1. CASE Main
  <2>1. UNCHANGED file /\ hand' = hand /\ \A t \in Threads : queue'[t].items = queue[t].items
    BY <1>1, MainMovesNothing
    DEF Main, OpenOutput, StartOutput, StartWorker, StartReader, JoinReader, FlagWorker, ShutWorker,
        JoinWorker, ShutOutput, JoinOutput, CloseFile, fileVars
  <2>2. readerPc' = readerPc \/ (StartReader /\ readerPc = "idle" /\ readerPc' = "open")
    BY <1>1
    DEF Main, OpenOutput, StartOutput, StartWorker, StartReader, JoinReader, FlagWorker, ShutWorker,
        JoinWorker, ShutOutput, JoinOutput, CloseFile, readerVars, QuietStart, BeforeReader
  <2>3. fileOpen' <=> mainPc' \notin {"openOutput", "returnFalse", "returnTrue"}
    BY <1>1
    DEF Main, OpenOutput, StartOutput, StartWorker, StartReader, JoinReader, FlagWorker, ShutWorker,
        JoinWorker, ShutOutput, JoinOutput, CloseFile, MainGoto, fileVars, FileInv, TypeOK
  <2> QED BY <2>1, <2>2, <2>3 DEF FileInv, HeaderFirst
<1>2. CASE Reader
  <2>1. UNCHANGED <<mainPc, fileOpen, hand>>
    BY <1>2, MainPcStays DEF Reader, ReaderOpen, ReaderRead, ReaderPush, workVars
  <2>2. CASE ReaderOpen
    <3>1. mainPc = "joinReader" /\ fileOpen /\ file = <<>>
      BY <2>2
      DEF ReaderOpen, QuietStart, BeforeReader, StopOrder, Stopping, Final, TypeOK, FileInv
    <3>2. queue' = queue /\ readerPc' \in {"read", "done"}
          /\ (file' = <<Header>> \/ (file' = <<>> /\ readerPc' = "done"))
      BY <2>2, <3>1 DEF ReaderOpen, WriteFile, workVars
    <3>3. HeaderFirst'
      BY <3>2 DEF HeaderFirst
    <3> QED BY <2>1, <3>1, <3>2, <3>3 DEF FileInv
  <2>3. CASE ReaderRead \/ ReaderPush
    <3>1. UNCHANGED file /\ file # <<>> /\ readerPc' \in {"read", "push", "done"}
      BY <2>3 DEF ReaderRead, ReaderPush, FileInv, fileVars
    <3> QED BY <2>1, <3>1 DEF FileInv, HeaderFirst
  <2> QED BY <1>2, <2>2, <2>3 DEF Reader
<1>3. ASSUME NEW w \in Workers, Worker(w)
      PROVE  FileInv'
  <2>1. UNCHANGED <<mainPc, readerPc, file, fileOpen>>
    BY <1>3, MainPcStays
    DEF Worker, WorkerCheck, WorkerEmpty, WorkerPop, WorkerPopNothing, FPProcess, WorkerPush,
        readerVars, fileVars
  <2>2. CASE file = <<>>
    <3>1. IsEmpty(queue[w]) /\ hand[w] = None /\ w \in Threads
      BY <2>2, ThreadNumbers DEF FileInv, IsEmpty
    <3>2. WorkerCheck(w) \/ WorkerEmpty(w) \/ WorkerPopNothing(w)
      BY <1>3, <3>1 DEF Worker, WorkerPop, FPProcess, WorkerPush, HandInv
    <3>3. UNCHANGED <<hand, queue>>
      BY <3>2 DEF WorkerCheck, WorkerEmpty, WorkerPopNothing
    <3> QED BY <2>1, <3>3 DEF FileInv, HeaderFirst
  <2> QED BY <2>1, <2>2 DEF FileInv, HeaderFirst
<1>4. CASE Output
  <2>1. UNCHANGED <<mainPc, readerPc, fileOpen>>
    BY <1>4, MainPcStays DEF Output, OutPop, OutPopNothing, OutWrite, OutIsShutdown, readerVars
  <2>2. CASE OutPop
    <3>1. file # <<>> /\ UNCHANGED file
      BY <2>2, ThreadNumbers DEF OutPop, IsEmpty, FileInv, fileVars
    <3> QED BY <2>1, <3>1 DEF FileInv, HeaderFirst
  <2>3. CASE OutPopNothing \/ OutIsShutdown
    BY <2>1, <2>3 DEF OutPopNothing, OutIsShutdown, FileInv, HeaderFirst, fileVars
  <2>4. CASE OutWrite
    <3>1. hand[Out] \in Counted /\ file # <<>>
      BY <2>4, ThreadNumbers DEF OutWrite, HandInv, TypeOK, FileInv
    <3>2. file' \in {file, Append(file, hand[Out])} /\ file \in Seq(Counted \cup {Header})
      BY <2>4 DEF OutWrite, WriteFile, TypeOK
    <3>3. Len(file) \in Nat /\ Len(file) > 0 /\ DOMAIN file = 1..Len(file)
      BY <3>1, <3>2
    <3>4. CASE file' = Append(file, hand[Out])
      <4>1. /\ DOMAIN file' = 1..(Len(file) + 1)
            /\ \A i \in 1..Len(file) : file'[i] = file[i]
            /\ file'[Len(file) + 1] = hand[Out]
            /\ file' # <<>>
        BY <3>1, <3>2, <3>4
      <4>2. ASSUME NEW i \in DOMAIN file' PROVE file'[i] = Header <=> i = 1
        <5>1. CASE i \in 1..Len(file)
          BY <3>3, <4>1, <5>1 DEF FileInv, HeaderFirst
        <5>2. CASE i = Len(file) + 1
          BY <1>0, <3>1, <3>3, <4>1, <5>2
        <5> QED BY <3>3, <4>1, <5>1, <5>2
      <4>3. HeaderFirst'
        BY <4>2 DEF HeaderFirst
      <4> QED BY <2>1, <3>1, <4>1, <4>3 DEF FileInv
    <3>5. CASE file' = file
      BY <2>1, <3>1, <3>5 DEF FileInv, HeaderFirst
    <3> QED BY <3>2, <3>4, <3>5
  <2> QED BY <1>4, <2>2, <2>3, <2>4 DEF Output
<1>5. CASE Terminating
  BY <1>5 DEF Terminating, FileInv, HeaderFirst, vars, mainVars, readerVars, workVars, fileVars
<1> QED BY <1>1, <1>2, <1>3, <1>4, <1>5 DEF Next

\* The global header is the first thing in the output file and is written once.
THEOREM HeaderIsFirst == Spec => []HeaderFirst
<1>1. Init => SInv /\ FileInv
  BY InitSInv DEF Init, FileInv, HeaderFirst, NewQueue
<1>2. SInv /\ FileInv /\ [Next]_vars => (SInv /\ FileInv)'
  <2> SUFFICES ASSUME SInv, FileInv, [Next]_vars PROVE SInv' /\ FileInv'
    OBVIOUS
  <2>1. CASE Next
    BY <2>1, SInvStep, FileStep
  <2>2. CASE UNCHANGED vars
    BY <2>2, SInvStep DEF FileInv, HeaderFirst, vars, mainVars, readerVars, workVars, fileVars
  <2> QED BY <2>1, <2>2
<1>3. FileInv => HeaderFirst
  BY DEF FileInv
<1> QED BY <1>1, <1>2, <1>3, PTL DEF Spec

-----------------------------------------------------------------------------
(***************************************************************************)
(* Where the packets are, and in which order: a counted packet is in        *)
(* exactly one place, and the threads together implement PacketFilter.      *)
(***************************************************************************)

(***************************************************************************)
(* The slots of a thread: slot 0 is its hand, slot i the i-th packet of its *)
(* queue.  A pop moves every packet of the thread one slot down.            *)
(***************************************************************************)

Slot(t, i, p) ==
  IF i = 0 THEN hand[t] = p ELSE i <= Len(queue[t].items) /\ queue[t].items[i] = p

InReader(p) == readerPc = "push" /\ readerPos = p
InFile(p)   == \E i \in DOMAIN file : file[i] = p
LastSlot(t) == Len(queue[t].items)

(***************************************************************************)
(* What a step can do to the packets.                                       *)
(***************************************************************************)

KeepsSlots  == \A t \in Threads, i \in Nat, p \in Counted : Slot(t, i, p)' <=> Slot(t, i, p)
KeepsFile   == \A p \in Counted : InFile(p)' <=> InFile(p)
KeepsReader == readerPos' = readerPos /\ (readerPc' = "push" <=> readerPc = "push")
KeepsPush   == \A f \in FPs : pc'[f] = "push" <=> pc[f] = "push"

\* Thread t lets go of what it has in hand.
Empties(t) ==
  \A u \in Threads, i \in Nat, p \in Counted :
    Slot(u, i, p)' <=> Slot(u, i, p) /\ ~(u = t /\ i = 0)

Rests == KeepsSlots /\ KeepsFile /\ KeepsReader /\ KeepsPush /\ verdict' = verdict

Reads ==
  /\ KeepsSlots /\ KeepsFile /\ KeepsPush /\ verdict' = verdict
  /\ readerPc = "read"
  /\ \/ readerPos' = readerPos /\ readerPc' = "done"
     \/ readerPos' = readerPos + 1 /\ (readerPc' = "push" <=> readerPos + 1 \in Counted)

Enters ==
  /\ KeepsFile /\ KeepsPush /\ verdict' = verdict
  /\ readerPc = "push" /\ readerPos \in Counted /\ readerPc' = "read" /\ readerPos' = readerPos
  /\ \A t \in Threads, i \in Nat, p \in Counted :
       Slot(t, i, p)' <=> \/ Slot(t, i, p)
                          \/ t = LBOf(p) /\ i = LastSlot(t) + 1 /\ p = readerPos

Pops(t) ==
  /\ KeepsFile /\ KeepsReader /\ KeepsPush /\ verdict' = verdict
  /\ pc[t] = "pop"
  /\ \A u \in Threads, i \in Nat, p \in Counted :
       Slot(u, i, p)' <=> Slot(u, IF u = t THEN i + 1 ELSE i, p)
  /\ \A p \in Counted : ~Slot(t, 0, p)

Drops(f) ==
  /\ KeepsFile /\ KeepsReader /\ KeepsPush /\ Empties(f)
  /\ pc[f] = "process" /\ hand[f] \in Counted
  /\ verdict' = [verdict EXCEPT ![hand[f]] = "DROP"]

Forwards(f) ==
  /\ KeepsFile /\ KeepsReader /\ KeepsSlots
  /\ pc[f] = "process" /\ hand[f] \in Counted
  /\ verdict' = [verdict EXCEPT ![hand[f]] = "FORWARD"]
  /\ \A g \in FPs : pc'[g] = "push" <=> pc[g] = "push" \/ g = f

Passes(w) ==
  /\ KeepsFile /\ KeepsReader /\ verdict' = verdict
  /\ pc[w] = "push" /\ hand[w] \in Counted
  /\ \A g \in FPs : pc'[g] = "push" <=> pc[g] = "push" /\ g # w
  /\ \A t \in Threads, i \in Nat, p \in Counted :
       Slot(t, i, p)' <=> \/ Slot(t, i, p) /\ ~(t = w /\ i = 0)
                          \/ t = Target(w, p) /\ i = LastSlot(t) + 1 /\ p = hand[w]

Writes ==
  /\ KeepsReader /\ KeepsPush /\ Empties(Out) /\ verdict' = verdict
  /\ pc[Out] = "write" /\ hand[Out] \in Counted
  /\ file # <<>> /\ file' = Append(file, hand[Out])
  /\ \A p \in Counted : InFile(p)' <=> InFile(p) \/ p = hand[Out]

-----------------------------------------------------------------------------
\* A push to an open queue fills the slot after its last.
LEMMA PushSlot ==
  ASSUME TypeOK, NEW t \in Threads, NEW x \in Counted, ~queue[t].shut,
         queue' = [queue EXCEPT ![t] = Push(@, x)]
  PROVE  \A u \in Threads, i \in Nat \ {0}, p \in Counted :
           Slot(u, i, p)' <=> Slot(u, i, p) \/ (u = t /\ i = LastSlot(t) + 1 /\ p = x)
<1> SUFFICES ASSUME NEW u \in Threads, NEW i \in Nat \ {0}, NEW p \in Counted
             PROVE  Slot(u, i, p)' <=> Slot(u, i, p) \/ (u = t /\ i = LastSlot(t) + 1 /\ p = x)
  OBVIOUS
<1> i # 0
  OBVIOUS
<1>1. CASE u # t
  <2>1. queue'[u] = queue[u]
    BY <1>1 DEF TypeOK
  <2> QED BY <1>1, <2>1 DEF Slot
<1>2. CASE u = t
  <2> DEFINE q == queue[t]
             n == Len(q.items)
             r == queue'[t].items
  <2>1. q \in QueueType(Counted) /\ queue'[t] = Push(q, x)
    BY DEF TypeOK
  <2>2. n \in Nat /\ Len(r) = n + 1 /\ r[n + 1] = x /\ \A j \in 1..n : r[j] = q.items[j]
    BY <2>1, QueueOpsPositions
  <2>3. Slot(t, i, p) <=> i <= n /\ q.items[i] = p
    BY DEF Slot
  <2>4. Slot(t, i, p)' <=> i <= n + 1 /\ r[i] = p
    BY <2>2 DEF Slot
  <2> HIDE DEF n, r, q
  <2>5. i \in 1..n \/ i = n + 1 \/ i > n + 1
    BY <2>2
  <2>6. CASE i \in 1..n
    BY <1>2, <2>2, <2>3, <2>4, <2>6 DEF LastSlot, n, q
  <2>7. CASE i = n + 1
    <3>1. ~(i <= n) /\ i <= n + 1
      BY <2>2, <2>7
    <3> QED BY <1>2, <2>2, <2>3, <2>4, <2>7, <3>1 DEF LastSlot, n, q
  <2>8. CASE i > n + 1
    <3>1. ~(i <= n) /\ ~(i <= n + 1) /\ i # n + 1
      BY <2>2, <2>8
    <3> QED BY <1>2, <2>3, <2>4, <3>1 DEF LastSlot, n, q
  <2> QED BY <2>5, <2>6, <2>7, <2>8
<1> QED BY <1>1, <1>2

\* A pop with an empty hand moves the thread's packets one slot down.
LEMMA PopSlot ==
  ASSUME IInv0, NEW t \in Threads, pc[t] = "pop", ~IsEmpty(queue[t]),
         hand' = [hand EXCEPT ![t] = Head(queue[t].items)],
         queue' = [queue EXCEPT ![t] = Pop(@)]
  PROVE  /\ \A u \in Threads, i \in Nat, p \in Counted :
              Slot(u, i, p)' <=> Slot(u, IF u = t THEN i + 1 ELSE i, p)
         /\ \A p \in Counted : ~Slot(t, 0, p)
<1> USE DEF IInv0
<1>1. ASSUME NEW p \in Counted PROVE ~Slot(t, 0, p)
  <2>1. None \notin Counted
    BY DEF Counted, Packets, None
  <2> QED BY <2>1 DEF HandInv, Slot
<1>2. ASSUME NEW u \in Threads, NEW i \in Nat, NEW p \in Counted, u # t
      PROVE  Slot(u, i, p)' <=> Slot(u, i, p)
  <2>1. queue'[u] = queue[u] /\ hand'[u] = hand[u]
    BY <1>2 DEF TypeOK
  <2> QED BY <2>1 DEF Slot
<1>3. ASSUME NEW i \in Nat, NEW p \in Counted
      PROVE  Slot(t, i, p)' <=> Slot(t, i + 1, p)
  <2> DEFINE q == queue[t]
             n == Len(q.items)
             r == queue'[t].items
  <2>1. q \in QueueType(Counted) /\ queue'[t] = Pop(q) /\ hand'[t] = Head(q.items)
    BY DEF TypeOK
  <2>2. /\ n \in Nat /\ n # 0 /\ Len(r) = n - 1 /\ hand'[t] = q.items[1]
        /\ \A j \in 1..(n - 1) : r[j] = q.items[j + 1]
    BY <2>1, QueueOpsPositions
  <2>3. Slot(t, i + 1, p) <=> i + 1 <= n /\ q.items[i + 1] = p
    BY DEF Slot
  <2>4. Slot(t, i, p)' <=> IF i = 0 THEN hand'[t] = p ELSE i <= n - 1 /\ r[i] = p
    BY <2>2 DEF Slot
  <2> HIDE DEF n, r, q
  <2>5. i = 0 \/ i \in 1..(n - 1) \/ i > n - 1
    BY <2>2
  <2>6. CASE i = 0
    BY <2>2, <2>3, <2>4, <2>6
  <2>7. CASE i \in 1..(n - 1)
    <3>1. i # 0 /\ i + 1 <= n /\ i <= n - 1
      BY <2>2, <2>7
    <3> QED BY <2>2, <2>3, <2>4, <2>7, <3>1
  <2>8. CASE i # 0 /\ i > n - 1
    <3>1. ~(i + 1 <= n) /\ ~(i <= n - 1)
      BY <2>2, <2>8
    <3> QED BY <2>3, <2>4, <2>8, <3>1
  <2> QED BY <2>5, <2>6, <2>7, <2>8
<1> QED BY <1>1, <1>2, <1>3

\* Slots depend on the hands and on what is queued, not on the shut flags.
LEMMA SlotsAlike ==
  ASSUME hand' = hand, \A t \in Threads : queue'[t].items = queue[t].items
  PROVE  KeepsSlots
<1> SUFFICES ASSUME NEW t \in Threads, NEW i \in Nat, NEW p \in Counted
             PROVE  Slot(t, i, p)' <=> Slot(t, i, p)
  BY DEF KeepsSlots
<1>1. queue'[t].items = queue[t].items
  OBVIOUS
<1> QED BY <1>1 DEF Slot

\* Putting a hand down empties slot 0 and no other.
LEMMA HandEmptied ==
  ASSUME TypeOK, NEW t \in Threads, hand' = [hand EXCEPT ![t] = None],
         queue' = queue
  PROVE  Empties(t)
<1> SUFFICES ASSUME NEW u \in Threads, NEW i \in Nat, NEW p \in Counted
             PROVE  Slot(u, i, p)' <=> Slot(u, i, p) /\ ~(u = t /\ i = 0)
  BY DEF Empties
<1>1. None \notin Counted
  BY DEF Counted, Packets, None
<1>2. hand'[u] = IF u = t THEN None ELSE hand[u]
  BY DEF TypeOK
<1> QED BY <1>1, <1>2 DEF Slot

-----------------------------------------------------------------------------
\* Only fast paths decide.
RoleInv == \A l \in LBs : pc[l] # "process"

\* A load balancer that pops goes straight on to push.
LEMMA RoleStep ==
  ASSUME IInv0, RoleInv, [Next]_vars
  PROVE  RoleInv'
<1> USE DEF IInv0
<1> SUFFICES ASSUME NEW l \in LBs PROVE pc'[l] # "process"
  BY DEF RoleInv, LBs
<1>0. l \in Threads /\ l \in Workers /\ l # Out /\ pc[l] # "process"
  BY ThreadNumbers DEF RoleInv
<1>1. CASE Main
  BY <1>0, <1>1, ThreadNumbers
  DEF Main, OpenOutput, StartOutput, StartWorker, StartReader, JoinReader, FlagWorker, ShutWorker,
      JoinWorker, ShutOutput, JoinOutput, CloseFile, workVars, TypeOK
<1>2. CASE Reader
  BY <1>0, <1>2 DEF Reader, ReaderOpen, ReaderRead, ReaderPush, workVars
<1>3. ASSUME NEW w \in Workers, Worker(w)
      PROVE  pc'[l] # "process"
  BY <1>0, <1>3, ThreadNumbers
  DEF Worker, WorkerCheck, WorkerEmpty, WorkerPop, WorkerPopNothing, FPProcess, WorkerPush, Goto, TypeOK
<1>4. CASE Output
  BY <1>0, <1>4, ThreadNumbers
  DEF Output, OutPop, OutPopNothing, OutWrite, OutIsShutdown, Goto, TypeOK
<1>5. CASE Terminating \/ UNCHANGED vars
  BY <1>0, <1>5 DEF Terminating, vars, workVars
<1> QED BY <1>1, <1>2, <1>3, <1>4, <1>5 DEF Next

\* What a file says of the packets does not change unless the file does.
LEMMA FilesAlike == file' = file => KeepsFile
  BY DEF KeepsFile, InFile

\* The main thread moves no packet and decides nothing.
LEMMA MainRests ==
  ASSUME SInv, Main
  PROVE  Rests /\ file' = file
<1> USE DEF SInv, IInv0
<1>1. KeepsSlots
  BY MainMovesNothing, SlotsAlike
<1>2. file' = file /\ verdict' = verdict /\ readerPos' = readerPos
  BY DEF Main, OpenOutput, StartOutput, StartWorker, StartReader, JoinReader, FlagWorker, ShutWorker,
         JoinWorker, ShutOutput, JoinOutput, CloseFile, fileVars, readerVars
<1>3. readerPc' = "push" <=> readerPc = "push"
  BY DEF Main, OpenOutput, StartOutput, StartWorker, StartReader, JoinReader, FlagWorker, ShutWorker,
         JoinWorker, ShutOutput, JoinOutput, CloseFile, readerVars, QuietStart, BeforeReader
<1>4. ASSUME NEW f \in FPs PROVE pc'[f] = "push" <=> pc[f] = "push"
  <2>1. f \in Threads /\ f \in Workers
    BY ThreadNumbers
  <2>2. BeforeReader => pc[f] # "push"
    BY <2>1 DEF QuietStart, HandInv
  <2> QED
    BY <2>1, <2>2, ThreadNumbers
    DEF Main, OpenOutput, StartOutput, StartWorker, StartReader, JoinReader, FlagWorker, ShutWorker,
        JoinWorker, ShutOutput, JoinOutput, CloseFile, workVars, BeforeReader, TypeOK
<1> QED BY <1>1, <1>2, <1>3, <1>4, FilesAlike DEF Rests, KeepsReader, KeepsPush

\* The reader takes a record, or hands the packet it has to its load balancer.
LEMMA ReaderMoves ==
  ASSUME SInv, FileInv, Reader
  PROVE  /\ Rests \/ Reads \/ Enters
         /\ file' = file \/ (file = <<>> /\ file' = <<Header>>)
<1> USE DEF SInv, IInv0
<1>0. UNCHANGED <<pc, hand, verdict>> /\ KeepsPush
  BY DEF Reader, ReaderOpen, ReaderRead, ReaderPush, workVars, KeepsPush
<1>1. CASE ReaderOpen
  <2>1. KeepsSlots
    BY <1>0, <1>1, SlotsAlike DEF ReaderOpen, workVars
  <2>2. KeepsReader
    BY <1>1 DEF ReaderOpen, KeepsReader
  <2>3. file = <<>> /\ (file' = file \/ file' = <<Header>>)
    BY <1>1 DEF ReaderOpen, WriteFile, FileInv
  <2>4. KeepsFile
    <3>1. Header \notin Counted
      BY DEF Counted, Packets, Header
    <3>2. \A p \in Counted : ~InFile(p) /\ ~InFile(p)'
      BY <2>3, <3>1 DEF InFile
    <3> QED BY <3>2 DEF KeepsFile
  <2> QED BY <1>0, <2>1, <2>2, <2>3, <2>4 DEF Rests
<1>2. CASE ReaderRead
  <2>1. KeepsSlots /\ KeepsFile
    BY <1>0, <1>2, SlotsAlike, FilesAlike DEF ReaderRead, workVars, fileVars
  <2> QED BY <1>0, <1>2, <2>1 DEF ReaderRead, Reads, fileVars
<1>3. CASE ReaderPush
  <2> DEFINE l == LBOf(readerPos)
  <2>1. l \in Threads /\ ~queue[l].shut /\ readerPos \in Counted
    BY <1>3, PushOpen, ThreadNumbers DEF ReaderPush, HandInv
  <2>2. queue' = [queue EXCEPT ![l] = Push(@, readerPos)]
    BY <1>3 DEF ReaderPush
  <2> HIDE DEF l
  <2>3. ASSUME NEW t \in Threads, NEW i \in Nat, NEW p \in Counted
        PROVE  Slot(t, i, p)' <=> \/ Slot(t, i, p)
                                  \/ t = LBOf(p) /\ i = LastSlot(t) + 1 /\ p = readerPos
    <3>1. CASE i = 0
      <4>1. LastSlot(t) \in Nat
        BY QueueOpsPositions DEF LastSlot, TypeOK
      <4>2. i # LastSlot(t) + 1
        BY <3>1, <4>1
      <4> QED BY <1>0, <3>1, <4>2 DEF Slot
    <3>2. CASE i # 0
      <4>1. Slot(t, i, p)' <=> Slot(t, i, p) \/ (t = l /\ i = LastSlot(l) + 1 /\ p = readerPos)
        BY <2>1, <2>2, <3>2, PushSlot
      <4> QED BY <4>1 DEF l
    <3> QED BY <3>1, <3>2
  <2>4. KeepsFile
    BY <1>3, FilesAlike DEF ReaderPush, fileVars
  <2> QED BY <1>0, <1>3, <2>1, <2>3, <2>4 DEF ReaderPush, Enters, fileVars
<1> QED BY <1>1, <1>2, <1>3 DEF Reader

\* A worker pops, decides or hands on, each of which moves at most one packet.
LEMMA WorkerMoves ==
  ASSUME SInv, RoleInv, NEW w \in Workers, Worker(w)
  PROVE  /\ file' = file
         /\ \/ Rests
            \/ Pops(w)
            \/ w \in FPs /\ (Drops(w) \/ Forwards(w))
            \/ Passes(w)
<1> USE DEF SInv, IInv0
<1>0. w \in Threads /\ w # Out /\ \A f \in FPs : f \in Threads
  BY ThreadNumbers
<1>1. file' = file /\ KeepsReader /\ KeepsFile
  <2>1. file' = file /\ readerPos' = readerPos /\ readerPc' = readerPc
    BY DEF Worker, WorkerCheck, WorkerEmpty, WorkerPop, WorkerPopNothing, FPProcess, WorkerPush,
           fileVars, readerVars
  <2> QED BY <2>1, FilesAlike DEF KeepsReader
<1>2. CASE WorkerCheck(w) \/ WorkerEmpty(w) \/ WorkerPopNothing(w)
  <2>1. UNCHANGED <<hand, queue, verdict>> /\ KeepsPush
    BY <1>0, <1>2 DEF WorkerCheck, WorkerEmpty, WorkerPopNothing, Goto, KeepsPush, TypeOK
  <2> QED BY <1>1, <2>1, SlotsAlike DEF Rests
<1>3. CASE WorkerPop(w)
  <2>1. KeepsPush /\ verdict' = verdict /\ pc[w] = "pop"
    BY <1>0, <1>3, ThreadNumbers DEF WorkerPop, Goto, KeepsPush, TypeOK
  <2>2. /\ \A u \in Threads, i \in Nat, p \in Counted :
             Slot(u, i, p)' <=> Slot(u, IF u = w THEN i + 1 ELSE i, p)
        /\ \A p \in Counted : ~Slot(w, 0, p)
    BY <1>0, <1>3, PopSlot DEF WorkerPop
  <2> QED BY <1>1, <2>1, <2>2 DEF Pops
<1>4. CASE FPProcess(w)
  <2>1. w \in FPs /\ hand[w] \in Counted /\ pc[w] = "process" /\ queue' = queue
    BY <1>0, <1>4, ThreadNumbers DEF FPProcess, RoleInv, HandInv, TypeOK
  <2>2. PICK action \in {"FORWARD", "DROP"} :
          /\ verdict' = [verdict EXCEPT ![hand[w]] = action]
          /\ IF action = "DROP"
             THEN Goto(w, "check") /\ hand' = [hand EXCEPT ![w] = None]
             ELSE Goto(w, "push") /\ UNCHANGED hand
    BY <1>4 DEF FPProcess
  <2>3. CASE action = "DROP"
    <3>1. Empties(w)
      BY <1>0, <2>1, <2>2, <2>3, HandEmptied
    <3>2. KeepsPush
      BY <1>0, <2>1, <2>2, <2>3 DEF Goto, KeepsPush, TypeOK
    <3> QED BY <1>1, <2>1, <2>2, <2>3, <3>1, <3>2 DEF Drops
  <2>4. CASE action = "FORWARD"
    <3>1. KeepsSlots
      BY <2>1, <2>2, <2>4, SlotsAlike
    <3>2. \A g \in FPs : pc'[g] = "push" <=> pc[g] = "push" \/ g = w
      BY <1>0, <2>1, <2>2, <2>4 DEF Goto, TypeOK
    <3> QED BY <1>1, <2>1, <2>2, <2>4, <3>1, <3>2 DEF Forwards
  <2> QED BY <2>1, <2>2, <2>3, <2>4
<1>5. CASE WorkerPush(w)
  <2> DEFINE g == Target(w, hand[w])
  <2>1. /\ pc[w] = "push" /\ hand[w] \in Counted /\ g \in Threads /\ ~queue[g].shut
        /\ queue' = [queue EXCEPT ![g] = Push(@, hand[w])]
        /\ hand' = [hand EXCEPT ![w] = None]
        /\ verdict' = verdict
    BY <1>5, PushOpen, ThreadNumbers DEF WorkerPush
  <2>2. \A f \in FPs : pc'[f] = "push" <=> pc[f] = "push" /\ f # w
    BY <1>0, <1>5 DEF WorkerPush, Goto, TypeOK
  <2> HIDE DEF g
  <2>3. ASSUME NEW t \in Threads, NEW i \in Nat, NEW p \in Counted
        PROVE  Slot(t, i, p)' <=> \/ Slot(t, i, p) /\ ~(t = w /\ i = 0)
                                  \/ t = Target(w, p) /\ i = LastSlot(t) + 1 /\ p = hand[w]
    <3>1. CASE i = 0
      <4>1. LastSlot(t) \in Nat
        BY QueueOpsPositions DEF LastSlot, TypeOK
      <4>2. i # LastSlot(t) + 1
        BY <3>1, <4>1
      <4>3. None \notin Counted
        BY DEF Counted, Packets, None
      <4>4. hand'[t] = IF t = w THEN None ELSE hand[t]
        BY <1>0, <2>1 DEF TypeOK
      <4> QED BY <3>1, <4>2, <4>3, <4>4 DEF Slot
    <3>2. CASE i # 0
      <4>1. Slot(t, i, p)' <=> Slot(t, i, p) \/ (t = g /\ i = LastSlot(g) + 1 /\ p = hand[w])
        BY <2>1, <3>2, PushSlot
      <4> QED BY <3>2, <4>1 DEF g
    <3> QED BY <3>1, <3>2
  <2> QED BY <1>1, <2>1, <2>2, <2>3 DEF Passes
<1> QED BY <1>1, <1>2, <1>3, <1>4, <1>5 DEF Worker

\* The output thread pops or writes; the file is open when it writes.
LEMMA OutputMoves ==
  ASSUME SInv, FileInv, Output
  PROVE  \/ (Rests \/ Pops(Out)) /\ file' = file
         \/ Writes
<1> USE DEF SInv, IInv0
<1>0. /\ Out \in Threads /\ Out \notin Workers /\ Out \notin FPs
      /\ \A f \in FPs : f \in Threads /\ f # Out
  BY ThreadNumbers
<1>1. KeepsReader /\ verdict' = verdict
  BY DEF Output, OutPop, OutPopNothing, OutWrite, OutIsShutdown, readerVars, KeepsReader
<1>2. KeepsPush
  BY <1>0
  DEF Output, OutPop, OutPopNothing, OutWrite, OutIsShutdown, Goto, KeepsPush, TypeOK
<1>3. CASE OutPopNothing \/ OutIsShutdown
  <2>1. UNCHANGED <<hand, queue, file>>
    BY <1>3 DEF OutPopNothing, OutIsShutdown, fileVars
  <2> QED BY <1>1, <1>2, <2>1, SlotsAlike, FilesAlike DEF Rests
<1>4. CASE OutPop
  <2>1. /\ \A u \in Threads, i \in Nat, p \in Counted :
             Slot(u, i, p)' <=> Slot(u, IF u = Out THEN i + 1 ELSE i, p)
        /\ \A p \in Counted : ~Slot(Out, 0, p)
    BY <1>0, <1>4, PopSlot DEF OutPop
  <2>2. file' = file /\ pc[Out] = "pop"
    BY <1>4 DEF OutPop, fileVars
  <2> QED BY <1>1, <1>2, <2>1, <2>2, FilesAlike DEF Pops
<1>5. CASE OutWrite
  <2>1. pc[Out] = "write" /\ hand[Out] \in Counted /\ queue' = queue /\ hand' = [hand EXCEPT ![Out] = None]
    BY <1>0, <1>5 DEF OutWrite, HandInv, TypeOK
  <2>2. fileOpen /\ file # <<>>
    <3>1. hand[Out] # None
      BY <2>1 DEF Counted, Packets, None
    <3>2. mainPc \notin {"openOutput", "returnFalse", "returnTrue"}
      BY <1>0, <2>1 DEF Ends
    <3> QED BY <1>0, <3>1, <3>2 DEF FileInv
  <2>3. file' = Append(file, hand[Out])
    BY <1>5, <2>2 DEF OutWrite, WriteFile
  <2>4. Empties(Out)
    BY <1>0, <2>1, HandEmptied
  <2>5. ASSUME NEW p \in Counted
        PROVE  InFile(p)' <=> InFile(p) \/ p = hand[Out]
    <3> DEFINE n == Len(file)
               x == hand[Out]
    <3>1. file \in Seq(Counted \cup {Header}) /\ x \in Counted \cup {Header}
      BY <2>1 DEF TypeOK
    <3>2. /\ n \in Nat /\ DOMAIN file = 1..n /\ DOMAIN file' = 1..(n + 1)
          /\ \A i \in 1..n : file'[i] = file[i]
          /\ file'[n + 1] = x
      BY <2>3, <3>1
    <3> HIDE DEF n, x
    <3>3. 1..(n + 1) = (1..n) \cup {n + 1}
      BY <3>2
    <3> QED BY <3>2, <3>3 DEF InFile, x
  <2> QED BY <1>1, <1>2, <2>1, <2>2, <2>3, <2>4, <2>5 DEF Writes
<1> QED BY <1>3, <1>4, <1>5 DEF Output

\* All a step can do to the packets.
LEMMA Moves ==
  ASSUME SInv, FileInv, RoleInv, [Next]_vars
  PROVE  \/ /\ file' = file \/ (file = <<>> /\ file' = <<Header>>)
            /\ \/ Rests \/ Reads \/ Enters
               \/ \E t \in Threads : Pops(t)
               \/ \E f \in FPs : Drops(f) \/ Forwards(f)
               \/ \E w \in Workers : Passes(w)
         \/ Writes
<1>1. CASE Terminating \/ UNCHANGED vars
  <2>1. UNCHANGED vars
    BY <1>1 DEF Terminating
  <2>2. KeepsSlots /\ KeepsFile /\ file' = file
    BY <2>1, SlotsAlike, FilesAlike DEF vars, workVars, fileVars
  <2> QED BY <2>1, <2>2 DEF Rests, KeepsReader, KeepsPush, vars, readerVars, workVars
<1>2. CASE Main
  BY <1>2, MainRests
<1>3. CASE Reader
  BY <1>3, ReaderMoves
<1>4. ASSUME NEW w \in Workers, Worker(w)
      PROVE  /\ file' = file
             /\ \/ Rests \/ (\E t \in Threads : Pops(t))
                \/ (\E f \in FPs : Drops(f) \/ Forwards(f)) \/ Passes(w)
  BY <1>4, WorkerMoves, ThreadNumbers
<1>5. CASE Output
  BY <1>5, OutputMoves, ThreadNumbers
<1> QED BY <1>1, <1>2, <1>3, <1>4, <1>5 DEF Next

-----------------------------------------------------------------------------
(***************************************************************************)
(* The place invariant.  That a packet is in one slot only is inductive     *)
(* together with what its verdict says of where it is: none up to the fast  *)
(* path that has it in hand, FORWARD from there on.                         *)
(***************************************************************************)

\* Past the decision: in the hand of an FP about to push, or with the output thread.
Passed(t, i) == t = Out \/ (t \in FPs /\ i = 0 /\ pc[t] = "push")

OneSlot ==
  \A p \in Counted, t \in Threads, u \in Threads, i \in Nat, j \in Nat :
    Slot(t, i, p) /\ Slot(u, j, p) => t = u /\ i = j

InSlot ==
  \A p \in Counted, t \in Threads, i \in Nat : Slot(t, i, p) =>
    /\ p <= readerPos /\ ~InReader(p) /\ ~InFile(p)
    /\ verdict[p] = IF Passed(t, i) THEN "FORWARD" ELSE "none"

OffSlot ==
  \A p \in Counted :
    /\ p > readerPos \/ InReader(p) => verdict[p] = "none"
    /\ InFile(p) => verdict[p] = "FORWARD"

FileOnce == \A i \in DOMAIN file, j \in DOMAIN file : file[i] = file[j] => i = j

Somewhere ==
  \A p \in Counted : p <= readerPos =>
    \/ InReader(p)
    \/ \E t \in Threads, i \in Nat : Slot(t, i, p)
    \/ InFile(p)
    \/ verdict[p] = "DROP"

PlaceInv == RoleInv /\ OneSlot /\ InSlot /\ OffSlot /\ FileOnce /\ Somewhere

PInv == SInv /\ FileInv /\ PlaceInv

\* What is in hand is in slot 0.
LEMMA HandIsSlot == \A t : Slot(t, 0, hand[t])
  BY DEF Slot

\* The types the steps below need.
LEMMA PlaceTypes ==
  ASSUME TypeOK
  PROVE  /\ readerPos \in Nat /\ verdict \in [Packets -> {"none", "FORWARD", "DROP"}]
         /\ \A p \in Counted : p \in Packets /\ p \in Nat /\ p > 0
         /\ \A t \in Threads : LastSlot(t) \in Nat /\ LastSlot(t) + 1 # 0
         /\ \A w \in Workers : w \in Threads
         /\ \A f \in FPs : f \in Threads /\ f \in Workers /\ f \notin LBs /\ f # Out
<1>1. \A t \in Threads : LastSlot(t) \in Nat /\ LastSlot(t) + 1 # 0
  BY QueueOpsPositions DEF LastSlot, TypeOK
<1> QED BY <1>1, InputAssumption, ThreadNumbers DEF TypeOK, Counted, Packets

\* Nothing past its last is in a queue.
LEMMA BeyondLast ==
  ASSUME TypeOK, NEW t \in Threads, NEW p \in Counted, NEW i \in Nat, Slot(t, i, p)
  PROVE  i <= LastSlot(t)
<1>1. LastSlot(t) \in Nat
  BY PlaceTypes
<1> QED BY <1>1 DEF Slot, LastSlot

\* Before the engine starts no packet is anywhere.
LEMMA InitPlaces == Init => PInv
<1> SUFFICES ASSUME Init PROVE PInv
  OBVIOUS
<1>1. SInv /\ FileInv
  BY InitSInv DEF Init, FileInv, HeaderFirst, NewQueue
<1>2. \A p \in Counted, t \in Threads, i \in Nat : ~Slot(t, i, p)
  BY DEF Init, Slot, NewQueue, Counted, Packets, None
<1>3. \A p \in Counted : ~InFile(p) /\ ~InReader(p) /\ ~(p <= readerPos) /\ verdict[p] = "none"
  BY InputAssumption DEF Init, InFile, InReader, Counted, Packets
<1>4. RoleInv /\ FileOnce
  BY ThreadNumbers DEF Init, RoleInv, FileOnce
<1> QED BY <1>1, <1>2, <1>3, <1>4 DEF PInv, PlaceInv, OneSlot, InSlot, OffSlot, Somewhere

\* Whatever moves, it moves to one slot.
LEMMA OneSlotStep ==
  ASSUME PInv, [Next]_vars
  PROVE  OneSlot'
<1> USE DEF PInv, PlaceInv
<1> SUFFICES ASSUME NEW p \in Counted, NEW t \in Threads, NEW u \in Threads,
                    NEW i \in Nat, NEW j \in Nat, Slot(t, i, p)', Slot(u, j, p)'
             PROVE  t = u /\ i = j
  BY DEF OneSlot, Counted, Packets, Threads, Out
<1>1. CASE Slot(t, i, p) /\ Slot(u, j, p)
  BY <1>1 DEF OneSlot
<1>2. CASE Rests \/ Reads \/ Writes \/ \E f \in FPs : Drops(f) \/ Forwards(f)
  BY <1>1, <1>2 DEF Rests, Reads, Writes, Drops, Forwards, KeepsSlots, Empties
<1>3. CASE Enters
  <2>1. p = readerPos => InReader(p)
    BY <1>3 DEF Enters, InReader
  <2>2. p = readerPos => ~Slot(t, i, p) /\ ~Slot(u, j, p)
    BY <2>1 DEF InSlot
  <2>3. /\ Slot(t, i, p) \/ (t = LBOf(p) /\ i = LastSlot(t) + 1 /\ p = readerPos)
        /\ Slot(u, j, p) \/ (u = LBOf(p) /\ j = LastSlot(u) + 1 /\ p = readerPos)
    BY <1>3 DEF Enters
  <2> QED BY <1>1, <2>2, <2>3
<1>4. ASSUME NEW v \in Threads, Pops(v)
      PROVE  t = u /\ i = j
  <2>1. Slot(t, IF t = v THEN i + 1 ELSE i, p) /\ Slot(u, IF u = v THEN j + 1 ELSE j, p)
    BY <1>4 DEF Pops
  <2>2. t = u /\ (IF t = v THEN i + 1 ELSE i) = (IF u = v THEN j + 1 ELSE j)
    BY <2>1 DEF OneSlot
  <2> QED BY <2>2
<1>5. ASSUME NEW w \in Workers, Passes(w)
      PROVE  t = u /\ i = j
  <2>1. w \in Threads
    BY ThreadNumbers
  <2>2. /\ \/ Slot(t, i, p) /\ ~(t = w /\ i = 0)
           \/ t = Target(w, p) /\ i = LastSlot(t) + 1 /\ p = hand[w]
        /\ \/ Slot(u, j, p) /\ ~(u = w /\ j = 0)
           \/ u = Target(w, p) /\ j = LastSlot(u) + 1 /\ p = hand[w]
    BY <1>5 DEF Passes
  <2>3. p = hand[w] => /\ Slot(t, i, p) => t = w /\ i = 0
                       /\ Slot(u, j, p) => u = w /\ j = 0
    BY <2>1, HandIsSlot DEF OneSlot
  <2> QED BY <1>1, <2>2, <2>3
<1> QED BY <1>2, <1>3, <1>4, <1>5, Moves

\* What the output thread writes is not in the file yet, and the header is first.
LEMMA FileOnceStep ==
  ASSUME PInv, [Next]_vars
  PROVE  FileOnce'
<1> USE DEF PInv, PlaceInv
<1>1. CASE file' = file
  BY <1>1 DEF FileOnce
<1>2. CASE file' = <<Header>>
  BY <1>2 DEF FileOnce
<1>3. CASE Writes
  <2> DEFINE n == Len(file)
             x == hand[Out]
  <2>1. file \in Seq(Counted \cup {Header}) /\ x \in Counted /\ file' = Append(file, x)
    BY <1>3 DEF Writes, SInv, IInv0, TypeOK
  <2>2. /\ n \in Nat /\ DOMAIN file = 1..n /\ DOMAIN file' = 1..(n + 1)
        /\ \A i \in 1..n : file'[i] = file[i]
        /\ file'[n + 1] = x
    BY <2>1
  <2>3. ~InFile(x)
    BY <2>1, HandIsSlot, ThreadNumbers DEF InSlot
  <2> HIDE DEF n, x
  <2>4. \A i \in 1..n : file[i] # x
    BY <2>2, <2>3 DEF InFile
  <2>5. ASSUME NEW i \in 1..(n + 1), NEW j \in 1..(n + 1), file'[i] = file'[j]
        PROVE  i = j
    <3>1. (i \in 1..n \/ i = n + 1) /\ (j \in 1..n \/ j = n + 1)
      BY <2>2
    <3> QED BY <2>2, <2>4, <2>5, <3>1 DEF FileOnce
  <2> QED BY <2>2, <2>5 DEF FileOnce
<1> QED BY <1>1, <1>2, <1>3, Moves

\* Off the slots: nothing is decided before it is handed over, and what is in the
\* file was decided FORWARD.
LEMMA OffSlotStep ==
  ASSUME PInv, [Next]_vars
  PROVE  OffSlot'
<1> USE DEF PInv, PlaceInv, SInv, IInv0
<1> SUFFICES ASSUME NEW p \in Counted
             PROVE  /\ (p > readerPos \/ InReader(p))' => verdict'[p] = "none"
                    /\ InFile(p)' => verdict'[p] = "FORWARD"
  BY DEF OffSlot, Counted, Packets
<1>0. p \in Packets /\ p \in Nat /\ readerPos \in Nat
  BY PlaceTypes
<1>1. CASE Rests
  BY <1>1 DEF Rests, KeepsFile, KeepsReader, OffSlot, InReader
<1>2. CASE Reads
  <2>1. (p > readerPos \/ InReader(p))' => p > readerPos
    BY <1>0, <1>2 DEF Reads, InReader
  <2> QED BY <1>2, <2>1 DEF Reads, KeepsFile, OffSlot
<1>3. CASE Enters
  BY <1>3 DEF Enters, KeepsFile, OffSlot, InReader
<1>4. ASSUME NEW t \in Threads, Pops(t)
      PROVE  /\ (p > readerPos \/ InReader(p))' => verdict'[p] = "none"
             /\ InFile(p)' => verdict'[p] = "FORWARD"
  BY <1>4 DEF Pops, KeepsFile, KeepsReader, OffSlot, InReader
<1>5. ASSUME NEW f \in FPs, Drops(f) \/ Forwards(f)
      PROVE  /\ (p > readerPos \/ InReader(p))' => verdict'[p] = "none"
             /\ InFile(p)' => verdict'[p] = "FORWARD"
  <2> DEFINE x == hand[f]
  <2>1. f \in Threads /\ x \in Counted /\ Slot(f, 0, x)
    BY <1>5, HandIsSlot, PlaceTypes DEF Drops, Forwards
  <2>2. x \in Nat /\ x <= readerPos /\ ~InReader(x) /\ ~InFile(x)
    BY <2>1, PlaceTypes DEF InSlot
  <2>3. verdict' = [verdict EXCEPT ![x] = "DROP"] \/ verdict' = [verdict EXCEPT ![x] = "FORWARD"]
    BY <1>5 DEF Drops, Forwards
  <2>4. p # x => verdict'[p] = verdict[p]
    BY <1>0, <2>3, PlaceTypes
  <2>5. (p > readerPos \/ InReader(p))' <=> p > readerPos \/ InReader(p)
    BY <1>5 DEF Drops, Forwards, KeepsReader, InReader
  <2>6. InFile(p)' <=> InFile(p)
    BY <1>5 DEF Drops, Forwards, KeepsFile
  <2> HIDE DEF x
  <2>7. p = x => ~(p > readerPos)
    BY <1>0, <2>2
  <2> QED BY <2>2, <2>4, <2>5, <2>6, <2>7 DEF OffSlot
<1>6. ASSUME NEW w \in Workers, Passes(w)
      PROVE  /\ (p > readerPos \/ InReader(p))' => verdict'[p] = "none"
             /\ InFile(p)' => verdict'[p] = "FORWARD"
  BY <1>6 DEF Passes, KeepsFile, KeepsReader, OffSlot, InReader
<1>7. CASE Writes
  <2>1. Out \in Threads /\ Slot(Out, 0, hand[Out]) /\ hand[Out] \in Counted
    BY <1>7, HandIsSlot, ThreadNumbers DEF Writes
  <2>2. verdict[hand[Out]] = "FORWARD"
    BY <2>1 DEF InSlot, Passed
  <2> QED BY <1>7, <2>2 DEF Writes, KeepsReader, OffSlot, InReader
<1> QED BY <1>1, <1>2, <1>3, <1>4, <1>5, <1>6, <1>7, Moves

\* A counted packet that leaves one place arrives at another.
LEMMA SomewhereStep ==
  ASSUME PInv, [Next]_vars
  PROVE  Somewhere'
<1> USE DEF PInv, PlaceInv, SInv, IInv0
<1> SUFFICES ASSUME NEW p \in Counted, p <= readerPos'
             PROVE  \/ InReader(p)'
                    \/ \E t \in Threads, i \in Nat : Slot(t, i, p)'
                    \/ InFile(p)'
                    \/ verdict'[p] = "DROP"
  BY DEF Somewhere, Counted, Packets, Threads, Out
<1> DEFINE Goal == \/ InReader(p)'
                   \/ \E t \in Threads, i \in Nat : Slot(t, i, p)'
                   \/ InFile(p)'
                   \/ verdict'[p] = "DROP"
<1>0. p \in Packets /\ p \in Nat /\ readerPos \in Nat
  BY PlaceTypes
<1>1. CASE Rests
  BY <1>1 DEF Rests, KeepsFile, KeepsReader, KeepsSlots, Somewhere, InReader
<1>2. CASE Reads
  <2>1. p <= readerPos \/ (p = readerPos + 1 /\ readerPos' = readerPos + 1)
    BY <1>0, <1>2 DEF Reads
  <2>2. p <= readerPos => ~InReader(p)
    BY <1>2 DEF Reads, InReader
  <2> QED BY <1>2, <2>1, <2>2 DEF Reads, KeepsFile, KeepsSlots, Somewhere, InReader
<1>3. CASE Enters
  <2>1. CASE InReader(p)
    <3>1. p = readerPos /\ LBOf(p) \in Threads
      BY <2>1, Routing, ThreadNumbers DEF InReader
    <3>2. PICK i \in Nat : i = LastSlot(LBOf(p)) + 1
      BY <3>1, PlaceTypes
    <3>3. Slot(LBOf(p), i, p)'
      BY <1>3, <3>1, <3>2 DEF Enters
    <3> QED BY <3>1, <3>2, <3>3
  <2>2. CASE ~InReader(p)
    BY <1>3, <2>2 DEF Enters, KeepsFile, Somewhere
  <2> QED BY <2>1, <2>2
<1>4. ASSUME NEW v \in Threads, Pops(v)
      PROVE  Goal
  <2>1. ASSUME NEW t \in Threads, NEW i \in Nat, Slot(t, i, p)
        PROVE  \E j \in Nat : Slot(t, j, p)'
    <3>1. CASE t # v
      BY <1>4, <2>1, <3>1 DEF Pops
    <3>2. CASE t = v
      <4>1. i # 0
        BY <1>4, <2>1, <3>2 DEF Pops
      <4>2. i - 1 \in Nat /\ (i - 1) + 1 = i
        BY <4>1
      <4>3. Slot(t, i - 1, p)'
        BY <1>4, <2>1, <3>2, <4>2 DEF Pops
      <4> QED BY <4>2, <4>3
    <3> QED BY <3>1, <3>2
  <2> QED BY <1>4, <2>1 DEF Pops, KeepsFile, KeepsReader, Somewhere, InReader
<1>5. ASSUME NEW f \in FPs, Drops(f)
      PROVE  Goal
  <2>1. p = hand[f] => verdict'[p] = "DROP"
    BY <1>0, <1>5, PlaceTypes DEF Drops
  <2>2. p # hand[f] => verdict'[p] = verdict[p] /\ ~Slot(f, 0, p)
    BY <1>0, <1>5, PlaceTypes DEF Drops, Slot
  <2> QED BY <1>5, <2>1, <2>2 DEF Drops, Empties, KeepsFile, KeepsReader, Somewhere, InReader
<1>6. ASSUME NEW f \in FPs, Forwards(f)
      PROVE  Goal
  <2>1. p = hand[f] => Slot(f, 0, p) /\ f \in Threads
    BY HandIsSlot, PlaceTypes
  <2>2. p # hand[f] => verdict'[p] = verdict[p]
    BY <1>0, <1>6, PlaceTypes DEF Forwards
  <2> QED BY <1>6, <2>1, <2>2 DEF Forwards, KeepsSlots, KeepsFile, KeepsReader, Somewhere, InReader
<1>7. ASSUME NEW w \in Workers, Passes(w)
      PROVE  Goal
  <2>1. CASE p = hand[w]
    <3>1. Target(w, p) \in Threads
      BY <1>7, <2>1, PushOpen, ThreadNumbers DEF Passes
    <3>2. PICK i \in Nat : i = LastSlot(Target(w, p)) + 1
      BY <3>1, PlaceTypes
    <3>3. Slot(Target(w, p), i, p)'
      BY <1>7, <2>1, <3>1, <3>2 DEF Passes
    <3> QED BY <3>1, <3>2, <3>3
  <2>2. CASE p # hand[w]
    <3>1. ~Slot(w, 0, p)
      BY <2>2 DEF Slot
    <3> QED BY <1>7, <3>1 DEF Passes, KeepsFile, KeepsReader, Somewhere, InReader
  <2> QED BY <2>1, <2>2
<1>8. CASE Writes
  <2>1. CASE p = hand[Out]
    BY <1>8, <2>1 DEF Writes
  <2>2. CASE p # hand[Out]
    <3>1. ~Slot(Out, 0, p)
      BY <2>2 DEF Slot
    <3> QED BY <1>8, <3>1 DEF Writes, Empties, KeepsReader, Somewhere, InReader
  <2> QED BY <2>1, <2>2
<1> QED BY <1>1, <1>2, <1>3, <1>4, <1>5, <1>6, <1>7, <1>8, Moves

\* Where a packet is and what was decided about it stay in step.
LEMMA InSlotStep ==
  ASSUME PInv, [Next]_vars
  PROVE  InSlot'
<1> USE DEF PInv, PlaceInv, SInv, IInv0
<1> SUFFICES ASSUME NEW p \in Counted, NEW t \in Threads, NEW i \in Nat, Slot(t, i, p)'
             PROVE  /\ p <= readerPos' /\ ~InReader(p)' /\ ~InFile(p)'
                    /\ verdict'[p] = IF Passed(t, i)' THEN "FORWARD" ELSE "none"
  BY DEF InSlot, Counted, Packets, Threads, Out
<1> DEFINE Goal == /\ p <= readerPos' /\ ~InReader(p)' /\ ~InFile(p)'
                   /\ verdict'[p] = IF Passed(t, i)' THEN "FORWARD" ELSE "none"
<1>0. p \in Packets /\ p \in Nat /\ readerPos \in Nat
  BY PlaceTypes
<1>a. ASSUME Slot(t, i, p)
      PROVE  /\ p <= readerPos /\ ~InReader(p) /\ ~InFile(p)
             /\ verdict[p] = IF Passed(t, i) THEN "FORWARD" ELSE "none"
  BY <1>a DEF InSlot
<1>b. KeepsPush => (Passed(t, i)' <=> Passed(t, i))
  BY DEF KeepsPush, Passed, Out, FPs
<1>c. KeepsReader => (InReader(p)' <=> InReader(p)) /\ readerPos' = readerPos
  BY DEF KeepsReader, InReader
<1>d. KeepsFile => (InFile(p)' <=> InFile(p))
  BY DEF KeepsFile
<1>1. CASE Rests
  BY <1>a, <1>b, <1>c, <1>d, <1>1 DEF Rests, KeepsSlots
<1>2. CASE Reads
  <2>1. Slot(t, i, p) /\ verdict' = verdict
    BY <1>2 DEF Reads, KeepsSlots
  <2>2. p <= readerPos' /\ ~InReader(p)'
    BY <1>0, <1>2, <1>a, <2>1 DEF Reads, InReader
  <2> QED BY <1>2, <1>a, <1>b, <1>d, <2>1, <2>2 DEF Reads
<1>3. CASE Enters
  <2>1. CASE Slot(t, i, p)
    BY <1>3, <1>a, <1>b, <1>d, <2>1 DEF Enters, InReader
  <2>2. CASE ~Slot(t, i, p)
    <3>1. t = LBOf(p) /\ i = LastSlot(t) + 1 /\ p = readerPos /\ InReader(p)
      BY <1>3, <2>2 DEF Enters, InReader
    <3>2. t \in LBs /\ i # 0 /\ t \notin FPs /\ t # Out
      BY <3>1, Routing, PlaceTypes, ThreadNumbers
    <3>3. verdict[p] = "none" /\ ~InFile(p) /\ ~Passed(t, i)
      BY <3>1, <3>2 DEF OffSlot, Passed
    <3> QED BY <1>0, <1>3, <1>b, <1>d, <3>1, <3>3 DEF Enters, InReader
  <2> QED BY <2>1, <2>2
<1>4. ASSUME NEW v \in Threads, Pops(v)
      PROVE  Goal
  <2> DEFINE j == IF t = v THEN i + 1 ELSE i
  <2>1. Slot(t, j, p) /\ j \in Nat
    BY <1>4 DEF Pops
  <2>2. Passed(t, j) <=> Passed(t, i)
    <3>1. t = v => pc[t] # "push"
      BY <1>4 DEF Pops
    <3> QED BY <3>1 DEF Passed
  <2> HIDE DEF j
  <2>3. /\ p <= readerPos /\ ~InReader(p) /\ ~InFile(p)
        /\ verdict[p] = IF Passed(t, j) THEN "FORWARD" ELSE "none"
    BY <2>1 DEF InSlot
  <2> QED BY <1>4, <1>b, <1>c, <1>d, <2>2, <2>3 DEF Pops
<1>5. ASSUME NEW f \in FPs, Drops(f)
      PROVE  Goal
  <2>1. Slot(t, i, p) /\ ~(t = f /\ i = 0) /\ f \in Threads
    BY <1>5, PlaceTypes DEF Drops, Empties
  <2>2. p # hand[f]
    BY <2>1, HandIsSlot DEF OneSlot
  <2>3. verdict'[p] = verdict[p]
    BY <1>0, <1>5, <2>2, PlaceTypes DEF Drops
  <2> QED BY <1>5, <1>a, <1>b, <1>c, <1>d, <2>1, <2>3 DEF Drops
<1>6. ASSUME NEW f \in FPs, Forwards(f)
      PROVE  Goal
  <2>1. Slot(t, i, p) /\ f \in Threads
    BY <1>6, PlaceTypes DEF Forwards, KeepsSlots
  <2>2. CASE p = hand[f]
    <3>1. t = f /\ i = 0
      BY <2>1, <2>2, HandIsSlot DEF OneSlot
    <3>2. Passed(t, i)'
      BY <1>6, <3>1 DEF Forwards, Passed, FPs, Out
    <3>3. verdict'[p] = "FORWARD"
      BY <1>0, <1>6, <2>2, PlaceTypes DEF Forwards
    <3> QED BY <1>6, <1>a, <1>c, <1>d, <2>1, <3>2, <3>3 DEF Forwards
  <2>3. CASE p # hand[f]
    <3>1. ~(t = f /\ i = 0)
      BY <2>1, <2>3 DEF Slot
    <3>2. Passed(t, i)' <=> Passed(t, i)
      BY <1>6, <3>1 DEF Forwards, Passed, FPs, Out
    <3>3. verdict'[p] = verdict[p]
      BY <1>0, <1>6, <2>3, PlaceTypes DEF Forwards
    <3> QED BY <1>6, <1>a, <1>c, <1>d, <2>1, <3>2, <3>3 DEF Forwards
  <2> QED BY <2>2, <2>3
<1>7. ASSUME NEW w \in Workers, Passes(w)
      PROVE  Goal
  <2>0. w \in Threads /\ pc[w] = "push" /\ w # Out
    BY <1>7, ThreadNumbers DEF Passes
  <2>1. CASE Slot(t, i, p) /\ ~(t = w /\ i = 0)
    <3>1. Passed(t, i)' <=> Passed(t, i)
      BY <1>7, <2>1 DEF Passes, Passed, FPs, Out
    <3> QED BY <1>7, <1>a, <1>c, <1>d, <2>1, <3>1 DEF Passes
  <2>2. CASE t = Target(w, p) /\ i = LastSlot(t) + 1 /\ p = hand[w]
    <3>1. i # 0 /\ Slot(w, 0, p)
      BY <2>2, HandIsSlot, PlaceTypes
    <3>2. /\ p <= readerPos /\ ~InReader(p) /\ ~InFile(p)
          /\ verdict[p] = IF Passed(w, 0) THEN "FORWARD" ELSE "none"
      BY <2>0, <3>1 DEF InSlot
    <3>3. (Passed(t, i) <=> Passed(w, 0)) /\ (Passed(t, i)' <=> Passed(t, i))
      <4>1. Passed(w, 0) <=> w \in FPs
        BY <2>0 DEF Passed
      <4>2. Passed(t, i) <=> t = Out
        BY <3>1 DEF Passed
      <4>3. Passed(t, i)' <=> t = Out
        BY <3>1 DEF Passed, Out
      <4>4. t = Out <=> w \in FPs
        BY <2>2, Routing, ThreadNumbers DEF Target
      <4> QED BY <4>1, <4>2, <4>3, <4>4
    <3> QED BY <1>7, <1>c, <1>d, <3>2, <3>3 DEF Passes
  <2> QED BY <1>7, <2>1, <2>2 DEF Passes
<1>8. CASE Writes
  <2>1. Slot(t, i, p) /\ ~(t = Out /\ i = 0) /\ Out \in Threads
    BY <1>8, ThreadNumbers DEF Writes, Empties
  <2>2. p # hand[Out]
    BY <2>1, HandIsSlot DEF OneSlot
  <2> QED BY <1>8, <1>a, <1>b, <1>c, <2>1, <2>2 DEF Writes
<1> QED BY <1>1, <1>2, <1>3, <1>4, <1>5, <1>6, <1>7, <1>8, Moves

\* The place invariant is inductive.
LEMMA PInvStep == PInv /\ [Next]_vars => PInv'
<1> SUFFICES ASSUME PInv, [Next]_vars PROVE PInv'
  OBVIOUS
<1>1. SInv' /\ FileInv'
  <2>1. CASE Next
    BY <2>1, SInvStep, FileStep DEF PInv
  <2>2. CASE UNCHANGED vars
    BY <2>2, SInvStep
    DEF PInv, FileInv, HeaderFirst, vars, mainVars, readerVars, workVars, fileVars
  <2> QED BY <2>1, <2>2
<1>2. RoleInv'
  BY RoleStep DEF PInv, PlaceInv, SInv
<1> QED BY <1>1, <1>2, OneSlotStep, InSlotStep, OffSlotStep, FileOnceStep, SomewhereStep
        DEF PInv, PlaceInv

\* A packet that is in one place is there and nowhere else.
LEMMA PlacesAreOne ==
  ASSUME PInv, NEW p \in Counted, p <= readerPos
  PROVE  \E x : Places(p) = {x}
<1> USE DEF PInv, PlaceInv, SInv, IInv0
<1>1. Places(p) = WithReader(p) \cup InHands(p) \cup InQueues(p) \cup Written(p) \cup Dropped(p)
  BY DEF Places
<1>2. /\ WithReader(p) = IF InReader(p) THEN {<<"reader">>} ELSE {}
      /\ Dropped(p) = IF verdict[p] = "DROP" THEN {<<"dropped">>} ELSE {}
      /\ ~InFile(p) => Written(p) = {}
  <2>1. ~InFile(p) => {j \in DOMAIN file : file[j] = p} = {}
    BY DEF InFile
  <2> QED BY <2>1 DEF WithReader, InReader, Dropped, Written
<1>3. ASSUME NEW t \in Threads
      PROVE  /\ hand[t] = p <=> Slot(t, 0, p)
             /\ \A i : i \in DOMAIN queue[t].items /\ queue[t].items[i] = p
                       <=> i \in Nat /\ i # 0 /\ Slot(t, i, p)
  <2>1. Len(queue[t].items) \in Nat /\ DOMAIN queue[t].items = 1..Len(queue[t].items)
    BY QueueOpsPositions DEF TypeOK
  <2> QED BY <2>1 DEF Slot
<1>4. ASSUME \A t \in Threads, i \in Nat : ~Slot(t, i, p)
      PROVE  InHands(p) = {} /\ InQueues(p) = {}
  <2>1. ASSUME NEW t \in Threads PROVE hand[t] # p /\ Queued(t, p) = {}
    BY <1>3, <1>4 DEF Queued
  <2> QED BY <2>1 DEF InHands, InQueues
<1>5. CASE InReader(p)
  <2>1. \A t \in Threads, i \in Nat : ~Slot(t, i, p)
    BY <1>5 DEF InSlot
  <2>2. verdict[p] = "none" /\ ~InFile(p)
    BY <1>5 DEF OffSlot
  <2>3. Places(p) = {<<"reader">>}
    BY <1>1, <1>2, <1>4, <1>5, <2>1, <2>2
  <2> QED BY <2>3
<1>6. ASSUME NEW t \in Threads, NEW i \in Nat, Slot(t, i, p)
      PROVE  \E x : Places(p) = {x}
  <2>1. ~InReader(p) /\ ~InFile(p) /\ verdict[p] # "DROP"
    BY <1>6 DEF InSlot
  <2>2. Places(p) = InHands(p) \cup InQueues(p)
    BY <1>1, <1>2, <2>1
  <2>3. \A u \in Threads, j \in Nat : Slot(u, j, p) => u = t /\ j = i
    BY <1>6 DEF OneSlot
  <2>4. CASE i = 0
    <3>1. \A u \in Threads : Queued(u, p) = {}
      BY <1>3, <2>3, <2>4 DEF Queued
    <3>2. {u \in Threads : hand[u] = p} = {t}
      BY <1>3, <1>6, <2>3, <2>4
    <3>3. InHands(p) = {<<"hand", t>>} /\ InQueues(p) = {}
      BY <3>1, <3>2 DEF InHands, InQueues
    <3> QED BY <2>2, <3>3
  <2>5. CASE i # 0
    <3>1. InHands(p) = {}
      BY <1>3, <2>3, <2>5 DEF InHands
    <3>2. {j \in DOMAIN queue[t].items : queue[t].items[j] = p} = {i}
      BY <1>3, <1>6, <2>3, <2>5
    <3>3. \A u \in Threads : u # t => Queued(u, p) = {}
      BY <1>3, <2>3 DEF Queued
    <3>4. Queued(t, p) = {<<"queue", t, i>>}
      BY <3>2 DEF Queued
    <3>5. InQueues(p) = {<<"queue", t, i>>}
      BY <3>3, <3>4 DEF InQueues
    <3> QED BY <2>2, <3>1, <3>5
  <2> QED BY <2>4, <2>5
<1>7. CASE InFile(p)
  <2>1. \A t \in Threads, i \in Nat : ~Slot(t, i, p)
    BY <1>7 DEF InSlot
  <2>2. verdict[p] = "FORWARD" /\ ~InReader(p)
    BY <1>7 DEF OffSlot
  <2>3. PICK i \in DOMAIN file : file[i] = p
    BY <1>7 DEF InFile
  <2>4. {j \in DOMAIN file : file[j] = p} = {i}
    BY <2>3 DEF FileOnce
  <2>5. Written(p) = {<<"file", i>>}
    BY <2>4 DEF Written
  <2>6. Places(p) = {<<"file", i>>}
    BY <1>1, <1>2, <1>4, <2>1, <2>2, <2>5
  <2> QED BY <2>6
<1>8. CASE verdict[p] = "DROP"
  <2>1. ~InReader(p) /\ ~InFile(p) /\ \A t \in Threads, i \in Nat : ~Slot(t, i, p)
    BY <1>8 DEF InSlot, OffSlot
  <2>2. Places(p) = {<<"dropped">>}
    BY <1>1, <1>2, <1>4, <1>8, <2>1
  <2> QED BY <2>2
<1> QED BY <1>5, <1>6, <1>7, <1>8 DEF Somewhere

\* At every moment a packet the reader has counted is in exactly one place: in one
\* hand, one queue, the file, or dropped.  No hand-over loses or doubles a packet.
THEOREM OnePlaceEach == Spec => []ExactlyOnePlace
<1>1. ASSUME PInv
      PROVE  ExactlyOnePlace
  <2> SUFFICES ASSUME NEW p \in Counted, p <= readerPos
               PROVE  Cardinality(Places(p)) = 1
    BY DEF ExactlyOnePlace
  <2>1. PICK x : Places(p) = {x}
    BY <1>1, PlacesAreOne
  <2> QED BY <2>1, FS_Singleton
<1> QED BY InitPlaces, PInvStep, <1>1, PTL DEF Spec

-----------------------------------------------------------------------------
(***************************************************************************)
(* The order of a flow.  Of two packets of one five-tuple the earlier is    *)
(* ahead: with a later thread, or with the same thread in a lower slot.     *)
(* That holds because both take the same path (FlowAffinity) and every      *)
(* hand-over is first in, first out.                                        *)
(***************************************************************************)

Before(p, q) == p < q /\ FlowOf[p] = FlowOf[q]

SlotOrder ==
  \A p \in Counted, q \in Counted, t \in Threads, u \in Threads, i \in Nat, j \in Nat :
    Before(p, q) /\ Slot(t, i, p) /\ Slot(u, j, q) => u < t \/ (u = t /\ i < j)

DecidedInOrder ==
  \A p \in Counted, q \in Counted :
    Before(p, q) /\ verdict[q] # "none" => verdict[p] # "none"

WrittenInOrder ==
  \A p \in Counted, q \in Counted : Before(p, q) /\ InFile(q) =>
    \A t \in Threads, i \in Nat : ~Slot(t, i, p)

OInv == PInv /\ SlotOrder /\ DecidedInOrder /\ WrittenInOrder

\* The slots a packet can be in are its own LB's, its own FP's and the output thread's.
LEMMA SlotOnPath ==
  ASSUME TypeOK, FlowAffinity, NEW t \in Threads, NEW i \in Nat, NEW p \in Counted, Slot(t, i, p)
  PROVE  \/ t \in LBs /\ t = LBOf(p)
         \/ t \in FPs /\ t = SelectFP(LBOf(p), p)
         \/ t = Out
<1>1. CASE t \in Workers
  <2>1. None \notin Counted
    BY DEF Counted, Packets, None
  <2>2. p \in Held(t)
    <3>1. CASE i = 0
      BY <2>1, <3>1 DEF Slot, Held
    <3>2. CASE i # 0
      <4>1. Len(queue[t].items) \in Nat /\ DOMAIN queue[t].items = 1..Len(queue[t].items)
        BY QueueOpsPositions DEF TypeOK
      <4>2. i \in DOMAIN queue[t].items /\ queue[t].items[i] = p
        BY <3>2, <4>1 DEF Slot
      <4> QED BY <4>2 DEF Held
    <3> QED BY <3>1, <3>2
  <2> QED BY <1>1, <2>2, ThreadNumbers DEF FlowAffinity
<1>2. CASE t \notin Workers
  BY <1>2, ThreadNumbers DEF Threads, Workers
<1> QED BY <1>1, <1>2

\* Packets of one flow have one path.
LEMMA OnePath ==
  \A p, q : FlowOf[p] = FlowOf[q] => LBOf(p) = LBOf(q) /\ \A l : SelectFP(l, p) = SelectFP(l, q)
  BY DEF LBOf, SelectFP

\* Stages in the order of thread numbers.
LEMMA StageNumbers ==
  /\ \A l \in LBs, f \in FPs : l < f /\ f < Out /\ l < Out /\ ~(f < l)
  /\ \A t \in Threads : t \in Nat /\ ~(t < t) /\ ~(Out < t)
BY ThreadNumbers, ThreadsAssumption DEF LBs, FPs, Threads, Out

\* A packet in a slot was in one before, or is the one the reader handed over.
LEMMA SlotSource ==
  ASSUME PInv, [Next]_vars, NEW p \in Counted, NEW t \in Threads, NEW i \in Nat, Slot(t, i, p)'
  PROVE  InReader(p) \/ \E u \in Threads, j \in Nat : Slot(u, j, p)
<1> USE DEF PInv, PlaceInv
<1>1. CASE Rests \/ Reads \/ Writes \/ \E f \in FPs : Drops(f) \/ Forwards(f)
  <2>1. Slot(t, i, p)
    BY <1>1 DEF Rests, Reads, Writes, Drops, Forwards, KeepsSlots, Empties
  <2> QED BY <2>1
<1>2. CASE Enters
  BY <1>2 DEF Enters, InReader
<1>3. ASSUME NEW v \in Threads, Pops(v)
      PROVE  \E u \in Threads, j \in Nat : Slot(u, j, p)
  <2>1. Slot(t, IF t = v THEN i + 1 ELSE i, p) /\ (IF t = v THEN i + 1 ELSE i) \in Nat
    BY <1>3 DEF Pops
  <2> QED BY <2>1
<1>4. ASSUME NEW w \in Workers, Passes(w)
      PROVE  \E u \in Threads, j \in Nat : Slot(u, j, p)
  <2>1. Slot(t, i, p) \/ p = hand[w]
    BY <1>4 DEF Passes
  <2> QED BY <2>1, HandIsSlot, ThreadNumbers
<1> QED BY <1>1, <1>2, <1>3, <1>4, Moves

\* When an FP decides a packet, every earlier one of the flow has been decided.
LEMMA EarlierDecided ==
  ASSUME OInv, FlowAffinity, NEW f \in FPs, pc[f] = "process",
         NEW q \in Counted, q = hand[f], NEW p \in Counted, Before(p, q)
  PROVE  verdict[p] # "none"
<1> USE DEF OInv, PInv, PlaceInv, SInv, IInv0
<1>1. f \in Threads /\ Slot(f, 0, q)
  BY HandIsSlot, PlaceTypes
<1>2. p <= readerPos /\ ~InReader(p)
  <2>1. q <= readerPos /\ p \in Nat /\ q \in Nat /\ readerPos \in Nat
    BY <1>1, PlaceTypes DEF InSlot
  <2> QED BY <2>1 DEF Before, InReader
<1>3. ASSUME NEW t \in Threads, NEW i \in Nat, Slot(t, i, p)
      PROVE  t = Out
  <2>1. f < t \/ (f = t /\ i < 0)
    BY <1>1, <1>3 DEF SlotOrder
  <2>2. f < t
    BY <2>1
  <2>3. f = SelectFP(LBOf(q), q)
    BY <1>1, SlotOnPath, StageNumbers, PlaceTypes
  <2>4. t \in LBs \/ t = f \/ t = Out
    BY <1>3, <2>3, SlotOnPath, OnePath DEF Before
  <2> QED BY <2>2, <2>4, StageNumbers, PlaceTypes
<1>4. ASSUME NEW t \in Threads, NEW i \in Nat, Slot(t, i, p)
      PROVE  verdict[p] = "FORWARD"
  BY <1>3, <1>4 DEF InSlot, Passed
<1> QED BY <1>2, <1>4 DEF Somewhere, OffSlot

\* When the output thread writes a packet, what was forwarded before it in its flow
\* is in the file.
LEMMA EarlierWritten ==
  ASSUME OInv, NEW q \in Counted, q = hand[Out], NEW p \in Counted, Before(p, q)
  PROVE  /\ \A t \in Threads, i \in Nat : ~Slot(t, i, p)
         /\ verdict[p] = "FORWARD" => InFile(p)
<1> USE DEF OInv, PInv, PlaceInv, SInv, IInv0
<1>1. Out \in Threads /\ Slot(Out, 0, q)
  BY HandIsSlot, ThreadNumbers
<1>2. p <= readerPos /\ ~InReader(p)
  <2>1. q <= readerPos /\ p \in Nat /\ q \in Nat /\ readerPos \in Nat
    BY <1>1, PlaceTypes DEF InSlot
  <2> QED BY <2>1 DEF Before, InReader
<1>3. ASSUME NEW t \in Threads, NEW i \in Nat, Slot(t, i, p)
      PROVE  FALSE
  <2>1. Out < t \/ (Out = t /\ i < 0)
    BY <1>1, <1>3 DEF SlotOrder
  <2> QED BY <2>1, StageNumbers
<1> QED BY <1>2, <1>3 DEF Somewhere

\* A hand-over keeps the packets of a flow in order.
LEMMA SlotOrderStep ==
  ASSUME OInv, FlowAffinity, [Next]_vars
  PROVE  SlotOrder'
<1> USE DEF OInv, PInv, PlaceInv, SInv, IInv0
<1> SUFFICES ASSUME NEW p \in Counted, NEW q \in Counted, NEW t \in Threads, NEW u \in Threads,
                    NEW i \in Nat, NEW j \in Nat, Before(p, q), Slot(t, i, p)', Slot(u, j, q)'
             PROVE  u < t \/ (u = t /\ i < j)
  BY DEF SlotOrder, Before, Counted, Packets, Threads, Out
<1>0. /\ p \in Nat /\ q \in Nat /\ readerPos \in Nat /\ t \in Nat /\ u \in Nat
      /\ LBOf(p) = LBOf(q) /\ p # q /\ p < q
      /\ \A l : SelectFP(l, p) = SelectFP(l, q)
  BY PlaceTypes, OnePath, StageNumbers DEF Before
<1>1. CASE Slot(t, i, p) /\ Slot(u, j, q)
  BY <1>1 DEF SlotOrder
<1>2. CASE Rests \/ Reads \/ Writes \/ \E f \in FPs : Drops(f) \/ Forwards(f)
  <2>1. Slot(t, i, p) /\ Slot(u, j, q)
    BY <1>2 DEF Rests, Reads, Writes, Drops, Forwards, KeepsSlots, Empties
  <2> QED BY <1>1, <2>1
<1>3. CASE Enters
  <2>1. p # readerPos
    <3>1. Slot(u, j, q) \/ q = readerPos
      BY <1>3 DEF Enters
    <3>2. Slot(u, j, q) => q <= readerPos
      BY DEF InSlot
    <3> QED BY <1>0, <3>1, <3>2
  <2>2. Slot(t, i, p)
    BY <1>3, <2>1 DEF Enters
  <2>3. CASE u = LBOf(q) /\ j = LastSlot(u) + 1 /\ q = readerPos
    <3>1. u \in LBs /\ i <= LastSlot(t) /\ LastSlot(t) \in Nat
      BY <2>2, <2>3, BeyondLast, Routing, PlaceTypes
    <3>2. t = u \/ t \in FPs \/ t = Out
      BY <1>0, <2>2, <2>3, SlotOnPath
    <3>3. t = u => i < j
      BY <2>3, <3>1
    <3> QED BY <3>1, <3>2, <3>3, StageNumbers
  <2> QED BY <1>1, <1>3, <2>2, <2>3 DEF Enters
<1>4. ASSUME NEW v \in Threads, Pops(v)
      PROVE  u < t \/ (u = t /\ i < j)
  <2> DEFINE k == IF t = v THEN i + 1 ELSE i
             m == IF u = v THEN j + 1 ELSE j
  <2>1. Slot(t, k, p) /\ Slot(u, m, q) /\ k \in Nat /\ m \in Nat
    BY <1>4 DEF Pops
  <2>2. u = t /\ k < m => i < j
    OBVIOUS
  <2> HIDE DEF k, m
  <2>3. u < t \/ (u = t /\ k < m)
    BY <2>1 DEF SlotOrder
  <2> QED BY <2>2, <2>3
<1>5. ASSUME NEW w \in Workers, Passes(w)
      PROVE  u < t \/ (u = t /\ i < j)
  <2>0. w \in Threads /\ w \in Nat
    BY ThreadNumbers, StageNumbers
  <2>1. CASE p = hand[w] /\ t = Target(w, p)
    <3>1. q # hand[w] /\ Slot(u, j, q)
      BY <1>0, <1>5, <2>1 DEF Passes
    <3>2. u < w \/ (u = w /\ 0 < j)
      BY <2>0, <2>1, <3>1, HandIsSlot DEF SlotOrder
    <3>3. w < t
      BY <2>1, ThreadNumbers, Routing, StageNumbers DEF Target
    <3> QED BY <1>0, <2>0, <3>2, <3>3
  <2>2. CASE q = hand[w] /\ u = Target(w, q) /\ j = LastSlot(u) + 1
    <3>1. p # hand[w] /\ Slot(t, i, p)
      BY <1>0, <1>5, <2>2 DEF Passes
    <3>2. w < t \/ (w = t /\ i < 0)
      BY <2>0, <2>2, <3>1, HandIsSlot DEF SlotOrder
    <3>3. w < t
      BY <3>2
    <3>4. t = u => i < j
      <4>1. i <= LastSlot(t) /\ LastSlot(t) \in Nat
        BY <3>1, BeyondLast, PlaceTypes
      <4> QED BY <2>2, <4>1
    <3>5. CASE w \in LBs
      <4>0. w \notin FPs /\ w # Out /\ Slot(w, 0, q)
        BY <2>2, <3>5, HandIsSlot, ThreadNumbers
      <4>1. w = LBOf(q)
        BY <2>0, <4>0, SlotOnPath
      <4>2. u = SelectFP(LBOf(q), q) /\ u \in FPs
        BY <2>2, <3>5, <4>1, Routing DEF Target
      <4>3. t = u \/ t = Out \/ (t \in LBs /\ t = w)
        BY <1>0, <3>1, <4>1, <4>2, SlotOnPath
      <4> QED BY <3>3, <3>4, <4>2, <4>3, StageNumbers
    <3>6. CASE w \notin LBs
      <4>1. u = Out /\ w \in FPs
        BY <2>2, <3>6, ThreadNumbers DEF Target
      <4>2. w = SelectFP(LBOf(q), q)
        BY <2>0, <2>2, <4>1, HandIsSlot, SlotOnPath, StageNumbers, PlaceTypes
      <4>3. t = Out \/ t \in LBs \/ t = w
        BY <1>0, <3>1, <4>2, SlotOnPath
      <4> QED BY <3>3, <3>4, <4>1, <4>3, StageNumbers
    <3> QED BY <3>5, <3>6
  <2> QED BY <1>1, <1>5, <2>1, <2>2 DEF Passes
<1> QED BY <1>2, <1>3, <1>4, <1>5, Moves

\* Packets of a flow get their verdicts in order.
LEMMA DecidedStep ==
  ASSUME OInv, FlowAffinity, [Next]_vars
  PROVE  DecidedInOrder'
<1> USE DEF OInv, PInv, PlaceInv, SInv, IInv0
<1> SUFFICES ASSUME NEW p \in Counted, NEW q \in Counted, Before(p, q), verdict'[q] # "none"
             PROVE  verdict'[p] # "none"
  BY DEF DecidedInOrder, Before, Counted, Packets
<1>1. CASE verdict' = verdict
  BY <1>1 DEF DecidedInOrder
<1>2. ASSUME NEW f \in FPs, Drops(f) \/ Forwards(f)
      PROVE  verdict'[p] # "none"
  <2> DEFINE x == hand[f]
  <2>1. PICK a \in {"DROP", "FORWARD"} : verdict' = [verdict EXCEPT ![x] = a]
    BY <1>2 DEF Drops, Forwards
  <2>2. pc[f] = "process" /\ x \in Counted
    BY <1>2 DEF Drops, Forwards
  <2>3. p # x => verdict'[p] = verdict[p]
    BY <2>1, PlaceTypes
  <2>4. p = x => verdict'[p] = a
    BY <2>1, PlaceTypes
  <2>5. q # x => verdict[q] # "none"
    BY <2>1, PlaceTypes
  <2>6. verdict[p] # "none"
    BY <2>2, <2>5, EarlierDecided DEF DecidedInOrder
  <2> QED BY <2>3, <2>4, <2>6
<1>3. Rests \/ Reads \/ Enters \/ Writes \/ (\E t \in Threads : Pops(t)) \/ (\E w \in Workers : Passes(w))
        => verdict' = verdict
  BY DEF Rests, Reads, Enters, Writes, Pops, Passes
<1> QED BY <1>1, <1>2, <1>3, Moves

\* Once a packet is in the file no earlier one of its flow is still on its way.
LEMMA WrittenStep ==
  ASSUME OInv, [Next]_vars
  PROVE  WrittenInOrder'
<1> USE DEF OInv, PInv, PlaceInv, SInv, IInv0
<1> SUFFICES ASSUME NEW p \in Counted, NEW q \in Counted, NEW t \in Threads, NEW i \in Nat,
                    Before(p, q), InFile(q)', Slot(t, i, p)'
             PROVE  FALSE
  BY DEF WrittenInOrder, Before, Counted, Packets, Threads, Out
<1>1. InFile(q) \/ (Writes /\ q = hand[Out])
  BY Moves DEF Rests, Reads, Enters, Pops, Drops, Forwards, Passes, Writes, KeepsFile
<1>2. CASE InFile(q)
  <2>1. ~InReader(p)
    <3>1. verdict[q] = "FORWARD"
      BY <1>2 DEF OffSlot
    <3>2. ~(q > readerPos) /\ p < q
      BY <3>1 DEF OffSlot, Before
    <3> QED BY <3>2, PlaceTypes DEF InReader
  <2> QED BY <1>2, <2>1, SlotSource DEF WrittenInOrder
<1>3. CASE Writes /\ q = hand[Out]
  <2>1. Slot(t, i, p)
    BY <1>3 DEF Writes, Empties
  <2> QED BY <1>3, <2>1, EarlierWritten
<1> QED BY <1>1, <1>2, <1>3

\* The order is inductive, given that flows stay on their paths.
LEMMA OInvStep == OInv /\ FlowAffinity /\ [Next]_vars => OInv'
  BY PInvStep, SlotOrderStep, DecidedStep, WrittenStep DEF OInv

\* It holds before the engine starts.
LEMMA InitOInv == Init => OInv
<1> SUFFICES ASSUME Init PROVE OInv
  OBVIOUS
<1>1. PInv
  BY InitPlaces
<1>2. \A p \in Counted : verdict[p] = "none" /\ ~InFile(p)
  BY DEF Init, InFile, Counted
<1>3. \A p \in Counted, t \in Threads, i \in Nat : ~Slot(t, i, p)
  BY DEF Init, Slot, NewQueue, Counted, Packets, None
<1> QED BY <1>1, <1>2, <1>3 DEF OInv, SlotOrder, DecidedInOrder, WrittenInOrder

-----------------------------------------------------------------------------
(***************************************************************************)
(* The refinement.  The reader's step takes a record, the FP's decides and  *)
(* the output thread's writes; nothing else is visible.                     *)
(***************************************************************************)

AfterHeader == SubSeq(file, 2, Len(file))

\* What follows the header in the file.
LEMMA FileTail ==
  ASSUME NEW S, NEW f \in Seq(S), NEW x \in S
  PROVE  /\ SubSeq(f, 2, Len(f)) \in Seq(S)
         /\ f = <<>> => SubSeq(f, 2, Len(f)) = <<>>
         /\ SubSeq(<<x>>, 2, 1) = <<>>
         /\ f # <<>> => SubSeq(Append(f, x), 2, Len(Append(f, x)))
                          = Append(SubSeq(f, 2, Len(f)), x)
<1> DEFINE n == Len(f)
           g == SubSeq(f, 2, n)
<1>1. n \in Nat /\ DOMAIN f = 1..n /\ \A i \in 1..n : f[i] \in S
  OBVIOUS
<1>2. g \in Seq(S)
  BY <1>1
<1>3. f = <<>> => g = <<>>
  BY <1>1
<1>4. SubSeq(<<x>>, 2, 1) = <<>>
  OBVIOUS
<1>5. f # <<>> => /\ Len(g) = n - 1 /\ DOMAIN g = 1..(n - 1)
                  /\ \A i \in 1..(n - 1) : g[i] = f[i + 1]
  BY <1>1
<1>6. ASSUME f # <<>>
      PROVE  SubSeq(Append(f, x), 2, Len(Append(f, x))) = Append(g, x)
  <2> DEFINE a == Append(f, x)
             h == SubSeq(a, 2, n + 1)
  <2>1. /\ a \in Seq(S) /\ Len(a) = n + 1 /\ a[n + 1] = x
        /\ \A i \in 1..n : a[i] = f[i]
    BY <1>1
  <2>2. n >= 1
    BY <1>1, <1>6
  <2> HIDE DEF a
  <2>3. h \in Seq(S) /\ Len(h) = n /\ \A i \in 1..n : h[i] = a[i + 1]
    BY <1>1, <2>1, <2>2
  <2>4. Append(g, x) \in Seq(S) /\ Len(Append(g, x)) = n /\ Append(g, x)[n] = x
        /\ \A i \in 1..(n - 1) : Append(g, x)[i] = g[i]
    BY <1>2, <1>5, <1>6
  <2> HIDE DEF h, n, g
  <2>5. ASSUME NEW i \in 1..n PROVE h[i] = Append(g, x)[i]
    <3>1. CASE i = n
      BY <2>1, <2>3, <2>4, <3>1
    <3>2. CASE i # n
      <4>1. i \in 1..(n - 1) /\ i + 1 \in 1..n
        BY <1>1, <3>2
      <4> QED BY <1>5, <1>6, <2>1, <2>3, <2>4, <4>1
    <3> QED BY <3>1, <3>2
  <2>6. h = Append(g, x)
    BY <2>3, <2>4, <2>5, SeqEqual
  <2> QED BY <2>1, <2>6 DEF h, a
<1> QED BY <1>2, <1>3, <1>4, <1>6

\* Its elements are those from the second on.
LEMMA FileTailElements ==
  ASSUME NEW S, NEW f \in Seq(S), NEW y
  PROVE  (\E i \in DOMAIN SubSeq(f, 2, Len(f)) : SubSeq(f, 2, Len(f))[i] = y)
           <=> \E j \in DOMAIN f \ {1} : f[j] = y
<1> DEFINE n == Len(f)
           g == SubSeq(f, 2, n)
<1>1. n \in Nat /\ DOMAIN f = 1..n
  OBVIOUS
<1>2. CASE f = <<>>
  <2>1. g = <<>>
    BY <1>1, <1>2
  <2> QED BY <1>1, <1>2, <2>1
<1>3. CASE f # <<>>
  <2>1. DOMAIN g = 1..(n - 1) /\ \A i \in 1..(n - 1) : g[i] = f[i + 1]
    BY <1>1, <1>3
  <2> HIDE DEF g, n
  <2>2. ASSUME NEW i \in DOMAIN g PROVE \E j \in DOMAIN f \ {1} : f[j] = g[i]
    <3>1. i + 1 \in DOMAIN f \ {1} /\ g[i] = f[i + 1]
      BY <1>1, <2>1
    <3> QED BY <3>1
  <2>3. ASSUME NEW j \in DOMAIN f \ {1} PROVE \E i \in DOMAIN g : g[i] = f[j]
    <3>1. j - 1 \in DOMAIN g /\ g[j - 1] = f[j]
      BY <1>1, <2>1
    <3> QED BY <3>1
  <2>4. (\E i \in DOMAIN g : g[i] = y) <=> \E j \in DOMAIN f \ {1} : f[j] = y
    BY <2>2, <2>3
  <2> QED BY <2>4 DEF g, n
<1> QED BY <1>2, <1>3

\* A packet counts as written exactly when it is in the file.
LEMMA WrittenIsInFile ==
  ASSUME TypeOK, HeaderFirst, NEW p \in Counted
  PROVE  p \in Filter!Written <=> InFile(p)
<1>1. file \in Seq(Counted \cup {Header}) /\ p \in Counted \cup {Header}
  BY DEF TypeOK
<1>2. (\E i \in DOMAIN SubSeq(file, 2, Len(file)) : SubSeq(file, 2, Len(file))[i] = p)
        <=> \E j \in DOMAIN file \ {1} : file[j] = p
  BY <1>1, FileTailElements
<1>b. p \in Filter!Written
        <=> \E i \in DOMAIN SubSeq(file, 2, Len(file)) : SubSeq(file, 2, Len(file))[i] = p
  BY DEF Filter!Written
<1>3. p # Header
  BY DEF Counted, Packets, Header
<1>4. \A i \in DOMAIN file : file[i] = p => i # 1
  BY <1>3 DEF HeaderFirst
<1> QED BY <1>2, <1>b, <1>4 DEF InFile

\* A new file that only gained the header shows no packet.
LEMMA SameOut ==
  ASSUME file' = file \/ (file = <<>> /\ file' = <<Header>>)
  PROVE  AfterHeader' = AfterHeader
<1>1. CASE file' = file
  BY <1>1 DEF AfterHeader
<1>2. CASE file = <<>> /\ file' = <<Header>>
  <2>1. Len(<<Header>>) = 1 /\ Header \in {Header} /\ <<>> \in Seq({Header})
    OBVIOUS
  <2>2. SubSeq(<<>>, 2, Len(<<>>)) = <<>> /\ SubSeq(<<Header>>, 2, 1) = <<>>
    BY <2>1, FileTail
  <2> QED BY <1>2, <2>1, <2>2 DEF AfterHeader
<1> QED BY <1>1, <1>2

\* Each step of the engine is a step of the filter, or none.
LEMMA FilterStep == OInv /\ FlowAffinity /\ [Next]_vars => [Filter!Next]_(Filter!vars)
<1> SUFFICES ASSUME OInv, FlowAffinity, [Next]_vars PROVE [Filter!Next]_(Filter!vars)
  OBVIOUS
<1> USE DEF OInv, PInv, PlaceInv, SInv, IInv0
<1>0. Filter!Packets = Packets
  BY DEF Filter!Packets, Packets
<1>a. UNCHANGED <<readerPos, verdict, AfterHeader>> => UNCHANGED Filter!vars
  BY DEF Filter!vars, AfterHeader
<1>1. ASSUME file' = file \/ (file = <<>> /\ file' = <<Header>>),
             Rests \/ Enters \/ (\E t \in Threads : Pops(t)) \/ (\E w \in Workers : Passes(w))
      PROVE  UNCHANGED Filter!vars
  <2>1. readerPos' = readerPos /\ verdict' = verdict
    BY <1>1 DEF Rests, Enters, Pops, Passes, KeepsReader
  <2> QED BY <1>1, <1>a, <2>1, SameOut
<1>2. ASSUME file' = file \/ (file = <<>> /\ file' = <<Header>>), Reads
      PROVE  Filter!Take \/ UNCHANGED Filter!vars
  <2>1. verdict' = verdict /\ AfterHeader' = AfterHeader
    BY <1>2, SameOut DEF Reads
  <2>2. CASE readerPos' = readerPos
    BY <1>a, <2>1, <2>2
  <2>3. CASE readerPos' = readerPos + 1
    <3>1. readerPos \in Nat /\ readerPos' \in 0..NumPackets
      BY PInvStep, PlaceTypes DEF TypeOK
    <3>2. readerPos < NumPackets
      BY <2>3, <3>1, InputAssumption
    <3> QED BY <2>1, <2>3, <3>2 DEF Filter!Take, AfterHeader
  <2> QED BY <1>2, <2>2, <2>3 DEF Reads
<1>3. ASSUME file' = file \/ (file = <<>> /\ file' = <<Header>>),
             NEW f \in FPs, Drops(f) \/ Forwards(f)
      PROVE  Filter!Next
  <2> DEFINE p == hand[f]
  <2>1. PICK v \in {"FORWARD", "DROP"} : verdict' = [verdict EXCEPT ![p] = v]
    BY <1>3 DEF Drops, Forwards
  <2>2. p \in Counted /\ pc[f] = "process" /\ f \in Threads /\ Slot(f, 0, p) /\ readerPos' = readerPos
    BY <1>3, HandIsSlot, PlaceTypes DEF Drops, Forwards, KeepsReader
  <2>3. AfterHeader' = AfterHeader
    BY <1>3, SameOut
  <2> HIDE DEF p
  <2>4. p <= readerPos /\ verdict[p] = "none" /\ p \in Packets /\ FlowOf[p] # NoFlow
    <3>1. ~Passed(f, 0)
      BY <2>2, PlaceTypes DEF Passed
    <3> QED BY <2>2, <3>1 DEF InSlot, Counted
  <2>5. ASSUME NEW q \in Filter!Earlier(p) PROVE verdict[q] # "none"
    <3>1. q \in Counted /\ Before(q, p)
      BY <2>4, InputAssumption DEF Filter!Earlier, Counted, Packets, Before
    <3> QED BY <2>2, <3>1, EarlierDecided DEF p
  <2>6. Filter!Decide(p)
    BY <2>1, <2>2, <2>3, <2>4, <2>5 DEF Filter!Decide, AfterHeader
  <2> QED BY <1>0, <2>4, <2>6 DEF Filter!Next
<1>4. CASE Writes
  <2> DEFINE p == hand[Out]
  <2>1. /\ p \in Counted /\ Out \in Threads /\ Slot(Out, 0, p) /\ verdict' = verdict
        /\ readerPos' = readerPos /\ file # <<>> /\ file' = Append(file, p)
    BY <1>4, HandIsSlot, ThreadNumbers DEF Writes, KeepsReader
  <2> HIDE DEF p
  <2>2. AfterHeader' = Append(AfterHeader, p)
    BY <2>1, FileTail DEF AfterHeader, TypeOK
  <2>3. verdict[p] = "FORWARD" /\ ~InFile(p) /\ p \in Packets
    BY <2>1, PlaceTypes DEF InSlot, Passed
  <2>4. HeaderFirst
    BY DEF FileInv
  <2>5. p \notin Filter!Written
    BY <2>1, <2>3, <2>4, WrittenIsInFile
  <2>6. ASSUME NEW q \in Filter!Earlier(p), verdict[q] = "FORWARD" PROVE q \in Filter!Written
    <3>1. q \in Counted /\ Before(q, p)
      BY <2>1, <2>3, InputAssumption DEF Filter!Earlier, Counted, Packets, Before
    <3>2. InFile(q)
      BY <2>1, <2>6, <3>1, EarlierWritten DEF p
    <3> QED BY <2>4, <3>1, <3>2, WrittenIsInFile
  <2>7. Filter!Write(p)
    BY <2>1, <2>2, <2>3, <2>5, <2>6 DEF Filter!Write, AfterHeader
  <2> QED BY <1>0, <2>3, <2>7 DEF Filter!Next
<1> QED BY <1>1, <1>2, <1>3, <1>4, Moves DEF Filter!Next

\* Seen from outside the engine is PacketFilter: whatever its threads do, the packets
\* of a flow are decided and written in the order of the input, each at most once.
THEOREM ImplementsPacketFilter == Spec => FilterSpec
<1>1. Init => Filter!Init
  <2> SUFFICES ASSUME Init PROVE Filter!Init
    OBVIOUS
  <2>1. <<>> \in Seq({0}) /\ 0 \in {0} /\ Len(<<>>) = 0
    OBVIOUS
  <2>2. SubSeq(<<>>, 2, Len(<<>>)) = <<>>
    BY <2>1, FileTail
  <2> QED BY <2>2 DEF Init, Filter!Init, Filter!Packets, Packets
<1> QED BY InitOInv, OInvStep, FilterStep, <1>1, FlowStaysOnItsPath, PTL DEF Spec, FilterSpec, Filter!Spec
=============================================================================
