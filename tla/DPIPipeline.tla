---------------------------- MODULE DPIPipeline ----------------------------
(***************************************************************************)
(* The threads of DPIEngine::processFile (src/src/dpi_engine.cpp): the      *)
(* main thread starts and stops the others in order; the reader pushes each *)
(* packet to a load balancer (LB), the LB to a fast path (FP), the FP gives *)
(* a verdict and pushes what it forwards to the output thread, which writes *)
(* it to the output file.  All hand-over is through bounded queues.  One    *)
(* atomic load, one queue operation or one file write is one step.  A       *)
(* packet is its position in the input file; what an FP decides is left     *)
(* open here.                                                               *)
(*                                                                          *)
(* LoadBalancer::run and FastPathProcessor::run are the same loop, so both  *)
(* are workers: the LBs are numbered from 0, then come the FPs, then the    *)
(* output thread Out.  That is also the order in which stop() stops them.   *)
(***************************************************************************)
EXTENDS Naturals, Sequences, FiniteSets, QueueOps

CONSTANTS
  NumLBs,      \* config.num_load_balancers, --lbs
  FpsPerLB,    \* config.fps_per_lb, --fps
  Capacity,    \* max_size_ of every queue, 10000 in the code
  NumPackets,  \* records in the input file
  Flows,       \* five-tuples
  NoFlow,      \* the mark of a record that is not TCP or UDP over IPv4
  FlowOf,      \* the five-tuple of each record
  Hash         \* FiveTupleHash

Packets == 1..NumPackets

\* parsePositiveInt in main_dpi.cpp keeps both thread counts above zero.
ASSUME ThreadsAssumption == NumLBs \in Nat \ {0} /\ FpsPerLB \in Nat \ {0}
ASSUME CapacityAssumption == Capacity \in Nat \ {0}
ASSUME InputAssumption ==
  /\ NumPackets \in Nat
  /\ NoFlow \notin Flows
  /\ FlowOf \in [Packets -> Flows \cup {NoFlow}]
  /\ Hash \in [Flows -> Nat]

Out     == NumLBs + NumLBs * FpsPerLB
LBs     == 0..(NumLBs - 1)
FPs     == NumLBs..(Out - 1)
Workers == 0..(Out - 1)
Threads == 0..Out          \* those that own a queue

VARIABLES
  mainPc, mainIdx,      \* processFile, and the worker its loops are at
  readerPc, readerPos,  \* the reader, and how many records it has read
  pc, hand, queue,      \* per thread: where it is, the packet it holds, its input queue
  running,              \* running_ of each worker
  file, fileOpen,       \* what the output file holds; output_file_.is_open()
  verdict               \* the action handleOutput was given for each packet

mainVars   == <<mainPc, mainIdx>>
readerVars == <<readerPc, readerPos>>
workVars   == <<pc, hand, queue>>
fileVars   == <<file, fileOpen>>
vars == <<mainVars, readerVars, workVars, running, fileVars, verdict>>

Header == 0   \* the pcap global header, as an element of file
None   == 0   \* no packet in hand

\* Records the reader counts in total_packets and sends down the pipeline.
Counted == {p \in Packets : FlowOf[p] # NoFlow}

\* Wrong: packets dealt out in turn, not by flow.
MutLBOf(p) == p % NumLBs

\* LBManager::getLBForPacket and LoadBalancer::selectFP reduce the same hash.
LBOf(p) == Hash[FlowOf[p]] % NumLBs
SelectFP(l, p) == NumLBs + l * FpsPerLB + (Hash[FlowOf[p]] % FpsPerLB)

\* Wrong: packets dealt out in turn, not by flow.
MutTarget(w, p) == IF w \in LBs THEN NumLBs + w * FpsPerLB + (p % FpsPerLB) ELSE Out

\* The queue that worker w pushes a packet to.
Target(w, p) == IF w \in LBs THEN SelectFP(w, p) ELSE Out

TypeOK ==
  /\ mainPc \in {"openOutput", "startOutput", "startWorker", "startReader",
                 "joinReader", "flagWorker", "shutWorker", "joinWorker",
                 "shutOutput", "joinOutput", "close", "returnTrue", "returnFalse"}
  /\ mainIdx \in Workers
  /\ readerPc \in {"idle", "open", "read", "push", "done"}
  /\ readerPos \in 0..NumPackets
  /\ pc \in [Threads -> {"idle", "check", "empty", "pop", "process", "push",
                         "write", "isShutdown", "done"}]
  /\ hand \in [Threads -> Counted \cup {None}]
  /\ queue \in [Threads -> QueueType(Counted)]
  /\ running \in [Workers -> BOOLEAN]
  /\ file \in Seq(Counted \cup {Header})
  /\ fileOpen \in BOOLEAN
  /\ verdict \in [Packets -> {"none", "FORWARD", "DROP"}]

\* A constructed and initialized engine, processFile just called.
Init ==
  /\ mainPc = "openOutput" /\ mainIdx = 0
  /\ readerPc = "idle" /\ readerPos = 0
  /\ pc = [t \in Threads |-> "idle"]
  /\ hand = [t \in Threads |-> None]
  /\ queue = [t \in Threads |-> NewQueue]
  /\ running = [w \in Workers |-> FALSE]
  /\ file = <<>> /\ fileOpen = FALSE
  /\ verdict = [p \in Packets |-> "none"]
-----------------------------------------------------------------------------
(***************************************************************************)
(* The main thread                                                          *)
(***************************************************************************)

MainGoto(to, i) == mainPc' = to /\ mainIdx' = i

OpenOutput ==
  /\ mainPc = "openOutput"
  /\ \/ fileOpen' = TRUE /\ MainGoto("startOutput", 0)
     \/ fileOpen' = FALSE /\ MainGoto("returnFalse", 0)   \* cannot open output file
  /\ UNCHANGED <<readerVars, workVars, running, file, verdict>>

StartOutput ==
  /\ mainPc = "startOutput"
  /\ pc' = [pc EXCEPT ![Out] = "pop"]
  /\ MainGoto("startWorker", NumLBs)
  /\ UNCHANGED <<readerVars, hand, queue, running, fileVars, verdict>>

\* fp_manager_->startAll() from the first FP, then lb_manager_->startAll().
StartWorker ==
  /\ mainPc = "startWorker"
  /\ running' = [running EXCEPT ![mainIdx] = TRUE]
  /\ pc' = [pc EXCEPT ![mainIdx] = "check"]
  /\ IF mainIdx = NumLBs - 1
     THEN MainGoto("startReader", 0)
     ELSE MainGoto("startWorker", (mainIdx + 1) % Out)
  /\ UNCHANGED <<readerVars, hand, queue, fileVars, verdict>>

StartReader ==
  /\ mainPc = "startReader"
  /\ readerPc' = "open"
  /\ MainGoto("joinReader", 0)
  /\ UNCHANGED <<readerPos, workVars, running, fileVars, verdict>>

\* Wrong: does not wait for the reader.
MutJoinReader ==
  /\ mainPc = "joinReader"
  /\ MainGoto("flagWorker", 0)
  /\ UNCHANGED <<readerVars, workVars, running, fileVars, verdict>>

JoinReader ==
  /\ mainPc = "joinReader"
  /\ readerPc = "done"
  /\ MainGoto("flagWorker", 0)
  /\ UNCHANGED <<readerVars, workVars, running, fileVars, verdict>>

\* LoadBalancer::stop and FastPathProcessor::stop: clear running_, shut the
\* queue down, join; only then the next worker.
FlagWorker ==
  /\ mainPc = "flagWorker"
  /\ running' = [running EXCEPT ![mainIdx] = FALSE]
  /\ MainGoto("shutWorker", mainIdx)
  /\ UNCHANGED <<readerVars, workVars, fileVars, verdict>>

ShutWorker ==
  /\ mainPc = "shutWorker"
  /\ queue' = [queue EXCEPT ![mainIdx] = Shutdown(@)]
  /\ MainGoto("joinWorker", mainIdx)
  /\ UNCHANGED <<readerVars, pc, hand, running, fileVars, verdict>>

\* Wrong: does not wait for the worker.
MutJoinWorker ==
  /\ mainPc = "joinWorker"
  /\ IF mainIdx + 1 \in Workers
     THEN MainGoto("flagWorker", mainIdx + 1)
     ELSE MainGoto("shutOutput", 0)
  /\ UNCHANGED <<readerVars, workVars, running, fileVars, verdict>>

\* Wrong: one worker too many.
MutJoinWorkerBound ==
  /\ mainPc = "joinWorker"
  /\ pc[mainIdx] = "done"
  /\ IF mainIdx + 1 \in Threads
     THEN MainGoto("flagWorker", mainIdx + 1)
     ELSE MainGoto("shutOutput", 0)
  /\ UNCHANGED <<readerVars, workVars, running, fileVars, verdict>>

JoinWorker ==
  /\ mainPc = "joinWorker"
  /\ pc[mainIdx] = "done"
  /\ IF mainIdx + 1 \in Workers
     THEN MainGoto("flagWorker", mainIdx + 1)
     ELSE MainGoto("shutOutput", 0)
  /\ UNCHANGED <<readerVars, workVars, running, fileVars, verdict>>

\* Wrong: the output queue is never shut down.
MutShutOutput ==
  /\ mainPc = "shutOutput"
  /\ MainGoto("joinOutput", 0)
  /\ UNCHANGED <<readerVars, workVars, running, fileVars, verdict>>

ShutOutput ==
  /\ mainPc = "shutOutput"
  /\ queue' = [queue EXCEPT ![Out] = Shutdown(@)]
  /\ MainGoto("joinOutput", 0)
  /\ UNCHANGED <<readerVars, pc, hand, running, fileVars, verdict>>

\* Wrong: does not wait for the output thread.
MutJoinOutput ==
  /\ mainPc = "joinOutput"
  /\ MainGoto("close", 0)
  /\ UNCHANGED <<readerVars, workVars, running, fileVars, verdict>>

JoinOutput ==
  /\ mainPc = "joinOutput"
  /\ pc[Out] = "done"
  /\ MainGoto("close", 0)
  /\ UNCHANGED <<readerVars, workVars, running, fileVars, verdict>>

CloseFile ==
  /\ mainPc = "close"
  /\ fileOpen' = FALSE
  /\ MainGoto("returnTrue", 0)
  /\ UNCHANGED <<readerVars, workVars, running, file, verdict>>

Main == \/ OpenOutput \/ StartOutput \/ StartWorker \/ StartReader \/ JoinReader
        \/ FlagWorker \/ ShutWorker \/ JoinWorker
        \/ ShutOutput \/ JoinOutput \/ CloseFile
-----------------------------------------------------------------------------
(***************************************************************************)
(* The reader thread                                                        *)
(***************************************************************************)

WriteFile(x) == file' = IF fileOpen THEN Append(file, x) ELSE file

\* Wrong: no header is written.
MutReaderOpen ==
  /\ readerPc = "open"
  /\ readerPc' \in {"read", "done"}
  /\ UNCHANGED <<mainVars, readerPos, workVars, running, fileVars, verdict>>

ReaderOpen ==
  /\ readerPc = "open"
  /\ \/ readerPc' = "read" /\ WriteFile(Header)
     \/ readerPc' = "done" /\ UNCHANGED file    \* cannot open input file
  /\ UNCHANGED <<mainVars, readerPos, workVars, running, fileOpen, verdict>>

\* A record that is not IP with TCP or UDP is skipped; any other becomes a job.
ReaderRead ==
  /\ readerPc = "read"
  /\ IF readerPos < NumPackets
     THEN /\ readerPos' = readerPos + 1
          /\ readerPc' = IF readerPos + 1 \in Counted THEN "push" ELSE "read"
     ELSE readerPc' = "done" /\ UNCHANGED readerPos
  /\ UNCHANGED <<mainVars, workVars, running, fileVars, verdict>>

ReaderPush ==
  /\ readerPc = "push"
  /\ PushReady(queue[LBOf(readerPos)], Capacity)
  /\ queue' = [queue EXCEPT ![LBOf(readerPos)] = Push(@, readerPos)]
  /\ readerPc' = "read"
  /\ UNCHANGED <<mainVars, readerPos, pc, hand, running, fileVars, verdict>>

Reader == ReaderOpen \/ ReaderRead \/ ReaderPush
-----------------------------------------------------------------------------
(***************************************************************************)
(* The LB and FP threads                                                    *)
(***************************************************************************)

Goto(t, to) == pc' = [pc EXCEPT ![t] = to]

\* Wrong: the loop runs while (running_).
MutWorkerCheck(w) ==
  /\ pc[w] = "check"
  /\ Goto(w, IF running[w] THEN "pop" ELSE "done")
  /\ UNCHANGED <<mainVars, readerVars, hand, queue, running, fileVars, verdict>>

\* The loop runs while (running_ || !input_queue_.empty()): two reads, not one.
WorkerCheck(w) ==
  /\ pc[w] = "check"
  /\ Goto(w, IF running[w] THEN "pop" ELSE "empty")
  /\ UNCHANGED <<mainVars, readerVars, hand, queue, running, fileVars, verdict>>

WorkerEmpty(w) ==
  /\ pc[w] = "empty"
  /\ Goto(w, IF IsEmpty(queue[w]) THEN "done" ELSE "pop")
  /\ UNCHANGED <<mainVars, readerVars, hand, queue, running, fileVars, verdict>>

WorkerPop(w) ==
  /\ pc[w] = "pop"
  /\ ~IsEmpty(queue[w])
  /\ hand' = [hand EXCEPT ![w] = Head(queue[w].items)]
  /\ queue' = [queue EXCEPT ![w] = Pop(@)]
  /\ Goto(w, IF w \in LBs THEN "push" ELSE "process")
  /\ UNCHANGED <<mainVars, readerVars, running, fileVars, verdict>>

\* popWithTimeout found nothing for 100 ms, or the queue is shut down.  (An idle
\* FP also cleans up its connection table, which has no part here.)
WorkerPopNothing(w) ==
  /\ pc[w] = "pop"
  /\ IsEmpty(queue[w])
  /\ Goto(w, "check")
  /\ UNCHANGED <<mainVars, readerVars, hand, queue, running, fileVars, verdict>>

\* processPacket, then handleOutput counts the packet and returns if it is dropped.
FPProcess(f) ==
  /\ pc[f] = "process"
  /\ \E action \in {"FORWARD", "DROP"} :
       /\ verdict' = [verdict EXCEPT ![hand[f]] = action]
       /\ IF action = "DROP"
          THEN Goto(f, "check") /\ hand' = [hand EXCEPT ![f] = None]
          ELSE Goto(f, "push") /\ UNCHANGED hand
  /\ UNCHANGED <<mainVars, readerVars, queue, running, fileVars>>

\* Wrong: tryPush with its result ignored.
MutWorkerPush(w) ==
  LET t == Target(w, hand[w])
  IN /\ pc[w] = "push"
     /\ queue' = IF Len(queue[t].items) < Capacity
                 THEN [queue EXCEPT ![t] = Push(@, hand[w])] ELSE queue
     /\ hand' = [hand EXCEPT ![w] = None]
     /\ Goto(w, "check")
     /\ UNCHANGED <<mainVars, readerVars, running, fileVars, verdict>>

WorkerPush(w) ==
  LET t == Target(w, hand[w])
  IN /\ pc[w] = "push"
     /\ PushReady(queue[t], Capacity)
     /\ queue' = [queue EXCEPT ![t] = Push(@, hand[w])]
     /\ hand' = [hand EXCEPT ![w] = None]
     /\ Goto(w, "check")
     /\ UNCHANGED <<mainVars, readerVars, running, fileVars, verdict>>

Worker(w) == \/ WorkerCheck(w) \/ WorkerEmpty(w)
             \/ WorkerPop(w) \/ WorkerPopNothing(w)
             \/ FPProcess(w) \/ WorkerPush(w)
-----------------------------------------------------------------------------
(***************************************************************************)
(* The output thread, DPIEngine::outputThreadFunc                           *)
(***************************************************************************)

OutPop ==
  /\ pc[Out] = "pop"
  /\ ~IsEmpty(queue[Out])
  /\ hand' = [hand EXCEPT ![Out] = Head(queue[Out].items)]
  /\ queue' = [queue EXCEPT ![Out] = Pop(@)]
  /\ Goto(Out, "write")
  /\ UNCHANGED <<mainVars, readerVars, running, fileVars, verdict>>

OutPopNothing ==
  /\ pc[Out] = "pop"
  /\ IsEmpty(queue[Out])
  /\ Goto(Out, "isShutdown")
  /\ UNCHANGED <<mainVars, readerVars, hand, queue, running, fileVars, verdict>>

OutWrite ==
  /\ pc[Out] = "write"
  /\ WriteFile(hand[Out])
  /\ hand' = [hand EXCEPT ![Out] = None]
  /\ Goto(Out, "pop")
  /\ UNCHANGED <<mainVars, readerVars, queue, running, fileOpen, verdict>>

\* Asked after the pop gave nothing: the queue may have been filled in between.
OutIsShutdown ==
  /\ pc[Out] = "isShutdown"
  /\ Goto(Out, IF queue[Out].shut THEN "done" ELSE "pop")
  /\ UNCHANGED <<mainVars, readerVars, hand, queue, running, fileVars, verdict>>

Output == OutPop \/ OutPopNothing \/ OutWrite \/ OutIsShutdown
-----------------------------------------------------------------------------
Returned == mainPc \in {"returnTrue", "returnFalse"}

\* processFile has returned; the program stops.
Terminating == Returned /\ UNCHANGED vars

Next == Main \/ Reader \/ (\E w \in Workers : Worker(w)) \/ Output \/ Terminating

\* The operating system runs every thread that can run; nothing more is needed
\* because the input is finite.
Fairness == /\ WF_vars(Main) /\ WF_vars(Reader) /\ WF_vars(Output)
            /\ \A w \in Workers : WF_vars(Worker(w))

Spec     == Init /\ [][Next]_vars
FairSpec == Spec /\ Fairness
-----------------------------------------------------------------------------
(***************************************************************************)
(* Properties                                                               *)
(***************************************************************************)

\* The packets thread t has queued or in hand.
Held(t) == {queue[t].items[i] : i \in DOMAIN queue[t].items} \cup ({hand[t]} \ {None})

\* Every five-tuple stays on one load balancer and one fast path: a packet is
\* only ever held by the workers its own hash selects, so no two FPs ever share a
\* flow, and each unlocked connection table is used by one thread.
FlowAffinity ==
  \A w \in Workers : \A p \in Held(w) :
    IF w \in LBs THEN LBOf(p) = w ELSE SelectFP(LBOf(p), p) = w

\* LBManager::getLBForPacket and LoadBalancer::selectFP reduce the same hash, so
\* with as many FPs per LB as LBs (the default is 2 and 2) LB l only ever feeds
\* the l-th of its FPs; the sample report in README.md:1065-1068 shows FP1 and FP2 at 0.
OffDiagonalIdle ==
  NumLBs = FpsPerLB =>
    \A l \in LBs : \A i \in 0..(FpsPerLB - 1) :
      i # l => Held(NumLBs + l * FpsPerLB + i) = {}

\* Shutdown order (dpi_engine.cpp:158-180): a queue is shut down only when every
\* thread that pushes to it has ended, so push() never discards a packet.
PushesReachOpenQueues ==
  /\ readerPc = "push" => ~queue[LBOf(readerPos)].shut
  /\ \A w \in Workers : pc[w] = "push" => ~queue[Target(w, hand[w])].shut

\* "Each stage drains its queue" (dpi_engine.cpp:221) for the LB and FP stages:
\* a worker that has ended left nothing behind, and nothing arrives afterwards.
WorkersDrain ==
  \A w \in Workers : pc[w] = "done" => IsEmpty(queue[w]) /\ hand[w] = None

\* The places a packet can be: with the reader, in a thread's hand, in a queue,
\* in the file, or dropped.
WithReader(p) == IF readerPc = "push" /\ readerPos = p THEN {<<"reader">>} ELSE {}
InHands(p)    == {<<"hand", t>> : t \in {u \in Threads : hand[u] = p}}
Queued(t, p)  == {<<"queue", t, i>> : i \in {j \in DOMAIN queue[t].items : queue[t].items[j] = p}}
InQueues(p)   == UNION {Queued(t, p) : t \in Threads}
Written(p)    == {<<"file", i>> : i \in {j \in DOMAIN file : file[j] = p}}
Dropped(p)    == IF verdict[p] = "DROP" THEN {<<"dropped">>} ELSE {}

Places(p) == WithReader(p) \cup InHands(p) \cup InQueues(p) \cup Written(p) \cup Dropped(p)

\* Every packet the reader has counted is in exactly one place: handing it over
\* neither loses nor duplicates it.
ExactlyOnePlace ==
  \A p \in Counted : p <= readerPos => Cardinality(Places(p)) = 1

\* The report adds up when processFile returns (dpi_engine.cpp:479-529 prints
\* total, forwarded and dropped): every counted packet got a verdict.
ReportAddsUp ==
  mainPc = "returnTrue" => \A p \in Counted : p <= readerPos => verdict[p] # "none"

\* The pcap global header is the first thing in the file and is there once,
\* although the reader writes it and the output thread writes the packets.
HeaderFirst == \A i \in DOMAIN file : file[i] = Header <=> i = 1

\* When processFile returns no thread it started is still alive, so the report
\* reads the unlocked connection tables alone and nobody writes to a closed file.
AllJoinedAtReturn ==
  Returned => /\ readerPc \in {"idle", "done"}
              /\ \A t \in Threads : pc[t] \in {"idle", "done"}

\* Seen from outside the threads are a packet filter: per-flow order, no packet
\* decided or written twice.  What is written is the file after its header.
Filter == INSTANCE PacketFilter
            WITH taken <- readerPos, out <- SubSeq(file, 2, Len(file))
FilterSpec == Filter!Spec

\* processFile always returns: no stage waits for ever on a full or an empty
\* queue, or on a thread that does not end.
Termination == <>Returned

\* "Each stage drains its queue" (dpi_engine.cpp:221) for the output stage, and
\* "Forwarded: packets written to output file" (README.md:1095): what was counted
\* as forwarded is in the file when processFile returns.
ForwardedIsWritten ==
  mainPc = "returnTrue" =>
    \A p \in Counted : verdict[p] = "FORWARD" => \E i \in DOMAIN file : file[i] = p

\* load_balancer.h:30-32 spreads the hashes of an LB's packets over all its FPs:
\* after an input whose flows take every combination, every FP has had work.
EveryFPUsed ==
  mainPc = "returnTrue" /\ readerPos = NumPackets =>
    \A f \in FPs : \E p \in Counted : verdict[p] # "none" /\ SelectFP(LBOf(p), p) = f
=============================================================================
