-------------------------------- MODULE DpiMt --------------------------------
(***************************************************************************)
(* src/src/dpi_mt.cpp, the engine in several threads: the main thread reads *)
(* the capture itself and hands each packet to an LB, the LB to an FP, the  *)
(* FP to the output thread, over queues of the same kind as                 *)
(* ThreadSafeQueue (module QueueOps).  Two things differ from the engine of *)
(* module DPIPipeline: LB and FP threads run while (running_), without      *)
(* looking at what is still queued, and the output thread runs until it is  *)
(* told to stop and its queue is empty.  An atomic step is one access to a  *)
(* queue, a flag or the file; counters and flow tables, which no other      *)
(* thread reads before the joins, change in the step they belong to.        *)
(***************************************************************************)
EXTENDS SequentialEngine, FiniteSets, QueueOps

CONSTANTS
  NumLBs, FPsPerLB,   \* --lbs and --fps
  Capacity,           \* max_size of every TSQueue, 10000 in the code
  Captures,           \* input files: sequences of packets
  Options,            \* command lines: sequences of words
  Hash                \* FiveTupleHash

ASSUME ThreadsAssumption == NumLBs \in Nat \ {0} /\ FPsPerLB \in Nat \ {0}
ASSUME CapacityAssumption == Capacity \in Nat \ {0}
ASSUME CapturesAssumption ==
  \A c \in Captures : c \in Seq(PacketType) /\ \A i \in DOMAIN c : WellFormed(c[i])
ASSUME HashAssumption ==
  \A c \in Captures : \A i \in DOMAIN c : HasFlow(c[i]) => Hash[c[i].tuple] \in Nat

\* The queue of an LB or FP has the thread's number, the output queue Out.
LBs     == 0..(NumLBs - 1)
FPs     == NumLBs..(NumLBs + NumLBs * FPsPerLB - 1)
Workers == LBs \cup FPs
Out     == NumLBs + NumLBs * FPsPerLB
Threads == Workers \cup {Out}

Header == 0    \* the file's global header; packets are positions in the capture
None   == 0    \* a thread holds no packet

VARIABLES
  rules, capture,          \* what this run was started with
  mainPc, mainIdx,         \* the main thread and the worker it starts or stops
  readPos,                 \* packets read
  pc, hand, queue,         \* per thread
  running,                 \* per worker running_, for Out output_running
  flows,                   \* per FP flows_
  stats,                   \* forwarded and dropped
  file                     \* what was written to the output

input    == <<rules, capture>>
mainVars == <<mainPc, mainIdx, readPos>>
workVars == <<pc, hand, queue>>
fpVars   == <<flows, stats>>
vars     == <<input, mainVars, workVars, running, fpVars, file>>

FlowType == [app_type : AppTypes, sni : Names \cup {""}, packets : Nat, blocked : BOOLEAN,
             classified : BOOLEAN]

Indices == {i \in DOMAIN capture : HasFlow(capture[i])}

TypeOK ==
  /\ mainPc \in {"openInput", "openOutput", "startWorker", "startOutput", "read", "push",
                 "flagWorker", "shutWorker", "joinWorker", "flagOutput", "shutOutput",
                 "joinOutput", "returnTrue", "returnFalse"}
  /\ mainIdx \in Workers
  /\ readPos \in 0..Len(capture)
  /\ pc \in [Threads -> {"idle", "check", "size", "pop", "process", "push", "write", "done"}]
  /\ hand \in [Threads -> Indices \cup {None}]
  /\ queue \in [Threads -> QueueType(Indices)]
  /\ \A t \in Threads : /\ Len(queue[t].items) <= Capacity
                        /\ (hand[t] # None) <=> pc[t] \in {"process", "push", "write"}
  /\ running \in [Threads -> BOOLEAN]
  /\ \A f \in FPs : \A t \in DOMAIN flows[f] : flows[f][t] \in FlowType
  /\ stats \in [forwarded : Nat, dropped : Nat]
  /\ file \in Seq(Indices \cup {Header})

Init ==
  /\ rules \in {RulesOf(args) : args \in Options}
  /\ capture \in Captures
  /\ mainPc = "openInput" /\ mainIdx = 0 /\ readPos = 0
  /\ pc = [t \in Threads |-> "idle"]
  /\ hand = [t \in Threads |-> None]
  /\ queue = [t \in Threads |-> NewQueue]
  /\ running = [t \in Threads |-> FALSE]
  /\ flows = [f \in FPs |-> [t \in {} |-> NewFlow]]
  /\ stats = [forwarded |-> 0, dropped |-> 0]
  /\ file = <<>>
-----------------------------------------------------------------------------
(***************************************************************************)
(* The main thread: DPIEngine::process                                      *)
(***************************************************************************)

MainGoto(to, i) == mainPc' = to /\ mainIdx' = i

OpenInput ==
  /\ mainPc = "openInput"
  /\ mainPc' \in {"openOutput", "returnFalse"}
  /\ UNCHANGED <<input, mainIdx, readPos, workVars, running, fpVars, file>>

\* The header is written at once, by this thread.
OpenOutput ==
  /\ mainPc = "openOutput"
  /\ \/ MainGoto("startWorker", NumLBs) /\ file' = <<Header>>
     \/ MainGoto("returnFalse", 0) /\ UNCHANGED file
  /\ UNCHANGED <<input, readPos, workVars, running, fpVars>>

\* The FPs first, then the LBs.
StartWorker ==
  /\ mainPc = "startWorker"
  /\ running' = [running EXCEPT ![mainIdx] = TRUE]
  /\ pc' = [pc EXCEPT ![mainIdx] = "check"]
  /\ IF mainIdx = NumLBs - 1
     THEN MainGoto("startOutput", 0)
     ELSE MainGoto("startWorker", (mainIdx + 1) % Out)
  /\ UNCHANGED <<input, readPos, hand, queue, fpVars, file>>

StartOutput ==
  /\ mainPc = "startOutput"
  /\ running' = [running EXCEPT ![Out] = TRUE]
  /\ pc' = [pc EXCEPT ![Out] = "check"]
  /\ MainGoto("read", 0)
  /\ UNCHANGED <<input, readPos, hand, queue, fpVars, file>>

\* After the last packet the thread sleeps for 500 ms, which guarantees nothing.
Read ==
  /\ mainPc = "read"
  /\ IF readPos < Len(capture)
     THEN /\ readPos' = readPos + 1
          /\ MainGoto(IF HasFlow(capture[readPos + 1]) THEN "push" ELSE "read", 0)
     ELSE MainGoto("flagWorker", 0) /\ UNCHANGED readPos
  /\ UNCHANGED <<input, workVars, running, fpVars, file>>

LBOf(i) == Hash[capture[i].tuple] % NumLBs

Dispatch ==
  LET lb == LBOf(readPos)
  IN /\ mainPc = "push"
     /\ PushReady(queue[lb], Capacity)
     /\ queue' = [queue EXCEPT ![lb] = Push(@, readPos)]
     /\ MainGoto("read", 0)
     /\ UNCHANGED <<input, readPos, pc, hand, running, fpVars, file>>

\* stop() of the LBs, then of the FPs: clear running_, shut the queue, join.
FlagWorker ==
  /\ mainPc = "flagWorker"
  /\ running' = [running EXCEPT ![mainIdx] = FALSE]
  /\ MainGoto("shutWorker", mainIdx)
  /\ UNCHANGED <<input, readPos, workVars, fpVars, file>>

ShutWorker ==
  /\ mainPc = "shutWorker"
  /\ queue' = [queue EXCEPT ![mainIdx] = Shutdown(@)]
  /\ MainGoto("joinWorker", mainIdx)
  /\ UNCHANGED <<input, readPos, pc, hand, running, fpVars, file>>

\* Wrong: the next worker is stopped before this one has finished.
MutJoinWorker ==
  /\ mainPc = "joinWorker"
  /\ IF mainIdx + 1 \in Workers
     THEN MainGoto("flagWorker", mainIdx + 1)
     ELSE MainGoto("flagOutput", 0)
  /\ UNCHANGED <<input, readPos, workVars, running, fpVars, file>>

JoinWorker ==
  /\ mainPc = "joinWorker"
  /\ pc[mainIdx] = "done"
  /\ IF mainIdx + 1 \in Workers
     THEN MainGoto("flagWorker", mainIdx + 1)
     ELSE MainGoto("flagOutput", 0)
  /\ UNCHANGED <<input, readPos, workVars, running, fpVars, file>>

\* Wrong: the output thread is never told to stop.
MutFlagOutput ==
  /\ mainPc = "flagOutput"
  /\ MainGoto("shutOutput", 0)
  /\ UNCHANGED <<input, readPos, workVars, running, fpVars, file>>

FlagOutput ==
  /\ mainPc = "flagOutput"
  /\ running' = [running EXCEPT ![Out] = FALSE]
  /\ MainGoto("shutOutput", 0)
  /\ UNCHANGED <<input, readPos, workVars, fpVars, file>>

ShutOutput ==
  /\ mainPc = "shutOutput"
  /\ queue' = [queue EXCEPT ![Out] = Shutdown(@)]
  /\ MainGoto("joinOutput", 0)
  /\ UNCHANGED <<input, readPos, pc, hand, running, fpVars, file>>

\* The file is closed and the report printed by this thread alone.
JoinOutput ==
  /\ mainPc = "joinOutput"
  /\ pc[Out] = "done"
  /\ MainGoto("returnTrue", 0)
  /\ UNCHANGED <<input, readPos, workVars, running, fpVars, file>>

Main == \/ OpenInput \/ OpenOutput \/ StartWorker \/ StartOutput \/ Read \/ Dispatch
        \/ FlagWorker \/ ShutWorker \/ JoinWorker \/ FlagOutput \/ ShutOutput \/ JoinOutput
-----------------------------------------------------------------------------
(***************************************************************************)
(* The LB, FP and output threads                                            *)
(***************************************************************************)

Goto(t, to) == pc' = [pc EXCEPT ![t] = to]

\* Wrong: the output thread, too, runs while its flag is set.
MutCheck(t) ==
  /\ pc[t] = "check"
  /\ Goto(t, IF running[t] THEN "pop" ELSE "done")
  /\ UNCHANGED <<input, mainVars, hand, queue, running, fpVars, file>>

\* while (running_), and while (output_running || size() > 0).
Check(t) ==
  /\ pc[t] = "check"
  /\ Goto(t, IF running[t] THEN "pop" ELSE IF t = Out THEN "size" ELSE "done")
  /\ UNCHANGED <<input, mainVars, hand, queue, running, fpVars, file>>

OutputSize ==
  /\ pc[Out] = "size"
  /\ Goto(Out, IF IsEmpty(queue[Out]) THEN "done" ELSE "pop")
  /\ UNCHANGED <<input, mainVars, hand, queue, running, fpVars, file>>

PopOne(t) ==
  /\ pc[t] = "pop" /\ ~IsEmpty(queue[t])
  /\ hand' = [hand EXCEPT ![t] = Head(queue[t].items)]
  /\ queue' = [queue EXCEPT ![t] = Pop(@)]
  /\ Goto(t, IF t \in LBs THEN "push" ELSE IF t \in FPs THEN "process" ELSE "write")
  /\ UNCHANGED <<input, mainVars, running, fpVars, file>>

\* pop() has waited in vain, or the queue is shut down and empty.
PopNothing(t) ==
  /\ pc[t] = "pop" /\ IsEmpty(queue[t])
  /\ Goto(t, "check")
  /\ UNCHANGED <<input, mainVars, hand, queue, running, fpVars, file>>

Classified(flow) == [flow EXCEPT !.classified = TRUE]

\* Wrong: the fallback by port ends the search for a name.
MutClassifyFlow(p, flow) ==
  IF p.tuple.dst_port = 443 /\ p.payload_length > 5 /\ p.hello # NoName
  THEN Classified(WithName(flow, p.hello))
  ELSE IF p.tuple.dst_port = 80 /\ p.payload_length > 10 /\ p.host # NoName
  THEN Classified(WithName(flow, p.host))
  ELSE IF IsDns(p) THEN Classified(WithApp(flow, "DNS"))
  ELSE Classified(ByServerPort(flow, p))

\* A fallback by port leaves the flow to be classified by a later packet.
ClassifyFlow(p, flow) ==
  IF p.tuple.dst_port = 443 /\ p.payload_length > 5 /\ p.hello # NoName
  THEN Classified(WithName(flow, p.hello))
  ELSE IF p.tuple.dst_port = 80 /\ p.payload_length > 10 /\ p.host # NoName
  THEN Classified(WithName(flow, p.host))
  ELSE IF IsDns(p) THEN Classified(WithApp(flow, "DNS"))
  ELSE ByServerPort(flow, p)

NewFlowEntry ==
  [app_type |-> "Unknown", sni |-> "", packets |-> 0, blocked |-> FALSE, classified |-> FALSE]

EntryOf(f, t) == IF t \in DOMAIN flows[f] THEN flows[f][t] ELSE NewFlowEntry

\* The flow of packet p in FP f after p.
FlowAfter(f, p) ==
  LET counted == [EntryOf(f, p.tuple) EXCEPT !.packets = @ + 1]
      flow    == IF counted.classified THEN counted ELSE ClassifyFlow(p, counted)
  IN [flow EXCEPT !.blocked = @ \/ IsBlocked(rules, p.tuple.src_ip, flow.app_type, flow.sni)]

Process(f) ==
  LET p    == capture[hand[f]]
      flow == FlowAfter(f, p)
  IN /\ pc[f] = "process"
     /\ flows' = [flows EXCEPT ![f] = WithFlow(@, p.tuple, flow)]
     /\ IF flow.blocked
        THEN /\ stats' = [stats EXCEPT !.dropped = @ + 1]
             /\ hand' = [hand EXCEPT ![f] = None]
             /\ Goto(f, "check")
        ELSE /\ stats' = [stats EXCEPT !.forwarded = @ + 1]
             /\ Goto(f, "push")
             /\ UNCHANGED hand
     /\ UNCHANGED <<input, mainVars, queue, running, file>>

\* Wrong: the packets go to the FPs in turn.
MutTarget(w, i) == IF w \in LBs THEN NumLBs + w * FPsPerLB + (i % FPsPerLB) ELSE Out

\* An LB selects one of its own FPs; an FP pushes to the output queue.
Target(w, i) ==
  IF w \in LBs THEN NumLBs + w * FPsPerLB + (Hash[capture[i].tuple] % FPsPerLB) ELSE Out

\* Wrong: does not wait for room.
MutHandOn(w) ==
  LET t == Target(w, hand[w])
  IN /\ pc[w] = "push"
     /\ queue' = [queue EXCEPT ![t] = Push(@, hand[w])]
     /\ hand' = [hand EXCEPT ![w] = None]
     /\ Goto(w, "check")
     /\ UNCHANGED <<input, mainVars, running, fpVars, file>>

HandOn(w) ==
  LET t == Target(w, hand[w])
  IN /\ pc[w] = "push"
     /\ PushReady(queue[t], Capacity)
     /\ queue' = [queue EXCEPT ![t] = Push(@, hand[w])]
     /\ hand' = [hand EXCEPT ![w] = None]
     /\ Goto(w, "check")
     /\ UNCHANGED <<input, mainVars, running, fpVars, file>>

Write ==
  /\ pc[Out] = "write"
  /\ file' = Append(file, hand[Out])
  /\ hand' = [hand EXCEPT ![Out] = None]
  /\ Goto(Out, "check")
  /\ UNCHANGED <<input, mainVars, queue, running, fpVars>>

Worker(w) == Check(w) \/ PopOne(w) \/ PopNothing(w) \/ HandOn(w)

FP(f) == Worker(f) \/ Process(f)

Output == Check(Out) \/ OutputSize \/ PopOne(Out) \/ PopNothing(Out) \/ Write

Returned == mainPc \in {"returnTrue", "returnFalse"}

Terminating == Returned /\ UNCHANGED vars

Next == \/ Main
        \/ \E w \in LBs : Worker(w)
        \/ \E f \in FPs : FP(f)
        \/ Output
        \/ Terminating

Spec == Init /\ [][Next]_vars

\* Every thread is scheduled again and again.
Fairness == /\ WF_vars(Main)
            /\ \A w \in LBs : WF_vars(Worker(w))
            /\ \A f \in FPs : WF_vars(FP(f))
            /\ WF_vars(Output)

FairSpec == Spec /\ Fairness
-----------------------------------------------------------------------------
(***************************************************************************)
(* Properties                                                               *)
(***************************************************************************)

Elements(q) == {q[i] : i \in DOMAIN q}

Queued(S) == UNION {Elements(queue[t].items) : t \in S}

Held(S) == {hand[t] : t \in S} \ {None}

\* Packets let through: in the file, with the output thread or on the way to it.
LetThrough ==
  (Elements(file) \ {Header}) \cup Queued({Out}) \cup Held({Out})
    \cup {hand[f] : f \in {g \in FPs : pc[g] = "push"}}

\* Packets whose processing has not begun.
Waiting == Queued(Workers) \cup Held(LBs) \cup {hand[f] : f \in {g \in FPs : pc[g] = "process"}}
             \cup (IF mainPc = "push" THEN {readPos} ELSE {})

\* The packets of the capture read so far that are IP with TCP or UDP.
ReadSoFar == {i \in Indices : i <= readPos}

\* What main_working.cpp makes of the packets read so far.
Sequential == SequentialRun(rules, capture)[readPos]

\* A name that both engines take the same way: main_working.cpp looks for names in
\* TCP only, and goes on to the port, and to the next packet, when the name is empty.
SeenAlike(p) ==
  LET found == {p.hello, p.host} \ {NoName}
  IN "" \notin found /\ (found # {} => p.tuple.protocol = "TCP")

\* The engine in several threads decides as the engine in one thread, unless it met
\* an empty name or a name outside TCP: what it lets through is what main_working.cpp
\* writes for the same packets, what it has decided to drop main_working.cpp drops
\* too, and the flow of a tuple all of whose packets are processed is the one
\* main_working.cpp has for it (FastPath::run and classifyFlow against the loop of
\* main()).
SameAsSequential ==
  (\A i \in ReadSoFar : SeenAlike(capture[i])) =>
  /\ LetThrough \subseteq Elements(Sequential.output)
  /\ ReadSoFar \ (LetThrough \cup Waiting) \subseteq ReadSoFar \ Elements(Sequential.output)
  /\ \A f \in FPs : \A t \in DOMAIN flows[f] :
       (\A i \in Waiting : capture[i].tuple # t) =>
         \A field \in {"app_type", "sni", "packets", "blocked"} :
           flows[f][t][field] = Sequential.flows[t][field]

\* Packets of one flow are written in the order in which they were read, whichever
\* threads they went through (hash to one LB and one FP, queues first in first out).
FlowOrderKept ==
  \A i, j \in DOMAIN file :
    i < j /\ i # 1 /\ capture[file[i]].tuple = capture[file[j]].tuple => file[i] < file[j]

\* Nothing vanishes between the threads: a packet read is waiting, was dropped or was
\* let through, and only once; at the return what waits is in the queue of an
\* LB or FP that was stopped before it got there.  So the LBs must be joined before
\* the FPs are shut down (process(), lines 505-506).
NothingVanishes ==
  /\ Waiting \cap LetThrough = {}
  /\ Cardinality(ReadSoFar) = stats.forwarded + stats.dropped + Cardinality(Waiting)
  /\ stats.forwarded = Cardinality(LetThrough)
  /\ mainPc = "returnTrue" => Waiting = Queued(Workers)

\* When process() returns true every packet counted as forwarded is in the file, which
\* starts with its header, and the threads are done (the output thread runs while
\* (output_running || size() > 0), lines 416 and 508-510).
ForwardedIsWritten ==
  mainPc = "returnTrue" =>
    /\ Len(file) = stats.forwarded + 1 /\ file[1] = Header
    /\ \A t \in Threads : pc[t] = "done"

\* process() returns, however slow the threads are and however small the queues.
Termination == <>Returned
=============================================================================
