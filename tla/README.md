# DPI engine: specifications, model checking and proofs

TLA+ modules for the multi-threaded deep packet inspection engine of this
repository (`src/`, `include/`, built by `CMakeLists.txt` as `dpi_engine`), with
TLC runs on small instances and TLAPS proofs for every instance. Paths below are
relative to the repository root.

## 1. The system

```
 reader ──► LB queues ──► LB threads ──► FP queues ──► FP threads ──► output queue ──► output thread
   ▲                                                       │                              │
 input.pcap                                        rules, connection table           output.pcap
```

The main thread (`DPIEngine::processFile`) opens the output file, starts the
output thread, the fast paths (FPs), the load balancers (LBs) and the reader,
joins the reader, and then stops LBs, FPs and the output thread one after the
other. A second layer (Spring API, React dashboard) runs the engine as a process
and shows its JSON report.

| Component | State | Operations | Talks to | Hard behaviour | What makes it correct |
|---|---|---|---|---|---|
| `ThreadSafeQueue` | item queue, `shutdown_`, mutex, `not_empty_`, `not_full_` | `push`, `tryPush`, `pop`, `popWithTimeout`, `empty`, `isShutdown`, `shutdown` | every pair of stages | waiting with `notify_one`, timeouts, spurious wakeups, shutdown while threads wait | bounded FIFO; no lost wakeup; each call is atomic; shutdown wakes all |
| `LoadBalancer`, `LBManager` | `running_`, input queue | `start`, `stop`, `run`, `selectFP`, `getLBForPacket` | reader → LB → FP queues | stop racing the loop condition, back-pressure | a flow stays on one LB and FP; the queue is drained before the thread ends |
| `FastPathProcessor`, `FPManager` | `running_`, input queue, its connection table | `start`, `stop`, `run`, `processPacket` (TCP state, inspection, rules) | output callback, rule manager | rules changing between the reads of `shouldBlock`; order of the TCP state, the blocked test and the inspection | a rule that stands is obeyed; blocked flows are dropped |
| `ConnectionTracker` | table of connections, counters | `getOrCreateConnection`, `updateConnection`, `classifyConnection`, `blockConnection`, `cleanupStale`, `evictOldest` | its FP only (no lock) | eviction and cleanup forget decisions; a pointer into the table is kept across calls | bounded; one FP per flow; no dangling entry |
| `RuleManager` | four tables, a mutex each | `block*`, `unblock*`, `is*Blocked`, `shouldBlock`, `saveRules`, `loadRules` | FPs, API callers | a check spans four critical sections | a standing rule matches; none invented |
| `DPIEngine` | threads, output file, totals | `initialize`, `start`, `stop`, `processFile`, reader, output, `handleOutput`, reports | all of the above | shutdown order; the output thread's last look at its queue; a second `processFile` | every packet ends in exactly one place; totals add up; no thread outlives the call |
| `PcapReader`, `PacketParser`, `createPacketJob` | file position, byte order | `open`, `readNextPacket`, `parse*` | reader thread | truncated and byte-swapped files; offsets computed twice | offsets stay inside the packet and agree; what is written can be read |
| extractors, `sniToAppType` | none | `SNIExtractor`, `HTTPHostExtractor`, `DNSExtractor`, QUIC | `inspectPayload` | lengths taken from the packet, loops over them | reads stay inside the packet; names come from the payload; every walk ends |
| reports | one JSON file | text and JSON | after all threads have ended | reads unlocked tables; a file half written | nothing else runs (`AllJoinedAtReturn`); the totals add up |
| `main_dpi` | options | parse, load and set rules, run, report | engine | a file of rules next to options; a bad file | every rule asked for is in force, no other |
| `main_working.cpp`, `dpi_mt.cpp` | flow table; the same per FP, queues | the engine in one thread; in several | – | `dpi_mt.cpp` stops its stages after a fixed sleep | same decisions, order kept, nothing vanishes unseen |
| `main.cpp`, `main_simple.cpp` | – | print what the parser finds | – | – | – |
| Spring API, dashboard | one output, one report and one log file | `runAnalysis`, `getLatestReport`, fetches | engine process | concurrent requests, engines that hang, late answers | a success carries the report of its own run; every request is answered |

The hazards, each at its line and with the properties aimed at it, are in
`PROJECT.json`.

## 2. Modules

| Module | Models | State and actions |
|---|---|---|
| `QueueOps` | the effect of each queue operation under the mutex | operators on a record of items and shutdown flag |
| `QueueOpsProofs` | lemmas about `QueueOps` | – |
| `BoundedQueue` | abstract: what a queue promises | a call, its one effect, its result |
| `ThreadSafeQueue` | `include/thread_safe_queue.h` | `st` says whether a thread is about to lock, waits on its condition variable, or timed out; a step is the code from one lock to the next wait or unlock |
| `ThreadSafeQueueProofs` | theorems about `ThreadSafeQueue`, its refinement of `BoundedQueue` among them | – |
| `PacketFilter` | abstract: what the engine does to a capture | take, decide, write, in order within each flow |
| `DPIPipeline` | the threads of `processFile` | see below |
| `DPIPipelineProofs` | theorems about `DPIPipeline`: types, shutdown, paths, totals, where each packet is, and that it implements `PacketFilter` | – |
| `FastPath` | `processPacket`, connection tracker, rule checks | `Take` is `processPacket` up to the rules, `Block` and `Pass` one table of `shouldBlock`, `CleanupStale` the idle branch of `run`, `BlockRule`/`UnblockRule` other threads |
| `FastPathProofs` | theorems about `FastPath` | – |
| `PacketWalk` | one packet after another from the input file through `PcapReader`, `PacketParser`, `createPacketJob`, `inspectPayload` with the three extractors, to the output file | a step per header, length or label; see below |
| `PacketWalkProofs` | theorems about `PacketWalk` | – |
| `SequentialEngine` | `main_working.cpp` | what the first n packets of a capture leave, a recursive function of n |
| `DpiMt` | `dpi_mt.cpp`, extends `SequentialEngine` to be compared with it | the threads of `process()`, queues as in `QueueOps` |
| `DpiMtProofs` | theorems about `DpiMt` | – |
| `RuleStore` | `RuleManager` as a value, the lines of its file | operators |
| `CommandLine` | `main_dpi.cpp`: the words of a command line read one after the other, and the rules they set | operators, recursive functions of the number of words and of rules; extends `RuleStore` |
| `RulePersistence` | save in one engine, start of the next | calls of the rule API, `clearAll` and `saveRules` table by table; `main()` of the next engine word by word, line by line and rule by rule |
| `RulePersistenceProofs` | theorems about `RulePersistence` | – |
| `AnalysisService` | `AnalyzerService.java`, `AnalysisController.java`, `app.js` and their engine processes | see below |
| `AnalysisServiceProofs` | theorems about `AnalysisService` | – |
| `MC...` | instances of the modules for TLC | – |

`DPIPipeline` and `DpiMt` use the atomic operations of `QueueOps`; the run `Queue`
is the reason they may: the queue with its mutex and condition variables
implements `BoundedQueue`, whose effects are those operations.

**DPIPipeline and the code.** `LoadBalancer::run` and `FastPathProcessor::run`
are the same loop, so both are workers, numbered in the order in which `stop()`
stops them: LBs from 0, then FPs, then the output thread `Out`. `pc[t]` says where
thread `t` is: `check` and `empty` are the two reads of the loop condition
`running_ || !input_queue_.empty()`, `pop` is `popWithTimeout`, `process` is
`processPacket` with its verdict left open, `push` is the call that may block;
`write` and `isShutdown` belong to the output thread. `mainPc` walks through
`processFile`, `start`, `waitForCompletion` and `stop`; `mainIdx` is the worker
its loops are at. A timeout is possible whenever a queue is empty, because the
model has no clock: the reader may be delayed for any time. A packet is its
position in the file and its only data is its five-tuple.

**FastPath and the code.** A five-tuple is a record without `dst_ip`. `last_seen`
is the number of the packet that was seen last, so `evictOldest` is the least of
them and what is older than 300 s is a set of those last seen up to some packet.
A payload is what the extractors find in it: a TLS name, an HTTP Host, a DNS
query, other data or nothing. `sniToAppType` is a constant map. A domain rule is
the set of names its pattern covers. `held`, `during` and `dropped` are history
variables: rules in force ever since the packet was taken, for each flow the rules in
force at some moment while its last packet was checked (kept while the flow is
blocked), and flows that had a packet dropped. Rule changes from other threads are
possible because the engine's rule API may be called during `processFile`;
`main_dpi` itself sets rules only before.

**PacketWalk and the code.** A packet is its length; the value of a byte is chosen
when it is read, from small sets that hold every boundary (`Bytes`, `Words`,
`Nibbles`). A byte read twice must give the same value: `lengths` keeps what the
parser saw of the two header lengths, because `createPacketJob` reads them again.
`at` says which read comes next, `read` which bytes of the frame the last step has
looked at, `name` where a name was found and how long it is. A search for a
`Host:` value is one step, with a bound on the blanks and the line
(`MaxBlanks`, `MaxLine`). Of the global header the model keeps whether its magic
number, and whether its other fields, are in this machine's byte order.

**DpiMt and SequentialEngine.** The five-tuple, the length of the payload and the
names in it are given; flows, decisions and output follow from them. An extractor
returns a name, which may be the empty one (a server name of length 0, `Host: :80`),
or none (`NoName`). The two programs are compared at every state, not only at the
end: see `SameAsSequential`. They do differ on an empty name and on a name outside
TCP: `classifyFlow` of `dpi_mt.cpp` takes both, `main_working.cpp` looks for names in
TCP only and goes on to the port, and to the next packet, when a name is empty.
`SeenAlike` says so of a packet, and the comparison is made as long as every packet
read is such a packet. One of the captures is not.

**RulePersistence and the code.** A step of the first engine is what one mutex guards;
`engine.status` says what `main()` of the second does next: read a word of its command
line (`options`), a line of the rules file (`loading`), set a rule of the command line
(`setting`), or how it ended. Rules are given
and written as texts: `10.256.0.1` is stored as `10.0.1.1` and comes back as such,
as in `parseIP`. `standing` and `ever` are history variables: rules in force all
through the save, and at some moment of it.

**AnalysisService and the code.** `thread` follows the lines of `runAnalysis`,
`process` the engine it started: working, the report opened (and by that emptied),
half written, ended. A report is who wrote its beginning and who its end; an engine
that writes over a longer report leaves the end of that behind its own. Each write of it
may fail, with some of it in the file or none. `saveJsonReport` asks `file.good()` before
the stream is closed (`src/dpi_engine.cpp:659`), so the last write, of all of a report
that fits the buffer, fails unseen: the engine ends with status 0 (`unflushed`), the
service reads what is there, and an empty file is a null report in an answer that says
success. `SuccessIsOwn` names this outcome as the one exception; half a report is never
accepted. `StartEngine` fails before the log is opened or after, when the log has
been emptied, possibly under another engine that writes into it. `alone`
is a history variable: requests whose engine no other engine has run beside.
`RequestedBy` is the set of rules a body asks for, read off the body and not off the
command line that is built from it: a host name `--block-app` in a body is a host
name, and that the engine takes it for one is part of what `SuccessIsOwn` says.

**Behaviours of the code worth knowing**, which the models keep: Ethernet padding
counts as payload; the TLS walk is bounded by the packet, not by the record it is
in; `Host` is searched as a substring, so that `X-Forwarded-Host:` is taken when it
comes first, and `Host: :80` gives an empty name; an address with a number above
255 blocks another address; a connection is `CLASSIFIED` by its port at the first
payload without a name, and a later ClientHello is not looked at, where both
demo engines would look; `unblockDomain` undoes one of several
`blockDomain` calls with the same pattern; a log that is not UTF-8 makes
`runAnalysis` return before it kills an engine that timed out; a start that fails empties
the log of a request that is being served; a report whose last write failed is answered
with success and no report; `shutdown_` of a queue is never reset and `initialize()` runs
once, so a second `processFile` on the same `DPIEngine` would count its packets and drop
them at the first push (`main_dpi` calls it once, and the models do).

## 3. Runs

| Run | Instance | Question | Result |
|---|---|---|---|
| `PipelineTwoLBs` | 2 LBs × 1 FP, queues of 1, packets a a b, fair | are packets handed over and threads stopped without loss, in any interleaving, and does `processFile` return? | passes, 54k states |
| `PipelineGrid` | 2 LBs × 2 FPs, queues of 2, a b – a | do flows keep their FP and their order, and which FPs get work? | passes, 270k states |
| `PipelineDrain` | as `PipelineTwoLBs` | is what was forwarded in the file? | **violated** |
| `PipelineSpread` | 2 × 2, queues of 1, a b c d with hashes 0..3 | does every FP get work when every hash occurs? | **violated** |
| `Queue` | 2 producers, 2 consumers, 4 items, capacity 2, fair | no lost wakeup, each call atomic; do blocked pushes return and queues drain? | passes, 144k states |
| `FastPathRules` | 3 flows, table of 2, 4 rules, 3 packets out of 14, 1 rule change | are standing rules obeyed and blocks justified? | passes, 1.8M states |
| `FastPathBlocked` | the same, rules fixed | are all later packets of a blocked flow dropped? | **violated** |
| `PacketWalk` | frames from 13 to 119 bytes, lengths around every boundary, fair | is every read inside, do the offsets agree, where do names come from, does every walk end, is the output of a capture in this byte order a capture? | passes, 152k states |
| `PacketOutput` | the same | is the output a capture that can be read back? | **violated** |
| `DpiMt` | 2 LBs × 2 FPs, queues of 1, 4 captures of 2 or 3 packets, 2 option lists, fair | does it decide as one thread does; what is lost at the stop? | passes, 268k states |
| `RulePersistence` | rules of four kinds, 3 API calls, 10 command lines, with and without an old file | does the next engine have the rules that were saved and asked for? | passes, 433k states |
| `AnalysisService` | a request from the dashboard and another, fair | what can a success carry, is every request answered? | passes, 131k states |

**Properties worth reading first.** `ExactlyOnePlace` (no packet is lost or
duplicated between threads), `WorkersDrain` and `PushesReachOpenQueues` (the
two halves of a clean shutdown), `FilterSpec` (seen from outside the threads are a
filter that keeps per-flow order), `NoLostWakeup` (with `notify_one`, every item
has an awake consumer as long as any consumer sleeps), `StandingRuleDrops`
(although `shouldBlock` reads four tables in four critical sections, a rule that
stood throughout is obeyed), `BlockedUntilClosed`, `ReadsInside` (each of the
bounds in the parser and the extractors is needed and none is missing),
`SameAsSequential` (at every moment, what several threads have let through and
dropped is what one thread would have, as long as no name is empty or outside TCP),
`NothingVanishes` (`dpi_mt.cpp` does lose
packets when it stops, but only those still in the queue of a stopped worker),
`SavedRulesReload` (a file saved while rules change is a mixture no moment had, and
still has every standing rule and none that never was) and `SuccessIsOwn`.

**Bounds.** Queues of one and two make every queue fill up with three packets,
where the code has 10000; blocking and waiting depend only on full, empty and in
between. Two LBs or two FPs are the fewest that can reorder or misroute. Two
packets of one flow are the fewest with an order to keep, and one of another flow
the fewest that overtakes. `MaxPackets = 3` with a table of two is the fewest that
evicts, and lets the evicted connection have been blocked; one rule change covers
a rule set or lifted at any point of a packet. `fresh` in `ThreadSafeQueue` bounds
the pushes of a run to the items.

`PacketWalk` has frames one byte short of and just at each header, and payloads
around the 9, 12 and 50 bytes the code asks for; the theorems of section 4
do without these bounds. The captures of `DpiMt`: a flow whose name comes after
its first packet, with another flow in between; two flows of which either may be
blocked; a packet without a flow before a flow that is blocked by its name; an empty
`Host` before a `Host` that names somebody, where the two programs part. With
queues of one, three packets fill a path of two queues. Three calls of
the rule API fit a rule set before, lifted or replaced during and after a save.
Two requests are enough for one to run before, inside, across the end of, or after
another; the report file has two halves, the fewest that can be mixed.

**Fairness.** `DPIPipeline` assumes that the operating system runs every thread
that can run (weak fairness per thread). Strong fairness is not needed: while a
producer is blocked its consumer is the only one taking from the queue, and only
finitely many packets can overtake it. `ThreadSafeQueue` assumes that the mutex is not withheld from a
caller for ever and that consumers call again, as the loops do; it assumes no
timeout and no spurious wakeup. `PacketWalk` assumes that the thread which has the
packet runs, `DpiMt` that every thread does. `AnalysisService` assumes that the
server runs its threads, that a kill arrives and that an answer is delivered; it
assumes nothing of an engine.

### What the violations show

* `PipelineDrain`: the output thread's pop times out, an FP pushes its last packet,
  all FPs are joined, `stop()` shuts the output queue down, and the output thread
  asks `isShutdown()` and ends (`src/dpi_engine.cpp:361`). The packet was counted
  as forwarded and is not in the file. The comment at line 221 says each stage
  drains its queue; LBs and FPs do (`WorkersDrain`), the output stage does not.
* `PipelineSpread`: both levels reduce the same hash (`src/load_balancer.cpp:75,132`),
  so with 2 × 2 half the FPs never work, as the repository's own sample report
  shows; `include/load_balancer.h:31-32` describes a spread over all.
* `FastPathBlocked`: RST, or FIN with ACK, moves a blocked connection to `CLOSED`
  before the blocked test (`src/fast_path.cpp:137-145`); with data in it the packet is
  classified again by its port alone and forwarded.
  For the same reason a closed connection can become `CLASSIFIED` once more, against the
  order in `include/connection_tracker.h:21`.
* `PacketOutput`: of a capture in the other byte order `open()` keeps the magic number
  and swaps the other fields (`src/pcap_reader.cpp:38-43`); `writeOutputHeader` writes
  that header as it is and the packet headers follow in this machine's order, so a
  reader swaps what is already in order. `main_dpi.cpp:21` calls it a PCAP file.
  `NativeReadsBack` is what does hold.

## 4. Proofs

Each theorem holds for every value of the constants, from the assumptions named
with it. `PROJECT.json` lists them. Except for the liveness properties, every property
of a passing run is one of them.

### The queue

`QueueOpsProofs` says what each operation of `QueueOps` does to a queue of any
length: to its type, to the set of its items and to their positions. All proofs
about queues cite it. `ThreadSafeQueueProofs` proves, for any finite disjoint sets of
producers and consumers, any items and any capacity above zero
(`FiniteThreadsAssumption`, `RolesAssumption`, `CapacityAssumption`):

| Theorem | Property |
|---|---|
| `TypeCorrect` | `TypeOK` |
| `NoWakeupIsLost` | `NoLostWakeup` |
| `ImplementsBoundedQueue` | `AbstractSpec`: the calls, the results and the queue of `ThreadSafeQueue` behave as `BoundedQueue` says |

`NoLostWakeup` needs besides the types only `Calls`: which call a thread is in
(nobody but a pushing producer waits for room, only `popWithTimeout` times out). It
is a statement about cardinalities, of the consumers awake against the items and of
the pushing producers awake against the free slots, and the proof counts for each
step how many threads it wakes, puts to sleep or lets go. The one delicate step is a
notified thread that takes the mutex after another has emptied the queue: it sleeps
again only when nothing is there. For the refinement every step is a call, an effect,
a return or a stutter of `BoundedQueue`; waiting, waking and a timeout that fires are
stutters, and the effect of a call that timed out comes when it has the mutex back.

### The pipeline

`DPIPipelineProofs` proves, for any number of LBs, FPs and packets, any queue bound,
any flows and any hash, from the assumptions `ThreadsAssumption` (counts above zero,
`parsePositiveInt` in `main_dpi.cpp`), `CapacityAssumption` and `InputAssumption`:

| Theorem | Property |
|---|---|
| `TypeCorrect` | `TypeOK` |
| `ShutdownOrder` | `PushesReachOpenQueues` |
| `WorkersAreDrained` | `WorkersDrain` |
| `NoThreadLeft` | `AllJoinedAtReturn` |
| `FlowStaysOnItsPath` | `FlowAffinity` |
| `DiagonalOnly` | `OffDiagonalIdle` |
| `TotalsAgree` | `ReportAddsUp` |
| `HeaderIsFirst` | `HeaderFirst` |
| `OnePlaceEach` | `ExactlyOnePlace` |
| `ImplementsPacketFilter` | `FilterSpec` |

The argument has layers, each an inductive invariant on top of the one before:

1. `IInv0 = TypeOK /\ HandInv /\ QuietStart`. Types alone are not inductive: that
   what is pushed is a packet rests on which threads hold one (`HandInv`), and that
   a starting thread holds none rests on nothing moving before the reader starts.
2. `SInv` adds `StopOrder`, `Ends` and `WorkersDrain`: the main thread reaches
   worker `w` only when all that push to it have ended, hence no push meets a queue
   that is shut down, and a worker that found `running_` clear and its queue empty
   gets nothing any more. The two need each other. `AllJoinedAtReturn` follows.
3. `FlowAffinity` is inductive over `SInv`: what a thread newly holds was pushed to
   it by the owner of the previous stage (`NewlyHeld`). `DiagonalOnly` then is
   arithmetic: an FP number determines the LB and the index in its group
   (`PairUnique`).
4. `Tracked`: a counted packet without a verdict is with the reader or held by a
   worker. At the return no worker holds anything, so all have verdicts.
5. `FileInv`: until the header is written nothing is in the pipeline.
6. `PlaceInv`. A thread has slots: its hand is slot 0,
   slot i the i-th packet of its queue. Every step is one of few moves (`Enters`,
   `Pops`, `Passes`, `Drops`, `Forwards`, `Writes`, `Empties`, `Rests`), one lemma per
   action says which, and the invariant is kept by each move: a packet is in one slot
   at most, one in a slot has the verdict that goes with the slot, one in no slot is
   with the reader, dropped, in the file or lost at a stage that has ended.
   `ExactlyOnePlace` restates it with sets.
7. `OInv` adds order: of one flow, what is nearer the output was read earlier
   (`SlotOrder`), was decided earlier and is written earlier. It needs `FlowAffinity`:
   only because a flow has one LB and one FP do its packets queue behind each other.
8. `ImplementsPacketFilter` maps each move to a step of `PacketFilter` or a stutter;
   that the step may be taken there, in the order of the flow, is `OInv`.

### The fast path

`FastPathProofs` proves, for any flows, names, rules, packets and size of the table:

| Theorem | Property |
|---|---|
| `TypeCorrect` | `TypeOK` |
| `TableStaysBounded` | `TableBounded` |
| `StandingRulesDrop` | `StandingRuleDrops` |
| `BlocksHaveReasons` | `BlockedForAReason` |
| `CountsAgree` | `CountersAgree` |
| `BlockedStaysBlocked` | `BlockedUntilClosed`, an action property |

The inductive invariant `IInv` is a conjunction. `RuleInv` is what
`StandingRuleDrops` lacks: `shouldBlock` has its tables in an order, and between two of its
reads no rule that has stood since the packet was taken matches in a table that was
already asked. While rules are asked for a flow, those in force are among the ones noted in
`during`, and the flow is not blocked yet: that is where a block has its reason from.
`CountInv` bounds the connections seen and classified by the packets
processed, which the types need. `TableInv` includes that the table is finite:
then a connection seen first exists, because a set of numbers has a least member
(`LeastMember`, from the well-foundedness of `<`), and `evictOldest` makes room.

### The walk over a packet

`PacketWalkProofs` proves, for any packet lengths, any values of the bytes (the
sets of lengths are arbitrary sets of naturals; header lengths are four bits wide,
`FieldsAssumption`) and any bounds:

| Theorem | Property |
|---|---|
| `TypeCorrect` | `TypeOK` |
| `ReadsStayInside` | `ReadsInside` |
| `JobHasTheParsersPayload` | `OffsetsAgree` |
| `NamesComeFromThePayload` | `NameInPayload` |
| `NativeOutputReadsBack` | `NativeReadsBack` |
| `EveryRoundAdvances` | the safety part of `WalkEnds`: no round of a loop leaves the offset where it was |

No bound is inductive by itself. The invariant `Inv` adds what each position of the
walk knows: between the parser and the job, that both headers fit and the offset
is the sum of what was passed over; in an extractor, that the payload is not
empty and ends where the packet ends, how far `limit` may reach, and in the DNS loop
that the name so far is no longer than the labels passed. Every action has a lemma that it
keeps `Inv`. `Capture` adds what a record that has been read says of the file's
header, for the output.

### The demo engines

`DpiMtProofs` proves, for any number of LBs and FPs, any capacity, any hash, any set of
captures and any command lines:

| Theorem | Property |
|---|---|
| `TypeCorrect` | `TypeOK` |
| `ForwardedGetsWritten` | `ForwardedIsWritten` |
| `FlowsStayInOrder` | `FlowOrderKept` |
| `PacketsAccountedFor` | `NothingVanishes` |
| `DecidesAsSequential` | `SameAsSequential` |

1. `TInv`: types, roles of the threads, and quiet before the first packet is read.
   `StopOrder`: who has been joined at which point of the stop, and that a joined
   thread has ended.
2. `CountInv`: the number forwarded is the number of packets about to be pushed to the
   output, in its queue, in its hand and in the file. The output thread is told to stop
   after the FPs are joined and looks at its queue again, so at the return the first
   three are empty. `DPIPipeline` cannot have that (`PipelineDrain`).
3. `OrderInv`: slots and moves as in the pipeline, with one order of places for all
   threads, since their numbers grow from LB to FP to output.
4. `Waits` and `Through` read off the slots what waits and what was let through;
   together with a count of what was dropped they are `NothingVanishes`.
5. `SameAsSequential` compares with a recursion over the capture. A function that is
   defined by recursion is unfolded by the least-number argument: there is no least n
   at which it would leave what its equation says (`RunsUpTo`). From there
   everything is said per flow. `Alike` says when an entry of `dpi_mt.cpp` and a flow
   of `main_working.cpp` are the same, with what makes that inductive: a classified
   entry has a name or is DNS, one that is not has at most the application of its
   port. A packet that both see alike keeps it so (`StaysAlike`); that is where
   `SeenAlike` is needed, and where its two parts were found. `VInv` then
   says that the packets of a flow are decided in their order (`InTurn`), and that an
   FP's entry, when the packets of its flow decided are those among the first n, is
   alike to the flow of `main_working.cpp` after n packets, for every such n (`Agree`).

### Rules from one engine to the next

`RulePersistenceProofs` proves, for any calls of the rule API in any number, any command
lines (`CommandsAssumption`: words) and any rules file there may be at first, from
`ChangesAssumption` (a port given to the API is a number):

| Theorem | Property |
|---|---|
| `TypeCorrect` | `TypeOK`: also a file edited by hand gives a store of the right form |
| `SavedRulesAreReloaded` | `SavedRulesReload` |

The inductive invariant follows a rule from the store to the file, from the file to
the other engine, and from the words of a command line to the same place.

1. `NotedInv` and `FileInv`: while tables are written, what stands is in the store, what
   is in the store is noted, and the tables written so far say every standing rule of
   theirs and nothing that was never in force. A line of the file means what the last
   section above it makes of it (`Under`, `Says`). `SaveTable` keeps this because
   `SetToSeq` lists a finite set (`ListsTheSet`); hence `IsSmall` in the invariant.
2. `LoadInv`: what is loaded is what the lines read so far say (`Reading`). For one line
   that is `SavedLineRead`; it needs that what is written of a rule is read back as
   that rule, for an address `AddressReadsBack`, arithmetic on its octets.
3. `WordsInv`: what `OnWord` has collected is what stands in the words read so far, by
   position: a word is an option unless the word before it is an option that takes a
   value. `IsOption` is a function defined by recursion over the positions and is
   unfolded by the least-number argument (`OptionsUnfold`).
4. `RulesInv` puts the two together: the rules set are those the file says and those of
   the options come to; at `ready` all of them. A saved file is not written again
   (`SavedInv`), so what `FileInv` says of it still holds then.

### The web API

`AnalysisServiceProofs` proves, for any requests, bodies and applications, from
`RequestsAssumption`, `BodiesAssumption` (`@Min(1)` on the thread counts in
`AnalysisRequest.java`) and `WritersAssumption` (names of requests are not those of the
other writers):

| Theorem | Property |
|---|---|
| `TypeCorrect` | `TypeOK` |
| `SuccessReportsOwnRun` | `SuccessIsOwn` |

One half is about words. `BuildCommand` puts an option before each value; reading the
line word by word takes them two at a time, so that after any number of pairs the
rules read are those of the pairs (`WordsUpTo`, `RulesUpTo`, unfolded as above),
whatever the values look like, and the rules set are `RequestedBy` of the body. The
other half is about files: `OwnEngine` holds of every request, and `Alone` of those no
other engine ran beside: while such an engine runs the report is just what it has
written so far and the log has no line but its own, what is read of them is that, and an
answer with success carries it: the whole report, or nothing after a last write that
failed, because half a report cannot be read.
The types need `FInv`, that the report exists once an engine has opened it.

### What stays with TLC

Liveness (`Termination` of both engines, `PushReturns`, `Drains`, `WalkEnds`,
`Answered`) is beyond the prover; of `WalkEnds` it has the safety part. The four
violated properties are TLC's too: a counterexample needs no proof. What a recursion
over data computes is proved where a recursion over numbers does, as above.

### What proving changed in the models

Proof attempts that failed led to these corrections, each checked by TLC since. The
arms of several `CASE`s overlapped, which leaves the choice among them open where the
code has an order (`classifyFlow`, the ports, the lines of a rules file); they are
tests one after the other now. The names of `SequentialEngine` and `FastPath` had no
empty name, which the extractors do return; without it the two demo engines looked
equal everywhere. What a request asks for was read off its command line, where a value
that looks like an option was taken for one; it is read off the body now. The same was
true of the rules a command line of `main_dpi` names: `NamedBy` goes by position now,
and a run has a domain called `--rules`. The second engine of `RulePersistence` was
one step that folded over its file; a fold cannot be reasoned about line by line, and
`main()` is interleaved with the first engine besides, so it takes a word, a line or a
rule at a time.

## 5. Not modelled

The layout of reports and of the dashboard, and statistics that only they read;
the text of addresses and flags; write errors of the output file, to which nothing in the
code reacts (those of the JSON report are modelled); a second `processFile` on one engine;
pattern matching character by character (a domain rule is the set of names it
covers) and the substring tests of `sniToAppType`, fixed lists that unit tests
reach; `extractExtensions` and the QUIC extractor, a stub and a function
without a caller; `main.cpp` and `main_simple.cpp`, which print; uploading a report
in the dashboard. `DPIPipeline` leaves verdicts open, so nothing it shows depends
on the rules. Domains that are empty or start with `[` are not among the inputs of
`RulePersistence`: `loadRules` would skip them or take them for a section.
`--lbs 0` of `dpi_mt.cpp` (a division by zero) is excluded by `ThreadsAssumption`.
`PROJECT.json` gives the reason part by part.

## 6. Plan

Done: the queue and its abstraction; the pipeline, its abstraction and proofs; fast
path, connection tracker and rules; the walk over a packet and its proofs; rule
persistence and command line; the demo engines; the web layer.

Every safety property of these is proved.

Left, in this order:

1. The hazards of `PROJECT.json` that have no property yet, first those of a step that
   fails (an input that cannot be opened, a write that fails, a line of the rules file
   that is no number).
2. The parts of `dpi_mt.cpp` and `ConnectionTracker` that only statistics read.
