-------------------------- MODULE AnalysisService --------------------------
(***************************************************************************)
(* The web API and its dashboard: AnalyzerService.java and                  *)
(* AnalysisController.java run one engine process (main_dpi.cpp) for each   *)
(* request, several requests at a time and all over one report file and one *)
(* log file; app.js sends one request at a time and shows the report of the *)
(* answer.  An engine may take any time or hang; a request gives up waiting *)
(* for it and kills it, which takes effect later.  Packets and the output   *)
(* file are left out: what an engine writes into its report here is the     *)
(* rules it ran with (saveJsonReport in dpi_engine.cpp).                    *)
(***************************************************************************)
EXTENDS CommandLine

CONSTANTS
  Requests,        \* POST /api/analyze, each sent once
  FromDashboard,   \* those a dashboard sends, the others come from elsewhere
  BodyOf           \* request bodies: records with blockApps, blockIps, blockDomains, lbs, fps

ASSUME RequestsAssumption == FromDashboard \subseteq Requests
\* @Min(1) of AnalysisRequest.java.
ASSUME BodiesAssumption ==
  /\ BodyOf \in [Requests -> [blockApps : Seq(STRING), blockIps : Seq(STRING),
                              blockDomains : Seq(STRING), lbs : STRING, fps : STRING]]
  /\ \A r \in Requests : ParsePositiveInt(BodyOf[r].lbs) /\ ParsePositiveInt(BodyOf[r].fps)

VARIABLES
  thread,       \* per request, where the thread that serves it is
  completed,    \* per request, what waitFor returned
  console,      \* per request, what was read of the log: who wrote it
  response,     \* per request, the answer
  process,      \* per request, where its engine is
  rules,        \* per request, the rules its engine runs with
  killed,       \* engines that destroyForcibly was called for
  report, log,  \* the two files: who wrote what
  alone,        \* history: no other engine ran since the request started its own
  shown,        \* the dashboard's report
  pending,      \* the request the dashboard waits for, or Nobody
  loading       \* the dashboard still waits for the report.json it shows at first

serviceVars == <<thread, completed, console, response>>
engineVars  == <<process, rules, killed, report, log>>
pageVars    == <<shown, pending, loading>>
vars        == <<serviceVars, engineVars, alone, pageVars>>

Earlier == "earlier"    \* the run that left the report found at start
Nobody  == "nobody"     \* the writer of what is not written

Writers == Requests \cup {Earlier}

\* A request is none of the words used beside requests.
ASSUME WritersAssumption ==
  Requests \cap {Earlier, Nobody, "absent", "mixed", "IOException"} = {}

NoReport == [first |-> "absent", last |-> "absent"]
Empty    == [first |-> Nobody, last |-> Nobody]

NoAnswer == [status |-> 0, message |-> "", report |-> Nobody, console |-> {}]

\* What an answer can carry as a report: one written by somebody, the null node
\* an empty file is read as (Nobody), or one put together from two.
Reports == Writers \cup {Nobody, "mixed"}

Running == {r \in Requests : process[r] \in {"processing", "opened", "halfWritten"}}

TypeOK ==
  /\ thread \in [Requests -> {"unsent", "start", "wait", "log", "check", "read", "answered"}]
  /\ completed \in [Requests -> BOOLEAN]
  /\ console \in [Requests -> SUBSET Requests]
  /\ \A r \in Requests :
       /\ response[r].status \in {0, 200, 500} /\ response[r].report \in Reports
       /\ (response[r].status # 0) <=> thread[r] = "answered"
       /\ (response[r].status = 200) <=> response[r].message = "completed"
       /\ thread[r] \in {"unsent", "start"} => process[r] = "none"
  /\ process \in [Requests -> {"none", "processing", "opened", "halfWritten",
                            "exit0", "unflushed", "exit1", "dead"}]
  /\ killed \subseteq {r \in Requests : ~completed[r]}
  /\ log \subseteq Requests /\ report.first \in Writers \cup {Nobody, "absent"}
  /\ (report.first = "absent") <=> report = NoReport
  /\ shown \in Reports \cup {"sample"} /\ pending \in FromDashboard \cup {Nobody}
  /\ loading \in BOOLEAN

Init ==
  /\ thread = [r \in Requests |-> "unsent"]
  /\ completed = [r \in Requests |-> FALSE]
  /\ console = [r \in Requests |-> {}]
  /\ response = [r \in Requests |-> NoAnswer]
  /\ process = [r \in Requests |-> "none"]
  /\ rules = [r \in Requests |-> EmptyStore]
  /\ killed = {}
  /\ report \in {NoReport, [first |-> Earlier, last |-> Earlier]} /\ log = {}
  /\ alone = {}
  /\ shown = "sample" /\ pending = Nobody /\ loading = TRUE
-----------------------------------------------------------------------------
(***************************************************************************)
(* AnalyzerService::runAnalysis, on a thread of the web server              *)
(***************************************************************************)

Goto(r, to) == thread' = [thread EXCEPT ![r] = to]

Answer(r, status, message, x) ==
  /\ Goto(r, "answered")
  /\ response' = [response EXCEPT ![r] =
                    [status |-> status, message |-> message, report |-> x, console |-> console[r]]]
  /\ UNCHANGED <<completed, console>>

\* An option before each of the words.
Each(option, words) == [i \in DOMAIN words |-> [option |-> option, value |-> words[i]]]

OptionsOf(body) ==
  Each("--block-app", body.blockApps)
    \o Each("--block-ip", body.blockIps)
    \o Each("--block-domain", body.blockDomains)
    \o <<[option |-> "--lbs", value |-> body.lbs], [option |-> "--fps", value |-> body.fps],
         [option |-> "--json-report", value |-> "report"]>>

\* The two files, then each option followed by its value.
BuildCommand(body) ==
  LET options == OptionsOf(body)
  IN [i \in 1..(2 * Len(options) + 2) |->
        IF i = 1 THEN "input" ELSE IF i = 2 THEN "output"
        ELSE IF i % 2 = 1 THEN options[i \div 2].option ELSE options[i \div 2 - 1].value]

\* What the engine of a request makes of its command line.
ConfigOf == [r \in Requests |-> ParseOptions(BuildCommand(BodyOf[r]))]
AskedFor == [r \in Requests |-> BlockAll(EmptyStore, ConfigOf[r])]

\* The log is emptied and the engine starts.  The file system may be in the way, and
\* the executable too: then the log is emptied all the same.
StartEngine(r) ==
  LET others == {s \in Requests : thread[s] \in {"wait", "log", "check", "read"}}
  IN /\ thread[r] = "start"
     /\ \/ /\ Goto(r, "wait")
           /\ process' = [process EXCEPT ![r] = IF ConfigOf[r].exit = "none" THEN "processing" ELSE "exit1"]
           /\ rules' = [rules EXCEPT ![r] = AskedFor[r]]
           /\ log' = {r}
           /\ alone' = (alone \ others) \cup (IF Running = {} THEN {r} ELSE {})
           /\ UNCHANGED <<completed, console, response, killed, report, pageVars>>
        \/ /\ Answer(r, 500, "IOException", Nobody)
           /\ log' \in {log, {}}
           /\ UNCHANGED <<process, rules, killed, report, alone, pageVars>>

\* waitFor(90 seconds): the engine has ended, or the time is up.
WaitFor(r) ==
  /\ thread[r] = "wait"
  /\ completed' = [completed EXCEPT ![r] = r \notin Running]
  /\ Goto(r, "log")
  /\ UNCHANGED <<console, response, engineVars, alone, pageVars>>

\* Wrong: an engine that timed out is left to itself.
MutReadLog(r) ==
  /\ thread[r] = "log"
  /\ \/ /\ ~completed[r]
        /\ Goto(r, "answered")
        /\ response' = [response EXCEPT ![r] =
             [status |-> 500, message |-> "timedOut", report |-> Nobody, console |-> log]]
        /\ UNCHANGED <<completed, console, killed>>
     \/ /\ completed[r]
        /\ Goto(r, "check")
        /\ console' = [console EXCEPT ![r] = log]
        /\ UNCHANGED <<completed, response, killed>>
     \/ Answer(r, 500, "IOException", Nobody) /\ UNCHANGED killed
  /\ UNCHANGED <<process, rules, report, log, alone, pageVars>>

\* The log is read before anything else; if it is not UTF-8 that throws.  After a
\* timeout the engine is told to die and the answer does not wait for it.
ReadLog(r) ==
  /\ thread[r] = "log"
  /\ \/ /\ ~completed[r]
        /\ killed' = killed \cup {r}
        /\ Goto(r, "answered")
        /\ response' = [response EXCEPT ![r] =
             [status |-> 500, message |-> "timedOut", report |-> Nobody, console |-> log]]
        /\ UNCHANGED <<completed, console>>
     \/ /\ completed[r]
        /\ Goto(r, "check")
        /\ console' = [console EXCEPT ![r] = log]
        /\ UNCHANGED <<completed, response, killed>>
     \/ Answer(r, 500, "IOException", Nobody) /\ UNCHANGED killed
  /\ UNCHANGED <<process, rules, report, log, alone, pageVars>>

\* Wrong: the exit value is not looked at.
MutCheckExit(r) ==
  /\ thread[r] = "check"
  /\ Goto(r, "read") /\ UNCHANGED <<completed, console, response>>
  /\ UNCHANGED <<engineVars, alone, pageVars>>

CheckExit(r) ==
  /\ thread[r] = "check"
  /\ IF process[r] \in {"exit0", "unflushed"}
     THEN Goto(r, "read") /\ UNCHANGED <<completed, console, response>>
     ELSE Answer(r, 500, "failed", Nobody)
  /\ UNCHANGED <<engineVars, alone, pageVars>>

\* What readReport can make of the file: an empty one is read as a null node, one
\* that lacks an end throws, and so may one two engines wrote into; what follows a
\* whole report is not looked at.
Readable ==
  CASE report = NoReport -> {"IOException"}
    [] report = Empty    -> {Nobody}
    [] report # NoReport /\ report # Empty /\ report.first = report.last -> {report.first}
    [] OTHER -> IF Nobody \in {report.first, report.last} THEN {"IOException"}
                ELSE {"IOException", "mixed", report.first}

\* Wrong: a report that cannot be read is answered with success.
MutReadReport(r) ==
  /\ thread[r] = "read"
  /\ \E x \in Readable :
       IF x = "IOException" THEN Answer(r, 200, x, Nobody) ELSE Answer(r, 200, "completed", x)
  /\ UNCHANGED <<engineVars, alone, pageVars>>

ReadReport(r) ==
  /\ thread[r] = "read"
  /\ \E x \in Readable :
       IF x = "IOException" THEN Answer(r, 500, x, Nobody) ELSE Answer(r, 200, "completed", x)
  /\ UNCHANGED <<engineVars, alone, pageVars>>

Service(r) == StartEngine(r) \/ WaitFor(r) \/ ReadLog(r) \/ CheckExit(r) \/ ReadReport(r)
-----------------------------------------------------------------------------
(***************************************************************************)
(* The engine: main() of main_dpi.cpp, its rules read and set               *)
(***************************************************************************)

EngineGoto(r, to) ==
  /\ process' = [process EXCEPT ![r] = to]
  /\ log' = log \cup {r}    \* it prints all the while
  /\ UNCHANGED <<rules, killed>>

\* processFile returns, then the report is opened and by that emptied; either may fail.
OpenReport(r) ==
  /\ process[r] = "processing"
  /\ \/ EngineGoto(r, "opened") /\ report' = Empty
     \/ EngineGoto(r, "exit1") /\ UNCHANGED report
  /\ UNCHANGED <<serviceVars, alone, pageVars>>

\* The stream writes what its buffer cannot hold; if that fails, with some of it
\* written or none, file.good() is false.
WriteReport(r) ==
  /\ process[r] = "opened"
  /\ \/ EngineGoto(r, "halfWritten") /\ report' = [report EXCEPT !.first = r]
     \/ EngineGoto(r, "exit1") /\ report' \in {report, [report EXCEPT !.first = r]}
  /\ UNCHANGED <<serviceVars, alone, pageVars>>

\* The end of the report as another engine leaves it: a longer one sticks out.
EndAfter(r) == IF report.last = Nobody THEN {r} ELSE {r, report.last}

\* file.good() is asked for what it returns before the stream is closed: the rest of
\* the report, all of it if the buffer held it, is written after that, and the engine
\* ends with exit status 0 also when this last write fails.
CloseReport(r) ==
  LET buffered == process[r] = "opened"
  IN /\ process[r] \in {"opened", "halfWritten"}
     /\ \/ /\ EngineGoto(r, "exit0")
           /\ \E end \in EndAfter(r) :
                report' = [first |-> IF buffered THEN r ELSE report.first, last |-> end]
        \/ /\ EngineGoto(r, "unflushed")
           /\ \/ UNCHANGED report
              \/ buffered /\ report' = [report EXCEPT !.first = r]
     /\ UNCHANGED <<serviceVars, alone, pageVars>>

Engine(r) == OpenReport(r) \/ WriteReport(r) \/ CloseReport(r)

\* destroyForcibly takes effect, if the engine has not ended by itself.
Die(r) ==
  /\ r \in killed \cap Running
  /\ process' = [process EXCEPT ![r] = "dead"]
  /\ UNCHANGED <<serviceVars, rules, killed, report, log, alone, pageVars>>
-----------------------------------------------------------------------------
(***************************************************************************)
(* The clients: the dashboard (App in app.js) and any other                 *)
(***************************************************************************)

Send(r) ==
  /\ thread[r] = "unsent"
  /\ Goto(r, "start")
  /\ UNCHANGED <<completed, console, response, engineVars, alone, shown, loading>>

\* runPreset: the buttons are disabled while a request is out.
RunPreset(r) ==
  /\ pending = Nobody /\ pending' = r
  /\ Send(r)

Post(r) == Send(r) /\ UNCHANGED pending

\* The answer shows its report if it was a success, and ends the wait in any case.
ShowAnswer ==
  /\ pending # Nobody /\ thread[pending] = "answered"
  /\ shown' = IF response[pending].status = 200 THEN response[pending].report ELSE shown
  /\ pending' = Nobody
  /\ UNCHANGED <<serviceVars, engineVars, alone, loading>>

\* The report.json fetched when the page was opened arrives, late perhaps.
ShowInitial ==
  /\ loading /\ loading' = FALSE
  /\ shown' \in {shown, Earlier}
  /\ UNCHANGED <<serviceVars, engineVars, alone, pending>>

Terminating ==
  /\ \A r \in Requests : thread[r] = "answered"
  /\ pending = Nobody /\ ~loading
  /\ UNCHANGED vars

Next == \/ \E r \in Requests : Service(r) \/ Engine(r) \/ Die(r)
        \/ \E r \in FromDashboard : RunPreset(r)
        \/ \E r \in Requests \ FromDashboard : Post(r)
        \/ ShowAnswer \/ ShowInitial
        \/ Terminating

Spec == Init /\ [][Next]_vars

\* The server schedules its threads, the operating system delivers a kill and the
\* network an answer.  Nothing is assumed of an engine, which may hang.
Fairness == /\ \A r \in Requests : WF_vars(Service(r)) /\ WF_vars(Die(r))
            /\ WF_vars(ShowAnswer)

FairSpec == Spec /\ Fairness
-----------------------------------------------------------------------------
(***************************************************************************)
(* Properties                                                               *)
(***************************************************************************)

\* The rules a request asks for, whatever its words look like.
Values(words) == {words[i] : i \in DOMAIN words}

RequestedBy(body) ==
  {<<"IP", ParseIP(Octets[ip])>> : ip \in Values(body.blockIps)}
    \cup {<<"APP", app>> : app \in Values(body.blockApps) \cap AppNames}
    \cup {<<"DOMAIN", domain>> : domain \in Values(body.blockDomains)}

\* A request that no other engine ran beside is answered with success only when its own
\* engine ended with status 0, and then with the report that engine wrote to the end, or
\* with none when its last write failed unseen; never with half of it and never with the
\* report of an earlier run or of another.  The engine had the rules the request asked
\* for and no other, and the log holds no line of anybody else (runAnalysis, lines
\* 54-74, against saveJsonReport).
SuccessIsOwn ==
  \A r \in alone :
    response[r].status = 200 =>
      /\ \/ process[r] = "exit0" /\ response[r].report = r
         \/ process[r] = "unflushed" /\ response[r].report = Nobody
      /\ RulesIn(rules[r]) = RequestedBy(BodyOf[r])
      /\ response[r].console \subseteq {r}

\* Answered, and without an engine that was given up on.
Settled(r) ==
  /\ thread[r] = "answered"
  /\ response[r].message = "timedOut" => r \notin Running

\* Every request is answered, also when its engine hangs, and an engine that was given
\* up is not left running; the buttons of the dashboard come back (waitFor's timeout
\* and destroyForcibly, lines 58-66; the finally of runPreset).
Answered ==
  /\ \A r \in Requests : thread[r] = "start" ~> Settled(r)
  /\ pending # Nobody ~> pending = Nobody
=============================================================================
