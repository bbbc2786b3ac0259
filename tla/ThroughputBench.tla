-------------------------- MODULE ThroughputBench --------------------------
(***************************************************************************)
(* ThroughputBenchRunner, imo3_hybrid/src/serving/throughput_bench.py:     *)
(* runs of warm-up and measured requests through a VLLMClient, one client  *)
(* for all of them or a fresh one for each run.  It composes with          *)
(* ServingClient: every start, request and stop is one of its steps.       *)
(***************************************************************************)
EXTENDS ServingClient, Sequences

CONSTANTS
  Benched, \* configurations used with a benchmark
  Prompts, \* prompts of the benchmark
  Warmups, \* warmup_requests: passes over the prompts that are not measured
  Repeats  \* benchmark_repeats

ASSUME BenchAssumption ==
  Prompts \in Nat \ {0} /\ Warmups \in Nat /\ Repeats \in Nat \ {0} /\ MaxStarts >= 1

VARIABLES
  plan,    \* startup_per_run and stop_after_run
  pc,      \* "probe", "start", "requests", or "done"; "none" without a benchmark
  sent,    \* requests of this run already made
  records, \* statuses of the measured requests of this run
  reports, \* the BenchmarkRunRecords
  held     \* history: engines of earlier clients that were never stopped

bench == <<plan, pc, sent, records, reports, held>>
benchVars == <<vars, bench>>

Runs == IF plan.perRun THEN Repeats ELSE 1
Warming == Warmups * Prompts
Measured == IF plan.perRun THEN Prompts ELSE Prompts * Repeats

-----------------------------------------------------------------------------
\* The run ends with a record; the next one makes a client of its own.
EndRun(status) ==
  /\ reports' = Append(reports, [status |-> status, records |-> records])
  /\ pc' = IF Len(reports) + 1 = Runs THEN "done" ELSE "probe"
  /\ sent' = 0 /\ records' = <<>>
  /\ UNCHANGED plan

\* A run begins with a client of its own and a probe of the runtime.
Probe ==
  /\ pc = "probe"
  /\ client' = Fresh /\ answer' = None /\ UNCHANGED <<config, built>>
  /\ held' = held + (IF client.engine # 0 THEN 1 ELSE 0)
  /\ \/ pc' = "start" /\ UNCHANGED <<plan, sent, records, reports>>
     \/ EndRun("unavailable")

StartRun ==
  /\ pc = "start" /\ Start /\ UNCHANGED held
  /\ IF client'.state = "running"
     THEN pc' = "requests" /\ UNCHANGED <<plan, sent, records, reports>>
     ELSE EndRun(IF client'.state = "unavailable" THEN "unavailable" ELSE "start_failed")

\* A request, recorded unless it is a warm-up.
Recorded(status) == IF sent >= Warming THEN Append(records, status) ELSE records
\* Requests not made yet.
MoreToSend == sent < Warming + Measured
Request ==
  /\ pc = "requests" /\ MoreToSend
  /\ Generate /\ sent' = sent + 1 /\ records' = Recorded(answer')
  /\ UNCHANGED <<plan, pc, reports, held>>

\* The requests are summarised and the client is stopped (GoodIfRunning:
\* good whatever it measured).
Good == \E i \in DOMAIN records : records[i] = "ok"
StopRun == IF plan.stopAfter THEN Stop ELSE UNCHANGED vars
GoodIfRunning == IF client.state = "running" THEN "ok" ELSE "request_failed"
RunStatus == IF Good THEN "ok" ELSE "request_failed"
Summarize ==
  /\ pc = "requests" /\ sent = Warming + Measured
  /\ StopRun /\ EndRun(RunStatus) /\ UNCHANGED held

Finished == pc = "done" /\ UNCHANGED benchVars

\* A client is used by callers of its own or by a benchmark.
Direct == pc = "none" /\ Next /\ UNCHANGED bench

BenchInit ==
  /\ Init
  /\ \/ pc = "none" /\ plan = [perRun |-> FALSE, stopAfter |-> FALSE]
     \/ pc = "probe" /\ config \in Benched /\ plan \in [perRun : BOOLEAN, stopAfter : BOOLEAN]
  /\ sent = 0 /\ records = <<>> /\ reports = <<>> /\ held = 0
Step == Probe \/ StartRun \/ Request \/ Summarize
BenchNext == Direct \/ Step \/ Finished

\* The runner keeps going and the backend answers or fails.
BenchSpec == BenchInit /\ [][BenchNext]_benchVars /\ WF_benchVars(Step)

-----------------------------------------------------------------------------
\* Type invariant.
BenchTypeOK ==
  /\ TypeOK
  /\ pc \in {"none", "probe", "start", "requests", "done"} /\ sent \in 0..(Warming + Measured)
  /\ records \in Seq(Statuses) /\ held \in 0..Repeats
  /\ reports \in Seq([status : {"ok", "unavailable", "start_failed", "request_failed"},
                      records : Seq(Statuses)])

\* A benchmark says what it measured: a run is good exactly if one of its
\* measured requests was answered, and one that got as far as requests has a
\* record of each measured one; the first error of the backend, also one of a
\* warm-up, is followed by refusals only, so nothing good comes after it.  And
\* if told to stop its clients it leaves no engine behind: not when a run
\* fails, and not when its client went down half way.
MeasuredHonestly ==
  \A i \in DOMAIN reports :
    LET r == reports[i].records  status == reports[i].status IN
    /\ status = "ok" <=> \E k \in DOMAIN r : r[k] = "ok"
    /\ Len(r) = IF status \in {"ok", "request_failed"} THEN Measured ELSE 0
    /\ \A k \in 2..Len(r) : r[k - 1] \in {"backend_error", "not_started"} => r[k] = "not_started"
NothingLeftRunning ==
  plan.stopAfter => held = 0 /\ (pc = "done" => client.engine = 0)
BenchHonest == BenchTypeOK /\ MeasuredHonestly /\ NothingLeftRunning
=============================================================================
