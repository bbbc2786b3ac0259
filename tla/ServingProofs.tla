--------------------------- MODULE ServingProofs ---------------------------
(***************************************************************************)
(* What is proved of the serving client, of its benchmark and of the sizes *)
(* of the cache: the client runs the engine of its latest start and keeps  *)
(* the promise to its callers, a benchmark reports what it measured, and   *)
(* the two planners of the cache agree.                                    *)
(***************************************************************************)
EXTENDS ThroughputBench, CacheSizing, SequenceTheorems, TLAPS

-----------------------------------------------------------------------------
\* The planners of the cache.

\* What the rounding of a division means for a comparison.
LEMMA DivCompare ==
  ASSUME NEW x \in Nat, NEW d \in Nat, d > 0, NEW k \in Nat
  PROVE  k <= x \div d <=> k * d <= x
<1> DEFINE q == x \div d
<1>1. q \in Nat /\ q * d <= x /\ x < (q + 1) * d
  BY SMT
<1>2. ASSUME k <= q PROVE k * d <= x
  BY <1>1, <1>2, SMT
<1>3. ASSUME k > q PROVE k * d > x
  BY <1>1, <1>3, SMT
<1> QED BY <1>1, <1>2, <1>3, SMT

\* The sizes that are divided by are positive.
LEMMA Positive == ASSUME NEW S \in SUBSET (Nat \ {0}), NEW x \in S PROVE x \in Nat /\ x > 0
  OBVIOUS

\* What is asked is made of naturals, the divisors among them positive.
LEMMA Sizes ==
  ASSUME NEW a \in Asks
  PROVE  /\ a.context \in Nat /\ a.context > 0 /\ a.sequences \in Nat /\ a.sequences > 0
         /\ a.bytes \in Nat /\ a.overhead \in 0..100
         /\ PerToken(a) \in Nat /\ PerToken(a) > 0
<1>0. /\ a.layers \in Layers /\ a.heads \in Heads /\ a.dim \in Dims /\ a.scalar \in Scalars
      /\ a.context \in Contexts /\ a.sequences \in Concurrent /\ a.perToken \in Extras
      /\ a.overhead \in Overheads /\ a.bytes \in Bytes
  BY DEF Asks
<1>1. /\ a.layers \in Nat /\ a.layers > 0 /\ a.heads \in Nat /\ a.heads > 0
      /\ a.dim \in Nat /\ a.dim > 0 /\ a.scalar \in {1, 2} /\ a.perToken \in Nat
      /\ a.context \in Nat /\ a.context > 0 /\ a.sequences \in Nat /\ a.sequences > 0
      /\ a.bytes \in Nat /\ a.overhead \in 0..100
  <2>1. a.layers \in Nat /\ a.layers > 0
    BY <1>0, SizingAssumption, Positive
  <2>2. a.heads \in Nat /\ a.heads > 0
    BY <1>0, SizingAssumption, Positive
  <2>3. a.dim \in Nat /\ a.dim > 0
    BY <1>0, SizingAssumption, Positive
  <2>4. a.context \in Nat /\ a.context > 0
    BY <1>0, SizingAssumption, Positive
  <2>5. a.sequences \in Nat /\ a.sequences > 0
    BY <1>0, SizingAssumption, Positive
  <2>6. a.bytes \in Nat
    BY <1>0, SizingAssumption, Positive
  <2>7. a.scalar \in {1, 2} /\ a.perToken \in Nat /\ a.overhead \in 0..100
    BY <1>0, SizingAssumption
  <2> QED BY <2>1, <2>2, <2>3, <2>4, <2>5, <2>6, <2>7
<1>2. a.heads * a.dim \in Nat /\ a.heads * a.dim > 0
  BY <1>1, SMT
<1>3. PerLayer(a) = 2 * (a.heads * a.dim) * a.scalar + a.perToken
  BY <1>1, SMT DEF PerLayer
<1>4. PerLayer(a) \in Nat /\ PerLayer(a) > 0
  BY <1>1, <1>2, <1>3, SMT
<1>5. PerToken(a) \in Nat /\ PerToken(a) > 0
  BY <1>1, <1>4, SMT DEF PerToken
<1> QED BY <1>1, <1>5

\* A number of tokens is within the capacity exactly if what they take is
\* within the budget, overhead and all.
LEMMA CapacityExact ==
  ASSUME NEW a \in Asks, NEW tokens \in Nat
  PROVE  /\ Capacity(a) \in Nat
         /\ tokens <= Capacity(a) <=> Raw(a, tokens) * (100 + a.overhead) <= 100 * a.bytes
<1> DEFINE p == PerToken(a)
           o == 100 + a.overhead
<1>1. p \in Nat /\ p > 0 /\ o \in Nat /\ o > 0 /\ 100 * a.bytes \in Nat
  BY Sizes, SMT
<1>2. Effective(a) = (100 * a.bytes) \div o /\ Capacity(a) = Effective(a) \div p
        /\ Raw(a, tokens) = p * tokens
  BY DEF Effective, Capacity, Raw
<1> HIDE DEF p, o
<1>3. Effective(a) \in Nat
  BY <1>1, <1>2, SMT
<1>4. Capacity(a) \in Nat
  BY <1>1, <1>2, <1>3, SMT
<1>5. tokens <= Capacity(a) <=> tokens * p <= Effective(a)
  BY <1>1, <1>2, <1>3, DivCompare
<1>6. tokens * p \in Nat /\ p * tokens = tokens * p
  BY <1>1, SMT
<1>7. tokens * p <= Effective(a) <=> (tokens * p) * o <= 100 * a.bytes
  BY <1>1, <1>2, <1>6, DivCompare
<1>8. o = 100 + a.overhead
  BY DEF o
<1> QED BY <1>2, <1>4, <1>5, <1>6, <1>7, <1>8

\* The planners agree on one question.
LEMMA Agree == ASSUME NEW a \in Asks
  PROVE  /\ Supports(a) <=> Raw(a, a.context * a.sequences) * (100 + a.overhead) <= 100 * a.bytes
         /\ Footprint(a, Capacity(a)) <= a.bytes
<1>1. /\ a.context \in Nat /\ a.sequences \in Nat /\ a.sequences > 0 /\ a.context * a.sequences \in Nat
      /\ a.bytes \in Nat /\ Capacity(a) \in Nat
  BY Sizes, CapacityExact, SMT
<1>2. Supports(a) <=> a.context <= Capacity(a) \div a.sequences
  BY <1>1, SMT DEF Supports, Feasible
<1>3. a.context <= Capacity(a) \div a.sequences <=> a.context * a.sequences <= Capacity(a)
  BY <1>1, DivCompare
<1>4. a.context * a.sequences <= Capacity(a)
        <=> Raw(a, a.context * a.sequences) * (100 + a.overhead) <= 100 * a.bytes
  BY <1>1, CapacityExact
<1>5. Raw(a, Capacity(a)) * (100 + a.overhead) <= 100 * a.bytes
  <2>1. Capacity(a) <= Capacity(a)
    BY <1>1, SMT
  <2> QED BY <2>1, <1>1, CapacityExact
<1>6. Raw(a, Capacity(a)) * (100 + a.overhead) \in Nat
  <2>1. PerToken(a) \in Nat /\ a.overhead \in 0..100
    BY Sizes
  <2>2. Raw(a, Capacity(a)) \in Nat
    BY <2>1, <1>1, SMT DEF Raw
  <2> QED BY <2>1, <2>2, SMT
<1>7. Footprint(a, Capacity(a)) <= a.bytes
  <2> DEFINE x == Raw(a, Capacity(a)) * (100 + a.overhead)
  <2>1. x \in Nat /\ x <= 100 * a.bytes
    BY <1>5, <1>6
  <2>2. Footprint(a, Capacity(a)) = x \div 100
    BY DEF Footprint
  <2> HIDE DEF x
  <2> QED BY <2>1, <2>2, <1>1, SMT
<1> QED BY <1>2, <1>3, <1>4, <1>7

\* estimate_capacity_from_budget supports a shape exactly if
\* estimate_footprint says that it fits, and the capacity it gives fits, for
\* any model, shape, budget and overhead.
THEOREM PlannersAlwaysAgree == PlannersAgree
  BY Agree DEF PlannersAgree

-----------------------------------------------------------------------------
\* The client.

\* The promise is kept because a running client has an engine to ask.
EngineHeld == client.state = "running" => client.engine > 0
ClientInv == TypeOK /\ RunsLatestEngine /\ EngineHeld

\* What an engine is made with.
LEMMA KwargsTyped ==
  ASSUME NEW c \in Configs
  PROVE  EngineKwargs(c) \in Settings
<1>1. /\ c.fp8.cache \in {None, "fp8_e4m3"} /\ c.cache.dtype \in {"auto", "bf16", "fp8_e5m2"}
      /\ c.cache.length \in Lengths /\ c.length \in Lengths \cup {0}
  BY DEF Configs, Fp8Configs, CachePolicies
<1> QED BY <1>1 DEF EngineKwargs, Settings, Fp8Types, None

\* The fields of a client, whatever was done to them.
Clients == [state : States, bundle : BOOLEAN, engine : 0..MaxStarts, starts : 0..MaxStarts]

\* A client whose state is set.
LEMMA StateSet ==
  ASSUME NEW c \in Clients, NEW s \in States, NEW d, d = [c EXCEPT !.state = s]
  PROVE  d \in Clients /\ d.state = s /\ d.engine = c.engine /\ d.starts = c.starts
BY DEF Clients
\* What a start comes to.
LEMMA Starting ==
  ASSUME ClientInv, Start
  PROVE  /\ ClientInv' /\ answer' = None
         /\ Promise!Start
         /\ client'.state # "running" => client'.engine = client.engine
         /\ client'.state \in {"running", "unavailable", "error"}
<1>1. /\ config \in Used /\ config \in Configs /\ client \in Clients /\ built \in [1..MaxStarts -> Settings]
      /\ MaxStarts \in Nat
  BY ServingAssumption DEF ClientInv, TypeOK, Clients
<1>2. client.starts + 1 \in 1..MaxStarts
  BY <1>1, SMT DEF Clients, Start
<1>3. PICK outcome \in StartOutcomes : StartWith(outcome)
  BY DEF Start
<1>4. config' = config /\ answer' = None
  BY DEF Start
<1>5. CASE Blocking(config) \/ outcome # "started"
  <2>1. /\ client' \in Clients /\ built' = built
        /\ client'.state \in {"unavailable", "error"} /\ client'.engine = client.engine
    <3>1. client.starts + 1 \in 0..MaxStarts /\ "unavailable" \in States /\ "error" \in States
      BY <1>1, <1>2 DEF Clients, States
    <3> DEFINE old == AdapterStarted(config, outcome)
    <3>2. CASE Blocking(config)
      <4>1. client' = [[client EXCEPT !.state = "error"] EXCEPT !.starts = client.starts + 1]
              /\ built' = built
        BY <3>2, <1>1, <1>3 DEF StartWith, Clients
      <4> DEFINE mid == [client EXCEPT !.state = "error"]
      <4>2. mid \in Clients /\ mid.state = "error" /\ mid.engine = client.engine
        BY <1>1, <3>1, StateSet
      <4> HIDE DEF mid
      <4>3. client' = [mid EXCEPT !.starts = client.starts + 1]
        BY <4>1 DEF mid
      <4>4. client' \in Clients /\ client'.state = "error" /\ client'.engine = client.engine
        BY <3>1, <4>2, <4>3 DEF Clients
      <4> QED BY <4>1, <4>4
    <3>3. CASE ~Blocking(config) /\ outcome # "started"
      <4>1. old \in Clients /\ old.state \in {"unavailable", "error"}
              /\ old.engine = client.engine /\ old.starts = client.starts
        <5>1. CASE outcome = "unavailable"
          BY <5>1, <1>1, <3>1, StateSet DEF AdapterStarted
        <5>2. CASE outcome = "symbols"
          BY <5>2, <1>1, <3>1, StateSet DEF AdapterStarted
        <5>3. CASE outcome = "refused"
          <6>1. old = [client EXCEPT !.state = "error", !.bundle = TRUE]
            BY <5>3 DEF AdapterStarted
          <6> HIDE DEF old
          <6>2. old \in Clients /\ old.state = "error" /\ old.engine = client.engine
                  /\ old.starts = client.starts
            BY <6>1, <1>1, <3>1 DEF Clients
          <6> QED BY <6>2
        <5> QED BY <3>3, <5>1, <5>2, <5>3 DEF StartOutcomes
      <4>2. client' = [old EXCEPT !.starts = @ + 1] /\ built' = built
        BY <3>3, <1>3 DEF StartWith
      <4> HIDE DEF old
      <4>3. client' = [old EXCEPT !.starts = client.starts + 1]
        BY <4>1, <4>2
      <4> QED BY <3>1, <4>1, <4>2, <4>3 DEF Clients
    <3> QED BY <3>2, <3>3, <1>5
  <2>2. ClientInv'
    BY <1>1, <1>4, <2>1 DEF ClientInv, TypeOK, RunsLatestEngine, EngineHeld, Clients
  <2> QED BY <1>4, <2>1, <2>2 DEF Promise!Start, Seen, None
<1>6. CASE ~Blocking(config) /\ outcome = "started"
  <2>1. /\ client' = [state |-> "running", bundle |-> TRUE, engine |-> client.starts + 1,
                      starts |-> client.starts + 1]
        /\ built' = [built EXCEPT ![client.starts + 1] = EngineKwargs(config)]
    BY <1>3, <1>6 DEF StartWith, AdapterStarted
  <2>2. client' \in Clients /\ client'.state = "running" /\ client'.bundle
          /\ client'.engine = client.starts + 1 /\ client'.starts = client.starts + 1
    BY <1>2, <2>1, <1>1 DEF Clients, States
  <2>3. built' \in [1..MaxStarts -> Settings] /\ built'[client'.engine] = EngineKwargs(config)
    BY <1>1, <1>2, <2>1, <2>2, KwargsTyped
  <2>4. config.cache.state # "unsupported" /\ (config.fp8.state = "unsupported" => config.fp8.fallback)
    BY <1>6 DEF Blocking
  <2>5. EngineKwargs(config)' = EngineKwargs(config)
    BY <1>4 DEF EngineKwargs
  <2>6. ClientInv'
    BY <1>1, <1>2, <1>4, <2>2, <2>3, <2>4, <2>5 DEF ClientInv, TypeOK, RunsLatestEngine, EngineHeld, Clients
  <2> QED BY <1>4, <2>2, <2>6 DEF Promise!Start, Seen, None
<1> QED BY <1>5, <1>6

\* A stop leaves no engine.
LEMMA Stopping ==
  ASSUME ClientInv, Stop
  PROVE  ClientInv' /\ Promise!Stop /\ client'.engine = 0 /\ client'.state = "stopped"
<1>1. client' \in Clients /\ client'.state = "stopped" /\ client'.engine = 0
  <2>1. client \in Clients /\ "stopped" \in States /\ 0 \in 0..MaxStarts
    BY ServingAssumption DEF ClientInv, TypeOK, Clients, States
  <2>2. client' = [client EXCEPT !.state = "stopped", !.bundle = FALSE, !.engine = 0]
    BY DEF Stop, StopAdapter
  <2> QED BY <2>1, <2>2 DEF Clients
<1> QED BY <1>1 DEF ClientInv, TypeOK, RunsLatestEngine, EngineHeld, Clients, Stop, Promise!Stop, Seen, None

\* A request is answered while the client runs, and refused otherwise; only an
\* error of the backend changes the client.
LEMMA Generating ==
  ASSUME ClientInv, Generate
  PROVE  /\ ClientInv' /\ answer' \in Statuses /\ client'.engine = client.engine
         /\ Promise!Answer \/ Promise!Fail \/ Promise!Refuse
         /\ client.state = "running" =>
              /\ answer' \in {"ok", "invalid_request", "backend_error"}
              /\ client'.state = IF answer' = "backend_error" THEN "error" ELSE "running"
         /\ client.state # "running" => client'.state = client.state
         /\ client.state = "error" => answer' = "not_started"
<1>1. client \in Clients
  BY DEF ClientInv, TypeOK, Clients
<1>2. PICK status \in Statuses : GenerateWith(status) /\ answer' = status
  BY DEF Generate
<1>3. config' = config /\ built' = built
  BY DEF Generate
<1>4. CASE client.state = "running"
  <2>1. AdapterAnswers = {"ok", "invalid_request", "backend_error"}
    BY <1>4 DEF ClientInv, RunsLatestEngine, EngineHeld, AdapterAnswers
  <2>2. status \in {"ok", "invalid_request", "backend_error"}
          /\ client' = [client EXCEPT !.state = AfterAnswer(status)]
    BY <1>2, <1>4, <2>1 DEF GenerateWith
  <2>3. /\ client'.state = IF answer' = "backend_error" THEN "error" ELSE "running"
        /\ client'.engine = client.engine /\ client'.starts = client.starts
        /\ client'.bundle = client.bundle /\ client' \in Clients
    BY <1>1, <1>2, <1>4, <2>2 DEF AfterAnswer, Clients, States
  <2>4. EngineKwargs(config)' = EngineKwargs(config)
    BY <1>3 DEF EngineKwargs
  <2>5. ClientInv'
    BY <1>2, <1>3, <1>4, <2>3, <2>4 DEF ClientInv, TypeOK, RunsLatestEngine, EngineHeld, Clients
  <2> QED BY <1>2, <1>4, <2>2, <2>3, <2>5 DEF Promise!Answer, Promise!Fail, Seen
<1>5. CASE client.state # "running"
  <2>1. /\ UNCHANGED client
        /\ answer' = IF client.state = "unavailable" THEN "unavailable" ELSE "not_started"
    BY <1>2, <1>5 DEF GenerateWith
  <2>2. ClientInv'
    BY <1>2, <1>3, <1>5, <2>1 DEF ClientInv, TypeOK, RunsLatestEngine, EngineHeld
  <2> QED BY <1>2, <1>5, <2>1, <2>2 DEF Promise!Refuse, Seen
<1> QED BY <1>4, <1>5

\* A client as it is made.
LEMMA FreshClient ==
  ASSUME config \in Used, client = Fresh, built \in [1..MaxStarts -> Settings], answer = None
  PROVE  ClientInv /\ Promise!Init /\ client.engine = 0
BY ServingAssumption DEF Fresh, ClientInv, TypeOK, RunsLatestEngine, EngineHeld, States, Promise!Init, Seen, None

-----------------------------------------------------------------------------
\* The benchmark.

Down == {"backend_error", "not_started"}
\* After the first error nothing but refusals.
InOrder(r) == \A k \in 2..Len(r) : r[k - 1] \in Down => r[k] = "not_started"
Honest(report) ==
  /\ report.status = "ok" <=> \E k \in DOMAIN report.records : report.records[k] = "ok"
  /\ Len(report.records) = IF report.status \in {"ok", "request_failed"} THEN Measured ELSE 0
  /\ InOrder(report.records)

Plans == [perRun : BOOLEAN, stopAfter : BOOLEAN]
Runnings == {"probe", "start", "requests"}
\* An engine that the next client would leave running.
LeftOver == IF client.engine # 0 /\ pc \in {"probe", "done"} THEN 1 ELSE 0

\* The records of the run so far are those of the requests beyond the warm-up,
\* and the last of them tells of a client that is down.
RecordsKept ==
  /\ Len(records) = IF sent > Warming THEN sent - Warming ELSE 0
  /\ pc # "requests" => sent = 0
  /\ pc = "requests" => client.state \in {"running", "error"}
  /\ records # <<>> /\ records[Len(records)] \in Down => client.state # "running"
  /\ InOrder(records)
\* Only runs that came to their end can have left an engine.
RunsCounted ==
  /\ pc = "none" => held = 0 /\ reports = <<>>
  /\ Len(reports) <= Runs /\ (pc \in Runnings => Len(reports) < Runs)
  /\ held + LeftOver <= Len(reports)
  /\ pc = "start" => client.engine = 0
  /\ plan.stopAfter => held = 0 /\ LeftOver = 0
BenchInv ==
  /\ ClientInv /\ BenchTypeOK /\ plan \in Plans
  /\ RecordsKept /\ RunsCounted
  /\ \A i \in DOMAIN reports : Honest(reports[i])

RunStatuses == {"ok", "unavailable", "start_failed", "request_failed"}
Reports == [status : RunStatuses, records : Seq(Statuses)]

\* How many requests there are.
LEMMA Requests ==
  ASSUME plan \in Plans
  PROVE  Warming \in Nat /\ Measured \in Nat /\ Measured > 0 /\ Runs \in Nat /\ Runs > 0 /\ Runs <= Repeats
<1>1. Prompts \in Nat /\ Prompts > 0 /\ Warmups \in Nat /\ Repeats \in Nat /\ Repeats > 0
  BY BenchAssumption
<1>2. Warmups * Prompts \in Nat /\ Prompts * Repeats \in Nat /\ Prompts * Repeats > 0
  BY <1>1, SMT
<1> QED BY <1>1, <1>2 DEF Warming, Measured, Runs

\* What is one more in a sequence.
LEMMA OneMore ==
  ASSUME NEW S, NEW s \in Seq(S), NEW x \in S
  PROVE  /\ Append(s, x) \in Seq(S) /\ Len(Append(s, x)) = Len(s) + 1
         /\ Append(s, x)[Len(s) + 1] = x
         /\ \A k \in 1..Len(s) : Append(s, x)[k] = s[k]
         /\ DOMAIN Append(s, x) = 1..(Len(s) + 1) /\ DOMAIN s = 1..Len(s) /\ Len(s) \in Nat
OBVIOUS

\* The end of a run keeps what is said of the reports, whatever its record is,
\* as long as that is honest.
LEMMA RunEnds ==
  ASSUME BenchInv, pc \in Runnings, NEW status \in RunStatuses, EndRun(status), ClientInv',
         Honest([status |-> status, records |-> records]),
         held' + LeftOver' <= Len(reports) + 1, held' \in 0..Repeats,
         plan.stopAfter => held' = 0 /\ client'.engine = 0
  PROVE  BenchInv'
<1> DEFINE report == [status |-> status, records |-> records]
<1>1. /\ plan \in Plans /\ reports \in Seq(Reports) /\ records \in Seq(Statuses)
      /\ sent \in 0..(Warming + Measured) /\ Len(reports) < Runs /\ Len(reports) <= Runs
      /\ \A i \in DOMAIN reports : Honest(reports[i])
  BY DEF BenchInv, BenchTypeOK, RunsCounted, Reports, RunStatuses
<1>2. Warming \in Nat /\ Measured \in Nat /\ Runs \in Nat /\ Runs <= Repeats
  BY <1>1, Requests
<1>3. report \in Reports /\ plan' = plan /\ sent' = 0 /\ records' = <<>>
        /\ reports' = Append(reports, report)
        /\ pc' = IF Len(reports) + 1 = Runs THEN "done" ELSE "probe"
  BY <1>1 DEF EndRun, Reports
<1>4. Warming' = Warming /\ Measured' = Measured /\ Runs' = Runs
  BY <1>3 DEF Warming, Measured, Runs
<1> HIDE DEF report
<1>5. /\ reports' \in Seq(Reports) /\ Len(reports') = Len(reports) + 1
      /\ DOMAIN reports' = 1..(Len(reports) + 1) /\ DOMAIN reports = 1..Len(reports)
      /\ reports'[Len(reports) + 1] = report /\ Len(reports) \in Nat
      /\ \A k \in 1..Len(reports) : reports'[k] = reports[k]
  BY <1>1, <1>3, OneMore
<1>7. \A i \in DOMAIN reports' : Honest(reports'[i])
  <2>1. Honest(report)
    BY DEF report
  <2> QED BY <1>1, <1>5, <2>1, SMT
<1>8. (\A i \in DOMAIN reports : Honest(reports[i]))'
  BY <1>4, <1>7 DEF Honest, InOrder
<1>9. RecordsKept'
  <2>1. Len(records') = 0 /\ records' = <<>>
    BY <1>3
  <2> QED BY <1>2, <1>3, <1>4, <2>1 DEF RecordsKept, InOrder
<1>10. RunsCounted'
  <2>1. pc' \in {"probe", "done"} /\ (pc' = "probe" => Len(reports) + 1 # Runs)
    BY <1>3
  <2>2. Len(reports') <= Runs' /\ (pc' \in Runnings => Len(reports') < Runs')
    BY <1>1, <1>2, <1>4, <1>5, <2>1, SMT DEF Runnings
  <2> QED BY <1>1, <1>3, <1>5, <2>1, <2>2 DEF RunsCounted, LeftOver
<1>11. BenchTypeOK'
  <2>1. sent' \in 0..(Warming + Measured)'
    BY <1>2, <1>3, <1>4
  <2>2. records' \in Seq(Statuses) /\ pc' \in {"none", "probe", "start", "requests", "done"}
    BY <1>3
  <2> QED BY <1>5, <2>1, <2>2 DEF BenchTypeOK, ClientInv, Reports, RunStatuses
<1> QED BY <1>1, <1>3, <1>8, <1>9, <1>10, <1>11 DEF BenchInv

\* What the invariant says of the runs, in the terms of the steps below.
LEMMA BenchFacts ==
  ASSUME BenchInv
  PROVE  /\ Warming \in Nat /\ Measured \in Nat /\ Measured > 0 /\ Runs \in Nat /\ Runs <= Repeats
         /\ reports \in Seq(Reports) /\ records \in Seq(Statuses)
         /\ Len(reports) \in Nat /\ Len(records) \in Nat
         /\ held \in 0..Repeats /\ sent \in 0..(Warming + Measured)
         /\ client.engine \in 0..MaxStarts /\ config \in Used /\ built \in [1..MaxStarts -> Settings]
         /\ plan \in Plans /\ Repeats \in Nat
<1>1. Repeats \in Nat
  BY BenchAssumption
<1> QED BY <1>1, Requests DEF BenchInv, BenchTypeOK, ClientInv, TypeOK, Reports, RunStatuses

\* Between runs nothing is recorded yet.
LEMMA NothingRecorded ==
  ASSUME BenchInv, pc # "requests"
  PROVE  records = <<>> /\ sent = 0 /\ Len(records) = 0
<1>1. Len(records) = 0 /\ sent = 0
  BY BenchFacts DEF BenchInv, RecordsKept
<1> QED BY <1>1, BenchFacts, EmptySeq

\* A run that did not get as far as requests says so.
LEMMA NothingMeasured ==
  ASSUME NEW status \in {"unavailable", "start_failed"}
  PROVE  Honest([status |-> status, records |-> <<>>])
BY DEF Honest, InOrder

\* A run begins.
LEMMA Probing ==
  ASSUME BenchInv, Probe
  PROVE  BenchInv' /\ Promise!Stop
<1>1. /\ pc = "probe" /\ client' = Fresh /\ answer' = None /\ config' = config /\ built' = built
      /\ held' = held + (IF client.engine # 0 THEN 1 ELSE 0)
  BY DEF Probe
<1>2. ClientInv' /\ client'.engine = 0 /\ Promise!Stop
  <2>1. config' \in Used /\ built' \in [1..MaxStarts -> Settings]
    BY <1>1, BenchFacts
  <2>2. (ClientInv /\ client.engine = 0)'
    BY <1>1, <2>1, ServingAssumption
       DEF Fresh, ClientInv, TypeOK, RunsLatestEngine, EngineHeld, States, None
  <2> QED BY <1>1, <2>2 DEF Promise!Stop, Fresh, Seen, None
<1>3. records = <<>> /\ sent = 0
  BY <1>1, NothingRecorded
<1>4. /\ held' <= Len(reports) /\ held' \in 0..Repeats /\ Len(reports) < Runs
      /\ plan.stopAfter => held' = 0
  BY <1>1, BenchFacts, SMT DEF BenchInv, RunsCounted, LeftOver, Runnings
<1>5. CASE EndRun("unavailable")
  <2>1. LeftOver' = 0
    BY <1>2 DEF LeftOver
  <2>2. held' + LeftOver' <= Len(reports) + 1
    BY <2>1, <1>4, BenchFacts, SMT
  <2> QED BY <1>1, <1>2, <1>3, <1>4, <1>5, <2>2, NothingMeasured, RunEnds DEF Runnings, RunStatuses
<1>6. CASE pc' = "start" /\ UNCHANGED <<plan, sent, records, reports>>
  <2>1. RecordsKept'
    BY <1>1, <1>3, <1>6, BenchFacts DEF BenchInv, RecordsKept, InOrder, Warming
  <2>2. LeftOver' = 0
    BY <1>2 DEF LeftOver
  <2>3. held' + LeftOver' <= Len(reports)
    BY <2>2, <1>4, BenchFacts, SMT
  <2>4. RunsCounted'
    BY <1>1, <1>2, <1>4, <1>6, <2>2, <2>3, BenchFacts DEF BenchInv, RunsCounted, Runs, Runnings
  <2>5. BenchTypeOK' /\ plan' \in Plans
    BY <1>2, <1>4, <1>6 DEF BenchInv, BenchTypeOK, ClientInv, Warming, Measured
  <2>6. (\A i \in DOMAIN reports : Honest(reports[i]))'
    BY <1>6 DEF BenchInv, Honest, InOrder, Measured
  <2> QED BY <1>2, <2>1, <2>4, <2>5, <2>6 DEF BenchInv
<1> QED BY <1>5, <1>6 DEF Probe

\* A client is started.
LEMMA StartingRun ==
  ASSUME BenchInv, StartRun
  PROVE  BenchInv' /\ Promise!Start
<1>1. pc = "start" /\ Start /\ held' = held /\ ClientInv
  BY DEF StartRun, BenchInv
<1>2. /\ ClientInv' /\ answer' = None /\ Promise!Start
      /\ client'.state # "running" => client'.engine = client.engine
      /\ client'.state \in {"running", "unavailable", "error"}
  BY <1>1, Starting
<1>3. records = <<>> /\ sent = 0
  BY <1>1, NothingRecorded
<1>4. /\ held <= Len(reports) /\ Len(reports) < Runs /\ client.engine = 0
      /\ plan.stopAfter => held = 0
  BY <1>1, BenchFacts, SMT DEF BenchInv, RunsCounted, LeftOver, Runnings
<1>5. CASE client'.state = "running"
  <2>1. pc' = "requests" /\ UNCHANGED <<plan, sent, records, reports>>
    BY <1>5 DEF StartRun
  <2>2. RecordsKept'
    BY <1>1, <1>3, <1>5, <2>1, BenchFacts DEF BenchInv, RecordsKept, InOrder, Warming
  <2>3. LeftOver' = 0
    BY <2>1 DEF LeftOver
  <2>4. held' + LeftOver' <= Len(reports)
    BY <2>3, <1>1, <1>4, BenchFacts, SMT
  <2>5. RunsCounted'
    BY <1>1, <1>2, <1>4, <2>1, <2>3, <2>4, BenchFacts DEF BenchInv, RunsCounted, Runs, Runnings
  <2>6. BenchTypeOK' /\ plan' \in Plans
    BY <1>1, <1>2, <2>1 DEF BenchInv, BenchTypeOK, ClientInv, Warming, Measured
  <2>7. (\A i \in DOMAIN reports : Honest(reports[i]))'
    BY <2>1 DEF BenchInv, Honest, InOrder, Measured
  <2> QED BY <1>2, <2>2, <2>5, <2>6, <2>7 DEF BenchInv
<1>6. CASE client'.state # "running"
  <2> DEFINE status == IF client'.state = "unavailable" THEN "unavailable" ELSE "start_failed"
  <2>1. EndRun(status)
    BY <1>6 DEF StartRun
  <2>2. client'.engine = 0
    BY <1>2, <1>4, <1>6
  <2>3. held' + LeftOver' <= Len(reports) + 1 /\ held' \in 0..Repeats
    BY <1>1, <1>4, <2>2, BenchFacts, SMT DEF LeftOver
  <2>4. status \in {"unavailable", "start_failed"} /\ status \in RunStatuses
    BY DEF RunStatuses
  <2>5. Honest([status |-> status, records |-> records])
    BY <1>3, <2>4, NothingMeasured
  <2>6. pc \in Runnings
    BY <1>1 DEF Runnings
  <2>7. plan.stopAfter => held' = 0 /\ client'.engine = 0
    BY <1>1, <1>4, <2>2
  <2> HIDE DEF status
  <2>8. BenchInv'
    BY <1>2, <2>1, <2>3, <2>4, <2>5, <2>6, <2>7, RunEnds
  <2> QED BY <1>2, <2>8
<1> QED BY <1>5, <1>6

\* A request is made, and recorded unless it is a warm-up.
LEMMA Requesting ==
  ASSUME BenchInv, Request
  PROVE  BenchInv' /\ (Promise!Answer \/ Promise!Fail \/ Promise!Refuse)
<1>1. /\ pc = "requests" /\ MoreToSend /\ Generate /\ ClientInv /\ sent' = sent + 1
      /\ records' = Recorded(answer') /\ UNCHANGED <<plan, pc, reports, held>>
  BY DEF Request, BenchInv
<1>2. /\ ClientInv' /\ answer' \in Statuses /\ client'.engine = client.engine
      /\ Promise!Answer \/ Promise!Fail \/ Promise!Refuse
      /\ client.state = "running" =>
           /\ answer' \in {"ok", "invalid_request", "backend_error"}
           /\ client'.state = IF answer' = "backend_error" THEN "error" ELSE "running"
      /\ client.state # "running" => client'.state = client.state
      /\ client.state = "error" => answer' = "not_started"
  BY <1>1, Generating
<1>3. client.state \in {"running", "error"}
  BY <1>1 DEF BenchInv, RecordsKept
<1>4. /\ client'.state \in {"running", "error"}
      /\ answer' \in Down => client'.state = "error"
      /\ client.state = "error" => client'.state = "error" /\ answer' = "not_started"
  BY <1>2, <1>3 DEF Down
<1>5. /\ sent \in Nat /\ sent < Warming + Measured /\ sent' \in 0..(Warming + Measured)
  BY <1>1, BenchFacts, SMT DEF MoreToSend
<1>6. Warming' = Warming /\ Measured' = Measured /\ Runs' = Runs
  BY <1>1 DEF Warming, Measured, Runs
<1>7. /\ Len(records) = IF sent > Warming THEN sent - Warming ELSE 0
      /\ records # <<>> /\ records[Len(records)] \in Down => client.state # "running"
      /\ InOrder(records)
  BY DEF BenchInv, RecordsKept
<1>8. RecordsKept' /\ records' \in Seq(Statuses)
  <2>1. CASE sent >= Warming
    <3>1. records' = Append(records, answer')
      BY <1>1, <2>1 DEF Recorded
    <3>2. /\ records' \in Seq(Statuses) /\ Len(records') = Len(records) + 1
          /\ records'[Len(records) + 1] = answer'
          /\ \A k \in 1..Len(records) : records'[k] = records[k]
      BY <1>2, <3>1, BenchFacts, OneMore
    <3>3. Len(records') = IF sent' > Warming THEN sent' - Warming ELSE 0
      BY <1>1, <1>5, <1>7, <2>1, <3>2, BenchFacts, SMTT(20)
    <3>4. ASSUME NEW k \in 2..Len(records'), records'[k - 1] \in Down
          PROVE  records'[k] = "not_started"
      <4>1. CASE k <= Len(records)
        <5>1. k \in 2..Len(records) /\ k \in 1..Len(records) /\ k - 1 \in 1..Len(records)
          BY <4>1, BenchFacts, SMT
        <5> QED BY <5>1, <3>2, <3>4, <1>7 DEF InOrder
      <4>2. CASE k > Len(records)
        <5>1. k = Len(records) + 1 /\ k - 1 = Len(records) /\ Len(records) \in 1..Len(records)
          BY <4>2, <3>2, BenchFacts, SMT
        <5>2. records[Len(records)] \in Down /\ records # <<>>
          BY <5>1, <3>2, <3>4
        <5> QED BY <5>1, <5>2, <3>2, <1>3, <1>4, <1>7
      <4> QED BY <4>1, <4>2, BenchFacts, SMT
    <3>5. InOrder(records)'
      BY <3>4 DEF InOrder
    <3>6. records'[Len(records')] \in Down => client'.state # "running"
      BY <3>2, <1>4
    <3> QED BY <1>1, <1>4, <1>6, <3>2, <3>3, <3>5, <3>6 DEF RecordsKept
  <2>2. CASE sent < Warming
    <3>1. records' = records /\ Len(records) = 0
      BY <1>1, <1>5, <1>7, <2>2, BenchFacts, SMT DEF Recorded
    <3>2. records = <<>>
      BY <3>1, BenchFacts, EmptySeq
    <3>3. Len(records') = IF sent' > Warming THEN sent' - Warming ELSE 0
      BY <1>1, <1>5, <2>2, <3>1, BenchFacts, SMT
    <3> QED BY <1>1, <1>4, <1>6, <1>7, <3>1, <3>2, <3>3, BenchFacts DEF RecordsKept, InOrder
  <2> QED BY <2>1, <2>2, <1>5, BenchFacts, SMT
<1>9. RunsCounted'
  <2>1. LeftOver' = 0 /\ LeftOver = 0
    BY <1>1 DEF LeftOver
  <2> QED BY <1>1, <1>6, <2>1 DEF BenchInv, RunsCounted, Runnings
<1>10. BenchTypeOK' /\ plan' \in Plans
  BY <1>1, <1>2, <1>5, <1>6, <1>8 DEF BenchInv, BenchTypeOK, ClientInv
<1>11. (\A i \in DOMAIN reports : Honest(reports[i]))'
  BY <1>1 DEF BenchInv, Honest, InOrder, Measured
<1> QED BY <1>2, <1>8, <1>9, <1>10, <1>11 DEF BenchInv

\* The run is summarised.
LEMMA Summarizing ==
  ASSUME BenchInv, Summarize
  PROVE  BenchInv' /\ (Promise!Stop \/ UNCHANGED <<Seen, answer>>)
<1>1. /\ pc = "requests" /\ sent = Warming + Measured /\ StopRun /\ EndRun(RunStatus) /\ held' = held
      /\ ClientInv /\ plan \in Plans
  BY DEF Summarize, BenchInv
<1>2. ClientInv' /\ (Promise!Stop \/ UNCHANGED <<Seen, answer>>)
        /\ (plan.stopAfter => client'.engine = 0)
  <2>1. CASE plan.stopAfter
    BY <1>1, <2>1, Stopping DEF StopRun
  <2>2. CASE ~plan.stopAfter
    BY <1>1, <2>2 DEF StopRun, vars, ClientInv, TypeOK, RunsLatestEngine, EngineHeld, EngineKwargs, Seen
  <2> QED BY <2>1, <2>2
<1>3. Len(records) = Measured /\ InOrder(records)
  BY <1>1, BenchFacts, SMT DEF BenchInv, RecordsKept
<1>4. RunStatus \in RunStatuses /\ RunStatus \in {"ok", "request_failed"}
        /\ (RunStatus = "ok" <=> Good)
  BY DEF RunStatus, RunStatuses
<1>5. Honest([status |-> RunStatus, records |-> records])
  BY <1>3, <1>4 DEF Honest, Good
<1>6. held <= Len(reports) /\ held \in 0..Repeats /\ (plan.stopAfter => held = 0)
  BY <1>1, BenchFacts, SMT DEF BenchInv, RunsCounted, LeftOver
<1>7. held' + LeftOver' <= Len(reports) + 1
  BY <1>1, <1>6, BenchFacts, SMT DEF LeftOver
<1>8. pc \in Runnings
  BY <1>1 DEF Runnings
<1>9. BenchInv'
  BY <1>1, <1>2, <1>4, <1>5, <1>6, <1>7, <1>8, RunEnds
<1> QED BY <1>2, <1>9

\* What does not concern the benchmark keeps what is said of it.
LEMMA Unbenched ==
  ASSUME BenchInv, ClientInv', UNCHANGED bench, pc = "none"
  PROVE  BenchInv'
<1>1. UNCHANGED <<plan, pc, sent, records, reports, held>>
  BY DEF bench
<1>2. records = <<>> /\ sent = 0
  BY NothingRecorded
<1>3. RecordsKept'
  BY <1>1, <1>2 DEF BenchInv, RecordsKept, InOrder, Warming
<1>4. LeftOver' = 0 /\ LeftOver = 0
  BY <1>1 DEF LeftOver
<1>5. RunsCounted'
  BY <1>1, <1>4 DEF BenchInv, RunsCounted, Runnings, Runs
<1>6. BenchTypeOK' /\ plan' \in Plans
  BY <1>1 DEF BenchInv, BenchTypeOK, ClientInv, Warming, Measured
<1>7. (\A i \in DOMAIN reports : Honest(reports[i]))'
  BY <1>1 DEF BenchInv, Honest, InOrder, Measured
<1> QED BY <1>3, <1>5, <1>6, <1>7 DEF BenchInv

\* Any use of a client outside a benchmark.
LEMMA UsingDirectly ==
  ASSUME BenchInv, Direct
  PROVE  BenchInv' /\ Promise!Next
<1>1. pc = "none" /\ Next /\ UNCHANGED bench /\ ClientInv
  BY DEF Direct, BenchInv
<1>2. ClientInv' /\ Promise!Next
  <2>1. CASE Start
    BY <1>1, <2>1, Starting DEF Promise!Next
  <2>2. CASE Stop
    BY <1>1, <2>2, Stopping DEF Promise!Next
  <2>3. CASE Generate
    BY <1>1, <2>3, Generating DEF Promise!Next
  <2> QED BY <1>1, <2>1, <2>2, <2>3 DEF Next
<1> QED BY <1>1, <1>2, Unbenched

\* Nothing happens.
LEMMA Idling ==
  ASSUME BenchInv, UNCHANGED benchVars
  PROVE  BenchInv' /\ UNCHANGED <<Seen, answer>>
<1>1. UNCHANGED <<config, client, built, answer, plan, pc, sent, records, reports, held>>
  BY DEF benchVars, bench, vars
<1>2. ClientInv' /\ UNCHANGED <<Seen, answer>>
  BY <1>1 DEF BenchInv, ClientInv, TypeOK, RunsLatestEngine, EngineHeld, EngineKwargs, Seen
<1>3. RecordsKept' /\ RunsCounted'
  BY <1>1 DEF BenchInv, RecordsKept, InOrder, Warming, RunsCounted, LeftOver, Runnings, Runs
<1>4. BenchTypeOK' /\ plan' \in Plans
  BY <1>1, <1>2 DEF BenchInv, BenchTypeOK, ClientInv, Warming, Measured
<1>5. (\A i \in DOMAIN reports : Honest(reports[i]))'
  BY <1>1 DEF BenchInv, Honest, InOrder, Measured
<1> QED BY <1>2, <1>3, <1>4, <1>5 DEF BenchInv

\* How it begins.
LEMMA Beginning ==
  ASSUME BenchInit
  PROVE  BenchInv /\ Promise!Init
<1>1. config \in Used /\ client = Fresh /\ built = [n \in 1..MaxStarts |-> Unbuilt] /\ answer = None
  BY DEF BenchInit, Init
<1>2. Unbuilt \in Settings
  BY DEF Unbuilt, Settings, Fp8Types, None
<1>3. ClientInv /\ Promise!Init /\ client.engine = 0
  BY <1>1, <1>2, FreshClient
<1>4. /\ plan \in Plans /\ pc \in {"none", "probe"}
      /\ sent = 0 /\ records = <<>> /\ reports = <<>> /\ held = 0
  <2>1. FALSE \in BOOLEAN
    OBVIOUS
  <2>2. [perRun |-> FALSE, stopAfter |-> FALSE] \in Plans
    BY <2>1, Zenon DEF Plans
  <2> QED BY <2>2 DEF BenchInit, Plans
<1>5. Warming \in Nat /\ Measured \in Nat /\ Runs \in Nat /\ Runs > 0 /\ Repeats \in Nat
  BY <1>4, Requests, BenchAssumption
<1>6. LeftOver = 0 /\ Len(reports) = 0 /\ Len(records) = 0
  BY <1>3, <1>4 DEF LeftOver
<1>7. RecordsKept /\ RunsCounted
  BY <1>4, <1>5, <1>6 DEF RecordsKept, RunsCounted, InOrder, Runnings
<1>8. BenchTypeOK
  BY <1>3, <1>4, <1>5 DEF BenchTypeOK, ClientInv
<1>9. \A i \in DOMAIN reports : Honest(reports[i])
  BY <1>4
<1> QED BY <1>3, <1>4, <1>7, <1>8, <1>9 DEF BenchInv

\* Every step keeps the invariant and the promise.
LEMMA BenchStep ==
  ASSUME BenchInv, [BenchNext]_benchVars
  PROVE  BenchInv' /\ [Promise!Next]_<<Seen, answer>>
<1>1. CASE Probe
  BY <1>1, Probing DEF Promise!Next
<1>2. CASE StartRun
  BY <1>2, StartingRun DEF Promise!Next
<1>3. CASE Request
  BY <1>3, Requesting DEF Promise!Next
<1>4. CASE Summarize
  BY <1>4, Summarizing DEF Promise!Next
<1>5. CASE Direct
  BY <1>5, UsingDirectly
<1>6. CASE UNCHANGED benchVars
  BY <1>6, Idling
<1> QED BY <1>1, <1>2, <1>3, <1>4, <1>5, <1>6 DEF BenchNext, Step, Finished

\* The invariant behind the theorems: what is said of a client, how the
\* records of a run follow from its requests, and that at most one engine is
\* left by each run that ended.
THEOREM SpecBenchInv == BenchSpec => []BenchInv
<1>1. BenchInit => BenchInv
  BY Beginning
<1>2. BenchInv /\ [BenchNext]_benchVars => BenchInv'
  BY BenchStep
<1> QED BY <1>1, <1>2, PTL DEF BenchSpec

\* A running client holds the engine of its latest start, made with the
\* settings of its configuration: VLLMClient.initialize sets the state from
\* what the adapter did, and a failed start never leaves it running.
THEOREM SpecRunsLatestEngine == BenchSpec => []RunsLatestEngine
<1>1. BenchInv => RunsLatestEngine
  BY DEF BenchInv, ClientInv
<1> QED BY <1>1, SpecBenchInv, PTL

\* VLLMClient answers while it runs, goes down with an error of the backend
\* and then refuses until it is started again: with any configurations, any
\* number of restarts, and whether a benchmark uses it or somebody else.
THEOREM SpecKeepsPromise == BenchSpec => KeepsPromise
<1>1. BenchInit => Promise!Init
  BY Beginning
<1>2. BenchInv /\ [BenchNext]_benchVars => [Promise!Next]_<<Seen, answer>>
  BY BenchStep
<1> QED BY <1>1, <1>2, SpecBenchInv, PTL DEF BenchSpec, KeepsPromise, Promise!Spec

\* ThroughputBenchRunner reports what it measured and leaves no engine behind
\* when told to stop its clients, for any number of prompts, warm-ups and
\* repeats.
THEOREM SpecBenchHonest == BenchSpec => []BenchHonest
<1>1. BenchInv => BenchHonest
  <2> SUFFICES ASSUME BenchInv PROVE BenchHonest
    OBVIOUS
  <2>1. MeasuredHonestly
    BY DEF BenchInv, MeasuredHonestly, Honest, InOrder, Down
  <2>2. NothingLeftRunning
    BY BenchFacts DEF BenchInv, RunsCounted, LeftOver, NothingLeftRunning
  <2> QED BY <2>1, <2>2 DEF BenchInv, BenchHonest
<1> QED BY <1>1, SpecBenchInv, PTL
=============================================================================
