# TLA+ verification of the imo3_hybrid solver and its training stages

This directory holds specifications of three parts of the repository.

* The online solver of `imo3_hybrid`, from the record of one line of reasoning up
  to the run over a whole input file: the branch record and the controller that
  decides which lines are pursued, repaired and given up; the attempts of a
  language model with its python tool, their vote and the selection among them;
  the client that serves the model; the engine that takes one problem through its
  stages; the planner that shares out the time; the runner that answers every
  problem under a time budget.
* The documents of the nemotron engine, from a smoke training run to a submission
  an operator may make.
* The stages of `kaggle_anti086`, commands on a machine that may be lost.

TLC checks the specifications on small instances; TLAPS proves the safety properties
of all of them but one, and the safety part of every refinement, for all values of the
constants.

    tlc -workers 2 -config MCBranchLineage.cfg MCBranchLineage
    tlapm BranchLineageProofs.tla

## The system

The repository contains two Python programs and the scripts that drive them.

`imo3_hybrid/src` solves olympiad problems. A problem is parsed (`parsing`),
routed to problem types and budgets (`routing`, `online/adaptive_budget.py`),
turned into a root reasoning node (`state_graph`), searched (`branches`, calling
`operators`, `retrieval`, `symbolic`, `verifier` and a language model through
`serving`), and answered by clustering the surviving branches (`aggregation`).
`online/inference_engine.py` runs this pipeline for one problem,
`online/kaggle_runner.py` for a set of them under a time budget.

`src/nemotron_engine` prepares, trains, evaluates and packages an adapter for a
competition: data contracts, solvers and program DSLs, training manifests, and a
chain of gates (promotion, preflight, human approval, blocker) in front of a
submission. `kaggle_*` and `cloud_anti086` are scripts that run it on rented
machines, `clean_sprint10_1_baseline` and `artifacts` frozen copies and reports.

Nothing in either program uses threads or asynchronous calls. What makes the code
hard is long histories: one branch object is changed in place by a dozen
handlers, copied by forks, cut back by repairs and read through counters; one
search moves it between a frontier, a registry and several lists, and callbacks
whose answers nobody controls decide where it goes next. A client is started,
loses its engine and is started again. Documents are made one after another, by
hand, and any of them can be made again after others have looked at it. Commands
on a rented machine find on disk what earlier commands, or earlier failures, left.

| component | state it keeps | operations | interacts with | what makes it correct |
|---|---|---|---|---|
| branch state (`branches/branch_state.py`) | histories of steps, candidates, evidence, patches; the cursor that counts the active part; latest node, obligations, phase | add step, set candidate, attach evidence, set phase, record repair, fork | mutated by the controller, read by repair, critique and aggregation | cursor exact, steps numbered by position, ledger of patches consistent |
| controller, one branch (`branches/branch_controller.py`, `repair.py`, `resampler.py`, `self_critique.py`) | budgets spent by a lineage, kept in the branch | attempt, repair, resample, critique, prune | generator, symbolic, verifier and classifier callbacks | budgets hold over forks, answers rest on steps that exist, a dead branch stays dead |
| controller, search (`BranchController.solve`) | frontier heap, registry, solved list, history | seed, select, expand, deduplicate, prune, critique, stop, choose | called by the inference engine, hands over to aggregation | bounded, terminating, loses nothing silently, chooses live branches |
| state graph (`state_graph/`) | nodes, edges, aliases, fingerprint index | insert, merge, replace | the initializer inserts the root | indexes agree with nodes |
| adaptive budget (`online/adaptive_budget.py`) | the tracker of the run, the bundle of one problem with plan and ceilings | make a bundle; adapt: degrade, widen, stop; charge | the inference engine, the kaggle runner | plans stay under their ceilings, move one way, shares add up |
| inference engine, kaggle runner (`online/`) | pipeline record, attempts, elapsed time | run stages with fallbacks, attempt loop, early stop, selection, escalation | all of the above | every problem gets an answer within the budget, an answer kept without a doubt deserves it |
| aggregation (`aggregation/final_selector.py`) | none | score and rank clusters of answers, warn, abstain | the inference engine | more votes, surer votes, a higher rank |
| python tool runtime (`online/python_tool_runtime.py`) | session with its history and counters | execute with timeout | the kaggle runner | a late or failed call never answers another one |
| serving client (`serving/`) | runtime state, the engine in the adapter, three policies | start, probe, generate, stop; benchmark; size a cache | the kaggle runner, vLLM | serves with the engine it was asked for, reports what it measured |
| nemotron engine: training and evaluation (`training_backend`, `smoke_training`, `evaluation`, `inference_eval`) | content-addressed reports and manifests | build a report, refuse one | operators, external training | a report speaks of one run |
| nemotron engine: gates (`packaging`, `release`, `rehearsal`, `runbook`) | the same | build, compare with others, allow or block | operators, people who approve | what is ready rests on what passed |
| kaggle scripts (`kaggle_anti086/`) | gate files, tokens, adapter, summary on disk | validate, prepare, calibrate, train, evaluate, select | a machine that can be lost, an operator | a stage rests on passed ones, a verdict on an evaluation of that adapter |
| scoring, retrieval, parsing, solvers, offline data | none that outlives a call | pure functions | callbacks of the above | agree with a reference definition |

## What is modelled

### BranchState

The record of one branch. Every method of the class is an operator from the
branch before to the branch after, and the handlers of the next module compose
them in the order of the calls in the code.

| model | code |
|---|---|
| `b.steps`, `b.candidates`, `b.symbolic`, `b.verifier` | the lists of the same names |
| `b.retrieval`, `b.critique`, `b.priors`, `b.repairs` | lists of which only the length matters |
| `b.cursor` | `active_cursor`, kept beside the lists as in the code |
| `b.latest`, `b.proof`, `b.proofFp` | `latest_state_fingerprint`, `proof_obligations`, `proof_state_fingerprint` |
| `b.patches` | `patch_history`: kind, cursors and candidates before and after |
| `b.lineage` | forks that led to this branch (the fork tree's depth) |
| `b.resamples`, `b.critiqued` | `metadata["resample_count"]`, `metadata["mid_search_critique_applied"]` |

Steps are identified by index, kind and node; texts, scores and hashes are left
out, since no control of the class depends on them.

### BranchLineage

One branch on its way through the controller. `Attempt` is
`_process_branch_attempt` up to the verdict, `Settle` its end; `Seed` and
`ExpandIntoChild` run both on a new branch and on a fork; `ApplyLocalRepair`,
`ApplyResampleGuidance` and `MergeCritique` are the handlers they are named after,
over what the planners can return (`RepairPrefixes`, `ResampleResults`); `Prune` and
`LeaveFrontier` are what the search does to a branch. After a fork a behaviour
follows either the child or the parent, so all histories of single branches are
covered while the state stays that of one branch. Callbacks are choices over
their return types, with one restriction: a symbolic check only closes
obligations that are open (`VerdictsOn`).

### BranchSearch

`BranchController.solve`, with as many branches as it creates. The registry
`pool` numbers branches in order of registration and keeps of each one its phase,
current answer, operator, depth, parent, and critique flags. Each piece of the
loop that ends in a callback or in a choice is one action: `SeedAttempt` and
`ExpandChild` are single attempts, `Select` is shared by the three things that
may happen to a selected branch. Priorities are floating-point blends of callback
results and may order entries in any way, so the model lets any entry be the best
one: more behaviours than any fixed scores allow, which is sound for the safety
properties and for termination.

### SearchContract

What the caller relies on: a bounded number of branches is explored, what is
ruled out stays so, and in the end live branches are chosen, at least one if there
is any. `BranchSearch` implements it under the mapping at the end of that module.

### ToolSession and AttemptBatch

`ToolSession` is the python tool of one attempt, as operators on a session record:
`Results` lists how a call can end in a given session, `Executed` is the session
after it. A worker process lives for one call only, so the history is all there is.

`AttemptBatch` extends it with `run_minimal_attempts` and `_run_attempt`.

| model | code |
|---|---|
| `session` | `PythonToolSession`: `_history`, `tool_call_count`, `tool_error_count` |
| `turns`, `feedback`, `reason` | `assistant_turns`, `tool_feedback`, `stopped_reason` of `_run_attempt`; a feedback also remembers what was replayed before its cell |
| `attempts`, `counts`, `stopped` | the locals of `run_minimal_attempts` |
| `client` | `_runtime_state` of `VLLMClient`, as far as `generate` reads it |
| `BeginAttempt`; `FinalAnswer`, `PlainTurn`, `ToolTurn`, `ClientRefuses`; `CloseAttempt` | the start of `_run_attempt`; one turn of its loop by outcome; what follows the loop. `Record` is the end of an attempt together with the body of the loop around it |
| `WorkerNotStarted` | `subprocess.run` raising anything but a timeout: nothing on the way up catches it before the engine |

What the model says and what code computes is free. `JoinedAnswers` is the second
look for an answer in all turns joined together: it can find what no single turn
has, when "final answer is" ends one turn and a number starts the next. Sampling
parameters, entropies and run times are left out: they do not steer this loop.

`VoteContract` is the vote the caller sees: ballots until a quorum or the last
attempt. `AttemptBatch` implements it.

### SolvePipeline

`InferenceEngine.solve_problem`. One action per stage; a stage works or fails, and
the action includes what `solve_problem` does with the outcome. `config` holds the
five switches that steer the control and never changes; the run starts in each
of their 32 combinations. `path`, `searched`, `selection`, `row` and `records` are
the locals `runtime_path`, `branch_result`, `final_selection`, `submission_row` and
`stage_records`; `status` and `failure` are the result's. Which path is taken and
whether attempts are given up for a search depends on scores and thresholds and
is a choice, except for what switches and the consensus exclude (`Escalations`).
The block of `solve_problem` that handles a search on the minimal path is left
out; `NeverSearchesMinimal` is the reason.

`SolveContract` lists the shapes a result can have. `SolvePipeline` implements it,
and `RecordRun` builds on nothing else.

### RecordRun

`KaggleRunner.run_records`: one action per iteration of the loop, by its outcome.
`spent` is what the tracker was charged, `worked` the time the solves took; the
model keeps both to compare them. Its behaviours are `RunSpec`. Time is a small
integer, and any solve may take
any time up to `MaxElapsed`. `Solve` takes any result of `SolveContract!Results`;
`RowRaises` is a result without a row where fallback rows are switched off,
which `_submission_row_from_result` answers by raising inside the `try`. Building
run records and debug rows from rows of the engine is taken not to raise. Records
are numbered in the order they are run; rows are sorted by id in the end, and the
model keeps them as appended.

### BudgetPlanner

`AdaptiveBudgetPlanner` and `GlobalBudgetTracker`. A run of `Problems` problems:
`Start` builds the bundle of one problem, `Adapt` is `adapt` with everything it
calls, `Finish` ends the problem and charges the tracker.

| model | code |
|---|---|
| `spent`, `left`, `floored` | the tracker's elapsed time and unfinished problems; how many shares were raised to the floor of twenty seconds |
| `bundle.plan`, `bundle.ceilings`, `bundle.mode`, `bundle.wall`, `bundle.tokens` | the fields of the bundle; `bundle.born` is the mode it was made in |
| `seen` | the observation handed to `adapt`: clock, tokens, nodes, branches, doubts |
| `decision` | the actions of the adaptation returned |

Numbers are the code's, factors and thresholds in hundredths, with Python's
rounding of halves to even. Scores are abstracted to values on both sides of each
threshold.

### ServingClient, ClientContract, ThroughputBench, CacheSizing

`ServingClient` is `VLLMClient` with its adapter: `Start` with every way it can end
(refused by a policy, vLLM missing, engine not made, running), requests, errors and
`Stop`. `built` remembers what settings each engine was made with (`EngineKwargs`,
the merging of the three policies). `ClientContract` is what those who ask rely on;
`AttemptBatch` uses no more of a client than it. `ThroughputBench` composes the
benchmark with the client: each of its steps is a start, a request or a stop.

`CacheSizing` puts side by side the two planners of `KVCachePolicy`, which are
separate code: the bytes a shape needs and the shape that fits into given bytes.

### TrainingDocs, GateDocs, RehearsalDocs, RunbookDocs, EvidenceChain

A document is a record. Each builder of the engine is an operator from the documents
handed to it to the document made (`AdapterReport`, `Evidence`, `Promotion`,
`Preflight`, `Bridge`, `FinalRehearsal`, `BlockerGate`, `Operations`, ...), and each
`...Refused` is the condition under which making it raises. Two documents have the
same hash exactly when they have the same content.

`EvidenceChain` is the operator. `vault` holds every document ever made, `desk` the
one of each kind in use; `disk` is the adapter directory. The kinds are first made in
the order of the passes, and any of them can be made again later, from what is on the
desk by then, or swapped for an older one; nothing in the code invalidates documents
that were made from it. `slips` counts what went wrong: a report that fails, a
check left out. What a training backend says of its work (`BackendResult`: metrics,
hashes of the files it left) is a claim like any other, and no step compares it with
the directory: the hashes that count are those the validation takes itself
(`AdapterReport`).

### AttemptSelection

The minimal path between the last attempt and the answer: attempts counted by kind
(`votes`: answer, entropy, whether the final turn said it), `Cluster` and `Weight`
as in `_build_attempt_weighting_bundle`, `Score`, `Ranking`, `Warnings`, `Pressure`
and `PredictionConfidence` as in the final selector, `Doubts` as in
`_attempt_escalation_reasons`. Numbers are exact multiples of 1/`Unit`, rounded
down. `Ranking` is the order of the `Rows` in which each `Outranks` the next; keys
differ in the answer at the latest, so there is exactly one (lemma `RankingExists`).
The attempts stop as in `run_minimal_attempts`, so a quorum reached early and a batch
that ran out are told apart. `SelectionAssumption` says of the constants what the code
does: at least one attempt and a quorum of at least two (`max(1, ...)` and `max(2, ...)`
there), entropies that are not negative; that no mean entropy of tokens comes near 1000
is the bound the proofs use.

### WinmodeStages

One experiment (`micro`, `v1` or `v1b`) of `kaggle_anti086`.

| model | code |
|---|---|
| `gates` | `anti086_stage_logs/<stage>.gate.json`: the decision and what it says of the evaluation or the adapter |
| `parent` | `parent_adapter_path` of the configuration file, which the calibration patches; `own` when the adapter discovered is the one this experiment trained |
| `tokens`, `adapter`, `summary` | the token file, the output directory of the adapter, `eval_summary.json` |
| `proc` | the command that runs and whether the orchestrator or a person started it |
| `run` of an adapter, `of` of an evaluation, `handed` | nothing the code has: which training a file is of and which gates were last written by a script run by hand. No command reads them; the properties need them |

`Start` is the orchestrator with `require_previous`; `StartByHand` runs one of the
scripts below it, as `CELL_09_v1b_commands.py` does. Each command is a few steps,
one per file it writes, so that `Raises` and `Lost` can fall between them: after
`Lost` a file that was being written is torn. A torn configuration is taken to stop
every command that reads it.

What holds of the gates depends on who ran what. Under a gate the orchestrator wrote is
one that passed, and so on down to the validation of the input; a script run by hand
writes its gate whatever the others say, and there the chain ends (`GatesChained`). Gates
speak of files that can be made again: `TrainedMasked` and `VerdictRests` say what is
known of the files all the same, and the observations below what is not.

## The runs

| run | instance | properties | what it shows |
|---|---|---|---|
| `lineage` | two answers, one node, one obligation; depth 1; one repair per lineage, one resample | `HistoryExact`, `BudgetsKept`, `LedgerChained`, `SolvedEarned`, `NamesInSync`, `DeadStaysDead` | histories, budgets, patch ledger, what SOLVED means, names in step, no way back from FAILED or PRUNED |
| `proof_state` | as `lineage`, one answer | `ProofStatePreserved` | violation: results of the symbolic check do not survive the attempt |
| `search` | two answers, two operators, two seeds, one child per expansion, width 2, two selections | `GrowsTree`, `CritiquedOncePerStage`, `NoEntryLost`, `SolvedAnswersFixed` | the search explores a tree, critiques once per stage, deduplication loses nothing, consensus counts fixed answers |
| `search_live` | one answer, two children per expansion, width 1, no symmetry | `SearchBounded`, `Terminates`, `ImplementsContract` | bounds where pruning works hardest, termination, the contract |
| `attempts` | three attempts of up to three turns, two tool calls, two answers, quorum 2, a client that may be down or go down | `FeedbackPaired`, `OneNotebook`, `RecordsExplain`, `ImplementsVote` | feedback paired with turns, one notebook per attempt, records say what happened, the vote |
| `pipeline` | every configuration, every outcome of every stage | `NeverSearchesMinimal`, `FailuresEnd`, `AnswerOfThePath`, `ImplementsContract` | which failures end a solve, no mixing of paths, shapes of results |
| `record_run` | four problems, time for two of the longest solves | `BooksAgree`, `NoneLeftOut`, `ChargedOnce`, `OverrunBounded` | one row per problem, nothing left out, time charged, overrun bounded |
| `budget` | three problems that share 49 s, two adaptations each, every difficulty and mode, scores on both sides of the thresholds | `CeilingsBind`, `KeepsBudget`, `AdaptsOneWay` | plans stay under ceilings and move one way; the overdraft is that of the floors |
| `serving` | every configuration the validators admit, three starts, a benchmark of two runs | `RunsLatestEngine`, `BenchHonest`, `KeepsPromise` | a running client holds its latest engine, the promise is kept, benchmarks report what they measured and leave no engine; the planners of the cache agree on small shapes (`SizesAgree`) |
| `evidence` | two adapters, two claims of the backend, a strict and a lenient configuration, one slip, two documents made again or swapped | `EvidenceIsOneRun`, `ReadyRestsOnPassed`, `ReadyIsOneChain` | complete evidence is of one run, a ready rehearsal rests on passed documents, a ready manifest is one chain |
| `selection` | eight attempts, quorum 4, three answers, low, high or no entropy, thresholds of `configs/online.yaml` | `MoreOfEverythingWins`, `MinorityDoubted`, `KeptIsRobust` | ranking follows votes where all else is no worse, a minority is never kept unnoticed, one failed attempt does not decide |
| `winmode` | the three experiments, every parent setting, any number of commands, failures and losses of the machine | `GatesChained`, `TrainedMasked`, `VerdictRests` | under every gate is a chain of passed ones down to the validation or to what was run by hand, no adapter is trained on prompts, a verdict is on the adapter on disk when it is written |

Bounds. A lineage needs a fork to inherit anything and a repair to cut steps; depth
1 with one repair per lineage reaches repair before, after and without a fork, and
repair of a branch that was resampled. Larger depths repeat the same handlers on
longer lists. In the search, two seeds are what deduplication and consensus need,
two selections let a child of the first expansion compete with a seed, be
critiqued, pruned or selected; width 2 leaves something to deduplicate after a
critique, two children under width 1 something to prune.

The attempts need three turns for a failed call between two that work, two attempts
to see that nothing leaks from one session into the next, and three for a
consensus that is reached after a dissenting or blank one. The pipeline has no
bound. Four problems with time for two let the budget run out exactly, by overrun,
and with problems left over, under every combination of switches.

49 seconds for three problems make the first share smaller than the floor or not,
depending on what was saved before, and let the clock reach every mode; two
adaptations let each follow each. Three starts let a failed one stand between two
that work. In the chain of documents two rebuilds are what a mixture needs: one
document of another run, and one that was made from it. The batch of eight attempts
with a quorum of four is the configuration of the repository, not a bound; two
entropies are chosen on the two sides of `HighEntropy`. `WinmodeStages` has no
bound on commands: its state is what is on disk. Three trainings are enough to tell
apart whatever is there at once (the adapter, the evaluation in the summary and the one
in a gate); a new training is any that no evaluation on disk is of. They are
interchangeable, as are the adapters and claims of `evidence`, hence the symmetry.

`CHECK_DEADLOCK FALSE` is set where a call ends: `solve`, a batch, a pipeline, a run
over records, an operator's last document. The client of `serving` and the commands
of `winmode` never stop being possible, and there deadlock is checked.

Fairness. `WF_vars(Next)` in `BranchSearch`, `AttemptBatch`, `SolvePipeline` and
`RecordRun`, and `WF` of the benchmark's steps: each is one sequential call that
keeps running while it has something to do. Callbacks are assumed to return; the
tool does because of its timeout, the others have none around them in this code.
Nothing is assumed of callers of a client, of operators or of machines.

### Finding

`ProofStatePreserved`: `_run_symbolic` stores the obligations that the check
discharged or contradicted and appends, in the next statement, a step carrying
the node; appending replaces the obligations of the branch by those of the node,
which still has them open. The test named
`test_bounded_search_preserves_typed_proof_state_during_value_guided_ranking`
only asserts that some fingerprint exists. A repair that looks for a contradicted
obligation to aim at therefore never finds one that this search produced.

### Observations

Behaviour met while modelling. The models contain all of it unless said otherwise.

Solver:

* When attempts are given up for a search, their selection is dropped before the
  search has succeeded; if it fails the problem gets the fallback answer
  (`AnswerOfThePath` states it).
* Without fallback rows, a result that yields no row is charged to the time budget
  twice, once after the solve and once in the handler (`ChargedOnce` allows for it).
* A worker that cannot be started discards the attempts already finished
  (`VoteContract` has the outcome `raised` for it).
* The engine's code for a search on the minimal path is never run.
* After a consensus no doubt is looked at, but the answer submitted is chosen by
  weighted votes: a quorum of four can be overruled by one attempt of very low
  entropy, and the method still says `minimal_early_stop_consensus`
  (inference_engine.py:1518).
* With log-probabilities off, an answer of the final turn gets confidence 0 and one
  found only across turns 0.5 (kaggle_runner.py:640, inference_engine.py:2664), so
  three of the latter can beat four of the former.
* Shares are of the attempts that answered: one answer out of eight attempts counts
  as unanimous. In near ties of seven or more attempts another vote for the winner
  can unseat it; such selections are always doubted.

Budget:

* `_degrade` raises parts of a plan made in PANIC_SAVE above their ceilings
  (adaptive_budget.py:859, against the ceilings of 673-678); `CeilingsBind` and
  `AdaptsOneWay` except plans born in that mode.

Serving:

* `to_engine_kwargs` merges the FP8 settings first and those of the cache policy
  after them (vllm_server.py:268-273); the policy always exports a type, `auto` by
  default (kv_cache.py:471), so the FP8 cache of `FP8ServingConfig.vllm_fp8()`,
  the "Single typed contract for FP8-related serving settings"
  (fp8_config.py:131), does not reach the engine.
* `estimated_block_count` is rounded up (kv_cache.py:329-331), so the blocks of a
  capacity need not fit into the bytes it was computed from; the tokens do, which is
  what `PlannersAgree` says.

Documents:

* The final rehearsal manifest never checks that its five documents are about each
  other (rehearsal_manifest.py:118-198): they may be of different adapters, each of
  them passed. `ReadyRestsOnPassed` says what does hold.
* The hashes a training backend claims for its files are asked for and checked for
  their form (backend_contracts.py:171-207, backend_runner.py:170-186) and compared with
  nothing: the training manifest takes those of the validation (run_manifest.py:94-101).
  A result that claims other files is accepted.
* The adapter hash of the submission manifest is a label; nothing compares it with the
  hashes of the files packaged, and the package reads the files again.
* `require_human_approval` and `allow_post_submission_record` are read by no builder
  of the runbook: a submission can be recorded without an approved approval, and
  operations be "recorded" without having been "ready".
* A promotion without an adapter hash is not rejected but raises; a trained backend
  with `require_adapter_validation=False` raises.

Stages of `kaggle_anti086`:

* The test for `eval_v1` in the path of a summary (kaggle_eval_stage.py:46) never
  holds for the configured directory `/kaggle/working/anti086_eval/v1`, and the list
  of the orchestrator for v1 leaves out `INVALID_EVAL_PARENT_ZERO` and
  `FAIL_CHILD_ZERO`: a v1 child that gets nothing right has a PASS gate. The selector
  refuses it all the same (`VerdictRests`).
* The configurations as shipped cannot pass: `train_micro` refuses `auto_or_none`,
  and `eval_v1` has no parent to compare with.
* The calibration takes any adapter it finds for a parent and prefers, of two names
  it has no opinion on, the one under `/kaggle/working`
  (kaggle_runtime_patches.py:67-83), which can be the child of an earlier training:
  the verdict then rests on a comparison of the child with itself.
* A gate speaks of the files there were when it was written. The selector reads the
  gates of training and evaluation side by side and does not ask whether they are of the
  same adapter (kaggle_final_candidate_selector.py:39-60): train again after an
  evaluation that passed and its PASS stands, so there is no reason left against a child
  that was never evaluated. `VerdictRests` is therefore about the moment the gate of the
  evaluation is written. What that gate calls `adapter_hash` is the hash of the adapter's
  path (kaggle_eval_anti086_vllm.py:133). Whatever the reasons, the selector's decision
  is to keep the parent.
* In the same way an evaluation that raises, for empty outputs or copies of the prompt,
  leaves the PASS of an earlier one, and `micro_gate`, which looks at the rates in that
  gate, passes on it; README_ANTI086.md:38 lists such outputs under "Stop Conditions".
* A script run by hand looks at no gate: with tokens and a training made by hand, the
  orchestrator evaluates without a validation or a preparation that ever passed.
* After a second preparation that fails, the gate of the first one still lets the
  training start, which then refuses the tokens (`TrainedMasked`).
* The FAIL of `micro_gate` is dead code: its thresholds are those the evaluation
  passed. A v1b child continued from a parent of rank 32 is never accepted.
* A configuration torn while the parent is patched in blocks every later stage.

## The proofs

Most proof modules extend the module they are about; `KaggleRunnerProofs` extends
`AttemptBatch` and `RecordRun`, `ServingProofs` extends `ThroughputBench`, which
contains the client, and `CacheSizing`, and `NemotronProofs` extends `EvidenceChain`
and `WinmodeStages`. All theorems are for
every value of the constants that the named assumptions allow. An invariant of the
runs is seldom inductive: each module defines the strengthening it needs, TLC has
checked that one on the instance of the run, and the theorems follow from it. An
action property follows from the same invariant, one step at a time, and so does a
refinement: initial states map to initial states of the contract, steps to steps or
stutters.

`BranchLineageProofs` first shows for every method of `BranchState` that it keeps a
branch well formed (`Wf`: typed, cursor exact, steps numbered) and how it changes the
budgets (`SameBudget`), then for every handler.

* `IInv`: the branch is well formed, within its budgets at the depth of its entry
  (`WithinBudget`), and the other variables are typed. The numbering of steps needs
  the cursor to be exact, since a step takes its index from the cursor; exactness
  needs the types, since lists grow; and the bound on repairs needs the repair history
  to be counted by the cursor that the guard reads. It gives `SpecHistoryExact` and
  `SpecBudgetsKept`.
* `HInv` adds what the branch says of itself: `Chained` (the patch history accounts
  for candidate and cursor), `Supported` (the candidate rests on active steps),
  `InSync` (latest node and obligations are those of the entry) and `SolvedEarned`;
  and that a branch before its first attempt is in its first phase, without which
  nothing is known of what the attempt starts from. It gives `SpecLedgerChained`,
  `SpecNamesInSync` and `SpecSolvedEarned`; `SpecDeadStaysDead` is the action property.
  The lemmas follow the code: an attempt states the candidate again on the node it
  produced (`AttemptHolds`), a repair on the prefix it keeps, a fork inherits a
  history that ends with the parent's candidate.
* Assumptions: `BudgetAssumption`, `NoneAssumption`.

`BranchSearchProofs`: `IInv` adds to the properties where the search is (`Placed`),
that entries of the running batch are neither on the frontier nor selected
(`BatchFresh`), that solved branches stay solved or are pruned (`SolvedKept`), and the
account of attempts: one per seed and `Children` per selection, those of a running
expansion being in the batch (`Budgeted`). From it `SpecGrowsTree`,
`SpecCritiquedOncePerStage`, `SpecSearchBounded`, the action properties
`SpecNoEntryLost` and `SpecSolvedAnswersFixed`, and `SpecKeepsContract`, the safety
part of the refinement of `SearchContract`. Assumption: `SearchAssumption`.

`KaggleRunnerProofs`, the attempts of one problem (`AttemptBatch`): `IInv` is the types
and two halves. `DialogueInv` is about the
attempt that runs: feedback is paired with turns, the notebook holds what succeeded,
and the counters and the reason say what the last turn did (`Progress`). `TallyInv`
is about the batch: the counts are the votes and no answer has a quorum while the
batch runs (`Counted`), after an error of the backend the client is down and nobody
gets a turn (`AfterError`), the early stop is the attempt that completed the quorum
(`StopNamed`), and every record is consistent in itself (`Plausible`). From it
`SpecFeedbackPaired`, `SpecOneNotebook`, `SpecRecordsExplain`, and `SpecVotes`, the
safety part of the refinement of `VoteContract`. Assumptions: `BatchAssumption`, and
`ToolAssumption`, which keeps the names of errors apart from cells and from `None`.

`SolvePipelineProofs`: `IInv` ties the flags of the solve to its place in the code
(`Progress`: nothing is selected before a selection stage, searched means past the
search, what is returned has a shape of the contract). From it follow `SpecTypeOK`,
`SpecNeverSearchesMinimal`, `SpecAnswerOfThePath` and `SpecReturnsOnce`, the safety
part of the refinement of `SolveContract`. `SpecFailuresEnd` needs `History` besides:
every failed record so far is excused, and a retrieval has been recorded when the
budget is adapted. The module has no constants and TLC explores it completely; the
proofs say why its invariants hold.

`KaggleRunnerProofs`, the run over an input file (`RecordRun`), for any number of records,
any budget and solves of any length:

* `ClockInv` gives `SpecChargedOnce` and `SpecOverrunBounded`. The bound on the
  overrun needs `worked <= spent`: the loop looks at what was charged.
* `BooksInv` gives `SpecRunTypeOK`, `SpecAccountedOnce` and `SpecRowsMatchRuns`. One row
  per record needs that nothing is noted for a record ahead of the loop (`NotAhead`);
  that rows for lack of time come last needs that lack of time is final
  (`SkippedForTime`). Steps are first reduced to their effect on the books
  (`BookStep`: served, replaced by a fallback, or missed). `SpecBooksAgree` puts the
  three together.
* `SpecNoneLeftOut` is inductive by itself, given the types.
* Assumption: `RunAssumption`.

`AttemptSelectionProofs`, for any set of answers, any entropies and any votes:

* `SelectionInv` (`SelectionInvariant`): while attempts are made no answer has the votes
  of an early stop (`Undecided`); a selection is the ranking of the votes at that moment,
  and one kept after all attempts is still `Undecided` and has no doubt against it. The
  properties say what that ranking and those doubts amount to; `SelectionTypeOK` is the
  types.
* What they need of sums over kinds is shown from the definition of the fold: there is
  a table of the sums of all subsets of a finite set (`PartsExist`, by the least size
  without one), hence a sum is bounded by its terms and additive over parts and grows
  by what one term grows. `RankingExists` is the same for sorting.
* `ScoreLinear`: with its ten roundings, the score of a cluster is within 7 of 10000 of
  a linear form in share, weight, confidence, spread, entropy and disagreement; the
  clamps never bind but the last. What remains is linear arithmetic about quotients.
* `MoreOfEverythingAlwaysWins`, for up to 15 attempts: one vote of 15 is a share of
  0.0666 (`ShareGap`), which outweighs all that spread and entropy can cost
  (`ScoreOver`). `configs/online.yaml` makes 8.
* `KeptIsAlwaysRobust`, if a margin of 0.10 and an agreement of 0.45 are asked for at
  least: one more vote for the winner, however unsure, makes its cluster no smaller part
  and lowers its confidence by 0.5 at the most if it had one vote and by 0.3334 otherwise
  (`Grown`), while the others only shrink (`Shrunk`); that costs less than the margin
  (`MarginHolds`). `configs/online.yaml` asks for 0.12 and 0.60.
* `MinorityAlwaysDoubted`, if batches stop at four votes at the latest and a confidence
  of 0.66 is asked for at least (both as in `configs/online.yaml`): with at most three
  votes each, a winner with fewer votes than another has two against three, or a single
  one; then scores are low or close (`MinorityScores`), and what is left after
  the penalties of `_prediction_confidence` is below 0.66 (`MinorityUnsure`).
* The three hypotheses are sufficient, not necessary: with the defaults of
  `KaggleRunnerConfig` where they are lower (0.62, 0.50, 0.08), the first theorem applies
  and the other two do not, though TLC finds no violation on the instance of the run.
  Assumption: `SelectionAssumption`.

`BudgetPlannerProofs`, with the arithmetic of the code, rounding included:

* `Provided` says that the time of the problem at hand is already provided for: what
  was spent and the cap of the running problem are within the budget and twenty
  seconds for each floor given, and no more floors were given than problems were
  started. It is what makes `KeepsBudget` inductive, since the property itself says
  nothing of a problem that runs.
* `Sound` says of a bundle not made in panic mode that plan and ceilings are above
  the floors of its mode, the plan is under the ceilings, and the growth factors are
  those of the code. Shrinking then goes to a floor below the ceiling, widening is cut
  at the ceiling, and the share of a stage is a rounded quotient (`Rounding`).
* `PanicByClock`: panic that was not there from the start came with the clock, which
  makes it final.
* They give `SpecCeilingsBind`, `SpecKeepsBudget` and the action property
  `SpecAdaptsOneWay`. Assumption: `BudgetAssumption`.

`ServingProofs`:

* `ClientInv`: types, `RunsLatestEngine`, and a running client holds an engine.
  `BenchInv` adds how the records of a run follow from its requests (`RecordsKept`), how
  many runs ended and how many engines each can have left (`RunsCounted`), and that every
  report so far is honest. From it `SpecRunsLatestEngine`, `SpecBenchHonest`, and
  `SpecKeepsPromise`: the client implements `ClientContract`, all of it, since that
  contract has no liveness. Assumptions: `ServingAssumption`, `BenchAssumption`.
* `PlannersAlwaysAgree`, for every model, shape, budget and overhead allowed by
  `SizingAssumption`: a shape is supported by a budget exactly if its footprint is
  within it, and what a budget is said to hold fits; the argument is about two floors of
  quotients, one after the other.

`NemotronProofs`, the documents (`EvidenceChain`): a document names others by hash, and
any of those can be made again, or exchanged for an older one, before the next builder
looks at it.

* `ChainInv` is `ChainTypeOK`, a vault `InOrder` (each document under its own hash) and
  `Truthful`: every document ever made `Says` something true of the vault. What a
  document says is what its builder compared when it was made, by kind: a trained
  smoke report that its manifest has its result and its log (`SmokeSays`), a bridge that
  the promotion it names was allowed and is for the adapter of the bundle it names
  (`BridgeSays`), a gate that is not blocked that the list it names was ticked
  (`GateSays`), and so on.
* The vault only grows and nothing in it changes, so that what was true when a document
  was made stays true (`SaysForever`). `FilingKeeps` shows once what filing does;
  a lemma for each builder then owes only what its own document says
  (`IssueKeeps`), and the documents whose verdicts no other relies on owe nothing
  (`PlainKeeps`).
* The three properties follow the hashes from document to document, each step one
  `Says`: `SpecEvidenceIsOneRun`, `SpecReadyRestsOnPassed`, `SpecReadyIsOneChain`, and
  `SpecChainTypeOK`. They hold for any adapters and configurations and without any bound
  on what goes wrong or is made again. Assumption: `ChainAssumption` (what stands for a
  missing document is no hash).

`NemotronProofs`, the stages (`WinmodeStages`): between the steps of a command, files
can be replaced or lost. `IInv` says what the running command may rely on: the gate it
was started on (`StartedOn`) and the files it has just written (`Written`); that only the micro
experiment has a micro gate and its evaluations pass (`MicroOnly`); and that an
evaluation in a gate is of well-formed answers by an adapter of masked rows
(`EvalGateSound`). A command knows only that the gate before its own passed, if the
orchestrator started it (`Writing`); that the gates below do as well (`GatesChained`) is
kept because the new gate goes on top of one that has them (`ChainKept`), also where it
replaces one written by hand. Which steps change a gate, and which one, is
`GateChanges`. A verdict is on the adapter on disk because the summary that the running
command has just written is of the training of that adapter (`Written`). From these
`SpecTypeOK`, `SpecGatesChained`, `SpecTrainedMasked` and `SpecVerdictRests`. The assumption, `FilesAssumption`, is that a file written whole can
be read.

Only model-checked:

* Liveness under fairness: `Terminates` of `BranchSearch`, and what the contracts
  `SearchContract`, `SolveContract` and `VoteContract` promise in the end. The prover
  has no support for it; the safety part of each of these refinements is proved.
* `ProofStatePreserved` is violated, see the finding.

## Abstractions

* Texts, ids, confidences and scores. A fork gets a fresh identity; the code hashes
  parent, label and step count, which is fresh as long as operator labels of one
  expansion differ.
* `rollback_to_step_prefix` has no caller.
* The planners of repair and resampling rank candidates; the model takes any
  candidate they may return. A repair keeps any proper prefix of the steps.
* REASONING stands for REPAIRED as well in `BranchSearch`: the loop treats both
  alike.
* The aggregation hook gets the survivors and is a pure function of them.
* `EvidenceChain`: what a configuration allows in a preflight and in a rehearsal is
  one set of flags; artifacts are audited at the moment of the preflight; a root path
  is given; the zip built inside a package rehearsal is not filed as a report of its
  own; at most one of the exams of a promotion is bad; the items of a checklist are
  ticked together. Hashes of serving configurations, claims in metadata and the search
  for forbidden text are left out. All a backend says beside its outcome is one value, its
claim.
* `AttemptSelection`: no proxy entropies, and the switch
  `minimal_mode_allow_post_attempt_escalation` is on.
* `WinmodeStages`: one experiment at a time, `backend_probe` left out, sizes of
  adapters and manifests beside the gates left out. A training is told from those an
  evaluation on disk is of, no other.

## Not modelled

* `verifier`, `prm`, `symbolic`, `retrieval`, `routing`, `parsing`, `operators`,
  `branches/failure_classifier.py`: scoring and computer algebra on floating-point
  features and texts, without state between calls. The models take any answer they
  may give.
* `state_graph`: its only caller inserts one node into an empty store.
* `offline` (distillation, mining, training data): transformations of data sets that
  read files and write files once.
* `nemotron_engine` solvers, programs and `sprint_solvers`: pure functions from puzzles
  to answers; what would be checked of them is their arithmetic, input by input. The
  registry of locked passes is a constant.
* `aggregation` outside the final selector: canonical forms of answers and clusters of
  equivalent ones are computer algebra on texts.
* Scripts of `kaggle_sprint4`, `kaggle_emergency`, `kaggle_vex_progress` and
  `cloud_anti086`: straight lines around one training or evaluation, nothing of which
  is read by a later command; notebooks, packaging and the making of corpora.
* `clean_sprint10_1_baseline` and `artifacts`: frozen copies and reports.

## Plan

1. (done) `BranchState`, `BranchLineage` and their proofs; `BranchSearch`,
   `SearchContract`.
2. (done) `ToolSession`, `AttemptBatch`, `VoteContract`.
3. (done) `SolvePipeline`, `SolveContract`, `RecordRun`.
4. (done) `BudgetPlanner`.
5. (done) `ServingClient`, `ClientContract`, `ThroughputBench`, `CacheSizing`.
6. (done) `TrainingDocs`, `GateDocs`, `RehearsalDocs`, `RunbookDocs`, `EvidenceChain`.
7. (done) `AttemptSelection`.
8. (done) `WinmodeStages`.
9. (done) Proofs of `BranchLineage`, `BranchSearch`, `AttemptBatch`, `SolvePipeline`,
   `RecordRun`, `BudgetPlanner`, `ThroughputBench`, `CacheSizing`, `WinmodeStages`,
   `EvidenceChain` and `AttemptSelection`.
10. Next: lower thresholds for the theorems of `AttemptSelection`, down to the defaults
   of `KaggleRunnerConfig`, and the proxy entropies it leaves out.
