--------------------------- MODULE WinmodeStages ---------------------------
(* The stages of one experiment of kaggle_anti086: tokens are prepared, an    *)
(* adapter is trained and evaluated, each stage by a command of its own that  *)
(* finds what the earlier ones left on disk. A stage of the orchestrator      *)
(* starts only after a PASS gate of the stage before; the scripts it calls    *)
(* can also be run by hand, and write the same gate files. A command may      *)
(* raise at any point and the machine may be lost at any point; what was      *)
(* written stays, and a file that was being written may be left torn.         *)
EXTENDS Naturals

CONSTANTS Missing,  \* what is read of a file that is not there,
          Torn,     \* and of one that was being written when the machine was lost
          Nothing,  \* the rest of a gate that no later stage reads
          Trainings \* what tells one training from another

Experiments == {"micro", "v1", "v1b"}
Unreadable == {Missing, Torn}

(* Whether there are rows, all masked, and not too many of them cut off. *)
TokenFiles == {"none", "good", "truncated", "unmasked"}

(* An adapter: of which training, on masked rows, of a rank above 16. *)
Adapters == [run : Trainings, masked : BOOLEAN, wide : BOOLEAN]

(* An evaluation: of the adapter of which training, how much the parent got   *)
(* right, how the child compares, and whether outputs are there, not copied   *)
(* from the prompt, and well formed. The file itself names the path of the    *)
(* adapter only: no step reads "of".                                          *)
Evaluations == [of : Trainings,
                parent : {"missing", "zero", "some"}, child : {"zero", "worse", "fine"},
                healthy : BOOLEAN, masked : BOOLEAN]

Stages == {"validate", "prepare", "train", "eval", "micro_gate"}
Previous == [prepare |-> "validate", train |-> "prepare", eval |-> "train", micro_gate |-> "eval"]
Earlier == [validate |-> {}, prepare |-> {"validate"}, train |-> {"validate", "prepare"},
            eval |-> {"validate", "prepare", "train"},
            micro_gate |-> {"validate", "prepare", "train", "eval"}]
StagesOf(e) == IF e = "micro" THEN Stages ELSE Stages \ {"micro_gate"}

Gates == [decision : {"PASS", "FAIL"}, says : {Nothing} \cup [wide : BOOLEAN] \cup Evaluations]
Gate(decision, says) == [decision |-> decision, says |-> says]

(* What was written whole can be read. *)
ASSUME FilesAssumption == Unreadable \cap (Adapters \cup Evaluations \cup Gates) = {}

(* A command is where it is in its work, and who started it; Idle is none. *)
Idle == [at |-> "idle", by |-> "nobody"]
Begins(e) == [validate |-> "validate", prepare |-> IF e = "v1b" THEN "calibrate" ELSE "refresh",
              train |-> "train", eval |-> "eval", micro_gate |-> "sum_up"]
Scripts(e) == {"tokens", "train", "eval"} \cup (IF e = "v1b" THEN {"calibrate"} ELSE {})
Following == [calibrate |-> "refresh", refresh |-> "tokens", tokens |-> "check_tokens",
              train |-> "check_adapter", check_adapter |-> "confirm",
              eval |-> "check_summary", check_summary |-> "judge"]
ByHandEnds == {"calibrate", "tokens", "check_adapter", "check_summary"}

VARIABLES exp,      \* the experiment
          parent,   \* parent_adapter_path in its configuration file; own is the child's
          gates,    \* the gate file of each stage
          tokens,   \* train_tokens.jsonl, as far as it can be read
          adapter,  \* the adapter directory
          summary,  \* eval_summary.json
          proc,     \* the command that runs
          handed    \* the stages whose gate was last written by a script that
                    \* was run by hand: read by no step
files == <<parent, gates, tokens, adapter, summary>>
vars == <<exp, files, proc, handed>>

Readable(file) == file \notin Unreadable
(* require_previous (AllowedAlways: left out). *)
Passed(stage) == Readable(gates[stage]) /\ gates[stage].decision = "PASS"
AllowedAlways(stage) == TRUE
Allowed(stage) == stage \in DOMAIN Previous => Passed(Previous[stage])

(* The program ends, having done its part or by raising. *)
Stop == proc' = Idle
GoOn == proc' = IF proc.at \notin DOMAIN Following
                   \/ (proc.by = "hand" /\ proc.at \in ByHandEnds)
                THEN Idle ELSE [proc EXCEPT !.at = Following[proc.at]]
Raise == Stop /\ UNCHANGED <<exp, files, handed>>
At(step) == proc.at = step

(* A gate is written, by whom is remembered. *)
LeaveGate(stage, gate) ==
  /\ gates' = [gates EXCEPT ![stage] = gate]
  /\ handed' = IF proc.by = "hand" THEN handed \cup {stage} ELSE handed \ {stage}
WriteGate(stage, gate) ==
  /\ LeaveGate(stage, gate)
  /\ GoOn
  /\ UNCHANGED <<exp, parent, tokens, adapter, summary>>

Init == /\ exp \in Experiments
        /\ parent \in {"none", "auto_or_none", "path"}
        /\ gates = [s \in Stages |-> Missing]
        /\ tokens = "none" /\ adapter = Missing /\ summary = Missing
        /\ proc = Idle /\ handed = {}

Start == /\ proc = Idle
         /\ \E stage \in StagesOf(exp) :
              /\ Allowed(stage)
              /\ proc' = [at |-> Begins(exp)[stage], by |-> "orchestrator"]
         /\ UNCHANGED <<exp, files, handed>>

StartByHand == /\ proc = Idle
               /\ \E step \in Scripts(exp) : proc' = [at |-> step, by |-> "hand"]
               /\ UNCHANGED <<exp, files, handed>>

(* The parent is looked for when the configuration names none, and entered    *)
(* into the configuration before it is known whether it can be compared with. *)
(* What is looked for is any adapter, also the one trained here before.       *)
Discovered == {"path"} \cup {"own" : file \in {adapter} \ {Missing}}
Calibrate == /\ At("calibrate") /\ Readable(parent)
             /\ parent' \in IF parent \in {"path", "own"} THEN {parent} ELSE Discovered
             /\ GoOn \/ Stop
             /\ UNCHANGED <<exp, gates, tokens, adapter, summary, handed>>

(* Before tokens are made the input is validated anew. *)
Validate == /\ proc.at \in {"validate", "refresh"}
            /\ WriteGate("validate", Gate("PASS", Nothing))

(* Rows are written as they are made; the masks are looked at in the end. *)
MakeTokens == /\ At("tokens") /\ Readable(parent)
              /\ tokens' \in TokenFiles
              /\ Stop \/ (tokens' # "unmasked" /\ GoOn)
              /\ UNCHANGED <<exp, parent, gates, adapter, summary, handed>>

CheckTokens == /\ At("check_tokens") /\ tokens = "good"
               /\ WriteGate("prepare", Gate("PASS", Nothing))

(* Training looks at the masks of what it is given (TrainableUnseen: it        *)
(* trusts the preparation).                                                   *)
TrainableUnseen(file) == file # "none"
Trainable(file) == file \in {"good", "truncated"}
Configured == Readable(parent) /\ parent # "auto_or_none"

(* An adapter continued from a parent has the parent's rank. *)
Ranks == CASE parent = "path" -> BOOLEAN
           [] parent = "own"  -> {a.wide : a \in {adapter} \ Unreadable}
           [] OTHER           -> {exp = "micro"}

(* A training is not one that an evaluation on disk is of already. *)
Evaluated == {result.of : result \in {summary} \ Unreadable}
             \cup {gate.says.of : gate \in {gates["eval"]} \ Unreadable}

Train == /\ At("train") /\ Configured /\ Trainable(tokens)
         /\ \E run \in Trainings \ Evaluated, wide \in Ranks :
              adapter' = [run |-> run, masked |-> tokens # "unmasked", wide |-> wide]
         /\ GoOn \/ Stop
         /\ UNCHANGED <<exp, parent, gates, tokens, summary, handed>>

CheckAdapter == /\ At("check_adapter")
                /\ WriteGate("train", Gate("PASS", [wide |-> adapter.wide]))

ConfirmTraining == /\ At("confirm")
                   /\ WriteGate("train", Gate("PASS", [wide |-> adapter.wide]))

Eval == /\ At("eval") /\ Configured /\ Readable(adapter)
        /\ \E result \in Evaluations :
             /\ (result.parent = "missing") = (parent = "none")
             /\ result.parent # "some" => result.child # "worse"
             /\ parent = "own" => result.child = IF result.parent = "zero" THEN "zero" ELSE "fine"
             /\ result.of = adapter.run /\ result.masked = adapter.masked
             /\ summary' = result
        /\ GoOn
        /\ UNCHANGED <<exp, parent, gates, tokens, adapter, handed>>

(* v1_gate_status of an evaluation. *)
GateStatus(e, result) ==
  CASE e # "micro" /\ result.parent = "missing" -> "INCONCLUSIVE_PARENT_MISSING"
    [] e # "micro" /\ result.parent = "zero"    -> "INVALID_EVAL_PARENT_ZERO"
    [] e # "micro" /\ result.child = "zero"     -> "FAIL_CHILD_ZERO"
    [] result.parent = "some" /\ result.child # "fine" -> "FAIL_CHILD_REGRESSED"
    [] OTHER -> "V1_EVAL_COMPLETE_NOT_PACKAGEABLE"

(* The test for "eval_v1" in the path of the summary never holds under the    *)
(* directories of the configurations, so only v1b is compared with a parent.  *)
ValidSummary(e, result) ==
  /\ result.healthy
  /\ e = "v1b" => result.parent = "some" /\ result.child # "zero"

CheckSummary == /\ At("check_summary") /\ ValidSummary(exp, summary)
                /\ WriteGate("eval", Gate("PASS", summary))

Refused == [micro |-> {},
            v1  |-> {"INCONCLUSIVE_PARENT_MISSING", "FAIL_CHILD_REGRESSED"},
            v1b |-> {"INCONCLUSIVE_PARENT_MISSING", "FAIL_CHILD_REGRESSED",
                     "INVALID_EVAL_PARENT_ZERO", "FAIL_CHILD_ZERO"}]

Judge == /\ At("judge")
         /\ WriteGate("eval", Gate(IF GateStatus(exp, summary) \in Refused[exp] THEN "FAIL" ELSE "PASS",
                                   summary))

MicroGate == /\ At("sum_up") /\ Readable(gates["eval"]) /\ Readable(gates["train"])
             /\ WriteGate("micro_gate", Gate(IF gates["eval"].says.healthy THEN "PASS" ELSE "FAIL",
                                             Nothing))

(* What a command may raise before it has written anything                    *)
(* (RaisesUnnoticed: the orchestrator does not look whether the evaluation    *)
(* script failed).                                                            *)
RaisesUnnoticed ==
  \/ proc # Idle /\ Raise
  \/ /\ At("eval") /\ proc.by = "orchestrator" /\ Readable(summary)
     /\ proc' = [proc EXCEPT !.at = "judge"]
     /\ UNCHANGED <<exp, files, handed>>
Raises == proc # Idle /\ Raise

(* The machine is lost: what was being written may be torn, and of a file of  *)
(* rows any part may be there.                                                *)
WritesGate == [validate |-> "validate", refresh |-> "validate", check_tokens |-> "prepare",
               check_adapter |-> "train", confirm |-> "train",
               check_summary |-> "eval", judge |-> "eval", sum_up |-> "micro_gate"]
Lost ==
  /\ Stop
  /\ \/ /\ At("calibrate") /\ parent' = Torn
        /\ UNCHANGED <<gates, handed, tokens, adapter, summary>>
     \/ /\ At("tokens") /\ tokens' \in TokenFiles
        /\ UNCHANGED <<parent, gates, handed, adapter, summary>>
     \/ /\ At("train") /\ adapter' = Torn
        /\ UNCHANGED <<parent, gates, handed, tokens, summary>>
     \/ /\ At("eval") /\ summary' = Torn
        /\ UNCHANGED <<parent, gates, handed, tokens, adapter>>
     \/ /\ proc.at \in DOMAIN WritesGate
        /\ LeaveGate(WritesGate[proc.at], Torn)
        /\ UNCHANGED <<parent, tokens, adapter, summary>>
  /\ UNCHANGED exp

Next == \/ Start \/ StartByHand
        \/ Calibrate \/ Validate \/ MakeTokens \/ CheckTokens
        \/ Train \/ CheckAdapter \/ ConfirmTraining
        \/ Eval \/ CheckSummary \/ Judge \/ MicroGate
        \/ Raises \/ Lost

Spec == Init /\ [][Next]_vars

-----------------------------------------------------------------------------
(* What the final selector makes of the gates: no reason against the child.   *)
BadStatuses == Refused["v1b"]
NoReasons(e) ==
  /\ Passed("train") /\ Passed("eval")
  /\ ~gates["train"].says.wide
  /\ GateStatus(e, gates["eval"].says) \notin BadStatuses
  /\ gates["eval"].says.parent # "missing"

(* The stages above t, up to s. *)
Above(t, s) == {u \in {s} \cup Earlier[s] : t \in Earlier[u]}

(* Under a gate file of any kind, also a torn one or a FAIL, are the gates of *)
(* the stages before, each PASS or torn since, whatever raised or was lost or *)
(* run again: down to the validation of the input, or to the first gate that  *)
(* a script wrote that was run by hand and asked for none (require_previous,  *)
(* write_gate). It says nothing of the files: those can be made again.        *)
GatesChained ==
  \A s \in Stages : \A t \in Earlier[s] :
    gates[s] # Missing /\ handed \cap Above(t, s) = {} => gates[t] = Torn \/ Passed(t)

(* No adapter is trained on prompts, also when tokens were made again after   *)
(* the gate of the preparation had passed and the second time went wrong      *)
(* (load_token_rows looks again).                                             *)
TrainedMasked ==
  /\ Readable(adapter) => adapter.masked
  /\ Readable(summary) => summary.masked

(* When the gate of an evaluation is written and leaves the selector nothing  *)
(* against the child, the adapter then on disk is the one evaluated, not one  *)
(* of an earlier training whose summary was left there; it was trained on     *)
(* masked rows, answered in good form and was no worse than a parent that     *)
(* gets something right (which may be the adapter itself, where calibration   *)
(* discovered it): also when the PASS of the script is the last word because  *)
(* the orchestrator was lost before it judged, or was never asked.            *)
VerdictRests ==
  [][exp # "micro" /\ gates'["eval"] # gates["eval"] /\ NoReasons(exp)' =>
       LET result == gates'["eval"].says
       IN  /\ Readable(adapter) /\ adapter.masked /\ result.of = adapter.run
           /\ result.healthy /\ result.parent = "some" /\ result.child = "fine"]_vars

=============================================================================
