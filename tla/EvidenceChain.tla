--------------------------- MODULE EvidenceChain ---------------------------
(***************************************************************************)
(* The operator's way from a smoke training run to a ready submission      *)
(* (passes 8 to 15 of the nemotron engine).  Every document is immutable   *)
(* and content-addressed: vault keeps all that were ever made, and desk    *)
(* says which one of each kind the operator now hands to the builders.     *)
(* Nothing invalidates a document when what it was made from is made       *)
(* again, so any builder may meet documents of different runs.  The kinds  *)
(* are first made in Order; each can be made again at any later time.  A   *)
(* builder that raises changes nothing: its action is not enabled.         *)
(***************************************************************************)
EXTENDS RunbookDocs, Naturals, Sequences

CONSTANTS Weights,      \* what a training run can leave in the directory
          Claims,       \* what a backend can say of a training run
          Takes,        \* what tells two evaluations of an adapter apart
          FlagSets,     \* the rehearsal configurations
          MaxRebuilds,  \* how often a document is replaced by a different one
          MaxSlips      \* how often something goes wrong or is left out

\* A missing document has no hash.
ASSUME ChainAssumption == MaxRebuilds \in Nat /\ MaxSlips \in Nat /\ None \notin Nat

VARIABLES flags,        \* the rehearsal configuration
          disk,         \* the adapter directory
          vault,        \* every document made, by kind
          desk,         \* the document of each kind in use, 0 for none
          pos,          \* the first kind in Order not reached yet
          rebuilds, slips
chainVars == <<flags, disk, vault, desk, pos, rebuilds, slips>>

Order == << "smoke", "adapter", "handoff", "evidence", "exams", "promotion",
            "inference", "bridge", "manifest", "build", "runtime", "preflight",
            "release", "package", "loading", "submission", "final", "config",
            "commands", "list", "gate", "repro", "approval", "recovery", "record",
            "operations" >>
\* The training manifest is made by the smoke run itself.
Kinds    == { Order[i] : i \in DOMAIN Order } \cup {"training"}
Optional == {"handoff", "manifest", "build", "runtime", "preflight", "release",
             "approval", "record"}

\* What the configuration lets an operator leave out.
Waived == (IF flags.preflight THEN {} ELSE {"build", "preflight"})
          \cup (IF flags.release THEN {} ELSE {"release"})
          \cup (IF flags.unloaded THEN {"runtime"} ELSE {})

Doc(k)  == IF desk[k] = 0 THEN None ELSE vault[k][desk[k]]
Have(K) == \A k \in K : desk[k] # 0

\* Two documents of a kind with the same content are one document.
Filed(k, content) ==
    LET same == {i \in DOMAIN vault[k] : \A f \in DOMAIN content : vault[k][i][f] = content[f]}
        hash == IF same = {} THEN Len(vault[k]) + 1 ELSE CHOOSE i \in same : TRUE
    IN  [f \in DOMAIN content \cup {"hash"} |-> IF f = "hash" THEN hash ELSE content[f]]

(***************************************************************************)
(* It is the turn of kind k: in the first pass, or to make it again.       *)
(***************************************************************************)
Turn(k) ==
    \/ /\ pos \in DOMAIN Order /\ Order[pos] = k
       /\ pos' = pos + 1
       /\ UNCHANGED rebuilds
    \/ /\ rebuilds < MaxRebuilds
       /\ \E i \in 1 .. (pos - 1) : Order[i] = k
       /\ rebuilds' = rebuilds + 1
       /\ UNCHANGED pos

\* File the documents made (a function from kinds); making one again counts
\* when it makes a difference.
File(docs) ==
    /\ desk'  = [x \in Kinds |-> IF x \in DOMAIN docs THEN docs[x].hash ELSE desk[x]]
    /\ pos' = pos => desk' # desk
    /\ vault' = [x \in Kinds |-> IF x \in DOMAIN docs /\ docs[x].hash > Len(vault[x])
                                 THEN Append(vault[x], docs[x]) ELSE vault[x]]

\* A step that goes wrong (or is not done as it should) costs a slip.
Slip(wrong) ==
    /\ wrong => slips < MaxSlips
    /\ slips' = slips + (IF wrong THEN 1 ELSE 0)

Issue(k, content, wrong) ==
    /\ Turn(k)
    /\ Slip(wrong)
    /\ File([x \in {k} |-> Filed(k, content)])
    /\ UNCHANGED <<flags, disk>>

ChainInit ==
    /\ flags \in FlagSets
    /\ disk = [weights |-> None, tidy |-> FALSE]
    /\ vault = [k \in Kinds |-> << >>]
    /\ desk = [k \in Kinds |-> 0]
    /\ pos = 1
    /\ rebuilds = 0
    /\ slips = 0

\* What is left on disk by a backend call: nothing new unless it wrote files.
DiskAfter(outcome) ==
    CASE outcome = "trained" -> [weights : Weights, tidy : BOOLEAN]
      [] outcome = "raised"  -> {disk} \cup [weights : Weights, tidy : {FALSE}]
      [] OTHER               -> {disk}

\* The documents of a smoke run: adapter report, training manifest, smoke report.
SmokeDocs(outcome, dir, claim, log) ==
    LET result   == BackendResult(outcome, claim)
        report   == Filed("adapter", AdapterReport(dir))
        checked  == outcome = "trained"
        logged   == IF outcome \in {"trained", "idle"} THEN log ELSE None
        trained  == BackendTrained(result, dir) /\ log
        manifest == Filed("training", TrainingManifest(result, report, logged))
        smoke    == SmokeReport(result, IF checked THEN report ELSE None, logged,
                                IF trained THEN manifest ELSE None)
        made     == {"smoke"} \cup (IF checked THEN {"adapter"} ELSE {})
                              \cup (IF trained THEN {"training"} ELSE {})
    IN  [k \in made |-> CASE k = "smoke"    -> Filed("smoke", smoke)
                          [] k = "adapter"  -> report
                          [] k = "training" -> manifest]

RunSmoke ==
    \E outcome \in {"dry", "raised", "idle", "trained"} :
      \E dir \in DiskAfter(outcome), claim \in Claims, log \in BOOLEAN :
        /\ Turn("smoke")
        /\ Slip(outcome # "trained" \/ ~dir.tidy \/ ~log)
        /\ outcome \in {"dry", "raised"} => log
        /\ disk' = dir
        /\ File(SmokeDocs(outcome, dir, claim, log))
        /\ UNCHANGED flags

MakeAdapterReport == Issue("adapter", AdapterReport(disk), FALSE)

\* An optional document is not made.
GoWithout ==
    /\ pos \in DOMAIN Order /\ Order[pos] \in Optional
    /\ pos' = pos + 1
    /\ Slip(Order[pos] \notin Waived)
    /\ UNCHANGED <<flags, disk, vault, desk, rebuilds>>

\* Another document of a kind, made earlier or later, is handed over instead.
TakeAnother ==
    /\ rebuilds < MaxRebuilds
    /\ rebuilds' = rebuilds + 1
    /\ \E k \in Kinds : \E i \in DOMAIN vault[k] \ {desk[k]} : desk' = [desk EXCEPT ![k] = i]
    /\ UNCHANGED <<flags, disk, vault, pos, slips>>

MakeHandoff ==
    /\ Have({"smoke"})
    /\ ~HandoffRefused(Doc("smoke"))
    /\ \E adapter \in Weights :
         Issue("handoff", Handoff(Doc("smoke"), adapter), adapter # disk.weights)

MakeEvidence ==
    /\ Have({"adapter"})
    /\ ~EvidenceRefused(Doc("adapter"))
    /\ Issue("evidence", Evidence(flags, Doc("adapter"), Doc("training"), Doc("smoke"),
                                  Doc("handoff")), FALSE)

\* The evaluation reports of the adapter, at most one of them bad: exact rewards,
\* transfer and private evaluation, regressions, and the firewall's decision.
MakeExams ==
    \E take \in Takes, bad \in {"none", "firewall", "exact", "transfer", "private", "regression"} :
        Issue("exams", [take       |-> take,
                        firewall   |-> IF bad = "firewall" THEN "investigate" ELSE "allow",
                        exact      |-> bad # "exact",
                        transfer   |-> bad # "transfer",
                        private    |-> bad # "private",
                        regression |-> bad # "regression"],
              bad # "none")

\* The adapter the decision is about is the caller's word.
MakePromotion ==
    /\ Have({"exams"})
    /\ \E adapter \in Weights \cup {None} :
         /\ ~PromotionRefused(adapter)
         /\ Issue("promotion", Promotion(Doc("exams"), adapter),
                  adapter # Doc("evidence").adapter)

MakeInference ==
    \E bad \in {"none", "transfer", "private", "exact", "dry"} :
        Issue("inference", Inference([transfer |-> bad # "transfer",
                                      private  |-> IF bad = "private" THEN None ELSE TRUE,
                                      exact    |-> bad # "exact",
                                      dry      |-> bad = "dry"], flags.private),
              bad # "none")

MakeBridge ==
    /\ Have({"promotion", "exams", "inference", "evidence"})
    /\ Issue("bridge", Bridge(flags, Doc("promotion"), Doc("exams"), Doc("inference"),
                              Doc("evidence")), FALSE)

MakeManifest ==
    /\ Have({"promotion"})
    /\ ~ManifestRefused(disk)
    /\ \E adapter \in Weights \cup {None}, lora \in BOOLEAN :
         Issue("manifest", SubmissionManifest(disk, adapter, Doc("promotion"), lora),
               adapter # Doc("promotion").adapter \/ ~lora)

MakeBuild ==
    /\ Have({"manifest"})
    /\ \E dry \in BOOLEAN : Issue("build", PackageBuild(Doc("manifest"), disk, dry), dry)

MakeRuntime ==
    \E backend \in {"absent", "fails", "loads"}, dry \in BOOLEAN :
        /\ ~RuntimeRefused(backend, dry)
        /\ Issue("runtime", RuntimeReport(Doc("manifest"), disk, backend, flags.unloaded, dry),
                 backend # "loads")

MakePreflight ==
    /\ Have({"manifest", "build", "runtime", "promotion", "exams"})
    /\ Issue("preflight", Preflight(flags, Doc("manifest"), Doc("build"), Doc("runtime"),
                                    Doc("promotion"), Doc("exams"), disk), FALSE)

MakeRelease ==
    \E safe, suite \in BOOLEAN :
        Issue("release", ReleaseCandidate(Doc("promotion"), Doc("preflight"), safe, suite),
              ~(safe /\ suite))

MakePackage ==
    /\ Have({"evidence", "bridge"})
    /\ Issue("package", PackageRehearsal(flags, Doc("evidence"), Doc("bridge"), Doc("manifest"),
                                         Doc("build"), disk), FALSE)

MakeLoading ==
    /\ Have({"evidence", "package"})
    /\ ~LoadingRefused(flags, Doc("evidence"), Doc("package"), Doc("runtime"))
    /\ Issue("loading", RuntimeRehearsal(flags, Doc("evidence"), Doc("package"), Doc("runtime")),
             FALSE)

MakeSubmission ==
    /\ Have({"bridge", "package", "loading"})
    /\ Issue("submission", SubmissionRehearsal(flags, Doc("bridge"), Doc("package"),
                                               Doc("loading"), Doc("preflight"),
                                               Doc("release")), FALSE)

MakeFinal ==
    /\ Have({"evidence", "bridge", "package", "loading", "submission"})
    /\ Issue("final", FinalRehearsal(flags, Doc("evidence"), Doc("bridge"), Doc("package"),
                                     Doc("loading"), Doc("submission")), FALSE)

MakeConfig ==
    \E needFinal, needLock \in BOOLEAN :
        LET pins == HashOrNone(Doc("final"))
        IN  /\ ~ConfigRefused(needFinal, pins)
            /\ Issue("config", RunbookConfig(needFinal, needLock, pins),
                     ~(needFinal /\ needLock))

MakeCommands ==
    Have({"config"}) /\ Issue("commands", CommandManifest(Doc("config")), FALSE)

MakeChecklist ==
    /\ Have({"config"})
    /\ \E checked \in BOOLEAN : Issue("list", Checklist(Doc("config"), checked), ~checked)

MakeGate ==
    /\ Have({"config", "commands", "list"})
    /\ ~GateRefused(Doc("config"), Doc("commands"), Doc("list"))
    /\ \E failed \in BOOLEAN :
         Issue("gate", BlockerGate(Doc("config"), Doc("commands"), Doc("list"), Doc("final"),
                                   Doc("release"), failed), failed)

MakeRepro ==
    /\ Have({"config", "commands", "list", "gate"})
    /\ ~ReproRefused(Doc("config"), Doc("commands"), Doc("list"), Doc("gate"))
    /\ Issue("repro", Reproducibility(Doc("config"), Doc("commands"), Doc("list"), Doc("gate")),
             FALSE)

MakeApproval ==
    /\ Have({"config", "gate", "repro"})
    /\ \E acknowledged \in BOOLEAN :
         Issue("approval", Approval(Doc("config"), Doc("gate"), Doc("repro"), acknowledged),
               ~acknowledged)

MakeRecovery ==
    Have({"config"}) /\ Issue("recovery", RecoveryPlan(Doc("config")), FALSE)

MakeRecord ==
    /\ Have({"approval", "repro"})
    /\ \E performed \in BOOLEAN :
         Issue("record", SubmissionRecord(Doc("approval"), Doc("repro"), performed), ~performed)

MakeOperations ==
    /\ Have({"config", "commands", "list", "gate", "repro", "recovery"})
    /\ ~OperationsRefused(Doc("config"), Doc("commands"), Doc("list"), Doc("gate"), Doc("repro"),
                          Doc("recovery"), Doc("approval"), Doc("record"))
    /\ Issue("operations", Operations(Doc("config"), Doc("commands"), Doc("list"), Doc("gate"),
                                      Doc("repro"), Doc("recovery"), Doc("approval"),
                                      Doc("record")), FALSE)

ChainNext ==
    \/ RunSmoke \/ MakeAdapterReport \/ MakeHandoff \/ MakeEvidence
    \/ MakeExams \/ MakePromotion \/ MakeInference \/ MakeBridge
    \/ MakeManifest \/ MakeBuild \/ MakeRuntime \/ MakePreflight \/ MakeRelease
    \/ MakePackage \/ MakeLoading \/ MakeSubmission \/ MakeFinal
    \/ MakeConfig \/ MakeCommands \/ MakeChecklist \/ MakeGate \/ MakeRepro
    \/ MakeApproval \/ MakeRecovery \/ MakeRecord \/ MakeOperations
    \/ GoWithout \/ TakeAnother

ChainSpec == ChainInit /\ [][ChainNext]_chainVars
-----------------------------------------------------------------------------
\* The document of kind k with the given hash.
Named(k, hash) == IF hash = None THEN None ELSE vault[k][hash]

\* All documents of kind k that were ever made.
Made(k) == { vault[k][i] : i \in DOMAIN vault[k] }

(***************************************************************************)
(* The vault is sound: a document is filed under its own hash, a hash      *)
(* names one content, and what is on the desk is in the vault.             *)
(***************************************************************************)
ChainTypeOK ==
    /\ flags \in FlagSets
    /\ disk \in [weights : Weights \cup {None}, tidy : BOOLEAN]
    /\ \A k \in Kinds :
         /\ \A i \in DOMAIN vault[k] : vault[k][i].hash = i
         /\ desk[k] \in 0 .. Len(vault[k])
         /\ desk[k] = 0 => vault[k] = << >>
    /\ pos \in 1 .. (Len(Order) + 1)
    /\ rebuilds \in 0 .. MaxRebuilds
    /\ slips \in 0 .. MaxSlips

(***************************************************************************)
(* The documents behind a complete bundle are those of one smoke run: one  *)
(* validated adapter, one training manifest, one log, whatever was made    *)
(* again in between (adapter_evidence.py).  The hashes the backend claimed *)
(* for its files are not among what agrees: nothing looks at them.         *)
(***************************************************************************)
EvidenceIsOneRun ==
    \A e \in Made("evidence") :
        (flags.smoke /\ e.complete) =>
            LET report   == Named("adapter", e.report)
                manifest == Named("training", e.manifest)
                smoke    == Named("smoke", e.smoke)
                handoff  == Named("handoff", e.handoff)
            IN  /\ report.passed /\ report.adapter = e.adapter
                /\ smoke.trained
                /\ smoke.manifest = manifest.hash
                /\ smoke.result = manifest.result
                /\ smoke.log = manifest.log
                /\ {manifest.adapter, handoff.adapter} = {e.adapter}
                /\ handoff.manifest = manifest.hash

(***************************************************************************)
(* A ready final rehearsal, however its five documents were mixed, rests   *)
(* on passed ones all the way down: an allowed promotion and a complete    *)
(* bundle for the adapter and the decision the manifest was packaged for   *)
(* (rehearsal_manifest.py).                                                *)
(***************************************************************************)
ReadyRestsOnPassed ==
    \A r \in Made("final") :
        r.ready =>
            \A p \in {Named("package", r.package),
                      Named("package", Named("loading", r.loading).package),
                      Named("package", Named("submission", r.submission).package)} :
                LET evidence == Named("evidence", p.evidence)
                    bridge   == Named("bridge", p.bridge)
                    manifest == Named("manifest", p.manifest)
                    promoted == Named("promotion", bridge.promotion)
                IN  /\ evidence.complete
                    /\ manifest.adapter = evidence.adapter
                    /\ manifest.promotion = bridge.promotion
                    /\ promoted.allow
                    /\ Named("exams", promoted.exams).exact
                    /\ Named("evidence", bridge.evidence).complete
                    /\ promoted.adapter = Named("evidence", bridge.evidence).adapter

(***************************************************************************)
(* A ready operations manifest is one chain: the approval was given on     *)
(* this gate, unblocked, and on the reproducibility manifest of this very  *)
(* gate; the checklist was ticked, no command failed, and the pinned       *)
(* rehearsal was ready where one is required - all for one configuration   *)
(* (final_operations_manifest.py).                                         *)
(***************************************************************************)
ReadyIsOneChain ==
    \A o \in Made("operations") :
        o.ready =>
            LET gate     == Named("gate", o.gate)
                repro    == Named("repro", o.repro)
                approval == Named("approval", o.approval)
                config   == Named("config", o.config)
            IN  /\ repro.gate = o.gate
                /\ approval.gate = o.gate /\ approval.repro = o.repro
                /\ {gate.config, repro.config, approval.config} = {o.config}
                /\ Named("list", o.list).checked /\ gate.list = o.list
                /\ ~gate.failed
                /\ config.needFinal \/ config.needLock =>
                     gate.final = config.pins /\ Named("final", config.pins).ready
                /\ gate.release # None => Named("release", gate.release).ready
                /\ o.record # None => Named("record", o.record).approval = o.approval
=============================================================================
