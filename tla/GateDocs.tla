------------------------------ MODULE GateDocs ------------------------------
(***************************************************************************)
(* Pass 8, 9, 10 and 13 of the nemotron engine: the promotion decision,    *)
(* the inference evaluation, the submission manifest, the package, the     *)
(* runtime validation, the preflight gate and the release candidate.       *)
(* Documents, hashes and the adapter directory are those of TrainingDocs.  *)
(***************************************************************************)
EXTENDS TrainingDocs

(***************************************************************************)
(* The promotion gate allows when every report passed and the firewall     *)
(* says "allow" ("investigate" is an unresolved investigation).  A missing *)
(* adapter hash does not reject: the report itself is refused.             *)
(***************************************************************************)
PromotionRefused(adapter) == adapter = None

\* Of the five reports, the three that are handed to the bridge again, and the
\* one handed to the preflight gate.
ExactReport(exams)   == [take |-> exams.take, exact |-> exams.exact]
BridgeReports(exams) == [take |-> exams.take, exact |-> exams.exact,
                         transfer |-> exams.transfer, private |-> exams.private]

Promotion(exams, adapter) ==
    [exams   |-> exams.hash, inputs |-> BridgeReports(exams),
     adapter |-> adapter,
     allow   |-> /\ exams.exact /\ exams.transfer /\ exams.private
                 /\ exams.regression
                 /\ exams.firewall = "allow"]

(***************************************************************************)
(* The inference evaluation: run is [transfer, private, exact, dry], the   *)
(* two reports being BOOLEAN or None when they were not made.              *)
(***************************************************************************)
Inference(run, needPrivate) ==
    [run    |-> run,
     passed |-> /\ run.transfer = TRUE
                /\ needPrivate => run.private = TRUE
                /\ run.exact
                /\ ~run.dry]

(***************************************************************************)
(* The submission manifest hashes the files it finds in the directory; the *)
(* adapter hash it carries is given by the caller.                         *)
(***************************************************************************)
ManifestRefused(dir) == dir.weights = None

SubmissionManifest(dir, adapter, promotion, lora) ==
    [files |-> dir.weights, adapter |-> adapter, promotion |-> promotion.hash, lora |-> lora]

\* Every file the manifest names is on disk with the hash the manifest has.
OnDisk(manifest, dir) == manifest.files = dir.weights

\* The package is built from the directory as it is now; a dry run writes none.
PackageBuild(manifest, dir, dry) ==
    LET sound == OnDisk(manifest, dir) /\ dir.tidy
    IN  [manifest |-> manifest.hash, files |-> manifest.files, dry |-> dry,
         passed   |-> sound,
         built    |-> sound /\ ~dry]

(***************************************************************************)
(* The offline runtime validation.  backend is "absent", "fails" (it       *)
(* reports errors) or "loads"; absent is tolerated, with a warning, when   *)
(* the configuration says so, and a dry run that loads something is        *)
(* refused.                                                                *)
(***************************************************************************)
RuntimeRefused(backend, dry) == dry /\ backend # "absent"

RuntimeReport(manifest, dir, backend, tolerated, dry) ==
    [manifest  |-> IF manifest # None /\ OnDisk(manifest, dir) THEN manifest.hash ELSE None,
     dry       |-> dry,
     loaded    |-> backend # "absent",
     validated |-> backend # "absent",
     warned    |-> backend = "absent",
     passed    |-> /\ manifest # None => OnDisk(manifest, dir)
                   /\ backend # "fails"
                   /\ backend = "absent" => tolerated]

\* Loaded flags of a dry run, or without a backend's proof, are a fake success.
FakeLoaded(runtime) == runtime.loaded /\ (runtime.dry \/ ~runtime.validated)

ArtifactAudit(manifest, dir) == OnDisk(manifest, dir) /\ dir.tidy

(***************************************************************************)
(* The preflight gate ties the manifest, the package, the runtime and the  *)
(* promotion decision together.                                            *)
(***************************************************************************)
Preflight(flags, manifest, build, runtime, promotion, exams, dir) ==
    [manifest |-> manifest.hash, build |-> build.hash, runtime |-> runtime.hash,
     promotion |-> promotion.hash, exact |-> ExactReport(exams),
     passed |-> /\ promotion.allow
                /\ exams.exact
                /\ ~(build.dry /\ build.built)
                /\ build.dry => flags.dryPackage
                /\ build.passed
                /\ ~FakeLoaded(runtime)
                /\ (runtime.dry /\ ~runtime.validated) => flags.unloaded
                /\ runtime.passed
                /\ ArtifactAudit(manifest, dir)
                /\ build.manifest = manifest.hash
                /\ build.files = manifest.files
                /\ manifest.promotion = promotion.hash
                /\ runtime.manifest \in {None, manifest.hash}
                /\ manifest.lora
                /\ manifest.adapter # None
                /\ runtime.warned => flags.warnings]

(***************************************************************************)
(* The system audit and the release candidate made from it: the audit      *)
(* looks at the promotion and the preflight that are supplied, each by     *)
(* itself.                                                                 *)
(***************************************************************************)
SystemAudit(promotion, preflight, safe, suite) ==
    /\ safe /\ suite
    /\ promotion # None => promotion.allow
    /\ preflight # None => preflight.passed

ReleaseCandidate(promotion, preflight, safe, suite) ==
    [promotion |-> HashOrNone(promotion), preflight |-> HashOrNone(preflight),
     safe  |-> safe, suite |-> suite,
     ready |-> SystemAudit(promotion, preflight, safe, suite)]
=============================================================================
