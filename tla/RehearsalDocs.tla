--------------------------- MODULE RehearsalDocs ---------------------------
(***************************************************************************)
(* Pass 14 of the nemotron engine, the rehearsal of a submission: promotion *)
(* bridge, package rehearsal, runtime rehearsal, submission rehearsal and   *)
(* the final rehearsal manifest.  flags is the rehearsal configuration.  A  *)
(* rehearsal report records what is wrong and is made all the same; only a  *)
(* report that contradicts itself is refused.                               *)
(***************************************************************************)
EXTENDS GateDocs

\* exams are the evaluation reports the operator hands over with the decision:
\* three of them are compared with those the decision was made from.
Bridge(flags, promotion, exams, inference, evidence) ==
    [promotion |-> promotion.hash, reports |-> BridgeReports(exams),
     inference |-> inference.hash, evidence |-> evidence.hash,
     allowed   |-> /\ promotion.allow
                   /\ exams.exact /\ exams.transfer
                   /\ flags.private => exams.private
                   /\ flags.completion => inference.passed
                   /\ evidence.complete
                   /\ promotion.inputs = BridgeReports(exams)
                   /\ promotion.adapter = evidence.adapter]

\* The manifest is looked at again on disk; one that fails there is as none.
FoundOnDisk(manifest, dir) == manifest # None /\ OnDisk(manifest, dir)

ManifestFits(manifest, evidence, bridge, dir) ==
    /\ FoundOnDisk(manifest, dir)
    /\ manifest.adapter = evidence.adapter
    /\ manifest.promotion = bridge.promotion
    /\ manifest.lora

\* A build report that is supplied must be of this manifest; where a zip may be
\* built and none is supplied, the rehearsal builds one itself.
BuildFits(flags, manifest, build, dir) ==
    IF build = None
    THEN flags.zip => manifest # None /\ PackageBuild(manifest, dir, flags.dry).passed
    ELSE /\ build.passed
         /\ FoundOnDisk(manifest, dir) => /\ build.manifest = manifest.hash
                                       /\ build.files = manifest.files
         /\ build.built => flags.zip

PackageRehearsal(flags, evidence, bridge, manifest, build, dir) ==
    [evidence  |-> evidence.hash, adapter |-> evidence.adapter,
     bridge    |-> bridge.hash,   promotion |-> bridge.promotion,
     manifest  |-> IF FoundOnDisk(manifest, dir) THEN manifest.hash ELSE None,
     build     |-> HashOrNone(build),
     passed    |-> /\ bridge.allowed
                   /\ evidence.complete
                   /\ ManifestFits(manifest, evidence, bridge, dir)
                   /\ BuildFits(flags, manifest, build, dir)]

\* A warning is recorded for a runtime that was not loaded.
RuntimeWarned(runtime) == runtime = None \/ runtime.warned

\* Mutant: the verdict of the package rehearsal is not looked at.
LoadingPassesUnpackaged(flags, evidence, package, runtime) ==
    /\ package.adapter = evidence.adapter
    /\ IF runtime = None THEN flags.unloaded
                         ELSE runtime.passed /\ ~FakeLoaded(runtime)
    /\ RuntimeWarned(runtime) => flags.warnings

LoadingPasses(flags, evidence, package, runtime) ==
    /\ package.passed
    /\ package.adapter = evidence.adapter
    /\ IF runtime = None THEN flags.unloaded
                         ELSE runtime.passed /\ ~FakeLoaded(runtime)
    /\ RuntimeWarned(runtime) => flags.warnings

\* Refused: passed on a runtime report that no backend validated.
LoadingRefused(flags, evidence, package, runtime) ==
    /\ LoadingPasses(flags, evidence, package, runtime)
    /\ runtime # None
    /\ ~runtime.validated

RuntimeRehearsal(flags, evidence, package, runtime) ==
    [evidence |-> evidence.hash, adapter |-> evidence.adapter,
     package  |-> package.hash,  runtime |-> HashOrNone(runtime),
     warned   |-> RuntimeWarned(runtime),
     passed   |-> LoadingPasses(flags, evidence, package, runtime)]

SubmissionRehearsal(flags, bridge, package, loading, preflight, release) ==
    [bridge    |-> bridge.hash,  package |-> package.hash, loading |-> loading.hash,
     preflight |-> HashOrNone(preflight), release |-> HashOrNone(release),
     warned    |-> loading.warned,
     passed    |-> /\ bridge.allowed /\ package.passed /\ loading.passed
                   /\ IF preflight = None THEN ~flags.preflight ELSE preflight.passed
                   /\ flags.release => release # None /\ release.ready
                   /\ loading.warned => flags.warnings]

\* Only the verdicts are looked at: nothing asks whether the five documents are
\* about each other.
FinalRehearsal(flags, evidence, bridge, package, loading, submission) ==
    [evidence |-> evidence.hash, bridge |-> bridge.hash, package |-> package.hash,
     loading  |-> loading.hash,  submission |-> submission.hash,
     warned   |-> loading.warned \/ submission.warned,
     ready    |-> /\ flags.dry
                  /\ evidence.complete /\ bridge.allowed
                  /\ package.passed /\ loading.passed /\ submission.passed
                  /\ (loading.warned \/ submission.warned) => flags.warnings]
=============================================================================
