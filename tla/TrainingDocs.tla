---------------------------- MODULE TrainingDocs ----------------------------
(***************************************************************************)
(* Pass 11 and 12 of the nemotron engine: what a smoke training run leaves *)
(* behind, and the evidence bundle built from it.  A document is a record; *)
(* its content hash is the field "hash" that the keeper of the documents   *)
(* (EvidenceChain) gives it, so two documents have the same hash exactly   *)
(* when they have the same content.  The adapter directory is the record   *)
(* [weights, tidy]: what its files hold, and whether the directory has a   *)
(* valid adapter_config.json, one model file and nothing forbidden.        *)
(***************************************************************************)
CONSTANT None      \* a missing document, file or value

(***************************************************************************)
(* Adapter validation: the hashes of the files are taken only when nothing *)
(* is wrong with the directory.                                            *)
(***************************************************************************)
AdapterReport(dir) ==
    [passed  |-> dir.tidy,
     adapter |-> IF dir.tidy THEN dir.weights ELSE None]

(***************************************************************************)
(* What the training backend returns: it was not called ("dry"), it raised *)
(* or returned something the smoke runner rejects ("raised"), it finished  *)
(* without training ("idle"), or it trained ("trained").  What it says of  *)
(* its work, its metrics and the hashes of the files it left among it, is  *)
(* its own claim: the code asks that the hashes are there and well formed, *)
(* and never compares them with the files.                                 *)
(***************************************************************************)
BackendResult(outcome, claim) == [outcome |-> outcome, claim |-> claim]

\* The adapter directory is validated only for a backend that claims to have
\* trained; a directory that fails makes the run a rejected one.
BackendTrained(result, dir) == result.outcome = "trained" /\ AdapterReport(dir).passed

\* The manifest of a run, built by the smoke runner when the backend trained
\* and the training log is valid; "report" is the hash of the adapter report.
TrainingManifest(result, report, log) ==
    [result |-> result, report |-> report.hash, adapter |-> report.adapter, log |-> log]

\* The smoke report: a run that called the backend is trained and passed at
\* once, and only with a manifest; a dry run passes untrained.
SmokeReport(result, report, log, manifest) ==
    [result   |-> result,
     report   |-> IF report = None THEN None ELSE report.hash,
     log      |-> log,
     manifest |-> IF manifest = None THEN None ELSE manifest.hash,
     trained  |-> manifest # None,
     passed   |-> manifest # None \/ result.outcome = "dry"]

(***************************************************************************)
(* The handoff of a smoke run: refused for a run that did not train, and   *)
(* the adapter it names is the caller's word.                              *)
(***************************************************************************)
HandoffRefused(smoke) == ~(smoke.passed /\ smoke.trained)

Handoff(smoke, adapter) ==
    [manifest |-> smoke.manifest, adapter |-> adapter, result |-> smoke.result,
     report   |-> smoke.report, log |-> smoke.log]

(***************************************************************************)
(* The adapter evidence bundle.  Refused for an adapter that did not pass; *)
(* otherwise complete exactly when every document supplied agrees.         *)
(***************************************************************************)
EvidenceRefused(report) == ~report.passed

ManifestAgrees(manifest, report) ==
    manifest # None => /\ manifest.report  = report.hash
                       /\ manifest.adapter = report.adapter

\* Mutant: the smoke report is not compared with the training manifest.
SmokeAgreesWithAny(smoke, manifest, report) ==
    smoke # None => smoke.passed /\ smoke.trained /\ smoke.report = report.hash

SmokeAgrees(smoke, manifest, report) ==
    smoke # None => /\ smoke.passed /\ smoke.trained
                    /\ smoke.report = report.hash
                    /\ manifest # None => smoke.manifest = manifest.hash

HandoffAgrees(handoff, smoke, report) ==
    handoff # None => /\ handoff.adapter = report.adapter
                      /\ handoff.report  = report.hash
                      /\ smoke # None => /\ handoff.manifest = smoke.manifest
                                         /\ handoff.result   = smoke.result

HashOrNone(doc) == IF doc = None THEN None ELSE doc.hash

Evidence(flags, report, manifest, smoke, handoff) ==
    [adapter  |-> report.adapter,
     report   |-> report.hash,
     manifest |-> HashOrNone(manifest),
     smoke    |-> HashOrNone(smoke),
     handoff  |-> HashOrNone(handoff),
     complete |-> /\ ManifestAgrees(manifest, report)
                  /\ SmokeAgrees(smoke, manifest, report)
                  /\ HandoffAgrees(handoff, smoke, report)
                  /\ flags.smoke => None \notin {manifest, smoke, handoff}]
=============================================================================
