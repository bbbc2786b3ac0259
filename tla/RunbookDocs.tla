---------------------------- MODULE RunbookDocs ----------------------------
(***************************************************************************)
(* Pass 15 of the nemotron engine, the operator's runbook: configuration,  *)
(* commands, checklist, blocker gate, reproducibility manifest, approval,  *)
(* recovery plan, submission record and the final operations manifest.     *)
(* Every document names the hash of the configuration it was made for;     *)
(* handing over one made for another configuration raises (refused).       *)
(***************************************************************************)
EXTENDS RehearsalDocs

\* pins is the hash of the final rehearsal the runbook is for.
ConfigRefused(needFinal, pins) == needFinal /\ pins = None

RunbookConfig(needFinal, needLock, pins) ==
    [needFinal |-> needFinal, needLock |-> needLock, pins |-> pins]

CommandManifest(config) == [config |-> config.hash]

RecoveryPlan(config) == [config |-> config.hash]

\* The eight required items are ticked together or not at all.
Checklist(config, checked) == [config |-> config.hash, checked |-> checked]

MadeFor(config, doc) == doc.config = config.hash

(***************************************************************************)
(* The blocker gate.  A final rehearsal that is required but not supplied, *)
(* not the pinned one or not ready blocks; where none is required, one     *)
(* that is supplied is noted and not looked at.                            *)
(***************************************************************************)
GateRefused(config, commands, list) == ~(MadeFor(config, commands) /\ MadeFor(config, list))

RehearsalClears(config, final) ==
    config.needFinal \/ config.needLock =>
        final # None /\ final.hash = config.pins /\ final.ready

BlockerGate(config, commands, list, final, release, failed) ==
    [config  |-> config.hash, commands |-> commands.hash, list |-> list.hash,
     final   |-> HashOrNone(final), release |-> HashOrNone(release), failed |-> failed,
     blocked |-> ~ /\ list.checked
                   /\ RehearsalClears(config, final)
                   /\ release # None => release.ready
                   /\ ~failed]

\* The gate names exactly these three documents.
GateOf(gate, config, commands, list) ==
    /\ MadeFor(config, gate)
    /\ gate.commands = commands.hash
    /\ gate.list = list.hash

ReproRefused(config, commands, list, gate) ==
    ~ /\ MadeFor(config, commands) /\ MadeFor(config, list)
      /\ GateOf(gate, config, commands, list)

Reproducibility(config, commands, list, gate) ==
    [config |-> config.hash, commands |-> commands.hash, list |-> list.hash,
     gate   |-> gate.hash, final |-> config.pins, release |-> gate.release]

\* The approval looks at the verdict of the gate it is given and at nothing
\* that ties the three documents together.
Approval(config, gate, repro, acknowledged) ==
    [config |-> config.hash, gate |-> gate.hash, repro |-> repro.hash,
     approved |-> acknowledged /\ ~gate.blocked]

\* A record can be made for a statement that approves nothing.
SubmissionRecord(approval, repro, performed) ==
    [approval |-> approval.hash, repro |-> repro.hash, performed |-> performed]

(***************************************************************************)
(* The final operations manifest: refused unless all documents are about   *)
(* each other.                                                             *)
(***************************************************************************)
\* Mutant: the reproducibility manifest may be that of another gate.
ReproOfAnyGate(repro, config, commands, list, gate) ==
    /\ MadeFor(config, repro)
    /\ repro.commands = commands.hash
    /\ repro.list = list.hash

ReproOf(repro, config, commands, list, gate) ==
    /\ MadeFor(config, repro)
    /\ repro.commands = commands.hash
    /\ repro.list = list.hash
    /\ repro.gate = gate.hash

ApprovalOf(approval, config, gate, repro) ==
    approval # None => /\ MadeFor(config, approval)
                       /\ approval.gate = gate.hash
                       /\ approval.repro = repro.hash

RecordOf(record, approval, repro) ==
    record # None => /\ approval # None
                     /\ record.approval = approval.hash
                     /\ record.repro = repro.hash

OperationsRefused(config, commands, list, gate, repro, recovery, approval, record) ==
    ~ /\ MadeFor(config, commands) /\ MadeFor(config, list) /\ MadeFor(config, recovery)
      /\ GateOf(gate, config, commands, list)
      /\ ReproOf(repro, config, commands, list, gate)
      /\ ApprovalOf(approval, config, gate, repro)
      /\ RecordOf(record, approval, repro)

Operations(config, commands, list, gate, repro, recovery, approval, record) ==
    [config |-> config.hash, commands |-> commands.hash, list |-> list.hash,
     gate |-> gate.hash, repro |-> repro.hash, recovery |-> recovery.hash,
     approval |-> HashOrNone(approval), record |-> HashOrNone(record),
     ready    |-> ~gate.blocked /\ approval # None /\ approval.approved,
     recorded |-> record # None /\ record.performed]
=============================================================================
