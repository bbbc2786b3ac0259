---------------------------- MODULE BranchState ----------------------------
(***************************************************************************)
(* The record of one reasoning branch, BranchState in                      *)
(* imo3_hybrid/src/branches/branch_state.py, and the methods that change   *)
(* it.  A method is an operator from the branch before to the branch after *)
(* it, so that a handler of the controller is the composition of the       *)
(* methods it calls, in its order.                                         *)
(*                                                                         *)
(* Every history of the class (steps, candidates, evidence, patches) is    *)
(* kept twice there: the list itself and a count in active_cursor, and all *)
(* readers go through the count.  The model keeps both.                    *)
(***************************************************************************)
EXTENDS Integers, Sequences

CONSTANTS
  Answers,        \* canonical answers a generator can produce
  NoAnswer,       \* the empty string, stored when nothing was generated
  Fingerprints,   \* state fingerprints of reasoning nodes
  NoFingerprint,  \* None
  Obligations     \* proof obligations a node carries

Phases == {"INITIALIZED", "RETRIEVED", "REASONING", "VERIFIED", "CRITIQUED",
           "REPAIRED", "SOLVED", "FAILED", "PRUNED"}
StepKinds == {"INITIAL", "RETRIEVAL", "OPERATOR", "SYMBOLIC", "VERIFIER",
              "CRITIQUE", "REPAIR"}
PatchKinds == {"REPAIR", "CANDIDATE_UPDATE", "PHASE_UPDATE"}

\* The status of every obligation.
Proofs == [Obligations -> {"open", "discharged", "contradicted"}]
\* A reasoning node, as far as a branch looks at it.
Nodes == [fp : Fingerprints, proof : Proofs]
NoNode == [fp |-> NoFingerprint]

Steps == [index : Nat, kind : StepKinds, fp : Fingerprints \cup {NoFingerprint}]
Candidates == [answer : Answers \cup {NoAnswer},
               source : {"generated", "repair", "self_critique"},
               support : SUBSET Steps]
NoCandidate == [answer |-> NoAnswer, source |-> "none", support |-> {}]
\* What the symbolic check reported: passed or not, and the obligations as it
\* left them (proof_obligations of the hook's metadata).
Verdicts == [passed : BOOLEAN, proof : Proofs]

Cursors == [steps : Nat, retrieval : Nat, symbolic : Nat, verifier : Nat,
            critique : Nat, repairs : Nat, candidates : Nat, priors : Nat]
Patches == [kind : PatchKinds, before : Cursors, after : Cursors,
            candidateBefore : Candidates \cup {NoCandidate},
            candidateAfter : Candidates \cup {NoCandidate}]

Branches == [phase : Phases, steps : Seq(Steps), candidates : Seq(Candidates),
             symbolic : Seq(Verdicts), verifier : Seq(BOOLEAN),
             retrieval : Nat, critique : Nat, priors : Nat, repairs : Nat,
             patches : Seq(Patches), cursor : Cursors,
             latest : Fingerprints \cup {NoFingerprint},
             proof : Proofs, proofFp : Proofs,
             lineage : Nat, resamples : Nat, critiqued : BOOLEAN]

-----------------------------------------------------------------------------
\* current_candidate reads the history through the cursor.
CurrentCandidate(b) ==
  IF b.cursor.candidates <= 0 THEN NoCandidate
  ELSE b.candidates[b.cursor.candidates]

ActiveSteps(b) == SubSeq(b.steps, 1, b.cursor.steps)

\* The ids of active_steps()[-2:], the support every caller passes.
LastTwo(b) ==
  LET n == b.cursor.steps
  IN  {b.steps[i] : i \in {j \in 1..n : j > n - 2}}

\* _append_step.  The index is the cursor, not the length of the list; a step
\* that carries a node also makes it the latest one and takes its obligations.
AppendStep(b, kind, node) ==
  LET grown == Append(b.steps, [index |-> b.cursor.steps, kind |-> kind, fp |-> node.fp])
      c == [b EXCEPT !.steps = grown, !.cursor.steps = Len(grown)]
  IN  IF node.fp = NoFingerprint THEN c
      ELSE [c EXCEPT !.latest = node.fp, !.proof = node.proof, !.proofFp = node.proof]

\* add_step: append, then take the phase of the step.
AddStep(b, kind, phase, node) ==
  [AppendStep(b, kind, node) EXCEPT !.phase = phase]

\* _record_patch: appended last, with the cursor and candidate on each side
\* (RecordPatchLate: the candidate before read after the change).
RecordPatchLate(b, kind, before, candidateBefore) ==
  [b EXCEPT !.patches = Append(@,
     [kind |-> kind, before |-> before, after |-> b.cursor,
      candidateBefore |-> CurrentCandidate(b), candidateAfter |-> CurrentCandidate(b)])]
RecordPatch(b, kind, before, candidateBefore) ==
  [b EXCEPT !.patches = Append(@,
     [kind |-> kind, before |-> before, after |-> b.cursor,
      candidateBefore |-> candidateBefore, candidateAfter |-> CurrentCandidate(b)])]

SetPhase(b, phase) ==
  RecordPatch([b EXCEPT !.phase = phase], "PHASE_UPDATE", b.cursor, CurrentCandidate(b))

\* set_candidate_answer with the last two active steps as support.
SetCandidate(b, answer, source) ==
  LET grown == Append(b.candidates,
                      [answer |-> answer, source |-> source, support |-> LastTwo(b)])
      c == [b EXCEPT !.candidates = grown, !.cursor.candidates = Len(grown)]
  IN  RecordPatch(c, "CANDIDATE_UPDATE", b.cursor, CurrentCandidate(b))

\* attach_retrieval_evidence, which also appends an operator-prior snapshot.
AttachRetrieval(b) ==
  [b EXCEPT !.retrieval = @ + 1, !.cursor.retrieval = b.retrieval + 1,
            !.priors = @ + 1, !.cursor.priors = b.priors + 1,
            !.phase = "RETRIEVED"]

\* attach_symbolic_evidence: the obligations reported by the check replace the
\* branch's.
AttachSymbolic(b, verdict) ==
  [b EXCEPT !.symbolic = Append(@, verdict), !.cursor.symbolic = Len(b.symbolic) + 1,
            !.proof = verdict.proof, !.proofFp = verdict.proof, !.phase = "VERIFIED"]

\* attach_verifier_evidence; accepted: the probability reaches the threshold.
AttachVerifier(b, accepted) ==
  [b EXCEPT !.verifier = Append(@, accepted), !.cursor.verifier = Len(b.verifier) + 1,
            !.phase = "VERIFIED"]

AttachCritique(b) ==
  [b EXCEPT !.critique = @ + 1, !.cursor.critique = b.critique + 1,
            !.phase = "CRITIQUED"]

\* _trim_steps_to_prefix.  The latest node becomes the one of the last step
\* kept, which has none if the step carried none; the obligations stay.
TrimSteps(b, keep) ==
  [b EXCEPT !.steps = SubSeq(@, 1, keep),
            !.latest = IF keep = 0 THEN NoFingerprint ELSE b.steps[keep].fp,
            !.proofFp = b.proof]

\* record_repair: trim, move the step cursor, record the patch, and only then
\* append to the repair history and count it (RecordRepairEarly: count first).
RecordRepairEarly(b, toStep) ==
  LET target  == IF toStep < b.cursor.steps THEN toStep ELSE b.cursor.steps
      trimmed == [TrimSteps(b, target) EXCEPT !.cursor.steps = target]
      patched == RecordPatch(trimmed, "REPAIR", b.cursor, CurrentCandidate(trimmed))
  IN  [patched EXCEPT !.repairs = @ + 1, !.cursor.repairs = b.repairs,
                      !.phase = "REPAIRED"]
RecordRepair(b, toStep) ==
  LET target  == IF toStep < b.cursor.steps THEN toStep ELSE b.cursor.steps
      trimmed == [TrimSteps(b, target) EXCEPT !.cursor.steps = target]
      patched == RecordPatch(trimmed, "REPAIR", b.cursor, CurrentCandidate(trimmed))
  IN  [patched EXCEPT !.repairs = @ + 1, !.cursor.repairs = b.repairs + 1,
                      !.phase = "REPAIRED"]

\* fork: every history, the cursor, the phase and the metadata are copied;
\* only the lineage grows.
Fork(b) == [b EXCEPT !.lineage = @ + 1]

\* create: one prior snapshot and the INITIAL step carrying the root node.
Create(root) ==
  AppendStep([phase |-> "INITIALIZED", steps |-> <<>>, candidates |-> <<>>,
              symbolic |-> <<>>, verifier |-> <<>>, retrieval |-> 0,
              critique |-> 0, priors |-> 1, repairs |-> 0, patches |-> <<>>,
              cursor |-> [steps |-> 0, retrieval |-> 0, symbolic |-> 0,
                          verifier |-> 0, critique |-> 0, repairs |-> 0,
                          candidates |-> 0, priors |-> 1],
              latest |-> root.fp, proof |-> root.proof, proofFp |-> root.proof,
              lineage |-> 0, resamples |-> 0, critiqued |-> FALSE],
             "INITIAL", root)

-----------------------------------------------------------------------------
\* A count in the cursor is the length of the history it belongs to.
Exact(b) ==
  /\ b.cursor.steps = Len(b.steps)
  /\ b.cursor.candidates = Len(b.candidates)
  /\ b.cursor.symbolic = Len(b.symbolic)
  /\ b.cursor.verifier = Len(b.verifier)
  /\ b.cursor.retrieval = b.retrieval
  /\ b.cursor.critique = b.critique
  /\ b.cursor.priors = b.priors
  /\ b.cursor.repairs = b.repairs

\* Steps are numbered by their position.
Contiguous(b) == \A i \in 1..Len(b.steps) : b.steps[i].index = i - 1

\* The patch history is a ledger of the candidate: each patch starts from the
\* candidate the previous one left, the last one left the current candidate,
\* and no cursor count moves back except the step count at a repair.
Advances(c, d) ==
  /\ c.steps <= d.steps
  /\ c.candidates <= d.candidates
  /\ c.repairs <= d.repairs
Chained(b) ==
  LET n == Len(b.patches)
  IN  /\ \A i \in 1..(n - 1) :
           /\ b.patches[i + 1].candidateBefore = b.patches[i].candidateAfter
           /\ Advances(b.patches[i].after, b.patches[i + 1].before)
      /\ \A i \in 1..n : b.patches[i].kind # "REPAIR" =>
           Advances(b.patches[i].before, b.patches[i].after)
      /\ n > 0 => /\ b.patches[n].candidateAfter = CurrentCandidate(b)
                  /\ Advances(b.patches[n].after, b.cursor)

\* The current answer rests on active steps.
Supported(b) ==
  LET c == CurrentCandidate(b)
  IN  c.answer # NoAnswer =>
        c.support \subseteq {ActiveSteps(b)[i] : i \in 1..b.cursor.steps}
=============================================================================
