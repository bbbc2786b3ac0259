------------------------ MODULE BranchLineageProofs ------------------------
(***************************************************************************)
(* Proofs about BranchState and BranchLineage, for every value of the     *)
(* constants: what each method of a branch keeps, the numbering of steps,  *)
(* the two budgets, and the parent chain, the names and the merit of a     *)
(* solved branch over its whole line of descent.                           *)
(***************************************************************************)
EXTENDS BranchLineage, TLAPS

-----------------------------------------------------------------------------
\* What each method of BranchState keeps true of a branch.

\* A branch every public method may be called on.
Wf(b) == b \in Branches /\ Exact(b) /\ Contiguous(b)

\* The counts that only repairs, forks and resamples change.
SameBudget(b, c) ==
  /\ c.cursor.repairs = b.cursor.repairs
  /\ c.lineage = b.lineage
  /\ c.resamples = b.resamples

\* Appending a step, with or without a node, keeps a branch well formed.
LEMMA AppendStepWf ==
  ASSUME NEW b, Wf(b), NEW kind \in StepKinds, NEW n \in Nodes \cup {NoNode}
  PROVE  Wf(AppendStep(b, kind, n)) /\ SameBudget(b, AppendStep(b, kind, n))
  <1> DEFINE step == [index |-> b.cursor.steps, kind |-> kind, fp |-> n.fp]
             grown == Append(b.steps, step)
             c == [b EXCEPT !.steps = grown, !.cursor.steps = Len(grown)]
             d == [c EXCEPT !.latest = n.fp, !.proof = n.proof, !.proofFp = n.proof]
  <1>1. b \in Branches /\ Exact(b) /\ Contiguous(b)
    BY DEF Wf
  <1>2a. b.cursor \in Cursors /\ b.steps \in Seq(Steps)
    BY <1>1 DEF Branches
  <1>2b. b.cursor.steps \in Nat
    BY <1>2a DEF Cursors
  <1>2c. n.fp \in Fingerprints \cup {NoFingerprint}
    BY DEF Nodes, NoNode
  <1>2. step \in Steps
    BY <1>2b, <1>2c DEF Steps
  <1>3. grown \in Seq(Steps) /\ Len(grown) = Len(b.steps) + 1 /\ Len(grown) \in Nat
    BY <1>1, <1>2 DEF Branches
  <1>4. c \in Branches
    BY <1>1, <1>3 DEF Branches, Cursors
  <1>4a. /\ c.steps = grown
         /\ c.cursor = [b.cursor EXCEPT !.steps = Len(grown)]
         /\ \A f \in {"candidates", "symbolic", "verifier", "retrieval", "critique",
                     "priors", "repairs", "lineage", "resamples"} : c[f] = b[f]
    BY <1>1 DEF Branches
  <1>4b. /\ c.cursor.steps = Len(grown)
         /\ \A f \in {"candidates", "symbolic", "verifier", "retrieval", "critique",
                     "priors", "repairs"} : c.cursor[f] = b.cursor[f]
    BY SMTT(30), <1>2a, <1>4a DEF Cursors
  <1>5. Exact(c) /\ SameBudget(b, c)
    BY <1>1, <1>4a, <1>4b DEF Exact, SameBudget
  <1>6. Contiguous(c)
    <2>1. ASSUME NEW i \in 1..Len(grown)  PROVE grown[i].index = i - 1
      <3>1. CASE i <= Len(b.steps)
        BY <1>1, <1>2a, <3>1 DEF Contiguous
      <3>2. CASE i = Len(b.steps) + 1
        BY <1>1, <1>2a, <3>2 DEF Exact
      <3> QED
        BY <1>3, <1>2a, <3>1, <3>2
    <2> QED
      BY <2>1, <1>4a DEF Contiguous
  <1>7. ASSUME n.fp # NoFingerprint
        PROVE  d \in Branches /\ Exact(d) /\ Contiguous(d) /\ SameBudget(b, d)
    <2>1. n \in Nodes
      BY <1>7 DEF NoNode
    <2>2. d \in Branches
      BY <2>1, <1>4 DEF Branches, Nodes
    <2>3. \A f \in {"steps", "cursor", "candidates", "symbolic", "verifier", "retrieval",
                    "critique", "priors", "repairs", "lineage", "resamples"} : d[f] = c[f]
      BY <1>4 DEF Branches
    <2> QED
      BY <2>2, <2>3, <1>5, <1>6 DEF Exact, Contiguous, SameBudget
  <1>8. AppendStep(b, kind, n) = IF n.fp = NoFingerprint THEN c ELSE d
    BY DEF AppendStep
  <1> QED
    BY <1>4, <1>5, <1>6, <1>7, <1>8 DEF Wf

\* The fields that Wf and SameBudget look at.
Counted == {"steps", "cursor", "candidates", "symbolic", "verifier", "retrieval",
            "critique", "priors", "repairs", "lineage", "resamples"}

\* A change to the other fields keeps a branch well formed.
LEMMA TransferWf ==
  ASSUME NEW b, NEW c, Wf(b), c \in Branches, \A f \in Counted : c[f] = b[f]
  PROVE  Wf(c) /\ SameBudget(b, c)
  BY DEF Wf, Exact, Contiguous, SameBudget, Counted

\* add_step keeps a branch well formed.
LEMMA AddStepWf ==
  ASSUME NEW b, Wf(b), NEW kind \in StepKinds, NEW phase \in Phases,
         NEW n \in Nodes \cup {NoNode}
  PROVE  Wf(AddStep(b, kind, phase, n)) /\ SameBudget(b, AddStep(b, kind, phase, n))
  <1> DEFINE c == AppendStep(b, kind, n)
             d == [c EXCEPT !.phase = phase]
  <1>1. Wf(c) /\ SameBudget(b, c)
    BY AppendStepWf
  <1> HIDE DEF c
  <1>2. d \in Branches
    BY <1>1 DEF Wf, Branches
  <1>3. \A f \in Counted : d[f] = c[f]
    BY <1>1 DEF Wf, Branches, Counted
  <1>4. Wf(d) /\ SameBudget(c, d)
    BY <1>1, <1>2, <1>3, TransferWf
  <1> QED
    BY <1>1, <1>4 DEF AddStep, SameBudget, c

\* current_candidate never reads past the history.
LEMMA CurrentCandidateType ==
  ASSUME NEW b, Wf(b)
  PROVE  CurrentCandidate(b) \in Candidates \cup {NoCandidate}
  <1>1. b.candidates \in Seq(Candidates) /\ b.cursor.candidates = Len(b.candidates)
    BY DEF Wf, Branches, Exact
  <1> QED
    BY <1>1 DEF CurrentCandidate

\* _record_patch only appends to the patch history.
LEMMA RecordPatchWf ==
  ASSUME NEW b, Wf(b), NEW kind \in PatchKinds, NEW before \in Cursors,
         NEW candidate \in Candidates \cup {NoCandidate}
  PROVE  /\ Wf(RecordPatch(b, kind, before, candidate))
         /\ SameBudget(b, RecordPatch(b, kind, before, candidate))
  <1> DEFINE p == [kind |-> kind, before |-> before, after |-> b.cursor,
                   candidateBefore |-> candidate, candidateAfter |-> CurrentCandidate(b)]
             c == [b EXCEPT !.patches = Append(@, p)]
  <1>1. b \in Branches /\ b.cursor \in Cursors /\ b.patches \in Seq(Patches)
    BY DEF Wf, Branches
  <1>2. p \in Patches
    BY <1>1, CurrentCandidateType DEF Patches
  <1> HIDE DEF p
  <1>3. Append(b.patches, p) \in Seq(Patches)
    BY <1>1, <1>2
  <1>4. c \in Branches
    BY <1>1, <1>3 DEF Branches
  <1>5. \A f \in Counted : c[f] = b[f]
    BY <1>1 DEF Branches, Counted
  <1> QED
    BY <1>4, <1>5, TransferWf DEF RecordPatch, p

\* set_phase keeps a branch well formed.
LEMMA SetPhaseWf ==
  ASSUME NEW b, Wf(b), NEW phase \in Phases
  PROVE  Wf(SetPhase(b, phase)) /\ SameBudget(b, SetPhase(b, phase))
  <1> DEFINE c == [b EXCEPT !.phase = phase]
  <1>1. b \in Branches /\ b.cursor \in Cursors
    BY DEF Wf, Branches
  <1>2. c \in Branches
    BY <1>1 DEF Branches
  <1>3. \A f \in Counted : c[f] = b[f]
    BY <1>1 DEF Branches, Counted
  <1>4. Wf(c) /\ SameBudget(b, c)
    BY <1>2, <1>3, TransferWf
  <1> HIDE DEF c
  <1>5. /\ Wf(RecordPatch(c, "PHASE_UPDATE", b.cursor, CurrentCandidate(b)))
        /\ SameBudget(c, RecordPatch(c, "PHASE_UPDATE", b.cursor, CurrentCandidate(b)))
    BY <1>1, <1>4, RecordPatchWf, CurrentCandidateType DEF PatchKinds
  <1> QED
    BY <1>4, <1>5 DEF SetPhase, SameBudget, c

\* The support of a candidate is a set of steps.
LEMMA LastTwoType ==
  ASSUME NEW b, Wf(b)
  PROVE  LastTwo(b) \in SUBSET Steps
  <1>1. b.steps \in Seq(Steps) /\ b.cursor.steps = Len(b.steps)
    BY DEF Wf, Branches, Exact
  <1> QED
    BY <1>1 DEF LastTwo

\* set_candidate_answer keeps a branch well formed.
LEMMA SetCandidateWf ==
  ASSUME NEW b, Wf(b), NEW answer \in Answers \cup {NoAnswer},
         NEW source \in {"generated", "repair", "self_critique"}
  PROVE  Wf(SetCandidate(b, answer, source)) /\ SameBudget(b, SetCandidate(b, answer, source))
  <1> DEFINE candidate == [answer |-> answer, source |-> source, support |-> LastTwo(b)]
             grown == Append(b.candidates, candidate)
             c == [b EXCEPT !.candidates = grown, !.cursor.candidates = Len(grown)]
  <1>1. b \in Branches /\ b.cursor \in Cursors /\ b.candidates \in Seq(Candidates)
    BY DEF Wf, Branches
  <1>2. candidate \in Candidates
    BY LastTwoType DEF Candidates
  <1> HIDE DEF candidate
  <1>3. grown \in Seq(Candidates) /\ Len(grown) \in Nat
    BY <1>1, <1>2
  <1> HIDE DEF grown
  <1>4. c \in Branches
    BY <1>1, <1>3 DEF Branches, Cursors
  <1>5. /\ c.candidates = grown
        /\ c.cursor = [b.cursor EXCEPT !.candidates = Len(grown)]
        /\ \A f \in Counted \ {"candidates", "cursor"} : c[f] = b[f]
    BY <1>1 DEF Branches, Counted
  <1>6. /\ c.cursor.candidates = Len(grown)
        /\ \A f \in {"steps", "symbolic", "verifier", "retrieval", "critique",
                    "priors", "repairs"} : c.cursor[f] = b.cursor[f]
    BY SMTT(30), <1>1, <1>5 DEF Cursors
  <1>7. Wf(c) /\ SameBudget(b, c)
    BY <1>4, <1>5, <1>6 DEF Wf, Exact, Contiguous, SameBudget, Counted
  <1> HIDE DEF c
  <1>8. /\ Wf(RecordPatch(c, "CANDIDATE_UPDATE", b.cursor, CurrentCandidate(b)))
        /\ SameBudget(c, RecordPatch(c, "CANDIDATE_UPDATE", b.cursor, CurrentCandidate(b)))
    BY <1>1, <1>7, RecordPatchWf, CurrentCandidateType DEF PatchKinds
  <1> QED
    BY <1>7, <1>8 DEF SetCandidate, SameBudget, c, grown, candidate

\* The four attach methods keep a branch well formed.
LEMMA AttachRetrievalWf ==
  ASSUME NEW b, Wf(b)
  PROVE  Wf(AttachRetrieval(b)) /\ SameBudget(b, AttachRetrieval(b))
  <1> DEFINE c == AttachRetrieval(b)
  <1>1. b \in Branches /\ b.cursor \in Cursors /\ b.retrieval \in Nat /\ b.priors \in Nat
    BY DEF Wf, Branches
  <1>1n. b.retrieval + 1 \in Nat /\ b.priors + 1 \in Nat
    BY <1>1
  <1> DEFINE moved == [b.cursor EXCEPT !.retrieval = b.retrieval + 1, !.priors = b.priors + 1]
  <1>1a. moved \in Cursors
    BY <1>1, <1>1n DEF Cursors
  <1>1b. c = [b EXCEPT !.retrieval = b.retrieval + 1, !.priors = b.priors + 1,
                       !.cursor = moved, !.phase = "RETRIEVED"]
    BY <1>1 DEF AttachRetrieval, Branches, Cursors
  <1> HIDE DEF moved, c
  <1>2. c \in Branches
    BY <1>1, <1>1n, <1>1a, <1>1b DEF Branches, Phases
  <1> USE DEF moved, c
  <1>3. /\ c.retrieval = b.retrieval + 1 /\ c.priors = b.priors + 1
        /\ c.cursor = [b.cursor EXCEPT !.retrieval = b.retrieval + 1, !.priors = b.priors + 1]
        /\ \A f \in Counted \ {"retrieval", "priors", "cursor"} : c[f] = b[f]
    BY <1>1 DEF AttachRetrieval, Branches, Counted
  <1>4. /\ c.cursor.retrieval = c.retrieval /\ c.cursor.priors = c.priors
        /\ \A f \in {"steps", "candidates", "symbolic", "verifier", "critique", "repairs"} :
             c.cursor[f] = b.cursor[f]
    BY SMTT(30), <1>1, <1>3 DEF Cursors
  <1> HIDE DEF c
  <1>5. Wf(c) /\ SameBudget(b, c)
    BY <1>2, <1>3, <1>4 DEF Wf, Exact, Contiguous, SameBudget, Counted
  <1> QED
    BY <1>5 DEF c

LEMMA AttachSymbolicWf ==
  ASSUME NEW b, Wf(b), NEW verdict \in Verdicts
  PROVE  Wf(AttachSymbolic(b, verdict)) /\ SameBudget(b, AttachSymbolic(b, verdict))
  <1> DEFINE c == AttachSymbolic(b, verdict)
  <1>1. b \in Branches /\ b.cursor \in Cursors /\ b.symbolic \in Seq(Verdicts)
    BY DEF Wf, Branches
  <1>2. /\ Append(b.symbolic, verdict) \in Seq(Verdicts)
        /\ Len(Append(b.symbolic, verdict)) = Len(b.symbolic) + 1
        /\ Len(b.symbolic) + 1 \in Nat
    BY <1>1
  <1>3. c \in Branches
    BY <1>1, <1>2 DEF AttachSymbolic, Branches, Cursors, Phases, Verdicts
  <1>4. /\ c.symbolic = Append(b.symbolic, verdict)
        /\ c.cursor = [b.cursor EXCEPT !.symbolic = Len(b.symbolic) + 1]
        /\ \A f \in Counted \ {"symbolic", "cursor"} : c[f] = b[f]
    BY <1>1 DEF AttachSymbolic, Branches, Counted
  <1>5. /\ c.cursor.symbolic = Len(b.symbolic) + 1
        /\ \A f \in {"steps", "candidates", "retrieval", "verifier", "critique", "priors",
                    "repairs"} : c.cursor[f] = b.cursor[f]
    BY SMTT(30), <1>1, <1>4 DEF Cursors
  <1> HIDE DEF c
  <1>6. Wf(c) /\ SameBudget(b, c)
    BY SMTT(30), <1>2, <1>3, <1>4, <1>5 DEF Wf, Exact, Contiguous, SameBudget, Counted
  <1> QED
    BY <1>6 DEF c

LEMMA AttachVerifierWf ==
  ASSUME NEW b, Wf(b), NEW accepted \in BOOLEAN
  PROVE  Wf(AttachVerifier(b, accepted)) /\ SameBudget(b, AttachVerifier(b, accepted))
  <1> DEFINE c == AttachVerifier(b, accepted)
  <1>1. b \in Branches /\ b.cursor \in Cursors /\ b.verifier \in Seq(BOOLEAN)
    BY DEF Wf, Branches
  <1>2. /\ Append(b.verifier, accepted) \in Seq(BOOLEAN)
        /\ Len(Append(b.verifier, accepted)) = Len(b.verifier) + 1
        /\ Len(b.verifier) + 1 \in Nat
    BY <1>1
  <1>3. c \in Branches
    BY <1>1, <1>2 DEF AttachVerifier, Branches, Cursors, Phases
  <1>4. /\ c.verifier = Append(b.verifier, accepted)
        /\ c.cursor = [b.cursor EXCEPT !.verifier = Len(b.verifier) + 1]
        /\ \A f \in Counted \ {"verifier", "cursor"} : c[f] = b[f]
    BY <1>1 DEF AttachVerifier, Branches, Counted
  <1>5. /\ c.cursor.verifier = Len(b.verifier) + 1
        /\ \A f \in {"steps", "candidates", "retrieval", "symbolic", "critique", "priors",
                    "repairs"} : c.cursor[f] = b.cursor[f]
    BY SMTT(30), <1>1, <1>4 DEF Cursors
  <1> HIDE DEF c
  <1>6. Wf(c) /\ SameBudget(b, c)
    BY SMTT(30), <1>2, <1>3, <1>4, <1>5 DEF Wf, Exact, Contiguous, SameBudget, Counted
  <1> QED
    BY <1>6 DEF c

LEMMA AttachCritiqueWf ==
  ASSUME NEW b, Wf(b)
  PROVE  Wf(AttachCritique(b)) /\ SameBudget(b, AttachCritique(b))
  <1> DEFINE c == AttachCritique(b)
  <1>1. b \in Branches /\ b.cursor \in Cursors /\ b.critique \in Nat
    BY DEF Wf, Branches
  <1>1n. b.critique + 1 \in Nat
    BY <1>1
  <1> DEFINE moved == [b.cursor EXCEPT !.critique = b.critique + 1]
  <1>1a. moved \in Cursors
    BY <1>1, <1>1n DEF Cursors
  <1>1b. c = [b EXCEPT !.critique = b.critique + 1, !.cursor = moved, !.phase = "CRITIQUED"]
    BY <1>1 DEF AttachCritique, Branches, Cursors
  <1> HIDE DEF moved, c
  <1>2. c \in Branches
    BY <1>1, <1>1n, <1>1a, <1>1b DEF Branches, Phases
  <1> USE DEF moved, c
  <1>3. /\ c.critique = b.critique + 1
        /\ c.cursor = [b.cursor EXCEPT !.critique = b.critique + 1]
        /\ \A f \in Counted \ {"critique", "cursor"} : c[f] = b[f]
    BY <1>1 DEF AttachCritique, Branches, Counted
  <1>4. /\ c.cursor.critique = c.critique
        /\ \A f \in {"steps", "candidates", "symbolic", "verifier", "retrieval", "priors",
                    "repairs"} : c.cursor[f] = b.cursor[f]
    BY SMTT(30), <1>1, <1>3 DEF Cursors
  <1> HIDE DEF c
  <1>5. Wf(c) /\ SameBudget(b, c)
    BY <1>2, <1>3, <1>4 DEF Wf, Exact, Contiguous, SameBudget, Counted
  <1> QED
    BY <1>5 DEF c

\* record_repair cuts steps off without leaving a gap, and counts one repair.
LEMMA RecordRepairWf ==
  ASSUME NEW b, Wf(b), NEW toStep \in Nat
  PROVE  LET c == RecordRepair(b, toStep)
         IN  /\ Wf(c)
             /\ c.cursor.repairs = b.cursor.repairs + 1
             /\ c.lineage = b.lineage /\ c.resamples = b.resamples
  <1> DEFINE target  == IF toStep < b.cursor.steps THEN toStep ELSE b.cursor.steps
             kept    == SubSeq(b.steps, 1, target)
             latest  == IF target = 0 THEN NoFingerprint ELSE b.steps[target].fp
             moved   == [b.cursor EXCEPT !.steps = target]
             trimmed == [TrimSteps(b, target) EXCEPT !.cursor.steps = target]
             patched == RecordPatch(trimmed, "REPAIR", b.cursor, CurrentCandidate(trimmed))
             counted == [patched.cursor EXCEPT !.repairs = b.repairs + 1]
             c       == [patched EXCEPT !.repairs = @ + 1, !.cursor.repairs = b.repairs + 1,
                                        !.phase = "REPAIRED"]
  <1>1. /\ b \in Branches /\ b.cursor \in Cursors /\ b.steps \in Seq(Steps)
        /\ b.cursor.steps = Len(b.steps) /\ b.cursor.steps \in Nat
        /\ b.repairs \in Nat /\ b.cursor.repairs = b.repairs
    BY DEF Wf, Branches, Cursors, Exact
  <1>2. target \in 0..Len(b.steps)
    BY <1>1
  <1> HIDE DEF target
  <1>3. kept \in Seq(Steps) /\ Len(kept) = target /\ \A i \in 1..target : kept[i] = b.steps[i]
    BY <1>1, <1>2
  <1>4. latest \in Fingerprints \cup {NoFingerprint}
    <2>1. target # 0 => b.steps[target] \in Steps
      BY <1>1, <1>2
    <2> QED
      BY <2>1 DEF Steps
  <1>5. moved \in Cursors
    <2>1. b.cursor \in Cursors
      BY <1>1
    <2>2. target \in Nat
      BY <1>1, <1>2
    <2> QED
      BY <2>1, <2>2 DEF Cursors
  <1>6. trimmed = [b EXCEPT !.steps = kept, !.latest = latest, !.proofFp = b.proof,
                            !.cursor = moved]
    BY <1>1 DEF TrimSteps, Branches
  <1> HIDE DEF kept, latest
  <1>7. trimmed \in Branches
    <2> HIDE DEF trimmed, moved
    <2> QED
      BY <1>1, <1>3, <1>4, <1>5, <1>6 DEF Branches
  <1>8. /\ trimmed.steps = kept /\ trimmed.cursor = moved
        /\ \A f \in Counted \ {"steps", "cursor"} : trimmed[f] = b[f]
    <2> HIDE DEF trimmed, moved
    <2> QED
      BY <1>1, <1>6 DEF Branches, Counted
  <1>9. /\ moved.steps = target
        /\ \A f \in {"candidates", "symbolic", "verifier", "retrieval", "critique", "priors",
                    "repairs"} : moved[f] = b.cursor[f]
    BY <1>1 DEF Cursors
  <1> HIDE DEF trimmed, moved
  <1>10. Wf(trimmed) /\ SameBudget(b, trimmed)
    <2>1. Exact(trimmed) /\ SameBudget(b, trimmed)
      BY <1>3, <1>8, <1>9 DEF Wf, Exact, SameBudget, Counted
    <2>2. Contiguous(trimmed)
      BY <1>1, <1>2, <1>3, <1>8 DEF Wf, Contiguous
    <2> QED
      BY <1>7, <2>1, <2>2 DEF Wf
  <1>11. Wf(patched) /\ SameBudget(trimmed, patched)
    BY <1>1, <1>10, RecordPatchWf, CurrentCandidateType DEF PatchKinds
  <1> HIDE DEF patched
  <1>12. patched.repairs = b.repairs /\ patched.cursor.repairs = b.repairs
    BY <1>1, <1>10, <1>11 DEF Wf, Exact, SameBudget
  <1>13. patched \in Branches /\ patched.cursor \in Cursors /\ b.repairs + 1 \in Nat
    <2>1. patched \in Branches
      BY <1>11 DEF Wf
    <2>2. b.repairs + 1 \in Nat
      BY <1>1
    <2> QED
      BY <2>1, <2>2 DEF Branches
  <1>14. counted \in Cursors
    BY <1>13 DEF Cursors
  <1>15. c = [patched EXCEPT !.repairs = b.repairs + 1, !.cursor = counted,
                             !.phase = "REPAIRED"]
    BY <1>12, <1>13 DEF Branches
  <1>16. /\ counted.repairs = b.repairs + 1
         /\ \A f \in {"steps", "candidates", "symbolic", "verifier", "retrieval", "critique",
                     "priors"} : counted[f] = patched.cursor[f]
    BY <1>13 DEF Cursors
  <1> HIDE DEF c, counted
  <1>17. c \in Branches
    BY <1>13, <1>14, <1>15 DEF Branches, Phases
  <1>18. /\ c.repairs = b.repairs + 1 /\ c.cursor = counted
         /\ \A f \in Counted \ {"repairs", "cursor"} : c[f] = patched[f]
    BY <1>13, <1>15 DEF Branches, Counted
  <1>19. Wf(c)
    BY <1>11, <1>16, <1>17, <1>18 DEF Wf, Exact, Contiguous, Counted
  <1>20. c.cursor.repairs = b.cursor.repairs + 1
    BY <1>1, <1>16, <1>18
  <1>21. c.lineage = b.lineage /\ c.resamples = b.resamples
    BY <1>10, <1>11, <1>18 DEF SameBudget, Counted
  <1>22. RecordRepair(b, toStep) = c
    BY DEF RecordRepair, c, patched, trimmed, target
  <1> QED
    BY <1>19, <1>20, <1>21, <1>22

\* fork copies everything but the lineage.
LEMMA ForkWf ==
  ASSUME NEW b, Wf(b)
  PROVE  /\ Wf(Fork(b))
         /\ Fork(b).cursor = b.cursor
         /\ Fork(b).resamples = b.resamples
         /\ Fork(b).lineage = b.lineage + 1
  <1> DEFINE c == Fork(b)
  <1>1. b \in Branches /\ b.lineage \in Nat /\ b.lineage + 1 \in Nat
    BY DEF Wf, Branches
  <1>2. c \in Branches
    BY <1>1 DEF Fork, Branches
  <1>3. c.lineage = b.lineage + 1 /\ \A f \in Counted \ {"lineage"} : c[f] = b[f]
    BY <1>1 DEF Fork, Branches, Counted
  <1> HIDE DEF c
  <1>4. Wf(c)
    BY <1>2, <1>3 DEF Wf, Exact, Contiguous, Counted
  <1> QED
    BY <1>3, <1>4 DEF c, Counted

\* create returns a branch with nothing repaired, resampled or forked.
LEMMA CreateWf ==
  ASSUME NEW root \in Nodes
  PROVE  /\ Wf(Create(root))
         /\ Create(root).cursor.repairs = 0
         /\ Create(root).resamples = 0
         /\ Create(root).lineage = 0
  <1> DEFINE cursor == [steps |-> 0, retrieval |-> 0, symbolic |-> 0, verifier |-> 0,
                        critique |-> 0, repairs |-> 0, candidates |-> 0, priors |-> 1]
             b == [phase |-> "INITIALIZED", steps |-> <<>>, candidates |-> <<>>,
              symbolic |-> <<>>, verifier |-> <<>>, retrieval |-> 0,
              critique |-> 0, priors |-> 1, repairs |-> 0, patches |-> <<>>,
              cursor |-> cursor,
              latest |-> root.fp, proof |-> root.proof, proofFp |-> root.proof,
              lineage |-> 0, resamples |-> 0, critiqued |-> FALSE]
  <1>1. cursor \in Cursors
    BY DEF Cursors
  <1>2. root.fp \in Fingerprints /\ root.proof \in Proofs
    BY DEF Nodes
  <1>3. b \in Branches
    <2> HIDE DEF cursor
    <2> QED
      BY <1>1, <1>2 DEF Branches, Phases
  <1>4. Exact(b) /\ Contiguous(b) /\ b.cursor.repairs = 0 /\ b.resamples = 0 /\ b.lineage = 0
    BY DEF Exact, Contiguous
  <1>5. Create(root) = AppendStep(b, "INITIAL", root)
    BY DEF Create
  <1> HIDE DEF b
  <1>6. Wf(b)
    BY <1>3, <1>4 DEF Wf
  <1>7. /\ Wf(AppendStep(b, "INITIAL", root))
        /\ SameBudget(b, AppendStep(b, "INITIAL", root))
    BY <1>6, AppendStepWf DEF StepKinds
  <1> QED
    BY <1>4, <1>5, <1>7 DEF SameBudget

-----------------------------------------------------------------------------
\* The cursor of a well-formed branch, in terms of its histories.
LEMMA WfCounts ==
  ASSUME NEW b, Wf(b)
  PROVE  /\ b \in Branches /\ b.cursor \in Cursors
         /\ b.steps \in Seq(Steps) /\ b.candidates \in Seq(Candidates)
         /\ b.patches \in Seq(Patches)
         /\ b.cursor.steps = Len(b.steps) /\ b.cursor.candidates = Len(b.candidates)
         /\ b.cursor.symbolic = Len(b.symbolic) /\ b.cursor.verifier = Len(b.verifier)
         /\ Len(b.steps) \in Nat /\ Len(b.candidates) \in Nat /\ Len(b.patches) \in Nat
         /\ b.cursor.repairs \in Nat
         /\ CurrentCandidate(b) =
              IF Len(b.candidates) = 0 THEN NoCandidate ELSE b.candidates[Len(b.candidates)]
  <1>1. b \in Branches /\ Exact(b)
    BY DEF Wf
  <1>2. /\ b.cursor \in Cursors /\ b.steps \in Seq(Steps) /\ b.candidates \in Seq(Candidates)
        /\ b.patches \in Seq(Patches)
    BY <1>1 DEF Branches
  <1>3. Len(b.steps) \in Nat /\ Len(b.candidates) \in Nat /\ Len(b.patches) \in Nat
    BY <1>2
  <1>4. b.cursor.repairs \in Nat
    BY <1>2 DEF Cursors
  <1> QED
    BY <1>1, <1>2, <1>3, <1>4 DEF Exact, CurrentCandidate

\* The current answer rests on steps, said without the cursor.
LEMMA SupportedSteps ==
  ASSUME NEW b, Wf(b)
  PROVE  Supported(b) <=>
           (CurrentCandidate(b).answer # NoAnswer =>
              CurrentCandidate(b).support \subseteq {b.steps[i] : i \in 1..Len(b.steps)})
  <1>1. /\ b.steps \in Seq(Steps) /\ b.cursor.steps = Len(b.steps) /\ Len(b.steps) \in Nat
    BY WfCounts
  <1>2. \A i \in 1..b.cursor.steps : ActiveSteps(b)[i] = b.steps[i]
    BY <1>1 DEF ActiveSteps
  <1>3. {ActiveSteps(b)[i] : i \in 1..b.cursor.steps} = {b.steps[i] : i \in 1..Len(b.steps)}
    BY <1>1, <1>2
  <1> QED
    BY <1>3 DEF Supported

\* A branch to which steps or evidence were added, and nothing else that the
\* ledger or the support looks at.
Extends(b, c) ==
  /\ c.patches = b.patches /\ c.candidates = b.candidates
  /\ Len(b.steps) <= Len(c.steps)
  /\ \A i \in 1..Len(b.steps) : c.steps[i] = b.steps[i]
  /\ b.cursor.repairs <= c.cursor.repairs

LEMMA AdvancesTrans ==
  ASSUME NEW c \in Cursors, NEW d \in Cursors, NEW e \in Cursors, Advances(c, d), Advances(d, e)
  PROVE  Advances(c, e)
  BY DEF Advances, Cursors

\* Such an addition keeps the ledger and the support.
LEMMA ExtendsKeeps ==
  ASSUME NEW b, NEW c, Wf(b), Wf(c), Extends(b, c)
  PROVE  /\ CurrentCandidate(c) = CurrentCandidate(b) /\ Advances(b.cursor, c.cursor)
         /\ Chained(b) => Chained(c)
         /\ Supported(b) => Supported(c)
  <1>1. CurrentCandidate(c) = CurrentCandidate(b) /\ Advances(b.cursor, c.cursor)
    BY WfCounts DEF Extends, Advances
  <1>2. ASSUME Chained(b) PROVE Chained(c)
    <2> DEFINE n == Len(b.patches)
    <2>1. n \in Nat /\ c.patches = b.patches /\ b.patches \in Seq(Patches)
      BY WfCounts DEF Extends
    <2>2. n > 0 => b.patches[n].after \in Cursors
      <3> SUFFICES ASSUME n > 0 PROVE b.patches[n].after \in Cursors
        OBVIOUS
      <3>1. b.patches[n] \in Patches
        BY <2>1
      <3> QED
        BY <3>1 DEF Patches
    <2>3. b.cursor \in Cursors /\ c.cursor \in Cursors
      BY WfCounts
    <2>4. n > 0 => /\ b.patches[n].candidateAfter = CurrentCandidate(c)
                  /\ Advances(b.patches[n].after, c.cursor)
      BY <1>1, <1>2, <2>2, <2>3, AdvancesTrans DEF Chained
    <2> QED
      BY <1>2, <2>1, <2>4 DEF Chained
  <1>3. ASSUME Supported(b) PROVE Supported(c)
    <2>1. {b.steps[i] : i \in 1..Len(b.steps)} \subseteq {c.steps[i] : i \in 1..Len(c.steps)}
      <3>1. Len(b.steps) \in Nat /\ Len(c.steps) \in Nat /\ Len(b.steps) <= Len(c.steps)
        BY WfCounts DEF Extends
      <3>2. \A i \in 1..Len(b.steps) : i \in 1..Len(c.steps) /\ c.steps[i] = b.steps[i]
        BY <3>1 DEF Extends
      <3> QED
        BY <3>2
    <2> QED
      BY <1>1, <1>3, <2>1, SupportedSteps
  <1> QED
    BY <1>1, <1>2, <1>3

\* A patch recorded for the change from b to c continues the ledger of b.
LEMMA RecordPatchChains ==
  ASSUME NEW b, NEW c, Wf(b), Wf(c), Chained(b), c.patches = b.patches,
         NEW kind \in PatchKinds, kind # "REPAIR" => Advances(b.cursor, c.cursor)
  PROVE  LET d == RecordPatch(c, kind, b.cursor, CurrentCandidate(b))
         IN  /\ Chained(d) /\ CurrentCandidate(d) = CurrentCandidate(c)
             /\ \A f \in Counted \cup {"phase", "latest", "proof", "proofFp"} : d[f] = c[f]
  <1> DEFINE n == Len(b.patches)
             p == [kind |-> kind, before |-> b.cursor, after |-> c.cursor,
                   candidateBefore |-> CurrentCandidate(b), candidateAfter |-> CurrentCandidate(c)]
             d == RecordPatch(c, kind, b.cursor, CurrentCandidate(b))
  <1>1. /\ n \in Nat /\ b.patches \in Seq(Patches)
        /\ b.cursor \in Cursors /\ c.cursor \in Cursors /\ c \in Branches
    BY WfCounts
  <1>2. p \in Patches
    BY <1>1, CurrentCandidateType DEF Patches
  <1>3. /\ p.kind = kind /\ p.before = b.cursor /\ p.after = c.cursor
        /\ p.candidateBefore = CurrentCandidate(b) /\ p.candidateAfter = CurrentCandidate(c)
    OBVIOUS
  <1>4. d = [c EXCEPT !.patches = Append(b.patches, p)]
    BY <1>1 DEF RecordPatch, Branches
  <1> HIDE DEF p, d
  <1>5. /\ d.patches = Append(b.patches, p)
        /\ \A f \in Counted \cup {"phase", "latest", "proof", "proofFp"} : d[f] = c[f]
    BY <1>1, <1>4 DEF Branches, Counted
  <1>6. d.cursor = c.cursor /\ CurrentCandidate(d) = CurrentCandidate(c)
    BY <1>5 DEF Counted, CurrentCandidate
  <1>7. /\ Len(d.patches) = n + 1 /\ d.patches[n + 1] = p
        /\ \A i \in 1..n : d.patches[i] = b.patches[i]
    BY <1>1, <1>2, <1>5
  <1>8. Advances(c.cursor, c.cursor)
    <2>1. \A e \in Cursors : Advances(e, e)
      BY DEF Advances, Cursors
    <2> QED
      BY <1>1, <2>1
  <1>9. ASSUME NEW i \in 1..n
        PROVE  /\ d.patches[i + 1].candidateBefore = d.patches[i].candidateAfter
               /\ Advances(d.patches[i].after, d.patches[i + 1].before)
    <2>1. CASE i < n
      <3>1. i \in 1..(n - 1) /\ i + 1 \in 1..n
        BY <1>1, <2>1
      <3> QED
        BY <1>7, <3>1 DEF Chained
    <2>2. CASE i = n
      BY <1>1, <1>3, <1>7, <2>2 DEF Chained
    <2> QED
      BY <1>1, <2>1, <2>2
  <1>10. ASSUME NEW i \in 1..(n + 1), d.patches[i].kind # "REPAIR"
         PROVE  Advances(d.patches[i].before, d.patches[i].after)
    <2>1. CASE i \in 1..n
      BY <1>7, <1>10, <2>1 DEF Chained
    <2>2. CASE i = n + 1
      BY <1>3, <1>7, <1>10, <2>2
    <2> QED
      BY <1>1, <2>1, <2>2
  <1>11. /\ d.patches[n + 1].candidateAfter = CurrentCandidate(d)
         /\ Advances(d.patches[n + 1].after, d.cursor)
    BY <1>3, <1>6, <1>7, <1>8
  <1>12. Chained(d)
    <2>1. (n + 1) - 1 = n /\ n + 1 > 0
      BY <1>1
    <2> QED
      BY <1>7, <1>9, <1>10, <1>11, <2>1 DEF Chained
  <1> QED
    BY <1>5, <1>6, <1>12 DEF d

-----------------------------------------------------------------------------
\* What the ledger and the support say of a branch.
Sound(b) == Chained(b) /\ Supported(b)

\* The state of the proof a branch records.
SameProof(b, c) == c.latest = b.latest /\ c.proof = b.proof /\ c.proofFp = b.proofFp

\* The evidence a branch was judged by.
SameEvidence(b, c) == c.symbolic = b.symbolic /\ c.verifier = b.verifier

\* add_step adds a step, and with a node its identity and obligations.
LEMMA AddStepAdds ==
  ASSUME NEW b, Wf(b), NEW kind \in StepKinds, NEW phase \in Phases,
         NEW n \in Nodes \cup {NoNode}
  PROVE  LET c == AddStep(b, kind, phase, n)
         IN  /\ Extends(b, c) /\ SameEvidence(b, c) /\ c.phase = phase
             /\ n.fp = NoFingerprint => SameProof(b, c)
             /\ n.fp # NoFingerprint => c.latest = n.fp /\ c.proof = n.proof /\ c.proofFp = n.proof
             /\ Sound(b) => Sound(c)
             /\ CurrentCandidate(c) = CurrentCandidate(b)
  <1> DEFINE step  == [index |-> b.cursor.steps, kind |-> kind, fp |-> n.fp]
             grown == Append(b.steps, step)
             a     == [b EXCEPT !.steps = grown, !.cursor.steps = Len(grown)]
             m     == [a EXCEPT !.latest = n.fp, !.proof = n.proof, !.proofFp = n.proof]
             s     == IF n.fp = NoFingerprint THEN a ELSE m
             c     == [s EXCEPT !.phase = phase]
  <1>1. /\ b \in Branches /\ b.steps \in Seq(Steps) /\ Len(b.steps) \in Nat
        /\ b.cursor.repairs \in Nat /\ b.cursor.steps \in Nat
    BY WfCounts
  <1>2. AddStep(b, kind, phase, n) = c
    BY DEF AddStep, AppendStep
  <1>3. step \in Steps
    BY <1>1 DEF Steps, Nodes, NoNode
  <1>4. Len(grown) = Len(b.steps) + 1 /\ \A i \in 1..Len(b.steps) : grown[i] = b.steps[i]
    BY <1>1, <1>3
  <1> HIDE DEF grown
  <1>5. /\ a.steps = grown /\ a.patches = b.patches /\ a.candidates = b.candidates
        /\ a.symbolic = b.symbolic /\ a.verifier = b.verifier /\ SameProof(b, a)
        /\ DOMAIN a = DOMAIN b
    BY <1>1 DEF Branches, SameProof
  <1> HIDE DEF a
  <1>6. /\ s.steps = grown /\ s.patches = b.patches /\ s.candidates = b.candidates
        /\ s.symbolic = b.symbolic /\ s.verifier = b.verifier
        /\ n.fp = NoFingerprint => SameProof(b, s)
        /\ n.fp # NoFingerprint => s.latest = n.fp /\ s.proof = n.proof /\ s.proofFp = n.proof
        /\ DOMAIN s = DOMAIN b
    BY <1>1, <1>5 DEF Branches, SameProof
  <1> HIDE DEF s
  <1>7. /\ c.steps = grown /\ c.patches = b.patches /\ c.candidates = b.candidates
        /\ c.symbolic = b.symbolic /\ c.verifier = b.verifier /\ c.phase = phase
        /\ n.fp = NoFingerprint => SameProof(b, c)
        /\ n.fp # NoFingerprint => c.latest = n.fp /\ c.proof = n.proof /\ c.proofFp = n.proof
    BY <1>1, <1>6 DEF Branches, SameProof
  <1> HIDE DEF c
  <1>8. Wf(c) /\ c.cursor.repairs = b.cursor.repairs
    BY <1>2, AddStepWf DEF SameBudget
  <1>9. Extends(b, c)
    BY <1>1, <1>4, <1>7, <1>8 DEF Extends
  <1>10. (Sound(b) => Sound(c)) /\ CurrentCandidate(c) = CurrentCandidate(b)
    BY <1>8, <1>9, ExtendsKeeps DEF Sound
  <1> QED
    BY <1>2, <1>7, <1>9, <1>10 DEF SameEvidence

\* set_phase is one patch.
LEMMA SetPhaseMarks ==
  ASSUME NEW b, Wf(b), NEW phase \in Phases
  PROVE  LET c == SetPhase(b, phase)
         IN  /\ c.phase = phase /\ SameProof(b, c) /\ SameEvidence(b, c)
             /\ CurrentCandidate(c) = CurrentCandidate(b)
             /\ Sound(b) => Sound(c)
             /\ \A f \in Counted : c[f] = b[f]
  <1> DEFINE a == [b EXCEPT !.phase = phase]
             c == RecordPatch(a, "PHASE_UPDATE", b.cursor, CurrentCandidate(b))
             d == [a EXCEPT !.patches = Append(@,
                     [kind |-> "PHASE_UPDATE", before |-> b.cursor, after |-> a.cursor,
                      candidateBefore |-> CurrentCandidate(b),
                      candidateAfter |-> CurrentCandidate(a)])]
  <1>1. b \in Branches /\ b.cursor \in Cursors
    BY WfCounts
  <1>2. /\ a \in Branches /\ a.patches = b.patches /\ a.phase = phase /\ SameProof(b, a)
        /\ \A f \in Counted : a[f] = b[f]
    BY <1>1 DEF Branches, SameProof, Counted
  <1> HIDE DEF a
  <1>3. Wf(a)
    BY <1>2, TransferWf
  <1>4. /\ \A f \in Counted : c[f] = a[f]
        /\ c.phase = a.phase /\ SameProof(a, c)
    <2>1. c = d
      BY DEF RecordPatch
    <2> HIDE DEF c
    <2> QED
      BY <1>2, <2>1 DEF Branches, SameProof, Counted
  <1>5. Wf(c)
    BY SetPhaseWf DEF SetPhase, a
  <1>6. CurrentCandidate(a) = CurrentCandidate(b) /\ CurrentCandidate(c) = CurrentCandidate(a)
    BY <1>2, <1>4 DEF CurrentCandidate, Counted
  <1>7. ASSUME Sound(b) PROVE Sound(c)
    <2>1. Advances(b.cursor, a.cursor)
      <3>1. a.cursor = b.cursor
        BY <1>2 DEF Counted
      <3>2. \A e \in Cursors : Advances(e, e)
        BY DEF Advances, Cursors
      <3> QED
        BY <1>1, <3>1, <3>2
    <2>2. Chained(c)
      BY <1>2, <1>3, <1>7, <2>1, RecordPatchChains DEF Sound, PatchKinds
    <2>3. c.steps = b.steps
      BY <1>2, <1>4 DEF Counted
    <2>4. Supported(c)
      BY <1>5, <1>6, <1>7, <2>3, SupportedSteps DEF Sound
    <2> QED
      BY <2>2, <2>4 DEF Sound
  <1>8. SameEvidence(b, c) /\ SameProof(b, c) /\ c.phase = phase /\ \A f \in Counted : c[f] = b[f]
    BY <1>2, <1>4 DEF SameEvidence, SameProof, Counted
  <1> QED
    BY <1>6, <1>7, <1>8 DEF SetPhase, a

\* set_candidate_answer makes the answer current, and supports it with steps
\* the branch has, whatever the candidate before rested on.
LEMMA SetCandidateStates ==
  ASSUME NEW b, Wf(b), NEW answer \in Answers \cup {NoAnswer},
         NEW source \in {"generated", "repair", "self_critique"}
  PROVE  LET c == SetCandidate(b, answer, source)
         IN  /\ CurrentCandidate(c) = [answer |-> answer, source |-> source, support |-> LastTwo(b)]
             /\ SameProof(b, c) /\ SameEvidence(b, c) /\ c.phase = b.phase
             /\ Chained(b) => Sound(c)
  <1> DEFINE candidate == [answer |-> answer, source |-> source, support |-> LastTwo(b)]
             grown == Append(b.candidates, candidate)
             moved == [b.cursor EXCEPT !.candidates = Len(grown)]
             a == [b EXCEPT !.candidates = grown, !.cursor.candidates = Len(grown)]
             c == RecordPatch(a, "CANDIDATE_UPDATE", b.cursor, CurrentCandidate(b))
             d == [a EXCEPT !.patches = Append(@,
                     [kind |-> "CANDIDATE_UPDATE", before |-> b.cursor, after |-> a.cursor,
                      candidateBefore |-> CurrentCandidate(b),
                      candidateAfter |-> CurrentCandidate(a)])]
  <1>1. /\ b \in Branches /\ b.cursor \in Cursors /\ b.candidates \in Seq(Candidates)
        /\ Len(b.candidates) \in Nat /\ Exact(b) /\ Contiguous(b)
        /\ b.cursor.steps \in Nat /\ b.cursor.repairs \in Nat
        /\ b.cursor.candidates = Len(b.candidates)
        /\ b.steps \in Seq(Steps) /\ b.cursor.steps = Len(b.steps)
    BY WfCounts DEF Wf
  <1>2. candidate \in Candidates /\ candidate.support = LastTwo(b)
    BY LastTwoType DEF Candidates
  <1> HIDE DEF candidate
  <1>3. /\ grown \in Seq(Candidates) /\ Len(grown) = Len(b.candidates) + 1
        /\ grown[Len(b.candidates) + 1] = candidate /\ Len(grown) \in Nat
    BY <1>1, <1>2
  <1> HIDE DEF grown
  <1>4. moved \in Cursors
    BY <1>1, <1>3 DEF Cursors
  <1>5. /\ moved.candidates = Len(grown)
        /\ \A f \in {"steps", "symbolic", "verifier", "retrieval", "critique",
                    "priors", "repairs"} : moved[f] = b.cursor[f]
    BY SMTT(30), <1>1 DEF Cursors
  <1>6. a = [b EXCEPT !.candidates = grown, !.cursor = moved]
    BY <1>1 DEF Branches
  <1> HIDE DEF moved, a
  <1>7. /\ a \in Branches /\ a.candidates = grown /\ a.cursor = moved /\ a.patches = b.patches
        /\ a.phase = b.phase /\ SameProof(b, a)
        /\ \A f \in Counted \ {"candidates", "cursor"} : a[f] = b[f]
    BY <1>1, <1>3, <1>4, <1>6 DEF Branches, SameProof, Counted
  <1>8. Wf(a)
    BY <1>1, <1>5, <1>7 DEF Wf, Exact, Contiguous, Counted
  <1>9. CurrentCandidate(a) = candidate
    BY <1>1, <1>3, <1>7, <1>8, WfCounts
  <1>10. \A f \in Counted : c[f] = a[f]
    <2>1. c = d
      BY DEF RecordPatch
    <2> HIDE DEF c
    <2> QED
      BY <1>7, <2>1 DEF Branches, Counted
  <1>11. c.phase = a.phase /\ SameProof(a, c)
    <2>1. c = d
      BY DEF RecordPatch
    <2> HIDE DEF c
    <2> QED
      BY <1>7, <2>1 DEF Branches, SameProof
  <1>12. Wf(c)
    BY SetCandidateWf DEF SetCandidate, a, grown, candidate
  <1>13. CurrentCandidate(c) = candidate
    BY <1>9, <1>10 DEF CurrentCandidate, Counted
  <1>14. ASSUME Chained(b) PROVE Sound(c)
    <2>1. Advances(b.cursor, a.cursor)
      BY <1>1, <1>3, <1>5, <1>7 DEF Advances
    <2>2. Chained(c)
      BY <1>7, <1>8, <1>14, <2>1, RecordPatchChains DEF PatchKinds
    <2>3. c.steps = b.steps
      BY <1>7, <1>10 DEF Counted
    <2>4. LastTwo(b) \subseteq {b.steps[i] : i \in 1..Len(b.steps)}
      BY <1>1 DEF LastTwo
    <2>5. Supported(c)
      BY <1>2, <1>12, <1>13, <2>3, <2>4, SupportedSteps
    <2> QED
      BY <2>2, <2>5 DEF Sound
  <1>15. SameEvidence(b, c) /\ SameProof(b, c) /\ c.phase = b.phase
    BY <1>7, <1>10, <1>11 DEF SameEvidence, SameProof, Counted
  <1> QED
    BY <1>13, <1>14, <1>15 DEF SetCandidate, a, grown, candidate

\* The attach methods add evidence.
LEMMA AttachRetrievalAdds ==
  ASSUME NEW b, Wf(b)
  PROVE  LET c == AttachRetrieval(b)
         IN  Extends(b, c) /\ CurrentCandidate(c) = CurrentCandidate(b) /\ (Sound(b) => Sound(c))
  <1> DEFINE c == AttachRetrieval(b)
  <1>1. /\ b \in Branches /\ b.cursor.repairs \in Nat /\ Len(b.steps) \in Nat
        /\ Wf(c) /\ c.cursor.repairs = b.cursor.repairs
    BY WfCounts, AttachRetrievalWf DEF SameBudget
  <1>2. c.steps = b.steps /\ c.patches = b.patches /\ c.candidates = b.candidates
    BY <1>1 DEF AttachRetrieval, Branches
  <1> HIDE DEF c
  <1>3. Extends(b, c)
    BY <1>1, <1>2 DEF Extends
  <1> QED
    BY <1>1, <1>3, ExtendsKeeps DEF Sound, c

LEMMA AttachSymbolicAdds ==
  ASSUME NEW b, Wf(b), NEW verdict \in Verdicts
  PROVE  LET c == AttachSymbolic(b, verdict)
         IN  Extends(b, c) /\ CurrentCandidate(c) = CurrentCandidate(b) /\ (Sound(b) => Sound(c))
  <1> DEFINE c == AttachSymbolic(b, verdict)
  <1>1. /\ b \in Branches /\ b.cursor.repairs \in Nat /\ Len(b.steps) \in Nat
        /\ Wf(c) /\ c.cursor.repairs = b.cursor.repairs
    BY WfCounts, AttachSymbolicWf DEF SameBudget
  <1>2. c.steps = b.steps /\ c.patches = b.patches /\ c.candidates = b.candidates
    BY <1>1 DEF AttachSymbolic, Branches
  <1> HIDE DEF c
  <1>3. Extends(b, c)
    BY <1>1, <1>2 DEF Extends
  <1> QED
    BY <1>1, <1>3, ExtendsKeeps DEF Sound, c

LEMMA AttachVerifierAdds ==
  ASSUME NEW b, Wf(b), NEW accepted \in BOOLEAN
  PROVE  LET c == AttachVerifier(b, accepted)
         IN  Extends(b, c) /\ CurrentCandidate(c) = CurrentCandidate(b) /\ (Sound(b) => Sound(c))
  <1> DEFINE c == AttachVerifier(b, accepted)
  <1>1. /\ b \in Branches /\ b.cursor.repairs \in Nat /\ Len(b.steps) \in Nat
        /\ Wf(c) /\ c.cursor.repairs = b.cursor.repairs
    BY WfCounts, AttachVerifierWf DEF SameBudget
  <1>2. c.steps = b.steps /\ c.patches = b.patches /\ c.candidates = b.candidates
    BY <1>1 DEF AttachVerifier, Branches
  <1> HIDE DEF c
  <1>3. Extends(b, c)
    BY <1>1, <1>2 DEF Extends
  <1> QED
    BY <1>1, <1>3, ExtendsKeeps DEF Sound, c

LEMMA AttachCritiqueAdds ==
  ASSUME NEW b, Wf(b)
  PROVE  LET c == AttachCritique(b)
         IN  /\ CurrentCandidate(c) = CurrentCandidate(b) /\ SameProof(b, c)
             /\ Sound(b) => Sound(c)
  <1> DEFINE c == AttachCritique(b)
  <1>1. /\ b \in Branches /\ b.cursor.repairs \in Nat /\ Len(b.steps) \in Nat
        /\ Wf(c) /\ c.cursor.repairs = b.cursor.repairs
    BY WfCounts, AttachCritiqueWf DEF SameBudget
  <1>2. /\ c.steps = b.steps /\ c.patches = b.patches /\ c.candidates = b.candidates
        /\ SameProof(b, c)
    BY <1>1 DEF AttachCritique, Branches, SameProof
  <1> HIDE DEF c
  <1>3. Extends(b, c)
    BY <1>1, <1>2 DEF Extends
  <1> QED
    BY <1>1, <1>2, <1>3, ExtendsKeeps DEF Sound, c

\* record_repair may cut off the support of the candidate, which it leaves
\* current; the ledger goes on.
LEMMA RecordRepairChains ==
  ASSUME NEW b, Wf(b), NEW toStep \in Nat, Chained(b)
  PROVE  LET c == RecordRepair(b, toStep)
         IN  Chained(c) /\ CurrentCandidate(c) = CurrentCandidate(b)
  <1> DEFINE target  == IF toStep < b.cursor.steps THEN toStep ELSE b.cursor.steps
             kept    == SubSeq(b.steps, 1, target)
             latest  == IF target = 0 THEN NoFingerprint ELSE b.steps[target].fp
             moved   == [b.cursor EXCEPT !.steps = target]
             trimmed == [TrimSteps(b, target) EXCEPT !.cursor.steps = target]
             patched == RecordPatch(trimmed, "REPAIR", b.cursor, CurrentCandidate(trimmed))
             c       == [patched EXCEPT !.repairs = @ + 1, !.cursor.repairs = b.repairs + 1,
                                        !.phase = "REPAIRED"]
  <1>1. /\ b \in Branches /\ b.cursor \in Cursors /\ b.steps \in Seq(Steps)
        /\ b.cursor.steps = Len(b.steps) /\ b.cursor.steps \in Nat
        /\ b.repairs \in Nat /\ b.cursor.repairs = b.repairs /\ Exact(b) /\ Contiguous(b)
    BY DEF Wf, Branches, Cursors, Exact
  <1>2. target \in 0..Len(b.steps) /\ target \in Nat
    BY <1>1
  <1> HIDE DEF target
  <1>3. kept \in Seq(Steps) /\ Len(kept) = target /\ \A i \in 1..target : kept[i] = b.steps[i]
    BY <1>1, <1>2
  <1>4. latest \in Fingerprints \cup {NoFingerprint}
    <2>1. target # 0 => b.steps[target] \in Steps
      BY <1>1, <1>2
    <2> QED
      BY <2>1 DEF Steps
  <1>5. moved \in Cursors
    BY <1>1, <1>2 DEF Cursors
  <1>6. trimmed = [b EXCEPT !.steps = kept, !.latest = latest, !.proofFp = b.proof,
                            !.cursor = moved]
    BY <1>1 DEF TrimSteps, Branches
  <1>7. /\ moved.steps = target
        /\ \A f \in {"candidates", "symbolic", "verifier", "retrieval", "critique", "priors",
                    "repairs"} : moved[f] = b.cursor[f]
    BY <1>1 DEF Cursors
  <1> HIDE DEF kept, latest, trimmed, moved
  <1>8. trimmed \in Branches
    BY <1>1, <1>3, <1>4, <1>5, <1>6 DEF Branches
  <1>9. /\ trimmed.steps = kept /\ trimmed.cursor = moved /\ trimmed.patches = b.patches
        /\ \A f \in Counted \ {"steps", "cursor"} : trimmed[f] = b[f]
    BY <1>1, <1>6 DEF Branches, Counted
  <1>10. Wf(trimmed)
    <2>1. Exact(trimmed)
      BY <1>1, <1>3, <1>7, <1>9 DEF Exact, Counted
    <2>2. Contiguous(trimmed)
      BY <1>1, <1>2, <1>3, <1>9 DEF Contiguous
    <2> QED
      BY <1>8, <2>1, <2>2 DEF Wf
  <1>11. CurrentCandidate(trimmed) = CurrentCandidate(b)
    BY <1>7, <1>9 DEF CurrentCandidate, Counted
  <1>12. /\ Chained(patched) /\ CurrentCandidate(patched) = CurrentCandidate(b)
         /\ \A f \in Counted : patched[f] = trimmed[f]
    <2>1. patched = RecordPatch(trimmed, "REPAIR", b.cursor, CurrentCandidate(b))
      BY <1>11
    <2> HIDE DEF patched
    <2>2. "REPAIR" \in PatchKinds
      BY DEF PatchKinds
    <2> QED
      BY <1>9, <1>10, <1>11, <2>1, <2>2, RecordPatchChains
  <1>13. Wf(patched)
    BY <1>1, <1>10, RecordPatchWf, CurrentCandidateType DEF PatchKinds
  <1> HIDE DEF patched
  <1>14. c.steps = patched.steps /\ c.patches = patched.patches /\ c.candidates = patched.candidates
    BY <1>13 DEF Wf, Branches
  <1>15. RecordRepair(b, toStep) = c
    BY DEF RecordRepair, c, patched, trimmed, target
  <1> HIDE DEF c
  <1>16. Wf(c) /\ c.cursor.repairs = b.cursor.repairs + 1
    BY <1>15, RecordRepairWf
  <1>17. patched.cursor.repairs = b.cursor.repairs
    BY <1>1, <1>7, <1>9, <1>12 DEF Counted
  <1>18. Extends(patched, c)
    BY <1>1, <1>13, <1>14, <1>16, <1>17, WfCounts DEF Extends
  <1> QED
    BY <1>12, <1>13, <1>15, <1>16, <1>18, ExtendsKeeps

\* fork copies the ledger and the candidate with the rest.
LEMMA ForkCopies ==
  ASSUME NEW b, Wf(b)
  PROVE  LET c == Fork(b)
         IN  /\ CurrentCandidate(c) = CurrentCandidate(b) /\ SameProof(b, c)
             /\ Sound(b) => Sound(c)
  <1> DEFINE c == Fork(b)
  <1>1. /\ b \in Branches /\ b.cursor.repairs \in Nat /\ Len(b.steps) \in Nat
        /\ Wf(c) /\ c.cursor = b.cursor
    BY WfCounts, ForkWf
  <1>2. /\ c.steps = b.steps /\ c.patches = b.patches /\ c.candidates = b.candidates
        /\ SameProof(b, c)
    BY <1>1 DEF Fork, Branches, SameProof
  <1> HIDE DEF c
  <1>3. Extends(b, c)
    BY <1>1, <1>2 DEF Extends
  <1> QED
    BY <1>1, <1>2, <1>3, ExtendsKeeps DEF Sound, c

\* create starts an empty ledger, without an answer.
LEMMA CreateSound ==
  ASSUME NEW root \in Nodes, NoFingerprint \notin Fingerprints
  PROVE  LET c == Create(root)
         IN  /\ Sound(c) /\ c.phase = "INITIALIZED"
             /\ c.latest = root.fp /\ c.proof = root.proof /\ c.proofFp = root.proof
  <1> DEFINE c == Create(root)
  <1>1. root.fp \in Fingerprints /\ root.fp # NoFingerprint
    BY DEF Nodes
  <1>2. /\ c.patches = <<>> /\ c.candidates = <<>> /\ c.phase = "INITIALIZED"
        /\ c.latest = root.fp /\ c.proof = root.proof /\ c.proofFp = root.proof
    BY <1>1 DEF Create, AppendStep
  <1>3. Wf(c)
    BY CreateWf
  <1> HIDE DEF c
  <1>4. CurrentCandidate(c) = NoCandidate
    BY <1>2, <1>3, WfCounts
  <1>5. Supported(c)
    BY <1>4 DEF Supported, NoCandidate
  <1>6. Chained(c)
    BY <1>2 DEF Chained
  <1> QED
    BY <1>2, <1>5, <1>6 DEF Sound, c

-----------------------------------------------------------------------------
\* The actions of a lineage.

\* The budgets of a lineage, as a fact about one branch at depth d.
WithinBudget(b, d) ==
  /\ b.cursor.repairs <= RepairLimit
  /\ b.lineage = d + b.resamples
  /\ b.resamples <= ResampleBudget

\* The inductive invariant.
IInv ==
  /\ Wf(branch)
  /\ WithinBudget(branch, depth)
  /\ node \in Nodes
  /\ depth \in 0..MaxDepth
  /\ stage \in {"seed", "frontier", "expanded", "final"}

\* The limits are natural numbers.
LEMMA LimitType == RepairLimit \in Nat
  BY BudgetAssumption DEF RepairLimit

\* SameBudget composes, and carries WithinBudget over.
LEMMA SameBudgetTrans ==
  ASSUME NEW a, NEW b, NEW c, SameBudget(a, b), SameBudget(b, c)
  PROVE  SameBudget(a, c)
  BY DEF SameBudget

LEMMA SameBudgetWithin ==
  ASSUME NEW b, NEW c, NEW d, SameBudget(b, c), WithinBudget(b, d)
  PROVE  WithinBudget(c, d)
  BY DEF SameBudget, WithinBudget

\* What a symbolic check reports is a verdict.
LEMMA VerdictsOnType ==
  ASSUME NEW n \in Nodes, NEW v \in VerdictsOn(n)
  PROVE  v \in Verdicts
  <1>1. n.proof \in Proofs
    BY DEF Nodes
  <1>2. PICK p \in BOOLEAN, S \in SUBSET Obligations :
          v = [passed |-> p, proof |-> [o \in Obligations |->
                IF o \in S /\ n.proof[o] = "open"
                THEN IF p THEN "discharged" ELSE "contradicted" ELSE n.proof[o]]]
    BY DEF VerdictsOn
  <1> DEFINE f == [o \in Obligations |->
                IF o \in S /\ n.proof[o] = "open"
                THEN IF p THEN "discharged" ELSE "contradicted" ELSE n.proof[o]]
  <1>3. f \in Proofs
    BY <1>1 DEF Proofs
  <1> HIDE DEF f
  <1>4. v = [passed |-> p, proof |-> f]
    BY <1>2 DEF f
  <1> QED
    BY <1>3, <1>4 DEF Verdicts

\* A whole attempt keeps a branch well formed and spends no budget.
LEMMA AttemptWf ==
  ASSUME NEW b, Wf(b), NEW old \in Nodes, NEW new \in Nodes,
         NEW answer \in Answers \cup {NoAnswer}, NEW verdict \in Verdicts,
         NEW accepted \in BOOLEAN
  PROVE  /\ Wf(Attempt(b, old, new, answer, verdict, accepted))
         /\ SameBudget(b, Attempt(b, old, new, answer, verdict, accepted))
  <1> DEFINE b1 == AddStep(b, "OPERATOR", "REASONING", old)
             b2 == SetCandidate(b1, answer, "generated")
             b3 == AddStep(b2, "OPERATOR", "REASONING", new)
             a4 == AttachSymbolic(b3, verdict)
             b4 == AddStep(a4, "SYMBOLIC", "VERIFIED", new)
             a5 == AttachVerifier(b4, accepted)
             b5 == AddStep(a5, "VERIFIER", "VERIFIED", new)
  <1> USE DEF StepKinds, Phases
  <1>1. Wf(b1) /\ SameBudget(b, b1)
    BY AddStepWf
  <1> HIDE DEF b1
  <1>2. Wf(b2) /\ SameBudget(b, b2)
    BY <1>1, SetCandidateWf, SameBudgetTrans
  <1> HIDE DEF b2
  <1>3. Wf(b3) /\ SameBudget(b, b3)
    BY <1>2, AddStepWf, SameBudgetTrans
  <1> HIDE DEF b3
  <1>4. Wf(a4) /\ SameBudget(b, a4)
    BY <1>3, AttachSymbolicWf, SameBudgetTrans
  <1> HIDE DEF a4
  <1>5. Wf(b4) /\ SameBudget(b, b4)
    BY <1>4, AddStepWf, SameBudgetTrans
  <1> HIDE DEF b4
  <1>6. Wf(a5) /\ SameBudget(b, a5)
    BY <1>5, AttachVerifierWf, SameBudgetTrans
  <1> HIDE DEF a5
  <1>7. Wf(b5) /\ SameBudget(b, b5)
    BY <1>6, AddStepWf, SameBudgetTrans
  <1> QED
    BY <1>7 DEF Attempt, b1, b2, b3, a4, b4, a5

\* A repair spends exactly one repair and nothing else.
LEMMA RepairedWf ==
  ASSUME NEW b, Wf(b), NEW keep \in Nat, NEW fixed \in Nodes
  PROVE  LET c == Repaired(b, keep, fixed)
         IN  /\ Wf(c)
             /\ c.cursor.repairs = b.cursor.repairs + 1
             /\ c.lineage = b.lineage /\ c.resamples = b.resamples
  <1> DEFINE answer == CurrentCandidate(b).answer
             b0 == RecordRepair(b, keep)
             b1 == AddStep(b0, "REPAIR", "REPAIRED", fixed)
             b2 == IF answer = NoAnswer THEN b1 ELSE SetCandidate(b1, answer, "repair")
             c  == SetPhase(b2, "REPAIRED")
  <1> USE DEF StepKinds, Phases
  <1>1. answer \in Answers \cup {NoAnswer}
    BY CurrentCandidateType DEF Candidates, NoCandidate
  <1>2. /\ Wf(b0) /\ b0.cursor.repairs = b.cursor.repairs + 1
        /\ b0.lineage = b.lineage /\ b0.resamples = b.resamples
    BY RecordRepairWf
  <1> HIDE DEF b0, answer
  <1>3. Wf(b1) /\ SameBudget(b0, b1)
    BY <1>2, AddStepWf
  <1> HIDE DEF b1
  <1>4. Wf(b2) /\ SameBudget(b0, b2)
    <2>1. CASE answer = NoAnswer
      BY <2>1, <1>3
    <2>2. CASE answer # NoAnswer
      <3>1. Wf(SetCandidate(b1, answer, "repair")) /\ SameBudget(b1, SetCandidate(b1, answer, "repair"))
        BY <1>1, <1>3, SetCandidateWf
      <3> QED
        BY <2>2, <3>1, <1>3, SameBudgetTrans
    <2> QED
      BY <2>1, <2>2
  <1> HIDE DEF b2
  <1>5. Wf(c) /\ SameBudget(b0, c)
    BY <1>4, SetPhaseWf, SameBudgetTrans
  <1> HIDE DEF c
  <1>6. Repaired(b, keep, fixed) = c
    BY DEF Repaired, c, b2, b1, b0, answer
  <1> QED
    BY <1>2, <1>5, <1>6 DEF SameBudget

\* A resample spends one resample and one fork.
LEMMA ResampledWf ==
  ASSUME NEW b, Wf(b)
  PROVE  /\ Wf(Resampled(b))
         /\ Resampled(b).cursor.repairs = b.cursor.repairs
         /\ Resampled(b).lineage = b.lineage + 1
         /\ Resampled(b).resamples = b.resamples + 1
  <1> DEFINE f  == Fork(b)
             b1 == [f EXCEPT !.resamples = @ + 1]
             b2 == SetPhase(b1, "REASONING")
             c  == AddStep(b2, "OPERATOR", "REASONING", NoNode)
  <1> USE DEF StepKinds, Phases
  <1>1. /\ Wf(f) /\ f.cursor = b.cursor /\ f.resamples = b.resamples
        /\ f.lineage = b.lineage + 1
    BY ForkWf
  <1> HIDE DEF f
  <1>2. f \in Branches /\ f.resamples \in Nat /\ f.resamples + 1 \in Nat
    <2>1. f \in Branches /\ f.resamples \in Nat
      BY <1>1 DEF Wf, Branches
    <2> QED
      BY <2>1
  <1>3. b1 \in Branches
    BY <1>2 DEF Branches
  <1>4. b1.resamples = f.resamples + 1 /\ \A x \in Counted \ {"resamples"} : b1[x] = f[x]
    BY <1>2 DEF Branches, Counted
  <1> HIDE DEF b1
  <1>5. Wf(b1)
    BY <1>1, <1>3, <1>4 DEF Wf, Exact, Contiguous, Counted
  <1>6. /\ b1.cursor.repairs = b.cursor.repairs /\ b1.lineage = b.lineage + 1
        /\ b1.resamples = b.resamples + 1
    BY <1>1, <1>4 DEF Counted
  <1>7. Wf(b2) /\ SameBudget(b1, b2)
    BY <1>5, SetPhaseWf
  <1> HIDE DEF b2
  <1>8. Wf(c) /\ SameBudget(b1, c)
    BY <1>7, AddStepWf, SameBudgetTrans
  <1> HIDE DEF c
  <1>9. Resampled(b) = c
    BY DEF Resampled, c, b2, b1, f
  <1> QED
    BY <1>6, <1>8, <1>9 DEF SameBudget

\* The nodes an attempt or a repair produces, and the prefixes a repair keeps.
LEMMA NodesType ==
  ASSUME NEW n \in Nodes
  PROVE  NextNodes(n) \subseteq Nodes /\ FixedNodes(n) \subseteq Nodes
  BY DEF Nodes, NextNodes, FixedNodes

LEMMA RepairPrefixesType ==
  ASSUME NEW b, b.cursor.steps \in Nat
  PROVE  RepairPrefixes(b) \subseteq Nat
  BY DEF RepairPrefixes, SafePrefixes

\* A change of phase spends no budget.
LEMMA PhaseKept ==
  ASSUME NEW b, Wf(b), NEW n \in Nodes, NEW d \in Nat, WithinBudget(b, d),
         NEW phase \in Phases, branch' = SetPhase(b, phase), node' = n
  PROVE  Wf(branch') /\ WithinBudget(branch', d) /\ node' \in Nodes
  BY SetPhaseWf, SameBudgetWithin

\* A repair spends one unit of its budget, or gives up.
LEMMA ApplyLocalRepairWf ==
  ASSUME NEW b, Wf(b), NEW n \in Nodes, NEW d \in Nat, WithinBudget(b, d),
         ApplyLocalRepair(b, n)
  PROVE  Wf(branch') /\ WithinBudget(branch', d) /\ node' \in Nodes
  <1>1. /\ b.cursor.repairs \in Nat /\ b.lineage \in Nat /\ b.resamples \in Nat
        /\ b.cursor.steps \in Nat
    <2>1. b.cursor \in Cursors /\ b.lineage \in Nat /\ b.resamples \in Nat
      BY DEF Wf, Branches
    <2> QED
      BY <2>1 DEF Cursors
  <1>2. CASE GiveUp(b, n)
    BY <1>2, PhaseKept DEF GiveUp, Phases
  <1>3. CASE ~GiveUp(b, n)
    <2>1. PICK keep \in RepairPrefixes(b), fixed \in FixedNodes(n) :
             branch' = Repaired(b, keep, fixed) /\ node' = fixed
      BY <1>3 DEF ApplyLocalRepair
    <2>2. b.cursor.repairs < RepairLimit
      BY <1>3 DEF ApplyLocalRepair
    <2>3. node' \in Nodes /\ fixed \in Nodes /\ keep \in Nat
      BY <1>1, <2>1, NodesType, RepairPrefixesType
    <2>4. /\ Wf(branch') /\ branch'.cursor.repairs = b.cursor.repairs + 1
          /\ branch'.lineage = b.lineage /\ branch'.resamples = b.resamples
      BY <2>1, <2>3, RepairedWf
    <2> QED
      BY <1>1, <2>2, <2>3, <2>4, LimitType DEF WithinBudget
  <1> QED
    BY <1>2, <1>3

\* A resample adds one fork to the lineage and counts it, or gives up.
LEMMA ApplyResampleGuidanceWf ==
  ASSUME NEW b, Wf(b), NEW n \in Nodes, NEW d \in Nat, WithinBudget(b, d),
         ApplyResampleGuidance(b, n)
  PROVE  Wf(branch') /\ WithinBudget(branch', d) /\ node' \in Nodes
  <1>1. /\ b.cursor.repairs \in Nat /\ b.lineage \in Nat /\ b.resamples \in Nat
    <2>1. b.cursor \in Cursors /\ b.lineage \in Nat /\ b.resamples \in Nat
      BY DEF Wf, Branches
    <2> QED
      BY <2>1 DEF Cursors
  <1>2. CASE GiveUp(b, n)
    BY <1>2, PhaseKept DEF GiveUp, Phases
  <1>3. CASE ~GiveUp(b, n)
    <2>1. /\ b.resamples < ResampleBudget
          /\ branch' = Resampled(b) /\ node' = n
      BY <1>3 DEF ApplyResampleGuidance, ResampleResults
    <2>2. /\ Wf(branch') /\ branch'.cursor.repairs = b.cursor.repairs
          /\ branch'.lineage = b.lineage + 1 /\ branch'.resamples = b.resamples + 1
      BY <2>1, ResampledWf
    <2> QED
      BY <1>1, <2>1, <2>2, BudgetAssumption DEF WithinBudget
  <1> QED
    BY <1>2, <1>3

\* However the attempt is settled, the branch stays well formed and in budget.
LEMMA SettleWf ==
  ASSUME NEW b, Wf(b), NEW n \in Nodes, NEW d \in Nat, WithinBudget(b, d), Settle(b, n)
  PROVE  Wf(branch') /\ WithinBudget(branch', d) /\ node' \in Nodes
  <1>1. CASE ApplyLocalRepair(b, n)
    BY <1>1, ApplyLocalRepairWf
  <1>2. CASE ApplyResampleGuidance(b, n)
    BY <1>2, ApplyResampleGuidanceWf
  <1>3. CASE \E phase \in {"SOLVED", "REASONING"} : branch' = SetPhase(b, phase) /\ node' = n
    BY <1>3, PhaseKept DEF Phases
  <1> QED
    BY <1>1, <1>2, <1>3 DEF Settle

\* An attempt on a well-formed branch, settled, leaves a well-formed branch.
LEMMA ProcessWf ==
  ASSUME NEW b, Wf(b), node \in Nodes, NEW d \in Nat, WithinBudget(b, d), Process(b)
  PROVE  Wf(branch') /\ WithinBudget(branch', d) /\ node' \in Nodes
  <1>1. PICK answer \in Answers \cup {NoAnswer}, new \in NextNodes(node),
             accepted \in BOOLEAN :
          \E verdict \in VerdictsOn(new) :
            Settle(Attempt(b, node, new, answer, verdict, accepted), new)
    BY DEF Process, Generated, Accepts
  <1>2. new \in Nodes
    BY NodesType
  <1>3. PICK verdict \in VerdictsOn(new) :
          Settle(Attempt(b, node, new, answer, verdict, accepted), new)
    BY <1>1
  <1> DEFINE c == Attempt(b, node, new, answer, verdict, accepted)
  <1>4. verdict \in Verdicts
    BY <1>2, VerdictsOnType
  <1>5. Wf(c) /\ SameBudget(b, c)
    BY <1>2, <1>4, AttemptWf
  <1>6. WithinBudget(c, d)
    BY <1>5, SameBudgetWithin
  <1> HIDE DEF c
  <1> QED
    BY <1>2, <1>3, <1>5, <1>6, SettleWf DEF c

\* The retrieval prelude of a seed or a child.
LEMMA RetrievalWf ==
  ASSUME NEW b, Wf(b), NEW d, WithinBudget(b, d)
  PROVE  Wf(AttachTrace(b)) /\ WithinBudget(AttachTrace(b), d)
  <1> DEFINE a == AttachRetrieval(b)
  <1>1. Wf(a) /\ WithinBudget(a, d)
    BY AttachRetrievalWf, SameBudgetWithin
  <1> HIDE DEF a
  <1>2. /\ Wf(AddStep(a, "RETRIEVAL", "RETRIEVED", NoNode))
        /\ WithinBudget(AddStep(a, "RETRIEVAL", "RETRIEVED", NoNode), d)
    BY <1>1, AddStepWf, SameBudgetWithin DEF StepKinds, Phases
  <1> QED
    BY <1>2 DEF a, AttachTrace

\* Merging a critique spends no budget.
LEMMA MergeCritiqueWf ==
  ASSUME NEW b, Wf(b), NEW answer \in CritiqueAnswers(b)
  PROVE  Wf(MergeCritique(b, answer)) /\ SameBudget(b, MergeCritique(b, answer))
  <1> DEFINE b1 == AttachCritique(b)
             b2 == IF answer = NoAnswer THEN b1 ELSE SetCandidate(b1, answer, "self_critique")
             b3 == AddStep(b2, "CRITIQUE", "CRITIQUED", NoNode)
             b4 == SetPhase(b3, "CRITIQUED")
  <1> USE DEF StepKinds, Phases
  <1>1. answer \in Answers \cup {NoAnswer}
    BY CurrentCandidateType DEF CritiqueAnswers, Candidates, NoCandidate
  <1>2. Wf(b1) /\ SameBudget(b, b1)
    BY AttachCritiqueWf
  <1> HIDE DEF b1
  <1>3. Wf(b2) /\ SameBudget(b, b2)
    <2>1. /\ Wf(SetCandidate(b1, answer, "self_critique"))
          /\ SameBudget(b1, SetCandidate(b1, answer, "self_critique"))
      BY <1>1, <1>2, SetCandidateWf
    <2>2. CASE answer = NoAnswer
      BY <2>2, <1>2
    <2>3. CASE answer # NoAnswer
      BY <2>1, <2>3, <1>2, SameBudgetTrans
    <2> QED
      BY <2>2, <2>3
  <1> HIDE DEF b2
  <1>4. Wf(b3) /\ SameBudget(b, b3)
    BY <1>3, AddStepWf, SameBudgetTrans
  <1> HIDE DEF b3
  <1>5. Wf(b4) /\ SameBudget(b, b4)
    BY <1>4, SetPhaseWf, SameBudgetTrans
  <1> QED
    BY <1>5 DEF MergeCritique, b1, b2, b3

-----------------------------------------------------------------------------
\* The initial branch satisfies the invariant.
LEMMA InitIInv == Init => IInv
  <1> SUFFICES ASSUME Init PROVE IInv
    OBVIOUS
  <1>1. node \in Nodes
    BY DEF Init, Nodes, Proofs
  <1>2. /\ Wf(branch) /\ branch.cursor.repairs = 0 /\ branch.resamples = 0
        /\ branch.lineage = 0
    BY <1>1, CreateWf DEF Init
  <1>3. WithinBudget(branch, depth)
    BY <1>2, LimitType, BudgetAssumption DEF WithinBudget, Init
  <1> QED
    BY <1>1, <1>2, <1>3, BudgetAssumption DEF Init, IInv

\* Every handler keeps the invariant.
LEMMA NextIInv == IInv /\ [Next]_vars => IInv'
  <1> SUFFICES ASSUME IInv, [Next]_vars PROVE IInv'
    OBVIOUS
  <1>0. /\ Wf(branch) /\ WithinBudget(branch, depth) /\ node \in Nodes
        /\ depth \in 0..MaxDepth /\ depth \in Nat
        /\ stage \in {"seed", "frontier", "expanded", "final"}
    BY BudgetAssumption DEF IInv
  <1>1. CASE Seed
    <2>1. \E b \in {branch, AttachTrace(branch)} :
             Process(b)
      BY <1>1 DEF Seed
    <2>2. PICK b \in {branch, AttachTrace(branch)} :
             Process(b)
      BY <2>1
    <2>3. Wf(b) /\ WithinBudget(b, depth)
      BY <1>0, RetrievalWf
    <2>4. Wf(branch') /\ WithinBudget(branch', depth) /\ node' \in Nodes
      BY <1>0, <2>2, <2>3, ProcessWf
    <2> QED
      BY <1>0, <1>1, <2>4 DEF Seed, IInv
  <1>2. CASE ExpandIntoChild
    <2> DEFINE f == Fork(branch)
    <2>1. PICK b \in {f, AttachTrace(f)} :
             Process(b)
      BY <1>2 DEF ExpandIntoChild
    <2>2. /\ Wf(f) /\ f.cursor = branch.cursor /\ f.resamples = branch.resamples
          /\ f.lineage = branch.lineage + 1
      BY <1>0, ForkWf
    <2>3. branch.lineage \in Nat /\ branch.resamples \in Nat
      BY <1>0 DEF Wf, Branches
    <2>4. WithinBudget(f, depth + 1)
      <3> HIDE DEF f
      <3> QED
        BY <1>0, <2>2, <2>3 DEF WithinBudget
    <2> HIDE DEF f
    <2>5. Wf(b) /\ WithinBudget(b, depth + 1)
      BY <2>2, <2>4, RetrievalWf
    <2>6. Wf(branch') /\ WithinBudget(branch', depth + 1) /\ node' \in Nodes
      BY <1>0, <2>1, <2>5, ProcessWf
    <2> QED
      BY <1>0, <1>2, <2>6, BudgetAssumption DEF ExpandIntoChild, IInv
  <1>3. CASE LeaveFrontier
    BY <1>0, <1>3 DEF LeaveFrontier, IInv
  <1>4. CASE Prune
    <2>1. Wf(branch') /\ WithinBudget(branch', depth)
      BY <1>0, <1>4, SetPhaseWf, SameBudgetWithin DEF Prune, Phases
    <2> QED
      BY <1>0, <1>4, <2>1 DEF Prune, IInv
  <1>5. CASE MidSearchCritique
    <2>1. PICK answer \in CritiqueAnswers(branch) :
             branch' = [MergeCritique(branch, answer) EXCEPT !.critiqued = TRUE]
      BY <1>5 DEF MidSearchCritique
    <2> DEFINE c == MergeCritique(branch, answer)
    <2>2. Wf(c) /\ SameBudget(branch, c)
      BY <1>0, MergeCritiqueWf
    <2>3. branch' = [c EXCEPT !.critiqued = TRUE]
      BY <2>1
    <2> HIDE DEF c
    <2>4. branch' \in Branches /\ \A f \in Counted : branch'[f] = c[f]
      BY <2>2, <2>3 DEF Wf, Branches, Counted
    <2>5. Wf(branch') /\ WithinBudget(branch', depth)
      BY <1>0, <2>2, <2>4, TransferWf, SameBudgetWithin
    <2> QED
      BY <1>0, <1>5, <2>5 DEF MidSearchCritique, IInv
  <1>6. CASE Finish
    <2>1. Wf(branch') /\ WithinBudget(branch', depth)
      BY <1>0, <1>6, MergeCritiqueWf, SameBudgetWithin DEF Finish
    <2> QED
      BY <1>0, <1>6, <2>1 DEF Finish, IInv
  <1>7. CASE UNCHANGED vars
    BY <1>0, <1>7 DEF vars, IInv
  <1> QED
    BY <1>1, <1>2, <1>3, <1>4, <1>5, <1>6, <1>7 DEF Next

\* The inductive invariant holds throughout.
THEOREM SpecIInv == Spec => []IInv
  <1>1. Init => IInv
    BY InitIInv
  <1>2. IInv /\ [Next]_vars => IInv'
    BY NextIInv
  <1> QED
    BY <1>1, <1>2, PTL DEF Spec

\* Every value a branch takes on its way through the controller has its type.
THEOREM SpecTypeOK == Spec => []TypeOK
  <1>1. IInv => TypeOK
    BY DEF IInv, Wf, TypeOK
  <1> QED
    BY <1>1, SpecIInv, PTL

\* No repair, fork or critique leaves a cursor that differs from its history.
THEOREM SpecCursorExact == Spec => []CursorExact
  <1>1. IInv => CursorExact
    BY DEF IInv, Wf, CursorExact
  <1> QED
    BY <1>1, SpecIInv, PTL

\* Steps stay numbered by position across repairs.
THEOREM SpecStepsContiguous == Spec => []StepsContiguous
  <1>1. IInv => StepsContiguous
    BY DEF IInv, Wf, StepsContiguous
  <1> QED
    BY <1>1, SpecIInv, PTL

\* The active history of a branch is exactly what its cursor says, through any
\* sequence of repairs, resamples, forks and critiques.
THEOREM SpecHistoryExact == Spec => []HistoryExact
  BY SpecCursorExact, SpecStepsContiguous, PTL DEF HistoryExact

\* No lineage is repaired more often than both limits allow, however often it
\* is forked or resampled.
THEOREM SpecRepairsBounded == Spec => []RepairsBounded
  <1>1. IInv => RepairsBounded
    <2> SUFFICES ASSUME IInv PROVE RepairsBounded
      OBVIOUS
    <2>1. branch.cursor \in Cursors
      BY DEF IInv, Wf, Branches
    <2>2. branch.cursor.repairs \in Nat
      BY <2>1 DEF Cursors
    <2>3. RepairLimit <= RepairBudget /\ RepairLimit <= MaxRepairAttempts
      BY BudgetAssumption DEF RepairLimit
    <2> QED
      BY <2>2, <2>3, LimitType, BudgetAssumption DEF IInv, WithinBudget, RepairsBounded
  <1> QED
    BY <1>1, SpecIInv, PTL

\* Depth and resamples account for every fork of a lineage.
THEOREM SpecLineageAccounted == Spec => []LineageAccounted
  <1>1. IInv => LineageAccounted
    BY DEF IInv, WithinBudget, LineageAccounted
  <1> QED
    BY <1>1, SpecIInv, PTL

\* Both budgets of a lineage hold, for any limits.
THEOREM SpecBudgetsKept == Spec => []BudgetsKept
  BY SpecRepairsBounded, SpecLineageAccounted, PTL DEF BudgetsKept

-----------------------------------------------------------------------------
\* The branch records the identity and the obligations of node n.
InSync(b, n) == b.latest = n.fp /\ b.proof = n.proof /\ b.proofFp = n.proof

\* The strengthening of IInv under which the ledger, the support, the node of
\* the entry and the verdict on a solved branch are inductive.
HInv ==
  /\ IInv /\ Sound(branch) /\ InSync(branch, node) /\ SolvedEarned
  /\ stage = "seed" => branch.phase = "INITIALIZED"

\* A node has an identity, a step without node has none.
LEMMA NodeNamed == \A n \in Nodes : n.fp # NoFingerprint
  BY NoneAssumption DEF Nodes
LEMMA NoNodeNamed == NoNode.fp = NoFingerprint
  BY DEF NoNode

\* After an attempt the branch stands by what was generated, recorded on the
\* node the attempt produced, whatever the branch recorded before.
LEMMA AttemptHolds ==
  ASSUME NEW b, Wf(b), Sound(b), NEW old \in Nodes, NEW new \in Nodes,
         NEW answer \in Answers \cup {NoAnswer}, NEW verdict \in Verdicts,
         NEW accepted \in BOOLEAN
  PROVE  LET c == Attempt(b, old, new, answer, verdict, accepted)
         IN  /\ Sound(c) /\ InSync(c, new)
             /\ CurrentCandidate(c).answer = answer
             /\ CurrentCandidate(c).source = "generated"
  <1> DEFINE b1 == AddStep(b, "OPERATOR", "REASONING", old)
             b2 == SetCandidate(b1, answer, "generated")
             b3 == AddStep(b2, "OPERATOR", "REASONING", new)
             a4 == AttachSymbolic(b3, verdict)
             b4 == AddStep(a4, "SYMBOLIC", "VERIFIED", new)
             a5 == AttachVerifier(b4, accepted)
             b5 == AddStep(a5, "VERIFIER", "VERIFIED", new)
  <1> USE DEF StepKinds, Phases
  <1>1. Wf(b1) /\ Sound(b1)
    BY AddStepWf, AddStepAdds
  <1> HIDE DEF b1
  <1>2. /\ Wf(b2) /\ Sound(b2)
        /\ CurrentCandidate(b2).answer = answer /\ CurrentCandidate(b2).source = "generated"
    <2>1. "generated" \in {"generated", "repair", "self_critique"} /\ Chained(b1)
      BY <1>1 DEF Sound
    <2>2. Wf(b2) /\ Sound(b2)
      BY <1>1, <2>1, SetCandidateWf, SetCandidateStates
    <2>3. CurrentCandidate(b2) = [answer |-> answer, source |-> "generated", support |-> LastTwo(b1)]
      BY <1>1, <2>1, SetCandidateStates
    <2> HIDE DEF b2
    <2> QED
      BY <2>2, <2>3
  <1> HIDE DEF b2
  <1>3. Wf(b3) /\ Sound(b3) /\ CurrentCandidate(b3) = CurrentCandidate(b2)
    BY <1>2, AddStepWf, AddStepAdds
  <1> HIDE DEF b3
  <1>4. Wf(a4) /\ Sound(a4) /\ CurrentCandidate(a4) = CurrentCandidate(b3)
    BY <1>3, AttachSymbolicWf, AttachSymbolicAdds
  <1> HIDE DEF a4
  <1>5. Wf(b4) /\ Sound(b4) /\ CurrentCandidate(b4) = CurrentCandidate(a4)
    BY <1>4, AddStepWf, AddStepAdds
  <1> HIDE DEF b4
  <1>6. Wf(a5) /\ Sound(a5) /\ CurrentCandidate(a5) = CurrentCandidate(b4)
    BY <1>5, AttachVerifierWf, AttachVerifierAdds
  <1> HIDE DEF a5
  <1>7. Sound(b5) /\ CurrentCandidate(b5) = CurrentCandidate(a5) /\ InSync(b5, new)
    BY <1>6, AddStepAdds, NodeNamed DEF InSync
  <1> HIDE DEF b5
  <1>8. Attempt(b, old, new, answer, verdict, accepted) = b5
    BY DEF Attempt, b1, b2, b3, a4, b4, a5, b5
  <1> QED
    BY <1>2, <1>3, <1>4, <1>5, <1>6, <1>7, <1>8

\* After a repair the branch stands by its own answer again, on the steps that
\* are left, and on the repaired node.
LEMMA RepairedHolds ==
  ASSUME NEW b, Wf(b), Sound(b), NEW keep \in Nat, NEW fixed \in Nodes
  PROVE  LET c == Repaired(b, keep, fixed)
         IN  Sound(c) /\ InSync(c, fixed) /\ c.phase = "REPAIRED"
  <1> DEFINE answer == CurrentCandidate(b).answer
             b0 == RecordRepair(b, keep)
             b1 == AddStep(b0, "REPAIR", "REPAIRED", fixed)
             b2 == IF answer = NoAnswer THEN b1 ELSE SetCandidate(b1, answer, "repair")
             c  == SetPhase(b2, "REPAIRED")
  <1> USE DEF StepKinds, Phases
  <1>1. answer \in Answers \cup {NoAnswer}
    BY CurrentCandidateType DEF Candidates, NoCandidate
  <1>2. Wf(b0) /\ Chained(b0) /\ CurrentCandidate(b0) = CurrentCandidate(b)
    BY RecordRepairWf, RecordRepairChains DEF Sound
  <1> HIDE DEF b0
  <1>3. /\ Wf(b1) /\ Extends(b0, b1) /\ InSync(b1, fixed)
        /\ CurrentCandidate(b1) = CurrentCandidate(b0)
    BY <1>2, AddStepWf, AddStepAdds, NodeNamed DEF InSync
  <1> HIDE DEF b1
  <1>4. Chained(b1) /\ CurrentCandidate(b1).answer = answer
    BY <1>2, <1>3, ExtendsKeeps
  <1>5. Wf(b2) /\ Sound(b2) /\ InSync(b2, fixed)
    <2>1. CASE answer = NoAnswer
      BY <2>1, <1>3, <1>4 DEF Sound, Supported
    <2>2. CASE answer # NoAnswer
      <3> DEFINE s == SetCandidate(b1, answer, "repair")
      <3> HIDE DEF answer
      <3>1. Wf(s) /\ Sound(s) /\ SameProof(b1, s)
        BY <1>1, <1>3, <1>4, SetCandidateWf, SetCandidateStates
      <3> QED
        BY <2>2, <3>1, <1>3 DEF SameProof, InSync
    <2> QED
      BY <2>1, <2>2
  <1> HIDE DEF b2
  <1>6. Sound(c) /\ SameProof(b2, c) /\ c.phase = "REPAIRED"
    BY <1>5, SetPhaseMarks
  <1> HIDE DEF c
  <1>7. InSync(c, fixed)
    BY <1>5, <1>6 DEF InSync, SameProof
  <1>8. Repaired(b, keep, fixed) = c
    BY DEF Repaired, c, b2, b1, b0, answer
  <1> QED
    BY <1>6, <1>7, <1>8

\* A resampled branch keeps the node of the branch it was forked from.
LEMMA ResampledHolds ==
  ASSUME NEW b, Wf(b), Sound(b), NEW n, InSync(b, n)
  PROVE  LET c == Resampled(b)
         IN  Sound(c) /\ InSync(c, n) /\ c.phase = "REASONING"
  <1> DEFINE f  == Fork(b)
             b1 == [f EXCEPT !.resamples = @ + 1]
             b2 == SetPhase(b1, "REASONING")
             c  == AddStep(b2, "OPERATOR", "REASONING", NoNode)
  <1> USE DEF StepKinds, Phases
  <1>1. Wf(f) /\ Sound(f) /\ InSync(f, n)
    BY ForkWf, ForkCopies DEF SameProof, InSync
  <1> HIDE DEF f
  <1>2. /\ f \in Branches /\ f.resamples + 1 \in Nat /\ f.cursor.repairs \in Nat
        /\ Len(f.steps) \in Nat
    <2>1. f \in Branches /\ f.resamples \in Nat /\ f.cursor.repairs \in Nat /\ Len(f.steps) \in Nat
      BY <1>1, WfCounts DEF Branches
    <2> QED
      BY <2>1
  <1>3. /\ b1 \in Branches /\ b1.patches = f.patches /\ SameProof(f, b1)
        /\ \A x \in Counted \ {"resamples"} : b1[x] = f[x]
    BY <1>2 DEF Branches, SameProof, Counted
  <1> HIDE DEF b1
  <1>4. Wf(b1)
    BY <1>1, <1>3 DEF Wf, Exact, Contiguous, Counted
  <1>5. Extends(f, b1)
    BY <1>2, <1>3 DEF Extends, Counted
  <1>6. Sound(b1) /\ InSync(b1, n)
    BY <1>1, <1>3, <1>4, <1>5, ExtendsKeeps DEF Sound, SameProof, InSync
  <1>7. Wf(b2) /\ Sound(b2) /\ InSync(b2, n)
    BY <1>4, <1>6, SetPhaseWf, SetPhaseMarks DEF SameProof, InSync
  <1> HIDE DEF b2
  <1>8. Sound(c) /\ SameProof(b2, c) /\ c.phase = "REASONING"
    BY <1>7, AddStepAdds, NoNodeNamed, SMTT(20)
  <1> HIDE DEF c
  <1>9. InSync(c, n)
    BY <1>7, <1>8 DEF InSync, SameProof
  <1>10. Resampled(b) = c
    BY DEF Resampled, c, b2, b1, f
  <1> QED
    BY <1>8, <1>9, <1>10

\* What must hold of a branch and the node of its entry.
Holds(b, n) ==
  /\ Sound(b) /\ InSync(b, n)
  /\ b.phase = "SOLVED" =>
       /\ CurrentCandidate(b).answer \in Answers
       /\ CurrentCandidate(b).source = "generated"
       /\ b.symbolic[b.cursor.symbolic].passed
       /\ b.verifier[b.cursor.verifier]

\* A change to a phase other than SOLVED.
LEMMA SetPhaseHolds ==
  ASSUME NEW b, Wf(b), Sound(b), NEW n, InSync(b, n), NEW phase \in Phases \ {"SOLVED"}
  PROVE  Holds(SetPhase(b, phase), n)
  <1> DEFINE c == SetPhase(b, phase)
  <1>1. Sound(c) /\ SameProof(b, c) /\ c.phase = phase
    BY SetPhaseMarks
  <1> HIDE DEF c
  <1> QED
    BY <1>1 DEF Holds, InSync, SameProof, c

\* A branch that passed both judges is solved by the answer they were shown.
LEMMA SolvedHolds ==
  ASSUME NEW b, Wf(b), Sound(b), NEW n, InSync(b, n), IsSolved(b),
         CurrentCandidate(b).source = "generated"
  PROVE  Holds(SetPhase(b, "SOLVED"), n)
  <1> DEFINE c == SetPhase(b, "SOLVED")
  <1>1. /\ Sound(c) /\ SameProof(b, c) /\ SameEvidence(b, c)
        /\ CurrentCandidate(c) = CurrentCandidate(b)
        /\ \A f \in Counted : c[f] = b[f]
    BY SetPhaseMarks DEF Phases
  <1> HIDE DEF c
  <1>2. c.cursor = b.cursor
    BY <1>1 DEF Counted
  <1>3. CurrentCandidate(b).answer \in Answers
    BY CurrentCandidateType DEF IsSolved, Candidates, NoCandidate
  <1>4. c.symbolic[c.cursor.symbolic].passed /\ c.verifier[c.cursor.verifier]
    BY <1>1, <1>2 DEF SameEvidence, IsSolved
  <1> QED
    BY <1>1, <1>3, <1>4 DEF Holds, InSync, SameProof, c

\* However the attempt is settled.
LEMMA SettleHolds ==
  ASSUME NEW b, Wf(b), Sound(b), NEW n \in Nodes, InSync(b, n),
         CurrentCandidate(b).source = "generated", Settle(b, n)
  PROVE  Holds(branch', node')
  <1>1. CASE IsSolved(b) /\ branch' = SetPhase(b, "SOLVED") /\ node' = n
    BY <1>1, SolvedHolds
  <1>2. CASE GiveUp(b, n)
    BY <1>2, SetPhaseHolds DEF GiveUp, Phases
  <1>3. CASE branch' = SetPhase(b, "REASONING") /\ node' = n
    BY <1>3, SetPhaseHolds DEF Phases
  <1>4. CASE ApplyLocalRepair(b, n) /\ ~GiveUp(b, n)
    <2>1. PICK keep \in RepairPrefixes(b), fixed \in FixedNodes(n) :
             branch' = Repaired(b, keep, fixed) /\ node' = fixed
      BY <1>4 DEF ApplyLocalRepair
    <2>2. b.cursor.steps \in Nat
      BY WfCounts
    <2>3. fixed \in Nodes /\ keep \in Nat
      BY <2>1, <2>2, NodesType, RepairPrefixesType
    <2> QED
      BY <2>1, <2>3, RepairedHolds DEF Holds
  <1>5. CASE ApplyResampleGuidance(b, n) /\ ~GiveUp(b, n)
    <2>1. branch' = Resampled(b) /\ node' = n
      BY <1>5 DEF ApplyResampleGuidance, ResampleResults
    <2> QED
      BY <2>1, ResampledHolds DEF Holds
  <1> QED
    BY <1>1, <1>2, <1>3, <1>4, <1>5 DEF Settle

\* An attempt, settled.
LEMMA ProcessHolds ==
  ASSUME NEW b, Wf(b), Sound(b), node \in Nodes, Process(b)
  PROVE  Holds(branch', node')
  <1>1. PICK answer \in Answers \cup {NoAnswer}, new \in NextNodes(node),
             accepted \in BOOLEAN :
          \E verdict \in VerdictsOn(new) :
            Settle(Attempt(b, node, new, answer, verdict, accepted), new)
    BY DEF Process, Generated, Accepts
  <1>2. new \in Nodes
    BY NodesType
  <1>3. PICK verdict \in VerdictsOn(new) :
          Settle(Attempt(b, node, new, answer, verdict, accepted), new)
    BY <1>1
  <1> DEFINE c == Attempt(b, node, new, answer, verdict, accepted)
  <1>4. verdict \in Verdicts
    BY <1>2, VerdictsOnType
  <1>5. Wf(c)
    BY <1>2, <1>4, AttemptWf
  <1>6. Sound(c) /\ InSync(c, new) /\ CurrentCandidate(c).source = "generated"
    BY <1>2, <1>4, AttemptHolds
  <1> HIDE DEF c
  <1> QED
    BY <1>2, <1>3, <1>5, <1>6, SettleHolds DEF c

\* The retrieval prelude.
LEMMA RetrievalSound ==
  ASSUME NEW b, Wf(b), Sound(b)
  PROVE  Sound(AttachTrace(b))
  <1> DEFINE a == AttachRetrieval(b)
  <1>1. Wf(a) /\ Sound(a)
    BY AttachRetrievalWf, AttachRetrievalAdds
  <1> HIDE DEF a
  <1>2. Sound(AddStep(a, "RETRIEVAL", "RETRIEVED", NoNode))
    BY <1>1, AddStepAdds DEF StepKinds, Phases
  <1> QED
    BY <1>2 DEF a, AttachTrace

\* Merging a critique keeps the node of the entry.
LEMMA MergeCritiqueHolds ==
  ASSUME NEW b, Wf(b), Sound(b), NEW n, InSync(b, n), NEW answer \in CritiqueAnswers(b)
  PROVE  Holds(MergeCritique(b, answer), n) /\ MergeCritique(b, answer).phase = "CRITIQUED"
  <1> DEFINE b1 == AttachCritique(b)
             b2 == IF answer = NoAnswer THEN b1 ELSE SetCandidate(b1, answer, "self_critique")
             b3 == AddStep(b2, "CRITIQUE", "CRITIQUED", NoNode)
             b4 == SetPhase(b3, "CRITIQUED")
  <1> USE DEF StepKinds, Phases
  <1>1. answer \in Answers \cup {NoAnswer}
    BY CurrentCandidateType DEF CritiqueAnswers, Candidates, NoCandidate
  <1>2. Wf(b1) /\ Sound(b1) /\ InSync(b1, n)
    BY AttachCritiqueWf, AttachCritiqueAdds DEF SameProof, InSync
  <1> HIDE DEF b1
  <1>3. Wf(b2) /\ Sound(b2) /\ InSync(b2, n)
    <2> DEFINE s == SetCandidate(b1, answer, "self_critique")
    <2>1. Wf(s) /\ Sound(s) /\ SameProof(b1, s)
      BY <1>1, <1>2, SetCandidateWf, SetCandidateStates DEF Sound
    <2> HIDE DEF s
    <2>2. CASE answer = NoAnswer
      BY <2>2, <1>2
    <2>3. CASE answer # NoAnswer
      BY <2>1, <2>3, <1>2 DEF SameProof, InSync, s
    <2> QED
      BY <2>2, <2>3
  <1> HIDE DEF b2
  <1>4. Wf(b3) /\ Sound(b3) /\ SameProof(b2, b3)
    <2>1. Wf(b3)
      BY <1>3, AddStepWf
    <2>2. Sound(b3) /\ SameProof(b2, b3)
      BY <1>3, AddStepAdds, NoNodeNamed, SMTT(20)
    <2> QED
      BY <2>1, <2>2
  <1> HIDE DEF b3
  <1>5. InSync(b3, n)
    BY <1>3, <1>4 DEF InSync, SameProof
  <1>6. Holds(b4, n) /\ b4.phase = "CRITIQUED"
    BY <1>4, <1>5, SetPhaseHolds, SetPhaseMarks
  <1> HIDE DEF b4
  <1>7. MergeCritique(b, answer) = b4
    BY DEF MergeCritique, b1, b2, b3, b4
  <1> QED
    BY <1>6, <1>7

-----------------------------------------------------------------------------
LEMMA HInvHolds ==
  HInv <=> /\ IInv /\ Holds(branch, node)
           /\ stage = "seed" => branch.phase = "INITIALIZED"
  BY DEF HInv, Holds, SolvedEarned

LEMMA InitHInv == Init => HInv
  <1> SUFFICES ASSUME Init PROVE HInv
    OBVIOUS
  <1>1. IInv /\ node \in Nodes
    BY InitIInv DEF IInv
  <1>2. /\ Sound(branch) /\ branch.phase = "INITIALIZED" /\ InSync(branch, node)
    BY <1>1, CreateSound, NoneAssumption DEF Init, InSync
  <1> QED
    BY <1>1, <1>2 DEF HInv, SolvedEarned

\* Every handler keeps the strengthened invariant.
LEMMA NextHInv == HInv /\ [Next]_vars => HInv'
  <1> SUFFICES ASSUME HInv, [Next]_vars PROVE HInv'
    OBVIOUS
  <1>0. /\ IInv' /\ Wf(branch) /\ node \in Nodes
        /\ Sound(branch) /\ InSync(branch, node) /\ Holds(branch, node)
        /\ stage = "seed" => branch.phase = "INITIALIZED"
    BY NextIInv, HInvHolds DEF HInv, IInv
  <1>1. Holds(branch', node') /\ (stage' = "seed" => branch'.phase = "INITIALIZED")
    <2>1. CASE Seed
      <3>1. PICK b \in {branch, AttachTrace(branch)} : Process(b)
        BY <2>1 DEF Seed
      <3>2. Wf(b) /\ Sound(b)
        <4>1. Wf(AttachTrace(branch))
          BY <1>0, RetrievalWf DEF HInv, IInv
        <4> QED
          BY <1>0, <4>1, RetrievalSound
      <3>3. Holds(branch', node')
        BY <1>0, <3>1, <3>2, ProcessHolds
      <3> QED
        BY <2>1, <3>3 DEF Seed
    <2>2. CASE ExpandIntoChild
      <3> DEFINE f == Fork(branch)
      <3>1. PICK b \in {f, AttachTrace(f)} : Process(b)
        BY <2>2 DEF ExpandIntoChild
      <3>2. Wf(f) /\ Sound(f)
        BY <1>0, ForkWf, ForkCopies
      <3> HIDE DEF f
      <3>3. Wf(AttachTrace(f)) /\ Sound(AttachTrace(f))
        <4> DEFINE a == AttachRetrieval(f)
        <4>1. Wf(a)
          BY <3>2, AttachRetrievalWf
        <4> HIDE DEF a
        <4>2. Wf(AddStep(a, "RETRIEVAL", "RETRIEVED", NoNode))
          BY <4>1, AddStepWf DEF StepKinds, Phases
        <4> QED
          BY <3>2, <4>2, RetrievalSound DEF AttachTrace, a
      <3>4. Holds(branch', node')
        BY <1>0, <3>1, <3>2, <3>3, ProcessHolds
      <3> QED
        BY <2>2, <3>4 DEF ExpandIntoChild
    <2>3. CASE LeaveFrontier
      BY <1>0, <2>3 DEF LeaveFrontier
    <2>4. CASE Prune
      BY <1>0, <2>4, SetPhaseHolds DEF Prune, Phases
    <2>5. CASE MidSearchCritique
      <3>1. PICK answer \in CritiqueAnswers(branch) :
               branch' = [MergeCritique(branch, answer) EXCEPT !.critiqued = TRUE]
        BY <2>5 DEF MidSearchCritique
      <3> DEFINE c == MergeCritique(branch, answer)
      <3>2. Wf(c) /\ Holds(c, node) /\ c.phase = "CRITIQUED"
        BY <1>0, MergeCritiqueWf, MergeCritiqueHolds
      <3>3. branch' = [c EXCEPT !.critiqued = TRUE]
        BY <3>1
      <3> HIDE DEF c
      <3>4. /\ branch' \in Branches /\ branch'.patches = c.patches /\ branch'.phase = "CRITIQUED"
            /\ SameProof(c, branch') /\ \A f \in Counted : branch'[f] = c[f]
        BY <3>2, <3>3 DEF Wf, Branches, Counted, SameProof
      <3>5. Wf(branch')
        BY <3>2, <3>4, TransferWf
      <3>6. Extends(c, branch')
        <4>1. c.cursor.repairs \in Nat /\ Len(c.steps) \in Nat
          BY <3>2, WfCounts
        <4> QED
          BY <3>4, <4>1 DEF Extends, Counted
      <3>7. Sound(branch')
        BY <3>2, <3>5, <3>6, ExtendsKeeps DEF Holds, Sound
      <3>8. node' = node /\ stage' # "seed"
        BY <2>5 DEF MidSearchCritique
      <3> QED
        BY <3>2, <3>4, <3>7, <3>8 DEF Holds, InSync, SameProof
    <2>6. CASE Finish
      BY <1>0, <2>6, MergeCritiqueHolds DEF Finish
    <2>7. CASE UNCHANGED vars
      BY <1>0, <2>7 DEF vars
    <2> QED
      BY <2>1, <2>2, <2>3, <2>4, <2>5, <2>6, <2>7 DEF Next
  <1>2. (HInv <=> /\ IInv /\ Holds(branch, node)
                  /\ stage = "seed" => branch.phase = "INITIALIZED")'
    BY HInvHolds, PTL
  <1> QED
    BY <1>0, <1>1, <1>2

THEOREM SpecHInv == Spec => []HInv
  BY InitHInv, NextHInv, PTL DEF Spec

\* The patch history of every branch chains through its candidates, whatever
\* repairs, forks and critiques it went through.
THEOREM SpecLedgerChained == Spec => []LedgerChained
  <1>1. HInv => LedgerChained
    BY DEF HInv, Sound, LedgerChained
  <1> QED
    BY <1>1, SpecHInv, PTL

\* The answer of a branch rests on steps it still has, and the node of its entry
\* is the branch's latest one with the branch's obligations.
THEOREM SpecNamesInSync == Spec => []NamesInSync
  <1>1. HInv => NamesInSync
    BY DEF HInv, Sound, InSync, NamesInSync, SupportActive, NodeInSync
  <1> QED
    BY <1>1, SpecHInv, PTL

\* A solved branch stands by the answer that the check and the verifier accepted.
THEOREM SpecSolvedEarned == Spec => []SolvedEarned
  <1>1. HInv => SolvedEarned
    BY DEF HInv
  <1> QED
    BY <1>1, SpecHInv, PTL

\* A failed or pruned branch stays so.
THEOREM SpecDeadStaysDead == Spec => DeadStaysDead
  <1>1. HInv /\ [Next]_vars => [branch.phase \in Dead => branch'.phase \in Dead]_vars
    <2> SUFFICES ASSUME HInv, Next, branch.phase \in Dead
                 PROVE  branch'.phase \in Dead
      BY DEF vars
    <2>1. CASE Seed
      BY <2>1 DEF Seed, HInv, Dead
    <2>2. CASE Prune
      <3>1. SetPhase(branch, "PRUNED").phase = "PRUNED"
        BY SetPhaseMarks DEF HInv, IInv, Phases
      <3> QED
        BY <2>2, <3>1 DEF Prune, Dead
    <2>3. CASE LeaveFrontier
      BY <2>3 DEF LeaveFrontier
    <2>4. CASE ExpandIntoChild \/ MidSearchCritique \/ Finish
      BY <2>4 DEF ExpandIntoChild, MidSearchCritique, Finish
    <2> QED
      BY <2>1, <2>2, <2>3, <2>4 DEF Next
  <1> QED
    BY <1>1, SpecHInv, PTL DEF Spec, DeadStaysDead
=============================================================================
