--------------------------- MODULE NemotronProofs ---------------------------
(***************************************************************************)
(* What is proved of the nemotron competition's two chains of evidence.    *)
(*                                                                         *)
(* The documents (EvidenceChain), for any adapters, trainings and          *)
(* configurations, any number of documents made again or swapped and any   *)
(* number of slips.  A document names others by their hashes, and nothing  *)
(* in the vault ever changes: what a document says of the vault when it is *)
(* made stays true.                                                        *)
(*                                                                         *)
(* The stages of a training on kaggle (WinmodeStages), whatever commands   *)
(* are run in whatever order, by the orchestrator or by hand, raise or are *)
(* lost: gates stand on chains of passed ones, down to what was run by     *)
(* hand; adapters are trained on masked rows; a verdict, when written, is  *)
(* on the adapter on disk.                                                 *)
(***************************************************************************)
EXTENDS EvidenceChain, WinmodeStages, SequenceTheorems, TLAPS

\* In the vault v, hash h names a document of kind k.
In(v, k, h) == h \in DOMAIN v[k]

\* The vault w holds every document of v under the same hash.
Grown(v, w) == \A k \in Kinds : \A h \in DOMAIN v[k] : In(w, k, h) /\ w[k][h] = v[k][h]

\* What a document says of the vault it is filed in, by kind.
SmokeSays(v, s) ==
  s.trained => /\ In(v, "training", s.manifest)
               /\ v["training"][s.manifest].result = s.result
               /\ v["training"][s.manifest].log = s.log

EvidenceSays(v, needed, e) ==
  needed /\ e.complete =>
    /\ In(v, "adapter", e.report) /\ In(v, "training", e.manifest)
    /\ In(v, "smoke", e.smoke) /\ In(v, "handoff", e.handoff)
    /\ LET report   == v["adapter"][e.report]
           manifest == v["training"][e.manifest]
           smoke    == v["smoke"][e.smoke]
           handoff  == v["handoff"][e.handoff]
       IN  /\ report.passed /\ report.adapter = e.adapter
           /\ smoke.trained /\ smoke.manifest = e.manifest
           /\ smoke.result = manifest.result /\ smoke.log = manifest.log
           /\ manifest.adapter = e.adapter
           /\ handoff.adapter = e.adapter /\ handoff.manifest = e.manifest

PromotionSays(v, p) ==
  In(v, "exams", p.exams) /\ (p.allow => v["exams"][p.exams].exact)

BridgeSays(v, b) ==
  /\ In(v, "promotion", b.promotion) /\ In(v, "evidence", b.evidence)
  /\ b.allowed => LET promotion == v["promotion"][b.promotion]
                      evidence  == v["evidence"][b.evidence]
                  IN  promotion.allow /\ evidence.complete /\ promotion.adapter = evidence.adapter

PackageSays(v, p) ==
  /\ In(v, "evidence", p.evidence) /\ In(v, "bridge", p.bridge)
  /\ p.passed =>
       LET evidence == v["evidence"][p.evidence]
           bridge   == v["bridge"][p.bridge]
           manifest == v["manifest"][p.manifest]
       IN  /\ bridge.allowed /\ evidence.complete /\ In(v, "manifest", p.manifest)
           /\ manifest.adapter = evidence.adapter /\ manifest.promotion = bridge.promotion

LoadingSays(v, l) ==
  In(v, "package", l.package) /\ (l.passed => v["package"][l.package].passed)

FinalSays(v, f) ==
  f.ready => /\ In(v, "package", f.package) /\ v["package"][f.package].passed
             /\ In(v, "loading", f.loading) /\ v["loading"][f.loading].passed
             /\ In(v, "submission", f.submission) /\ v["submission"][f.submission].passed

GateSays(v, g) ==
  /\ In(v, "config", g.config) /\ In(v, "list", g.list)
  /\ ~g.blocked =>
       LET config == v["config"][g.config]
       IN  /\ v["list"][g.list].checked /\ ~g.failed
           /\ config.needFinal \/ config.needLock =>
                g.final = config.pins /\ In(v, "final", g.final) /\ v["final"][g.final].ready
           /\ g.release # None => In(v, "release", g.release) /\ v["release"][g.release].ready

OperationsSays(v, o) ==
  o.ready =>
    /\ In(v, "gate", o.gate) /\ In(v, "repro", o.repro) /\ In(v, "approval", o.approval)
    /\ In(v, "config", o.config) /\ In(v, "list", o.list)
    /\ LET gate     == v["gate"][o.gate]
           repro    == v["repro"][o.repro]
           approval == v["approval"][o.approval]
       IN  /\ repro.gate = o.gate /\ approval.gate = o.gate /\ approval.repro = o.repro
           /\ gate.config = o.config /\ repro.config = o.config /\ approval.config = o.config
           /\ gate.list = o.list /\ ~gate.blocked
    /\ o.record # None => In(v, "record", o.record) /\ v["record"][o.record].approval = o.approval

Says(v, needed, k, d) ==
  /\ k = "smoke" => SmokeSays(v, d)
  /\ k = "evidence" => EvidenceSays(v, needed, d)
  /\ k = "promotion" => PromotionSays(v, d)
  /\ k = "bridge" => BridgeSays(v, d)
  /\ k = "package" => PackageSays(v, d)
  /\ k \in {"loading", "submission"} => LoadingSays(v, d)
  /\ k = "final" => FinalSays(v, d)
  /\ k = "gate" => GateSays(v, d)
  /\ k = "operations" => OperationsSays(v, d)

\* The vault is in order: documents of a kind are filed under their numbers.
InOrder(v) ==
  \A k \in Kinds :
    /\ v[k] \in Seq({v[k][i] : i \in DOMAIN v[k]})
    /\ \A i \in DOMAIN v[k] : v[k][i].hash = i

\* The inductive invariant: every document ever made tells the truth.
Truthful == \A k \in Kinds : \A i \in DOMAIN vault[k] : Says(vault, flags.smoke, k, vault[k][i])
ChainInv ==
  /\ ChainTypeOK /\ InOrder(vault) /\ desk \in [Kinds -> Nat]
  /\ Truthful

-----------------------------------------------------------------------------
\* The kinds by name.
LEMMA KindsNamed ==
  Kinds = {"smoke", "adapter", "handoff", "evidence", "exams", "promotion",
           "inference", "bridge", "manifest", "build", "runtime", "preflight",
           "release", "package", "loading", "submission", "final", "config",
           "commands", "list", "gate", "repro", "approval", "recovery", "record",
           "operations", "training"}
  BY SMTT(60) DEF Kinds, Order

\* What a document says stays true while the vault grows.
LEMMA SaysForever ==
  ASSUME NEW v, NEW w, Grown(v, w), NEW needed, NEW k \in Kinds, NEW d, Says(v, needed, k, d)
  PROVE  Says(w, needed, k, d)
<1> USE DEF Grown, In
<1>0. \A x \in {"smoke", "adapter", "handoff", "evidence", "exams", "promotion", "bridge",
                 "manifest", "release", "package", "loading", "submission", "final", "config",
                 "list", "gate", "repro", "approval", "record", "training"} :
        \A h \in DOMAIN v[x] : h \in DOMAIN w[x] /\ w[x][h] = v[x][h]
  BY KindsNamed
<1>1. CASE k = "smoke"
  BY <1>0, <1>1 DEF Says, SmokeSays
<1>2. CASE k = "evidence"
  BY <1>0, <1>2 DEF Says, EvidenceSays
<1>3. CASE k = "promotion"
  BY <1>0, <1>3 DEF Says, PromotionSays
<1>4. CASE k = "bridge"
  BY <1>0, <1>4 DEF Says, BridgeSays
<1>5. CASE k = "package"
  BY <1>0, <1>5 DEF Says, PackageSays
<1>6. CASE k \in {"loading", "submission"}
  BY <1>0, <1>6 DEF Says, LoadingSays
<1>7. CASE k = "final"
  BY <1>0, <1>7 DEF Says, FinalSays
<1>8. CASE k = "gate"
  BY <1>0, <1>8 DEF Says, GateSays
<1>9. CASE k = "operations"
  BY <1>0, <1>9 DEF Says, OperationsSays
<1> QED
  BY <1>1, <1>2, <1>3, <1>4, <1>5, <1>6, <1>7, <1>8, <1>9 DEF Says

-----------------------------------------------------------------------------
\* Filing.

\* What ChainTypeOK says of one kind.
LEMMA Shelf ==
  ASSUME ChainInv, NEW k \in Kinds
  PROVE  /\ vault[k] \in Seq({vault[k][i] : i \in DOMAIN vault[k]})
         /\ Len(vault[k]) \in Nat /\ DOMAIN vault[k] = 1..Len(vault[k])
         /\ \A i \in DOMAIN vault[k] : vault[k][i].hash = i
         /\ desk[k] \in 0..Len(vault[k])
         /\ desk[k] = 0 => vault[k] = <<>>
<1>1. vault[k] \in Seq({vault[k][i] : i \in DOMAIN vault[k]})
  BY DEF ChainInv, InOrder
<1>2. Len(vault[k]) \in Nat /\ DOMAIN vault[k] = 1..Len(vault[k])
  BY <1>1, LenProperties
<1> QED BY <1>1, <1>2 DEF ChainInv, InOrder, ChainTypeOK

\* What follows from handing over a document of the vault.
LEMMA OnDesk ==
  ASSUME ChainInv, NEW k \in Kinds
  PROVE  /\ desk[k] # 0 => /\ desk[k] \in DOMAIN vault[k] /\ desk[k] \in Nat
                           /\ Doc(k) = vault[k][desk[k]] /\ Doc(k).hash = desk[k]
                           /\ Says(vault, flags.smoke, k, Doc(k))
         /\ Doc(k) # None => desk[k] # 0
<1>1. ASSUME desk[k] # 0
      PROVE  /\ desk[k] \in DOMAIN vault[k] /\ desk[k] \in Nat
             /\ Doc(k) = vault[k][desk[k]] /\ Doc(k).hash = desk[k]
  <2>1. Doc(k) = vault[k][desk[k]]
    BY <1>1 DEF Doc
  <2>2. desk[k] \in 1..Len(vault[k]) /\ DOMAIN vault[k] = 1..Len(vault[k])
    <3>1. Len(vault[k]) \in Nat /\ desk[k] \in 0..Len(vault[k]) /\ DOMAIN vault[k] = 1..Len(vault[k])
      BY Shelf
    <3> QED BY <1>1, <3>1
  <2>3. \A i \in DOMAIN vault[k] : vault[k][i].hash = i
    BY Shelf
  <2> QED BY <2>1, <2>2, <2>3
<1>2. ASSUME desk[k] # 0
      PROVE  Says(vault, flags.smoke, k, Doc(k))
  BY <1>1, <1>2 DEF ChainInv, Truthful
<1> QED BY <1>1, <1>2 DEF Doc

\* A document with the given content is that content and its hash.
LEMMA FiledFields ==
  ASSUME ChainInv, NEW k \in Kinds, NEW content, "hash" \notin DOMAIN content
  PROVE  LET d == Filed(k, content)
         IN  /\ \A f \in DOMAIN content : d[f] = content[f]
             /\ d.hash \in 1..(Len(vault[k]) + 1)
             /\ d.hash \in DOMAIN vault[k] =>
                  \A f \in DOMAIN content : vault[k][d.hash][f] = content[f]
<1> DEFINE same == {i \in DOMAIN vault[k] : \A f \in DOMAIN content : vault[k][i][f] = content[f]}
           h == IF same = {} THEN Len(vault[k]) + 1 ELSE CHOOSE i \in same : TRUE
           d == [f \in DOMAIN content \cup {"hash"} |-> IF f = "hash" THEN h ELSE content[f]]
<1>1. Filed(k, content) = d
  BY DEF Filed
<1>2. \A f \in DOMAIN content : d[f] = content[f]
  OBVIOUS
<1>3. d.hash = h
  OBVIOUS
<1>4. Len(vault[k]) \in Nat /\ DOMAIN vault[k] = 1..Len(vault[k])
  BY Shelf
<1>5. h \in 1..(Len(vault[k]) + 1) /\ (h \in DOMAIN vault[k] => h \in same)
  <2>1. CASE same = {}
    BY <1>4, <2>1
  <2>2. CASE same # {}
    <3>1. h \in same
      BY <2>2
    <3>2. h \in 1..Len(vault[k])
      BY <1>4, <3>1
    <3> HIDE DEF h, same
    <3> QED BY <1>4, <3>1, <3>2
  <2> QED BY <2>1, <2>2
<1> QED BY <1>1, <1>2, <1>3, <1>5

\* A document with this content is now on the desk, and the only one of its kind
\* that may be new.
Ordered(v, k) ==
  /\ v[k] \in Seq({v[k][i] : i \in DOMAIN v[k]})
  /\ \A i \in DOMAIN v[k] : v[k][i].hash = i
Kept(v, w, k) == \A i \in DOMAIN v[k] : i \in DOMAIN w[k] /\ w[k][i] = v[k][i]
Holds(d, content) == \A f \in DOMAIN content : d[f] = content[f]
Added(v, w, k, h, content) ==
  /\ Ordered(w, k) /\ Kept(v, w, k) /\ h \in 1..Len(w[k]) /\ h \in DOMAIN w[k] /\ h \in Nat
  /\ \A i \in DOMAIN w[k] : i \in DOMAIN v[k] \/ i = h
  /\ Holds(w[k][h], content)

\* A document is filed under its hash, and nothing else is changed.
LEMMA FilingOne ==
  ASSUME ChainInv, NEW docs, File(docs), NEW k \in Kinds, k \in DOMAIN docs,
         NEW content, "hash" \notin DOMAIN content, docs[k] = Filed(k, content)
  PROVE  desk'[k] = docs[k].hash /\ Added(vault, vault', k, desk'[k], content)
<1> DEFINE d == docs[k]
           n == Len(vault[k])
           S == {vault[k][i] : i \in DOMAIN vault[k]}
<1>1. /\ vault[k] \in Seq(S) /\ n \in Nat /\ DOMAIN vault[k] = 1..n
      /\ \A i \in DOMAIN vault[k] : vault[k][i].hash = i
  BY Shelf
<1>2. /\ \A f \in DOMAIN content : d[f] = content[f]
      /\ d.hash \in 1..(n + 1)
      /\ d.hash \in DOMAIN vault[k] => \A f \in DOMAIN content : vault[k][d.hash][f] = content[f]
  BY FiledFields
<1>3. /\ desk'[k] = d.hash
      /\ vault'[k] = IF d.hash > n THEN Append(vault[k], d) ELSE vault[k]
  BY DEF File
<1> HIDE DEF d, S, n
<1> USE DEF Added, Ordered, Kept, Holds
<1>4. CASE d.hash \in 1..n
  <2>1. ~(d.hash > n) /\ d.hash \in Nat
    BY <1>1, <1>4
  <2>2. vault'[k] = vault[k]
    BY <1>3, <2>1
  <2>3. desk'[k] = docs[k].hash
    BY <1>3 DEF d
  <2>4. Ordered(vault', k)
    BY <1>1, <2>2 DEF S
  <2>5. Kept(vault, vault', k) /\ \A i \in DOMAIN vault'[k] : i \in DOMAIN vault[k]
    BY <2>2
  <2>6. desk'[k] = d.hash /\ d.hash \in DOMAIN vault'[k] /\ d.hash \in 1..Len(vault'[k])
    BY <1>1, <1>3, <1>4, <2>2 DEF n
  <2>7. Holds(vault'[k][desk'[k]], content)
    BY <1>1, <1>2, <1>4, <2>2, <2>6
  <2> HIDE DEF Ordered, Kept, Holds
  <2> QED BY <2>1, <2>3, <2>4, <2>5, <2>6, <2>7
<1>5. CASE d.hash = n + 1
  <2>1. vault'[k] = Append(vault[k], d)
    BY <1>1, <1>3, <1>5
  <2>2. vault[k] \in Seq(S \cup {d})
    BY <1>1, SeqMonotonic
  <2>3. /\ vault'[k] \in Seq(S \cup {d}) /\ Len(vault'[k]) = n + 1
        /\ vault'[k][n + 1] = d /\ \A i \in 1..n : vault'[k][i] = vault[k][i]
        /\ DOMAIN vault'[k] = 1..(n + 1)
    BY <1>1, <2>1, <2>2, AppendProperties, LenProperties DEF n
  <2>4. /\ \A i \in 1..(n + 1) : i \in 1..n \/ i = n + 1
        /\ \A i \in 1..n : i \in 1..(n + 1)
        /\ n + 1 \in 1..(n + 1) /\ n + 1 \in Nat
    BY <1>1
  <2>5. S \cup {d} = {vault'[k][i] : i \in DOMAIN vault'[k]}
    <3>1. \A i \in 1..(n + 1) : vault'[k][i] \in S \cup {d}
      BY <1>1, <2>3, <2>4 DEF S
    <3>2. \A s \in S : \E i \in 1..(n + 1) : s = vault'[k][i]
      BY <1>1, <2>3, <2>4 DEF S
    <3> QED BY <2>3, <2>4, <3>1, <3>2, Zenon
  <2>6. Ordered(vault', k)
    BY <1>1, <1>5, <2>3, <2>4, <2>5
  <2>7. Kept(vault, vault', k)
    BY <1>1, <2>3, <2>4
  <2>8. /\ desk'[k] = n + 1 /\ desk'[k] \in 1..Len(vault'[k]) /\ desk'[k] \in DOMAIN vault'[k]
        /\ desk'[k] \in Nat /\ \A i \in DOMAIN vault'[k] : i \in DOMAIN vault[k] \/ i = desk'[k]
    BY <1>1, <1>3, <1>5, <2>3, <2>4
  <2>9. Holds(vault'[k][desk'[k]], content)
    BY <1>2, <2>3, <2>8
  <2>10. desk'[k] = docs[k].hash
    BY <1>3 DEF d
  <2> HIDE DEF Ordered, Kept, Holds
  <2> QED BY <2>6, <2>7, <2>8, <2>9, <2>10
<1>6. d.hash \in 1..n \/ d.hash = n + 1
  BY <1>1, <1>2
<1> QED BY <1>4, <1>5, <1>6

LEMMA FilingNone ==
  ASSUME NEW docs, File(docs), NEW k \in Kinds, k \notin DOMAIN docs
  PROVE  vault'[k] = vault[k] /\ desk'[k] = desk[k]
  BY DEF File

-----------------------------------------------------------------------------
\* What a step does that files documents.

\* The rest of the type invariant.
LEMMA TurnTyped ==
  ASSUME ChainTypeOK, NEW k, Turn(k), NEW wrong, Slip(wrong)
  PROVE  /\ pos' \in 1..(Len(Order) + 1) /\ rebuilds' \in 0..MaxRebuilds
         /\ slips' \in 0..MaxSlips
<1>1. Len(Order) = 26 /\ DOMAIN Order = 1..26
  BY DEF Order
<1>2. pos \in 1..27 /\ rebuilds \in 0..MaxRebuilds /\ slips \in 0..MaxSlips
  BY <1>1 DEF ChainTypeOK
<1> HIDE DEF Order
<1>3. \/ pos \in 1..26 /\ pos' = pos + 1 /\ rebuilds' = rebuilds
      \/ rebuilds < MaxRebuilds /\ rebuilds' = rebuilds + 1 /\ pos' = pos
  BY <1>1 DEF Turn
<1>4. pos' \in 1..27 /\ rebuilds' \in 0..MaxRebuilds
  BY <1>2, <1>3, ChainAssumption
<1>5. slips' \in 0..MaxSlips
  BY <1>2, ChainAssumption DEF Slip
<1> QED BY <1>1, <1>4, <1>5

\* The documents of these contents, one of each of the kinds K.
Files(docs, K, content) ==
  /\ DOMAIN docs = K /\ K \subseteq Kinds
  /\ \A k \in K : docs[k] = Filed(k, content[k]) /\ "hash" \notin DOMAIN content[k]

\* What filing documents leaves to show: that the new ones tell the truth.
LEMMA FilingKeeps ==
  ASSUME ChainInv, NEW K, NEW content, NEW docs, Files(docs, K, content), File(docs)
  PROVE  /\ InOrder(vault') /\ Grown(vault, vault') /\ desk' \in [Kinds -> Nat]
         /\ \A k \in Kinds : /\ desk'[k] \in 0..Len(vault'[k])
                             /\ desk'[k] = 0 => vault'[k] = <<>>
         /\ \A k \in Kinds : \A i \in DOMAIN vault'[k] :
              i \in DOMAIN vault[k] \/ (k \in K /\ i = desk'[k] /\ Holds(vault'[k][i], content[k]))
         /\ \A k \in K : /\ desk'[k] = Filed(k, content[k]).hash
                         /\ Added(vault, vault', k, desk'[k], content[k])
<1>1. /\ DOMAIN docs = K /\ K \subseteq Kinds
      /\ \A k \in K : docs[k] = Filed(k, content[k]) /\ "hash" \notin DOMAIN content[k]
  BY DEF Files
<1>2. File(docs)
  OBVIOUS
<1>3. ASSUME NEW k \in K
      PROVE  desk'[k] = Filed(k, content[k]).hash /\ Added(vault, vault', k, desk'[k], content[k])
  <2>1. /\ k \in Kinds /\ k \in DOMAIN docs /\ "hash" \notin DOMAIN content[k]
        /\ docs[k] = Filed(k, content[k])
    BY <1>1
  <2>2. desk'[k] = docs[k].hash /\ Added(vault, vault', k, desk'[k], content[k])
    BY <1>2, <2>1, FilingOne
  <2> QED BY <2>1, <2>2
<1>4. ASSUME NEW k \in Kinds, k \notin K
      PROVE  /\ vault'[k] = vault[k] /\ desk'[k] = desk[k] /\ Ordered(vault, k)
             /\ desk[k] \in 0..Len(vault[k]) /\ (desk[k] = 0 => vault[k] = <<>>)
             /\ desk[k] \in Nat
  <2>1. vault'[k] = vault[k] /\ desk'[k] = desk[k]
    BY <1>1, <1>2, <1>4, FilingNone
  <2>2. desk[k] \in Nat
    BY DEF ChainInv
  <2> QED BY <2>1, <2>2, Shelf DEF Ordered
<1>5. ASSUME NEW k \in Kinds
      PROVE  /\ Ordered(vault', k) /\ Kept(vault, vault', k)
             /\ desk'[k] \in 0..Len(vault'[k]) /\ desk'[k] \in Nat
             /\ desk'[k] = 0 => vault'[k] = <<>>
             /\ \A i \in DOMAIN vault'[k] :
                  \/ i \in DOMAIN vault[k]
                  \/ k \in K /\ i = desk'[k] /\ Holds(vault'[k][i], content[k])
  <2>1. CASE k \in K
    <3>1. /\ Ordered(vault', k) /\ Kept(vault, vault', k) /\ desk'[k] \in 1..Len(vault'[k])
          /\ desk'[k] \in Nat /\ Holds(vault'[k][desk'[k]], content[k])
          /\ \A i \in DOMAIN vault'[k] : i \in DOMAIN vault[k] \/ i = desk'[k]
      BY <1>3, <2>1 DEF Added
    <3>2. Len(vault'[k]) \in Nat
      BY <3>1, LenProperties DEF Ordered
    <3>3. desk'[k] \in 0..Len(vault'[k]) /\ desk'[k] # 0
      BY <3>1, <3>2
    <3> QED BY <2>1, <3>1, <3>3
  <2>2. CASE k \notin K
    <3>1. /\ vault'[k] = vault[k] /\ desk'[k] = desk[k] /\ Ordered(vault, k)
          /\ desk[k] \in 0..Len(vault[k]) /\ (desk[k] = 0 => vault[k] = <<>>)
          /\ desk[k] \in Nat
      BY <1>4, <2>2
    <3>2. Ordered(vault', k) /\ Kept(vault, vault', k)
      BY <3>1 DEF Ordered, Kept
    <3> QED BY <3>1, <3>2
  <2> QED BY <2>1, <2>2
<1>6. InOrder(vault') /\ Grown(vault, vault')
  BY <1>5 DEF InOrder, Grown, In, Ordered, Kept
<1>7. desk' \in [Kinds -> Nat]
  <2>1. desk' = [x \in Kinds |-> IF x \in DOMAIN docs THEN docs[x].hash ELSE desk[x]]
    BY <1>2 DEF File
  <2>2. \A x \in Kinds : desk'[x] \in Nat
    BY <1>5
  <2> QED BY <2>1, <2>2
<1> QED BY <1>3, <1>5, <1>6, <1>7

\* A document of one kind is filed, and speaks of documents there are.
LEMMA IssueKeeps ==
  ASSUME ChainInv, NEW k \in Kinds, NEW content, NEW wrong, "hash" \notin DOMAIN content,
         Issue(k, content, wrong),
         \A d : Holds(d, content) => Says(vault, flags.smoke, k, d)
  PROVE  ChainInv'
<1> DEFINE contents == [x \in {k} |-> content]
<1>1. /\ Turn(k) /\ Slip(wrong) /\ flags' = flags /\ disk' = disk
      /\ File([x \in {k} |-> Filed(k, content)])
  BY DEF Issue
<1> DEFINE docs == [x \in {k} |-> Filed(k, content)]
<1>2. contents[k] = content /\ docs[k] = Filed(k, content) /\ DOMAIN docs = {k}
  OBVIOUS
<1>3. File(docs)
  BY <1>1
<1> HIDE DEF contents, docs
<1>4. Files(docs, {k}, contents)
  BY <1>2 DEF Files
<1>5. /\ InOrder(vault') /\ Grown(vault, vault') /\ desk' \in [Kinds -> Nat]
      /\ \A x \in Kinds : /\ desk'[x] \in 0..Len(vault'[x])
                          /\ desk'[x] = 0 => vault'[x] = <<>>
      /\ \A x \in Kinds : \A i \in DOMAIN vault'[x] :
           \/ i \in DOMAIN vault[x]
           \/ x = k /\ Holds(vault'[x][i], content)
  <2>1. /\ InOrder(vault') /\ Grown(vault, vault') /\ desk' \in [Kinds -> Nat]
        /\ \A x \in Kinds : desk'[x] \in 0..Len(vault'[x]) /\ (desk'[x] = 0 => vault'[x] = <<>>)
        /\ \A x \in Kinds : \A i \in DOMAIN vault'[x] :
             \/ i \in DOMAIN vault[x]
             \/ x \in {k} /\ i = desk'[x] /\ Holds(vault'[x][i], contents[x])
    BY <1>2, <1>3, <1>4, FilingKeeps
  <2> QED BY <1>2, <2>1
<1>6. ChainTypeOK'
  BY <1>1, <1>5, TurnTyped DEF ChainInv, ChainTypeOK, InOrder
<1>7. Truthful'
  <2> SUFFICES ASSUME NEW x \in Kinds, NEW i \in DOMAIN vault'[x]
               PROVE  Says(vault', flags.smoke, x, vault'[x][i])
    BY <1>1 DEF Truthful
  <2>1. CASE i \in DOMAIN vault[x]
    <3>1. Says(vault, flags.smoke, x, vault[x][i])
      BY <2>1 DEF ChainInv, Truthful
    <3>2. vault'[x][i] = vault[x][i]
      BY <1>5, <2>1 DEF Grown
    <3> QED BY <1>5, <3>1, <3>2, SaysForever
  <2>2. CASE x = k /\ Holds(vault'[x][i], content)
    BY <1>5, <2>2, SaysForever
  <2> QED BY <1>5, <2>1, <2>2
<1> QED BY <1>5, <1>6, <1>7 DEF ChainInv

-----------------------------------------------------------------------------
\* The operator's steps.

\* Documents that name none whose verdict others rely on.
Plain == {"adapter", "handoff", "exams", "inference", "manifest", "build", "runtime", "preflight",
          "release", "config", "commands", "list", "repro", "approval", "recovery", "record"}

LEMMA PlainKeeps ==
  ASSUME ChainInv, NEW k \in Plain, NEW content, NEW wrong, "hash" \notin DOMAIN content,
         Issue(k, content, wrong)
  PROVE  ChainInv'
<1>1. k \in Kinds
  BY KindsNamed DEF Plain
<1>2. \A d : Says(vault, flags.smoke, k, d)
  BY DEF Plain, Says
<1> QED BY <1>1, <1>2, IssueKeeps

LEMMA TrainingPlain ==
  ASSUME ChainInv, MakeAdapterReport \/ MakeHandoff PROVE ChainInv'
<1>1. CASE MakeAdapterReport
  <2>1. "hash" \notin DOMAIN AdapterReport(disk)
    BY DEF AdapterReport
  <2> QED BY <1>1, <2>1, PlainKeeps DEF MakeAdapterReport, Plain
<1>2. CASE MakeHandoff
  <2>1. PICK weights \in Weights : Issue("handoff", Handoff(Doc("smoke"), weights), weights # disk.weights)
    BY <1>2 DEF MakeHandoff
  <2>2. "hash" \notin DOMAIN Handoff(Doc("smoke"), weights)
    BY DEF Handoff
  <2> QED BY <2>1, <2>2, PlainKeeps DEF Plain
<1> QED BY <1>1, <1>2

LEMMA GatesPlain ==
  ASSUME ChainInv,
         MakeExams \/ MakeInference \/ MakeManifest \/ MakeBuild \/ MakeRuntime \/ MakePreflight \/ MakeRelease
  PROVE  ChainInv'
<1>1. CASE MakeExams
  <2>1. PICK take \in Takes, bad \in {"none", "firewall", "exact", "transfer", "private", "regression"} :
          Issue("exams", [take       |-> take,
                          firewall   |-> IF bad = "firewall" THEN "investigate" ELSE "allow",
                          exact      |-> bad # "exact",
                          transfer   |-> bad # "transfer",
                          private    |-> bad # "private",
                          regression |-> bad # "regression"],
                bad # "none")
    BY <1>1 DEF MakeExams
  <2> DEFINE content == [take       |-> take,
                         firewall   |-> IF bad = "firewall" THEN "investigate" ELSE "allow",
                         exact      |-> bad # "exact",
                         transfer   |-> bad # "transfer",
                         private    |-> bad # "private",
                         regression |-> bad # "regression"]
  <2>2. "hash" \notin DOMAIN content
    OBVIOUS
  <2> HIDE DEF content
  <2>3. Issue("exams", content, bad # "none")
    BY <2>1 DEF content
  <2> QED BY <2>2, <2>3, PlainKeeps DEF Plain
<1>2. CASE MakeInference
  <2>1. PICK run, wrong : Issue("inference", Inference(run, flags.private), wrong)
    BY <1>2 DEF MakeInference
  <2>2. "hash" \notin DOMAIN Inference(run, flags.private)
    BY DEF Inference
  <2> QED BY <2>1, <2>2, PlainKeeps DEF Plain
<1>3. CASE MakeManifest
  <2>1. PICK weights, lora, wrong :
          Issue("manifest", SubmissionManifest(disk, weights, Doc("promotion"), lora), wrong)
    BY <1>3 DEF MakeManifest
  <2>2. "hash" \notin DOMAIN SubmissionManifest(disk, weights, Doc("promotion"), lora)
    BY DEF SubmissionManifest
  <2> QED BY <2>1, <2>2, PlainKeeps DEF Plain
<1>4. CASE MakeBuild
  <2>1. PICK dry : Issue("build", PackageBuild(Doc("manifest"), disk, dry), dry)
    BY <1>4 DEF MakeBuild
  <2>2. "hash" \notin DOMAIN PackageBuild(Doc("manifest"), disk, dry)
    BY DEF PackageBuild
  <2> QED BY <2>1, <2>2, PlainKeeps DEF Plain
<1>5. CASE MakeRuntime
  <2>1. PICK backend, dry, wrong :
          Issue("runtime", RuntimeReport(Doc("manifest"), disk, backend, flags.unloaded, dry), wrong)
    BY <1>5 DEF MakeRuntime
  <2>2. "hash" \notin DOMAIN RuntimeReport(Doc("manifest"), disk, backend, flags.unloaded, dry)
    BY DEF RuntimeReport
  <2> QED BY <2>1, <2>2, PlainKeeps DEF Plain
<1>6. CASE MakePreflight
  <2> DEFINE content == Preflight(flags, Doc("manifest"), Doc("build"), Doc("runtime"),
                                  Doc("promotion"), Doc("exams"), disk)
  <2>1. Issue("preflight", content, FALSE)
    BY <1>6 DEF MakePreflight
  <2>2. "hash" \notin DOMAIN content
    BY DEF Preflight
  <2> HIDE DEF content
  <2> QED BY <2>1, <2>2, PlainKeeps DEF Plain
<1>7. CASE MakeRelease
  <2>1. PICK safe, suite, wrong :
          Issue("release", ReleaseCandidate(Doc("promotion"), Doc("preflight"), safe, suite), wrong)
    BY <1>7 DEF MakeRelease
  <2>2. "hash" \notin DOMAIN ReleaseCandidate(Doc("promotion"), Doc("preflight"), safe, suite)
    BY DEF ReleaseCandidate
  <2> QED BY <2>1, <2>2, PlainKeeps DEF Plain
<1> QED BY <1>1, <1>2, <1>3, <1>4, <1>5, <1>6, <1>7

LEMMA RunbookPlain ==
  ASSUME ChainInv,
         \/ MakeConfig \/ MakeCommands \/ MakeChecklist \/ MakeRepro \/ MakeApproval
         \/ MakeRecovery \/ MakeRecord
  PROVE  ChainInv'
<1>1. CASE MakeConfig
  <2>1. PICK needFinal, needLock, wrong :
          Issue("config", RunbookConfig(needFinal, needLock, HashOrNone(Doc("final"))), wrong)
    BY <1>1 DEF MakeConfig
  <2>2. "hash" \notin DOMAIN RunbookConfig(needFinal, needLock, HashOrNone(Doc("final")))
    BY DEF RunbookConfig
  <2> QED BY <2>1, <2>2, PlainKeeps DEF Plain
<1>2. CASE MakeCommands
  <2>1. "hash" \notin DOMAIN CommandManifest(Doc("config"))
    BY DEF CommandManifest
  <2> QED BY <1>2, <2>1, PlainKeeps DEF Plain, MakeCommands
<1>3. CASE MakeChecklist
  <2>1. PICK checked : Issue("list", Checklist(Doc("config"), checked), ~checked)
    BY <1>3 DEF MakeChecklist
  <2>2. "hash" \notin DOMAIN Checklist(Doc("config"), checked)
    BY DEF Checklist
  <2> QED BY <2>1, <2>2, PlainKeeps DEF Plain
<1>4. CASE MakeRepro
  <2> DEFINE content == Reproducibility(Doc("config"), Doc("commands"), Doc("list"), Doc("gate"))
  <2>1. Issue("repro", content, FALSE)
    BY <1>4 DEF MakeRepro
  <2>2. "hash" \notin DOMAIN content
    BY DEF Reproducibility
  <2> HIDE DEF content
  <2> QED BY <2>1, <2>2, PlainKeeps DEF Plain
<1>5. CASE MakeApproval
  <2>1. PICK acknowledged :
          Issue("approval", Approval(Doc("config"), Doc("gate"), Doc("repro"), acknowledged), ~acknowledged)
    BY <1>5 DEF MakeApproval
  <2>2. "hash" \notin DOMAIN Approval(Doc("config"), Doc("gate"), Doc("repro"), acknowledged)
    BY DEF Approval
  <2> QED BY <2>1, <2>2, PlainKeeps DEF Plain
<1>6. CASE MakeRecovery
  <2>1. "hash" \notin DOMAIN RecoveryPlan(Doc("config"))
    BY DEF RecoveryPlan
  <2> QED BY <1>6, <2>1, PlainKeeps DEF Plain, MakeRecovery
<1>7. CASE MakeRecord
  <2>1. PICK performed :
          Issue("record", SubmissionRecord(Doc("approval"), Doc("repro"), performed), ~performed)
    BY <1>7 DEF MakeRecord
  <2>2. "hash" \notin DOMAIN SubmissionRecord(Doc("approval"), Doc("repro"), performed)
    BY DEF SubmissionRecord
  <2> QED BY <2>1, <2>2, PlainKeeps DEF Plain
<1> QED BY <1>1, <1>2, <1>3, <1>4, <1>5, <1>6, <1>7

\* A document on the desk, by what it says and what it is called.
LEMMA Handed ==
  ASSUME ChainInv, NEW k \in Kinds, desk[k] # 0
  PROVE  /\ In(vault, k, Doc(k).hash) /\ vault[k][Doc(k).hash] = Doc(k)
         /\ Doc(k).hash # None /\ Says(vault, flags.smoke, k, Doc(k))
  BY OnDesk, ChainAssumption DEF In

LEMMA EvidenceKeeps == ChainInv /\ MakeEvidence => ChainInv'
<1> SUFFICES ASSUME ChainInv, MakeEvidence PROVE ChainInv'
  OBVIOUS
<1> DEFINE report   == Doc("adapter")
           manifest == Doc("training")
           smoke    == Doc("smoke")
           handoff  == Doc("handoff")
           content  == Evidence(flags, report, manifest, smoke, handoff)
<1>1. desk["adapter"] # 0 /\ report.passed /\ Issue("evidence", content, FALSE)
  BY DEF MakeEvidence, Have, EvidenceRefused
<1>2. {"adapter", "training", "smoke", "handoff", "evidence"} \subseteq Kinds
  BY KindsNamed
<1>3. In(vault, "adapter", report.hash) /\ vault["adapter"][report.hash] = report
  BY <1>1, <1>2, Handed
<1>4. ASSUME manifest # None
      PROVE  In(vault, "training", manifest.hash) /\ vault["training"][manifest.hash] = manifest
  <2>1. desk["training"] # 0
    BY <1>2, <1>4, OnDesk
  <2> QED BY <1>2, <2>1, Handed
<1>5. ASSUME smoke # None
      PROVE  /\ In(vault, "smoke", smoke.hash) /\ vault["smoke"][smoke.hash] = smoke
             /\ SmokeSays(vault, smoke)
  <2>1. desk["smoke"] # 0
    BY <1>2, <1>5, OnDesk
  <2> QED BY <1>2, <2>1, Handed DEF Says
<1>6. ASSUME handoff # None
      PROVE  In(vault, "handoff", handoff.hash) /\ vault["handoff"][handoff.hash] = handoff
  <2>1. desk["handoff"] # 0
    BY <1>2, <1>6, OnDesk
  <2> QED BY <1>2, <2>1, Handed
<1> HIDE DEF report, manifest, smoke, handoff
<1>7. ASSUME NEW d, Holds(d, content)
      PROVE  Says(vault, flags.smoke, "evidence", d)
  <2>1. /\ d.adapter = report.adapter /\ d.report = report.hash
        /\ d.manifest = HashOrNone(manifest) /\ d.smoke = HashOrNone(smoke)
        /\ d.handoff = HashOrNone(handoff) /\ d.complete = content.complete
    BY <1>7 DEF Holds, Evidence
  <2>2. SUFFICES ASSUME flags.smoke, d.complete PROVE EvidenceSays(vault, flags.smoke, d)
    BY DEF Says, EvidenceSays
  <2>3. /\ ManifestAgrees(manifest, report) /\ SmokeAgrees(smoke, manifest, report)
        /\ HandoffAgrees(handoff, smoke, report)
        /\ manifest # None /\ smoke # None /\ handoff # None
    BY <2>1, <2>2 DEF Evidence
  <2>4. /\ d.manifest = manifest.hash /\ d.smoke = smoke.hash /\ d.handoff = handoff.hash
    BY <2>1, <2>3 DEF HashOrNone
  <2>5. /\ manifest.adapter = report.adapter /\ smoke.trained /\ smoke.manifest = manifest.hash
        /\ handoff.adapter = report.adapter /\ handoff.manifest = manifest.hash
    BY <2>3 DEF ManifestAgrees, SmokeAgrees, HandoffAgrees
  <2>6. smoke.result = manifest.result /\ smoke.log = manifest.log
    BY <1>4, <1>5, <2>3, <2>5 DEF SmokeSays
  <2> QED BY <1>1, <1>3, <1>4, <1>5, <1>6, <2>1, <2>3, <2>4, <2>5, <2>6 DEF EvidenceSays
<1>8. "hash" \notin DOMAIN content
  BY DEF Evidence
<1> HIDE DEF content
<1> QED BY <1>1, <1>2, <1>7, <1>8, IssueKeeps

LEMMA PromotionKeeps == ChainInv /\ MakePromotion => ChainInv'
<1> SUFFICES ASSUME ChainInv, MakePromotion PROVE ChainInv'
  OBVIOUS
<1> DEFINE exams == Doc("exams")
<1>1. PICK weights, wrong : desk["exams"] # 0 /\ Issue("promotion", Promotion(exams, weights), wrong)
  BY DEF MakePromotion, Have
<1>2. {"exams", "promotion"} \subseteq Kinds
  BY KindsNamed
<1>3. In(vault, "exams", exams.hash) /\ vault["exams"][exams.hash] = exams
  BY <1>1, <1>2, Handed
<1> HIDE DEF exams
<1> DEFINE content == Promotion(exams, weights)
<1>4. ASSUME NEW d, Holds(d, content)
      PROVE  Says(vault, flags.smoke, "promotion", d)
  <2>1. d.exams = exams.hash /\ d.allow = content.allow
    BY <1>4 DEF Holds, Promotion
  <2>2. content.allow => exams.exact
    BY DEF Promotion
  <2> QED BY <1>3, <2>1, <2>2 DEF Says, PromotionSays
<1>5. "hash" \notin DOMAIN content
  BY DEF Promotion
<1> HIDE DEF content
<1>6. Issue("promotion", content, wrong)
  BY <1>1 DEF content
<1> QED BY <1>2, <1>4, <1>5, <1>6, IssueKeeps

LEMMA BridgeKeeps == ChainInv /\ MakeBridge => ChainInv'
<1> SUFFICES ASSUME ChainInv, MakeBridge PROVE ChainInv'
  OBVIOUS
<1> DEFINE promotion == Doc("promotion")
           exams     == Doc("exams")
           inference == Doc("inference")
           evidence  == Doc("evidence")
           content   == Bridge(flags, promotion, exams, inference, evidence)
<1>1. desk["promotion"] # 0 /\ desk["evidence"] # 0 /\ Issue("bridge", content, FALSE)
  BY DEF MakeBridge, Have
<1>2. {"promotion", "evidence", "bridge"} \subseteq Kinds
  BY KindsNamed
<1>3. /\ In(vault, "promotion", promotion.hash) /\ vault["promotion"][promotion.hash] = promotion
      /\ In(vault, "evidence", evidence.hash) /\ vault["evidence"][evidence.hash] = evidence
  BY <1>1, <1>2, Handed
<1> HIDE DEF promotion, exams, inference, evidence
<1>4. ASSUME NEW d, Holds(d, content)
      PROVE  Says(vault, flags.smoke, "bridge", d)
  <2>1. d.promotion = promotion.hash /\ d.evidence = evidence.hash /\ d.allowed = content.allowed
    BY <1>4 DEF Holds, Bridge
  <2>2. content.allowed =>
          promotion.allow /\ evidence.complete /\ promotion.adapter = evidence.adapter
    BY DEF Bridge
  <2> QED BY <1>3, <2>1, <2>2 DEF Says, BridgeSays
<1>5. "hash" \notin DOMAIN content
  BY DEF Bridge
<1> HIDE DEF content
<1> QED BY <1>1, <1>2, <1>4, <1>5, IssueKeeps

LEMMA PackageKeeps == ChainInv /\ MakePackage => ChainInv'
<1> SUFFICES ASSUME ChainInv, MakePackage PROVE ChainInv'
  OBVIOUS
<1> DEFINE evidence == Doc("evidence")
           bridge   == Doc("bridge")
           manifest == Doc("manifest")
           build    == Doc("build")
           content  == PackageRehearsal(flags, evidence, bridge, manifest, build, disk)
<1>1. desk["evidence"] # 0 /\ desk["bridge"] # 0 /\ Issue("package", content, FALSE)
  BY DEF MakePackage, Have
<1>2. {"evidence", "bridge", "manifest", "package"} \subseteq Kinds
  BY KindsNamed
<1>3. /\ In(vault, "evidence", evidence.hash) /\ vault["evidence"][evidence.hash] = evidence
      /\ In(vault, "bridge", bridge.hash) /\ vault["bridge"][bridge.hash] = bridge
  BY <1>1, <1>2, Handed
<1>4. ASSUME manifest # None
      PROVE  In(vault, "manifest", manifest.hash) /\ vault["manifest"][manifest.hash] = manifest
  <2>1. desk["manifest"] # 0
    BY <1>2, <1>4, OnDesk
  <2> QED BY <1>2, <2>1, Handed
<1> HIDE DEF evidence, bridge, manifest, build
<1>5. ASSUME NEW d, Holds(d, content)
      PROVE  Says(vault, flags.smoke, "package", d)
  <2>1. /\ d.evidence = evidence.hash /\ d.bridge = bridge.hash /\ d.passed = content.passed
        /\ d.manifest = IF FoundOnDisk(manifest, disk) THEN manifest.hash ELSE None
    BY <1>5 DEF Holds, PackageRehearsal
  <2>2. ASSUME d.passed
        PROVE  /\ bridge.allowed /\ evidence.complete /\ FoundOnDisk(manifest, disk)
               /\ manifest.adapter = evidence.adapter /\ manifest.promotion = bridge.promotion
    BY <2>1, <2>2 DEF PackageRehearsal, ManifestFits
  <2>3. ASSUME d.passed PROVE manifest # None /\ d.manifest = manifest.hash
    BY <2>1, <2>2, <2>3 DEF FoundOnDisk
  <2> QED BY <1>3, <1>4, <2>1, <2>2, <2>3 DEF Says, PackageSays
<1>6. "hash" \notin DOMAIN content
  BY DEF PackageRehearsal
<1> HIDE DEF content
<1> QED BY <1>1, <1>2, <1>5, <1>6, IssueKeeps

LEMMA LoadingKeeps == ChainInv /\ MakeLoading => ChainInv'
<1> SUFFICES ASSUME ChainInv, MakeLoading PROVE ChainInv'
  OBVIOUS
<1> DEFINE evidence == Doc("evidence")
           package  == Doc("package")
           runtime  == Doc("runtime")
           content  == RuntimeRehearsal(flags, evidence, package, runtime)
<1>1. desk["package"] # 0 /\ Issue("loading", content, FALSE)
  BY DEF MakeLoading, Have
<1>2. {"package", "loading"} \subseteq Kinds
  BY KindsNamed
<1>3. In(vault, "package", package.hash) /\ vault["package"][package.hash] = package
  BY <1>1, <1>2, Handed
<1> HIDE DEF evidence, package, runtime
<1>4. ASSUME NEW d, Holds(d, content)
      PROVE  Says(vault, flags.smoke, "loading", d)
  <2>1. d.package = package.hash /\ d.passed = content.passed
    BY <1>4 DEF Holds, RuntimeRehearsal
  <2>2. content.passed => package.passed
    BY DEF RuntimeRehearsal, LoadingPasses
  <2> QED BY <1>3, <2>1, <2>2 DEF Says, LoadingSays
<1>5. "hash" \notin DOMAIN content
  BY DEF RuntimeRehearsal
<1> HIDE DEF content
<1> QED BY <1>1, <1>2, <1>4, <1>5, IssueKeeps

LEMMA SubmissionKeeps == ChainInv /\ MakeSubmission => ChainInv'
<1> SUFFICES ASSUME ChainInv, MakeSubmission PROVE ChainInv'
  OBVIOUS
<1> DEFINE package == Doc("package")
           content == SubmissionRehearsal(flags, Doc("bridge"), package, Doc("loading"),
                                          Doc("preflight"), Doc("release"))
<1>1. desk["package"] # 0 /\ Issue("submission", content, FALSE)
  BY DEF MakeSubmission, Have
<1>2. {"package", "submission"} \subseteq Kinds
  BY KindsNamed
<1>3. In(vault, "package", package.hash) /\ vault["package"][package.hash] = package
  BY <1>1, <1>2, Handed
<1> HIDE DEF package
<1>4. ASSUME NEW d, Holds(d, content)
      PROVE  Says(vault, flags.smoke, "submission", d)
  <2>1. d.package = package.hash /\ d.passed = content.passed
    BY <1>4 DEF Holds, SubmissionRehearsal
  <2>2. content.passed => package.passed
    BY DEF SubmissionRehearsal
  <2> QED BY <1>3, <2>1, <2>2 DEF Says, LoadingSays
<1>5. "hash" \notin DOMAIN content
  BY DEF SubmissionRehearsal
<1> HIDE DEF content
<1> QED BY <1>1, <1>2, <1>4, <1>5, IssueKeeps

LEMMA FinalKeeps == ChainInv /\ MakeFinal => ChainInv'
<1> SUFFICES ASSUME ChainInv, MakeFinal PROVE ChainInv'
  OBVIOUS
<1> DEFINE package    == Doc("package")
           loading    == Doc("loading")
           submission == Doc("submission")
           content    == FinalRehearsal(flags, Doc("evidence"), Doc("bridge"), package,
                                        loading, submission)
<1>1. /\ desk["package"] # 0 /\ desk["loading"] # 0 /\ desk["submission"] # 0
      /\ Issue("final", content, FALSE)
  BY DEF MakeFinal, Have
<1>2. {"package", "loading", "submission", "final"} \subseteq Kinds
  BY KindsNamed
<1>3. /\ In(vault, "package", package.hash) /\ vault["package"][package.hash] = package
      /\ In(vault, "loading", loading.hash) /\ vault["loading"][loading.hash] = loading
      /\ In(vault, "submission", submission.hash) /\ vault["submission"][submission.hash] = submission
  BY <1>1, <1>2, Handed
<1> HIDE DEF package, loading, submission
<1>4. ASSUME NEW d, Holds(d, content)
      PROVE  Says(vault, flags.smoke, "final", d)
  <2>1. /\ d.package = package.hash /\ d.loading = loading.hash
        /\ d.submission = submission.hash /\ d.ready = content.ready
    BY <1>4 DEF Holds, FinalRehearsal
  <2>2. content.ready => package.passed /\ loading.passed /\ submission.passed
    BY DEF FinalRehearsal
  <2> QED BY <1>3, <2>1, <2>2 DEF Says, FinalSays
<1>5. "hash" \notin DOMAIN content
  BY DEF FinalRehearsal
<1> HIDE DEF content
<1> QED BY <1>1, <1>2, <1>4, <1>5, IssueKeeps

LEMMA GateKeeps == ChainInv /\ MakeGate => ChainInv'
<1> SUFFICES ASSUME ChainInv, MakeGate PROVE ChainInv'
  OBVIOUS
<1> DEFINE config  == Doc("config")
           list    == Doc("list")
           final   == Doc("final")
           release == Doc("release")
<1>1. PICK failed : /\ desk["config"] # 0 /\ desk["list"] # 0
                    /\ Issue("gate", BlockerGate(config, Doc("commands"), list, final, release, failed),
                             failed)
  BY DEF MakeGate, Have
<1>2. {"config", "list", "final", "release", "gate"} \subseteq Kinds
  BY KindsNamed
<1>3. /\ In(vault, "config", config.hash) /\ vault["config"][config.hash] = config
      /\ In(vault, "list", list.hash) /\ vault["list"][list.hash] = list
  BY <1>1, <1>2, Handed
<1>4. ASSUME final # None
      PROVE  In(vault, "final", final.hash) /\ vault["final"][final.hash] = final
  <2>1. desk["final"] # 0
    BY <1>2, <1>4, OnDesk
  <2> QED BY <1>2, <2>1, Handed
<1>5. ASSUME release # None
      PROVE  In(vault, "release", release.hash) /\ vault["release"][release.hash] = release
  <2>1. desk["release"] # 0
    BY <1>2, <1>5, OnDesk
  <2> QED BY <1>2, <2>1, Handed
<1> HIDE DEF config, list, final, release
<1> DEFINE content == BlockerGate(config, Doc("commands"), list, final, release, failed)
<1>6. ASSUME NEW d, Holds(d, content)
      PROVE  Says(vault, flags.smoke, "gate", d)
  <2>1. /\ d.config = config.hash /\ d.list = list.hash /\ d.final = HashOrNone(final)
        /\ d.release = HashOrNone(release) /\ d.failed = failed /\ d.blocked = content.blocked
    BY <1>6 DEF Holds, BlockerGate
  <2>2. ASSUME ~d.blocked
        PROVE  /\ list.checked /\ ~failed /\ RehearsalClears(config, final)
               /\ release # None => release.ready
    BY <2>1, <2>2 DEF BlockerGate
  <2>3. ASSUME ~d.blocked, config.needFinal \/ config.needLock
        PROVE  d.final = config.pins /\ In(vault, "final", d.final) /\ vault["final"][d.final].ready
    <3>1. final # None /\ final.hash = config.pins /\ final.ready
      BY <2>2, <2>3 DEF RehearsalClears
    <3> QED BY <1>4, <2>1, <3>1 DEF HashOrNone
  <2>4. ASSUME ~d.blocked, d.release # None
        PROVE  In(vault, "release", d.release) /\ vault["release"][d.release].ready
    BY <1>5, <2>1, <2>2, <2>4 DEF HashOrNone
  <2> QED BY <1>3, <2>1, <2>2, <2>3, <2>4 DEF Says, GateSays
<1>7. "hash" \notin DOMAIN content
  BY DEF BlockerGate
<1> HIDE DEF content
<1>8. Issue("gate", content, failed)
  BY <1>1 DEF content
<1> QED BY <1>2, <1>6, <1>7, <1>8, IssueKeeps

LEMMA OperationsKeeps == ChainInv /\ MakeOperations => ChainInv'
<1> SUFFICES ASSUME ChainInv, MakeOperations PROVE ChainInv'
  OBVIOUS
<1> DEFINE config   == Doc("config")
           commands == Doc("commands")
           list     == Doc("list")
           gate     == Doc("gate")
           repro    == Doc("repro")
           recovery == Doc("recovery")
           approval == Doc("approval")
           record   == Doc("record")
           content  == Operations(config, commands, list, gate, repro, recovery, approval, record)
<1>1. /\ desk["config"] # 0 /\ desk["list"] # 0 /\ desk["gate"] # 0 /\ desk["repro"] # 0
      /\ ~OperationsRefused(config, commands, list, gate, repro, recovery, approval, record)
      /\ Issue("operations", content, FALSE)
  BY DEF MakeOperations, Have
<1>2. {"config", "list", "gate", "repro", "approval", "record", "operations"} \subseteq Kinds
  BY KindsNamed
<1>3. /\ In(vault, "config", config.hash) /\ vault["config"][config.hash] = config
      /\ In(vault, "list", list.hash) /\ vault["list"][list.hash] = list
      /\ In(vault, "gate", gate.hash) /\ vault["gate"][gate.hash] = gate
      /\ In(vault, "repro", repro.hash) /\ vault["repro"][repro.hash] = repro
  BY <1>1, <1>2, Handed
<1>4. ASSUME approval # None
      PROVE  In(vault, "approval", approval.hash) /\ vault["approval"][approval.hash] = approval
  <2>1. desk["approval"] # 0
    BY <1>2, <1>4, OnDesk
  <2> QED BY <1>2, <2>1, Handed
<1>5. ASSUME record # None
      PROVE  In(vault, "record", record.hash) /\ vault["record"][record.hash] = record
  <2>1. desk["record"] # 0
    BY <1>2, <1>5, OnDesk
  <2> QED BY <1>2, <2>1, Handed
<1> HIDE DEF config, commands, list, gate, repro, recovery, approval, record
<1>6. ASSUME NEW d, Holds(d, content)
      PROVE  Says(vault, flags.smoke, "operations", d)
  <2>1. /\ d.config = config.hash /\ d.list = list.hash /\ d.gate = gate.hash
        /\ d.repro = repro.hash /\ d.approval = HashOrNone(approval)
        /\ d.record = HashOrNone(record) /\ d.ready = content.ready
    BY <1>6 DEF Holds, Operations
  <2>2. SUFFICES ASSUME d.ready PROVE OperationsSays(vault, d)
    BY DEF Says, OperationsSays
  <2>3. ~gate.blocked /\ approval # None
    BY <2>1, <2>2 DEF Operations
  <2>4. /\ gate.config = config.hash /\ gate.list = list.hash
        /\ repro.config = config.hash /\ repro.gate = gate.hash
        /\ approval.config = config.hash /\ approval.gate = gate.hash /\ approval.repro = repro.hash
    BY <1>1, <2>3 DEF OperationsRefused, GateOf, ReproOf, ApprovalOf, MadeFor
  <2>5. d.approval = approval.hash
    BY <2>1, <2>3 DEF HashOrNone
  <2>6. ASSUME d.record # None
        PROVE  In(vault, "record", d.record) /\ vault["record"][d.record].approval = d.approval
    <3>1. record # None /\ d.record = record.hash
      BY <2>1, <2>6 DEF HashOrNone
    <3>2. record.approval = approval.hash
      BY <1>1, <3>1 DEF OperationsRefused, RecordOf
    <3> QED BY <1>5, <2>5, <3>1, <3>2
  <2> QED BY <1>3, <1>4, <2>1, <2>3, <2>4, <2>5, <2>6 DEF OperationsSays
<1>7. "hash" \notin DOMAIN content
  BY DEF Operations
<1> HIDE DEF content
<1> QED BY <1>1, <1>2, <1>6, <1>7, IssueKeeps

-----------------------------------------------------------------------------
\* A smoke run files up to three documents, and its report speaks of the
\* training manifest filed with it.
LEMMA RunSmokeKeeps == ChainInv /\ RunSmoke => ChainInv'
<1> SUFFICES ASSUME ChainInv, RunSmoke PROVE ChainInv'
  OBVIOUS
<1>1. PICK outcome \in {"dry", "raised", "idle", "trained"} :
        \E dir \in DiskAfter(outcome), claim \in Claims, log \in BOOLEAN :
          /\ Turn("smoke")
          /\ Slip(outcome # "trained" \/ ~dir.tidy \/ ~log)
          /\ disk' = dir
          /\ File(SmokeDocs(outcome, dir, claim, log))
          /\ flags' = flags
  BY DEF RunSmoke
<1>2. PICK dir \in DiskAfter(outcome), claim \in Claims, log \in BOOLEAN :
          /\ Turn("smoke")
          /\ Slip(outcome # "trained" \/ ~dir.tidy \/ ~log)
          /\ disk' = dir
          /\ File(SmokeDocs(outcome, dir, claim, log))
          /\ flags' = flags
  BY <1>1
<1> DEFINE result    == BackendResult(outcome, claim)
           validated == AdapterReport(dir)
           report    == Filed("adapter", validated)
           checked   == outcome = "trained"
           logged    == IF outcome \in {"trained", "idle"} THEN log ELSE None
           trained   == BackendTrained(result, dir) /\ log
           training  == TrainingManifest(result, report, logged)
           manifest  == Filed("training", training)
           smoke     == SmokeReport(result, IF checked THEN report ELSE None, logged,
                                    IF trained THEN manifest ELSE None)
           made      == {"smoke"} \cup (IF checked THEN {"adapter"} ELSE {})
                                  \cup (IF trained THEN {"training"} ELSE {})
           contents  == [k \in made |-> CASE k = "smoke"    -> smoke
                                          [] k = "adapter"  -> validated
                                          [] k = "training" -> training]
           docs      == SmokeDocs(outcome, dir, claim, log)
<1>3. docs = [k \in made |-> CASE k = "smoke"    -> Filed("smoke", smoke)
                               [] k = "adapter"  -> report
                               [] k = "training" -> manifest]
  BY DEF SmokeDocs
<1>4. /\ "hash" \notin DOMAIN validated /\ "hash" \notin DOMAIN training
      /\ "hash" \notin DOMAIN smoke
  BY DEF AdapterReport, TrainingManifest, SmokeReport
<1>5. made \subseteq {"smoke", "adapter", "training"} /\ made \subseteq Kinds
  BY KindsNamed
<1>6. /\ training.result = result /\ training.log = logged
      /\ smoke.result = result /\ smoke.log = logged
      /\ smoke.trained => trained /\ smoke.manifest = manifest.hash
  BY DEF TrainingManifest, SmokeReport
<1>7. {"result", "log"} \subseteq DOMAIN training
  BY DEF TrainingManifest
<1>8. {"result", "log", "trained", "manifest"} \subseteq DOMAIN smoke
  BY DEF SmokeReport
<1>9. trained => "training" \in made
  OBVIOUS
<1>10. disk' \in [weights : Weights \cup {None}, tidy : BOOLEAN]
  BY <1>2 DEF DiskAfter, ChainInv, ChainTypeOK
<1>11. Turn("smoke") /\ Slip(outcome # "trained" \/ ~dir.tidy \/ ~log) /\ flags' = flags /\ File(docs)
  BY <1>2
<1> HIDE DEF result, validated, checked, logged, trained, training, smoke, docs
<1>12. \A k \in made : contents[k] = CASE k = "smoke"    -> smoke
                                      [] k = "adapter"  -> validated
                                      [] k = "training" -> training
  OBVIOUS
<1>13. \A k \in made : docs[k] = CASE k = "smoke"    -> Filed("smoke", smoke)
                                  [] k = "adapter"  -> report
                                  [] k = "training" -> manifest
  BY <1>3
<1>14. DOMAIN docs = made
  BY <1>3
<1> HIDE DEF made, contents
<1>15. \A k \in made : docs[k] = Filed(k, contents[k]) /\ "hash" \notin DOMAIN contents[k]
  BY <1>4, <1>5, <1>12, <1>13
<1>16. Files(docs, made, contents)
  BY <1>5, <1>14, <1>15 DEF Files
<1>17. File(docs)
  BY <1>11
<1>18. /\ InOrder(vault') /\ Grown(vault, vault') /\ desk' \in [Kinds -> Nat]
       /\ \A k \in Kinds : /\ desk'[k] \in 0..Len(vault'[k])
                           /\ desk'[k] = 0 => vault'[k] = <<>>
       /\ \A k \in Kinds : \A i \in DOMAIN vault'[k] :
            i \in DOMAIN vault[k] \/ (k \in made /\ i = desk'[k] /\ Holds(vault'[k][i], contents[k]))
       /\ \A k \in made : /\ desk'[k] = Filed(k, contents[k]).hash
                          /\ Added(vault, vault', k, desk'[k], contents[k])
  BY <1>16, <1>17, FilingKeeps
<1>19. ChainTypeOK'
  BY <1>10, <1>11, <1>18, TurnTyped DEF ChainInv, ChainTypeOK, InOrder
<1>20. ASSUME trained
       PROVE  /\ In(vault', "training", manifest.hash)
              /\ vault'["training"][manifest.hash].result = result
              /\ vault'["training"][manifest.hash].log = logged
  <2>1. "training" \in made /\ contents["training"] = training
    BY <1>9, <1>12, <1>20
  <2>2. desk'["training"] = manifest.hash /\ Added(vault, vault', "training", manifest.hash, training)
    BY <1>18, <2>1
  <2> QED BY <1>6, <1>7, <2>2 DEF Added, Holds, In
<1>21. ASSUME NEW k \in made, NEW d, Holds(d, contents[k])
       PROVE  Says(vault', flags.smoke, k, d)
  <2>1. CASE k = "smoke"
    <3>1. Holds(d, smoke)
      BY <1>12, <1>21, <2>1
    <3>2. /\ d.result = smoke.result /\ d.log = smoke.log /\ d.trained = smoke.trained
          /\ d.manifest = smoke.manifest
      BY <1>8, <3>1 DEF Holds
    <3>3. SmokeSays(vault', d)
      BY <1>6, <1>20, <3>2 DEF SmokeSays
    <3> QED BY <2>1, <3>3 DEF Says
  <2>2. CASE k = "adapter"
    BY <2>2 DEF Says
  <2>3. CASE k = "training"
    BY <2>3 DEF Says
  <2> QED BY <1>5, <2>1, <2>2, <2>3
<1>22. Truthful'
  <2> SUFFICES ASSUME NEW x \in Kinds, NEW i \in DOMAIN vault'[x]
               PROVE  Says(vault', flags.smoke, x, vault'[x][i])
    BY <1>11 DEF Truthful
  <2>1. CASE i \in DOMAIN vault[x]
    <3>1. Says(vault, flags.smoke, x, vault[x][i])
      BY <2>1 DEF ChainInv, Truthful
    <3>2. vault'[x][i] = vault[x][i]
      BY <1>18, <2>1 DEF Grown
    <3> QED BY <1>18, <3>1, <3>2, SaysForever
  <2>2. CASE x \in made /\ Holds(vault'[x][i], contents[x])
    BY <1>21, <2>2
  <2> QED BY <1>18, <2>1, <2>2
<1> QED BY <1>18, <1>19, <1>22 DEF ChainInv

\* A step that leaves the vault alone has only its own variables to answer for.
LEMMA VaultKept ==
  ASSUME ChainInv, UNCHANGED <<flags, vault>>, ChainTypeOK', desk' \in [Kinds -> Nat]
  PROVE  ChainInv'
<1>1. InOrder(vault')
  BY DEF ChainInv
<1>2. Truthful'
  <2> SUFFICES ASSUME NEW k \in Kinds, NEW i \in DOMAIN vault[k]
               PROVE  Says(vault, flags.smoke, k, vault[k][i])
    BY DEF Truthful
  <2> QED BY DEF ChainInv, Truthful
<1> QED BY <1>1, <1>2 DEF ChainInv

\* Nothing is filed when a document is left out or exchanged.
LEMMA GoWithoutKeeps == ChainInv /\ GoWithout => ChainInv'
<1> SUFFICES ASSUME ChainInv, GoWithout PROVE ChainInv'
  OBVIOUS
<1>1. /\ pos \in DOMAIN Order /\ pos' = pos + 1 /\ Slip(Order[pos] \notin Waived)
      /\ UNCHANGED <<flags, disk, vault, desk, rebuilds>>
  BY DEF GoWithout
<1>2. DOMAIN Order = 1..26 /\ Len(Order) = 26
  BY DEF Order
<1>3. slips \in 0..MaxSlips
  BY DEF ChainInv, ChainTypeOK
<1>4. slips' \in 0..MaxSlips
  BY <1>1, <1>3, ChainAssumption DEF Slip
<1>5. pos' \in 1..(Len(Order) + 1)
  <2> HIDE DEF Order
  <2> QED BY <1>1, <1>2
<1>6. ChainTypeOK'
  BY <1>1, <1>4, <1>5 DEF ChainInv, ChainTypeOK
<1>7. desk' \in [Kinds -> Nat]
  BY <1>1 DEF ChainInv
<1> QED BY <1>1, <1>6, <1>7, VaultKept

LEMMA TakeAnotherKeeps == ChainInv /\ TakeAnother => ChainInv'
<1> SUFFICES ASSUME ChainInv, TakeAnother PROVE ChainInv'
  OBVIOUS
<1>1. /\ rebuilds < MaxRebuilds /\ rebuilds' = rebuilds + 1
      /\ UNCHANGED <<flags, disk, vault, pos, slips>>
  BY DEF TakeAnother
<1>2. PICK k \in Kinds : \E i \in DOMAIN vault[k] \ {desk[k]} : desk' = [desk EXCEPT ![k] = i]
  BY DEF TakeAnother
<1>3. PICK i \in DOMAIN vault[k] : desk' = [desk EXCEPT ![k] = i]
  BY <1>2
<1>4. desk \in [Kinds -> Nat] /\ rebuilds \in 0..MaxRebuilds
  BY DEF ChainInv, ChainTypeOK
<1>5. i \in 1..Len(vault[k]) /\ Len(vault[k]) \in Nat
  BY <1>3, Shelf
<1>6. i \in Nat /\ i \in 0..Len(vault[k]) /\ i # 0
  BY <1>5
<1>7. desk' \in [Kinds -> Nat]
  BY <1>3, <1>4, <1>6
<1>8. \A x \in Kinds : /\ desk'[x] \in 0..Len(vault[x])
                       /\ desk'[x] = 0 => vault[x] = <<>>
  BY <1>3, <1>4, <1>6 DEF ChainInv, ChainTypeOK
<1>9. rebuilds' \in 0..MaxRebuilds
  BY <1>1, <1>4, ChainAssumption
<1>10. ChainTypeOK'
  BY <1>1, <1>8, <1>9 DEF ChainInv, ChainTypeOK
<1> QED BY <1>1, <1>7, <1>10, VaultKept

LEMMA InitChainInv == ChainInit => ChainInv
<1> SUFFICES ASSUME ChainInit PROVE ChainInv
  OBVIOUS
<1>1. \A k \in Kinds : vault[k] = <<>> /\ desk[k] = 0
  BY DEF ChainInit
<1>2. <<>> \in Seq({}) /\ DOMAIN <<>> = {} /\ Len(<<>>) = 0
  OBVIOUS
<1>3. \A k \in Kinds : {vault[k][i] : i \in DOMAIN vault[k]} = {}
  BY <1>1, <1>2
<1>4. InOrder(vault)
  BY <1>1, <1>2, <1>3 DEF InOrder
<1>5. Truthful
  BY <1>1, <1>2 DEF Truthful
<1>6. Len(Order) = 26
  BY DEF Order
<1>7. ChainTypeOK
  <2>1. /\ flags \in FlagSets
        /\ disk \in [weights : Weights \cup {None}, tidy : BOOLEAN]
        /\ pos = 1 /\ rebuilds = 0 /\ slips = 0
    BY DEF ChainInit
  <2>2. pos \in 1..27 /\ rebuilds \in 0..MaxRebuilds /\ slips \in 0..MaxSlips
    BY <2>1, ChainAssumption
  <2> HIDE DEF Order
  <2> QED BY <1>1, <1>2, <1>6, <2>1, <2>2 DEF ChainTypeOK
<1>8. desk \in [Kinds -> Nat]
  BY DEF ChainInit
<1> QED BY <1>4, <1>5, <1>7, <1>8 DEF ChainInv

LEMMA ChainStutterKeeps == ChainInv /\ UNCHANGED chainVars => ChainInv'
<1> SUFFICES ASSUME ChainInv, UNCHANGED chainVars PROVE ChainInv'
  OBVIOUS
<1>1. ChainTypeOK'
  BY DEF ChainInv, ChainTypeOK, chainVars
<1> QED BY <1>1, VaultKept DEF ChainInv, chainVars

LEMMA ChainNextKeeps == ChainInv /\ [ChainNext]_chainVars => ChainInv'
  BY TrainingPlain, GatesPlain, RunbookPlain, RunSmokeKeeps, EvidenceKeeps, PromotionKeeps,
     BridgeKeeps, PackageKeeps, LoadingKeeps, SubmissionKeeps, FinalKeeps, GateKeeps,
     OperationsKeeps, GoWithoutKeeps, TakeAnotherKeeps, ChainStutterKeeps DEF ChainNext

-----------------------------------------------------------------------------
\* Every document ever made tells the truth about the documents it names.
THEOREM SpecChainInv == ChainSpec => []ChainInv
  BY InitChainInv, ChainNextKeeps, PTL DEF ChainSpec

\* The vault is sound: a document is filed under its own hash, a hash names one
\* content, and what is on the desk is in the vault.
THEOREM SpecChainTypeOK == ChainSpec => []ChainTypeOK
<1>1. ChainInv => ChainTypeOK
  BY DEF ChainInv
<1> QED BY <1>1, SpecChainInv, PTL

\* A hash in the vault names the document filed under it.
LEMMA NamedIn ==
  ASSUME ChainInv, NEW k \in Kinds, NEW h, In(vault, k, h)
  PROVE  /\ h # None /\ Named(k, h) = vault[k][h] /\ vault[k][h].hash = h
         /\ Says(vault, flags.smoke, k, vault[k][h])
<1>1. h \in Nat
  <2>1. h \in 1..Len(vault[k]) /\ Len(vault[k]) \in Nat
    BY Shelf DEF In
  <2> QED BY <2>1
<1>2. h # None
  BY <1>1, ChainAssumption
<1> QED BY <1>2, Shelf DEF In, Named, ChainInv, Truthful

\* The documents behind a complete evidence bundle are those of one smoke run,
\* whatever was made again in between (adapter_evidence.py).
THEOREM SpecEvidenceIsOneRun == ChainSpec => []EvidenceIsOneRun
<1>1. ChainInv => EvidenceIsOneRun
  <2> SUFFICES ASSUME ChainInv, NEW i \in DOMAIN vault["evidence"], flags.smoke,
                      vault["evidence"][i].complete
               PROVE  LET e        == vault["evidence"][i]
                          report   == Named("adapter", e.report)
                          manifest == Named("training", e.manifest)
                          smoke    == Named("smoke", e.smoke)
                          handoff  == Named("handoff", e.handoff)
                      IN  /\ report.passed /\ report.adapter = e.adapter
                          /\ smoke.trained
                          /\ smoke.manifest = manifest.hash
                          /\ smoke.result = manifest.result
                          /\ smoke.log = manifest.log
                          /\ {manifest.adapter, handoff.adapter} = {e.adapter}
                          /\ handoff.manifest = manifest.hash
    BY DEF EvidenceIsOneRun, Made
  <2> DEFINE e == vault["evidence"][i]
  <2>1. {"adapter", "training", "smoke", "handoff", "evidence"} \subseteq Kinds
    BY KindsNamed
  <2>2. EvidenceSays(vault, flags.smoke, e)
    BY <2>1 DEF ChainInv, Truthful, Says
  <2>3. /\ In(vault, "adapter", e.report) /\ In(vault, "training", e.manifest)
        /\ In(vault, "smoke", e.smoke) /\ In(vault, "handoff", e.handoff)
    BY <2>2 DEF EvidenceSays
  <2>4. /\ Named("adapter", e.report) = vault["adapter"][e.report]
        /\ Named("training", e.manifest) = vault["training"][e.manifest]
        /\ vault["training"][e.manifest].hash = e.manifest
        /\ Named("smoke", e.smoke) = vault["smoke"][e.smoke]
        /\ Named("handoff", e.handoff) = vault["handoff"][e.handoff]
    <3>1. ASSUME NEW k \in Kinds, NEW h, In(vault, k, h)
          PROVE  Named(k, h) = vault[k][h] /\ vault[k][h].hash = h
      BY <3>1, NamedIn
    <3> HIDE DEF e
    <3> QED BY <2>1, <2>3, <3>1
  <2> QED BY <2>2, <2>4 DEF EvidenceSays
<1> QED BY <1>1, SpecChainInv, PTL

\* A ready final rehearsal rests on passed documents all the way down
\* (rehearsal_manifest.py).
THEOREM SpecReadyRestsOnPassed == ChainSpec => []ReadyRestsOnPassed
<1>1. ASSUME ChainInv, NEW h, In(vault, "package", h), vault["package"][h].passed
      PROVE  LET p        == Named("package", h)
                 evidence == Named("evidence", p.evidence)
                 bridge   == Named("bridge", p.bridge)
                 manifest == Named("manifest", p.manifest)
                 promoted == Named("promotion", bridge.promotion)
             IN  /\ evidence.complete
                 /\ manifest.adapter = evidence.adapter
                 /\ manifest.promotion = bridge.promotion
                 /\ promoted.allow
                 /\ Named("exams", promoted.exams).exact
                 /\ Named("evidence", bridge.evidence).complete
                 /\ promoted.adapter = Named("evidence", bridge.evidence).adapter
  <2> DEFINE p        == vault["package"][h]
             bridge   == vault["bridge"][p.bridge]
             promoted == vault["promotion"][bridge.promotion]
  <2>1. {"package", "evidence", "bridge", "manifest", "promotion", "exams"} \subseteq Kinds
    BY KindsNamed
  <2>2. Named("package", h) = p /\ PackageSays(vault, p)
    BY <1>1, <2>1, NamedIn DEF Says
  <2>3. /\ In(vault, "evidence", p.evidence) /\ In(vault, "bridge", p.bridge)
        /\ bridge.allowed /\ vault["evidence"][p.evidence].complete
        /\ In(vault, "manifest", p.manifest)
        /\ vault["manifest"][p.manifest].adapter = vault["evidence"][p.evidence].adapter
        /\ vault["manifest"][p.manifest].promotion = bridge.promotion
    BY <1>1, <2>2 DEF PackageSays
  <2>4. /\ Named("evidence", p.evidence) = vault["evidence"][p.evidence]
        /\ Named("bridge", p.bridge) = bridge /\ BridgeSays(vault, bridge)
        /\ Named("manifest", p.manifest) = vault["manifest"][p.manifest]
    BY <1>1, <2>1, <2>3, NamedIn DEF Says
  <2>5. /\ In(vault, "promotion", bridge.promotion) /\ In(vault, "evidence", bridge.evidence)
        /\ promoted.allow /\ vault["evidence"][bridge.evidence].complete
        /\ promoted.adapter = vault["evidence"][bridge.evidence].adapter
    BY <2>3, <2>4 DEF BridgeSays
  <2>6. /\ Named("promotion", bridge.promotion) = promoted /\ PromotionSays(vault, promoted)
        /\ Named("evidence", bridge.evidence) = vault["evidence"][bridge.evidence]
    <3>1. ASSUME NEW k \in Kinds, NEW g, In(vault, k, g)
          PROVE  Named(k, g) = vault[k][g] /\ Says(vault, flags.smoke, k, vault[k][g])
      BY <1>1, <3>1, NamedIn
    <3>2. Says(vault, flags.smoke, "promotion", promoted)
      BY <2>1, <2>5, <3>1
    <3>3. PromotionSays(vault, promoted)
      BY <3>2 DEF Says
    <3>4. Named("promotion", bridge.promotion) = promoted
      BY <2>1, <2>5, <3>1
    <3>5. Named("evidence", bridge.evidence) = vault["evidence"][bridge.evidence]
      BY <2>1, <2>5, <3>1
    <3> QED BY <3>3, <3>4, <3>5
  <2>7. In(vault, "exams", promoted.exams) /\ vault["exams"][promoted.exams].exact
    BY <2>5, <2>6 DEF PromotionSays
  <2>8. Named("exams", promoted.exams) = vault["exams"][promoted.exams]
    BY <1>1, <2>1, <2>7, NamedIn
  <2>9. /\ Named("package", h) = p /\ Named("bridge", p.bridge) = bridge
        /\ Named("promotion", bridge.promotion) = promoted
    BY <2>2, <2>4, <2>6
  <2> HIDE DEF p, bridge, promoted
  <2>10. LET evidence == Named("evidence", p.evidence)
             manifest == Named("manifest", p.manifest)
         IN  /\ evidence.complete /\ manifest.adapter = evidence.adapter
             /\ manifest.promotion = bridge.promotion
    BY <2>3, <2>4
  <2>11. /\ promoted.allow /\ Named("exams", promoted.exams).exact
         /\ Named("evidence", bridge.evidence).complete
         /\ promoted.adapter = Named("evidence", bridge.evidence).adapter
    BY <2>5, <2>6, <2>7, <2>8
  <2> QED BY <2>9, <2>10, <2>11
<1>2. ASSUME ChainInv, NEW i \in DOMAIN vault["final"], vault["final"][i].ready
      PROVE  LET r == vault["final"][i]
             IN  \E a, b, c : /\ Named("package", r.package) = Named("package", a)
                              /\ Named("package", Named("loading", r.loading).package) = Named("package", b)
                              /\ Named("package", Named("submission", r.submission).package) = Named("package", c)
                              /\ \A h \in {a, b, c} : In(vault, "package", h) /\ vault["package"][h].passed
  <2> DEFINE r == vault["final"][i]
             loading == vault["loading"][r.loading]
             submission == vault["submission"][r.submission]
  <2>1. {"package", "loading", "submission", "final"} \subseteq Kinds
    BY KindsNamed
  <2>2. FinalSays(vault, r)
    BY <1>2, <2>1 DEF ChainInv, Truthful, Says
  <2>3. /\ In(vault, "package", r.package) /\ vault["package"][r.package].passed
        /\ In(vault, "loading", r.loading) /\ loading.passed
        /\ In(vault, "submission", r.submission) /\ submission.passed
    BY <1>2, <2>2 DEF FinalSays
  <2>4. /\ Named("loading", r.loading) = loading /\ LoadingSays(vault, loading)
        /\ Named("submission", r.submission) = submission /\ LoadingSays(vault, submission)
    BY <1>2, <2>1, <2>3, NamedIn DEF Says
  <2>5. /\ In(vault, "package", loading.package) /\ vault["package"][loading.package].passed
        /\ In(vault, "package", submission.package) /\ vault["package"][submission.package].passed
    BY <2>3, <2>4 DEF LoadingSays
  <2>6. \A h \in {r.package, loading.package, submission.package} :
          In(vault, "package", h) /\ vault["package"][h].passed
    BY <2>3, <2>5
  <2> HIDE DEF r, loading, submission
  <2>7. \E a, b, c : /\ Named("package", r.package) = Named("package", a)
                     /\ Named("package", Named("loading", r.loading).package) = Named("package", b)
                     /\ Named("package", Named("submission", r.submission).package) = Named("package", c)
                     /\ \A h \in {a, b, c} : In(vault, "package", h) /\ vault["package"][h].passed
    <3> WITNESS r.package, loading.package, submission.package
    <3> QED BY <2>4, <2>6
  <2> QED BY <2>7 DEF r
<1>3. ChainInv => ReadyRestsOnPassed
  BY <1>1, <1>2 DEF ReadyRestsOnPassed, Made
<1> QED BY <1>3, SpecChainInv, PTL

\* A ready operations manifest is one chain: approval, reproducibility manifest,
\* gate, checklist and pinned rehearsal are for one configuration and about each
\* other (final_operations_manifest.py).
THEOREM SpecReadyIsOneChain == ChainSpec => []ReadyIsOneChain
<1>1. ChainInv => ReadyIsOneChain
  <2> SUFFICES ASSUME ChainInv, NEW i \in DOMAIN vault["operations"], vault["operations"][i].ready
               PROVE  LET o        == vault["operations"][i]
                          gate     == Named("gate", o.gate)
                          repro    == Named("repro", o.repro)
                          approval == Named("approval", o.approval)
                          config   == Named("config", o.config)
                      IN  /\ repro.gate = o.gate
                          /\ approval.gate = o.gate /\ approval.repro = o.repro
                          /\ {gate.config, repro.config, approval.config} = {o.config}
                          /\ Named("list", o.list).checked /\ gate.list = o.list
                          /\ ~gate.failed
                          /\ config.needFinal \/ config.needLock =>
                               gate.final = config.pins /\ Named("final", config.pins).ready
                          /\ gate.release # None => Named("release", gate.release).ready
                          /\ o.record # None => Named("record", o.record).approval = o.approval
    BY DEF ReadyIsOneChain, Made
  <2> DEFINE o        == vault["operations"][i]
             gate     == vault["gate"][o.gate]
             config   == vault["config"][o.config]
  <2>1. {"operations", "gate", "repro", "approval", "config", "list", "final", "release", "record"}
          \subseteq Kinds
    BY KindsNamed
  <2>2. OperationsSays(vault, o)
    BY <2>1 DEF ChainInv, Truthful, Says
  <2>3. /\ In(vault, "gate", o.gate) /\ In(vault, "repro", o.repro)
        /\ In(vault, "approval", o.approval) /\ In(vault, "config", o.config)
        /\ In(vault, "list", o.list)
        /\ gate.config = o.config /\ gate.list = o.list /\ ~gate.blocked
    BY <2>2 DEF OperationsSays
  <2>4. /\ Named("gate", o.gate) = gate /\ GateSays(vault, gate)
        /\ Named("repro", o.repro) = vault["repro"][o.repro]
        /\ Named("approval", o.approval) = vault["approval"][o.approval]
        /\ Named("config", o.config) = config
        /\ Named("list", o.list) = vault["list"][o.list]
    BY <2>1, <2>3, NamedIn DEF Says
  <2>5. /\ vault["list"][o.list].checked /\ ~gate.failed
        /\ config.needFinal \/ config.needLock =>
             gate.final = config.pins /\ In(vault, "final", gate.final) /\ vault["final"][gate.final].ready
        /\ gate.release # None => In(vault, "release", gate.release) /\ vault["release"][gate.release].ready
    BY <2>3, <2>4 DEF GateSays
  <2>6. \A h : In(vault, "final", h) => Named("final", h) = vault["final"][h]
    BY <2>1, NamedIn
  <2>7. \A h : In(vault, "release", h) => Named("release", h) = vault["release"][h]
    BY <2>1, NamedIn
  <2>8. \A h : In(vault, "record", h) => Named("record", h) = vault["record"][h]
    BY <2>1, NamedIn
  <2>9. config.needFinal \/ config.needLock =>
          gate.final = config.pins /\ Named("final", config.pins).ready
    BY <2>5, <2>6
  <2>10. gate.release # None => Named("release", gate.release).ready
    BY <2>5, <2>7
  <2>11. o.record # None => Named("record", o.record).approval = o.approval
    BY <2>2, <2>8 DEF OperationsSays
  <2> HIDE DEF gate, config
  <2>12. LET repro    == vault["repro"][o.repro]
             approval == vault["approval"][o.approval]
         IN  /\ repro.gate = o.gate /\ approval.gate = o.gate /\ approval.repro = o.repro
             /\ gate.config = o.config /\ repro.config = o.config /\ approval.config = o.config
    BY <2>2 DEF OperationsSays, gate
  <2> HIDE DEF o
  <2>13. Named("list", o.list).checked /\ gate.list = o.list /\ ~gate.failed
    BY <2>3, <2>4, <2>5
  <2>14. LET repro    == Named("repro", o.repro)
             approval == Named("approval", o.approval)
         IN  /\ repro.gate = o.gate /\ approval.gate = o.gate /\ approval.repro = o.repro
             /\ {gate.config, repro.config, approval.config} = {o.config}
    BY <2>4, <2>12
  <2>15. Named("gate", o.gate) = gate /\ Named("config", o.config) = config
    BY <2>4
  <2> QED BY <2>9, <2>10, <2>11, <2>13, <2>14, <2>15 DEF o
<1> QED BY <1>1, SpecChainInv, PTL

-----------------------------------------------------------------------------
(***************************************************************************)
(* The stages on kaggle.                                                   *)
(***************************************************************************)
Steps == {"idle", "validate", "calibrate", "refresh", "tokens", "check_tokens", "train",
          "check_adapter", "confirm", "eval", "check_summary", "judge", "sum_up"}
Commands == [at : Steps, by : {"nobody", "orchestrator", "hand"}]

(* Files are as they were written, or cannot be read. *)
TypeOK ==
  /\ exp \in Experiments
  /\ gates \in [Stages -> Gates \cup Unreadable]
  /\ tokens \in TokenFiles
  /\ adapter \in Adapters \cup Unreadable
  /\ summary \in Evaluations \cup Unreadable
  /\ proc \in Commands
  /\ handed \subseteq Stages

(* The gate that a command of the orchestrator was started on still passes    *)
(* while it is at work, and only such a command gets beyond the scripts.      *)
StartedOn ==
  /\ proc.by = "orchestrator" =>
       /\ proc.at \in {"calibrate", "refresh", "tokens", "check_tokens"} => Passed("validate")
       /\ proc.at \in {"train", "check_adapter", "confirm"} => Passed("prepare")
       /\ proc.at \in {"eval", "check_summary", "judge"} => Passed("train")
       /\ proc.at = "sum_up" => Passed("eval") /\ exp = "micro"
  /\ proc.at \in {"validate", "refresh", "check_tokens", "confirm", "judge", "sum_up"}
       => proc.by = "orchestrator"
  /\ proc.at # "idle" => proc.by # "nobody"

(* What a command has just written is there when it looks at it, and a        *)
(* summary it looks at is of the adapter on disk.                             *)
Written ==
  /\ proc.at \in {"check_adapter", "confirm"} => adapter \in Adapters
  /\ proc.at \in {"check_summary", "judge"} =>
       summary \in Evaluations /\ adapter \in Adapters /\ summary.of = adapter.run
  /\ proc.at = "judge" => summary.healthy

(* Only the micro experiment has a micro gate, and its evaluation is passed   *)
(* by every judgement.                                                        *)
MicroOnly ==
  /\ gates["micro_gate"] # Missing => exp = "micro"
  /\ exp = "micro" /\ gates["eval"] \in Gates => gates["eval"].decision = "PASS"

(* An evaluation in a gate is one of well-formed answers by an adapter of     *)
(* masked rows.                                                               *)
SoundEval(gate) == gate.says \in Evaluations /\ gate.says.healthy /\ gate.says.masked
EvalGateSound == gates["eval"] \in Gates => SoundEval(gates["eval"])

IInv == /\ TypeOK /\ StartedOn /\ Written /\ MicroOnly /\ EvalGateSound
        /\ GatesChained /\ TrainedMasked

-----------------------------------------------------------------------------
(* A file written whole is told from one that is not there or torn. *)
LEMMA Reading ==
  /\ \A gate \in Gates : Readable(gate)
  /\ \A a \in Adapters : Readable(a)
  /\ \A result \in Evaluations : Readable(result)
  /\ ~Readable(Missing) /\ ~Readable(Torn)
BY FilesAssumption DEF Readable, Unreadable

(* A gate that passes is one that was written. *)
LEMMA PassedIsWritten ==
  ASSUME TypeOK, NEW s \in Stages
  PROVE  /\ Readable(gates[s]) => gates[s] \in Gates
         /\ Passed(s) <=> gates[s] \in Gates /\ gates[s].decision = "PASS"
<1>1. gates[s] \in Gates \cup Unreadable
  BY DEF TypeOK
<1> QED BY <1>1, Reading DEF Passed, Readable

(* The stages that have one before them, and all those before. *)
LEMMA Predecessors ==
  /\ DOMAIN Previous = {"prepare", "train", "eval", "micro_gate"}
  /\ Previous["prepare"] = "validate" /\ Previous["train"] = "prepare"
  /\ Previous["eval"] = "train" /\ Previous["micro_gate"] = "eval"
  /\ Earlier["validate"] = {} /\ Earlier["prepare"] = {"validate"}
  /\ Earlier["train"] = {"validate", "prepare"}
  /\ Earlier["eval"] = {"validate", "prepare", "train"}
  /\ Earlier["micro_gate"] = {"validate", "prepare", "train", "eval"}
BY DEF Previous, Earlier

(* All the stages before one are the previous one and those before it. *)
LEMMA EarlierStages ==
  ASSUME NEW s \in Stages
  PROVE  /\ Earlier[s] \subseteq Stages \ {s}
         /\ s = "validate" => Earlier[s] = {}
         /\ s # "validate" => /\ s \in DOMAIN Previous /\ Previous[s] \in Stages
                             /\ Earlier[s] = {Previous[s]} \cup Earlier[Previous[s]]
         /\ "micro_gate" \notin Earlier[s]
         /\ "eval" \in Earlier[s] => s = "micro_gate"
<1>1. CASE s \in {"validate", "prepare"}
  BY <1>1, Predecessors DEF Stages
<1>2. CASE s = "train"
  BY <1>2, Predecessors DEF Stages
<1>3. CASE s \in {"eval", "micro_gate"}
  BY <1>3, Predecessors DEF Stages
<1> QED BY <1>1, <1>2, <1>3 DEF Stages

(* A command is at the next step of its work, or has ended. *)
LEMMA Going ==
  ASSUME proc \in Commands, GoOn
  PROVE  /\ proc' \in Commands
         /\ \/ proc'.at = "idle"
            \/ /\ proc'.by = proc.by /\ (proc.by = "hand" => proc.at \notin ByHandEnds)
               /\ \/ proc.at = "calibrate" /\ proc'.at = "refresh"
                  \/ proc.at = "refresh" /\ proc'.at = "tokens"
                  \/ proc.at = "tokens" /\ proc'.at = "check_tokens"
                  \/ proc.at = "train" /\ proc'.at = "check_adapter"
                  \/ proc.at = "check_adapter" /\ proc'.at = "confirm"
                  \/ proc.at = "eval" /\ proc'.at = "check_summary"
                  \/ proc.at = "check_summary" /\ proc'.at = "judge"
<1>1. DOMAIN Following = {"calibrate", "refresh", "tokens", "train", "check_adapter", "eval",
                          "check_summary"}
  BY DEF Following
<1>2. /\ Following["calibrate"] = "refresh" /\ Following["refresh"] = "tokens"
      /\ Following["tokens"] = "check_tokens" /\ Following["train"] = "check_adapter"
      /\ Following["check_adapter"] = "confirm" /\ Following["eval"] = "check_summary"
      /\ Following["check_summary"] = "judge"
  BY DEF Following
<1>3. CASE proc' = Idle
  BY <1>3 DEF Idle, Commands, Steps
<1>4. CASE proc' # Idle
  <2>1. /\ proc.at \in DOMAIN Following /\ (proc.by = "hand" => proc.at \notin ByHandEnds)
        /\ proc' = [proc EXCEPT !.at = Following[proc.at]]
    BY <1>4 DEF GoOn
  <2>2. proc'.at = Following[proc.at] /\ proc'.by = proc.by
    BY <2>1 DEF Commands
  <2>3. Following[proc.at] \in Steps
    BY <1>1, <1>2, <2>1 DEF Steps
  <2>4. proc' \in Commands
    BY <2>1, <2>3 DEF Commands
  <2> QED BY <1>1, <1>2, <2>1, <2>2, <2>4
<1> QED BY <1>3, <1>4

(* A command that has ended expects nothing. *)
LEMMA Ended ==
  ASSUME proc' = Idle
  PROVE  proc' \in Commands /\ StartedOn' /\ Written'
BY DEF Idle, Commands, Steps, StartedOn, Written

LEMMA EndedAt ==
  ASSUME proc'.at = "idle"
  PROVE  StartedOn' /\ Written'
BY DEF StartedOn, Written

(* The gates as they are keep what is said of them. *)
LEMMA GatesKept ==
  ASSUME IInv, UNCHANGED <<exp, gates, handed>>
  PROVE  /\ MicroOnly' /\ EvalGateSound' /\ GatesChained'
         /\ exp' \in Experiments /\ gates' \in [Stages -> Gates \cup Unreadable]
BY DEF IInv, TypeOK, MicroOnly, EvalGateSound, GatesChained, Passed, Readable

(* Of two stages above one another the lower is above whatever is below it.   *)
LEMMA EarlierYet ==
  ASSUME NEW s \in Stages, NEW t \in Earlier[s], NEW u \in Earlier[t]
  PROVE  u \in Earlier[s]
<1>1. CASE s \in {"validate", "prepare"}
  BY <1>1, Predecessors DEF Stages
<1>2. CASE s = "train"
  BY <1>2, Predecessors DEF Stages
<1>3. CASE s = "eval"
  BY <1>3, Predecessors DEF Stages
<1>4. CASE s = "micro_gate"
  BY <1>4, Predecessors DEF Stages
<1> QED BY <1>1, <1>2, <1>3, <1>4 DEF Stages

(* What a gate written, or torn in writing, has to be for the chain of gates  *)
(* to stay as it should: the chain from a stage above it goes on, through the *)
(* gate on which it was written, unless it was written by hand.               *)
LEMMA ChainKept ==
  ASSUME IInv, exp' = exp, NEW stage \in Stages, NEW gate, LeaveGate(stage, gate),
         proc.by = "hand" \/ (stage # "validate" => Passed(Previous[stage])),
         \/ gate = Torn \/ stage = "micro_gate" \/ (stage = "eval" /\ exp # "micro")
         \/ Readable(gate) /\ gate.decision = "PASS"
  PROVE  GatesChained'
<1>1. gates'[stage] = gate /\ \A s \in Stages : s # stage => gates'[s] = gates[s]
  BY DEF IInv, TypeOK, LeaveGate
<1>2. /\ \A u : u # stage => (u \in handed' <=> u \in handed)
      /\ stage \in handed' \/ (stage # "validate" => Passed(Previous[stage]))
  BY DEF LeaveGate
<1> SUFFICES ASSUME NEW s \in Stages, NEW t \in Earlier[s], gates'[s] # Missing,
                    handed' \cap Above(t, s) = {}
             PROVE  gates'[t] = Torn \/ Passed(t)'
  BY DEF GatesChained, Above
<1>3. t \in Stages /\ t # s /\ s \in Above(t, s)
  BY EarlierStages DEF Above
<1>4. CASE t = stage
  <2>1. stage # "micro_gate"
    BY <1>4, EarlierStages
  <2>2. ~(stage = "eval" /\ exp # "micro")
    <3> SUFFICES ASSUME stage = "eval", exp # "micro" PROVE FALSE
      OBVIOUS
    <3>1. s = "micro_gate" /\ s # stage
      BY <1>3, <1>4, EarlierStages
    <3>2. gates[s] = Missing
      BY <3>1 DEF IInv, MicroOnly
    <3> QED BY <1>1, <3>1, <3>2
  <2> QED BY <1>1, <1>4, <2>1, <2>2 DEF Passed, Readable
<1>5. CASE t # stage
  <2>1. gates'[t] = gates[t]
    BY <1>1, <1>3, <1>5
  <2>2. gates[t] = Torn \/ Passed(t)
    <3>1. CASE stage \notin Above(t, s)
      <4>1. s # stage /\ handed \cap Above(t, s) = {}
        BY <1>2, <1>3, <3>1
      <4>2. gates[s] # Missing
        BY <1>1, <4>1
      <4> QED BY <4>1, <4>2 DEF IInv, GatesChained
    <3>2. CASE stage \in Above(t, s)
      <4> DEFINE previous == Previous[stage]
      <4>1. /\ t \in Earlier[stage] /\ (stage = s \/ stage \in Earlier[s]) /\ stage \notin handed'
        BY <3>2 DEF Above
      <4>2. stage # "validate"
        BY <4>1, EarlierStages
      <4>3. /\ previous \in Stages /\ Earlier[stage] = {previous} \cup Earlier[previous]
            /\ stage \notin Earlier[stage]
        BY <4>2, EarlierStages
      <4>4. Passed(previous)
        BY <1>2, <4>1, <4>2
      <4> HIDE DEF previous
      <4>5. gates[previous] # Missing
        BY <4>4, Reading DEF Passed
      <4>6. ASSUME t \in Earlier[previous]
            PROVE  handed \cap Above(t, previous) = {}
        <5> SUFFICES ASSUME NEW u \in Above(t, previous) PROVE u \notin handed
          OBVIOUS
        <5>1. u \in Earlier[stage] /\ t \in Earlier[u]
          BY <4>3 DEF Above
        <5>2. u \in Earlier[s]
          BY <4>1, <5>1, EarlierYet
        <5>3. u \in Above(t, s) /\ u # stage
          BY <4>3, <5>1, <5>2 DEF Above
        <5> QED BY <1>2, <5>3
      <4>7. CASE t = previous
        BY <4>4, <4>7
      <4>8. CASE t \in Earlier[previous]
        BY <4>3, <4>5, <4>6, <4>8 DEF IInv, GatesChained
      <4> QED BY <4>1, <4>3, <4>7, <4>8
    <3> QED BY <3>1, <3>2
  <2> QED BY <2>1, <2>2 DEF Passed, Readable
<1> QED BY <1>4, <1>5

(* What a written gate has to be for the rest to stay as it should.           *)
LEMMA GateWritten ==
  ASSUME IInv, NEW stage \in Stages, NEW gate \in Gates, WriteGate(stage, gate),
         StartedOn', Written',
         stage = "micro_gate" => exp = "micro",
         gate.decision = "PASS" \/ stage = "micro_gate" \/ (stage = "eval" /\ exp # "micro"),
         proc.by = "hand" \/ (stage # "validate" => Passed(Previous[stage])),
         stage = "eval" => SoundEval(gate)
  PROVE  IInv'
<1>1. /\ TypeOK /\ UNCHANGED <<exp, parent, tokens, adapter, summary>> /\ GoOn
      /\ gates' = [gates EXCEPT ![stage] = gate] /\ handed' \subseteq Stages
      /\ LeaveGate(stage, gate)
  BY DEF IInv, TypeOK, WriteGate, LeaveGate
<1>2. /\ gates' \in [Stages -> Gates \cup Unreadable] /\ gates'[stage] = gate
      /\ \A s \in Stages : s # stage => gates'[s] = gates[s]
  BY <1>1 DEF TypeOK
<1>3. TypeOK'
  BY <1>1, <1>2, Going DEF TypeOK
<1>4. "eval" \in Stages /\ "micro_gate" \in Stages
  BY DEF Stages
<1>5. MicroOnly'
  BY <1>1, <1>2, <1>4 DEF IInv, MicroOnly
<1>6. EvalGateSound'
  BY <1>1, <1>2, <1>4 DEF IInv, EvalGateSound, SoundEval
<1>7. GatesChained'
  BY <1>1, Reading, ChainKept
<1>8. TrainedMasked'
  BY <1>1 DEF IInv, TrainedMasked, Readable
<1> QED BY <1>3, <1>5, <1>6, <1>7, <1>8 DEF IInv

-----------------------------------------------------------------------------
(* The commands are started. *)
LEMMA StartKeeps == IInv /\ Start => IInv'
<1> SUFFICES ASSUME IInv, Start PROVE IInv'
  OBVIOUS
<1>1. UNCHANGED <<exp, parent, gates, tokens, adapter, summary, handed>>
  BY DEF Start, files
<1>2. PICK stage \in StagesOf(exp) :
        Allowed(stage) /\ proc' = [at |-> Begins(exp)[stage], by |-> "orchestrator"]
  BY DEF Start
<1>3. stage \in Stages /\ (stage = "micro_gate" => exp = "micro")
  BY <1>2 DEF StagesOf, Stages
<1>4. /\ stage = "validate" => proc'.at = "validate"
      /\ stage = "prepare" => proc'.at \in {"calibrate", "refresh"} /\ Passed("validate")
      /\ stage = "train" => proc'.at = "train" /\ Passed("prepare")
      /\ stage = "eval" => proc'.at = "eval" /\ Passed("train")
      /\ stage = "micro_gate" => proc'.at = "sum_up" /\ Passed("eval")
      /\ proc'.by = "orchestrator" /\ proc' = [at |-> proc'.at, by |-> "orchestrator"]
  BY <1>2, Predecessors DEF Begins, Allowed
<1>5. proc' \in Commands
  BY <1>3, <1>4 DEF Stages, Commands, Steps
<1>6. StartedOn'
  BY <1>1, <1>3, <1>4 DEF StartedOn, Stages, Passed, Readable
<1>7. Written'
  BY <1>1, <1>3, <1>4 DEF Written, Stages
<1>8. TypeOK' /\ TrainedMasked'
  BY <1>1, <1>5 DEF IInv, TypeOK, TrainedMasked, Readable
<1> QED BY <1>1, <1>6, <1>7, <1>8, GatesKept DEF IInv

LEMMA StartByHandKeeps == IInv /\ StartByHand => IInv'
<1> SUFFICES ASSUME IInv, StartByHand PROVE IInv'
  OBVIOUS
<1>1. UNCHANGED <<exp, parent, gates, tokens, adapter, summary, handed>>
  BY DEF StartByHand, files
<1>2. PICK step \in Scripts(exp) : proc' = [at |-> step, by |-> "hand"]
  BY DEF StartByHand
<1>3. step \in {"tokens", "train", "eval", "calibrate"} /\ proc'.at = step /\ proc'.by = "hand"
  BY <1>2 DEF Scripts
<1>4. proc' \in Commands /\ StartedOn' /\ Written'
  BY <1>1, <1>2, <1>3 DEF Commands, Steps, StartedOn, Written
<1>5. TypeOK' /\ TrainedMasked'
  BY <1>1, <1>4 DEF IInv, TypeOK, TrainedMasked, Readable
<1> QED BY <1>1, <1>4, <1>5, GatesKept DEF IInv

(* A step of a command that writes no gate and goes on or ends.               *)
LEMMA CalibrateKeeps == IInv /\ Calibrate => IInv'
<1> SUFFICES ASSUME IInv, Calibrate PROVE IInv'
  OBVIOUS
<1>1. /\ proc.at = "calibrate" /\ (GoOn \/ Stop) /\ UNCHANGED <<exp, gates, tokens, adapter, summary, handed>>
      /\ proc \in Commands
  BY DEF Calibrate, At, IInv, TypeOK
<1>2. proc' \in Commands /\ StartedOn' /\ Written'
  <2>1. CASE Stop
    BY <2>1, Ended DEF Stop
  <2>2. CASE GoOn
    <3>1. proc' \in Commands /\ (proc'.at = "idle" \/ (proc'.at = "refresh" /\ proc'.by = proc.by /\ proc.by # "hand"))
      BY <1>1, <2>2, Going DEF ByHandEnds
    <3>2. CASE proc'.at = "idle"
      BY <3>1, <3>2, EndedAt
    <3>3. CASE proc'.at = "refresh" /\ proc'.by = proc.by /\ proc.by # "hand"
      <4>1. proc.by = "orchestrator" /\ Passed("validate")
        BY <1>1, <3>3 DEF IInv, StartedOn, Commands
      <4> QED BY <1>1, <3>1, <3>3, <4>1 DEF StartedOn, Written, Passed, Readable
    <3> QED BY <3>1, <3>2, <3>3
  <2> QED BY <1>1, <2>1, <2>2
<1>3. TypeOK' /\ TrainedMasked'
  BY <1>1, <1>2 DEF IInv, TypeOK, TrainedMasked, Readable
<1> QED BY <1>1, <1>2, <1>3, GatesKept DEF IInv

LEMMA MakeTokensKeeps == IInv /\ MakeTokens => IInv'
<1> SUFFICES ASSUME IInv, MakeTokens PROVE IInv'
  OBVIOUS
<1>1. /\ proc.at = "tokens" /\ (GoOn \/ Stop) /\ UNCHANGED <<exp, parent, gates, adapter, summary, handed>>
      /\ tokens' \in TokenFiles /\ proc \in Commands
  BY DEF MakeTokens, At, IInv, TypeOK
<1>2. proc' \in Commands /\ StartedOn' /\ Written'
  <2>1. CASE Stop
    BY <2>1, Ended DEF Stop
  <2>2. CASE GoOn
    <3>1. proc' \in Commands /\ (proc'.at = "idle" \/ (proc'.at = "check_tokens" /\ proc'.by = proc.by /\ proc.by # "hand"))
      BY <1>1, <2>2, Going DEF ByHandEnds
    <3>2. CASE proc'.at = "idle"
      BY <3>1, <3>2, EndedAt
    <3>3. CASE proc'.at = "check_tokens" /\ proc'.by = proc.by /\ proc.by # "hand"
      <4>1. proc.by = "orchestrator" /\ Passed("validate")
        BY <1>1, <3>3 DEF IInv, StartedOn, Commands
      <4> QED BY <1>1, <3>1, <3>3, <4>1 DEF StartedOn, Written, Passed, Readable
    <3> QED BY <3>1, <3>2, <3>3
  <2> QED BY <1>1, <2>1, <2>2
<1>3. TypeOK' /\ TrainedMasked'
  BY <1>1, <1>2 DEF IInv, TypeOK, TrainedMasked, Readable
<1> QED BY <1>1, <1>2, <1>3, GatesKept DEF IInv

LEMMA TrainKeeps == IInv /\ Train => IInv'
<1> SUFFICES ASSUME IInv, Train PROVE IInv'
  OBVIOUS
<1>1. /\ proc.at = "train" /\ (GoOn \/ Stop) /\ UNCHANGED <<exp, parent, gates, tokens, summary, handed>>
      /\ Trainable(tokens) /\ proc \in Commands
  BY DEF Train, At, IInv, TypeOK
<1>2. PICK run \in Trainings, wide \in Ranks :
        adapter' = [run |-> run, masked |-> tokens # "unmasked", wide |-> wide]
  BY DEF Train
<1>3. Ranks \subseteq BOOLEAN
  <2>1. \A a \in {adapter} \ Unreadable : a.wide \in BOOLEAN
    BY DEF IInv, TypeOK, Adapters
  <2> QED BY <2>1, Zenon DEF Ranks
<1>4. adapter' \in Adapters /\ adapter'.masked
  <2>1. tokens # "unmasked"
    BY <1>1 DEF Trainable
  <2> QED BY <1>2, <1>3, <2>1 DEF Adapters
<1>5. proc' \in Commands /\ StartedOn' /\ Written'
  <2>1. CASE Stop
    BY <2>1, Ended DEF Stop
  <2>2. CASE GoOn
    <3>1. proc' \in Commands /\ (proc'.at = "idle" \/ (proc'.at = "check_adapter" /\ proc'.by = proc.by))
      BY <1>1, <2>2, Going
    <3>2. CASE proc'.at = "idle"
      BY <3>1, <3>2, EndedAt
    <3>3. CASE proc'.at = "check_adapter" /\ proc'.by = proc.by
      BY <1>1, <1>4, <3>1, <3>3 DEF IInv, StartedOn, Written, Passed, Readable
    <3> QED BY <3>1, <3>2, <3>3
  <2> QED BY <1>1, <2>1, <2>2
<1>6. TypeOK'
  BY <1>1, <1>4, <1>5 DEF IInv, TypeOK
<1>7. TrainedMasked'
  BY <1>1, <1>4 DEF IInv, TrainedMasked, Readable
<1> QED BY <1>1, <1>5, <1>6, <1>7, GatesKept DEF IInv

LEMMA EvalKeeps == IInv /\ Eval => IInv'
<1> SUFFICES ASSUME IInv, Eval PROVE IInv'
  OBVIOUS
<1>1. /\ proc.at = "eval" /\ GoOn /\ UNCHANGED <<exp, parent, gates, tokens, adapter, handed>>
      /\ Readable(adapter) /\ proc \in Commands
  BY DEF Eval, At, IInv, TypeOK
<1>2. /\ summary' \in Evaluations /\ summary'.masked = adapter.masked /\ summary'.of = adapter.run
      /\ adapter \in Adapters
  BY <1>1 DEF Eval, IInv, TypeOK, Readable
<1>3. TrainedMasked'
  BY <1>1, <1>2 DEF IInv, TrainedMasked, Readable
<1>4. proc' \in Commands /\ (proc'.at = "idle" \/ (proc'.at = "check_summary" /\ proc'.by = proc.by))
  BY <1>1, Going
<1>5. StartedOn' /\ Written'
  <2>1. CASE proc'.at = "idle"
    BY <2>1, EndedAt
  <2>2. CASE proc'.at = "check_summary" /\ proc'.by = proc.by
    BY <1>1, <1>2, <1>4, <2>2 DEF IInv, StartedOn, Written, Passed, Readable
  <2> QED BY <1>4, <2>1, <2>2
<1>6. TypeOK'
  BY <1>1, <1>2, <1>4 DEF IInv, TypeOK
<1> QED BY <1>1, <1>3, <1>5, <1>6, GatesKept DEF IInv

(* A command raises, or the machine is lost.                                  *)
LEMMA RaisesKeeps == IInv /\ Raises => IInv'
<1> SUFFICES ASSUME IInv, Raises PROVE IInv'
  OBVIOUS
<1>1. UNCHANGED <<exp, parent, gates, tokens, adapter, summary, handed>> /\ proc' = Idle
  BY DEF Raises, Raise, files, Stop
<1>2. TypeOK' /\ TrainedMasked'
  BY <1>1, Ended DEF IInv, TypeOK, TrainedMasked, Readable
<1> QED BY <1>1, <1>2, Ended, GatesKept DEF IInv

(* A gate that is torn is not one that passes. *)
LEMMA GateTorn ==
  ASSUME IInv, exp' = exp, NEW stage \in Stages,
         stage = "micro_gate" => exp = "micro",
         proc.by = "hand" \/ (stage # "validate" => Passed(Previous[stage])),
         LeaveGate(stage, Torn)
  PROVE  /\ MicroOnly' /\ EvalGateSound' /\ GatesChained' /\ handed' \subseteq Stages
         /\ gates' \in [Stages -> Gates \cup Unreadable]
<1>1. /\ gates' \in [Stages -> Gates \cup Unreadable] /\ gates'[stage] = Torn
      /\ \A s \in Stages : s # stage => gates'[s] = gates[s]
  BY DEF IInv, TypeOK, Unreadable, LeaveGate
<1>2. "eval" \in Stages /\ "micro_gate" \in Stages /\ Torn \notin Gates
  BY Reading DEF Stages
<1>3. MicroOnly' /\ EvalGateSound'
  BY <1>1, <1>2 DEF IInv, MicroOnly, EvalGateSound, SoundEval
<1>4. GatesChained'
  BY ChainKept
<1>5. handed' \subseteq Stages
  BY DEF IInv, TypeOK, LeaveGate
<1> QED BY <1>1, <1>3, <1>4, <1>5

(* The gate a command is about to write. *)
GateAhead(step, stage) ==
  \/ stage = "validate" /\ step \in {"validate", "refresh"}
  \/ stage = "prepare" /\ step = "check_tokens"
  \/ stage = "train" /\ step \in {"check_adapter", "confirm"}
  \/ stage = "eval" /\ step \in {"check_summary", "judge"}
  \/ stage = "micro_gate" /\ step = "sum_up"

LEMMA WritingGates ==
  ASSUME proc.at \in DOMAIN WritesGate
  PROVE  GateAhead(proc.at, WritesGate[proc.at])
<1>1. /\ DOMAIN WritesGate = {"validate", "refresh", "check_tokens", "check_adapter", "confirm",
                              "check_summary", "judge", "sum_up"}
      /\ WritesGate["validate"] = "validate" /\ WritesGate["refresh"] = "validate"
      /\ WritesGate["check_tokens"] = "prepare" /\ WritesGate["check_adapter"] = "train"
      /\ WritesGate["confirm"] = "train" /\ WritesGate["check_summary"] = "eval"
      /\ WritesGate["judge"] = "eval" /\ WritesGate["sum_up"] = "micro_gate"
  BY DEF WritesGate
<1> QED BY <1>1 DEF GateAhead

(* The gate before the one that a command of the orchestrator is about to     *)
(* write passes; the others were started by hand.                             *)
LEMMA Writing ==
  ASSUME IInv, NEW stage, GateAhead(proc.at, stage)
  PROVE  /\ stage = "micro_gate" => exp = "micro"
         /\ proc.by = "hand" \/ (stage # "validate" => Passed(Previous[stage]))
<1>1. proc.by \in {"orchestrator", "hand"}
  BY DEF IInv, TypeOK, Commands, StartedOn, GateAhead
<1>2. stage = "micro_gate" => exp = "micro"
  BY DEF IInv, StartedOn, GateAhead
<1>3. proc.by = "orchestrator" /\ stage # "validate" => Passed(Previous[stage])
  BY Predecessors DEF IInv, StartedOn, GateAhead
<1> QED BY <1>1, <1>2, <1>3

LEMMA LostKeeps == IInv /\ Lost => IInv'
<1> SUFFICES ASSUME IInv, Lost PROVE IInv'
  OBVIOUS
<1>1. proc' = Idle /\ exp' = exp /\ exp \in Experiments
  BY DEF Lost, Stop, IInv, TypeOK
<1>2. CASE gates' = gates /\ handed' = handed
  <2>1. /\ tokens' \in TokenFiles
        /\ adapter' = adapter \/ adapter' = Torn
        /\ summary' = summary \/ summary' = Torn
    BY <1>2 DEF Lost, IInv, TypeOK
  <2>2. TypeOK'
    BY <1>1, <1>2, <2>1, Ended DEF IInv, TypeOK, Unreadable
  <2>3. TrainedMasked'
    BY <2>1, Reading DEF IInv, TrainedMasked, Readable
  <2> QED BY <1>1, <1>2, <2>2, <2>3, Ended, GatesKept DEF IInv
<1>3. CASE /\ proc.at \in DOMAIN WritesGate
           /\ LeaveGate(WritesGate[proc.at], Torn)
           /\ UNCHANGED <<parent, tokens, adapter, summary>>
  <2> DEFINE stage == WritesGate[proc.at]
  <2>1. GateAhead(proc.at, stage)
    BY <1>3, WritingGates
  <2>2. stage \in Stages
    BY <2>1 DEF GateAhead, Stages
  <2>3. /\ stage = "micro_gate" => exp = "micro"
        /\ proc.by = "hand" \/ (stage # "validate" => Passed(Previous[stage]))
    BY <2>1, Writing
  <2>4. LeaveGate(stage, Torn)
    BY <1>3
  <2> HIDE DEF stage
  <2>5. /\ MicroOnly' /\ EvalGateSound' /\ GatesChained' /\ handed' \subseteq Stages
        /\ gates' \in [Stages -> Gates \cup Unreadable]
    BY <1>1, <2>2, <2>3, <2>4, GateTorn
  <2>6. TypeOK' /\ TrainedMasked'
    BY <1>1, <1>3, <2>5, Ended DEF IInv, TypeOK, TrainedMasked, Readable
  <2> QED BY <1>1, <2>5, <2>6, Ended DEF IInv
<1> QED BY <1>2, <1>3 DEF Lost

-----------------------------------------------------------------------------
(* The gates that are written. *)
LEMMA ValidateKeeps == IInv /\ Validate => IInv'
<1> SUFFICES ASSUME IInv, Validate PROVE IInv'
  OBVIOUS
<1> DEFINE gate == Gate("PASS", Nothing)
<1>1. proc.at \in {"validate", "refresh"} /\ WriteGate("validate", gate) /\ GoOn /\ proc \in Commands
        /\ proc.by = "orchestrator"
  BY DEF Validate, WriteGate, IInv, TypeOK, StartedOn
<1>2. gate \in Gates /\ gate.decision = "PASS"
  BY DEF Gate, Gates
<1>3. "validate" \in Stages /\ "validate" \notin DOMAIN Previous
  BY Predecessors DEF Stages
<1> HIDE DEF gate
<1>4. gates'["validate"] = gate
  BY <1>1, <1>3 DEF WriteGate, LeaveGate, IInv, TypeOK
<1>5. Passed("validate")'
  BY <1>2, <1>4, Reading DEF Passed, Readable
<1>6. proc'.at = "idle" \/ (proc'.at = "tokens" /\ proc'.by = proc.by)
  BY <1>1, Going
<1>7. StartedOn' /\ Written'
  BY <1>1, <1>5, <1>6, EndedAt DEF StartedOn, Written
<1> QED BY <1>1, <1>2, <1>3, <1>7, GateWritten

LEMMA CheckTokensKeeps == IInv /\ CheckTokens => IInv'
<1> SUFFICES ASSUME IInv, CheckTokens PROVE IInv'
  OBVIOUS
<1> DEFINE gate == Gate("PASS", Nothing)
<1>1. /\ proc.at = "check_tokens" /\ WriteGate("prepare", gate) /\ GoOn /\ proc \in Commands
      /\ Passed("validate")
  BY DEF CheckTokens, At, WriteGate, IInv, TypeOK, StartedOn
<1>2. gate \in Gates /\ gate.decision = "PASS"
  BY DEF Gate, Gates
<1>3. "prepare" \in Stages
  BY DEF Stages
<1> HIDE DEF gate
<1>4. proc'.at = "idle"
  BY <1>1, Going
<1>5. Passed(Previous["prepare"])
  BY <1>1, Predecessors
<1> QED BY <1>1, <1>2, <1>3, <1>4, <1>5, EndedAt, GateWritten

LEMMA CheckAdapterKeeps == IInv /\ CheckAdapter => IInv'
<1> SUFFICES ASSUME IInv, CheckAdapter PROVE IInv'
  OBVIOUS
<1> DEFINE gate == Gate("PASS", [wide |-> adapter.wide])
<1>1. /\ proc.at = "check_adapter" /\ WriteGate("train", gate) /\ GoOn /\ proc \in Commands
      /\ adapter \in Adapters /\ adapter' = adapter
  BY DEF CheckAdapter, At, WriteGate, IInv, TypeOK, Written
<1>2. gate \in Gates /\ gate.decision = "PASS"
  <2>1. [wide |-> adapter.wide] \in [wide : BOOLEAN]
    BY <1>1 DEF Adapters
  <2> QED BY <2>1 DEF Gate, Gates
<1>3. "train" \in Stages /\ "prepare" \in Stages
  BY DEF Stages
<1>7. proc.by = "hand" \/ Passed(Previous["train"])
  BY <1>1, Writing DEF GateAhead
<1> HIDE DEF gate
<1>4. proc'.at = "idle" \/ (proc'.at = "confirm" /\ proc'.by = proc.by /\ proc.by # "hand")
  BY <1>1, Going DEF ByHandEnds
<1>5. gates'["prepare"] = gates["prepare"]
  BY <1>1, <1>3 DEF WriteGate, LeaveGate, IInv, TypeOK
<1>6. StartedOn' /\ Written'
  <2>1. CASE proc'.at = "idle"
    BY <2>1, EndedAt
  <2>2. CASE proc'.at = "confirm" /\ proc'.by = proc.by /\ proc.by # "hand"
    <3>1. proc.by = "orchestrator" /\ Passed("prepare")
      BY <1>1, <2>2 DEF IInv, StartedOn, Commands
    <3> QED BY <1>1, <1>5, <2>2, <3>1 DEF StartedOn, Written, Passed, Readable
  <2> QED BY <1>4, <2>1, <2>2
<1> QED BY <1>1, <1>2, <1>3, <1>6, <1>7, GateWritten

LEMMA ConfirmTrainingKeeps == IInv /\ ConfirmTraining => IInv'
<1> SUFFICES ASSUME IInv, ConfirmTraining PROVE IInv'
  OBVIOUS
<1> DEFINE gate == Gate("PASS", [wide |-> adapter.wide])
<1>1. /\ proc.at = "confirm" /\ WriteGate("train", gate) /\ GoOn /\ proc \in Commands
      /\ adapter \in Adapters /\ Passed("prepare")
  BY DEF ConfirmTraining, At, WriteGate, IInv, TypeOK, Written, StartedOn
<1>2. gate \in Gates /\ gate.decision = "PASS"
  <2>1. [wide |-> adapter.wide] \in [wide : BOOLEAN]
    BY <1>1 DEF Adapters
  <2> QED BY <2>1 DEF Gate, Gates
<1>3. "train" \in Stages
  BY DEF Stages
<1> HIDE DEF gate
<1>4. proc'.at = "idle"
  BY <1>1, Going
<1>5. Passed(Previous["train"])
  BY <1>1, Predecessors
<1> QED BY <1>1, <1>2, <1>3, <1>4, <1>5, EndedAt, GateWritten

(* A summary that is there is one of an adapter of masked rows.               *)
LEMMA CheckSummaryKeeps == IInv /\ CheckSummary => IInv'
<1> SUFFICES ASSUME IInv, CheckSummary PROVE IInv'
  OBVIOUS
<1> DEFINE gate == Gate("PASS", summary)
<1>1. /\ proc.at = "check_summary" /\ WriteGate("eval", gate) /\ GoOn /\ proc \in Commands
      /\ summary \in Evaluations /\ summary.healthy
      /\ adapter \in Adapters /\ summary.of = adapter.run
      /\ UNCHANGED <<summary, adapter>>
  BY DEF CheckSummary, At, WriteGate, IInv, TypeOK, Written, ValidSummary
<1>2. gate \in Gates /\ gate.decision = "PASS" /\ gate.says = summary
  BY <1>1 DEF Gate, Gates
<1>3. SoundEval(gate)
  BY <1>1, <1>2, Reading DEF SoundEval, IInv, TrainedMasked
<1>4. "train" \in Stages /\ "eval" \in Stages
  BY DEF Stages
<1>8. proc.by = "hand" \/ Passed(Previous["eval"])
  BY <1>1, Writing DEF GateAhead
<1> HIDE DEF gate
<1>5. proc'.at = "idle" \/ (proc'.at = "judge" /\ proc'.by = proc.by /\ proc.by # "hand")
  BY <1>1, Going DEF ByHandEnds
<1>6. gates'["train"] = gates["train"]
  BY <1>1, <1>4 DEF WriteGate, LeaveGate, IInv, TypeOK
<1>7. StartedOn' /\ Written'
  <2>1. CASE proc'.at = "idle"
    BY <2>1, EndedAt
  <2>2. CASE proc'.at = "judge" /\ proc'.by = proc.by /\ proc.by # "hand"
    <3>1. proc.by = "orchestrator" /\ Passed("train")
      BY <1>1, <2>2 DEF IInv, StartedOn, Commands
    <3> QED BY <1>1, <1>6, <2>2, <3>1 DEF StartedOn, Written, Passed, Readable
  <2> QED BY <1>5, <2>1, <2>2
<1> QED BY <1>1, <1>2, <1>3, <1>4, <1>7, <1>8, GateWritten

LEMMA JudgeKeeps == IInv /\ Judge => IInv'
<1> SUFFICES ASSUME IInv, Judge PROVE IInv'
  OBVIOUS
<1> DEFINE decision == IF GateStatus(exp, summary) \in Refused[exp] THEN "FAIL" ELSE "PASS"
           gate == Gate(decision, summary)
<1>1. /\ proc.at = "judge" /\ WriteGate("eval", gate) /\ GoOn /\ proc \in Commands
      /\ summary \in Evaluations /\ summary.healthy /\ Passed("train")
  BY DEF Judge, At, WriteGate, IInv, TypeOK, Written, StartedOn
<1>2. decision \in {"PASS", "FAIL"} /\ (decision = "PASS" \/ exp # "micro")
  BY DEF Refused
<1> HIDE DEF decision
<1>3. gate \in Gates /\ gate.decision = decision /\ gate.says = summary
  BY <1>1, <1>2 DEF Gate, Gates
<1>4. SoundEval(gate)
  BY <1>1, <1>3, Reading DEF SoundEval, IInv, TrainedMasked
<1>5. "eval" \in Stages
  BY DEF Stages
<1> HIDE DEF gate
<1>6. proc'.at = "idle"
  BY <1>1, Going
<1>7. Passed(Previous["eval"])
  BY <1>1, Predecessors
<1> QED BY <1>1, <1>2, <1>3, <1>4, <1>5, <1>6, <1>7, EndedAt, GateWritten

LEMMA MicroGateKeeps == IInv /\ MicroGate => IInv'
<1> SUFFICES ASSUME IInv, MicroGate PROVE IInv'
  OBVIOUS
<1> DEFINE decision == IF gates["eval"].says.healthy THEN "PASS" ELSE "FAIL"
           gate == Gate(decision, Nothing)
<1>1. /\ proc.at = "sum_up" /\ WriteGate("micro_gate", gate) /\ GoOn /\ proc \in Commands
      /\ Passed("eval") /\ exp = "micro"
  BY DEF MicroGate, At, WriteGate, IInv, TypeOK, StartedOn
<1>2. decision \in {"PASS", "FAIL"}
  OBVIOUS
<1> HIDE DEF decision
<1>3. gate \in Gates
  BY <1>2 DEF Gate, Gates
<1>4. "micro_gate" \in Stages /\ "micro_gate" # "eval"
  BY DEF Stages
<1> HIDE DEF gate
<1>5. proc'.at = "idle"
  BY <1>1, Going
<1>6. Passed(Previous["micro_gate"])
  BY <1>1, Predecessors
<1> QED BY <1>1, <1>3, <1>4, <1>5, <1>6, EndedAt, GateWritten

-----------------------------------------------------------------------------
LEMMA InitIInv == Init => IInv
<1> SUFFICES ASSUME Init PROVE IInv
  OBVIOUS
<1>1. TypeOK
  BY DEF Init, TypeOK, Unreadable, TokenFiles, Idle, Commands, Steps
<1>2. StartedOn /\ Written
  BY DEF Init, Idle, StartedOn, Written
<1>3. \A s \in Stages : gates[s] = Missing
  BY DEF Init
<1>4. "micro_gate" \in Stages /\ "eval" \in Stages
  BY DEF Stages
<1>5. MicroOnly /\ EvalGateSound
  BY <1>3, <1>4, Reading DEF MicroOnly, EvalGateSound
<1>6. GatesChained
  BY <1>3 DEF GatesChained
<1>7. TrainedMasked
  BY Reading DEF Init, TrainedMasked
<1> QED BY <1>1, <1>2, <1>5, <1>6, <1>7 DEF IInv

LEMMA StutterKeeps == IInv /\ UNCHANGED vars => IInv'
<1> SUFFICES ASSUME IInv, UNCHANGED vars PROVE IInv'
  OBVIOUS
<1>1. UNCHANGED <<exp, parent, gates, tokens, adapter, summary, proc, handed>>
  BY DEF vars, files
<1>2. StartedOn' /\ Written'
  BY <1>1 DEF IInv, StartedOn, Written, Passed, Readable
<1>3. TypeOK' /\ TrainedMasked'
  BY <1>1 DEF IInv, TypeOK, TrainedMasked, Readable
<1> QED BY <1>1, <1>2, <1>3, GatesKept DEF IInv

(* The invariant behind the theorems: the gate a command was started on       *)
(* passes while it is at work, and a gate of an evaluation is of masked rows. *)
THEOREM SpecIInv == Spec => []IInv
<1>1. IInv /\ [Next]_vars => IInv'
  BY StartKeeps, StartByHandKeeps, CalibrateKeeps, ValidateKeeps, MakeTokensKeeps, CheckTokensKeeps,
     TrainKeeps, CheckAdapterKeeps, ConfirmTrainingKeeps, EvalKeeps, CheckSummaryKeeps, JudgeKeeps,
     MicroGateKeeps, RaisesKeeps, LostKeeps, StutterKeeps DEF Next
<1> QED BY <1>1, InitIInv, PTL DEF Spec

(* Files hold what the commands write or cannot be read. *)
THEOREM SpecTypeOK == Spec => []TypeOK
<1>1. IInv => TypeOK
  BY DEF IInv
<1> QED BY <1>1, SpecIInv, PTL

(* Under every gate file on disk are the gates of the stages before it, PASS  *)
(* or torn since, down to the validation or to the first gate written by a    *)
(* script run by hand, through failures, losses and stages run again          *)
(* (require_previous, write_gate).                                            *)
THEOREM SpecGatesChained == Spec => []GatesChained
<1>1. IInv => GatesChained
  BY DEF IInv
<1> QED BY <1>1, SpecIInv, PTL

(* No adapter is trained on prompts, and none such is evaluated               *)
(* (load_token_rows).                                                         *)
THEOREM SpecTrainedMasked == Spec => []TrainedMasked
<1>1. IInv => TrainedMasked
  BY DEF IInv
<1> QED BY <1>1, SpecIInv, PTL

(* A step that changes gates is one that writes the gate of its command or is *)
(* lost writing it.                                                           *)
LEMMA GateChanges ==
  ASSUME IInv, [Next]_vars, NEW s \in Stages, gates'[s] # gates[s]
  PROVE  /\ GateAhead(proc.at, s)
         /\ gates'[s] = Torn \/ s # "eval" \/ CheckSummary \/ Judge
<1>1. TypeOK
  BY DEF IInv
<1>2. CASE Lost
  <2>1. /\ proc.at \in DOMAIN WritesGate
        /\ gates' = [gates EXCEPT ![WritesGate[proc.at]] = Torn]
    BY <1>2 DEF Lost, LeaveGate
  <2>2. s = WritesGate[proc.at] /\ gates'[s] = Torn
    BY <1>1, <2>1 DEF TypeOK
  <2> QED BY <2>1, <2>2, WritingGates
<1>3. CASE Validate
  <2>1. gates' = [gates EXCEPT !["validate"] = Gate("PASS", Nothing)]
    BY <1>3 DEF Validate, WriteGate, LeaveGate
  <2>2. s = "validate"
    BY <1>1, <2>1 DEF TypeOK
  <2> QED BY <1>3, <2>2 DEF Validate, GateAhead
<1>4. CASE CheckTokens
  <2>1. gates' = [gates EXCEPT !["prepare"] = Gate("PASS", Nothing)]
    BY <1>4 DEF CheckTokens, WriteGate, LeaveGate
  <2>2. s = "prepare"
    BY <1>1, <2>1 DEF TypeOK
  <2> QED BY <1>4, <2>2 DEF CheckTokens, GateAhead, At
<1>5. CASE CheckAdapter \/ ConfirmTraining
  <2>1. gates' = [gates EXCEPT !["train"] = Gate("PASS", [wide |-> adapter.wide])]
    BY <1>5 DEF CheckAdapter, ConfirmTraining, WriteGate, LeaveGate
  <2>2. s = "train"
    BY <1>1, <2>1 DEF TypeOK
  <2> QED BY <1>5, <2>2 DEF CheckAdapter, ConfirmTraining, GateAhead, At
<1>6. CASE CheckSummary \/ Judge
  <2>1. PICK gate : gates' = [gates EXCEPT !["eval"] = gate]
    BY <1>6 DEF CheckSummary, Judge, WriteGate, LeaveGate
  <2>2. s = "eval"
    BY <1>1, <2>1 DEF TypeOK
  <2> QED BY <1>6, <2>2 DEF CheckSummary, Judge, GateAhead, At
<1>7. CASE MicroGate
  <2>1. PICK gate : gates' = [gates EXCEPT !["micro_gate"] = gate]
    BY <1>7 DEF MicroGate, WriteGate, LeaveGate
  <2>2. s = "micro_gate"
    BY <1>1, <2>1 DEF TypeOK
  <2> QED BY <1>7, <2>2 DEF MicroGate, GateAhead, At
<1>8. CASE \/ Start \/ StartByHand \/ Calibrate \/ MakeTokens \/ Train \/ Eval \/ Raises
           \/ UNCHANGED vars
  <2>1. gates' = gates
    BY <1>8 DEF Start, StartByHand, Calibrate, MakeTokens, Train, Eval, Raises, Raise, files, vars
  <2> QED BY <2>1
<1> QED BY <1>2, <1>3, <1>4, <1>5, <1>6, <1>7, <1>8 DEF Next

(* The gate of an evaluation, when it is written and leaves the selector      *)
(* nothing against the child, is of the adapter then on disk; that adapter    *)
(* was trained on masked rows, answered in good form and was no worse than a  *)
(* parent that gets something right (eval_stage, _score_parent_child_stage).  *)
THEOREM SpecVerdictRests == Spec => VerdictRests
<1>1. IInv /\ [Next]_vars =>
        [exp # "micro" /\ gates'["eval"] # gates["eval"] /\ NoReasons(exp)' =>
           LET result == gates'["eval"].says
           IN  /\ Readable(adapter) /\ adapter.masked /\ result.of = adapter.run
               /\ result.healthy /\ result.parent = "some" /\ result.child = "fine"]_vars
  <2> SUFFICES ASSUME IInv, [Next]_vars, exp # "micro", gates'["eval"] # gates["eval"],
                      NoReasons(exp)'
               PROVE  LET result == gates'["eval"].says
                      IN  /\ Readable(adapter) /\ adapter.masked /\ result.of = adapter.run
                          /\ result.healthy /\ result.parent = "some" /\ result.child = "fine"
    OBVIOUS
  <2> DEFINE result == gates'["eval"].says
  <2>1. "eval" \in Stages
    BY DEF Stages
  <2>2. gates'["eval"] # Torn
    BY Reading DEF NoReasons, Passed, Readable
  <2>3. (CheckSummary \/ Judge) /\ GateAhead(proc.at, "eval")
    BY <2>1, <2>2, GateChanges
  <2>4. proc.at \in {"check_summary", "judge"}
    BY <2>3 DEF GateAhead
  <2>5. summary \in Evaluations /\ adapter \in Adapters /\ summary.of = adapter.run
    BY <2>4 DEF IInv, Written
  <2>6. Readable(adapter) /\ adapter.masked
    BY <2>5, Reading DEF IInv, TrainedMasked
  <2>7. summary.healthy
    BY <2>3 DEF IInv, Written, Judge, At, CheckSummary, ValidSummary
  <2>8. result = summary
    <3>1. PICK decision : gates' = [gates EXCEPT !["eval"] = Gate(decision, summary)]
      BY <2>3 DEF CheckSummary, Judge, WriteGate, LeaveGate
    <3> QED BY <2>1, <3>1 DEF IInv, TypeOK, Gate
  <2>9. /\ result.parent # "missing" /\ exp' = exp
        /\ GateStatus(exp', result) \notin {"INCONCLUSIVE_PARENT_MISSING", "FAIL_CHILD_REGRESSED",
                                            "INVALID_EVAL_PARENT_ZERO", "FAIL_CHILD_ZERO"}
    BY <2>3 DEF NoReasons, BadStatuses, Refused, GateStatus, CheckSummary, Judge, WriteGate
  <2> HIDE DEF result
  <2>10. result \in Evaluations
    BY <2>5, <2>8
  <2>11. result.parent = "some" /\ result.child = "fine"
    BY <2>9, <2>10 DEF GateStatus, Evaluations
  <2> QED BY <2>5, <2>6, <2>7, <2>8, <2>11 DEF result
<1> QED BY <1>1, SpecIInv, PTL DEF Spec, VerdictRests
=============================================================================
