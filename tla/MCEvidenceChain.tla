-------------------------- MODULE MCEvidenceChain --------------------------
(* An instance of EvidenceChain: two adapters, two claims of a backend,    *)
(* a strict configuration and a lenient one.                               *)
EXTENDS EvidenceChain, TLC

CONSTANTS w1, w2, c1, c2

\* Everything but a release candidate is demanded.
StrictFlags == [smoke |-> TRUE, private |-> TRUE, completion |-> TRUE, zip |-> FALSE,
                dry |-> TRUE, unloaded |-> FALSE, warnings |-> FALSE, release |-> FALSE,
                preflight |-> TRUE, dryPackage |-> TRUE]
\* Only a release candidate is.
LenientFlags == [smoke |-> FALSE, private |-> FALSE, completion |-> FALSE, zip |-> TRUE,
                 dry |-> TRUE, unloaded |-> TRUE, warnings |-> TRUE, release |-> TRUE,
                 preflight |-> FALSE, dryPackage |-> TRUE]
MCFlagSets == {StrictFlags, LenientFlags}
MCWeights  == {w1, w2}
MCClaims   == {c1, c2}

\* Nothing tells one adapter, or one training run, from the other.
Symmetry == Permutations(MCWeights) \cup Permutations(MCClaims)
=============================================================================
