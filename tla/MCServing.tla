----------------------------- MODULE MCServing -----------------------------
(* Values for the model checker. *)
EXTENDS ThroughputBench, CacheSizing

\* The comparison of the planners over small sizes.
ASSUME SizesAgree == PlannersAgree

AllConfigs == Configs
\* Two configurations: one that starts, one that no start accepts.
Plain == [fp8 |-> [state |-> "disabled", weights |-> FALSE, cache |-> None, fallback |-> TRUE],
          cache |-> [state |-> "enabled", dtype |-> "auto", length |-> 4096],
          draft |-> [state |-> "disabled", sequential |-> FALSE, onlyBatched |-> TRUE, fallback |-> TRUE],
          length |-> 0]
TwoConfigs == {Plain, [Plain EXCEPT !.cache.state = "unsupported"]}
=============================================================================
