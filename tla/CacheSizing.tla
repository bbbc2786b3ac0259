---------------------------- MODULE CacheSizing ----------------------------
(***************************************************************************)
(* The two planners of KVCachePolicy, imo3_hybrid/src/serving/kv_cache.py: *)
(* what a cache of a given shape takes (estimate_footprint), and what      *)
(* shape fits into given bytes (estimate_capacity_from_budget).  They are  *)
(* separate code with roundings of their own; here their answers to the    *)
(* same question are compared.  Fractions are in hundredths.               *)
(***************************************************************************)
EXTENDS Integers

CONSTANTS Layers, Heads, Dims, Scalars, Contexts, Concurrent, Extras, Overheads, Bytes

ASSUME SizingAssumption ==
  /\ Layers \subseteq Nat \ {0} /\ Heads \subseteq Nat \ {0} /\ Dims \subseteq Nat \ {0}
  /\ Scalars \subseteq {1, 2} /\ Contexts \subseteq Nat \ {0} /\ Concurrent \subseteq Nat \ {0}
  /\ Extras \subseteq Nat /\ Overheads \subseteq 0..100
  /\ Bytes \subseteq Nat \ {0}

\* KVCacheSizingInputs and the budget; scalar is the width of the type.
Asks == [layers : Layers, heads : Heads, dim : Dims, scalar : Scalars, context : Contexts,
         sequences : Concurrent, perToken : Extras, overhead : Overheads,
         bytes : Bytes]

\* Bytes of a token in one layer, and in all of them.
PerLayer(a) == 2 * a.heads * a.dim * a.scalar + a.perToken
PerToken(a) == PerLayer(a) * a.layers

\* estimate_footprint of so many tokens.
Raw(a, tokens) == PerToken(a) * tokens
Footprint(a, tokens) == (Raw(a, tokens) * (100 + a.overhead)) \div 100

\* estimate_capacity_from_budget (WholeBudget: the overhead is not set aside).
WholeBudget(a) == a.bytes
Effective(a) == (100 * a.bytes) \div (100 + a.overhead)
Capacity(a) == Effective(a) \div PerToken(a)
\* (FeasibleAlone: as if a single sequence had it all.)
FeasibleAlone(a) == IF a.context < Capacity(a) THEN a.context ELSE Capacity(a)
Feasible(a) ==
  LET each == Capacity(a) \div a.sequences IN IF a.context < each THEN a.context ELSE each
Supports(a) == Feasible(a) >= a.context

\* The planners agree on every question: a shape is supported by a budget
\* exactly if its footprint, overhead and all, is within it, so nothing that
\* fits is refused, and what the budget is said to hold has a footprint
\* within the budget.
PlannersAgree ==
  \A a \in Asks :
    /\ Supports(a) <=> Raw(a, a.context * a.sequences) * (100 + a.overhead) <= 100 * a.bytes
    /\ Footprint(a, Capacity(a)) <= a.bytes
=============================================================================
