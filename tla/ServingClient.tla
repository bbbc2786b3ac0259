--------------------------- MODULE ServingClient ---------------------------
(***************************************************************************)
(* VLLMClient and its backend adapter, imo3_hybrid/src/serving/            *)
(* vllm_server.py: starting an engine from a configuration made of three   *)
(* policies (fp8_config.py, kv_cache.py, speculative_decode.py), serving   *)
(* requests with it, and losing or stopping it.  vLLM itself is external:  *)
(* it may be missing, refuse the settings, fail or answer.                 *)
(***************************************************************************)
EXTENDS Integers

CONSTANTS
  MaxStarts, \* bound: how often the client is started
  Lengths,   \* context lengths that can be asked for
  Used       \* the configurations a client is made with

VARIABLES
  config,  \* the VLLMServerConfig
  client,  \* its runtime state and the engine its adapter holds
  built,   \* history: the settings each engine was made with
  answer   \* status of the last response, "none" after a start or a stop
vars == <<config, client, built, answer>>

None == "none"
States == {"uninitialized", "unavailable", "running", "stopped", "error"}
SupportStates == {"enabled", "disabled", "unsupported"}
Fp8Types == {"fp8", "fp8_e4m3", "fp8_e5m2"}

-----------------------------------------------------------------------------
\* The policies the validators of the three classes let through.
Fp8Configs ==
  {c \in [state : SupportStates, weights : BOOLEAN, cache : {None, "fp8_e4m3"}, fallback : BOOLEAN] :
     (c.state = "enabled") = (c.weights \/ c.cache # None)}
CachePolicies == [state : SupportStates, dtype : {"auto", "bf16", "fp8_e5m2"}, length : Lengths]
DraftPolicies ==
  {d \in [state : SupportStates, sequential : BOOLEAN, onlyBatched : BOOLEAN, fallback : BOOLEAN] :
     d.state = "enabled" => ~(d.sequential /\ d.onlyBatched)}
Configs == [fp8 : Fp8Configs, cache : CachePolicies, draft : DraftPolicies,
            length : Lengths \cup {0}]  \* 0: not asked for

ASSUME ServingAssumption ==
  MaxStarts \in Nat /\ Lengths \subseteq Nat \ {0} /\ Used \subseteq Configs

\* The reports of evaluate_compatibility, whose runtime is always vLLM and
\* whose hardware nobody probes: only drafting can become unsupported.
DraftState(d) ==
  IF d.state = "enabled" /\ d.onlyBatched /\ d.sequential THEN "unsupported" ELSE d.state

\* The issues that keep a client from starting.
Blocking(c) ==
  \/ c.fp8.state = "unsupported" /\ ~c.fp8.fallback
  \/ c.cache.state = "unsupported"
  \/ DraftState(c.draft) = "unsupported" /\ ~c.draft.fallback

\* to_engine_kwargs: a policy's settings replace the earlier ones unless they
\* are None.  An enabled cache policy always has a type and a length.
EngineKwargs(c) ==
  [quantization |-> IF c.fp8.weights THEN "fp8" ELSE None,
   cacheType |-> IF c.cache.state = "enabled" THEN c.cache.dtype ELSE c.fp8.cache,
   length |-> IF c.cache.state = "enabled" THEN c.cache.length ELSE c.length,
   drafting |-> c.draft.state = "enabled"]

-----------------------------------------------------------------------------
\* _VLLMBackendAdapter.initialize: the import, the symbols, the engine.  A
\* failure keeps the engine of an earlier start.
StartOutcomes == {"unavailable", "symbols", "refused", "started"}
AdapterStarted(c, outcome) ==
  CASE outcome = "unavailable" -> [client EXCEPT !.state = "unavailable"]
    [] outcome = "symbols" -> [client EXCEPT !.state = "error"]
    [] outcome = "refused" -> [client EXCEPT !.state = "error", !.bundle = TRUE]
    [] OTHER -> [state |-> "running", bundle |-> TRUE, engine |-> client.starts + 1,
                 starts |-> client.starts]

\* VLLMClient.initialize (StartOptimistic: the state is set before the engine
\* is there).
StartOptimistic(outcome) ==
  /\ client' = [AdapterStarted(config, outcome) EXCEPT !.state = "running", !.starts = @ + 1]
  /\ built' = IF outcome = "started" THEN [built EXCEPT ![client.starts + 1] = EngineKwargs(config)] ELSE built
StartWith(outcome) ==
  IF Blocking(config)
  THEN client' = [client EXCEPT !.state = "error", !.starts = @ + 1] /\ UNCHANGED built
  ELSE /\ client' = [AdapterStarted(config, outcome) EXCEPT !.starts = @ + 1]
       /\ built' = IF outcome = "started"
                   THEN [built EXCEPT ![client.starts + 1] = EngineKwargs(config)] ELSE built

Start ==
  /\ client.starts < MaxStarts
  /\ \E outcome \in StartOutcomes : StartWith(outcome)
  /\ answer' = None /\ UNCHANGED config

\* stop: the adapter lets the engine go.
StopAdapter == client' = [client EXCEPT !.state = "stopped", !.bundle = FALSE, !.engine = 0]
Stop == StopAdapter /\ answer' = None /\ UNCHANGED <<config, built>>

\* What the adapter may answer: rejected parameters, a failure of the backend
\* or of parsing its output, or outputs.
AdapterAnswers == IF client.engine = 0 \/ ~client.bundle THEN {"not_started"}
                  ELSE {"ok", "invalid_request", "backend_error"}

\* generate (Forgiving: an error of the backend is not remembered).
Forgiving(status) == client.state
AfterAnswer(status) == IF status = "backend_error" THEN "error" ELSE client.state
GenerateWith(status) ==
  CASE client.state = "unavailable" -> status = "unavailable" /\ UNCHANGED client
    [] client.state \notin {"unavailable", "running"} -> status = "not_started" /\ UNCHANGED client
    [] OTHER -> status \in AdapterAnswers /\ client' = [client EXCEPT !.state = AfterAnswer(status)]
Statuses == {"ok", "invalid_request", "backend_error", "not_started", "unavailable"}
Generate == /\ \E status \in Statuses : GenerateWith(status) /\ answer' = status
            /\ UNCHANGED <<config, built>>

Unbuilt == [quantization |-> None, cacheType |-> None, length |-> 0, drafting |-> FALSE]
Fresh == [state |-> "uninitialized", bundle |-> FALSE, engine |-> 0, starts |-> 0]
Init == /\ config \in Used /\ client = Fresh /\ built = [n \in 1..MaxStarts |-> Unbuilt]
        /\ answer = None
Next == Start \/ Stop \/ Generate
Spec == Init /\ [][Next]_vars

-----------------------------------------------------------------------------
Settings == [quantization : {None, "fp8"}, cacheType : {None, "auto", "bf16"} \cup Fp8Types,
             length : Lengths \cup {0}, drafting : BOOLEAN]
\* Type invariant.
TypeOK ==
  /\ config \in Used
  /\ client \in [state : States, bundle : BOOLEAN, engine : 0..MaxStarts, starts : 0..MaxStarts]
  /\ built \in [1..MaxStarts -> Settings]
  /\ answer \in Statuses \cup {None}

\* A running client holds the engine of its latest start, made with the
\* settings of its configuration, and no policy of it is unsupported without
\* leave to do without: restarts that fail half way never leave it running
\* with the engine of an earlier one.
RunsLatestEngine ==
  client.state = "running" =>
    /\ client.engine = client.starts /\ client.bundle
    /\ built[client.engine] = EngineKwargs(config)
    /\ config.cache.state # "unsupported"
    /\ config.fp8.state = "unsupported" => config.fp8.fallback

\* The state as a caller can tell it.
Seen == IF client.state \in {"running", "unavailable"} THEN client.state ELSE "down"

\* The client keeps the promise its callers rely on.
Promise == INSTANCE ClientContract WITH
  state <- Seen
KeepsPromise == Promise!Spec
=============================================================================
