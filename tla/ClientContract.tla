--------------------------- MODULE ClientContract ---------------------------
(***************************************************************************)
(* What those who ask for generations rely on in a VLLMClient: while it    *)
(* runs it answers or rejects a request; an error of the backend takes it  *)
(* down; while it does not run it refuses, and only a start changes that.  *)
(***************************************************************************)
VARIABLES
  state,  \* "running", "down" or "unavailable"
  answer  \* the status of the last response, "none" after a start or stop

Init == state = "down" /\ answer = "none"

Start == state' \in {"running", "down", "unavailable"} /\ answer' = "none"
Stop == state' = "down" /\ answer' = "none"
Answer == state = "running" /\ answer' \in {"ok", "invalid_request"} /\ UNCHANGED state
Fail == state = "running" /\ answer' = "backend_error" /\ state' = "down"
Refuse == /\ state # "running" /\ UNCHANGED state
          /\ answer' = IF state = "down" THEN "not_started" ELSE "unavailable"

Next == Start \/ Stop \/ Answer \/ Fail \/ Refuse
Spec == Init /\ [][Next]_<<state, answer>>
=============================================================================
