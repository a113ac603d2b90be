------------------------------ MODULE Requests ------------------------------
(***************************************************************************)
(* What a request/response channel promises its callers: a request that    *)
(* has been made is settled at most once, by the answer to itself or by a  *)
(* failure, and stays settled.  The MCP client (McpClient) is shown to     *)
(* implement this.                                                         *)
(***************************************************************************)
CONSTANT Ids        \* the requests that may ever be made

VARIABLE outcome    \* outcome[n]: "none", "open", "answered" or "failed"

Init == outcome = [n \in Ids |-> "none"]

Ask(n) ==
  /\ outcome[n] = "none"
  /\ outcome' = [outcome EXCEPT ![n] = "open"]

Answer(n) ==
  /\ outcome[n] = "open"
  /\ outcome' = [outcome EXCEPT ![n] = "answered"]

\* One failure (an exit, a stop) may hit every request that is open.
Fail(S) ==
  /\ \A n \in S : outcome[n] = "open"
  /\ outcome' = [n \in Ids |-> IF n \in S THEN "failed" ELSE outcome[n]]

Next == \/ \E n \in Ids : Ask(n) \/ Answer(n)
        \/ \E S \in SUBSET Ids : Fail(S)

Spec == Init /\ [][Next]_outcome
=============================================================================
