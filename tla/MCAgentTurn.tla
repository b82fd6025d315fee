---- MODULE MCAgentTurn ----
(* Two turn threads, replies of up to two calls and a helper with one call. *)
EXTENDS AgentTurn, TLC
CONSTANTS t1, t2, c1, c2, h1

Budget(sends, once) ==
  [op \in Ops |-> IF op = "send" THEN sends ELSE IF op \in once THEN 1 ELSE 0]

\* what the user, the scheduler and the model do beside: calls and questions,
\* a session that is deleted, a conversation that is compacted, a save that fails
MCBudgets == {Budget(2, {"stop", "batch", "helper"}),
              Budget(2, {"tick", "delete"}), Budget(1, {"compact", "delete", "batch"}),
              Budget(2, {"compact", "stop", "tick"}),
              Budget(1, {"command", "delete", "fault"}), Budget(2, {"command", "tick", "fault"})}
====
