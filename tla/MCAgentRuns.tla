------------------------------ MODULE MCAgentRuns ------------------------------
(* Instances of AgentRuns for TLC: which operations and accidents each run     *)
(* allows.                                                                     *)
EXTENDS AgentRuns

\* The queue under load, with rows that take slots without the dispatcher and a
\* server that may die in the middle of a launch.
QueueOps == {"schedule", "invoke", "cancel", "crash", "leak", "limit", "close", "recheck", "delete"}

\* Everything but the operations known to leave a session behind.
OrderlyOps == (Accidents \cup Requests) \ {"delete", "fail", "recheck", "leak", "crash"}

\* Agents that hit limits and are typed to, users that give up on runs, a crash.
LivelyOps == {"cancel", "typing", "limit", "fail", "crash"}

===============================================================================
