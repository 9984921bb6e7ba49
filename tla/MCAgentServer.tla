---------------------------- MODULE MCAgentServer ----------------------------
(* Small instances of AgentServer. *)
EXTENDS AgentServer, TLC

CONSTANTS t1, t2, t3, v1, v2, p1, p2

Symmetry == Permutations(Tasks) \cup Permutations(Pids)

AllOps == Requests
\* The requests that change the installations or the processes, and the poll
\* that reaps one.  The others are left to the run without failures.
ChangingOps == {"version_install", "server_start", "server_stop", "server_status",
                "save_create"}
ProcessOps == {"version_install", "server_start", "server_stop", "save_create"}
AllFaults == FaultKinds
NoFaults == {}
ShutdownFault == {"sigint"}
=============================================================================
