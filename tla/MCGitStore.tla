----------------------------- MODULE MCGitStore -----------------------------
(* Instances of GitStore for TLC. *)
EXTENDS GitStore, TLC

CONSTANTS shared, own,                \* commit_lock mutexes
          calendar, mail, mcp, timer, \* tasks
          f, g                        \* files

\* run() shares one Repo between the pullers and the gc timer; the MCP service
\* opens another for the request it serves.
DaemonHandles == [t \in Tasks |-> IF t \in Writers THEN own ELSE shared]

\* The pullers differ in nothing the specification looks at.
Symmetry == Permutations(Pullers)

=============================================================================
