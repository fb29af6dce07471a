---------------------------- MODULE MCAgentHost ----------------------------
(***************************************************************************)
(* AgentHost on small sets.  The configurations choose how many rows,      *)
(* requests, workers and failures there are and which handlers are called. *)
(***************************************************************************)
EXTENDS AgentHost, TLC

\* Rows of one kind, and the requests, are interchangeable.
Symmetry ==
  Permutations(Messages \ DailyCheckIns) \cup Permutations(Approvals \ CrossAppApprovals)
    \cup Permutations(CrossAppApprovals) \cup Permutations(Requests) \cup Permutations(Workers)
=============================================================================
