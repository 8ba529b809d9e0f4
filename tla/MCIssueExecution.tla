-------------------------- MODULE MCIssueExecution --------------------------
(* Instances of IssueExecution: one or two agents, one or two comments.      *)
EXTENDS IssueExecution, TLC

CONSTANTS a1, a2, c1, c2

\* Agents and comments are interchangeable (the safety runs use it).
Symmetry == Permutations(Agents) \cup Permutations(Comments)
=============================================================================
