--------------------------- MODULE MCCreationJobs ---------------------------
(* Instances of CreationJobs for TLC: one job for each kind of tool.       *)
EXTENDS CreationJobs, TLC

CONSTANTS chain, plain, async   \* jobs

MCTool == [j \in Jobs |-> CASE j = chain -> "workflow"
                             [] j = plain -> "sync"
                             [] j = async -> "async"]

Symmetry == Permutations(Workers) \cup Permutations(Clients)
=============================================================================
