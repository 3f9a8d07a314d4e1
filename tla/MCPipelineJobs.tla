--------------------------- MODULE MCPipelineJobs ---------------------------
(* Small instances of PipelineJobs for TLC. *)
EXTENDS PipelineJobs

\* Every uploaded draft gets one synthetic CRD, whatever its trace id.
MCDraftCrd == [t \in Traces |-> CHOOSE c \in Crds : TRUE]

MCAllStatuses == RowStatuses
=============================================================================
