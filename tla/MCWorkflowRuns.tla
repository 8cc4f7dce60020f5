--------------------------- MODULE MCWorkflowRuns ---------------------------
EXTENDS WorkflowRuns
=============================================================================
