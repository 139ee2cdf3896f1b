------------------------------- MODULE MCFinOps -------------------------------
EXTENDS FinOpsSystem
==============================================================================
