----------------------------- MODULE MCAdmission -----------------------------
EXTENDS OrderAdmission
==============================================================================
