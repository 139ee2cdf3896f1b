----------------------------- MODULE MCAgreement -----------------------------
EXTENDS AgreementSystem
==============================================================================
