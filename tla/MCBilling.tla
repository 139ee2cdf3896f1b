------------------------------ MODULE MCBilling ------------------------------
EXTENDS BillingSystem, TLC

(* The order of authorizations and of agreements does not matter.          *)
Symmetry == Permutations(Authorizations) \cup Permutations(Agreements)
==============================================================================
