------------------------------ MODULE MCPurchase ------------------------------
EXTENDS PurchaseProperties, TLC

(* Nothing tells one account from another.                                 *)
Symmetry == Permutations(MPAs)
==============================================================================
