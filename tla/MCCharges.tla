------------------------------ MODULE MCCharges ------------------------------
(***************************************************************************)
(* The charges of an agreement with one linked account.                    *)
(***************************************************************************)
EXTENDS Charges
==============================================================================
