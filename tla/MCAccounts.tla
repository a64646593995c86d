------------------------------ MODULE MCAccounts ------------------------------
(* Instances of Accounts small enough for TLC. *)
EXTENDS Accounts, TLC

MCSymmetry == Permutations(Requests)
===============================================================================
