------------------------------ MODULE MCAccounts ------------------------------
(* The instance that TLC checks: clients are interchangeable.                *)
EXTENDS AccountsProperties, TLC

ClientSymmetry == Permutations(Clients)
=============================================================================
