------------------------------ MODULE MCTokens ------------------------------
(* The instance that TLC checks: clients are interchangeable.                *)
EXTENDS TokensProperties, TLC

ClientSymmetry == Permutations(Clients)
=============================================================================
