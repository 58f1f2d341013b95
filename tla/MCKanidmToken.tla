---------------------------- MODULE MCKanidmToken ----------------------------
(* The instance that TLC checks: callers are interchangeable.                *)
EXTENDS KanidmTokenProperties, TLC

CallerSymmetry == Permutations(Callers)
=============================================================================
