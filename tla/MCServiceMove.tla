---------------------------- MODULE MCServiceMove ----------------------------
(* The instance that TLC checks: device names are canonical.                 *)
EXTENDS ServiceMoveProperties

MCCanonicalName == [v \in Volumes |-> v]
=============================================================================
