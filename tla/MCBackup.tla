------------------------------- MODULE MCBackup -------------------------------
(* Small instances of Backup for TLC.                                        *)
EXTENDS BackupInvariant

CONSTANTS api_svc, s1, none

MCServices == {api_svc, s1}
MCJobIds == 1 .. 8
=============================================================================
