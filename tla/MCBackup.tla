------------------------------ MODULE MCBackup ------------------------------
(* Instances of Backup for TLC.                                            *)
EXTENDS Backup

StepSizes == {-1, 0, 1}

=============================================================================
