-------------------------- MODULE MCBackupRetention --------------------------
EXTENDS BackupRetention, TLC

CONSTANTS here, there

MCOwner == 1 :> here @@ 2 :> here @@ 3 :> here @@ 4 :> there
MCKeep == 2 :> 1 @@ 4 :> 2
=============================================================================
