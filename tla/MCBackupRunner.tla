--------------------------- MODULE MCBackupRunner ---------------------------
EXTENDS BackupRunner
=============================================================================
