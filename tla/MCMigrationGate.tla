-------------------------- MODULE MCMigrationGate --------------------------
EXTENDS MigrationGate
=============================================================================
