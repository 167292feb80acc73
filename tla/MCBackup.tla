------------------------------ MODULE MCBackup ------------------------------
EXTENDS Backup
=============================================================================
