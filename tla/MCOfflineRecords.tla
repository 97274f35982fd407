-------------------------- MODULE MCOfflineRecords --------------------------
\* Instances of OfflineRecords for TLC.
EXTENDS OfflineRecords
=============================================================================
