---------------------------- MODULE MCDoorRelay ----------------------------
\* Instances of DoorRelay for TLC.
EXTENDS DoorRelay
=============================================================================
