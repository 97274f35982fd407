--------------------------- MODULE MCTempMeasure ---------------------------
EXTENDS TempMeasure
=============================================================================
