--------------------------- MODULE MCToolSession ---------------------------
EXTENDS ToolSession
=============================================================================
