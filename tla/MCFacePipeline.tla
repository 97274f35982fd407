--------------------------- MODULE MCFacePipeline ---------------------------
\* Instances of FacePipeline for TLC.
EXTENDS FacePipeline
=============================================================================
