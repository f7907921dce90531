--------------------------- MODULE MCDataCapture ---------------------------
EXTENDS DataCapture
=============================================================================
