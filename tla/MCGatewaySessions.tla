------------------------- MODULE MCGatewaySessions -------------------------
EXTENDS GatewaySessions
=============================================================================
