--------------------------- MODULE MCTrafficStats ---------------------------
EXTENDS TrafficStats

=============================================================================
