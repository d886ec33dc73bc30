------------------------------ MODULE MCUdpNat ------------------------------
EXTENDS UdpNat

=============================================================================
