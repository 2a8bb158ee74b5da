---------------------------- MODULE MCUdpListener ----------------------------
EXTENDS UdpListener
=============================================================================
