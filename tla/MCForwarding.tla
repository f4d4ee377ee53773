--------------------------- MODULE MCForwarding ---------------------------
EXTENDS Forwarding
=============================================================================
