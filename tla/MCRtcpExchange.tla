--------------------------- MODULE MCRtcpExchange ---------------------------
EXTENDS RtcpExchange
CONSTANTS r1, r2
MCReceivers == {r1, r2}
=============================================================================
