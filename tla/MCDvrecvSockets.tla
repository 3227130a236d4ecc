--------------------------- MODULE MCDvrecvSockets ---------------------------
EXTENDS DvrecvSockets
MCGroupFamily == [group |-> "inet", group6 |-> "inet6", host |-> "inet", unknown |-> "none"]
=============================================================================
