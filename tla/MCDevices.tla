----------------------------- MODULE MCDevices ------------------------------
EXTENDS Devices

CONSTANTS r1, r2, w1, w2, u1, u2
=============================================================================
