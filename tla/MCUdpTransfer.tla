----------------------------- MODULE MCUdpTransfer -----------------------------
\* Files and values of the uninitialised variable for the run of UdpTransfer.
EXTENDS UdpTransfer

AnyGarbage == {0, 1}
\* Empty, two full chunks and an empty last packet, a short last chunk.
MCSizes == {0, 4, 5}
================================================================================
