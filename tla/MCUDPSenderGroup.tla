------------------------- MODULE MCUDPSenderGroup -------------------------
EXTENDS UDPSenderGroup, TLC

SenderSymmetry == Permutations(Senders)
=============================================================================
