----------------------------- MODULE MCFragment ------------------------------
EXTENDS Fragment, TLC
CONSTANTS a, b, c
PacketSymmetry == Permutations(Packets)
==============================================================================
