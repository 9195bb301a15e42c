----------------------------- MODULE MCWanSlots ------------------------------
EXTENDS WanPicks, TLC
CONSTANTS a, b, c, p1, p2
WanSymmetry == Permutations({a, b}) \cup Permutations(Profiles)
==============================================================================
