-------------------------- MODULE MCFramePipeline ---------------------------
(* FramePipeline with a few frames, one LAN and one WAN interface. *)
EXTENDS FramePipeline, TLC

CONSTANTS f1, f2, f3, lan, wan0

Frames2 == {f1, f2}
Frames3 == {f1, f2, f3}
OneLan  == {lan}
OneWan  == {wan0}
NoWan   == {}

FrameSymmetry == Permutations(Frames)

(* What ne_pair_open leaves: some frames lent to the LAN queue, the rest pooled. *)
Opened(lent, pooled) == [p \in Places |-> CASE p = Fq(lan) -> lent
                                            [] p = Pool -> pooled
                                            [] OTHER -> <<>>]
Pool2 == Opened(<<>>, <<f1, f2>>)
Pool3 == Opened(<<>>, <<f1, f2, f3>>)
Lent1Pool1 == Opened(<<f1>>, <<f2>>)
==============================================================================
