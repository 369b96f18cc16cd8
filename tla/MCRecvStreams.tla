--------------------------- MODULE MCRecvStreams ---------------------------
(* Instances of RecvStreams for TLC: the streams are interchangeable.      *)
EXTENDS RecvStreams, TLC

StreamSymmetry == Permutations(Streams)
=============================================================================
