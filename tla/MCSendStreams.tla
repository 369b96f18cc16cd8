--------------------------- MODULE MCSendStreams ---------------------------
(* Instances of SendStreams for TLC. *)
EXTENDS SendStreams, TLC

StreamSymmetry == Permutations(Streams)
=============================================================================
