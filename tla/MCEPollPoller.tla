---------------------------- MODULE MCEPollPoller ----------------------------
(* Small instances of EPollPoller. *)
EXTENDS EPollPoller, TLC

Symmetry == Permutations(Tied) \cup Permutations(Fd)
=============================================================================
