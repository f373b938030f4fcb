------------------------------ MODULE MCReplay ------------------------------
(* Replay for TLC. *)
EXTENDS Replay, TLC

FairSpec == Spec /\ Fairness
Symmetry == Permutations(Capture) \cup Permutations(Path)

=============================================================================
