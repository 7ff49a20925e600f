------------------------ MODULE MCAnnounceCoordinator ------------------------
(* The announcement path (scheduler, mixer, relays, poll) on small instances.*)
EXTENDS AnnounceCoordinator, TLC

OutputSymmetry == Permutations(Outputs)
=============================================================================
