---------------------------- MODULE MCAgentRegistry ----------------------------
(* The agent registry on small instances.                                    *)
EXTENDS AgentRegistry, TLC

Symmetry == Permutations(Identities) \cup Permutations(Sockets)
=============================================================================
