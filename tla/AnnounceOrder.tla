---------------------------- MODULE AnnounceOrder ----------------------------
(***************************************************************************)
(* The order and the conflicts of announcement entries, and what one sweep *)
(* of settle() starts (announce/arbiter.rs): constant-level definitions,   *)
(* shared by the scheduler and by the loop that computes the sweep.        *)
(***************************************************************************)
EXTENDS Integers

Conflict(e, f) == e.targets \cap f.targets # {}

Occupied(A) == UNION {e.targets : e \in A}

\* The queue's order: highest priority first, then earliest arrival.
Before(e, f) == \/ e.priority > f.priority
                \/ e.priority = f.priority /\ e.seq < f.seq

\* Faulty: without the recheck after each start.
SweepWithoutRecheck(S, Q, busy) == S = {e \in Q : e.targets \cap busy = {}}

\* Faulty: the walk starts at the last entry.
SweepFromTheBack(S, Q, busy) ==
  \A e \in Q : e \in S <=> /\ e.targets \cap busy = {}
                           /\ \A f \in S : Before(e, f) => ~Conflict(f, e)

(* S is what starts when Q is walked in order from the occupancy `busy`: an *)
(* entry starts iff its targets are neither busy nor taken by an entry that *)
(* started before it.                                                       *)
IsSweep(S, Q, busy) ==
  \A e \in Q : e \in S <=> /\ e.targets \cap busy = {}
                           /\ \A f \in S : Before(f, e) => ~Conflict(f, e)
=============================================================================
