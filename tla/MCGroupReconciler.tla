-------------------------- MODULE MCGroupReconciler --------------------------
(***************************************************************************)
(* Two players, a receiver and a host, fed from one source or from two.     *)
(***************************************************************************)
EXTENDS GroupReconciler, TLC

CONSTANTS p1, p2, r1, h1, A, B

\* One source, or both mixed.
MCMixes == {{}, {A}, {A, B}}

\* Two rooms and an idle receiver.
MCBoots == {(p1 :> {A, B} @@ p2 :> {A} @@ r1 :> {} @@ h1 :> {A})}

MCSelections == {{p1, r1}}

=============================================================================
