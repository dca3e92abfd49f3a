---------------------------- MODULE MCKl1Admission ----------------------------
(***************************************************************************)
(* A small instance of Kl1Admission for TLC.                               *)
(***************************************************************************)
EXTENDS Kl1Admission, TLC

CONSTANTS d1, d2

\* Two contents under one request id, a precise sample, a coarse one and one that is
\* too uncertain for the gate.
MCDigests == {d1, d2}

Symmetry == Permutations(MCDigests)

=============================================================================
