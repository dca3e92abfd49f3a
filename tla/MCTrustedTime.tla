----------------------------- MODULE MCTrustedTime -----------------------------
(***************************************************************************)
(* Small instances of TrustedTime for TLC.                                 *)
(***************************************************************************)
EXTENDS TrustedTime

=============================================================================
