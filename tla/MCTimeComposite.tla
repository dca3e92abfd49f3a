---------------------------- MODULE MCTimeComposite ----------------------------
(***************************************************************************)
(* Small instances of TimeComposite for TLC.                               *)
(***************************************************************************)
EXTENDS TimeComposite, TLC

\* The threads that query the composite are alike.
ThreadSymmetry == Permutations(Threads)

=============================================================================
