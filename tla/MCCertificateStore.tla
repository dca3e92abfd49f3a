--------------------------- MODULE MCCertificateStore ---------------------------
(***************************************************************************)
(* Small instances of CertificateStore for TLC.                            *)
(***************************************************************************)
EXTENDS CertificateStore, TLC

\* Generation ids are only compared for equality.
GidSymmetry == Permutations(Gids)

=============================================================================
