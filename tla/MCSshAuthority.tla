--------------------------- MODULE MCSshAuthority ---------------------------
(***************************************************************************)
(* SshAuthority for TLC: the host and one or two SSH authorities.          *)
(***************************************************************************)
EXTENDS SshAuthority, TLC

AuthoritySymmetry == Permutations(Ssh)
=============================================================================
