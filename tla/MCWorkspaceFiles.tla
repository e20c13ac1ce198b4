-------------------------- MODULE MCWorkspaceFiles --------------------------
(* WorkspaceFiles on a small instance: documents and files may be          *)
(* exchanged in the runs without a temporal property.                      *)
EXTENDS WorkspaceFiles, TLC

NameSymmetry == Permutations(Docs) \cup Permutations(Paths)
=============================================================================
