--------------------------- MODULE MCRemoteSession ---------------------------
(***************************************************************************)
(* RemoteSession for TLC: one shell, or one process and one file request.  *)
(* The budget is as small as leaves the interesting case: an operation     *)
(* that runs takes all of it, as four execs do in the program.             *)
(***************************************************************************)
EXTENDS RemoteSession
=============================================================================
