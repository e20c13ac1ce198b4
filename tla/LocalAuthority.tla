--------------------------- MODULE LocalAuthority ---------------------------
(***************************************************************************)
(* The authority over the workstation (authority/local.rs): it looks at    *)
(* trust, epochs and revision of a request, and then opens a shell, runs a *)
(* command, or reads or writes a file under its root.                      *)
(*                                                                         *)
(* Requests share nothing but the trust, which is looked at once, before   *)
(* the work starts.  So one request per behaviour, of any kind, says all.  *)
(***************************************************************************)
EXTENDS LocalPty, ProcessSupervisor

VARIABLES
  trust,   \* AuthorityTrust
  asked,   \* the kind of request, "none" before there is one
  reply,   \* "none", "admitted", or what the caller got
  target,  \* the file a request reads or writes
  temp     \* the new file beside it

authorityVars == <<trust, asked, reply, target, temp>>
fileVars == <<target, temp>>

Kinds == {"pty", "exec", "read", "write"}
Refusals == {"InspectOnly", "StaleEpoch", "MissingDocumentRevision", "PathEscapesRoot"}
Texts == {"absent", "old", "partial", "new"}

AuthorityInit ==
  /\ trust = "InspectOnly"
  /\ asked = "none" /\ reply = "none"
  /\ target = "absent" /\ temp = "absent"

(* Nothing looks at trust after the check, so it only changes before it.   *)
GrantExecution ==
  asked = "none" /\ trust' = "ExecutionGranted" /\ UNCHANGED <<asked, reply, fileVars>>
RevokeExecution ==
  asked = "none" /\ trust' = "InspectOnly" /\ UNCHANGED <<asked, reply, fileVars>>

(* require_execution and validate_epochs; the environment's epoch is       *)
(* always 0 here, but a request may come from another workspace.           *)
RunCheck(current) ==
  IF trust # "ExecutionGranted" THEN "InspectOnly"
  ELSE IF ~current THEN "StaleEpoch" ELSE "admitted"
(* validate_epochs, the revision, and the path: resolve_existing and       *)
(* resolve_write refuse what is not below the root.                        *)
FileCheck(current, revised, inside) ==
  IF ~current THEN "StaleEpoch"
  ELSE IF ~revised THEN "MissingDocumentRevision"
  ELSE IF ~inside THEN "PathEscapesRoot" ELSE "admitted"

Ask ==
  /\ asked = "none"
  /\ \E current, revised, inside \in BOOLEAN :
       \/ asked' \in {"pty", "exec"} /\ reply' = RunCheck(current) /\ UNCHANGED target
       \/ /\ asked' \in {"read", "write"} /\ reply' = FileCheck(current, revised, inside)
          /\ target' \in {"absent", "old"}
  /\ UNCHANGED <<trust, temp>>

Serves(kind) == asked = kind /\ reply = "admitted"
Answer(r) == reply' = r /\ UNCHANGED <<trust, asked>>

(* read_file: at most one byte more than the limit is read.                *)
ReadFile ==
  /\ Serves("read")
  /\ Answer(IF target = "absent" THEN "Io" ELSE "OutputLimit") \/ (target # "absent" /\ Answer("ok"))
  /\ UNCHANGED fileVars

(* write_file: a new file beside the target, written and synced, then      *)
(* renamed.  A failure before the rename leaves the new file behind.       *)
CreateTemp ==
  /\ Serves("write") /\ temp = "absent"
  /\ \/ temp' = "partial" /\ UNCHANGED <<trust, asked, reply>>
     \/ Answer(IF target = "absent" THEN "NotFound" ELSE "Io") /\ UNCHANGED temp
  /\ UNCHANGED target
FillTemp ==
  /\ Serves("write") /\ temp = "partial"
  /\ \/ temp' = "new" /\ UNCHANGED <<trust, asked, reply>>
     \/ Answer("Io") /\ UNCHANGED temp
  /\ UNCHANGED target
RenameTemp ==
  /\ Serves("write") /\ temp = "new"
  /\ temp' = "absent"
  /\ \/ target' = temp /\ Answer("ok")
     \/ Answer("Io") /\ UNCHANGED target

AuthorityNext ==
  \/ /\ GrantExecution \/ RevokeExecution \/ Ask \/ ReadFile
        \/ CreateTemp \/ FillTemp \/ RenameTemp
     /\ UNCHANGED <<ptyVars, execVars>>
  \/ Serves("pty") /\ PtyNext /\ UNCHANGED <<authorityVars, execVars>>
  \/ Serves("exec") /\ ExecNext /\ UNCHANGED <<authorityVars, ptyVars>>

LocalInit == AuthorityInit /\ PtyInit /\ ExecInit

AuthoritySpec ==
  /\ LocalInit
  /\ [][AuthorityNext]_<<authorityVars, ptyVars, execVars>>
  /\ WF_ptyVars(Serves("pty") /\ OwnerStep /\ UNCHANGED <<authorityVars, execVars>>)
  /\ WF_ptyVars(Serves("pty") /\ WriterStep /\ UNCHANGED <<authorityVars, execVars>>)
  /\ WF_ptyVars(Serves("pty") /\ ReaderStep /\ UNCHANGED <<authorityVars, execVars>>)
  /\ WF_execVars(Serves("exec") /\ CallStep /\ UNCHANGED <<authorityVars, ptyVars>>)
  /\ WF_execVars(Serves("exec") /\ CollectorStep /\ UNCHANGED <<authorityVars, ptyVars>>)
=============================================================================
