---------------------------- MODULE ShellSession ----------------------------
(***************************************************************************)
(* What a terminal session promises the pane that shows it, whoever runs   *)
(* the shell: a session that could not be opened leaves no shell, one that *)
(* ended never runs again, and a shell that died stays dead.               *)
(***************************************************************************)
VARIABLES
  status,  \* what the pane is shown
  shell    \* the process

vars == <<status, shell>>

Ended == {"exited", "lost"}

Init == status = "opening" /\ shell = "none"

Start == status = "opening" /\ shell = "none" /\ shell' = "alive" /\ UNCHANGED status
Open == status = "opening" /\ shell # "none" /\ status' \in {"running"} \cup Ended /\ UNCHANGED shell
Fail == status = "opening" /\ shell # "alive" /\ status' = "failed" /\ UNCHANGED shell
Die == shell = "alive" /\ shell' = "dead" /\ UNCHANGED status
End == status = "running" /\ status' \in Ended /\ UNCHANGED shell
(* A cancelled session is shown as exited even if it was lost before.      *)
Restate == status \in Ended /\ status' \in Ended /\ UNCHANGED shell

Next == Start \/ Open \/ Fail \/ Die \/ End \/ Restate

Spec == Init /\ [][Next]_vars
=============================================================================
