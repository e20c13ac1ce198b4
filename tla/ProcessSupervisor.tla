------------------------- MODULE ProcessSupervisor --------------------------
(***************************************************************************)
(* A supervised command (process/supervisor.rs, ProcessSupervisor::exec):  *)
(* the command and one descendant in the process group made for it, the    *)
(* two tasks that read its pipes up to a limit, and the call that waits    *)
(* for its exit, its cancellation or its time limit, cleans up the group   *)
(* and collects the output.                                                *)
(*                                                                         *)
(* A descendant may leave the group with its ends of the pipes still open; *)
(* then no signal to the group reaches it.                                 *)
(***************************************************************************)
EXTENDS Integers

CONSTANTS
  OutputLimit,  \* stdout_bytes, stderr_bytes
  MaxWritten    \* bound: what is written to a pipe

ASSUME SupervisorLimits == OutputLimit \in Nat /\ MaxWritten \in Nat

VARIABLES
  leader,       \* "none", "alive", "zombie" or "reaped"
  descendant,   \* "none", "grouped", "escaped" (out of the group), "dead"
  stopAsked,    \* the caller's cancellation token
  call,         \* where the call is
  outcome,      \* "none", or what it returned
  written,      \* what was written to each pipe
  drained,      \* what its task has read
  kept,         \* what it has kept
  overLimit,    \* its truncated flag
  collector     \* the task: "none", "reading", "done" or "failed"

Streams == {"stdout", "stderr"}

execVars == <<leader, descendant, stopAsked, call, outcome, written, drained, kept,
              overLimit, collector>>
treeVars == <<leader, descendant>>
pipeVars == <<written, drained, kept, overLimit, collector>>

Calls == {"idle", "attach", "pipes", "select", "grace", "kill", "settle", "sweep",
          "finish", "collect", "done"}
Outcomes == {"none", "ok", "cancelled", "timeout", "error", "abandoned"}

ExecInit ==
  /\ leader = "none" /\ descendant = "none"
  /\ stopAsked = FALSE /\ call = "idle" /\ outcome = "none"
  /\ written = [s \in Streams |-> 0] /\ drained = [s \in Streams |-> 0]
  /\ kept = [s \in Streams |-> 0] /\ overLimit = [s \in Streams |-> FALSE]
  /\ collector = [s \in Streams |-> "none"]

(* A signal to the group: the command dies, or has a handler; a descendant *)
(* in the group as well; SIGKILL has no handler.                           *)
Dies(p) == IF p = "alive" THEN "zombie" ELSE p
DiesToo(d) == IF d = "grouped" THEN "dead" ELSE d
SignalGroup == leader' \in {leader, Dies(leader)} /\ descendant' \in {descendant, DiesToo(descendant)}
KillGroup == leader' = Dies(leader) /\ descendant' = DiesToo(descendant)

-----------------------------------------------------------------------------
SpawnCommand ==
  /\ call = "idle"
  /\ \/ leader' = "alive" /\ call' = "attach" /\ UNCHANGED outcome
     \/ call' = "done" /\ outcome' = "error" /\ UNCHANGED leader
  /\ UNCHANGED <<descendant, stopAsked, pipeVars>>

(* ProcessTree::attach may fail on Windows, where the job is made after    *)
(* the command: what descends from the command is looked up and stopped.   *)
TerminateUncontained ==
  /\ leader' = "reaped"
  /\ descendant' = IF descendant = "none" THEN "none" ELSE "dead"

AttachTree ==
  /\ call = "attach"
  /\ \/ call' = "pipes" /\ UNCHANGED <<treeVars, outcome>>
     \/ TerminateUncontained /\ call' = "done" /\ outcome' = "error"
  /\ UNCHANGED <<stopAsked, pipeVars>>

(* The two pipes are there, or the tree is terminated.                     *)
TakePipes ==
  /\ call = "pipes"
  /\ \/ call' = "select" /\ collector' = [s \in Streams |-> "reading"]
        /\ UNCHANGED <<leader, descendant, outcome>>
     \/ SignalGroup /\ call' = "grace" /\ outcome' = "error" /\ UNCHANGED collector
  /\ UNCHANGED <<stopAsked, written, drained, kept, overLimit>>

(* tokio::select!: whichever is ready first; several may be.               *)
CommandExits ==
  /\ call = "select" /\ leader = "zombie"
  /\ leader' = "reaped" /\ call' = "sweep"
  /\ UNCHANGED <<descendant, stopAsked, outcome, pipeVars>>

(* ProcessTree::terminate, its first step: SIGTERM to the group.           *)
GiveUp(reason) ==
  /\ call = "select"
  /\ reason \in {"timeout", "error"} \/ (reason = "cancelled" /\ stopAsked)
  /\ SignalGroup /\ call' = "grace" /\ outcome' = reason
  /\ UNCHANGED <<stopAsked, pipeVars>>

(* Mutant: the wait after SIGTERM has no time limit.                       *)
GraceWaits ==
  /\ call = "grace" /\ leader # "alive"
  /\ leader' = "reaped" /\ call' = "kill"
  /\ UNCHANGED <<descendant, stopAsked, outcome, pipeVars>>

(* Up to graceful_shutdown for the command to go.                          *)
GraceEnds ==
  /\ call = "grace"
  /\ leader' = IF leader = "zombie" THEN "reaped" ELSE leader
  /\ call' = "kill"
  /\ UNCHANGED <<descendant, stopAsked, outcome, pipeVars>>

(* Mutant: only the command itself is killed.                              *)
KillLeader ==
  /\ call = "kill"
  /\ leader' = Dies(leader) /\ call' = "settle"
  /\ UNCHANGED <<descendant, stopAsked, outcome, pipeVars>>

KillTree ==
  /\ call = "kill"
  /\ KillGroup /\ call' = "settle"
  /\ UNCHANGED <<stopAsked, outcome, pipeVars>>

(* Up to two seconds to wait for it.                                       *)
Settle ==
  /\ call = "settle"
  /\ leader' \in {leader, "reaped"} /\ call' = "done"
  /\ UNCHANGED <<descendant, stopAsked, outcome, pipeVars>>

(* cleanup_descendants: the same two signals after an exit.                *)
Sweep ==
  /\ call = "sweep"
  /\ SignalGroup /\ call' = "finish"
  /\ UNCHANGED <<stopAsked, outcome, pipeVars>>
SweepRest ==
  /\ call = "finish"
  /\ KillGroup /\ call' = "collect"
  /\ UNCHANGED <<stopAsked, outcome, pipeVars>>

(* Both tasks are awaited, one after the other, however long that takes.   *)
Collect ==
  /\ call = "collect"
  /\ \/ collector["stdout"] = "failed" /\ outcome' = "error"
     \/ /\ collector["stdout"] = "done"
        /\ \/ collector["stderr"] = "failed" /\ outcome' = "error"
           \/ collector["stderr"] = "done" /\ outcome' = "ok"
  /\ call' = "done"
  /\ UNCHANGED <<treeVars, stopAsked, pipeVars>>

(* The caller drops the future: kill_on_drop reaches the command alone.    *)
Abandon ==
  /\ call \notin {"idle", "done"}
  /\ leader' = IF leader \in {"alive", "zombie"} THEN "reaped" ELSE leader
  /\ call' = "done" /\ outcome' = "abandoned"
  /\ UNCHANGED <<descendant, stopAsked, pipeVars>>

AskStop ==
  /\ ~stopAsked /\ call # "done"
  /\ stopAsked' = TRUE
  /\ UNCHANGED <<treeVars, call, outcome, pipeVars>>

-----------------------------------------------------------------------------
(* read_bounded: all of it is read, and kept up to the limit.              *)
Holders == {p \in {leader} : p = "alive"} \cup {p \in {descendant} : p \in {"grouped", "escaped"}}

(* Mutant: output that just fits counts as truncated.                      *)
ReadTouchesLimit(s) ==
  /\ collector[s] = "reading"
  /\ \E count \in 1..(written[s] - drained[s]) :
       LET remaining == OutputLimit - kept[s] IN
       /\ drained' = [drained EXCEPT ![s] = @ + count]
       /\ kept' = [kept EXCEPT ![s] = @ + IF count < remaining THEN count ELSE remaining]
       /\ overLimit' = [overLimit EXCEPT ![s] = @ \/ count >= remaining]
  /\ UNCHANGED <<treeVars, stopAsked, call, outcome, written, collector>>

ReadBounded(s) ==
  /\ collector[s] = "reading"
  /\ \E count \in 1..(written[s] - drained[s]) :
       LET remaining == OutputLimit - kept[s] IN
       /\ drained' = [drained EXCEPT ![s] = @ + count]
       /\ kept' = [kept EXCEPT ![s] = @ + IF count < remaining THEN count ELSE remaining]
       /\ overLimit' = [overLimit EXCEPT ![s] = @ \/ count > remaining]
  /\ UNCHANGED <<treeVars, stopAsked, call, outcome, written, collector>>

ReadEof(s) ==
  /\ collector[s] = "reading" /\ drained[s] = written[s] /\ Holders = {}
  /\ collector' = [collector EXCEPT ![s] = "done"]
  /\ UNCHANGED <<treeVars, stopAsked, call, outcome, written, drained, kept, overLimit>>

ReadFails(s) ==
  /\ collector[s] = "reading"
  /\ collector' = [collector EXCEPT ![s] = "failed"]
  /\ UNCHANGED <<treeVars, stopAsked, call, outcome, written, drained, kept, overLimit>>

-----------------------------------------------------------------------------
(* The command and its descendant do as they like.                         *)
WritePipe(s) ==
  /\ Holders # {} /\ written[s] < MaxWritten
  /\ written' = [written EXCEPT ![s] = @ + 1]
  /\ UNCHANGED <<treeVars, stopAsked, call, outcome, drained, kept, overLimit, collector>>
Fork ==
  /\ leader = "alive" /\ descendant = "none"
  /\ descendant' = "grouped"
  /\ UNCHANGED <<leader, stopAsked, call, outcome, pipeVars>>
LeaveGroup ==
  /\ descendant = "grouped"
  /\ descendant' = "escaped"
  /\ UNCHANGED <<leader, stopAsked, call, outcome, pipeVars>>
Exit ==
  /\ \/ leader = "alive" /\ leader' = "zombie" /\ UNCHANGED descendant
     \/ descendant \in {"grouped", "escaped"} /\ descendant' = "dead" /\ UNCHANGED leader
  /\ UNCHANGED <<stopAsked, call, outcome, pipeVars>>

CallStep ==
  \/ AttachTree \/ TakePipes \/ CommandExits \/ GiveUp("timeout") \/ GiveUp("cancelled")
  \/ GraceEnds \/ KillTree \/ Settle \/ Sweep \/ SweepRest \/ Collect
CollectorStep == \E s \in Streams : ReadBounded(s) \/ ReadEof(s)

ExecNext ==
  \/ SpawnCommand \/ CallStep \/ CollectorStep
  \/ GiveUp("error") \/ Abandon \/ AskStop
  \/ (\E s \in Streams : ReadFails(s) \/ WritePipe(s)) \/ Fork \/ LeaveGroup \/ Exit

(* Timers expire and tasks run; no process has to exit by itself.          *)
ExecFairness == WF_execVars(CallStep) /\ WF_execVars(CollectorStep)

ExecSpec == ExecInit /\ [][ExecNext]_execVars /\ ExecFairness

-----------------------------------------------------------------------------
ExecTypeOK ==
  /\ leader \in {"none", "alive", "zombie", "reaped"}
  /\ descendant \in {"none", "grouped", "escaped", "dead"}
  /\ stopAsked \in BOOLEAN
  /\ call \in Calls /\ outcome \in Outcomes
  /\ written \in [Streams -> 0..MaxWritten]
  /\ drained \in [Streams -> Nat] /\ kept \in [Streams -> Nat]
  /\ overLimit \in [Streams -> BOOLEAN]
  /\ collector \in [Streams -> {"none", "reading", "done", "failed"}]

(* However a call ended, by exit, time limit, cancellation or error, and   *)
(* whatever the group forked meanwhile, nothing of it runs when it         *)
(* returned; only a call that was abandoned may leave descendants.         *)
ReturnLeavesNoGroup ==
  call = "done" /\ outcome # "abandoned" => leader # "alive" /\ descendant # "grouped"

(* A result has all that was written, up to the limit, and says so when it *)
(* is less, however the output was cut into reads.                         *)
OkIsWholeOutput ==
  outcome = "ok" =>
    \A s \in Streams :
      /\ kept[s] = IF written[s] < OutputLimit THEN written[s] ELSE OutputLimit
      /\ overLimit[s] <=> written[s] > OutputLimit

(* Every call returns, unless a descendant outside the group keeps a pipe  *)
(* open: the output is awaited without a limit, and not cancelled.         *)
ExecReturns == call # "idle" ~> call = "done" \/ descendant = "escaped"
=============================================================================
