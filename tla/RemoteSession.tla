---------------------------- MODULE RemoteSession ----------------------------
(***************************************************************************)
(* One connection to a remote helper, from negotiation to its end: the     *)
(* host's Multiplexer and the RemoteHelper with the pipe between them.     *)
(***************************************************************************)
EXTENDS Multiplexer, RemoteHelper

sessionVars == <<hostVars, helperVars, wire>>

Init == WireInit /\ HostInit /\ HelperInit

Next ==
  \/ HostNext /\ UNCHANGED helperVars
  \/ HelperNext /\ UNCHANGED hostVars
  \/ LinkBreaks /\ UNCHANGED <<hostVars, helperVars>>

(* A step of the program or of a task the runtime schedules is taken       *)
(* eventually; what waits for a place in a queue or for the budget is      *)
(* served in its turn (tokio's channels and semaphores are fair).  What    *)
(* users, callers, the network and a healthy child do is not promised, nor *)
(* that an operation ends by itself: only the time limit of an exec ends   *)
(* it.  A child that is being killed dies while the helper is there to     *)
(* kill it (that the interrupt typed before the kill finds room in its     *)
(* terminal is assumed), and when the helper is gone its terminal hangs    *)
(* up.  The runtime waits for a file operation it runs.                    *)
HostStep(A) == A /\ UNCHANGED helperVars
HelperStep(A) == A /\ UNCHANGED hostVars

HostFairness ==
  /\ WF_sessionVars(HostStep(TransportFails \/ Abort))
  /\ WF_sessionVars(HostStep(Write))
  /\ WF_sessionVars(HostStep(RouteMessage))
  /\ \A r \in Requests :
       /\ WF_sessionVars(HostStep(InsertRequest(r) \/ AwaitAnswer(r)))
       /\ SF_sessionVars(HostStep(SendRequest(r)))
  /\ \A r \in Execs : WF_sessionVars(HostStep(Forward(r)))
  /\ \A s \in Ptys :
       /\ WF_sessionVars(HostStep(RegisterPty(s) \/ AwaitStarted(s) \/ ReadPty(s)))
       /\ SF_sessionVars(HostStep(SendSpawn(s) \/ SendCancelPty(s)))

HelperFairness ==
  /\ WF_sessionVars(HelperStep(Dispatch \/ ServiceEnds))
  /\ SF_sessionVars(HelperStep(FinishDispatch))
  /\ WF_sessionVars(HelperStep(WriteReply))
  /\ WF_sessionVars(HelperStep(CancelSessions \/ CancelExecs))
  /\ WF_sessionVars(HelperStep(Exit) /\ {f \in Files : operation[f] = "running"} = {})
  /\ \A r \in Requests :
       /\ SF_sessionVars(HelperStep(Reserve(r) \/ Reply(r)))
       /\ WF_sessionVars(HelperStep(StopExec(r)))
  /\ \A s \in Ptys :
       /\ WF_sessionVars((cleaning[s] \/ helper = "exited") /\ HelperStep(ShellDies(s)))
       /\ WF_sessionVars(HelperStep(DrainEnds(s)))
       /\ SF_sessionVars(HelperStep(DrainReports(s)))
       /\ WF_sessionVars(HelperStep(DrainRemoves(s)))

Spec == Init /\ [][Next]_sessionVars
FairSpec == Spec /\ HostFairness /\ HelperFairness

-----------------------------------------------------------------------------
TypeOK == WireTypeOK /\ HostTypeOK /\ HelperTypeOK

(* An entry of the pending map belongs to a request somebody waits for: a  *)
(* request that was refused, cancelled, timed out or closed leaves none    *)
(* behind, or 64 of them would refuse every later request.                 *)
PendingIsAwaited ==
  \A r \in pending : request[r] \in {"sending", "awaiting"}

(* What a stream receives first is Started, or Lost; spawn takes anything  *)
(* else for a protocol error.                                              *)
StartedComesFirst ==
  \A s \in Ptys : session[s] = "starting" /\ queue[s] # <<>>
                    => Head(queue[s]).kind \in {"Started", "Lost"}

(* A session shown as running is one the helper still keeps, or news of    *)
(* its end is on its way to the session: dispatch or the drain is about to *)
(* say it, it is in a queue, or the stream was closed at the host.         *)
EndFor(q, s) == In(q, "Exited", s) \/ In(q, "Lost", s)
RunningIsBacked ==
  \A s \in Ptys : session[s] = "Running" =>
    \/ s \in ptys
    \/ drain[s] \in {"reading", "ending"}
    \/ saying \in {Msg("Exited", s), Msg("Lost", s)}
    \/ EndFor(replies, s) \/ EndFor(stdout, s) \/ EndFor(queue[s], s)
    \/ s \notin streams
    \/ ~link

(* No shell goes on for nobody: a stream whose handle is gone, or shows    *)
(* the end of its session, has no shell that runs on, started by then or   *)
(* not.  Its child is dead or being killed, or its Cancel is on the way    *)
(* behind the Spawn, or the connection ends.                               *)
Asked == stdin \o outbound
SpawnComing(s) == In(Asked, "Spawn", s)
CancelLast(q, s) ==
  \E n \in DOMAIN q : q[n] = Msg("Cancel", s) /\ \A k \in n..Len(q) : q[k] # Msg("Spawn", s)
Doomed(s) == shell[s] # "alive" \/ cleaning[s] \/ drain[s] = "removing"
EndedIsCut ==
  \A s \in Ptys : session[s] \in {"failed", "dropped", "Exited", "Lost"} =>
    \/ ~SpawnComing(s) /\ Doomed(s)
    \/ CancelLast(Asked, s)
    \/ aborting
    \/ ~link

(* What a handle shows is so: behind one that shows a running session is   *)
(* one, or its end is under way; behind one that is gone or shows an end   *)
(* nothing goes on (the message races of spawn, cancel, drop and drain).   *)
HandlesAreTrue == RunningIsBacked /\ EndedIsCut

(* A spawn that failed and a handle that was dropped leave nothing behind: *)
(* their stream's entry goes and their shell, started by then or not, does *)
(* not stay alive.                                                         *)
EndedHandleLeavesNothing ==
  \A s \in Ptys :
    session[s] \in {"failed", "dropped"} ~> [](s \notin streams /\ shell[s] # "alive")

(* What nothing in the helper ends: an exec whose output a process outside *)
(* its group keeps open, a file operation, and the read of a terminal that *)
(* a job of the dead shell keeps open.                                     *)
Unending ==
  {r \in Requests : operation[r] = "collecting"} \cup {f \in Files : operation[f] = "running"}
Blocked == Unending # {} \/ \E s \in Ptys : shell[s] = "left"

(* When the connection is gone the helper comes to its end, whatever it    *)
(* was doing (the plan's stdin-EOF watchdog), unless somebody else keeps   *)
(* it waiting.                                                             *)
HelperFollowsLink == ~link ~> helper = "exited" \/ Blocked

(* The unending operations leave budget for a reply of every class (one    *)
(* that finds none keeps those behind it in the semaphore's queue).        *)
LargestCost ==
  LET costs == {PtyCost, ExecCost, FileCost}
  IN  CHOOSE cost \in costs : \A other \in costs : other <= cost
KeptPermits == UNION {{r} \X (1..Cost(r)) : r \in Unending}
BudgetLeft == Cardinality(KeptPermits) + LargestCost <= Budget

(* dispatch does not wait for ever for room for what it has to say: what   *)
(* holds the budget gives it back, but for what never ends.                *)
DispatchMoves == saying # Nothing ~> saying = Nothing \/ ~BudgetLeft

(* The plan, phase-02-terminal-and-execution-transport.md:114: the helper  *)
(* "shuts down children on EOF/authenticated shutdown", so no shell is     *)
(* alive when it is gone.  The code does not keep this: a session that a   *)
(* Cancel took out of the map has half a second to end by itself, and the  *)
(* thread that would kill it is not joined (main.rs:136).                  *)
ShellsDieWithHelper ==
  helper = "exited" => \A s \in Ptys : shell[s] # "alive"
=============================================================================
