---------------------------- MODULE RemoteHelper ----------------------------
(***************************************************************************)
(* The remote helper after negotiation (hermito-remote/src/main.rs): its   *)
(* service loop, which dispatches one message at a time and waits when it  *)
(* has something to say, the operations and PTYs it runs on the side, the  *)
(* semaphore that bounds the bytes of its replies, and how it ends.        *)
(*                                                                         *)
(* The budget is reserved for a reply at the largest size of its class:    *)
(* for an operation before it runs, for everything else when it is sent;   *)
(* it is given back when the reply has been written.  Reserving and then   *)
(* waiting for a place in the queue is one step here.                      *)
(***************************************************************************)
EXTENDS RemoteWire

CONSTANTS
  MaxOperations,   \* MAX_IN_FLIGHT_OPERATIONS
  MaxPtys,         \* MAX_PTY_SESSIONS
  Budget,          \* FrameLimits.aggregate
  PtyCost,         \* FrameLimits.pty
  ExecCost,        \* FrameLimits.process
  FileCost,        \* FrameLimits.fs
  MaxOutputs       \* PTY_SESSION_BUDGET, in reads

ASSUME HelperAssumption ==
  /\ MaxOperations \in Nat \ {0} /\ MaxPtys \in Nat \ {0} /\ MaxOutputs \in Nat
  /\ Budget \in Nat /\ PtyCost \in 1..Budget
  /\ ExecCost \in 1..Budget /\ FileCost \in 1..Budget

VARIABLES
  helper,      \* serving, closing, joining, waiting, exited: where run is
  joins,       \* the sessions whose end run waits for
  shutdown,    \* the transport's CancellationToken
  saying,      \* the message dispatch waits to send, or Nothing
  tokens,      \* the keys of exec_tokens
  stopped,     \* the execs whose token is cancelled
  operation,   \* the task of a request
  ptys,        \* the keys of ptys
  ptyToken,    \* RemotePty.cancellation
  cleaning,    \* RemotePty.cleanup_started: its child is being killed
  shell,       \* the child; "left": it is dead, but a job of it has its terminal open
  drain,       \* drain_pty
  outputs      \* reads drain_pty has sent

operationVars == <<tokens, stopped, operation>>
shellVars == <<ptys, ptyToken, cleaning, shell, drain, outputs>>
helperVars == <<helper, joins, shutdown, saying, operationVars, shellVars>>

Nothing == [kind |-> "None", id |-> "None"]

HelperTypeOK ==
  /\ helper \in {"serving", "closing", "joining", "waiting", "exited"}
  /\ joins \subseteq Ptys
  /\ shutdown \in BOOLEAN
  /\ saying \in FromHelper \cup {Nothing}
  /\ tokens \subseteq Execs /\ stopped \subseteq Execs
  /\ operation \in [Requests -> {"none", "waiting", "running", "collecting", "replying", "done"}]
  /\ ptys \subseteq Ptys
  /\ ptyToken \in [Ptys -> BOOLEAN] /\ cleaning \in [Ptys -> BOOLEAN]
  /\ shell \in [Ptys -> {"none", "alive", "left", "dead"}]
  /\ drain \in [Ptys -> {"none", "reading", "ending", "removing", "done"}]
  /\ outputs \in [Ptys -> 0..MaxOutputs]

HelperInit ==
  /\ helper = "serving" /\ joins = {} /\ shutdown = FALSE /\ saying = Nothing
  /\ tokens = {} /\ stopped = {}
  /\ operation = [r \in Requests |-> "none"]
  /\ ptys = {}
  /\ ptyToken = [s \in Ptys |-> FALSE]
  /\ cleaning = [s \in Ptys |-> FALSE]
  /\ shell = [s \in Ptys |-> "none"]
  /\ drain = [s \in Ptys |-> "none"]
  /\ outputs = [s \in Ptys |-> 0]

-----------------------------------------------------------------------------
Holds(r) == operation[r] \in {"running", "collecting", "replying"}
Queued(S) == Cardinality({n \in DOMAIN replies : replies[n].id \in S})
Reserved ==
  PtyCost * Queued(Ptys)
    + ExecCost * (Cardinality({r \in Execs : Holds(r)}) + Queued(Execs))
    + FileCost * (Cardinality({r \in Files : Holds(r)}) + Queued(Files))
Cost(i) == IF i \in Ptys THEN PtyCost ELSE IF i \in Execs THEN ExecCost ELSE FileCost

Fits(i) == Reserved + Cost(i) <= Budget
Slot == Len(replies) < ReplyQueue
Say(m) == Fits(m.id) /\ Slot /\ replies' = Append(replies, m)

InFlight == {r \in Requests : operation[r] = "waiting" \/ Holds(r)}

(* RemotePty::cancel for the sessions of S.                                *)
Cancelled(S) ==
  /\ ptyToken' = [s \in Ptys |-> s \in S \/ ptyToken[s]]
  /\ cleaning' = [s \in Ptys |-> s \in S \/ cleaning[s]]

-----------------------------------------------------------------------------
(* dispatch.  An operation gets a slot or is refused; only exec has a      *)
(* token.                                                                  *)
Begin(r) ==
  /\ UNCHANGED <<stopped, shellVars>>
  /\ \/ /\ Cardinality(InFlight) >= MaxOperations
        /\ saying' = Msg("Result", r)
        /\ UNCHANGED <<tokens, operation>>
     \/ /\ Cardinality(InFlight) < MaxOperations
        /\ operation' = [operation EXCEPT ![r] = "waiting"]
        /\ tokens' = tokens \cup ({r} \cap Execs)
        /\ UNCHANGED saying

CancelExec(r) ==
  /\ tokens' = tokens \ {r}
  /\ stopped' = stopped \cup ({r} \cap tokens)
  /\ UNCHANGED <<saying, operation, shellVars>>

EarlyDrain(s) == drain' = [drain EXCEPT ![s] = "reading"]  \* mutant: read at once

(* The drain starts once Started is in the queue.                          *)
DrainAtSpawn(s) == UNCHANGED drain
Spawn(s) ==
  /\ UNCHANGED <<operationVars, ptyToken, cleaning, outputs>>
  /\ \/ /\ saying' = Msg("Lost", s)
        /\ UNCHANGED <<ptys, shell, drain>>
     \/ /\ Cardinality(ptys) < MaxPtys
        /\ ptys' = ptys \cup {s}
        /\ shell' = [shell EXCEPT ![s] = "alive"]
        /\ DrainAtSpawn(s)
        /\ saying' = Msg("Started", s)

ForgetPty(s) ==                         \* mutant: its child is not killed
  /\ ptys' = ptys \ {s}
  /\ saying' = Msg("Lost", s)
  /\ UNCHANGED <<operationVars, ptyToken, cleaning, shell, drain, outputs>>

LosePty(s) ==
  /\ ptys' = ptys \ {s}
  /\ Cancelled({s})
  /\ saying' = Msg("Lost", s)
  /\ UNCHANGED <<operationVars, shell, drain, outputs>>

(* Its input queue may be full, and the resize of a PTY may fail.          *)
Input(s) ==
  \/ UNCHANGED <<saying, operationVars, shellVars>>
  \/ s \in ptys /\ ~ptyToken[s] /\ LosePty(s)
ResizePty(s) ==
  \/ UNCHANGED <<saying, operationVars, shellVars>>
  \/ s \in ptys /\ LosePty(s)

CancelSession(s) ==
  \/ s \notin ptys /\ UNCHANGED <<saying, operationVars, shellVars>>
  \/ /\ s \in ptys
     /\ ptys' = ptys \ {s}
     /\ Cancelled({s})
     /\ saying' = Msg("Exited", s)
     /\ UNCHANGED <<operationVars, shell, drain, outputs>>

Dispatch ==
  /\ helper = "serving" /\ saying = Nothing
  /\ stdin # <<>>
  /\ stdin' = Tail(stdin)
  /\ LET m == Head(stdin) IN
       \/ m.kind = "Begin" /\ Begin(m.id)
       \/ m.kind = "CancelExec" /\ CancelExec(m.id)
       \/ m.kind = "Spawn" /\ Spawn(m.id)
       \/ m.kind = "Input" /\ Input(m.id)
       \/ m.kind = "Resize" /\ ResizePty(m.id)
       \/ m.kind = "Cancel" /\ CancelSession(m.id)
  /\ UNCHANGED <<helper, joins, shutdown, link, outbound, replies, stdout>>

(* The rest of dispatch: what it has to say is queued, or the transport is *)
(* shutting down and the service ends with an error.                       *)
FinishDispatch ==
  /\ saying # Nothing
  /\ saying' = Nothing
  /\ \/ /\ Say(saying)
        /\ drain' = IF saying.kind = "Started"
                      THEN [drain EXCEPT ![saying.id] = "reading"] ELSE drain
        /\ UNCHANGED <<helper, ptys, ptyToken, cleaning>>
     \/ /\ shutdown
        /\ helper' = "closing"
        /\ IF saying.kind = "Started"
             THEN ptys' = ptys \ {saying.id} /\ Cancelled({saying.id})
             ELSE UNCHANGED <<ptys, ptyToken, cleaning>>
        /\ UNCHANGED <<drain, replies>>
  /\ UNCHANGED <<joins, shutdown, operationVars, shell, outputs,
                 link, outbound, stdin, stdout>>

-----------------------------------------------------------------------------
(* The writer task.  A write to a broken connection shuts the helper down. *)
WriteReply ==
  /\ ~shutdown /\ helper # "exited"
  /\ replies # <<>>
  /\ \/ /\ link /\ Len(stdout) < PipeSize
        /\ stdout' = Append(stdout, Head(replies))
        /\ replies' = Tail(replies)
        /\ UNCHANGED shutdown
     \/ /\ ~link
        /\ shutdown' = TRUE
        /\ replies' = <<>>
        /\ UNCHANGED stdout
  /\ UNCHANGED <<helper, joins, saying, operationVars, shellVars, link, outbound, stdin>>

-----------------------------------------------------------------------------
(* An operation waits for the budget of its reply, runs and replies.       *)
Reserve(r) ==
  /\ helper # "exited" /\ operation[r] = "waiting"
  /\ \/ Fits(r) /\ operation' = [operation EXCEPT ![r] = "running"]
     \/ (r \in stopped \/ shutdown) /\ operation' = [operation EXCEPT ![r] = "done"]
  /\ UNCHANGED <<helper, joins, shutdown, saying, tokens, stopped, shellVars, wire>>

NoTimeLimit(r) == r \in stopped       \* mutant: only a Cancel stops it

(* An exec that is cancelled, reaches its time limit or cannot start.      *)
Stops(r) == TRUE
StopExec(r) ==
  /\ helper # "exited" /\ r \in Execs /\ operation[r] = "running"
  /\ Stops(r)
  /\ operation' = [operation EXCEPT ![r] = "replying"]
  /\ tokens' = tokens \ {r}
  /\ UNCHANGED <<helper, joins, shutdown, saying, stopped, shellVars, wire>>

(* An exec whose child has exited waits for the end of its output, without *)
(* a limit and whatever its token says; a file operation has no limit.     *)
OperationEnds(r) ==
  /\ helper # "exited"
  /\ \/ /\ r \in Execs /\ operation[r] = "running"
        /\ operation' = [operation EXCEPT ![r] = "collecting"]
        /\ UNCHANGED tokens
     \/ /\ operation[r] = IF r \in Execs THEN "collecting" ELSE "running"
        /\ operation' = [operation EXCEPT ![r] = "replying"]
        /\ tokens' = tokens \ {r}
  /\ UNCHANGED <<helper, joins, shutdown, saying, stopped, shellVars, wire>>

Reply(r) ==
  /\ helper # "exited" /\ operation[r] = "replying"
  /\ operation' = [operation EXCEPT ![r] = "done"]
  /\ \/ Slot /\ replies' = Append(replies, Msg("Result", r))
     \/ shutdown /\ UNCHANGED replies
  /\ UNCHANGED <<helper, joins, shutdown, saying, tokens, stopped, shellVars,
                 link, outbound, stdin, stdout>>

-----------------------------------------------------------------------------
(* A PTY's child dies by itself, or because its process group is killed;   *)
(* a job in another group may keep the terminal open.                      *)
ShellDies(s) ==
  /\ shell[s] = "alive"
  /\ \E left \in {"left", "dead"} : shell' = [shell EXCEPT ![s] = left]
  /\ UNCHANGED <<helper, joins, shutdown, saying, operationVars, ptys, ptyToken, cleaning,
                 drain, outputs, wire>>
JobEnds(s) ==
  /\ shell[s] = "left"
  /\ shell' = [shell EXCEPT ![s] = "dead"]
  /\ UNCHANGED <<helper, joins, shutdown, saying, operationVars, ptys, ptyToken, cleaning,
                 drain, outputs, wire>>

(* The worker that writes its input fails.                                 *)
InputFails(s) ==
  /\ drain[s] # "none" /\ ~ptyToken[s] /\ shell[s] # "none"
  /\ Cancelled({s})
  /\ UNCHANGED <<helper, joins, shutdown, saying, operationVars, ptys, shell, drain, outputs,
                 wire>>

(* drain_pty.  Output that cannot be queued at once, or exceeds the        *)
(* session's budget, ends it; a cancelled session ends after this read.    *)
StopsReading(s) ==
  /\ drain' = [drain EXCEPT ![s] = "ending"]
  /\ ptyToken' = [ptyToken EXCEPT ![s] = TRUE]

DrainReads(s) ==
  /\ drain[s] = "reading"
  /\ \/ /\ outputs[s] < MaxOutputs /\ ~shutdown
        /\ Say(Msg("Output", s))
        /\ outputs' = [outputs EXCEPT ![s] = @ + 1]
        /\ IF ptyToken[s] THEN StopsReading(s) ELSE UNCHANGED <<drain, ptyToken>>
     \/ /\ outputs[s] = MaxOutputs \/ ~Fits(s) \/ ~Slot \/ shutdown
        /\ StopsReading(s)
        /\ UNCHANGED <<outputs, replies>>
  /\ UNCHANGED <<helper, joins, shutdown, saying, operationVars, ptys, cleaning, shell,
                 link, outbound, stdin, stdout>>

(* The end of the output: nobody has the terminal open any more.           *)
DrainEnds(s) ==
  /\ drain[s] = "reading"
  /\ shell[s] = "dead"
  /\ StopsReading(s)
  /\ UNCHANGED <<helper, joins, shutdown, saying, operationVars, ptys, cleaning, shell,
                 outputs, wire>>

QuietEnd(s) == UNCHANGED replies        \* mutant: the end is not reported
EndReported(s) == Say(Msg("Exited", s))
DrainReports(s) ==
  /\ drain[s] = "ending"
  /\ drain' = [drain EXCEPT ![s] = "removing"]
  /\ \/ EndReported(s)
     \/ shutdown /\ UNCHANGED replies
  /\ UNCHANGED <<helper, joins, shutdown, saying, operationVars, ptys, ptyToken, cleaning,
                 shell, outputs, link, outbound, stdin, stdout>>

DrainRemoves(s) ==
  /\ drain[s] = "removing"
  /\ drain' = [drain EXCEPT ![s] = "done"]
  /\ ptys' = ptys \ {s}
  /\ Cancelled({s} \cap ptys)
  /\ UNCHANGED <<helper, joins, shutdown, saying, operationVars, shell, outputs, wire>>

-----------------------------------------------------------------------------
(* The end of run: the input is closed or the transport shuts down;        *)
(* sessions in the map are cancelled and their children awaited, then the  *)
(* execs are cancelled and awaited; the runtime waits for what drains the  *)
(* PTYs.  A session that left the map earlier is killed by a thread nobody *)
(* waits for.                                                              *)
ServiceEnds ==
  /\ helper = "serving" /\ saying = Nothing
  /\ shutdown \/ (~link /\ stdin = <<>>)
  /\ helper' = "closing"
  /\ shutdown' = TRUE
  /\ UNCHANGED <<joins, saying, operationVars, shellVars, wire>>

LeavesThem(S) == UNCHANGED <<ptyToken, cleaning>>   \* mutant: nobody kills them

KillsThem(S) == Cancelled(S)
CancelSessions ==
  /\ helper = "closing"
  /\ helper' = "joining"
  /\ ptys' = {}
  /\ joins' = ptys
  /\ KillsThem(ptys)
  /\ UNCHANGED <<shutdown, saying, operationVars, shell, drain, outputs, wire>>

CancelExecs ==
  /\ helper = "joining"
  /\ \A s \in joins : shell[s] # "alive"
  /\ helper' = "waiting"
  /\ stopped' = stopped \cup tokens
  /\ tokens' = {}
  /\ UNCHANGED <<joins, shutdown, saying, operation, shellVars, wire>>

Exit ==
  /\ helper = "waiting"
  /\ \A r \in Execs : operation[r] \in {"none", "done"}
  /\ \A s \in Ptys : drain[s] \in {"none", "done"}
  /\ helper' = "exited"
  /\ UNCHANGED <<joins, shutdown, saying, operationVars, shellVars, wire>>

HelperNext ==
  \/ Dispatch \/ FinishDispatch \/ WriteReply
  \/ ServiceEnds \/ CancelSessions \/ CancelExecs \/ Exit
  \/ \E r \in Requests : Reserve(r) \/ StopExec(r) \/ OperationEnds(r) \/ Reply(r)
  \/ \E s \in Ptys :
       \/ ShellDies(s) \/ JobEnds(s) \/ InputFails(s)
       \/ DrainReads(s) \/ DrainEnds(s) \/ DrainReports(s) \/ DrainRemoves(s)
=============================================================================
