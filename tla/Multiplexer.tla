----------------------------- MODULE Multiplexer -----------------------------
(***************************************************************************)
(* The host's end of a negotiated connection: requests that wait for their *)
(* answer and the task that forwards a caller's cancellation               *)
(* (authority/ssh.rs, Multiplexer::request), PTY streams from registration *)
(* to the drop of their handle (RemotePtySession in pty/session.rs), the   *)
(* writer and reader tasks, and mark_lost.                                 *)
(*                                                                         *)
(* mark_lost is one step: what runs between its locks finds alive FALSE,   *)
(* and a stream or request that got in before its map was emptied is       *)
(* treated like one that was there all along.  The loss report itself is   *)
(* in SshAuthority.                                                        *)
(***************************************************************************)
EXTENDS RemoteWire

CONSTANTS
  MaxPending,      \* MAX_PENDING_REQUESTS
  StreamQueue,     \* PTY_STREAM_QUEUE
  MaxCommands      \* bound: inputs, resizes and cancellations of one session

ASSUME HostAssumption ==
  MaxPending \in Nat \ {0} /\ StreamQueue \in Nat \ {0} /\ MaxCommands \in Nat

VARIABLES
  alive,       \* Inner.alive
  aborting,    \* abort has spawned a mark_lost that has not run
  pending,     \* the keys of Inner.pending
  answered,    \* the answer is in the request's oneshot channel
  request,     \* where a request's caller is
  cancelled,   \* the caller's cancellation token
  forwarder,   \* exec's cancel_forwarder task
  streams,     \* the keys of Inner.pty_streams
  queue,       \* a stream's channel
  reading,     \* its receiver exists
  session,     \* where spawn is, then RemotePtySession.state
  spawnToken,  \* spawn's cancellation token
  commands     \* inputs, resizes and cancellations so far

requestVars == <<pending, answered, request, cancelled, forwarder>>
ptyVars == <<streams, queue, reading, session, spawnToken, commands>>
hostVars == <<alive, aborting, requestVars, ptyVars>>

Settled == {"answered", "refused", "closed", "cancelled", "timedout"}
RequestStage == {"none", "checked", "sending", "awaiting"} \cup Settled

(* opening, registered, starting and cancelling are steps of spawn; failed *)
(* is its error.  Running, Exited and Lost are the states of a handle.     *)
Handle == {"Running", "Exited", "Lost"}
SessionStage ==
  {"none", "opening", "registered", "starting", "cancelling", "failed", "dropped"}
    \cup Handle

HostTypeOK ==
  /\ alive \in BOOLEAN /\ aborting \in BOOLEAN
  /\ pending \subseteq Requests /\ answered \subseteq Requests
  /\ request \in [Requests -> RequestStage]
  /\ cancelled \in [Execs -> BOOLEAN]
  /\ forwarder \in [Execs -> {"none", "watching", "done"}]
  /\ streams \subseteq Ptys
  /\ queue \in [Ptys -> Seq(FromHelper)]
  /\ \A s \in Ptys : Len(queue[s]) <= StreamQueue
  /\ reading \in [Ptys -> BOOLEAN]
  /\ session \in [Ptys -> SessionStage]
  /\ spawnToken \in [Ptys -> BOOLEAN]
  /\ commands \in [Ptys -> 0..MaxCommands]

HostInit ==
  /\ alive = TRUE /\ aborting = FALSE
  /\ pending = {} /\ answered = {}
  /\ request = [r \in Requests |-> "none"]
  /\ cancelled = [r \in Execs |-> FALSE]
  /\ forwarder = [r \in Execs |-> "none"]
  /\ streams = {}
  /\ queue = [s \in Ptys |-> <<>>]
  /\ reading = [s \in Ptys |-> FALSE]
  /\ session = [s \in Ptys |-> "none"]
  /\ spawnToken = [s \in Ptys |-> FALSE]
  /\ commands = [s \in Ptys |-> 0]

-----------------------------------------------------------------------------
Room == Len(outbound) < OutboundQueue
Send(m) == alive /\ Room /\ outbound' = Append(outbound, m)

Deliverable(s) == reading[s] /\ Len(queue[s]) < StreamQueue

(* Every stream of S is told, as far as there is room; the senders of      *)
(* streams and requests are dropped, the writer stops, ssh is killed.      *)
Lose(S) ==
  /\ alive' = FALSE
  /\ link' = FALSE
  /\ streams' = {}
  /\ queue' = [s \in Ptys |-> IF s \in S /\ Deliverable(s)
                              THEN Append(queue[s], Msg("Lost", s)) ELSE queue[s]]
  /\ pending' = {}
  /\ outbound' = <<>>
  /\ stdin' \in Prefixes(stdin)
  /\ UNCHANGED replies

MarkLost == Lose(streams) /\ stdout' = <<>>

(* The reader and the writer find the connection broken.                   *)
TransportFails ==
  /\ alive /\ ~link
  /\ MarkLost
  /\ UNCHANGED <<aborting, answered, request, cancelled, forwarder, reading, session,
                 spawnToken, commands>>

Abort ==
  /\ aborting
  /\ aborting' = FALSE
  /\ \/ alive /\ MarkLost
     \/ ~alive /\ UNCHANGED <<alive, streams, queue, pending, wire>>
  /\ UNCHANGED <<answered, request, cancelled, forwarder, reading, session,
                 spawnToken, commands>>

(* Multiplexer::shutdown, from SshAuthority::disconnect.                   *)
Shutdown ==
  /\ alive
  /\ MarkLost
  /\ UNCHANGED <<aborting, answered, request, cancelled, forwarder, reading, session,
                 spawnToken, commands>>

Write ==
  /\ alive /\ link
  /\ outbound # <<>> /\ Len(stdin) < PipeSize
  /\ stdin' = Append(stdin, Head(outbound))
  /\ outbound' = Tail(outbound)
  /\ UNCHANGED <<link, replies, stdout, hostVars>>

-----------------------------------------------------------------------------
(* The reader task, route_message.  An answer to a request that gave up is *)
(* dropped.                                                                *)
RouteResult(r) ==
  /\ pending' = pending \ {r}
  /\ answered' = IF r \in pending THEN answered \cup {r} ELSE answered
  /\ UNCHANGED <<alive, aborting, request, cancelled, forwarder, ptyVars,
                 link, outbound, stdin, replies>>

Routed(s, m) ==
  /\ queue' = [queue EXCEPT ![s] = Append(@, m)]
  /\ UNCHANGED <<alive, aborting, requestVars, reading, session, spawnToken, commands,
                 link, outbound, stdin, replies>>

(* The end of a stream takes its entry away, delivered or not.             *)
RouteEnd(s, m) ==
  /\ streams' = streams \ {s}
  /\ \/ s \in streams /\ Deliverable(s) /\ Routed(s, m)
     \/ ~(s \in streams /\ Deliverable(s))
        /\ UNCHANGED <<alive, aborting, requestVars, queue, reading, session,
                       spawnToken, commands, link, outbound, stdin, replies>>

(* A stream nobody reads, or not fast enough, is given up and cancelled;   *)
(* the transport with it if even that message finds no room.               *)
Overflow(s) ==
  \/ /\ Room
     /\ streams' = streams \ {s}
     /\ outbound' = Append(outbound, Msg("Cancel", s))
     /\ UNCHANGED <<alive, aborting, requestVars, queue, reading, session, spawnToken,
                    commands, link, stdin, replies>>
  \/ /\ ~Room
     /\ Lose(streams \ {s})
     /\ UNCHANGED <<aborting, answered, request, cancelled, forwarder, reading, session,
                    spawnToken, commands>>

RouteOutput(s, m) ==
  \/ s \in streams /\ Deliverable(s) /\ Routed(s, m) /\ UNCHANGED streams
  \/ s \in streams /\ ~Deliverable(s) /\ Overflow(s)
  \/ s \notin streams /\ UNCHANGED <<hostVars, link, outbound, stdin, replies>>

RouteMessage ==
  /\ alive
  /\ stdout # <<>>
  /\ stdout' = Tail(stdout)
  /\ LET m == Head(stdout) IN
       \/ m.kind = "Result" /\ RouteResult(m.id)
       \/ m.kind \in {"Started", "Output"} /\ RouteOutput(m.id, m)
       \/ m.kind \in {"Exited", "Lost"} /\ RouteEnd(m.id, m)

-----------------------------------------------------------------------------
(* Requests.  The transport is alive when the caller gets it; exec starts  *)
(* its forwarder before the request is made.                               *)
StartRequest(r) ==
  /\ alive
  /\ request[r] = "none"
  /\ request' = [request EXCEPT ![r] = "checked"]
  /\ forwarder' = [x \in Execs |-> IF x = r THEN "watching" ELSE forwarder[x]]
  /\ UNCHANGED <<alive, aborting, pending, answered, cancelled, ptyVars, wire>>

InsertRequest(r) ==
  /\ request[r] = "checked"
  /\ \/ /\ Cardinality(pending) >= MaxPending
        /\ request' = [request EXCEPT ![r] = "refused"]
        /\ UNCHANGED pending
     \/ /\ Cardinality(pending) < MaxPending
        /\ pending' = pending \cup {r}
        /\ request' = [request EXCEPT ![r] = "sending"]
  /\ UNCHANGED <<alive, aborting, answered, cancelled, forwarder, ptyVars, wire>>

SendRequest(r) ==
  /\ request[r] = "sending"
  /\ \/ /\ Send(Msg("Begin", r))
        /\ request' = [request EXCEPT ![r] = "awaiting"]
        /\ UNCHANGED pending
     \/ /\ ~alive
        /\ pending' = pending \ {r}
        /\ request' = [request EXCEPT ![r] = "closed"]
        /\ UNCHANGED outbound
  /\ UNCHANGED <<alive, aborting, answered, cancelled, forwarder, ptyVars,
                 link, stdin, replies, stdout>>

KeptEntry(r) == pending                          \* mutant: the entry stays

Forgets(r) == pending \ {r}
GaveUp(r, how) ==
  /\ pending' = Forgets(r)
  /\ request' = [request EXCEPT ![r] = how]
AwaitAnswer(r) ==
  /\ request[r] = "awaiting"
  /\ \/ /\ r \in answered
        /\ request' = [request EXCEPT ![r] = "answered"]
        /\ UNCHANGED pending
     \/ /\ r \notin answered /\ r \notin pending
        /\ request' = [request EXCEPT ![r] = "closed"]
        /\ UNCHANGED pending
     \/ r \in Execs /\ cancelled[r] /\ GaveUp(r, "cancelled")
     \/ GaveUp(r, "timedout")
  /\ UNCHANGED <<alive, aborting, answered, cancelled, forwarder, ptyVars, wire>>

(* The caller's token; exec does not ask whether it is cancelled already.  *)
CallerCancels(r) ==
  /\ ~cancelled[r] /\ request[r] \notin Settled
  /\ cancelled' = [cancelled EXCEPT ![r] = TRUE]
  /\ UNCHANGED <<alive, aborting, pending, answered, request, forwarder, ptyVars, wire>>

Forward(r) ==
  /\ forwarder[r] = "watching"
  /\ forwarder' = [forwarder EXCEPT ![r] = "done"]
  /\ \/ /\ cancelled[r]
        /\ \/ Send(Msg("CancelExec", r)) /\ UNCHANGED aborting
           \/ ~(alive /\ Room) /\ aborting' = TRUE /\ UNCHANGED outbound
     \/ /\ ~cancelled[r] /\ request[r] \in Settled
        /\ UNCHANGED <<aborting, outbound>>
  /\ UNCHANGED <<alive, pending, answered, request, cancelled, ptyVars,
                 link, stdin, replies, stdout>>

-----------------------------------------------------------------------------
(* RemotePtySession::spawn.  The transport is alive when spawn_pty gets it *)
(* and may be lost by the time the stream is registered.                   *)
OpenPty(s) ==
  /\ alive
  /\ session[s] = "none"
  /\ session' = [session EXCEPT ![s] = "opening"]
  /\ UNCHANGED <<alive, aborting, requestVars, streams, queue, reading, spawnToken,
                 commands, wire>>

RegisterPty(s) ==
  /\ session[s] = "opening"
  /\ session' = [session EXCEPT ![s] = "registered"]
  /\ streams' = streams \cup {s}
  /\ reading' = [reading EXCEPT ![s] = TRUE]
  /\ UNCHANGED <<alive, aborting, requestVars, queue, spawnToken, commands, wire>>

CancelSpawn(s) ==
  /\ ~spawnToken[s] /\ session[s] \in {"opening", "registered", "starting"}
  /\ spawnToken' = [spawnToken EXCEPT ![s] = TRUE]
  /\ UNCHANGED <<alive, aborting, requestVars, streams, queue, reading, session,
                 commands, wire>>

(* cancel_pty: the entry goes, then Cancel is sent.                        *)
GiveUpSpawn(s) ==
  /\ streams' = streams \ {s}
  /\ session' = [session EXCEPT ![s] = "cancelling"]

SendSpawn(s) ==
  /\ session[s] = "registered"
  /\ \/ /\ ~spawnToken[s] /\ Send(Msg("Spawn", s))
        /\ session' = [session EXCEPT ![s] = "starting"]
        /\ UNCHANGED streams
     \/ (spawnToken[s] \/ ~alive) /\ GiveUpSpawn(s) /\ UNCHANGED outbound
  /\ UNCHANGED <<alive, aborting, requestVars, queue, reading, spawnToken, commands,
                 link, stdin, replies, stdout>>

HasStarted(s) == queue[s] # <<>> /\ Head(queue[s]).kind = "Started"

(* Anything but Started is an error, and so is silence for ten seconds.    *)
AwaitStarted(s) ==
  /\ session[s] = "starting"
  /\ \/ /\ ~spawnToken[s]
        /\ HasStarted(s)
        /\ session' = [session EXCEPT ![s] = "Running"]
        /\ queue' = [queue EXCEPT ![s] = Tail(@)]
        /\ UNCHANGED streams
     \/ /\ spawnToken[s] \/ ~HasStarted(s)
        /\ GiveUpSpawn(s)
        /\ UNCHANGED queue
  /\ UNCHANGED <<alive, aborting, requestVars, reading, spawnToken, commands, wire>>

SendCancelPty(s) ==
  /\ session[s] = "cancelling"
  /\ \/ Send(Msg("Cancel", s))
     \/ ~alive /\ UNCHANGED outbound
  /\ session' = [session EXCEPT ![s] = "failed"]
  /\ reading' = [reading EXCEPT ![s] = FALSE]
  /\ queue' = [queue EXCEPT ![s] = <<>>]
  /\ UNCHANGED <<alive, aborting, requestVars, streams, spawnToken, commands,
                 link, stdin, replies, stdout>>

(* The handle's reader task.  It does not look at what cancel has stored,  *)
(* except when its channel closes without an end.                          *)
ReadPty(s) ==
  /\ reading[s] /\ session[s] \in Handle
  /\ \/ /\ queue[s] # <<>>
        /\ queue' = [queue EXCEPT ![s] = Tail(@)]
        /\ LET k == Head(queue[s]).kind IN
             \/ k \notin {"Exited", "Lost"} /\ UNCHANGED <<session, reading>>
             \/ /\ k \in {"Exited", "Lost"}
                /\ session' = [session EXCEPT ![s] = k]
                /\ reading' = [reading EXCEPT ![s] = FALSE]
     \/ /\ queue[s] = <<>> /\ s \notin streams
        /\ reading' = [reading EXCEPT ![s] = FALSE]
        /\ session' = [session EXCEPT ![s] = IF @ = "Running" THEN "Lost" ELSE @]
        /\ UNCHANGED queue
  /\ UNCHANGED <<alive, aborting, requestVars, streams, spawnToken, commands, wire>>

Command(s) ==
  /\ commands[s] < MaxCommands
  /\ commands' = [commands EXCEPT ![s] = @ + 1]

(* write_input and resize; an error changes nothing.                       *)
WriteInput(s) ==
  /\ session[s] = "Running"
  /\ Command(s) /\ Send(Msg("Input", s))
  /\ UNCHANGED <<alive, aborting, requestVars, streams, queue, reading, session,
                 spawnToken, link, stdin, replies, stdout>>

Resize(s) ==
  /\ session[s] \in Handle
  /\ Command(s) /\ Send(Msg("Resize", s))
  /\ UNCHANGED <<alive, aborting, requestVars, streams, queue, reading, session,
                 spawnToken, link, stdin, replies, stdout>>

TellCancel(s) ==
  \/ Send(Msg("Cancel", s)) /\ UNCHANGED aborting
  \/ ~(alive /\ Room) /\ aborting' = TRUE /\ UNCHANGED outbound
SilentDrop(s) == UNCHANGED <<aborting, outbound>>   \* mutant: drop tells nobody

CancelPty(s) ==
  /\ session[s] \in Handle
  /\ Command(s) /\ TellCancel(s)
  /\ session' = [session EXCEPT ![s] = IF alive /\ Room THEN "Exited" ELSE "Lost"]
  /\ UNCHANGED <<alive, requestVars, streams, queue, reading, spawnToken,
                 link, stdin, replies, stdout>>

(* The stream's entry stays until an end is routed or a send to it fails.  *)
OnDrop(s) == TellCancel(s)
DropPty(s) ==
  /\ session[s] \in Handle
  /\ OnDrop(s)
  /\ session' = [session EXCEPT ![s] = "dropped"]
  /\ reading' = [reading EXCEPT ![s] = FALSE]
  /\ queue' = [queue EXCEPT ![s] = <<>>]
  /\ UNCHANGED <<alive, requestVars, streams, spawnToken, commands,
                 link, stdin, replies, stdout>>

-----------------------------------------------------------------------------
HostRequest(r) ==
  StartRequest(r) \/ InsertRequest(r) \/ SendRequest(r) \/ AwaitAnswer(r)
HostExec(r) == CallerCancels(r) \/ Forward(r)
HostPty(s) ==
  \/ OpenPty(s) \/ RegisterPty(s) \/ CancelSpawn(s) \/ SendSpawn(s) \/ AwaitStarted(s)
  \/ SendCancelPty(s) \/ ReadPty(s)
  \/ WriteInput(s) \/ Resize(s) \/ CancelPty(s) \/ DropPty(s)

HostNext ==
  \/ TransportFails \/ Abort \/ Shutdown \/ Write \/ RouteMessage
  \/ \E r \in Requests : HostRequest(r)
  \/ \E r \in Execs : HostExec(r)
  \/ \E s \in Ptys : HostPty(s)
=============================================================================
