---------------------------- MODULE SshAuthority ----------------------------
(***************************************************************************)
(* Connecting and disconnecting SSH authorities.  Three parties meet here: *)
(*   - the UI thread (app.rs: trust, overlays, the connection shown;       *)
(*     event_loop.rs: the map of activations in flight and their results), *)
(*   - the tasks it spawns: activations and disconnections of an authority *)
(*     (authority/ssh.rs), serialized by the authority's lifecycle lock,   *)
(*   - the transports to remote helpers (remote/multiplexer.rs), which may *)
(*     be lost at any time, and the watcher of each one.                   *)
(* An aborted activation stops at its next await point, wherever that is.  *)
(*                                                                         *)
(* What the program does until it quits.  An authority's execution trust   *)
(* (an atomic read by the tasks) is stored by the UI handler that changes  *)
(* App's trust and always agrees with it; both are one variable here.      *)
(***************************************************************************)
EXTENDS Integers, Sequences, FiniteSets

CONSTANTS
  Host,           \* the local authority
  Ssh,            \* labels of the configured SSH authorities
  NoTransport,
  MaxTasks,       \* bound: activations (disconnections) of one authority at a time
  MaxTransports   \* bound: helpers launched

ASSUME HostAssumption == Host \notin Ssh
ASSUME SshAssumption == IsFiniteSet(Ssh) /\ Ssh # {}
ASSUME BoundsAssumption == MaxTasks \in Nat \ {0} /\ MaxTransports \in Nat
ASSUME TransportAssumption == NoTransport \notin 1..MaxTransports

Authority == {Host} \cup Ssh
Transport == 1..MaxTransports
TaskId == 1..MaxTasks
None == 0                      \* no activation in flight

VARIABLES
  current,          \* App.current_authority
  trust,            \* AuthorityState.trust: is execution granted (the host's
                    \* decides nothing here and is left out)
  passphrase,       \* ConfiguredSshRuntime.passphrase_required
  overlay,          \* App.overlay
  connection,       \* AuthorityState.connection, what the user is shown
  inFlight,         \* ssh_activation_in_flight: the task of a label, or None
  results,          \* the channel of SshActivationResult
  tasks,            \* activations that have not sent their result
  disconnecting,    \* disconnections spawned and not begun
  slot,             \* SshAuthority.multiplexer
  environmentEpoch, \* SshAuthority.environment_epoch
  launched,         \* how many transports there have been
  owner,            \* the authority of a transport
  generation,       \* Multiplexer.generation
  alive,            \* Multiplexer.alive
  reported,         \* its loss has been sent
  watched,          \* its watcher waits, and will be told
  cut               \* history: revoked in the trust review, not granted since

ui == <<current, trust, overlay, connection, inFlight, passphrase>>
activations == <<tasks, results>>
authority == <<slot, environmentEpoch>>
transports == <<launched, owner, generation, alive, reported, watched>>
sshVars == <<ui, activations, disconnecting, authority, transports, cut>>

-----------------------------------------------------------------------------
Overlay == {"none", "review", "palette", "passphrase"}
Connection == {"Disconnected", "Connecting", "Connected", "Lost"}

(* scanning: the host key is scanned and the lifecycle lock waited for;    *)
(* launching: the helper is verified, installed and started; negotiating:  *)
(* its HelloAck is waited for; finishing: no await is left; sending: the   *)
(* outcome is there and the lock released.                                 *)
Stage == {"scanning", "launching", "negotiating", "finishing", "sending"}
HoldsLock(t) == t.stage \in {"launching", "negotiating", "finishing"}
Unlocked(a) == a \in Ssh                        \* mutant: no lifecycle lock
LockFree(a) == \A t \in tasks : t.auth = a => ~HoldsLock(t)

HasTransport(t) == t.stage \in {"negotiating", "finishing"}
Task ==
  {t \in [auth : Ssh, id : TaskId, stage : Stage,
          tr : Transport \cup {NoTransport}, ok : BOOLEAN] :
     HasTransport(t) <=> t.tr # NoTransport}
NewTask(a, i) ==
  [auth |-> a, id |-> i, stage |-> "scanning", tr |-> NoTransport, ok |-> FALSE]

Connected(a) == slot[a] # NoTransport /\ alive[slot[a]]
Later(m, n) == IF m > n THEN m ELSE n            \* fetch_max

Started == {a \in Ssh : trust[a] /\ ~passphrase[a]}

(* Trust is restored; trusted authorities are activated at once.  App      *)
(* begins on the host.                                                     *)
Init ==
  /\ current = Host
  /\ trust \in [Ssh -> BOOLEAN]
  /\ passphrase \in [Ssh -> BOOLEAN]
  /\ overlay = "none"
  /\ connection = [a \in Ssh |-> IF a \in Started THEN "Connecting" ELSE "Disconnected"]
  /\ inFlight = [a \in Ssh |-> IF a \in Started THEN 1 ELSE None]
  /\ results = <<>>
  /\ tasks = {NewTask(a, 1) : a \in Started}
  /\ disconnecting = [a \in Ssh |-> 0]
  /\ slot = [a \in Ssh |-> NoTransport]
  /\ environmentEpoch = [a \in Ssh |-> 0]
  /\ launched = 0
  /\ owner = [n \in Transport |-> CHOOSE a \in Ssh : TRUE]
  /\ generation = [n \in Transport |-> 0]
  /\ alive = [n \in Transport |-> FALSE]
  /\ reported = [n \in Transport |-> FALSE]
  /\ watched = [n \in Transport |-> FALSE]
  /\ cut = [a \in Ssh |-> FALSE]

-----------------------------------------------------------------------------
(* Input events.  A click on the authority path opens the review and       *)
(* Ctrl+K the palette whatever overlay is shown.                           *)
ReviewTrust ==
  /\ overlay' = "review"
  /\ UNCHANGED <<current, trust, connection, inFlight, passphrase, activations,
                 disconnecting, authority, transports, cut>>

OpenCommandPalette ==
  /\ overlay' = "palette"
  /\ UNCHANGED <<current, trust, connection, inFlight, passphrase, activations,
                 disconnecting, authority, transports, cut>>

(* Granting or revoking the host's execution does as much.                 *)
CancelModal ==
  /\ overlay # "none"
  /\ overlay' = "none"
  /\ UNCHANGED <<current, trust, connection, inFlight, passphrase, activations,
                 disconnecting, authority, transports, cut>>

(* One activation of a label at a time, as far as the map knows.           *)
Dispatch(a) ==
  /\ connection' = [connection EXCEPT ![a] = "Connecting"]
  /\ \E i \in TaskId :
       /\ \A t \in tasks : t.auth = a => t.id # i
       /\ tasks' = tasks \cup {NewTask(a, i)}
       /\ inFlight' = [inFlight EXCEPT ![a] = i]

(* After a grant or a change of authority.  shown: the overlay otherwise.  *)
MayActivate(a) == inFlight[a] = None /\ ~Connected(a)
Activate(a, shown) ==
  \/ /\ MayActivate(a) /\ passphrase[a]
     /\ overlay' = "passphrase"
     /\ UNCHANGED <<connection, tasks, inFlight>>
  \/ /\ MayActivate(a) /\ ~passphrase[a]
     /\ Dispatch(a)
     /\ overlay' = shown
  \/ /\ ~MayActivate(a)
     /\ overlay' = shown
     /\ UNCHANGED <<connection, tasks, inFlight>>

GrantTrust ==
  /\ overlay = "review" /\ current \in Ssh /\ ~trust[current]
  /\ trust' = [trust EXCEPT ![current] = TRUE]
  /\ cut' = [cut EXCEPT ![current] = FALSE]
  /\ Activate(current, "none")
  /\ UNCHANGED <<current, passphrase, results, disconnecting, authority, transports>>

CycleAuthority ==
  /\ overlay = "none"
  /\ \E a \in Authority \ {current} :
       /\ current' = a
       /\ \/ a \in Ssh /\ trust[a] /\ Activate(a, "none")
          \/ (a \in Ssh => ~trust[a]) /\ UNCHANGED <<overlay, connection, tasks, inFlight>>
  /\ UNCHANGED <<trust, passphrase, results, disconnecting, authority, transports,
                 cut>>

(* The passphrase entered is for the current authority; an activation that *)
(* is under way by now makes it void.                                      *)
SshPassphraseSubmit ==
  /\ overlay = "passphrase"
  /\ overlay' = "none"
  /\ \/ inFlight[current] = None /\ Dispatch(current)
     \/ inFlight[current] # None /\ UNCHANGED <<connection, tasks, inFlight>>
  /\ UNCHANGED <<current, trust, passphrase, results, disconnecting, authority,
                 transports, cut>>

(* JoinHandle::abort: the task ends at its next await, if one is left.  A  *)
(* transport it started is neither in the slot nor watched, and lives on.  *)
AwaitLeft(t) == t.stage \in {"scanning", "launching", "negotiating"}
Aborted(a) == {t \in tasks : t.auth = a /\ t.id = inFlight[a] /\ AwaitLeft(t)}

Remembered(a) == inFlight                       \* mutant: the entry is kept
Forgotten(a) == [inFlight EXCEPT ![a] = None]

(* Revoked in the trust review: the activation is aborted and the helper   *)
(* is to be disconnected (bound: MaxTasks disconnections wait).            *)
RevokeTrust ==
  /\ overlay = "review" /\ current \in Ssh /\ trust[current]
  /\ disconnecting[current] < MaxTasks
  /\ overlay' = "none"
  /\ trust' = [trust EXCEPT ![current] = FALSE]
  /\ tasks' = tasks \ Aborted(current)
  /\ inFlight' = Forgotten(current)
  /\ disconnecting' = [disconnecting EXCEPT ![current] = @ + 1]
  /\ connection' = [connection EXCEPT ![current] = "Disconnected"]
  /\ cut' = [cut EXCEPT ![current] = TRUE]
  /\ UNCHANGED <<current, passphrase, results, authority, transports>>

(* Revoked from the palette: App handles it inside ActivateFocused, which  *)
(* the event loop does not take for a revocation.                          *)
PaletteRevokeTrust ==
  /\ overlay = "palette" /\ current \in Ssh /\ trust[current]
  /\ overlay' = "none"
  /\ trust' = [trust EXCEPT ![current] = FALSE]
  /\ UNCHANGED <<current, connection, inFlight, passphrase, activations,
                 disconnecting, authority, transports, cut>>

-----------------------------------------------------------------------------
(* The event loop drains a result and refreshes what is shown.  The entry  *)
(* of the label is removed whichever task the result is from.              *)
Refreshed(shown) ==
  [a \in Ssh |-> IF Connected(a) THEN "Connected"
                 ELSE IF shown[a] = "Connected" THEN "Lost" ELSE shown[a]]

ShownAfterSuccess(r) ==                         \* mutant: a failure is not shown
  IF r.ok THEN [connection EXCEPT ![r.auth] = "Connected"] ELSE connection
ShownAfter(r) ==
  [connection EXCEPT ![r.auth] = IF r.ok THEN "Connected" ELSE "Disconnected"]

ActivationResult ==
  /\ results # <<>>
  /\ inFlight' = [inFlight EXCEPT ![Head(results).auth] = None]
  /\ connection' = Refreshed(ShownAfter(Head(results)))
  /\ results' = Tail(results)
  /\ UNCHANGED <<current, trust, overlay, passphrase, tasks, disconnecting,
                 authority, transports, cut>>

RefreshConnections ==
  /\ connection' = Refreshed(connection)
  /\ connection' # connection
  /\ UNCHANGED <<current, trust, overlay, inFlight, passphrase, activations,
                 disconnecting, authority, transports, cut>>

-----------------------------------------------------------------------------
(* An activation.                                                          *)
Become(t, stage) == tasks' = (tasks \ {t}) \cup {[t EXCEPT !.stage = stage]}
Outcome(t, ok) ==
  tasks' = (tasks \ {t}) \cup
           {[t EXCEPT !.stage = "sending", !.tr = NoTransport, !.ok = ok]}

ScanFails(t) ==
  /\ t.stage = "scanning"
  /\ Outcome(t, FALSE)
  /\ UNCHANGED <<ui, results, disconnecting, authority, transports, cut>>

SameEpoch(a) == environmentEpoch[a]             \* mutant: no fetch_max
EpochAfter(a) ==
  IF slot[a] = NoTransport THEN environmentEpoch[a]
  ELSE Later(environmentEpoch[a], generation[slot[a]])

(* With the lock: a live helper is kept; a stale one is taken out and its  *)
(* generation counted; trust is looked at, once.                           *)
Begin(t) ==
  /\ t.stage = "scanning" /\ LockFree(t.auth)
  /\ \/ Connected(t.auth) /\ Outcome(t, FALSE) /\ UNCHANGED authority
     \/ /\ ~Connected(t.auth)
        /\ slot' = [slot EXCEPT ![t.auth] = NoTransport]
        /\ environmentEpoch' = [environmentEpoch EXCEPT ![t.auth] = EpochAfter(t.auth)]
        /\ \/ trust[t.auth] /\ Become(t, "launching")
           \/ ~trust[t.auth] /\ Outcome(t, FALSE)
  /\ UNCHANGED <<ui, results, disconnecting, transports, cut>>

LaunchFails(t) ==
  /\ t.stage = "launching"
  /\ Outcome(t, FALSE)
  /\ UNCHANGED <<ui, results, disconnecting, authority, transports, cut>>

(* The helper runs; its transport starts at the epoch of the authority.    *)
Launch(t) ==
  /\ t.stage = "launching"
  /\ launched < MaxTransports
  /\ launched' = launched + 1
  /\ owner' = [owner EXCEPT ![launched'] = t.auth]
  /\ generation' = [generation EXCEPT ![launched'] = environmentEpoch[t.auth]]
  /\ alive' = [alive EXCEPT ![launched'] = TRUE]
  /\ tasks' = (tasks \ {t}) \cup {[t EXCEPT !.stage = "negotiating", !.tr = launched']}
  /\ UNCHANGED <<ui, results, disconnecting, authority, reported, watched, cut>>

(* mark_lost, but for the report: a transport dies once (the two stores    *)
(* follow one another at once, a launch in between would take far longer). *)
Dead(n) == [alive EXCEPT ![n] = FALSE]
Advanced(n) == [generation EXCEPT ![n] = IF alive[n] THEN @ + 1 ELSE @]

NegotiationTimesOut(t) ==                       \* mutant: a loss wakes nobody
  /\ t.stage = "negotiating" /\ alive[t.tr]
  /\ alive' = Dead(t.tr)
  /\ generation' = Advanced(t.tr)
  /\ Outcome(t, FALSE)
  /\ UNCHANGED <<ui, results, disconnecting, authority, launched, owner, reported,
                 watched, cut>>

NegotiationFails(t) ==
  /\ t.stage = "negotiating"
  /\ alive' = Dead(t.tr)
  /\ generation' = Advanced(t.tr)
  /\ Outcome(t, FALSE)
  /\ UNCHANGED <<ui, results, disconnecting, authority, launched, owner, reported,
                 watched, cut>>

HelloAck(t) ==
  /\ t.stage = "negotiating" /\ alive[t.tr]
  /\ Become(t, "finishing")
  /\ UNCHANGED <<ui, results, disconnecting, authority, transports, cut>>

(* The loss is subscribed to and looked at once.  A watch channel keeps a  *)
(* report for later receivers only if it has one at the time, so the check *)
(* sees a loss reported just then, but none reported before: that helper   *)
(* is kept, dead, and its watcher waits for ever.                          *)
Finish(t) ==
  /\ t.stage = "finishing"
  /\ \/ /\ ~alive[t.tr] /\ ~reported[t.tr]
        /\ reported' = [reported EXCEPT ![t.tr] = TRUE]
        /\ environmentEpoch' =
             [environmentEpoch EXCEPT ![t.auth] = Later(@, generation[t.tr])]
        /\ Outcome(t, FALSE)
        /\ UNCHANGED <<slot, watched>>
     \/ /\ slot' = [slot EXCEPT ![t.auth] = t.tr]
        /\ watched' = [watched EXCEPT ![t.tr] = ~reported[t.tr]]
        /\ Outcome(t, TRUE)
        /\ UNCHANGED <<reported, environmentEpoch>>
  /\ UNCHANGED <<ui, results, disconnecting, launched, owner, generation, alive,
                 cut>>

(* A blocking send; the channel has room for one result per authority.     *)
SendOutcome(t) ==
  /\ t.stage = "sending"
  /\ Len(results) < Cardinality(Ssh)
  /\ results' = Append(results, [auth |-> t.auth, ok |-> t.ok])
  /\ tasks' = tasks \ {t}
  /\ UNCHANGED <<ui, disconnecting, authority, transports, cut>>

-----------------------------------------------------------------------------
Asked(a) == disconnecting[a] > 0

(* A disconnection takes the helper out under the lock.                    *)
Disconnect(a) ==
  /\ Asked(a) /\ LockFree(a)
  /\ disconnecting' = [disconnecting EXCEPT ![a] = @ - 1]
  /\ \/ slot[a] = NoTransport /\ UNCHANGED <<authority, transports>>
     \/ /\ slot[a] # NoTransport
        /\ slot' = [slot EXCEPT ![a] = NoTransport]
        /\ alive' = Dead(slot[a])
        /\ generation' = Advanced(slot[a])
        /\ environmentEpoch' =
             [environmentEpoch EXCEPT ![a] = Later(@, generation'[slot[a]])]
        /\ UNCHANGED <<launched, owner, reported, watched>>
  /\ UNCHANGED <<ui, activations, cut>>

(* The SSH connection breaks, the helper ends or sends what it must not.   *)
LoseTransport(n) ==
  /\ alive[n]
  /\ alive' = Dead(n)
  /\ generation' = Advanced(n)
  /\ UNCHANGED <<ui, activations, disconnecting, authority, launched, owner,
                 reported, watched, cut>>

(* A report nobody waits for, now or soon, is left out.                    *)
ReportLoss(n) ==
  /\ n <= launched /\ ~alive[n] /\ ~reported[n]
  /\ watched[n] \/ \E t \in tasks : t.tr = n
  /\ reported' = [reported EXCEPT ![n] = TRUE]
  /\ UNCHANGED <<ui, activations, disconnecting, authority, launched, owner,
                 generation, alive, watched, cut>>

SlotAfterLoss(n) == IF slot[owner[n]] = n THEN NoTransport ELSE slot[owner[n]]

(* The watcher empties the slot only if it still holds its transport.      *)
WatchLoss(n) ==
  /\ watched[n] /\ reported[n]
  /\ watched' = [watched EXCEPT ![n] = FALSE]
  /\ environmentEpoch' =
       [environmentEpoch EXCEPT ![owner[n]] = Later(@, generation[n])]
  /\ slot' = [slot EXCEPT ![owner[n]] = SlotAfterLoss(n)]
  /\ UNCHANGED <<ui, activations, disconnecting, launched, owner, generation,
                 alive, reported, cut>>

-----------------------------------------------------------------------------
OverlayStep == ReviewTrust \/ OpenCommandPalette \/ CancelModal \/ SshPassphraseSubmit
TrustStep == GrantTrust \/ RevokeTrust \/ PaletteRevokeTrust
DrainStep == ActivationResult \/ RefreshConnections
TaskStep(t) ==
  \/ ScanFails(t) \/ Begin(t) \/ LaunchFails(t) \/ Launch(t)
  \/ NegotiationFails(t) \/ HelloAck(t) \/ Finish(t) \/ SendOutcome(t)
TransportStep(n) == LoseTransport(n) \/ ReportLoss(n) \/ WatchLoss(n)
BackgroundStep ==
  \/ \E t \in tasks : TaskStep(t)
  \/ \E a \in Ssh : Disconnect(a)
  \/ \E n \in Transport : TransportStep(n)

Next ==
  \/ OverlayStep \/ TrustStep \/ CycleAuthority
  \/ DrainStep \/ BackgroundStep

(* The event loop goes round, every task gets to run, the lock is granted  *)
(* in turn, a blocked send gets its room.  The user owes nothing, and no   *)
(* transport has to be lost; the watchers are owed nothing either.         *)
SshFairness ==
  /\ WF_sshVars(ActivationResult)
  /\ \A a \in Ssh :
       /\ \A i \in TaskId :
            SF_sshVars(\E t \in tasks : t.auth = a /\ t.id = i /\ TaskStep(t))
       /\ SF_sshVars(Disconnect(a))

Spec == Init /\ [][Next]_sshVars /\ SshFairness

-----------------------------------------------------------------------------
(* Every variable has its type.                                            *)
TypeOK ==
  /\ current \in Authority
  /\ trust \in [Ssh -> BOOLEAN]
  /\ passphrase \in [Ssh -> BOOLEAN]
  /\ overlay \in Overlay
  /\ overlay = "passphrase" => current \in Ssh
  /\ connection \in [Ssh -> Connection]
  /\ inFlight \in [Ssh -> TaskId \cup {None}]
  /\ results \in Seq([auth : Ssh, ok : BOOLEAN])
  /\ tasks \subseteq Task
  /\ disconnecting \in [Ssh -> 0..MaxTasks]
  /\ slot \in [Ssh -> Transport \cup {NoTransport}]
  /\ environmentEpoch \in [Ssh -> Nat]
  /\ launched \in 0..MaxTransports
  /\ owner \in [Transport -> Ssh]
  /\ generation \in [Transport -> Nat]
  /\ alive \in [Transport -> BOOLEAN]
  /\ reported \in [Transport -> BOOLEAN]
  /\ watched \in [Transport -> BOOLEAN]
  /\ cut \in [Ssh -> BOOLEAN]

(* Revoking in the trust review (event_loop.rs, abort and disconnect; the  *)
(* lifecycle lock and the look at trust in activate): once the             *)
(* disconnections asked for are done, the authority is not connected until *)
(* execution is granted again, wherever its activations were.              *)
RevokedStaysDown ==
  \A a \in Ssh : cut[a] /\ disconnecting[a] = 0 => ~Connected(a)

(* A request is made for an epoch of its authority, and refused when that  *)
(* is another one by the time it starts or is answered (validate_epochs,   *)
(* validate_response).  While a live helper is connected the epoch is the  *)
(* generation it was launched with, whatever became of those before it and *)
(* whenever their watchers wake up: nothing is refused for their sake.     *)
EpochsAgree ==
  \A a \in Ssh : Connected(a) => generation[slot[a]] = environmentEpoch[a]

(* An authority shown as connecting is being connected: a task of it runs  *)
(* or its result is on its way (the abort, the in-flight map, the results).*)
ConnectingIsReal ==
  \A a \in Ssh :
    connection[a] = "Connecting" =>
      \/ \E t \in tasks : t.auth = a
      \/ \E i \in 1..Len(results) : results[i].auth = a

(* An authority whose activation is in flight cannot be activated again:   *)
(* every entry is removed in the end, by a result or by a revocation.      *)
InFlightResolves ==
  \A a \in Ssh : inFlight[a] # None ~> inFlight[a] = None

(* A revocation waits for the lock, but the helper does go down unless the *)
(* user grants again: nothing holds the lifecycle lock for ever.           *)
DisconnectCompletes ==
  \A a \in Ssh : disconnecting[a] > 0 ~> (disconnecting[a] = 0 \/ ~cut[a])

-----------------------------------------------------------------------------
(* What RevokedStaysDown and EpochsAgree rest on: one task per authority   *)
(* holds the lock; a revoked authority gets no new holder; the holder's    *)
(* transport is alone and has the epoch of the authority; a watcher that   *)
(* still waits for a transport put aside has nothing new to tell.          *)
OneHolder ==
  \A t, u \in tasks : t.auth = u.auth /\ HoldsLock(t) /\ HoldsLock(u) => t = u

RevokedGoesDown ==
  \A a \in Ssh :
    cut[a] => /\ ~trust[a]
              /\ ~LockFree(a) \/ Connected(a) => disconnecting[a] > 0

HolderIsAlone ==
  \A t \in tasks :
    HoldsLock(t) =>
      /\ slot[t.auth] = NoTransport
      /\ HasTransport(t) =>
           /\ t.tr \in 1..launched
           /\ owner[t.tr] = t.auth
           /\ ~watched[t.tr]
           /\ alive[t.tr] => generation[t.tr] = environmentEpoch[t.auth]

SlotIsOwn ==
  \A a \in Ssh :
    slot[a] # NoTransport => slot[a] \in 1..launched /\ owner[slot[a]] = a

WatchersTellNothingNew ==
  \A n \in Transport :
    watched[n] /\ slot[owner[n]] # n =>
      ~alive[n] /\ generation[n] <= environmentEpoch[owner[n]]

OnlyLaunchedLive ==
  \A n \in Transport : alive[n] \/ watched[n] \/ reported[n] => n <= launched

AuthorityInv ==
  /\ OneHolder
  /\ RevokedGoesDown
  /\ HolderIsAlone
  /\ SlotIsOwn
  /\ WatchersTellNothingNew
  /\ OnlyLaunchedLive
  /\ EpochsAgree
=============================================================================
