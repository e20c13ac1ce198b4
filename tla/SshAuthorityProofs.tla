------------------------- MODULE SshAuthorityProofs -------------------------
(***************************************************************************)
(* TLAPS proofs about SshAuthority: types, the inductive invariant of the  *)
(* lifecycle lock, the slot and the epochs, and what follows from it.      *)
(***************************************************************************)
EXTENDS SshAuthority, SequenceTheorems, TLAPS

USE BoundsAssumption, TransportAssumption
DEF Authority, Transport, TaskId, None, HasTransport

(* A new task, and what a step makes of a task, are tasks.                 *)
LEMMA NewTaskTyped ==
  ASSUME NEW a \in Ssh, NEW i \in TaskId
  PROVE  NewTask(a, i) \in Task
BY DEF NewTask, Task, Stage

LEMMA StageTyped ==
  ASSUME tasks \subseteq Task, NEW t \in tasks, NEW s \in Stage,
         HasTransport(t) <=> s \in {"negotiating", "finishing"}
  PROVE  (tasks \ {t}) \cup {[t EXCEPT !.stage = s]} \subseteq Task
BY DEF Task

LEMMA OutcomeTyped ==
  ASSUME tasks \subseteq Task, NEW t \in tasks, NEW ok \in BOOLEAN, Outcome(t, ok)
  PROVE  tasks' \subseteq Task
BY DEF Task, Outcome, Stage

(* What an activation that is dispatched, or prompted for, leaves typed.   *)
LEMMA DispatchTyped ==
  ASSUME TypeOK, NEW a \in Ssh, Dispatch(a)
  PROVE  /\ tasks' \subseteq Task
         /\ inFlight' \in [Ssh -> TaskId \cup {None}]
         /\ connection' \in [Ssh -> Connection]
<1>1. PICK i \in TaskId : /\ tasks' = tasks \cup {NewTask(a, i)}
                          /\ inFlight' = [inFlight EXCEPT ![a] = i]
  BY DEF Dispatch
<1>2. tasks' \subseteq Task
  BY <1>1, NewTaskTyped DEF TypeOK
<1>3. inFlight' \in [Ssh -> TaskId \cup {None}]
  BY <1>1 DEF TypeOK
<1>4. connection' \in [Ssh -> Connection]
  BY DEF TypeOK, Dispatch, Connection
<1> QED
  BY <1>2, <1>3, <1>4

LEMMA ActivateTyped ==
  ASSUME TypeOK, NEW a \in Ssh, NEW shown \in Overlay, Activate(a, shown)
  PROVE  /\ tasks' \subseteq Task
         /\ inFlight' \in [Ssh -> TaskId \cup {None}]
         /\ connection' \in [Ssh -> Connection]
         /\ overlay' \in Overlay
<1>1. CASE UNCHANGED <<connection, tasks, inFlight>> /\ overlay' \in {"passphrase", shown}
  BY <1>1 DEF TypeOK, Overlay
<1>2. CASE Dispatch(a) /\ overlay' = shown
  BY <1>2, DispatchTyped
<1> QED
  BY <1>1, <1>2 DEF Activate

(* The initial states have their types.                                    *)
LEMMA InitTyped == Init => TypeOK
<1> SUFFICES ASSUME Init PROVE TypeOK
  OBVIOUS
<1>1. owner \in [Transport -> Ssh]
  BY SshAssumption DEF Init
<1>2. results \in Seq([auth : Ssh, ok : BOOLEAN])
  BY DEF Init
<1>3. tasks \subseteq Task
  BY NewTaskTyped DEF Init, Started
<1>4. inFlight \in [Ssh -> TaskId \cup {None}]
  BY DEF Init, Started
<1>5. connection \in [Ssh -> Connection]
  BY DEF Init, Started, Connection
<1>6. /\ current \in Authority
      /\ trust \in [Ssh -> BOOLEAN]
      /\ passphrase \in [Ssh -> BOOLEAN]
      /\ overlay \in Overlay
      /\ overlay # "passphrase"
      /\ disconnecting \in [Ssh -> 0..MaxTasks]
      /\ slot \in [Ssh -> Transport \cup {NoTransport}]
      /\ environmentEpoch \in [Ssh -> Nat]
      /\ launched \in 0..MaxTransports
  BY DEF Init, Overlay
<1>7. /\ generation \in [Transport -> Nat]
      /\ alive \in [Transport -> BOOLEAN]
      /\ reported \in [Transport -> BOOLEAN]
      /\ watched \in [Transport -> BOOLEAN]
      /\ cut \in [Ssh -> BOOLEAN]
  BY DEF Init
<1> QED
  BY <1>1, <1>2, <1>3, <1>4, <1>5, <1>6, <1>7 DEF TypeOK

LEMMA RefreshedTyped ==
  ASSUME NEW shown \in [Ssh -> Connection]
  PROVE  Refreshed(shown) \in [Ssh -> Connection]
BY DEF Refreshed, Connection

LEMMA LaterTyped ==
  ASSUME NEW m \in Nat, NEW n \in Nat
  PROVE  Later(m, n) \in Nat /\ Later(m, n) >= m /\ Later(m, n) >= n
BY DEF Later

LEMMA MarkLostTyped ==
  ASSUME TypeOK, NEW n \in Transport
  PROVE  /\ Dead(n) \in [Transport -> BOOLEAN]
         /\ Advanced(n) \in [Transport -> Nat]
         /\ Advanced(n)[n] \in Nat
BY DEF TypeOK, Dead, Advanced

(* Events of the user interface keep the types.                            *)
LEMMA UiTyped ==
  ASSUME TypeOK, OverlayStep \/ TrustStep \/ CycleAuthority \/ DrainStep
  PROVE  TypeOK'
<1> USE DEF TypeOK, ui, activations, authority, transports, Overlay
<1>1. CASE ReviewTrust
  BY <1>1 DEF ReviewTrust
<1>2. CASE OpenCommandPalette
  BY <1>2 DEF OpenCommandPalette
<1>3. CASE CancelModal
  BY <1>3 DEF CancelModal
<1>4. CASE SshPassphraseSubmit
  <2>1. current \in Ssh
    BY <1>4 DEF SshPassphraseSubmit
  <2>2. CASE Dispatch(current)
    <3>1. /\ tasks' \subseteq Task
          /\ inFlight' \in [Ssh -> TaskId \cup {None}]
          /\ connection' \in [Ssh -> Connection]
      BY <2>1, <2>2, DispatchTyped
    <3> QED
      BY <1>4, <3>1 DEF SshPassphraseSubmit
  <2>3. CASE UNCHANGED <<connection, tasks, inFlight>>
    BY <1>4, <2>3 DEF SshPassphraseSubmit
  <2> QED
    BY <1>4, <2>2, <2>3 DEF SshPassphraseSubmit
<1>5. CASE GrantTrust
  <2>1. /\ tasks' \subseteq Task
        /\ inFlight' \in [Ssh -> TaskId \cup {None}]
        /\ connection' \in [Ssh -> Connection]
        /\ overlay' \in Overlay
    BY <1>5, ActivateTyped DEF GrantTrust
  <2> QED
    BY <1>5, <2>1 DEF GrantTrust
<1>6. CASE RevokeTrust
  <2>1. tasks' \subseteq Task
    BY <1>6 DEF RevokeTrust
  <2>2. inFlight' \in [Ssh -> TaskId \cup {None}]
    BY <1>6 DEF RevokeTrust, Forgotten
  <2>3. disconnecting' \in [Ssh -> 0..MaxTasks]
    BY <1>6 DEF RevokeTrust
  <2>4. connection' \in [Ssh -> Connection]
    BY <1>6 DEF RevokeTrust, Connection
  <2> QED
    BY <1>6, <2>1, <2>2, <2>3, <2>4 DEF RevokeTrust
<1>7. CASE PaletteRevokeTrust
  BY <1>7 DEF PaletteRevokeTrust
<1>8. CASE CycleAuthority
  <2>1. PICK a \in Authority :
          /\ current' = a
          /\ \/ a \in Ssh /\ Activate(a, "none")
             \/ UNCHANGED <<overlay, connection, tasks, inFlight>>
    BY <1>8 DEF CycleAuthority
  <2>2. /\ tasks' \subseteq Task
        /\ inFlight' \in [Ssh -> TaskId \cup {None}]
        /\ connection' \in [Ssh -> Connection]
        /\ overlay' \in Overlay
    BY <2>1, ActivateTyped
  <2> QED
    BY <1>8, <2>1, <2>2 DEF CycleAuthority
<1>9. CASE ActivationResult
  <2>1. Head(results) \in [auth : Ssh, ok : BOOLEAN]
        /\ Tail(results) \in Seq([auth : Ssh, ok : BOOLEAN])
    <3>1. results \in Seq([auth : Ssh, ok : BOOLEAN]) /\ results # <<>>
      BY <1>9 DEF ActivationResult
    <3> QED
      BY <3>1, HeadTailProperties
  <2>2. ShownAfter(Head(results)) \in [Ssh -> Connection]
    BY <2>1 DEF ShownAfter, Connection
  <2>3. connection' \in [Ssh -> Connection]
    BY <1>9, <2>2, RefreshedTyped DEF ActivationResult
  <2>4. inFlight' \in [Ssh -> TaskId \cup {None}]
    BY <1>9, <2>1 DEF ActivationResult
  <2> QED
    BY <1>9, <2>1, <2>3, <2>4 DEF ActivationResult
<1>10. CASE RefreshConnections
  BY <1>10, RefreshedTyped DEF RefreshConnections
<1> QED
  BY <1>1, <1>2, <1>3, <1>4, <1>5, <1>6, <1>7, <1>8, <1>9, <1>10
  DEF OverlayStep, TrustStep, DrainStep

(* So do the steps of an activation.                                       *)
LEMMA TaskTyped ==
  ASSUME TypeOK, NEW t \in tasks, TaskStep(t)
  PROVE  TypeOK'
<1> USE DEF TypeOK, ui, activations, authority, transports
<1>0. t \in Task
  OBVIOUS
<1>1. CASE ScanFails(t)
  BY <1>1, OutcomeTyped DEF ScanFails
<1>2. CASE Begin(t)
  <2>1. EpochAfter(t.auth) \in Nat
    BY <1>0, LaterTyped DEF EpochAfter, Task
  <2>2. tasks' \subseteq Task
    BY <1>2, OutcomeTyped, StageTyped DEF Begin, Become, Stage
  <2>3. slot' \in [Ssh -> Transport \cup {NoTransport}]
    BY <1>2 DEF Begin
  <2>4. environmentEpoch' \in [Ssh -> Nat]
    BY <1>2, <2>1 DEF Begin
  <2> QED
    BY <1>2, <2>2, <2>3, <2>4 DEF Begin
<1>3. CASE LaunchFails(t)
  BY <1>3, OutcomeTyped DEF LaunchFails
<1>4. CASE Launch(t)
  <2>1. launched' \in 1..MaxTransports
    BY <1>4 DEF Launch
  <2>2. tasks' \subseteq Task
    <3>1. [t EXCEPT !.stage = "negotiating", !.tr = launched'] \in Task
      BY <1>0, <2>1 DEF Task, Stage
    <3> QED
      BY <1>4, <3>1 DEF Launch
  <2>3. /\ owner' \in [Transport -> Ssh]
        /\ generation' \in [Transport -> Nat]
        /\ alive' \in [Transport -> BOOLEAN]
    BY <1>0, <1>4, <2>1 DEF Launch, Task
  <2>4. launched' \in 0..MaxTransports
    BY <2>1
  <2> QED
    BY <1>4, <2>2, <2>3, <2>4 DEF Launch
<1>5. CASE NegotiationFails(t)
  <2>1. tasks' \subseteq Task
    BY <1>5, OutcomeTyped DEF NegotiationFails
  <2>2. /\ alive' \in [Transport -> BOOLEAN]
        /\ generation' \in [Transport -> Nat]
    <3>1. /\ Dead(t.tr) \in [Transport -> BOOLEAN]
          /\ Advanced(t.tr) \in [Transport -> Nat]
      BY <1>0, <1>5, MarkLostTyped DEF NegotiationFails, Task
    <3> QED
      BY <1>5, <3>1 DEF NegotiationFails
  <2> QED
    BY <1>5, <2>1, <2>2 DEF NegotiationFails
<1>6. CASE HelloAck(t)
  <2>1. tasks' \subseteq Task
    BY <1>6, StageTyped DEF HelloAck, Become, Stage
  <2> QED
    BY <1>6, <2>1 DEF HelloAck
<1>7. CASE Finish(t)
  <2>1. tasks' \subseteq Task
    BY <1>7, OutcomeTyped DEF Finish
  <2>2. slot' \in [Ssh -> Transport \cup {NoTransport}]
    BY <1>0, <1>7 DEF Finish, Task
  <2>3. environmentEpoch' \in [Ssh -> Nat]
    <3>0. t.tr \in Transport
      BY <1>0, <1>7 DEF Finish, Task
    <3>1. CASE environmentEpoch' =
                 [environmentEpoch EXCEPT ![t.auth] = Later(@, generation[t.tr])]
      BY <3>0, <3>1 DEF Later
    <3>2. CASE UNCHANGED environmentEpoch
      BY <3>2
    <3> QED
      BY <1>7, <3>1, <3>2 DEF Finish
  <2>4. /\ reported' \in [Transport -> BOOLEAN]
        /\ watched' \in [Transport -> BOOLEAN]
    BY <1>7 DEF Finish
  <2> QED
    BY <1>7, <2>1, <2>2, <2>3, <2>4 DEF Finish
<1>8. CASE SendOutcome(t)
  <2>1. [auth |-> t.auth, ok |-> t.ok] \in [auth : Ssh, ok : BOOLEAN]
    BY <1>0 DEF Task
  <2>2. results' \in Seq([auth : Ssh, ok : BOOLEAN])
    BY <1>8, <2>1 DEF SendOutcome
  <2>3. tasks' \subseteq Task
    BY <1>8 DEF SendOutcome
  <2> QED
    BY <1>8, <2>2, <2>3 DEF SendOutcome
<1> QED
  BY <1>1, <1>2, <1>3, <1>4, <1>5, <1>6, <1>7, <1>8 DEF TaskStep

(* And what disconnections, losses and watchers do.                        *)
LEMMA BackgroundTyped ==
  ASSUME TypeOK, BackgroundStep
  PROVE  TypeOK'
<1> USE DEF TypeOK, ui, activations, authority, transports
<1>1. CASE \E t \in tasks : TaskStep(t)
  BY <1>1, TaskTyped
<1>2. ASSUME NEW a \in Ssh, Disconnect(a) PROVE TypeOK'
  <2>1. disconnecting' \in [Ssh -> 0..MaxTasks]
    BY <1>2 DEF Disconnect, Asked
  <2>2. CASE slot[a] = NoTransport
    BY <1>2, <2>1, <2>2 DEF Disconnect
  <2>3. CASE slot[a] # NoTransport
    <3>1. /\ slot[a] \in Transport
          /\ slot' = [slot EXCEPT ![a] = NoTransport]
          /\ alive' = Dead(slot[a]) /\ generation' = Advanced(slot[a])
          /\ environmentEpoch' =
               [environmentEpoch EXCEPT ![a] = Later(@, generation'[slot[a]])]
          /\ UNCHANGED <<launched, owner, reported, watched>>
      BY <1>2, <2>3 DEF Disconnect
    <3>2. /\ alive' \in [Transport -> BOOLEAN]
          /\ generation' \in [Transport -> Nat]
      BY <3>1, MarkLostTyped
    <3>3. environmentEpoch' \in [Ssh -> Nat]
      BY <3>1, <3>2 DEF Later
    <3>4. slot' \in [Ssh -> Transport \cup {NoTransport}]
      BY <3>1
    <3> QED
      BY <1>2, <2>1, <3>1, <3>2, <3>3, <3>4 DEF Disconnect
  <2> QED
    BY <2>2, <2>3
<1>3. ASSUME NEW n \in Transport, LoseTransport(n) PROVE TypeOK'
  BY <1>3, MarkLostTyped DEF LoseTransport
<1>4. ASSUME NEW n \in Transport, ReportLoss(n) PROVE TypeOK'
  BY <1>4 DEF ReportLoss
<1>5. ASSUME NEW n \in Transport, WatchLoss(n) PROVE TypeOK'
  <2>1. environmentEpoch' \in [Ssh -> Nat]
    BY <1>5 DEF WatchLoss, Later
  <2>2. slot' \in [Ssh -> Transport \cup {NoTransport}]
    BY <1>5 DEF WatchLoss, SlotAfterLoss
  <2>3. watched' \in [Transport -> BOOLEAN]
    BY <1>5 DEF WatchLoss
  <2> QED
    BY <1>5, <2>1, <2>2, <2>3 DEF WatchLoss
<1> QED
  BY <1>1, <1>2, <1>3, <1>4, <1>5 DEF BackgroundStep, TransportStep

(* Every variable keeps its type.                                          *)
THEOREM SshTypeCorrect == Spec => []TypeOK
<1>1. TypeOK /\ [Next]_sshVars => TypeOK'
  <2> SUFFICES ASSUME TypeOK, [Next]_sshVars PROVE TypeOK'
    OBVIOUS
  <2>1. CASE UNCHANGED sshVars
    BY <2>1 DEF TypeOK, sshVars, ui, activations, authority, transports
  <2>2. CASE Next
    BY <2>2, UiTyped, BackgroundTyped DEF Next
  <2> QED
    BY <2>1, <2>2
<1> QED
  BY InitTyped, <1>1, PTL DEF Spec

-----------------------------------------------------------------------------
(* A step that leaves the helpers alone, brings no new holder of the lock, *)
(* and asks for a disconnection whenever it cuts an authority off.         *)
LEMMA QuietStep ==
  ASSUME TypeOK, TypeOK', AuthorityInv,
         UNCHANGED <<authority, transports>>,
         \A t \in tasks' : HoldsLock(t) => t \in tasks,
         \A a \in Ssh : cut'[a] =>
           /\ ~trust'[a]
           /\ \/ disconnecting'[a] > 0
              \/ cut[a] /\ disconnecting'[a] = disconnecting[a]
  PROVE  AuthorityInv'
<1> USE DEF AuthorityInv, authority, transports
<1>1. OneHolder'
  BY DEF OneHolder
<1>2. RevokedGoesDown'
  BY DEF RevokedGoesDown, LockFree, Connected
<1>3. HolderIsAlone'
  BY DEF HolderIsAlone
<1>4. (SlotIsOwn /\ WatchersTellNothingNew /\ OnlyLaunchedLive /\ EpochsAgree)'
  BY DEF SlotIsOwn, WatchersTellNothingNew, OnlyLaunchedLive, EpochsAgree, Connected
<1> QED
  BY <1>1, <1>2, <1>3, <1>4

LEMMA InitInv == Init => AuthorityInv
<1> SUFFICES ASSUME Init PROVE AuthorityInv
  OBVIOUS
<1>1. \A t \in tasks : ~HoldsLock(t)
  BY DEF Init, NewTask, HoldsLock
<1>2. \A a \in Ssh : slot[a] = NoTransport
  BY DEF Init
<1>3. \A n \in Transport : ~alive[n] /\ ~watched[n] /\ ~reported[n]
  BY DEF Init
<1>4. \A a \in Ssh : ~cut[a]
  BY DEF Init
<1> QED
  BY <1>1, <1>2, <1>3, <1>4
  DEF AuthorityInv, OneHolder, RevokedGoesDown, HolderIsAlone, SlotIsOwn,
      WatchersTellNothingNew, OnlyLaunchedLive, EpochsAgree, Connected

(* Dispatching an activation brings a task that does not hold the lock.    *)
LEMMA ActivateQuiet ==
  ASSUME NEW a \in Ssh, NEW shown, Activate(a, shown)
  PROVE  \A t \in tasks' : HoldsLock(t) => t \in tasks
BY DEF Activate, Dispatch, NewTask, HoldsLock

LEMMA UiKeeps ==
  ASSUME TypeOK, TypeOK', AuthorityInv,
         OverlayStep \/ TrustStep \/ CycleAuthority \/ DrainStep
  PROVE  AuthorityInv'
<1> DEFINE NoNewHolder == \A t \in tasks' : HoldsLock(t) => t \in tasks
           CutOff(a) == /\ ~trust'[a]
                        /\ \/ disconnecting'[a] > 0
                           \/ cut[a] /\ disconnecting'[a] = disconnecting[a]
<1>0. \A a \in Ssh : cut[a] => ~trust[a]
  BY DEF AuthorityInv, RevokedGoesDown
<1>1. CASE GrantTrust
  <2>1. NoNewHolder
    BY <1>1, ActivateQuiet DEF GrantTrust
  <2>2. \A a \in Ssh : cut'[a] => CutOff(a)
    BY <1>0, <1>1 DEF GrantTrust, TypeOK
  <2> QED
    BY <1>1, <2>1, <2>2, QuietStep DEF GrantTrust
<1>2. CASE RevokeTrust
  <2>1. NoNewHolder
    BY <1>2 DEF RevokeTrust
  <2>2. \A a \in Ssh : cut'[a] => CutOff(a)
    BY <1>0, <1>2 DEF RevokeTrust, TypeOK
  <2> QED
    BY <1>2, <2>1, <2>2, QuietStep DEF RevokeTrust
<1>3. CASE PaletteRevokeTrust
  <2>1. \A a \in Ssh : cut'[a] => CutOff(a)
    BY <1>0, <1>3 DEF PaletteRevokeTrust, TypeOK
  <2> QED
    BY <1>3, <2>1, QuietStep DEF PaletteRevokeTrust, activations
<1>4. CASE CycleAuthority
  <2>1. NoNewHolder
    BY <1>4, ActivateQuiet DEF CycleAuthority
  <2> QED
    BY <1>0, <1>4, <2>1, QuietStep DEF CycleAuthority
<1>5. CASE SshPassphraseSubmit
  <2>1. NoNewHolder
    BY <1>5 DEF SshPassphraseSubmit, Dispatch, NewTask, HoldsLock
  <2> QED
    BY <1>0, <1>5, <2>1, QuietStep DEF SshPassphraseSubmit
<1>6. CASE ReviewTrust \/ OpenCommandPalette \/ CancelModal
  BY <1>0, <1>6, QuietStep
  DEF ReviewTrust, OpenCommandPalette, CancelModal, activations
<1>7. CASE ActivationResult \/ RefreshConnections
  BY <1>0, <1>7, QuietStep DEF ActivationResult, RefreshConnections, activations
<1> QED
  BY <1>1, <1>2, <1>3, <1>4, <1>5, <1>6, <1>7 DEF OverlayStep, TrustStep, DrainStep

-----------------------------------------------------------------------------
(* An activation with its outcome does not hold the lock.                  *)
LEMMA OutcomeHolds ==
  ASSUME NEW t \in Task, NEW ok, Outcome(t, ok)
  PROVE  \A u \in tasks' : HoldsLock(u) => u \in tasks \ {t}
<1> DEFINE s == [t EXCEPT !.stage = "sending", !.tr = NoTransport, !.ok = ok]
<1>1. s.stage = "sending"
  BY DEF Task
<1>2. ~HoldsLock(s)
  BY <1>1 DEF HoldsLock
<1> QED
  BY <1>2 DEF Outcome

(* One lemma per step of an activation that moves the lock or a helper.    *)
LEMMA BeginKeeps ==
  ASSUME TypeOK, TypeOK', AuthorityInv, NEW t \in tasks, Begin(t)
  PROVE  AuthorityInv'
<1> USE DEF AuthorityInv
<1> DEFINE a == t.auth
<1>0. t \in Task /\ a \in Ssh
  BY DEF TypeOK, Task
<1>1. CASE Connected(a)
  <2>1. UNCHANGED authority /\ Outcome(t, FALSE)
    BY <1>1 DEF Begin
  <2>2. \A u \in tasks' : HoldsLock(u) => u \in tasks
    BY <1>0, <2>1, OutcomeHolds
  <2> QED
    BY <2>1, <2>2, QuietStep DEF Begin, ui, RevokedGoesDown
<1>2. CASE ~Connected(a)
  <2>1. /\ LockFree(a)
        /\ slot' = [slot EXCEPT ![a] = NoTransport]
        /\ environmentEpoch' = [environmentEpoch EXCEPT ![a] = EpochAfter(a)]
        /\ UNCHANGED <<cut, trust, disconnecting, launched, owner, generation,
                       alive, reported, watched>>
    BY <1>2 DEF Begin, ui, transports
  <2>2. \A u \in tasks' : HoldsLock(u) =>
          \/ u \in tasks /\ u.auth # a
          \/ u.auth = a /\ ~HasTransport(u) /\ trust[a] /\ u = [t EXCEPT !.stage = "launching"]
    <3> DEFINE s == [t EXCEPT !.stage = "launching"]
    <3>1. s.auth = a /\ ~HasTransport(s)
      BY <1>0 DEF Task
    <3>2. \A u \in tasks : HoldsLock(u) => u.auth # a
      BY <2>1 DEF LockFree
    <3>3. CASE trust[a] /\ Become(t, "launching")
      BY <3>1, <3>2, <3>3 DEF Become
    <3>4. CASE Outcome(t, FALSE)
      BY <1>0, <3>2, <3>4, OutcomeHolds
    <3> QED
      BY <1>2, <3>3, <3>4 DEF Begin
  <2>3. /\ EpochAfter(a) \in Nat /\ EpochAfter(a) >= environmentEpoch[a]
        /\ slot[a] # NoTransport => EpochAfter(a) >= generation[slot[a]]
    <3>1. environmentEpoch[a] \in Nat
      BY <1>0 DEF TypeOK
    <3>2. slot[a] # NoTransport => generation[slot[a]] \in Nat
      BY <1>0 DEF TypeOK
    <3> QED
      BY <3>1, <3>2 DEF EpochAfter, Later
  <2>4. OneHolder'
    BY <2>2 DEF OneHolder
  <2>5. RevokedGoesDown'
    <3> SUFFICES ASSUME NEW b \in Ssh, cut[b]
                 PROVE  ~trust[b] /\ (~LockFree(b)' \/ Connected(b)' => disconnecting[b] > 0)
      BY <2>1 DEF RevokedGoesDown
    <3>1. ~trust[b] /\ (~LockFree(b) \/ Connected(b) => disconnecting[b] > 0)
      BY DEF RevokedGoesDown
    <3>2. LockFree(b) => LockFree(b)'
      BY <2>2, <3>1 DEF LockFree
    <3>3. Connected(b)' => Connected(b)
      BY <1>0, <2>1 DEF Connected, TypeOK
    <3> QED
      BY <3>1, <3>2, <3>3
  <2>6. HolderIsAlone'
    BY <1>0, <2>1, <2>2 DEF HolderIsAlone, TypeOK, Task
  <2>7. SlotIsOwn' /\ OnlyLaunchedLive'
    BY <1>0, <2>1 DEF SlotIsOwn, OnlyLaunchedLive, TypeOK
  <2>8. WatchersTellNothingNew'
    <3> SUFFICES ASSUME NEW n \in Transport, watched[n], slot'[owner[n]] # n
                 PROVE  ~alive[n] /\ generation[n] <= environmentEpoch'[owner[n]]
      BY <2>1 DEF WatchersTellNothingNew
    <3>1. CASE slot[owner[n]] = n
      <4>1. owner[n] = a
        BY <2>1, <3>1 DEF TypeOK
      <4> QED
        BY <1>0, <1>2, <2>1, <2>3, <3>1, <4>1 DEF Connected, TypeOK
    <3>2. CASE slot[owner[n]] # n
      BY <1>0, <2>1, <2>3, <3>2 DEF WatchersTellNothingNew, TypeOK
    <3> QED
      BY <3>1, <3>2
  <2>9. EpochsAgree'
    BY <1>0, <2>1 DEF EpochsAgree, Connected, TypeOK
  <2> QED
    BY <2>4, <2>5, <2>6, <2>7, <2>8, <2>9
<1> QED
  BY <1>1, <1>2

LEMMA LaunchKeeps ==
  ASSUME TypeOK, TypeOK', AuthorityInv, NEW t \in tasks, Launch(t)
  PROVE  AuthorityInv'
<1> USE DEF AuthorityInv
<1> DEFINE a == t.auth
           n0 == launched + 1
           t0 == [t EXCEPT !.stage = "negotiating", !.tr = n0]
<1>0. t \in Task /\ a \in Ssh /\ n0 \in Transport /\ launched \in Nat
  BY DEF TypeOK, Task, Launch
<1>1. /\ launched' = n0
      /\ owner' = [owner EXCEPT ![n0] = a]
      /\ generation' = [generation EXCEPT ![n0] = environmentEpoch[a]]
      /\ alive' = [alive EXCEPT ![n0] = TRUE]
      /\ tasks' = (tasks \ {t}) \cup {t0}
      /\ UNCHANGED <<cut, trust, disconnecting, slot, environmentEpoch, reported, watched>>
  BY DEF Launch, ui, authority
<1>2. /\ HoldsLock(t) /\ HoldsLock(t0) /\ HasTransport(t0)
      /\ t0.auth = a /\ t0.tr = n0
  BY <1>0 DEF Launch, HoldsLock, Task
<1>3. \A u \in tasks \ {t} : HoldsLock(u) => u.auth # a
  BY <1>2 DEF OneHolder
<1>4. OneHolder'
  BY <1>1, <1>2, <1>3 DEF OneHolder
<1>5. RevokedGoesDown'
  <2>1. \A b \in Ssh : LockFree(b) => LockFree(b)'
    BY <1>1, <1>2 DEF LockFree
  <2>2. \A b \in Ssh : Connected(b)' => Connected(b)
    BY <1>0, <1>1 DEF Connected, SlotIsOwn, TypeOK
  <2> QED
    BY <1>1, <2>1, <2>2 DEF RevokedGoesDown
<1>6. \A n \in Transport : n <= launched => n # n0
  BY <1>0
<1>7. HolderIsAlone'
  <2> SUFFICES ASSUME NEW u \in tasks', HoldsLock(u)
               PROVE  /\ slot[u.auth] = NoTransport
                      /\ HasTransport(u) =>
                           /\ u.tr \in 1..n0
                           /\ owner'[u.tr] = u.auth
                           /\ ~watched[u.tr]
                           /\ alive'[u.tr] => generation'[u.tr] = environmentEpoch[u.auth]
    BY <1>1 DEF HolderIsAlone
  <2>1. CASE u = t0
    BY <1>0, <1>1, <1>2, <1>6, <2>1 DEF HolderIsAlone, OnlyLaunchedLive, TypeOK
  <2>2. CASE u \in tasks \ {t}
    <3>1. /\ slot[u.auth] = NoTransport
          /\ HasTransport(u) =>
               /\ u.tr \in 1..launched
               /\ owner[u.tr] = u.auth
               /\ ~watched[u.tr]
               /\ alive[u.tr] => generation[u.tr] = environmentEpoch[u.auth]
      BY <2>2 DEF HolderIsAlone
    <3>2. HasTransport(u) => u.tr \in Transport /\ u.tr # n0 /\ u.tr \in 1..n0
      BY <1>0, <3>1
    <3> QED
      BY <1>0, <1>1, <3>1, <3>2 DEF TypeOK
  <2> QED
    BY <1>1, <2>1, <2>2
<1>8. SlotIsOwn'
  BY <1>0, <1>1, <1>6 DEF SlotIsOwn, TypeOK
<1>9. OnlyLaunchedLive'
  BY <1>0, <1>1 DEF OnlyLaunchedLive, TypeOK
<1>10. WatchersTellNothingNew'
  BY <1>0, <1>1, <1>6 DEF WatchersTellNothingNew, OnlyLaunchedLive, TypeOK
<1>11. EpochsAgree'
  BY <1>0, <1>1, <1>6 DEF EpochsAgree, Connected, SlotIsOwn, TypeOK
<1> QED
  BY <1>4, <1>5, <1>7, <1>8, <1>9, <1>10, <1>11

LEMMA NegotiationFailsKeeps ==
  ASSUME TypeOK, TypeOK', AuthorityInv, NEW t \in tasks, NegotiationFails(t)
  PROVE  AuthorityInv'
<1> USE DEF AuthorityInv
<1> DEFINE a == t.auth
           n == t.tr
<1>0. t \in Task /\ a \in Ssh /\ n \in Transport /\ HoldsLock(t) /\ HasTransport(t)
  BY DEF TypeOK, Task, NegotiationFails, HoldsLock
<1>1. /\ alive' = Dead(n) /\ generation' = Advanced(n) /\ Outcome(t, FALSE)
      /\ UNCHANGED <<cut, trust, disconnecting, slot, environmentEpoch, launched,
                     owner, reported, watched>>
  BY DEF NegotiationFails, ui, authority
<1>2. \A u \in tasks' : HoldsLock(u) => u \in tasks \ {t} /\ u.auth # a
  BY <1>0, <1>1, OutcomeHolds DEF OneHolder
<1>3. slot[a] = NoTransport /\ owner[n] = a /\ ~watched[n] /\ n <= launched
  BY <1>0 DEF HolderIsAlone
<1>4. \A m \in Transport : m # n =>
        (alive'[m] <=> alive[m]) /\ generation'[m] = generation[m]
  BY <1>0, <1>1 DEF Dead, Advanced, TypeOK
<1>5. ~alive'[n]
  BY <1>0, <1>1 DEF Dead, TypeOK
<1>6. OneHolder'
  BY <1>2 DEF OneHolder
<1>7. \A b \in Ssh : slot[b] # NoTransport => slot[b] \in Transport /\ slot[b] # n
  BY <1>0, <1>3 DEF SlotIsOwn, TypeOK
<1>8. \A b \in Ssh : Connected(b)' <=> Connected(b)
  <2> SUFFICES ASSUME NEW b \in Ssh PROVE Connected(b)' <=> Connected(b)
    OBVIOUS
  <2>1. CASE slot[b] = NoTransport
    BY <1>1, <2>1 DEF Connected
  <2>2. CASE slot[b] # NoTransport
    <3>1. alive'[slot[b]] <=> alive[slot[b]]
      BY <1>4, <1>7, <2>2
    <3> QED
      BY <1>1, <2>2, <3>1 DEF Connected
  <2> QED
    BY <2>1, <2>2
<1>9. RevokedGoesDown'
  <2>1. \A b \in Ssh : LockFree(b) => LockFree(b)'
    BY <1>2 DEF LockFree
  <2> QED
    BY <1>1, <1>8, <2>1 DEF RevokedGoesDown
<1>10. HolderIsAlone'
  <2> SUFFICES ASSUME NEW u \in tasks', HoldsLock(u)
               PROVE  /\ slot[u.auth] = NoTransport
                      /\ HasTransport(u) =>
                           /\ u.tr \in 1..launched
                           /\ owner[u.tr] = u.auth
                           /\ ~watched[u.tr]
                           /\ alive'[u.tr] => generation'[u.tr] = environmentEpoch[u.auth]
    BY <1>1 DEF HolderIsAlone
  <2>1. u \in tasks /\ u.auth # a
    BY <1>2
  <2>2. HasTransport(u) => u.tr \in Transport
    BY <2>1 DEF TypeOK, Task
  <2> QED
    BY <1>3, <1>4, <2>1, <2>2 DEF HolderIsAlone
<1>11. SlotIsOwn' /\ OnlyLaunchedLive'
  BY <1>0, <1>1, <1>3, <1>4, <1>5 DEF SlotIsOwn, OnlyLaunchedLive
<1>12. WatchersTellNothingNew'
  BY <1>1, <1>3, <1>4 DEF WatchersTellNothingNew
<1>13. EpochsAgree'
  <2> SUFFICES ASSUME NEW b \in Ssh, Connected(b)'
               PROVE  generation'[slot[b]] = environmentEpoch[b]
    BY <1>1 DEF EpochsAgree
  <2>1. generation[slot[b]] = environmentEpoch[b]
    BY <1>8 DEF EpochsAgree
  <2>2. slot[b] # NoTransport
    BY <1>1 DEF Connected
  <2> QED
    BY <1>4, <1>7, <2>1, <2>2
<1> QED
  BY <1>6, <1>9, <1>10, <1>11, <1>12, <1>13

LEMMA HelloAckKeeps ==
  ASSUME TypeOK, TypeOK', AuthorityInv, NEW t \in tasks, HelloAck(t)
  PROVE  AuthorityInv'
<1> USE DEF AuthorityInv
<1> DEFINE s == [t EXCEPT !.stage = "finishing"]
<1>0. /\ t \in Task /\ HoldsLock(t) /\ HasTransport(t)
      /\ s.auth = t.auth /\ s.tr = t.tr /\ HoldsLock(s)
  BY DEF TypeOK, Task, HelloAck, HoldsLock
<1>1. /\ tasks' = (tasks \ {t}) \cup {s}
      /\ UNCHANGED <<ui, disconnecting, authority, transports, cut>>
  BY DEF HelloAck, Become
<1>2. \A u \in tasks \ {t} : HoldsLock(u) => u.auth # t.auth
  BY <1>0 DEF OneHolder
<1>3. OneHolder'
  BY <1>0, <1>1, <1>2 DEF OneHolder
<1>4. RevokedGoesDown'
  <2>1. \A b \in Ssh : LockFree(b) => LockFree(b)'
    BY <1>0, <1>1 DEF LockFree
  <2> QED
    BY <1>1, <2>1 DEF RevokedGoesDown, Connected, ui, authority, transports
<1>5. HolderIsAlone'
  <2> SUFFICES ASSUME NEW u \in tasks', HoldsLock(u)
               PROVE  /\ slot[u.auth] = NoTransport
                      /\ HasTransport(u) =>
                           /\ u.tr \in 1..launched
                           /\ owner[u.tr] = u.auth
                           /\ ~watched[u.tr]
                           /\ alive[u.tr] => generation[u.tr] = environmentEpoch[u.auth]
    BY <1>1 DEF HolderIsAlone, authority, transports
  <2>1. CASE u \in tasks
    BY <2>1 DEF HolderIsAlone
  <2>2. CASE u = s
    <3>1. /\ slot[t.auth] = NoTransport
          /\ t.tr \in 1..launched
          /\ owner[t.tr] = t.auth
          /\ ~watched[t.tr]
          /\ alive[t.tr] => generation[t.tr] = environmentEpoch[t.auth]
      BY <1>0 DEF HolderIsAlone
    <3> QED
      BY <1>0, <2>2, <3>1
  <2> QED
    BY <1>1, <2>1, <2>2
<1>6. (SlotIsOwn /\ OnlyLaunchedLive /\ WatchersTellNothingNew /\ EpochsAgree)'
  BY <1>1 DEF SlotIsOwn, OnlyLaunchedLive, WatchersTellNothingNew, EpochsAgree,
              Connected, authority, transports
<1> QED
  BY <1>3, <1>4, <1>5, <1>6

LEMMA FinishKeeps ==
  ASSUME TypeOK, TypeOK', AuthorityInv, NEW t \in tasks, Finish(t)
  PROVE  AuthorityInv'
<1> USE DEF AuthorityInv
<1> DEFINE a == t.auth
           n == t.tr
<1>0. t \in Task /\ a \in Ssh /\ n \in Transport /\ HoldsLock(t) /\ HasTransport(t)
  BY DEF TypeOK, Task, Finish, HoldsLock
<1>1. /\ UNCHANGED <<cut, trust, disconnecting, launched, owner, generation, alive>>
      /\ \E ok \in BOOLEAN : Outcome(t, ok)
  BY DEF Finish, ui
<1>2. \A u \in tasks' : HoldsLock(u) => u \in tasks \ {t} /\ u.auth # a
  BY <1>0, <1>1, OutcomeHolds DEF OneHolder
<1>3. /\ slot[a] = NoTransport /\ owner[n] = a /\ ~watched[n] /\ n \in 1..launched
      /\ alive[n] => generation[n] = environmentEpoch[a]
  BY <1>0 DEF HolderIsAlone
<1>4. OneHolder'
  BY <1>2 DEF OneHolder
<1>5. \A b \in Ssh : LockFree(b) => LockFree(b)'
  BY <1>2 DEF LockFree
<1>6. cut[a] => disconnecting[a] > 0
  BY <1>0 DEF RevokedGoesDown, LockFree
<1>7. CASE /\ environmentEpoch' = [environmentEpoch EXCEPT ![a] = Later(@, generation[n])]
           /\ reported' = [reported EXCEPT ![n] = TRUE]
           /\ UNCHANGED <<slot, watched>>
  <2>1. environmentEpoch'[a] >= environmentEpoch[a]
    BY <1>0, <1>7, LaterTyped DEF TypeOK
  <2>2. \A b \in Ssh : b # a => environmentEpoch'[b] = environmentEpoch[b]
    BY <1>7 DEF TypeOK
  <2>3. RevokedGoesDown'
    BY <1>1, <1>5, <1>7 DEF RevokedGoesDown, Connected
  <2>4. HolderIsAlone'
    BY <1>1, <1>2, <1>7, <2>2 DEF HolderIsAlone, TypeOK, Task
  <2>5. SlotIsOwn'
    BY <1>1, <1>7 DEF SlotIsOwn
  <2>6. OnlyLaunchedLive'
    <3>1. \A m \in Transport : m # n => reported'[m] = reported[m]
      BY <1>7 DEF TypeOK
    <3> QED
      BY <1>1, <1>3, <1>7, <3>1 DEF OnlyLaunchedLive
  <2>8. WatchersTellNothingNew'
    <3> SUFFICES ASSUME NEW m \in Transport, watched[m], slot[owner[m]] # m
                 PROVE  ~alive[m] /\ generation[m] <= environmentEpoch'[owner[m]]
      BY <1>1, <1>7 DEF WatchersTellNothingNew
    <3>1. ~alive[m] /\ generation[m] <= environmentEpoch[owner[m]]
      BY DEF WatchersTellNothingNew
    <3>2. owner[m] \in Ssh /\ generation[m] \in Nat
      BY DEF TypeOK
    <3>3. /\ environmentEpoch[owner[m]] \in Nat
          /\ environmentEpoch'[owner[m]] \in Nat
          /\ environmentEpoch'[owner[m]] >= environmentEpoch[owner[m]]
      <4>1. environmentEpoch[owner[m]] \in Nat /\ environmentEpoch'[owner[m]] \in Nat
        BY <3>2 DEF TypeOK
      <4>2. CASE owner[m] = a
        BY <2>1, <4>1, <4>2
      <4>3. CASE owner[m] # a
        BY <2>2, <3>2, <4>1, <4>3
      <4> QED
        BY <4>1, <4>2, <4>3
    <3> QED
      BY <3>1, <3>2, <3>3
  <2>7. EpochsAgree'
    BY <1>1, <1>3, <1>7, <2>2 DEF EpochsAgree, Connected
  <2> QED
    BY <1>4, <2>3, <2>4, <2>5, <2>6, <2>7, <2>8
<1>8. CASE /\ slot' = [slot EXCEPT ![a] = n]
           /\ watched' = [watched EXCEPT ![n] = ~reported[n]]
           /\ UNCHANGED <<reported, environmentEpoch>>
  <2>1. \A b \in Ssh : b # a => slot'[b] = slot[b]
    BY <1>8 DEF TypeOK
  <2>2. slot'[a] = n
    BY <1>0, <1>8 DEF TypeOK
  <2>3. \A m \in Transport : m # n => watched'[m] = watched[m]
    BY <1>8 DEF TypeOK
  <2>4. RevokedGoesDown'
    <3>1. \A b \in Ssh : b # a => (Connected(b)' <=> Connected(b))
      BY <1>1, <2>1 DEF Connected
    <3> QED
      BY <1>1, <1>5, <1>6, <3>1 DEF RevokedGoesDown
  <2>5. HolderIsAlone'
    <3> SUFFICES ASSUME NEW u \in tasks', HoldsLock(u)
                 PROVE  /\ slot'[u.auth] = NoTransport
                        /\ HasTransport(u) =>
                             /\ u.tr \in 1..launched
                             /\ owner[u.tr] = u.auth
                             /\ ~watched'[u.tr]
                             /\ alive[u.tr] => generation[u.tr] = environmentEpoch[u.auth]
      BY <1>1, <1>8 DEF HolderIsAlone
    <3>1. u \in tasks /\ u.auth # a /\ u.auth \in Ssh
      BY <1>2 DEF TypeOK, Task
    <3>2. HasTransport(u) => u.tr \in Transport
      BY <3>1 DEF TypeOK, Task
    <3> QED
      BY <1>3, <2>1, <2>3, <3>1, <3>2 DEF HolderIsAlone
  <2>6. SlotIsOwn'
    BY <1>1, <1>3, <2>1, <2>2 DEF SlotIsOwn
  <2>7. OnlyLaunchedLive'
    BY <1>1, <1>3, <1>8, <2>3 DEF OnlyLaunchedLive
  <2>8. WatchersTellNothingNew'
    <3> SUFFICES ASSUME NEW m \in Transport, watched'[m], slot'[owner[m]] # m
                 PROVE  ~alive[m] /\ generation[m] <= environmentEpoch[owner[m]]
      BY <1>1, <1>8 DEF WatchersTellNothingNew
    <3>1. m # n /\ watched[m] /\ owner[m] \in Ssh
      BY <1>3, <2>2, <2>3 DEF TypeOK
    <3>2. slot[owner[m]] # m
      BY <1>3, <2>1, <3>1
    <3> QED
      BY <3>1, <3>2 DEF WatchersTellNothingNew
  <2>9. EpochsAgree'
    BY <1>1, <1>3, <1>8, <2>1, <2>2 DEF EpochsAgree, Connected
  <2> QED
    BY <1>4, <2>4, <2>5, <2>6, <2>7, <2>8, <2>9
<1> QED
  BY <1>7, <1>8 DEF Finish

-----------------------------------------------------------------------------
(* Disconnections, losses and watchers.                                    *)
LEMMA DisconnectKeeps ==
  ASSUME TypeOK, TypeOK', AuthorityInv, NEW a \in Ssh, Disconnect(a)
  PROVE  AuthorityInv'
<1> USE DEF AuthorityInv
<1>1. /\ LockFree(a)
      /\ UNCHANGED <<cut, trust, tasks>>
      /\ \A b \in Ssh : b # a => disconnecting'[b] = disconnecting[b]
  BY DEF Disconnect, ui, activations, TypeOK
<1>2. OneHolder'
  BY <1>1 DEF OneHolder
<1>3. CASE slot[a] = NoTransport
  <2>1. UNCHANGED <<authority, transports>>
    BY <1>3 DEF Disconnect
  <2>2. RevokedGoesDown'
    BY <1>1, <1>3, <2>1
    DEF RevokedGoesDown, LockFree, Connected, authority, transports
  <2>3. HolderIsAlone'
    BY <1>1, <2>1 DEF HolderIsAlone, authority, transports
  <2>4. (SlotIsOwn /\ OnlyLaunchedLive /\ WatchersTellNothingNew /\ EpochsAgree)'
    BY <2>1 DEF SlotIsOwn, OnlyLaunchedLive, WatchersTellNothingNew, EpochsAgree,
                Connected, authority, transports
  <2> QED
    BY <1>2, <2>2, <2>3, <2>4
<1>4. CASE slot[a] # NoTransport
  <2> DEFINE n == slot[a]
  <2>1. /\ slot' = [slot EXCEPT ![a] = NoTransport]
        /\ alive' = Dead(n) /\ generation' = Advanced(n)
        /\ environmentEpoch' = [environmentEpoch EXCEPT ![a] = Later(@, generation'[n])]
        /\ UNCHANGED <<launched, owner, reported, watched>>
    BY <1>4 DEF Disconnect
  <2>2. n \in Transport /\ owner[n] = a /\ n <= launched
    BY <1>4 DEF TypeOK, SlotIsOwn
  <2>3. \A m \in Transport : m # n =>
          (alive'[m] <=> alive[m]) /\ generation'[m] = generation[m]
    BY <2>1, <2>2 DEF Dead, Advanced, TypeOK
  <2>4. ~alive'[n] /\ generation'[n] \in Nat
    BY <2>1, <2>2 DEF Dead, TypeOK
  <2>5. /\ slot'[a] = NoTransport
        /\ \A b \in Ssh : b # a => slot'[b] = slot[b]
        /\ \A b \in Ssh : b # a => environmentEpoch'[b] = environmentEpoch[b]
    BY <2>1 DEF TypeOK
  <2>6. /\ environmentEpoch[a] \in Nat /\ environmentEpoch'[a] \in Nat
        /\ environmentEpoch'[a] >= environmentEpoch[a]
        /\ environmentEpoch'[a] >= generation'[n]
    <3>1. environmentEpoch[a] \in Nat
      BY DEF TypeOK
    <3>2. environmentEpoch'[a] = Later(environmentEpoch[a], generation'[n])
      BY <2>1 DEF TypeOK
    <3> QED
      BY <2>4, <3>1, <3>2, LaterTyped
  <2>7. \A b \in Ssh : b # a /\ slot[b] # NoTransport =>
          slot[b] \in Transport /\ slot[b] # n
    BY <2>2 DEF SlotIsOwn, TypeOK
  <2>8. \A b \in Ssh : Connected(b)' => b # a /\ Connected(b)
    BY <2>3, <2>5, <2>7 DEF Connected
  <2>9. RevokedGoesDown'
    BY <1>1, <2>8 DEF RevokedGoesDown, LockFree
  <2>10. HolderIsAlone'
    <3> SUFFICES ASSUME NEW u \in tasks, HoldsLock(u)
                 PROVE  /\ slot'[u.auth] = NoTransport
                        /\ HasTransport(u) =>
                             /\ u.tr \in 1..launched
                             /\ owner[u.tr] = u.auth
                             /\ ~watched[u.tr]
                             /\ alive'[u.tr] => generation'[u.tr] = environmentEpoch'[u.auth]
      BY <1>1, <2>1 DEF HolderIsAlone
    <3>1. u.auth # a /\ u.auth \in Ssh
      BY <1>1 DEF LockFree, TypeOK, Task
    <3>2. HasTransport(u) => u.tr \in Transport
      BY DEF TypeOK, Task
    <3> QED
      BY <2>2, <2>3, <2>5, <3>1, <3>2 DEF HolderIsAlone
  <2>11. SlotIsOwn'
    BY <2>1, <2>5 DEF SlotIsOwn
  <2>12. OnlyLaunchedLive'
    BY <2>1, <2>2, <2>3 DEF OnlyLaunchedLive
  <2>13. WatchersTellNothingNew'
    <3> SUFFICES ASSUME NEW m \in Transport, watched[m], slot'[owner[m]] # m
                 PROVE  ~alive'[m] /\ generation'[m] <= environmentEpoch'[owner[m]]
      BY <2>1 DEF WatchersTellNothingNew
    <3>1. CASE m = n
      BY <2>2, <2>4, <2>6, <3>1
    <3>2. CASE m # n
      <4>1. owner[m] \in Ssh /\ generation[m] \in Nat
        BY DEF TypeOK
      <4>2. slot[owner[m]] # m
        BY <2>5, <3>2, <4>1
      <4>3. ~alive[m] /\ generation[m] <= environmentEpoch[owner[m]]
        BY <4>2 DEF WatchersTellNothingNew
      <4>4. CASE owner[m] = a
        BY <2>3, <2>6, <3>2, <4>1, <4>3, <4>4
      <4>5. CASE owner[m] # a
        BY <2>3, <2>5, <3>2, <4>1, <4>3, <4>5
      <4> QED
        BY <4>4, <4>5
    <3> QED
      BY <3>1, <3>2
  <2>14. EpochsAgree'
    <3> SUFFICES ASSUME NEW b \in Ssh, Connected(b)'
                 PROVE  generation'[slot'[b]] = environmentEpoch'[b]
      BY DEF EpochsAgree
    <3>1. b # a /\ Connected(b)
      BY <2>8
    <3>2. slot[b] \in Transport /\ slot[b] # n
      BY <2>7, <3>1 DEF Connected
    <3>3. generation[slot[b]] = environmentEpoch[b]
      BY <3>1 DEF EpochsAgree
    <3> QED
      BY <2>3, <2>5, <3>1, <3>2, <3>3
  <2> QED
    BY <1>2, <2>9, <2>10, <2>11, <2>12, <2>13, <2>14
<1> QED
  BY <1>3, <1>4

LEMMA LoseTransportKeeps ==
  ASSUME TypeOK, TypeOK', AuthorityInv, NEW n \in Transport, LoseTransport(n)
  PROVE  AuthorityInv'
<1> USE DEF AuthorityInv
<1>1. /\ alive[n] /\ alive' = Dead(n) /\ generation' = Advanced(n)
      /\ UNCHANGED <<cut, trust, tasks, disconnecting, slot, environmentEpoch,
                     launched, owner, reported, watched>>
  BY DEF LoseTransport, ui, activations, authority
<1>2. /\ ~alive'[n]
      /\ \A m \in Transport : m # n =>
           (alive'[m] <=> alive[m]) /\ generation'[m] = generation[m]
  BY <1>1 DEF Dead, Advanced, TypeOK
<1>3. \A b \in Ssh : Connected(b)' =>
        Connected(b) /\ slot[b] \in Transport /\ slot[b] # n
  BY <1>1, <1>2 DEF Connected, TypeOK
<1>4. OneHolder' /\ SlotIsOwn'
  BY <1>1 DEF OneHolder, SlotIsOwn
<1>5. RevokedGoesDown'
  BY <1>1, <1>3 DEF RevokedGoesDown, LockFree
<1>6. HolderIsAlone'
  <2> SUFFICES ASSUME NEW u \in tasks, HoldsLock(u)
               PROVE  /\ slot[u.auth] = NoTransport
                      /\ HasTransport(u) =>
                           /\ u.tr \in 1..launched
                           /\ owner[u.tr] = u.auth
                           /\ ~watched[u.tr]
                           /\ alive'[u.tr] => generation'[u.tr] = environmentEpoch[u.auth]
    BY <1>1 DEF HolderIsAlone
  <2>1. HasTransport(u) => u.tr \in Transport
    BY DEF TypeOK, Task
  <2> QED
    BY <1>2, <2>1 DEF HolderIsAlone
<1>7. OnlyLaunchedLive'
  BY <1>1, <1>2 DEF OnlyLaunchedLive
<1>8. WatchersTellNothingNew'
  BY <1>1, <1>2 DEF WatchersTellNothingNew
<1>9. EpochsAgree'
  BY <1>1, <1>2, <1>3 DEF EpochsAgree
<1> QED
  BY <1>4, <1>5, <1>6, <1>7, <1>8, <1>9

LEMMA ReportLossKeeps ==
  ASSUME TypeOK, TypeOK', AuthorityInv, NEW n \in Transport, ReportLoss(n)
  PROVE  AuthorityInv'
<1> USE DEF AuthorityInv
<1>1. /\ n <= launched /\ reported' = [reported EXCEPT ![n] = TRUE]
      /\ UNCHANGED <<ui, activations, disconnecting, authority, launched, owner,
                     generation, alive, watched, cut>>
  BY DEF ReportLoss
<1>2. \A m \in Transport : m # n => reported'[m] = reported[m]
  BY <1>1 DEF TypeOK
<1>3. OnlyLaunchedLive'
  BY <1>1, <1>2 DEF OnlyLaunchedLive
<1>4. (OneHolder /\ RevokedGoesDown /\ HolderIsAlone)'
  BY <1>1 DEF OneHolder, RevokedGoesDown, HolderIsAlone, LockFree, Connected,
              ui, activations, authority
<1>5. (SlotIsOwn /\ WatchersTellNothingNew /\ EpochsAgree)'
  BY <1>1 DEF SlotIsOwn, WatchersTellNothingNew, EpochsAgree, Connected, authority
<1> QED
  BY <1>3, <1>4, <1>5

LEMMA WatchLossKeeps ==
  ASSUME TypeOK, TypeOK', AuthorityInv, NEW n \in Transport, WatchLoss(n)
  PROVE  AuthorityInv'
<1> USE DEF AuthorityInv
<1> DEFINE a == owner[n]
<1>1. /\ watched[n] /\ watched' = [watched EXCEPT ![n] = FALSE]
      /\ environmentEpoch' = [environmentEpoch EXCEPT ![a] = Later(@, generation[n])]
      /\ slot' = [slot EXCEPT ![a] = SlotAfterLoss(n)]
      /\ UNCHANGED <<cut, trust, tasks, disconnecting, launched, owner, generation,
                     alive, reported>>
  BY DEF WatchLoss, ui, activations
<1>2. /\ a \in Ssh /\ generation[n] \in Nat /\ environmentEpoch[a] \in Nat
      /\ ~watched'[n]
      /\ \A m \in Transport : m # n => watched'[m] = watched[m]
      /\ \A b \in Ssh : b # a => /\ slot'[b] = slot[b]
                                 /\ environmentEpoch'[b] = environmentEpoch[b]
  BY <1>1 DEF TypeOK
<1>3. /\ slot'[a] = SlotAfterLoss(n)
      /\ environmentEpoch'[a] = Later(environmentEpoch[a], generation[n])
  BY <1>1, <1>2 DEF TypeOK
<1>4. OneHolder'
  BY <1>1 DEF OneHolder
<1>5. OnlyLaunchedLive'
  BY <1>1, <1>2 DEF OnlyLaunchedLive
<1>6. CASE slot[a] # n
  <2>1. slot' = slot /\ environmentEpoch' = environmentEpoch
    <3>1. generation[n] <= environmentEpoch[a]
      BY <1>1, <1>6 DEF WatchersTellNothingNew
    <3>2. environmentEpoch'[a] = environmentEpoch[a] /\ slot'[a] = slot[a]
      BY <1>2, <1>3, <1>6, <3>1 DEF Later, SlotAfterLoss
    <3> QED
      BY <1>1, <1>2, <3>2 DEF TypeOK
  <2>2. (RevokedGoesDown /\ SlotIsOwn /\ EpochsAgree)'
    BY <1>1, <2>1 DEF RevokedGoesDown, SlotIsOwn, EpochsAgree, LockFree, Connected
  <2>3. HolderIsAlone'
    <3>1. \A u \in tasks : HasTransport(u) => u.tr \in Transport
      BY DEF TypeOK, Task
    <3> QED
      BY <1>1, <1>2, <2>1, <3>1 DEF HolderIsAlone
  <2>4. WatchersTellNothingNew'
    BY <1>1, <1>2, <2>1 DEF WatchersTellNothingNew
  <2> QED
    BY <1>4, <1>5, <2>2, <2>3, <2>4
<1>7. CASE slot[a] = n
  <2>1. /\ slot'[a] = NoTransport
        /\ environmentEpoch'[a] \in Nat /\ environmentEpoch'[a] >= environmentEpoch[a]
    BY <1>2, <1>3, <1>7 DEF Later, SlotAfterLoss
  <2>2. LockFree(a)
    BY <1>7 DEF LockFree, HolderIsAlone
  <2>3. \A b \in Ssh : Connected(b)' => b # a /\ Connected(b)
    BY <1>1, <1>2, <2>1 DEF Connected
  <2>4. RevokedGoesDown'
    BY <1>1, <2>3 DEF RevokedGoesDown, LockFree
  <2>5. HolderIsAlone'
    <3> SUFFICES ASSUME NEW u \in tasks, HoldsLock(u)
                 PROVE  /\ slot'[u.auth] = NoTransport
                        /\ HasTransport(u) =>
                             /\ u.tr \in 1..launched
                             /\ owner[u.tr] = u.auth
                             /\ ~watched'[u.tr]
                             /\ alive[u.tr] => generation[u.tr] = environmentEpoch'[u.auth]
      BY <1>1 DEF HolderIsAlone
    <3>1. u.auth # a /\ u.auth \in Ssh
      BY <2>2 DEF LockFree, TypeOK, Task
    <3>2. HasTransport(u) => u.tr \in Transport
      BY DEF TypeOK, Task
    <3> QED
      BY <1>2, <3>1, <3>2 DEF HolderIsAlone
  <2>6. SlotIsOwn'
    BY <1>1, <1>2, <2>1 DEF SlotIsOwn
  <2>7. WatchersTellNothingNew'
    <3> SUFFICES ASSUME NEW m \in Transport, watched'[m], slot'[owner[m]] # m
                 PROVE  ~alive[m] /\ generation[m] <= environmentEpoch'[owner[m]]
      BY <1>1 DEF WatchersTellNothingNew
    <3>1. m # n /\ watched[m] /\ owner[m] \in Ssh /\ generation[m] \in Nat
      BY <1>2 DEF TypeOK
    <3>2. slot[owner[m]] # m
      BY <1>2, <1>7, <3>1
    <3>3. ~alive[m] /\ generation[m] <= environmentEpoch[owner[m]]
      BY <3>1, <3>2 DEF WatchersTellNothingNew
    <3>4. CASE owner[m] = a
      BY <1>2, <2>1, <3>1, <3>3, <3>4
    <3>5. CASE owner[m] # a
      BY <1>2, <3>1, <3>3, <3>5
    <3> QED
      BY <3>4, <3>5
  <2>8. EpochsAgree'
    BY <1>1, <1>2, <2>3 DEF EpochsAgree
  <2> QED
    BY <1>4, <1>5, <2>4, <2>5, <2>6, <2>7, <2>8
<1> QED
  BY <1>6, <1>7

-----------------------------------------------------------------------------
LEMMA BackgroundKeeps ==
  ASSUME TypeOK, TypeOK', AuthorityInv, BackgroundStep
  PROVE  AuthorityInv'
<1>1. ASSUME NEW t \in tasks, TaskStep(t) PROVE AuthorityInv'
  <2>0. t \in Task
    BY DEF TypeOK
  <2>1. CASE ScanFails(t) \/ LaunchFails(t)
    <3>1. /\ Outcome(t, FALSE)
          /\ UNCHANGED <<ui, disconnecting, authority, transports, cut>>
      BY <2>1 DEF ScanFails, LaunchFails
    <3>2. \A u \in tasks' : HoldsLock(u) => u \in tasks
      BY <2>0, <3>1, OutcomeHolds
    <3> QED
      BY <3>1, <3>2, QuietStep DEF ui, AuthorityInv, RevokedGoesDown
  <2>2. CASE SendOutcome(t)
    <3>1. \A u \in tasks' : HoldsLock(u) => u \in tasks
      BY <2>2 DEF SendOutcome
    <3> QED
      BY <2>2, <3>1, QuietStep DEF SendOutcome, ui, AuthorityInv, RevokedGoesDown
  <2> QED
    BY <1>1, <2>1, <2>2, BeginKeeps, LaunchKeeps, NegotiationFailsKeeps,
       HelloAckKeeps, FinishKeeps DEF TaskStep
<1> QED
  BY <1>1, DisconnectKeeps, LoseTransportKeeps, ReportLossKeeps, WatchLossKeeps
  DEF BackgroundStep, TransportStep

(* The lifecycle lock has one holder per authority, alone with its helper; *)
(* what is revoked goes down; epochs agree whatever the watchers do.       *)
THEOREM AuthorityInvariant == Spec => []AuthorityInv
<1>1. TypeOK /\ TypeOK' /\ AuthorityInv /\ [Next]_sshVars => AuthorityInv'
  <2> SUFFICES ASSUME TypeOK, TypeOK', AuthorityInv, [Next]_sshVars
               PROVE  AuthorityInv'
    OBVIOUS
  <2>1. CASE UNCHANGED sshVars
    BY <2>1, QuietStep DEF sshVars, ui, activations, AuthorityInv, RevokedGoesDown
  <2>2. CASE Next
    BY <2>2, UiKeeps, BackgroundKeeps DEF Next
  <2> QED
    BY <2>1, <2>2
<1> QED
  BY InitInv, <1>1, SshTypeCorrect, PTL DEF Spec

(* Once the disconnections a revocation asked for are done, the authority  *)
(* stays down until execution is granted again.                            *)
THEOREM RevokedAuthorityStaysDown == Spec => []RevokedStaysDown
<1>1. AuthorityInv => RevokedStaysDown
  BY DEF AuthorityInv, RevokedGoesDown, RevokedStaysDown
<1> QED
  BY AuthorityInvariant, <1>1, PTL

(* While a helper is connected its generation is the authority's epoch.    *)
THEOREM EpochsAlwaysAgree == Spec => []EpochsAgree
<1>1. AuthorityInv => EpochsAgree
  BY DEF AuthorityInv
<1> QED
  BY AuthorityInvariant, <1>1, PTL

-----------------------------------------------------------------------------
(* An authority is at work while it has a task or a result on its way.     *)
AtWork(a) ==
  \/ \E t \in tasks : t.auth = a
  \/ \E i \in 1..Len(results) : results[i].auth = a

(* What is shown as connecting stays at work, when nobody is shown so who  *)
(* was not and whoever was at work still is.                               *)
LEMMA WorkKeeps ==
  ASSUME ConnectingIsReal,
         \A a \in Ssh : connection'[a] = "Connecting" =>
           \/ connection[a] = "Connecting" /\ (AtWork(a) => AtWork(a)')
           \/ AtWork(a)'
  PROVE  ConnectingIsReal'
BY DEF ConnectingIsReal, AtWork

LEMMA InitAtWork == Init => ConnectingIsReal
<1> SUFFICES ASSUME Init, NEW a \in Ssh, connection[a] = "Connecting"
             PROVE  \E t \in tasks : t.auth = a
  BY DEF ConnectingIsReal
<1>1. a \in Started
  BY DEF Init
<1>2. NewTask(a, 1) \in tasks /\ NewTask(a, 1).auth = a
  BY <1>1 DEF Init, NewTask
<1> QED
  BY <1>2

(* A dispatch puts its authority to work and takes nobody's work away.     *)
LEMMA ActivateAtWork ==
  ASSUME TypeOK, NEW a \in Ssh, NEW shown,
         Activate(a, shown) \/ Dispatch(a) \/ UNCHANGED <<connection, tasks>>,
         UNCHANGED results, ConnectingIsReal
  PROVE  ConnectingIsReal'
<1>1. CASE UNCHANGED <<connection, tasks>>
  BY <1>1, WorkKeeps DEF AtWork
<1>2. CASE Dispatch(a)
  <2>1. PICK i \in TaskId : tasks' = tasks \cup {NewTask(a, i)}
    BY <1>2 DEF Dispatch
  <2>2. NewTask(a, i).auth = a
    BY DEF NewTask
  <2>3. \A b \in Ssh : b # a => connection'[b] = connection[b]
    BY <1>2 DEF Dispatch, TypeOK
  <2>4. \A b \in Ssh : AtWork(b) => AtWork(b)'
    BY <2>1 DEF AtWork
  <2>5. AtWork(a)'
    BY <2>1, <2>2 DEF AtWork
  <2> QED
    BY <2>3, <2>4, <2>5, WorkKeeps
<1> QED
  BY <1>1, <1>2 DEF Activate

LEMMA TailElements ==
  ASSUME NEW T, NEW q \in Seq(T), q # <<>>
  PROVE  /\ Head(q) \in T /\ Head(q) = q[1]
         /\ Len(q) \in Nat \ {0} /\ Len(Tail(q)) = Len(q) - 1
         /\ \A i \in 1..Len(Tail(q)) : Tail(q)[i] = q[i + 1]
OBVIOUS

(* The event loop takes a result and says what became of the activation.   *)
LEMMA ResultAtWork ==
  ASSUME TypeOK, ConnectingIsReal, ActivationResult
  PROVE  ConnectingIsReal'
<1> DEFINE r == Head(results)
<1>1. /\ results \in Seq([auth : Ssh, ok : BOOLEAN]) /\ results # <<>>
      /\ results' = Tail(results) /\ UNCHANGED tasks
      /\ connection' = Refreshed(ShownAfter(r))
  BY DEF TypeOK, ActivationResult
<1>2. /\ r \in [auth : Ssh, ok : BOOLEAN] /\ r = results[1]
      /\ Len(results) \in Nat \ {0} /\ Len(results') = Len(results) - 1
      /\ \A i \in 1..Len(results') : results'[i] = results[i + 1]
  BY <1>1, TailElements
<1> HIDE DEF r
<1>3. \A a \in Ssh : connection'[a] = "Connecting" => a # r.auth /\ connection[a] = "Connecting"
  BY <1>1, <1>2 DEF Refreshed, ShownAfter, TypeOK
<1>4. ASSUME NEW a \in Ssh, a # r.auth, AtWork(a)
      PROVE  AtWork(a)'
  <2>1. CASE \E t \in tasks : t.auth = a
    BY <1>1, <2>1 DEF AtWork
  <2>2. ASSUME NEW i \in 1..Len(results), results[i].auth = a
        PROVE  AtWork(a)'
    <3>1. i # 1
      BY <1>2, <1>4, <2>2
    <3>2. PICK j \in Int : j = i - 1
      BY <2>2
    <3>3. j \in 1..Len(results') /\ j + 1 = i
      BY <1>2, <3>1, <3>2
    <3>4. results'[j].auth = a
      BY <1>2, <2>2, <3>3
    <3> QED
      BY <3>3, <3>4 DEF AtWork
  <2> QED
    BY <1>4, <2>1, <2>2 DEF AtWork
<1> QED
  BY <1>3, <1>4, WorkKeeps

LEMMA UiAtWork ==
  ASSUME TypeOK, TypeOK', ConnectingIsReal,
         OverlayStep \/ TrustStep \/ CycleAuthority \/ DrainStep
  PROVE  ConnectingIsReal'
<1>1. CASE ReviewTrust \/ OpenCommandPalette \/ CancelModal \/ PaletteRevokeTrust
  BY <1>1, WorkKeeps
     DEF ReviewTrust, OpenCommandPalette, CancelModal, PaletteRevokeTrust, activations, AtWork
<1>2. CASE SshPassphraseSubmit
  <2>1. current \in Ssh
    BY <1>2 DEF SshPassphraseSubmit, TypeOK
  <2> QED
    BY <1>2, <2>1, ActivateAtWork DEF SshPassphraseSubmit
<1>3. CASE GrantTrust
  BY <1>3, ActivateAtWork DEF GrantTrust
<1>4. CASE CycleAuthority
  <2>1. PICK a \in Authority :
          \/ a \in Ssh /\ Activate(a, "none")
          \/ UNCHANGED <<connection, tasks>>
    BY <1>4 DEF CycleAuthority
  <2>2. UNCHANGED results
    BY <1>4 DEF CycleAuthority
  <2> QED
    BY <2>1, <2>2, ActivateAtWork, SshAssumption
<1>5. CASE RevokeTrust
  <2>1. /\ current \in Ssh /\ connection' = [connection EXCEPT ![current] = "Disconnected"]
        /\ tasks' = tasks \ Aborted(current) /\ UNCHANGED results
    BY <1>5 DEF RevokeTrust
  <2>2. \A a \in Ssh :
          connection'[a] = "Connecting" => a # current /\ connection[a] = "Connecting"
    BY <2>1 DEF TypeOK
  <2>3. \A a \in Ssh : a # current /\ AtWork(a) => AtWork(a)'
    BY <2>1 DEF Aborted, AtWork
  <2> QED
    BY <2>2, <2>3, WorkKeeps
<1>6. CASE ActivationResult
  BY <1>6, ResultAtWork
<1>7. CASE RefreshConnections
  <2>1. \A a \in Ssh : connection'[a] = "Connecting" => connection[a] = "Connecting"
    BY <1>7 DEF RefreshConnections, Refreshed
  <2>2. UNCHANGED <<tasks, results>>
    BY <1>7 DEF RefreshConnections, activations
  <2> QED
    BY <2>1, <2>2, WorkKeeps DEF AtWork
<1> QED
  BY <1>1, <1>2, <1>3, <1>4, <1>5, <1>6, <1>7
  DEF OverlayStep, TrustStep, DrainStep

(* A task that goes on is still its authority's; one that ends leaves its  *)
(* result.                                                                 *)
LEMMA TaskAtWork ==
  ASSUME TypeOK, ConnectingIsReal, NEW t \in tasks, TaskStep(t)
  PROVE  ConnectingIsReal'
<1>0. t \in Task /\ UNCHANGED connection
  BY DEF TypeOK, TaskStep, ScanFails, Begin, LaunchFails, Launch, NegotiationFails, HelloAck,
         Finish, SendOutcome, ui
<1>1. CASE SendOutcome(t)
  <2>1. /\ results \in Seq([auth : Ssh, ok : BOOLEAN])
        /\ [auth |-> t.auth, ok |-> t.ok] \in [auth : Ssh, ok : BOOLEAN]
        /\ results' = Append(results, [auth |-> t.auth, ok |-> t.ok])
        /\ tasks' = tasks \ {t}
    BY <1>0, <1>1 DEF SendOutcome, TypeOK, Task
  <2>2. /\ Len(results) \in Nat /\ Len(results') = Len(results) + 1
        /\ \A i \in 1..Len(results) : results'[i] = results[i]
        /\ results'[Len(results) + 1] = [auth |-> t.auth, ok |-> t.ok]
    BY <2>1
  <2>3. \A a \in Ssh : a # t.auth /\ AtWork(a) => AtWork(a)'
    BY <2>1, <2>2 DEF AtWork
  <2>4. AtWork(t.auth)'
    BY <2>2 DEF AtWork
  <2> QED
    BY <1>0, <2>3, <2>4, WorkKeeps
<1>2. CASE \E u \in Task : u.auth = t.auth /\ tasks' = (tasks \ {t}) \cup {u}
           /\ UNCHANGED results
  <2>1. \A a \in Ssh : AtWork(a) => AtWork(a)'
    BY <1>2 DEF AtWork
  <2> QED
    BY <1>0, <2>1, WorkKeeps
<1>3. ASSUME NEW ok \in BOOLEAN, Outcome(t, ok), UNCHANGED results
      PROVE  ConnectingIsReal'
  <2> DEFINE u == [t EXCEPT !.stage = "sending", !.tr = NoTransport, !.ok = ok]
  <2>1. u \in Task /\ u.auth = t.auth
    BY <1>0 DEF Task, Stage
  <2> QED
    BY <1>2, <1>3, <2>1 DEF Outcome
<1>4. CASE \E s \in {"launching"} : Become(t, s) /\ t.stage = "scanning" /\ UNCHANGED results
  <2>1. [t EXCEPT !.stage = "launching"] \in Task
    BY <1>0, <1>4 DEF Task, Stage
  <2> QED
    BY <1>0, <1>2, <1>4, <2>1 DEF Become, Task
<1>5. CASE HelloAck(t)
  <2>1. [t EXCEPT !.stage = "finishing"] \in Task
    BY <1>0, <1>5 DEF HelloAck, Task, Stage
  <2> QED
    BY <1>0, <1>2, <1>5, <2>1 DEF HelloAck, Become, Task
<1>6. CASE Launch(t)
  <2>1. launched' \in Transport
    BY <1>6 DEF Launch, TypeOK
  <2>2. [t EXCEPT !.stage = "negotiating", !.tr = launched'] \in Task
    BY <1>0, <2>1 DEF Task, Stage
  <2> QED
    BY <1>0, <1>2, <1>6, <2>2 DEF Launch, Task
<1>7. CASE ScanFails(t) \/ LaunchFails(t) \/ NegotiationFails(t) \/ Finish(t)
  BY <1>3, <1>7 DEF ScanFails, LaunchFails, NegotiationFails, Finish
<1>8. CASE Begin(t)
  BY <1>3, <1>4, <1>8 DEF Begin
<1> QED
  BY <1>1, <1>5, <1>6, <1>7, <1>8 DEF TaskStep

(* An authority shown as connecting has a task or a result on its way,     *)
(* however activations, their abort, results and refreshes interleave.     *)
THEOREM ConnectingIsAlwaysReal == Spec => []ConnectingIsReal
<1>1. TypeOK /\ TypeOK' /\ ConnectingIsReal /\ [Next]_sshVars => ConnectingIsReal'
  <2> SUFFICES ASSUME TypeOK, TypeOK', ConnectingIsReal, [Next]_sshVars
               PROVE  ConnectingIsReal'
    OBVIOUS
  <2>1. CASE UNCHANGED <<connection, tasks, results>>
    BY <2>1, WorkKeeps DEF AtWork
  <2>2. ASSUME NEW a \in Ssh, Disconnect(a) PROVE UNCHANGED <<connection, tasks, results>>
    BY <2>2 DEF Disconnect, ui, activations
  <2>3. ASSUME NEW n \in Transport, TransportStep(n)
        PROVE  UNCHANGED <<connection, tasks, results>>
    BY <2>3 DEF TransportStep, LoseTransport, ReportLoss, WatchLoss, ui, activations
  <2>4. CASE BackgroundStep
    BY <2>1, <2>2, <2>3, <2>4, TaskAtWork DEF BackgroundStep
  <2>5. CASE OverlayStep \/ TrustStep \/ CycleAuthority \/ DrainStep
    BY <2>5, UiAtWork
  <2>6. CASE UNCHANGED sshVars
    BY <2>1, <2>6 DEF sshVars, ui, activations
  <2> QED
    BY <2>4, <2>5, <2>6 DEF Next
<1> QED
  BY InitAtWork, <1>1, SshTypeCorrect, PTL DEF Spec
=============================================================================
