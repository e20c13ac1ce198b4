------------------------- MODULE TerminalPaneProofs -------------------------
(***************************************************************************)
(* The two safety properties of the terminal pane for any authorities and  *)
(* any number of launches.  They need the books of the launches: the ids   *)
(* only grow, the launch that is wanted is the newest one and was made for *)
(* the current authority, and a launch under way has no session before it  *)
(* delivers one.                                                           *)
(***************************************************************************)
EXTENDS TerminalPane, TLAPS

LaunchBooks ==
  /\ flight <= launchId /\ terminal <= launchId
  /\ flight = 0 => result = "none"
  /\ starting => terminal = 0 /\ launchId # 0 /\ current \in trusted
  /\ starting /\ flight = launchId => host[flight] = current

NothingBeforeResult ==
  flight # 0 /\ result # "session" => session[flight] # "running"

PaneInv ==
  PaneTypeOK /\ LaunchBooks /\ NothingBeforeResult /\ PaneIsTrusted /\ NoStraySession

USE PaneAssumption DEF Launches, States, Ended

(* A cancelled session has ended, and the others are left alone.           *)
LEMMA CancelEnds ==
  ASSUME PaneTypeOK, NEW id \in 0..MaxLaunches, Cancel(id)
  PROVE  /\ session' \in [Launches -> States]
         /\ \A l \in Launches : session'[l] = "running" => session[l] = "running" /\ l # id
<1>1. CASE id = 0
  BY <1>1 DEF Cancel, PaneTypeOK
<1>2. CASE id # 0
  <2>1. PICK end \in Ended : session' = [session EXCEPT ![id] = end]
    BY <1>2 DEF Cancel
  <2> QED BY <1>2, <2>1 DEF PaneTypeOK
<1>3. QED
  BY <1>1, <1>2

(* Whoever gives up what is under way and what is shown is safe.           *)
LEMMA GivenUp ==
  ASSUME PaneInv, Unwanted, LetGo, UNCHANGED launch,
         trusted' \subseteq Authorities, UNCHANGED connected, current' \in Authorities
  PROVE  PaneInv'
<1>1. terminal \in 0..MaxLaunches
  BY DEF PaneInv, PaneTypeOK
<1>2. /\ session' \in [Launches -> States]
      /\ \A l \in Launches : session'[l] = "running" => session[l] = "running" /\ l # terminal
  BY <1>1, CancelEnds DEF PaneInv, LetGo
<1>3. /\ terminal' = 0 /\ starting' = FALSE /\ capture' = FALSE
      /\ launchId' = launchId + 1 /\ launchId < MaxLaunches
      /\ flight' = flight /\ result' = result /\ host' = host
  BY DEF LetGo, Unwanted, Supersede, launch
<1>4. PaneTypeOK'
  <2>1. starting' \in BOOLEAN /\ capture' \in BOOLEAN
    BY <1>3
  <2>2. launchId' \in 0..MaxLaunches
    BY <1>3 DEF PaneInv, PaneTypeOK
  <2>3. /\ terminal' \in 0..MaxLaunches /\ flight' \in 0..MaxLaunches
        /\ result' \in {"none", "session", "error"} /\ host' \in [Launches -> Authorities]
    BY <1>3 DEF PaneInv, PaneTypeOK
  <2>4. connected' \subseteq Authorities /\ Local \in connected'
    BY DEF PaneInv, PaneTypeOK
  <2>5. QED
    BY <1>2, <2>1, <2>2, <2>3, <2>4 DEF PaneTypeOK
<1>5. LaunchBooks'
  BY <1>3 DEF PaneInv, PaneTypeOK, LaunchBooks
<1>6. NothingBeforeResult' /\ NoStraySession'
  BY <1>2, <1>3 DEF PaneInv, PaneTypeOK, NothingBeforeResult, NoStraySession
<1>7. PaneIsTrusted'
  BY <1>3 DEF PaneIsTrusted
<1>8. QED
  BY <1>4, <1>5, <1>6, <1>7 DEF PaneInv

LEMMA PaneInitInv == PaneInit => PaneInv
<1> SUFFICES ASSUME PaneInit PROVE PaneInv
  OBVIOUS
<1>1. starting \in BOOLEAN /\ capture \in BOOLEAN /\ ~starting /\ ~capture
  BY DEF PaneInit
<1>2. PaneTypeOK
  BY <1>1 DEF PaneInit, PaneTypeOK
<1>3. LaunchBooks /\ NothingBeforeResult /\ PaneIsTrusted /\ NoStraySession
  BY <1>1 DEF PaneInit, LaunchBooks, NothingBeforeResult, PaneIsTrusted, NoStraySession
<1>4. QED
  BY <1>2, <1>3 DEF PaneInv

-----------------------------------------------------------------------------
(* A launch is dispatched only with nothing in the pane, and no session    *)
(* has its id yet.                                                         *)
LEMMA Dispatched ==
  ASSUME PaneTypeOK, DispatchWanted, launchId' \in 0..MaxLaunches, current' \in Authorities,
         starting' \in BOOLEAN, starting' => launchId' # 0
  PROVE  /\ flight' \in 0..MaxLaunches /\ host' \in [Launches -> Authorities]
         /\ \/ flight' = 0 /\ host' = host
            \/ /\ flight' = launchId' /\ flight' # 0 /\ host'[flight'] = current'
               /\ terminal' = 0 /\ starting' = TRUE
<1>1. CASE Wanted
  BY <1>1 DEF DispatchWanted, Wanted, PaneTypeOK
<1>2. CASE ~Wanted
  BY <1>2 DEF DispatchWanted, PaneTypeOK
<1>3. QED
  BY <1>1, <1>2

LEMMA OpenInv == PaneInv /\ OpenTerminal => PaneInv'
<1> SUFFICES ASSUME PaneInv, OpenTerminal PROVE PaneInv'
  OBVIOUS
<1>0. /\ trusted' = trusted /\ connected' = connected /\ current' = current /\ result' = result
      /\ terminal \in 0..MaxLaunches /\ flight \in 0..MaxLaunches /\ launchId \in 0..MaxLaunches
      /\ starting \in BOOLEAN /\ PaneTypeOK
  BY DEF OpenTerminal, authority, PaneInv, PaneTypeOK
<1>1. CASE ~CanOpen /\ Unwanted /\ UNCHANGED <<terminal, session>>
  <2>1. /\ terminal' = terminal /\ session' = session /\ starting' = FALSE /\ capture' = FALSE
        /\ launchId' = launchId + 1 /\ launchId' \in 0..MaxLaunches
    BY <1>0, <1>1 DEF Unwanted, Supersede
  <2>2. flight' = flight /\ host' = host
    BY <1>0, <2>1 DEF OpenTerminal, DispatchWanted, Wanted
  <2>3. starting' \in BOOLEAN /\ capture' \in BOOLEAN
    BY <2>1
  <2>4. PaneTypeOK'
    BY <1>0, <2>1, <2>2, <2>3 DEF PaneTypeOK
  <2>5. QED
    BY <1>0, <2>1, <2>2, <2>4 DEF PaneInv, PaneTypeOK, LaunchBooks, NothingBeforeResult,
       PaneIsTrusted, NoStraySession
<1>2. CASE /\ CanOpen /\ terminal # 0 /\ session[terminal] = "running" /\ capture' = TRUE
           /\ UNCHANGED <<terminal, starting, launchId, session>>
  <2>1. flight' = flight /\ host' = host
    BY <1>2 DEF OpenTerminal, DispatchWanted, Wanted
  <2>2. QED
    BY <1>0, <1>2, <2>1 DEF PaneInv, PaneTypeOK, LaunchBooks, NothingBeforeResult,
       PaneIsTrusted, NoStraySession
<1>3. CASE /\ CanOpen /\ (terminal # 0 => session[terminal] # "running")
           /\ LetGo /\ Supersede /\ starting' = TRUE /\ capture' = FALSE
  <2>1. /\ session' \in [Launches -> States]
        /\ \A l \in Launches : session'[l] = "running" => session[l] = "running" /\ l # terminal
    BY <1>0, <1>3, CancelEnds DEF LetGo
  <2>2. terminal' = 0 /\ launchId' = launchId + 1 /\ launchId' \in 0..MaxLaunches /\ launchId' # 0
    BY <1>0, <1>3 DEF LetGo, Supersede
  <2>6. starting' \in BOOLEAN /\ capture' \in BOOLEAN
    BY <1>3
  <2>3. CASE flight # 0
    <3>1. flight' = flight /\ host' = host
      BY <2>3 DEF OpenTerminal
    <3>2. flight' # launchId'
      BY <1>0, <2>2, <3>1 DEF PaneInv, LaunchBooks
    <3>3. PaneTypeOK'
      BY <1>0, <2>1, <2>2, <2>6, <3>1 DEF PaneTypeOK
    <3>4. LaunchBooks'
      BY <1>0, <1>3, <2>2, <3>1, <3>2 DEF PaneInv, LaunchBooks, CanOpen
    <3>5. NothingBeforeResult' /\ NoStraySession'
      BY <1>0, <2>1, <2>2, <3>1 DEF PaneInv, NothingBeforeResult, NoStraySession
    <3>6. PaneIsTrusted'
      BY <1>3, <2>2 DEF PaneIsTrusted
    <3>7. QED
      BY <3>3, <3>4, <3>5, <3>6 DEF PaneInv
  <2>4. CASE flight = 0
    <3>1. DispatchWanted
      BY <2>4 DEF OpenTerminal
    <3>2. current' \in Authorities
      BY <1>0 DEF PaneTypeOK
    <3>3. /\ flight' \in 0..MaxLaunches /\ host' \in [Launches -> Authorities]
          /\ \/ flight' = 0 /\ host' = host
             \/ flight' = launchId' /\ flight' # 0 /\ host'[flight'] = current'
      BY <1>0, <1>3, <2>2, <3>1, <3>2, Dispatched
    <3>4. \A l \in Launches : session'[l] # "running"
      BY <2>1, <2>4, <1>0 DEF PaneInv, NoStraySession
    <3>5. PaneTypeOK'
      BY <1>0, <2>1, <2>2, <2>6, <3>3 DEF PaneTypeOK
    <3>6. LaunchBooks'
      BY <1>0, <1>3, <2>2, <2>4, <3>3 DEF PaneInv, LaunchBooks, CanOpen
    <3>7. QED
      BY <1>3, <2>2, <3>3, <3>4, <3>5, <3>6 DEF PaneInv, NothingBeforeResult, PaneIsTrusted,
         NoStraySession
  <2>5. QED
    BY <2>3, <2>4
<1>4. QED
  BY <1>1, <1>2, <1>3 DEF OpenTerminal

LEMMA InputInv == PaneInv /\ TerminalInput => PaneInv'
<1> SUFFICES ASSUME PaneInv, TerminalInput PROVE PaneInv'
  OBVIOUS
<1>1. /\ UNCHANGED <<trusted, connected, current, starting, launchId, flight, result, host>>
      /\ terminal' = 0 /\ capture' = FALSE /\ terminal \in 0..MaxLaunches
      /\ PaneTypeOK
  BY DEF TerminalInput, authority, launch, LetGo, PaneInv, PaneTypeOK
<1>2. /\ session' \in [Launches -> States]
      /\ \A l \in Launches : session'[l] = "running" => session[l] = "running" /\ l # terminal
  BY <1>1, CancelEnds DEF TerminalInput, LetGo
<1>3. starting' \in BOOLEAN /\ capture' \in BOOLEAN
  BY <1>1 DEF PaneTypeOK
<1>4. PaneTypeOK'
  BY <1>1, <1>2, <1>3 DEF PaneTypeOK
<1>5. QED
  BY <1>1, <1>2, <1>4 DEF PaneInv, PaneTypeOK, LaunchBooks, NothingBeforeResult,
     PaneIsTrusted, NoStraySession

LEMMA ReleaseInv == PaneInv /\ ReleaseTerminalCapture => PaneInv'
<1> SUFFICES ASSUME PaneInv, ReleaseTerminalCapture PROVE PaneInv'
  OBVIOUS
<1>1. capture' \in BOOLEAN /\ ~capture'
  BY DEF ReleaseTerminalCapture
<1>2. QED
  BY <1>1 DEF ReleaseTerminalCapture, authority, launch, PaneInv, PaneTypeOK, LaunchBooks,
     NothingBeforeResult, PaneIsTrusted, NoStraySession

LEMMA FocusInv == PaneInv /\ FocusLandmark => PaneInv'
<1> SUFFICES ASSUME PaneInv, FocusLandmark PROVE PaneInv'
  OBVIOUS
<1>1. capture' \in BOOLEAN /\ (capture' => terminal # 0)
  BY DEF FocusLandmark
<1>2. QED
  BY <1>1 DEF FocusLandmark, authority, launch, PaneInv, PaneTypeOK, LaunchBooks,
     NothingBeforeResult, PaneIsTrusted, NoStraySession

LEMMA GiveUpInv ==
  PaneInv /\ (CloseTerminal \/ CycleAuthority \/ SelectSshAuthority \/ RevokeTrust) => PaneInv'
<1> SUFFICES ASSUME PaneInv, CloseTerminal \/ CycleAuthority \/ SelectSshAuthority \/ RevokeTrust
             PROVE  PaneInv'
  OBVIOUS
<1>1. Unwanted /\ LetGo /\ UNCHANGED launch /\ UNCHANGED connected
  BY DEF CloseTerminal, CycleAuthority, SelectSshAuthority, RevokeTrust, authority
<1>2. trusted' \subseteq Authorities /\ current' \in Authorities
  BY DEF CloseTerminal, CycleAuthority, SelectSshAuthority, RevokeTrust, authority, PaneInv,
     PaneTypeOK
<1>3. QED
  BY <1>1, <1>2, GivenUp

LEMMA GrantInv == PaneInv /\ GrantTrust => PaneInv'
BY DEF GrantTrust, pane, launch, PaneInv, PaneTypeOK, LaunchBooks, NothingBeforeResult,
   PaneIsTrusted, NoStraySession

LEMMA LinkInv == PaneInv /\ LinkChanges => PaneInv'
BY DEF LinkChanges, pane, launch, PaneInv, PaneTypeOK, LaunchBooks, NothingBeforeResult,
   PaneIsTrusted, NoStraySession

LEMMA SessionEndsInv == PaneInv /\ SessionEnds => PaneInv'
<1> SUFFICES ASSUME PaneInv, SessionEnds PROVE PaneInv'
  OBVIOUS
<1>1. UNCHANGED <<trusted, connected, current, terminal, starting, launchId, capture,
                  flight, result, host>>
  BY DEF SessionEnds, authority, pane, launch
<1>2. /\ session' \in [Launches -> States]
      /\ \A l \in Launches : session'[l] = "running" => session[l] = "running"
  BY DEF SessionEnds, PaneInv, PaneTypeOK
<1>3. QED
  BY <1>1, <1>2 DEF PaneInv, PaneTypeOK, LaunchBooks, NothingBeforeResult, PaneIsTrusted,
     NoStraySession

LEMMA ResolveInv == PaneInv /\ Resolve => PaneInv'
<1> SUFFICES ASSUME PaneInv, Resolve PROVE PaneInv'
  OBVIOUS
<1>1. /\ UNCHANGED <<trusted, connected, current, terminal, starting, launchId, capture,
                     flight, host>>
      /\ flight # 0 /\ result = "none" /\ result' \in {"session", "error"}
  BY DEF Resolve, authority, pane
<1>2. /\ session' \in [Launches -> States]
      /\ \A l \in Launches : session'[l] = "running" => session[l] = "running" \/ l = flight
      /\ result' = "error" => session' = session
  BY DEF Resolve, PaneInv, PaneTypeOK
<1>3. QED
  BY <1>1, <1>2 DEF PaneInv, PaneTypeOK, LaunchBooks, NothingBeforeResult, PaneIsTrusted,
     NoStraySession

-----------------------------------------------------------------------------
(* What the drain of a result leaves: the session of the launch is in the  *)
(* pane, or has ended.                                                     *)
LEMMA DrainInv == PaneInv /\ DrainTerminal => PaneInv'
<1> SUFFICES ASSUME PaneInv, DrainTerminal PROVE PaneInv'
  OBVIOUS
<1>0. /\ UNCHANGED <<trusted, connected, current, launchId>> /\ result' = "none"
      /\ flight \in 1..MaxLaunches /\ terminal \in 0..MaxLaunches /\ launchId \in 0..MaxLaunches
      /\ DispatchWanted /\ PaneTypeOK /\ starting \in BOOLEAN /\ capture \in BOOLEAN
  BY DEF DrainTerminal, authority, PaneInv, PaneTypeOK, LaunchBooks
<1>1. /\ session' \in [Launches -> States]
      /\ starting' \in BOOLEAN /\ capture' \in BOOLEAN
      /\ \A l \in Launches : session'[l] = "running" => session[l] = "running"
      /\ starting' => starting /\ flight # launchId
      /\ capture' => capture \/ terminal' # 0
      /\ \/ terminal' = terminal /\ session'[flight] # "running"
         \/ terminal' = flight /\ flight = launchId /\ starting /\ ~starting'
  <2>1. CASE result = "session" /\ ~IsWanted(flight)
    <3>1. Cancel(flight) /\ UNCHANGED <<terminal, starting, capture>>
      BY <2>1 DEF DrainTerminal, AttachTerminal
    <3>2. /\ session' \in [Launches -> States]
          /\ \A l \in Launches : session'[l] = "running" => session[l] = "running" /\ l # flight
      BY <1>0, <3>1, CancelEnds
    <3>3. QED
      BY <1>0, <2>1, <3>1, <3>2 DEF IsWanted
  <2>2. CASE result = "session" /\ IsWanted(flight) /\ terminal' # flight
    <3>1. Cancel(flight) /\ starting' = FALSE /\ capture' = FALSE /\ UNCHANGED terminal
      BY <2>2 DEF DrainTerminal, AttachTerminal
    <3>2. /\ session' \in [Launches -> States]
          /\ \A l \in Launches : session'[l] = "running" => session[l] = "running" /\ l # flight
      BY <1>0, <3>1, CancelEnds
    <3>3. QED
      BY <1>0, <3>1, <3>2
  <2>3. CASE result = "session" /\ IsWanted(flight) /\ terminal' = flight
    <3>1. terminal = 0
      BY <2>3 DEF IsWanted, PaneInv, LaunchBooks
    <3>2. /\ starting' = FALSE /\ capture' = TRUE /\ UNCHANGED session
      BY <1>0, <2>3, <3>1 DEF DrainTerminal, AttachTerminal
    <3>3. starting' \in BOOLEAN /\ capture' \in BOOLEAN /\ ~starting'
      BY <3>2
    <3>4. session' \in [Launches -> States] /\ session' = session /\ terminal' # 0
      BY <1>0, <2>3, <3>2 DEF PaneTypeOK
    <3>5. starting /\ flight = launchId
      BY <2>3 DEF IsWanted
    <3>6. QED
      BY <2>3, <3>3, <3>4, <3>5
  <2>4. CASE result # "session"
    <3>1. UNCHANGED <<terminal, session>>
      BY <2>4 DEF DrainTerminal, FailTerminalStart
    <3>2. session[flight] # "running"
      BY <1>0, <2>4 DEF PaneInv, NothingBeforeResult
    <3>3. CASE IsWanted(flight)
      <4>1. starting' = FALSE /\ capture' = FALSE
        BY <2>4, <3>3 DEF DrainTerminal, FailTerminalStart
      <4>2. QED
        BY <1>0, <3>1, <3>2, <4>1 DEF PaneTypeOK
    <3>4. CASE ~IsWanted(flight)
      <4>1. UNCHANGED <<starting, capture>>
        BY <2>4, <3>4 DEF DrainTerminal, FailTerminalStart
      <4>2. QED
        BY <1>0, <3>1, <3>2, <3>4, <4>1 DEF PaneTypeOK, IsWanted
    <3>5. QED
      BY <3>3, <3>4
  <2>5. QED
    BY <2>1, <2>2, <2>3, <2>4
<1>2. /\ flight' \in 0..MaxLaunches /\ host' \in [Launches -> Authorities]
      /\ \/ flight' = 0 /\ host' = host
         \/ /\ flight' = launchId' /\ flight' # 0 /\ host'[flight'] = current'
            /\ terminal' = 0 /\ starting' = TRUE
  <2>1. starting' => launchId' # 0
    BY <1>0, <1>1 DEF PaneInv, LaunchBooks
  <2>2. launchId' \in 0..MaxLaunches /\ current' \in Authorities
    BY <1>0 DEF PaneTypeOK
  <2>3. QED
    BY <1>0, <1>1, <2>1, <2>2, Dispatched
<1>3. terminal' \in 0..MaxLaunches
  BY <1>0, <1>1
<1>4. PaneTypeOK'
  BY <1>0, <1>1, <1>2, <1>3 DEF PaneTypeOK
<1>5. LaunchBooks'
  BY <1>0, <1>1, <1>2 DEF PaneInv, LaunchBooks, PaneTypeOK
<1>6. NoStraySession' /\ NothingBeforeResult'
  <2>1. \A l \in Launches : session'[l] = "running" => l = terminal'
    BY <1>0, <1>1 DEF PaneInv, NoStraySession, LaunchBooks
  <2>2. QED
    BY <1>2, <2>1 DEF NoStraySession, NothingBeforeResult
<1>7. PaneIsTrusted'
  BY <1>0, <1>1, <1>2 DEF PaneInv, PaneIsTrusted, LaunchBooks
<1>8. QED
  BY <1>4, <1>5, <1>6, <1>7 DEF PaneInv

LEMMA DispatchInv == PaneInv /\ DispatchTerminal => PaneInv'
<1> SUFFICES ASSUME PaneInv, DispatchTerminal PROVE PaneInv'
  OBVIOUS
<1>0. /\ UNCHANGED <<trusted, connected, current, terminal, starting, launchId, capture,
                     result, session>>
      /\ flight = 0 /\ starting /\ terminal = 0 /\ DispatchWanted /\ PaneTypeOK
  BY DEF DispatchTerminal, authority, pane, PaneInv
<1>1. /\ flight' \in 0..MaxLaunches /\ host' \in [Launches -> Authorities]
      /\ \/ flight' = 0 /\ host' = host
         \/ flight' = launchId' /\ flight' # 0 /\ host'[flight'] = current'
  <2>1. /\ launchId' \in 0..MaxLaunches /\ current' \in Authorities /\ starting' \in BOOLEAN
        /\ starting' => launchId' # 0
    BY <1>0 DEF PaneTypeOK, PaneInv, LaunchBooks
  <2>2. QED
    BY <1>0, <2>1, Dispatched
<1>2. \A l \in Launches : session'[l] # "running"
  BY <1>0 DEF PaneInv, NoStraySession
<1>3. PaneTypeOK'
  BY <1>0, <1>1 DEF PaneTypeOK
<1>4. LaunchBooks'
  BY <1>0, <1>1 DEF PaneInv, PaneTypeOK, LaunchBooks
<1>5. PaneIsTrusted'
  BY <1>0 DEF PaneInv, PaneIsTrusted
<1>6. QED
  BY <1>1, <1>2, <1>3, <1>4, <1>5 DEF PaneInv, NothingBeforeResult, NoStraySession

LEMMA PaneStep == PaneInv /\ [PaneNext]_paneVars => PaneInv'
<1> SUFFICES ASSUME PaneInv, [PaneNext]_paneVars PROVE PaneInv'
  OBVIOUS
<1>1. CASE UNCHANGED paneVars
  BY <1>1 DEF paneVars, authority, pane, launch, PaneInv, PaneTypeOK, LaunchBooks,
     NothingBeforeResult, PaneIsTrusted, NoStraySession
<1>2. CASE PaneNext
  BY <1>2, OpenInv, InputInv, ReleaseInv, FocusInv, GiveUpInv, GrantInv, LinkInv,
     SessionEndsInv, ResolveInv, DrainInv, DispatchInv DEF PaneNext, UserActs, LoopActs
<1>3. QED
  BY <1>1, <1>2

(* Every variable of the pane keeps its type.                              *)
THEOREM PaneTypeCorrect == PaneSpec => []PaneTypeOK
<1>1. PaneInv => PaneTypeOK
  BY DEF PaneInv
<1>2. QED
  BY PaneInitInv, PaneStep, <1>1, PTL DEF PaneSpec

(* Whatever overtakes whatever, the shell in the pane is one of the        *)
(* current authority, which is trusted.                                    *)
THEOREM PaneStaysTrusted == PaneSpec => []PaneIsTrusted
<1>1. PaneInv => PaneIsTrusted
  BY DEF PaneInv
<1>2. QED
  BY PaneInitInv, PaneStep, <1>1, PTL DEF PaneSpec

(* However many launches were superseded, none of their shells is left     *)
(* running behind the pane's back.                                         *)
THEOREM NoSessionStrays == PaneSpec => []NoStraySession
<1>1. PaneInv => NoStraySession
  BY DEF PaneInv
<1>2. QED
  BY PaneInitInv, PaneStep, <1>1, PTL DEF PaneSpec
=============================================================================
