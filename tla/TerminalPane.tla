---------------------------- MODULE TerminalPane ----------------------------
(***************************************************************************)
(* The terminal pane of App (app.rs) and the launches of the event loop    *)
(* (event_loop.rs): App wants a shell of the current authority, the loop   *)
(* has one launch under way at most, and its result, tagged with the       *)
(* launch it was started for, is drained when App may want another shell,  *)
(* of another authority, or none.                                          *)
(*                                                                         *)
(* What a session is inside is in LocalPty and RemoteSession.  Here it     *)
(* runs, and ends by itself at any time.                                   *)
(***************************************************************************)
EXTENDS Integers

CONSTANTS
  Authorities,  \* the authorities of the workspace
  Local,        \* the one that is always connected
  MaxLaunches   \* bound: launch ids

ASSUME PaneAssumption == Local \in Authorities /\ MaxLaunches \in Nat

VARIABLES
  trusted,    \* authorities with TrustLevel::Trusted
  connected,  \* authorities a shell can be asked of
  current,    \* current_authority
  terminal,   \* the session of the pane, by its launch; 0 for none
  starting,   \* terminal_starting
  launchId,   \* terminal_launch_id
  capture,    \* terminal_capture
  flight,     \* the launch under way, 0 when none is
  result,     \* its TerminalStartResult: "none", "session" or "error"
  session,    \* the state of the session of each launch
  host        \* the authority each launch was for

pane == <<terminal, starting, launchId, capture>>
launch == <<flight, result, host>>
authority == <<trusted, connected, current>>
paneVars == <<authority, pane, launch, session>>

Launches == 1..MaxLaunches
States == {"none", "running", "exited", "lost"}
Ended == {"exited", "lost"}

PaneInit ==
  /\ trusted \in SUBSET Authorities /\ connected = {Local} /\ current \in Authorities
  /\ terminal = 0 /\ starting = FALSE /\ launchId = 0 /\ capture = FALSE
  /\ flight = 0 /\ result = "none"
  /\ session = [l \in Launches |-> "none"]
  /\ host = [l \in Launches |-> Local]

(* PtySession::cancel: a shell whose helper cannot be told is lost.        *)
Cancel(id) ==
  \/ id = 0 /\ UNCHANGED session
  \/ id # 0 /\ \E end \in Ended : session' = [session EXCEPT ![id] = end]
(* The session of the pane is taken and cancelled.                         *)
LetGo == terminal' = 0 /\ Cancel(terminal)
(* Whatever is under way is not wanted any more: its id is out of date.    *)
Supersede == launchId < MaxLaunches /\ launchId' = launchId + 1
Unwanted == starting' = FALSE /\ capture' = FALSE /\ Supersede

(* terminal_spawn_spec gives a launch, and the loop starts it when none is *)
(* under way.                                                              *)
Wanted == starting' /\ terminal' = 0 /\ current' \in trusted' /\ current' \in connected'
DispatchWanted ==
  IF Wanted THEN flight' = launchId' /\ host' = [host EXCEPT ![launchId'] = current']
            ELSE flight' = 0 /\ UNCHANGED host

-----------------------------------------------------------------------------
(* What the user does.                                                     *)
CanOpen == current \in trusted /\ current \in connected
OpenTerminal ==
  /\ \/ ~CanOpen /\ Unwanted /\ UNCHANGED <<terminal, session>>
     \/ /\ CanOpen /\ terminal # 0 /\ session[terminal] = "running"
        /\ capture' = TRUE
        /\ UNCHANGED <<terminal, starting, launchId, session>>
     \/ /\ CanOpen /\ (terminal # 0 => session[terminal] # "running")
        /\ LetGo /\ Supersede /\ starting' = TRUE /\ capture' = FALSE
  /\ UNCHANGED <<authority, result>>
  /\ IF flight = 0 THEN DispatchWanted ELSE UNCHANGED <<flight, host>>

(* Input that cannot be written gives the session up.  Keys come here from *)
(* the last frame, so the shell may have ended since.                      *)
TerminalInput ==
  /\ capture /\ terminal # 0
  /\ LetGo /\ capture' = FALSE
  /\ UNCHANGED <<authority, starting, launchId, launch>>

ReleaseTerminalCapture ==
  /\ capture' = FALSE
  /\ UNCHANGED <<authority, terminal, starting, launchId, launch, session>>

(* The terminal is the only tab of its pane while there is one.            *)
FocusLandmark ==
  /\ capture' \in {FALSE, terminal # 0 /\ session[terminal] = "running"}
  /\ UNCHANGED <<authority, terminal, starting, launchId, launch, session>>

CloseTerminal == Unwanted /\ LetGo /\ UNCHANGED <<authority, launch>>

CycleAuthority ==
  /\ current' \in Authorities \ {current}
  /\ Unwanted /\ LetGo
  /\ UNCHANGED <<trusted, connected, launch>>
SelectSshAuthority ==
  /\ current' \in Authorities \ {Local}
  /\ Unwanted /\ LetGo
  /\ UNCHANGED <<trusted, connected, launch>>

GrantTrust ==
  /\ trusted' = trusted \cup {current}
  /\ UNCHANGED <<connected, current, pane, launch, session>>
RevokeTrust ==
  /\ trusted' = trusted \ {current}
  /\ Unwanted /\ LetGo
  /\ UNCHANGED <<connected, current, launch>>

-----------------------------------------------------------------------------
(* What becomes of a launch, on a thread or a task of its own: a remote    *)
(* one is given up after ten seconds.                                      *)
Resolve ==
  /\ flight # 0 /\ result = "none"
  /\ \/ /\ host[flight] \in connected /\ result' = "session"
        /\ session' = [session EXCEPT ![flight] = "running"]
     \/ result' = "error" /\ UNCHANGED session
  /\ UNCHANGED <<authority, pane, flight, host>>

(* Mutant: any session will do for a pane that is starting.                *)
IsWantedByAny(id) == id # 0 /\ starting

IsWanted(id) == id = launchId /\ starting

(* Mutant: a session nobody wants is only forgotten.                       *)
AttachOrForget ==
  \/ ~IsWanted(flight) /\ UNCHANGED <<terminal, starting, capture, session>>
  \/ /\ IsWanted(flight)
     /\ terminal' = flight /\ starting' = FALSE /\ capture' = TRUE /\ UNCHANGED session

(* attach_terminal: a session nobody wants is cancelled, and so is one     *)
(* that cannot be given the size of the pane.                              *)
AttachTerminal ==
  \/ ~IsWanted(flight) /\ Cancel(flight) /\ UNCHANGED <<terminal, starting, capture>>
  \/ /\ IsWanted(flight) /\ Cancel(flight)
     /\ starting' = FALSE /\ capture' = FALSE /\ UNCHANGED terminal
  \/ /\ IsWanted(flight)
     /\ terminal' = flight /\ starting' = FALSE /\ capture' = TRUE /\ UNCHANGED session
FailTerminalStart ==
  /\ IF IsWanted(flight) THEN starting' = FALSE /\ capture' = FALSE
                         ELSE UNCHANGED <<starting, capture>>
  /\ UNCHANGED <<terminal, session>>

(* Mutant: only the launch App waits for makes room for the next.          *)
DrainKeepsStale ==
  /\ result # "none"
  /\ IF result = "session" THEN AttachTerminal ELSE FailTerminalStart
  /\ result' = "none"
  /\ UNCHANGED <<authority, launchId>>
  /\ IF IsWanted(flight) THEN DispatchWanted ELSE UNCHANGED <<flight, host>>

(* The loop drains the result and starts what is wanted now.               *)
DrainTerminal ==
  /\ result # "none"
  /\ IF result = "session" THEN AttachTerminal ELSE FailTerminalStart
  /\ result' = "none"
  /\ UNCHANGED <<authority, launchId>>
  /\ DispatchWanted

(* Every turn of the loop looks again whether a launch is wanted.          *)
DispatchTerminal ==
  /\ flight = 0 /\ starting /\ terminal = 0 /\ CanOpen
  /\ UNCHANGED <<authority, pane, result, session>>
  /\ DispatchWanted

-----------------------------------------------------------------------------
SessionEnds ==
  /\ \E id \in Launches, end \in Ended :
       session[id] = "running" /\ session' = [session EXCEPT ![id] = end]
  /\ UNCHANGED <<authority, pane, launch>>
LinkChanges ==
  /\ \E a \in Authorities \ {Local} :
       connected' \in {connected \cup {a}, connected \ {a}}
  /\ UNCHANGED <<trusted, current, pane, launch, session>>

UserActs ==
  \/ OpenTerminal \/ TerminalInput \/ ReleaseTerminalCapture \/ FocusLandmark
  \/ CloseTerminal \/ CycleAuthority \/ SelectSshAuthority \/ GrantTrust \/ RevokeTrust
LoopActs == DrainTerminal \/ DispatchTerminal

PaneNext == UserActs \/ LoopActs \/ Resolve \/ SessionEnds \/ LinkChanges

(* The loop turns, and a launch ends; nobody has to do anything.           *)
PaneFairness == WF_paneVars(LoopActs) /\ WF_paneVars(Resolve)

PaneSpec == PaneInit /\ [][PaneNext]_paneVars /\ PaneFairness

-----------------------------------------------------------------------------
PaneTypeOK ==
  /\ trusted \subseteq Authorities
  /\ connected \subseteq Authorities /\ Local \in connected
  /\ current \in Authorities
  /\ terminal \in 0..MaxLaunches /\ flight \in 0..MaxLaunches
  /\ starting \in BOOLEAN /\ capture \in BOOLEAN
  /\ launchId \in 0..MaxLaunches
  /\ result \in {"none", "session", "error"}
  /\ session \in [Launches -> States]
  /\ host \in [Launches -> Authorities]

(* A shell in the pane belongs to the authority the pane names, which the  *)
(* user trusts now: no result of a launch that was overtaken by a          *)
(* revocation, another authority or another launch gets there.             *)
PaneIsTrusted ==
  /\ terminal # 0 => host[terminal] = current /\ current \in trusted /\ ~starting
  /\ capture => terminal # 0

(* No shell runs that the user does not see and nobody is going to cancel. *)
NoStraySession ==
  \A id \in Launches : session[id] = "running" => id \in {terminal, flight}

(* The pane does not show Starting for ever, whatever the user overtook:   *)
(* unless the authority was lost meanwhile, a launch ends or starts anew.  *)
StartingSettles == <>[](current \in connected) => (starting ~> ~starting)
=============================================================================
