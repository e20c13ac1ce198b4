----------------------------- MODULE Workbench ------------------------------
(***************************************************************************)
(* What one App and its event loop hold of the screen: the terminal pane   *)
(* in the layout, the layout by itself, the text editor, and the           *)
(* highlighting of its documents.                                          *)
(*                                                                         *)
(* The terminal pane and the layout interact and are composed here.  The   *)
(* others share no variable with them, so that a behaviour moves one part  *)
(* while the rest stand still: every property is about one part, and no    *)
(* interleaving with another part can change what it says.                 *)
(***************************************************************************)
EXTENDS TerminalPane, Layout, TextEditor, SyntaxHighlighting

VARIABLES
  part,   \* the part that moves
  size,   \* the rows and columns each shell was given
  missed  \* history: the shell in the pane was refused its last size

workbench == <<part, paneVars, layout, size, missed, editorVars, syntaxVars>>

-----------------------------------------------------------------------------
(* The size of a shell is what is inside the border of the bottom body.    *)
BodySize ==
  LET body == RectBottom(layout)
  IN  <<AtLeast(Saturated(body.height - 2), 1), AtLeast(Saturated(body.width - 2), 1)>>
NoSize == <<1, 1>>

Launched(l) == l = flight' /\ flight' # flight
Attached(l) == l = terminal' /\ terminal' # terminal

(* Mutant: a shell keeps the size it was launched with.                    *)
SizesAsLaunched ==
  /\ size' = [l \in Launches |->
       IF Launched(l) THEN BodySize'
       ELSE IF l \in {flight', terminal'} THEN size[l] ELSE NoSize]
  /\ missed' = (missed /\ terminal' = terminal)

(* A launch is given the size of now, and so is a session when it comes    *)
(* (one that refuses it does not stay: AttachTerminal).                    *)
Sizes ==
  /\ size' = [l \in Launches |->
       IF Launched(l) \/ Attached(l) THEN BodySize'
       ELSE IF l \in {flight', terminal'} THEN size[l] ELSE NoSize]
  /\ missed' = (missed /\ terminal' = terminal)

(* OpenTerminal shows the body, and does not compute the layout.           *)
OpenBody == OpenTerminal /\ layout' = [layout EXCEPT !.bottom = TRUE] /\ Sizes
LeaveBody(A) == A /\ UNCHANGED layout /\ Sizes
OtherUserActs ==
  \/ TerminalInput \/ ReleaseTerminalCapture \/ FocusLandmark \/ CloseTerminal
  \/ CycleAuthority \/ SelectSshAuthority \/ GrantTrust \/ RevokeTrust
(* The error of session.resize is dropped: the outbound queue of a remote  *)
(* session may be full, or the ioctl of a local one fail.                  *)
TerminalResize ==
  /\ Resize
  /\ \/ terminal # 0 /\ size' = [size EXCEPT ![terminal] = BodySize'] /\ missed' = FALSE
     \/ size' = size /\ missed' = (terminal # 0)
  /\ UNCHANGED paneVars

-----------------------------------------------------------------------------
(* A part that stands still stands where it starts.                        *)
WorkbenchInit ==
  /\ part \in {"pane", "layout", "editor", "syntax"}
  /\ PaneInit
  /\ part # "pane" => trusted = {} /\ current = Local
  /\ LayoutInit
  /\ size = [l \in Launches |-> NoSize] /\ missed = FALSE
  /\ EditorInit
  /\ part # "editor" => text = <<>> /\ cursor = 0 /\ anchor = None
  /\ SyntaxInit
  /\ part # "syntax" =>
       /\ document = CHOOSE d \in Docs : TRUE
       /\ \A d \in Docs : source[d] = CHOOSE t \in Sources : TRUE

InPane(A) == part = "pane" /\ A /\ UNCHANGED <<part, editorVars, syntaxVars>>
InLayout(A) ==
  part = "layout" /\ A /\ UNCHANGED <<part, paneVars, size, missed, editorVars, syntaxVars>>
InEditor(A) ==
  part = "editor" /\ A /\ UNCHANGED <<part, paneVars, layout, size, missed, syntaxVars>>
InSyntax(A) ==
  part = "syntax" /\ A /\ UNCHANGED <<part, paneVars, layout, size, missed, editorVars>>

WorkbenchNext ==
  \/ InPane(OpenBody) \/ InPane(TerminalResize) \/ InPane(LeaveBody(OtherUserActs))
  \/ InPane(LeaveBody(LoopActs)) \/ InPane(LeaveBody(Resolve))
  \/ InPane(LeaveBody(SessionEnds)) \/ InPane(LeaveBody(LinkChanges))
  \/ InLayout(LayoutNext) \/ InEditor(EditorNext) \/ InSyntax(SyntaxNext)

(* One loop turns for all of them; a launch and a parse end.               *)
WorkbenchSpec ==
  /\ WorkbenchInit /\ [][WorkbenchNext]_workbench
  /\ WF_workbench(InPane(LeaveBody(LoopActs))) /\ WF_workbench(InPane(LeaveBody(Resolve)))
  /\ WF_workbench(InSyntax(TickSyntax)) /\ WF_workbench(InSyntax(DrainSyntax))
  /\ WF_workbench(InSyntax(ComputeSyntax))

-----------------------------------------------------------------------------
(* A shell has the size of the pane it is shown in, whether the terminal   *)
(* was resized before it was launched, while it came or later, unless it   *)
(* refused its last size: an attached shell and one that took a resize     *)
(* have the size of now, and nothing but a resize changes that of a pane.  *)
ShellFitsPane == terminal # 0 /\ ~missed => size[terminal] = BodySize

(* HighlightsCatchUp, when it is the highlighting that moves: the text of  *)
(* the document the user stays with is highlighted in the end.             *)
HighlightingCatchesUp == part = "syntax" => HighlightsCatchUp
=============================================================================
