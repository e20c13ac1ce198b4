--------------------------- MODULE SavedDocuments ---------------------------
(***************************************************************************)
(* What saving promises the user, document by document: the text that is   *)
(* stored only gets newer, and a document is shown as clean only when the  *)
(* text on the screen is the one that is stored.  How a save is carried    *)
(* out, and when, is left open.                                            *)
(***************************************************************************)
EXTENDS Integers

CONSTANT Docs

VARIABLES
  revision,  \* the revision on the screen
  dirty,     \* shown as having unsaved changes
  stored     \* newest revision durably stored; -1 if there is none

vars == <<revision, dirty, stored>>

Init ==
  /\ revision = [d \in Docs |-> 0]
  /\ dirty \in [Docs -> BOOLEAN]
  /\ stored = [d \in Docs |-> IF dirty[d] THEN -1 ELSE 0]

Edit(d) ==
  /\ revision' = [revision EXCEPT ![d] = @ + 1]
  /\ dirty' = [dirty EXCEPT ![d] = TRUE]
  /\ UNCHANGED stored

Store(d) ==
  /\ \E r \in stored[d]..revision[d] : stored' = [stored EXCEPT ![d] = r]
  /\ UNCHANGED <<revision, dirty>>

Confirm(d) ==
  /\ stored[d] = revision[d]
  /\ dirty' = [dirty EXCEPT ![d] = FALSE]
  /\ UNCHANGED <<revision, stored>>

Next == \E d \in Docs : Edit(d) \/ Store(d) \/ Confirm(d)

Spec == Init /\ [][Next]_vars
=============================================================================
