------------------------- MODULE SyntaxHighlighting -------------------------
(***************************************************************************)
(* Highlighting of the current document: the event loop (event_loop.rs)    *)
(* has one job at a time computed by a thread (syntax/tree_sitter.rs), and *)
(* App (app.rs) takes its result if the document has not been edited       *)
(* since.  The tree and the source of the last result are retained, and    *)
(* the next job parses incrementally, from the difference of the sources.  *)
(*                                                                         *)
(* Of a tree the model keeps which text it was parsed from incrementally.  *)
(***************************************************************************)
EXTENDS Coordinates

CONSTANTS
  Docs,        \* open documents
  Plain,       \* those in a language without a grammar
  Sources,     \* bound: texts a document may have
  MaxRevision  \* bound: edits of a document

ASSUME SyntaxAssumption ==
  Plain \subseteq Docs /\ Sources \subseteq Seq(Chars) /\ MaxRevision \in Nat

VARIABLES
  document,   \* current_doc
  source,     \* the text of each buffer
  revision,   \* and its revision
  inFlight,   \* SyntaxCoalesceState: the job under way, or none
  jobs,       \* requests being computed
  results,    \* the channel of results, four at most
  highlights, \* syntax_highlights
  retained    \* retained_syntax

syntaxVars ==
  <<document, source, revision, inFlight, jobs, results, highlights, retained>>

NoJob == <<>>
Nothing == <<"nothing">>
InFull == <<"full">>
From(t) == <<"from", t>>
Of(t) == <<"of", t>>

SyntaxInit ==
  /\ document \in Docs
  /\ source \in [Docs -> Sources]
  /\ revision = [d \in Docs |-> 0]
  /\ inFlight = NoJob /\ jobs = {} /\ results = <<>>
  /\ highlights = [d \in Docs |-> [revision |-> -1, spans |-> Nothing]]
  /\ retained = [d \in Docs |-> [tree |-> Nothing, source |-> <<>>]]

-----------------------------------------------------------------------------
(* text_diff_to_input_edit.                                                *)
CommonPrefix(s, t) ==
  Greatest({n \in 0..Lower(Len(s), Len(t)) : SubSeq(s, 1, n) = SubSeq(t, 1, n)})
LastOf(s, n) == SubSeq(s, Len(s) - n + 1, Len(s))
CommonSuffix(s, t) ==
  Greatest({n \in 0..Lower(Len(s), Len(t)) : LastOf(s, n) = LastOf(t, n)})

(* byte_to_point: the row, and the bytes since it began.                   *)
ByteToPoint(t, byte) ==
  LET at[n \in 0..Len(t)] ==
        IF n = 0 THEN <<0, 0>>
        ELSE IF Place(t, n) > byte THEN at[n - 1]
        ELSE IF t[n] = "newline" THEN <<at[n - 1][1] + 1, 0>>
        ELSE <<at[n - 1][1], at[n - 1][2] + Bytes[t[n]]>>
  IN  at[Len(t)]

Edit(old, new, p, suffix) ==
  [start |-> p, oldEnd |-> ByteLen(old) - suffix, newEnd |-> ByteLen(new) - suffix,
   startPoint |-> ByteToPoint(old, p),
   oldEndPoint |-> ByteToPoint(old, ByteLen(old) - suffix),
   newEndPoint |-> ByteToPoint(new, ByteLen(new) - suffix)]

(* Mutant: the suffix may reach into the prefix.                           *)
InputEditOverlapping(old, new) ==
  LET n == CommonPrefix(old, new)
  IN  Edit(old, new, Place(old, n), ByteLen(LastOf(old, CommonSuffix(old, new))))

InputEdit(old, new) ==
  LET n == CommonPrefix(old, new)
      oldRest == SubSeq(old, n + 1, Len(old))
      newRest == SubSeq(new, n + 1, Len(new))
  IN  Edit(old, new, Place(old, n),
           ByteLen(LastOf(oldRest, CommonSuffix(oldRest, newRest))))

(* What Tree::edit and an incremental parse ask of the edit: bytes on      *)
(* characters, points for the same places, and nothing changed outside.    *)
PointOf(t, byte) ==
  <<LineForByte(t, byte), byte - LineToByte(t, LineForByte(t, byte))>>
Leads(old, new, edit) ==
  /\ edit.start <= edit.oldEnd /\ edit.start <= edit.newEnd
  /\ {edit.start, edit.oldEnd} \subseteq Boundaries(old)
  /\ {edit.start, edit.newEnd} \subseteq Boundaries(new)
  /\ edit.startPoint = PointOf(old, edit.start)
  /\ edit.oldEndPoint = PointOf(old, edit.oldEnd)
  /\ edit.newEndPoint = PointOf(new, edit.newEnd)
  /\ new = SubSeq(old, 1, Index(old, edit.start))
           \o SubSeq(new, Index(new, edit.start) + 1, Index(new, edit.newEnd))
           \o SubSeq(old, Index(old, edit.oldEnd) + 1, Len(old))

(* compute_syntax: a tree is parsed in full, or from the tree of another   *)
(* text.  Highlights come from the source; there are none in a plain text, *)
(* nor when the highlighter fails.                                         *)
Tree(request) ==
  IF request.doc \in Plain THEN Nothing
  ELSE IF request.old.tree = Nothing THEN InFull ELSE From(request.old.source)
Spans(request) ==
  IF request.doc \in Plain THEN {Nothing} ELSE {Of(request.new), Nothing}

-----------------------------------------------------------------------------
SyntaxIsCurrent(d) == highlights[d].revision = revision[d]

(* Dispatch, in the state the loop is in by then.                          *)
Dispatch(free) ==
  LET d == document
      request == [doc |-> d, revision |-> revision[d], new |-> source[d], old |-> retained'[d]]
  IN  IF free /\ highlights'[d].revision # revision[d]
      THEN inFlight' = <<d, revision[d]>> /\ jobs' = jobs \cup {request}
      ELSE inFlight' = (IF free THEN NoJob ELSE inFlight) /\ UNCHANGED jobs

TickSyntax ==
  /\ UNCHANGED <<document, source, revision, results, highlights, retained>>
  /\ Dispatch(inFlight = NoJob)

(* The thread: a result that finds the channel full is lost.               *)
ComputeSyntax == \E request \in jobs : \E spans \in Spans(request) :
  /\ jobs' = jobs \ {request}
  /\ results' = IF Len(results) >= 4 THEN results ELSE
       Append(results, [doc |-> request.doc, revision |-> request.revision,
                        tree |-> Tree(request), spans |-> spans, source |-> request.new])
  /\ UNCHANGED <<document, source, revision, inFlight, highlights, retained>>

(* Mutant: the marker is cleared only if the result is of use.             *)
OnResultOfUse(r) == inFlight = <<r.doc, r.revision>> /\ r.revision = revision[r.doc]

OnResult(r) == inFlight = <<r.doc, r.revision>>

(* Mutant: what is retained is not checked against the buffer.             *)
ApplyAnyway(r) ==
  /\ highlights' = [highlights EXCEPT ![r.doc] =
       [revision |-> revision[r.doc], spans |-> r.spans]]
  /\ retained' = [retained EXCEPT ![r.doc] = [tree |-> r.tree, source |-> r.source]]

ApplySyntaxResult(r) ==
  \/ /\ r.revision = revision[r.doc]
     /\ highlights' = [highlights EXCEPT ![r.doc] =
          [revision |-> r.revision, spans |-> r.spans]]
     /\ retained' = [retained EXCEPT ![r.doc] = [tree |-> r.tree, source |-> r.source]]
  \/ r.revision # revision[r.doc] /\ UNCHANGED <<highlights, retained>>

DrainSyntax ==
  /\ results # <<>>
  /\ results' = Tail(results)
  /\ UNCHANGED <<document, source, revision>>
  /\ ApplySyntaxResult(Head(results))
  /\ Dispatch(inFlight = NoJob \/ OnResult(Head(results)))

EditDocument ==
  /\ revision[document] < MaxRevision
  /\ \E t \in Sources \ {source[document]} : source' = [source EXCEPT ![document] = t]
  /\ revision' = [revision EXCEPT ![document] = @ + 1]
  /\ UNCHANGED <<document, inFlight, jobs, results, highlights, retained>>
OpenDocument ==
  /\ document' \in Docs \ {document}
  /\ UNCHANGED <<source, revision, inFlight, jobs, results, highlights, retained>>

SyntaxNext == TickSyntax \/ ComputeSyntax \/ DrainSyntax \/ EditDocument \/ OpenDocument

(* The loop ticks and drains, and a parse ends.                            *)
SyntaxFairness ==
  WF_syntaxVars(TickSyntax) /\ WF_syntaxVars(ComputeSyntax) /\ WF_syntaxVars(DrainSyntax)
SyntaxSpec == SyntaxInit /\ [][SyntaxNext]_syntaxVars /\ SyntaxFairness

-----------------------------------------------------------------------------
SyntaxTypeOK ==
  /\ document \in Docs
  /\ source \in [Docs -> Sources]
  /\ revision \in [Docs -> 0..MaxRevision]
  /\ Cardinality(jobs) + Len(results) <= 1

(* The highlights in a frame: none unless they are of this revision.       *)
Shown(d) == IF SyntaxIsCurrent(d) THEN highlights[d].spans ELSE Nothing

(* What is shown was computed from the text that is shown, whatever was    *)
(* typed and whichever document was opened while it was computed.          *)
HighlightsAreOfText == \A d \in Docs : Shown(d) \in {Nothing, Of(source[d])}

(* The retained tree describes the retained source: the difference of two  *)
(* texts, however many edits apart, is always an edit the tree can take.   *)
TreeIsOfSource ==
  \A d \in Docs, t \in Sources : retained[d].tree = From(t) =>
    Leads(t, retained[d].source, InputEdit(t, retained[d].source))

(* The text of the document the user stays with is highlighted in the end. *)
HighlightsCatchUp ==
  \A d \in Docs : (document = d) ~> (document # d \/ SyntaxIsCurrent(d))
=============================================================================
