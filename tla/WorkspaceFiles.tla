--------------------------- MODULE WorkspaceFiles ---------------------------
(***************************************************************************)
(* Documents and the workspace files behind them: opening a file from the  *)
(* project tree and saving a document, as the event loop                   *)
(* (crates/hermito/src/event_loop.rs: SaveCoalesceState,                   *)
(* ProjectFileCoalesceState, the drains) and App (app.rs: Save, the Save   *)
(* As overlay, SaveCompleted, ProjectFileLoaded) do it.  Every save runs   *)
(* on a thread of its own (persistence::save_file_atomic), every read too; *)
(* the machine may stop between any two steps.                             *)
(*                                                                         *)
(* A text is named by the document and the revision that first had it.     *)
(***************************************************************************)
EXTENDS Integers, FiniteSets

CONSTANTS
  Docs,         \* document identities, opened or not yet
  Paths,        \* workspace files
  Listed,       \* the files the project tree shows
  NoDoc, NoPath,
  ResultCap,    \* capacity of the save result channel (2 in the code)
  MaxRevision   \* bound: edits stop at this revision

ASSUME SentinelAssumption == NoDoc \notin Docs /\ NoPath \notin Paths
ASSUME ListedAssumption == Listed \subseteq Paths
ASSUME ResultCapAssumption == ResultCap \in Nat \ {0}
ASSUME MaxRevisionAssumption == MaxRevision \in Nat

None == -1
Kind == {"unopened", "untitled", "recovered", "saved"}
Stage == {"writing", "renamed", "durable", "failed"}

VARIABLES
  up,           \* the process runs
  kind,         \* Buffer.path_state, or that no buffer exists yet
  path,         \* BufferPathState::backing_path
  revision,     \* Buffer.revision
  dirty,        \* Buffer.dirty
  base,         \* the text the buffer was created with
  overlay,      \* the document the Save As overlay asks a path for
  inFlight,     \* SaveCoalesceState.in_flight
  pending,      \* SaveCoalesceState.pending
  saves,        \* save threads, and their results in the channel (sent)
  fileFlight,   \* ProjectFileCoalesceState.in_flight
  filePending,  \* ProjectFileCoalesceState.pending
  reader,       \* the read thread and then its result
  disk,         \* the text every file shows
  synced,       \* the text every file has after a power loss
  stored,       \* history: newest revision of a document durably written
  users         \* history: documents opened from a file or saved to it

buffers == <<kind, path, revision, dirty, base>>
coalescing == <<inFlight, pending>>
reading == <<fileFlight, filePending, reader>>
files == <<disk, synced, stored>>
vars == <<up, buffers, overlay, coalescing, saves, reading, files, users>>

-----------------------------------------------------------------------------
Text == [doc : Docs \cup {NoDoc}, rev : Nat]
Original == [doc |-> NoDoc, rev |-> 0]   \* a file's text before the program ran
Unreadable == [doc |-> NoDoc, rev |-> 1] \* the read failed

TextAt(d, r) == IF r = 0 THEN base[d] ELSE [doc |-> d, rev |-> r]

(* What SaveCoalesceState retains: the latest request.                     *)
NoRequest == [rev |-> None, path |-> NoPath]
Request(r, p) == [rev |-> r, path |-> p]

(* A thread that saves revision r of d to p; sent: its result is in the    *)
(* channel.                                                                *)
Thread(d, r, p) == [doc |-> d, rev |-> r, path |-> p, stage |-> "writing", sent |-> FALSE]

NoReader == [path |-> NoPath, text |-> Unreadable, done |-> FALSE]
ReadThread(p) == [path |-> p, text |-> Unreadable, done |-> FALSE]

Open(d) == kind[d] # "unopened"

Init ==
  /\ up = TRUE
  /\ kind \in [Docs -> {"unopened", "untitled", "recovered"}]
  /\ path \in [Docs -> Paths \cup {NoPath}]
  /\ \A d \in Docs : path[d] # NoPath <=> kind[d] = "recovered"
  /\ \A d, e \in Docs : path[d] = path[e] => d = e \/ path[d] = NoPath
  /\ revision = [d \in Docs |-> 0]
  /\ dirty = [d \in Docs |-> kind[d] = "recovered"]
  /\ base = [d \in Docs |-> [doc |-> d, rev |-> 0]]
  /\ overlay = NoDoc
  /\ inFlight = [d \in Docs |-> None]
  /\ pending = [d \in Docs |-> NoRequest]
  /\ saves = {}
  /\ fileFlight = NoPath
  /\ filePending = NoPath
  /\ reader = NoReader
  /\ disk = [p \in Paths |-> Original]
  /\ synced = disk
  /\ stored = [d \in Docs |-> IF dirty[d] THEN None ELSE 0]
  /\ users = [p \in Paths |-> {}]

-----------------------------------------------------------------------------
(* Input events.  A paste reaches the editor even while the Save As        *)
(* overlay is shown; every key goes to the overlay.                        *)
Edit(d) ==
  /\ up /\ Open(d)
  /\ revision[d] < MaxRevision
  /\ revision' = [revision EXCEPT ![d] = @ + 1]
  /\ dirty' = [dirty EXCEPT ![d] = TRUE]
  /\ UNCHANGED <<up, kind, path, base, overlay, coalescing, saves, reading,
                 files, users>>

(* SaveCoalesceState::on_request: one save of a document at a time, the    *)
(* latest request waits for its result.                                    *)
Ask(d, p) ==
  \/ /\ inFlight[d] = None
     /\ inFlight' = [inFlight EXCEPT ![d] = revision[d]]
     /\ saves' = saves \cup {Thread(d, revision[d], p)}
     /\ users' = [users EXCEPT ![p] = @ \cup {d}]
     /\ UNCHANGED pending
  \/ /\ inFlight[d] # None
     /\ pending' = [pending EXCEPT ![d] = Request(revision[d], p)]
     /\ UNCHANGED <<inFlight, saves, users>>

Save(d) ==
  /\ up /\ overlay = NoDoc /\ Open(d)
  /\ \/ kind[d] = "saved" /\ Ask(d, path[d]) /\ UNCHANGED overlay
     \/ /\ kind[d] # "saved"
        /\ overlay' = d
        /\ UNCHANGED <<coalescing, saves, users>>
  /\ UNCHANGED <<up, buffers, reading, files>>

SaveAsConfirm(p) ==
  /\ up /\ overlay # NoDoc
  /\ Ask(overlay, p)
  /\ overlay' = NoDoc
  /\ UNCHANGED <<up, buffers, reading, files>>

(* Escape, or Enter with nothing typed.                                    *)
SaveAsCancel ==
  /\ up /\ overlay # NoDoc
  /\ overlay' = NoDoc
  /\ UNCHANGED <<up, buffers, coalescing, saves, reading, files, users>>

(* ProjectFileCoalesceState::on_request: one read at a time, the latest    *)
(* request waits.                                                          *)
RequestProjectFile(p) ==
  /\ up /\ overlay = NoDoc
  /\ \/ /\ fileFlight = NoPath
        /\ fileFlight' = p
        /\ reader' = ReadThread(p)
        /\ UNCHANGED filePending
     \/ /\ fileFlight # NoPath
        /\ filePending' = p
        /\ UNCHANGED <<fileFlight, reader>>
  /\ UNCHANGED <<up, buffers, overlay, coalescing, saves, files, users>>

-----------------------------------------------------------------------------
(* The threads.  A save writes and syncs a temporary file of its own,      *)
(* renames it over the target and syncs the directory; it can fail before  *)
(* the rename and after it.                                                *)
Advance(t, stage) == saves' = (saves \ {t}) \cup {[t EXCEPT !.stage = stage]}

Rename(t) ==
  /\ up /\ t.stage = "writing"
  /\ Advance(t, "renamed")
  /\ disk' = [disk EXCEPT ![t.path] = TextAt(t.doc, t.rev)]
  /\ UNCHANGED <<up, buffers, overlay, coalescing, reading, synced, stored, users>>

SkipSyncParent(t) ==                            \* mutant: the directory is not synced
  /\ up /\ t.stage = "renamed"
  /\ Advance(t, "durable")
  /\ stored' = [stored EXCEPT ![t.doc] = t.rev]
  /\ UNCHANGED <<up, buffers, overlay, coalescing, reading, disk, synced, users>>

SyncParent(t) ==
  /\ up /\ t.stage = "renamed"
  /\ Advance(t, "durable")
  /\ synced' = [synced EXCEPT ![t.path] = disk[t.path]]
  /\ stored' = [stored EXCEPT ![t.doc] = t.rev]
  /\ UNCHANGED <<up, buffers, overlay, coalescing, reading, disk, users>>

SaveFails(t) ==
  /\ up /\ t.stage \in {"writing", "renamed"}
  /\ Advance(t, "failed")
  /\ UNCHANGED <<up, buffers, overlay, coalescing, reading, files, users>>

(* The result is sent with a blocking send.                                *)
HasRoom == Cardinality({u \in saves : u.sent}) < ResultCap

SendResultTry(t) ==                             \* mutant: try_send
  /\ up /\ t.stage \in {"durable", "failed"} /\ ~t.sent
  /\ \/ HasRoom /\ saves' = (saves \ {t}) \cup {[t EXCEPT !.sent = TRUE]}
     \/ ~HasRoom /\ saves' = saves \ {t}
  /\ UNCHANGED <<up, buffers, overlay, coalescing, reading, files, users>>

SendResult(t) ==
  /\ up /\ t.stage \in {"durable", "failed"} /\ ~t.sent
  /\ HasRoom
  /\ saves' = (saves \ {t}) \cup {[t EXCEPT !.sent = TRUE]}
  /\ UNCHANGED <<up, buffers, overlay, coalescing, reading, files, users>>

ReadFile ==
  /\ up /\ reader # NoReader /\ ~reader.done
  /\ \E text \in {disk[reader.path], Unreadable} :
       reader' = [reader EXCEPT !.text = text, !.done = TRUE]
  /\ UNCHANGED <<up, buffers, overlay, coalescing, saves, fileFlight,
                 filePending, files, users>>

-----------------------------------------------------------------------------
(* The event loop drains results.  Each document has at most one result    *)
(* and each result touches its own document only, so the order among       *)
(* documents does not matter and the channel is a set.                     *)
ConfirmsFailed(t) == t.rev = revision[t.doc]    \* mutant: even a failed save
Confirms(t) == t.stage = "durable" /\ t.rev = revision[t.doc]

(* SaveCoalesceState::on_result: the request that waited is started.       *)
ForgetWaiting(t) ==                             \* mutant: it is dropped
  /\ inFlight' = [inFlight EXCEPT ![t.doc] = None]
  /\ pending' = [pending EXCEPT ![t.doc] = NoRequest]
  /\ saves' = saves \ {t}
  /\ UNCHANGED users

StartWaiting(t) ==
  LET next == pending[t.doc]
  IN /\ inFlight' = [inFlight EXCEPT ![t.doc] = next.rev]
     /\ pending' = [pending EXCEPT ![t.doc] = NoRequest]
     /\ \/ /\ next = NoRequest
           /\ saves' = saves \ {t}
           /\ UNCHANGED users
        \/ /\ next # NoRequest
           /\ saves' = (saves \ {t}) \cup {Thread(t.doc, next.rev, next.path)}
           /\ users' = [users EXCEPT ![next.path] = @ \cup {t.doc}]

SaveCompleted(t) ==
  /\ up /\ t.sent
  /\ \/ /\ Confirms(t)
        /\ dirty' = [dirty EXCEPT ![t.doc] = FALSE]
        /\ kind' = [kind EXCEPT ![t.doc] = "saved"]
        /\ path' = [path EXCEPT ![t.doc] = t.path]
     \/ ~Confirms(t) /\ UNCHANGED <<dirty, kind, path>>
  /\ StartWaiting(t)
  /\ UNCHANGED <<up, revision, base, overlay, reading, files>>

(* A file that some buffer already names is only focused; otherwise a new  *)
(* buffer shows what the thread read (bound: as long as Docs has one).     *)
OpenBuffer(d) ==
  /\ kind' = [kind EXCEPT ![d] = "saved"]
  /\ path' = [path EXCEPT ![d] = reader.path]
  /\ base' = [base EXCEPT ![d] = reader.text]
  /\ users' = [users EXCEPT ![reader.path] = @ \cup {d}]

StartWaitingRead ==
  /\ fileFlight' = filePending
  /\ filePending' = NoPath
  /\ reader' = IF filePending = NoPath THEN NoReader ELSE ReadThread(filePending)

ProjectFileLoaded ==
  /\ up /\ reader.done
  /\ \/ /\ reader.text # Unreadable
        /\ \A d \in Docs : Open(d) => path[d] # reader.path
        /\ \E d \in Docs : ~Open(d) /\ OpenBuffer(d)
     \/ /\ \/ reader.text = Unreadable
           \/ \E d \in Docs : Open(d) /\ path[d] = reader.path
           \/ \A d \in Docs : Open(d)
        /\ UNCHANGED <<kind, path, base, users>>
  /\ StartWaitingRead
  /\ UNCHANGED <<up, revision, dirty, overlay, coalescing, saves, files>>

(* A quit, a kill or a power loss: nothing is waited for, and a rename     *)
(* whose directory was not synced may be undone.                           *)
Stop ==
  /\ up
  /\ up' = FALSE
  /\ \E lost \in SUBSET Paths :
       disk' = [p \in Paths |-> IF p \in lost THEN synced[p] ELSE disk[p]]
  /\ saves' = {}
  /\ UNCHANGED <<buffers, overlay, coalescing, reading, synced, stored, users>>

Stopped == ~up /\ UNCHANGED vars

-----------------------------------------------------------------------------
UserStep ==
  \/ \E d \in Docs : Edit(d) \/ Save(d)
  \/ \E p \in Paths : SaveAsConfirm(p)
  \/ \E p \in Listed : RequestProjectFile(p)
  \/ SaveAsCancel
SaveStep(d) ==
  \E t \in saves :
    t.doc = d /\ (Rename(t) \/ SyncParent(t) \/ SaveFails(t) \/ SendResult(t))
DrainStep(d) == \E t \in saves : t.doc = d /\ SaveCompleted(t)

Next ==
  \/ UserStep
  \/ \E d \in Docs : SaveStep(d) \/ DrainStep(d)
  \/ ReadFile \/ ProjectFileLoaded
  \/ Stop \/ Stopped

(* A save's steps follow one another, and a blocked send gets its turn     *)
(* (the channel queues its senders); the event loop drains the channels on *)
(* every iteration.  The user owes nothing.                                *)
Fairness ==
  /\ \A d \in Docs : SF_vars(SaveStep(d) \/ DrainStep(d))
  /\ WF_vars(ReadFile \/ ProjectFileLoaded)

Spec == Init /\ [][Next]_vars /\ Fairness

-----------------------------------------------------------------------------
SaveTask == [doc : Docs, rev : Nat, path : Paths, stage : Stage, sent : BOOLEAN]
Waiting == [rev : Nat, path : Paths] \cup {NoRequest}

BufferType ==
  /\ kind \in [Docs -> Kind]
  /\ path \in [Docs -> Paths \cup {NoPath}]
  /\ revision \in [Docs -> Nat]
  /\ dirty \in [Docs -> BOOLEAN]
  /\ base \in [Docs -> Text]
  /\ overlay \in Docs \cup {NoDoc}
SaveType ==
  /\ inFlight \in [Docs -> Nat \cup {None}]
  /\ pending \in [Docs -> Waiting]
  /\ saves \subseteq SaveTask
ReadType ==
  /\ fileFlight \in Paths \cup {NoPath}
  /\ filePending \in Paths \cup {NoPath}
  /\ reader \in [path : Paths \cup {NoPath}, text : Text, done : BOOLEAN]
FileType ==
  /\ up \in BOOLEAN
  /\ disk \in [Paths -> Text]
  /\ synced \in [Paths -> Text]
  /\ stored \in [Docs -> Nat \cup {None}]
  /\ users \in [Paths -> SUBSET Docs]

TypeOK == BufferType /\ SaveType /\ ReadType /\ FileType

(* The bookkeeping of the event loop agrees with the threads: a document   *)
(* has one save under way exactly when in_flight says so, for that         *)
(* revision; a request waits only behind another, and is not older.        *)
OneSavePerDocument ==
  /\ \A t, u \in saves : t.doc = u.doc => t = u
  /\ up => \A d \in Docs :
       /\ inFlight[d] # None <=> \E t \in saves : t.doc = d
       /\ \A t \in saves : t.doc = d => inFlight[d] = t.rev
       /\ pending[d] # NoRequest => inFlight[d] # None /\ inFlight[d] <= pending[d].rev

(* A clean document is what its file holds, on disk and after a power      *)
(* loss, as long as no other document was opened from or saved to it.      *)
CleanIsStored ==
  \A d \in Docs : \A p \in Paths :
    Open(d) /\ ~dirty[d] /\ path[d] = p /\ users[p] \subseteq {d}
      => disk[p] = TextAt(d, revision[d]) /\ synced[p] = TextAt(d, revision[d])

(* With OneSavePerDocument and the two that follow, TypeOK is inductive.   *)
(* A buffer that is saved without asking has a path, and so has a read.    *)
PathsKnown ==
  /\ \A d \in Docs : kind[d] = "saved" => path[d] # NoPath
  /\ reader # NoReader => reader.path # NoPath

(* The revision a save writes is not older than what is stored and not     *)
(* newer than the buffer; one that succeeded is what is stored.            *)
NothingAhead ==
  /\ \A d \in Docs : stored[d] <= revision[d] /\ pending[d].rev <= revision[d]
  /\ \A t \in saves :
       /\ stored[t.doc] <= t.rev /\ t.rev <= revision[t.doc]
       /\ t.stage = "durable" => stored[t.doc] = t.rev

SavingInv == OneSavePerDocument /\ PathsKnown /\ NothingAhead

Promise == INSTANCE SavedDocuments WITH
  Docs <- Docs, revision <- revision, dirty <- dirty, stored <- stored
SavesAsPromised == Promise!Spec

-----------------------------------------------------------------------------
(* A save asked for while one of an older text runs is started in the end, *)
(* with the text it was asked for or a newer one.                          *)
WaitingSaveStarts ==
  \A d \in Docs : \A r \in 1..MaxRevision :
    pending[d].rev = r ~> inFlight[d] >= r \/ ~up

(* Every save is answered, even with the result channel full: none is      *)
(* taken to be in flight for ever.                                         *)
EverySaveAnswered ==
  \A d \in Docs : inFlight[d] # None ~> ~up \/ \E t \in saves : t.doc = d /\ t.sent

(* A file asked for while another is read gets its turn.                   *)
WaitingReadStarts == filePending # NoPath ~> filePending = NoPath \/ ~up

(* What had to wait starts: neither coalescing table strands a request.    *)
WaitingStarts == WaitingSaveStarts /\ WaitingReadStarts
=============================================================================
