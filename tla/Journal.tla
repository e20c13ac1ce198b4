------------------------------ MODULE Journal ------------------------------
(***************************************************************************)
(* The crash-safe journal of unsaved buffers                               *)
(* (crates/hermito/src/persistence/journal.rs) together with the part of   *)
(* App that feeds it (app.rs: try_checkpoint, the two retained maps, the   *)
(* retries of the event-loop tick, the drain at shutdown).                 *)
(*                                                                         *)
(* Three actors: the UI thread, the journal worker thread, and the machine *)
(* that may stop at any instant.  They meet in a bounded command queue     *)
(* (UI -> worker), an unbounded acknowledgement channel (worker -> UI) and *)
(* the journal file.                                                       *)
(*                                                                         *)
(* The text of a document is abstracted to its revision: within one run of *)
(* the program a revision number names one text.  A payload, a journal     *)
(* record and an acknowledgement are therefore (document, revision) pairs. *)
(***************************************************************************)
EXTENDS Integers, Sequences

CONSTANTS
  Docs,          \* document identities
  QueueCap,      \* capacity of the command queue (16 in the code)
  MaxRevision,   \* bound: edits stop at this revision
  MaxFaults,     \* bound: failing persists
  MaxRestarts    \* bound: how often the program is started again

ASSUME QueueCapAssumption == QueueCap \in Nat \ {0}
ASSUME BoundsAssumption ==
  /\ MaxRevision \in Nat
  /\ MaxFaults \in Nat
  /\ MaxRestarts \in Nat

None == -1       \* "no entry", below every revision
Revision == Nat
MaybeRevision == Nat \cup {None}

VARIABLES
  mode,                \* how far the process is, see Mode
  revision,            \* Buffer.revision
  dirty,               \* Buffer.dirty
  checkpointed,        \* Buffer.last_checkpointed_revision
  pendingCheckpoints,  \* App.pending_checkpoints: the retained revision
  pendingCompactions,  \* App.pending_compactions: the retained saved revision
  retrying,            \* what the tick under way has still to retry
  queue,               \* sync_channel of Command
  acks,                \* channel of JournalAck
  held,                \* the worker's own map `dirty`
  work,                \* the command the worker is persisting, or Idle
  journal,             \* what a restart would read from the journal file
  stateRevision,       \* last_known_revision in the state file
  saved,               \* newest revision known to be in the workspace file
  staleRetry,          \* history: a retained checkpoint was handed over after
                       \* a newer one, or after its document had been saved
  faults, restarts     \* counters for the bounds

app == <<revision, dirty, checkpointed, pendingCheckpoints, pendingCompactions>>
worker == <<held, work>>
files == <<journal, stateRevision, saved>>
counters == <<faults, restarts>>
vars == <<mode, app, retrying, queue, acks, worker, files, staleRetry, counters>>

-----------------------------------------------------------------------------
Checkpoint(d, r) == [op |-> "Checkpoint", doc |-> d, rev |-> r]
AckSave(d, r) == [op |-> "AckSave", doc |-> d, rev |-> r]
Flush == [op |-> "Flush"]

DocCommand == [op : {"Checkpoint", "AckSave"}, doc : Docs, rev : Revision]
Command == DocCommand \cup {Flush}
Ack == [doc : Docs, rev : Revision]

(* The worker between two commands; otherwise it holds the command it is   *)
(* persisting and, for a compaction, the entry it took out of its map.     *)
Idle == [cmd |-> Flush, was |-> None, busy |-> FALSE]
Working(c, r) == [cmd |-> c, was |-> r, busy |-> TRUE]

RetryKinds == {"checkpoint", "compaction"}

(* running: the event loop; draining: a quit, a signal or a panic while     *)
(* drawing hands over what is retained; leaving: only the flush is left;    *)
(* flushing, flushed: it is queued, it is answered; exited: the process has *)
(* ended by itself; down: it was stopped in between.                        *)
Mode == {"running", "draining", "leaving", "flushing", "flushed", "exited", "down"}
Alive == mode \notin {"exited", "down"}

Newer(a, b) == IF a > b THEN a ELSE b
HasRoom == Len(queue) < QueueCap
Send(c) == HasRoom /\ queue' = Append(queue, c)

(* A compaction for revision s removes an entry r that is not newer.       *)
CompactsAny(r, s) == r # None                   \* mutant: no comparison
Compacts(r, s) == r # None /\ r <= s

(* An acknowledgement of r releases a retained checkpoint p.               *)
ReleasesAny(r, p) == TRUE                       \* mutant: no comparison
Releases(r, p) == p <= r

-----------------------------------------------------------------------------
Init ==
  /\ mode = "running"
  /\ revision = [d \in Docs |-> 0]
  /\ dirty = [d \in Docs |-> FALSE]
  /\ checkpointed \in [Docs -> {None, 0}]  \* a scratch buffer, an opened file
  /\ pendingCheckpoints = [d \in Docs |-> None]
  /\ pendingCompactions = [d \in Docs |-> None]
  /\ retrying = {}
  /\ queue = <<>>
  /\ acks = <<>>
  /\ held = [d \in Docs |-> None]
  /\ work = Idle
  /\ journal = [d \in Docs |-> None]
  /\ stateRevision = [d \in Docs |-> None]
  /\ saved = checkpointed
  /\ staleRetry = [d \in Docs |-> FALSE]
  /\ faults = 0
  /\ restarts = 0

-----------------------------------------------------------------------------
(* The UI thread.  Its handlers run to completion before the next event,   *)
(* so none of them starts while a tick is still retrying.                  *)
UiReady == mode = "running" /\ retrying = {}

(* An edit: the buffer advances and the new checkpoint is tried; when the  *)
(* queue is full it replaces an older retained one.  When the queue takes  *)
(* it, an older retained checkpoint stays retained.                        *)
Edit(d) ==
  /\ UiReady
  /\ revision[d] < MaxRevision
  /\ revision' = [revision EXCEPT ![d] = @ + 1]
  /\ dirty' = [dirty EXCEPT ![d] = TRUE]
  /\ \/ Send(Checkpoint(d, revision[d] + 1)) /\ UNCHANGED pendingCheckpoints
     \/ /\ ~HasRoom
        /\ pendingCheckpoints' =
             [pendingCheckpoints EXCEPT ![d] = Newer(@, revision[d] + 1)]
        /\ UNCHANGED queue
  /\ UNCHANGED <<mode, checkpointed, pendingCompactions, retrying, acks, worker,
                 files, staleRetry, counters>>

(* The workspace file now holds the current revision: the buffer is clean  *)
(* and the worker is told to drop its checkpoint, now or on a later tick.  *)
SaveCompleted(d) ==
  /\ UiReady
  /\ dirty' = [dirty EXCEPT ![d] = FALSE]
  /\ checkpointed' = [checkpointed EXCEPT ![d] = revision[d]]
  /\ saved' = [saved EXCEPT ![d] = revision[d]]
  /\ \/ Send(AckSave(d, revision[d])) /\ UNCHANGED pendingCompactions
     \/ /\ ~HasRoom
        /\ pendingCompactions' =
             [pendingCompactions EXCEPT ![d] = Newer(@, revision[d])]
        /\ UNCHANGED queue
  /\ UNCHANGED <<mode, revision, pendingCheckpoints, retrying, acks, worker,
                 journal, stateRevision, staleRetry, counters>>

(* One acknowledgement is drained: it counts only for the revision still   *)
(* shown, and it releases a retained checkpoint that is not newer.         *)
ApplyJournalAck ==
  /\ UiReady
  /\ acks # <<>>
  /\ LET d == Head(acks).doc
         r == Head(acks).rev
     IN /\ checkpointed' =
             [checkpointed EXCEPT ![d] = IF revision[d] = r THEN r ELSE @]
        /\ pendingCheckpoints' =
             [pendingCheckpoints EXCEPT ![d] = IF Releases(r, @) THEN None ELSE @]
  /\ acks' = Tail(acks)
  /\ UNCHANGED <<mode, revision, dirty, pendingCompactions, retrying, queue,
                 worker, files, staleRetry, counters>>

(* The tick tries every retained checkpoint once, then every retained      *)
(* compaction once; the worker may take commands out in between.           *)
TickCheckpointsOnly ==                          \* mutant: no compaction retried
  /\ UiReady
  /\ retrying' = {"checkpoint"} \X {d \in Docs : pendingCheckpoints[d] # None}
  /\ retrying' # {}
  /\ UNCHANGED <<mode, app, queue, acks, worker, files, staleRetry, counters>>

TickCompactionsOnly ==                          \* mutant: no checkpoint retried
  /\ UiReady
  /\ retrying' = {"compaction"} \X {d \in Docs : pendingCompactions[d] # None}
  /\ retrying' # {}
  /\ UNCHANGED <<mode, app, queue, acks, worker, files, staleRetry, counters>>

Tick ==
  /\ UiReady
  /\ retrying' =
       ({"checkpoint"} \X {d \in Docs : pendingCheckpoints[d] # None})
         \cup ({"compaction"} \X {d \in Docs : pendingCompactions[d] # None})
  /\ retrying' # {}
  /\ UNCHANGED <<mode, app, queue, acks, worker, files, staleRetry, counters>>

(* The retained checkpoint of d enters the queue behind whatever is there. *)
HandOverCheckpoint(d) ==
  /\ pendingCheckpoints[d] # None
  /\ Send(Checkpoint(d, pendingCheckpoints[d]))
  /\ staleRetry' =
       [staleRetry EXCEPT
          ![d] = @ \/ pendingCheckpoints[d] < revision[d] \/ ~dirty[d]]
  /\ pendingCheckpoints' = [pendingCheckpoints EXCEPT ![d] = None]

HandOverCompaction(d) ==
  /\ pendingCompactions[d] # None
  /\ Send(AckSave(d, pendingCompactions[d]))
  /\ pendingCompactions' = [pendingCompactions EXCEPT ![d] = None]

RetryCheckpoint(d) ==
  /\ mode = "running"
  /\ <<"checkpoint", d>> \in retrying
  /\ retrying' = retrying \ {<<"checkpoint", d>>}
  /\ \/ HandOverCheckpoint(d)
     \/ ~HasRoom /\ UNCHANGED <<queue, pendingCheckpoints, staleRetry>>
  /\ UNCHANGED <<mode, revision, dirty, checkpointed, pendingCompactions, acks,
                 worker, files, counters>>

RetryCompaction(d) ==
  /\ mode = "running"
  /\ <<"compaction", d>> \in retrying
  /\ \A e \in Docs : <<"checkpoint", e>> \notin retrying
  /\ retrying' = retrying \ {<<"compaction", d>>}
  /\ \/ HandOverCompaction(d)
     \/ ~HasRoom /\ UNCHANGED <<queue, pendingCompactions>>
  /\ UNCHANGED <<mode, revision, dirty, checkpointed, pendingCheckpoints, acks,
                 worker, files, staleRetry, counters>>

-----------------------------------------------------------------------------
(* Leaving the event loop.  Retained checkpoints, then retained            *)
(* compactions, are sent with a blocking send; the state file is written   *)
(* (a panic while drawing skips it, a failing write leaves the old one).   *)
BeginShutdown ==
  /\ UiReady
  /\ mode' = "draining"
  /\ UNCHANGED <<app, retrying, queue, acks, worker, files, staleRetry, counters>>

SubmitCheckpointTry(d) ==                       \* mutant: try_send, not send
  /\ mode = "draining"
  /\ pendingCheckpoints[d] # None
  /\ \/ HandOverCheckpoint(d)
     \/ /\ ~HasRoom
        /\ pendingCheckpoints' = [pendingCheckpoints EXCEPT ![d] = None]
        /\ UNCHANGED <<queue, staleRetry>>
  /\ UNCHANGED <<mode, revision, dirty, checkpointed, pendingCompactions,
                 retrying, acks, worker, files, counters>>

SubmitCheckpoint(d) ==
  /\ mode = "draining"
  /\ HandOverCheckpoint(d)
  /\ UNCHANGED <<mode, revision, dirty, checkpointed, pendingCompactions,
                 retrying, acks, worker, files, counters>>

SubmitCompaction(d) ==
  /\ mode = "draining"
  /\ \A e \in Docs : pendingCheckpoints[e] = None
  /\ HandOverCompaction(d)
  /\ UNCHANGED <<mode, revision, dirty, checkpointed, pendingCheckpoints,
                 retrying, acks, worker, files, staleRetry, counters>>

SaveState ==
  /\ mode = "draining"
  /\ \A d \in Docs : pendingCheckpoints[d] = None /\ pendingCompactions[d] = None
  /\ mode' = "leaving"
  /\ stateRevision' \in {stateRevision, revision}
  /\ UNCHANGED <<app, retrying, queue, acks, worker, journal, saved, staleRetry,
                 counters>>

(* Any other panic unwinds to run(), which flushes but no longer owns App: *)
(* what App retained is gone.                                              *)
Panic ==
  /\ mode = "running"
  /\ mode' = "leaving"
  /\ retrying' = {}
  /\ UNCHANGED <<app, queue, acks, worker, files, staleRetry, counters>>

SendFlush ==
  /\ mode = "leaving"
  /\ Send(Flush)
  /\ mode' = "flushing"
  /\ UNCHANGED <<app, retrying, acks, worker, files, staleRetry, counters>>

(* The process ends.  The write on disconnect (and a second flush after a  *)
(* panic) persists the same map again; nothing waits for the last one.     *)
Exit ==
  /\ mode = "flushed"
  /\ mode' = "exited"
  /\ journal' \in {journal, held}
  /\ UNCHANGED <<app, retrying, queue, acks, worker, stateRevision, saved,
                 staleRetry, counters>>

-----------------------------------------------------------------------------
(* The worker thread takes one command at a time.                          *)
(* The worker's map with one more checkpoint, or with one fewer.           *)
With(d, r) == [held EXCEPT ![d] = r]
Without(d) == [held EXCEPT ![d] = None]

RecvCheckpoint ==
  /\ Alive /\ ~work.busy /\ queue # <<>>
  /\ Head(queue).op = "Checkpoint"
  /\ held' = With(Head(queue).doc, Head(queue).rev)
  /\ work' = Working(Head(queue), None)
  /\ queue' = Tail(queue)
  /\ UNCHANGED <<mode, app, retrying, acks, files, staleRetry, counters>>

RecvAckSave ==
  /\ Alive /\ ~work.busy /\ queue # <<>>
  /\ Head(queue).op = "AckSave"
  /\ LET d == Head(queue).doc
     IN \/ /\ Compacts(held[d], Head(queue).rev)
           /\ held' = Without(d)
           /\ work' = Working(Head(queue), held[d])
        \/ /\ ~Compacts(held[d], Head(queue).rev)
           /\ UNCHANGED worker
  /\ queue' = Tail(queue)
  /\ UNCHANGED <<mode, app, retrying, acks, files, staleRetry, counters>>

RecvFlush ==
  /\ Alive /\ ~work.busy /\ queue # <<>>
  /\ Head(queue).op = "Flush"
  /\ work' = Working(Head(queue), None)
  /\ queue' = Tail(queue)
  /\ UNCHANGED <<mode, app, retrying, acks, held, files, staleRetry, counters>>

(* The answer to a flush does not depend on the outcome of the write.      *)
AnswerOnSuccess(ok) ==                          \* mutant: no answer on an error
  IF work.cmd = Flush /\ ok THEN "flushed" ELSE mode
ModeAfterPersist(ok) == IF work.cmd = Flush THEN "flushed" ELSE mode

(* The temporary file is written, synced and renamed over the journal;     *)
(* only then is a checkpoint acknowledged.                                 *)
PersistSucceeds ==
  /\ Alive /\ work.busy
  /\ journal' = held
  /\ \/ /\ work.cmd.op = "Checkpoint"
        /\ acks' = Append(acks, [doc |-> work.cmd.doc, rev |-> work.cmd.rev])
     \/ /\ work.cmd.op # "Checkpoint"
        /\ UNCHANGED acks
  /\ work' = Idle
  /\ mode' = ModeAfterPersist(TRUE)
  /\ UNCHANGED <<app, retrying, queue, held, stateRevision, saved, staleRetry,
                 counters>>

(* A failing write may have replaced the file (the last step syncs the     *)
(* directory).  A compaction puts its entry back; nobody is told.          *)
PersistFails ==
  /\ Alive /\ work.busy
  /\ faults < MaxFaults
  /\ faults' = faults + 1
  /\ journal' \in {journal, held}
  /\ \/ /\ work.cmd.op = "AckSave"
        /\ held' = [held EXCEPT ![work.cmd.doc] = work.was]
     \/ /\ work.cmd.op # "AckSave"
        /\ UNCHANGED held
  /\ work' = Idle
  /\ mode' = ModeAfterPersist(FALSE)
  /\ UNCHANGED <<app, retrying, queue, acks, stateRevision, saved, staleRetry,
                 restarts>>

-----------------------------------------------------------------------------
(* Power loss or a kill: a write under way may or may not have replaced    *)
(* the file.  Memory is gone; what App last showed stays for the record.   *)
ForgetVolatile ==
  /\ pendingCheckpoints' = [d \in Docs |-> None]
  /\ pendingCompactions' = [d \in Docs |-> None]
  /\ retrying' = {}
  /\ queue' = <<>>
  /\ acks' = <<>>
  /\ work' = Idle

Crash ==
  /\ Alive
  /\ mode' = "down"
  /\ journal' \in {journal, IF work.busy THEN held ELSE journal}
  /\ held' = journal'
  /\ ForgetVolatile
  /\ UNCHANGED <<revision, dirty, checkpointed, stateRevision, saved, staleRetry,
                 counters>>

(* A document found in the journal comes back dirty at the journal's       *)
(* revision; any other one comes back clean, its text read from its file.  *)
RestoredRevision(d) ==
  IF journal[d] # None THEN journal[d]
  ELSE IF stateRevision[d] # None THEN stateRevision[d] ELSE 0

(* The worker starts from what recovery found.                             *)
StartsEmpty == [d \in Docs |-> None]            \* mutant: recovery not handed on
InitialHeld == journal

Restart ==
  /\ ~Alive
  /\ restarts < MaxRestarts
  /\ restarts' = restarts + 1
  /\ mode' = "running"
  /\ revision' = [d \in Docs |-> RestoredRevision(d)]
  /\ dirty' = [d \in Docs |-> journal[d] # None]
  /\ checkpointed' = [d \in Docs |-> RestoredRevision(d)]
  /\ saved' = [d \in Docs |-> IF journal[d] # None THEN None ELSE RestoredRevision(d)]
  /\ ForgetVolatile
  /\ held' = InitialHeld
  /\ staleRetry' = [d \in Docs |-> FALSE]
  /\ UNCHANGED <<journal, stateRevision, faults>>

Stopped == ~Alive /\ UNCHANGED vars

-----------------------------------------------------------------------------
UserStep == \E d \in Docs : Edit(d) \/ SaveCompleted(d)
RetryStep == \E d \in Docs : RetryCheckpoint(d) \/ RetryCompaction(d)
ShutdownStep ==
  \/ \E d \in Docs : SubmitCheckpoint(d) \/ SubmitCompaction(d)
  \/ SaveState \/ SendFlush \/ Exit
RecvStep == RecvCheckpoint \/ RecvAckSave \/ RecvFlush
PersistStep == PersistSucceeds \/ PersistFails

Next ==
  \/ UserStep \/ ApplyJournalAck \/ Tick \/ RetryStep
  \/ BeginShutdown \/ Panic \/ ShutdownStep
  \/ RecvStep \/ PersistStep
  \/ Crash \/ Restart \/ Stopped

(* The event loop goes round (acknowledgements, tick), the worker thread   *)
(* runs, a shutdown begun is carried through.  The user owes nothing.      *)
Fairness ==
  /\ WF_vars(ApplyJournalAck)
  /\ WF_vars(Tick)
  /\ WF_vars(RetryStep)
  /\ WF_vars(ShutdownStep)
  /\ WF_vars(RecvStep)
  /\ WF_vars(PersistStep)

Spec == Init /\ [][Next]_vars /\ Fairness

-----------------------------------------------------------------------------
AppType ==
  /\ revision \in [Docs -> Revision]
  /\ dirty \in [Docs -> BOOLEAN]
  /\ checkpointed \in [Docs -> MaybeRevision]
  /\ pendingCheckpoints \in [Docs -> MaybeRevision]
  /\ pendingCompactions \in [Docs -> MaybeRevision]
  /\ retrying \in SUBSET (RetryKinds \X Docs)
ChannelType ==
  /\ queue \in Seq(Command) /\ Len(queue) <= QueueCap
  /\ acks \in Seq(Ack)
WorkerType ==
  /\ held \in [Docs -> MaybeRevision]
  /\ work \in [cmd : Command, was : MaybeRevision, busy : BOOLEAN]
FileType ==
  /\ journal \in [Docs -> MaybeRevision]
  /\ stateRevision \in [Docs -> MaybeRevision]
  /\ saved \in [Docs -> MaybeRevision]
HistoryType ==
  /\ mode \in Mode
  /\ staleRetry \in [Docs -> BOOLEAN]
  /\ faults \in 0..MaxFaults
  /\ restarts \in 0..MaxRestarts

TypeOK == AppType /\ ChannelType /\ WorkerType /\ FileType /\ HistoryType

(* The checkpoints of d in a command sequence q: none is newer than r; they *)
(* are newer and newer, starting above low.  Its compactions of d: none is *)
(* for a revision above s.                                                 *)
IsCheckpoint(c, d) == c.op = "Checkpoint" /\ c.doc = d
IsCompaction(c, d) == c.op = "AckSave" /\ c.doc = d

NoneAbove(q, d, r) == \A i \in 1..Len(q) : IsCheckpoint(q[i], d) => q[i].rev <= r
AscendingFrom(q, d, low) ==
  \A i \in 1..Len(q) :
    IsCheckpoint(q[i], d) =>
      /\ low < q[i].rev
      /\ \A j \in 1..(i - 1) : IsCheckpoint(q[j], d) => q[j].rev < q[i].rev
CompactsUpTo(q, d, s) == \A i \in 1..Len(q) : IsCompaction(q[i], d) => q[i].rev <= s

(* The worker sees the checkpoints of a document in the order of its       *)
(* edits, through every mixture of full queues, retries and restarts,      *)
(* unless a stale retry put an old one behind.                             *)
CheckpointsInOrder ==
  \A d \in Docs : staleRetry[d] \/ AscendingFrom(queue, d, held[d])

InQueue(c) == \E i \in 1..Len(queue) : queue[i] = c
InPipeline(d) ==
  \/ pendingCheckpoints[d] = revision[d]
  \/ InQueue(Checkpoint(d, revision[d]))
  \/ held[d] = revision[d]

(* While the event loop runs, the newest text of a dirty document is never *)
(* nowhere: App retains it, it is queued, or the worker holds it (so that  *)
(* every later persist writes it), whatever persists have failed.          *)
NewestInPipeline ==
  mode = "running" => \A d \in Docs : dirty[d] /\ ~staleRetry[d] => InPipeline(d)

(* Whenever the machine stops, what a restart finds is not older than what *)
(* App was told is safe: the journal has it, or the workspace file does.   *)
AckedRecoverable ==
  \A d \in Docs :
    ~staleRetry[d] /\ checkpointed[d] # None =>
      journal[d] >= checkpointed[d] \/ saved[d] >= checkpointed[d]

(* No step of any actor, and no crash in the middle of a write, takes a    *)
(* journal entry away or back unless the workspace file has as new a text. *)
JournalNeverRegresses ==
  [][\A d \in Docs :
       ~staleRetry'[d] =>
         journal'[d] >= journal[d] \/ saved[d] >= journal[d]]_vars

(* After the process ended by itself with nothing left in App (a quit or a *)
(* signal), a restart shows every unsaved edit, in the absence of I/O      *)
(* errors.                                                                 *)
CleanExitKeepsEdits ==
  mode = "exited" /\ faults = 0 =>
    \A d \in Docs :
      dirty[d] /\ ~staleRetry[d] /\ pendingCheckpoints[d] = None
        => journal[d] = revision[d]

(* ... and it shows no saved document as unsaved.                          *)
CleanExitForgetsSaved ==
  mode = "exited" /\ faults = 0 =>
    \A d \in Docs :
      /\ ~dirty[d] /\ ~staleRetry[d]
      /\ pendingCheckpoints[d] = None /\ pendingCompactions[d] = None
      => journal[d] = None

(* A clean exit is exact: what is dirty is recovered, what is saved is not.*)
CleanExitIsExact == CleanExitKeepsEdits /\ CleanExitForgetsSaved

-----------------------------------------------------------------------------
(* Why the safety properties hold: the parts of an inductive invariant     *)
(* (its proof is in JournalProofs).                                        *)
(* What the worker keeps of d: its map's entry, or the entry it took out   *)
(* and puts back when the write of the compaction fails.                   *)
Compacting(d) == work.busy /\ work.cmd.op = "AckSave" /\ work.cmd.doc = d
Kept(d) == IF Compacting(d) THEN work.was ELSE held[d]

(* Nothing anywhere is ahead of the buffer.                                *)
WithinRevision(d) ==
  /\ pendingCheckpoints[d] <= revision[d]
  /\ Kept(d) <= revision[d]
  /\ journal[d] <= revision[d]
  /\ saved[d] <= revision[d]
  /\ NoneAbove(queue, d, revision[d])

(* A compaction only ever speaks of a revision that was saved.             *)
CompactionsCovered(d) ==
  /\ pendingCompactions[d] <= saved[d]
  /\ Compacting(d) => held[d] = None /\ work.was <= saved[d]
  /\ CompactsUpTo(queue, d, saved[d])

(* The worker holds the checkpoint it is writing.                          *)
WritesWhatItHolds(d) ==
  work.busy /\ work.cmd.op = "Checkpoint" /\ work.cmd.doc = d
    => held[d] = work.cmd.rev

(* Queued checkpoints of d ascend, from above what the worker keeps to     *)
(* below a retained one that is the newest.                                *)
Ascending(d) ==
  /\ AscendingFrom(queue, d, Kept(d))
  /\ pendingCheckpoints[d] = revision[d] =>
       Kept(d) < revision[d] /\ NoneAbove(queue, d, revision[d] - 1)

Safe(d, r) == journal[d] >= r \/ saved[d] >= r

(* Everything acknowledged is safe, and stays so under the next write.     *)
Durable(d) ==
  /\ checkpointed[d] # None => Safe(d, checkpointed[d])
  /\ held[d] >= journal[d] \/ saved[d] >= journal[d]
  /\ \A k \in 1..Len(acks) : acks[k].doc = d => Safe(d, acks[k].rev)

(* The inductive invariant: the first three parts hold come what may, the  *)
(* others as long as no stale checkpoint was handed over.                  *)
DocInv(d) ==
  /\ WithinRevision(d)
  /\ CompactionsCovered(d)
  /\ WritesWhatItHolds(d)
  /\ staleRetry[d] \/ (Ascending(d) /\ Durable(d))
JournalInv == \A d \in Docs : DocInv(d)

(* Why the newest text is never lost: a dirty document is ahead of its      *)
(* file, so no compaction takes its newest checkpoint out of the worker's  *)
(* map; and what App retains, when it is the newest, was never written, so *)
(* no acknowledgement on its way releases it.                              *)
AcksBelow(d, r) == \A k \in 1..Len(acks) : acks[k].doc = d => acks[k].rev < r

PipelineDoc(d) ==
  /\ dirty[d] => saved[d] < revision[d]
  /\ AcksBelow(d, revision[d] + 1)
  /\ staleRetry[d] \/
       /\ pendingCheckpoints[d] = revision[d] => AcksBelow(d, revision[d])
       /\ mode # "down" /\ dirty[d] => InPipeline(d)
PipelineInv == \A d \in Docs : PipelineDoc(d)

(* Why a clean exit is exact: the flush is the last command of its process, *)
(* so that when it is answered the worker has seen every other one, and    *)
(* without I/O errors the file is then what the worker's map is.           *)
FlushInv ==
  /\ \A i \in 1..Len(queue) : queue[i] = Flush => mode = "flushing" /\ i = Len(queue)
  /\ work.busy /\ work.cmd = Flush => mode = "flushing" /\ queue = <<>>
  /\ mode = "flushing" => InQueue(Flush) \/ (work.busy /\ work.cmd = Flush)
  /\ mode \in {"flushed", "exited"} => queue = <<>> /\ ~work.busy
  /\ faults = 0 /\ ~work.busy => journal = held

(* ... and a saved document is forgotten by then: its compaction is        *)
(* retained, or queued behind its checkpoints, or nothing of it is left.   *)
CompactionBehind(d) ==
  \E j \in 1..Len(queue) :
    /\ queue[j] = AckSave(d, revision[d])
    /\ \A i \in (j + 1)..Len(queue) : ~IsCheckpoint(queue[i], d)
Forgotten(d) ==
  held[d] = None /\ \A i \in 1..Len(queue) : ~IsCheckpoint(queue[i], d)

ForgettingDoc(d) ==
  mode # "down" /\ faults = 0 /\ ~dirty[d] /\ ~staleRetry[d] =>
    pendingCompactions[d] = revision[d] \/ CompactionBehind(d) \/ Forgotten(d)
ForgettingInv == \A d \in Docs : ForgettingDoc(d)

-----------------------------------------------------------------------------
(* Liveness.  A user who saves for ever can keep the queue full at every   *)
(* tick, so the two properties of the running system are about a user who  *)
(* pauses.                                                                 *)
UserPauses == <>[][~\E d \in Docs : SaveCompleted(d)]_vars

(* What the queue had no room for is handed over in the end.               *)
RetainedHandedOver ==
  UserPauses =>
    \A d \in Docs :
      /\ pendingCheckpoints[d] # None ~> pendingCheckpoints[d] = None \/ mode # "running"
      /\ pendingCompactions[d] # None ~> pendingCompactions[d] = None \/ mode # "running"

(* Without I/O errors the newest text of a dirty document reaches the      *)
(* journal, and App learns of it.                                          *)
NewestBecomesDurable ==
  UserPauses =>
    \A d \in Docs :
      dirty[d] ~> \/ journal[d] = revision[d] /\ checkpointed[d] = revision[d]
                 \/ ~dirty[d] \/ staleRetry[d] \/ faults > 0 \/ mode # "running"

(* A quit, a signal or a panic ends the process: the blocking sends and    *)
(* the flush are always answered, whatever the disk does.                  *)
ShutdownCompletes ==
  mode \in {"draining", "leaving", "flushing", "flushed"} ~> ~Alive

-----------------------------------------------------------------------------
(* What the repository says and the code does not do.                      *)

(* phase-01-core-workbench-and-editor.md:179 "After a reported journal     *)
(* acknowledgement, a full power-cycle simulation recovers that exact      *)
(* revision."                                                              *)
ReportedAckRecovers ==
  \A d \in Docs :
    dirty[d] /\ checkpointed[d] = revision[d] => journal[d] = revision[d]
=============================================================================
