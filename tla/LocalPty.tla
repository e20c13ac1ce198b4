------------------------------ MODULE LocalPty ------------------------------
(***************************************************************************)
(* A shell of the workstation (pty/session.rs, LocalPtySession): its       *)
(* process group and terminal, the thread that reads the terminal, the     *)
(* thread that writes it, and the owner of the session, who opens it,      *)
(* writes to it, cancels it, marks it lost and drops it.                   *)
(*                                                                         *)
(* The three share an atomic state, a cancellation token, and the child    *)
(* behind a mutex that is held while it is waited for.  Killing takes      *)
(* several steps (a signal, a pause, a signal, the mutex, the wait), and   *)
(* each of the three may be in the middle of it.                           *)
(***************************************************************************)
EXTENDS Integers

CONSTANTS
  InputQueue,   \* PTY_INPUT_QUEUE
  OutputBudget  \* PTY_TOTAL_OUTPUT_BUDGET, in chunks

ASSUME PtyLimits == InputQueue \in Nat \ {0} /\ OutputBudget \in Nat

VARIABLES
  shell,      \* "none", "alive", "zombie" or "reaped"
  tty,        \* "open", or "hung" when no process holds the slave any more
  cancelled,  \* the cancellation token
  state,      \* PtySessionState, shared
  childLock,  \* who holds the child's mutex
  input,      \* writes accepted and not yet taken by the writer
  chunks,     \* chunks the reader has read
  at,         \* where each thread is
  errand      \* what the owner is doing

ptyVars == <<shell, tty, cancelled, state, childLock, input, chunks, at, errand>>

Threads == {"owner", "writer", "reader"}
Killing == {"term", "kill", "lock", "reap"}
Errands == {"none", "spawn", "cancel", "lost", "drop", "release"}

PtyInit ==
  /\ shell = "none" /\ tty = "hung"
  /\ cancelled = FALSE /\ state = "running"
  /\ childLock = "free" /\ input = 0 /\ chunks = 0
  /\ at = [t \in Threads |-> IF t = "owner" THEN "start" ELSE "none"]
  /\ errand = "spawn"

Go(t, place) == at' = [at EXCEPT ![t] = place]
Die == IF shell = "alive" THEN "zombie" ELSE shell
(* A dead shell hangs its terminal up, unless a job of it, in a process    *)
(* group of its own, has the terminal open too.                            *)
Hang == IF shell' = "zombie" THEN {tty, "hung"} ELSE {tty}

-----------------------------------------------------------------------------
(* PtyProcessTree::terminate, and what each caller does after it.          *)
(* SIGTERM; an interactive shell may ignore it.                            *)
Terminate(t) ==
  /\ at[t] = "term"
  /\ shell' \in {shell, Die} /\ tty' \in Hang
  /\ Go(t, "kill")
  /\ UNCHANGED <<cancelled, state, childLock, input, chunks, errand>>

(* SIGKILL, a tenth of a second later; whoever holds the mutex may have    *)
(* waited for the child meanwhile.                                         *)
Kill(t) ==
  /\ at[t] = "kill"
  /\ shell' = Die /\ tty' \in Hang
  /\ Go(t, "lock")
  /\ UNCHANGED <<cancelled, state, childLock, input, chunks, errand>>

(* mark_lost and the reader over its budget do not wait for the child.     *)
Waits(t) == CASE t = "owner" -> errand # "lost"
              [] t = "writer" -> TRUE
              [] t = "reader" -> FALSE

(* Where a thread goes when it has killed: a failed spawn joins its writer. *)
Killed(t) ==
  CASE t = "writer" -> "ended"
    [] t = "reader" -> "tail"
    [] t = "owner" /\ errand = "spawn" -> IF at["writer"] = "none" THEN "failed" ELSE "join"
    [] t = "owner" /\ errand \in {"cancel", "lost"} -> "ready"
    [] t = "owner" /\ errand = "drop" -> "gone"
    [] OTHER -> "join"

LockAndKill(t) ==
  /\ at[t] = "lock" /\ childLock = "free"
  /\ shell' = Die /\ tty' \in Hang
  /\ IF Waits(t) THEN childLock' = t /\ Go(t, "reap")
                 ELSE Go(t, Killed(t)) /\ UNCHANGED childLock
  /\ UNCHANGED <<cancelled, state, input, chunks, errand>>

(* Child::wait with the mutex held.                                        *)
Reap(t) ==
  /\ at[t] = "reap" /\ shell # "alive"
  /\ shell' = "reaped" /\ childLock' = "free"
  /\ Go(t, IF t = "reader" THEN "ended" ELSE Killed(t))
  /\ UNCHANGED <<tty, cancelled, state, input, chunks, errand>>

KillStep(t) == Terminate(t) \/ Kill(t) \/ LockAndKill(t) \/ Reap(t)

-----------------------------------------------------------------------------
(* The owner opens the session; every step may fail.                       *)
SpawnShell ==
  /\ at["owner"] = "start"
  /\ \/ shell' = "alive" /\ tty' = "open" /\ Go("owner", "attach")
     \/ Go("owner", "failed") /\ UNCHANGED <<shell, tty>>
  /\ UNCHANGED <<cancelled, state, childLock, input, chunks, errand>>

(* Without a process group there is only the child itself to kill.         *)
Attach ==
  /\ at["owner"] = "attach"
  /\ \/ Go("owner", "handles") \/ Go("owner", "lock")
  /\ UNCHANGED <<shell, tty, cancelled, state, childLock, input, chunks, errand>>

TakeHandles ==
  /\ at["owner"] = "handles"
  /\ \/ Go("owner", "spawn_writer") \/ Go("owner", "term")
  /\ UNCHANGED <<shell, tty, cancelled, state, childLock, input, chunks, errand>>

SpawnWriter ==
  /\ at["owner"] = "spawn_writer"
  /\ \/ at' = [at EXCEPT !["owner"] = "spawn_reader", !["writer"] = "check"]
     \/ Go("owner", "term")
  /\ UNCHANGED <<shell, tty, cancelled, state, childLock, input, chunks, errand>>

(* Mutant: without a reader the shell and the writer are left to themselves. *)
SpawnReaderOrLeave ==
  /\ at["owner"] = "spawn_reader"
  /\ \/ /\ at' = [at EXCEPT !["owner"] = "ready", !["reader"] = "check"]
        /\ errand' = "none"
     \/ Go("owner", "failed") /\ UNCHANGED errand
  /\ UNCHANGED <<shell, tty, cancelled, state, childLock, input, chunks>>

SpawnReader ==
  /\ at["owner"] = "spawn_reader"
  /\ \/ /\ at' = [at EXCEPT !["owner"] = "ready", !["reader"] = "check"]
        /\ errand' = "none"
        /\ UNCHANGED cancelled
     \/ Go("owner", "term") /\ cancelled' = TRUE /\ UNCHANGED errand
  /\ UNCHANGED <<shell, tty, state, childLock, input, chunks>>

(* A write is accepted while the session runs, its writer is there and the *)
(* queue has room; every other outcome is an error that changes nothing.   *)
WriteInput ==
  /\ at["owner"] = "ready" /\ state = "running"
  /\ at["writer"] # "ended" /\ input < InputQueue
  /\ input' = input + 1
  /\ UNCHANGED <<shell, tty, cancelled, state, childLock, chunks, at, errand>>

(* cancel: called for itself, by drop, or before the threads are joined.   *)
Cancel(e) ==
  /\ at["owner"] = "ready" /\ e \in {"cancel", "drop", "release"}
  /\ cancelled' = TRUE /\ errand' = e /\ Go("owner", "swap")
  /\ UNCHANGED <<shell, tty, state, childLock, input, chunks>>

(* Mutant: the swapped state is not looked at, and nothing is killed.      *)
SwapWithoutKill ==
  /\ at["owner"] = "swap"
  /\ state' = "exited" /\ Go("owner", Killed("owner"))
  /\ UNCHANGED <<shell, tty, cancelled, childLock, input, chunks, errand>>

Swap ==
  /\ at["owner"] = "swap"
  /\ state' = "exited"
  /\ Go("owner", IF state = "running" THEN "term" ELSE Killed("owner"))
  /\ UNCHANGED <<shell, tty, cancelled, childLock, input, chunks, errand>>

MarkLost ==
  /\ at["owner"] = "ready"
  /\ cancelled' = TRUE /\ errand' = "lost" /\ Go("owner", "store")
  /\ UNCHANGED <<shell, tty, state, childLock, input, chunks>>

StoreLost ==
  /\ at["owner"] = "store"
  /\ state' = "lost" /\ Go("owner", "term")
  /\ UNCHANGED <<shell, tty, cancelled, childLock, input, chunks, errand>>

(* join_reader, the reader first, and the drop that follows; a spawn that  *)
(* could not start its reader joins the writer.                            *)
Join ==
  /\ at["owner"] = "join"
  /\ at["writer"] = "ended" /\ at["reader"] \in {"none", "ended"}
  /\ Go("owner", IF errand = "spawn" THEN "failed" ELSE "gone")
  /\ UNCHANGED <<shell, tty, cancelled, state, childLock, input, chunks, errand>>

OwnerStep ==
  \/ SpawnShell \/ Attach \/ TakeHandles \/ SpawnWriter \/ SpawnReader
  \/ Swap \/ StoreLost \/ Join \/ KillStep("owner")
OwnerAsks == WriteInput \/ MarkLost \/ \E e \in Errands : Cancel(e)

-----------------------------------------------------------------------------
(* spawn_writer: it looks at the token between two waits for input.        *)
WriterChecks ==
  /\ at["writer"] = "check"
  /\ Go("writer", IF cancelled THEN "ended" ELSE "receive")
  /\ UNCHANGED <<shell, tty, cancelled, state, childLock, input, chunks, errand>>

WriterReceives ==
  /\ at["writer"] = "receive"
  /\ IF input > 0 THEN input' = input - 1 /\ Go("writer", "write")
                  ELSE Go("writer", "check") /\ UNCHANGED input
  /\ UNCHANGED <<shell, tty, cancelled, state, childLock, chunks, errand>>

(* A write waits for a shell that does not read, and fails without one.    *)
WriterWrites ==
  /\ at["writer"] = "write" /\ tty = "open"
  /\ Go("writer", "check")
  /\ UNCHANGED <<shell, tty, cancelled, state, childLock, input, chunks, errand>>

WriteFails ==
  /\ at["writer"] = "write" /\ tty = "hung"
  /\ cancelled' = TRUE /\ Go("writer", "store")
  /\ UNCHANGED <<shell, tty, state, childLock, input, chunks, errand>>

WriterStoresExited ==
  /\ at["writer"] = "store"
  /\ state' = "exited" /\ Go("writer", "term")
  /\ UNCHANGED <<shell, tty, cancelled, childLock, input, chunks, errand>>

WriterStep ==
  WriterChecks \/ WriterReceives \/ WriteFails \/ WriterStoresExited \/ KillStep("writer")

-----------------------------------------------------------------------------
(* spawn_reader: a read ends with output, or when the terminal is hung up. *)
ReaderChecks ==
  /\ at["reader"] = "check"
  /\ Go("reader", IF cancelled THEN "tail" ELSE "read")
  /\ UNCHANGED <<shell, tty, cancelled, state, childLock, input, chunks, errand>>

ReadChunk ==
  /\ at["reader"] = "read"
  /\ chunks' = chunks + 1
  /\ IF chunks' > OutputBudget THEN cancelled' = TRUE /\ Go("reader", "term")
                               ELSE Go("reader", "check") /\ UNCHANGED cancelled
  /\ UNCHANGED <<shell, tty, state, childLock, input, errand>>

(* Mutant: a failed read is taken for an interrupted one.                  *)
ReadRetries ==
  /\ at["reader"] = "read" /\ tty = "hung"
  /\ Go("reader", "check")
  /\ UNCHANGED <<shell, tty, cancelled, state, childLock, input, chunks, errand>>

ReadEnds ==
  /\ at["reader"] = "read" /\ tty = "hung"
  /\ Go("reader", "tail")
  /\ UNCHANGED <<shell, tty, cancelled, state, childLock, input, chunks, errand>>

ReaderCancels ==
  /\ at["reader"] = "tail"
  /\ cancelled' = TRUE /\ Go("reader", "load")
  /\ UNCHANGED <<shell, tty, state, childLock, input, chunks, errand>>

(* Mutant: the reader leaves the state as it is.                           *)
ReaderSkipsState ==
  /\ at["reader"] = "load"
  /\ Go("reader", "wait")
  /\ UNCHANGED <<shell, tty, cancelled, state, childLock, input, chunks, errand>>

(* The load and the store of the state are two steps.                      *)
ReaderLoads ==
  /\ at["reader"] = "load"
  /\ Go("reader", IF state = "running" THEN "store" ELSE "wait")
  /\ UNCHANGED <<shell, tty, cancelled, state, childLock, input, chunks, errand>>

ReaderStores ==
  /\ at["reader"] = "store"
  /\ state' = "exited" /\ Go("reader", "wait")
  /\ UNCHANGED <<shell, tty, cancelled, childLock, input, chunks, errand>>

(* The reader waits for the child, holding its mutex.                      *)
ReaderLocks ==
  /\ at["reader"] = "wait" /\ childLock = "free"
  /\ childLock' = "reader" /\ Go("reader", "reap")
  /\ UNCHANGED <<shell, tty, cancelled, state, input, chunks, errand>>

ReaderStep ==
  \/ ReaderChecks \/ ReadEnds \/ ReaderCancels \/ ReaderLoads \/ ReaderStores
  \/ ReaderLocks \/ KillStep("reader")

-----------------------------------------------------------------------------
(* The shell exits by itself.                                              *)
ShellExits ==
  /\ shell = "alive"
  /\ shell' = "zombie" /\ tty' \in Hang
  /\ UNCHANGED <<cancelled, state, childLock, input, chunks, at, errand>>
(* A shell that goes on lets go of its terminal, or the last job of a dead *)
(* one does.                                                               *)
SlaveCloses ==
  /\ tty = "open"
  /\ tty' = "hung"
  /\ UNCHANGED <<shell, cancelled, state, childLock, input, chunks, at, errand>>

PtyNext ==
  \/ OwnerStep \/ OwnerAsks
  \/ WriterStep \/ WriterWrites
  \/ ReaderStep \/ ReadChunk
  \/ ShellExits \/ SlaveCloses

(* Threads run and a sleep ends; nobody has to type, to print, to exit or  *)
(* to close a terminal.                                                    *)
PtyFairness ==
  WF_ptyVars(OwnerStep) /\ WF_ptyVars(WriterStep) /\ WF_ptyVars(ReaderStep)

PtySpec == PtyInit /\ [][PtyNext]_ptyVars /\ PtyFairness

-----------------------------------------------------------------------------
PtyTypeOK ==
  /\ shell \in {"none", "alive", "zombie", "reaped"}
  /\ tty \in {"open", "hung"}
  /\ cancelled \in BOOLEAN
  /\ state \in {"running", "exited", "lost"}
  /\ childLock \in {"free"} \cup Threads
  /\ input \in 0..InputQueue
  /\ chunks \in Nat
  /\ at["owner"] \in Killing \cup {"start", "attach", "handles", "spawn_writer",
       "spawn_reader", "ready", "swap", "store", "join", "gone", "failed"}
  /\ at["writer"] \in Killing \cup {"none", "check", "receive", "write", "store", "ended"}
  /\ at["reader"] \in Killing \cup {"none", "check", "read", "tail", "load", "store",
       "wait", "ended"}
  /\ errand \in Errands

(* Opening: the steps of the owner before a session exists.                *)
Opening == errand = "spawn" /\ at["owner"] # "failed"
(* A job of a dead shell has its terminal open, for as long as it likes:   *)
(* nothing tells the reader of the shell's end, or ends its read.          *)
Held == shell \in {"zombie", "reaped"} /\ tty = "open"

(* A session shown as running has a reader that will notice its end: none  *)
(* of the three leaves "running" behind when it is through.                *)
RunningIsWatched ==
  state = "running" /\ errand # "spawn" =>
    at["reader"] \notin {"none", "wait", "reap", "ended"}

(* The mutex is held by who waits for the child.                           *)
LockIsHeld == \A t \in Threads : childLock = t <=> at[t] = "reap"

(* The end of a shell is seen once its terminal is hung up, whatever the   *)
(* owner was doing.                                                        *)
ExitIsShown ==
  shell \in {"zombie", "reaped"} /\ tty = "hung" /\ ~Opening ~>
    state # "running" \/ at["owner"] = "failed"

(* The reader waits for a shell nobody kills any more.                     *)
LeftToReader == shell = "alive" /\ at["reader"] = "reap"

(* A session that was lost, dropped or released leaves neither a running   *)
(* shell nor a zombie, and cancellation ends both threads, also while they *)
(* write to a shell that does not read, read one that does not print or    *)
(* are killing it.  The exceptions: a reader left waiting for the shell,   *)
(* and a job that holds the terminal of a dead one.  A spawn that failed   *)
(* leaves nothing at all.                                                  *)
Ends(t) == at[t] \in {"none", "ended"}
NothingLeft ==
  /\ at["owner"] = "gone" ~> shell = "reaped" \/ LeftToReader \/ Held
  /\ at["owner"] = "failed" ~> shell \in {"none", "reaped"} /\ Ends("writer") /\ Ends("reader")
  /\ state = "lost" ~> shell = "reaped" \/ state # "lost" \/ Held
  /\ cancelled ~> (Ends("writer") /\ Ends("reader")) \/ LeftToReader \/ Held

(* What the pane is promised.                                              *)
Promise == INSTANCE ShellSession WITH
  status <- IF at["owner"] = "failed" THEN "failed" ELSE IF Opening THEN "opening" ELSE state,
  shell <- CASE shell = "none" -> "none" [] shell = "alive" -> "alive" [] OTHER -> "dead"
PtyAsPromised == Promise!Spec
=============================================================================
