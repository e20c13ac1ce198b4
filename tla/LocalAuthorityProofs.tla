------------------------ MODULE LocalAuthorityProofs ------------------------
(***************************************************************************)
(* The authority over the workstation, for every limit: what a command     *)
(* that returned leaves behind and hands over, and what a shell's three    *)
(* threads agree on, up to the promise its session makes to the pane.      *)
(***************************************************************************)
EXTENDS LocalAuthority, TLAPS

(* The call never waits for nothing, and what it has killed stays dead.    *)
CallBooks ==
  /\ call = "idle" => /\ leader = "none" /\ descendant = "none" /\ outcome = "none"
                      /\ \A s \in Streams : collector[s] = "none"
  /\ call \in {"sweep", "finish", "collect"} => leader = "reaped"
  /\ call \in {"settle", "collect"} => leader # "alive" /\ descendant # "grouped"
  /\ outcome = "ok" => call = "done" /\ \A s \in Streams : collector[s] = "done"

(* What a reading task keeps is a function of what it has read; when it is *)
(* done nobody is left who could write.                                    *)
PipeBooks ==
  \A s \in Streams :
    /\ drained[s] <= written[s]
    /\ kept[s] = IF drained[s] < OutputLimit THEN drained[s] ELSE OutputLimit
    /\ overLimit[s] <=> drained[s] > OutputLimit
    /\ collector[s] = "done" => /\ drained[s] = written[s]
                                /\ leader # "alive" /\ descendant \notin {"grouped", "escaped"}

ExecInv == ExecTypeOK /\ CallBooks /\ PipeBooks /\ ReturnLeavesNoGroup

(* The owner is opening a session or has one, and a thread exists only     *)
(* while there is a shell, alive or dead.                                  *)
OpeningBooks ==
  /\ at = [t \in Threads |-> at[t]]
  /\ at["owner"] \in {"ready", "swap", "store", "gone"} => errand # "spawn"
  /\ at["owner"] \in {"start", "attach", "handles", "spawn_writer", "spawn_reader", "failed"}
       => errand = "spawn"
  /\ errand = "spawn" => at["reader"] = "none"
  /\ at["owner"] \in {"start", "attach", "handles", "spawn_writer"} => at["writer"] = "none"
  /\ at["owner"] = "start" => shell = "none"
  /\ shell = "none" => /\ at["owner"] \in {"start", "failed"}
                       /\ at["writer"] = "none" /\ at["reader"] = "none"
  /\ at["owner"] = "join" /\ errand = "spawn" => shell = "reaped"
  /\ at["owner"] = "failed" => shell # "alive"

PtyInv == PtyTypeOK /\ OpeningBooks /\ RunningIsWatched /\ LockIsHeld

AInv == ExecInv /\ PtyInv

-----------------------------------------------------------------------------
(* The command.                                                            *)
LEMMA NobodyHolds ==
  Holders = {} <=> leader # "alive" /\ descendant \notin {"grouped", "escaped"}
BY DEF Holders

(* A step of the call leaves the pipes alone, and wakes nobody that holds  *)
(* one.                                                                    *)
LEMMA PipesKept ==
  ASSUME PipeBooks, UNCHANGED <<written, drained, kept, overLimit>>,
         \A s \in Streams : collector'[s] = "done" => collector[s] = "done",
         leader' = "alive" => leader = "alive",
         descendant' \in {"grouped", "escaped"} => descendant \in {"grouped", "escaped"}
  PROVE  PipeBooks'
BY DEF PipeBooks

LEMMA ExecInitInv == ExecInit => ExecInv
<1> SUFFICES ASSUME ExecInit PROVE ExecInv
  OBVIOUS
<1> USE SupervisorLimits
<1>1. ExecTypeOK
  <2>1. stopAsked \in BOOLEAN /\ overLimit \in [Streams -> BOOLEAN]
    BY DEF ExecInit
  <2> QED
    BY <2>1 DEF ExecInit, ExecTypeOK, Calls, Outcomes
<1>2. CallBooks /\ ReturnLeavesNoGroup
  BY DEF ExecInit, CallBooks, ReturnLeavesNoGroup
<1>3. PipeBooks
  BY DEF ExecInit, PipeBooks
<1> QED
  BY <1>1, <1>2, <1>3 DEF ExecInv

LEMMA ExecStepInv == ExecInv /\ [ExecNext]_execVars => ExecInv'
<1> SUFFICES ASSUME ExecInv, [ExecNext]_execVars PROVE ExecInv'
  OBVIOUS
<1> USE SupervisorLimits DEF pipeVars, treeVars, SignalGroup, KillGroup, Dies, DiesToo
<1>1. ASSUME SpawnCommand PROVE ExecInv'
  <2>1. PipeBooks'
    BY <1>1 DEF ExecInv, CallBooks, PipeBooks, SpawnCommand
  <2>2. ExecTypeOK' /\ CallBooks' /\ ReturnLeavesNoGroup'
    BY <1>1 DEF ExecInv, ExecTypeOK, CallBooks, ReturnLeavesNoGroup, SpawnCommand, Calls, Outcomes
  <2> QED
    BY <2>1, <2>2 DEF ExecInv
<1>2. ASSUME AttachTree \/ CommandExits \/ GraceEnds \/ KillTree \/ Settle \/ Sweep \/ SweepRest
             \/ Collect \/ Abandon \/ \E reason \in Outcomes : GiveUp(reason)
      PROVE  ExecInv'
  <2>1. PipeBooks'
    BY <1>2, PipesKept DEF ExecInv, ExecTypeOK, AttachTree, TerminateUncontained, CommandExits,
       GraceEnds, KillTree, Settle, Sweep, SweepRest, Collect, Abandon, GiveUp
  <2>2. ExecTypeOK'
    BY <1>2 DEF ExecInv, ExecTypeOK, AttachTree, TerminateUncontained, CommandExits,
       GraceEnds, KillTree, Settle, Sweep, SweepRest, Collect, Abandon, GiveUp, Calls, Outcomes
  <2>3. CallBooks'
    BY <1>2 DEF ExecInv, ExecTypeOK, CallBooks, AttachTree, TerminateUncontained, CommandExits,
       GraceEnds, KillTree, Settle, Sweep, SweepRest, Collect, Abandon, GiveUp, Streams
  <2>4. ReturnLeavesNoGroup'
    BY <1>2 DEF ExecInv, ExecTypeOK, CallBooks, ReturnLeavesNoGroup, AttachTree,
       TerminateUncontained, CommandExits,
       GraceEnds, KillTree, Settle, Sweep, SweepRest, Collect, Abandon, GiveUp
  <2> QED
    BY <2>1, <2>2, <2>3, <2>4 DEF ExecInv
<1>3. ASSUME TakePipes PROVE ExecInv'
  <2>1. PipeBooks'
    BY <1>3, PipesKept DEF ExecInv, ExecTypeOK, TakePipes
  <2>2. ExecTypeOK' /\ CallBooks' /\ ReturnLeavesNoGroup'
    BY <1>3 DEF ExecInv, ExecTypeOK, CallBooks, ReturnLeavesNoGroup, TakePipes, Calls, Outcomes
  <2> QED
    BY <2>1, <2>2 DEF ExecInv
<1>4. ASSUME AskStop \/ Fork \/ LeaveGroup \/ Exit PROVE ExecInv'
  <2>1. PipeBooks'
    BY <1>4 DEF ExecInv, PipeBooks, AskStop, Fork, LeaveGroup, Exit
  <2>2. ExecTypeOK' /\ CallBooks' /\ ReturnLeavesNoGroup'
    BY <1>4 DEF ExecInv, ExecTypeOK, CallBooks, ReturnLeavesNoGroup, AskStop, Fork, LeaveGroup, Exit
  <2> QED
    BY <2>1, <2>2 DEF ExecInv
<1>5. ASSUME NEW s \in Streams, ReadBounded(s) \/ ReadEof(s) \/ ReadFails(s) \/ WritePipe(s)
      PROVE  ExecInv'
  <2>1. CallBooks' /\ ReturnLeavesNoGroup'
    BY <1>5 DEF ExecInv, ExecTypeOK, CallBooks, ReturnLeavesNoGroup, ReadBounded, ReadEof, ReadFails,
       WritePipe
  <2>2. CASE ReadBounded(s)
    <3>1. PICK count \in 1..(written[s] - drained[s]) :
            /\ drained' = [drained EXCEPT ![s] = @ + count]
            /\ kept' = [kept EXCEPT ![s] = @ + IF count < OutputLimit - kept[s]
                                               THEN count ELSE OutputLimit - kept[s]]
            /\ overLimit' = [overLimit EXCEPT ![s] = @ \/ count > OutputLimit - kept[s]]
      BY <2>2 DEF ReadBounded
    <3>2. /\ written[s] \in Nat /\ drained[s] \in Nat /\ kept[s] \in Nat /\ count \in Nat
          /\ kept[s] = IF drained[s] < OutputLimit THEN drained[s] ELSE OutputLimit
      BY DEF ExecInv, ExecTypeOK, PipeBooks
    <3>3. overLimit'[s] <=> drained[s] + count > OutputLimit
      <4>1. overLimit'[s] = (overLimit[s] \/ count > OutputLimit - kept[s])
        BY <3>1 DEF ExecInv, ExecTypeOK
      <4>2. overLimit[s] <=> drained[s] > OutputLimit
        BY DEF ExecInv, PipeBooks
      <4>3. drained[s] > OutputLimit \/ count > OutputLimit - kept[s] <=> drained[s] + count > OutputLimit
        BY <3>2
      <4> QED
        BY <4>1, <4>2, <4>3
    <3>4. PipeBooks'
      BY <2>2, <3>1, <3>2, <3>3 DEF ReadBounded, ExecInv, ExecTypeOK, PipeBooks
    <3>5. overLimit' \in [Streams -> BOOLEAN]
      BY <3>1 DEF ExecInv, ExecTypeOK
    <3>6. ExecTypeOK'
      BY <2>2, <3>1, <3>2, <3>5 DEF ReadBounded, ExecInv, ExecTypeOK
    <3> QED
      BY <2>1, <3>4, <3>6 DEF ExecInv
  <2>3. CASE ReadEof(s) \/ ReadFails(s) \/ WritePipe(s)
    <3>1. PipeBooks'
      BY <2>3, NobodyHolds DEF ExecInv, ExecTypeOK, PipeBooks, ReadEof, ReadFails, WritePipe
    <3>2. ExecTypeOK'
      BY <2>3 DEF ExecInv, ExecTypeOK, ReadEof, ReadFails, WritePipe
    <3> QED
      BY <2>1, <3>1, <3>2 DEF ExecInv
  <2> QED
    BY <1>5, <2>2, <2>3
<1>6. CASE UNCHANGED execVars
  BY <1>6 DEF execVars, ExecInv, ExecTypeOK, CallBooks, PipeBooks, ReturnLeavesNoGroup
<1> QED
  BY <1>1, <1>2, <1>3, <1>4, <1>5, <1>6 DEF ExecNext, CallStep, CollectorStep, Outcomes

-----------------------------------------------------------------------------
(* The shell and the three threads.                                        *)
LEMMA PtyInitInv == PtyInit => PtyInv
<1> SUFFICES ASSUME PtyInit PROVE PtyInv
  OBVIOUS
<1>1. at["owner"] = "start" /\ at["writer"] = "none" /\ at["reader"] = "none"
  BY DEF PtyInit, Threads
<1>2. at = [t \in Threads |-> at[t]]
  BY DEF PtyInit
<1>3. cancelled \in BOOLEAN
  BY DEF PtyInit
<1>4. PtyTypeOK
  BY PtyLimits, <1>1, <1>3 DEF PtyInit, PtyTypeOK, Errands
<1>5. OpeningBooks /\ RunningIsWatched
  BY <1>1, <1>2 DEF PtyInit, OpeningBooks, RunningIsWatched
<1>6. LockIsHeld
  BY <1>1 DEF PtyInit, LockIsHeld, Threads
<1> QED
  BY <1>4, <1>5, <1>6 DEF PtyInv

(* Where a thread goes; the other two stay where they are.                 *)
LEMMA GoTo ==
  ASSUME OpeningBooks, NEW t \in Threads, NEW place, Go(t, place)
  PROVE  /\ at' = [u \in Threads |-> at'[u]]
         /\ at'[t] = place
         /\ \A u \in Threads \ {t} : at'[u] = at[u]
BY DEF OpeningBooks, Go

LEMMA WriterStepInv ==
  ASSUME PtyInv,
         WriterChecks \/ WriterReceives \/ WriterWrites \/ WriteFails \/ WriterStoresExited
  PROVE  PtyInv'
<1> USE DEF WriterChecks, WriterReceives, WriterWrites, WriteFails, WriterStoresExited
<1>1. /\ at' = [t \in Threads |-> at'[t]]
      /\ at'["owner"] = at["owner"] /\ at'["reader"] = at["reader"]
      /\ at'["writer"] \in {"check", "receive", "write", "store", "term", "ended"}
      /\ at["writer"] \notin {"none", "reap"}
  <2>1. PICK place \in {"check", "receive", "write", "store", "term", "ended"} : Go("writer", place)
    OBVIOUS
  <2>2. at["writer"] \in {"check", "receive", "write", "store"}
    OBVIOUS
  <2> QED
    BY <2>1, <2>2, GoTo DEF PtyInv, Threads
<1>2. cancelled' \in BOOLEAN
  BY DEF PtyInv, PtyTypeOK
<1>3. PtyTypeOK'
  BY <1>1, <1>2, PtyLimits DEF PtyInv, PtyTypeOK, Threads, Killing
<1>4. OpeningBooks'
  BY <1>1 DEF PtyInv, OpeningBooks
<1>5. RunningIsWatched'
  BY <1>1 DEF PtyInv, RunningIsWatched
<1>6. LockIsHeld'
  BY <1>1 DEF PtyInv, LockIsHeld, Threads
<1> QED
  BY <1>3, <1>4, <1>5, <1>6 DEF PtyInv

LEMMA ReaderStepInv ==
  ASSUME PtyInv,
         ReaderChecks \/ ReadChunk \/ ReadEnds \/ ReaderCancels \/ ReaderLoads \/ ReaderStores \/ ReaderLocks
  PROVE  PtyInv'
<1> USE DEF ReaderChecks, ReadChunk, ReadEnds, ReaderCancels, ReaderLoads, ReaderStores, ReaderLocks
<1>1. /\ at' = [t \in Threads |-> at'[t]]
      /\ at'["owner"] = at["owner"] /\ at'["writer"] = at["writer"]
      /\ at'["reader"] \in {"check", "read", "tail", "load", "store", "wait", "term", "reap"}
      /\ at["reader"] \in {"check", "read", "tail", "load", "store", "wait"}
  <2>1. PICK place \in {"check", "read", "tail", "load", "store", "wait", "term", "reap"} :
          Go("reader", place)
    OBVIOUS
  <2>2. at["reader"] \in {"check", "read", "tail", "load", "store", "wait"}
    OBVIOUS
  <2> QED
    BY <2>1, <2>2, GoTo DEF PtyInv, Threads
<1>2. cancelled' \in BOOLEAN
  BY DEF PtyInv, PtyTypeOK
<1>3. PtyTypeOK'
  BY <1>1, <1>2 DEF PtyInv, PtyTypeOK, Threads, Killing
<1>4. OpeningBooks'
  BY <1>1 DEF PtyInv, OpeningBooks
<1>5. RunningIsWatched'
  <2>1. at'["reader"] = "wait" => state' # "running"
    BY <1>1, GoTo DEF PtyInv, Threads
  <2>2. at'["reader"] = "reap" => at["reader"] = "wait" /\ state' = state
    BY <1>1, GoTo DEF PtyInv, Threads
  <2> QED
    BY <1>1, <2>1, <2>2 DEF PtyInv, RunningIsWatched
<1>6. LockIsHeld'
  <2>1. at'["reader"] = "reap" => childLock = "free" /\ childLock' = "reader"
    BY <1>1, GoTo DEF PtyInv, Threads
  <2>2. at'["reader"] # "reap" => childLock' = childLock
    BY <1>1, GoTo DEF PtyInv, Threads
  <2> QED
    BY <1>1, <2>1, <2>2 DEF PtyInv, LockIsHeld, Threads
<1> QED
  BY <1>3, <1>4, <1>5, <1>6 DEF PtyInv

(* The owner before and after it has a session; nothing it does itself is  *)
(* done with the mutex.                                                    *)
LEMMA OpeningStepInv ==
  ASSUME PtyInv, SpawnShell \/ Attach \/ TakeHandles \/ SpawnWriter \/ SpawnReader
  PROVE  PtyInv'
<1> USE DEF SpawnShell, Attach, TakeHandles, SpawnWriter, SpawnReader
<1>1. /\ at' = [t \in Threads |-> at'[t]]
      /\ at["owner"] \in {"start", "attach", "handles", "spawn_writer", "spawn_reader"}
      /\ at'["owner"] \in {"attach", "handles", "spawn_writer", "spawn_reader", "ready", "lock", "term",
                           "failed"}
      /\ at'["owner"] = "failed" => at["owner"] = "start" /\ shell' = shell
      /\ at'["owner"] = "ready" => errand' = "none" /\ at'["reader"] = "check"
      /\ at'["owner"] # "ready" => errand' = errand /\ at'["reader"] = at["reader"]
      /\ at'["writer"] \in {at["writer"], "check"}
      /\ at'["writer"] # at["writer"] => at["owner"] = "spawn_writer"
  BY DEF PtyInv, OpeningBooks, Go, Threads
<1>2. cancelled' \in BOOLEAN
  BY DEF PtyInv, PtyTypeOK
<1>3. PtyTypeOK'
  BY <1>1, <1>2 DEF PtyInv, PtyTypeOK, Killing, Errands
<1>4. OpeningBooks'
  <2>1. /\ at["owner"] = "start" => shell = "none" /\ shell' \in {"none", "alive"}
        /\ at["owner"] # "start" => shell # "none" /\ shell' = shell
        /\ at["owner"] = "start" /\ shell' = "none" => at'["owner"] = "failed"
    BY <1>1 DEF PtyInv, OpeningBooks, Go, Threads
  <2>2. at'["owner"] \in {"attach", "handles", "spawn_writer"} => at["owner"] \in {"start", "attach", "handles"}
    BY <1>1 DEF PtyInv, OpeningBooks, Go, Threads
  <2>3. at["owner"] = "start" => at["reader"] = "none" /\ at["writer"] = "none" /\ at'["reader"] = "none"
    BY <1>1, <2>1 DEF PtyInv, OpeningBooks
  <2>4. errand = "spawn" /\ at["reader"] = "none"
    BY <1>1 DEF PtyInv, OpeningBooks
  <2> QED
    BY <1>1, <2>1, <2>2, <2>3, <2>4 DEF PtyInv, OpeningBooks
<1>5. RunningIsWatched'
  BY <1>1 DEF PtyInv, OpeningBooks, RunningIsWatched
<1>6. LockIsHeld'
  <2>1. at["reader"] = "none" /\ (at["owner"] = "spawn_writer" => at["writer"] = "none")
    BY <1>1 DEF PtyInv, OpeningBooks
  <2>2. /\ at["owner"] # "reap" /\ at'["owner"] # "reap" /\ at'["reader"] \in {"none", "check"}
        /\ at'["writer"] = "reap" <=> at["writer"] = "reap"
    BY <1>1, <2>1
  <2> QED
    BY <2>1, <2>2 DEF PtyInv, LockIsHeld, Threads
<1> QED
  BY <1>3, <1>4, <1>5, <1>6 DEF PtyInv

LEMMA OwnerStepInv ==
  ASSUME PtyInv, Swap \/ StoreLost \/ Join \/ OwnerAsks
  PROVE  PtyInv'
<1> USE DEF Swap, StoreLost, Join, OwnerAsks, WriteInput, MarkLost, Cancel, Killed
<1>1. /\ at["owner"] \in {"ready", "swap", "store", "join"}
      /\ errand' \in Errands
      /\ errand' = "spawn" => errand = "spawn" /\ at["owner"] = "join"
      /\ errand = "spawn" => at["owner"] = "join" /\ errand' = "spawn"
      /\ UNCHANGED <<shell, tty, childLock, chunks>>
      /\ state' = "running" => state = "running"
  BY DEF PtyInv, PtyTypeOK, OpeningBooks, Errands
<1>2. /\ at' = [t \in Threads |-> at'[t]]
      /\ at'["writer"] = at["writer"] /\ at'["reader"] = at["reader"]
      /\ at'["owner"] \in {"ready", "swap", "store", "term", "join", "gone", "failed"}
      /\ at["owner"] = "join" => at'["owner"] = IF errand = "spawn" THEN "failed" ELSE "gone"
      /\ at["owner"] # "join" => at'["owner"] # "failed"
  <2>1. CASE UNCHANGED at /\ at["owner"] = "ready"
    BY <2>1, <1>1 DEF PtyInv, OpeningBooks
  <2>2. CASE \E place \in {"swap", "store", "term", "join", "gone", "ready"} :
               Go("owner", place) /\ at["owner"] # "join"
    BY <2>2, GoTo DEF PtyInv, Threads
  <2>3. CASE at["owner"] = "join" /\ Go("owner", IF errand = "spawn" THEN "failed" ELSE "gone")
    BY <2>3, GoTo DEF PtyInv, Threads
  <2>4. WriteInput => UNCHANGED at /\ at["owner"] = "ready"
    OBVIOUS
  <2>5. MarkLost \/ (\E e \in Errands : Cancel(e)) \/ StoreLost \/ Swap =>
          \E place \in {"swap", "store", "term", "join", "gone", "ready"} :
            Go("owner", place) /\ at["owner"] # "join"
    BY <1>1 DEF Errands
  <2> QED
    BY <2>1, <2>2, <2>3, <2>4, <2>5
<1>3. PtyTypeOK'
  <2>1. cancelled' \in BOOLEAN
    BY DEF PtyInv, PtyTypeOK
  <2>2. state' \in {"running", "exited", "lost"} /\ input' \in 0..InputQueue
    BY PtyLimits DEF PtyInv, PtyTypeOK
  <2> QED
    BY <1>1, <1>2, <2>1, <2>2 DEF PtyInv, PtyTypeOK, Killing
<1>4. OpeningBooks'
  BY <1>1, <1>2 DEF PtyInv, OpeningBooks
<1>5. RunningIsWatched'
  BY <1>1, <1>2 DEF PtyInv, RunningIsWatched
<1>6. LockIsHeld'
  BY <1>1, <1>2 DEF PtyInv, LockIsHeld, Threads
<1> QED
  BY <1>3, <1>4, <1>5, <1>6 DEF PtyInv

(* Killing is the same for all three; only the owner has something to lose *)
(* by it: when it was opening, its spawn has failed.                       *)
LEMMA KillStepInv ==
  ASSUME PtyInv, NEW t \in Threads, KillStep(t)
  PROVE  PtyInv'
<1> USE DEF Die, Hang
<1>1. /\ at[t] \in Killing /\ shell # "none"
      /\ UNCHANGED <<cancelled, state, input, chunks, errand>>
      /\ shell' \in {"alive", "zombie", "reaped"} /\ tty' \in {"open", "hung"}
      /\ shell' = "alive" => shell = "alive" /\ at[t] # "reap"
      /\ shell = "reaped" => shell' = "reaped"
  BY DEF KillStep, Terminate, Kill, LockAndKill, Reap, PtyInv, PtyTypeOK, OpeningBooks, Killing, Threads
<1>2. PICK place :
        /\ Go(t, place)
        /\ \/ place \in {"kill", "lock"} /\ at[t] # "reap" /\ UNCHANGED childLock
           \/ at[t] = "lock" /\ place = "reap" /\ t # "reader" /\ childLock = "free" /\ childLock' = t
           \/ at[t] = "lock" /\ place = Killed(t) /\ ~Waits(t) /\ UNCHANGED childLock
           \/ at[t] = "reap" /\ place = (IF t = "reader" THEN "ended" ELSE Killed(t))
              /\ shell' = "reaped" /\ childLock' = "free"
  BY DEF KillStep, Terminate, Kill, LockAndKill, Reap, Waits
<1>3. /\ at' = [u \in Threads |-> at'[u]]
      /\ at'[t] = place /\ \A u \in Threads \ {t} : at'[u] = at[u]
  BY <1>2, GoTo DEF PtyInv
<1>4. CASE t = "owner"
  <2>1. /\ place \in {"kill", "lock", "reap", "failed", "join", "ready", "gone"}
        /\ place = "failed" => at[t] = "reap" /\ errand = "spawn"
        /\ place = "join" /\ errand = "spawn" => at[t] = "reap"
        /\ place \in {"ready", "gone"} => errand # "spawn"
        /\ at[t] = "reap" => shell' = "reaped"
    BY <1>2, <1>4 DEF Killed, Waits, PtyInv, PtyTypeOK, Errands
  <2>2. at'["writer"] = at["writer"] /\ at'["reader"] = at["reader"] /\ at'["owner"] = place
    BY <1>3, <1>4 DEF Threads
  <2>3. OpeningBooks' /\ RunningIsWatched'
    BY <1>1, <1>3, <2>1, <2>2 DEF PtyInv, OpeningBooks, RunningIsWatched
  <2>4. PtyTypeOK'
    BY <1>1, <1>2, <1>4, <2>1, <2>2 DEF PtyInv, PtyTypeOK, Killing, Threads
  <2>5. LockIsHeld'
    BY <1>2, <1>4, <2>1, <2>2 DEF PtyInv, LockIsHeld, Threads, Killed
  <2> QED
    BY <2>3, <2>4, <2>5 DEF PtyInv
<1>5. CASE t = "writer"
  <2>1. place \in {"kill", "lock", "reap", "ended"} /\ (place = "ended" => at[t] = "reap")
    BY <1>2, <1>5 DEF Killed, Waits
  <2>2. at'["owner"] = at["owner"] /\ at'["reader"] = at["reader"] /\ at'["writer"] = place
    BY <1>3, <1>5 DEF Threads
  <2>3. OpeningBooks' /\ RunningIsWatched'
    BY <1>1, <1>3, <1>5, <2>1, <2>2 DEF PtyInv, OpeningBooks, RunningIsWatched, Killing
  <2>4. PtyTypeOK'
    BY <1>1, <1>2, <1>5, <2>1, <2>2 DEF PtyInv, PtyTypeOK, Killing, Threads
  <2>5. LockIsHeld'
    BY <1>2, <1>5, <2>1, <2>2 DEF PtyInv, LockIsHeld, Threads, Killed
  <2> QED
    BY <2>3, <2>4, <2>5 DEF PtyInv
<1>6. CASE t = "reader"
  <2>1. /\ place \in {"kill", "lock", "tail", "ended"} /\ (place = "ended" <=> at[t] = "reap")
        /\ place = "tail" => at[t] = "lock"
    BY <1>2, <1>6 DEF Killed, Waits
  <2>2. at'["owner"] = at["owner"] /\ at'["writer"] = at["writer"] /\ at'["reader"] = place
    BY <1>3, <1>6 DEF Threads
  <2>3. OpeningBooks' /\ RunningIsWatched'
    BY <1>1, <1>3, <1>6, <2>1, <2>2 DEF PtyInv, OpeningBooks, RunningIsWatched, Killing
  <2>4. PtyTypeOK'
    BY <1>1, <1>2, <1>6, <2>1, <2>2 DEF PtyInv, PtyTypeOK, Killing, Threads
  <2>5. LockIsHeld'
    BY <1>2, <1>6, <2>1, <2>2 DEF PtyInv, LockIsHeld, Threads, Killed
  <2> QED
    BY <2>3, <2>4, <2>5 DEF PtyInv
<1> QED
  BY <1>4, <1>5, <1>6 DEF Threads

LEMMA PtyStepInv == PtyInv /\ [PtyNext]_ptyVars => PtyInv'
<1> SUFFICES ASSUME PtyInv, [PtyNext]_ptyVars PROVE PtyInv'
  OBVIOUS
<1>1. ASSUME ShellExits \/ SlaveCloses \/ UNCHANGED ptyVars PROVE PtyInv'
  <2>1. /\ UNCHANGED <<state, childLock, input, chunks, at, errand>>
        /\ shell' \in {shell, "zombie"} /\ (shell' # shell => shell = "alive")
        /\ tty' \in {tty, "hung"} /\ cancelled' = cancelled
    BY <1>1 DEF ShellExits, SlaveCloses, Hang, ptyVars
  <2>2. PtyTypeOK' /\ RunningIsWatched' /\ LockIsHeld'
    BY <2>1 DEF PtyInv, PtyTypeOK, RunningIsWatched, LockIsHeld
  <2>3. OpeningBooks'
    BY <2>1 DEF PtyInv, OpeningBooks
  <2> QED
    BY <2>2, <2>3 DEF PtyInv
<1> QED
  BY <1>1, OpeningStepInv, OwnerStepInv, WriterStepInv, ReaderStepInv, KillStepInv
     DEF PtyNext, OwnerStep, WriterStep, ReaderStep, Threads

-----------------------------------------------------------------------------
(* What the pane is shown, and what is left of the shell, under the        *)
(* mapping of Promise.                                                     *)
Status == IF at["owner"] = "failed" THEN "failed" ELSE IF Opening THEN "opening" ELSE state
Remains == CASE shell = "none" -> "none" [] shell = "alive" -> "alive" [] OTHER -> "dead"

LEMMA InitPromise == PtyInit => Promise!Init
BY DEF PtyInit, Promise!Init, Opening, Threads

(* A session that could not be opened stays so, and an opening one is not  *)
(* shown to run before its reader does.                                    *)
LEMMA StatusMoves ==
  ASSUME PtyInv, PtyInv'
  PROVE  /\ at["owner"] = "failed" => Status = "failed"
         /\ at["owner"] # "failed" /\ errand = "spawn" => Status = "opening"
         /\ errand # "spawn" => Status = state
         /\ at'["owner"] = "failed" => Status' = "failed"
         /\ at'["owner"] # "failed" /\ errand' = "spawn" => Status' = "opening"
         /\ errand' # "spawn" => Status' = state'
BY DEF PtyInv, OpeningBooks, Status, Opening

LEMMA PromisedMoves ==
  ASSUME \/ Status' = Status /\ Remains' = Remains
         \/ Status = "opening" /\ Status' = "opening" /\ Remains = "none" /\ Remains' = "alive"
         \/ Status = "opening" /\ Status' = "failed" /\ Remains # "alive" /\ Remains' = Remains
         \/ /\ Status = "opening" /\ Status' \in {"running", "exited", "lost"}
            /\ Remains # "none" /\ Remains' = Remains
         \/ Status' = Status /\ Remains = "alive" /\ Remains' = "dead"
         \/ /\ Status \in {"running", "exited", "lost"} /\ Status' \in {"exited", "lost"}
            /\ Remains' = Remains
  PROVE  [Promise!Next]_Promise!vars
BY DEF Status, Remains, Promise!Next, Promise!vars, Promise!Start, Promise!Open, Promise!Fail,
   Promise!Die, Promise!End, Promise!Restate, Promise!Ended

LEMMA KillPromise ==
  ASSUME PtyInv, PtyInv', NEW t \in Threads, KillStep(t)
  PROVE  [Promise!Next]_Promise!vars
<1>1. /\ UNCHANGED <<state, errand>> /\ shell # "none"
      /\ shell' = shell \/ (shell = "zombie" /\ shell' = "reaped") \/ (shell = "alive" /\ shell' = "zombie")
  <2>1. at[t] \in Killing
    BY DEF KillStep, Terminate, Kill, LockAndKill, Reap, Killing
  <2>2. shell # "none"
    BY <2>1 DEF PtyInv, OpeningBooks, Killing, Threads
  <2>3. UNCHANGED <<state, errand>>
    BY DEF KillStep, Terminate, Kill, LockAndKill, Reap
  <2>4. shell' \in {shell, Die} \/ (shell # "alive" /\ shell' = "reaped")
    BY DEF KillStep, Terminate, Kill, LockAndKill, Reap
  <2> QED
    BY <2>2, <2>3, <2>4 DEF Die, PtyInv, PtyTypeOK
<1>2. PICK place : Go(t, place) /\ (place = "failed" => t = "owner" /\ at[t] = "reap")
  <2>1. Terminate(t) \/ Kill(t) => \E place \in {"kill", "lock"} : Go(t, place)
    BY DEF Terminate, Kill
  <2>2. LockAndKill(t) => Go(t, "reap") \/ (Go(t, Killed(t)) /\ ~Waits(t))
    BY DEF LockAndKill
  <2>3. ~Waits(t) => Killed(t) # "failed"
    BY DEF Killed, Waits, Threads
  <2>4. Reap(t) => at[t] = "reap" /\ Go(t, IF t = "reader" THEN "ended" ELSE Killed(t))
    BY DEF Reap
  <2>5. t \in {"reader", "writer"} => (IF t = "reader" THEN "ended" ELSE Killed(t)) # "failed"
    BY DEF Killed
  <2> QED
    BY <2>1, <2>2, <2>3, <2>4, <2>5 DEF KillStep, Threads
<1>3. at'[t] = place /\ \A u \in Threads \ {t} : at'[u] = at[u]
  BY <1>2, GoTo DEF PtyInv
<1>4. Remains' = Remains \/ (shell = "alive" /\ Remains = "alive" /\ Remains' = "dead")
  BY <1>1 DEF Remains
<1>5. CASE at["owner"] = "failed"
  <2>1. t # "owner" /\ shell # "alive"
    BY <1>5 DEF KillStep, Terminate, Kill, LockAndKill, Reap, PtyInv, OpeningBooks
  <2> QED
    BY <1>3, <1>4, <1>5, <2>1, StatusMoves, PromisedMoves DEF Threads
<1>6. CASE at["owner"] # "failed" /\ at'["owner"] = "failed"
  <2>1. t = "owner" /\ at[t] = "reap"
    BY <1>2, <1>3, <1>6 DEF Threads
  <2>2. errand' = "spawn"
    BY <1>6 DEF PtyInv, OpeningBooks
  <2>3. shell # "alive"
    BY <2>1 DEF KillStep, Terminate, Kill, LockAndKill, Reap
  <2>4. Remains # "alive"
    BY <2>3 DEF Remains
  <2> QED
    BY <1>1, <1>4, <1>6, <2>2, <2>3, <2>4, StatusMoves, PromisedMoves
<1>7. CASE at["owner"] # "failed" /\ at'["owner"] # "failed"
  <2>1. Status' = Status
    BY <1>1, <1>7, StatusMoves
  <2> QED
    BY <1>4, <2>1, PromisedMoves
<1> QED
  BY <1>5, <1>6, <1>7

LEMMA OwnerPromise ==
  ASSUME PtyInv, PtyInv', Attach \/ TakeHandles \/ SpawnWriter \/ SpawnReader \/ Swap \/ StoreLost \/ Join
                          \/ OwnerAsks
  PROVE  [Promise!Next]_Promise!vars
<1>1. shell' = shell /\ at["owner"] # "failed" /\ shell # "none"
  BY DEF Attach, TakeHandles, SpawnWriter, SpawnReader, Swap, StoreLost, Join, OwnerAsks, WriteInput, MarkLost,
     Cancel, PtyInv, OpeningBooks
<1>2. Remains' = Remains /\ Remains # "none"
  BY <1>1 DEF Remains, PtyInv, PtyTypeOK
<1>3. CASE Attach \/ TakeHandles \/ SpawnWriter \/ SpawnReader
  <2>1. /\ errand = "spawn" /\ at'["owner"] # "failed" /\ state' = state
        /\ errand' \in {"spawn", "none"}
    BY <1>3 DEF Attach, TakeHandles, SpawnWriter, SpawnReader, PtyInv, OpeningBooks, Go, Threads
  <2> QED
    BY <1>1, <1>2, <2>1, StatusMoves, PromisedMoves DEF PtyInv, PtyTypeOK
<1>4. CASE Join
  <2>1. /\ errand' = errand /\ state' = state
        /\ at'["owner"] = "failed" => errand = "spawn" /\ shell = "reaped"
        /\ errand = "spawn" => at'["owner"] = "failed"
    BY <1>4, GoTo DEF Join, PtyInv, OpeningBooks, Threads
  <2>2. shell = "reaped" => Remains # "alive"
    BY DEF Remains
  <2> QED
    BY <1>1, <1>2, <2>1, <2>2, StatusMoves, PromisedMoves
<1>5. CASE Swap \/ StoreLost \/ OwnerAsks
  <2>1. /\ errand # "spawn" /\ errand' # "spawn"
        /\ state' \in {state, "exited", "lost"} /\ state \in {"running", "exited", "lost"}
    BY <1>5 DEF Swap, StoreLost, OwnerAsks, WriteInput, MarkLost, Cancel, PtyInv, PtyTypeOK, OpeningBooks
  <2> QED
    BY <1>1, <1>2, <2>1, StatusMoves, PromisedMoves
<1> QED
  BY <1>3, <1>4, <1>5

LEMMA ThreadPromise ==
  ASSUME PtyInv, PtyInv',
         \/ WriterChecks \/ WriterReceives \/ WriterWrites \/ WriteFails \/ WriterStoresExited
         \/ ReaderChecks \/ ReadChunk \/ ReadEnds \/ ReaderCancels \/ ReaderLoads \/ ReaderStores \/ ReaderLocks
  PROVE  [Promise!Next]_Promise!vars
<1>1. PICK t \in {"writer", "reader"} : \E place : Go(t, place)
  BY DEF WriterChecks, WriterReceives, WriterWrites, WriteFails, WriterStoresExited,
     ReaderChecks, ReadChunk, ReadEnds, ReaderCancels, ReaderLoads, ReaderStores, ReaderLocks
<1>2. at'["owner"] = at["owner"]
  BY <1>1, GoTo DEF PtyInv, Threads
<1>3. UNCHANGED <<shell, errand>> /\ state' \in {state, "exited"} /\ state \in {"running", "exited", "lost"}
  BY DEF WriterChecks, WriterReceives, WriterWrites, WriteFails, WriterStoresExited,
     ReaderChecks, ReadChunk, ReadEnds, ReaderCancels, ReaderLoads, ReaderStores, ReaderLocks,
     PtyInv, PtyTypeOK
<1>4. Remains' = Remains
  BY <1>3 DEF Remains
<1> QED
  BY <1>2, <1>3, <1>4, StatusMoves, PromisedMoves

LEMMA StepPromise == PtyInv /\ PtyInv' /\ [PtyNext]_ptyVars => [Promise!Next]_Promise!vars
<1> SUFFICES ASSUME PtyInv, PtyInv', [PtyNext]_ptyVars PROVE [Promise!Next]_Promise!vars
  OBVIOUS
<1>1. ASSUME SpawnShell PROVE [Promise!Next]_Promise!vars
  <2>1. /\ at["owner"] = "start" /\ errand = "spawn" /\ errand' = "spawn" /\ shell = "none"
        /\ \/ at'["owner"] = "attach" /\ shell' = "alive"
           \/ at'["owner"] = "failed" /\ shell' = "none"
    BY <1>1, GoTo DEF SpawnShell, PtyInv, OpeningBooks, Threads
  <2>2. Remains = "none" /\ Remains' = shell'
    BY <2>1 DEF Remains
  <2> QED
    BY <2>1, <2>2, StatusMoves, PromisedMoves
<1>2. ASSUME ShellExits \/ SlaveCloses \/ UNCHANGED ptyVars PROVE [Promise!Next]_Promise!vars
  <2>1. UNCHANGED <<at, errand, state>> /\ (shell' = shell \/ (shell = "alive" /\ shell' = "zombie"))
    BY <1>2 DEF ShellExits, SlaveCloses, Hang, ptyVars
  <2>2. Remains' = Remains \/ (Remains = "alive" /\ Remains' = "dead")
    BY <2>1 DEF Remains
  <2>3. Status' = Status
    BY <2>1 DEF Status, Opening
  <2> QED
    BY <2>2, <2>3, PromisedMoves
<1> QED
  BY <1>1, <1>2, KillPromise, OwnerPromise, ThreadPromise
     DEF PtyNext, OwnerStep, WriterStep, ReaderStep, Threads

-----------------------------------------------------------------------------
(* One request of either kind moves its own part and leaves the other.     *)
LEMMA PartStep ==
  [AuthorityNext]_<<authorityVars, ptyVars, execVars>> => [ExecNext]_execVars /\ [PtyNext]_ptyVars
BY DEF AuthorityNext

LEMMA AuthorityInvariant == AuthoritySpec => [](ExecInv /\ PtyInv)
<1>1. AuthorityInit /\ PtyInit /\ ExecInit => ExecInv /\ PtyInv
  BY ExecInitInv, PtyInitInv
<1>2. ExecInv /\ PtyInv /\ [AuthorityNext]_<<authorityVars, ptyVars, execVars>> => ExecInv' /\ PtyInv'
  BY PartStep, ExecStepInv, PtyStepInv
<1> QED
  BY <1>1, <1>2, PTL DEF AuthoritySpec, LocalInit

(* However exit, time limit, cancellation and errors raced, and whatever   *)
(* was forked meanwhile, a command that returned left nothing of its group *)
(* behind (ProcessTree::terminate, cleanup_descendants).                   *)
THEOREM ReturnsLeaveNoGroup == AuthoritySpec => []ReturnLeavesNoGroup
BY AuthorityInvariant, PTL DEF ExecInv

(* A result has exactly what was written up to the limit, for every limit  *)
(* and every way the output is cut into reads (read_bounded).              *)
THEOREM ResultsAreWhole == AuthoritySpec => []OkIsWholeOutput
<1>1. ExecInv => OkIsWholeOutput
  BY DEF ExecInv, CallBooks, PipeBooks, OkIsWholeOutput
<1> QED
  BY <1>1, AuthorityInvariant, PTL

(* A session shown as running has a reader that will notice its end, and   *)
(* only the thread that waits for the child holds its mutex.               *)
THEOREM SessionsAreWatched == AuthoritySpec => [](RunningIsWatched /\ LockIsHeld)
BY AuthorityInvariant, PTL DEF PtyInv

(* The three threads of a local session implement ShellSession: what the   *)
(* pane is shown never goes back from an end, and an opening that failed   *)
(* left no shell.                                                          *)
THEOREM SessionsKeepThePromise == AuthoritySpec => PtyAsPromised
<1>1. PtyInv /\ PtyInv' /\ [AuthorityNext]_<<authorityVars, ptyVars, execVars>>
        => [Promise!Next]_Promise!vars
  BY PartStep, StepPromise
<1>2. AuthoritySpec => Promise!Init /\ [][Promise!Next]_Promise!vars
  BY <1>1, InitPromise, AuthorityInvariant, PTL DEF AuthoritySpec, LocalInit
<1> QED
  BY <1>2 DEF PtyAsPromised, Promise!Spec
=============================================================================
