--------------------------- MODULE JournalProofs ---------------------------
(* The safety of Journal, for every set of documents, every queue length   *)
(* and every value of the bounds.                                          *)
EXTENDS Journal, TLAPS

-----------------------------------------------------------------------------
LEMMA ConstantFacts == None \in Int /\ None < 0 /\ QueueCap \in Nat \ {0}
                       /\ MaxFaults \in Nat /\ MaxRestarts \in Nat
BY QueueCapAssumption, BoundsAssumption DEF None

(* What a queue operation does to the elements.                            *)
LEMMA AppendElements ==
  ASSUME NEW S, NEW q \in Seq(S), NEW c \in S
  PROVE  /\ Append(q, c) \in Seq(S)
         /\ Len(q) \in Nat
         /\ Len(Append(q, c)) = Len(q) + 1
         /\ \A i \in 1..Len(q) : Append(q, c)[i] = q[i]
         /\ Append(q, c)[Len(q) + 1] = c
OBVIOUS

LEMMA TailElements ==
  ASSUME NEW S, NEW q \in Seq(S), q # <<>>
  PROVE  /\ Tail(q) \in Seq(S)
         /\ Head(q) \in S
         /\ Head(q) = q[1]
         /\ Len(q) \in Nat \ {0}
         /\ Len(Tail(q)) = Len(q) - 1
         /\ \A i \in 1..Len(Tail(q)) : Tail(q)[i] = q[i + 1]
OBVIOUS

LEMMA SendElements ==
  ASSUME ChannelType, NEW c \in Command, Send(c)
  PROVE  /\ queue' \in Seq(Command)
         /\ Len(queue') <= QueueCap
         /\ Len(queue) \in Nat
         /\ Len(queue') = Len(queue) + 1
         /\ \A i \in 1..Len(queue) : queue'[i] = queue[i]
         /\ queue'[Len(queue) + 1] = c
BY AppendElements, ConstantFacts DEF ChannelType, Send, HasRoom

LEMMA CommandFacts ==
  /\ Flush \in Command
  /\ Idle \in [cmd : Command, was : MaybeRevision, busy : BOOLEAN]
  /\ \A d \in Docs, r \in Revision :
       Checkpoint(d, r) \in Command /\ AckSave(d, r) \in Command
  /\ \A c \in Command : 
       /\ c.op \in {"Checkpoint", "AckSave", "Flush"}
       /\ c.op # "Flush" => c.doc \in Docs /\ c.rev \in Revision
  /\ \A c \in Command, r \in MaybeRevision :
       Working(c, r) \in [cmd : Command, was : MaybeRevision, busy : BOOLEAN]
BY DEF Flush, Command, DocCommand, Idle, Checkpoint, AckSave, Working, MaybeRevision, None

-----------------------------------------------------------------------------
(* Type correctness.                                                       *)
THEOREM TypeCorrect == Spec => []TypeOK
<1> USE ConstantFacts, CommandFacts
    DEF AppType, ChannelType, WorkerType, FileType, HistoryType, Mode, Revision,
        MaybeRevision, Ack, RetryKinds, app, worker, files, counters
<1>1. Init => TypeOK
  <2> SUFFICES ASSUME Init PROVE TypeOK
    OBVIOUS
  <2>1. checkpointed \in [Docs -> MaybeRevision]
    <3>1. {None, 0} \subseteq MaybeRevision
      OBVIOUS
    <3>2. checkpointed \in [Docs -> {None, 0}]
      BY DEF Init
    <3> HIDE DEF MaybeRevision
    <3> QED
      BY <3>1, <3>2
  <2>2. AppType /\ ChannelType
    BY <2>1 DEF Init
  <2>3. WorkerType /\ FileType /\ HistoryType
    BY <2>1 DEF Init
  <2> QED
    BY <2>2, <2>3 DEF TypeOK
<1>2. TypeOK /\ [Next]_vars => TypeOK'
  <2> SUFFICES ASSUME TypeOK, [Next]_vars PROVE TypeOK'
    OBVIOUS
  <2> USE DEF TypeOK
  <2>1. ASSUME NEW d \in Docs, Edit(d) PROVE TypeOK'
    <3>1. Checkpoint(d, revision[d] + 1) \in Command
      BY <2>1 DEF Edit, UiReady, Newer
    <3>2. ChannelType'
      BY <2>1, <3>1, SendElements DEF Edit, UiReady, Newer
    <3>3. AppType'
      <4> DEFINE next == revision[d] + 1
      <4>0. next \in Nat
        <5>1. revision[d] \in Nat
          OBVIOUS
        <5> QED
          BY ONLY <5>1
      <4>1. revision' \in [Docs -> Revision]
        <5>1. revision' = [revision EXCEPT ![d] = next]
          BY <2>1 DEF Edit
        <5> QED
          BY <4>0, <5>1
      <4>2. dirty' \in [Docs -> BOOLEAN]
        BY <2>1 DEF Edit, UiReady, Newer
      <4>3. checkpointed' \in [Docs -> MaybeRevision]
        BY <2>1 DEF Edit, UiReady, Newer
      <4>4. pendingCheckpoints' \in [Docs -> MaybeRevision]
        <5>1. \/ pendingCheckpoints' = pendingCheckpoints
              \/ pendingCheckpoints' = [pendingCheckpoints EXCEPT
                                          ![d] = Newer(pendingCheckpoints[d], next)]
          BY <2>1 DEF Edit
        <5>2. Newer(pendingCheckpoints[d], next) \in MaybeRevision
          BY <4>0 DEF Newer
        <5> QED
          BY <5>1, <5>2
      <4>5. pendingCompactions' \in [Docs -> MaybeRevision]
        BY <2>1 DEF Edit, UiReady, Newer
      <4>6. retrying' \in SUBSET (RetryKinds \X Docs)
        BY <2>1 DEF Edit, UiReady, Newer
      <4> QED
        BY <4>1, <4>2, <4>3, <4>4, <4>5, <4>6
    <3>4. WorkerType' /\ FileType' /\ HistoryType'
      BY <2>1 DEF Edit, UiReady, Newer
    <3> QED
      BY <3>1, <3>2, <3>3, <3>4
  <2>2. ASSUME NEW d \in Docs, SaveCompleted(d) PROVE TypeOK'
    <3>1. AckSave(d, revision[d]) \in Command
      BY <2>2 DEF SaveCompleted, UiReady, Newer
    <3>2. ChannelType'
      BY <2>2, <3>1, SendElements DEF SaveCompleted, UiReady, Newer
    <3>3. AppType'
      <4>1. revision' \in [Docs -> Revision]
        BY <2>2 DEF SaveCompleted, UiReady, Newer
      <4>2. dirty' \in [Docs -> BOOLEAN]
        BY <2>2 DEF SaveCompleted, UiReady, Newer
      <4>3. checkpointed' \in [Docs -> MaybeRevision]
        BY <2>2 DEF SaveCompleted, UiReady, Newer
      <4>4. pendingCheckpoints' \in [Docs -> MaybeRevision]
        BY <2>2 DEF SaveCompleted, UiReady, Newer
      <4>5. pendingCompactions' \in [Docs -> MaybeRevision]
        BY <2>2 DEF SaveCompleted, UiReady, Newer
      <4>6. retrying' \in SUBSET (RetryKinds \X Docs)
        BY <2>2 DEF SaveCompleted, UiReady, Newer
      <4> QED
        BY <4>1, <4>2, <4>3, <4>4, <4>5, <4>6
    <3>4. WorkerType' /\ FileType' /\ HistoryType'
      BY <2>2 DEF SaveCompleted, UiReady, Newer
    <3> QED
      BY <3>1, <3>2, <3>3, <3>4
  <2>3. CASE ApplyJournalAck
    BY <2>3, TailElements DEF ApplyJournalAck, UiReady, Releases
  <2>4. CASE Tick
    BY <2>4 DEF Tick, UiReady
  <2>5. ASSUME NEW d \in Docs, RetryCheckpoint(d) PROVE TypeOK'
    <3>1. pendingCheckpoints[d] # None => Checkpoint(d, pendingCheckpoints[d]) \in Command
      BY DEF TypeOK
    <3>2. ChannelType'
      BY <2>5, <3>1, SendElements DEF RetryCheckpoint, HandOverCheckpoint
    <3>3. AppType'
      BY <2>5 DEF RetryCheckpoint, HandOverCheckpoint
    <3>4. WorkerType' /\ FileType' /\ HistoryType'
      BY <2>5 DEF RetryCheckpoint, HandOverCheckpoint
    <3> QED
      BY <3>1, <3>2, <3>3, <3>4
  <2>6. ASSUME NEW d \in Docs, RetryCompaction(d) PROVE TypeOK'
    <3>1. pendingCompactions[d] # None => AckSave(d, pendingCompactions[d]) \in Command
      BY DEF TypeOK
    <3>2. ChannelType'
      BY <2>6, <3>1, SendElements DEF RetryCompaction, HandOverCompaction
    <3>3. AppType'
      BY <2>6 DEF RetryCompaction, HandOverCompaction
    <3>4. WorkerType' /\ FileType' /\ HistoryType'
      BY <2>6 DEF RetryCompaction, HandOverCompaction
    <3> QED
      BY <3>1, <3>2, <3>3, <3>4
  <2>7. ASSUME NEW d \in Docs, SubmitCheckpoint(d) PROVE TypeOK'
    <3>1. pendingCheckpoints[d] # None => Checkpoint(d, pendingCheckpoints[d]) \in Command
      BY DEF TypeOK
    <3>2. ChannelType'
      BY <2>7, <3>1, SendElements DEF SubmitCheckpoint, HandOverCheckpoint
    <3>3. AppType'
      BY <2>7 DEF SubmitCheckpoint, HandOverCheckpoint
    <3>4. WorkerType' /\ FileType' /\ HistoryType'
      BY <2>7 DEF SubmitCheckpoint, HandOverCheckpoint
    <3> QED
      BY <3>1, <3>2, <3>3, <3>4
  <2>8. ASSUME NEW d \in Docs, SubmitCompaction(d) PROVE TypeOK'
    <3>1. pendingCompactions[d] # None => AckSave(d, pendingCompactions[d]) \in Command
      BY DEF TypeOK
    <3>2. ChannelType'
      BY <2>8, <3>1, SendElements DEF SubmitCompaction, HandOverCompaction
    <3>3. AppType'
      BY <2>8 DEF SubmitCompaction, HandOverCompaction
    <3>4. WorkerType' /\ FileType' /\ HistoryType'
      BY <2>8 DEF SubmitCompaction, HandOverCompaction
    <3> QED
      BY <3>1, <3>2, <3>3, <3>4
  <2>9. CASE BeginShutdown \/ Panic
    BY <2>9 DEF BeginShutdown, Panic, UiReady
  <2>10. CASE SaveState
    <3>1. stateRevision' \in [Docs -> MaybeRevision]
      BY <2>10 DEF SaveState
    <3>2. AppType' /\ ChannelType' /\ WorkerType'
      BY <2>10 DEF SaveState
    <3>3. FileType' /\ HistoryType'
      BY <2>10, <3>1 DEF SaveState
    <3> QED
      BY <3>1, <3>2, <3>3
  <2>11. CASE Exit
    BY <2>11 DEF Exit
  <2>12. CASE SendFlush
    BY <2>12, SendElements DEF SendFlush
  <2>13. CASE RecvCheckpoint
    <3>1. Head(queue) \in Command /\ ChannelType'
      BY <2>13, TailElements DEF RecvCheckpoint
    <3>2. held' \in [Docs -> MaybeRevision]
      BY <2>13, <3>1 DEF RecvCheckpoint, With
    <3>3. work' \in [cmd : Command, was : MaybeRevision, busy : BOOLEAN]
      BY <2>13, <3>1 DEF RecvCheckpoint
    <3>4. AppType' /\ FileType' /\ HistoryType'
      BY <2>13 DEF RecvCheckpoint
    <3> QED
      BY <3>1, <3>2, <3>3, <3>4
  <2>14. CASE RecvAckSave
    <3>1. Head(queue) \in Command /\ ChannelType'
      BY <2>14, TailElements DEF RecvAckSave
    <3>2. held' \in [Docs -> MaybeRevision]
      BY <2>14, <3>1 DEF RecvAckSave, Without
    <3>3. Head(queue).op = "AckSave" => held[Head(queue).doc] \in MaybeRevision
      BY <3>1
    <3>4. work' = work \/ work' = Working(Head(queue), held[Head(queue).doc])
      BY <2>14 DEF RecvAckSave
    <3>6. work' \in [cmd : Command, was : MaybeRevision, busy : BOOLEAN]
      <4>1. held[Head(queue).doc] \in MaybeRevision
        BY <2>14, <3>3 DEF RecvAckSave
      <4> HIDE DEF MaybeRevision
      <4> QED
        BY <3>1, <3>4, <4>1, CommandFacts
    <3>5. AppType' /\ FileType' /\ HistoryType'
      BY <2>14 DEF RecvAckSave
    <3> QED
      BY <3>1, <3>2, <3>5, <3>6
  <2>15. CASE RecvFlush
    <3>1. Head(queue) \in Command /\ ChannelType'
      BY <2>15, TailElements DEF RecvFlush
    <3>2. work' \in [cmd : Command, was : MaybeRevision, busy : BOOLEAN]
      BY <2>15, <3>1 DEF RecvFlush
    <3>3. AppType' /\ held' \in [Docs -> MaybeRevision] /\ FileType' /\ HistoryType'
      BY <2>15 DEF RecvFlush
    <3> QED
      BY <3>1, <3>2, <3>3
  <2>16. CASE PersistSucceeds
    <3>1. work.cmd.op = "Checkpoint" => [doc |-> work.cmd.doc, rev |-> work.cmd.rev] \in Ack
      BY DEF TypeOK
    <3>2. queue' \in Seq(Command) /\ Len(queue') <= QueueCap
      BY <2>16 DEF PersistSucceeds
    <3>5. acks' \in Seq(Ack)
      <4>1. CASE work.cmd.op = "Checkpoint"
        <5>1. acks' = Append(acks, [doc |-> work.cmd.doc, rev |-> work.cmd.rev])
          BY <2>16, <4>1 DEF PersistSucceeds
        <5> QED
          BY <3>1, <4>1, <5>1, AppendElements
      <4>2. CASE work.cmd.op # "Checkpoint"
        BY <2>16, <4>2 DEF PersistSucceeds
      <4> QED
        BY <4>1, <4>2
    <3>3. AppType' /\ WorkerType' /\ FileType'
      BY <2>16 DEF PersistSucceeds
    <3>4. HistoryType'
      BY <2>16 DEF PersistSucceeds, ModeAfterPersist
    <3> QED
      BY <3>2, <3>3, <3>4, <3>5
  <2>17. CASE PersistFails
    <3>1. held' \in [Docs -> MaybeRevision]
      BY <2>17 DEF PersistFails
    <3>2. AppType' /\ ChannelType' /\ FileType'
      BY <2>17, <3>1 DEF PersistFails
    <3>3. WorkerType'
      BY <2>17, <3>1 DEF PersistFails
    <3>4. mode' \in Mode
      BY <2>17 DEF PersistFails, ModeAfterPersist
    <3>5. faults' \in 0..MaxFaults
      BY <2>17 DEF PersistFails
    <3>6. HistoryType'
      BY <2>17, <3>4, <3>5 DEF PersistFails
    <3> QED
      BY <3>2, <3>3, <3>6
  <2>18. CASE Crash
    <3>1. revision' \in [Docs -> Revision]
      BY <2>18 DEF Crash, ForgetVolatile
    <3>2. dirty' \in [Docs -> BOOLEAN]
      BY <2>18 DEF Crash, ForgetVolatile
    <3>3. checkpointed' \in [Docs -> MaybeRevision]
      BY <2>18 DEF Crash, ForgetVolatile
    <3>4. pendingCheckpoints' \in [Docs -> MaybeRevision]
      BY <2>18 DEF Crash, ForgetVolatile
    <3>5. pendingCompactions' \in [Docs -> MaybeRevision]
      BY <2>18 DEF Crash, ForgetVolatile
    <3>6. retrying' \in SUBSET (RetryKinds \X Docs)
      BY <2>18 DEF Crash, ForgetVolatile
    <3>7. queue' \in Seq(Command) /\ Len(queue') <= QueueCap
      BY <2>18 DEF Crash, ForgetVolatile
    <3>8. acks' \in Seq(Ack)
      BY <2>18 DEF Crash, ForgetVolatile
    <3>9. held' \in [Docs -> MaybeRevision]
      BY <2>18 DEF Crash, ForgetVolatile
    <3>10. work' \in [cmd : Command, was : MaybeRevision, busy : BOOLEAN]
      BY <2>18 DEF Crash, ForgetVolatile
    <3>11. journal' \in [Docs -> MaybeRevision]
      BY <2>18 DEF Crash, ForgetVolatile
    <3>12. stateRevision' \in [Docs -> MaybeRevision]
      BY <2>18 DEF Crash, ForgetVolatile
    <3>13. saved' \in [Docs -> MaybeRevision]
      BY <2>18 DEF Crash, ForgetVolatile
    <3>14. HistoryType'
      BY <2>18 DEF Crash, ForgetVolatile
    <3> QED
      BY <3>1, <3>2, <3>3, <3>4, <3>5, <3>6, <3>7, <3>8, <3>9,
         <3>10, <3>11, <3>12, <3>13, <3>14
  <2>19. CASE Restart
    <3>1. revision' \in [Docs -> Revision]
      BY <2>19 DEF Restart, ForgetVolatile, RestoredRevision, InitialHeld
    <3>2. dirty' \in [Docs -> BOOLEAN]
      BY <2>19 DEF Restart, ForgetVolatile, RestoredRevision, InitialHeld
    <3>3. checkpointed' \in [Docs -> MaybeRevision]
      BY <2>19 DEF Restart, ForgetVolatile, RestoredRevision, InitialHeld
    <3>4. pendingCheckpoints' \in [Docs -> MaybeRevision]
      BY <2>19 DEF Restart, ForgetVolatile, RestoredRevision, InitialHeld
    <3>5. pendingCompactions' \in [Docs -> MaybeRevision]
      BY <2>19 DEF Restart, ForgetVolatile, RestoredRevision, InitialHeld
    <3>6. retrying' \in SUBSET (RetryKinds \X Docs)
      BY <2>19 DEF Restart, ForgetVolatile, RestoredRevision, InitialHeld
    <3>7. queue' \in Seq(Command) /\ Len(queue') <= QueueCap
      BY <2>19 DEF Restart, ForgetVolatile, RestoredRevision, InitialHeld
    <3>8. acks' \in Seq(Ack)
      BY <2>19 DEF Restart, ForgetVolatile, RestoredRevision, InitialHeld
    <3>9. held' \in [Docs -> MaybeRevision]
      BY <2>19 DEF Restart, ForgetVolatile, RestoredRevision, InitialHeld
    <3>10. work' \in [cmd : Command, was : MaybeRevision, busy : BOOLEAN]
      BY <2>19 DEF Restart, ForgetVolatile, RestoredRevision, InitialHeld
    <3>11. journal' \in [Docs -> MaybeRevision]
      BY <2>19 DEF Restart, ForgetVolatile, RestoredRevision, InitialHeld
    <3>12. stateRevision' \in [Docs -> MaybeRevision]
      BY <2>19 DEF Restart, ForgetVolatile, RestoredRevision, InitialHeld
    <3>13. saved' \in [Docs -> MaybeRevision]
      BY <2>19 DEF Restart, ForgetVolatile, RestoredRevision, InitialHeld
    <3>14. HistoryType'
      BY <2>19 DEF Restart, ForgetVolatile, RestoredRevision, InitialHeld
    <3> QED
      BY <3>1, <3>2, <3>3, <3>4, <3>5, <3>6, <3>7, <3>8, <3>9,
         <3>10, <3>11, <3>12, <3>13, <3>14
  <2>20. CASE Stopped \/ UNCHANGED vars
    BY <2>20 DEF Stopped, vars
  <2> QED
    BY <2>1, <2>2, <2>3, <2>4, <2>5, <2>6, <2>7, <2>8, <2>9, <2>10, <2>11,
       <2>12, <2>13, <2>14, <2>15, <2>16, <2>17, <2>18, <2>19, <2>20
    DEF Next, UserStep, RetryStep, ShutdownStep, RecvStep, PersistStep
<1> QED
  BY <1>1, <1>2, PTL DEF Spec

-----------------------------------------------------------------------------
(* What Append and Tail do to the three predicates on command sequences.   *)
LEMMA AppendOther ==
  ASSUME NEW q \in Seq(Command), NEW c \in Command, NEW e \in Docs, NEW r \in Int
  PROVE  /\ ~IsCheckpoint(c, e) /\ NoneAbove(q, e, r) => NoneAbove(Append(q, c), e, r)
         /\ ~IsCheckpoint(c, e) /\ AscendingFrom(q, e, r)
              => AscendingFrom(Append(q, c), e, r)
         /\ ~IsCompaction(c, e) /\ CompactsUpTo(q, e, r)
              => CompactsUpTo(Append(q, c), e, r)
BY AppendElements DEF NoneAbove, AscendingFrom, CompactsUpTo

LEMMA AppendCheckpoint ==
  ASSUME NEW q \in Seq(Command), NEW e \in Docs, NEW r \in Nat,
         NEW low \in Int, NEW top \in Int
  PROVE  LET c == Checkpoint(e, r) IN
         /\ NoneAbove(q, e, top) /\ r <= top => NoneAbove(Append(q, c), e, top)
         /\ AscendingFrom(q, e, low) /\ low < r /\ NoneAbove(q, e, r - 1)
              => AscendingFrom(Append(q, c), e, low)
<1> DEFINE c == Checkpoint(e, r)
<1>1. c \in Command /\ c.rev = r
  BY CommandFacts DEF Checkpoint, Revision
<1> HIDE DEF c
<1>2. /\ Len(q) \in Nat
      /\ Len(Append(q, c)) = Len(q) + 1
      /\ \A i \in 1..Len(q) : Append(q, c)[i] = q[i]
      /\ Append(q, c)[Len(q) + 1] = c
  BY <1>1, AppendElements
<1>3. \A i \in 1..Len(q) : IsCheckpoint(q[i], e) => q[i].rev \in Nat
  BY CommandFacts DEF IsCheckpoint, Revision
<1>4. NoneAbove(q, e, top) /\ r <= top => NoneAbove(Append(q, c), e, top)
  BY <1>1, <1>2, <1>3 DEF NoneAbove
<1>5. AscendingFrom(q, e, low) /\ low < r /\ NoneAbove(q, e, r - 1)
        => AscendingFrom(Append(q, c), e, low)
  BY <1>1, <1>2, <1>3 DEF NoneAbove, AscendingFrom
<1> QED
  BY <1>4, <1>5 DEF c

LEMMA AppendCompaction ==
  ASSUME NEW q \in Seq(Command), NEW e \in Docs, NEW r \in Nat, NEW top \in Int,
         r <= top, CompactsUpTo(q, e, top)
  PROVE  CompactsUpTo(Append(q, AckSave(e, r)), e, top)
<1> DEFINE c == AckSave(e, r)
<1>1. c \in Command /\ c.rev = r
  BY CommandFacts DEF AckSave, Revision
<1> HIDE DEF c
<1>2. CompactsUpTo(Append(q, c), e, top)
  BY <1>1, AppendElements DEF CompactsUpTo
<1> QED
  BY <1>2 DEF c

LEMMA TailKeeps ==
  ASSUME NEW q \in Seq(Command), q # <<>>, NEW e \in Docs, NEW r \in Int
  PROVE  /\ NoneAbove(q, e, r) => NoneAbove(Tail(q), e, r)
         /\ AscendingFrom(q, e, r) => AscendingFrom(Tail(q), e, r)
         /\ CompactsUpTo(q, e, r) => CompactsUpTo(Tail(q), e, r)
BY TailElements DEF NoneAbove, AscendingFrom, CompactsUpTo

LEMMA HeadFirst ==
  ASSUME NEW q \in Seq(Command), q # <<>>, NEW e \in Docs, NEW r \in Int
  PROVE  /\ IsCheckpoint(Head(q), e) /\ NoneAbove(q, e, r) => Head(q).rev <= r
         /\ IsCheckpoint(Head(q), e) /\ AscendingFrom(q, e, r)
              => r < Head(q).rev /\ AscendingFrom(Tail(q), e, Head(q).rev)
         /\ IsCompaction(Head(q), e) /\ CompactsUpTo(q, e, r) => Head(q).rev <= r
<1>1. /\ Head(q) = q[1]
      /\ Len(q) \in Nat \ {0}
      /\ Len(Tail(q)) = Len(q) - 1
      /\ \A i \in 1..Len(Tail(q)) : Tail(q)[i] = q[i + 1]
  BY TailElements
<1> QED
  BY <1>1 DEF NoneAbove, AscendingFrom, CompactsUpTo

LEMMA Widen ==
  ASSUME NEW q \in Seq(Command), NEW e \in Docs, NEW r \in Int, NEW s \in Int, r <= s
  PROVE  /\ NoneAbove(q, e, r) => NoneAbove(q, e, s)
         /\ AscendingFrom(q, e, s) => AscendingFrom(q, e, r)
         /\ CompactsUpTo(q, e, r) => CompactsUpTo(q, e, s)
<1>1. \A i \in 1..Len(q) : q[i].op # "Flush" => q[i].rev \in Nat
  BY CommandFacts DEF Revision
<1> QED
  BY <1>1 DEF NoneAbove, AscendingFrom, CompactsUpTo, IsCheckpoint, IsCompaction

LEMMA EmptyQueue ==
  ASSUME NEW e, NEW r
  PROVE  NoneAbove(<<>>, e, r) /\ AscendingFrom(<<>>, e, r) /\ CompactsUpTo(<<>>, e, r)
BY DEF NoneAbove, AscendingFrom, CompactsUpTo

-----------------------------------------------------------------------------
(* The inductive invariant.  Each lemma below is about one action: it      *)
(* first says what the action does to one document e, then derives the     *)
(* four parts of DocInv(e) in the next state.                              *)
Number(x) == x \in Int /\ x >= None

Typed ==
  /\ \A e \in Docs :
       /\ revision[e] \in Nat
       /\ Number(pendingCheckpoints[e]) /\ Number(pendingCompactions[e])
       /\ Number(checkpointed[e]) /\ Number(held[e])
       /\ Number(journal[e]) /\ Number(saved[e])
  /\ Number(work.was)
  /\ Len(queue) \in Nat /\ Len(acks) \in Nat
  /\ \A i \in 1..Len(queue) :
       queue[i].op # "Flush" => queue[i].doc \in Docs /\ queue[i].rev \in Nat
  /\ work.cmd.op # "Flush" => work.cmd.doc \in Docs /\ work.cmd.rev \in Nat
  /\ \A k \in 1..Len(acks) : acks[k].doc \in Docs /\ acks[k].rev \in Nat

LEMMA TypedFromTypeOK == TypeOK => Typed
<1> SUFFICES ASSUME TypeOK PROVE Typed
  OBVIOUS
<1> USE DEF TypeOK, AppType, ChannelType, WorkerType, FileType, Revision, MaybeRevision
<1>1. ASSUME NEW e \in Docs
      PROVE  /\ revision[e] \in Nat
             /\ Number(pendingCheckpoints[e]) /\ Number(pendingCompactions[e])
             /\ Number(checkpointed[e]) /\ Number(held[e])
             /\ Number(journal[e]) /\ Number(saved[e])
  BY DEF Number, None
<1>2. Number(work.was)
  BY DEF Number, None
<1>3. Len(queue) \in Nat /\ Len(acks) \in Nat
  OBVIOUS
<1>4. \A i \in 1..Len(queue) :
        queue[i].op # "Flush" => queue[i].doc \in Docs /\ queue[i].rev \in Nat
  <2> SUFFICES ASSUME NEW i \in 1..Len(queue), queue[i].op # "Flush"
               PROVE  queue[i].doc \in Docs /\ queue[i].rev \in Nat
    OBVIOUS
  <2>1. queue[i] \in Command
    OBVIOUS
  <2> QED
    BY <2>1, CommandFacts
<1>5. work.cmd.op # "Flush" => work.cmd.doc \in Docs /\ work.cmd.rev \in Nat
  BY CommandFacts
<1>6. \A k \in 1..Len(acks) : acks[k].doc \in Docs /\ acks[k].rev \in Nat
  <2> SUFFICES ASSUME NEW k \in 1..Len(acks)
               PROVE  acks[k].doc \in Docs /\ acks[k].rev \in Nat
    OBVIOUS
  <2>1. acks[k] \in Ack
    OBVIOUS
  <2> QED
    BY <2>1 DEF Ack
<1> QED
  BY <1>1, <1>2, <1>3, <1>4, <1>5, <1>6 DEF Typed

LEMMA EditInv ==
  ASSUME TypeOK, JournalInv, NEW d \in Docs, Edit(d), NEW e \in Docs
  PROVE  DocInv(e)'
<1> DEFINE next == revision[d] + 1
           c == Checkpoint(d, next)
<1>1. Typed /\ DocInv(e) /\ queue \in Seq(Command)
  BY TypedFromTypeOK DEF JournalInv, TypeOK, ChannelType
<1>2. /\ revision'[e] = IF e = d THEN next ELSE revision[e]
      /\ UNCHANGED <<checkpointed, pendingCompactions, acks, held, work, journal,
                     saved, staleRetry>>
  BY DEF Edit, app, worker, files, TypeOK, AppType
<1> DEFINE k == Kept(e)
<1>a. k' = k /\ Number(k) /\ k <= revision[e]
  BY <1>1, <1>2 DEF DocInv, WithinRevision, Kept, Compacting, Typed
<1> HIDE DEF c, next, k
<1>3. c \in Command /\ next \in Nat /\ IsCheckpoint(c, d)
  BY <1>1, CommandFacts DEF c, next, Typed, Revision, Checkpoint, IsCheckpoint
<1>4. \/ queue' = Append(queue, c) /\ pendingCheckpoints'[e] = pendingCheckpoints[e]
      \/ /\ queue' = queue
         /\ pendingCheckpoints'[e] = IF e = d THEN next ELSE pendingCheckpoints[e]
  <2>1. pendingCheckpoints[d] <= revision[d]
    BY DEF JournalInv, DocInv, WithinRevision
  <2>2. Newer(pendingCheckpoints[d], next) = next
    BY <1>1, <2>1 DEF next, Newer, Typed, Number
  <2> QED
    BY <2>2 DEF c, next, Edit, Send, TypeOK, AppType
<1>5. NoneAbove(queue, e, revision[e])
  BY <1>1 DEF DocInv, WithinRevision
<1>6. NoneAbove(queue', e, revision'[e])
  <2>1. CASE e # d
    <3>1. ~IsCheckpoint(c, e)
      BY <1>3, <2>1 DEF IsCheckpoint
    <3>2. revision[e] \in Int /\ revision'[e] = revision[e]
      BY <1>1, <1>2, <2>1 DEF Typed
    <3>3. NoneAbove(Append(queue, c), e, revision[e])
      BY <1>1, <1>3, <1>5, <3>1, <3>2, AppendOther
    <3> QED
      BY <1>4, <1>5, <3>2, <3>3
  <2>2. CASE e = d
    <3>1. NoneAbove(queue, e, next)
      BY <1>1, <1>3, <1>5, <2>2, Widen DEF Typed, next
    <3>2. NoneAbove(Append(queue, c), e, next)
      BY <1>1, <1>3, <2>2, <3>1, AppendCheckpoint DEF c
    <3> QED
      BY <1>2, <1>4, <2>2, <3>1, <3>2
  <2> QED
    BY <2>1, <2>2
<1>7. WithinRevision(e)'
  <2>1. revision[e] <= revision'[e] /\ pendingCheckpoints'[e] <= revision'[e]
    BY <1>1, <1>2, <1>4 DEF DocInv, WithinRevision, Typed, Number, next
  <2>2. revision'[e] \in Nat /\ revision[e] \in Nat
    BY <1>1, <1>2, <1>3 DEF Typed
  <2>3. Kept(e)' <= revision'[e]
    BY <1>a, <2>1, <2>2 DEF k, Number
  <2> QED
    BY <1>1, <1>2, <1>6, <2>1, <2>2, <2>3 DEF DocInv, WithinRevision, Typed, Number
<1>8. CompactionsCovered(e)'
  <2>1. ~IsCompaction(c, e)
    BY DEF c, IsCompaction, Checkpoint
  <2>2. CompactsUpTo(queue', e, saved[e])
    BY <1>1, <1>3, <1>4, <2>1, AppendOther
    DEF DocInv, CompactionsCovered, Typed, Number
  <2> QED
    BY <1>1, <1>2, <2>2 DEF DocInv, CompactionsCovered, Compacting
<1>9. WritesWhatItHolds(e)'
  BY <1>1, <1>2 DEF DocInv, WritesWhatItHolds
<1>10. ASSUME ~staleRetry[e] PROVE Ascending(e)'
  <2>1. Ascending(e)
    BY <1>1, <1>10 DEF DocInv
  <2>2. CASE e # d
    <3>1. ~IsCheckpoint(c, e)
      BY <1>3, <2>2 DEF IsCheckpoint
    <3>2. /\ revision[e] \in Int /\ revision'[e] = revision[e] /\ k \in Int
          /\ revision[e] - 1 \in Int
      BY <1>1, <1>2, <1>a, <2>2 DEF Typed, Number
    <3>3. /\ AscendingFrom(queue, e, k) => AscendingFrom(Append(queue, c), e, k)
          /\ NoneAbove(queue, e, revision[e] - 1)
               => NoneAbove(Append(queue, c), e, revision[e] - 1)
      BY <1>1, <1>3, <3>1, <3>2, AppendOther
    <3>4. pendingCheckpoints'[e] = pendingCheckpoints[e]
      BY <1>4, <2>2
    <3> QED
      BY <1>4, <1>a, <2>1, <3>2, <3>3, <3>4 DEF Ascending, k
  <2>3. CASE e = d /\ queue' = queue
    BY <1>1, <1>2, <1>3, <1>4, <1>5, <1>a, <2>1, <2>3
    DEF Ascending, Typed, Number, k, next
  <2>4. CASE e = d /\ queue' = Append(queue, c) /\ pendingCheckpoints'[e] = pendingCheckpoints[e]
    <3>1. pendingCheckpoints[e] # next
      BY <1>1, <2>4 DEF DocInv, WithinRevision, Typed, Number, next
    <3>2. next - 1 = revision[e] /\ k < next
      BY <1>1, <1>a, <2>4 DEF next, Number, Typed
    <3>3. AscendingFrom(queue', e, k)
      BY <1>1, <1>3, <1>5, <1>a, <2>1, <2>4, <3>2, AppendCheckpoint
      DEF Ascending, Number, k, c
    <3> QED
      BY <1>2, <1>a, <2>4, <3>1, <3>3 DEF Ascending, k
  <2> QED
    BY <1>4, <2>2, <2>3, <2>4
<1>11. ASSUME ~staleRetry[e] PROVE Durable(e)'
  BY <1>1, <1>2, <1>11 DEF DocInv, Durable, Safe
<1> QED
  BY <1>2, <1>7, <1>8, <1>9, <1>10, <1>11 DEF DocInv

(* Steps that touch none of the variables of the invariant.                *)
LEMMA QuietInv ==
  ASSUME NEW e \in Docs, DocInv(e),
         UNCHANGED <<revision, checkpointed, pendingCheckpoints, pendingCompactions,
                     queue, acks, held, work, journal, saved, staleRetry>>
  PROVE  DocInv(e)'
BY DEF DocInv, WithinRevision, CompactionsCovered, WritesWhatItHolds, Ascending,
       Durable, Safe, Kept, Compacting

LEMMA SaveCompletedInv ==
  ASSUME TypeOK, JournalInv, NEW d \in Docs, SaveCompleted(d), NEW e \in Docs
  PROVE  DocInv(e)'
<1> DEFINE c == AckSave(d, revision[d])
           k == Kept(e)
<1>1. Typed /\ DocInv(e) /\ queue \in Seq(Command)
  BY TypedFromTypeOK DEF JournalInv, TypeOK, ChannelType
<1>2. /\ saved'[e] = IF e = d THEN revision[e] ELSE saved[e]
      /\ checkpointed'[e] = IF e = d THEN revision[e] ELSE checkpointed[e]
      /\ UNCHANGED <<revision, pendingCheckpoints, acks, held, work, journal, staleRetry>>
  BY DEF SaveCompleted, worker, TypeOK, AppType, FileType
<1>3. k' = k /\ Number(k) /\ k <= revision[e]
  BY <1>1, <1>2 DEF DocInv, WithinRevision, Kept, Compacting, Typed
<1>4. c \in Command /\ ~IsCheckpoint(c, e) /\ (e # d => ~IsCompaction(c, e))
  BY <1>1, CommandFacts DEF Typed, Revision, AckSave, IsCheckpoint, IsCompaction
<1>5. \/ queue' = Append(queue, c) /\ pendingCompactions'[e] = pendingCompactions[e]
      \/ /\ queue' = queue
         /\ pendingCompactions'[e] =
              IF e = d THEN Newer(pendingCompactions[e], revision[e])
                       ELSE pendingCompactions[e]
  BY DEF SaveCompleted, Send, TypeOK, AppType
<1> HIDE DEF c, k
<1>6. /\ saved[e] <= saved'[e] /\ saved'[e] <= revision[e]
      /\ saved'[e] \in Int /\ saved[e] \in Int /\ revision[e] \in Nat /\ k \in Int
      /\ revision[e] - 1 \in Int
  BY <1>1, <1>2, <1>3 DEF DocInv, WithinRevision, Typed, Number
<1>7. /\ NoneAbove(queue, e, revision[e]) => NoneAbove(queue', e, revision[e])
      /\ NoneAbove(queue, e, revision[e] - 1) => NoneAbove(queue', e, revision[e] - 1)
      /\ AscendingFrom(queue, e, k) => AscendingFrom(queue', e, k)
  <2>1. CASE queue' = queue
    BY <2>1
  <2>2. CASE queue' = Append(queue, c)
    BY <1>1, <1>4, <1>6, <2>2, AppendOther
  <2> QED
    BY <1>5, <2>1, <2>2
<1>8. WithinRevision(e)'
  BY <1>1, <1>2, <1>3, <1>6, <1>7 DEF DocInv, WithinRevision, k
<1>9. CompactsUpTo(queue', e, saved'[e])
  <2>1. CompactsUpTo(queue, e, saved'[e])
    BY <1>1, <1>6, Widen DEF DocInv, CompactionsCovered
  <2>2. CompactsUpTo(Append(queue, c), e, saved'[e])
    <3>1. CASE e = d
      BY <1>1, <1>2, <1>6, <2>1, <3>1, AppendCompaction DEF c
    <3>2. CASE e # d
      BY <1>1, <1>4, <1>6, <2>1, <3>2, AppendOther
    <3> QED
      BY <3>1, <3>2
  <2> QED
    BY <1>5, <2>1, <2>2
<1>10. CompactionsCovered(e)'
  <2>1. pendingCompactions'[e] <= saved'[e]
    BY <1>1, <1>2, <1>5, <1>6 DEF DocInv, CompactionsCovered, Newer, Typed, Number
  <2>2. Compacting(e)' => held'[e] = None /\ work'.was <= saved'[e]
    BY <1>1, <1>2, <1>6 DEF DocInv, CompactionsCovered, Compacting, Typed, Number
  <2> QED
    BY <1>9, <2>1, <2>2 DEF CompactionsCovered
<1>11. WritesWhatItHolds(e)'
  BY <1>1, <1>2 DEF DocInv, WritesWhatItHolds
<1>12. ASSUME ~staleRetry[e] PROVE Ascending(e)'
  BY <1>1, <1>2, <1>3, <1>7, <1>12 DEF DocInv, Ascending, k
<1>13. ASSUME ~staleRetry[e] PROVE Durable(e)'
  BY <1>1, <1>2, <1>6, <1>13 DEF DocInv, Durable, Safe, Typed, Number
<1> QED
  BY <1>2, <1>8, <1>10, <1>11, <1>12, <1>13 DEF DocInv

LEMMA HandOverCompactionInv ==
  ASSUME TypeOK, JournalInv, NEW d \in Docs, HandOverCompaction(d), NEW e \in Docs,
         UNCHANGED <<revision, checkpointed, pendingCheckpoints, acks, held, work,
                     journal, saved, staleRetry>>
  PROVE  DocInv(e)'
<1> DEFINE c == AckSave(d, pendingCompactions[d])
           k == Kept(e)
<1>1. Typed /\ DocInv(e) /\ queue \in Seq(Command)
  BY TypedFromTypeOK DEF JournalInv, TypeOK, ChannelType
<1>2. /\ queue' = Append(queue, c)
      /\ pendingCompactions'[e] = IF e = d THEN None ELSE pendingCompactions[e]
      /\ pendingCompactions[d] \in Nat
  BY DEF HandOverCompaction, Send, TypeOK, AppType, MaybeRevision
<1>3. k' = k /\ Number(k)
  BY <1>1 DEF Kept, Compacting, Typed
<1>4. c \in Command /\ ~IsCheckpoint(c, e) /\ (e # d => ~IsCompaction(c, e))
  BY <1>2, CommandFacts DEF Revision, AckSave, IsCheckpoint, IsCompaction
<1> HIDE DEF c, k
<1>5. /\ saved[e] \in Int /\ revision[e] \in Nat /\ k \in Int /\ revision[e] - 1 \in Int
      /\ saved[e] >= None
  BY <1>1, <1>3 DEF Typed, Number
<1>6. /\ NoneAbove(queue, e, revision[e]) => NoneAbove(queue', e, revision[e])
      /\ NoneAbove(queue, e, revision[e] - 1) => NoneAbove(queue', e, revision[e] - 1)
      /\ AscendingFrom(queue, e, k) => AscendingFrom(queue', e, k)
  BY <1>1, <1>2, <1>4, <1>5, AppendOther
<1>7. WithinRevision(e)'
  BY <1>1, <1>3, <1>6 DEF DocInv, WithinRevision, k
<1>8. CompactsUpTo(queue', e, saved[e])
  <2>1. CompactsUpTo(queue, e, saved[e]) /\ pendingCompactions[e] <= saved[e]
    BY <1>1 DEF DocInv, CompactionsCovered
  <2>2. CASE e = d
    BY <1>1, <1>2, <1>5, <2>1, <2>2, AppendCompaction DEF c
  <2>3. CASE e # d
    BY <1>1, <1>2, <1>4, <1>5, <2>1, <2>3, AppendOther
  <2> QED
    BY <2>2, <2>3
<1>9. CompactionsCovered(e)'
  BY <1>1, <1>2, <1>5, <1>8 DEF DocInv, CompactionsCovered, Compacting
<1>10. WritesWhatItHolds(e)'
  BY <1>1 DEF DocInv, WritesWhatItHolds
<1>11. ASSUME ~staleRetry[e] PROVE Ascending(e)' /\ Durable(e)'
  BY <1>1, <1>3, <1>6, <1>11 DEF DocInv, Ascending, Durable, Safe, k
<1> QED
  BY <1>7, <1>9, <1>10, <1>11 DEF DocInv

LEMMA HandOverCheckpointInv ==
  ASSUME TypeOK, JournalInv, NEW d \in Docs, HandOverCheckpoint(d), NEW e \in Docs,
         UNCHANGED <<revision, checkpointed, pendingCompactions, acks, held, work,
                     journal, saved>>
  PROVE  DocInv(e)'
<1> DEFINE c == Checkpoint(d, pendingCheckpoints[d])
           k == Kept(e)
<1>1. Typed /\ DocInv(e) /\ queue \in Seq(Command)
  BY TypedFromTypeOK DEF JournalInv, TypeOK, ChannelType
<1>2. /\ queue' = Append(queue, c)
      /\ pendingCheckpoints'[e] = IF e = d THEN None ELSE pendingCheckpoints[e]
      /\ pendingCheckpoints[d] \in Nat
  BY DEF HandOverCheckpoint, Send, TypeOK, AppType, MaybeRevision
<1>3. /\ staleRetry[e] => staleRetry'[e]
      /\ e = d /\ ~staleRetry'[e] => ~(pendingCheckpoints[e] < revision[e])
  BY DEF HandOverCheckpoint, TypeOK, HistoryType
<1>4. k' = k /\ Number(k)
  BY <1>1 DEF Kept, Compacting, Typed
<1>5. c \in Command /\ ~IsCompaction(c, e) /\ (e # d => ~IsCheckpoint(c, e))
  BY <1>2, CommandFacts DEF Revision, Checkpoint, IsCheckpoint, IsCompaction
<1> HIDE DEF c, k
<1>6. /\ saved[e] \in Int /\ revision[e] \in Nat /\ k \in Int /\ revision[e] - 1 \in Int
  BY <1>1, <1>4 DEF Typed, Number
<1>7. NoneAbove(queue, e, revision[e]) /\ pendingCheckpoints[e] <= revision[e]
  BY <1>1 DEF DocInv, WithinRevision
<1>8. NoneAbove(queue', e, revision[e])
  <2>1. CASE e = d
    BY <1>1, <1>2, <1>6, <1>7, <2>1, AppendCheckpoint DEF c
  <2>2. CASE e # d
    BY <1>1, <1>2, <1>5, <1>6, <1>7, <2>2, AppendOther
  <2> QED
    BY <2>1, <2>2
<1>9. WithinRevision(e)'
  BY <1>1, <1>2, <1>4, <1>6, <1>8 DEF DocInv, WithinRevision, k, None
<1>10. CompactionsCovered(e)'
  <2>1. CompactsUpTo(queue', e, saved[e])
    BY <1>1, <1>2, <1>5, <1>6, AppendOther DEF DocInv, CompactionsCovered
  <2> QED
    BY <1>1, <2>1 DEF DocInv, CompactionsCovered, Compacting
<1>11. WritesWhatItHolds(e)'
  BY <1>1 DEF DocInv, WritesWhatItHolds
<1>12. ASSUME ~staleRetry'[e] PROVE Ascending(e)'
  <2>1. Ascending(e)
    BY <1>1, <1>3, <1>12 DEF DocInv
  <2>2. CASE e # d
    <3>1. /\ AscendingFrom(queue, e, k) => AscendingFrom(queue', e, k)
          /\ NoneAbove(queue, e, revision[e] - 1) => NoneAbove(queue', e, revision[e] - 1)
      BY <1>1, <1>2, <1>5, <1>6, <2>2, AppendOther
    <3> QED
      BY <1>2, <1>4, <2>1, <2>2, <3>1 DEF Ascending, k
  <2>3. CASE e = d
    <3>1. pendingCheckpoints[e] = revision[e]
      BY <1>2, <1>3, <1>6, <1>7, <1>12, <2>3
    <3>2. AscendingFrom(queue', e, k)
      BY <1>1, <1>2, <1>6, <2>1, <2>3, <3>1, AppendCheckpoint DEF Ascending, k, c
    <3>3. pendingCheckpoints'[e] # revision'[e]
      BY <1>2, <1>6, <2>3 DEF None
    <3> QED
      BY <1>4, <3>2, <3>3 DEF Ascending, k
  <2> QED
    BY <2>2, <2>3
<1>13. ASSUME ~staleRetry'[e] PROVE Durable(e)'
  BY <1>1, <1>3, <1>13 DEF DocInv, Durable, Safe
<1> QED
  BY <1>9, <1>10, <1>11, <1>12, <1>13 DEF DocInv

LEMMA SendFlushInv ==
  ASSUME TypeOK, JournalInv, SendFlush, NEW e \in Docs
  PROVE  DocInv(e)'
<1> DEFINE k == Kept(e)
<1>1. Typed /\ DocInv(e) /\ queue \in Seq(Command)
  BY TypedFromTypeOK DEF JournalInv, TypeOK, ChannelType
<1>2. /\ queue' = Append(queue, Flush)
      /\ UNCHANGED <<revision, checkpointed, pendingCheckpoints, pendingCompactions,
                     acks, held, work, journal, saved, staleRetry>>
  BY DEF SendFlush, Send, app, worker, files
<1>3. k' = k /\ Number(k)
  BY <1>1, <1>2 DEF Kept, Compacting, Typed
<1>4. Flush \in Command /\ ~IsCompaction(Flush, e) /\ ~IsCheckpoint(Flush, e)
  BY CommandFacts DEF Flush, IsCheckpoint, IsCompaction
<1> HIDE DEF k
<1>5. /\ saved[e] \in Int /\ revision[e] \in Int /\ k \in Int /\ revision[e] - 1 \in Int
  BY <1>1, <1>3 DEF Typed, Number
<1>6. /\ NoneAbove(queue, e, revision[e]) => NoneAbove(queue', e, revision[e])
      /\ NoneAbove(queue, e, revision[e] - 1) => NoneAbove(queue', e, revision[e] - 1)
      /\ AscendingFrom(queue, e, k) => AscendingFrom(queue', e, k)
      /\ CompactsUpTo(queue, e, saved[e]) => CompactsUpTo(queue', e, saved[e])
  BY <1>1, <1>2, <1>4, <1>5, AppendOther
<1>7. WithinRevision(e)' /\ CompactionsCovered(e)'
  BY <1>1, <1>2, <1>3, <1>6
  DEF DocInv, WithinRevision, CompactionsCovered, Compacting, k
<1>8. WritesWhatItHolds(e)'
  BY <1>1, <1>2 DEF DocInv, WritesWhatItHolds
<1>9. ASSUME ~staleRetry[e] PROVE Ascending(e)' /\ Durable(e)'
  BY <1>1, <1>2, <1>3, <1>6, <1>9 DEF DocInv, Ascending, Durable, Safe, k
<1> QED
  BY <1>2, <1>7, <1>8, <1>9 DEF DocInv

LEMMA ApplyJournalAckInv ==
  ASSUME TypeOK, JournalInv, ApplyJournalAck, NEW e \in Docs
  PROVE  DocInv(e)'
<1> DEFINE a == Head(acks)
<1>1. Typed /\ DocInv(e) /\ acks \in Seq(Ack) /\ acks # <<>>
  BY TypedFromTypeOK DEF JournalInv, TypeOK, ChannelType, ApplyJournalAck
<1>2. /\ checkpointed'[e] = checkpointed[e] \/ (a.doc = e /\ checkpointed'[e] = a.rev)
      /\ pendingCheckpoints'[e] \in {None, pendingCheckpoints[e]}
      /\ acks' = Tail(acks)
      /\ UNCHANGED <<revision, pendingCompactions, queue, held, work, journal, saved,
                     staleRetry>>
  BY DEF ApplyJournalAck, worker, files, TypeOK, AppType
<1>3. /\ Len(acks) \in Nat \ {0} /\ a = acks[1] /\ a.rev \in Nat
      /\ Len(acks') = Len(acks) - 1
      /\ \A i \in 1..Len(acks') : acks'[i] = acks[i + 1]
  BY <1>1, <1>2, TailElements DEF Typed
<1> HIDE DEF a
<1>4. Kept(e)' = Kept(e)
  BY <1>2 DEF Kept, Compacting
<1>5. WithinRevision(e)' /\ CompactionsCovered(e)' /\ WritesWhatItHolds(e)'
  BY <1>1, <1>2, <1>4
  DEF DocInv, WithinRevision, CompactionsCovered, WritesWhatItHolds, Compacting,
      Typed, Number, None
<1>6. ASSUME ~staleRetry[e] PROVE Ascending(e)'
  BY <1>1, <1>2, <1>4, <1>6 DEF DocInv, Ascending, Typed, None
<1>7. ASSUME ~staleRetry[e] PROVE Durable(e)'
  BY <1>1, <1>2, <1>3, <1>7 DEF DocInv, Durable, Safe
<1> QED
  BY <1>2, <1>5, <1>6, <1>7 DEF DocInv

LEMMA RecvCheckpointInv ==
  ASSUME TypeOK, JournalInv, RecvCheckpoint, NEW e \in Docs
  PROVE  DocInv(e)'
<1> DEFINE h == Head(queue)
<1>1. /\ Typed /\ DocInv(e) /\ queue \in Seq(Command) /\ queue # <<>>
      /\ h \in Command /\ h.op = "Checkpoint" /\ ~work.busy
  BY TypedFromTypeOK, TailElements
  DEF JournalInv, TypeOK, ChannelType, RecvCheckpoint
<1>2. /\ held'[e] = IF e = h.doc THEN h.rev ELSE held[e]
      /\ work' = Working(h, None) /\ queue' = Tail(queue)
      /\ UNCHANGED <<revision, checkpointed, pendingCheckpoints, pendingCompactions,
                     acks, journal, saved, staleRetry>>
  BY <1>1, CommandFacts DEF RecvCheckpoint, With, app, files, TypeOK, WorkerType
<1>3. Kept(e) = held[e] /\ Kept(e)' = held'[e] /\ ~Compacting(e)'
  BY <1>1, <1>2 DEF Kept, Compacting, Working
<1>4. WritesWhatItHolds(e)'
  BY <1>2 DEF WritesWhatItHolds, Working
<1>5. h.rev \in Nat /\ (IsCheckpoint(h, e) <=> e = h.doc)
  BY <1>1, CommandFacts DEF IsCheckpoint, Revision
<1> HIDE DEF h
<1>6. /\ revision[e] \in Int /\ revision[e] - 1 \in Int /\ saved[e] \in Int
      /\ held[e] \in Int /\ journal[e] \in Int
  BY <1>1 DEF Typed, Number
<1>7. /\ NoneAbove(queue, e, revision[e])
           => NoneAbove(queue', e, revision[e]) /\ (e = h.doc => h.rev <= revision[e])
      /\ NoneAbove(queue, e, revision[e] - 1)
           => NoneAbove(queue', e, revision[e] - 1) /\ (e = h.doc => h.rev <= revision[e] - 1)
      /\ CompactsUpTo(queue, e, saved[e]) => CompactsUpTo(queue', e, saved[e])
  BY <1>1, <1>2, <1>5, <1>6, TailKeeps, HeadFirst DEF h
<1>8. AscendingFrom(queue, e, held[e])
        => AscendingFrom(queue', e, held'[e]) /\ held'[e] >= held[e]
  <2>1. CASE e = h.doc
    BY <1>1, <1>2, <1>5, <1>6, <2>1, HeadFirst DEF h
  <2>2. CASE e # h.doc
    BY <1>1, <1>2, <1>6, <2>2, TailKeeps
  <2> QED
    BY <2>1, <2>2
<1>9. WithinRevision(e)' /\ CompactionsCovered(e)'
  BY <1>1, <1>2, <1>3, <1>7 DEF DocInv, WithinRevision, CompactionsCovered
<1>10. ASSUME ~staleRetry[e] PROVE Ascending(e)'
  BY <1>1, <1>2, <1>3, <1>5, <1>6, <1>7, <1>8, <1>10 DEF DocInv, Ascending
<1>11. ASSUME ~staleRetry[e] PROVE Durable(e)'
  BY <1>1, <1>2, <1>3, <1>5, <1>6, <1>8, <1>11 DEF DocInv, Ascending, Durable, Safe
<1> QED
  BY <1>2, <1>4, <1>9, <1>10, <1>11 DEF DocInv

LEMMA RecvAckSaveInv ==
  ASSUME TypeOK, JournalInv, RecvAckSave, NEW e \in Docs
  PROVE  DocInv(e)'
<1> DEFINE h == Head(queue)
<1>1. /\ Typed /\ DocInv(e) /\ queue \in Seq(Command) /\ queue # <<>>
      /\ h \in Command /\ h.op = "AckSave" /\ ~work.busy
  BY TypedFromTypeOK, TailElements DEF JournalInv, TypeOK, ChannelType, RecvAckSave
<1>2. /\ queue' = Tail(queue)
      /\ UNCHANGED <<revision, checkpointed, pendingCheckpoints, pendingCompactions,
                     acks, journal, saved, staleRetry>>
  BY DEF RecvAckSave, app, files
<1>3. \/ UNCHANGED <<held, work>>
      \/ /\ held'[e] = IF e = h.doc THEN None ELSE held[e]
         /\ work' = Working(h, held[h.doc]) /\ held[h.doc] <= h.rev
  BY <1>1, CommandFacts DEF RecvAckSave, Without, Compacts, worker, TypeOK, WorkerType
<1>4. h.rev \in Nat /\ (IsCompaction(h, e) <=> e = h.doc)
  BY <1>1, CommandFacts DEF IsCompaction, Revision
<1>5. Kept(e) = held[e] /\ Kept(e)' = held[e]
  BY <1>1, <1>2, <1>3 DEF Kept, Compacting, Working
<1>6. Compacting(e)' => held'[e] = None /\ work'.was = held[e] /\ e = h.doc /\ held[e] <= h.rev
  BY <1>1, <1>3 DEF Compacting, Working
<1>7. WritesWhatItHolds(e)'
  BY <1>1, <1>3 DEF WritesWhatItHolds, Working
<1>8. held'[e] = held[e] \/ (e = h.doc /\ held[e] <= h.rev /\ held'[e] = None)
  BY <1>3
<1> HIDE DEF h
<1>9. /\ revision[e] \in Int /\ revision[e] - 1 \in Int /\ saved[e] \in Int
      /\ held[e] \in Int /\ journal[e] \in Int
  BY <1>1 DEF Typed, Number
<1>10. /\ NoneAbove(queue, e, revision[e]) => NoneAbove(queue', e, revision[e])
       /\ NoneAbove(queue, e, revision[e] - 1) => NoneAbove(queue', e, revision[e] - 1)
       /\ CompactsUpTo(queue, e, saved[e]) => CompactsUpTo(queue', e, saved[e])
       /\ AscendingFrom(queue, e, held[e]) => AscendingFrom(queue', e, held[e])
  BY <1>1, <1>2, <1>9, TailKeeps
<1>11. CompactsUpTo(queue, e, saved[e])
  BY <1>1 DEF DocInv, CompactionsCovered
<1>12. e = h.doc => h.rev <= saved[e]
  BY <1>1, <1>4, <1>9, <1>11, HeadFirst DEF h
<1>13. WithinRevision(e)'
  BY <1>1, <1>2, <1>5, <1>10 DEF DocInv, WithinRevision
<1>14. CompactionsCovered(e)'
  BY <1>1, <1>2, <1>4, <1>6, <1>9, <1>10, <1>12 DEF DocInv, CompactionsCovered
<1>15. ASSUME ~staleRetry[e] PROVE Ascending(e)'
  BY <1>1, <1>2, <1>5, <1>10, <1>15 DEF DocInv, Ascending
<1>16. ASSUME ~staleRetry[e] PROVE Durable(e)'
  BY <1>1, <1>2, <1>4, <1>8, <1>9, <1>12, <1>16 DEF DocInv, Durable, Safe
<1> QED
  BY <1>2, <1>7, <1>13, <1>14, <1>15, <1>16 DEF DocInv

LEMMA RecvFlushInv ==
  ASSUME TypeOK, JournalInv, RecvFlush, NEW e \in Docs
  PROVE  DocInv(e)'
<1>1. /\ Typed /\ DocInv(e) /\ queue \in Seq(Command) /\ queue # <<>> /\ ~work.busy
  BY TypedFromTypeOK DEF JournalInv, TypeOK, ChannelType, RecvFlush
<1>2. /\ queue' = Tail(queue) /\ work'.cmd.op = "Flush"
      /\ UNCHANGED <<revision, checkpointed, pendingCheckpoints, pendingCompactions,
                     acks, held, journal, saved, staleRetry>>
  BY DEF RecvFlush, Working, app, files
<1>3. Kept(e) = held[e] /\ Kept(e)' = held[e] /\ ~Compacting(e)' /\ WritesWhatItHolds(e)'
  BY <1>1, <1>2 DEF Kept, Compacting, WritesWhatItHolds
<1>4. /\ revision[e] \in Int /\ revision[e] - 1 \in Int /\ saved[e] \in Int
      /\ held[e] \in Int
  BY <1>1 DEF Typed, Number
<1>5. /\ NoneAbove(queue, e, revision[e]) => NoneAbove(queue', e, revision[e])
      /\ NoneAbove(queue, e, revision[e] - 1) => NoneAbove(queue', e, revision[e] - 1)
      /\ CompactsUpTo(queue, e, saved[e]) => CompactsUpTo(queue', e, saved[e])
      /\ AscendingFrom(queue, e, held[e]) => AscendingFrom(queue', e, held[e])
  BY <1>1, <1>2, <1>4, TailKeeps
<1>6. WithinRevision(e)' /\ CompactionsCovered(e)'
  BY <1>1, <1>2, <1>3, <1>5 DEF DocInv, WithinRevision, CompactionsCovered
<1>7. ASSUME ~staleRetry[e] PROVE Ascending(e)' /\ Durable(e)'
  BY <1>1, <1>2, <1>3, <1>5, <1>7 DEF DocInv, Ascending, Durable, Safe
<1> QED
  BY <1>2, <1>3, <1>6, <1>7 DEF DocInv

LEMMA PersistSucceedsInv ==
  ASSUME TypeOK, JournalInv, PersistSucceeds, NEW e \in Docs
  PROVE  DocInv(e)'
<1>1. Typed /\ DocInv(e) /\ queue \in Seq(Command) /\ acks \in Seq(Ack)
  BY TypedFromTypeOK DEF JournalInv, TypeOK, ChannelType
<1>2. /\ journal' = held /\ work' = Idle
      /\ UNCHANGED <<revision, checkpointed, pendingCheckpoints, pendingCompactions,
                     queue, held, saved, staleRetry>>
  BY DEF PersistSucceeds, app
<1>3. ~Compacting(e)' /\ Kept(e)' = held[e] /\ WritesWhatItHolds(e)'
  BY <1>2 DEF Compacting, Kept, Idle, WritesWhatItHolds
<1>4. /\ revision[e] \in Int /\ saved[e] \in Int /\ held[e] \in Int /\ journal[e] \in Int
      /\ Kept(e) \in Int
  BY <1>1 DEF Typed, Number, Kept
<1>5. held[e] <= Kept(e)
  BY <1>1, <1>4 DEF DocInv, CompactionsCovered, Kept, Typed, Number
<1>6. WithinRevision(e)' /\ CompactionsCovered(e)'
  BY <1>1, <1>2, <1>3, <1>4, <1>5 DEF DocInv, WithinRevision, CompactionsCovered
<1>7. ASSUME ~staleRetry[e] PROVE Ascending(e)'
  BY <1>1, <1>2, <1>3, <1>4, <1>5, <1>7, Widen DEF DocInv, Ascending
<1>8. ASSUME ~staleRetry[e] PROVE Durable(e)'
  <2>1. Durable(e)
    BY <1>1, <1>8 DEF DocInv
  <2>2. ASSUME NEW x \in Int, Safe(e, x) PROVE held[e] >= x \/ saved[e] >= x
    BY <1>4, <2>1, <2>2 DEF Durable, Safe
  <2>3. checkpointed[e] \in Int /\ \A i \in 1..Len(acks) : acks[i].rev \in Int
    BY <1>1 DEF Typed, Number
  <2>4. ASSUME NEW i \in 1..Len(acks'), acks'[i].doc = e
        PROVE  held[e] >= acks'[i].rev \/ saved[e] >= acks'[i].rev
    <3>1. CASE i \in 1..Len(acks) /\ acks'[i] = acks[i]
      BY <2>1, <2>2, <2>3, <2>4, <3>1 DEF Durable
    <3>2. CASE /\ work.busy /\ work.cmd.op = "Checkpoint"
               /\ acks'[i] = [doc |-> work.cmd.doc, rev |-> work.cmd.rev]
      BY <1>1, <1>4, <2>4, <3>2 DEF DocInv, WritesWhatItHolds
    <3>3. CASE work.cmd.op # "Checkpoint"
      <4>1. acks' = acks
        BY <3>3 DEF PersistSucceeds
      <4> QED
        BY <2>4, <3>1, <4>1
    <3>4. CASE work.cmd.op = "Checkpoint"
      <4> DEFINE a == [doc |-> work.cmd.doc, rev |-> work.cmd.rev]
      <4>1. acks' = Append(acks, a) /\ work.busy
        BY <3>4 DEF PersistSucceeds
      <4>2. a \in Ack
        BY <1>1, <3>4 DEF Typed, Ack, Revision
      <4> HIDE DEF a
      <4>3. (i \in 1..Len(acks) /\ acks'[i] = acks[i]) \/ acks'[i] = a
        BY <1>1, <2>4, <4>1, <4>2, AppendElements
      <4> QED
        BY <3>1, <3>2, <3>4, <4>1, <4>3 DEF a
    <3> QED
      BY <3>3, <3>4
  <2> QED
    BY <1>2, <2>1, <2>2, <2>3, <2>4, <1>4 DEF Durable, Safe
<1> QED
  BY <1>2, <1>3, <1>6, <1>7, <1>8 DEF DocInv

LEMMA PersistFailsInv ==
  ASSUME TypeOK, JournalInv, PersistFails, NEW e \in Docs
  PROVE  DocInv(e)'
<1>1. Typed /\ DocInv(e) /\ queue \in Seq(Command)
  BY TypedFromTypeOK DEF JournalInv, TypeOK, ChannelType
<1>2. /\ journal'[e] \in {journal[e], held[e]} /\ work' = Idle
      /\ UNCHANGED <<revision, checkpointed, pendingCheckpoints, pendingCompactions,
                     queue, acks, saved, staleRetry>>
  BY DEF PersistFails, app
<1>3. held'[e] = Kept(e)
  BY <1>1 DEF PersistFails, Kept, Compacting, TypeOK, WorkerType, Typed
<1>4. ~Compacting(e)' /\ Kept(e)' = Kept(e) /\ WritesWhatItHolds(e)'
  BY <1>2, <1>3 DEF Compacting, Kept, Idle, WritesWhatItHolds
<1>5. /\ revision[e] \in Int /\ saved[e] \in Int /\ held[e] \in Int /\ journal[e] \in Int
      /\ Kept(e) \in Int /\ checkpointed[e] \in Int
      /\ \A i \in 1..Len(acks) : acks[i].rev \in Int
  BY <1>1 DEF Typed, Number, Kept
<1>6. held[e] <= Kept(e)
  BY <1>1, <1>5 DEF DocInv, CompactionsCovered, Kept, Typed, Number
<1>7. WithinRevision(e)' /\ CompactionsCovered(e)'
  BY <1>1, <1>2, <1>4, <1>5, <1>6 DEF DocInv, WithinRevision, CompactionsCovered
<1>8. ASSUME ~staleRetry[e] PROVE Ascending(e)'
  BY <1>1, <1>2, <1>4, <1>8 DEF DocInv, Ascending
<1>9. ASSUME ~staleRetry[e] PROVE Durable(e)'
  <2>1. Durable(e)
    BY <1>1, <1>9 DEF DocInv
  <2>2. ASSUME NEW x \in Int, Safe(e, x) PROVE journal'[e] >= x \/ saved[e] >= x
    BY <1>2, <1>5, <2>1, <2>2 DEF Durable, Safe
  <2>3. held'[e] >= journal'[e] \/ saved[e] >= journal'[e]
    BY <1>2, <1>3, <1>5, <1>6, <2>1 DEF Durable
  <2> QED
    BY <1>2, <1>5, <2>1, <2>2, <2>3 DEF Durable, Safe
<1> QED
  BY <1>2, <1>4, <1>7, <1>8, <1>9 DEF DocInv

LEMMA ExitInv ==
  ASSUME TypeOK, JournalInv, Exit, NEW e \in Docs
  PROVE  DocInv(e)'
<1>1. Typed /\ DocInv(e)
  BY TypedFromTypeOK DEF JournalInv
<1>2. /\ journal'[e] \in {journal[e], held[e]}
      /\ UNCHANGED <<revision, checkpointed, pendingCheckpoints, pendingCompactions,
                     queue, acks, held, work, saved, staleRetry>>
  BY DEF Exit, app, worker
<1>3. Kept(e)' = Kept(e) /\ (Compacting(e)' <=> Compacting(e))
  BY <1>2 DEF Kept, Compacting
<1>4. /\ revision[e] \in Int /\ saved[e] \in Int /\ held[e] \in Int /\ journal[e] \in Int
      /\ Kept(e) \in Int /\ checkpointed[e] \in Int
      /\ \A i \in 1..Len(acks) : acks[i].rev \in Int
  BY <1>1 DEF Typed, Number, Kept
<1>5. held[e] <= Kept(e)
  BY <1>1, <1>4 DEF DocInv, CompactionsCovered, Kept, Typed, Number
<1>6. WithinRevision(e)' /\ CompactionsCovered(e)' /\ WritesWhatItHolds(e)'
  BY <1>1, <1>2, <1>3, <1>4, <1>5
  DEF DocInv, WithinRevision, CompactionsCovered, WritesWhatItHolds
<1>7. ASSUME ~staleRetry[e] PROVE Ascending(e)' /\ Durable(e)'
  <2>1. Ascending(e) /\ Durable(e)
    BY <1>1, <1>7 DEF DocInv
  <2>2. ASSUME NEW x \in Int, Safe(e, x) PROVE journal'[e] >= x \/ saved[e] >= x
    BY <1>2, <1>4, <2>1, <2>2 DEF Durable, Safe
  <2> QED
    BY <1>2, <1>3, <1>4, <2>1, <2>2 DEF Ascending, Durable, Safe
<1> QED
  BY <1>2, <1>6, <1>7 DEF DocInv

LEMMA CrashInv ==
  ASSUME TypeOK, JournalInv, Crash, NEW e \in Docs
  PROVE  DocInv(e)'
<1>1. Typed /\ DocInv(e)
  BY TypedFromTypeOK DEF JournalInv
<1>2. /\ journal'[e] \in {journal[e], held[e]} /\ held'[e] = journal'[e]
      /\ pendingCheckpoints'[e] = None /\ pendingCompactions'[e] = None
      /\ queue' = <<>> /\ acks' = <<>> /\ work' = Idle
      /\ UNCHANGED <<revision, checkpointed, saved, staleRetry>>
  BY DEF Crash, ForgetVolatile
<1>3. ~Compacting(e)' /\ Kept(e)' = journal'[e] /\ WritesWhatItHolds(e)'
  BY <1>2 DEF Compacting, Kept, Idle, WritesWhatItHolds
<1>4. /\ revision[e] \in Nat /\ saved[e] \in Int /\ held[e] \in Int /\ journal[e] \in Int
      /\ Kept(e) \in Int /\ checkpointed[e] \in Int /\ saved[e] >= None
  BY <1>1 DEF Typed, Number, Kept
<1>5. held[e] <= Kept(e)
  BY <1>1, <1>4 DEF DocInv, CompactionsCovered, Kept, Typed, Number
<1>6. WithinRevision(e)' /\ CompactionsCovered(e)'
  BY <1>1, <1>2, <1>3, <1>4, <1>5, EmptyQueue
  DEF DocInv, WithinRevision, CompactionsCovered, None
<1>7. Ascending(e)'
  BY <1>2, <1>4, EmptyQueue DEF Ascending, None
<1>8. ASSUME ~staleRetry[e] PROVE Durable(e)'
  BY <1>1, <1>2, <1>4, <1>8 DEF DocInv, Durable, Safe
<1> QED
  BY <1>2, <1>3, <1>6, <1>7, <1>8 DEF DocInv

LEMMA RestartInv ==
  ASSUME TypeOK, JournalInv, Restart, NEW e \in Docs
  PROVE  DocInv(e)'
<1>1. Typed /\ stateRevision[e] \in Int /\ stateRevision[e] >= None
  BY TypedFromTypeOK DEF TypeOK, FileType, MaybeRevision, None
<1> DEFINE r == RestoredRevision(e)
<1>2. /\ revision'[e] = r /\ checkpointed'[e] = r
      /\ saved'[e] = IF journal[e] # None THEN None ELSE r
      /\ held'[e] = journal[e] /\ journal' = journal
      /\ pendingCheckpoints'[e] = None /\ pendingCompactions'[e] = None
      /\ queue' = <<>> /\ acks' = <<>> /\ work' = Idle
  BY DEF Restart, ForgetVolatile, InitialHeld
<1>3. /\ r \in Nat /\ journal[e] \in Int /\ journal[e] >= None
      /\ journal[e] # None => r = journal[e]
  BY <1>1 DEF Typed, Number, RestoredRevision, None
<1> HIDE DEF r
<1>4. ~Compacting(e)' /\ Kept(e)' = journal[e] /\ WritesWhatItHolds(e)'
  BY <1>2 DEF Compacting, Kept, Idle, WritesWhatItHolds
<1>5. WithinRevision(e)' /\ CompactionsCovered(e)'
  BY <1>2, <1>3, <1>4, EmptyQueue DEF WithinRevision, CompactionsCovered, None
<1>6. Ascending(e)'
  BY <1>2, <1>3, EmptyQueue DEF Ascending, None
<1>7. Durable(e)'
  BY <1>2, <1>3 DEF Durable, Safe, None
<1> QED
  BY <1>4, <1>5, <1>6, <1>7 DEF DocInv

LEMMA InitInv == Init => JournalInv
<1> SUFFICES ASSUME Init, NEW e \in Docs PROVE DocInv(e)
  BY DEF JournalInv
<1>1. /\ revision[e] = 0 /\ checkpointed[e] \in {None, 0} /\ saved[e] = checkpointed[e]
      /\ held[e] = None /\ journal[e] = None /\ pendingCheckpoints[e] = None
      /\ pendingCompactions[e] = None /\ queue = <<>> /\ acks = <<>> /\ work = Idle
  BY DEF Init
<1>2. ~Compacting(e) /\ Kept(e) = None /\ WritesWhatItHolds(e)
  BY <1>1 DEF Compacting, Kept, Idle, WritesWhatItHolds
<1> QED
  BY <1>1, <1>2, EmptyQueue
  DEF DocInv, WithinRevision, CompactionsCovered, Ascending, Durable, Safe, None

LEMMA NextInv == TypeOK /\ JournalInv /\ [Next]_vars => JournalInv'
<1> SUFFICES ASSUME TypeOK, JournalInv, [Next]_vars, NEW e \in Docs PROVE DocInv(e)'
  BY DEF JournalInv
<1>1. DocInv(e)
  BY DEF JournalInv
<1>2. CASE UserStep
  BY <1>2, EditInv, SaveCompletedInv DEF UserStep
<1>3. CASE ApplyJournalAck
  BY <1>3, ApplyJournalAckInv
<1>4. CASE RetryStep
  <2>1. ASSUME NEW d \in Docs, RetryCheckpoint(d) PROVE DocInv(e)'
    <3>1. CASE HandOverCheckpoint(d)
      BY <2>1, <3>1, HandOverCheckpointInv DEF RetryCheckpoint, worker, files
    <3>2. CASE UNCHANGED <<queue, pendingCheckpoints, staleRetry>>
      BY <1>1, <2>1, <3>2, QuietInv DEF RetryCheckpoint, worker, files
    <3> QED
      BY <2>1, <3>1, <3>2 DEF RetryCheckpoint
  <2>2. ASSUME NEW d \in Docs, RetryCompaction(d) PROVE DocInv(e)'
    <3>1. CASE HandOverCompaction(d)
      BY <2>2, <3>1, HandOverCompactionInv DEF RetryCompaction, worker, files
    <3>2. CASE UNCHANGED <<queue, pendingCompactions>>
      BY <1>1, <2>2, <3>2, QuietInv DEF RetryCompaction, worker, files
    <3> QED
      BY <2>2, <3>1, <3>2 DEF RetryCompaction
  <2> QED
    BY <1>4, <2>1, <2>2 DEF RetryStep
<1>5. CASE ShutdownStep
  <2>1. ASSUME NEW d \in Docs, SubmitCheckpoint(d) PROVE DocInv(e)'
    BY <2>1, HandOverCheckpointInv DEF SubmitCheckpoint, worker, files
  <2>2. ASSUME NEW d \in Docs, SubmitCompaction(d) PROVE DocInv(e)'
    BY <2>2, HandOverCompactionInv DEF SubmitCompaction, worker, files
  <2>3. CASE SaveState
    BY <1>1, <2>3, QuietInv DEF SaveState, app, worker
  <2>4. CASE SendFlush
    BY <2>4, SendFlushInv
  <2>5. CASE Exit
    BY <2>5, ExitInv
  <2> QED
    BY <1>5, <2>1, <2>2, <2>3, <2>4, <2>5 DEF ShutdownStep
<1>6. CASE RecvStep
  BY <1>6, RecvCheckpointInv, RecvAckSaveInv, RecvFlushInv DEF RecvStep
<1>7. CASE PersistStep
  BY <1>7, PersistSucceedsInv, PersistFailsInv DEF PersistStep
<1>8. CASE Tick \/ BeginShutdown \/ Panic
  BY <1>1, <1>8, QuietInv DEF Tick, BeginShutdown, Panic, app, worker, files
<1>9. CASE Crash \/ Restart
  BY <1>9, CrashInv, RestartInv
<1>10. CASE Stopped \/ UNCHANGED vars
  BY <1>1, <1>10, QuietInv DEF Stopped, vars, app, worker, files
<1> QED
  BY <1>2, <1>3, <1>4, <1>5, <1>6, <1>7, <1>8, <1>9, <1>10 DEF Next

(* The inductive invariant of the journal: no revision is ahead of its     *)
(* buffer, compactions speak of saved revisions only, queued checkpoints   *)
(* ascend and acknowledged ones are safe.                                  *)
THEOREM JournalInvariant == Spec => []JournalInv
<1>1. Init => JournalInv
  BY InitInv
<1>2. TypeOK /\ JournalInv /\ [Next]_vars => JournalInv'
  BY NextInv
<1> QED
  BY <1>1, <1>2, TypeCorrect, PTL DEF Spec

-----------------------------------------------------------------------------
(* What App was told is safe survives every crash: for every number of     *)
(* documents, queue length, number of I/O errors and restarts.             *)
THEOREM AckedIsRecoverable == Spec => []AckedRecoverable
<1>1. JournalInv => AckedRecoverable
  BY DEF JournalInv, DocInv, Durable, Safe, AckedRecoverable
<1> QED
  BY <1>1, JournalInvariant, PTL

(* The worker receives the checkpoints of a document in the order of its   *)
(* edits.                                                                  *)
THEOREM CheckpointsStayInOrder == Spec => []CheckpointsInOrder
<1>1. TypeOK /\ JournalInv => CheckpointsInOrder
  <2> SUFFICES ASSUME TypeOK, JournalInv, NEW d \in Docs, ~staleRetry[d]
               PROVE  AscendingFrom(queue, d, held[d])
    BY DEF CheckpointsInOrder
  <2>1. Typed /\ queue \in Seq(Command) /\ DocInv(d)
    BY TypedFromTypeOK DEF TypeOK, ChannelType, JournalInv
  <2>2. held[d] \in Int /\ Kept(d) \in Int /\ held[d] <= Kept(d)
    BY <2>1 DEF Typed, Number, Kept, DocInv, CompactionsCovered
  <2> QED
    BY <2>1, <2>2, Widen DEF DocInv, Ascending
<1> QED
  BY <1>1, JournalInvariant, TypeCorrect, PTL

(* No step takes a journal entry back unless the workspace file is as new. *)
THEOREM JournalOnlyAdvances == Spec => JournalNeverRegresses
<1> DEFINE Keeps == \A d \in Docs : ~staleRetry'[d] => journal'[d] >= journal[d]
                                                      \/ saved[d] >= journal[d]
<1>1. TypeOK /\ JournalInv /\ [Next]_vars => [Keeps]_vars
  <2> SUFFICES ASSUME TypeOK, JournalInv, Next, NEW d \in Docs, ~staleRetry'[d]
               PROVE  journal'[d] >= journal[d] \/ saved[d] >= journal[d]
    OBVIOUS
  <2>1. Typed /\ DocInv(d)
    BY TypedFromTypeOK DEF JournalInv
  <2>2. journal[d] \in Int
    BY <2>1 DEF Typed, Number
  <2>3. CASE journal'[d] = journal[d]
    BY <2>2, <2>3
  <2>4. CASE (PersistStep \/ Exit \/ Crash) /\ journal'[d] = held[d]
    <3>1. ~staleRetry[d]
      BY <2>4 DEF PersistStep, PersistSucceeds, PersistFails, Exit, Crash
    <3> QED
      BY <2>1, <2>4, <3>1 DEF DocInv, Durable
  <2>5. journal' = journal
          \/ ((PersistStep \/ Exit \/ Crash) /\ journal' \in {journal, held})
    BY DEF Next, UserStep, RetryStep, ShutdownStep, RecvStep, PersistStep, Edit,
           SaveCompleted, ApplyJournalAck, Tick, RetryCheckpoint, RetryCompaction,
           BeginShutdown, SubmitCheckpoint, SubmitCompaction, SaveState, Panic,
           SendFlush, Exit, RecvCheckpoint, RecvAckSave, RecvFlush, PersistSucceeds,
           PersistFails, Crash, Restart, Stopped, vars, files
  <2> QED
    BY <2>3, <2>4, <2>5
<1> QED
  BY <1>1, TypeCorrect, JournalInvariant, PTL DEF Spec, JournalNeverRegresses

-----------------------------------------------------------------------------
(* The newest text of a dirty document.  One lemma per kind of step: it    *)
(* keeps PipelineDoc(e) of every document e.                               *)
PipelineOK == TypeOK /\ JournalInv /\ PipelineInv

LEMMA PipelineFacts ==
  ASSUME PipelineOK, NEW e \in Docs
  PROVE  /\ Typed /\ DocInv(e) /\ PipelineDoc(e)
         /\ queue \in Seq(Command) /\ acks \in Seq(Ack)
         /\ revision[e] \in Nat /\ pendingCheckpoints[e] \in Int /\ held[e] \in Int
         /\ saved[e] \in Int /\ journal[e] \in Int /\ Kept(e) \in Int
         /\ pendingCheckpoints[e] <= revision[e] /\ saved[e] <= revision[e]
         /\ held[e] <= Kept(e) /\ Kept(e) <= revision[e]
<1>1. /\ Typed /\ DocInv(e) /\ PipelineDoc(e)
      /\ queue \in Seq(Command) /\ acks \in Seq(Ack)
  BY TypedFromTypeOK DEF PipelineOK, JournalInv, PipelineInv, TypeOK, ChannelType
<1>2. /\ revision[e] \in Nat /\ pendingCheckpoints[e] \in Int /\ held[e] \in Int
      /\ saved[e] \in Int /\ journal[e] \in Int /\ Kept(e) \in Int
  BY <1>1 DEF Typed, Number, Kept
<1>3. held[e] <= Kept(e)
  BY <1>1, <1>2 DEF DocInv, CompactionsCovered, Kept, Typed, Number
<1> QED
  BY <1>1, <1>2, <1>3 DEF DocInv, WithinRevision

(* A command stays queued when another is appended, and when another was   *)
(* the head.                                                               *)
LEMMA QueuedStays ==
  ASSUME queue \in Seq(Command), NEW x
  PROVE  /\ \A c \in Command : queue' = Append(queue, c)
              => (InQueue(x) => InQueue(x)') /\ InQueue(c)'
         /\ queue # <<>> /\ queue' = Tail(queue) /\ InQueue(x) /\ Head(queue) # x
              => InQueue(x)'
<1>1. ASSUME NEW c \in Command, queue' = Append(queue, c)
      PROVE  (InQueue(x) => InQueue(x)') /\ InQueue(c)'
  <2>1. /\ Len(queue) \in Nat /\ Len(queue') = Len(queue) + 1
        /\ \A i \in 1..Len(queue) : queue'[i] = queue[i]
        /\ queue'[Len(queue) + 1] = c
    BY <1>1, AppendElements
  <2>2. InQueue(c)'
    BY <2>1 DEF InQueue
  <2>3. InQueue(x) => InQueue(x)'
    BY <2>1 DEF InQueue
  <2> QED
    BY <2>2, <2>3
<1>2. ASSUME queue # <<>>, queue' = Tail(queue), InQueue(x), Head(queue) # x
      PROVE  InQueue(x)'
  <2>1. /\ Head(queue) = queue[1] /\ Len(queue) \in Nat
        /\ Len(queue') = Len(queue) - 1
        /\ \A i \in 1..Len(queue') : queue'[i] = queue[i + 1]
    BY <1>2, TailElements
  <2>2. PICK i \in 1..Len(queue) : queue[i] = x
    BY <1>2 DEF InQueue
  <2>3. i - 1 \in 1..Len(queue')
    BY <1>2, <2>1, <2>2
  <2>4. queue'[i - 1] = x
    BY <2>1, <2>2, <2>3
  <2> QED
    BY <2>3, <2>4 DEF InQueue
<1> QED
  BY <1>1, <1>2

(* The acknowledgements that remain after one was taken or a step that     *)
(* leaves the channel alone.                                               *)
LEMMA AcksStayBelow ==
  ASSUME Typed, acks \in Seq(Ack), NEW e \in Docs, NEW r \in Int, NEW s \in Int,
         r <= s, AcksBelow(e, r),
         acks' = acks \/ (acks # <<>> /\ acks' = Tail(acks)) \/ acks' = <<>>
  PROVE  AcksBelow(e, s)'
<1>1. \A k \in 1..Len(acks) : acks[k].rev \in Int
  BY DEF Typed
<1>2. CASE acks' = acks
  BY <1>1, <1>2 DEF AcksBelow
<1>3. CASE acks # <<>> /\ acks' = Tail(acks)
  <2>1. /\ Len(acks) \in Nat /\ Len(acks') = Len(acks) - 1
        /\ \A i \in 1..Len(acks') : acks'[i] = acks[i + 1]
    BY <1>3, TailElements
  <2> QED
    BY <1>1, <2>1 DEF AcksBelow
<1>4. CASE acks' = <<>>
  BY <1>4 DEF AcksBelow
<1> QED
  BY <1>2, <1>3, <1>4

(* Steps that leave the acknowledgements and what is known of e alone, and *)
(* only add to the queue.                                                  *)
LEMMA QuietPipeline ==
  ASSUME NEW e \in Docs, PipelineDoc(e),
         UNCHANGED <<revision, dirty, saved, acks, held>>,
         staleRetry'[e] = staleRetry[e],
         pendingCheckpoints'[e] = pendingCheckpoints[e],
         mode' # "down" => mode # "down",
         \A x : InQueue(x) => InQueue(x)'
  PROVE  PipelineDoc(e)'
<1>1. InPipeline(e) => InPipeline(e)'
  BY DEF InPipeline
<1> QED
  BY <1>1 DEF PipelineDoc, AcksBelow

LEMMA EditPipeline ==
  ASSUME PipelineOK, NEW d \in Docs, Edit(d), NEW e \in Docs
  PROVE  PipelineDoc(e)'
<1> DEFINE next == revision[d] + 1
           c == Checkpoint(d, next)
<1>1. /\ Typed /\ PipelineDoc(e) /\ queue \in Seq(Command) /\ acks \in Seq(Ack)
      /\ revision[e] \in Nat /\ revision[d] \in Nat /\ saved[e] \in Int
      /\ saved[e] <= revision[e]
      /\ pendingCheckpoints[e] \in Int /\ pendingCheckpoints[e] <= revision[e]
      /\ c \in Command
  BY PipelineFacts, CommandFacts DEF Revision
<1>2. /\ revision'[e] = IF e = d THEN next ELSE revision[e]
      /\ dirty'[e] = IF e = d THEN TRUE ELSE dirty[e]
      /\ UNCHANGED <<mode, acks, held, saved, staleRetry>>
  BY DEF Edit, worker, files, PipelineOK, TypeOK, AppType
<1>3. \/ queue' = Append(queue, c) /\ pendingCheckpoints' = pendingCheckpoints
      \/ /\ queue' = queue
         /\ pendingCheckpoints'[e] = IF e = d THEN Newer(pendingCheckpoints[e], next)
                                     ELSE pendingCheckpoints[e]
  BY DEF Edit, Send, PipelineOK, TypeOK, AppType
<1>4. CASE e # d
  <2>1. \A x : InQueue(x) => InQueue(x)'
    BY <1>1, <1>3, QueuedStays DEF InQueue
  <2>2. pendingCheckpoints'[e] = pendingCheckpoints[e]
    BY <1>3, <1>4
  <2>3. InPipeline(e) => InPipeline(e)'
    BY <1>2, <1>4, <2>1, <2>2 DEF InPipeline
  <2> QED
    BY <1>1, <1>2, <1>4, <2>2, <2>3 DEF PipelineDoc, AcksBelow
<1>5. CASE e = d
  <2>1. \A k \in 1..Len(acks) : acks[k].doc = e => acks[k].rev <= revision[e]
    BY <1>1 DEF PipelineDoc, AcksBelow, Typed
  <2>2. InPipeline(e)'
    <3>1. CASE queue' = Append(queue, c)
      BY <1>1, <1>2, <1>5, <3>1, QueuedStays DEF InPipeline
    <3>2. CASE pendingCheckpoints'[e] = Newer(pendingCheckpoints[e], next)
      BY <1>1, <1>2, <1>5, <3>2 DEF InPipeline, Newer
    <3> QED
      BY <1>3, <1>5, <3>1, <3>2
  <2>3. revision'[e] = revision[e] + 1
    BY <1>2, <1>5
  <2>4. AcksBelow(e, revision[e])' /\ AcksBelow(e, revision[e] + 1)'
    BY <1>1, <1>2, <2>1, <2>3 DEF AcksBelow, Typed
  <2>5. saved'[e] < revision'[e]
    BY <1>1, <1>2, <2>3
  <2> QED
    BY <2>2, <2>4, <2>5 DEF PipelineDoc
<1> QED
  BY <1>4, <1>5

LEMMA SaveCompletedPipeline ==
  ASSUME PipelineOK, NEW d \in Docs, SaveCompleted(d), NEW e \in Docs
  PROVE  PipelineDoc(e)'
<1>1. /\ PipelineDoc(e) /\ queue \in Seq(Command)
      /\ AckSave(d, revision[d]) \in Command
  BY PipelineFacts, CommandFacts DEF Revision
<1>2. /\ dirty'[e] = IF e = d THEN FALSE ELSE dirty[e]
      /\ saved'[e] = IF e = d THEN revision[e] ELSE saved[e]
      /\ queue' = queue \/ queue' = Append(queue, AckSave(d, revision[d]))
      /\ UNCHANGED <<mode, revision, pendingCheckpoints, acks, held, staleRetry>>
  BY DEF SaveCompleted, Send, worker, PipelineOK, TypeOK, AppType, FileType
<1>3. InPipeline(e) => InPipeline(e)'
  BY <1>1, <1>2, QueuedStays DEF InPipeline, InQueue
<1> QED
  BY <1>1, <1>2, <1>3 DEF PipelineDoc, AcksBelow

(* An acknowledgement never releases the newest checkpoint of a document.  *)
LEMMA ApplyJournalAckPipeline ==
  ASSUME PipelineOK, ApplyJournalAck, NEW e \in Docs
  PROVE  PipelineDoc(e)'
<1> DEFINE a == Head(acks)
<1>1. /\ Typed /\ PipelineDoc(e) /\ acks \in Seq(Ack) /\ acks # <<>>
      /\ revision[e] \in Nat
  BY PipelineFacts DEF ApplyJournalAck
<1>2. a = acks[1] /\ a.rev \in Nat /\ 1 \in 1..Len(acks)
  BY <1>1, TailElements DEF Typed
<1>3. /\ \/ pendingCheckpoints'[e] = pendingCheckpoints[e]
         \/ /\ pendingCheckpoints'[e] = None
            /\ a.doc = e /\ pendingCheckpoints[e] <= a.rev
      /\ acks' = Tail(acks)
      /\ UNCHANGED <<mode, revision, dirty, queue, held, saved, staleRetry>>
  BY DEF ApplyJournalAck, Releases, worker, files, PipelineOK, TypeOK, AppType
<1> HIDE DEF a
<1>4. AcksBelow(e, revision[e] + 1)'
  BY <1>1, <1>3, AcksStayBelow DEF PipelineDoc
<1>5. ASSUME ~staleRetry[e], pendingCheckpoints'[e] = revision[e]
      PROVE  AcksBelow(e, revision[e])'
  BY <1>1, <1>3, <1>5, AcksStayBelow DEF PipelineDoc, None
<1>6. ASSUME ~staleRetry[e], mode # "down", dirty[e]
      PROVE  InPipeline(e)'
  <2>1. CASE pendingCheckpoints[e] = revision[e]
    <3>1. a.doc = e => a.rev < revision[e]
      BY <1>1, <1>2, <1>6, <2>1 DEF PipelineDoc, AcksBelow
    <3> QED
      BY <1>1, <1>2, <1>3, <2>1, <3>1 DEF InPipeline
  <2>2. CASE pendingCheckpoints[e] # revision[e]
    BY <1>1, <1>3, <1>6, <2>2 DEF PipelineDoc, InPipeline, InQueue
  <2> QED
    BY <2>1, <2>2
<1> QED
  BY <1>1, <1>3, <1>4, <1>5, <1>6 DEF PipelineDoc

(* A retained checkpoint that is handed over is the newest one, or the     *)
(* history variable says that it was not.                                  *)
LEMMA HandOverCheckpointPipeline ==
  ASSUME PipelineOK, NEW d \in Docs, HandOverCheckpoint(d), NEW e \in Docs,
         UNCHANGED <<mode, revision, dirty, acks, held, saved>>
  PROVE  PipelineDoc(e)'
<1> DEFINE c == Checkpoint(d, pendingCheckpoints[d])
<1>1. /\ PipelineDoc(e) /\ queue \in Seq(Command)
      /\ revision[e] \in Nat /\ pendingCheckpoints[e] \in Int
      /\ pendingCheckpoints[e] <= revision[e]
  BY PipelineFacts
<1>2. c \in Command
  BY CommandFacts DEF HandOverCheckpoint, PipelineOK, TypeOK, AppType, MaybeRevision,
                      Revision
<1>3. /\ queue' = Append(queue, c)
      /\ pendingCheckpoints'[e] = IF e = d THEN None ELSE pendingCheckpoints[e]
      /\ staleRetry[e] => staleRetry'[e]
      /\ e # d => staleRetry'[e] = staleRetry[e]
      /\ e = d /\ ~staleRetry'[e] => ~(pendingCheckpoints[e] < revision[e])
  BY DEF HandOverCheckpoint, Send, PipelineOK, TypeOK, AppType, HistoryType
<1>4. \A x : InQueue(x) \/ x = c => InQueue(x)'
  BY <1>1, <1>2, <1>3, QueuedStays
<1>5. CASE e # d
  BY <1>1, <1>3, <1>4, <1>5, QuietPipeline
<1>6. CASE e = d
  <2>1. ~staleRetry'[e] => InPipeline(e)'
    <3> SUFFICES ASSUME ~staleRetry'[e] PROVE InQueue(Checkpoint(e, revision[e]))'
      BY DEF InPipeline
    <3>1. c = Checkpoint(e, revision[e])
      BY <1>1, <1>3, <1>6
    <3> QED
      BY <1>4, <3>1 DEF InQueue
  <2>2. pendingCheckpoints'[e] # revision'[e]
    BY <1>1, <1>3, <1>6 DEF None
  <2> QED
    BY <1>1, <1>3, <2>1, <2>2 DEF PipelineDoc, AcksBelow
<1> QED
  BY <1>5, <1>6

LEMMA HandOverCompactionPipeline ==
  ASSUME PipelineOK, NEW d \in Docs, HandOverCompaction(d), NEW e \in Docs,
         UNCHANGED <<mode, revision, dirty, pendingCheckpoints, acks, held, saved,
                     staleRetry>>
  PROVE  PipelineDoc(e)'
<1> DEFINE c == AckSave(d, pendingCompactions[d])
<1>1. PipelineDoc(e) /\ queue \in Seq(Command)
  BY PipelineFacts
<1>2. c \in Command
  BY CommandFacts DEF HandOverCompaction, PipelineOK, TypeOK, AppType, MaybeRevision,
                      Revision
<1>3. queue' = Append(queue, c)
  BY DEF HandOverCompaction, Send
<1>4. \A x : InQueue(x) => InQueue(x)'
  BY <1>1, <1>2, <1>3, QueuedStays
<1> QED
  BY <1>1, <1>4, QuietPipeline

(* The worker takes a checkpoint: the newest one moves from the queue into *)
(* its map, and an older one is never behind a newest one it already holds.*)
LEMMA RecvCheckpointPipeline ==
  ASSUME PipelineOK, RecvCheckpoint, NEW e \in Docs
  PROVE  PipelineDoc(e)'
<1> DEFINE h == Head(queue)
           newest == Checkpoint(e, revision[e])
<1>1. /\ Typed /\ DocInv(e) /\ PipelineDoc(e) /\ queue \in Seq(Command)
      /\ revision[e] \in Nat /\ held[e] \in Int
      /\ queue # <<>> /\ h \in Command /\ h.op = "Checkpoint" /\ ~work.busy
  BY PipelineFacts, TailElements DEF RecvCheckpoint
<1>2. /\ held'[e] = IF e = h.doc THEN h.rev ELSE held[e]
      /\ queue' = Tail(queue)
      /\ UNCHANGED <<mode, revision, dirty, pendingCheckpoints, acks, saved, staleRetry>>
  BY <1>1, CommandFacts
  DEF RecvCheckpoint, With, app, files, PipelineOK, TypeOK, WorkerType
<1>3. Kept(e) = held[e] /\ h.rev \in Nat /\ (IsCheckpoint(h, e) <=> e = h.doc)
  BY <1>1, CommandFacts DEF Kept, Compacting, IsCheckpoint, Revision
<1>4. ASSUME ~staleRetry[e], InPipeline(e) PROVE InPipeline(e)'
  <2>1. CASE pendingCheckpoints[e] = revision[e]
    BY <1>2, <2>1 DEF InPipeline
  <2>2. CASE InQueue(newest)
    <3>1. CASE h = newest
      <4>1. h.doc = e /\ h.rev = revision[e]
        BY <3>1 DEF Checkpoint
      <4> QED
        BY <1>2, <4>1 DEF InPipeline
    <3>2. CASE h # newest
      <4>1. InQueue(newest)'
        BY <1>1, <1>2, <2>2, <3>2, QueuedStays
      <4> QED
        BY <1>2, <4>1 DEF InPipeline
    <3> QED
      BY <3>1, <3>2
  <2>3. CASE held[e] = revision[e]
    <3>1. AscendingFrom(queue, e, held[e]) /\ NoneAbove(queue, e, revision[e])
      BY <1>1, <1>3, <1>4 DEF DocInv, Ascending, WithinRevision
    <3> HIDE DEF h
    <3>2. e = h.doc => held[e] < h.rev /\ h.rev <= revision[e]
      BY <1>1, <1>3, <3>1, HeadFirst DEF h
    <3>3. e # h.doc
      BY <1>1, <1>3, <2>3, <3>2
    <3> QED
      BY <1>2, <2>3, <3>3 DEF InPipeline
  <2> QED
    BY <1>4, <2>1, <2>2, <2>3 DEF InPipeline
<1> QED
  BY <1>1, <1>2, <1>4 DEF PipelineDoc, AcksBelow

(* A compaction is for a saved revision; a dirty document is ahead of it.  *)
LEMMA RecvAckSavePipeline ==
  ASSUME PipelineOK, RecvAckSave, NEW e \in Docs
  PROVE  PipelineDoc(e)'
<1> DEFINE h == Head(queue)
           newest == Checkpoint(e, revision[e])
<1>1. /\ Typed /\ DocInv(e) /\ PipelineDoc(e) /\ queue \in Seq(Command)
      /\ revision[e] \in Nat /\ held[e] \in Int /\ saved[e] \in Int
      /\ queue # <<>> /\ h \in Command /\ h.op = "AckSave"
  BY PipelineFacts, TailElements DEF RecvAckSave
<1>2. /\ queue' = Tail(queue)
      /\ UNCHANGED <<mode, revision, dirty, pendingCheckpoints, acks, saved, staleRetry>>
  BY DEF RecvAckSave, app, files
<1>3. held'[e] = held[e] \/ (e = h.doc /\ held[e] <= h.rev)
  BY <1>1, CommandFacts
  DEF RecvAckSave, Without, Compacts, worker, PipelineOK, TypeOK, WorkerType
<1>4. h.rev \in Nat /\ (IsCompaction(h, e) <=> e = h.doc)
  BY <1>1, CommandFacts DEF IsCompaction, Revision
<1>5. h # newest
  BY <1>1 DEF Checkpoint
<1>6. InQueue(newest) => InQueue(newest)'
  BY <1>1, <1>2, <1>5, QueuedStays
<1> HIDE DEF h
<1>7. CompactsUpTo(queue, e, saved[e])
  BY <1>1 DEF DocInv, CompactionsCovered
<1>8. e = h.doc => h.rev <= saved[e]
  BY <1>1, <1>4, <1>7, HeadFirst DEF h
<1>9. dirty[e] /\ InPipeline(e) => InPipeline(e)'
  <2> SUFFICES ASSUME dirty[e], held[e] = revision[e] PROVE held'[e] = revision[e]
    BY <1>2, <1>6 DEF InPipeline
  <2>1. saved[e] < revision[e]
    BY <1>1 DEF PipelineDoc
  <2> QED
    BY <1>1, <1>3, <1>4, <1>8, <2>1
<1> QED
  BY <1>1, <1>2, <1>9 DEF PipelineDoc, AcksBelow

LEMMA RecvFlushPipeline ==
  ASSUME PipelineOK, RecvFlush, NEW e \in Docs
  PROVE  PipelineDoc(e)'
<1>1. PipelineDoc(e) /\ queue \in Seq(Command) /\ queue # <<>>
  BY PipelineFacts DEF RecvFlush
<1>2. /\ queue' = Tail(queue)
      /\ UNCHANGED <<mode, revision, dirty, pendingCheckpoints, acks, held, saved,
                     staleRetry>>
  BY DEF RecvFlush, app, files
<1>3. Head(queue) # Checkpoint(e, revision[e])
  BY DEF RecvFlush, Checkpoint
<1>4. InPipeline(e) => InPipeline(e)'
  BY <1>1, <1>2, <1>3, QueuedStays DEF InPipeline
<1> QED
  BY <1>1, <1>2, <1>4 DEF PipelineDoc, AcksBelow

(* The worker acknowledges what it holds: below a retained newest one.     *)
LEMMA PersistSucceedsPipeline ==
  ASSUME PipelineOK, PersistSucceeds, NEW e \in Docs
  PROVE  PipelineDoc(e)'
<1>1. /\ Typed /\ DocInv(e) /\ PipelineDoc(e) /\ acks \in Seq(Ack)
      /\ revision[e] \in Nat /\ held[e] \in Int /\ Kept(e) \in Int
      /\ held[e] <= Kept(e) /\ Kept(e) <= revision[e]
  BY PipelineFacts
<1>2. /\ UNCHANGED <<revision, dirty, pendingCheckpoints, queue, held, saved, staleRetry>>
      /\ mode # "down"
  BY DEF PersistSucceeds, Alive, app
<1>3. ASSUME NEW r \in Int, AcksBelow(e, r), held[e] < r PROVE AcksBelow(e, r)'
  <2>1. CASE work.cmd.op # "Checkpoint"
    BY <1>3, <2>1 DEF PersistSucceeds, AcksBelow
  <2>2. CASE work.cmd.op = "Checkpoint"
    <3> DEFINE a == [doc |-> work.cmd.doc, rev |-> work.cmd.rev]
    <3>1. acks' = Append(acks, a) /\ work.busy
      BY <2>2 DEF PersistSucceeds
    <3>2. a \in Ack
      BY <1>1, <2>2 DEF Typed, Ack, Revision
    <3>3. a.doc = e => a.rev < r
      BY <1>1, <1>3, <2>2, <3>1 DEF DocInv, WritesWhatItHolds
    <3> HIDE DEF a
    <3>4. \A k \in 1..Len(acks') : (k \in 1..Len(acks) /\ acks'[k] = acks[k]) \/ acks'[k] = a
      BY <1>1, <3>1, <3>2, AppendElements
    <3> QED
      BY <1>3, <3>3, <3>4 DEF AcksBelow
  <2> QED
    BY <2>1, <2>2
<1>4. AcksBelow(e, revision[e] + 1)'
  <2>1. PICK r \in Int : r = revision[e] + 1
    BY <1>1
  <2>2. held[e] < r /\ AcksBelow(e, r)
    BY <1>1, <2>1 DEF PipelineDoc
  <2>3. AcksBelow(e, r)'
    BY <1>3, <2>2
  <2> QED
    BY <1>2, <2>1, <2>3 DEF AcksBelow
<1>5. ASSUME ~staleRetry[e], pendingCheckpoints[e] = revision[e]
      PROVE  AcksBelow(e, revision[e])'
  <2>1. PICK r \in Int : r = revision[e]
    BY <1>1
  <2>2. held[e] < r /\ AcksBelow(e, r)
    BY <1>1, <1>5, <2>1 DEF PipelineDoc, DocInv, Ascending
  <2>3. AcksBelow(e, r)'
    BY <1>3, <2>2
  <2> QED
    BY <1>2, <2>1, <2>3 DEF AcksBelow
<1>6. InPipeline(e) => InPipeline(e)'
  BY <1>2 DEF InPipeline, InQueue
<1> QED
  BY <1>1, <1>2, <1>4, <1>5, <1>6 DEF PipelineDoc

(* A failing compaction puts back what it took; other entries stay.        *)
LEMMA PersistFailsPipeline ==
  ASSUME PipelineOK, PersistFails, NEW e \in Docs
  PROVE  PipelineDoc(e)'
<1>1. /\ PipelineDoc(e)
      /\ revision[e] \in Nat /\ held[e] \in Int /\ Kept(e) \in Int
      /\ held[e] <= Kept(e) /\ Kept(e) <= revision[e]
  BY PipelineFacts
<1>2. /\ UNCHANGED <<revision, dirty, pendingCheckpoints, queue, acks, saved, staleRetry>>
      /\ mode # "down"
  BY DEF PersistFails, Alive, app
<1>3. held'[e] = Kept(e)
  BY TypedFromTypeOK
  DEF PersistFails, Kept, Compacting, PipelineOK, TypeOK, WorkerType, Typed
<1>4. InPipeline(e) => InPipeline(e)'
  BY <1>1, <1>2, <1>3 DEF InPipeline, InQueue
<1> QED
  BY <1>1, <1>2, <1>4 DEF PipelineDoc, AcksBelow

(* A stop empties the channels; a restart shows what the worker starts     *)
(* from.                                                                   *)
LEMMA CrashPipeline ==
  ASSUME PipelineOK, Crash, NEW e \in Docs
  PROVE  PipelineDoc(e)'
<1>1. PipelineDoc(e) /\ revision[e] \in Nat
  BY PipelineFacts
<1>2. /\ mode' = "down" /\ acks' = <<>> /\ pendingCheckpoints'[e] = None
      /\ UNCHANGED <<revision, dirty, saved, staleRetry>>
  BY DEF Crash, ForgetVolatile
<1>3. \A r : AcksBelow(e, r)'
  BY <1>2 DEF AcksBelow
<1> QED
  BY <1>1, <1>2, <1>3 DEF PipelineDoc

LEMMA RestartPipeline ==
  ASSUME PipelineOK, Restart, NEW e \in Docs
  PROVE  PipelineDoc(e)'
<1>1. journal[e] \in Int /\ (journal[e] # None => journal[e] \in Nat)
  BY PipelineFacts DEF Typed, Number, None
<1>2. /\ acks' = <<>>
      /\ dirty'[e] => journal[e] # None
      /\ journal[e] # None => /\ revision'[e] = journal[e] /\ held'[e] = journal[e]
                              /\ saved'[e] = None
  BY DEF Restart, ForgetVolatile, RestoredRevision, InitialHeld
<1>3. \A r : AcksBelow(e, r)'
  BY <1>2 DEF AcksBelow
<1>4. dirty'[e] => saved'[e] < revision'[e] /\ InPipeline(e)'
  BY <1>1, <1>2 DEF InPipeline, None
<1> QED
  BY <1>3, <1>4 DEF PipelineDoc

LEMMA NextPipeline == PipelineOK /\ [Next]_vars => PipelineInv'
<1> SUFFICES ASSUME PipelineOK, [Next]_vars, NEW e \in Docs PROVE PipelineDoc(e)'
  BY DEF PipelineInv
<1>1. PipelineDoc(e) /\ queue \in Seq(Command)
  BY PipelineFacts
<1>2. CASE UserStep
  BY <1>2, EditPipeline, SaveCompletedPipeline DEF UserStep
<1>3. CASE ApplyJournalAck
  BY <1>3, ApplyJournalAckPipeline
<1>4. CASE RetryStep
  <2>1. ASSUME NEW d \in Docs, RetryCheckpoint(d) PROVE PipelineDoc(e)'
    <3>1. CASE HandOverCheckpoint(d)
      BY <2>1, <3>1, HandOverCheckpointPipeline DEF RetryCheckpoint, worker, files
    <3>2. CASE UNCHANGED <<queue, pendingCheckpoints, staleRetry>>
      BY <1>1, <2>1, <3>2, QuietPipeline DEF RetryCheckpoint, worker, files, InQueue
    <3> QED
      BY <2>1, <3>1, <3>2 DEF RetryCheckpoint
  <2>2. ASSUME NEW d \in Docs, RetryCompaction(d) PROVE PipelineDoc(e)'
    <3>1. CASE HandOverCompaction(d)
      BY <2>2, <3>1, HandOverCompactionPipeline DEF RetryCompaction, worker, files
    <3>2. CASE UNCHANGED <<queue, pendingCompactions>>
      BY <1>1, <2>2, <3>2, QuietPipeline DEF RetryCompaction, worker, files, InQueue
    <3> QED
      BY <2>2, <3>1, <3>2 DEF RetryCompaction
  <2> QED
    BY <1>4, <2>1, <2>2 DEF RetryStep
<1>5. CASE ShutdownStep
  <2>1. ASSUME NEW d \in Docs, SubmitCheckpoint(d) PROVE PipelineDoc(e)'
    BY <2>1, HandOverCheckpointPipeline DEF SubmitCheckpoint, worker, files
  <2>2. ASSUME NEW d \in Docs, SubmitCompaction(d) PROVE PipelineDoc(e)'
    BY <2>2, HandOverCompactionPipeline DEF SubmitCompaction, worker, files
  <2>3. CASE SaveState \/ Exit
    BY <1>1, <2>3, QuietPipeline DEF SaveState, Exit, app, worker, files, InQueue
  <2>4. CASE SendFlush
    <3>1. \A x : InQueue(x) => InQueue(x)'
      BY <1>1, <2>4, CommandFacts, QueuedStays DEF SendFlush, Send
    <3> QED
      BY <1>1, <2>4, <3>1, QuietPipeline DEF SendFlush, app, worker, files
  <2> QED
    BY <1>5, <2>1, <2>2, <2>3, <2>4 DEF ShutdownStep
<1>6. CASE RecvStep
  BY <1>6, RecvCheckpointPipeline, RecvAckSavePipeline, RecvFlushPipeline DEF RecvStep
<1>7. CASE PersistStep
  BY <1>7, PersistSucceedsPipeline, PersistFailsPipeline DEF PersistStep
<1>8. CASE Tick \/ BeginShutdown \/ Panic
  BY <1>1, <1>8, QuietPipeline
  DEF Tick, BeginShutdown, Panic, UiReady, app, worker, files, InQueue
<1>9. CASE Crash \/ Restart
  BY <1>9, CrashPipeline, RestartPipeline
<1>10. CASE Stopped \/ UNCHANGED vars
  BY <1>1, <1>10, QuietPipeline DEF Stopped, vars, app, worker, files, InQueue
<1> QED
  BY <1>2, <1>3, <1>4, <1>5, <1>6, <1>7, <1>8, <1>9, <1>10 DEF Next

(* The newest text of a dirty document stays in the pipeline until the     *)
(* machine stops.                                                          *)
THEOREM PipelineInvariant == Spec => []PipelineInv
<1>1. Init => PipelineInv
  <2> SUFFICES ASSUME Init, NEW e \in Docs PROVE PipelineDoc(e)
    BY DEF PipelineInv
  <2>1. /\ ~dirty[e] /\ acks = <<>>
    BY DEF Init
  <2> QED
    BY <2>1 DEF PipelineDoc, AcksBelow
<1>2. TypeOK /\ JournalInv /\ PipelineInv /\ [Next]_vars => PipelineInv'
  BY NextPipeline DEF PipelineOK
<1> QED
  BY <1>1, <1>2, TypeCorrect, JournalInvariant, PTL DEF Spec

(* While the event loop runs, the newest text of a dirty document is       *)
(* retained, queued or held by the worker, whatever persists have failed.  *)
THEOREM NewestIsNeverLost == Spec => []NewestInPipeline
<1>1. PipelineInv => NewestInPipeline
  BY DEF PipelineInv, PipelineDoc, NewestInPipeline
<1> QED
  BY <1>1, PipelineInvariant, PTL

-----------------------------------------------------------------------------
(* The end of the process: the flush is the last command.                  *)

(* Steps of App before the flush: they leave the worker and the files      *)
(* alone, and add at most one document command to the queue.               *)
LEMMA ServingFlush ==
  ASSUME TypeOK, FlushInv, mode \in {"running", "draining"},
         mode' \in {"running", "draining", "leaving"},
         UNCHANGED <<work, held, journal, faults>>,
         \/ queue' = queue
         \/ \E c \in Command : c # Flush /\ queue' = Append(queue, c)
  PROVE  FlushInv'
<1>1. \A i \in 1..Len(queue) : queue[i] # Flush
  BY DEF FlushInv
<1>2. \A i \in 1..Len(queue') : queue'[i] # Flush
  <2>1. CASE queue' = queue
    BY <1>1, <2>1
  <2>2. ASSUME NEW c \in Command, c # Flush, queue' = Append(queue, c)
        PROVE  \A i \in 1..Len(queue') : queue'[i] # Flush
    <3>1. /\ Len(queue) \in Nat /\ Len(queue') = Len(queue) + 1
          /\ \A i \in 1..Len(queue) : queue'[i] = queue[i]
          /\ queue'[Len(queue) + 1] = c
      BY <2>2, AppendElements DEF TypeOK, ChannelType
    <3> QED
      BY <1>1, <2>2, <3>1
  <2> QED
    BY <2>1, <2>2
<1> QED
  BY <1>2 DEF FlushInv

LEMMA SendFlushFlush ==
  ASSUME TypeOK, FlushInv, SendFlush
  PROVE  FlushInv'
<1>1. /\ Len(queue) \in Nat /\ Len(queue') = Len(queue) + 1
      /\ \A i \in 1..Len(queue) : queue'[i] = queue[i]
      /\ queue'[Len(queue) + 1] = Flush
  BY SendElements, CommandFacts DEF SendFlush, TypeOK
<1>2. /\ mode = "leaving" /\ mode' = "flushing"
      /\ UNCHANGED <<work, held, journal, faults>>
  BY DEF SendFlush, worker, files, counters
<1>3. \A i \in 1..Len(queue') : queue'[i] = Flush => i = Len(queue')
  BY <1>1, <1>2 DEF FlushInv
<1>4. InQueue(Flush)'
  BY <1>1 DEF InQueue
<1> QED
  BY <1>2, <1>3, <1>4 DEF FlushInv

LEMMA RecvFlushInvariant ==
  ASSUME TypeOK, FlushInv, RecvStep
  PROVE  FlushInv'
<1> DEFINE h == Head(queue)
<1>1. /\ queue \in Seq(Command) /\ queue # <<>> /\ queue' = Tail(queue)
      /\ ~work.busy /\ UNCHANGED <<mode, journal, faults>>
  BY DEF RecvStep, RecvCheckpoint, RecvAckSave, RecvFlush, TypeOK, ChannelType, files,
         counters
<1>2. /\ h \in Command /\ h = queue[1] /\ Len(queue) \in Nat \ {0}
      /\ Len(queue') = Len(queue) - 1 /\ queue' \in Seq(Command)
      /\ \A i \in 1..Len(queue') : queue'[i] = queue[i + 1]
  BY <1>1, TailElements
<1>3. \/ h.op # "Flush" /\ work' = work /\ held' = held
      \/ work'.busy /\ work'.cmd = h
  BY DEF RecvStep, RecvCheckpoint, RecvAckSave, RecvFlush, Working, worker
<1> HIDE DEF h
<1>4. \A i \in 1..Len(queue') : queue'[i] = Flush => mode' = "flushing" /\ i = Len(queue')
  <2> SUFFICES ASSUME NEW i \in 1..Len(queue'), queue'[i] = Flush
               PROVE  mode = "flushing" /\ i = Len(queue')
    BY <1>1
  <2>1. i + 1 \in 1..Len(queue) /\ queue[i + 1] = Flush
    BY <1>2
  <2>2. mode = "flushing" /\ i + 1 = Len(queue)
    BY <2>1 DEF FlushInv
  <2> QED
    BY <1>2, <2>2
<1>5. h = Flush => mode = "flushing" /\ queue' = <<>>
  <2> SUFFICES ASSUME h = Flush PROVE mode = "flushing" /\ Len(queue') = 0
    BY <1>2
  <2> QED
    BY <1>2 DEF FlushInv
<1>6. mode = "flushing" => InQueue(Flush)' \/ (work'.busy /\ work'.cmd = Flush)
  <2> SUFFICES ASSUME mode = "flushing" PROVE InQueue(Flush)' \/ h = Flush
    BY <1>3 DEF Flush
  <2>1. InQueue(Flush)
    BY <1>1 DEF FlushInv
  <2> QED
    BY <1>1, <2>1, QueuedStays DEF h
<1>7. mode \notin {"flushed", "exited"}
  BY <1>1 DEF FlushInv
<1>8. faults = 0 /\ ~work'.busy => journal = held'
  BY <1>1, <1>3 DEF FlushInv
<1>9. work'.busy /\ work'.cmd = Flush => mode' = "flushing" /\ queue' = <<>>
  BY <1>1, <1>3, <1>5
<1> QED
  BY <1>1, <1>4, <1>6, <1>7, <1>8, <1>9 DEF FlushInv

LEMMA PersistFlush ==
  ASSUME TypeOK, FlushInv, PersistStep
  PROVE  FlushInv'
<1>1. /\ queue' = queue /\ work.busy /\ ~work'.busy
      /\ mode' = IF work.cmd = Flush THEN "flushed" ELSE mode
      /\ faults' = 0 => journal' = held'
  BY BoundsAssumption
  DEF PersistStep, PersistSucceeds, PersistFails, ModeAfterPersist, Idle, TypeOK,
      HistoryType, counters
<1>2. CASE work.cmd = Flush
  BY <1>1, <1>2 DEF FlushInv
<1>3. CASE work.cmd # Flush
  BY <1>1, <1>3 DEF FlushInv, InQueue
<1> QED
  BY <1>2, <1>3

LEMMA NextFlush == TypeOK /\ FlushInv /\ [Next]_vars => FlushInv'
<1> SUFFICES ASSUME TypeOK, FlushInv, [Next]_vars PROVE FlushInv'
  OBVIOUS
<1> USE DEF worker, files, counters
<1>0. \A d \in Docs : \A r : Checkpoint(d, r) # Flush /\ AckSave(d, r) # Flush
  BY DEF Checkpoint, AckSave, Flush
<1>1. ASSUME NEW d \in Docs, HandOverCheckpoint(d)
      PROVE  \E c \in Command : c # Flush /\ queue' = Append(queue, c)
  BY <1>0, <1>1, CommandFacts
  DEF HandOverCheckpoint, Send, TypeOK, AppType, MaybeRevision, Revision
<1>2. ASSUME NEW d \in Docs, HandOverCompaction(d)
      PROVE  \E c \in Command : c # Flush /\ queue' = Append(queue, c)
  BY <1>0, <1>2, CommandFacts
  DEF HandOverCompaction, Send, TypeOK, AppType, MaybeRevision, Revision
<1>3. ASSUME NEW d \in Docs, Edit(d) PROVE FlushInv'
  <2>1. revision[d] + 1 \in Revision
    BY DEF TypeOK, AppType, Revision
  <2> QED
    BY <1>0, <1>3, <2>1, CommandFacts, ServingFlush DEF Edit, UiReady, Send
<1>4. ASSUME NEW d \in Docs, SaveCompleted(d) PROVE FlushInv'
  <2>1. revision[d] \in Revision
    BY DEF TypeOK, AppType
  <2> QED
    BY <1>0, <1>4, <2>1, CommandFacts, ServingFlush DEF SaveCompleted, UiReady, Send
<1>5. CASE RetryStep
  BY <1>1, <1>2, <1>5, ServingFlush DEF RetryStep, RetryCheckpoint, RetryCompaction
<1>6. ASSUME NEW d \in Docs, SubmitCheckpoint(d) \/ SubmitCompaction(d) PROVE FlushInv'
  BY <1>1, <1>2, <1>6, ServingFlush DEF SubmitCheckpoint, SubmitCompaction
<1>7. CASE ApplyJournalAck \/ Tick \/ BeginShutdown \/ Panic \/ SaveState
  BY <1>7, ServingFlush DEF ApplyJournalAck, Tick, BeginShutdown, Panic, SaveState, UiReady
<1>8. CASE Exit
  BY <1>8 DEF Exit, FlushInv
<1>9. CASE Crash \/ Restart
  <2>1. queue' = <<>> /\ ~work'.busy /\ mode' \in {"down", "running"} /\ held' = journal'
    BY <1>9 DEF Crash, Restart, ForgetVolatile, Idle, InitialHeld
  <2> QED
    BY <2>1 DEF FlushInv
<1>10. CASE Stopped \/ UNCHANGED vars
  BY <1>10 DEF Stopped, vars, FlushInv, InQueue
<1> QED
  BY <1>3, <1>4, <1>5, <1>6, <1>7, <1>8, <1>9, <1>10, SendFlushFlush,
     RecvFlushInvariant, PersistFlush
  DEF Next, UserStep, ShutdownStep

(* A saved document is forgotten: one lemma per kind of step.              *)
ForgettingOK == TypeOK /\ JournalInv /\ ForgettingInv

(* A command of another kind, or of another document, changes nothing.     *)
LEMMA AppendForgetting ==
  ASSUME queue \in Seq(Command), NEW e \in Docs, NEW c \in Command,
         ~IsCheckpoint(c, e), queue' = Append(queue, c),
         revision'[e] = revision[e], held'[e] = held[e]
  PROVE  /\ CompactionBehind(e) => CompactionBehind(e)'
         /\ Forgotten(e) => Forgotten(e)'
         /\ c = AckSave(e, revision[e]) => CompactionBehind(e)'
<1>1. /\ Len(queue) \in Nat /\ Len(queue') = Len(queue) + 1
      /\ \A i \in 1..Len(queue) : queue'[i] = queue[i]
      /\ queue'[Len(queue) + 1] = c
  BY AppendElements
<1>2. ASSUME NEW j \in 1..Len(queue), queue[j] = AckSave(e, revision[e]),
             \A i \in (j + 1)..Len(queue) : ~IsCheckpoint(queue[i], e)
      PROVE  CompactionBehind(e)'
  <2>1. j \in 1..Len(queue') /\ queue'[j] = AckSave(e, revision'[e])
    BY <1>1, <1>2
  <2>2. ASSUME NEW i \in (j + 1)..Len(queue') PROVE ~IsCheckpoint(queue'[i], e)
    <3>1. CASE i = Len(queue) + 1
      BY <1>1, <3>1
    <3>2. CASE i # Len(queue) + 1
      BY <1>1, <1>2, <2>2, <3>2
    <3> QED
      BY <3>1, <3>2
  <2> QED
    BY <2>1, <2>2 DEF CompactionBehind
<1>3. ASSUME Forgotten(e) PROVE Forgotten(e)'
  <2>1. ASSUME NEW i \in 1..Len(queue') PROVE ~IsCheckpoint(queue'[i], e)
    BY <1>1, <1>3 DEF Forgotten
  <2> QED
    BY <1>3, <2>1 DEF Forgotten
<1>4. ASSUME c = AckSave(e, revision[e]) PROVE CompactionBehind(e)'
  <2> DEFINE j == Len(queue) + 1
  <2>1. j \in 1..Len(queue') /\ queue'[j] = AckSave(e, revision'[e])
    BY <1>1, <1>4
  <2>2. \A i \in (j + 1)..Len(queue') : ~IsCheckpoint(queue'[i], e)
    BY <1>1
  <2> QED
    BY <2>1, <2>2 DEF CompactionBehind
<1> QED
  BY <1>2, <1>3, <1>4 DEF CompactionBehind

(* Taking the head: the compaction moves up, unless it was the head; then  *)
(* no checkpoint is left.                                                  *)
LEMMA TailForgetting ==
  ASSUME queue \in Seq(Command), queue # <<>>, queue' = Tail(queue), NEW e \in Docs,
         revision'[e] = revision[e]
  PROVE  /\ CompactionBehind(e)
              => \/ CompactionBehind(e)'
                 \/ /\ Head(queue) = AckSave(e, revision[e])
                    /\ \A i \in 1..Len(queue') : ~IsCheckpoint(queue'[i], e)
         /\ Forgotten(e) => /\ ~IsCheckpoint(Head(queue), e)
                            /\ \A i \in 1..Len(queue') : ~IsCheckpoint(queue'[i], e)
<1>1. /\ Head(queue) = queue[1] /\ Len(queue) \in Nat \ {0}
      /\ Len(queue') = Len(queue) - 1
      /\ \A i \in 1..Len(queue') : queue'[i] = queue[i + 1]
  BY TailElements
<1>2. ASSUME NEW j \in 1..Len(queue), queue[j] = AckSave(e, revision[e]),
             \A i \in (j + 1)..Len(queue) : ~IsCheckpoint(queue[i], e)
      PROVE  \/ CompactionBehind(e)'
             \/ /\ Head(queue) = AckSave(e, revision[e])
                /\ \A i \in 1..Len(queue') : ~IsCheckpoint(queue'[i], e)
  <2>1. CASE j = 1
    BY <1>1, <1>2, <2>1
  <2>2. CASE j # 1
    <3>1. j - 1 \in 1..Len(queue') /\ queue'[j - 1] = AckSave(e, revision'[e])
      BY <1>1, <1>2, <2>2
    <3>2. \A i \in ((j - 1) + 1)..Len(queue') : ~IsCheckpoint(queue'[i], e)
      BY <1>1, <1>2, <2>2
    <3> QED
      BY <3>1, <3>2 DEF CompactionBehind
  <2> QED
    BY <2>1, <2>2
<1>3. ASSUME Forgotten(e)
      PROVE  /\ ~IsCheckpoint(Head(queue), e)
             /\ \A i \in 1..Len(queue') : ~IsCheckpoint(queue'[i], e)
  BY <1>1, <1>3 DEF Forgotten
<1> QED
  BY <1>2, <1>3 DEF CompactionBehind

LEMMA ForgettingFacts ==
  ASSUME ForgettingOK, NEW e \in Docs
  PROVE  /\ Typed /\ DocInv(e) /\ ForgettingDoc(e) /\ queue \in Seq(Command)
         /\ revision[e] \in Nat /\ held[e] \in Int /\ held[e] <= revision[e]
         /\ pendingCompactions[e] \in Int /\ pendingCompactions[e] <= revision[e]
<1>1. Typed /\ DocInv(e) /\ ForgettingDoc(e) /\ queue \in Seq(Command)
  BY TypedFromTypeOK DEF ForgettingOK, JournalInv, ForgettingInv, TypeOK, ChannelType
<1>2. /\ revision[e] \in Nat /\ held[e] \in Int /\ Kept(e) \in Int /\ saved[e] \in Int
      /\ pendingCompactions[e] \in Int
  BY <1>1 DEF Typed, Number, Kept
<1>3. held[e] <= Kept(e)
  BY <1>1, <1>2 DEF DocInv, CompactionsCovered, Kept, Typed, Number
<1> QED
  BY <1>1, <1>2, <1>3 DEF DocInv, WithinRevision, CompactionsCovered

(* Steps that leave the queue and what is known of e alone.                *)
LEMMA QuietForgetting ==
  ASSUME NEW e \in Docs, ForgettingDoc(e),
         UNCHANGED <<revision, dirty, queue, held, faults>>,
         staleRetry'[e] = staleRetry[e],
         pendingCompactions'[e] = pendingCompactions[e],
         mode' # "down" => mode # "down"
  PROVE  ForgettingDoc(e)'
BY DEF ForgettingDoc, CompactionBehind, Forgotten

LEMMA EditForgetting ==
  ASSUME ForgettingOK, NEW d \in Docs, Edit(d), NEW e \in Docs
  PROVE  ForgettingDoc(e)'
<1> DEFINE c == Checkpoint(d, revision[d] + 1)
<1>1. ForgettingDoc(e) /\ queue \in Seq(Command) /\ c \in Command
  BY ForgettingFacts, CommandFacts DEF Revision
<1>2. /\ e = d => dirty'[e]
      /\ e # d => revision'[e] = revision[e] /\ dirty'[e] = dirty[e]
      /\ queue' = queue \/ queue' = Append(queue, c)
      /\ UNCHANGED <<mode, pendingCompactions, held, staleRetry, faults>>
  BY DEF Edit, Send, worker, counters, ForgettingOK, TypeOK, AppType
<1>3. e # d => ~IsCheckpoint(c, e)
  BY DEF IsCheckpoint, Checkpoint
<1> HIDE DEF c
<1>4. CASE e = d
  BY <1>2, <1>4 DEF ForgettingDoc
<1>5. CASE e # d
  <2>1. /\ CompactionBehind(e) => CompactionBehind(e)'
        /\ Forgotten(e) => Forgotten(e)'
    <3>1. CASE queue' = queue
      BY <1>2, <1>5, <3>1 DEF CompactionBehind, Forgotten
    <3>2. CASE queue' = Append(queue, c)
      BY <1>1, <1>2, <1>3, <1>5, <3>2, AppendForgetting
    <3> QED
      BY <1>2, <3>1, <3>2
  <2> QED
    BY <1>1, <1>2, <1>5, <2>1 DEF ForgettingDoc
<1> QED
  BY <1>4, <1>5

LEMMA SaveCompletedForgetting ==
  ASSUME ForgettingOK, NEW d \in Docs, SaveCompleted(d), NEW e \in Docs
  PROVE  ForgettingDoc(e)'
<1> DEFINE c == AckSave(d, revision[d])
<1>1. /\ ForgettingDoc(e) /\ queue \in Seq(Command) /\ c \in Command
      /\ revision[e] \in Nat
      /\ pendingCompactions[e] \in Int /\ pendingCompactions[e] <= revision[e]
  BY ForgettingFacts, CommandFacts DEF Revision
<1>2. /\ e # d => dirty'[e] = dirty[e] /\ pendingCompactions'[e] = pendingCompactions[e]
      /\ \/ queue' = Append(queue, c) /\ pendingCompactions' = pendingCompactions
         \/ /\ queue' = queue
            /\ e = d => pendingCompactions'[e] = Newer(pendingCompactions[e], revision[e])
      /\ UNCHANGED <<mode, revision, held, staleRetry, faults>>
      /\ mode = "running"
  BY DEF SaveCompleted, UiReady, Send, worker, counters, ForgettingOK, TypeOK, AppType
<1>3. ~IsCheckpoint(c, e)
  BY DEF IsCheckpoint, AckSave
<1>4. CASE queue' = Append(queue, c)
  <2>1. /\ CompactionBehind(e) => CompactionBehind(e)'
        /\ Forgotten(e) => Forgotten(e)'
        /\ c = AckSave(e, revision[e]) => CompactionBehind(e)'
    BY <1>1, <1>2, <1>3, <1>4, AppendForgetting
  <2> QED
    BY <1>1, <1>2, <2>1 DEF ForgettingDoc
<1>5. CASE queue' = queue /\ e = d
  BY <1>1, <1>2, <1>5 DEF ForgettingDoc, Newer, CompactionBehind, Forgotten
<1>6. CASE queue' = queue /\ e # d
  BY <1>1, <1>2, <1>6 DEF ForgettingDoc, CompactionBehind, Forgotten
<1> QED
  BY <1>2, <1>4, <1>5, <1>6

LEMMA HandOverCheckpointForgetting ==
  ASSUME ForgettingOK, NEW d \in Docs, HandOverCheckpoint(d), NEW e \in Docs,
         UNCHANGED <<mode, revision, dirty, pendingCompactions, held, faults>>
  PROVE  ForgettingDoc(e)'
<1> DEFINE c == Checkpoint(d, pendingCheckpoints[d])
<1>1. ForgettingDoc(e) /\ queue \in Seq(Command)
  BY ForgettingFacts
<1>2. c \in Command
  BY CommandFacts DEF HandOverCheckpoint, ForgettingOK, TypeOK, AppType, MaybeRevision,
                      Revision
<1>3. /\ queue' = Append(queue, c)
      /\ e # d => staleRetry'[e] = staleRetry[e]
      /\ e = d => staleRetry'[e] \/ dirty[e]
  BY DEF HandOverCheckpoint, Send, ForgettingOK, TypeOK, AppType, HistoryType
<1>4. e # d => ~IsCheckpoint(c, e)
  BY DEF IsCheckpoint, Checkpoint
<1> HIDE DEF c
<1>5. CASE e = d
  BY <1>3, <1>5 DEF ForgettingDoc
<1>6. CASE e # d
  <2>1. /\ CompactionBehind(e) => CompactionBehind(e)'
        /\ Forgotten(e) => Forgotten(e)'
    BY <1>1, <1>2, <1>3, <1>4, <1>6, AppendForgetting
  <2> QED
    BY <1>1, <1>3, <1>6, <2>1 DEF ForgettingDoc
<1> QED
  BY <1>5, <1>6

LEMMA HandOverCompactionForgetting ==
  ASSUME ForgettingOK, NEW d \in Docs, HandOverCompaction(d), NEW e \in Docs,
         UNCHANGED <<mode, revision, dirty, held, staleRetry, faults>>
  PROVE  ForgettingDoc(e)'
<1> DEFINE c == AckSave(d, pendingCompactions[d])
<1>1. ForgettingDoc(e) /\ queue \in Seq(Command)
  BY ForgettingFacts
<1>2. c \in Command
  BY CommandFacts DEF HandOverCompaction, ForgettingOK, TypeOK, AppType, MaybeRevision,
                      Revision
<1>3. /\ queue' = Append(queue, c)
      /\ e # d => pendingCompactions'[e] = pendingCompactions[e]
  BY DEF HandOverCompaction, Send, ForgettingOK, TypeOK, AppType
<1>4. ~IsCheckpoint(c, e)
  BY DEF IsCheckpoint, AckSave
<1>5. /\ CompactionBehind(e) => CompactionBehind(e)'
      /\ Forgotten(e) => Forgotten(e)'
      /\ c = AckSave(e, revision[e]) => CompactionBehind(e)'
  BY <1>1, <1>2, <1>3, <1>4, AppendForgetting
<1>6. e = d /\ pendingCompactions[e] = revision[e] => CompactionBehind(e)'
  BY <1>5
<1> QED
  BY <1>1, <1>3, <1>5, <1>6 DEF ForgettingDoc

LEMMA RecvForgetting ==
  ASSUME ForgettingOK, RecvStep, NEW e \in Docs
  PROVE  ForgettingDoc(e)'
<1> DEFINE h == Head(queue)
<1>1. /\ ForgettingDoc(e) /\ queue \in Seq(Command) /\ queue # <<>> /\ queue' = Tail(queue)
      /\ revision[e] \in Nat /\ held[e] \in Int /\ held[e] <= revision[e]
      /\ UNCHANGED <<mode, revision, dirty, pendingCompactions, staleRetry, faults>>
  BY ForgettingFacts DEF RecvStep, RecvCheckpoint, RecvAckSave, RecvFlush, app, counters
<1>2. h \in Command
  BY <1>1, TailElements
<1>3. /\ held'[e] = held[e] \/ held'[e] = None \/ IsCheckpoint(h, e)
      /\ h = AckSave(e, revision[e]) => held'[e] = None
  <2>1. held \in [Docs -> MaybeRevision]
    BY DEF ForgettingOK, TypeOK, WorkerType
  <2>2. CASE RecvCheckpoint
    BY <1>2, <2>1, <2>2, CommandFacts DEF RecvCheckpoint, With, IsCheckpoint, AckSave
  <2>3. CASE RecvAckSave
    <3>1. h.op = "AckSave" /\ h.doc \in Docs
      BY <1>2, <2>3, CommandFacts DEF RecvAckSave
    <3>2. held'[e] = held[e] \/ held'[e] = None
      BY <2>1, <2>3, <3>1 DEF RecvAckSave, Without, worker
    <3>3. ASSUME h = AckSave(e, revision[e]) PROVE held'[e] = None
      <4>1. h.doc = e /\ h.rev = revision[e]
        BY <3>3 DEF AckSave
      <4> QED
        BY <1>1, <2>1, <2>3, <4>1 DEF RecvAckSave, Without, Compacts, worker
    <3> QED
      BY <3>2, <3>3
  <2>4. CASE RecvFlush
    BY <2>4 DEF RecvFlush, AckSave
  <2> QED
    BY <2>2, <2>3, <2>4 DEF RecvStep
<1> HIDE DEF h
<1>4. /\ CompactionBehind(e)
           => \/ CompactionBehind(e)'
              \/ /\ h = AckSave(e, revision[e])
                 /\ \A i \in 1..Len(queue') : ~IsCheckpoint(queue'[i], e)
      /\ Forgotten(e) => /\ ~IsCheckpoint(h, e)
                         /\ \A i \in 1..Len(queue') : ~IsCheckpoint(queue'[i], e)
  BY <1>1, TailForgetting DEF h
<1>5. CompactionBehind(e) => CompactionBehind(e)' \/ Forgotten(e)'
  BY <1>3, <1>4 DEF Forgotten
<1>6. Forgotten(e) => Forgotten(e)'
  BY <1>3, <1>4 DEF Forgotten
<1> QED
  BY <1>1, <1>5, <1>6 DEF ForgettingDoc

LEMMA PersistForgetting ==
  ASSUME ForgettingOK, PersistStep, NEW e \in Docs
  PROVE  ForgettingDoc(e)'
<1>1. ForgettingDoc(e) /\ mode # "down"
  BY ForgettingFacts DEF PersistStep, PersistSucceeds, PersistFails, Alive
<1>2. CASE PersistSucceeds
  BY <1>1, <1>2, QuietForgetting DEF PersistSucceeds, app, counters
<1>3. CASE PersistFails
  <2>1. faults' # 0
    BY <1>3 DEF PersistFails, ForgettingOK, TypeOK, HistoryType
  <2> QED
    BY <2>1 DEF ForgettingDoc
<1> QED
  BY <1>2, <1>3 DEF PersistStep

LEMMA RestartForgetting ==
  ASSUME ForgettingOK, Restart, NEW e \in Docs
  PROVE  ForgettingDoc(e)'
<1>1. /\ queue' = <<>> /\ held'[e] = journal[e]
      /\ ~dirty'[e] => journal[e] = None
  BY DEF Restart, ForgetVolatile, InitialHeld
<1>2. ~dirty'[e] => Forgotten(e)'
  BY <1>1 DEF Forgotten
<1> QED
  BY <1>2 DEF ForgettingDoc

LEMMA NextForgetting == ForgettingOK /\ [Next]_vars => ForgettingInv'
<1> SUFFICES ASSUME ForgettingOK, [Next]_vars, NEW e \in Docs PROVE ForgettingDoc(e)'
  BY DEF ForgettingInv
<1>1. ForgettingDoc(e)
  BY ForgettingFacts
<1> USE DEF app, worker, files, counters
<1>2. CASE UserStep
  BY <1>2, EditForgetting, SaveCompletedForgetting DEF UserStep
<1>3. CASE RetryStep
  <2>1. ASSUME NEW d \in Docs, RetryCheckpoint(d) PROVE ForgettingDoc(e)'
    <3>1. CASE HandOverCheckpoint(d)
      BY <2>1, <3>1, HandOverCheckpointForgetting DEF RetryCheckpoint
    <3>2. CASE UNCHANGED <<queue, pendingCheckpoints, staleRetry>>
      BY <1>1, <2>1, <3>2, QuietForgetting DEF RetryCheckpoint
    <3> QED
      BY <2>1, <3>1, <3>2 DEF RetryCheckpoint
  <2>2. ASSUME NEW d \in Docs, RetryCompaction(d) PROVE ForgettingDoc(e)'
    <3>1. CASE HandOverCompaction(d)
      BY <2>2, <3>1, HandOverCompactionForgetting DEF RetryCompaction
    <3>2. CASE UNCHANGED <<queue, pendingCompactions>>
      BY <1>1, <2>2, <3>2, QuietForgetting DEF RetryCompaction
    <3> QED
      BY <2>2, <3>1, <3>2 DEF RetryCompaction
  <2> QED
    BY <1>3, <2>1, <2>2 DEF RetryStep
<1>4. CASE ShutdownStep
  <2>1. ASSUME NEW d \in Docs, SubmitCheckpoint(d) PROVE ForgettingDoc(e)'
    BY <2>1, HandOverCheckpointForgetting DEF SubmitCheckpoint
  <2>2. ASSUME NEW d \in Docs, SubmitCompaction(d) PROVE ForgettingDoc(e)'
    BY <2>2, HandOverCompactionForgetting DEF SubmitCompaction
  <2>3. CASE SaveState \/ Exit
    BY <1>1, <2>3, QuietForgetting DEF SaveState, Exit
  <2>4. CASE SendFlush
    <3>1. queue \in Seq(Command) /\ queue' = Append(queue, Flush) /\ Flush \in Command
      BY <2>4, ForgettingFacts, CommandFacts DEF SendFlush, Send
    <3>2. ~IsCheckpoint(Flush, e)
      BY DEF IsCheckpoint, Flush
    <3>3. UNCHANGED <<revision, dirty, pendingCompactions, held, staleRetry, faults>>
          /\ mode = "leaving"
      BY <2>4 DEF SendFlush
    <3>4. /\ CompactionBehind(e) => CompactionBehind(e)'
          /\ Forgotten(e) => Forgotten(e)'
      BY <3>1, <3>2, <3>3, AppendForgetting
    <3> QED
      BY <1>1, <3>3, <3>4 DEF ForgettingDoc
  <2> QED
    BY <1>4, <2>1, <2>2, <2>3, <2>4 DEF ShutdownStep
<1>5. CASE RecvStep \/ PersistStep \/ Restart
  BY <1>5, RecvForgetting, PersistForgetting, RestartForgetting
<1>6. CASE ApplyJournalAck \/ Tick \/ BeginShutdown \/ Panic
  BY <1>1, <1>6, QuietForgetting DEF ApplyJournalAck, Tick, BeginShutdown, Panic, UiReady
<1>7. CASE Crash
  BY <1>7 DEF Crash, ForgettingDoc
<1>8. CASE Stopped \/ UNCHANGED vars
  BY <1>1, <1>8, QuietForgetting DEF Stopped, vars
<1> QED
  BY <1>2, <1>3, <1>4, <1>5, <1>6, <1>7, <1>8 DEF Next

(* After a quit or a signal, without I/O errors, a restart shows every     *)
(* unsaved edit and no saved document as unsaved: for every number of      *)
(* documents, queue length and number of restarts.                         *)
THEOREM CleanExitLosesNothing == Spec => []CleanExitIsExact
<1>1. Init => FlushInv /\ ForgettingInv
  <2> SUFFICES ASSUME Init PROVE FlushInv /\ ForgettingInv
    OBVIOUS
  <2>1. /\ queue = <<>> /\ ~work.busy /\ mode = "running" /\ journal = held
        /\ \A e \in Docs : held[e] = None
    BY DEF Init, Idle
  <2> QED
    BY <2>1 DEF FlushInv, ForgettingInv, ForgettingDoc, Forgotten
<1>2. TypeOK /\ FlushInv /\ [Next]_vars => FlushInv'
  BY NextFlush
<1>3. TypeOK /\ JournalInv /\ ForgettingInv /\ [Next]_vars => ForgettingInv'
  BY NextForgetting DEF ForgettingOK
<1>4. TypeOK /\ PipelineInv /\ FlushInv /\ ForgettingInv => CleanExitIsExact
  <2> SUFFICES ASSUME TypeOK, PipelineInv, FlushInv, ForgettingInv,
                      mode = "exited", faults = 0, NEW d \in Docs, ~staleRetry[d],
                      pendingCheckpoints[d] = None
               PROVE  /\ dirty[d] => journal[d] = revision[d]
                      /\ ~dirty[d] /\ pendingCompactions[d] = None => journal[d] = None
    BY DEF CleanExitIsExact, CleanExitKeepsEdits, CleanExitForgetsSaved
  <2>1. queue = <<>> /\ journal = held
    BY DEF FlushInv
  <2>2. revision[d] \in Nat
    BY DEF TypeOK, AppType, Revision
  <2>3. ~InQueue(Checkpoint(d, revision[d])) /\ ~CompactionBehind(d)
    BY <2>1 DEF InQueue, CompactionBehind
  <2>4. dirty[d] => journal[d] = revision[d]
    BY <2>1, <2>2, <2>3 DEF PipelineInv, PipelineDoc, InPipeline, None
  <2>5. ~dirty[d] /\ pendingCompactions[d] = None => journal[d] = None
    BY <2>1, <2>2, <2>3 DEF ForgettingInv, ForgettingDoc, Forgotten, None
  <2> QED
    BY <2>4, <2>5
<1> QED
  BY <1>1, <1>2, <1>3, <1>4, TypeCorrect, JournalInvariant, PipelineInvariant, PTL DEF Spec
=============================================================================
