------------------------ MODULE WorkspaceFilesProofs ------------------------
(* Saving keeps its books straight and keeps its promise, for any number   *)
(* of documents and files and any capacity of the result channel.          *)
EXTENDS WorkspaceFiles, TLAPS

-----------------------------------------------------------------------------
LEMMA ConstantFacts ==
  /\ NoDoc \notin Docs /\ NoPath \notin Paths
  /\ None \in Int /\ None < 0
  /\ NoRequest.rev = None
  /\ NoRequest \notin [rev : Nat, path : Paths]
  /\ Unreadable \in Text /\ Original \in Text
BY SentinelAssumption DEF None, NoRequest, Unreadable, Original, Text

LEMMA TaskFacts ==
  ASSUME NEW d \in Docs, NEW r \in Nat, NEW p \in Paths
  PROVE  /\ Thread(d, r, p) \in SaveTask
         /\ Thread(d, r, p).doc = d
         /\ Thread(d, r, p).rev = r
         /\ Thread(d, r, p).path = p
         /\ Thread(d, r, p).stage = "writing"
         /\ Thread(d, r, p).sent = FALSE
         /\ Request(r, p) \in [rev : Nat, path : Paths]
         /\ Request(r, p).rev = r
         /\ Request(r, p) # NoRequest
BY ConstantFacts DEF Thread, SaveTask, Stage, Request

LEMMA StageFacts ==
  ASSUME NEW t \in SaveTask, NEW s \in Stage
  PROVE  /\ [t EXCEPT !.stage = s] \in SaveTask
         /\ [t EXCEPT !.stage = s].doc = t.doc
         /\ [t EXCEPT !.stage = s].rev = t.rev
         /\ [t EXCEPT !.stage = s].path = t.path
         /\ [t EXCEPT !.stage = s].stage = s
         /\ [t EXCEPT !.stage = s].sent = t.sent
         /\ [t EXCEPT !.sent = TRUE] \in SaveTask
         /\ [t EXCEPT !.sent = TRUE].doc = t.doc
         /\ [t EXCEPT !.sent = TRUE].rev = t.rev
         /\ [t EXCEPT !.sent = TRUE].path = t.path
         /\ [t EXCEPT !.sent = TRUE].stage = t.stage
BY DEF SaveTask

LEMMA TextFacts ==
  ASSUME TypeOK, NEW d \in Docs, NEW r \in Nat
  PROVE  TextAt(d, r) \in Text
BY DEF TextAt, Text, TypeOK, BufferType

-----------------------------------------------------------------------------
(* Asking for a save: what it does to the tasks, types and ages.           *)
LEMMA AskType ==
  ASSUME TypeOK, NEW d \in Docs, NEW p \in Paths, Ask(d, p)
  PROVE  SaveType' /\ users' \in [Paths -> SUBSET Docs]
<1> USE DEF TypeOK, BufferType, SaveType, FileType
<1>0. revision[d] \in Nat
  OBVIOUS
<1>1. CASE /\ inFlight' = [inFlight EXCEPT ![d] = revision[d]]
           /\ saves' = saves \cup {Thread(d, revision[d], p)}
           /\ users' = [users EXCEPT ![p] = @ \cup {d}]
           /\ UNCHANGED pending
  <2>1. Thread(d, revision[d], p) \in SaveTask
    BY <1>0, TaskFacts DEF Thread
  <2>2. inFlight' \in [Docs -> Nat \cup {None}]
    BY <1>0, <1>1
  <2>3. users' \in [Paths -> SUBSET Docs]
    BY <1>1
  <2> QED
    BY <1>1, <2>1, <2>2, <2>3
<1>2. CASE /\ pending' = [pending EXCEPT ![d] = Request(revision[d], p)]
           /\ UNCHANGED <<inFlight, saves, users>>
  BY <1>0, <1>2, TaskFacts DEF Waiting
<1> QED
  BY <1>1, <1>2 DEF Ask

(* A request is started when one task of the document ends.                *)
LEMMA StartType ==
  ASSUME TypeOK, NEW t \in saves, StartWaiting(t)
  PROVE  SaveType' /\ users' \in [Paths -> SUBSET Docs]
<1> USE DEF TypeOK, SaveType, FileType
<1> DEFINE next == pending[t.doc]
<1>0. t.doc \in Docs /\ next \in Waiting
  BY DEF SaveTask
<1>1. inFlight' \in [Docs -> Nat \cup {None}]
  BY <1>0, ConstantFacts DEF StartWaiting, Waiting, NoRequest
<1>2. pending' \in [Docs -> Waiting]
  BY <1>0 DEF StartWaiting, Waiting
<1>3. CASE next = NoRequest
  BY <1>1, <1>2, <1>3 DEF StartWaiting
<1>4. CASE next # NoRequest
  <2>1. next.rev \in Nat /\ next.path \in Paths
    BY <1>0, <1>4 DEF Waiting
  <2>2. Thread(t.doc, next.rev, next.path) \in SaveTask
    BY <1>0, <2>1, TaskFacts
  <2> QED
    BY <1>0, <1>1, <1>2, <1>4, <2>1, <2>2 DEF StartWaiting
<1> QED
  BY <1>3, <1>4

-----------------------------------------------------------------------------
(* The same two steps and the books.                                       *)
LEMMA AskBooks ==
  ASSUME TypeOK, SavingInv, up, NEW d \in Docs, NEW p \in Paths, Ask(d, p),
         UNCHANGED <<up, revision, stored>>
  PROVE  OneSavePerDocument' /\ NothingAhead'
<1> USE DEF TypeOK, BufferType, SaveType, FileType, SavingInv
<1>0. revision[d] \in Nat
  OBVIOUS
<1>1. CASE /\ inFlight[d] = None
           /\ inFlight' = [inFlight EXCEPT ![d] = revision[d]]
           /\ saves' = saves \cup {Thread(d, revision[d], p)}
           /\ UNCHANGED pending
  <2> DEFINE new == Thread(d, revision[d], p)
  <2>0. /\ new \in SaveTask /\ new.doc = d /\ new.rev = revision[d]
        /\ new.stage = "writing"
    <3> HIDE DEF TypeOK, BufferType, SaveType, FileType, SavingInv
    <3> QED
      BY <1>0, TaskFacts DEF Thread
  <2> HIDE DEF new
  <2>1. saves' = saves \cup {new}
    BY <1>1 DEF new
  <2>2. \A t \in saves : t.doc # d
    BY <1>1 DEF OneSavePerDocument
  <2>3. \A t, u \in saves' : t.doc = u.doc => t = u
    BY <2>0, <2>1, <2>2 DEF OneSavePerDocument
  <2>4. \A e \in Docs :
          /\ inFlight'[e] # None <=> \E t \in saves' : t.doc = e
          /\ \A t \in saves' : t.doc = e => inFlight'[e] = t.rev
    BY <1>0, <1>1, <2>0, <2>1, <2>2, ConstantFacts DEF OneSavePerDocument
  <2>5. \A e \in Docs : pending[e] # NoRequest =>
          inFlight'[e] # None /\ inFlight'[e] <= pending[e].rev
    BY <1>1 DEF OneSavePerDocument
  <2>6. NothingAhead'
    <3>1. stored[d] <= revision[d]
      BY DEF NothingAhead
    <3> QED
      BY <1>0, <1>1, <2>0, <2>1, <3>1 DEF NothingAhead
  <2> QED
    BY <1>1, <2>3, <2>4, <2>5, <2>6 DEF OneSavePerDocument
<1>2. CASE /\ inFlight[d] # None
           /\ pending' = [pending EXCEPT ![d] = Request(revision[d], p)]
           /\ UNCHANGED <<inFlight, saves>>
  <2>1. Request(revision[d], p).rev = revision[d]
    BY <1>0, TaskFacts DEF Thread
  <2>2. \E t \in saves : t.doc = d /\ inFlight[d] = t.rev /\ t.rev <= revision[d]
    BY <1>2 DEF OneSavePerDocument, NothingAhead
  <2>3. OneSavePerDocument'
    BY <1>2, <2>1, <2>2 DEF OneSavePerDocument
  <2>4. NothingAhead'
    BY <1>0, <1>2, <2>1 DEF NothingAhead
  <2> QED
    BY <2>3, <2>4
<1> QED
  BY <1>1, <1>2 DEF Ask

LEMMA StartBooks ==
  ASSUME TypeOK, SavingInv, up, NEW t \in saves, StartWaiting(t),
         UNCHANGED <<up, revision, stored>>
  PROVE  OneSavePerDocument' /\ NothingAhead'
<1> USE DEF TypeOK, BufferType, SaveType, FileType, SavingInv
<1> DEFINE d == t.doc
           next == pending[d]
<1>0. /\ t \in SaveTask /\ d \in Docs /\ t.rev \in Nat /\ next \in Waiting
      /\ inFlight[d] = t.rev
      /\ \A u \in saves : u.doc = d => u = t
  BY DEF SaveTask, OneSavePerDocument
<1>1. CASE next = NoRequest
  <2>1. /\ saves' = saves \ {t}
        /\ inFlight' = [inFlight EXCEPT ![d] = None]
        /\ pending' = pending
    BY <1>0, <1>1, ConstantFacts DEF StartWaiting
  <2>2. OneSavePerDocument'
    BY <1>0, <1>1, <2>1 DEF OneSavePerDocument
  <2>3. NothingAhead'
    BY <2>1 DEF NothingAhead
  <2> QED
    BY <2>2, <2>3
<1>2. CASE next # NoRequest
  <2> DEFINE new == Thread(d, next.rev, next.path)
  <2>0. next.rev \in Nat /\ next.path \in Paths
    BY <1>0, <1>2 DEF Waiting
  <2>1. /\ new \in SaveTask /\ new.doc = d /\ new.rev = next.rev
        /\ new.stage = "writing"
    <3> HIDE DEF TypeOK, BufferType, SaveType, FileType, SavingInv
    <3> QED
      BY <1>0, <2>0, TaskFacts DEF Thread
  <2>2. /\ saves' = (saves \ {t}) \cup {new}
        /\ inFlight' = [inFlight EXCEPT ![d] = next.rev]
        /\ pending' = [pending EXCEPT ![d] = NoRequest]
    BY <1>2 DEF StartWaiting
  <2>3. t.rev <= next.rev /\ next.rev <= revision[d] /\ stored[d] <= t.rev
    BY <1>0, <1>2 DEF OneSavePerDocument, NothingAhead
  <2> HIDE DEF new
  <2>4. \A u, v \in saves' : u.doc = v.doc => u = v
    BY <1>0, <2>1, <2>2 DEF OneSavePerDocument
  <2>5. \A e \in Docs :
          /\ inFlight'[e] # None <=> \E u \in saves' : u.doc = e
          /\ \A u \in saves' : u.doc = e => inFlight'[e] = u.rev
    BY <1>0, <2>0, <2>1, <2>2, ConstantFacts DEF OneSavePerDocument
  <2>6. \A e \in Docs : pending'[e] # NoRequest =>
          inFlight'[e] # None /\ inFlight'[e] <= pending'[e].rev
    BY <1>0, <2>2 DEF OneSavePerDocument
  <2>7. NothingAhead'
    <3>1. stored[d] \in Int /\ stored[d] <= next.rev
      BY <1>0, <2>0, <2>3, ConstantFacts
    <3>2. \A e \in Docs : pending'[e].rev <= revision[e]
      BY <1>0, <2>2, ConstantFacts DEF NothingAhead
    <3> QED
      BY <1>0, <2>1, <2>2, <2>3, <3>1, <3>2 DEF NothingAhead
  <2> QED
    BY <2>4, <2>5, <2>6, <2>7 DEF OneSavePerDocument
<1> QED
  BY <1>1, <1>2

(* A task moves on: same document, same revision.                          *)
LEMMA AdvanceBooks ==
  ASSUME TypeOK, OneSavePerDocument, NEW t \in saves, NEW u,
         u.doc = t.doc, u.rev = t.rev,
         saves' = (saves \ {t}) \cup {u},
         UNCHANGED <<up, inFlight, pending>>
  PROVE  OneSavePerDocument'
<1>1. \A v, w \in saves' : v.doc = w.doc => v = w
  BY DEF OneSavePerDocument
<1>2. \A e \in Docs :
        /\ (\E v \in saves' : v.doc = e) <=> (\E v \in saves : v.doc = e)
        /\ \A v \in saves' : v.doc = e => \E w \in saves : w.doc = e /\ w.rev = v.rev
  OBVIOUS
<1> QED
  BY <1>1, <1>2 DEF OneSavePerDocument

-----------------------------------------------------------------------------
LEMMA InitInv == Init => TypeOK /\ SavingInv
<1> SUFFICES ASSUME Init PROVE TypeOK /\ SavingInv
  OBVIOUS
<1> USE ConstantFacts DEF Init
<1>1. BufferType
  <2>1. kind \in [Docs -> Kind] /\ path \in [Docs -> Paths \cup {NoPath}]
    BY DEF Kind
  <2> QED
    BY <2>1 DEF BufferType, Text
<1>2. SaveType /\ ReadType /\ FileType
  BY DEF SaveType, ReadType, FileType, Waiting, NoReader, Text
<1>3. OneSavePerDocument /\ PathsKnown /\ NothingAhead
  BY DEF OneSavePerDocument, PathsKnown, NothingAhead
<1> QED
  BY <1>1, <1>2, <1>3 DEF TypeOK, SavingInv

LEMMA UserInv == TypeOK /\ SavingInv /\ UserStep => TypeOK' /\ SavingInv'
<1> SUFFICES ASSUME TypeOK, SavingInv, UserStep PROVE TypeOK' /\ SavingInv'
  OBVIOUS
<1> USE DEF buffers, coalescing, reading, files
<1>1. ASSUME NEW d \in Docs, Edit(d) PROVE TypeOK' /\ SavingInv'
  <2>1. /\ revision' \in [Docs -> Nat]
        /\ \A e \in Docs : revision[e] \in Nat /\ revision[e] <= revision'[e]
    BY <1>1 DEF Edit, TypeOK, BufferType
  <2>2. TypeOK'
    BY <1>1, <2>1
       DEF Edit, TypeOK, BufferType, SaveType, ReadType, FileType
  <2>3. OneSavePerDocument' /\ PathsKnown'
    BY <1>1 DEF Edit, SavingInv, OneSavePerDocument, PathsKnown
  <2>4. NothingAhead'
    <3>1. \A e \in Docs : stored[e] \in Int /\ pending[e].rev \in Int
      BY ConstantFacts DEF TypeOK, SaveType, FileType, Waiting
    <3>2. \A t \in saves : t.doc \in Docs /\ t.rev \in Int
      BY DEF TypeOK, SaveType, SaveTask
    <3> QED
      BY <1>1, <2>1, <3>1, <3>2 DEF Edit, SavingInv, NothingAhead
  <2> QED
    BY <2>2, <2>3, <2>4 DEF SavingInv
<1>2. ASSUME NEW d \in Docs, Save(d) PROVE TypeOK' /\ SavingInv'
  <2>1. CASE kind[d] = "saved" /\ Ask(d, path[d]) /\ UNCHANGED overlay
    <3>1. path[d] \in Paths
      BY <2>1 DEF TypeOK, BufferType, SavingInv, PathsKnown
    <3>2. SaveType' /\ users' \in [Paths -> SUBSET Docs]
      BY <2>1, <3>1, AskType
    <3>3. OneSavePerDocument' /\ NothingAhead'
      BY <1>2, <2>1, <3>1, AskBooks DEF Save
    <3>4. TypeOK'
      BY <1>2, <2>1, <3>2 DEF Save, TypeOK, BufferType, ReadType, FileType
    <3>5. PathsKnown'
      BY <1>2, <2>1 DEF Save, SavingInv, PathsKnown
    <3> QED
      BY <3>3, <3>4, <3>5 DEF SavingInv
  <2>2. CASE overlay' = d /\ UNCHANGED <<coalescing, saves, users>>
    BY <1>2, <2>2 DEF Save, TypeOK, BufferType, SaveType, ReadType, FileType,
                      SavingInv, OneSavePerDocument, PathsKnown, NothingAhead
  <2> QED
    BY <1>2, <2>1, <2>2 DEF Save
<1>3. ASSUME NEW p \in Paths, SaveAsConfirm(p) PROVE TypeOK' /\ SavingInv'
  <2>1. overlay \in Docs
    BY <1>3 DEF SaveAsConfirm, TypeOK, BufferType
  <2>2. SaveType' /\ users' \in [Paths -> SUBSET Docs]
    BY <1>3, <2>1, AskType DEF SaveAsConfirm
  <2>3. OneSavePerDocument' /\ NothingAhead'
    BY <1>3, <2>1, AskBooks DEF SaveAsConfirm
  <2>4. TypeOK'
    BY <1>3, <2>2 DEF SaveAsConfirm, TypeOK, BufferType, ReadType, FileType
  <2>5. PathsKnown'
    BY <1>3 DEF SaveAsConfirm, SavingInv, PathsKnown
  <2> QED
    BY <2>3, <2>4, <2>5 DEF SavingInv
<1>4. ASSUME NEW p \in Paths, RequestProjectFile(p) PROVE TypeOK' /\ SavingInv'
  <2>1. ReadType' /\ (reader' # NoReader => reader'.path # NoPath)
    <3>1. CASE fileFlight' = p /\ reader' = ReadThread(p) /\ UNCHANGED filePending
      <4>1. /\ ReadThread(p) \in [path : Paths \cup {NoPath}, text : Text, done : BOOLEAN]
            /\ ReadThread(p).path = p
        BY ConstantFacts DEF ReadThread
      <4> QED
        BY <3>1, <4>1, ConstantFacts DEF TypeOK, ReadType
    <3>2. CASE filePending' = p /\ UNCHANGED <<fileFlight, reader>>
      BY <3>2 DEF TypeOK, ReadType, SavingInv, PathsKnown
    <3> QED
      BY <1>4, <3>1, <3>2 DEF RequestProjectFile
  <2>2. TypeOK'
    BY <1>4, <2>1 DEF RequestProjectFile, TypeOK, BufferType, SaveType, FileType
  <2>3. SavingInv'
    BY <1>4, <2>1 DEF RequestProjectFile, SavingInv, OneSavePerDocument,
                      PathsKnown, NothingAhead
  <2> QED
    BY <2>2, <2>3
<1>5. ASSUME SaveAsCancel PROVE TypeOK' /\ SavingInv'
  BY <1>5 DEF SaveAsCancel, TypeOK, BufferType, SaveType, ReadType, FileType,
              SavingInv, OneSavePerDocument, PathsKnown, NothingAhead
<1> QED
  BY <1>1, <1>2, <1>3, <1>4, <1>5, ListedAssumption DEF UserStep

LEMMA ThreadInv ==
  ASSUME TypeOK, SavingInv, NEW t \in saves,
         Rename(t) \/ SyncParent(t) \/ SaveFails(t) \/ SendResult(t)
  PROVE  TypeOK' /\ SavingInv'
<1> USE DEF buffers, coalescing, reading, files
<1>0. /\ t \in SaveTask /\ t.doc \in Docs /\ t.rev \in Nat /\ t.path \in Paths
      /\ stored[t.doc] <= t.rev /\ t.rev <= revision[t.doc]
  BY DEF TypeOK, SaveType, SaveTask, SavingInv, NothingAhead
<1>1. CASE Rename(t)
  <2> DEFINE u == [t EXCEPT !.stage = "renamed"]
  <2>1. u \in SaveTask /\ u.doc = t.doc /\ u.rev = t.rev /\ u.stage = "renamed"
    BY <1>0, StageFacts DEF Stage
  <2>2. saves' = (saves \ {t}) \cup {u} /\ UNCHANGED <<up, inFlight, pending>>
    BY <1>1 DEF Rename, Advance
  <2> HIDE DEF u
  <2>3. OneSavePerDocument'
    BY <2>1, <2>2, AdvanceBooks DEF SavingInv
  <2>4. NothingAhead'
    BY <1>0, <1>1, <2>1, <2>2 DEF Rename, SavingInv, NothingAhead
  <2>5. PathsKnown'
    BY <1>1 DEF Rename, SavingInv, PathsKnown
  <2>6. disk' \in [Paths -> Text]
    BY <1>0, <1>1, TextFacts DEF Rename, TypeOK, FileType
  <2>7. TypeOK'
    BY <1>1, <2>1, <2>2, <2>6
       DEF Rename, TypeOK, BufferType, SaveType, ReadType, FileType
  <2> QED
    BY <2>3, <2>4, <2>5, <2>7 DEF SavingInv
<1>2. CASE SyncParent(t)
  <2> DEFINE u == [t EXCEPT !.stage = "durable"]
  <2>1. u \in SaveTask /\ u.doc = t.doc /\ u.rev = t.rev /\ u.stage = "durable"
    BY <1>0, StageFacts DEF Stage
  <2>2. saves' = (saves \ {t}) \cup {u} /\ UNCHANGED <<up, inFlight, pending>>
    BY <1>2 DEF SyncParent, Advance
  <2> HIDE DEF u
  <2>3. OneSavePerDocument'
    BY <2>1, <2>2, AdvanceBooks DEF SavingInv
  <2>4. NothingAhead'
    <3>1. /\ stored' = [stored EXCEPT ![t.doc] = t.rev]
          /\ UNCHANGED <<revision, pending>>
      BY <1>2 DEF SyncParent
    <3>2. \A v \in saves : v.doc = t.doc => v = t
      BY DEF SavingInv, OneSavePerDocument
    <3>3. stored'[t.doc] = t.rev
      BY <1>0, <3>1 DEF TypeOK, FileType
    <3>4. \A v \in saves \ {t} : v.doc \in Docs /\ stored'[v.doc] = stored[v.doc]
      BY <1>0, <3>1, <3>2 DEF TypeOK, FileType, SaveType, SaveTask
    <3>5. \A v \in saves' : /\ stored'[v.doc] <= v.rev /\ v.rev <= revision[v.doc]
                            /\ v.stage = "durable" => stored'[v.doc] = v.rev
      BY <1>0, <2>1, <2>2, <3>3, <3>4 DEF SavingInv, NothingAhead
    <3>6. \A e \in Docs : stored'[e] <= revision[e]
      BY <1>0, <3>1 DEF SavingInv, NothingAhead, TypeOK, FileType
    <3> QED
      BY <3>1, <3>5, <3>6 DEF SavingInv, NothingAhead
  <2>5. PathsKnown'
    BY <1>2 DEF SyncParent, SavingInv, PathsKnown
  <2>6. synced' \in [Paths -> Text] /\ stored' \in [Docs -> Nat \cup {None}]
    BY <1>0, <1>2 DEF SyncParent, TypeOK, FileType
  <2>7. TypeOK'
    BY <1>2, <2>1, <2>2, <2>6
       DEF SyncParent, TypeOK, BufferType, SaveType, ReadType, FileType
  <2> QED
    BY <2>3, <2>4, <2>5, <2>7 DEF SavingInv
<1>3. CASE SaveFails(t)
  <2> DEFINE u == [t EXCEPT !.stage = "failed"]
  <2>1. u \in SaveTask /\ u.doc = t.doc /\ u.rev = t.rev /\ u.stage = "failed"
    BY <1>0, StageFacts DEF Stage
  <2>2. saves' = (saves \ {t}) \cup {u} /\ UNCHANGED <<up, inFlight, pending>>
    BY <1>3 DEF SaveFails, Advance
  <2> HIDE DEF u
  <2>3. OneSavePerDocument'
    BY <2>1, <2>2, AdvanceBooks DEF SavingInv
  <2>4. NothingAhead' /\ PathsKnown'
    BY <1>0, <1>3, <2>1, <2>2 DEF SaveFails, SavingInv, NothingAhead, PathsKnown
  <2>5. TypeOK'
    BY <1>3, <2>1, <2>2
       DEF SaveFails, TypeOK, BufferType, SaveType, ReadType, FileType
  <2> QED
    BY <2>3, <2>4, <2>5 DEF SavingInv
<1>4. CASE SendResult(t)
  <2> DEFINE u == [t EXCEPT !.sent = TRUE]
  <2>1. u \in SaveTask /\ u.doc = t.doc /\ u.rev = t.rev /\ u.stage = t.stage
    BY <1>0, StageFacts DEF Stage
  <2>2. saves' = (saves \ {t}) \cup {u} /\ UNCHANGED <<up, inFlight, pending>>
    BY <1>4 DEF SendResult
  <2> HIDE DEF u
  <2>3. OneSavePerDocument'
    BY <2>1, <2>2, AdvanceBooks DEF SavingInv
  <2>4. NothingAhead' /\ PathsKnown'
    BY <1>0, <1>4, <2>1, <2>2 DEF SendResult, SavingInv, NothingAhead, PathsKnown
  <2>5. TypeOK'
    BY <1>4, <2>1, <2>2
       DEF SendResult, TypeOK, BufferType, SaveType, ReadType, FileType
  <2> QED
    BY <2>3, <2>4, <2>5 DEF SavingInv
<1> QED
  BY <1>1, <1>2, <1>3, <1>4

LEMMA DrainInv ==
  ASSUME TypeOK, SavingInv, NEW t \in saves, SaveCompleted(t)
  PROVE  TypeOK' /\ SavingInv'
<1> USE DEF reading, files
<1>0. t.doc \in Docs /\ t.path \in Paths /\ t.path # NoPath
  BY ConstantFacts DEF TypeOK, SaveType, SaveTask
<1>1. SaveType' /\ users' \in [Paths -> SUBSET Docs]
  BY StartType DEF SaveCompleted
<1>2. OneSavePerDocument' /\ NothingAhead'
  BY StartBooks DEF SaveCompleted
<1>3. /\ kind' \in [Docs -> Kind]
      /\ path' \in [Docs -> Paths \cup {NoPath}]
      /\ dirty' \in [Docs -> BOOLEAN]
  BY <1>0 DEF SaveCompleted, TypeOK, BufferType, Kind
<1>4. TypeOK'
  BY <1>1, <1>3 DEF SaveCompleted, TypeOK, BufferType, ReadType, FileType
<1>5. PathsKnown'
  BY <1>0 DEF SaveCompleted, SavingInv, PathsKnown, TypeOK, BufferType
<1> QED
  BY <1>2, <1>4, <1>5 DEF SavingInv

LEMMA ReadInv ==
  TypeOK /\ SavingInv /\ (ReadFile \/ ProjectFileLoaded) => TypeOK' /\ SavingInv'
<1> SUFFICES ASSUME TypeOK, SavingInv, ReadFile \/ ProjectFileLoaded
             PROVE  TypeOK' /\ SavingInv'
  OBVIOUS
<1> USE DEF buffers, coalescing, files
<1>1. CASE ReadFile
  <2>1. reader.path \in Paths
    BY <1>1 DEF ReadFile, SavingInv, PathsKnown, TypeOK, ReadType
  <2>2. /\ reader' \in [path : Paths \cup {NoPath}, text : Text, done : BOOLEAN]
        /\ reader'.path = reader.path
    BY <1>1, <2>1, ConstantFacts DEF ReadFile, TypeOK, ReadType, FileType
  <2>3. TypeOK'
    BY <1>1, <2>2 DEF ReadFile, TypeOK, BufferType, SaveType, ReadType, FileType
  <2>4. SavingInv'
    BY <1>1, <2>1, <2>2, ConstantFacts
       DEF ReadFile, SavingInv, OneSavePerDocument, PathsKnown, NothingAhead
  <2> QED
    BY <2>3, <2>4
<1>2. CASE ProjectFileLoaded
  <2>1. reader.path \in Paths /\ reader.text \in Text
    BY <1>2 DEF ProjectFileLoaded, SavingInv, PathsKnown, TypeOK, ReadType, NoReader
  <2>2. ReadType' /\ (reader' # NoReader => reader'.path # NoPath)
    BY <1>2, ConstantFacts
       DEF ProjectFileLoaded, StartWaitingRead, TypeOK, ReadType, ReadThread, NoReader
  <2>3. /\ kind' \in [Docs -> Kind]
        /\ path' \in [Docs -> Paths \cup {NoPath}]
        /\ base' \in [Docs -> Text]
        /\ users' \in [Paths -> SUBSET Docs]
        /\ \A d \in Docs : kind'[d] = "saved" => path'[d] # NoPath
    <3>1. CASE UNCHANGED <<kind, path, base, users>>
      BY <3>1 DEF TypeOK, BufferType, FileType, SavingInv, PathsKnown
    <3>2. ASSUME NEW d \in Docs, OpenBuffer(d)
          PROVE  /\ kind' \in [Docs -> Kind]
                 /\ path' \in [Docs -> Paths \cup {NoPath}]
                 /\ base' \in [Docs -> Text]
                 /\ users' \in [Paths -> SUBSET Docs]
                 /\ \A e \in Docs : kind'[e] = "saved" => path'[e] # NoPath
      BY <2>1, <3>2, ConstantFacts
         DEF OpenBuffer, TypeOK, BufferType, FileType, SavingInv, PathsKnown, Kind
    <3> QED
      BY <1>2, <3>1, <3>2 DEF ProjectFileLoaded
  <2>4. TypeOK'
    BY <1>2, <2>2, <2>3
       DEF ProjectFileLoaded, TypeOK, BufferType, SaveType, FileType
  <2>5. SavingInv'
    BY <1>2, <2>2, <2>3 DEF ProjectFileLoaded, SavingInv, OneSavePerDocument,
                            PathsKnown, NothingAhead
  <2> QED
    BY <2>4, <2>5
<1> QED
  BY <1>1, <1>2

LEMMA StopInv == TypeOK /\ SavingInv /\ Stop => TypeOK' /\ SavingInv'
<1> SUFFICES ASSUME TypeOK, SavingInv, Stop PROVE TypeOK' /\ SavingInv'
  OBVIOUS
<1> USE DEF buffers, coalescing, reading
<1>1. TypeOK'
  BY DEF Stop, TypeOK, BufferType, SaveType, ReadType, FileType
<1>2. SavingInv'
  BY DEF Stop, SavingInv, OneSavePerDocument, PathsKnown, NothingAhead
<1> QED
  BY <1>1, <1>2

LEMMA StepInv == TypeOK /\ SavingInv /\ [Next]_vars => TypeOK' /\ SavingInv'
<1> SUFFICES ASSUME TypeOK, SavingInv, [Next]_vars PROVE TypeOK' /\ SavingInv'
  OBVIOUS
<1>1. CASE UNCHANGED vars
  BY <1>1 DEF vars, buffers, coalescing, reading, files,
              TypeOK, BufferType, SaveType, ReadType, FileType,
              SavingInv, OneSavePerDocument, PathsKnown, NothingAhead
<1>2. ASSUME NEW d \in Docs, SaveStep(d) \/ DrainStep(d)
      PROVE  TypeOK' /\ SavingInv'
  BY <1>2, ThreadInv, DrainInv DEF SaveStep, DrainStep
<1> QED
  BY <1>1, <1>2, UserInv, ReadInv, StopInv DEF Next, Stopped

(* Type correctness.                                                       *)
THEOREM FilesTypeCorrect == Spec => []TypeOK
BY InitInv, StepInv, PTL DEF Spec

(* The books of the event loop agree with the threads; a save never        *)
(* carries a text older than the one stored or newer than the buffer's.    *)
THEOREM SavingInvariant == Spec => []SavingInv
BY InitInv, StepInv, PTL DEF Spec

-----------------------------------------------------------------------------
(* A clean document is stored.  That alone is not inductive: it needs to   *)
(* know what a save under way has written, and that a save older than its  *)
(* buffer leaves the buffer dirty.                                         *)

(* A buffer whose save is older than its text is dirty.                    *)
AgedIsDirty ==
  \A d \in Docs : dirty[d] \/
    /\ \A t \in saves : t.doc = d => t.rev = revision[d]
    /\ pending[d] # NoRequest => pending[d].rev = revision[d]

(* A document nobody opened has no text, no save and no file.              *)
UnopenedIsUnused ==
  \A d \in Docs : Open(d) \/
    /\ revision[d] = 0 /\ overlay # d
    /\ \A t \in saves : t.doc # d
    /\ \A p \in Paths : d \notin users[p]

(* What a save has written is there, unless another document writes the    *)
(* same file; what nobody uses is as it was, also in a read under way.     *)
WrittenIsThere ==
  /\ \A t \in saves :
       /\ t.doc \in users[t.path]
       /\ users[t.path] \subseteq {t.doc} =>
            /\ t.stage \in {"renamed", "durable"} => disk[t.path] = TextAt(t.doc, t.rev)
            /\ t.stage = "durable" => synced[t.path] = TextAt(t.doc, t.rev)
  /\ \A p \in Paths : users[p] = {} =>
       /\ disk[p] = Original /\ synced[p] = Original
       /\ reader.done /\ reader.path = p => reader.text \in {Original, Unreadable}

CleanInv == AgedIsDirty /\ UnopenedIsUnused /\ WrittenIsThere /\ CleanIsStored

(* The fields the books read of a save thread.                             *)
LEMMA ThreadFields ==
  ASSUME TypeOK, NEW t \in saves
  PROVE  t.doc \in Docs /\ t.rev \in Nat /\ t.path \in Paths /\ t.stage \in Stage
BY DEF TypeOK, SaveType, SaveTask

LEMMA InitClean == Init => CleanInv
<1> SUFFICES ASSUME Init PROVE CleanInv
  OBVIOUS
<1>1. AgedIsDirty
  BY ConstantFacts DEF Init, AgedIsDirty
<1>2. UnopenedIsUnused
  BY SentinelAssumption DEF Init, UnopenedIsUnused
<1>3. WrittenIsThere
  <2>1. \A p \in Paths : disk[p] = Original /\ synced[p] = Original
    BY DEF Init
  <2>2. reader.done = FALSE
    BY DEF Init, NoReader
  <2> QED
    BY <2>1, <2>2 DEF Init, WrittenIsThere
<1>4. CleanIsStored
  <2>1. \A d \in Docs : path[d] \in Paths => kind[d] = "recovered"
    BY SentinelAssumption DEF Init
  <2>2. \A d \in Docs : kind[d] = "recovered" => dirty[d]
    BY DEF Init
  <2> QED
    BY <2>1, <2>2 DEF CleanIsStored
<1> QED
  BY <1>1, <1>2, <1>3, <1>4 DEF CleanInv

(* The threads, files and texts that a step leaves alone.                  *)
LEMMA EditClean ==
  ASSUME TypeOK, CleanInv, NEW d \in Docs, Edit(d)
  PROVE  CleanInv'
<1> USE DEF files, reading, coalescing
<1>1. /\ dirty'[d] = TRUE
      /\ \A e \in Docs \ {d} : dirty'[e] = dirty[e] /\ revision'[e] = revision[e]
      /\ UNCHANGED <<kind, path, base, overlay, pending, saves, reader, disk, synced, users>>
  BY DEF Edit, TypeOK, BufferType
<1>2. AgedIsDirty'
  BY <1>1 DEF CleanInv, AgedIsDirty
<1>3. UnopenedIsUnused'
  <2>1. Open(d)
    BY DEF Edit
  <2> QED
    BY <1>1, <2>1 DEF CleanInv, UnopenedIsUnused, Open
<1>4. WrittenIsThere'
  BY <1>1 DEF CleanInv, WrittenIsThere, TextAt
<1>5. CleanIsStored'
  BY <1>1 DEF CleanInv, CleanIsStored, TextAt, Open
<1> QED
  BY <1>2, <1>3, <1>4, <1>5 DEF CleanInv

(* A new save has the buffer's text and has written nothing.               *)
LEMMA AskClean ==
  ASSUME TypeOK, CleanInv, NEW d \in Docs, NEW p \in Paths, Open(d), Ask(d, p),
         overlay' \in {overlay, NoDoc}, UNCHANGED <<buffers, reader, disk, synced>>
  PROVE  CleanInv'
<1> USE DEF buffers
<1>0. revision[d] \in Nat
  BY DEF TypeOK, BufferType
<1>1. CASE /\ saves' = saves \cup {Thread(d, revision[d], p)}
           /\ users' = [users EXCEPT ![p] = @ \cup {d}]
           /\ UNCHANGED pending
  <2> DEFINE new == Thread(d, revision[d], p)
  <2>1. /\ new.doc = d /\ new.rev = revision[d] /\ new.path = p /\ new.stage = "writing"
    BY <1>0, TaskFacts DEF Thread
  <2> HIDE DEF new
  <2>2. /\ saves' = saves \cup {new}
        /\ users'[p] = users[p] \cup {d}
        /\ \A q \in Paths \ {p} : users'[q] = users[q]
    BY <1>1 DEF new, TypeOK, FileType
  <2>3. \A q \in Paths : users[q] \subseteq users'[q]
    BY <2>2
  <2>4. AgedIsDirty'
    BY <1>1, <2>1, <2>2 DEF CleanInv, AgedIsDirty
  <2>5. UnopenedIsUnused'
    <3>1. \A e \in Docs : ~Open(e) => e # d /\ overlay' # e
      BY SentinelAssumption DEF CleanInv, UnopenedIsUnused
    <3> QED
      BY <2>1, <2>2, <3>1 DEF CleanInv, UnopenedIsUnused, Open
  <2>6. WrittenIsThere'
    <3>1. \A t \in saves : t.path \in Paths /\ t.doc \in users'[t.path]
      BY <2>3, ThreadFields DEF CleanInv, WrittenIsThere
    <3>2. \A t \in saves' : t.doc \in users'[t.path]
      BY <2>1, <2>2, <3>1
    <3>3. \A t \in saves' : t.stage \in {"renamed", "durable"} => t \in saves
      BY <2>1, <2>2
    <3>4. \A q \in Paths : users'[q] = {} => users[q] = {}
      BY <2>3
    <3> QED
      BY <2>3, <3>1, <3>2, <3>3, <3>4 DEF CleanInv, WrittenIsThere, TextAt
  <2>7. CleanIsStored'
    BY <2>3 DEF CleanInv, CleanIsStored, TextAt, Open
  <2> QED
    BY <2>4, <2>5, <2>6, <2>7 DEF CleanInv
<1>2. CASE /\ pending' = [pending EXCEPT ![d] = Request(revision[d], p)]
           /\ UNCHANGED <<saves, users>>
  <2>1. Request(revision[d], p).rev = revision[d]
    BY <1>0, TaskFacts DEF Thread
  <2>2. AgedIsDirty'
    BY <1>2, <2>1 DEF CleanInv, AgedIsDirty, TypeOK, SaveType
  <2>3. UnopenedIsUnused'
    BY <1>2, SentinelAssumption DEF CleanInv, UnopenedIsUnused, Open
  <2>4. WrittenIsThere' /\ CleanIsStored'
    BY <1>2 DEF CleanInv, WrittenIsThere, CleanIsStored, TextAt, Open
  <2> QED
    BY <2>2, <2>3, <2>4 DEF CleanInv
<1> QED
  BY <1>1, <1>2 DEF Ask

(* A thread moves on; what it wrote, if anything, is there.                *)
LEMMA ThreadClean ==
  ASSUME TypeOK, SavingInv, CleanInv, NEW t \in saves,
         Rename(t) \/ SyncParent(t) \/ SaveFails(t) \/ SendResult(t)
  PROVE  CleanInv'
<1> USE DEF buffers, coalescing, reading
<1> DEFINE text == TextAt(t.doc, t.rev)
<1>0. /\ t \in SaveTask /\ t.doc \in Docs /\ t.path \in Paths /\ t.rev \in Nat
      /\ t.doc \in users[t.path]
      /\ users[t.path] \subseteq {t.doc} =>
           /\ t.stage \in {"renamed", "durable"} => disk[t.path] = text
           /\ t.stage = "durable" => synced[t.path] = text
      /\ \A v \in saves : v.doc = t.doc => v = t
  <2>1. t \in SaveTask
    BY DEF TypeOK, SaveType
  <2>2. \A v \in saves : v.doc = t.doc => v = t
    BY DEF SavingInv, OneSavePerDocument
  <2> QED
    BY <2>1, <2>2, ThreadFields DEF CleanInv, WrittenIsThere
<1>1. PICK u :
        /\ u.doc = t.doc /\ u.rev = t.rev /\ u.path = t.path
        /\ saves' = (saves \ {t}) \cup {u}
        /\ \/ t.stage = "writing" /\ u.stage = "renamed" /\ disk' = [disk EXCEPT ![t.path] = text]
              /\ UNCHANGED synced
           \/ t.stage = "renamed" /\ u.stage = "durable" /\ synced' = [synced EXCEPT ![t.path] = disk[t.path]]
              /\ UNCHANGED disk
           \/ u.stage = "failed" /\ UNCHANGED <<disk, synced>>
           \/ u.stage = t.stage /\ UNCHANGED <<disk, synced>>
  <2>1. CASE Rename(t)
    <3> DEFINE u == [t EXCEPT !.stage = "renamed"]
    <3>1. u.doc = t.doc /\ u.rev = t.rev /\ u.path = t.path /\ u.stage = "renamed"
      BY <1>0, StageFacts DEF Stage
    <3>2. saves' = (saves \ {t}) \cup {u}
      BY <2>1 DEF Rename, Advance
    <3> HIDE DEF u
    <3> QED
      BY <2>1, <3>1, <3>2 DEF Rename, files
  <2>2. CASE SyncParent(t)
    <3> DEFINE u == [t EXCEPT !.stage = "durable"]
    <3>1. u.doc = t.doc /\ u.rev = t.rev /\ u.path = t.path /\ u.stage = "durable"
      BY <1>0, StageFacts DEF Stage
    <3>2. saves' = (saves \ {t}) \cup {u}
      BY <2>2 DEF SyncParent, Advance
    <3> HIDE DEF u
    <3> QED
      BY <2>2, <3>1, <3>2 DEF SyncParent, files
  <2>3. CASE SaveFails(t)
    <3> DEFINE u == [t EXCEPT !.stage = "failed"]
    <3>1. u.doc = t.doc /\ u.rev = t.rev /\ u.path = t.path /\ u.stage = "failed"
      BY <1>0, StageFacts DEF Stage
    <3>2. saves' = (saves \ {t}) \cup {u}
      BY <2>3 DEF SaveFails, Advance
    <3> HIDE DEF u
    <3> QED
      BY <2>3, <3>1, <3>2 DEF SaveFails, files
  <2>4. CASE SendResult(t)
    <3> DEFINE u == [t EXCEPT !.sent = TRUE]
    <3>1. u.doc = t.doc /\ u.rev = t.rev /\ u.path = t.path /\ u.stage = t.stage
      BY <1>0, StageFacts DEF Stage
    <3>2. saves' = (saves \ {t}) \cup {u}
      BY <2>4 DEF SendResult
    <3> HIDE DEF u
    <3> QED
      BY <2>4, <3>1, <3>2 DEF SendResult, files
  <2> QED
    BY <2>1, <2>2, <2>3, <2>4
<1>2. UNCHANGED <<buffers, overlay, pending, reader, users>>
  BY DEF Rename, SyncParent, SaveFails, SendResult, files
<1>3. /\ disk'[t.path] \in {disk[t.path], text}
      /\ synced'[t.path] \in {synced[t.path], disk[t.path]}
      /\ \A p \in Paths \ {t.path} : disk'[p] = disk[p] /\ synced'[p] = synced[p]
  BY <1>0, <1>1 DEF TypeOK, FileType
<1>4. users[t.path] \subseteq {t.doc} =>
        /\ u.stage \in {"renamed", "durable"} => disk'[t.path] = text
        /\ u.stage = "durable" => synced'[t.path] = text
  <2>1. u.stage = "renamed" /\ t.stage = "writing" => disk'[t.path] = text
    BY <1>0, <1>1 DEF TypeOK, FileType
  <2>2. u.stage = "durable" /\ t.stage = "renamed" => disk' = disk /\ synced'[t.path] = disk[t.path]
    BY <1>0, <1>1 DEF TypeOK, FileType
  <2> QED
    BY <1>0, <1>1, <2>1, <2>2
<1>5. AgedIsDirty'
  BY <1>1, <1>2 DEF CleanInv, AgedIsDirty
<1>6. UnopenedIsUnused'
  BY <1>1, <1>2 DEF CleanInv, UnopenedIsUnused, Open
<1>7. WrittenIsThere'
  <2>1. \A v \in saves \ {t} : /\ v.path \in Paths /\ v.doc \in users[v.path]
                               /\ v.path # t.path \/ ~(users[v.path] \subseteq {v.doc})
    BY <1>0, ThreadFields DEF CleanInv, WrittenIsThere
  <2>2. \A p \in Paths : users[p] = {} => p # t.path
    BY <1>0
  <2>3. \A v \in saves : v.rev \in Nat /\ TextAt(v.doc, v.rev)' = TextAt(v.doc, v.rev)
    BY <1>2, ThreadFields DEF TextAt
  <2>4. text' = text
    BY <1>2 DEF TextAt
  <2>5. \A v \in saves' :
          /\ v.doc \in users'[v.path]
          /\ users'[v.path] \subseteq {v.doc} =>
               /\ v.stage \in {"renamed", "durable"} => disk'[v.path] = TextAt(v.doc, v.rev)'
               /\ v.stage = "durable" => synced'[v.path] = TextAt(v.doc, v.rev)'
    <3>1. ASSUME NEW v \in saves \ {t}
          PROVE  /\ v.doc \in users'[v.path]
                 /\ users'[v.path] \subseteq {v.doc} =>
                      /\ v.stage \in {"renamed", "durable"} => disk'[v.path] = TextAt(v.doc, v.rev)'
                      /\ v.stage = "durable" => synced'[v.path] = TextAt(v.doc, v.rev)'
      BY <1>2, <1>3, <2>1, <2>3 DEF CleanInv, WrittenIsThere
    <3>2. /\ u.doc \in users'[u.path]
          /\ users'[u.path] \subseteq {u.doc} =>
               /\ u.stage \in {"renamed", "durable"} => disk'[u.path] = TextAt(u.doc, u.rev)'
               /\ u.stage = "durable" => synced'[u.path] = TextAt(u.doc, u.rev)'
      BY <1>0, <1>1, <1>2, <1>4, <2>4
    <3> QED
      BY <1>1, <3>1, <3>2
  <2>6. \A p \in Paths : users'[p] = {} =>
          /\ disk'[p] = Original /\ synced'[p] = Original
          /\ reader'.done /\ reader'.path = p => reader'.text \in {Original, Unreadable}
    BY <1>2, <1>3, <2>2 DEF CleanInv, WrittenIsThere
  <2> QED
    BY <2>5, <2>6 DEF WrittenIsThere
<1>8. CleanIsStored'
  <2> SUFFICES ASSUME NEW d \in Docs, NEW p \in Paths, Open(d), ~dirty[d], path[d] = p, users[p] \subseteq {d}
               PROVE  disk'[p] = TextAt(d, revision[d])' /\ synced'[p] = TextAt(d, revision[d])'
    BY <1>2 DEF CleanIsStored, Open
  <2>1. disk[p] = TextAt(d, revision[d]) /\ synced[p] = TextAt(d, revision[d])
    BY DEF CleanInv, CleanIsStored
  <2>2. TextAt(d, revision[d])' = TextAt(d, revision[d])
    BY <1>2 DEF TextAt
  <2>3. p = t.path => t.doc = d /\ t.rev = revision[d]
    BY <1>0 DEF CleanInv, AgedIsDirty
  <2> QED
    BY <1>3, <2>1, <2>2, <2>3
<1> QED
  BY <1>5, <1>6, <1>7, <1>8 DEF CleanInv

(* A result: a save that confirms its text makes its document clean, and   *)
(* the file it was written to is the document's.                           *)
LEMMA DrainClean ==
  ASSUME TypeOK, SavingInv, CleanInv, NEW t \in saves, SaveCompleted(t)
  PROVE  CleanInv'
<1> USE DEF reading, files
<1> DEFINE d == t.doc
           next == pending[d]
<1>0. /\ up /\ d \in Docs /\ t.path \in Paths /\ t.rev \in Nat /\ next \in Waiting
      /\ UNCHANGED <<revision, base, overlay, reader, disk, synced>>
      /\ \A v \in saves : v.doc = d => v = t
      /\ next # NoRequest => t.rev <= next.rev /\ next.rev <= revision[d]
      /\ Open(d) /\ Open(d)'
  <2>1. up /\ UNCHANGED <<revision, base, overlay, reader, disk, synced>>
    BY DEF SaveCompleted
  <2>2. d \in Docs /\ t.path \in Paths /\ t.rev \in Nat /\ next \in Waiting
    BY ThreadFields DEF TypeOK, SaveType
  <2>3. \A v \in saves : v.doc = d => v = t
    BY DEF SavingInv, OneSavePerDocument
  <2>4. next # NoRequest => t.rev <= next.rev /\ next.rev <= revision[d]
    BY <2>1, <2>2 DEF SavingInv, OneSavePerDocument, NothingAhead
  <2>5. Open(d)
    BY <2>2 DEF CleanInv, UnopenedIsUnused
  <2>6. Open(d)'
    BY <2>2, <2>5 DEF SaveCompleted, Open, TypeOK, BufferType
  <2> QED
    BY <2>1, <2>2, <2>3, <2>4, <2>5, <2>6
<1>1. /\ \A e \in Docs \ {d} : /\ dirty'[e] = dirty[e] /\ kind'[e] = kind[e] /\ path'[e] = path[e]
                               /\ pending'[e] = pending[e]
      /\ pending'[d] = NoRequest
  BY <1>0 DEF SaveCompleted, StartWaiting, TypeOK, BufferType, SaveType
<1>2. \/ dirty'[d] = dirty[d] /\ path'[d] = path[d] /\ kind'[d] = kind[d]
      \/ dirty'[d] = FALSE /\ path'[d] = t.path /\ t.stage = "durable" /\ t.rev = revision[d]
  BY <1>0 DEF SaveCompleted, Confirms, TypeOK, BufferType
<1>3. /\ \A p \in Paths : users[p] \subseteq users'[p]
      /\ \A p \in Paths : \A e \in users'[p] : e \in users[p] \/ e = d
      /\ \A v \in saves' : v \in saves \ {t}
           \/ (/\ v.doc = d /\ v.rev = next.rev /\ v.stage = "writing" /\ v.doc \in users'[v.path]
               /\ next # NoRequest)
  <2>1. CASE saves' = saves \ {t} /\ UNCHANGED users
    BY <2>1
  <2>2. CASE /\ next # NoRequest /\ saves' = (saves \ {t}) \cup {Thread(d, next.rev, next.path)}
             /\ users' = [users EXCEPT ![next.path] = @ \cup {d}]
    <3> DEFINE new == Thread(d, next.rev, next.path)
    <3>1. next.rev \in Nat /\ next.path \in Paths
      BY <1>0, <2>2 DEF Waiting
    <3>2. new.doc = d /\ new.rev = next.rev /\ new.path = next.path /\ new.stage = "writing"
      BY <1>0, <3>1, TaskFacts DEF Thread
    <3>3. users'[next.path] = users[next.path] \cup {d} /\ \A p \in Paths \ {next.path} : users'[p] = users[p]
      BY <2>2, <3>1 DEF TypeOK, FileType
    <3>4. saves' = (saves \ {t}) \cup {new}
      BY <2>2
    <3> HIDE DEF new
    <3> QED
      BY <2>2, <3>2, <3>3, <3>4
  <2> QED
    BY <2>1, <2>2 DEF SaveCompleted, StartWaiting
<1>4. AgedIsDirty'
  <2>1. ASSUME NEW e \in Docs \ {d}, ~dirty'[e]
        PROVE  /\ \A v \in saves' : v.doc = e => v.rev = revision'[e]
               /\ pending'[e] # NoRequest => pending'[e].rev = revision'[e]
    BY <1>0, <1>1, <1>3, <2>1 DEF CleanInv, AgedIsDirty
  <2>2. ASSUME ~dirty'[d] PROVE \A v \in saves' : v.doc = d => v.rev = revision'[d]
    <3>1. next # NoRequest => next.rev = revision[d]
      <4>1. next # NoRequest => next.rev \in Nat /\ revision[d] \in Nat
        BY <1>0 DEF Waiting, TypeOK, BufferType
      <4>2. ~dirty[d] \/ t.rev = revision[d]
        BY <1>2, <2>2
      <4>3. ~dirty[d] => (next # NoRequest => next.rev = revision[d])
        BY <1>0 DEF CleanInv, AgedIsDirty
      <4>4. t.rev = revision[d] => (next # NoRequest => next.rev = revision[d])
        BY <1>0, <4>1
      <4> QED
        BY <4>2, <4>3, <4>4
    <3> QED
      BY <1>0, <1>3, <3>1
  <2> QED
    BY <1>0, <1>1, <2>1, <2>2 DEF AgedIsDirty
<1>5. UnopenedIsUnused'
  BY <1>0, <1>1, <1>3 DEF CleanInv, UnopenedIsUnused, Open
<1>6. WrittenIsThere'
  <2>1. \A v \in saves : v.path \in Paths /\ TextAt(v.doc, v.rev)' = TextAt(v.doc, v.rev)
    BY <1>0, ThreadFields DEF TextAt
  <2>2. \A v \in saves' : v \in saves \/ (v.stage = "writing" /\ v.doc \in users'[v.path])
    BY <1>3
  <2>3. \A p \in Paths : users'[p] = {} => users[p] = {}
    BY <1>3
  <2> QED
    BY <1>0, <1>3, <2>1, <2>2, <2>3 DEF CleanInv, WrittenIsThere
<1>7. CleanIsStored'
  <2> SUFFICES ASSUME NEW e \in Docs, NEW p \in Paths, Open(e)', ~dirty'[e], path'[e] = p,
                      users'[p] \subseteq {e}
               PROVE  disk'[p] = TextAt(e, revision[e])' /\ synced'[p] = TextAt(e, revision[e])'
    BY DEF CleanIsStored
  <2>1. users[p] \subseteq {e}
    BY <1>3
  <2>2. TextAt(e, revision[e])' = TextAt(e, revision[e])
    BY <1>0 DEF TextAt
  <2>3. CASE /\ Open(e) /\ ~dirty[e] /\ path[e] = p
    BY <1>0, <2>1, <2>2, <2>3 DEF CleanInv, CleanIsStored
  <2>4. CASE e = d /\ p = t.path /\ t.stage = "durable" /\ t.rev = revision[d]
    BY <1>0, <2>1, <2>2, <2>4 DEF CleanInv, WrittenIsThere
  <2>5. e # d => Open(e) /\ ~dirty[e] /\ path[e] = p
    BY <1>1 DEF Open
  <2> QED
    BY <1>0, <1>2, <2>3, <2>4, <2>5
<1> QED
  BY <1>4, <1>5, <1>6, <1>7 DEF CleanInv

(* A read that nobody's save disturbs has the file's text.                 *)
LEMMA ReadClean ==
  ASSUME TypeOK, SavingInv, CleanInv, ReadFile \/ ProjectFileLoaded \/ \E p \in Paths : RequestProjectFile(p)
  PROVE  CleanInv'
<1> USE DEF coalescing, files
<1>1. CASE ReadFile \/ \E p \in Paths : RequestProjectFile(p)
  <2>1. UNCHANGED <<buffers, overlay, pending, saves, disk, synced, users>>
    BY <1>1 DEF ReadFile, RequestProjectFile
  <2>2. \A p \in Paths : users[p] = {} /\ reader'.done /\ reader'.path = p => reader'.text \in {Original, Unreadable}
    <3>1. CASE ReadFile
      <4>1. /\ reader.path \in Paths /\ reader'.path = reader.path
            /\ reader'.text \in {disk[reader.path], Unreadable}
        BY <3>1 DEF ReadFile, SavingInv, PathsKnown, TypeOK, ReadType
      <4> QED
        BY <4>1 DEF CleanInv, WrittenIsThere
    <3>2. CASE \E p \in Paths : RequestProjectFile(p)
      <4>1. reader'.done = FALSE \/ reader' = reader
        BY <3>2 DEF RequestProjectFile, ReadThread
      <4> QED
        BY <4>1 DEF CleanInv, WrittenIsThere
    <3> QED
      BY <1>1, <3>1, <3>2
  <2> QED
    BY <2>1, <2>2 DEF buffers, CleanInv, AgedIsDirty, UnopenedIsUnused, WrittenIsThere, CleanIsStored, TextAt,
       Open
<1>2. CASE ProjectFileLoaded /\ UNCHANGED <<kind, path, base, users>>
  <2>1. UNCHANGED <<buffers, overlay, pending, saves, disk, synced, users>>
    BY <1>2 DEF ProjectFileLoaded, buffers
  <2>2. reader'.done = FALSE
    BY <1>2 DEF ProjectFileLoaded, StartWaitingRead, NoReader, ReadThread
  <2> QED
    BY <2>1, <2>2 DEF buffers, CleanInv, AgedIsDirty, UnopenedIsUnused, WrittenIsThere, CleanIsStored, TextAt,
       Open
<1>3. ASSUME NEW d \in Docs, ProjectFileLoaded, reader.text # Unreadable, ~Open(d), OpenBuffer(d)
      PROVE  CleanInv'
  <2> DEFINE p == reader.path
  <2>1. /\ p \in Paths /\ reader.done /\ revision[d] = 0
        /\ \A v \in saves : v.doc # d
        /\ \A q \in Paths : d \notin users[q]
        /\ overlay # d
    BY <1>3 DEF ProjectFileLoaded, SavingInv, PathsKnown, TypeOK, ReadType, NoReader, CleanInv, UnopenedIsUnused
  <2>2. UNCHANGED <<revision, dirty, overlay, pending, saves, disk, synced>>
    BY <1>3 DEF ProjectFileLoaded
  <2>3. /\ \A e \in Docs \ {d} : kind'[e] = kind[e] /\ path'[e] = path[e] /\ base'[e] = base[e]
        /\ kind'[d] = "saved" /\ path'[d] = p /\ base'[d] = reader.text
        /\ users'[p] = users[p] \cup {d} /\ \A q \in Paths \ {p} : users'[q] = users[q]
    BY <1>3, <2>1 DEF OpenBuffer, TypeOK, BufferType, FileType
  <2>4. reader'.done = FALSE
    BY <1>3 DEF ProjectFileLoaded, StartWaitingRead, NoReader, ReadThread
  <2>5. AgedIsDirty'
    BY <2>2 DEF CleanInv, AgedIsDirty
  <2>6. UnopenedIsUnused'
    <3>1. \A e \in Docs : ~Open(e)' => e # d /\ ~Open(e)
      BY <2>3 DEF Open
    <3> QED
      BY <2>2, <2>3, <3>1 DEF CleanInv, UnopenedIsUnused
  <2>7. WrittenIsThere'
    <3>1. \A v \in saves : v.path \in Paths /\ v.doc \in Docs /\ TextAt(v.doc, v.rev)' = TextAt(v.doc, v.rev)
      BY <2>1, <2>3, ThreadFields DEF TextAt
    <3>2. \A q \in Paths : users[q] \subseteq users'[q]
      BY <2>3
    <3> QED
      BY <2>2, <2>4, <3>1, <3>2 DEF CleanInv, WrittenIsThere
  <2>8. CleanIsStored'
    <3> SUFFICES ASSUME NEW e \in Docs, NEW q \in Paths, Open(e)', ~dirty'[e], path'[e] = q,
                        users'[q] \subseteq {e}
                 PROVE  disk'[q] = TextAt(e, revision[e])' /\ synced'[q] = TextAt(e, revision[e])'
      BY DEF CleanIsStored
    <3>1. CASE e = d
      <4>1. q = p /\ users[p] = {}
        BY <2>1, <2>3, <3>1
      <4>2. reader.text = Original /\ disk[p] = Original /\ synced[p] = Original
        BY <1>3, <2>1, <4>1 DEF CleanInv, WrittenIsThere
      <4>3. TextAt(e, revision[e])' = Original
        BY <2>1, <2>2, <2>3, <3>1, <4>2 DEF TextAt
      <4> QED
        BY <2>2, <4>1, <4>2, <4>3
    <3>2. CASE e # d
      <4>1. /\ Open(e) /\ ~dirty[e] /\ path[e] = q /\ users[q] \subseteq {e}
            /\ TextAt(e, revision[e])' = TextAt(e, revision[e])
        BY <2>2, <2>3, <3>2 DEF TextAt, Open
      <4> QED
        BY <2>2, <4>1 DEF CleanInv, CleanIsStored
    <3> QED
      BY <3>1, <3>2
  <2> QED
    BY <2>5, <2>6, <2>7, <2>8 DEF CleanInv
<1> QED
  BY <1>1, <1>2, <1>3 DEF ProjectFileLoaded

(* The end, a cancelled overlay, and nothing.                              *)
LEMMA StopClean ==
  ASSUME TypeOK, CleanInv, Stop \/ SaveAsCancel \/ UNCHANGED vars
  PROVE  CleanInv'
<1> USE DEF buffers, coalescing, reading, files
<1>1. /\ UNCHANGED <<buffers, pending, reader, synced, users>>
      /\ overlay' \in {overlay, NoDoc}
      /\ saves' = saves \/ saves' = {}
      /\ UNCHANGED disk \/ (saves' = {} /\ \A p \in Paths : disk'[p] \in {disk[p], synced[p]})
  BY DEF Stop, SaveAsCancel, vars
<1>2. AgedIsDirty' /\ UnopenedIsUnused'
  BY <1>1, SentinelAssumption DEF CleanInv, AgedIsDirty, UnopenedIsUnused, Open
<1>3. WrittenIsThere' /\ CleanIsStored'
  BY <1>1 DEF CleanInv, WrittenIsThere, CleanIsStored, TextAt, Open
<1> QED
  BY <1>2, <1>3 DEF CleanInv

LEMMA StepClean == TypeOK /\ SavingInv /\ CleanInv /\ [Next]_vars => CleanInv'
<1> SUFFICES ASSUME TypeOK, SavingInv, CleanInv, [Next]_vars PROVE CleanInv'
  OBVIOUS
<1>1. ASSUME NEW d \in Docs, Save(d) PROVE CleanInv'
  <2>1. CASE kind[d] = "saved" /\ Ask(d, path[d]) /\ UNCHANGED overlay
    <3>1. path[d] \in Paths
      BY <2>1 DEF TypeOK, BufferType, SavingInv, PathsKnown
    <3> QED
      BY <1>1, <2>1, <3>1, AskClean DEF Save, reading, files
  <2>2. CASE overlay' = d /\ UNCHANGED <<coalescing, saves, users>>
    BY <1>1, <2>2 DEF Save, buffers, coalescing, reading, files, CleanInv, AgedIsDirty, UnopenedIsUnused,
       WrittenIsThere, CleanIsStored, TextAt, Open
  <2> QED
    BY <1>1, <2>1, <2>2 DEF Save
<1>2. ASSUME NEW p \in Paths, SaveAsConfirm(p) PROVE CleanInv'
  <2>1. overlay \in Docs /\ Open(overlay)
    BY <1>2 DEF SaveAsConfirm, TypeOK, BufferType, CleanInv, UnopenedIsUnused
  <2> QED
    BY <1>2, <2>1, AskClean DEF SaveAsConfirm, reading, files
<1>3. ASSUME NEW d \in Docs, SaveStep(d) \/ DrainStep(d) PROVE CleanInv'
  BY <1>3, ThreadClean, DrainClean DEF SaveStep, DrainStep
<1>4. ASSUME UserStep PROVE CleanInv'
  BY <1>1, <1>2, <1>4, EditClean, ReadClean, StopClean, ListedAssumption DEF UserStep
<1> QED
  BY <1>3, <1>4, ReadClean, StopClean DEF Next, Stopped

(* A document shown as saved is what its file holds, now and after a power *)
(* loss, unless another document was opened from or saved to that file.    *)
THEOREM CleanStaysStored == Spec => []CleanIsStored
<1>1. Init => TypeOK /\ SavingInv /\ CleanInv
  BY InitInv, InitClean
<1>2. TypeOK /\ SavingInv /\ CleanInv /\ [Next]_vars => TypeOK' /\ SavingInv' /\ CleanInv'
  BY StepInv, StepClean
<1>3. CleanInv => CleanIsStored
  BY DEF CleanInv
<1> QED
  BY <1>1, <1>2, <1>3, PTL DEF Spec

-----------------------------------------------------------------------------
(* What the threads, the channel and the drains do is what was promised.   *)
LEMMA InitPromise == Init => Promise!Init
BY DEF Init, Promise!Init, None

LEMMA StepPromise ==
  TypeOK /\ SavingInv /\ [Next]_vars => [Promise!Next]_Promise!vars
<1> SUFFICES ASSUME TypeOK, SavingInv, [Next]_vars
             PROVE  Promise!Next \/ UNCHANGED <<revision, dirty, stored>>
  BY DEF Promise!vars
<1> USE DEF buffers, coalescing, reading, files
<1>1. ASSUME NEW d \in Docs, Edit(d) PROVE Promise!Next
  BY <1>1 DEF Edit, Promise!Next, Promise!Edit
<1>2. ASSUME NEW t \in saves, SyncParent(t) PROVE Promise!Next
  <2>1. t.doc \in Docs /\ t.rev \in stored[t.doc]..revision[t.doc]
    BY ConstantFacts DEF TypeOK, BufferType, SaveType, FileType, SaveTask, SavingInv, NothingAhead
  <2> QED
    BY <1>2, <2>1 DEF SyncParent, Promise!Next, Promise!Store
<1>3. ASSUME NEW t \in saves, SaveCompleted(t)
      PROVE  Promise!Next \/ UNCHANGED <<revision, dirty, stored>>
  <2>1. CASE Confirms(t) /\ dirty' = [dirty EXCEPT ![t.doc] = FALSE]
    <3>1. t.doc \in Docs /\ stored[t.doc] = revision[t.doc]
      BY <2>1 DEF Confirms, TypeOK, SaveType, SaveTask, SavingInv, NothingAhead
    <3> QED
      BY <1>3, <2>1, <3>1 DEF SaveCompleted, Promise!Next, Promise!Confirm
  <2> QED
    BY <1>3, <2>1 DEF SaveCompleted
<1>4. ASSUME NEW d \in Docs, SaveStep(d) \/ DrainStep(d)
      PROVE  Promise!Next \/ UNCHANGED <<revision, dirty, stored>>
  BY <1>2, <1>3, <1>4 DEF SaveStep, DrainStep, Rename, SaveFails, SendResult
<1>5. UserStep => Promise!Next \/ UNCHANGED <<revision, dirty, stored>>
  BY <1>1 DEF UserStep, Save, SaveAsConfirm, SaveAsCancel, RequestProjectFile
<1>6. ReadFile \/ ProjectFileLoaded \/ Stop => UNCHANGED <<revision, dirty, stored>>
  BY DEF ReadFile, ProjectFileLoaded, Stop
<1> QED
  BY <1>4, <1>5, <1>6 DEF Next, Stopped, vars

(* Saving implements SavedDocuments: the stored text only gets newer, and  *)
(* a document becomes clean only when the text shown is the text stored.   *)
THEOREM SavesKeepThePromise == Spec => SavesAsPromised
<1>1. Spec => Promise!Init /\ [][Promise!Next]_Promise!vars
  BY InitInv, StepInv, InitPromise, StepPromise, PTL DEF Spec
<1> QED
  BY <1>1 DEF SavesAsPromised, Promise!Spec
=============================================================================
