------------------------ MODULE RemoteSessionProofs ------------------------
(***************************************************************************)
(* A connection to the helper, for any requests, streams, queues and       *)
(* budgets: the pending map holds no entry that nobody waits for, the      *)
(* types of what is on its way, what a stream hears: its first message,    *)
(* and of its end; and that no shell goes on once its stream is given up.  *)
(***************************************************************************)
EXTENDS RemoteSession, SequenceTheorems, TLAPS

-----------------------------------------------------------------------------
(* What the proof adds to PendingIsAwaited: an answer is in the channel    *)
(* only after its entry was taken from the map, so a request that has been *)
(* answered left nothing there either.                                     *)
RequestInv ==
  /\ request \in [Requests -> RequestStage]
  /\ pending \subseteq Requests
  /\ answered \subseteq Requests
  /\ \A r \in pending : request[r] \in {"sending", "awaiting"}
  /\ \A r \in answered : r \notin pending /\ request[r] \notin {"none", "checked"}

LEMMA InitialRequests == Init => RequestInv
BY DEF Init, HostInit, RequestInv, RequestStage

-----------------------------------------------------------------------------
(* A loss empties the map, and nothing else in mark_lost is about requests. *)
LEMMA LossKeepsRequests ==
  ASSUME RequestInv, pending' = {}, UNCHANGED <<answered, request>>
  PROVE  RequestInv'
BY DEF RequestInv

LEMMA StoppingKeepsRequests ==
  ASSUME RequestInv, TransportFails \/ Abort \/ Shutdown
  PROVE  RequestInv'
<1>1. CASE TransportFails
  BY <1>1, LossKeepsRequests DEF TransportFails, MarkLost, Lose
<1>2. CASE Shutdown
  BY <1>2, LossKeepsRequests DEF Shutdown, MarkLost, Lose
<1>3. CASE Abort
  <2>1. CASE MarkLost
    BY <1>3, <2>1, LossKeepsRequests DEF Abort, MarkLost, Lose
  <2>2. CASE UNCHANGED pending
    BY <1>3, <2>2 DEF Abort, RequestInv
  <2> QED BY <1>3, <2>1, <2>2 DEF Abort
<1> QED BY <1>1, <1>2, <1>3

(* The reader: an answer takes the entry away, a PTY message has nothing   *)
(* to do with requests unless it ends in a loss.                           *)
LEMMA RoutingKeepsRequests ==
  ASSUME RequestInv, RouteMessage
  PROVE  RequestInv'
<1>1. ASSUME NEW r, RouteResult(r)
      PROVE  RequestInv'
  <2>1. CASE r \in pending
    <3>1. /\ pending' = pending \ {r}
          /\ answered' = answered \cup {r}
          /\ request' = request
      BY <1>1, <2>1 DEF RouteResult
    <3> QED BY <2>1, <3>1 DEF RequestInv
  <2>2. CASE r \notin pending
    <3>1. pending' = pending /\ answered' = answered /\ request' = request
      BY <1>1, <2>2 DEF RouteResult, RequestInv
    <3> QED BY <3>1 DEF RequestInv
  <2> QED BY <2>1, <2>2
<1>2. ASSUME NEW s, NEW m, RouteOutput(s, m) \/ RouteEnd(s, m)
      PROVE  RequestInv'
  <2>1. CASE UNCHANGED <<pending, answered, request>>
    BY <2>1 DEF RequestInv
  <2>2. CASE pending' = {} /\ UNCHANGED <<answered, request>>
    BY <2>2, LossKeepsRequests
  <2>3. \/ UNCHANGED <<pending, answered, request>>
        \/ pending' = {} /\ UNCHANGED <<answered, request>>
    BY <1>2 DEF RouteOutput, RouteEnd, Routed, Overflow, Lose, hostVars, requestVars
  <2> QED BY <2>1, <2>2, <2>3
<1> DEFINE m == Head(stdout)
<1>3. RouteResult(m.id) \/ RouteOutput(m.id, m) \/ RouteEnd(m.id, m)
  BY DEF RouteMessage
<1> HIDE DEF m
<1> QED BY <1>1, <1>2, <1>3

-----------------------------------------------------------------------------
(* The steps of a request itself.                                          *)
LEMMA StagesKeepRequests ==
  ASSUME RequestInv, NEW r \in Requests, HostRequest(r)
  PROVE  RequestInv'
<1> USE DEF RequestInv, RequestStage, Settled
<1>1. CASE StartRequest(r)
  BY <1>1 DEF StartRequest
<1>2. CASE InsertRequest(r)
  <2>1. CASE request' = [request EXCEPT ![r] = "refused"] /\ UNCHANGED pending
    BY <1>2, <2>1 DEF InsertRequest
  <2>2. CASE /\ pending' = pending \cup {r}
             /\ request' = [request EXCEPT ![r] = "sending"]
    BY <1>2, <2>2 DEF InsertRequest
  <2> QED BY <1>2, <2>1, <2>2 DEF InsertRequest
<1>3. CASE SendRequest(r)
  BY <1>3 DEF SendRequest
<1>4. CASE AwaitAnswer(r)
  <2>1. CASE r \in answered /\ request' = [request EXCEPT ![r] = "answered"]
               /\ UNCHANGED pending
    BY <1>4, <2>1 DEF AwaitAnswer
  <2>2. CASE r \notin pending /\ request' = [request EXCEPT ![r] = "closed"]
               /\ UNCHANGED pending
    BY <1>4, <2>2 DEF AwaitAnswer
  <2>3. CASE GaveUp(r, "cancelled")
    BY <1>4, <2>3 DEF AwaitAnswer, GaveUp, Forgets
  <2>4. CASE GaveUp(r, "timedout")
    BY <1>4, <2>4 DEF AwaitAnswer, GaveUp, Forgets
  <2> QED BY <1>4, <2>1, <2>2, <2>3, <2>4 DEF AwaitAnswer
<1> QED BY <1>1, <1>2, <1>3, <1>4 DEF HostRequest

(* Everything else leaves requests alone.                                  *)
LEMMA OthersLeaveRequests ==
  ASSUME \/ Write
         \/ \E r \in Execs : HostExec(r)
         \/ \E s \in Ptys : HostPty(s)
         \/ HelperNext /\ UNCHANGED hostVars
         \/ LinkBreaks /\ UNCHANGED <<hostVars, helperVars>>
         \/ UNCHANGED sessionVars
  PROVE  UNCHANGED <<pending, answered, request>>
<1> USE DEF hostVars, requestVars
<1>1. ASSUME NEW r \in Execs, HostExec(r)
      PROVE  UNCHANGED <<pending, answered, request>>
  BY <1>1 DEF HostExec, CallerCancels, Forward
<1>2. ASSUME NEW s \in Ptys, HostPty(s)
      PROVE  UNCHANGED <<pending, answered, request>>
  BY <1>2 DEF HostPty, OpenPty, RegisterPty, CancelSpawn, SendSpawn, AwaitStarted,
     SendCancelPty, ReadPty, WriteInput, Resize, CancelPty, DropPty
<1> QED BY <1>1, <1>2 DEF Write, sessionVars

-----------------------------------------------------------------------------
(* No step breaks the books of the pending map.                            *)
THEOREM RequestInvariant == Spec => []RequestInv
<1>1. RequestInv /\ [Next]_sessionVars => RequestInv'
  <2> SUFFICES ASSUME RequestInv, [Next]_sessionVars
               PROVE  RequestInv'
    OBVIOUS
  <2>1. CASE UNCHANGED <<pending, answered, request>>
    BY <2>1 DEF RequestInv
  <2>2. CASE HostNext
    <3>1. CASE TransportFails \/ Abort \/ Shutdown
      BY <3>1, StoppingKeepsRequests
    <3>2. CASE RouteMessage
      BY <3>2, RoutingKeepsRequests
    <3>3. CASE \E r \in Requests : HostRequest(r)
      BY <3>3, StagesKeepRequests
    <3>4. CASE \/ Write
               \/ \E r \in Execs : HostExec(r)
               \/ \E s \in Ptys : HostPty(s)
      BY <3>4, <2>1, OthersLeaveRequests
    <3> QED BY <2>2, <3>1, <3>2, <3>3, <3>4 DEF HostNext
  <2>3. CASE \/ HelperNext /\ UNCHANGED hostVars
             \/ LinkBreaks /\ UNCHANGED <<hostVars, helperVars>>
             \/ UNCHANGED sessionVars
    BY <2>1, <2>3, OthersLeaveRequests
  <2> QED BY <2>2, <2>3 DEF Next
<1> QED BY <1>1, InitialRequests, PTL DEF Spec

(* Multiplexer::request leaves no entry behind in the pending map: whoever *)
(* is refused, cancelled, timed out, answered or cut off is not in it.     *)
THEOREM PendingIsAlwaysAwaited == Spec => []PendingIsAwaited
<1>1. RequestInv => PendingIsAwaited
  BY DEF RequestInv, PendingIsAwaited
<1> QED BY <1>1, RequestInvariant, PTL

-----------------------------------------------------------------------------
(* What the queues of the connection do to what is in them.                *)
LEMMA AppendElements ==
  ASSUME NEW T, NEW q \in Seq(T), NEW m \in T
  PROVE  /\ Append(q, m) \in Seq(T)
         /\ Len(q) \in Nat
         /\ Len(Append(q, m)) = Len(q) + 1
         /\ \A n \in 1..Len(q) : Append(q, m)[n] = q[n]
         /\ Append(q, m)[Len(q) + 1] = m
OBVIOUS

LEMMA TailElements ==
  ASSUME NEW T, NEW q \in Seq(T), q # <<>>
  PROVE  /\ Tail(q) \in Seq(T)
         /\ Head(q) \in T
         /\ Head(q) = q[1]
         /\ Len(q) \in Nat \ {0}
         /\ Len(Tail(q)) = Len(q) - 1
         /\ \A n \in 1..Len(Tail(q)) : Tail(q)[n] = q[n + 1]
OBVIOUS

LEMMA PrefixElements ==
  ASSUME NEW T, NEW q \in Seq(T), NEW p \in Prefixes(q)
  PROVE  /\ p \in Seq(T)
         /\ Len(p) <= Len(q)
         /\ \A n \in 1..Len(p) : n \in 1..Len(q) /\ p[n] = q[n]
<1>1. PICK n \in 0..Len(q) : p = SubSeq(q, 1, n)
  BY DEF Prefixes
<1>2. \A k \in 1..n : q[k] \in T
  OBVIOUS
<1>3. /\ SubSeq(q, 1, n) \in Seq(T)
      /\ Len(SubSeq(q, 1, n)) = n
      /\ \A k \in 1..n : SubSeq(q, 1, n)[k] = q[k]
  BY <1>2
<1> QED BY <1>1, <1>3

-----------------------------------------------------------------------------
(* Types.  A stream's channel carries only what is about the stream.       *)
News(s) == [kind : PtyTell, id : {s}]

StreamTypeOK == \A s \in Ptys : queue[s] \in Seq(News(s))
SessionTypeOK == TypeOK /\ StreamTypeOK

LEMMA Messages ==
  /\ \A r \in Requests :
       /\ Msg("Begin", r) \in FromHost /\ Msg("CancelExec", r) \in FromHost
       /\ Msg("Result", r) \in FromHelper
  /\ \A s \in Ptys :
       /\ \A k \in PtyAsk : Msg(k, s) \in FromHost
       /\ \A k \in PtyTell : Msg(k, s) \in FromHelper /\ Msg(k, s) \in News(s)
       /\ News(s) \subseteq FromHelper
  /\ \A m \in FromHost :
       /\ m.kind \in Ask => m.id \in Requests
       /\ m.kind \in PtyAsk => m.id \in Ptys
  /\ \A m \in FromHelper :
       /\ m = Msg(m.kind, m.id)
       /\ m.kind = "Result" => m.id \in Requests
       /\ m.kind \in PtyTell => m.id \in Ptys
  /\ Nothing \notin FromHelper /\ Nothing.kind = "None"
BY DEF Msg, FromHost, FromHelper, Ask, PtyAsk, PtyTell, News, Nothing

LEMMA Bounds ==
  /\ OutboundQueue \in Nat \ {0} /\ ReplyQueue \in Nat \ {0} /\ PipeSize \in Nat \ {0}
  /\ StreamQueue \in Nat \ {0} /\ MaxCommands \in Nat /\ MaxOutputs \in Nat
BY QueuesAssumption, HostAssumption, HelperAssumption

LEMMA InitialTypes == Init => SessionTypeOK
<1> SUFFICES ASSUME Init PROVE SessionTypeOK
  OBVIOUS
<1>1. WireTypeOK
  BY Bounds DEF Init, WireInit, WireTypeOK
<1>2. HostTypeOK
  <2>1. /\ cancelled \in [Execs -> BOOLEAN] /\ reading \in [Ptys -> BOOLEAN]
        /\ spawnToken \in [Ptys -> BOOLEAN]
    BY DEF Init, HostInit
  <2>2. queue \in [Ptys -> Seq(FromHelper)] /\ \A s \in Ptys : Len(queue[s]) <= StreamQueue
    BY Bounds DEF Init, HostInit
  <2>3. request \in [Requests -> RequestStage] /\ session \in [Ptys -> SessionStage]
    BY DEF Init, HostInit, RequestStage, SessionStage
  <2>4. commands \in [Ptys -> 0..MaxCommands]
    BY Bounds DEF Init, HostInit
  <2> QED BY <2>1, <2>2, <2>3, <2>4 DEF Init, HostInit, HostTypeOK
<1>3. HelperTypeOK
  <2>1. ptyToken \in [Ptys -> BOOLEAN] /\ cleaning \in [Ptys -> BOOLEAN]
    BY DEF Init, HelperInit
  <2>2. outputs \in [Ptys -> 0..MaxOutputs]
    BY Bounds DEF Init, HelperInit
  <2> QED BY <2>1, <2>2 DEF Init, HelperInit, HelperTypeOK
<1>4. StreamTypeOK
  BY DEF Init, HostInit, StreamTypeOK
<1> QED BY <1>1, <1>2, <1>3, <1>4 DEF SessionTypeOK, TypeOK

(* Sending keeps the queues' types.                                        *)
LEMMA SendTypes ==
  ASSUME WireTypeOK, NEW m \in FromHost, Send(m)
  PROVE  outbound' \in Seq(FromHost) /\ Len(outbound') <= OutboundQueue
BY AppendElements, Bounds DEF WireTypeOK, Send, Room

LEMMA SlotTypes ==
  ASSUME WireTypeOK, NEW m \in FromHelper, Slot, replies' = Append(replies, m)
  PROVE  replies' \in Seq(FromHelper) /\ Len(replies') <= ReplyQueue
BY AppendElements, Bounds DEF WireTypeOK, Slot

(* A message delivered to a stream.                                        *)
LEMMA DeliveryTypes ==
  ASSUME HostTypeOK, StreamTypeOK, NEW s \in Ptys, NEW m \in News(s), Deliverable(s)
  PROVE  /\ Append(queue[s], m) \in Seq(FromHelper)
         /\ Append(queue[s], m) \in Seq(News(s))
         /\ Len(Append(queue[s], m)) <= StreamQueue
<1>1. queue[s] \in Seq(News(s)) /\ queue[s] \in Seq(FromHelper) /\ m \in FromHelper
  BY Messages DEF HostTypeOK, StreamTypeOK
<1> QED BY <1>1, AppendElements, Bounds DEF Deliverable

LEMMA QueueTypes ==
  ASSUME HostTypeOK, StreamTypeOK, NEW s \in Ptys, NEW q,
         q \in Seq(News(s)), Len(q) <= StreamQueue,
         queue' = [queue EXCEPT ![s] = q]
  PROVE  /\ queue' \in [Ptys -> Seq(FromHelper)]
         /\ \A t \in Ptys : Len(queue'[t]) <= StreamQueue
         /\ StreamTypeOK'
<1>1. q \in Seq(FromHelper)
  BY Messages, SeqMonotonic
<1>2. queue \in [Ptys -> Seq(FromHelper)]
  BY DEF HostTypeOK
<1>3. \A t \in Ptys : queue'[t] = IF t = s THEN q ELSE queue[t]
  BY <1>2
<1> QED BY <1>1, <1>2, <1>3 DEF HostTypeOK, StreamTypeOK

LEMMA LossTypes ==
  ASSUME WireTypeOK, HostTypeOK, StreamTypeOK, NEW S, Lose(S)
  PROVE  /\ alive' \in BOOLEAN /\ link' \in BOOLEAN
         /\ streams' \subseteq Ptys /\ pending' \subseteq Requests
         /\ queue' \in [Ptys -> Seq(FromHelper)]
         /\ \A s \in Ptys : Len(queue'[s]) <= StreamQueue
         /\ StreamTypeOK'
         /\ outbound' \in Seq(FromHost) /\ Len(outbound') <= OutboundQueue
         /\ stdin' \in Seq(FromHost) /\ Len(stdin') <= PipeSize
         /\ replies' = replies
<1>1. ASSUME NEW s \in Ptys
      PROVE  /\ queue'[s] \in Seq(FromHelper) /\ queue'[s] \in Seq(News(s))
             /\ Len(queue'[s]) <= StreamQueue
  <2>1. queue'[s] = IF s \in S /\ Deliverable(s)
                      THEN Append(queue[s], Msg("Lost", s)) ELSE queue[s]
    BY DEF Lose
  <2>2. Msg("Lost", s) \in News(s)
    BY Messages DEF PtyTell
  <2>3. CASE Deliverable(s)
    BY <2>1, <2>2, <2>3, DeliveryTypes DEF HostTypeOK, StreamTypeOK
  <2>4. CASE ~Deliverable(s)
    BY <2>1, <2>4 DEF HostTypeOK, StreamTypeOK
  <2> QED BY <2>3, <2>4
<1>2. queue' \in [Ptys -> Seq(FromHelper)]
  BY <1>1 DEF Lose
<1>3. stdin' \in Seq(FromHost) /\ Len(stdin') <= PipeSize
  <2>1. stdin \in Seq(FromHost) /\ stdin' \in Prefixes(stdin)
    BY DEF WireTypeOK, Lose
  <2> QED BY <2>1, PrefixElements, Bounds DEF WireTypeOK
<1>4. outbound' \in Seq(FromHost) /\ Len(outbound') <= OutboundQueue
  BY EmptySeq, Bounds DEF Lose
<1> QED BY <1>1, <1>2, <1>3, <1>4 DEF Lose, StreamTypeOK

(* The steps of the host.                                                  *)
HostTypes == WireTypeOK /\ HostTypeOK /\ StreamTypeOK

LEMMA StoppingTypes ==
  ASSUME HostTypes, TransportFails \/ Abort \/ Shutdown
  PROVE  HostTypes'
<1> USE DEF HostTypes
<1>1. CASE MarkLost /\ aborting' \in BOOLEAN
             /\ UNCHANGED <<answered, request, cancelled, forwarder, reading, session,
                            spawnToken, commands>>
  <2>1. PICK S : Lose(S)
    BY <1>1 DEF MarkLost
  <2>2. stdout' \in Seq(FromHelper) /\ Len(stdout') <= PipeSize
    BY <1>1, EmptySeq, Bounds DEF MarkLost
  <2>3. WireTypeOK'
    BY <2>1, <2>2, LossTypes DEF WireTypeOK
  <2> QED BY <1>1, <2>1, <2>3, LossTypes DEF HostTypeOK
<1>2. CASE /\ aborting' = FALSE
           /\ UNCHANGED <<alive, streams, queue, pending, wire, answered, request, cancelled,
                          forwarder, reading, session, spawnToken, commands>>
  BY <1>2 DEF WireTypeOK, HostTypeOK, StreamTypeOK, wire
<1> QED BY <1>1, <1>2 DEF TransportFails, Abort, Shutdown, HostTypeOK

LEMMA WriteTypes ==
  ASSUME HostTypes, Write
  PROVE  HostTypes'
<1>1. /\ outbound \in Seq(FromHost) /\ outbound # <<>> /\ stdin \in Seq(FromHost)
      /\ Len(outbound) <= OutboundQueue
      /\ Len(stdin) < PipeSize
      /\ outbound' = Tail(outbound) /\ stdin' = Append(stdin, Head(outbound))
  BY DEF HostTypes, WireTypeOK, Write
<1>2. outbound' \in Seq(FromHost) /\ Len(outbound') <= OutboundQueue
  BY <1>1, TailElements, Bounds
<1>3. stdin' \in Seq(FromHost) /\ Len(stdin') <= PipeSize
  BY <1>1, TailElements, AppendElements, Bounds
<1> QED BY <1>2, <1>3
        DEF HostTypes, WireTypeOK, HostTypeOK, StreamTypeOK, Write, hostVars, requestVars,
            ptyVars

LEMMA RoutingTypes ==
  ASSUME HostTypes, RouteMessage
  PROVE  HostTypes'
<1> DEFINE m == Head(stdout)
<1>1. /\ stdout \in Seq(FromHelper) /\ stdout # <<>> /\ stdout' = Tail(stdout)
      /\ m \in FromHelper
  BY TailElements DEF HostTypes, WireTypeOK, RouteMessage
<1>2. stdout' \in Seq(FromHelper) /\ Len(stdout') <= PipeSize
  BY <1>1, TailElements, Bounds DEF HostTypes, WireTypeOK
<1>3. \/ m.kind = "Result" /\ RouteResult(m.id)
      \/ m.kind \in {"Started", "Output"} /\ RouteOutput(m.id, m)
      \/ m.kind \in {"Exited", "Lost"} /\ RouteEnd(m.id, m)
  BY DEF RouteMessage
<1>4. /\ m.kind = "Result" => m.id \in Requests
      /\ m.kind \in PtyTell => m.id \in Ptys /\ m \in News(m.id)
  BY <1>1, Messages
<1> HIDE DEF m
<1> USE DEF HostTypes
<1>5. CASE m.kind = "Result" /\ RouteResult(m.id)
  <2>1. pending' \subseteq Requests /\ answered' \subseteq Requests
    BY <1>4, <1>5 DEF RouteResult, HostTypeOK
  <2> QED BY <1>2, <1>5, <2>1
          DEF RouteResult, WireTypeOK, HostTypeOK, StreamTypeOK, ptyVars
<1>6. ASSUME NEW s \in Ptys, m \in News(s), s \in streams, Deliverable(s), Routed(s, m),
             streams' \subseteq Ptys
      PROVE  HostTypes'
  <2>1. /\ queue' \in [Ptys -> Seq(FromHelper)]
        /\ \A t \in Ptys : Len(queue'[t]) <= StreamQueue
        /\ StreamTypeOK'
    BY <1>6, DeliveryTypes, QueueTypes DEF Routed
  <2> QED BY <1>2, <1>6, <2>1 DEF Routed, WireTypeOK, HostTypeOK, requestVars
<1>7. ASSUME NEW s \in Ptys, RouteEnd(s, m), m \in News(s)
      PROVE  HostTypes'
  <2>1. streams' \subseteq Ptys
    BY <1>7 DEF RouteEnd, HostTypeOK
  <2>2. CASE s \in streams /\ Deliverable(s) /\ Routed(s, m)
    BY <1>6, <1>7, <2>1, <2>2
  <2>3. CASE UNCHANGED <<alive, aborting, requestVars, queue, reading, session,
                         spawnToken, commands, link, outbound, stdin, replies>>
    BY <1>2, <2>1, <2>3 DEF WireTypeOK, HostTypeOK, StreamTypeOK, requestVars
  <2> QED BY <1>7, <2>2, <2>3 DEF RouteEnd
<1>8. ASSUME NEW s \in Ptys, Overflow(s)
      PROVE  HostTypes'
  <2>1. CASE /\ Room
             /\ streams' = streams \ {s}
             /\ outbound' = Append(outbound, Msg("Cancel", s))
             /\ UNCHANGED <<alive, aborting, requestVars, queue, reading, session, spawnToken,
                            commands, link, stdin, replies>>
    <3>1. outbound' \in Seq(FromHost) /\ Len(outbound') <= OutboundQueue
      BY <2>1, AppendElements, Messages, Bounds DEF WireTypeOK, Room, PtyAsk
    <3> QED BY <1>2, <2>1, <3>1 DEF WireTypeOK, HostTypeOK, StreamTypeOK, requestVars
  <2>2. CASE /\ Lose(streams \ {s})
             /\ UNCHANGED <<aborting, answered, request, cancelled, forwarder, reading,
                            session, spawnToken, commands>>
    <3>1. WireTypeOK'
      BY <1>2, <2>2, LossTypes DEF WireTypeOK
    <3> QED BY <2>2, <3>1, LossTypes DEF HostTypeOK
  <2> QED BY <1>8, <2>1, <2>2 DEF Overflow
<1>9. ASSUME NEW s \in Ptys, RouteOutput(s, m), m \in News(s)
      PROVE  HostTypes'
  <2>1. CASE s \in streams /\ Deliverable(s) /\ Routed(s, m) /\ UNCHANGED streams
    BY <1>6, <1>9, <2>1 DEF HostTypeOK
  <2>2. CASE UNCHANGED <<hostVars, link, outbound, stdin, replies>>
    BY <1>2, <2>2 DEF WireTypeOK, HostTypeOK, StreamTypeOK, hostVars, requestVars, ptyVars
  <2> QED BY <1>8, <1>9, <2>1, <2>2 DEF RouteOutput
<1> QED BY <1>3, <1>4, <1>5, <1>7, <1>9 DEF PtyTell

LEMMA RequestTypes ==
  ASSUME HostTypes, NEW r \in Requests, HostRequest(r)
  PROVE  HostTypes'
<1> USE DEF HostTypes
<1>1. CASE UNCHANGED <<aborting, cancelled, answered, ptyVars, alive, wire>>
             /\ pending' \subseteq Requests
             /\ request' \in [Requests -> RequestStage]
             /\ forwarder' \in [Execs -> {"none", "watching", "done"}]
  BY <1>1 DEF WireTypeOK, HostTypeOK, StreamTypeOK, wire, ptyVars
<1>2. CASE StartRequest(r)
  <2>1. request' \in [Requests -> RequestStage]
    BY <1>2 DEF StartRequest, HostTypeOK, RequestStage
  <2>2. forwarder' \in [Execs -> {"none", "watching", "done"}]
    BY <1>2 DEF StartRequest, HostTypeOK
  <2> QED BY <1>1, <1>2, <2>1, <2>2 DEF StartRequest, HostTypeOK
<1>3. CASE InsertRequest(r)
  <2>1. request' \in [Requests -> RequestStage] /\ pending' \subseteq Requests
    BY <1>3 DEF InsertRequest, HostTypeOK, RequestStage, Settled
  <2> QED BY <1>1, <1>3, <2>1 DEF InsertRequest, HostTypeOK
<1>4. CASE SendRequest(r)
  <2>1. request' \in [Requests -> RequestStage] /\ pending' \subseteq Requests
    BY <1>4 DEF SendRequest, HostTypeOK, RequestStage, Settled
  <2>2. outbound' \in Seq(FromHost) /\ Len(outbound') <= OutboundQueue
    <3>1. CASE Send(Msg("Begin", r))
      BY <3>1, SendTypes, Messages
    <3> QED BY <1>4, <3>1 DEF SendRequest, WireTypeOK
  <2> QED BY <1>4, <2>1, <2>2
          DEF SendRequest, WireTypeOK, HostTypeOK, StreamTypeOK, ptyVars
<1>5. CASE AwaitAnswer(r)
  <2>1. request' \in [Requests -> RequestStage] /\ pending' \subseteq Requests
    <3>1. ASSUME NEW how \in Settled, GaveUp(r, how)
          PROVE  request' \in [Requests -> RequestStage] /\ pending' \subseteq Requests
      BY <3>1 DEF GaveUp, Forgets, HostTypeOK, RequestStage
    <3>2. ASSUME NEW how \in Settled, request' = [request EXCEPT ![r] = how],
                 UNCHANGED pending
          PROVE  request' \in [Requests -> RequestStage] /\ pending' \subseteq Requests
      BY <3>2 DEF HostTypeOK, RequestStage
    <3> QED BY <1>5, <3>1, <3>2 DEF AwaitAnswer, Settled
  <2> QED BY <1>1, <1>5, <2>1 DEF AwaitAnswer, HostTypeOK
<1> QED BY <1>2, <1>3, <1>4, <1>5 DEF HostRequest

LEMMA ExecTypes ==
  ASSUME HostTypes, NEW r \in Execs, HostExec(r)
  PROVE  HostTypes'
<1> USE DEF HostTypes
<1>1. CASE CallerCancels(r)
  <2>1. cancelled' \in [Execs -> BOOLEAN]
    BY <1>1 DEF CallerCancels, HostTypeOK
  <2> QED BY <1>1, <2>1
          DEF CallerCancels, WireTypeOK, HostTypeOK, StreamTypeOK, wire, ptyVars
<1>2. CASE Forward(r)
  <2>1. forwarder' \in [Execs -> {"none", "watching", "done"}] /\ aborting' \in BOOLEAN
    BY <1>2 DEF Forward, HostTypeOK
  <2>2. outbound' \in Seq(FromHost) /\ Len(outbound') <= OutboundQueue
    <3>1. CASE Send(Msg("CancelExec", r))
      <4>1. r \in Requests
        BY DEF Requests
      <4> QED BY <3>1, <4>1, SendTypes, Messages
    <3> QED BY <1>2, <3>1 DEF Forward, WireTypeOK
  <2> QED BY <1>2, <2>1, <2>2 DEF Forward, WireTypeOK, HostTypeOK, StreamTypeOK, ptyVars
<1> QED BY <1>1, <1>2 DEF HostExec

LEMMA PtyTypes ==
  ASSUME HostTypes, NEW s \in Ptys, HostPty(s)
  PROVE  HostTypes'
<1> USE DEF HostTypes
<1>0. SessionStage = {"none", "opening", "registered", "starting", "cancelling", "failed",
                      "dropped", "Running", "Exited", "Lost"}
  BY DEF SessionStage, Handle
<1>1. CASE UNCHANGED <<alive, requestVars, link, stdin, replies, stdout>>
           /\ aborting' \in BOOLEAN
           /\ outbound' \in Seq(FromHost) /\ Len(outbound') <= OutboundQueue
           /\ streams' \subseteq Ptys
           /\ queue' \in [Ptys -> Seq(FromHelper)]
           /\ (\A t \in Ptys : Len(queue'[t]) <= StreamQueue)
           /\ StreamTypeOK'
           /\ reading' \in [Ptys -> BOOLEAN]
           /\ session' \in [Ptys -> SessionStage]
           /\ spawnToken' \in [Ptys -> BOOLEAN]
           /\ commands' \in [Ptys -> 0..MaxCommands]
  BY <1>1 DEF WireTypeOK, HostTypeOK, requestVars
<1>2. ASSUME UNCHANGED queue
      PROVE  /\ queue' \in [Ptys -> Seq(FromHelper)]
             /\ \A t \in Ptys : Len(queue'[t]) <= StreamQueue
             /\ StreamTypeOK'
  BY <1>2 DEF HostTypeOK, StreamTypeOK
<1>3. ASSUME NEW k \in PtyAsk, Send(Msg(k, s))
      PROVE  outbound' \in Seq(FromHost) /\ Len(outbound') <= OutboundQueue
  BY <1>3, SendTypes, Messages
<1>4. ASSUME queue[s] # <<>>, queue' = [queue EXCEPT ![s] = Tail(@)]
      PROVE  /\ queue' \in [Ptys -> Seq(FromHelper)]
             /\ \A t \in Ptys : Len(queue'[t]) <= StreamQueue
             /\ StreamTypeOK'
  <2>1. /\ Tail(queue[s]) \in Seq(News(s))
        /\ Len(Tail(queue[s])) <= StreamQueue
    BY <1>4, TailElements, Bounds DEF HostTypeOK, StreamTypeOK
  <2>2. queue' = [queue EXCEPT ![s] = Tail(queue[s])]
    BY <1>4
  <2> QED BY <2>1, <2>2, QueueTypes
<1>5. ASSUME queue' = [queue EXCEPT ![s] = <<>>]
      PROVE  /\ queue' \in [Ptys -> Seq(FromHelper)]
             /\ \A t \in Ptys : Len(queue'[t]) <= StreamQueue
             /\ StreamTypeOK'
  <2>1. <<>> \in Seq(News(s)) /\ Len(<<>>) <= StreamQueue
    BY Bounds
  <2> QED BY <1>5, <2>1, QueueTypes
<1>6. ASSUME Command(s)
      PROVE  commands' \in [Ptys -> 0..MaxCommands]
  BY <1>6, Bounds DEF Command, HostTypeOK
<1>7. ASSUME TellCancel(s)
      PROVE  /\ aborting' \in BOOLEAN
             /\ outbound' \in Seq(FromHost) /\ Len(outbound') <= OutboundQueue
  BY <1>3, <1>7 DEF TellCancel, PtyAsk, HostTypeOK, WireTypeOK
<1>8. CASE OpenPty(s)
  BY <1>0, <1>1, <1>2, <1>8 DEF OpenPty, WireTypeOK, HostTypeOK, wire
<1>9. CASE RegisterPty(s)
  BY <1>0, <1>1, <1>2, <1>9 DEF RegisterPty, WireTypeOK, HostTypeOK, wire
<1>10. CASE CancelSpawn(s)
  BY <1>1, <1>2, <1>10 DEF CancelSpawn, WireTypeOK, HostTypeOK, wire
<1>11. CASE SendSpawn(s)
  <2>1. outbound' \in Seq(FromHost) /\ Len(outbound') <= OutboundQueue
    BY <1>3, <1>11 DEF SendSpawn, PtyAsk, WireTypeOK
  <2>2. session' \in [Ptys -> SessionStage] /\ streams' \subseteq Ptys
    BY <1>0, <1>11 DEF SendSpawn, GiveUpSpawn, HostTypeOK
  <2> QED BY <1>1, <1>2, <1>11, <2>1, <2>2 DEF SendSpawn, HostTypeOK
<1>12. CASE AwaitStarted(s)
  <2>1. /\ queue' \in [Ptys -> Seq(FromHelper)]
        /\ \A t \in Ptys : Len(queue'[t]) <= StreamQueue
        /\ StreamTypeOK'
    BY <1>2, <1>4, <1>12 DEF AwaitStarted, HasStarted
  <2>2. session' \in [Ptys -> SessionStage] /\ streams' \subseteq Ptys
    BY <1>0, <1>12 DEF AwaitStarted, GiveUpSpawn, HostTypeOK
  <2> QED BY <1>1, <1>12, <2>1, <2>2 DEF AwaitStarted, WireTypeOK, HostTypeOK, wire
<1>13. CASE SendCancelPty(s)
  <2>1. outbound' \in Seq(FromHost) /\ Len(outbound') <= OutboundQueue
    BY <1>3, <1>13 DEF SendCancelPty, PtyAsk, WireTypeOK
  <2>2. session' \in [Ptys -> SessionStage] /\ reading' \in [Ptys -> BOOLEAN]
    BY <1>0, <1>13 DEF SendCancelPty, HostTypeOK
  <2>3. queue' = [queue EXCEPT ![s] = <<>>]
    BY <1>13 DEF SendCancelPty
  <2> QED BY <1>1, <1>5, <1>13, <2>1, <2>2, <2>3 DEF SendCancelPty, HostTypeOK
<1>14. CASE ReadPty(s)
  <2>1. /\ queue' \in [Ptys -> Seq(FromHelper)]
        /\ \A t \in Ptys : Len(queue'[t]) <= StreamQueue
        /\ StreamTypeOK'
    BY <1>2, <1>4, <1>14 DEF ReadPty
  <2>2. session' \in [Ptys -> SessionStage] /\ reading' \in [Ptys -> BOOLEAN]
    BY <1>0, <1>14 DEF ReadPty, HostTypeOK
  <2> QED BY <1>1, <1>14, <2>1, <2>2 DEF ReadPty, WireTypeOK, HostTypeOK, wire
<1>15. CASE WriteInput(s) \/ Resize(s)
  <2>1. outbound' \in Seq(FromHost) /\ Len(outbound') <= OutboundQueue
    BY <1>3, <1>15 DEF WriteInput, Resize, PtyAsk
  <2> QED BY <1>1, <1>2, <1>6, <1>15, <2>1 DEF WriteInput, Resize, HostTypeOK
<1>16. CASE CancelPty(s)
  <2>1. session' \in [Ptys -> SessionStage]
    BY <1>0, <1>16 DEF CancelPty, HostTypeOK
  <2> QED BY <1>1, <1>2, <1>6, <1>7, <1>16, <2>1 DEF CancelPty, HostTypeOK
<1>17. CASE DropPty(s)
  <2>1. session' \in [Ptys -> SessionStage] /\ reading' \in [Ptys -> BOOLEAN]
    BY <1>0, <1>17 DEF DropPty, HostTypeOK
  <2>2. queue' = [queue EXCEPT ![s] = <<>>] /\ TellCancel(s)
    BY <1>17 DEF DropPty, OnDrop
  <2> QED BY <1>1, <1>5, <1>7, <1>17, <2>1, <2>2 DEF DropPty, HostTypeOK
<1> QED BY <1>8, <1>9, <1>10, <1>11, <1>12, <1>13, <1>14, <1>15, <1>16, <1>17 DEF HostPty

(* The steps of the helper.                                                *)
HelperTypes == WireTypeOK /\ HelperTypeOK

LEMMA CancelledTypes ==
  ASSUME HelperTypeOK, NEW S, Cancelled(S)
  PROVE  ptyToken' \in [Ptys -> BOOLEAN] /\ cleaning' \in [Ptys -> BOOLEAN]
<1>1. \A s \in Ptys : (s \in S \/ ptyToken[s]) \in BOOLEAN /\ (s \in S \/ cleaning[s]) \in BOOLEAN
  OBVIOUS
<1> QED BY <1>1 DEF Cancelled

LEMMA DispatchTypes ==
  ASSUME HelperTypes, Dispatch
  PROVE  HelperTypes'
<1> USE DEF HelperTypes
<1> DEFINE m == Head(stdin)
<1>1. /\ stdin \in Seq(FromHost) /\ stdin # <<>> /\ stdin' = Tail(stdin)
      /\ m \in FromHost
  BY TailElements DEF WireTypeOK, Dispatch
<1>2. WireTypeOK'
  BY <1>1, TailElements, Bounds DEF WireTypeOK, Dispatch
<1>3. /\ m.kind \in Ask => m.id \in Requests
      /\ m.kind \in PtyAsk => m.id \in Ptys
  BY <1>1, Messages
<1>4. \/ m.kind = "Begin" /\ Begin(m.id)
      \/ m.kind = "CancelExec" /\ CancelExec(m.id)
      \/ m.kind = "Spawn" /\ Spawn(m.id)
      \/ m.kind = "Input" /\ Input(m.id)
      \/ m.kind = "Resize" /\ ResizePty(m.id)
      \/ m.kind = "Cancel" /\ CancelSession(m.id)
  BY DEF Dispatch
<1> HIDE DEF m
<1>5. UNCHANGED <<helper, joins, shutdown>>
  BY DEF Dispatch
<1>6. ASSUME NEW r \in Requests, Begin(r)
      PROVE  HelperTypes'
  BY <1>2, <1>5, <1>6, Messages DEF Begin, HelperTypeOK, shellVars
<1>7. ASSUME NEW r \in Requests, CancelExec(r)
      PROVE  HelperTypes'
  BY <1>2, <1>5, <1>7 DEF CancelExec, HelperTypeOK, shellVars
<1>8. ASSUME NEW s \in Ptys, Spawn(s)
      PROVE  HelperTypes'
  BY <1>2, <1>5, <1>8, Messages
     DEF Spawn, HelperTypeOK, operationVars, DrainAtSpawn, PtyTell
<1>9. ASSUME NEW s \in Ptys, LosePty(s) \/ CancelSession(s)
      PROVE  HelperTypes'
  <2>1. CASE UNCHANGED <<saying, operationVars, shellVars>>
    BY <1>2, <1>5, <2>1 DEF HelperTypeOK, operationVars, shellVars
  <2>2. CASE /\ ptys' = ptys \ {s} /\ Cancelled({s})
             /\ saying' \in {Msg("Lost", s), Msg("Exited", s)}
             /\ UNCHANGED <<operationVars, shell, drain, outputs>>
    <3>1. ptyToken' \in [Ptys -> BOOLEAN] /\ cleaning' \in [Ptys -> BOOLEAN]
      BY <2>2, CancelledTypes
    <3>2. saying' \in FromHelper
      BY <2>2, Messages DEF PtyTell
    <3> QED BY <1>2, <1>5, <2>2, <3>1, <3>2 DEF HelperTypeOK, operationVars
  <2> QED BY <1>9, <2>1, <2>2 DEF LosePty, CancelSession
<1>10. ASSUME NEW s \in Ptys, Input(s) \/ ResizePty(s)
       PROVE  HelperTypes'
  <2>1. CASE UNCHANGED <<saying, operationVars, shellVars>>
    BY <1>2, <1>5, <2>1 DEF HelperTypeOK, operationVars, shellVars
  <2> QED BY <1>9, <1>10, <2>1 DEF Input, ResizePty
<1> QED BY <1>3, <1>4, <1>6, <1>7, <1>8, <1>9, <1>10 DEF Ask, PtyAsk

LEMMA FinishTypes ==
  ASSUME HelperTypes, FinishDispatch
  PROVE  HelperTypes'
<1> USE DEF HelperTypes
<1>1. saying \in FromHelper
  BY DEF FinishDispatch, HelperTypeOK
<1>2. CASE /\ Say(saying)
           /\ drain' = IF saying.kind = "Started"
                         THEN [drain EXCEPT ![saying.id] = "reading"] ELSE drain
           /\ UNCHANGED <<helper, ptys, ptyToken, cleaning>>
  <2>1. replies' \in Seq(FromHelper) /\ Len(replies') <= ReplyQueue
    BY <1>1, <1>2, SlotTypes DEF Say
  <2> QED BY <1>2, <2>1 DEF FinishDispatch, WireTypeOK, HelperTypeOK, operationVars
<1>3. CASE /\ helper' = "closing"
           /\ UNCHANGED <<drain, replies>>
           /\ IF saying.kind = "Started"
                THEN ptys' = ptys \ {saying.id} /\ Cancelled({saying.id})
                ELSE UNCHANGED <<ptys, ptyToken, cleaning>>
  <2>1. ptyToken' \in [Ptys -> BOOLEAN] /\ cleaning' \in [Ptys -> BOOLEAN]
    BY <1>3, CancelledTypes DEF HelperTypeOK
  <2>2. ptys' \subseteq Ptys
    BY <1>3 DEF HelperTypeOK
  <2> QED BY <1>3, <2>1, <2>2 DEF FinishDispatch, WireTypeOK, HelperTypeOK, operationVars
<1> QED BY <1>2, <1>3 DEF FinishDispatch

LEMMA WriteReplyTypes ==
  ASSUME HelperTypes, WriteReply
  PROVE  HelperTypes'
<1> USE DEF HelperTypes
<1>1. replies \in Seq(FromHelper) /\ stdout \in Seq(FromHelper) /\ replies # <<>>
  BY DEF WriteReply, WireTypeOK
<1>2. CASE Len(stdout) < PipeSize /\ stdout' = Append(stdout, Head(replies))
             /\ replies' = Tail(replies) /\ UNCHANGED shutdown
  <2>1. stdout' \in Seq(FromHelper) /\ Len(stdout') <= PipeSize
    BY <1>1, <1>2, TailElements, AppendElements, Bounds DEF WireTypeOK
  <2>2. replies' \in Seq(FromHelper) /\ Len(replies') <= ReplyQueue
    BY <1>1, <1>2, TailElements, Bounds DEF WireTypeOK
  <2> QED BY <1>2, <2>1, <2>2
          DEF WriteReply, WireTypeOK, HelperTypeOK, operationVars, shellVars
<1>3. CASE shutdown' = TRUE /\ replies' = <<>> /\ UNCHANGED stdout
  BY <1>3, EmptySeq, Bounds
     DEF WriteReply, WireTypeOK, HelperTypeOK, operationVars, shellVars
<1> QED BY <1>2, <1>3 DEF WriteReply

LEMMA ServiceTypes ==
  ASSUME HelperTypes, ServiceEnds \/ CancelSessions \/ CancelExecs \/ Exit
  PROVE  HelperTypes'
<1> USE DEF HelperTypes
<1>0. UNCHANGED wire => WireTypeOK'
  BY DEF WireTypeOK, wire
<1>1. CASE ServiceEnds
  BY <1>0, <1>1 DEF ServiceEnds, HelperTypeOK, operationVars, shellVars
<1>2. CASE CancelSessions
  <2>1. ptyToken' \in [Ptys -> BOOLEAN] /\ cleaning' \in [Ptys -> BOOLEAN]
    BY <1>2, CancelledTypes DEF CancelSessions, KillsThem
  <2> QED BY <1>0, <1>2, <2>1 DEF CancelSessions, HelperTypeOK, operationVars
<1>3. CASE CancelExecs
  BY <1>0, <1>3 DEF CancelExecs, HelperTypeOK, shellVars
<1>4. CASE Exit
  BY <1>0, <1>4 DEF Exit, HelperTypeOK, operationVars, shellVars
<1> QED BY <1>1, <1>2, <1>3, <1>4

LEMMA OperationTypes ==
  ASSUME HelperTypes, NEW r \in Requests, Reserve(r) \/ StopExec(r) \/ OperationEnds(r) \/ Reply(r)
  PROVE  HelperTypes'
<1> USE DEF HelperTypes
<1>1. operation' \in [Requests -> {"none", "waiting", "running", "collecting", "replying", "done"}]
  BY DEF Reserve, StopExec, OperationEnds, Reply, HelperTypeOK
<1>2. CASE Reserve(r) \/ StopExec(r) \/ OperationEnds(r)
  BY <1>1, <1>2 DEF Reserve, StopExec, OperationEnds, WireTypeOK, HelperTypeOK, wire, shellVars
<1>3. CASE Reply(r)
  <2>1. replies' \in Seq(FromHelper) /\ Len(replies') <= ReplyQueue
    BY <1>3, SlotTypes, Messages DEF Reply, WireTypeOK
  <2> QED BY <1>1, <1>3, <2>1 DEF Reply, WireTypeOK, HelperTypeOK, shellVars
<1> QED BY <1>2, <1>3

LEMMA ShellTypes ==
  ASSUME HelperTypes, NEW s \in Ptys,
         \/ ShellDies(s) \/ JobEnds(s) \/ InputFails(s)
         \/ DrainReads(s) \/ DrainEnds(s) \/ DrainReports(s) \/ DrainRemoves(s)
  PROVE  HelperTypes'
<1> USE DEF HelperTypes
<1>0. UNCHANGED wire => WireTypeOK'
  BY DEF WireTypeOK, wire
<1>1. ASSUME StopsReading(s)
      PROVE  /\ drain' \in [Ptys -> {"none", "reading", "ending", "removing", "done"}]
             /\ ptyToken' \in [Ptys -> BOOLEAN]
  <2>1. ptyToken' \in [Ptys -> BOOLEAN]
    BY <1>1 DEF StopsReading, HelperTypeOK
  <2> QED BY <1>1, <2>1 DEF StopsReading, HelperTypeOK
<1>2. ASSUME NEW k \in PtyTell, Say(Msg(k, s))
      PROVE  replies' \in Seq(FromHelper) /\ Len(replies') <= ReplyQueue
  BY <1>2, SlotTypes, Messages DEF Say
<1>3. CASE ShellDies(s) \/ JobEnds(s)
  BY <1>0, <1>3 DEF ShellDies, JobEnds, HelperTypeOK, operationVars
<1>4. CASE InputFails(s)
  BY <1>0, <1>4, CancelledTypes DEF InputFails, HelperTypeOK, operationVars
<1>5. CASE DrainReads(s)
  <2>1. /\ drain' \in [Ptys -> {"none", "reading", "ending", "removing", "done"}]
        /\ ptyToken' \in [Ptys -> BOOLEAN]
    BY <1>1, <1>5 DEF DrainReads, HelperTypeOK
  <2>2. replies' \in Seq(FromHelper) /\ Len(replies') <= ReplyQueue
    BY <1>2, <1>5 DEF DrainReads, PtyTell, WireTypeOK
  <2>3. outputs' \in [Ptys -> 0..MaxOutputs]
    BY <1>5, Bounds DEF DrainReads, HelperTypeOK
  <2> QED BY <1>5, <2>1, <2>2, <2>3 DEF DrainReads, WireTypeOK, HelperTypeOK, operationVars
<1>6. CASE DrainEnds(s)
  BY <1>0, <1>1, <1>6 DEF DrainEnds, HelperTypeOK, operationVars
<1>7. CASE DrainReports(s)
  <2>1. replies' \in Seq(FromHelper) /\ Len(replies') <= ReplyQueue
    BY <1>2, <1>7 DEF DrainReports, EndReported, PtyTell, WireTypeOK
  <2> QED BY <1>7, <2>1 DEF DrainReports, WireTypeOK, HelperTypeOK, operationVars
<1>8. CASE DrainRemoves(s)
  BY <1>0, <1>8, CancelledTypes DEF DrainRemoves, HelperTypeOK, operationVars
<1> QED BY <1>3, <1>4, <1>5, <1>6, <1>7, <1>8

LEMMA BreakTypes ==
  ASSUME WireTypeOK, LinkBreaks
  PROVE  WireTypeOK'
<1>1. /\ stdin \in Seq(FromHost) /\ stdin' \in Prefixes(stdin)
      /\ stdout \in Seq(FromHelper) /\ stdout' \in Prefixes(stdout)
  BY DEF WireTypeOK, LinkBreaks
<1>2. stdin' \in Seq(FromHost) /\ Len(stdin') <= PipeSize
  BY <1>1, PrefixElements, Bounds DEF WireTypeOK
<1>3. stdout' \in Seq(FromHelper) /\ Len(stdout') <= PipeSize
  BY <1>1, PrefixElements, Bounds DEF WireTypeOK
<1> QED BY <1>2, <1>3 DEF WireTypeOK, LinkBreaks

(* Every variable of the connection keeps its type, and every queue its    *)
(* bound; what a stream's channel carries is about that stream.            *)
THEOREM SessionTypeCorrect == Spec => []SessionTypeOK
<1>1. SessionTypeOK /\ [Next]_sessionVars => SessionTypeOK'
  <2> SUFFICES ASSUME SessionTypeOK, [Next]_sessionVars
               PROVE  SessionTypeOK'
    OBVIOUS
  <2>0. HostTypes /\ HelperTypes
    BY DEF SessionTypeOK, TypeOK, HostTypes, HelperTypes
  <2>1. ASSUME UNCHANGED helperVars PROVE HelperTypeOK'
    BY <2>0, <2>1 DEF HelperTypes, HelperTypeOK, helperVars, operationVars, shellVars
  <2>2. ASSUME UNCHANGED hostVars PROVE HostTypeOK' /\ StreamTypeOK'
    BY <2>0, <2>2 DEF HostTypes, HostTypeOK, StreamTypeOK, hostVars, requestVars, ptyVars
  <2>3. CASE HostNext /\ UNCHANGED helperVars
    <3>1. HostTypes'
      BY <2>0, <2>3, StoppingTypes, WriteTypes, RoutingTypes, RequestTypes, ExecTypes,
         PtyTypes DEF HostNext
    <3> QED BY <2>1, <2>3, <3>1 DEF HostTypes, SessionTypeOK, TypeOK
  <2>4. CASE HelperNext /\ UNCHANGED hostVars
    <3>1. HelperTypes'
      BY <2>0, <2>4, DispatchTypes, FinishTypes, WriteReplyTypes, ServiceTypes,
         OperationTypes, ShellTypes DEF HelperNext
    <3> QED BY <2>2, <2>4, <3>1 DEF HelperTypes, SessionTypeOK, TypeOK
  <2>5. CASE LinkBreaks /\ UNCHANGED <<hostVars, helperVars>>
    BY <2>0, <2>1, <2>2, <2>5, BreakTypes DEF HostTypes, SessionTypeOK, TypeOK
  <2>6. CASE UNCHANGED sessionVars
    <3>1. WireTypeOK'
      BY <2>0, <2>6 DEF HostTypes, WireTypeOK, sessionVars, wire
    <3> QED BY <2>1, <2>2, <2>6, <3>1 DEF sessionVars, SessionTypeOK, TypeOK
  <2> QED BY <2>3, <2>4, <2>5, <2>6 DEF Next
<1> QED BY <1>1, InitialTypes, PTL DEF Spec

-----------------------------------------------------------------------------
(* What a queue says of a stream: nothing; what it says first; that it     *)
(* still has to be spawned.                                                *)
Tells(m, s) == m.kind \in PtyTell /\ m.id = s
Opens(m) == m.kind \in {"Started", "Lost"}
EndOf(m, s) == m \in {Msg("Exited", s), Msg("Lost", s)}

Quiet(q, s) == \A n \in DOMAIN q : ~Tells(q[n], s)
OpensFirst(q, s) ==
  \A n \in DOMAIN q :
    Tells(q[n], s) => Opens(q[n]) \/ \E k \in 1..(n - 1) : Tells(q[k], s)
Unasked(q, s) == ~In(q, "Spawn", s)

(* Once the helper has stopped serving, or its transport shuts down, the   *)
(* connection is broken.                                                   *)
LinkInv ==
  /\ shutdown => ~link
  /\ helper # "serving" => ~link

(* Before its Spawn is sent nobody has heard of a stream.                  *)
Fresh(s) ==
  /\ session[s] \in {"none", "opening", "registered"} =>
       /\ Unasked(outbound, s) /\ Unasked(stdin, s)
       /\ Quiet(stdout, s) /\ Quiet(replies, s) /\ ~Tells(saying, s)
       /\ s \notin ptys /\ drain[s] = "none"
  /\ session[s] \in {"none", "opening"} => ~reading[s] /\ queue[s] = <<>>
  /\ session[s] = "registered" /\ alive => queue[s] = <<>>

(* While spawn waits, its channel is open, has an entry until something is *)
(* delivered or the connection is lost, and begins with a first message.   *)
Opened(s) ==
  session[s] \in {"registered", "starting"} =>
    /\ reading[s]
    /\ queue[s] # <<>> => Opens(Head(queue[s]))
    /\ alive /\ queue[s] = <<>> => s \in streams

(* As long as nothing is delivered, what is said first on the way to the   *)
(* stream opens it, wherever on the way it is, and a session the helper    *)
(* has said nothing about is in neither its map nor a drain.               *)
NothingSaid(s) == drain[s] = "none" /\ IF Tells(saying, s) THEN Opens(saying) ELSE s \notin ptys
OnItsWay(s) ==
  session[s] = "starting" /\ alive /\ queue[s] = <<>> =>
    /\ OpensFirst(stdout, s)
    /\ link /\ Quiet(stdout, s) =>
         /\ OpensFirst(replies, s)
         /\ Quiet(replies, s) => NothingSaid(s)

(* A session that was said to have started is kept, drained or its end is  *)
(* on its way; a drain that has reported sees to the last.                 *)
Over(s) ==
  \/ EndOf(saying, s)
  \/ EndFor(replies, s) \/ EndFor(stdout, s) \/ EndFor(queue[s], s)
  \/ s \notin streams
  \/ ~link
StartedSaid(s) ==
  \/ saying = Msg("Started", s)
  \/ In(replies, "Started", s) \/ In(stdout, "Started", s) \/ In(queue[s], "Started", s)
Backed(s) ==
  session[s] \in {"starting", "Running"} =>
    /\ drain[s] \in {"removing", "done"} => Over(s)
    /\ session[s] = "Running" \/ StartedSaid(s) =>
         s \in ptys \/ drain[s] \in {"reading", "ending"} \/ Over(s)

StreamInv(s) == Fresh(s) /\ Opened(s) /\ OnItsWay(s) /\ Backed(s)
SessionInv == SessionTypeOK /\ LinkInv /\ \A s \in Ptys : StreamInv(s)

-----------------------------------------------------------------------------
LEMMA EmptySays ==
  ASSUME NEW s
  PROVE  /\ Quiet(<<>>, s) /\ OpensFirst(<<>>, s)
         /\ \A k : ~In(<<>>, k, s)
BY DEF Quiet, OpensFirst, In

LEMMA AppendSays ==
  ASSUME NEW T, NEW q \in Seq(T), NEW m \in T, NEW s
  PROVE  /\ Quiet(Append(q, m), s) <=> Quiet(q, s) /\ ~Tells(m, s)
         /\ OpensFirst(q, s) /\ (Quiet(q, s) /\ Tells(m, s) => Opens(m))
              => OpensFirst(Append(q, m), s)
         /\ \A k : In(Append(q, m), k, s) <=> In(q, k, s) \/ m = Msg(k, s)
<1> DEFINE p == Append(q, m)
<1>1. /\ Len(q) \in Nat /\ DOMAIN q = 1..Len(q) /\ DOMAIN p = 1..(Len(q) + 1)
      /\ \A n \in 1..Len(q) : p[n] = q[n]
      /\ p[Len(q) + 1] = m
  BY AppendElements
<1> HIDE DEF p
<1>2. \A n \in DOMAIN p : n \in 1..Len(q) \/ n = Len(q) + 1
  BY <1>1
<1>3. Quiet(p, s) <=> Quiet(q, s) /\ ~Tells(m, s)
  <2>1. ASSUME Quiet(p, s) PROVE Quiet(q, s) /\ ~Tells(m, s)
    BY <1>1, <2>1 DEF Quiet
  <2>2. ASSUME Quiet(q, s), ~Tells(m, s) PROVE Quiet(p, s)
    BY <1>1, <1>2, <2>2 DEF Quiet
  <2> QED BY <2>1, <2>2
<1>4. ASSUME OpensFirst(q, s), Quiet(q, s) /\ Tells(m, s) => Opens(m)
      PROVE  OpensFirst(p, s)
  <2> SUFFICES ASSUME NEW n \in DOMAIN p, Tells(p[n], s), ~Opens(p[n])
               PROVE  \E k \in 1..(n - 1) : Tells(p[k], s)
    BY DEF OpensFirst
  <2>1. CASE n \in 1..Len(q)
    <3>1. p[n] = q[n] /\ n \in DOMAIN q
      BY <1>1, <2>1
    <3>2. PICK k \in 1..(n - 1) : Tells(q[k], s)
      BY <1>4, <3>1 DEF OpensFirst
    <3>3. p[k] = q[k]
      BY <1>1, <2>1, <3>2
    <3> QED BY <3>2, <3>3
  <2>2. CASE n = Len(q) + 1
    <3>1. p[n] = m
      BY <1>1, <2>2
    <3>2. ~Quiet(q, s)
      BY <1>4, <3>1
    <3>3. PICK k \in 1..Len(q) : Tells(q[k], s)
      BY <1>1, <3>2 DEF Quiet
    <3>4. p[k] = q[k] /\ k \in 1..(n - 1)
      BY <1>1, <2>2, <3>3
    <3> QED BY <3>3, <3>4
  <2> QED BY <1>2, <2>1, <2>2
<1>5. ASSUME NEW k PROVE In(p, k, s) <=> In(q, k, s) \/ m = Msg(k, s)
  BY <1>1, <1>2 DEF In
<1> QED BY <1>3, <1>4, <1>5 DEF p

LEMMA TailSays ==
  ASSUME NEW T, NEW q \in Seq(T), q # <<>>, NEW s
  PROVE  /\ Quiet(q, s) <=> ~Tells(Head(q), s) /\ Quiet(Tail(q), s)
         /\ OpensFirst(q, s) /\ Tells(Head(q), s) => Opens(Head(q))
         /\ OpensFirst(q, s) /\ ~Tells(Head(q), s) => OpensFirst(Tail(q), s)
         /\ \A k : In(q, k, s) <=> Head(q) = Msg(k, s) \/ In(Tail(q), k, s)
<1> DEFINE p == Tail(q)
<1>1. /\ Len(q) \in Nat \ {0} /\ DOMAIN q = 1..Len(q) /\ DOMAIN p = 1..(Len(q) - 1)
      /\ \A n \in 1..(Len(q) - 1) : p[n] = q[n + 1]
      /\ Head(q) = q[1]
  BY TailElements
<1> HIDE DEF p
<1>2. \A n \in DOMAIN p : n + 1 \in DOMAIN q /\ p[n] = q[n + 1]
  BY <1>1
<1>3. ASSUME NEW n \in DOMAIN q, n # 1
      PROVE  n - 1 \in DOMAIN p /\ p[n - 1] = q[n]
  <2>1. PICK j \in Int : j = n - 1
    BY <1>1
  <2>2. j \in 1..(Len(q) - 1) /\ j + 1 = n
    BY <1>1, <1>3, <2>1
  <2> QED BY <1>1, <2>1, <2>2
<1>4. 1 \in DOMAIN q
  BY <1>1
<1>5. Quiet(q, s) <=> ~Tells(Head(q), s) /\ Quiet(p, s)
  <2>1. ASSUME Quiet(q, s) PROVE ~Tells(Head(q), s) /\ Quiet(p, s)
    BY <1>1, <1>2, <1>4, <2>1 DEF Quiet
  <2>2. ASSUME ~Tells(Head(q), s), Quiet(p, s) PROVE Quiet(q, s)
    BY <1>1, <1>3, <2>2 DEF Quiet
  <2> QED BY <2>1, <2>2
<1>6. ASSUME OpensFirst(q, s), Tells(Head(q), s) PROVE Opens(Head(q))
  BY <1>1, <1>4, <1>6 DEF OpensFirst
<1>7. ASSUME OpensFirst(q, s), ~Tells(Head(q), s) PROVE OpensFirst(p, s)
  <2> SUFFICES ASSUME NEW n \in DOMAIN p, Tells(p[n], s), ~Opens(p[n])
               PROVE  \E k \in 1..(n - 1) : Tells(p[k], s)
    BY DEF OpensFirst
  <2>1. PICK i \in Int : i = n + 1
    BY <1>1
  <2>2. i \in DOMAIN q /\ p[n] = q[i]
    BY <1>2, <2>1
  <2>3. PICK k \in 1..(i - 1) : Tells(q[k], s)
    BY <1>7, <2>2 DEF OpensFirst
  <2>4. k # 1
    BY <1>1, <1>7, <2>3
  <2>5. k \in DOMAIN q /\ k \in Int
    BY <1>1, <2>1, <2>2, <2>3
  <2>6. p[k - 1] = q[k]
    BY <1>3, <2>4, <2>5
  <2>7. k - 1 \in 1..(n - 1)
    BY <1>1, <2>1, <2>3, <2>4
  <2> QED BY <2>3, <2>6, <2>7
<1>8. ASSUME NEW k PROVE In(q, k, s) <=> Head(q) = Msg(k, s) \/ In(p, k, s)
  <2>1. ASSUME In(q, k, s) PROVE Head(q) = Msg(k, s) \/ In(p, k, s)
    BY <1>1, <1>3, <2>1 DEF In
  <2>2. ASSUME Head(q) = Msg(k, s) \/ In(p, k, s) PROVE In(q, k, s)
    BY <1>1, <1>2, <1>4, <2>2 DEF In
  <2> QED BY <2>1, <2>2
<1> QED BY <1>5, <1>6, <1>7, <1>8 DEF p

LEMMA PrefixSays ==
  ASSUME NEW T, NEW q \in Seq(T), NEW p \in Prefixes(q), NEW s
  PROVE  /\ Quiet(q, s) => Quiet(p, s)
         /\ OpensFirst(q, s) => OpensFirst(p, s)
         /\ Unasked(q, s) => Unasked(p, s)
<1>1. /\ DOMAIN p = 1..Len(p) /\ DOMAIN q = 1..Len(q) /\ Len(p) \in Nat
      /\ \A n \in 1..Len(p) : n \in 1..Len(q) /\ p[n] = q[n]
  BY PrefixElements
<1>2. Quiet(q, s) => Quiet(p, s)
  BY <1>1 DEF Quiet
<1>3. ASSUME OpensFirst(q, s) PROVE OpensFirst(p, s)
  <2> SUFFICES ASSUME NEW n \in DOMAIN p, Tells(p[n], s), ~Opens(p[n])
               PROVE  \E k \in 1..(n - 1) : Tells(p[k], s)
    BY DEF OpensFirst
  <2>1. PICK k \in 1..(n - 1) : Tells(q[k], s)
    BY <1>1, <1>3 DEF OpensFirst
  <2>2. p[k] = q[k]
    BY <1>1, <2>1
  <2> QED BY <2>1, <2>2
<1>4. Unasked(q, s) => Unasked(p, s)
  BY <1>1 DEF Unasked, In
<1> QED BY <1>2, <1>3, <1>4

(* Who tells what.                                                         *)
LEMMA TellFacts ==
  ASSUME NEW s
  PROVE  /\ ~Tells(Nothing, s) /\ ~EndOf(Nothing, s)
         /\ \A k \in PtyTell : \A t :
              /\ Tells(Msg(k, t), s) <=> t = s
              /\ EndOf(Msg(k, t), s) <=> t = s /\ k \in {"Exited", "Lost"}
              /\ Msg(k, t) = Msg("Started", s) <=> t = s /\ k = "Started"
              /\ Opens(Msg(k, t)) <=> k \in {"Started", "Lost"}
         /\ \A t : ~Tells(Msg("Result", t), s) /\ ~EndOf(Msg("Result", t), s)
                   /\ Msg("Result", t) # Msg("Started", s)
         /\ Nothing # Msg("Started", s)
         /\ \A m : EndOf(m, s) \/ m = Msg("Started", s) => Tells(m, s)
         /\ \A k1, k2 : k1 # k2 => Msg(k1, s) # Msg(k2, s)
BY DEF Tells, EndOf, Opens, Nothing, Msg, PtyTell

LEMMA InitialSession == Init => SessionInv
<1> SUFFICES ASSUME Init PROVE SessionInv
  OBVIOUS
<1>1. LinkInv
  BY DEF Init, HelperInit, LinkInv
<1>2. ASSUME NEW s \in Ptys PROVE StreamInv(s)
  BY EmptySays, TellFacts
     DEF Init, WireInit, HostInit, HelperInit, StreamInv, Fresh, Opened, OnItsWay, Backed,
         Unasked
<1> QED BY <1>1, <1>2, InitialTypes DEF SessionInv

-----------------------------------------------------------------------------
(* The stream's own books, apart from what is on its way.                  *)
StreamSame(s) ==
  /\ session'[s] = session[s] /\ reading'[s] = reading[s] /\ queue'[s] = queue[s]
  /\ s \in streams' <=> s \in streams

(* A message that is no Spawn for s is queued at the host, or moves on to  *)
(* the pipe.                                                               *)
LEMMA AskingKeepsStream ==
  ASSUME NEW s \in Ptys, StreamInv(s), StreamSame(s),
         UNCHANGED <<alive, link, replies, stdout, helperVars>>,
         Unasked(outbound, s) /\ Unasked(stdin, s)
           => Unasked(outbound', s) /\ Unasked(stdin', s)
  PROVE  StreamInv(s)'
<1> USE DEF StreamInv, StreamSame, helperVars, shellVars
<1>1. Fresh(s)'
  BY DEF Fresh
<1>2. Opened(s)'
  BY DEF Opened
<1>3. OnItsWay(s)'
  BY DEF OnItsWay, NothingSaid
<1>4. Backed(s)'
  BY DEF Backed, Over, StartedSaid, EndFor
<1> QED BY <1>1, <1>2, <1>3, <1>4

LEMMA LossKeepsStream ==
  ASSUME SessionTypeOK, NEW s \in Ptys, StreamInv(s), NEW S, Lose(S),
         UNCHANGED <<reading, session, helperVars>>,
         Quiet(stdout, s) => Quiet(stdout', s)
  PROVE  StreamInv(s)'
<1> USE DEF StreamInv, helperVars, shellVars
<1>1. /\ alive' = FALSE /\ link' = FALSE /\ replies' = replies /\ outbound' = <<>>
      /\ stdin' \in Prefixes(stdin) /\ stdin \in Seq(FromHost)
      /\ queue[s] \in Seq(News(s))
      /\ queue'[s] = IF s \in S /\ Deliverable(s)
                       THEN Append(queue[s], Msg("Lost", s)) ELSE queue[s]
  BY DEF Lose, SessionTypeOK, TypeOK, WireTypeOK, StreamTypeOK
<1>2. Fresh(s)'
  BY <1>1, EmptySays, PrefixSays DEF Fresh, Deliverable, Unasked
<1>3. Opened(s)'
  <2>1. CASE queue'[s] = queue[s]
    BY <1>1, <2>1 DEF Opened
  <2>2. CASE queue'[s] = Append(queue[s], Msg("Lost", s))
    <3>1. Head(queue'[s]) = IF queue[s] = <<>> THEN Msg("Lost", s) ELSE Head(queue[s])
      BY <1>1, <2>2, Messages DEF PtyTell
    <3>2. Opens(Msg("Lost", s))
      BY TellFacts DEF PtyTell
    <3> QED BY <1>1, <3>1, <3>2 DEF Opened
  <2> QED BY <1>1, <2>1, <2>2
<1>4. OnItsWay(s)'
  BY <1>1 DEF OnItsWay
<1>5. Backed(s)'
  BY <1>1 DEF Backed, Over
<1> QED BY <1>2, <1>3, <1>4, <1>5

LEMMA StoppingKeepsStreams ==
  ASSUME SessionTypeOK, NEW s \in Ptys, StreamInv(s), TransportFails \/ Abort \/ Shutdown,
         UNCHANGED helperVars
  PROVE  StreamInv(s)'
<1>1. CASE MarkLost /\ UNCHANGED <<reading, session>>
  BY <1>1, LossKeepsStream, EmptySays DEF MarkLost
<1>2. CASE Abort /\ UNCHANGED <<alive, streams, queue, pending, wire>>
  BY <1>2, AskingKeepsStream DEF Abort, StreamSame, wire
<1> QED BY <1>1, <1>2 DEF TransportFails, Abort, Shutdown

LEMMA WriteKeepsStreams ==
  ASSUME SessionTypeOK, NEW s \in Ptys, StreamInv(s), Write, UNCHANGED helperVars
  PROVE  StreamInv(s)'
<1>1. /\ outbound \in Seq(FromHost) /\ outbound # <<>> /\ stdin \in Seq(FromHost)
      /\ outbound' = Tail(outbound) /\ stdin' = Append(stdin, Head(outbound))
      /\ Head(outbound) \in FromHost
  BY TailElements DEF SessionTypeOK, TypeOK, WireTypeOK, Write
<1>2. Unasked(outbound, s) /\ Unasked(stdin, s) => Unasked(outbound', s) /\ Unasked(stdin', s)
  BY <1>1, TailSays, AppendSays DEF Unasked
<1> QED BY <1>2, AskingKeepsStream DEF Write, StreamSame, hostVars, ptyVars

LEMMA RequestsKeepStreams ==
  ASSUME SessionTypeOK, NEW s \in Ptys, StreamInv(s), UNCHANGED helperVars,
         \/ \E r \in Requests : HostRequest(r)
         \/ \E r \in Execs : HostExec(r)
  PROVE  StreamInv(s)'
<1>1. UNCHANGED <<ptyVars, alive, link, stdin, replies, stdout>>
  BY DEF HostRequest, StartRequest, InsertRequest, SendRequest, AwaitAnswer, HostExec,
         CallerCancels, Forward, wire
<1>2. \/ UNCHANGED outbound
      \/ \E r \in Requests : \E k \in Ask : outbound' = Append(outbound, Msg(k, r))
  BY DEF HostRequest, StartRequest, InsertRequest, SendRequest, AwaitAnswer, HostExec,
         CallerCancels, Forward, wire, Send, Ask, Requests
<1>3. Unasked(outbound, s) => Unasked(outbound', s)
  <2>1. ASSUME NEW r \in Requests, NEW k \in Ask, outbound' = Append(outbound, Msg(k, r)),
               Unasked(outbound, s)
        PROVE  Unasked(outbound', s)
    <3>1. Msg(k, r) # Msg("Spawn", s) /\ Msg(k, r) \in FromHost /\ outbound \in Seq(FromHost)
      BY DEF Ask, Msg, FromHost, SessionTypeOK, TypeOK, WireTypeOK
    <3> QED BY <2>1, <3>1, AppendSays DEF Unasked
  <2> QED BY <1>2, <2>1
<1> QED BY <1>1, <1>3, AskingKeepsStream DEF StreamSame, ptyVars

(* The reader takes a message about something else.                        *)
LEMMA PassingKeepsStream ==
  ASSUME SessionTypeOK, NEW s \in Ptys, StreamInv(s), StreamSame(s),
         stdout # <<>>, stdout' = Tail(stdout), ~Tells(Head(stdout), s),
         UNCHANGED <<alive, link, stdin, replies, helperVars>>,
         Unasked(outbound, s) => Unasked(outbound', s)
  PROVE  StreamInv(s)'
<1> USE DEF StreamInv, StreamSame, helperVars, shellVars
<1>1. /\ Quiet(stdout, s) <=> Quiet(stdout', s)
      /\ OpensFirst(stdout, s) => OpensFirst(stdout', s)
      /\ \A k \in PtyTell : In(stdout, k, s) <=> In(stdout', k, s)
  <2>1. stdout \in Seq(FromHelper)
    BY DEF SessionTypeOK, TypeOK, WireTypeOK
  <2>2. \A k \in PtyTell : Head(stdout) # Msg(k, s)
    BY DEF Tells, Msg
  <2> QED BY <2>1, <2>2, TailSays
<1>2. Fresh(s)'
  BY <1>1 DEF Fresh
<1>3. Opened(s)'
  BY DEF Opened
<1>4. OnItsWay(s)'
  BY <1>1 DEF OnItsWay, NothingSaid
<1>5. Backed(s)'
  BY <1>1 DEF Backed, Over, StartedSaid, EndFor, PtyTell
<1> QED BY <1>2, <1>3, <1>4, <1>5

(* It takes one for the stream: spawn is waiting, or there is a handle.     *)
(* What is not delivered finds the entry gone or loses it.                 *)
LEMMA DeliveryKeepsStream ==
  ASSUME SessionTypeOK, NEW s \in Ptys, StreamInv(s), alive,
         stdout # <<>>, stdout' = Tail(stdout), Tells(Head(stdout), s),
         UNCHANGED <<alive, link, stdin, replies, reading, session, helperVars>>,
         s \in streams' => s \in streams,
         \/ queue'[s] = Append(queue[s], Head(stdout))
         \/ queue'[s] = queue[s] /\ s \notin streams' /\ (s \in streams => ~Deliverable(s))
  PROVE  StreamInv(s)'
<1> USE DEF StreamInv, helperVars, shellVars
<1> DEFINE m == Head(stdout)
<1>1. /\ stdout \in Seq(FromHelper) /\ m \in FromHelper
      /\ queue[s] \in Seq(FromHelper) /\ Len(queue[s]) \in Nat
      /\ session[s] \in SessionStage
  BY TailElements DEF SessionTypeOK, TypeOK, WireTypeOK, HostTypeOK
<1>2. session[s] \notin {"none", "opening", "registered"}
  <2>1. ~Quiet(stdout, s)
    BY <1>1, TailSays
  <2> QED BY <2>1 DEF Fresh
<1>3. Fresh(s)'
  BY <1>2 DEF Fresh
<1>4. ASSUME session[s] = "starting"
      PROVE  queue'[s] # <<>> /\ Opens(Head(queue'[s])) /\ reading[s]
  <2>1. reading[s] /\ (queue[s] # <<>> => Opens(Head(queue[s])))
    BY <1>4 DEF Opened
  <2>2. CASE queue[s] = <<>>
    <3>1. s \in streams /\ Opens(m)
      <4>1. OpensFirst(stdout, s)
        BY <1>4, <2>2 DEF OnItsWay
      <4> QED BY <1>1, <1>4, <2>2, <4>1, TailSays DEF Opened
    <3>2. Deliverable(s)
      BY <2>1, <2>2, Bounds DEF Deliverable
    <3>3. queue'[s] = Append(queue[s], m)
      BY <3>1, <3>2
    <3>4. Head(queue'[s]) = m /\ queue'[s] # <<>>
      BY <1>1, <2>2, <3>3
    <3> QED BY <2>1, <3>1, <3>4
  <2>3. CASE queue[s] # <<>>
    <3>1. Head(queue'[s]) = Head(queue[s]) /\ queue'[s] # <<>>
      <4>1. CASE queue'[s] = Append(queue[s], m)
        <5>1. m \in FromHelper /\ queue[s] \in Seq(FromHelper) /\ Len(queue[s]) \in Nat \ {0}
          BY <1>1, <2>3, TailElements
        <5> HIDE DEF m
        <5>2. /\ queue'[s] \in Seq(FromHelper) /\ queue'[s] # <<>>
              /\ queue'[s][1] = queue[s][1]
          BY <4>1, <5>1, AppendElements
        <5>3. Head(queue'[s]) = queue'[s][1] /\ Head(queue[s]) = queue[s][1]
          BY <2>3, <5>1, <5>2, TailElements
        <5> QED BY <5>2, <5>3
      <4> QED BY <2>3, <4>1
    <3> QED BY <2>1, <2>3, <3>1
  <2> QED BY <2>2, <2>3
<1>5. Opened(s)'
  BY <1>2, <1>4 DEF Opened
<1>6. OnItsWay(s)'
  BY <1>4 DEF OnItsWay
<1>7. Backed(s)'
  <2>1. CASE s \notin streams'
    BY <2>1 DEF Backed, Over
  <2>2. CASE s \in streams' /\ queue'[s] = Append(queue[s], m)
    <3>1. /\ \A k : In(stdout, k, s) <=> m = Msg(k, s) \/ In(stdout', k, s)
          /\ \A k : In(queue'[s], k, s) <=> In(queue[s], k, s) \/ m = Msg(k, s)
      BY <1>1, <2>2, TailSays, AppendSays
    <3>2. Over(s) => Over(s)'
      BY <2>2, <3>1 DEF Over, EndFor
    <3>3. StartedSaid(s)' => StartedSaid(s)
      BY <3>1 DEF StartedSaid
    <3> QED BY <3>2, <3>3 DEF Backed
  <2> QED BY <2>1, <2>2
<1> QED BY <1>3, <1>5, <1>6, <1>7

LEMMA RoutingKeepsStreams ==
  ASSUME SessionTypeOK, NEW s \in Ptys, StreamInv(s), RouteMessage, UNCHANGED helperVars
  PROVE  StreamInv(s)'
<1> DEFINE m == Head(stdout)
<1>1. /\ alive /\ stdout # <<>> /\ stdout' = Tail(stdout)
      /\ stdout \in Seq(FromHelper) /\ m \in FromHelper
      /\ outbound \in Seq(FromHost)
      /\ queue \in [Ptys -> Seq(FromHelper)]
  BY TailElements DEF RouteMessage, SessionTypeOK, TypeOK, WireTypeOK, HostTypeOK
<1>2. \/ m.kind = "Result" /\ RouteResult(m.id)
      \/ m.kind \in {"Started", "Output"} /\ RouteOutput(m.id, m)
      \/ m.kind \in {"Exited", "Lost"} /\ RouteEnd(m.id, m)
  BY DEF RouteMessage
<1>3. m.kind \in PtyTell => m.id \in Ptys
  BY <1>1, Messages
<1>4. Quiet(stdout, s) => Quiet(stdout', s)
  BY <1>1, TailSays
<1> HIDE DEF m
<1>5. ASSUME NEW t \in Ptys, Overflow(t)
      PROVE  \/ StreamInv(s)'
             \/ /\ streams' = streams \ {t}
                /\ UNCHANGED <<alive, queue, reading, session, link, stdin, replies>>
                /\ Unasked(outbound, s) => Unasked(outbound', s)
  <2>1. CASE /\ streams' = streams \ {t}
             /\ outbound' = Append(outbound, Msg("Cancel", t))
             /\ UNCHANGED <<alive, queue, reading, session, link, stdin, replies>>
    <3>1. Msg("Cancel", t) \in FromHost /\ Msg("Cancel", t) # Msg("Spawn", s)
      BY Messages DEF PtyAsk, Msg
    <3> QED BY <1>1, <2>1, <3>1, AppendSays DEF Unasked
  <2>2. CASE Lose(streams \ {t}) /\ UNCHANGED <<reading, session>>
    BY <1>4, <2>2, LossKeepsStream
  <2> QED BY <1>5, <2>1, <2>2 DEF Overflow
<1>6. CASE Tells(m, s)
  <2>1. m.id = s /\ m.kind \in PtyTell
    BY <1>6 DEF Tells
  <2>2. CASE RouteOutput(s, m)
    <3>1. CASE s \in streams /\ Deliverable(s) /\ Routed(s, m) /\ UNCHANGED streams
      BY <1>1, <1>6, <3>1, DeliveryKeepsStream DEF Routed, m
    <3>2. CASE s \in streams /\ ~Deliverable(s) /\ Overflow(s)
      BY <1>1, <1>5, <1>6, <3>2, DeliveryKeepsStream DEF m
    <3>3. CASE s \notin streams /\ UNCHANGED <<hostVars, link, outbound, stdin, replies>>
      BY <1>1, <1>6, <3>3, DeliveryKeepsStream DEF m, hostVars, ptyVars
    <3> QED BY <2>2, <3>1, <3>2, <3>3 DEF RouteOutput
  <2>3. CASE RouteEnd(s, m)
    <3>1. streams' = streams \ {s}
      BY <2>3 DEF RouteEnd
    <3>2. CASE Routed(s, m)
      BY <1>1, <1>6, <3>1, <3>2, DeliveryKeepsStream DEF Routed, m
    <3>3. CASE ~(s \in streams /\ Deliverable(s))
               /\ UNCHANGED <<alive, queue, reading, session, link, outbound, stdin, replies>>
      BY <1>1, <1>6, <3>1, <3>3, DeliveryKeepsStream DEF m
    <3> QED BY <2>3, <3>2, <3>3 DEF RouteEnd
  <2> QED BY <1>2, <2>1, <2>2, <2>3 DEF PtyTell
<1>7. CASE ~Tells(m, s)
  <2>0. \/ StreamInv(s)'
        \/ /\ StreamSame(s)
           /\ UNCHANGED <<alive, link, stdin, replies>>
           /\ Unasked(outbound, s) => Unasked(outbound', s)
    <3>1. CASE RouteResult(m.id)
      BY <3>1 DEF RouteResult, StreamSame, ptyVars
    <3>2. CASE m.kind \in PtyTell /\ m.id # s /\ (RouteOutput(m.id, m) \/ RouteEnd(m.id, m))
      <4>1. PICK t \in Ptys : t = m.id /\ t # s
        BY <1>3, <3>2
      <4>2. CASE Routed(t, m) /\ (streams' = streams \/ streams' = streams \ {t})
        BY <1>1, <4>1, <4>2 DEF Routed, StreamSame
      <4>3. CASE Overflow(t)
        <5>1. CASE StreamInv(s)'
          BY <5>1
        <5>2. CASE /\ streams' = streams \ {t}
                   /\ UNCHANGED <<alive, queue, reading, session, link, stdin, replies>>
                   /\ Unasked(outbound, s) => Unasked(outbound', s)
          BY <4>1, <5>2 DEF StreamSame
        <5> QED BY <1>5, <4>1, <4>3, <5>1, <5>2
      <4>4. CASE UNCHANGED <<alive, queue, reading, session, link, outbound, stdin, replies>>
                 /\ (streams' = streams \/ streams' = streams \ {t})
        BY <4>1, <4>4 DEF StreamSame
      <4> QED BY <3>2, <4>1, <4>2, <4>3, <4>4
              DEF RouteOutput, RouteEnd, hostVars, ptyVars
    <3> QED BY <1>2, <1>7, <3>1, <3>2 DEF Tells, PtyTell
  <2> QED BY <1>1, <1>7, <2>0, PassingKeepsStream DEF m
<1> QED BY <1>6, <1>7

-----------------------------------------------------------------------------
(* The steps of spawn and of the handle.                                   *)
LEMMA SettledStream ==
  ASSUME NEW s \in Ptys,
         session'[s] \notin {"none", "opening", "registered", "starting", "Running"}
  PROVE  StreamInv(s)'
BY DEF StreamInv, Fresh, Opened, OnItsWay, Backed

LEMMA OtherPtysKeepStream ==
  ASSUME SessionTypeOK, NEW s \in Ptys, NEW t \in Ptys, t # s, HostPty(t)
  PROVE  StreamSame(s)
<1>1. /\ queue \in [Ptys -> Seq(FromHelper)] /\ reading \in [Ptys -> BOOLEAN]
      /\ session \in [Ptys -> SessionStage]
  BY DEF SessionTypeOK, TypeOK, HostTypeOK
<1> USE <1>1 DEF StreamSame
<1>2. CASE OpenPty(t) \/ RegisterPty(t) \/ CancelSpawn(t)
  BY <1>2 DEF OpenPty, RegisterPty, CancelSpawn
<1>3. CASE SendSpawn(t) \/ AwaitStarted(t) \/ SendCancelPty(t)
  BY <1>3 DEF SendSpawn, AwaitStarted, SendCancelPty, GiveUpSpawn
<1>4. CASE ReadPty(t) \/ WriteInput(t) \/ Resize(t)
  BY <1>4 DEF ReadPty, WriteInput, Resize
<1>5. CASE CancelPty(t) \/ DropPty(t)
  BY <1>5 DEF CancelPty, DropPty
<1> QED BY <1>2, <1>3, <1>4, <1>5 DEF HostPty

(* Only SendSpawn sends a Spawn.                                           *)
LEMMA PtyAsks ==
  ASSUME NEW t \in Ptys, HostPty(t)
  PROVE  /\ UNCHANGED <<alive, link, stdin, replies, stdout>>
         /\ \/ UNCHANGED outbound
            \/ \E k \in {"Input", "Resize", "Cancel"} : outbound' = Append(outbound, Msg(k, t))
            \/ SendSpawn(t) /\ outbound' = Append(outbound, Msg("Spawn", t))
<1>1. CASE OpenPty(t) \/ RegisterPty(t) \/ CancelSpawn(t) \/ AwaitStarted(t) \/ ReadPty(t)
  BY <1>1 DEF OpenPty, RegisterPty, CancelSpawn, AwaitStarted, ReadPty, wire
<1>2. CASE SendSpawn(t) \/ SendCancelPty(t)
  BY <1>2 DEF SendSpawn, SendCancelPty, Send
<1>3. CASE WriteInput(t) \/ Resize(t) \/ CancelPty(t) \/ DropPty(t)
  BY <1>3 DEF WriteInput, Resize, CancelPty, DropPty, OnDrop, TellCancel, Send
<1> QED BY <1>1, <1>2, <1>3 DEF HostPty

LEMMA PtysKeepStreams ==
  ASSUME SessionTypeOK, NEW s \in Ptys, StreamInv(s), NEW t \in Ptys, HostPty(t),
         UNCHANGED helperVars
  PROVE  StreamInv(s)'
<1>1. /\ queue \in [Ptys -> Seq(FromHelper)] /\ reading \in [Ptys -> BOOLEAN]
      /\ session \in [Ptys -> SessionStage]
      /\ outbound \in Seq(FromHost)
      /\ queue[s] \in Seq(News(s))
  BY DEF SessionTypeOK, TypeOK, HostTypeOK, WireTypeOK, StreamTypeOK
<1>2. UNCHANGED <<alive, link, stdin, replies, stdout, saying, ptys, drain>>
  BY PtyAsks DEF helperVars, shellVars
<1>3. ASSUME t # s \/ ~SendSpawn(t), Unasked(outbound, s)
      PROVE  Unasked(outbound', s)
  <2>1. ASSUME NEW k \in PtyAsk, k # "Spawn" \/ t # s, outbound' = Append(outbound, Msg(k, t))
        PROVE  Unasked(outbound', s)
    <3>1. Msg(k, t) \in FromHost /\ Msg(k, t) # Msg("Spawn", s)
      BY <2>1, Messages DEF Msg
    <3> QED BY <1>1, <1>3, <2>1, <3>1, AppendSays DEF Unasked
  <2> QED BY <1>3, <2>1, PtyAsks DEF PtyAsk
<1>4. ASSUME StreamSame(s), t # s \/ ~SendSpawn(t)
      PROVE  StreamInv(s)'
  BY <1>2, <1>3, <1>4, AskingKeepsStream
<1>5. CASE t # s
  BY <1>4, <1>5, OtherPtysKeepStream
<1>6. CASE t = s
  <2>0. session[s] \in {"opening", "none"} => ~SendSpawn(s)
    BY DEF SendSpawn
  <2> USE DEF StreamInv
  <2>1. CASE OpenPty(s)
    <3>1. session'[s] = "opening" /\ session[s] = "none"
          /\ UNCHANGED <<queue, reading, streams, outbound>>
      BY <1>1, <2>1 DEF OpenPty, wire
    <3> QED BY <1>2, <3>1 DEF Fresh, Opened, OnItsWay, Backed
  <2>2. CASE RegisterPty(s)
    <3>1. session'[s] = "registered" /\ session[s] = "opening" /\ reading'[s] = TRUE
          /\ s \in streams' /\ UNCHANGED <<queue, outbound>>
      BY <1>1, <2>2 DEF RegisterPty, wire
    <3> QED BY <1>2, <3>1 DEF Fresh, Opened, OnItsWay, Backed
  <2>3. CASE CancelSpawn(s) \/ WriteInput(s) \/ Resize(s)
    <3>1. StreamSame(s)
      BY <2>3 DEF CancelSpawn, WriteInput, Resize, StreamSame
    <3>2. Unasked(outbound, s) => Unasked(outbound', s)
      <4>1. CASE UNCHANGED outbound
        BY <4>1
      <4>2. ASSUME NEW k \in {"Input", "Resize"}, outbound' = Append(outbound, Msg(k, s))
            PROVE  Unasked(outbound, s) => Unasked(outbound', s)
        <5>1. Msg(k, s) \in FromHost /\ Msg(k, s) # Msg("Spawn", s)
          BY Messages DEF Msg, PtyAsk
        <5> QED BY <1>1, <4>2, <5>1, AppendSays DEF Unasked
      <4> QED BY <2>3, <4>1, <4>2 DEF CancelSpawn, WriteInput, Resize, Send, wire
    <3> QED BY <1>2, <3>1, <3>2, AskingKeepsStream
  <2>4. CASE SendSpawn(s)
    <3>1. CASE Send(Msg("Spawn", s)) /\ session' = [session EXCEPT ![s] = "starting"]
               /\ UNCHANGED streams
      <4>1. session'[s] = "starting" /\ session[s] = "registered" /\ alive
            /\ UNCHANGED <<queue, reading>>
        BY <1>1, <2>4, <3>1 DEF SendSpawn, Send
      <4>2. queue[s] = <<>> /\ Quiet(stdout, s) /\ Quiet(replies, s) /\ ~Tells(saying, s)
            /\ s \notin ptys /\ drain[s] = "none"
        BY <4>1 DEF Fresh
      <4>3. Fresh(s)'
        BY <4>1 DEF Fresh
      <4>4. Opened(s)'
        BY <3>1, <4>1, <1>2 DEF Opened
      <4>5. OnItsWay(s)'
        <5>1. OpensFirst(stdout, s) /\ OpensFirst(replies, s)
          BY <4>2 DEF Quiet, OpensFirst
        <5> QED BY <1>2, <4>2, <5>1 DEF OnItsWay, NothingSaid
      <4>6. Backed(s)'
        <5>1. ~StartedSaid(s)
          <6>1. Tells(Msg("Started", s), s)
            BY TellFacts DEF PtyTell
          <6> QED BY <4>2, <6>1 DEF StartedSaid, Quiet, In
        <5>2. ~StartedSaid(s)'
          BY <1>2, <4>1, <5>1 DEF StartedSaid
        <5> QED BY <1>2, <4>1, <4>2, <5>2 DEF Backed
      <4> QED BY <4>3, <4>4, <4>5, <4>6
    <3>2. CASE GiveUpSpawn(s)
      BY <1>1, <3>2, SettledStream DEF GiveUpSpawn
    <3> QED BY <2>4, <3>1, <3>2 DEF SendSpawn
  <2>5. CASE AwaitStarted(s)
    <3>1. CASE HasStarted(s) /\ session' = [session EXCEPT ![s] = "Running"]
               /\ queue' = [queue EXCEPT ![s] = Tail(@)] /\ UNCHANGED streams
      <4>1. session'[s] = "Running" /\ session[s] = "starting"
            /\ queue'[s] = Tail(queue[s]) /\ queue[s] # <<>>
        BY <1>1, <2>5, <3>1 DEF AwaitStarted, HasStarted
      <4>2. Head(queue[s]) = Msg("Started", s)
        <5>1. Head(queue[s]) \in News(s)
          BY <1>1, <4>1, TailElements
        <5> QED BY <3>1, <5>1 DEF HasStarted, News, Msg
      <4>3. \A k : In(queue[s], k, s) <=> Head(queue[s]) = Msg(k, s) \/ In(queue'[s], k, s)
        <5>1. \A k : In(queue[s], k, s)
                       <=> Head(queue[s]) = Msg(k, s) \/ In(Tail(queue[s]), k, s)
          BY <1>1, <4>1, TailSays
        <5> QED BY <4>1, <5>1
      <4>4. StartedSaid(s)
        BY <4>2, <4>3 DEF StartedSaid
      <4>5. EndFor(queue[s], s) => EndFor(queue'[s], s)
        <5>1. Msg("Started", s) # Msg("Exited", s) /\ Msg("Started", s) # Msg("Lost", s)
          BY DEF Msg
        <5> QED BY <4>2, <4>3, <5>1 DEF EndFor
      <4>6. Over(s) => Over(s)'
        BY <1>2, <3>1, <4>5 DEF Over
      <4>7. Backed(s)'
        BY <1>2, <4>1, <4>4, <4>6 DEF Backed
      <4> QED BY <4>1, <4>7 DEF Fresh, Opened, OnItsWay
    <3>2. CASE GiveUpSpawn(s)
      BY <1>1, <3>2, SettledStream DEF GiveUpSpawn
    <3> QED BY <2>5, <3>1, <3>2 DEF AwaitStarted
  <2>6. CASE SendCancelPty(s) \/ CancelPty(s) \/ DropPty(s)
    BY <1>1, <2>6, SettledStream DEF SendCancelPty, CancelPty, DropPty
  <2>7. CASE ReadPty(s)
    <3>1. CASE session'[s] # "Running"
      <4>1. session'[s] \in Handle
        BY <1>1, <2>7 DEF ReadPty, Handle
      <4> QED BY <3>1, <4>1, SettledStream DEF Handle
    <3>2. CASE session'[s] = "Running"
      <4>1. queue[s] # <<>> /\ queue'[s] = Tail(queue[s]) /\ session[s] = "Running"
            /\ Head(queue[s]).kind \notin {"Exited", "Lost"} /\ UNCHANGED streams
        BY <1>1, <2>7, <3>2 DEF ReadPty, Handle
      <4>2. \A k : In(queue[s], k, s) <=> Head(queue[s]) = Msg(k, s) \/ In(queue'[s], k, s)
        <5>1. \A k : In(queue[s], k, s)
                       <=> Head(queue[s]) = Msg(k, s) \/ In(Tail(queue[s]), k, s)
          BY <1>1, <4>1, TailSays
        <5> QED BY <4>1, <5>1
      <4>3. EndFor(queue[s], s) => EndFor(queue'[s], s)
        <5>1. Head(queue[s]) # Msg("Exited", s) /\ Head(queue[s]) # Msg("Lost", s)
          BY <4>1 DEF Msg
        <5> QED BY <4>2, <5>1 DEF EndFor
      <4>4. Over(s) => Over(s)'
        BY <1>2, <4>1, <4>3 DEF Over
      <4>5. Backed(s)'
        BY <1>2, <4>1, <4>4 DEF Backed
      <4> QED BY <3>2, <4>5 DEF Fresh, Opened, OnItsWay
    <3> QED BY <3>1, <3>2
  <2> QED BY <1>6, <2>1, <2>2, <2>3, <2>4, <2>5, <2>6, <2>7 DEF HostPty
<1> QED BY <1>5, <1>6

-----------------------------------------------------------------------------
(* The steps of the helper.                                                *)
HostSame == UNCHANGED <<hostVars, link, outbound>>

(* Something about something else is queued, or nothing.                   *)
LEMMA RepliesKeepStream ==
  ASSUME SessionTypeOK, NEW s \in Ptys, StreamInv(s), HostSame,
         UNCHANGED <<stdin, stdout, saying>>,
         s \in ptys' <=> s \in ptys, drain'[s] = drain[s],
         \/ replies' = replies
         \/ \E m \in FromHelper : ~Tells(m, s) /\ replies' = Append(replies, m)
  PROVE  StreamInv(s)'
<1> USE DEF StreamInv, HostSame, hostVars, ptyVars
<1>1. replies \in Seq(FromHelper)
  BY DEF SessionTypeOK, TypeOK, WireTypeOK
<1>2. /\ Quiet(replies, s) <=> Quiet(replies', s)
      /\ OpensFirst(replies, s) => OpensFirst(replies', s)
      /\ \A k \in PtyTell : In(replies, k, s) <=> In(replies', k, s)
  <2>1. ASSUME NEW m \in FromHelper, ~Tells(m, s), replies' = Append(replies, m)
        PROVE  /\ Quiet(replies, s) <=> Quiet(replies', s)
               /\ OpensFirst(replies, s) => OpensFirst(replies', s)
               /\ \A k \in PtyTell : In(replies, k, s) <=> In(replies', k, s)
    <3>1. \A k \in PtyTell : m # Msg(k, s)
      BY <2>1 DEF Tells, Msg
    <3> QED BY <1>1, <2>1, <3>1, AppendSays
  <2> QED BY <2>1
<1>3. Fresh(s)'
  BY <1>2 DEF Fresh
<1>4. Opened(s)'
  BY DEF Opened
<1>5. OnItsWay(s)'
  BY <1>2 DEF OnItsWay, NothingSaid
<1>6. Backed(s)'
  BY <1>2 DEF Backed, Over, StartedSaid, EndFor, PtyTell
<1> QED BY <1>3, <1>4, <1>5, <1>6

(* What dispatch does about a stream: nothing; a spawn; an end that took   *)
(* the session out of the map.                                             *)
LEMMA DispatchEffect ==
  ASSUME SessionTypeOK, NEW s \in Ptys, Dispatch
  PROVE  /\ UNCHANGED <<drain, replies, stdout>>
         /\ saying = Nothing /\ stdin # <<>> /\ stdin' = Tail(stdin)
         /\ \/ ~Tells(saying', s) /\ (s \in ptys' <=> s \in ptys)
            \/ /\ Head(stdin) = Msg("Spawn", s)
               /\ \/ saying' = Msg("Lost", s) /\ UNCHANGED ptys
                  \/ saying' = Msg("Started", s) /\ s \in ptys'
            \/ s \in ptys /\ EndOf(saying', s)
<1> DEFINE m == Head(stdin)
<1>1. /\ saying = Nothing /\ stdin # <<>> /\ stdin' = Tail(stdin) /\ stdin \in Seq(FromHost)
      /\ UNCHANGED <<replies, stdout>>
      /\ m \in FromHost
  BY TailElements DEF Dispatch, SessionTypeOK, TypeOK, WireTypeOK
<1>2. /\ m.kind \in Ask => m.id \in Requests
      /\ m.kind \in PtyAsk => m.id \in Ptys /\ m = Msg(m.kind, m.id)
  BY <1>1 DEF FromHost, Ask, PtyAsk, Msg
<1>3. \/ m.kind = "Begin" /\ Begin(m.id)
      \/ m.kind = "CancelExec" /\ CancelExec(m.id)
      \/ m.kind = "Spawn" /\ Spawn(m.id)
      \/ m.kind = "Input" /\ Input(m.id)
      \/ m.kind = "Resize" /\ ResizePty(m.id)
      \/ m.kind = "Cancel" /\ CancelSession(m.id)
  BY DEF Dispatch
<1> HIDE DEF m
<1> DEFINE Effect ==
      /\ UNCHANGED drain
      /\ \/ ~Tells(saying', s) /\ (s \in ptys' <=> s \in ptys)
         \/ /\ m = Msg("Spawn", s)
            /\ \/ saying' = Msg("Lost", s) /\ UNCHANGED ptys
               \/ saying' = Msg("Started", s) /\ s \in ptys'
         \/ s \in ptys /\ EndOf(saying', s)
<1>4. ASSUME UNCHANGED <<saying, shellVars>> PROVE Effect
  BY <1>1, <1>4, TellFacts DEF shellVars
<1>5. ASSUME NEW r, Begin(r) \/ CancelExec(r) PROVE Effect
  <2>1. UNCHANGED shellVars /\ (saying' = saying \/ saying' = Msg("Result", r))
    BY <1>5 DEF Begin, CancelExec
  <2>2. ~Tells(saying', s)
    BY <1>1, <2>1 DEF Tells, PtyTell, Msg, Nothing
  <2> QED BY <2>1, <2>2 DEF shellVars
<1>6. ASSUME NEW t \in Ptys, m = Msg("Spawn", t), Spawn(t) PROVE Effect
  <2>1. UNCHANGED drain
    BY <1>6 DEF Spawn, DrainAtSpawn
  <2>2. \/ saying' = Msg("Lost", t) /\ UNCHANGED ptys
        \/ saying' = Msg("Started", t) /\ ptys' = ptys \cup {t}
    BY <1>6 DEF Spawn
  <2>3. t # s => ~Tells(saying', s)
    BY <2>2, TellFacts DEF PtyTell
  <2> QED BY <1>6, <2>1, <2>2, <2>3
<1>7. ASSUME NEW t \in Ptys, t \in ptys, LosePty(t) \/ CancelSession(t) PROVE Effect
  <2>1. /\ UNCHANGED drain /\ ptys' = ptys \ {t}
        /\ saying' = Msg("Lost", t) \/ saying' = Msg("Exited", t)
    BY <1>7 DEF LosePty, CancelSession
  <2>2. IF t = s THEN EndOf(saying', s) ELSE ~Tells(saying', s)
    BY <2>1, TellFacts DEF PtyTell
  <2> QED BY <1>7, <2>1, <2>2
<1>8. ASSUME NEW t \in Ptys, Input(t) \/ ResizePty(t) \/ CancelSession(t) PROVE Effect
  BY <1>4, <1>7, <1>8 DEF Input, ResizePty, CancelSession
<1>9. Effect
  BY <1>2, <1>3, <1>5, <1>6, <1>8 DEF PtyAsk
<1> QED BY <1>1, <1>9 DEF m

LEMMA DispatchKeepsStreams ==
  ASSUME SessionTypeOK, NEW s \in Ptys, StreamInv(s), Dispatch, UNCHANGED hostVars
  PROVE  StreamInv(s)'
<1> USE DEF StreamInv, hostVars, ptyVars
<1>1. UNCHANGED <<link, outbound, replies, stdout, drain>> /\ saying = Nothing
  BY DispatchEffect DEF Dispatch
<1>2. Unasked(stdin, s) => Head(stdin) # Msg("Spawn", s) /\ Unasked(stdin', s)
  <2>1. stdin \in Seq(FromHost) /\ stdin # <<>> /\ stdin' = Tail(stdin)
    BY DispatchEffect DEF SessionTypeOK, TypeOK, WireTypeOK
  <2> QED BY <2>1, TailSays DEF Unasked
<1>3. CASE ~Tells(saying', s) /\ (s \in ptys' <=> s \in ptys)
  <2>1. ~Tells(saying, s) /\ ~EndOf(saying, s) /\ saying' # Msg("Started", s)
    BY <1>1, <1>3, TellFacts
  <2>2. Fresh(s)'
    BY <1>1, <1>2, <1>3 DEF Fresh
  <2>3. Opened(s)'
    BY <1>1 DEF Opened
  <2>4. OnItsWay(s)'
    BY <1>1, <1>3, <2>1 DEF OnItsWay, NothingSaid
  <2>5. Backed(s)'
    BY <1>1, <1>3, <2>1 DEF Backed, Over, StartedSaid
  <2> QED BY <2>2, <2>3, <2>4, <2>5
<1>4. CASE /\ Head(stdin) = Msg("Spawn", s)
           /\ \/ saying' = Msg("Lost", s) /\ UNCHANGED ptys
              \/ saying' = Msg("Started", s) /\ s \in ptys'
  <2>1. /\ ~Tells(saying, s) /\ ~EndOf(saying, s)
        /\ Tells(saying', s) /\ Opens(saying')
        /\ saying' = Msg("Lost", s) => EndOf(saying', s)
    <3>1. /\ \A k \in {"Started", "Lost"} : Tells(Msg(k, s), s) /\ Opens(Msg(k, s))
          /\ EndOf(Msg("Lost", s), s)
          /\ ~Tells(Nothing, s) /\ ~EndOf(Nothing, s)
      BY TellFacts DEF PtyTell
    <3> QED BY <1>1, <1>4, <3>1
  <2>2. Fresh(s)'
    BY <1>1, <1>2, <1>4 DEF Fresh
  <2>3. Opened(s)'
    BY <1>1 DEF Opened
  <2>4. OnItsWay(s)'
    BY <1>1, <1>4, <2>1 DEF OnItsWay, NothingSaid
  <2>5. Over(s) => Over(s)'
    BY <1>1, <2>1 DEF Over
  <2>6. Backed(s)'
    <3>1. s \in ptys' \/ Over(s)'
      BY <1>4, <2>1 DEF Over
    <3> QED BY <1>1, <2>5, <3>1 DEF Backed
  <2> QED BY <2>2, <2>3, <2>4, <2>6
<1>5. CASE s \in ptys /\ EndOf(saying', s)
  <2>1. ~Tells(saying, s)
    BY <1>1, TellFacts
  <2>2. Fresh(s)'
    BY <1>1, <1>5 DEF Fresh
  <2>3. Opened(s)'
    BY <1>1 DEF Opened
  <2>4. OnItsWay(s)'
    BY <1>1, <1>5, <2>1 DEF OnItsWay, NothingSaid
  <2>5. Backed(s)'
    BY <1>5 DEF Backed, Over
  <2> QED BY <2>2, <2>3, <2>4, <2>5
<1> QED BY <1>3, <1>4, <1>5, DispatchEffect

LEMMA FinishKeepsStreams ==
  ASSUME SessionTypeOK, LinkInv, NEW s \in Ptys, StreamInv(s), FinishDispatch,
         UNCHANGED hostVars
  PROVE  StreamInv(s)'
<1> USE DEF StreamInv, hostVars, ptyVars
<1>1. /\ UNCHANGED <<link, outbound, stdin, stdout>> /\ saying' = Nothing
      /\ saying \in FromHelper /\ replies \in Seq(FromHelper)
      /\ drain \in [Ptys -> {"none", "reading", "ending", "removing", "done"}]
  BY DEF FinishDispatch, SessionTypeOK, TypeOK, WireTypeOK, HelperTypeOK
<1>2. ~Tells(saying', s) /\ ~EndOf(saying', s) /\ saying' # Msg("Started", s)
  BY <1>1, TellFacts
<1>3. CASE /\ Say(saying)
           /\ drain' = IF saying.kind = "Started"
                         THEN [drain EXCEPT ![saying.id] = "reading"] ELSE drain
           /\ UNCHANGED <<helper, ptys, ptyToken, cleaning>>
  <2>1. /\ Quiet(replies', s) <=> Quiet(replies, s) /\ ~Tells(saying, s)
        /\ OpensFirst(replies, s) /\ (Quiet(replies, s) /\ Tells(saying, s) => Opens(saying))
              => OpensFirst(replies', s)
        /\ \A k : In(replies', k, s) <=> In(replies, k, s) \/ saying = Msg(k, s)
    BY <1>1, <1>3, AppendSays DEF Say
  <2>2. drain'[s] = IF saying = Msg("Started", s) THEN "reading" ELSE drain[s]
    <3>1. saying = Msg("Started", s) <=> saying.kind = "Started" /\ saying.id = s
      BY <1>1, Messages DEF Msg
    <3> QED BY <1>1, <1>3, <3>1
  <2>3. saying = Msg("Started", s) => Tells(saying, s)
    BY TellFacts
  <2>4. Fresh(s)'
    BY <1>1, <1>2, <1>3, <2>1, <2>2, <2>3 DEF Fresh
  <2>5. Opened(s)'
    BY <1>1 DEF Opened
  <2>6. OnItsWay(s)'
    BY <1>1, <1>2, <1>3, <2>1, <2>2, <2>3 DEF OnItsWay, NothingSaid
  <2>7. Over(s) => Over(s)'
    BY <1>1, <2>1 DEF Over, EndFor, EndOf
  <2>8. StartedSaid(s)' => StartedSaid(s)
    BY <1>1, <1>2, <2>1 DEF StartedSaid
  <2>9. Backed(s)'
    BY <1>1, <1>3, <2>2, <2>7, <2>8 DEF Backed
  <2> QED BY <2>4, <2>5, <2>6, <2>9
<1>4. CASE /\ shutdown /\ UNCHANGED <<drain, replies>>
           /\ ptys' \subseteq ptys
  <2>1. ~link /\ ~link'
    BY <1>1, <1>4 DEF LinkInv
  <2>2. Fresh(s)'
    BY <1>1, <1>2, <1>4 DEF Fresh
  <2>3. Opened(s)'
    BY <1>1 DEF Opened
  <2>4. OnItsWay(s)'
    BY <1>1, <2>1 DEF OnItsWay
  <2>5. Backed(s)'
    BY <2>1 DEF Backed, Over
  <2> QED BY <2>2, <2>3, <2>4, <2>5
<1> QED BY <1>3, <1>4 DEF FinishDispatch

LEMMA WriteReplyKeepsStreams ==
  ASSUME SessionTypeOK, NEW s \in Ptys, StreamInv(s), WriteReply, UNCHANGED hostVars
  PROVE  StreamInv(s)'
<1> USE DEF StreamInv, hostVars, ptyVars
<1> DEFINE m == Head(replies)
<1>1. /\ UNCHANGED <<link, outbound, stdin, saying, ptys, drain>>
      /\ replies \in Seq(FromHelper) /\ stdout \in Seq(FromHelper) /\ replies # <<>>
      /\ m \in FromHelper
  BY TailElements
     DEF WriteReply, SessionTypeOK, TypeOK, WireTypeOK, HelperTypeOK, shellVars
<1>2. CASE link /\ stdout' = Append(stdout, m) /\ replies' = Tail(replies)
  <2>1. /\ Quiet(replies, s) <=> ~Tells(m, s) /\ Quiet(replies', s)
        /\ OpensFirst(replies, s) /\ Tells(m, s) => Opens(m)
        /\ OpensFirst(replies, s) /\ ~Tells(m, s) => OpensFirst(replies', s)
        /\ \A k : In(replies, k, s) <=> m = Msg(k, s) \/ In(replies', k, s)
    BY <1>1, <1>2, TailSays
  <2>2. /\ Quiet(stdout', s) <=> Quiet(stdout, s) /\ ~Tells(m, s)
        /\ OpensFirst(stdout, s) /\ (Quiet(stdout, s) /\ Tells(m, s) => Opens(m))
             => OpensFirst(stdout', s)
        /\ \A k : In(stdout', k, s) <=> In(stdout, k, s) \/ m = Msg(k, s)
    BY <1>1, <1>2, AppendSays
  <2> HIDE DEF m
  <2>3. Fresh(s)'
    BY <1>1, <2>1, <2>2 DEF Fresh
  <2>4. Opened(s)'
    BY <1>1 DEF Opened
  <2>5. OnItsWay(s)'
    BY <1>1, <1>2, <2>1, <2>2 DEF OnItsWay, NothingSaid
  <2>6. Over(s) => Over(s)'
    BY <1>1, <2>1, <2>2 DEF Over, EndFor
  <2>7. StartedSaid(s)' => StartedSaid(s)
    BY <1>1, <2>1, <2>2 DEF StartedSaid
  <2>8. Backed(s)'
    BY <1>1, <2>6, <2>7 DEF Backed
  <2> QED BY <2>3, <2>4, <2>5, <2>8
<1>3. CASE ~link /\ replies' = <<>> /\ UNCHANGED stdout
  <2>1. Fresh(s)'
    BY <1>1, <1>3, EmptySays DEF Fresh
  <2>2. Opened(s)'
    BY <1>1 DEF Opened
  <2>3. OnItsWay(s)'
    BY <1>1, <1>3 DEF OnItsWay
  <2>4. Backed(s)'
    BY <1>1, <1>3 DEF Backed, Over
  <2> QED BY <2>1, <2>2, <2>3, <2>4
<1> QED BY <1>2, <1>3 DEF WriteReply, m

LEMMA ServiceKeepsStreams ==
  ASSUME SessionTypeOK, LinkInv, NEW s \in Ptys, StreamInv(s), UNCHANGED hostVars,
         ServiceEnds \/ CancelSessions \/ CancelExecs \/ Exit
  PROVE  StreamInv(s)'
<1>1. CASE ServiceEnds \/ CancelExecs \/ Exit
  <2>1. HostSame /\ UNCHANGED <<stdin, stdout, replies, saying, ptys, drain>>
    BY <1>1 DEF ServiceEnds, CancelExecs, Exit, HostSame, wire, shellVars
  <2> QED BY <2>1, RepliesKeepStream
<1>2. CASE CancelSessions
  <2> USE DEF StreamInv, hostVars, ptyVars
  <2>1. UNCHANGED <<link, outbound, stdin, stdout, replies, saying, drain>> /\ ptys' = {}
        /\ ~link
    BY <1>2 DEF CancelSessions, LinkInv, wire
  <2>2. Fresh(s)'
    BY <2>1 DEF Fresh
  <2>3. Opened(s)'
    BY <2>1 DEF Opened
  <2>4. OnItsWay(s)'
    BY <2>1 DEF OnItsWay
  <2>5. Backed(s)'
    BY <2>1 DEF Backed, Over
  <2> QED BY <2>2, <2>3, <2>4, <2>5
<1> QED BY <1>1, <1>2

LEMMA OperationsKeepStreams ==
  ASSUME SessionTypeOK, NEW s \in Ptys, StreamInv(s), UNCHANGED hostVars,
         NEW r \in Requests, Reserve(r) \/ StopExec(r) \/ OperationEnds(r) \/ Reply(r)
  PROVE  StreamInv(s)'
<1>1. HostSame /\ UNCHANGED <<stdin, stdout, saying, ptys, drain>>
  BY DEF Reserve, StopExec, OperationEnds, Reply, HostSame, wire, shellVars
<1>2. replies' = replies \/ replies' = Append(replies, Msg("Result", r))
  BY DEF Reserve, StopExec, OperationEnds, Reply, wire
<1>3. Msg("Result", r) \in FromHelper /\ ~Tells(Msg("Result", r), s)
  BY Messages, TellFacts
<1> QED BY <1>1, <1>2, <1>3, RepliesKeepStream

LEMMA ShellsKeepStreams ==
  ASSUME SessionTypeOK, LinkInv, NEW s \in Ptys, StreamInv(s), UNCHANGED hostVars,
         NEW t \in Ptys,
         \/ ShellDies(t) \/ JobEnds(t) \/ InputFails(t)
         \/ DrainReads(t) \/ DrainEnds(t) \/ DrainReports(t) \/ DrainRemoves(t)
  PROVE  StreamInv(s)'
<1>1. /\ drain \in [Ptys -> {"none", "reading", "ending", "removing", "done"}]
      /\ replies \in Seq(FromHelper)
      /\ Msg("Output", t) \in FromHelper /\ Msg("Exited", t) \in FromHelper
  BY Messages DEF SessionTypeOK, TypeOK, WireTypeOK, HelperTypeOK, PtyTell
<1>2. HostSame /\ UNCHANGED <<stdin, stdout, saying>>
  BY DEF ShellDies, JobEnds, InputFails, DrainReads, DrainEnds, DrainReports, DrainRemoves, HostSame,
         wire
<1>3. CASE ShellDies(t) \/ JobEnds(t) \/ InputFails(t)
  <2>1. UNCHANGED <<replies, ptys, drain>>
    BY <1>3 DEF ShellDies, JobEnds, InputFails, wire
  <2> QED BY <1>2, <2>1, RepliesKeepStream
<1>4. /\ \/ replies' = replies
         \/ \E k \in {"Output", "Exited"} : replies' = Append(replies, Msg(k, t))
      /\ ptys' = ptys \/ ptys' = ptys \ {t}
      /\ t # s => drain'[s] = drain[s]
  BY <1>1 DEF ShellDies, JobEnds, InputFails, DrainReads, DrainEnds, DrainReports, DrainRemoves,
              StopsReading, Say, EndReported, wire
<1>5. CASE t # s
  <2>1. ~Tells(Msg("Output", t), s) /\ ~Tells(Msg("Exited", t), s)
    BY <1>5 DEF Tells, Msg
  <2> QED BY <1>1, <1>2, <1>4, <1>5, <2>1, RepliesKeepStream
<1>6. CASE t = s /\ (DrainReads(s) \/ DrainEnds(s) \/ DrainReports(s) \/ DrainRemoves(s))
  <2> USE DEF StreamInv, HostSame, hostVars, ptyVars
  <2>1. drain[s] # "none"
    BY <1>6 DEF DrainReads, DrainEnds, DrainReports, DrainRemoves
  <2>2. Fresh(s)'
    BY <1>2, <2>1 DEF Fresh
  <2>3. Opened(s)'
    BY <1>2 DEF Opened
  <2>4. \/ replies' = replies
        \/ \E m \in FromHelper :
             /\ replies' = Append(replies, m)
             /\ Quiet(replies', s) => Quiet(replies, s)
             /\ OpensFirst(replies, s) /\ ~Quiet(replies, s) => OpensFirst(replies', s)
             /\ \A k : In(replies', k, s) <=> In(replies, k, s) \/ m = Msg(k, s)
             /\ m \in {Msg("Output", s), Msg("Exited", s)}
    <3>1. ASSUME NEW m \in FromHelper, replies' = Append(replies, m),
                 m \in {Msg("Output", s), Msg("Exited", s)}
          PROVE  /\ Quiet(replies', s) => Quiet(replies, s)
                 /\ OpensFirst(replies, s) /\ ~Quiet(replies, s) => OpensFirst(replies', s)
                 /\ \A k : In(replies', k, s) <=> In(replies, k, s) \/ m = Msg(k, s)
      BY <1>1, <3>1, AppendSays
    <3>2. CASE replies' = replies
      BY <3>2
    <3>3. ASSUME NEW k \in {"Output", "Exited"}, replies' = Append(replies, Msg(k, s))
          PROVE  \E m \in FromHelper :
                   /\ replies' = Append(replies, m)
                   /\ Quiet(replies', s) => Quiet(replies, s)
                   /\ OpensFirst(replies, s) /\ ~Quiet(replies, s) => OpensFirst(replies', s)
                   /\ \A i : In(replies', i, s) <=> In(replies, i, s) \/ m = Msg(i, s)
                   /\ m \in {Msg("Output", s), Msg("Exited", s)}
      <4>1. Msg(k, s) \in FromHelper /\ Msg(k, s) \in {Msg("Output", s), Msg("Exited", s)}
        BY <1>1, <1>6
      <4> QED BY <3>1, <3>3, <4>1
    <3> QED BY <1>4, <1>6, <3>2, <3>3
  <2>5. OnItsWay(s)'
    BY <1>2, <2>1, <2>4 DEF OnItsWay, NothingSaid
  <2>6. Over(s) => Over(s)'
    BY <1>2, <2>4 DEF Over, EndFor
  <2>7. StartedSaid(s)' => StartedSaid(s)
    <3>1. \A k \in {"Output", "Exited"} : Msg(k, s) # Msg("Started", s)
      BY DEF Msg
    <3> QED BY <1>2, <2>4, <3>1 DEF StartedSaid
  <2>8. CASE DrainReads(s) \/ DrainEnds(s)
    <3>1. drain'[s] \in {"reading", "ending"}
      BY <1>1, <2>8 DEF DrainReads, DrainEnds, StopsReading
    <3>2. Backed(s)'
      BY <1>2, <3>1 DEF Backed
    <3> QED BY <2>2, <2>3, <2>5, <3>2
  <2>9. CASE DrainReports(s)
    <3>1. CASE Say(Msg("Exited", s))
      <4>1. In(replies', "Exited", s)
        BY <1>1, <1>6, <3>1, AppendSays DEF Say
      <4> QED BY <2>2, <2>3, <2>5, <4>1 DEF Backed, Over, EndFor
    <3>2. CASE shutdown
      <4>1. ~link'
        BY <1>2, <3>2 DEF LinkInv
      <4> QED BY <2>2, <2>3, <2>5, <4>1 DEF Backed, Over
    <3> QED BY <2>9, <3>1, <3>2 DEF DrainReports, EndReported
  <2>10. CASE DrainRemoves(s)
    <3>1. drain[s] = "removing"
      BY <2>10 DEF DrainRemoves
    <3>2. Backed(s)'
      BY <1>2, <2>6, <3>1 DEF Backed
    <3> QED BY <2>2, <2>3, <2>5, <3>2
  <2> QED BY <1>6, <2>8, <2>9, <2>10
<1> QED BY <1>3, <1>5, <1>6

LEMMA BreakKeepsStreams ==
  ASSUME SessionTypeOK, NEW s \in Ptys, StreamInv(s), LinkBreaks,
         UNCHANGED <<hostVars, helperVars>>
  PROVE  StreamInv(s)'
<1> USE DEF StreamInv, hostVars, ptyVars, helperVars, shellVars
<1>1. /\ link' = FALSE /\ UNCHANGED <<outbound, replies>>
      /\ stdin \in Seq(FromHost) /\ stdin' \in Prefixes(stdin)
      /\ stdout \in Seq(FromHelper) /\ stdout' \in Prefixes(stdout)
  BY DEF LinkBreaks, SessionTypeOK, TypeOK, WireTypeOK
<1>2. /\ Quiet(stdout, s) => Quiet(stdout', s)
      /\ OpensFirst(stdout, s) => OpensFirst(stdout', s)
      /\ Unasked(stdin, s) => Unasked(stdin', s)
  BY <1>1, PrefixSays
<1>3. Fresh(s)'
  BY <1>1, <1>2 DEF Fresh
<1>4. Opened(s)'
  BY DEF Opened
<1>5. OnItsWay(s)'
  BY <1>1, <1>2 DEF OnItsWay
<1>6. Backed(s)'
  BY <1>1 DEF Backed, Over
<1> QED BY <1>3, <1>4, <1>5, <1>6

-----------------------------------------------------------------------------
(* The helper stops serving, and its transport shuts down, only when the   *)
(* connection is broken, and it stays broken.                              *)
LEMMA LinkKept ==
  ASSUME LinkInv, [Next]_sessionVars
  PROVE  LinkInv'
<1>1. CASE UNCHANGED <<shutdown, helper>> /\ (link' = link \/ ~link')
  BY <1>1 DEF LinkInv
<1>2. CASE HostNext /\ UNCHANGED helperVars
  <2>1. link' = link \/ ~link'
    <3>1. CASE TransportFails \/ Abort \/ Shutdown \/ Write
      BY <3>1 DEF TransportFails, Abort, Shutdown, Write, MarkLost, Lose, wire
    <3>2. CASE RouteMessage
      BY <3>2 DEF RouteMessage, RouteResult, RouteOutput, RouteEnd, Routed, Overflow, Lose
    <3>3. CASE \/ \E r \in Requests : HostRequest(r)
               \/ \E r \in Execs : HostExec(r)
      BY <3>3 DEF HostRequest, StartRequest, InsertRequest, SendRequest, AwaitAnswer,
                  HostExec, CallerCancels, Forward, wire
    <3>4. CASE \E s \in Ptys : HostPty(s)
      BY <3>4, PtyAsks
    <3> QED BY <1>2, <3>1, <3>2, <3>3, <3>4 DEF HostNext
  <2> QED BY <1>1, <1>2, <2>1 DEF helperVars
<1>3. CASE HelperNext
  <2>1. CASE Dispatch
    BY <1>1, <2>1 DEF Dispatch
  <2>2. CASE FinishDispatch \/ WriteReply
    BY <2>2 DEF FinishDispatch, WriteReply, LinkInv
  <2>3. CASE ServiceEnds \/ CancelSessions \/ CancelExecs \/ Exit
    BY <2>3 DEF ServiceEnds, CancelSessions, CancelExecs, Exit, LinkInv, wire
  <2>4. CASE \E r \in Requests : Reserve(r) \/ StopExec(r) \/ OperationEnds(r) \/ Reply(r)
    BY <1>1, <2>4 DEF Reserve, StopExec, OperationEnds, Reply, wire
  <2>5. CASE \E s \in Ptys :
               \/ ShellDies(s) \/ JobEnds(s) \/ InputFails(s)
               \/ DrainReads(s) \/ DrainEnds(s) \/ DrainReports(s) \/ DrainRemoves(s)
    BY <1>1, <2>5 DEF ShellDies, JobEnds, InputFails, DrainReads, DrainEnds, DrainReports,
                      DrainRemoves, wire
  <2> QED BY <1>3, <2>1, <2>2, <2>3, <2>4, <2>5 DEF HelperNext
<1>4. CASE LinkBreaks /\ UNCHANGED <<hostVars, helperVars>>
  BY <1>1, <1>4 DEF LinkBreaks, helperVars
<1>5. CASE UNCHANGED sessionVars
  BY <1>1, <1>5 DEF sessionVars, helperVars, wire
<1> QED BY <1>2, <1>3, <1>4, <1>5 DEF Next

(* What a stream hears and what it is owed stays true of every step.       *)
THEOREM SessionInvariant == Spec => []SessionInv
<1>1. SessionInv /\ SessionTypeOK' /\ [Next]_sessionVars => SessionInv'
  <2> SUFFICES ASSUME SessionInv, SessionTypeOK', [Next]_sessionVars
               PROVE  SessionInv'
    OBVIOUS
  <2>1. LinkInv'
    BY LinkKept DEF SessionInv
  <2>2. ASSUME NEW s \in Ptys PROVE StreamInv(s)'
    <3>0. SessionTypeOK /\ LinkInv /\ StreamInv(s)
      BY DEF SessionInv
    <3>1. CASE HostNext /\ UNCHANGED helperVars
      <4>1. CASE TransportFails \/ Abort \/ Shutdown
        BY <3>0, <3>1, <4>1, StoppingKeepsStreams
      <4>2. CASE Write
        BY <3>0, <3>1, <4>2, WriteKeepsStreams
      <4>3. CASE RouteMessage
        BY <3>0, <3>1, <4>3, RoutingKeepsStreams
      <4>4. CASE \/ \E r \in Requests : HostRequest(r)
                 \/ \E r \in Execs : HostExec(r)
        BY <3>0, <3>1, <4>4, RequestsKeepStreams
      <4>5. CASE \E t \in Ptys : HostPty(t)
        BY <3>0, <3>1, <4>5, PtysKeepStreams
      <4> QED BY <3>1, <4>1, <4>2, <4>3, <4>4, <4>5 DEF HostNext
    <3>2. CASE HelperNext /\ UNCHANGED hostVars
      <4>1. CASE Dispatch
        BY <3>0, <3>2, <4>1, DispatchKeepsStreams
      <4>2. CASE FinishDispatch
        BY <3>0, <3>2, <4>2, FinishKeepsStreams
      <4>3. CASE WriteReply
        BY <3>0, <3>2, <4>3, WriteReplyKeepsStreams
      <4>4. CASE ServiceEnds \/ CancelSessions \/ CancelExecs \/ Exit
        BY <3>0, <3>2, <4>4, ServiceKeepsStreams
      <4>5. CASE \E r \in Requests : Reserve(r) \/ StopExec(r) \/ OperationEnds(r) \/ Reply(r)
        BY <3>0, <3>2, <4>5, OperationsKeepStreams
      <4>6. CASE \E t \in Ptys :
                   \/ ShellDies(t) \/ JobEnds(t) \/ InputFails(t)
                   \/ DrainReads(t) \/ DrainEnds(t) \/ DrainReports(t) \/ DrainRemoves(t)
        BY <3>0, <3>2, <4>6, ShellsKeepStreams
      <4> QED BY <3>2, <4>1, <4>2, <4>3, <4>4, <4>5, <4>6 DEF HelperNext
    <3>3. CASE LinkBreaks /\ UNCHANGED <<hostVars, helperVars>>
      BY <3>0, <3>3, BreakKeepsStreams
    <3>4. CASE UNCHANGED sessionVars
      <4>1. StreamSame(s) /\ UNCHANGED <<alive, wire, helperVars>>
        BY <3>4 DEF sessionVars, StreamSame, hostVars, ptyVars
      <4> QED BY <3>0, <4>1, AskingKeepsStream DEF wire
    <3> QED BY <3>1, <3>2, <3>3, <3>4 DEF Next
  <2> QED BY <2>1, <2>2 DEF SessionInv
<1> QED BY <1>1, InitialSession, SessionTypeCorrect, PTL DEF Spec

(* Multiplexer::route_message and drain_pty: whatever the order of dispatch,*)
(* drain, loss and cancellation, the first thing spawn receives is Started *)
(* or Lost.                                                                *)
THEOREM StartedAlwaysComesFirst == Spec => []StartedComesFirst
<1>1. SessionInv => StartedComesFirst
  BY DEF SessionInv, StreamInv, Opened, Opens, StartedComesFirst
<1> QED BY <1>1, SessionInvariant, PTL

(* A session that is shown as running is kept by the helper, or its end is *)
(* on its way to it, or its stream is closed.                              *)
THEOREM RunningIsAlwaysBacked == Spec => []RunningIsBacked
<1>1. SessionInv => RunningIsBacked
  <2> SUFFICES ASSUME SessionInv, NEW s \in Ptys, session[s] = "Running"
               PROVE  s \in ptys \/ drain[s] \in {"reading", "ending"} \/ Over(s)
    BY DEF RunningIsBacked, Over, EndOf
  <2> QED BY DEF SessionInv, StreamInv, Backed
<1> QED BY <1>1, SessionInvariant, PTL

-----------------------------------------------------------------------------
(* No shell goes on for nobody.  At most one Spawn is ever on its way.     *)
SpawnOnce(q, s) ==
  \A n, k \in DOMAIN q : q[n] = Msg("Spawn", s) /\ q[k] = Msg("Spawn", s) => n = k

(* As long as the connection is there: a shell that is alive is in the map *)
(* or being killed; nothing has been done about a stream that has yet to   *)
(* be spawned; the drain starts after Started; whoever tells of an end has *)
(* seen to it; and so has whoever gave the stream up.                      *)
EndTold(s) ==
  EndOf(saying, s) \/ EndFor(replies, s) \/ EndFor(stdout, s) \/ EndFor(queue[s], s)
SeenTo(s) == ~SpawnComing(s) /\ Doomed(s)
GivenUp(s) ==
  \/ session[s] \in {"failed", "dropped", "Exited", "Lost"}
  \/ session[s] \in {"starting", "Running"} /\ s \notin streams

Untouched(s) == shell[s] = "none" /\ s \notin ptys /\ drain[s] = "none"
KeptOrKilled(s) == shell[s] = "alive" /\ s \notin ptys => cleaning[s]
Unspawned(s) ==
  /\ SpawnOnce(Asked, s)
  /\ session[s] \in {"none", "opening", "registered"} => Untouched(s) /\ ~SpawnComing(s)
  /\ SpawnComing(s) => Untouched(s)
  /\ saying = Msg("Started", s) => drain[s] = "none" /\ ~SpawnComing(s)
Answered(s) == EndTold(s) => SeenTo(s)
Cut(s) == GivenUp(s) => SeenTo(s) \/ CancelLast(Asked, s) \/ aborting

CutOff(s) == link => KeptOrKilled(s) /\ Unspawned(s) /\ Answered(s) /\ Cut(s)
CutInv == (link => alive) /\ \A s \in Ptys : CutOff(s)
-----------------------------------------------------------------------------
(* The two queues to the helper are one line: sending appends to it, the   *)
(* writer leaves it as it is, dispatch takes its head.                     *)
LEMMA OneLine ==
  ASSUME NEW T, NEW a \in Seq(T), NEW b \in Seq(T)
  PROVE  /\ a \o b \in Seq(T)
         /\ \A m \in T : a \o Append(b, m) = Append(a \o b, m)
         /\ b # <<>> => Append(a, Head(b)) \o Tail(b) = a \o b
         /\ a # <<>> => /\ a \o b # <<>>
                        /\ Head(a \o b) = Head(a)
                        /\ Tail(a \o b) = Tail(a) \o b
<1>1. a \o b \in Seq(T)
  BY ConcatProperties
<1>2. ASSUME NEW m \in T PROVE a \o Append(b, m) = Append(a \o b, m)
  <2>1. Append(b, m) = b \o <<m>> /\ Append(a \o b, m) = (a \o b) \o <<m>> /\ <<m>> \in Seq(T)
    BY <1>1, AppendIsConcat
  <2> QED BY <2>1, ConcatAssociative
<1>3. ASSUME NEW q \in Seq(T), q # <<>>
      PROVE  /\ Head(q) \in T /\ Tail(q) \in Seq(T) /\ <<Head(q)>> \in Seq(T)
             /\ q = <<Head(q)>> \o Tail(q)
  <2>1. /\ Head(q) \in T /\ Tail(q) \in Seq(T) /\ Head(q) = q[1]
        /\ Len(q) \in Nat \ {0} /\ Len(Tail(q)) = Len(q) - 1
        /\ \A n \in 1..Len(Tail(q)) : Tail(q)[n] = q[n + 1]
    BY <1>3, TailElements
  <2>2. <<Head(q)>> \in Seq(T) /\ Len(<<Head(q)>>) = 1 /\ <<Head(q)>>[1] = q[1]
    BY <2>1
  <2> DEFINE p == <<Head(q)>> \o Tail(q)
  <2>3. /\ p \in Seq(T) /\ Len(p) = Len(q)
        /\ \A n \in 1..Len(q) : p[n] = IF n <= 1 THEN <<Head(q)>>[n] ELSE Tail(q)[n - 1]
    BY <2>1, <2>2, ConcatProperties
  <2> HIDE DEF p
  <2>4. ASSUME NEW n \in 1..Len(q) PROVE p[n] = q[n]
    <3>1. CASE n = 1
      BY <2>2, <2>3, <3>1
    <3>2. CASE n # 1
      <4>1. PICK j \in Int : j = n - 1
        BY <2>1
      <4>2. j \in 1..Len(Tail(q)) /\ j + 1 = n
        BY <2>1, <3>2, <4>1
      <4> QED BY <2>1, <2>3, <4>1, <4>2
    <3> QED BY <3>1, <3>2
  <2>5. p = q
    BY <2>3, <2>4, SeqEqual
  <2> QED BY <2>1, <2>2, <2>5 DEF p
<1>4. ASSUME b # <<>> PROVE Append(a, Head(b)) \o Tail(b) = a \o b
  <2>1. Append(a, Head(b)) = a \o <<Head(b)>>
    BY <1>3, <1>4, AppendIsConcat
  <2> QED BY <1>3, <1>4, <2>1, ConcatAssociative
<1>5. ASSUME a # <<>>
      PROVE  a \o b # <<>> /\ Head(a \o b) = Head(a) /\ Tail(a \o b) = Tail(a) \o b
  <2>1. a \o b = <<Head(a)>> \o (Tail(a) \o b) /\ Tail(a) \o b \in Seq(T) /\ Head(a) \in T
    BY <1>3, <1>5, ConcatAssociative, ConcatProperties
  <2>2. ASSUME NEW x \in T, NEW q \in Seq(T)
        PROVE  <<x>> \o q # <<>> /\ Head(<<x>> \o q) = x /\ Tail(<<x>> \o q) = q
    OBVIOUS
  <2> QED BY <2>1, <2>2
<1> QED BY <1>1, <1>2, <1>4, <1>5

LEMMA AppendAsks ==
  ASSUME NEW T, NEW q \in Seq(T), NEW m \in T, NEW s
  PROVE  /\ CancelLast(q, s) /\ m # Msg("Spawn", s) => CancelLast(Append(q, m), s)
         /\ m = Msg("Cancel", s) => CancelLast(Append(q, m), s)
         /\ SpawnOnce(q, s) /\ (m = Msg("Spawn", s) => ~In(q, "Spawn", s))
              => SpawnOnce(Append(q, m), s)
<1> DEFINE p == Append(q, m)
<1>1. /\ Len(q) \in Nat /\ DOMAIN q = 1..Len(q) /\ DOMAIN p = 1..Len(p)
      /\ Len(p) = Len(q) + 1
      /\ \A n \in 1..Len(q) : p[n] = q[n]
      /\ p[Len(q) + 1] = m
  BY AppendElements
<1> HIDE DEF p
<1>2. \A n \in 1..Len(p) : n \in 1..Len(q) \/ n = Len(q) + 1
  BY <1>1
<1>3. ASSUME CancelLast(q, s), m # Msg("Spawn", s)
      PROVE  CancelLast(p, s)
  <2>1. PICK n \in 1..Len(q) : q[n] = Msg("Cancel", s)
                               /\ \A k \in n..Len(q) : q[k] # Msg("Spawn", s)
    BY <1>1, <1>3 DEF CancelLast
  <2>2. n \in DOMAIN p /\ p[n] = Msg("Cancel", s)
    BY <1>1, <2>1
  <2>3. ASSUME NEW k \in n..Len(p) PROVE p[k] # Msg("Spawn", s)
    <3>1. k \in 1..Len(p)
      BY <1>1
    <3>2. CASE k \in 1..Len(q)
      BY <1>1, <2>1, <3>2
    <3>3. CASE k = Len(q) + 1
      BY <1>1, <1>3, <3>3
    <3> QED BY <1>2, <3>1, <3>2, <3>3
  <2> QED BY <2>2, <2>3 DEF CancelLast
<1>4. ASSUME m = Msg("Cancel", s) PROVE CancelLast(p, s)
  <2>1. m # Msg("Spawn", s)
    BY <1>4 DEF Msg
  <2>2. \A k \in (Len(q) + 1)..Len(p) : p[k] # Msg("Spawn", s)
    BY <1>1, <2>1
  <2> QED BY <1>1, <1>4, <2>2 DEF CancelLast
<1>5. ASSUME SpawnOnce(q, s), m = Msg("Spawn", s) => ~In(q, "Spawn", s)
      PROVE  SpawnOnce(p, s)
  <2> SUFFICES ASSUME NEW n \in 1..Len(p), NEW k \in 1..Len(p),
                      p[n] = Msg("Spawn", s), p[k] = Msg("Spawn", s)
               PROVE  n = k
    BY <1>1 DEF SpawnOnce
  <2>1. \A i \in 1..Len(p) : p[i] = Msg("Spawn", s) /\ m = Msg("Spawn", s) => i = Len(q) + 1
    BY <1>1, <1>2, <1>5 DEF In
  <2> QED BY <1>1, <1>2, <1>5, <2>1 DEF SpawnOnce
<1> QED BY <1>3, <1>4, <1>5 DEF p

LEMMA TailAsks ==
  ASSUME NEW T, NEW q \in Seq(T), q # <<>>, NEW s
  PROVE  /\ CancelLast(q, s) => \/ CancelLast(Tail(q), s)
                                \/ Head(q) = Msg("Cancel", s) /\ ~In(q, "Spawn", s)
         /\ SpawnOnce(q, s) => /\ SpawnOnce(Tail(q), s)
                               /\ Head(q) = Msg("Spawn", s) => ~In(Tail(q), "Spawn", s)
<1> DEFINE p == Tail(q)
<1>1. /\ Len(q) \in Nat \ {0} /\ DOMAIN q = 1..Len(q) /\ DOMAIN p = 1..Len(p)
      /\ Len(p) = Len(q) - 1
      /\ \A n \in 1..Len(p) : p[n] = q[n + 1]
      /\ Head(q) = q[1]
  BY TailElements
<1> HIDE DEF p
<1>2. ASSUME NEW n \in 1..Len(p)
      PROVE  n + 1 \in 1..Len(q) /\ n + 1 # 1 /\ p[n] = q[n + 1]
  BY <1>1
<1>3. ASSUME CancelLast(q, s), Head(q) # Msg("Cancel", s) \/ In(q, "Spawn", s)
      PROVE  CancelLast(p, s)
  <2>1. PICK n \in 1..Len(q) : q[n] = Msg("Cancel", s)
                               /\ \A k \in n..Len(q) : q[k] # Msg("Spawn", s)
    BY <1>1, <1>3 DEF CancelLast
  <2>2. n # 1
    BY <1>1, <1>3, <2>1 DEF In
  <2>3. PICK j \in Int : j = n - 1
    BY <1>1
  <2>4. j \in 1..Len(p) /\ j + 1 = n
    BY <1>1, <2>2, <2>3
  <2>5. ASSUME NEW k \in j..Len(p) PROVE p[k] # Msg("Spawn", s)
    <3>1. k \in 1..Len(p) /\ k + 1 \in n..Len(q)
      BY <1>1, <2>4
    <3> QED BY <1>2, <2>1, <3>1
  <2> QED BY <1>1, <2>1, <2>4, <2>5 DEF CancelLast
<1>4. ASSUME SpawnOnce(q, s)
      PROVE  SpawnOnce(p, s) /\ (Head(q) = Msg("Spawn", s) => ~In(p, "Spawn", s))
  <2>1. \A n, k \in 1..Len(q) : q[n] = Msg("Spawn", s) /\ q[k] = Msg("Spawn", s) => n = k
    BY <1>1, <1>4 DEF SpawnOnce
  <2>2. ASSUME NEW n \in 1..Len(p), NEW k \in 1..Len(p),
               p[n] = Msg("Spawn", s), p[k] = Msg("Spawn", s)
        PROVE  n = k
    <3>1. n + 1 = k + 1
      BY <1>2, <2>1, <2>2
    <3> QED BY <3>1
  <2>3. ASSUME NEW n \in 1..Len(p), Head(q) = Msg("Spawn", s) PROVE p[n] # Msg("Spawn", s)
    BY <1>1, <1>2, <2>1, <2>3
  <2> QED BY <1>1, <2>2, <2>3 DEF SpawnOnce, In
<1> QED BY <1>3, <1>4 DEF p

(* What has been seen to stays so while no Spawn is sent; so does a Cancel *)
(* behind the Spawn.                                                       *)
LEMMA AskedKept ==
  ASSUME Asked \in Seq(FromHost), NEW s,
         \/ Asked' = Asked
         \/ \E m \in FromHost : m # Msg("Spawn", s) /\ Asked' = Append(Asked, m)
  PROVE  /\ SpawnComing(s)' <=> SpawnComing(s)
         /\ CancelLast(Asked, s) => CancelLast(Asked', s)
         /\ SpawnOnce(Asked, s) => SpawnOnce(Asked', s)
<1>1. CASE Asked' = Asked
  BY <1>1 DEF SpawnComing
<1>2. ASSUME NEW m \in FromHost, m # Msg("Spawn", s), Asked' = Append(Asked, m)
      PROVE  /\ SpawnComing(s)' <=> SpawnComing(s)
             /\ CancelLast(Asked, s) => CancelLast(Asked', s)
             /\ SpawnOnce(Asked, s) => SpawnOnce(Asked', s)
  BY <1>2, AppendAsks, AppendSays DEF SpawnComing
<1> QED BY <1>1, <1>2

-----------------------------------------------------------------------------
(* A step of the host that spawns nothing: whoever is given up was given   *)
(* up before, or its end arrived, or it is cancelled in this step.         *)
LEMMA HostKeepsCut ==
  ASSUME Asked \in Seq(FromHost), NEW s, CutOff(s), link, UNCHANGED helperVars,
         \/ Asked' = Asked
         \/ \E m \in FromHost : m # Msg("Spawn", s) /\ Asked' = Append(Asked, m),
         aborting => aborting',
         session'[s] \in {"none", "opening", "registered"}
           => session[s] \in {"none", "opening", "registered"},
         EndTold(s)' => EndTold(s),
         GivenUp(s)' => GivenUp(s) \/ EndTold(s) \/ CancelLast(Asked', s) \/ aborting'
  PROVE  CutOff(s)'
<1> USE DEF helperVars, shellVars
<1>1. KeptOrKilled(s) /\ Unspawned(s) /\ Answered(s) /\ Cut(s)
  BY DEF CutOff
<1>2. /\ SpawnComing(s)' <=> SpawnComing(s)
      /\ CancelLast(Asked, s) => CancelLast(Asked', s)
      /\ SpawnOnce(Asked, s) => SpawnOnce(Asked', s)
  BY AskedKept
<1>3. SeenTo(s) => SeenTo(s)'
  BY <1>2 DEF SeenTo, Doomed
<1>4. KeptOrKilled(s)'
  BY <1>1 DEF KeptOrKilled
<1>5. Unspawned(s)'
  BY <1>1, <1>2 DEF Unspawned, Untouched
<1>6. Answered(s)'
  BY <1>1, <1>3 DEF Answered
<1>7. Cut(s)'
  BY <1>1, <1>2, <1>3 DEF Cut, Answered
<1> QED BY <1>4, <1>5, <1>6, <1>7 DEF CutOff

(* A step of the helper that takes nothing from the line.                  *)
LEMMA HelperKeepsCut ==
  ASSUME Asked \in Seq(FromHost), NEW s, CutOff(s), Fresh(s), link, HostSame, UNCHANGED stdin,
         KeptOrKilled(s)', Doomed(s) => Doomed(s)',
         Untouched(s) => Untouched(s)' \/ saying = Msg("Started", s),
         saying' = saying \/ saying' = Nothing,
         saying' = Msg("Started", s) /\ drain[s] = "none" => drain'[s] = "none",
         EndTold(s)' => EndTold(s) \/ (drain[s] = "ending" /\ Doomed(s)')
  PROVE  CutOff(s)'
<1> USE DEF HostSame, hostVars, ptyVars
<1>1. KeptOrKilled(s) /\ Unspawned(s) /\ Answered(s) /\ Cut(s)
  BY DEF CutOff
<1>2. Asked' = Asked
  BY DEF Asked
<1>3. /\ SpawnComing(s)' <=> SpawnComing(s)
      /\ CancelLast(Asked, s) => CancelLast(Asked', s)
      /\ SpawnOnce(Asked, s) => SpawnOnce(Asked', s)
  BY <1>2, AskedKept
<1>4. SeenTo(s) => SeenTo(s)'
  BY <1>3 DEF SeenTo
<1>5. session[s] \in {"none", "opening", "registered"} => saying # Msg("Started", s)
  BY TellFacts DEF Fresh
<1>6. Nothing # Msg("Started", s)
  BY TellFacts
<1>7. Unspawned(s)'
  BY <1>1, <1>3, <1>5, <1>6 DEF Unspawned
<1>8. Answered(s)'
  <2>1. drain[s] = "ending" => ~SpawnComing(s)
    BY <1>1 DEF Unspawned, Untouched
  <2> QED BY <1>1, <1>3, <1>4, <2>1 DEF Answered, SeenTo
<1>9. Cut(s)'
  BY <1>1, <1>3, <1>4 DEF Cut, GivenUp
<1> QED BY <1>7, <1>8, <1>9 DEF CutOff

LEMMA TheLine ==
  ASSUME SessionTypeOK
  PROVE  /\ stdin \in Seq(FromHost) /\ outbound \in Seq(FromHost) /\ Asked \in Seq(FromHost)
         /\ stdout \in Seq(FromHelper) /\ replies \in Seq(FromHelper)
         /\ \A s \in Ptys : queue[s] \in Seq(FromHelper)
         /\ UNCHANGED <<stdin, outbound>> => Asked' = Asked
         /\ \A m \in FromHost :
              stdin' = stdin /\ outbound' = Append(outbound, m) => Asked' = Append(Asked, m)
<1>1. /\ stdin \in Seq(FromHost) /\ outbound \in Seq(FromHost)
      /\ stdout \in Seq(FromHelper) /\ replies \in Seq(FromHelper)
      /\ \A s \in Ptys : queue[s] \in Seq(FromHelper)
  BY DEF SessionTypeOK, TypeOK, WireTypeOK, HostTypeOK
<1>2. Asked \in Seq(FromHost)
  BY <1>1, OneLine DEF Asked
<1>3. ASSUME NEW m \in FromHost, stdin' = stdin, outbound' = Append(outbound, m)
      PROVE  Asked' = Append(Asked, m)
  BY <1>1, <1>3, OneLine DEF Asked
<1> QED BY <1>1, <1>2, <1>3 DEF Asked

(* Losing the connection ends the matter.                                  *)
LEMMA StoppingKeepsCut ==
  ASSUME link => alive, NEW s, TransportFails \/ Abort \/ Shutdown
  PROVE  CutOff(s)'
<1>1. ~link'
  BY DEF TransportFails, Abort, Shutdown, MarkLost, Lose, wire
<1> QED BY <1>1 DEF CutOff

LEMMA WriteKeepsCut ==
  ASSUME SessionTypeOK, NEW s, CutOff(s), Write, UNCHANGED helperVars
  PROVE  CutOff(s)'
<1>1. Asked' = Asked
  BY TheLine, OneLine DEF Write, Asked
<1>2. UNCHANGED <<link, replies, stdout, hostVars>> /\ link
  BY DEF Write
<1>3. EndTold(s)' => EndTold(s)
  BY <1>2 DEF EndTold, hostVars, ptyVars, helperVars
<1>4. GivenUp(s)' => GivenUp(s)
  BY <1>2 DEF GivenUp, hostVars, ptyVars
<1> QED BY <1>1, <1>2, <1>3, <1>4, TheLine, HostKeepsCut DEF hostVars, ptyVars

LEMMA RequestsKeepCut ==
  ASSUME SessionTypeOK, NEW s \in Ptys, CutOff(s), link, UNCHANGED helperVars,
         \/ \E r \in Requests : HostRequest(r)
         \/ \E r \in Execs : HostExec(r)
  PROVE  CutOff(s)'
<1>1. /\ UNCHANGED <<ptyVars, link, stdin, replies, stdout>>
      /\ aborting' = aborting \/ aborting' = TRUE
  BY DEF HostRequest, StartRequest, InsertRequest, SendRequest, AwaitAnswer, HostExec,
         CallerCancels, Forward, wire
<1>2. \/ UNCHANGED outbound
      \/ \E r \in Requests : \E k \in Ask : outbound' = Append(outbound, Msg(k, r))
  BY DEF HostRequest, StartRequest, InsertRequest, SendRequest, AwaitAnswer, HostExec,
         CallerCancels, Forward, wire, Send, Ask, Requests
<1>3. \/ Asked' = Asked
      \/ \E m \in FromHost : m # Msg("Spawn", s) /\ Asked' = Append(Asked, m)
  <2>1. ASSUME NEW r \in Requests, NEW k \in Ask, outbound' = Append(outbound, Msg(k, r))
        PROVE  \E m \in FromHost : m # Msg("Spawn", s) /\ Asked' = Append(Asked, m)
    <3>1. Msg(k, r) # Msg("Spawn", s) /\ Msg(k, r) \in FromHost
      BY DEF Ask, Msg, FromHost
    <3> QED BY <1>1, <2>1, <3>1, TheLine
  <2> QED BY <1>1, <1>2, <2>1, TheLine
<1>4. (EndTold(s)' => EndTold(s)) /\ (GivenUp(s)' => GivenUp(s))
  BY <1>1 DEF EndTold, GivenUp, ptyVars, helperVars
<1> QED BY <1>1, <1>3, <1>4, TheLine, HostKeepsCut DEF ptyVars

(* The reader gives a stream up when it takes its end, or with a Cancel.   *)
LEMMA RoutingKeepsCut ==
  ASSUME SessionTypeOK, NEW s \in Ptys, CutOff(s), link, RouteMessage, UNCHANGED helperVars
  PROVE  CutOff(s)'
<1> DEFINE m == Head(stdout)
<1>1. /\ stdout # <<>> /\ stdout' = Tail(stdout) /\ m \in FromHelper
      /\ stdout \in Seq(FromHelper)
      /\ queue \in [Ptys -> Seq(FromHelper)]
  BY TheLine, TailElements DEF RouteMessage, SessionTypeOK, TypeOK, HostTypeOK
<1>2. \/ m.kind = "Result" /\ RouteResult(m.id)
      \/ m.kind \in {"Started", "Output"} /\ RouteOutput(m.id, m)
      \/ m.kind \in {"Exited", "Lost"} /\ RouteEnd(m.id, m)
  BY DEF RouteMessage
<1>3. m = Msg(m.kind, m.id) /\ (m.kind \in PtyTell => m.id \in Ptys)
  BY <1>1, Messages
<1>4. \A k : In(stdout, k, s) <=> m = Msg(k, s) \/ In(stdout', k, s)
  BY <1>1, TailSays
<1> HIDE DEF m
<1> DEFINE Effect ==
      \/ ~link'
      \/ /\ UNCHANGED <<session, aborting, replies, stdin, link>>
         /\ queue'[s] = queue[s] \/ queue'[s] = Append(queue[s], m)
         /\ \/ UNCHANGED outbound
            \/ \E t \in Ptys : outbound' = Append(outbound, Msg("Cancel", t))
         /\ \/ s \in streams' <=> s \in streams
            \/ EndOf(m, s)
            \/ outbound' = Append(outbound, Msg("Cancel", s))
<1>5. Effect
  <2>1. CASE RouteResult(m.id)
    BY <2>1 DEF RouteResult, ptyVars
  <2>2. ASSUME NEW t \in Ptys, Routed(t, m),
               \/ UNCHANGED streams
               \/ streams' = streams \ {t} /\ EndOf(m, t)
        PROVE  Effect
    <3>1. queue'[s] = queue[s] \/ queue'[s] = Append(queue[s], m)
      BY <1>1, <2>2 DEF Routed
    <3> QED BY <2>2, <3>1 DEF Routed
  <2>3. ASSUME NEW t \in Ptys, Overflow(t) PROVE Effect
    BY <2>3 DEF Overflow, Lose
  <2>4. ASSUME NEW t \in Ptys, RouteOutput(t, m) PROVE Effect
    <3>1. CASE UNCHANGED <<hostVars, link, outbound, stdin, replies>>
      BY <3>1 DEF hostVars, ptyVars
    <3>2. CASE Routed(t, m) /\ UNCHANGED streams
      BY <2>2, <3>2
    <3>3. CASE Overflow(t)
      BY <2>3, <3>3
    <3> QED BY <2>4, <3>1, <3>2, <3>3 DEF RouteOutput
  <2>5. ASSUME NEW t \in Ptys, RouteEnd(t, m), EndOf(m, t) PROVE Effect
    BY <2>2, <2>5 DEF RouteEnd
  <2>6. m.kind \in {"Exited", "Lost"} => EndOf(m, m.id)
    BY <1>3 DEF EndOf
  <2> QED BY <1>2, <1>3, <2>1, <2>4, <2>5, <2>6 DEF PtyTell
<1>6. CASE ~link'
  BY <1>6 DEF CutOff
<1>7. CASE /\ UNCHANGED <<session, aborting, replies, stdin, link>>
           /\ queue'[s] = queue[s] \/ queue'[s] = Append(queue[s], m)
           /\ \/ UNCHANGED outbound
              \/ \E t \in Ptys : outbound' = Append(outbound, Msg("Cancel", t))
           /\ \/ s \in streams' <=> s \in streams
              \/ EndOf(m, s)
              \/ outbound' = Append(outbound, Msg("Cancel", s))
  <2>1. EndFor(queue'[s], s) => EndFor(queue[s], s) \/ EndOf(m, s)
    <3>1. CASE queue'[s] = Append(queue[s], m)
      <4>1. \A k : In(Append(queue[s], m), k, s) <=> In(queue[s], k, s) \/ m = Msg(k, s)
        BY <1>1, AppendSays
      <4> QED BY <3>1, <4>1 DEF EndFor, EndOf
    <3>2. CASE queue'[s] = queue[s]
      BY <3>2
    <3> QED BY <1>7, <3>1, <3>2
  <2>2. (EndFor(stdout', s) => EndFor(stdout, s)) /\ (EndOf(m, s) => EndFor(stdout, s))
    BY <1>4 DEF EndFor, EndOf
  <2>3. EndTold(s)' => EndTold(s)
    BY <1>7, <2>1, <2>2 DEF EndTold, helperVars
  <2>4. \/ Asked' = Asked
        \/ \E x \in FromHost : x # Msg("Spawn", s) /\ Asked' = Append(Asked, x)
    <3>1. ASSUME NEW t \in Ptys
          PROVE  Msg("Cancel", t) \in FromHost /\ Msg("Cancel", t) # Msg("Spawn", s)
      BY Messages DEF Msg, PtyAsk
    <3> QED BY <1>7, <3>1, TheLine
  <2>5. ASSUME outbound' = Append(outbound, Msg("Cancel", s)) PROVE CancelLast(Asked', s)
    <3>1. Msg("Cancel", s) \in FromHost
      BY Messages DEF PtyAsk
    <3>2. Asked \in Seq(FromHost) /\ Asked' = Append(Asked, Msg("Cancel", s))
      BY <1>7, <2>5, <3>1, TheLine
    <3> QED BY <3>1, <3>2, AppendAsks
  <2>6. GivenUp(s)' => GivenUp(s) \/ EndTold(s) \/ CancelLast(Asked', s)
    BY <1>7, <2>2, <2>5 DEF GivenUp, EndTold
  <2> QED BY <1>7, <2>3, <2>4, <2>6, TheLine, HostKeepsCut
<1> QED BY <1>5, <1>6, <1>7

(* The steps of spawn and of the handle: whoever gives the stream up sends *)
(* its Cancel, or has the connection ended.                                *)
LEMMA PtyGivesUp ==
  ASSUME SessionTypeOK, alive, NEW s \in Ptys, HostPty(s)
  PROVE  \/ /\ SendSpawn(s) /\ Send(Msg("Spawn", s)) /\ session'[s] = "starting"
            /\ UNCHANGED <<queue, streams, aborting>>
         \/ /\ aborting' = aborting \/ aborting' = TRUE
            /\ outbound' # Append(outbound, Msg("Spawn", s))
            /\ session'[s] \in {"none", "opening", "registered"}
                 => session[s] \in {"none", "opening", "registered"}
            /\ EndFor(queue'[s], s) => EndFor(queue[s], s)
            /\ GivenUp(s)' => \/ GivenUp(s) \/ EndFor(queue[s], s) \/ aborting'
                              \/ outbound' = Append(outbound, Msg("Cancel", s))
<1> DEFINE Result ==
       /\ aborting' = aborting \/ aborting' = TRUE
       /\ outbound' # Append(outbound, Msg("Spawn", s))
       /\ session'[s] \in {"none", "opening", "registered"}
            => session[s] \in {"none", "opening", "registered"}
       /\ EndFor(queue'[s], s) => EndFor(queue[s], s)
       /\ GivenUp(s)' => \/ GivenUp(s) \/ EndFor(queue[s], s) \/ aborting'
                         \/ outbound' = Append(outbound, Msg("Cancel", s))
<1>1. /\ queue \in [Ptys -> Seq(FromHelper)] /\ queue[s] \in Seq(News(s))
      /\ session \in [Ptys -> SessionStage]
      /\ outbound \in Seq(FromHost)
  BY DEF SessionTypeOK, TypeOK, HostTypeOK, WireTypeOK, StreamTypeOK
<1>2. \A k \in PtyAsk :
        Append(outbound, Msg(k, s)) = Append(outbound, Msg("Spawn", s)) => k = "Spawn"
  <2>1. ASSUME NEW k \in PtyAsk,
               Append(outbound, Msg(k, s)) = Append(outbound, Msg("Spawn", s))
        PROVE  k = "Spawn"
    <3>1. Msg(k, s) \in FromHost /\ Msg("Spawn", s) \in FromHost
      BY Messages DEF PtyAsk
    <3>2. Msg(k, s) = Msg("Spawn", s)
      BY <1>1, <2>1, <3>1, AppendElements
    <3> QED BY <3>2 DEF Msg
  <2> QED BY <2>1
<1>3. outbound # Append(outbound, Msg("Spawn", s))
  <2>1. Msg("Spawn", s) \in FromHost
    BY Messages DEF PtyAsk
  <2>2. Len(Append(outbound, Msg("Spawn", s))) # Len(outbound)
    BY <1>1, <2>1, AppendElements
  <2> QED BY <2>2
<1>4. ASSUME queue[s] # <<>>
      PROVE  /\ EndFor(Tail(queue[s]), s) => EndFor(queue[s], s)
             /\ Head(queue[s]).kind \in {"Exited", "Lost"} => EndFor(queue[s], s)
  <2>1. Head(queue[s]) \in News(s)
    BY <1>1, <1>4, TailElements
  <2>2. Head(queue[s]) = Msg(Head(queue[s]).kind, s)
    BY <2>1 DEF News, Msg
  <2>3. \A k : In(queue[s], k, s) <=> Head(queue[s]) = Msg(k, s) \/ In(Tail(queue[s]), k, s)
    BY <1>1, <1>4, TailSays
  <2> QED BY <2>2, <2>3 DEF EndFor
<1>5. ~EndFor(<<>>, s)
  BY EmptySays DEF EndFor
<1>6. CASE OpenPty(s) \/ RegisterPty(s) \/ CancelSpawn(s)
  <2>1. Result
    BY <1>1, <1>3, <1>6 DEF OpenPty, RegisterPty, CancelSpawn, GivenUp, wire
  <2> QED BY <2>1
<1>7. CASE SendSpawn(s)
  <2>1. CASE Send(Msg("Spawn", s)) /\ session' = [session EXCEPT ![s] = "starting"]
             /\ UNCHANGED streams
    BY <1>1, <1>7, <2>1 DEF SendSpawn
  <2>2. CASE GiveUpSpawn(s) /\ UNCHANGED outbound
    <3>1. Result
      BY <1>1, <1>3, <1>7, <2>2 DEF SendSpawn, GiveUpSpawn, GivenUp
    <3> QED BY <3>1
  <2> QED BY <1>7, <2>1, <2>2 DEF SendSpawn
<1>8. CASE AwaitStarted(s)
  <2>1. UNCHANGED <<aborting, outbound>> /\ session[s] = "starting"
    BY <1>8 DEF AwaitStarted, wire
  <2>2. CASE /\ HasStarted(s) /\ session' = [session EXCEPT ![s] = "Running"]
             /\ queue' = [queue EXCEPT ![s] = Tail(@)] /\ UNCHANGED streams
    <3>1. session'[s] = "Running" /\ queue'[s] = Tail(queue[s]) /\ queue[s] # <<>>
      BY <1>1, <2>2 DEF HasStarted
    <3>2. Result
      BY <1>3, <1>4, <2>1, <2>2, <3>1 DEF GivenUp
    <3> QED BY <3>2
  <2>3. CASE GiveUpSpawn(s) /\ UNCHANGED queue
    <3>1. Result
      BY <1>1, <1>3, <2>1, <2>3 DEF GiveUpSpawn, GivenUp
    <3> QED BY <3>1
  <2> QED BY <1>8, <2>2, <2>3 DEF AwaitStarted
<1>9. CASE SendCancelPty(s)
  <2>1. /\ outbound' = Append(outbound, Msg("Cancel", s)) /\ session'[s] = "failed"
        /\ queue'[s] = <<>> /\ UNCHANGED aborting
    BY <1>1, <1>9 DEF SendCancelPty, Send
  <2>2. outbound' # Append(outbound, Msg("Spawn", s))
    BY <1>2, <2>1 DEF PtyAsk
  <2>3. Result
    BY <1>5, <2>1, <2>2
  <2> QED BY <2>3
<1>10. CASE ReadPty(s)
  <2>1. UNCHANGED <<aborting, outbound, streams>> /\ session[s] \in Handle
    BY <1>10 DEF ReadPty, wire
  <2>2. CASE /\ queue[s] # <<>> /\ queue' = [queue EXCEPT ![s] = Tail(@)]
             /\ Head(queue[s]).kind \notin {"Exited", "Lost"} /\ UNCHANGED session
    <3>1. queue'[s] = Tail(queue[s])
      BY <1>1, <2>2
    <3>2. Result
      BY <1>3, <1>4, <2>1, <2>2, <3>1 DEF GivenUp
    <3> QED BY <3>2
  <2>3. CASE /\ queue[s] # <<>> /\ queue' = [queue EXCEPT ![s] = Tail(@)]
             /\ Head(queue[s]).kind \in {"Exited", "Lost"}
             /\ session' = [session EXCEPT ![s] = Head(queue[s]).kind]
    <3>1. queue'[s] = Tail(queue[s]) /\ session'[s] \in {"Exited", "Lost"}
      BY <1>1, <2>3
    <3>2. Result
      BY <1>3, <1>4, <2>1, <2>3, <3>1
    <3> QED BY <3>2
  <2>4. CASE /\ s \notin streams /\ UNCHANGED queue
             /\ session' = [session EXCEPT ![s] = IF @ = "Running" THEN "Lost" ELSE @]
    <3>1. session'[s] \in Handle /\ GivenUp(s)
      BY <1>1, <2>1, <2>4 DEF GivenUp, Handle
    <3>2. Result
      BY <1>3, <2>1, <2>4, <3>1 DEF Handle
    <3> QED BY <3>2
  <2> QED BY <1>10, <2>2, <2>3, <2>4 DEF ReadPty
<1>11. CASE WriteInput(s) \/ Resize(s)
  <2>1. /\ UNCHANGED <<aborting, streams, queue, session>>
        /\ \E k \in {"Input", "Resize"} : outbound' = Append(outbound, Msg(k, s))
    BY <1>11 DEF WriteInput, Resize, Send
  <2>2. outbound' # Append(outbound, Msg("Spawn", s))
    BY <1>2, <2>1 DEF PtyAsk
  <2>3. Result
    BY <2>1, <2>2 DEF GivenUp
  <2> QED BY <2>3
<1>12. CASE CancelPty(s) \/ DropPty(s)
  <2>1. /\ \/ outbound' = Append(outbound, Msg("Cancel", s)) /\ UNCHANGED aborting
           \/ aborting' = TRUE /\ UNCHANGED outbound
        /\ queue'[s] = queue[s] \/ queue'[s] = <<>>
        /\ session'[s] \in {"Exited", "Lost", "dropped"}
    BY <1>1, <1>12 DEF CancelPty, DropPty, OnDrop, TellCancel, Send
  <2>2. outbound' # Append(outbound, Msg("Spawn", s))
    BY <1>2, <1>3, <2>1 DEF PtyAsk
  <2>3. Result
    BY <1>5, <2>1, <2>2
  <2> QED BY <2>3
<1> QED BY <1>6, <1>7, <1>8, <1>9, <1>10, <1>11, <1>12 DEF HostPty

LEMMA SpawnKeepsCut ==
  ASSUME SessionTypeOK, NEW s \in Ptys, StreamInv(s), CutOff(s), link, alive,
         UNCHANGED <<helperVars, stdin, stdout, replies, queue, streams, link>>,
         session[s] = "registered", session'[s] = "starting",
         outbound' = Append(outbound, Msg("Spawn", s))
  PROVE  CutOff(s)'
<1>1. KeptOrKilled(s) /\ Unspawned(s) /\ Answered(s) /\ Cut(s)
  BY DEF CutOff
<1>2. Msg("Spawn", s) \in FromHost
  BY Messages DEF PtyAsk
<1>3. Asked' = Append(Asked, Msg("Spawn", s)) /\ Asked \in Seq(FromHost)
  BY <1>2, TheLine
<1>4. /\ queue[s] = <<>> /\ Quiet(stdout, s) /\ Quiet(replies, s) /\ ~Tells(saying, s)
      /\ s \in streams
  BY DEF StreamInv, Fresh, Opened
<1>5. ~EndTold(s)
  <2>1. ASSUME NEW q, Quiet(q, s) PROVE ~EndFor(q, s)
    <3>1. Tells(Msg("Exited", s), s) /\ Tells(Msg("Lost", s), s)
      BY TellFacts DEF PtyTell
    <3> QED BY <2>1, <3>1 DEF Quiet, EndFor, In
  <2>2. Quiet(queue[s], s)
    BY <1>4, EmptySays
  <2> QED BY <1>4, <2>1, <2>2, TellFacts DEF EndTold
<1>6. KeptOrKilled(s)'
  BY <1>1 DEF KeptOrKilled, helperVars, shellVars
<1>7. Unspawned(s)'
  <2>1. SpawnOnce(Asked', s)
    BY <1>1, <1>2, <1>3, AppendAsks DEF Unspawned, SpawnComing
  <2>2. Untouched(s)'
    BY <1>1 DEF Unspawned, Untouched, helperVars, shellVars
  <2>3. saying' # Msg("Started", s)
    BY <1>4, TellFacts DEF helperVars
  <2> QED BY <2>1, <2>2, <2>3 DEF Unspawned
<1>8. Answered(s)'
  <2>1. ~EndTold(s)'
    BY <1>5 DEF EndTold, helperVars
  <2> QED BY <2>1 DEF Answered
<1>9. Cut(s)'
  BY <1>4 DEF Cut, GivenUp
<1> QED BY <1>6, <1>7, <1>8, <1>9 DEF CutOff

LEMMA PtysKeepCut ==
  ASSUME SessionTypeOK, NEW s \in Ptys, StreamInv(s), CutOff(s), link, alive,
         NEW t \in Ptys, HostPty(t), UNCHANGED helperVars
  PROVE  CutOff(s)'
<1>1. UNCHANGED <<link, stdin, stdout, replies>>
  BY PtyAsks
<1>2. ASSUME outbound' # Append(outbound, Msg("Spawn", s)) \/ t # s
      PROVE  \/ Asked' = Asked
             \/ \E m \in FromHost : m # Msg("Spawn", s) /\ Asked' = Append(Asked, m)
  <2>1. ASSUME NEW k \in PtyAsk, k # "Spawn" \/ t # s, outbound' = Append(outbound, Msg(k, t))
        PROVE  \E m \in FromHost : m # Msg("Spawn", s) /\ Asked' = Append(Asked, m)
    <3>1. Msg(k, t) \in FromHost /\ Msg(k, t) # Msg("Spawn", s)
      BY <2>1, Messages DEF Msg
    <3> QED BY <1>1, <2>1, <3>1, TheLine
  <2> QED BY <1>1, <1>2, <2>1, PtyAsks, TheLine DEF PtyAsk
<1>3. CASE t # s
  <2>1. StreamSame(s)
    BY <1>3, OtherPtysKeepStream
  <2>2. (EndTold(s)' => EndTold(s)) /\ (GivenUp(s)' => GivenUp(s))
    BY <1>1, <2>1 DEF EndTold, GivenUp, StreamSame, helperVars
  <2>3. aborting' = aborting \/ aborting' = TRUE
    BY DEF HostPty, OpenPty, RegisterPty, CancelSpawn, SendSpawn, AwaitStarted, SendCancelPty,
           ReadPty, WriteInput, Resize, CancelPty, DropPty, OnDrop, TellCancel
  <2> QED BY <1>2, <1>3, <2>1, <2>2, <2>3, TheLine, HostKeepsCut DEF StreamSame
<1>4. CASE t = s
  <2>1. CASE SendSpawn(s) /\ Send(Msg("Spawn", s)) /\ session'[s] = "starting"
             /\ UNCHANGED <<queue, streams, aborting>>
    BY <1>1, <2>1, SpawnKeepsCut DEF SendSpawn, Send
  <2>2. CASE /\ aborting' = aborting \/ aborting' = TRUE
             /\ outbound' # Append(outbound, Msg("Spawn", s))
             /\ session'[s] \in {"none", "opening", "registered"}
                  => session[s] \in {"none", "opening", "registered"}
             /\ EndFor(queue'[s], s) => EndFor(queue[s], s)
             /\ GivenUp(s)' => \/ GivenUp(s) \/ EndFor(queue[s], s) \/ aborting'
                               \/ outbound' = Append(outbound, Msg("Cancel", s))
    <3>1. EndTold(s)' => EndTold(s)
      BY <1>1, <2>2 DEF EndTold, helperVars
    <3>2. ASSUME outbound' = Append(outbound, Msg("Cancel", s)) PROVE CancelLast(Asked', s)
      <4>1. Msg("Cancel", s) \in FromHost
        BY Messages DEF PtyAsk
      <4>2. Asked \in Seq(FromHost) /\ Asked' = Append(Asked, Msg("Cancel", s))
        BY <1>1, <3>2, <4>1, TheLine
      <4> QED BY <4>1, <4>2, AppendAsks
    <3>3. GivenUp(s)' => GivenUp(s) \/ EndTold(s) \/ CancelLast(Asked', s) \/ aborting'
      BY <2>2, <3>2 DEF EndTold
    <3> QED BY <1>2, <2>2, <3>1, <3>3, TheLine, HostKeepsCut
  <2> QED BY <1>4, <2>1, <2>2, PtyGivesUp
<1> QED BY <1>3, <1>4

-----------------------------------------------------------------------------
(* The steps of the helper.  Only a Spawn makes a shell; what leaves the   *)
(* map is killed.                                                          *)
LEMMA DispatchSpawns ==
  ASSUME SessionTypeOK, NEW s \in Ptys, Dispatch
  PROVE  /\ cleaning[s] => cleaning'[s]
         /\ \/ /\ ~Tells(saying', s) /\ (s \in ptys' <=> s \in ptys)
               /\ shell'[s] = shell[s] /\ Head(stdin) # Msg("Spawn", s)
               /\ Head(stdin) = Msg("Cancel", s) => s \notin ptys
            \/ /\ Head(stdin) = Msg("Spawn", s) /\ shell'[s] = shell[s] /\ UNCHANGED ptys
               /\ saying' = Msg("Lost", s)
            \/ /\ Head(stdin) = Msg("Spawn", s) /\ s \in ptys'
               /\ saying' = Msg("Started", s)
            \/ /\ s \in ptys /\ s \notin ptys' /\ cleaning'[s]
               /\ EndOf(saying', s)
<1> DEFINE m == Head(stdin)
<1>1. /\ saying = Nothing /\ m \in FromHost
      /\ ptys \subseteq Ptys
      /\ shell \in [Ptys -> {"none", "alive", "left", "dead"}]
  BY TheLine, TailElements DEF Dispatch, SessionTypeOK, TypeOK, HelperTypeOK
<1>2. /\ m.kind \in Ask => m.id \in Requests
      /\ m.kind \in PtyAsk => m.id \in Ptys /\ m = Msg(m.kind, m.id)
  BY <1>1 DEF FromHost, Ask, PtyAsk, Msg
<1>3. \/ m.kind = "Begin" /\ Begin(m.id)
      \/ m.kind = "CancelExec" /\ CancelExec(m.id)
      \/ m.kind = "Spawn" /\ Spawn(m.id)
      \/ m.kind = "Input" /\ Input(m.id)
      \/ m.kind = "Resize" /\ ResizePty(m.id)
      \/ m.kind = "Cancel" /\ CancelSession(m.id)
  BY DEF Dispatch
<1> HIDE DEF m
<1> DEFINE Effect ==
       /\ cleaning[s] => cleaning'[s]
       /\ \/ /\ ~Tells(saying', s) /\ (s \in ptys' <=> s \in ptys)
             /\ shell'[s] = shell[s] /\ m # Msg("Spawn", s)
             /\ m = Msg("Cancel", s) => s \notin ptys
          \/ m = Msg("Spawn", s) /\ shell'[s] = shell[s] /\ UNCHANGED ptys
             /\ saying' = Msg("Lost", s)
          \/ m = Msg("Spawn", s) /\ s \in ptys' /\ saying' = Msg("Started", s)
          \/ s \in ptys /\ s \notin ptys' /\ cleaning'[s] /\ EndOf(saying', s)
<1>4. ASSUME UNCHANGED shellVars, ~Tells(saying', s), m # Msg("Spawn", s),
             m = Msg("Cancel", s) => s \notin ptys
      PROVE  Effect
  BY <1>4 DEF shellVars
<1>5. ASSUME NEW r, m.kind \in {"Begin", "CancelExec"}, Begin(r) \/ CancelExec(r)
      PROVE  Effect
  <2>1. UNCHANGED shellVars /\ (saying' = saying \/ saying' = Msg("Result", r))
    BY <1>5 DEF Begin, CancelExec
  <2>2. ~Tells(saying', s)
    BY <1>1, <2>1 DEF Tells, PtyTell, Msg, Nothing
  <2>3. m # Msg("Spawn", s) /\ m # Msg("Cancel", s)
    BY <1>5 DEF Msg
  <2> QED BY <1>4, <2>1, <2>2, <2>3
<1>6. ASSUME NEW t \in Ptys, m = Msg("Spawn", t), Spawn(t) PROVE Effect
  <2>1. CASE saying' = Msg("Lost", t) /\ UNCHANGED <<ptys, shell, cleaning>>
    <3>1. t # s => ~Tells(saying', s) /\ m # Msg("Spawn", s) /\ m # Msg("Cancel", s)
      BY <1>6, <2>1, TellFacts DEF PtyTell, Msg
    <3> QED BY <1>6, <2>1, <3>1
  <2>2. CASE saying' = Msg("Started", t) /\ ptys' = ptys \cup {t} /\ UNCHANGED cleaning
             /\ shell' = [shell EXCEPT ![t] = "alive"]
    <3>1. t # s => ~Tells(saying', s) /\ m # Msg("Spawn", s) /\ m # Msg("Cancel", s)
      BY <1>6, <2>2, TellFacts DEF PtyTell, Msg
    <3> QED BY <1>1, <1>6, <2>2, <3>1
  <2> QED BY <1>6, <2>1, <2>2 DEF Spawn
<1>7. ASSUME NEW t \in Ptys, t \in ptys, m # Msg("Spawn", s), m = Msg("Cancel", s) => t = s,
             LosePty(t) \/ CancelSession(t)
      PROVE  Effect
  <2>1. /\ UNCHANGED shell /\ ptys' = ptys \ {t} /\ Cancelled({t})
        /\ saying' = Msg("Lost", t) \/ saying' = Msg("Exited", t)
    BY <1>7 DEF LosePty, CancelSession
  <2>2. IF t = s THEN EndOf(saying', s) ELSE ~Tells(saying', s)
    BY <2>1, TellFacts DEF PtyTell
  <2>3. cleaning'[s] <=> s = t \/ cleaning[s]
    BY <2>1 DEF Cancelled
  <2>4. CASE t = s
    BY <1>7, <2>1, <2>2, <2>3, <2>4
  <2>5. CASE t # s
    BY <1>7, <2>1, <2>2, <2>3, <2>5
  <2> QED BY <2>4, <2>5
<1>8. ASSUME NEW t \in Ptys, m.kind \in {"Input", "Resize"}, Input(t) \/ ResizePty(t)
      PROVE  Effect
  <2>1. m # Msg("Spawn", s) /\ m # Msg("Cancel", s)
    BY <1>8 DEF Msg
  <2>2. CASE UNCHANGED <<saying, shellVars>>
    BY <1>1, <1>4, <2>1, <2>2, TellFacts
  <2> QED BY <1>7, <1>8, <2>1, <2>2 DEF Input, ResizePty
<1>9. ASSUME NEW t \in Ptys, m = Msg("Cancel", t), CancelSession(t) PROVE Effect
  <2>1. m # Msg("Spawn", s) /\ (m = Msg("Cancel", s) => t = s)
    BY <1>9 DEF Msg
  <2>2. CASE t \notin ptys /\ UNCHANGED <<saying, shellVars>>
    <3>1. ~Tells(saying', s)
      BY <1>1, <2>2, TellFacts
    <3> QED BY <1>4, <2>1, <2>2, <3>1
  <2>3. CASE t \in ptys
    BY <1>7, <1>9, <2>1, <2>3
  <2> QED BY <1>9, <2>2, <2>3 DEF CancelSession
<1>10. Effect
  BY <1>2, <1>3, <1>5, <1>6, <1>8, <1>9 DEF PtyAsk
<1> QED BY <1>10 DEF m

LEMMA DispatchKeepsCut ==
  ASSUME SessionTypeOK, NEW s \in Ptys, CutOff(s), link, Dispatch, UNCHANGED hostVars
  PROVE  CutOff(s)'
<1> USE DEF hostVars, ptyVars
<1>1. KeptOrKilled(s) /\ Unspawned(s) /\ Answered(s) /\ Cut(s)
  BY DEF CutOff
<1>2. UNCHANGED <<link, replies, stdout, drain, outbound>> /\ saying = Nothing
      /\ stdin # <<>> /\ stdin' = Tail(stdin)
  BY DispatchEffect DEF Dispatch
<1>3. /\ Asked \in Seq(FromHost) /\ Asked # <<>> /\ Asked' = Tail(Asked)
      /\ Head(Asked) = Head(stdin)
  BY <1>2, TheLine, OneLine DEF Asked
<1>4. /\ SpawnComing(s) <=> Head(stdin) = Msg("Spawn", s) \/ SpawnComing(s)'
      /\ CancelLast(Asked, s) => \/ CancelLast(Asked', s)
                                 \/ Head(stdin) = Msg("Cancel", s) /\ ~SpawnComing(s)
      /\ SpawnOnce(Asked, s) => /\ SpawnOnce(Asked', s)
                                /\ Head(stdin) = Msg("Spawn", s) => ~SpawnComing(s)'
  BY <1>3, TailSays, TailAsks DEF SpawnComing
<1>5. ~EndOf(saying, s) /\ saying # Msg("Started", s)
  BY <1>2, TellFacts
<1>6. Msg("Spawn", s) # Msg("Cancel", s)
  BY DEF Msg
<1>7. cleaning[s] => cleaning'[s]
  BY DispatchSpawns
<1>8. CASE /\ ~Tells(saying', s) /\ (s \in ptys' <=> s \in ptys)
           /\ shell'[s] = shell[s] /\ Head(stdin) # Msg("Spawn", s)
           /\ Head(stdin) = Msg("Cancel", s) => s \notin ptys
  <2>1. ~EndOf(saying', s) /\ saying' # Msg("Started", s)
    BY <1>8, TellFacts
  <2>2. KeptOrKilled(s)'
    BY <1>1, <1>7, <1>8 DEF KeptOrKilled
  <2>3. Unspawned(s)'
    BY <1>1, <1>2, <1>4, <1>8, <2>1 DEF Unspawned, Untouched
  <2>4. SeenTo(s) => SeenTo(s)'
    BY <1>2, <1>4, <1>7, <1>8 DEF SeenTo, Doomed
  <2>5. EndTold(s)' => EndTold(s)
    BY <1>2, <2>1 DEF EndTold
  <2>6. Answered(s)'
    BY <1>1, <2>4, <2>5 DEF Answered
  <2>7. Head(stdin) = Msg("Cancel", s) /\ ~SpawnComing(s) => SeenTo(s)'
    BY <1>1, <1>4, <1>7, <1>8 DEF SeenTo, Doomed, KeptOrKilled
  <2>8. Cut(s)'
    BY <1>1, <1>4, <2>4, <2>7 DEF Cut, GivenUp
  <2> QED BY <2>2, <2>3, <2>6, <2>8 DEF CutOff
<1>9. CASE Head(stdin) = Msg("Spawn", s)
  <2>1. SpawnComing(s) /\ ~SpawnComing(s)' /\ SpawnOnce(Asked', s)
    BY <1>1, <1>4, <1>9 DEF Unspawned
  <2>2. Untouched(s) /\ ~EndTold(s) /\ session[s] \notin {"none", "opening", "registered"}
    BY <1>1, <2>1 DEF Unspawned, Answered, SeenTo
  <2>3. CancelLast(Asked, s) => CancelLast(Asked', s)
    BY <1>4, <1>6, <1>9
  <2>4. CASE shell'[s] = shell[s] /\ UNCHANGED ptys /\ saying' = Msg("Lost", s)
    <3>1. saying' # Msg("Started", s)
      BY <2>4, TellFacts
    <3>2. SeenTo(s)'
      BY <2>1, <2>2, <2>4 DEF SeenTo, Doomed, Untouched
    <3>3. KeptOrKilled(s)'
      BY <2>2, <2>4 DEF KeptOrKilled, Untouched
    <3> QED BY <2>1, <2>2, <3>1, <3>2, <3>3 DEF CutOff, Unspawned, Answered, Cut
  <2>5. CASE s \in ptys' /\ saying' = Msg("Started", s)
    <3>1. ~EndTold(s)'
      <4>1. ~EndOf(saying', s)
        BY <2>5, TellFacts DEF PtyTell
      <4> QED BY <1>2, <2>2, <4>1 DEF EndTold
    <3>2. KeptOrKilled(s)'
      BY <2>5 DEF KeptOrKilled
    <3>3. Unspawned(s)'
      BY <1>2, <2>1, <2>2 DEF Unspawned, Untouched
    <3>4. Cut(s)'
      BY <1>1, <2>1, <2>3 DEF Cut, GivenUp, SeenTo
    <3> QED BY <3>1, <3>2, <3>3, <3>4 DEF CutOff, Answered
  <2>6. CASE s \in ptys
    BY <2>2, <2>6 DEF Untouched
  <2> QED BY <1>9, <2>4, <2>5, <2>6, DispatchSpawns
<1>10. CASE s \in ptys /\ s \notin ptys' /\ cleaning'[s] /\ EndOf(saying', s)
  <2>1. session[s] \notin {"none", "opening", "registered"} /\ ~SpawnComing(s)
    BY <1>1, <1>10 DEF Unspawned, Untouched
  <2>2. SeenTo(s)'
    BY <1>4, <1>10, <2>1 DEF SeenTo, Doomed
  <2>3. saying' # Msg("Started", s)
    BY <1>10 DEF EndOf, Msg
  <2>4. Unspawned(s)'
    BY <1>1, <1>4, <2>1, <2>2, <2>3 DEF Unspawned, SeenTo
  <2> QED BY <1>10, <2>2, <2>4 DEF CutOff, KeptOrKilled, Answered, Cut
<1> QED BY <1>8, <1>9, <1>10, DispatchSpawns

LEMMA FinishKeepsCut ==
  ASSUME SessionTypeOK, LinkInv, NEW s \in Ptys, StreamInv(s), CutOff(s), link,
         FinishDispatch, UNCHANGED hostVars
  PROVE  CutOff(s)'
<1>1. /\ HostSame /\ UNCHANGED <<stdin, stdout, shell>> /\ saying' = Nothing
      /\ saying \in FromHelper
      /\ drain \in [Ptys -> {"none", "reading", "ending", "removing", "done"}]
  BY DEF FinishDispatch, HostSame, SessionTypeOK, TypeOK, HelperTypeOK
<1>2. /\ replies' = Append(replies, saying)
      /\ drain' = IF saying.kind = "Started"
                    THEN [drain EXCEPT ![saying.id] = "reading"] ELSE drain
      /\ UNCHANGED <<ptys, cleaning>>
  BY DEF FinishDispatch, LinkInv, Say
<1>3. KeptOrKilled(s) /\ Unspawned(s)
  BY DEF CutOff
<1>4. drain'[s] = drain[s] \/ saying = Msg("Started", s)
  <2>1. saying.kind = "Started" /\ saying.id = s => saying = Msg("Started", s)
    BY <1>1, Messages
  <2> QED BY <1>1, <1>2, <2>1
<1>5. KeptOrKilled(s)'
  BY <1>1, <1>2, <1>3 DEF KeptOrKilled
<1>6. Doomed(s) => Doomed(s)'
  BY <1>1, <1>2, <1>3, <1>4 DEF Doomed, Unspawned
<1>7. Untouched(s) => Untouched(s)' \/ saying = Msg("Started", s)
  BY <1>1, <1>2, <1>4 DEF Untouched
<1>8. EndTold(s)' => EndTold(s)
  <2>1. \A k : In(replies', k, s) <=> In(replies, k, s) \/ saying = Msg(k, s)
    BY <1>1, <1>2, TheLine, AppendSays
  <2>2. ~EndOf(saying', s)
    BY <1>1, TellFacts
  <2> QED BY <1>1, <2>1, <2>2 DEF EndTold, EndFor, EndOf, HostSame, hostVars, ptyVars
<1>9. saying' # Msg("Started", s)
  BY <1>1, TellFacts
<1> QED BY <1>1, <1>5, <1>6, <1>7, <1>8, <1>9, TheLine, HelperKeepsCut DEF StreamInv

(* Nothing is said of the stream, and its shell is as it was or dead.      *)
LEMMA HelperAsideKeepsCut ==
  ASSUME SessionTypeOK, NEW s \in Ptys, Fresh(s), CutOff(s), link, HostSame,
         UNCHANGED <<stdin, saying>>,
         EndTold(s)' => EndTold(s) \/ (drain[s] = "ending" /\ drain'[s] = "removing"),
         s \in ptys' => s \in ptys,
         s \in ptys => s \in ptys' \/ cleaning'[s],
         cleaning[s] => cleaning'[s],
         shell'[s] = shell[s] \/ (shell[s] \in {"alive", "left"} /\ shell'[s] \in {"left", "dead"}),
         drain[s] = "none" => drain'[s] = "none",
         drain[s] = "removing" /\ drain'[s] # "removing" => s \notin ptys'
  PROVE  CutOff(s)'
<1>1. KeptOrKilled(s)
  BY DEF CutOff
<1>2. KeptOrKilled(s)'
  BY <1>1 DEF KeptOrKilled
<1>3. Doomed(s) => Doomed(s)'
  BY <1>2 DEF Doomed, KeptOrKilled
<1>4. Untouched(s) => Untouched(s)'
  BY DEF Untouched
<1>5. EndTold(s)' => EndTold(s) \/ (drain[s] = "ending" /\ Doomed(s)')
  BY DEF Doomed
<1> QED BY <1>2, <1>3, <1>4, <1>5, TheLine, HelperKeepsCut

LEMMA WriteReplyKeepsCut ==
  ASSUME SessionTypeOK, NEW s \in Ptys, StreamInv(s), CutOff(s), link, WriteReply,
         UNCHANGED hostVars
  PROVE  CutOff(s)'
<1>1. /\ replies # <<>> /\ stdout' = Append(stdout, Head(replies)) /\ replies' = Tail(replies)
      /\ Head(replies) \in FromHelper
      /\ HostSame /\ UNCHANGED <<stdin, saying, shellVars>>
  BY TheLine, TailElements DEF WriteReply, HostSame
<1>2. /\ \A k : In(replies, k, s) <=> Head(replies) = Msg(k, s) \/ In(replies', k, s)
      /\ \A k : In(stdout', k, s) <=> In(stdout, k, s) \/ Head(replies) = Msg(k, s)
  BY <1>1, TheLine, TailSays, AppendSays
<1>3. EndTold(s)' => EndTold(s)
  BY <1>1, <1>2 DEF EndTold, EndFor, HostSame, hostVars, ptyVars
<1> QED BY <1>1, <1>3, HelperAsideKeepsCut DEF shellVars, StreamInv

(* The end of the service comes after the connection's.                    *)
LEMMA ServiceKeepsCut ==
  ASSUME LinkInv, SessionTypeOK, NEW s \in Ptys, StreamInv(s), CutOff(s), link,
         UNCHANGED hostVars, ServiceEnds \/ CancelSessions \/ CancelExecs \/ Exit
  PROVE  CutOff(s)'
<1>1. ServiceEnds
  BY DEF LinkInv, CancelSessions, CancelExecs, Exit
<1>2. HostSame /\ UNCHANGED <<stdin, stdout, replies, saying, shellVars>>
  BY <1>1 DEF ServiceEnds, HostSame, wire
<1>3. EndTold(s)' => EndTold(s)
  BY <1>2 DEF EndTold, HostSame, hostVars, ptyVars
<1> QED BY <1>2, <1>3, HelperAsideKeepsCut DEF shellVars, StreamInv

LEMMA OperationsKeepCut ==
  ASSUME SessionTypeOK, NEW s \in Ptys, StreamInv(s), CutOff(s), link, UNCHANGED hostVars,
         NEW r \in Requests, Reserve(r) \/ StopExec(r) \/ OperationEnds(r) \/ Reply(r)
  PROVE  CutOff(s)'
<1>1. HostSame /\ UNCHANGED <<stdin, stdout, saying, shellVars>>
  BY DEF Reserve, StopExec, OperationEnds, Reply, HostSame, wire
<1>2. replies' = replies \/ replies' = Append(replies, Msg("Result", r))
  BY DEF Reserve, StopExec, OperationEnds, Reply, wire
<1>3. EndFor(replies', s) => EndFor(replies, s)
  <2>1. /\ Msg("Result", r) \in FromHelper
        /\ Msg("Result", r) # Msg("Exited", s) /\ Msg("Result", r) # Msg("Lost", s)
    BY Messages DEF Msg
  <2>2. \A k : In(Append(replies, Msg("Result", r)), k, s)
                <=> In(replies, k, s) \/ Msg("Result", r) = Msg(k, s)
    BY <2>1, TheLine, AppendSays
  <2> QED BY <1>2, <2>1, <2>2 DEF EndFor
<1>4. EndTold(s)' => EndTold(s)
  BY <1>1, <1>3 DEF EndTold, HostSame, hostVars, ptyVars
<1> QED BY <1>1, <1>4, HelperAsideKeepsCut DEF shellVars, StreamInv

(* A drain that has told the end takes the session out of the map next.    *)
LEMMA ShellsKeepCut ==
  ASSUME SessionTypeOK, NEW s \in Ptys, StreamInv(s), CutOff(s), link, UNCHANGED hostVars,
         NEW t \in Ptys,
         \/ ShellDies(t) \/ JobEnds(t) \/ InputFails(t)
         \/ DrainReads(t) \/ DrainEnds(t) \/ DrainReports(t) \/ DrainRemoves(t)
  PROVE  CutOff(s)'
<1>1. /\ drain \in [Ptys -> {"none", "reading", "ending", "removing", "done"}]
      /\ shell \in [Ptys -> {"none", "alive", "left", "dead"}]
      /\ Msg("Output", t) \in FromHelper /\ Msg("Exited", t) \in FromHelper
  BY Messages DEF SessionTypeOK, TypeOK, HelperTypeOK, PtyTell
<1>2. HostSame /\ UNCHANGED <<stdin, stdout, saying>>
  BY DEF ShellDies, JobEnds, InputFails, DrainReads, DrainEnds, DrainReports, DrainRemoves, HostSame,
         wire
<1>3. /\ shell'[s] = shell[s] \/ (shell[s] \in {"alive", "left"} /\ shell'[s] \in {"left", "dead"})
      /\ drain[s] = "none" => drain'[s] = "none"
  BY <1>1 DEF ShellDies, JobEnds, InputFails, DrainReads, DrainEnds, DrainReports, DrainRemoves,
              StopsReading
<1>4. /\ s \in ptys' => s \in ptys
      /\ s \in ptys => s \in ptys' \/ cleaning'[s]
      /\ cleaning[s] => cleaning'[s]
  BY DEF ShellDies, JobEnds, InputFails, DrainReads, DrainEnds, DrainReports, DrainRemoves, Cancelled
<1>5. drain[s] = "removing" /\ drain'[s] # "removing" => s \notin ptys'
  BY <1>1 DEF ShellDies, JobEnds, InputFails, DrainReads, DrainEnds, DrainReports, DrainRemoves,
              StopsReading
<1>6. EndTold(s)' => EndTold(s) \/ (drain[s] = "ending" /\ drain'[s] = "removing")
  <2>1. \/ replies' = replies
        \/ replies' = Append(replies, Msg("Output", t))
        \/ /\ replies' = Append(replies, Msg("Exited", t))
           /\ drain[t] = "ending" /\ drain'[t] = "removing"
    BY <1>1 DEF ShellDies, JobEnds, InputFails, DrainReads, DrainEnds, DrainReports, DrainRemoves,
                Say, EndReported, wire
  <2>2. /\ Msg("Output", t) # Msg("Exited", s) /\ Msg("Output", t) # Msg("Lost", s)
        /\ Msg("Exited", t) # Msg("Lost", s) /\ (Msg("Exited", t) = Msg("Exited", s) => t = s)
    BY DEF Msg
  <2>3. EndFor(replies', s)
          => EndFor(replies, s) \/ (drain[s] = "ending" /\ drain'[s] = "removing")
    <3>1. \A m \in FromHelper : \A k :
            In(Append(replies, m), k, s) <=> In(replies, k, s) \/ m = Msg(k, s)
      BY TheLine, AppendSays
    <3> QED BY <1>1, <2>1, <2>2, <3>1 DEF EndFor
  <2> QED BY <1>2, <2>3 DEF EndTold, HostSame, hostVars, ptyVars
<1> QED BY <1>2, <1>3, <1>4, <1>5, <1>6, HelperAsideKeepsCut DEF StreamInv

-----------------------------------------------------------------------------
(* A connection that is gone stays gone, and the host knows it as alive    *)
(* while it is there.                                                      *)
LEMMA LinkBefore ==
  ASSUME link => alive, [Next]_sessionVars
  PROVE  link' => link /\ alive'
<1>2. CASE HostNext
  <2>1. CASE TransportFails \/ Abort \/ Shutdown \/ Write
    BY <2>1 DEF TransportFails, Abort, Shutdown, Write, MarkLost, Lose, hostVars, wire
  <2>2. CASE RouteMessage
    BY <2>2 DEF RouteMessage, RouteResult, RouteOutput, RouteEnd, Routed, Overflow, Lose,
                hostVars
  <2>3. CASE \/ \E r \in Requests : HostRequest(r)
             \/ \E r \in Execs : HostExec(r)
    BY <2>3 DEF HostRequest, StartRequest, InsertRequest, SendRequest, AwaitAnswer, HostExec,
                CallerCancels, Forward, wire
  <2>4. CASE \E s \in Ptys : HostPty(s)
    BY <2>4, PtyAsks
  <2> QED BY <1>2, <2>1, <2>2, <2>3, <2>4 DEF HostNext
<1>3. CASE HelperNext /\ UNCHANGED hostVars
  <2>1. UNCHANGED link
    BY <1>3 DEF HelperNext, Dispatch, FinishDispatch, WriteReply, ServiceEnds, CancelSessions,
                CancelExecs, Exit, Reserve, StopExec, OperationEnds, Reply, ShellDies, JobEnds, InputFails,
                DrainReads, DrainEnds, DrainReports, DrainRemoves, wire
  <2> QED BY <1>3, <2>1 DEF hostVars
<1>4. CASE LinkBreaks /\ UNCHANGED <<hostVars, helperVars>>
  BY <1>4 DEF LinkBreaks
<1>5. CASE UNCHANGED sessionVars
  BY <1>5 DEF sessionVars, hostVars, wire
<1> QED BY <1>2, <1>3, <1>4, <1>5 DEF Next

(* The books of every stream that is started, given up or at its end stay  *)
(* right as long as the connection is there.                               *)
THEOREM CutInvariant == Spec => []CutInv
<1>1. Init => CutInv
  <2> SUFFICES ASSUME Init, NEW s \in Ptys PROVE CutOff(s)
    BY DEF CutInv, Init, HostInit
  <2>1. Asked = <<>>
    BY DEF Init, WireInit, Asked
  <2>2. ~SpawnComing(s) /\ SpawnOnce(Asked, s)
    BY <2>1, EmptySays DEF SpawnComing, SpawnOnce
  <2>3. ~EndTold(s) /\ saying # Msg("Started", s)
    <3>1. saying = Nothing /\ replies = <<>> /\ stdout = <<>> /\ queue[s] = <<>>
      BY DEF Init, WireInit, HostInit, HelperInit
    <3> QED BY <3>1, EmptySays, TellFacts DEF EndTold, EndFor
  <2>4. /\ session[s] = "none" /\ shell[s] = "none" /\ drain[s] = "none" /\ s \notin ptys
    BY DEF Init, HostInit, HelperInit
  <2> QED BY <2>2, <2>3, <2>4
          DEF CutOff, KeptOrKilled, Unspawned, Untouched, Answered, Cut, GivenUp
<1>2. CutInv /\ SessionInv /\ [Next]_sessionVars => CutInv'
  <2> SUFFICES ASSUME CutInv, SessionInv, [Next]_sessionVars, NEW s \in Ptys, link'
               PROVE  CutOff(s)'
    BY LinkBefore DEF CutInv, CutOff
  <2>0. SessionTypeOK /\ LinkInv /\ StreamInv(s) /\ CutOff(s) /\ (link => alive)
    BY DEF SessionInv, CutInv
  <2>1. CASE HostNext /\ UNCHANGED helperVars
    <3>1. CASE TransportFails \/ Abort \/ Shutdown
      BY <2>0, <3>1, StoppingKeepsCut
    <3>2. CASE Write
      BY <2>0, <2>1, <3>2, WriteKeepsCut
    <3>3. CASE RouteMessage /\ link
      BY <2>0, <2>1, <3>3, RoutingKeepsCut
    <3>4. CASE link /\ \/ \E r \in Requests : HostRequest(r)
                       \/ \E r \in Execs : HostExec(r)
      BY <2>0, <2>1, <3>4, RequestsKeepCut
    <3>5. CASE link /\ \E t \in Ptys : HostPty(t)
      BY <2>0, <2>1, <3>5, PtysKeepCut
    <3> QED BY <2>1, <3>1, <3>2, <3>3, <3>4, <3>5, LinkBefore DEF HostNext
  <2>2. CASE HelperNext /\ UNCHANGED hostVars
    <3>1. CASE Dispatch /\ link
      BY <2>0, <2>2, <3>1, DispatchKeepsCut
    <3>2. CASE FinishDispatch /\ link
      BY <2>0, <2>2, <3>2, FinishKeepsCut
    <3>3. CASE WriteReply /\ link
      BY <2>0, <2>2, <3>3, WriteReplyKeepsCut
    <3>4. CASE link /\ (ServiceEnds \/ CancelSessions \/ CancelExecs \/ Exit)
      BY <2>0, <2>2, <3>4, ServiceKeepsCut
    <3>5. CASE link /\ \E r \in Requests : Reserve(r) \/ StopExec(r) \/ OperationEnds(r) \/ Reply(r)
      BY <2>0, <2>2, <3>5, OperationsKeepCut
    <3>6. CASE link /\ \E t \in Ptys :
                 \/ ShellDies(t) \/ JobEnds(t) \/ InputFails(t)
                 \/ DrainReads(t) \/ DrainEnds(t) \/ DrainReports(t) \/ DrainRemoves(t)
      BY <2>0, <2>2, <3>6, ShellsKeepCut
    <3> QED BY <2>2, <3>1, <3>2, <3>3, <3>4, <3>5, <3>6, LinkBefore DEF HelperNext
  <2>3. CASE LinkBreaks
    BY <2>3 DEF LinkBreaks
  <2>4. CASE UNCHANGED sessionVars
    <3>1. UNCHANGED <<hostVars, helperVars, wire>>
      BY <2>4 DEF sessionVars
    <3>2. HostSame /\ UNCHANGED <<stdin, stdout, replies, saying, shellVars>>
      BY <3>1 DEF HostSame, wire, helperVars
    <3>3. EndTold(s)' => EndTold(s)
      BY <3>1, <3>2 DEF EndTold, hostVars, ptyVars
    <3>4. link
      BY <3>1 DEF wire
    <3> QED BY <2>0, <3>2, <3>3, <3>4, HelperAsideKeepsCut DEF shellVars, StreamInv
  <2> QED BY <2>1, <2>2, <2>3, <2>4 DEF Next
<1> QED BY <1>1, <1>2, SessionInvariant, PTL DEF Spec

(* RemotePtySession's drop, its failed spawn and route_message: a stream   *)
(* that is given up has no shell that goes on.                             *)
THEOREM EndedIsAlwaysCut == Spec => []EndedIsCut
<1>1. CutInv => EndedIsCut
  <2> SUFFICES ASSUME CutInv, NEW s \in Ptys,
                      session[s] \in {"failed", "dropped", "Exited", "Lost"}, link, ~aborting,
                      ~(~SpawnComing(s) /\ Doomed(s))
               PROVE  CancelLast(Asked, s)
    BY DEF EndedIsCut
  <2> QED BY DEF CutInv, CutOff, Cut, GivenUp, SeenTo
<1> QED BY <1>1, CutInvariant, PTL

(* Whatever spawn, cancel, drop, drain and loss do to each other, a handle *)
(* of RemotePtySession shows what is so of its shell.                      *)
THEOREM HandlesAreAlwaysTrue == Spec => []HandlesAreTrue
<1>1. RunningIsBacked /\ EndedIsCut => HandlesAreTrue
  BY DEF HandlesAreTrue
<1> QED BY <1>1, RunningIsAlwaysBacked, EndedIsAlwaysCut, PTL
=============================================================================
