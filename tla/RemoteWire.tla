----------------------------- MODULE RemoteWire -----------------------------
(***************************************************************************)
(* What the host's multiplexer (remote/multiplexer.rs) and the remote      *)
(* helper (hermito-remote/src/main.rs) share once they have negotiated:    *)
(* requests, PTY streams, messages, and the two bounded channels with the  *)
(* SSH pipe between them.  Multiplexer and RemoteHelper extend this module *)
(* and RemoteSession composes them.                                        *)
(*                                                                         *)
(* A message is its kind and the request or stream it names; epochs and    *)
(* the stream context never change during a connection.                    *)
(***************************************************************************)
EXTENDS Integers, Sequences, FiniteSets

CONSTANTS
  Execs,           \* process requests (exec)
  Files,           \* file requests (read_file, write_file)
  Ptys,            \* PTY streams
  OutboundQueue,   \* the host's OUTBOUND_QUEUE
  ReplyQueue,      \* the helper's OUTBOUND_QUEUE
  PipeSize         \* bound: messages in one direction of the SSH connection

ASSUME SetsAssumption ==
  /\ IsFiniteSet(Execs) /\ IsFiniteSet(Files) /\ IsFiniteSet(Ptys)
  /\ Execs \cap Files = {} /\ Execs \cap Ptys = {} /\ Files \cap Ptys = {}
ASSUME QueuesAssumption ==
  /\ OutboundQueue \in Nat \ {0} /\ ReplyQueue \in Nat \ {0} /\ PipeSize \in Nat \ {0}

VARIABLES
  link,       \* the ssh process and its pipes are there
  outbound,   \* Inner.outbound, the host's queue
  stdin,      \* written by the host, not read by the helper
  replies,    \* OutboundSender.sender, the helper's queue
  stdout      \* written by the helper, not read by the host

wire == <<link, outbound, stdin, replies, stdout>>

Requests == Execs \cup Files

Ask == {"Begin", "CancelExec"}
PtyAsk == {"Spawn", "Input", "Resize", "Cancel"}
PtyTell == {"Started", "Output", "Exited", "Lost"}

Msg(k, i) == [kind |-> k, id |-> i]
FromHost == [kind : Ask, id : Requests] \cup [kind : PtyAsk, id : Ptys]
FromHelper == [kind : {"Result"}, id : Requests] \cup [kind : PtyTell, id : Ptys]

Prefixes(q) == {SubSeq(q, 1, n) : n \in 0..Len(q)}
In(q, k, i) == \E n \in DOMAIN q : q[n] = Msg(k, i)

WireTypeOK ==
  /\ link \in BOOLEAN
  /\ outbound \in Seq(FromHost) /\ Len(outbound) <= OutboundQueue
  /\ stdin \in Seq(FromHost) /\ Len(stdin) <= PipeSize
  /\ replies \in Seq(FromHelper) /\ Len(replies) <= ReplyQueue
  /\ stdout \in Seq(FromHelper) /\ Len(stdout) <= PipeSize

WireInit ==
  /\ link = TRUE
  /\ outbound = <<>> /\ stdin = <<>>
  /\ replies = <<>> /\ stdout = <<>>

(* The connection breaks; what is under way arrives up to some message.    *)
LinkBreaks ==
  /\ link
  /\ link' = FALSE
  /\ stdin' \in Prefixes(stdin)
  /\ stdout' \in Prefixes(stdout)
  /\ UNCHANGED <<outbound, replies>>
=============================================================================
