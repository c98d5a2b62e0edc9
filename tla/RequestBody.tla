---------------------------- MODULE RequestBody ----------------------------
(***************************************************************************)
(* The client's request body on its way to the origin (src/proxy.rs,       *)
(* origin_request, request_body, pump_request_body). actix's payload is    *)
(* !Send and hyper's body must be Send, so the handler reads the first     *)
(* chunk, and a task of its own (the pump) copies that chunk and the rest  *)
(* into a channel of one that hyper reads. The handler, the pump, hyper    *)
(* and the client all move on their own.                                   *)
(***************************************************************************)
EXTENDS Naturals, Sequences

CONSTANTS
  Chunk,                \* the chunks a client may send
  MaxChunks,            \* how many it sends at most
  Failure               \* the frame that carries a payload error

ASSUME FailureAssumption == Failure \notin Chunk
ASSUME MaxChunksAssumption == MaxChunks \in Nat

VARIABLES
  sent,                 \* the chunks the client has sent, in order
  source,               \* whether the client's body is open, ended or failed
  read,                 \* how many chunks have been taken from the payload
  pump,                 \* where the handler, then the pump, is
  frame,                \* the frame the pump is sending
  channel,              \* the frames in the channel
  receiver,             \* the body's half of the channel
  got,                  \* the chunks that hyper has written to the origin
  sink                  \* what the origin's request body has come to

clientVars == <<sent, source>>
pumpVars == <<read, pump, frame>>
originVars == <<receiver, got, sink>>
vars == <<clientVars, pumpVars, channel, originVars>>

(* The capacity of mpsc::channel(1).                                       *)
Capacity == 1

Frame == Chunk \cup {Failure}
NoFrame == <<>>

TypeOK ==
  /\ sent \in Seq(Chunk) /\ Len(sent) <= MaxChunks
  /\ source \in {"open", "ended", "failed"}
  /\ read \in 0 .. Len(sent)
  /\ pump \in {"first", "send", "next", "gone"}
  /\ frame \in {NoFrame} \cup {<<f>> : f \in Frame}
  /\ channel \in {NoFrame} \cup {<<f>> : f \in Frame}
  /\ receiver \in {"none", "open", "dropped"}
  /\ got \in Seq(Chunk)
  /\ sink \in {"open", "whole", "broken"}

Init ==
  /\ sent = <<>> /\ source = "open"
  /\ read = 0 /\ pump = "first" /\ frame = NoFrame
  /\ channel = NoFrame
  /\ receiver = "none" /\ got = <<>> /\ sink = "open"

-----------------------------------------------------------------------------
(* The client, as actix's payload shows it: chunks, then the end or an     *)
(* error (the connection closed early, the coding is wrong).               *)
ClientSends ==
  /\ source = "open" /\ Len(sent) < MaxChunks
  /\ \E c \in Chunk : sent' = Append(sent, c)
  /\ UNCHANGED <<source, pumpVars, channel, originVars>>

ClientCloses ==
  /\ source = "open"
  /\ source' \in {"ended", "failed"}
  /\ UNCHANGED <<sent, pumpVars, channel, originVars>>

(* payload.next() is ready with a chunk, with the end, or with an error.    *)
PayloadChunk == read < Len(sent)
PayloadEnd == read = Len(sent) /\ source = "ended"
PayloadError == read = Len(sent) /\ source = "failed"

-----------------------------------------------------------------------------
(* Mutant of FirstChunk: the pump starts with the rest of the payload.       *)
FirstChunkForgotten ==
  /\ pump = "first" /\ sink = "open" /\ PayloadChunk
  /\ read' = read + 1
  /\ pump' = "next" /\ receiver' = "open"
  /\ UNCHANGED <<clientVars, frame, channel, got, sink>>

(* request_body, in the handler: the first poll of the payload decides.     *)
FirstChunk ==
  /\ pump = "first" /\ sink = "open" /\ PayloadChunk
  /\ read' = read + 1
  /\ pump' = "send" /\ frame' = <<sent[read + 1]>>
  /\ receiver' = "open"
  /\ UNCHANGED <<clientVars, channel, got, sink>>

(* No first chunk: an empty body stays empty, without channel or pump, and  *)
(* an error is a 400 before the origin is asked.                            *)
NoFirstChunk ==
  /\ pump = "first" /\ sink = "open"
  /\ \/ PayloadEnd /\ sink' = "whole"
     \/ PayloadError /\ sink' = "broken"
  /\ pump' = "gone"
  /\ UNCHANGED <<clientVars, read, frame, channel, receiver, got>>

(* The client leaves before the first chunk and the handler's future is     *)
(* dropped.                                                                 *)
HandlerDropped ==
  /\ pump = "first" /\ sink = "open"
  /\ pump' = "gone" /\ sink' = "broken"
  /\ UNCHANGED <<clientVars, read, frame, channel, receiver, got>>

-----------------------------------------------------------------------------
(* pump_request_body: sender.send(frame).await takes a place in the channel *)
(* or finds it closed. After a payload error the pump returns.              *)
Closed == receiver = "dropped"

SendFrame ==
  /\ pump = "send" /\ ~Closed /\ Len(channel) < Capacity
  /\ channel' = channel \o frame
  /\ pump' = IF frame = <<Failure>> THEN "gone" ELSE "next"
  /\ frame' = NoFrame
  /\ UNCHANGED <<clientVars, read, originVars>>

(* Mutant of SendClosed: the pump waits for room in a channel nobody reads. *)
SendWaits == FALSE /\ UNCHANGED vars

SendClosed ==
  /\ pump = "send" /\ Closed
  /\ pump' = "gone" /\ frame' = NoFrame
  /\ UNCHANGED <<clientVars, read, channel, originVars>>

NextChunk ==
  /\ pump = "next" /\ PayloadChunk
  /\ read' = read + 1
  /\ pump' = "send" /\ frame' = <<sent[read + 1]>>
  /\ UNCHANGED <<clientVars, channel, originVars>>

(* Mutant of NextError: the pump returns without passing the error on.       *)
NextErrorSilent ==
  /\ pump = "next" /\ PayloadError
  /\ pump' = "gone"
  /\ UNCHANGED <<clientVars, read, frame, channel, originVars>>

NextError ==
  /\ pump = "next" /\ PayloadError
  /\ pump' = "send" /\ frame' = <<Failure>>
  /\ UNCHANGED <<clientVars, read, channel, originVars>>

(* The payload ends and the pump returns, which drops the sender.           *)
NextEnd ==
  /\ pump = "next" /\ PayloadEnd
  /\ pump' = "gone"
  /\ UNCHANGED <<clientVars, read, frame, channel, originVars>>

-----------------------------------------------------------------------------
(* hyper polls the body: poll_recv gives the next frame, or the end once    *)
(* the sender is gone and the channel is empty. A data frame goes to the    *)
(* origin, an error fails the request and drops the body.                   *)
ReceiveChunk ==
  /\ receiver = "open" /\ channel # NoFrame /\ channel # <<Failure>>
  /\ got' = got \o channel
  /\ channel' = NoFrame
  /\ UNCHANGED <<clientVars, pumpVars, receiver, sink>>

ReceiveError ==
  /\ receiver = "open" /\ channel = <<Failure>>
  /\ channel' = NoFrame
  /\ receiver' = "dropped" /\ sink' = "broken"
  /\ UNCHANGED <<clientVars, pumpVars, got>>

ReceiveEnd ==
  /\ receiver = "open" /\ channel = NoFrame /\ pump = "gone"
  /\ receiver' = "dropped" /\ sink' = "whole"
  /\ UNCHANGED <<clientVars, pumpVars, channel, got>>

(* The origin request ends before its body: the request could not be built  *)
(* or sent, the origin answered early or closed, the upstream timeout       *)
(* passed, or the handler was dropped. What is in the channel goes too.     *)
RequestEnds ==
  /\ receiver = "open"
  /\ receiver' = "dropped" /\ sink' = "broken"
  /\ channel' = NoFrame
  /\ UNCHANGED <<clientVars, pumpVars, got>>

-----------------------------------------------------------------------------
Client == ClientSends \/ ClientCloses
Handler == FirstChunk \/ NoFirstChunk
Pump == SendFrame \/ SendClosed \/ NextChunk \/ NextError \/ NextEnd
Hyper == ReceiveChunk \/ ReceiveError \/ ReceiveEnd \/ RequestEnds

Next == Client \/ Handler \/ HandlerDropped \/ Pump \/ Hyper

(* The handler and the pump are polled when they can go on, and hyper       *)
(* either reads the body or ends the request: the upstream timeout, and the *)
(* idle deadline of an answer that came early, end one whose origin does    *)
(* neither. Nothing is assumed of the client.                               *)
Fairness == WF_vars(Handler) /\ WF_vars(Pump) /\ WF_vars(Hyper)

Spec == Init /\ [][Next]_vars /\ Fairness

-----------------------------------------------------------------------------
(* The request body the origin sees is a transfer of the client's: a prefix *)
(* of it, in order, and ended as whole only when the client's own body      *)
(* ended and all of it has gone out. A client that disappears half way      *)
(* through an upload never leaves the origin with a short body that looks   *)
(* complete.                                                                *)
T == INSTANCE Transfer
ImplementsTransfer == T!Spec

(* What has been taken from the payload is with the origin, in the channel  *)
(* or in the pump's hands, in that order, as long as the origin request     *)
(* lives: `first`, which travels apart from the rest, is neither lost nor   *)
(* overtaken, and the proxy never holds more than two chunks.               *)
Data(s) == IF s = <<Failure>> THEN <<>> ELSE s
InOrder ==
  receiver = "open" =>
    /\ SubSeq(sent, 1, read) = got \o Data(channel) \o Data(frame)
    /\ read <= Len(got) + 2

(* Once the client's body has ended or failed, the origin's request body    *)
(* comes to an end and the pump with it, whatever the origin does: no task  *)
(* and no payload is kept by an origin request that is over.                *)
BodySettles ==
  (source # "open") ~> (sink # "open" /\ pump = "gone")

-----------------------------------------------------------------------------
(* The parts of the inductive invariant from which RequestBodyProof shows   *)
(* InOrder and ImplementsTransfer.                                          *)

(* The pump holds a frame exactly while it sends it, and before the first   *)
(* chunk there is no channel yet.                                           *)
PumpMatches ==
  /\ pump = "send" <=> frame # NoFrame
  /\ pump = "first" => receiver = "none"
  /\ receiver = "none" =>
       pump \in {"first", "gone"} /\ read = 0 /\ channel = NoFrame /\ got = <<>>

(* hyper's body is open exactly as long as the receiver is.                 *)
SinkMatches ==
  /\ receiver = "open" => sink = "open"
  /\ receiver = "dropped" => sink # "open" /\ channel = NoFrame
  /\ receiver = "none" /\ pump = "gone" => sink # "open"
  /\ pump = "first" => sink = "open"

(* An error frame stands for a payload that failed, with nothing after it,  *)
(* and a pump that returned without one had come to the payload's end.      *)
EndKnown ==
  /\ frame = <<Failure>> => PayloadError
  /\ channel = <<Failure>> => PayloadError /\ pump = "gone"
  /\ receiver = "open" /\ pump = "gone" =>
       channel = <<Failure>> \/ PayloadEnd

IInv == TypeOK /\ InOrder /\ PumpMatches /\ SinkMatches /\ EndKnown

=============================================================================
