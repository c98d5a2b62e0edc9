-------------------------- MODULE RequestBodyProof --------------------------
(***************************************************************************)
(* Proofs about RequestBody for any chunks and any number of them.         *)
(*                                                                         *)
(* InOrder says nothing of how the payload ended, and a state in which the *)
(* pump has returned, the channel is empty and the payload is not at its   *)
(* end satisfies it: its successor tells the origin that a short body is   *)
(* whole.  IInv adds where the pump can be (PumpMatches), what hyper's     *)
(* body has come to (SinkMatches), and that the pump returns only at the   *)
(* end of the payload or after an error frame (EndKnown).                  *)
(***************************************************************************)
EXTENDS RequestBody, TLAPS

USE FailureAssumption, MaxChunksAssumption

(* A chunk taken from the payload extends what has been taken by itself.   *)
LEMMA TakeOne ==
    ASSUME NEW S, NEW s \in Seq(S), NEW n \in Nat, n < Len(s)
    PROVE  SubSeq(s, 1, n + 1) = Append(SubSeq(s, 1, n), s[n + 1])
  OBVIOUS

(* A chunk that arrives joins the end of what had arrived.                  *)
LEMMA ArriveOne ==
    ASSUME NEW S, NEW s \in Seq(S), NEW c \in S, NEW t \in Seq(S)
    PROVE  Append(s, c) \o <<>> \o t = s \o <<c>> \o t
<1>1. Append(s, c) \o <<>> = Append(s, c)
  OBVIOUS
<1>2. s \o <<c>> = Append(s, c)
  OBVIOUS
<1> QED BY <1>1, <1>2

(* A chunk the client sends leaves what has been taken alone.              *)
LEMMA TakenStays ==
    ASSUME NEW S, NEW s \in Seq(S), NEW c \in S, NEW n \in 0 .. Len(s)
    PROVE  SubSeq(Append(s, c), 1, n) = SubSeq(s, 1, n)
  OBVIOUS

(* A frame, or none, carries at most one chunk.                            *)
LEMMA DataIsChunk ==
    ASSUME NEW s \in {NoFrame} \cup {<<f>> : f \in Frame}
    PROVE  Data(s) \in Seq(Chunk) /\ Len(Data(s)) <= 1
<1>1. CASE s = NoFrame \/ s = <<Failure>>
  <2>1. Data(s) = <<>>
    BY <1>1 DEF Data, NoFrame
  <2> QED BY <2>1
<1>2. CASE s \in {<<f>> : f \in Chunk}
  <2>1. PICK f \in Chunk : s = <<f>>
    BY <1>2
  <2>2. Data(s) = <<f>>
    BY <2>1 DEF Data
  <2> QED BY <2>2
<1> QED BY <1>1, <1>2 DEF Frame

(* The handler starts with the payload unread and without a channel.       *)
LEMMA InitIInv == Init => IInv
  BY DEF Init, IInv, TypeOK, InOrder, PumpMatches, SinkMatches, EndKnown,
         NoFrame

(* The client's steps keep it: an error frame or the payload's end is      *)
(* known only once the client's body has closed.                           *)
LEMMA ClientIInv ==
    ASSUME IInv, Client
    PROVE  IInv'
<1> USE DEF IInv
<1>1. CASE ClientSends
  <2>1. PICK c \in Chunk : sent' = Append(sent, c)
    BY <1>1 DEF ClientSends
  <2> USE <1>1, <2>1 DEF ClientSends, pumpVars, originVars
  <2>2. TypeOK'
    BY DEF TypeOK
  <2>3. InOrder'
    <3>1. SubSeq(sent', 1, read) = SubSeq(sent, 1, read)
      BY TakenStays DEF TypeOK
    <3>2. /\ Data(channel)' = Data(channel) /\ Data(frame)' = Data(frame)
          /\ UNCHANGED <<read, receiver, got>>
      BY DEF Data
    <3> QED BY ONLY IInv, <3>1, <3>2 DEF IInv, InOrder
  <2>4. PumpMatches' /\ SinkMatches' /\ EndKnown'
    BY DEF PumpMatches, SinkMatches, EndKnown, PayloadEnd, PayloadError
  <2> QED BY <2>2, <2>3, <2>4
<1>2. CASE ClientCloses
  BY <1>2 DEF ClientCloses, pumpVars, originVars, TypeOK, InOrder, Data,
              PumpMatches, SinkMatches, EndKnown, PayloadEnd, PayloadError
<1> QED BY <1>1, <1>2 DEF Client

(* A chunk that the handler or the pump takes from the payload is the next *)
(* one, and goes behind what is in the channel.                            *)
LEMMA TakeIInv ==
    ASSUME IInv, FirstChunk \/ NextChunk
    PROVE  IInv'
<1> USE DEF IInv
<1>0. /\ PayloadChunk /\ read' = read + 1
      /\ UNCHANGED <<sent, source, channel, got, sink>>
      /\ frame = NoFrame /\ frame' = <<sent[read + 1]>> /\ pump' = "send"
  BY DEF FirstChunk, NextChunk, PumpMatches, clientVars, originVars
<1>1. sent[read + 1] \in Chunk /\ frame' # <<Failure>> /\ frame' # NoFrame
  BY <1>0 DEF TypeOK, PayloadChunk, NoFrame
<1>2. TypeOK'
  BY <1>0, <1>1 DEF TypeOK, PayloadChunk, Frame, FirstChunk, NextChunk, originVars
<1>3. InOrder'
  <2> SUFFICES ASSUME receiver' = "open" PROVE InOrder'
    BY DEF InOrder
  <2>1. SubSeq(sent, 1, read) = got \o Data(channel)
    <3>1. CASE FirstChunk
      <4>1. read = 0 /\ got = <<>> /\ Data(channel) = <<>>
        BY <3>1 DEF FirstChunk, PumpMatches, Data, NoFrame
      <4>2. SubSeq(sent, 1, 0) = <<>> /\ <<>> \o <<>> = <<>>
        BY DEF TypeOK
      <4> QED BY ONLY <4>1, <4>2
    <3>2. CASE NextChunk
      BY <1>0, <3>2 DEF NextChunk, originVars, InOrder, Data, TypeOK, NoFrame
    <3> QED BY <3>1, <3>2
  <2>2. Data(channel) \in Seq(Chunk) /\ Len(Data(channel)) <= 1
    BY DataIsChunk DEF TypeOK
  <2>3. SubSeq(sent, 1, read + 1) = Append(SubSeq(sent, 1, read), sent[read + 1])
    BY <1>0, TakeOne DEF TypeOK, PayloadChunk
  <2>4. Data(channel)' = Data(channel) /\ Data(frame)' = <<sent[read + 1]>>
    BY <1>0, <1>1 DEF Data
  <2>5. SubSeq(sent, 1, read + 1)
          = got \o Data(channel) \o <<sent[read + 1]>>
    BY <1>1, <2>1, <2>2, <2>3 DEF TypeOK
  <2>6. read <= Len(got) + 1
    BY <2>1, <2>2 DEF TypeOK
  <2>7. SubSeq(sent', 1, read') = got' \o Data(channel)' \o Data(frame)'
    BY <1>0, <2>4, <2>5
  <2>8. read' <= Len(got') + 2
    BY <1>0, <2>6 DEF TypeOK
  <2> QED BY <2>7, <2>8 DEF InOrder
<1>4. PumpMatches'
  BY <1>0, <1>1 DEF PumpMatches, FirstChunk, NextChunk, originVars
<1>5. SinkMatches'
  BY <1>0 DEF PumpMatches, SinkMatches, FirstChunk, NextChunk, originVars
<1>6. EndKnown'
  BY <1>0, <1>1 DEF PumpMatches, EndKnown, FirstChunk, NextChunk, PayloadChunk, PayloadError, TypeOK
<1> QED BY <1>2, <1>3, <1>4, <1>5, <1>6

(* A handler that finds no first chunk, or is dropped, leaves no channel.  *)
LEMMA NoPumpIInv ==
    ASSUME IInv, NoFirstChunk \/ HandlerDropped
    PROVE  IInv'
  BY DEF IInv, NoFirstChunk, HandlerDropped, clientVars, TypeOK, InOrder,
         Data, PumpMatches, SinkMatches, EndKnown, PayloadEnd, PayloadError

(* sender.send moves the pump's frame into the empty channel.              *)
LEMMA SendFrameIInv ==
    ASSUME IInv, SendFrame
    PROVE  IInv'
<1> USE DEF IInv
<1>0. /\ channel = NoFrame /\ channel' = frame /\ frame' = NoFrame
      /\ pump = "send" /\ receiver = "open"
      /\ pump' = IF frame = <<Failure>> THEN "gone" ELSE "next"
      /\ UNCHANGED <<sent, source, read, receiver, got, sink>>
  BY DEF SendFrame, TypeOK, NoFrame, Capacity, Closed, PumpMatches,
         clientVars, originVars
<1>1. TypeOK'
  BY <1>0 DEF TypeOK
<1>2. InOrder'
  <2>1. Data(NoFrame) = <<>> /\ Data(frame) \in Seq(Chunk)
    BY DataIsChunk DEF Data, TypeOK, NoFrame
  <2>2. got \o Data(channel) \o Data(frame) = got \o Data(frame) \o <<>>
    BY <1>0, <2>1 DEF TypeOK
  <2>3. Data(channel)' = Data(frame) /\ Data(frame)' = <<>>
    BY <1>0, <2>1 DEF Data
  <2> QED BY <1>0, <2>2, <2>3 DEF InOrder
<1>3. PumpMatches' /\ SinkMatches'
  BY <1>0 DEF PumpMatches, SinkMatches
<1>4. EndKnown'
  BY <1>0 DEF EndKnown, PayloadEnd, PayloadError, PumpMatches, NoFrame
<1> QED BY <1>1, <1>2, <1>3, <1>4

(* The pump's other steps carry no chunk.                                  *)
LEMMA PumpEndsIInv ==
    ASSUME IInv, SendClosed \/ NextError \/ NextEnd
    PROVE  IInv'
<1> USE DEF IInv
<1>1. CASE SendClosed
  BY <1>1 DEF SendClosed, Closed, clientVars, originVars, TypeOK, InOrder,
       PumpMatches, SinkMatches, EndKnown, PayloadEnd, PayloadError, NoFrame
<1>2. CASE NextError
  <2>1. /\ frame = NoFrame /\ frame' = <<Failure>>
        /\ UNCHANGED <<sent, source, read, channel, receiver, got, sink>>
    BY <1>2 DEF NextError, PumpMatches, clientVars, originVars
  <2>2. Data(frame)' = <<>> /\ Data(frame) = <<>> /\ Data(channel)' = Data(channel)
    BY <2>1 DEF Data, NoFrame
  <2>3. InOrder'
    BY <2>1, <2>2 DEF InOrder
  <2>4. TypeOK' /\ PumpMatches' /\ SinkMatches' /\ EndKnown'
    BY <1>2, <2>1 DEF NextError, TypeOK, Frame, PumpMatches, SinkMatches,
         EndKnown, PayloadEnd, PayloadError, NoFrame
  <2> QED BY <2>3, <2>4
<1>3. CASE NextEnd
  BY <1>3 DEF NextEnd, clientVars, originVars, TypeOK, InOrder, Data,
       PumpMatches, SinkMatches, EndKnown, PayloadEnd, PayloadError, NoFrame
<1> QED BY <1>1, <1>2, <1>3

(* The chunk that hyper takes from the channel is the one the origin waits *)
(* for.                                                                    *)
LEMMA ReceivedIsNext ==
    ASSUME IInv, ReceiveChunk
    PROVE  \E c \in Chunk :
             /\ channel = <<c>> /\ got' = Append(got, c)
             /\ Len(got) < Len(sent) /\ c = sent[Len(got) + 1]
<1>1. PICK c \in Chunk : channel = <<c>>
  BY DEF IInv, TypeOK, Frame, ReceiveChunk
<1>2. Data(channel) = <<c>> /\ Data(frame) \in Seq(Chunk)
  BY <1>1, DataIsChunk DEF Data, IInv, TypeOK
<1>3. SubSeq(sent, 1, read) = (got \o <<c>>) \o Data(frame)
  BY <1>2 DEF IInv, InOrder, ReceiveChunk
<1>4. got' = Append(got, c)
  BY <1>1 DEF ReceiveChunk, IInv, TypeOK
<1>5. Len(SubSeq(sent, 1, read)) = read /\ read <= Len(sent)
  BY DEF IInv, TypeOK
<1>6. Len(got) + 1 <= read
  BY <1>2, <1>3, <1>5 DEF IInv, TypeOK
<1>7. SubSeq(sent, 1, read)[Len(got) + 1] = c
  BY <1>2, <1>3 DEF IInv, TypeOK
<1>8. SubSeq(sent, 1, read)[Len(got) + 1] = sent[Len(got) + 1]
  BY <1>6 DEF IInv, TypeOK
<1> QED BY <1>1, <1>4, <1>5, <1>6, <1>7, <1>8 DEF IInv, TypeOK

(* hyper's steps keep it: what leaves the channel has arrived, or the body *)
(* is over.                                                                *)
LEMMA HyperIInv ==
    ASSUME IInv, Hyper
    PROVE  IInv'
<1> USE DEF IInv
<1>1. CASE ReceiveChunk
  <2>1. PICK c \in Chunk : channel = <<c>> /\ got' = Append(got, c)
    BY <1>1, ReceivedIsNext
  <2>2. /\ channel' = NoFrame /\ receiver = "open"
        /\ UNCHANGED <<sent, source, read, pump, frame, receiver, sink>>
    BY <1>1 DEF ReceiveChunk, clientVars, pumpVars
  <2>3. TypeOK'
    BY <2>1, <2>2 DEF TypeOK
  <2>4. InOrder'
    <3>1. Data(channel) = <<c>> /\ Data(frame) \in Seq(Chunk)
      BY <2>1, DataIsChunk DEF Data, TypeOK
    <3>2. Data(channel)' = <<>> /\ Data(frame)' = Data(frame)
      BY <2>2 DEF Data, NoFrame
    <3>3. got' \o <<>> \o Data(frame) = got \o <<c>> \o Data(frame)
      <4>1. got \in Seq(Chunk)
        BY DEF TypeOK
      <4> QED BY ONLY <2>1, <3>1, <4>1, ArriveOne
    <3>4. Len(got') = Len(got) + 1
      BY <2>1 DEF TypeOK
    <3>5. SubSeq(sent, 1, read) = got \o <<c>> \o Data(frame) /\ read <= Len(got) + 2
      BY <2>2, <3>1 DEF InOrder
    <3>6. SubSeq(sent', 1, read') = got' \o Data(channel)' \o Data(frame)'
      BY ONLY <2>2, <3>2, <3>3, <3>5
    <3>7. read' <= Len(got') + 2
      BY <2>2, <3>4, <3>5 DEF TypeOK
    <3> QED BY ONLY <3>6, <3>7 DEF InOrder
  <2>5. PumpMatches' /\ SinkMatches'
    BY <2>2 DEF PumpMatches, SinkMatches
  <2>6. EndKnown'
    BY <2>1, <2>2 DEF EndKnown, PayloadEnd, PayloadError, NoFrame
  <2> QED BY <2>3, <2>4, <2>5, <2>6
<1>2. CASE ReceiveError \/ ReceiveEnd \/ RequestEnds
  BY <1>2 DEF ReceiveError, ReceiveEnd, RequestEnds, clientVars, pumpVars,
       TypeOK, InOrder, PumpMatches, SinkMatches, EndKnown, PayloadEnd,
       PayloadError, NoFrame
<1> QED BY <1>1, <1>2 DEF Hyper

(* IInv holds in every reachable state of the request body.                *)
THEOREM Inductive == Spec => []IInv
<1>1. IInv /\ [Next]_vars => IInv'
  <2> SUFFICES ASSUME IInv, [Next]_vars PROVE IInv'
    OBVIOUS
  <2>1. CASE Next
    BY <2>1, ClientIInv, TakeIInv, NoPumpIInv, SendFrameIInv, PumpEndsIInv,
       HyperIInv DEF Next, Handler, Pump
  <2>2. CASE UNCHANGED vars
    BY <2>2 DEF vars, clientVars, pumpVars, originVars, IInv, TypeOK, InOrder,
         Data, PumpMatches, SinkMatches, EndKnown, PayloadEnd, PayloadError
  <2> QED BY <2>1, <2>2
<1> QED BY InitIInv, <1>1, PTL DEF Spec

(* Chunks arrive in the order the client sent them, none is lost on the    *)
(* way (the first, which request_body reads itself, included), and the     *)
(* proxy never holds more than two.                                        *)
THEOREM OrderKept == Spec => []InOrder
<1>1. IInv => InOrder
  BY DEF IInv
<1> QED BY <1>1, Inductive, PTL

(* The request body is a transfer: every step of the handler, the pump,    *)
(* hyper and the client is a step of Transfer or changes nothing of it, so *)
(* a client that leaves half way never leaves the origin with a short body *)
(* that looks complete (pump_request_body).                                *)
THEOREM Implements == Spec => ImplementsTransfer
<1>1. Init => T!Init
  BY DEF Init, T!Init
<1>2. IInv /\ [Next]_vars => [T!Next]_(T!vars)
  <2> SUFFICES ASSUME IInv, [Next]_vars PROVE [T!Next]_(T!vars)
    OBVIOUS
  <2> USE DEF T!vars
  <2>1. CASE ClientSends
    BY <2>1 DEF ClientSends, originVars, T!Next, T!Produce
  <2>2. CASE ClientCloses
    BY <2>2 DEF ClientCloses, originVars, T!Next, T!Close
  <2>3. CASE NoFirstChunk
    <3>1. CASE PayloadEnd /\ sink' = "whole"
      <4>1. got = sent
        BY <2>3, <3>1 DEF NoFirstChunk, PayloadEnd, IInv, PumpMatches, TypeOK
      <4> QED BY <2>3, <3>1, <4>1
              DEF NoFirstChunk, PayloadEnd, clientVars, T!Next, T!Complete
    <3>2. CASE sink' = "broken"
      BY <2>3, <3>2 DEF NoFirstChunk, clientVars, T!Next, T!BreakOff
    <3> QED BY <2>3, <3>1, <3>2 DEF NoFirstChunk
  <2>4. CASE ReceiveChunk
    BY <2>4, ReceivedIsNext
       DEF ReceiveChunk, clientVars, IInv, SinkMatches, T!Next, T!Deliver
  <2>5. CASE ReceiveEnd
    <3>1. PayloadEnd
      BY <2>5 DEF ReceiveEnd, IInv, EndKnown, NoFrame
    <3>2. Data(channel) = <<>> /\ Data(frame) = <<>>
      BY <2>5 DEF ReceiveEnd, IInv, PumpMatches, Data, NoFrame
    <3>3. got = sent
      BY <2>5, <3>1, <3>2 DEF ReceiveEnd, PayloadEnd, IInv, InOrder, TypeOK
    <3> QED BY <2>5, <3>1, <3>3 DEF ReceiveEnd, PayloadEnd, clientVars, IInv,
               SinkMatches, T!Next, T!Complete
  <2>6. CASE HandlerDropped \/ ReceiveError \/ RequestEnds
    BY <2>6 DEF HandlerDropped, ReceiveError, RequestEnds, clientVars, IInv,
         SinkMatches, T!Next, T!BreakOff
  <2>7. CASE FirstChunk \/ Pump
    BY <2>7 DEF FirstChunk, Pump, SendFrame, SendClosed, NextChunk, NextError,
         NextEnd, clientVars, originVars
  <2>8. CASE UNCHANGED vars
    BY <2>8 DEF vars, clientVars, originVars
  <2> QED BY <2>1, <2>2, <2>3, <2>4, <2>5, <2>6, <2>7, <2>8
          DEF Next, Client, Handler, Hyper
<1> QED BY <1>1, <1>2, Inductive, PTL DEF Spec, ImplementsTransfer, T!Spec
=============================================================================
